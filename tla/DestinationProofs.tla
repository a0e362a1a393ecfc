-------------------------- MODULE DestinationProofs -------------------------
(***************************************************************************)
(* Theorems about both ends of a destination: its retirement, for any      *)
(* number of destinations and whatever their hooks and disposals do, and   *)
(* the transports its connections run over, for any stream of bytes and    *)
(* any way it is cut.                                                      *)
(***************************************************************************)
EXTENDS DestinationRetirement, RoutedTransport, FiniteSetTheorems, SequenceTheorems,
        WellFoundedInduction, TLAPS

(***************************************************************************)
(* Retirement.  The graphs                                                 *)
(***************************************************************************)
Acyclic(edges) ==
  \A S \in SUBSET {e[1] : e \in edges} :
    (\A x \in S : \E y \in S : <<x, y>> \in edges) => S = {}

\* Whatever set each of whose members leads back into it is empty.
LEMMA NoLoop ==
  ASSUME NEW E, Acyclic(E), NEW S, \A x \in S : \E y \in S : <<x, y>> \in E
  PROVE  S = {}
<1>1. S \subseteq {e[1] : e \in E}
  <2> SUFFICES ASSUME NEW x \in S PROVE x \in {e[1] : e \in E}
    OBVIOUS
  <2>1. PICK y \in S : <<x, y>> \in E
    OBVIOUS
  <2>2. <<x, y>>[1] = x
    OBVIOUS
  <2> QED BY <2>1, <2>2
<1> QED BY <1>1 DEF Acyclic

LEMMA FewerEdges ==
  ASSUME NEW E, NEW F, Acyclic(E), F \subseteq E
  PROVE  Acyclic(F)
<1> SUFFICES ASSUME NEW S, \A x \in S : \E y \in S : <<x, y>> \in F
             PROVE  S = {}
  BY DEF Acyclic
<1>1. \A x \in S : \E y \in S : <<x, y>> \in E
  OBVIOUS
<1> QED BY <1>1, NoLoop

\* joinWouldCycle: an edge to b closes no cycle if a set that holds with each
\* node those it leads to has b in it, and not a.
LEMMA SafeEdge ==
  ASSUME NEW E, Acyclic(E), NEW C, NEW a, NEW b, a \notin C, b \in C, Closed(E, C)
  PROVE  Acyclic(E \cup {<<a, b>>})
<1> SUFFICES ASSUME NEW S,
                    \A x \in S : \E y \in S : <<x, y>> \in E \cup {<<a, b>>}
             PROVE  S = {}
  BY DEF Acyclic
<1>1. \A x \in S \cap C : \E y \in S \cap C : <<x, y>> \in E
  <2> SUFFICES ASSUME NEW x \in S, x \in C
               PROVE  \E y \in S \cap C : <<x, y>> \in E
    OBVIOUS
  <2>1. PICK y \in S : <<x, y>> \in E \cup {<<a, b>>}
    OBVIOUS
  <2>2. <<x, y>> \in E
    BY <2>1
  <2>3. <<x, y>>[1] = x /\ <<x, y>>[2] = y
    OBVIOUS
  <2>4. y \in C
    BY <2>2, <2>3 DEF Closed
  <2> QED BY <2>2, <2>4
<1>2. S \cap C = {}
  BY <1>1, NoLoop
<1>3. \A x \in S : \E y \in S : <<x, y>> \in E
  <2> SUFFICES ASSUME NEW x \in S PROVE \E y \in S : <<x, y>> \in E
    OBVIOUS
  <2>1. PICK y \in S : <<x, y>> \in E \cup {<<a, b>>}
    OBVIOUS
  <2>2. y # b
    BY <1>2
  <2> QED BY <2>1, <2>2
<1> QED BY <1>3, NoLoop

(***************************************************************************)
(* The invariant                                                           *)
(***************************************************************************)
\* The tasks of a retirement, by its state
TasksFit ==
  /\ \A t \in Hooks :
       /\ State("generation", t[2]) = "active" => task[t].pc = "idle"
       /\ State("generation", t[2]) \in Settled => task[t].pc \in {"ended", "failed"}
  /\ \A g \in Generations :
       /\ State("runtime", g) = "active" => task[<<"body", g>>].pc = "idle"
       /\ State("runtime", g) \in Settled =>
            task[<<"body", g>>].pc \in {"ended", "failed"}

\* The opens admitted before a retirement are in its drain.
OpensFit ==
  /\ \A o \in Opens :
       /\ opening[o].pc # "idle" => opening[o].of \in Generations
       /\ opening[o].pc \in {"disposing", "disposed", "leaked"} =>
            State("generation", opening[o].of) # "active"
       /\ opening[o].pc \in {"opening", "disposing"} =>
            /\ State("generation", opening[o].of) \notin Settled
            /\ State("generation", opening[o].of) = "retiring" =>
                 o \in retirement["generation"][opening[o].of].drain
       /\ opening[o].pc = "leaked" /\ State("generation", opening[o].of) = "retiring" =>
            o \in retirement["generation"][opening[o].of].drain
       /\ task[<<"disposal", o>>].pc \in {"running", "waiting"} =>
            opening[o].pc = "disposing"
  /\ \A g \in Generations : \A o \in retirement["generation"][g].drain :
       opening[o].pc # "idle" /\ opening[o].of = g

\* A retirement runs inside of others that have begun.
OwnersOf(context, l) == context[l].owners \cup ({context[l].owner} \ {None})
OwnersBegun ==
  \A l, m \in Layers : \A g \in Generations :
    \A x \in OwnersOf(retirement[l][g].inherited, m) : State(m, x) # "active"

\* Users hold generations, or runtimes: then a generation retires on behalf
\* of its runtime, which waits for it.
EntryFits ==
  /\ entry = "generation" => \A g \in Generations : State("runtime", g) = "active"
  /\ entry = "runtime" => \A g \in Generations :
       /\ State("generation", g) # "active" => task[<<"body", g>>].pc # "idle"
       /\ State("generation", g) = "retiring" =>
            /\ task[<<"body", g>>].pc = "waiting"
            /\ retirement["generation"][g].inherited["runtime"].owner = g

\* Whoever waits is in the graph.
HolderOf(t) == IF t \in Disposals THEN opening[t[2]].of ELSE t[2]
WaitsTracked ==
  \A t \in Tasks : task[t].pc = "waiting" =>
    /\ task[t].on \in Generations
    /\ t \in Bodies => task[t].layer = "generation" /\ task[t].on = t[2]
    /\ t \notin Bodies =>
         /\ task[t].layer = entry
         /\ t \in Disposals => entry \in Reentrant
         /\ (t \in Hooks \/ entry = "generation")
              /\ State(entry, task[t].on) \notin Settled =>
                   <<HolderOf(t), task[t].on>> \in dependencies[entry]

GraphsSound ==
  NoStaleDependency /\ \A l \in Layers : Acyclic(dependencies[l])

RetirementInv ==
  /\ TypeOK /\ TasksFit /\ OpensFit /\ OwnersBegun /\ EntryFits
  /\ WaitsTracked /\ GraphsSound /\ SettledMeansDone

\* A task is a hook, a body or a disposal, as its first component says.
LEMMA TaskKinds ==
  /\ \A t \in Hooks : t[1] = "hook" /\ t[2] \in Generations
  /\ \A t \in Bodies : t[1] = "body" /\ t[2] \in Generations /\ t = <<"body", t[2]>>
  /\ \A t \in Disposals : t[1] = "disposal" /\ t[2] \in Opens /\ t = <<"disposal", t[2]>>
  /\ \A g \in Generations : <<"body", g>> \in Bodies
  /\ \A o \in Opens : <<"disposal", o>> \in Disposals
BY DEF Hooks, Bodies, Disposals

LEMMA InitKeeps == Init => RetirementInv
<1> SUFFICES ASSUME Init PROVE RetirementInv
  OBVIOUS
<1> USE DEF Init, Unretired, Idle, State, Layers, Settled
<1>1. TypeOK
  BY RetirementAssumption DEF TypeOK, Contexts, Outer
<1>2. TasksFit
  BY TaskKinds DEF TasksFit, Tasks
<1>3a. OpensFit
  BY TaskKinds DEF OpensFit, Tasks
<1>3. OwnersBegun /\ EntryFits
  BY DEF OwnersBegun, EntryFits, OwnersOf, Outer, Bodies, Tasks
<1>4. WaitsTracked
  BY DEF WaitsTracked
<1>5. GraphsSound
  BY DEF GraphsSound, NoStaleDependency, Acyclic
<1>6. SettledMeansDone
  BY DEF SettledMeansDone
<1> QED BY <1>1, <1>2, <1>3a, <1>3, <1>4, <1>5, <1>6 DEF RetirementInv

(***************************************************************************)
(* retire()                                                                *)
(***************************************************************************)
\* The retirements a call runs inside of have begun.
Sound(context) ==
  /\ context \in Contexts
  /\ \A m \in Layers : \A x \in OwnersOf(context, m) : State(m, x) # "active"

LEMMA OuterSound == Sound(Outer)
BY DEF Sound, Outer, Contexts, OwnersOf

LEMMA InsideSound ==
  ASSUME NEW context, Sound(context), NEW l \in Layers, NEW g \in Generations,
         State(l, g) # "active"
  PROVE  /\ Sound(Inside(context, l, g))
         /\ Inside(context, l, g)[l].owner = g
         /\ \A m \in Layers \ {l} : Inside(context, l, g)[m] = context[m]
BY DEF Sound, Inside, Contexts, OwnersOf

LEMMA InheritedSound ==
  ASSUME RetirementInv, NEW l \in Layers, NEW g \in Generations
  PROVE  Sound(retirement[l][g].inherited)
BY DEF RetirementInv, TypeOK, OwnersBegun, Sound

LEMMA ContextSound ==
  ASSUME RetirementInv, NEW t \in Tasks,
         IF t \in Bodies THEN State("runtime", t[2]) # "active" ELSE task[t].pc = "running"
  PROVE  /\ Sound(ContextOf(t))
         /\ t \notin Bodies => ContextOf(t)["generation"].owner = HolderOf(t)
         /\ t \in Bodies => ContextOf(t)["runtime"].owner = t[2]
         /\ t \in Bodies => ContextOf(t)["generation"]
                             = retirement["runtime"][t[2]].inherited["generation"]
         /\ t \in Hooks => ContextOf(t)["runtime"]
                            = retirement["generation"][t[2]].inherited["runtime"]
<1> USE DEF Layers
<1>1. CASE t \in Hooks
  <2>1. t[1] = "hook" /\ t[2] \in Generations /\ t \notin Bodies /\ t \notin Disposals
    BY <1>1, TaskKinds
  <2>2. State("generation", t[2]) # "active"
    BY <1>1, <2>1 DEF RetirementInv, TasksFit
  <2>3. ContextOf(t) = Inside(retirement["generation"][t[2]].inherited, "generation", t[2])
    BY <2>1 DEF ContextOf
  <2> QED BY <2>1, <2>2, <2>3, InheritedSound, InsideSound DEF HolderOf
<1>2. CASE t \in Bodies
  <2>1. t[1] = "body" /\ t[2] \in Generations /\ t \notin Hooks
    BY <1>2, TaskKinds
  <2>2. ContextOf(t) = Inside(retirement["runtime"][t[2]].inherited, "runtime", t[2])
    BY <2>1 DEF ContextOf
  <2> QED BY <1>2, <2>1, <2>2, InheritedSound, InsideSound
<1>3. CASE t \in Disposals
  <2>1. t[1] = "disposal" /\ t[2] \in Opens /\ t = <<"disposal", t[2]>>
        /\ t \notin Bodies /\ t \notin Hooks
    BY <1>3, TaskKinds
  <2>2. opening[t[2]].pc = "disposing"
    BY <1>3, <2>1 DEF RetirementInv, OpensFit
  <2>3. opening[t[2]].of \in Generations /\ State("generation", opening[t[2]].of) # "active"
    BY <2>1, <2>2 DEF RetirementInv, OpensFit
  <2>4. ContextOf(t) = Inside(Outer, "generation", opening[t[2]].of)
    BY <2>1 DEF ContextOf
  <2> QED BY <1>3, <2>1, <2>3, <2>4, OuterSound, InsideSound DEF HolderOf
<1> QED BY <1>1, <1>2, <1>3 DEF Tasks

\* What a call of retire() leaves as it is, and what it begins
LEMMA Began ==
  ASSUME RetirementInv, NEW l \in Layers, NEW g \in Generations, NEW context,
         Sound(context), Begins(l, g, context)
  PROVE  /\ retirement' \in [Layers -> [Generations ->
                [state : {"active", "retiring"} \cup Settled,
                 inherited : Contexts, drain : SUBSET Opens]]]
         /\ \A m \in Layers, h \in Generations :
              m # l \/ h # g \/ State(l, g) # "active" =>
                retirement'[m][h] = retirement[m][h]
         /\ IF State(l, g) = "active" /\ ~Inherits(l, g, context)
            THEN retirement'[l][g] = Begun(l, g, context)
            ELSE retirement'[l][g] = retirement[l][g]
         /\ \A m \in Layers, h \in Generations :
              State(m, h) # "active" => State(m, h)' = State(m, h)
<1> USE DEF Begins, State
<1>1. retirement \in [Layers -> [Generations ->
         [state : {"active", "retiring"} \cup Settled,
          inherited : Contexts, drain : SUBSET Opens]]]
  BY DEF RetirementInv, TypeOK
<1>2. Begun(l, g, context) \in [state : {"active", "retiring"} \cup Settled,
                                inherited : Contexts, drain : SUBSET Opens]
  BY DEF Begun, InFlight, Sound
<1>3. CASE State(l, g) = "active" /\ ~Inherits(l, g, context)
  BY <1>1, <1>2, <1>3
<1>4. CASE ~(State(l, g) = "active" /\ ~Inherits(l, g, context))
  BY <1>1, <1>4
<1> QED BY <1>3, <1>4

\* The graph stays sound when a call inside of a retirement is recorded.
LEMMA TrackKeeps ==
  ASSUME RetirementInv, NEW l \in Layers, NEW g \in Generations, NEW context,
         Sound(context), Begins(l, g, context),
         dependencies' = TrackJoin(l, g, context)
  PROVE  /\ GraphsSound'
         /\ dependencies' \in [Layers -> SUBSET (Generations \X Generations)]
         /\ \A m \in Layers : dependencies[m] \subseteq dependencies'[m]
<1> DEFINE owner == context[l].owner
<1>1. dependencies \in [Layers -> SUBSET (Generations \X Generations)]
  BY DEF RetirementInv, TypeOK
<1>2. \A m \in Layers, h \in Generations : State(m, h) # "active" => State(m, h)' = State(m, h)
  BY Began
<1>3. \A m \in Layers : \A d \in dependencies[m] : d[1] \in Generations /\ d[2] \in Generations
  BY <1>1
<1>4. \A m \in Layers : \A d \in dependencies[m] :
        State(m, d[1])' = "retiring" /\ State(m, d[2])' = "retiring"
  BY <1>2, <1>3 DEF RetirementInv, GraphsSound, NoStaleDependency
<1>5. CASE dependencies' = dependencies
  BY <1>1, <1>4, <1>5 DEF RetirementInv, GraphsSound, NoStaleDependency
<1>6. CASE dependencies' # dependencies
  <2>1. /\ ~Acknowledges(l, g, context) /\ owner # None
        /\ State(l, g) \notin Settled /\ State(l, owner) \notin Settled
        /\ dependencies' = [dependencies EXCEPT ![l] = @ \cup {<<owner, g>>}]
    BY <1>6 DEF TrackJoin
  <2>2. owner \in Generations /\ owner \in OwnersOf(context, l)
    BY <2>1 DEF Sound, Contexts, OwnersOf
  <2>3. State(l, owner) = "retiring" /\ State(l, owner)' = "retiring"
    <3>1. State(l, owner) \in {"active", "retiring"} \cup Settled
      BY <2>2 DEF RetirementInv, TypeOK, State
    <3>2. State(l, owner) # "active"
      BY <2>2 DEF Sound
    <3> QED BY <1>2, <2>1, <2>2, <3>1, <3>2
  <2>4. State(l, g)' = "retiring"
    <3>1. State(l, g) \in {"active", "retiring"} \cup Settled
      BY DEF RetirementInv, TypeOK, State
    <3>2. ~Inherits(l, g, context)
      BY <2>1 DEF Acknowledges
    <3>3. CASE State(l, g) = "active"
      <4>1. retirement'[l][g] = Begun(l, g, context)
        BY <3>2, <3>3, Began
      <4> QED BY <4>1 DEF State, Begun
    <3> QED BY <1>2, <2>1, <3>1, <3>3
  <2>5. PICK C \in SUBSET Generations :
          g \in C /\ owner \notin C /\ Closed(dependencies[l], C)
    BY <2>1 DEF Acknowledges, JoinsCycle, JoinWouldCycle, Reaches
  <2>6. Acyclic(dependencies[l] \cup {<<owner, g>>})
    BY <2>5, SafeEdge DEF RetirementInv, GraphsSound
  <2>7. /\ dependencies'[l] = dependencies[l] \cup {<<owner, g>>}
        /\ \A m \in Layers \ {l} : dependencies'[m] = dependencies[m]
    BY <1>1, <2>1
  <2>8. \A m \in Layers : Acyclic(dependencies'[m])
    BY <2>6, <2>7 DEF RetirementInv, GraphsSound
  <2>9. NoStaleDependency'
    <3> SUFFICES ASSUME NEW m \in Layers, NEW d \in dependencies'[m]
                 PROVE  State(m, d[1])' = "retiring" /\ State(m, d[2])' = "retiring"
      BY DEF NoStaleDependency
    <3>1. CASE d \in dependencies[m]
      BY <1>4, <3>1
    <3>2. CASE m = l /\ d = <<owner, g>>
      BY <2>3, <2>4, <3>2
    <3> QED BY <2>7, <3>1, <3>2
  <2>10. dependencies' \in [Layers -> SUBSET (Generations \X Generations)]
    BY <1>1, <2>1, <2>2
  <2> QED BY <2>7, <2>8, <2>9, <2>10 DEF GraphsSound
<1> QED BY <1>5, <1>6

\* What begins is inside of retirements that have begun, and its opens in
\* flight are in its drain.
LEMMA BeganKeeps ==
  ASSUME RetirementInv, NEW l \in Layers, NEW g \in Generations, NEW context,
         Sound(context), Begins(l, g, context)
  PROVE  OwnersBegun'
<1> SUFFICES ASSUME NEW k \in Layers, NEW m \in Layers, NEW h \in Generations,
                    NEW x \in OwnersOf(retirement'[k][h].inherited, m)
             PROVE  State(m, x)' # "active"
  BY DEF OwnersBegun, OwnersOf
<1>1. \/ retirement'[k][h].inherited = retirement[k][h].inherited
      \/ retirement'[k][h].inherited = context
  <2>1. CASE k = l /\ h = g /\ State(l, g) = "active" /\ ~Inherits(l, g, context)
    <3>1. retirement'[k][h] = Begun(l, g, context)
      BY <2>1, Began
    <3> QED BY <3>1 DEF Begun
  <2>2. CASE k = l /\ h = g /\ Inherits(l, g, context)
    BY <2>2, Began
  <2>3. CASE k # l \/ h # g \/ State(l, g) # "active"
    BY <2>3, Began
  <2> QED BY <2>1, <2>2, <2>3
<1>2. Sound(retirement[k][h].inherited)
  BY InheritedSound
<1>3. x \in Generations /\ State(m, x) # "active"
  BY <1>1, <1>2 DEF Sound, OwnersOf, Contexts
<1>4. State(m, x)' = State(m, x)
  BY <1>3, Began
<1> QED BY <1>3, <1>4

\* The drain of a retirement that begins has all that is under way.
LEMMA DrainKeeps ==
  ASSUME RetirementInv, NEW l \in Layers, NEW g \in Generations, NEW context,
         Sound(context), Begins(l, g, context), opening' = opening,
         \A o \in Opens : task'[<<"disposal", o>>].pc \in {"running", "waiting"} =>
                           task[<<"disposal", o>>].pc \in {"running", "waiting"}
  PROVE  OpensFit'
<1> USE DEF Layers
<1>1. \A h \in Generations :
        \/ retirement'["generation"][h] = retirement["generation"][h]
        \/ /\ State("generation", h) = "active"
           /\ retirement'["generation"][h].state = "retiring"
           /\ retirement'["generation"][h].drain = InFlight(h)
  <2> SUFFICES ASSUME NEW h \in Generations,
                      retirement'["generation"][h] # retirement["generation"][h]
               PROVE  /\ State("generation", h) = "active"
                      /\ retirement'["generation"][h].state = "retiring"
                      /\ retirement'["generation"][h].drain = InFlight(h)
    OBVIOUS
  <2>1. l = "generation" /\ h = g /\ State("generation", h) = "active"
    BY Began
  <2>2. retirement'["generation"][h] = Begun(l, g, context)
    BY <2>1, Began
  <2> QED BY <2>1, <2>2 DEF Begun
<1>2. \A h \in Generations : \A o \in InFlight(h) :
        opening[o].pc \in {"opening", "disposing"} /\ opening[o].of = h
  BY DEF InFlight
<1>3. \A o \in Opens, h \in Generations :
        opening[o].pc \in {"opening", "disposing"} /\ opening[o].of = h => o \in InFlight(h)
  BY DEF InFlight
<1>4. OpensFit
  BY DEF RetirementInv
<1>5. ASSUME NEW o \in Opens
      PROVE  /\ opening[o].pc # "idle" => opening[o].of \in Generations
             /\ opening[o].pc \in {"disposing", "disposed", "leaked"} =>
                  State("generation", opening[o].of)' # "active"
             /\ opening[o].pc \in {"opening", "disposing"} =>
                  /\ State("generation", opening[o].of)' \notin Settled
                  /\ State("generation", opening[o].of)' = "retiring" =>
                       o \in retirement'["generation"][opening[o].of].drain
             /\ opening[o].pc = "leaked" /\ State("generation", opening[o].of)' = "retiring" =>
                  o \in retirement'["generation"][opening[o].of].drain
             /\ task'[<<"disposal", o>>].pc \in {"running", "waiting"} =>
                  opening[o].pc = "disposing"
  <2>1. CASE opening[o].pc = "idle"
    BY <1>4, <2>1 DEF OpensFit
  <2>2. CASE opening[o].pc # "idle"
    <3>1. opening[o].of \in Generations
      BY <1>4, <2>2 DEF OpensFit
    <3>2. CASE retirement'["generation"][opening[o].of] = retirement["generation"][opening[o].of]
      BY <1>4, <3>1, <3>2 DEF OpensFit, State
    <3>3. CASE /\ State("generation", opening[o].of) = "active"
               /\ retirement'["generation"][opening[o].of].state = "retiring"
               /\ retirement'["generation"][opening[o].of].drain = InFlight(opening[o].of)
      BY <1>3, <1>4, <3>1, <3>3 DEF OpensFit, State, Settled
    <3> QED BY <1>1, <3>1, <3>2, <3>3
  <2> QED BY <2>1, <2>2
<1>6. ASSUME NEW h \in Generations, NEW o \in retirement'["generation"][h].drain
      PROVE  opening[o].pc # "idle" /\ opening[o].of = h
  <2>1. CASE retirement'["generation"][h] = retirement["generation"][h]
    BY <1>4, <2>1 DEF OpensFit
  <2>2. CASE retirement'["generation"][h].drain = InFlight(h)
    BY <1>2, <2>2
  <2> QED BY <1>1, <2>1, <2>2
<1> QED BY <1>5, <1>6 DEF OpensFit, State

\* The state of a task that calls retire(), and what the call does to it
Called(t, l, g, awaited, after) ==
  \/ /\ t \notin Bodies /\ task[t].pc = "running" /\ l = entry
     /\ t \in Disposals => entry \in Reentrant
  \/ /\ t = <<"body", g>> /\ task[t].pc = "idle" /\ l = "generation" /\ awaited
     /\ State("runtime", g) = "retiring"

\* A runtime's retirement waits for the generation's, which it begins.
LEMMA BodyWaits ==
  ASSUME RetirementInv, NEW g \in Generations,
         task[<<"body", g>>].pc = "idle", State("runtime", g) = "retiring"
  PROVE  /\ entry = "runtime" /\ State("generation", g) = "active"
         /\ ~Acknowledges("generation", g, ContextOf(<<"body", g>>))
<1> DEFINE t == <<"body", g>>
           context == ContextOf(t)
<1>1. t \in Bodies /\ t \in Tasks /\ t[2] = g
  BY TaskKinds DEF Tasks
<1>2. entry = "runtime" /\ State("generation", g) = "active"
  BY DEF RetirementInv, EntryFits, TypeOK, Layers
<1>3. Sound(context)
  BY <1>1, ContextSound
<1>4. g \notin OwnersOf(context, "generation")
  BY <1>2, <1>3 DEF Sound, Layers
<1>5. ~Inherits("generation", g, context)
  BY <1>4 DEF Inherits, OwnersOf
<1>6. ASSUME JoinsCycle("generation", g, context) PROVE FALSE
  <2>1. Closed(dependencies["generation"], {g})
    BY <1>2 DEF Closed, RetirementInv, GraphsSound, NoStaleDependency, Layers
  <2>2. context["generation"].owner # None /\ context["generation"].owner = g
    BY <1>6, <2>1 DEF JoinsCycle, JoinWouldCycle, Reaches
  <2> QED BY <1>4, <2>2 DEF OwnersOf
<1> QED BY <1>2, <1>5, <1>6 DEF Acknowledges

TaskType ==
  [pc : {"idle", "running", "waiting", "ended", "failed"},
   on : Generations \cup {None}, layer : Layers \cup {None},
   calls : 0..MaxCalls, reply : {None} \cup Settled]

LEMMA RetiresKeeps ==
  ASSUME RetirementInv, NEW t \in Tasks, NEW l \in Layers, NEW g \in Generations,
         NEW awaited \in BOOLEAN, NEW after \in TaskType, after.pc = "running",
         Called(t, l, g, awaited, after), Retires(t, l, g, awaited, after),
         entry' = entry, opening' = opening
  PROVE  RetirementInv'
<1> DEFINE context == ContextOf(t)
           waits == awaited /\ ~Acknowledges(l, g, context)
           next == IF waits THEN [after EXCEPT !.pc = "waiting", !.on = g, !.layer = l]
                   ELSE after
<1>1. Sound(context)
  BY ContextSound, TaskKinds DEF Called
<1>2. /\ Begins(l, g, context) /\ dependencies' = TrackJoin(l, g, context)
      /\ task' = [task EXCEPT ![t] = next]
  BY DEF Retires
<1>3. task \in [Tasks ->
        [pc : {"idle", "running", "waiting", "ended", "failed"},
         on : Generations \cup {None}, layer : Layers \cup {None},
         calls : 0..MaxCalls, reply : {None} \cup Settled]]
  BY DEF RetirementInv, TypeOK
<1>4. /\ task'[t] = next
      /\ \A u \in Tasks \ {t} : task'[u] = task[u]
  BY <1>2, <1>3
<1>5. /\ next.pc = IF waits THEN "waiting" ELSE "running"
      /\ waits => next.on = g /\ next.layer = l
      /\ next \in [pc : {"idle", "running", "waiting", "ended", "failed"},
         on : Generations \cup {None}, layer : Layers \cup {None},
         calls : 0..MaxCalls, reply : {None} \cup Settled]
  BY DEF TaskType
<1>6. \A m \in Layers, h \in Generations :
        \/ State(m, h)' = State(m, h)
        \/ m = l /\ h = g /\ State(m, h) = "active" /\ State(m, h)' = "retiring"
  <2>1. CASE State(l, g) = "active" /\ ~Inherits(l, g, context)
    <3>1. State(l, g)' = "retiring"
      <4>1. retirement'[l][g] = Begun(l, g, context)
        BY <1>1, <1>2, <2>1, Began
      <4> QED BY <4>1 DEF Begun, State
    <3> QED BY <1>1, <1>2, <2>1, <3>1, Began DEF State
  <2>2. CASE ~(State(l, g) = "active" /\ ~Inherits(l, g, context))
    BY <1>1, <1>2, <2>2, Began DEF State
  <2> QED BY <2>1, <2>2
<1> HIDE DEF next
<1>7. t \in Bodies => /\ t = <<"body", g>> /\ l = "generation" /\ waits
                      /\ entry = "runtime" /\ State("generation", g) = "active"
                      /\ task[t].pc = "idle" /\ State("runtime", g) = "retiring"
                      /\ t[2] = g
  BY BodyWaits, TaskKinds DEF Called
<1>8. t \notin Bodies => task[t].pc = "running" /\ l = entry
                         /\ (t \in Disposals => entry \in Reentrant)
  BY TaskKinds DEF Called
<1> HIDE DEF waits, context
<1>9. TypeOK'
  <2>1. task' \in [Tasks ->
          [pc : {"idle", "running", "waiting", "ended", "failed"},
           on : Generations \cup {None}, layer : Layers \cup {None},
           calls : 0..MaxCalls, reply : {None} \cup Settled]]
    BY <1>2, <1>3, <1>5
  <2>2. retirement' \in [Layers -> [Generations ->
          [state : {"active", "retiring"} \cup Settled,
           inherited : Contexts, drain : SUBSET Opens]]]
    BY <1>1, <1>2, Began
  <2>3. dependencies' \in [Layers -> SUBSET (Generations \X Generations)]
    BY <1>1, <1>2, TrackKeeps
  <2> QED BY <2>1, <2>2, <2>3 DEF RetirementInv, TypeOK
<1>10. TasksFit'
  <2>1. ASSUME NEW u \in Hooks
        PROVE  /\ State("generation", u[2])' = "active" => task'[u].pc = "idle"
               /\ State("generation", u[2])' \in Settled =>
                    task'[u].pc \in {"ended", "failed"}
    <3>1. u \in Tasks /\ u[2] \in Generations /\ u \notin Bodies
      BY TaskKinds DEF Tasks
    <3>2. CASE u = t
      <4>1. State("generation", u[2]) \notin {"active"} \cup Settled
        BY <1>8, <3>1, <3>2 DEF RetirementInv, TasksFit
      <4> QED BY <1>6, <3>1, <4>1 DEF Layers
    <3>3. CASE u # t
      BY <1>4, <1>6, <3>1, <3>3 DEF RetirementInv, TasksFit, Layers, Settled
    <3> QED BY <3>2, <3>3
  <2>2. ASSUME NEW h \in Generations
        PROVE  /\ State("runtime", h)' = "active" => task'[<<"body", h>>].pc = "idle"
               /\ State("runtime", h)' \in Settled =>
                    task'[<<"body", h>>].pc \in {"ended", "failed"}
    <3>1. <<"body", h>> \in Tasks /\ <<"body", h>> \in Bodies
      BY TaskKinds DEF Tasks
    <3>2. CASE <<"body", h>> = t
      <4>1. h = g
        BY <1>7, <3>1, <3>2
      <4> QED BY <1>6, <1>7, <3>1, <3>2, <4>1 DEF Layers, Settled
    <3>3. CASE <<"body", h>> # t
      BY <1>4, <1>6, <3>1, <3>3 DEF RetirementInv, TasksFit, Layers, Settled
    <3> QED BY <3>2, <3>3
  <2> QED BY <2>1, <2>2 DEF TasksFit, State
<1>11. OpensFit'
  <2>1. \A o \in Opens : task'[<<"disposal", o>>].pc \in {"running", "waiting"} =>
                           task[<<"disposal", o>>].pc \in {"running", "waiting"}
    <3> SUFFICES ASSUME NEW o \in Opens,
                        task'[<<"disposal", o>>].pc \in {"running", "waiting"}
                 PROVE  task[<<"disposal", o>>].pc \in {"running", "waiting"}
      OBVIOUS
    <3>1. <<"disposal", o>> \in Tasks /\ <<"disposal", o>> \notin Bodies
      BY TaskKinds DEF Tasks
    <3> QED BY <1>4, <1>8, <3>1
  <2> QED BY <1>1, <1>2, <2>1, DrainKeeps
<1>12. OwnersBegun'
  BY <1>1, <1>2, BeganKeeps
<1>13. EntryFits'
  <2>1. CASE entry = "generation"
    <3>1. l = "generation"
      BY <1>7, <1>8, <2>1
    <3> QED BY <1>6, <2>1, <3>1 DEF RetirementInv, EntryFits, Layers, State
  <2>2. CASE entry = "runtime"
    <3>1. CASE t \in Bodies
      <4>1. task'[<<"body", g>>].pc = "waiting"
        BY <1>4, <1>5, <1>7, <3>1
      <4>2. retirement'["generation"][g] = Begun("generation", g, context)
        BY <1>1, <1>2, <1>7, <3>1, Began DEF Acknowledges, waits
      <4>3. context["runtime"].owner = g
        BY <1>7, <3>1, ContextSound DEF context
      <4>4. retirement'["generation"][g].inherited["runtime"].owner = g
        BY <4>2, <4>3 DEF Begun
      <4>5. \A h \in Generations \ {g} :
              /\ retirement'["generation"][h] = retirement["generation"][h]
              /\ task'[<<"body", h>>] = task[<<"body", h>>]
        <5> SUFFICES ASSUME NEW h \in Generations \ {g}
                     PROVE  /\ retirement'["generation"][h] = retirement["generation"][h]
                            /\ task'[<<"body", h>>] = task[<<"body", h>>]
          OBVIOUS
        <5>1. <<"body", h>> \in Tasks /\ <<"body", h>> # <<"body", g>>
          BY TaskKinds DEF Tasks
        <5> QED BY <1>1, <1>2, <1>4, <1>7, <3>1, <5>1, Began DEF Layers
      <4> QED BY <2>2, <4>1, <4>4, <4>5 DEF RetirementInv, EntryFits, State
    <3>2. CASE t \notin Bodies
      <4>1. l = "runtime"
        BY <1>8, <2>2, <3>2
      <4>2. \A h \in Generations :
              /\ retirement'["generation"][h] = retirement["generation"][h]
              /\ task'[<<"body", h>>] = task[<<"body", h>>]
        <5> SUFFICES ASSUME NEW h \in Generations
                     PROVE  /\ retirement'["generation"][h] = retirement["generation"][h]
                            /\ task'[<<"body", h>>] = task[<<"body", h>>]
          OBVIOUS
        <5>1. <<"body", h>> \in Tasks /\ <<"body", h>> # t
          BY <3>2, TaskKinds DEF Tasks
        <5> QED BY <1>1, <1>2, <1>4, <4>1, <5>1, Began DEF Layers
      <4> QED BY <2>2, <4>2 DEF RetirementInv, EntryFits, State
    <3> QED BY <3>1, <3>2
  <2> QED BY <2>1, <2>2 DEF RetirementInv, TypeOK, Layers
<1>14. WaitsTracked'
  <2> SUFFICES ASSUME NEW u \in Tasks, task'[u].pc = "waiting"
      PROVE /\ task'[u].on \in Generations
            /\ u \in Bodies => task'[u].layer = "generation" /\ task'[u].on = u[2]
            /\ u \notin Bodies =>
                 /\ task'[u].layer = entry
                 /\ u \in Disposals => entry \in Reentrant
                 /\ (u \in Hooks \/ entry = "generation")
                      /\ retirement'[entry][task'[u].on].state \notin Settled =>
                           <<HolderOf(u), task'[u].on>> \in dependencies'[entry]
    BY DEF WaitsTracked, HolderOf, State
  <2>0. \A m \in Layers : dependencies[m] \subseteq dependencies'[m]
    BY <1>1, <1>2, TrackKeeps
  <2>00. entry \in Layers
    BY DEF RetirementInv, TypeOK
  <2>1. CASE u # t
    <3>1. task'[u] = task[u] /\ task[u].pc = "waiting"
      BY <1>4, <2>1
    <3>2. task[u].on \in Generations
      BY <3>1 DEF RetirementInv, WaitsTracked
    <3>3. retirement'[entry][task[u].on].state \notin Settled
            => State(entry, task[u].on) \notin Settled
      BY <1>6, <2>00, <3>2 DEF Settled, State
    <3> QED BY <2>0, <2>00, <3>1, <3>2, <3>3 DEF RetirementInv, WaitsTracked
  <2>2. CASE u = t /\ t \in Bodies
    <3>1. task'[u].on = g /\ task'[u].layer = l /\ u[2] = g
      BY <1>4, <1>5, <1>7, <2>2
    <3> QED BY <1>7, <2>2, <3>1
  <2>3. CASE u = t /\ t \notin Bodies
    <3>1. waits /\ task'[u].on = g /\ task'[u].layer = entry
      BY <1>4, <1>5, <1>8, <2>3
    <3>2. ASSUME t \in Hooks \/ entry = "generation",
                 retirement'[entry][g].state \notin Settled
          PROVE  <<HolderOf(t), g>> \in dependencies'[entry]
      <4>1. State(entry, g) \notin Settled
        BY <1>6, <2>00, <3>2 DEF Settled, State
      <4>2. /\ HolderOf(t) \in Generations
            /\ State("generation", HolderOf(t)) \notin {"active"} \cup Settled
        <5>1. CASE t \in Hooks
          <6>1. HolderOf(t) = t[2] /\ t[2] \in Generations
            BY <5>1, TaskKinds DEF HolderOf
          <6> QED BY <1>8, <2>3, <5>1, <6>1 DEF RetirementInv, TasksFit
        <5>2. CASE t \in Disposals
          <6>1. HolderOf(t) = opening[t[2]].of /\ opening[t[2]].pc = "disposing" /\ t[2] \in Opens
            BY <1>8, <2>3, <5>2, TaskKinds DEF HolderOf, RetirementInv, OpensFit
          <6> QED BY <6>1 DEF RetirementInv, OpensFit
        <5> QED BY <2>3, <5>1, <5>2 DEF Tasks
      <4>3. /\ context[entry].owner = HolderOf(t)
            /\ State(entry, HolderOf(t)) \notin Settled
        <5>1. CASE entry = "generation"
          BY <2>3, <1>8, <4>2, <5>1, ContextSound DEF context
        <5>2. CASE entry = "runtime"
          <6>1. t \in Hooks /\ HolderOf(t) = t[2] /\ t[2] \in Generations /\ t \notin Disposals
            BY <3>2, <5>2, TaskKinds DEF HolderOf
          <6>2. State("generation", t[2]) = "retiring"
            BY <4>2, <6>1 DEF RetirementInv, TypeOK, State, Layers
          <6>3. /\ task[<<"body", t[2]>>].pc = "waiting"
                /\ retirement["generation"][t[2]].inherited["runtime"].owner = t[2]
            BY <5>2, <6>1, <6>2 DEF RetirementInv, EntryFits
          <6>4. State("runtime", t[2]) \notin Settled
            BY <6>1, <6>3 DEF RetirementInv, TasksFit
          <6> QED BY <1>8, <2>3, <5>2, <6>1, <6>3, <6>4, ContextSound DEF context
        <5> QED BY <2>00, <5>1, <5>2 DEF Layers
      <4>4. context[entry].owner # None
        BY <4>2, <4>3, RetirementAssumption
      <4>5. dependencies' = [dependencies EXCEPT ![entry] = @ \cup {<<HolderOf(t), g>>}]
        BY <1>2, <1>8, <2>3, <3>1, <4>1, <4>3, <4>4 DEF TrackJoin, waits
      <4> QED BY <2>00, <4>5 DEF RetirementInv, TypeOK
    <3> QED BY <1>8, <2>3, <3>1, <3>2
  <2> QED BY <2>1, <2>2, <2>3
<1>15. GraphsSound'
  BY <1>1, <1>2, TrackKeeps
<1>16. SettledMeansDone'
  <2> SUFFICES ASSUME NEW h \in Generations, State("generation", h)' \in Settled
      PROVE /\ InFlight(h) = {}
            /\ \A u \in HooksOf(h) : task'[u].pc \in {"ended", "failed"}
            /\ State("generation", h)' = "resolved" <=>
                 /\ \A u \in HooksOf(h) : task'[u].pc = "ended"
                 /\ \A o \in Opens : opening[o].of = h => opening[o].pc # "leaked"
    BY DEF SettledMeansDone, InFlight, HooksOf, State
  <2>1. State("generation", h)' = State("generation", h) /\ State("generation", h) \in Settled
    BY <1>6 DEF Settled, Layers
  <2>2. \A u \in HooksOf(h) : task'[u] = task[u]
    <3> SUFFICES ASSUME NEW u \in HooksOf(h) PROVE task'[u] = task[u]
      OBVIOUS
    <3>1. u \in Tasks /\ u \in Hooks /\ u[2] = h /\ u \notin Bodies
      BY TaskKinds DEF HooksOf, Tasks
    <3>2. task[u].pc \in {"ended", "failed"}
      BY <2>1, <3>1 DEF RetirementInv, TasksFit
    <3>3. u # t
      BY <1>8, <3>1, <3>2
    <3> QED BY <1>4, <3>1, <3>3
  <2> QED BY <2>1, <2>2 DEF RetirementInv, SettledMeansDone
<1> QED BY <1>9, <1>10, <1>11, <1>12, <1>13, <1>14, <1>15, <1>16 DEF RetirementInv

(***************************************************************************)
(* The other steps                                                         *)
(***************************************************************************)
LEMMA Types ==
  ASSUME RetirementInv
  PROVE  /\ entry \in Layers /\ task \in [Tasks -> TaskType]
         /\ \A l \in Layers, g \in Generations :
              State(l, g) \in {"active", "retiring"} \cup Settled
BY DEF RetirementInv, TypeOK, TaskType, State

\* A caller from outside
LEMMA OutsideKeeps ==
  ASSUME RetirementInv, NEW g \in Generations, OutsideRetires(g)
  PROVE  RetirementInv'
<1> USE DEF Layers
<1>1. /\ State(entry, g) = "active" /\ Begins(entry, g, Outer) /\ Sound(Outer)
      /\ entry' = entry /\ dependencies' = dependencies /\ task' = task
      /\ opening' = opening /\ entry \in Layers
  BY OuterSound, Types DEF OutsideRetires
<1>2. retirement'[entry][g] = Begun(entry, g, Outer)
  BY <1>1, Began DEF Inherits, Outer
<1>3. \A m \in Layers, h \in Generations :
        /\ m # entry \/ h # g => retirement'[m][h] = retirement[m][h]
        /\ \/ State(m, h)' = State(m, h)
           \/ m = entry /\ h = g /\ State(m, h) = "active" /\ State(m, h)' = "retiring"
  BY <1>1, <1>2, Began DEF Begun, State
<1>4. TypeOK'
  BY <1>1, Began DEF RetirementInv, TypeOK
<1>5. TasksFit'
  BY <1>1, <1>3, TaskKinds DEF RetirementInv, TasksFit, Settled
<1>6. OpensFit'
  BY <1>1, DrainKeeps
<1>7. OwnersBegun'
  BY <1>1, BeganKeeps
<1>8. EntryFits'
  <2>1. CASE entry = "generation"
    BY <1>1, <1>3, <2>1 DEF RetirementInv, EntryFits
  <2>2. CASE entry = "runtime"
    <3>1. \A h \in Generations : retirement'["generation"][h] = retirement["generation"][h]
      BY <1>3, <2>2
    <3> QED BY <1>1, <2>2, <3>1 DEF RetirementInv, EntryFits, State
  <2> QED BY <1>1, <2>1, <2>2
<1>9. WaitsTracked'
  BY <1>1, <1>3 DEF RetirementInv, WaitsTracked, HolderOf, State, Settled
<1>10. GraphsSound'
  <2>1. \A m \in Layers : \A d \in dependencies[m] :
          d[1] \in Generations /\ d[2] \in Generations
    BY DEF RetirementInv, TypeOK
  <2> QED BY <1>1, <1>3, <2>1 DEF RetirementInv, GraphsSound, NoStaleDependency
<1>11. SettledMeansDone'
  BY <1>1, <1>3 DEF RetirementInv, SettledMeansDone, InFlight, Settled
<1> QED BY <1>4, <1>5, <1>6, <1>7, <1>8, <1>9, <1>10, <1>11 DEF RetirementInv

\* User code inside a retirement, and the retirement of a runtime
LEMMA UserCodeKeeps ==
  ASSUME RetirementInv, NEW t \in Tasks, NEW g \in Generations,
         NEW awaited \in BOOLEAN, UserCodeRetires(t, g, awaited)
  PROVE  RetirementInv'
<1> DEFINE c == task[t].calls + 1
           after == [Idle EXCEPT !.pc = "running", !.calls = c]
<1>1. after \in TaskType /\ after.pc = "running"
  <2>1. task[t].calls \in 0..MaxCalls /\ task[t].calls < MaxCalls
    BY Types DEF UserCodeRetires, TaskType
  <2>2. MaxCalls \in Nat
    BY RetirementAssumption
  <2>3. c \in 0..MaxCalls
    BY <2>1, <2>2
  <2> QED BY <2>3 DEF Idle, TaskType
<1>2. entry \in Layers /\ entry' = entry /\ opening' = opening
  BY Types DEF UserCodeRetires
<1>3. Retires(t, entry, g, awaited, after)
  BY DEF UserCodeRetires
<1>4. Called(t, entry, g, awaited, after)
  BY TaskKinds DEF UserCodeRetires, Called
<1> QED BY <1>1, <1>2, <1>3, <1>4, RetiresKeeps

LEMMA BodyKeeps ==
  ASSUME RetirementInv, NEW g \in Generations, RunBody(g)
  PROVE  RetirementInv'
<1> DEFINE t == <<"body", g>>
           after == [Idle EXCEPT !.pc = "running"]
<1>1. after \in TaskType /\ after.pc = "running"
  BY RetirementAssumption DEF Idle, TaskType
<1>2. Retires(t, "generation", g, TRUE, after) /\ entry' = entry /\ opening' = opening
  BY DEF RunBody
<1>3. Called(t, "generation", g, TRUE, after) /\ t \in Tasks
  BY TaskKinds DEF RunBody, Called, Tasks
<1> QED BY <1>1, <1>2, <1>3, RetiresKeeps DEF Layers

\* Steps that retire nothing and settle nothing leave owners and graphs alone.
LEMMA OwnersStay ==
  ASSUME RetirementInv, UNCHANGED <<entry, retirement, dependencies>>
  PROVE  OwnersBegun' /\ GraphsSound'
BY DEF RetirementInv, OwnersBegun, GraphsSound, NoStaleDependency, State

\* One task moves: what each kind may do.
LEMMA TaskMoves ==
  ASSUME RetirementInv, UNCHANGED <<entry, retirement, dependencies, opening>>,
         NEW t \in Hooks \cup Bodies \cup Disposals, NEW new \in TaskType,
         task' = [task EXCEPT ![t] = new],
         task[t].pc \in {"running", "waiting"}, new.pc \in {"running", "ended", "failed"},
         task[t].pc = "waiting" => State(task[t].layer, task[t].on) \in Settled,
         t \in Bodies => task[t].pc = "waiting" /\ new.pc = "running",
         t \in Disposals => new.pc = "running"
  PROVE  RetirementInv'
<1> USE DEF Layers
<1>1. /\ task'[t] = new /\ \A u \in Tasks \ {t} : task'[u] = task[u]
      /\ task' \in [Tasks -> TaskType] /\ t \in Tasks
  BY Types DEF Tasks
<1>2. \A l \in Layers, g \in Generations : State(l, g)' = State(l, g)
  BY DEF State
<1>3. TypeOK'
  BY <1>1 DEF RetirementInv, TypeOK, TaskType
<1>4. TasksFit'
  <2>1. ASSUME NEW u \in Hooks
        PROVE  /\ State("generation", u[2])' = "active" => task'[u].pc = "idle"
               /\ State("generation", u[2])' \in Settled =>
                    task'[u].pc \in {"ended", "failed"}
    <3>1. u \in Tasks /\ u[2] \in Generations
      BY TaskKinds DEF Tasks
    <3> QED BY <1>1, <1>2, <3>1 DEF RetirementInv, TasksFit
  <2>2. ASSUME NEW h \in Generations
        PROVE  /\ State("runtime", h)' = "active" => task'[<<"body", h>>].pc = "idle"
               /\ State("runtime", h)' \in Settled =>
                    task'[<<"body", h>>].pc \in {"ended", "failed"}
    <3>1. <<"body", h>> \in Tasks /\ <<"body", h>> \in Bodies
      BY TaskKinds DEF Tasks
    <3> QED BY <1>1, <1>2, <3>1 DEF RetirementInv, TasksFit
  <2> QED BY <2>1, <2>2 DEF TasksFit, State
<1>5. OpensFit'
  <2>1. \A o \in Opens : task'[<<"disposal", o>>].pc \in {"running", "waiting"} =>
                           task[<<"disposal", o>>].pc \in {"running", "waiting"}
    BY <1>1, TaskKinds DEF Tasks
  <2> QED BY <2>1 DEF RetirementInv, OpensFit, State
<1>6. EntryFits'
  <2>1. \A g \in Generations : <<"body", g>> \in Tasks /\ <<"body", g>> \in Bodies
    BY TaskKinds DEF Tasks
  <2>2. \A g \in Generations :
          /\ task'[<<"body", g>>].pc = "idle" => task[<<"body", g>>].pc = "idle"
          /\ task[<<"body", g>>].pc = "waiting" /\ task'[<<"body", g>>].pc # "waiting" =>
               State("generation", g) \in Settled
    <3> SUFFICES ASSUME NEW g \in Generations, t = <<"body", g>>
        PROVE /\ task'[t].pc # "idle"
              /\ State("generation", g) \in Settled
      BY <1>1, <2>1
    <3>1. t \in Bodies /\ t[2] = g
      BY <2>1
    <3>2. task[t].layer = "generation" /\ task[t].on = g
      BY <1>1, <3>1 DEF RetirementInv, WaitsTracked
    <3> QED BY <1>1, <3>1, <3>2
  <2> QED BY <2>2 DEF RetirementInv, EntryFits, State, Settled
<1>7. WaitsTracked'
  BY <1>1 DEF RetirementInv, WaitsTracked, HolderOf, State
<1>8. OwnersBegun' /\ GraphsSound'
  BY OwnersStay
<1>9. SettledMeansDone'
  <2>1. \A g \in Generations : State("generation", g) \in Settled =>
          \A u \in HooksOf(g) : task'[u] = task[u]
    <3> SUFFICES ASSUME NEW g \in Generations, State("generation", g) \in Settled,
                        NEW u \in HooksOf(g)
                 PROVE  task'[u] = task[u]
      OBVIOUS
    <3>1. u \in Hooks /\ u \in Tasks /\ u[2] = g
      BY DEF HooksOf, Tasks
    <3>2. task[u].pc \in {"ended", "failed"}
      BY <3>1 DEF RetirementInv, TasksFit
    <3> QED BY <1>1, <3>1, <3>2
  <2> QED BY <1>2, <2>1 DEF RetirementInv, SettledMeansDone, InFlight, HooksOf
<1> QED BY <1>3, <1>4, <1>5, <1>6, <1>7, <1>8, <1>9 DEF RetirementInv

LEMMA ResumesKeeps ==
  ASSUME RetirementInv, NEW t \in Tasks, Resumes(t)
  PROVE  RetirementInv'
<1> DEFINE new == [Idle EXCEPT !.pc = "running", !.calls = task[t].calls,
                     !.reply = IF t \in Bodies THEN State(task[t].layer, task[t].on)
                                               ELSE None]
<1>1. task[t].calls \in 0..MaxCalls /\ task[t].pc = "waiting"
      /\ State(task[t].layer, task[t].on) \in Settled
  BY Types DEF Resumes, TaskType
<1>2. new \in TaskType /\ new.pc = "running"
  BY <1>1 DEF Idle, TaskType
<1>3. task' = [task EXCEPT ![t] = new]
      /\ UNCHANGED <<entry, retirement, dependencies, opening>>
  BY DEF Resumes
<1> QED BY <1>1, <1>2, <1>3, TaskMoves DEF Tasks

LEMMA HookEndsKeeps ==
  ASSUME RetirementInv, NEW t \in Hooks, NEW outcome \in {"ended", "failed"},
         HookEnds(t, outcome)
  PROVE  RetirementInv'
<1> DEFINE new == [Idle EXCEPT !.pc = outcome]
<1>1. new \in TaskType /\ new.pc = outcome
  BY RetirementAssumption DEF Idle, TaskType
<1>2. /\ task' = [task EXCEPT ![t] = new] /\ task[t].pc = "running"
      /\ UNCHANGED <<entry, retirement, dependencies, opening>>
      /\ t \notin Bodies /\ t \notin Disposals
  BY TaskKinds DEF HookEnds
<1> QED BY <1>1, <1>2, TaskMoves

LEMMA RunHooksKeeps ==
  ASSUME RetirementInv, NEW g \in Generations, RunHooks(g)
  PROVE  RetirementInv'
<1> USE DEF Layers
<1>1. /\ State("generation", g) = "retiring"
      /\ UNCHANGED <<entry, retirement, dependencies, opening>>
      /\ \A t \in Tasks : task'[t] = IF t \in HooksOf(g) THEN [Idle EXCEPT !.pc = "running"]
                                    ELSE task[t]
      /\ HooksOf(g) \subseteq Hooks /\ \A t \in HooksOf(g) : t[2] = g
  BY DEF RunHooks, HooksOf
<1>2. \A l \in Layers, h \in Generations : State(l, h)' = State(l, h)
  BY <1>1 DEF State
<1>3. [Idle EXCEPT !.pc = "running"] \in TaskType
      /\ [Idle EXCEPT !.pc = "running"].pc = "running"
  BY RetirementAssumption DEF Idle, TaskType
<1>4. TypeOK'
  <2>1. task' \in [Tasks -> TaskType]
    BY <1>3, Types DEF RunHooks
  <2> QED BY <1>1, <2>1 DEF RetirementInv, TypeOK, TaskType
<1>5. \A t \in Hooks : \/ t[2] = g /\ task'[t].pc = "running"
                       \/ t[2] # g /\ task'[t] = task[t]
  BY <1>1, <1>3 DEF HooksOf, Tasks
<1>6. \A t \in Bodies \cup Disposals : task'[t] = task[t]
  BY <1>1, TaskKinds DEF Tasks
<1>7. TasksFit'
  <2>1. \A t \in Hooks : t[2] \in Generations
    BY TaskKinds
  <2>2. \A h \in Generations : <<"body", h>> \in Bodies
    BY TaskKinds
  <2> QED BY <1>1, <1>2, <1>5, <1>6, <2>1, <2>2 DEF RetirementInv, TasksFit, Settled
<1>8. OpensFit'
  <2>1. \A o \in Opens : task'[<<"disposal", o>>] = task[<<"disposal", o>>]
    BY <1>6, TaskKinds
  <2> QED BY <1>1, <2>1 DEF RetirementInv, OpensFit, State
<1>9. EntryFits'
  <2>1. \A h \in Generations : task'[<<"body", h>>] = task[<<"body", h>>]
    BY <1>6, TaskKinds
  <2> QED BY <1>1, <2>1 DEF RetirementInv, EntryFits, State
<1>10. WaitsTracked'
  <2>1. \A t \in Tasks : task'[t].pc = "waiting" => task'[t] = task[t]
    BY <1>5, <1>6 DEF Tasks
  <2> QED BY <1>1, <2>1 DEF RetirementInv, WaitsTracked, HolderOf, State
<1>11. OwnersBegun' /\ GraphsSound'
  BY <1>1, OwnersStay
<1>12. SettledMeansDone'
  <2>1. \A h \in Generations : State("generation", h) \in Settled =>
          \A u \in HooksOf(h) : task'[u] = task[u]
    BY <1>1, <1>5 DEF HooksOf, Settled
  <2> QED BY <1>1, <1>2, <2>1 DEF RetirementInv, SettledMeansDone, InFlight, HooksOf
<1> QED BY <1>4, <1>7, <1>8, <1>9, <1>10, <1>11, <1>12 DEF RetirementInv

\* A retirement that settles: l names its layer, g its owner.
LEMMA ForgetKeeps ==
  ASSUME RetirementInv, NEW l \in Layers, NEW g \in Generations, Forget(l, g),
         State(l, g) # "active", State(l, g)' \in Settled,
         \A m \in Layers, h \in Generations :
           /\ m # l \/ h # g => retirement'[m][h] = retirement[m][h]
           /\ retirement'[m][h].inherited \in {retirement[m][h].inherited, Outer}
  PROVE  /\ OwnersBegun' /\ GraphsSound'
         /\ dependencies' \in [Layers -> SUBSET (Generations \X Generations)]
         /\ \A m \in Layers : \A d \in dependencies[m] :
              m = l => d \in dependencies'[m] \/ g \in {d[1], d[2]}
         /\ \A m \in Layers \ {l} : dependencies'[m] = dependencies[m]
<1>1. dependencies \in [Layers -> SUBSET (Generations \X Generations)]
  BY DEF RetirementInv, TypeOK
<1>2. /\ dependencies'[l] = {d \in dependencies[l] : g \notin {d[1], d[2]}}
      /\ \A m \in Layers \ {l} : dependencies'[m] = dependencies[m]
      /\ dependencies' \in [Layers -> SUBSET (Generations \X Generations)]
  BY <1>1 DEF Forget
<1>3. \A m \in Layers, h \in Generations : State(m, h) # "active" => State(m, h)' # "active"
  BY DEF State, Settled
<1>4. OwnersBegun'
  <2> SUFFICES ASSUME NEW k \in Layers, NEW m \in Layers, NEW h \in Generations,
                      NEW x \in OwnersOf(retirement'[k][h].inherited, m)
               PROVE  State(m, x)' # "active"
    BY DEF OwnersBegun, OwnersOf
  <2>1. retirement'[k][h].inherited = retirement[k][h].inherited
    BY OuterSound DEF OwnersOf, Outer
  <2>2. x \in Generations /\ State(m, x) # "active"
    BY <2>1, InheritedSound DEF Sound, OwnersOf, Contexts
  <2> QED BY <1>3, <2>2
<1>5. GraphsSound'
  <2>1. \A m \in Layers : dependencies'[m] \subseteq dependencies[m]
    BY <1>2
  <2>2. \A m \in Layers : Acyclic(dependencies'[m])
    BY <2>1, FewerEdges DEF RetirementInv, GraphsSound
  <2>3. NoStaleDependency'
    <3> SUFFICES ASSUME NEW m \in Layers, NEW d \in dependencies'[m]
                 PROVE  State(m, d[1])' = "retiring" /\ State(m, d[2])' = "retiring"
      BY DEF NoStaleDependency
    <3>1. d[1] \in Generations /\ d[2] \in Generations
      BY <1>2
    <3>2. State(m, d[1]) = "retiring" /\ State(m, d[2]) = "retiring"
      BY <2>1 DEF RetirementInv, GraphsSound, NoStaleDependency
    <3>3. m # l \/ (d[1] # g /\ d[2] # g)
      BY <1>2
    <3> QED BY <3>1, <3>2, <3>3 DEF State
  <2> QED BY <2>2, <2>3 DEF GraphsSound
<1> QED BY <1>2, <1>4, <1>5

LEMMA GenerationSettlesKeeps ==
  ASSUME RetirementInv, NEW g \in Generations, GenerationSettles(g)
  PROVE  RetirementInv'
<1> USE DEF Layers
<1> DEFINE outcome == IF LateFailures(g) # {} \/ \E t \in HooksOf(g) : task[t].pc = "failed"
                      THEN "rejected" ELSE "resolved"
           done == [Unretired EXCEPT !.state = outcome]
<1>1. /\ State("generation", g) = "retiring" /\ Drained(g) /\ Forget("generation", g)
      /\ retirement' = [retirement EXCEPT !["generation"][g] = done]
      /\ UNCHANGED <<entry, task, opening>>
  BY DEF GenerationSettles
<1>2. /\ done \in [state : {"active", "retiring"} \cup Settled,
                   inherited : Contexts, drain : SUBSET Opens]
      /\ done.state = outcome /\ done.inherited = Outer /\ done.drain = {}
      /\ outcome \in Settled
  BY OuterSound DEF Unretired, Settled, Sound
<1>3. retirement \in [Layers -> [Generations ->
        [state : {"active", "retiring"} \cup Settled,
         inherited : Contexts, drain : SUBSET Opens]]]
  BY DEF RetirementInv, TypeOK
<1> HIDE DEF outcome, done
<1>4. /\ retirement'["generation"][g] = done
      /\ \A m \in Layers, h \in Generations :
           m # "generation" \/ h # g => retirement'[m][h] = retirement[m][h]
      /\ State("generation", g)' = outcome
      /\ \A m \in Layers, h \in Generations :
           m # "generation" \/ h # g => State(m, h)' = State(m, h)
  BY <1>1, <1>2, <1>3 DEF State
<1>5. /\ OwnersBegun' /\ GraphsSound'
      /\ dependencies' \in [Layers -> SUBSET (Generations \X Generations)]
      /\ \A d \in dependencies["generation"] :
           d \in dependencies'["generation"] \/ g \in {d[1], d[2]}
      /\ dependencies'["runtime"] = dependencies["runtime"]
  <2>1. \A m \in Layers, h \in Generations :
          retirement'[m][h].inherited \in {retirement[m][h].inherited, Outer}
    BY <1>2, <1>4
  <2>2. State("generation", g)' \in Settled /\ State("generation", g) # "active"
    BY <1>1, <1>2, <1>4
  <2> QED BY <1>1, <1>4, <2>1, <2>2, ForgetKeeps
<1>6. TypeOK'
  <2>1. retirement' \in [Layers -> [Generations ->
          [state : {"active", "retiring"} \cup Settled,
           inherited : Contexts, drain : SUBSET Opens]]]
    BY <1>1, <1>2, <1>3
  <2> QED BY <1>1, <1>5, <2>1 DEF RetirementInv, TypeOK
<1>7. \A o \in Opens : opening[o].of = g => opening[o].pc \notin {"opening", "disposing"}
  <2> SUFFICES ASSUME NEW o \in Opens, opening[o].of = g,
                      opening[o].pc \in {"opening", "disposing"}
               PROVE  FALSE
    OBVIOUS
  <2>1. o \in retirement["generation"][g].drain
    BY <1>1 DEF RetirementInv, OpensFit
  <2>2. o \in InFlight(g)
    BY DEF InFlight
  <2> QED BY <1>1, <2>1, <2>2 DEF Drained
<1>8. \A t \in HooksOf(g) : task[t].pc \in {"ended", "failed"}
  BY <1>1 DEF Drained
<1>9. TasksFit'
  <2>1. \A t \in Hooks : t[2] \in Generations /\ (t[2] = g => t \in HooksOf(g))
    BY TaskKinds DEF HooksOf
  <2> QED BY <1>1, <1>2, <1>4, <1>8, <2>1 DEF RetirementInv, TasksFit, Settled
<1>10. OpensFit'
  <2>1. ASSUME NEW o \in Opens
        PROVE  /\ opening[o].pc # "idle" => opening[o].of \in Generations
               /\ opening[o].pc \in {"disposing", "disposed", "leaked"} =>
                    State("generation", opening[o].of)' # "active"
               /\ opening[o].pc \in {"opening", "disposing"} =>
                    /\ State("generation", opening[o].of)' \notin Settled
                    /\ State("generation", opening[o].of)' = "retiring" =>
                         o \in retirement'["generation"][opening[o].of].drain
               /\ opening[o].pc = "leaked" /\ State("generation", opening[o].of)' = "retiring" =>
                    o \in retirement'["generation"][opening[o].of].drain
               /\ task[<<"disposal", o>>].pc \in {"running", "waiting"} =>
                    opening[o].pc = "disposing"
    <3>0. CASE opening[o].pc = "idle"
      BY <3>0 DEF RetirementInv, OpensFit
    <3>1. CASE opening[o].pc # "idle" /\ opening[o].of = g
      <4>1. State("generation", opening[o].of)' = outcome
        BY <1>1, <1>4, <3>1
      <4> QED BY <1>2, <1>7, <3>1, <4>1 DEF RetirementInv, OpensFit, Settled
    <3>2. CASE opening[o].pc # "idle" /\ opening[o].of # g
      <4>1. opening[o].of \in Generations
        BY <3>2 DEF RetirementInv, OpensFit
      <4>2. /\ retirement'["generation"][opening[o].of] = retirement["generation"][opening[o].of]
            /\ State("generation", opening[o].of)' = State("generation", opening[o].of)
        BY <1>1, <1>4, <3>2, <4>1 DEF State
      <4> QED BY <4>1, <4>2 DEF RetirementInv, OpensFit
    <3> QED BY <3>0, <3>1, <3>2
  <2>2. \A h \in Generations : \A o \in retirement'["generation"][h].drain :
          opening[o].pc # "idle" /\ opening[o].of = h
    BY <1>2, <1>4 DEF RetirementInv, OpensFit
  <2> QED BY <1>1, <2>1, <2>2 DEF OpensFit, State
<1>11. EntryFits'
  <2>1. \A h \in Generations :
          /\ State("runtime", h)' = State("runtime", h)
          /\ State("generation", h)' # "active" => State("generation", h) # "active"
          /\ State("generation", h)' = "retiring" =>
               /\ State("generation", h) = "retiring"
               /\ retirement'["generation"][h] = retirement["generation"][h]
    BY <1>1, <1>2, <1>4 DEF Settled
  <2> QED BY <1>1, <2>1 DEF RetirementInv, EntryFits
<1>12. WaitsTracked'
  <2> SUFFICES ASSUME NEW u \in Tasks, task[u].pc = "waiting", u \notin Bodies,
                      u \in Hooks \/ entry = "generation",
                      retirement'[entry][task[u].on].state \notin Settled
               PROVE  <<HolderOf(u), task[u].on>> \in dependencies'[entry]
    BY <1>1 DEF RetirementInv, WaitsTracked, HolderOf, State
  <2>1. entry \in Layers /\ task[u].on \in Generations
    BY Types DEF RetirementInv, WaitsTracked
  <2>2. <<HolderOf(u), task[u].on>> \in dependencies[entry]
    <3>1. State(entry, task[u].on) \notin Settled
      BY <1>1, <1>4, <2>1 DEF Settled, State
    <3> QED BY <3>1 DEF RetirementInv, WaitsTracked
  <2>3. CASE entry = "runtime"
    BY <1>5, <2>2, <2>3
  <2>4. CASE entry = "generation"
    <3>1. task[u].on # g
      BY <1>2, <1>4, <2>4 DEF State
    <3>2. CASE u \in Hooks
      <4>1. HolderOf(u) = u[2]
        BY <3>2, TaskKinds DEF HolderOf
      <4>2. u \notin HooksOf(g)
        BY <1>8
      <4> QED BY <1>5, <2>2, <2>4, <3>1, <3>2, <4>1, <4>2 DEF HooksOf
    <3>3. CASE u \in Disposals
      <4>1. HolderOf(u) = opening[u[2]].of /\ opening[u[2]].pc = "disposing" /\ u[2] \in Opens
        BY <3>3, TaskKinds DEF HolderOf, RetirementInv, OpensFit
      <4> QED BY <1>5, <1>7, <2>2, <2>4, <3>1, <4>1
    <3> QED BY <3>2, <3>3 DEF Tasks
  <2> QED BY <2>1, <2>3, <2>4
<1>13. SettledMeansDone'
  <2>1. InFlight(g) = {}
    BY <1>7 DEF InFlight
  <2>2. outcome = "resolved" <=>
          /\ \A t \in HooksOf(g) : task[t].pc = "ended"
          /\ \A o \in Opens : opening[o].of = g => opening[o].pc # "leaked"
    <3>1. LateFailures(g) = {} <=> \A o \in Opens : opening[o].of = g => opening[o].pc # "leaked"
      <4>1. \A o \in Opens : opening[o].of = g /\ opening[o].pc = "leaked" =>
              o \in retirement["generation"][g].drain
        BY <1>1 DEF RetirementInv, OpensFit
      <4>2. \A o \in retirement["generation"][g].drain : o \in Opens /\ opening[o].of = g
        BY <1>3 DEF RetirementInv, OpensFit
      <4> QED BY <4>1, <4>2 DEF LateFailures
    <3> QED BY <1>8, <3>1 DEF outcome
  <2>3. \A h \in Generations \ {g} : State("generation", h)' = State("generation", h)
    BY <1>4
  <2> QED BY <1>1, <1>4, <1>8, <2>1, <2>2, <2>3
          DEF RetirementInv, SettledMeansDone, InFlight, HooksOf
<1> QED BY <1>5, <1>6, <1>9, <1>10, <1>11, <1>12, <1>13 DEF RetirementInv

LEMMA RuntimeSettlesKeeps ==
  ASSUME RetirementInv, NEW g \in Generations, NEW outcome \in {"ended", "failed"},
         RuntimeSettles(g, outcome)
  PROVE  RetirementInv'
<1> USE DEF Layers
<1> DEFINE t == <<"body", g>>
           new == [Idle EXCEPT !.pc = outcome]
           settled == IF outcome = "failed" \/ task[t].reply = "rejected"
                      THEN "rejected" ELSE "resolved"
<1>1. /\ task[t].pc = "running" /\ Forget("runtime", g)
      /\ retirement' = [retirement EXCEPT !["runtime"][g].state = settled]
      /\ task' = [task EXCEPT ![t] = new]
      /\ UNCHANGED <<entry, opening>>
  BY DEF RuntimeSettles
<1>2. new \in TaskType /\ new.pc = outcome /\ settled \in Settled
  BY RetirementAssumption DEF Idle, TaskType, Settled
<1>3. /\ retirement \in [Layers -> [Generations ->
           [state : {"active", "retiring"} \cup Settled,
            inherited : Contexts, drain : SUBSET Opens]]]
      /\ t \in Tasks /\ t \in Bodies
  BY TaskKinds DEF RetirementInv, TypeOK, Tasks
<1> HIDE DEF new, settled
<1>4. /\ \A h \in Generations : retirement'["generation"][h] = retirement["generation"][h]
      /\ \A h \in Generations \ {g} : retirement'["runtime"][h] = retirement["runtime"][h]
      /\ State("runtime", g)' = settled
      /\ \A m \in Layers, h \in Generations :
           retirement'[m][h].inherited = retirement[m][h].inherited
  BY <1>1, <1>3 DEF State
<1>5. /\ task' \in [Tasks -> TaskType] /\ task'[t] = new
      /\ \A u \in Tasks \ {t} : task'[u] = task[u]
  BY <1>1, <1>2, <1>3, Types
<1>6. entry = "runtime" /\ State("runtime", g) # "active"
  BY <1>1, <1>3 DEF RetirementInv, TasksFit, EntryFits, TypeOK
<1>7. /\ OwnersBegun' /\ GraphsSound'
      /\ dependencies' \in [Layers -> SUBSET (Generations \X Generations)]
      /\ \A d \in dependencies["runtime"] :
           d \in dependencies'["runtime"] \/ g \in {d[1], d[2]}
  <2>1. \A m \in Layers, h \in Generations :
          m # "runtime" \/ h # g => retirement'[m][h] = retirement[m][h]
    BY <1>4
  <2> QED BY <1>1, <1>2, <1>4, <1>6, <2>1, ForgetKeeps
<1>8. TypeOK'
  <2>1. retirement' \in [Layers -> [Generations ->
          [state : {"active", "retiring"} \cup Settled,
           inherited : Contexts, drain : SUBSET Opens]]]
    BY <1>1, <1>2, <1>3
  <2> QED BY <1>1, <1>5, <1>7, <2>1 DEF RetirementInv, TypeOK, TaskType
<1>9. \A u \in Hooks \cup Disposals : task'[u] = task[u]
  BY <1>3, <1>5, TaskKinds DEF Tasks
<1>10. \A h \in Generations \ {g} : task'[<<"body", h>>] = task[<<"body", h>>]
  BY <1>5, TaskKinds DEF Tasks
<1>11. TasksFit'
  BY <1>2, <1>4, <1>5, <1>9, <1>10, TaskKinds DEF RetirementInv, TasksFit, State, Settled
<1>12. OpensFit'
  <2>1. \A o \in Opens : task'[<<"disposal", o>>] = task[<<"disposal", o>>]
    BY <1>9, TaskKinds
  <2>2. \A o \in Opens : opening[o].pc # "idle" => opening[o].of \in Generations
    BY DEF RetirementInv, OpensFit
  <2>3. \A o \in Opens : opening[o].pc # "idle" =>
          retirement'["generation"][opening[o].of] = retirement["generation"][opening[o].of]
    BY <1>4, <2>2
  <2> QED BY <1>1, <1>4, <2>1, <2>2, <2>3 DEF RetirementInv, OpensFit, State
<1>13. EntryFits'
  BY <1>1, <1>2, <1>4, <1>5, <1>6, <1>10 DEF RetirementInv, EntryFits, State
<1>14. WaitsTracked'
  <2> SUFFICES ASSUME NEW u \in Tasks, task'[u].pc = "waiting"
      PROVE /\ task'[u].on \in Generations
            /\ u \in Bodies => task'[u].layer = "generation" /\ task'[u].on = u[2]
            /\ u \notin Bodies =>
                 /\ task'[u].layer = entry
                 /\ u \in Disposals => entry \in Reentrant
                 /\ (u \in Hooks \/ entry = "generation")
                      /\ retirement'[entry][task'[u].on].state \notin Settled =>
                           <<HolderOf(u), task'[u].on>> \in dependencies'[entry]
    BY <1>1 DEF WaitsTracked, HolderOf, State
  <2>1. u # t /\ task'[u] = task[u] /\ task[u].pc = "waiting"
    BY <1>2, <1>5
  <2>2. ASSUME u \in Hooks, retirement'[entry][task[u].on].state \notin Settled
        PROVE  <<HolderOf(u), task[u].on>> \in dependencies'[entry]
    <3>1. HolderOf(u) = u[2] /\ u[2] \in Generations /\ u \notin Bodies
      BY <2>2, TaskKinds DEF HolderOf
    <3>2. task[u].on \in Generations
      BY <2>1 DEF RetirementInv, WaitsTracked
    <3>3. task[u].on # g /\ State(entry, task[u].on) \notin Settled
      BY <1>2, <1>4, <1>6, <2>2, <3>2 DEF State
    <3>4. <<HolderOf(u), task[u].on>> \in dependencies[entry]
      BY <2>1, <2>2, <3>1, <3>3 DEF RetirementInv, WaitsTracked
    <3>5. u[2] # g
      <4>1. State("generation", u[2]) = "retiring"
        BY <2>1, <2>2, <3>1, Types DEF RetirementInv, TasksFit
      <4> QED BY <1>1, <1>6, <3>1, <4>1 DEF RetirementInv, EntryFits
    <3> QED BY <1>6, <1>7, <3>1, <3>3, <3>4, <3>5
  <2> QED BY <1>6, <2>1, <2>2 DEF RetirementInv, WaitsTracked
<1>15. SettledMeansDone'
  <2>1. \A h \in Generations : HooksOf(h) \subseteq Hooks
    BY DEF HooksOf
  <2> QED BY <1>1, <1>4, <1>9, <2>1 DEF RetirementInv, SettledMeansDone, InFlight, HooksOf, State
<1> QED BY <1>7, <1>8, <1>11, <1>12, <1>13, <1>14, <1>15 DEF RetirementInv

(***************************************************************************)
(* openLane(): one open moves, and its disposal with it                    *)
(***************************************************************************)
OpenType ==
  [pc : {"idle", "opening", "disposing", "delivered", "failed", "disposed", "leaked"},
   of : Generations \cup {None}]

LEMMA OpenMoves ==
  ASSUME RetirementInv, UNCHANGED <<entry, retirement, dependencies>>,
         NEW o \in Opens, NEW new \in OpenType, NEW disposal \in TaskType,
         opening' = [opening EXCEPT ![o] = new],
         task' = [task EXCEPT ![<<"disposal", o>>] = disposal],
         new.pc # "idle", new.of \in Generations,
         disposal.pc # "waiting", disposal.pc = "running" => new.pc = "disposing",
         \/ /\ opening[o].pc = "idle"
            /\ new.pc \in {"failed", "opening"}
            /\ new.pc = "opening" => State("generation", new.of) = "active"
         \/ /\ opening[o].of = new.of
            /\ \/ opening[o].pc = "opening" /\ new.pc \in {"failed", "delivered", "disposing"}
               \/ opening[o].pc = "disposing" /\ new.pc \in {"disposed", "leaked"}
            /\ new.pc = "disposing" => State("generation", new.of) # "active"
  PROVE  RetirementInv'
<1> USE DEF Layers
<1> DEFINE t == <<"disposal", o>>
<1>1. /\ t \in Tasks /\ t \in Disposals /\ t \notin Bodies /\ t \notin Hooks /\ t[2] = o
      /\ opening \in [Opens -> OpenType]
  BY TaskKinds DEF Tasks, RetirementInv, TypeOK, OpenType
<1>2. /\ opening' \in [Opens -> OpenType] /\ opening'[o] = new
      /\ \A p \in Opens \ {o} : opening'[p] = opening[p]
      /\ task' \in [Tasks -> TaskType] /\ task'[t] = disposal
      /\ \A u \in Tasks \ {t} : task'[u] = task[u]
  BY <1>1, Types
<1>3. \A l \in Layers, g \in Generations : State(l, g)' = State(l, g)
  BY DEF State
<1>4. \A u \in Hooks \cup Bodies : task'[u] = task[u]
  BY <1>1, <1>2 DEF Tasks
<1>5. TypeOK'
  BY <1>2 DEF RetirementInv, TypeOK, TaskType, OpenType
<1>6. TasksFit'
  BY <1>3, <1>4, TaskKinds DEF RetirementInv, TasksFit
<1>7. OpensFit'
  <2>1. ASSUME NEW p \in Opens
        PROVE  /\ opening'[p].pc # "idle" => opening'[p].of \in Generations
               /\ opening'[p].pc \in {"disposing", "disposed", "leaked"} =>
                    retirement["generation"][opening'[p].of].state # "active"
               /\ opening'[p].pc \in {"opening", "disposing"} =>
                    /\ retirement["generation"][opening'[p].of].state \notin Settled
                    /\ retirement["generation"][opening'[p].of].state = "retiring" =>
                         p \in retirement["generation"][opening'[p].of].drain
               /\ opening'[p].pc = "leaked"
                    /\ retirement["generation"][opening'[p].of].state = "retiring" =>
                    p \in retirement["generation"][opening'[p].of].drain
               /\ task'[<<"disposal", p>>].pc \in {"running", "waiting"} =>
                    opening'[p].pc = "disposing"
    <3>1. CASE p = o
      <4>1. disposal.pc \in {"running", "waiting"} => new.pc = "disposing"
        OBVIOUS
      <4>2. CASE opening[o].pc = "idle"
        BY <1>2, <3>1, <4>1, <4>2 DEF State, Settled
      <4>3. CASE opening[o].pc # "idle"
        BY <1>2, <3>1, <4>1, <4>3 DEF RetirementInv, OpensFit, State
      <4> QED BY <4>2, <4>3
    <3>2. CASE p # o
      <4>1. opening'[p] = opening[p] /\ task'[<<"disposal", p>>] = task[<<"disposal", p>>]
        BY <1>2, <3>2, TaskKinds DEF Tasks
      <4> QED BY <4>1 DEF RetirementInv, OpensFit, State
    <3> QED BY <3>1, <3>2
  <2>2. ASSUME NEW g \in Generations, NEW p \in retirement["generation"][g].drain
        PROVE  opening'[p].pc # "idle" /\ opening'[p].of = g
    <3>1. p \in Opens /\ opening[p].pc # "idle" /\ opening[p].of = g
      BY DEF RetirementInv, OpensFit, TypeOK
    <3> QED BY <1>2, <3>1
  <2> QED BY <2>1, <2>2 DEF OpensFit, State
<1>8. EntryFits'
  BY <1>4, TaskKinds DEF RetirementInv, EntryFits, State
<1>9. WaitsTracked'
  <2> SUFFICES ASSUME NEW u \in Tasks, task'[u].pc = "waiting"
               PROVE  task'[u] = task[u] /\ HolderOf(u)' = HolderOf(u)
    BY DEF RetirementInv, WaitsTracked, State
  <2>1. u # t /\ task'[u] = task[u]
    BY <1>2
  <2>2. u \in Disposals => u[2] \in Opens /\ u[2] # o
    BY <2>1, TaskKinds
  <2> QED BY <1>2, <2>1, <2>2 DEF HolderOf
<1>10. OwnersBegun' /\ GraphsSound'
  BY OwnersStay
<1>11. SettledMeansDone'
  <2> SUFFICES ASSUME NEW g \in Generations, State("generation", g) \in Settled
      PROVE /\ InFlight(g)' = {}
            /\ \A u \in HooksOf(g) : task'[u] = task[u]
            /\ (\A p \in Opens : opening'[p].of = g => opening'[p].pc # "leaked")
                 <=> \A p \in Opens : opening[p].of = g => opening[p].pc # "leaked"
    BY <1>3 DEF RetirementInv, SettledMeansDone, HooksOf
  <2>1. \A u \in HooksOf(g) : task'[u] = task[u]
    BY <1>4 DEF HooksOf
  <2>2. InFlight(g) = {}
    BY DEF RetirementInv, SettledMeansDone
  <2>3. \A p \in Opens : ~(opening[p].of = g /\ opening[p].pc \in {"opening", "disposing"})
    BY <2>2 DEF InFlight
  <2>4. opening'[o].of = g => opening'[o].pc \notin {"opening", "disposing", "leaked"}
    BY <1>2, <2>3 DEF Settled
  <2>5. opening[o].of = g => opening[o].pc # "leaked"
    OBVIOUS
  <2>6. InFlight(g)' = {}
    BY <1>2, <2>3, <2>4 DEF InFlight
  <2> QED BY <1>2, <2>1, <2>4, <2>5, <2>6
<1> QED BY <1>5, <1>6, <1>7, <1>8, <1>9, <1>10, <1>11 DEF RetirementInv

\* No disposal of an open runs before it was opened.
LEMMA NoDisposal ==
  ASSUME RetirementInv, NEW o \in Opens, opening[o].pc # "disposing"
  PROVE  /\ task[<<"disposal", o>>] \in TaskType
         /\ task[<<"disposal", o>>].pc \notin {"running", "waiting"}
         /\ task = [task EXCEPT ![<<"disposal", o>>] = task[<<"disposal", o>>]]
<1>1. <<"disposal", o>> \in Tasks /\ task \in [Tasks -> TaskType]
  BY TaskKinds, Types DEF Tasks
<1>2. task[<<"disposal", o>>].pc \notin {"running", "waiting"}
  BY DEF RetirementInv, OpensFit
<1> QED BY <1>1, <1>2

LEMMA OpenLaneKeeps ==
  ASSUME RetirementInv, NEW o \in Opens, NEW g \in Generations, OpenLane(o, g)
  PROVE  RetirementInv'
<1> DEFINE new == [pc |-> IF Admits(g) THEN "opening" ELSE "failed", of |-> g]
<1>1. /\ new \in OpenType /\ new.pc \in {"failed", "opening"} /\ new.of = g
      /\ new.pc = "opening" => State("generation", new.of) = "active"
  BY DEF OpenType, Admits
<1>2. /\ opening[o].pc = "idle" /\ opening' = [opening EXCEPT ![o] = new]
      /\ UNCHANGED <<entry, retirement, dependencies>> /\ task' = task
  BY DEF OpenLane
<1> HIDE DEF new
<1>3. /\ task[<<"disposal", o>>] \in TaskType
      /\ task[<<"disposal", o>>].pc \notin {"running", "waiting"}
      /\ task' = [task EXCEPT ![<<"disposal", o>>] = task[<<"disposal", o>>]]
  BY <1>2, NoDisposal
<1> QED BY <1>1, <1>2, <1>3, OpenMoves

LEMMA OpenEndsKeeps ==
  ASSUME RetirementInv, NEW o \in Opens, OpenFails(o) \/ OpenSucceeds(o)
  PROVE  RetirementInv'
<1>1. /\ opening \in [Opens -> OpenType] /\ opening[o].pc = "opening"
      /\ opening[o].of \in Generations
      /\ UNCHANGED <<entry, retirement, dependencies>>
  BY DEF OpenFails, OpenSucceeds, RetirementInv, TypeOK, OpenType, OpensFit
<1>2. CASE \E pc \in {"failed", "delivered"} :
             opening' = [opening EXCEPT ![o].pc = pc] /\ task' = task
  <2>1. PICK pc \in {"failed", "delivered"} :
          opening' = [opening EXCEPT ![o].pc = pc] /\ task' = task
    BY <1>2
  <2> DEFINE new == [opening[o] EXCEPT !.pc = pc]
  <2>2. /\ new \in OpenType /\ new.pc = pc /\ new.of = opening[o].of
        /\ opening' = [opening EXCEPT ![o] = new]
    BY <1>1, <2>1 DEF OpenType
  <2> HIDE DEF new
  <2>3. /\ task[<<"disposal", o>>] \in TaskType
        /\ task[<<"disposal", o>>].pc \notin {"running", "waiting"}
        /\ task' = [task EXCEPT ![<<"disposal", o>>] = task[<<"disposal", o>>]]
    BY <1>1, <2>1, NoDisposal
  <2> QED BY <1>1, <2>2, <2>3, OpenMoves
<1>3. CASE /\ ~Delivers(o) /\ opening' = [opening EXCEPT ![o].pc = "disposing"]
           /\ task' = [task EXCEPT ![<<"disposal", o>>].pc = "running"]
  <2> DEFINE new == [opening[o] EXCEPT !.pc = "disposing"]
             disposal == [task[<<"disposal", o>>] EXCEPT !.pc = "running"]
  <2>1. /\ new \in OpenType /\ new.pc = "disposing" /\ new.of = opening[o].of
        /\ opening' = [opening EXCEPT ![o] = new]
        /\ State("generation", new.of) # "active"
    BY <1>1, <1>3 DEF OpenType, Delivers
  <2>2. /\ disposal \in TaskType /\ disposal.pc = "running"
        /\ task' = [task EXCEPT ![<<"disposal", o>>] = disposal]
    <3>1. task[<<"disposal", o>>] \in TaskType
      BY <1>1, NoDisposal
    <3> QED BY <1>3, <3>1 DEF TaskType
  <2> HIDE DEF new, disposal
  <2> QED BY <1>1, <2>1, <2>2, OpenMoves
<1> QED BY <1>2, <1>3 DEF OpenFails, OpenSucceeds

LEMMA DisposalEndsKeeps ==
  ASSUME RetirementInv, NEW o \in Opens, NEW outcome \in {"ended", "failed"},
         DisposalEnds(o, outcome)
  PROVE  RetirementInv'
<1> DEFINE pc == IF outcome = "ended" THEN "disposed" ELSE "leaked"
           new == [opening[o] EXCEPT !.pc = pc]
           disposal == [Idle EXCEPT !.pc = outcome]
<1>1. /\ opening \in [Opens -> OpenType] /\ opening[o].pc = "disposing"
      /\ opening[o].of \in Generations
      /\ UNCHANGED <<entry, retirement, dependencies>>
  BY DEF DisposalEnds, RetirementInv, TypeOK, OpenType, OpensFit
<1>2. /\ new \in OpenType /\ new.pc \in {"disposed", "leaked"} /\ new.of = opening[o].of
      /\ opening' = [opening EXCEPT ![o] = new]
  BY <1>1 DEF OpenType, DisposalEnds
<1>3. /\ disposal \in TaskType /\ disposal.pc = outcome
      /\ task' = [task EXCEPT ![<<"disposal", o>>] = disposal]
  BY RetirementAssumption DEF DisposalEnds, TaskType, Idle
<1> HIDE DEF new, disposal
<1> QED BY <1>1, <1>2, <1>3, OpenMoves

LEMMA StutterKeeps ==
  ASSUME RetirementInv, UNCHANGED vars
  PROVE  RetirementInv'
<1>1. UNCHANGED <<entry, retirement, dependencies, task, opening>>
  BY DEF vars
<1>2. TypeOK' /\ TasksFit'
  BY <1>1 DEF RetirementInv, TypeOK, TasksFit, State
<1>3. OpensFit'
  BY <1>1 DEF RetirementInv, OpensFit, State
<1>4. EntryFits' /\ WaitsTracked'
  BY <1>1 DEF RetirementInv, EntryFits, WaitsTracked, HolderOf, State
<1>5. OwnersBegun' /\ GraphsSound'
  BY <1>1, OwnersStay
<1>6. SettledMeansDone'
  BY <1>1 DEF RetirementInv, SettledMeansDone, InFlight, State
<1> QED BY <1>2, <1>3, <1>4, <1>5, <1>6 DEF RetirementInv

LEMMA NextKeeps ==
  ASSUME RetirementInv, [Next]_vars
  PROVE  RetirementInv'
<1>1. ASSUME NEW g \in Generations,
             RunHooks(g) \/ GenerationSettles(g) \/ RunBody(g) \/ OutsideRetires(g)
      PROVE  RetirementInv'
  BY <1>1, RunHooksKeeps, GenerationSettlesKeeps, BodyKeeps, OutsideKeeps
<1>2. ASSUME NEW g \in Generations, NEW outcome \in {"ended", "failed"},
             RuntimeSettles(g, outcome)
      PROVE  RetirementInv'
  BY <1>2, RuntimeSettlesKeeps
<1>3. ASSUME NEW t \in Tasks, Resumes(t)
      PROVE  RetirementInv'
  BY <1>3, ResumesKeeps
<1>4. ASSUME NEW t \in Hooks, NEW outcome \in {"ended", "failed"}, HookEnds(t, outcome)
      PROVE  RetirementInv'
  BY <1>4, HookEndsKeeps
<1>5. ASSUME NEW o \in Opens, OpenSucceeds(o) \/ OpenFails(o)
      PROVE  RetirementInv'
  BY <1>5, OpenEndsKeeps
<1>6. ASSUME NEW o \in Opens, NEW outcome \in {"ended", "failed"}, DisposalEnds(o, outcome)
      PROVE  RetirementInv'
  BY <1>6, DisposalEndsKeeps
<1>7. ASSUME NEW t \in Tasks, NEW g \in Generations, NEW awaited \in BOOLEAN,
             UserCodeRetires(t, g, awaited)
      PROVE  RetirementInv'
  BY <1>7, UserCodeKeeps
<1>8. ASSUME NEW o \in Opens, NEW g \in Generations, OpenLane(o, g)
      PROVE  RetirementInv'
  BY <1>8, OpenLaneKeeps
<1>9. CASE UNCHANGED vars
  BY <1>9, StutterKeeps
<1> QED BY <1>1, <1>2, <1>3, <1>4, <1>5, <1>6, <1>7, <1>8, <1>9 DEF Next, Proceed

(***************************************************************************)
(* Whatever waits is in the graph of the layer users hold, but for a       *)
(* runtime that waits for its own generation.                              *)
(***************************************************************************)
Tracked(x, y) ==
  \E g, h \in Generations :
    \/ /\ x = <<"generation", g>> /\ y = <<entry, h>>
       /\ <<g, h>> \in dependencies[entry]
    \/ entry = "runtime" /\ x = <<"runtime", g>> /\ y = <<"generation", g>>

LEMMA WaitingEdge ==
  ASSUME RetirementInv, "runtime" \notin Reentrant, NEW x, NEW y, <<x, y>> \in WaitsFor
  PROVE  Tracked(x, y)
<1> USE DEF Tracked
<1>0. PICK l \in Layers, g \in Generations :
        \E t \in Awaits(l, g) \cap Waiting :
          x = <<l, g>> /\ y = <<task[t].layer, task[t].on>>
  BY DEF WaitsFor, Owners
<1>1. PICK t \in Awaits(l, g) \cap Waiting :
        x = <<l, g>> /\ y = <<task[t].layer, task[t].on>>
  BY <1>0
<1>2. /\ t \in Tasks /\ task[t].pc = "waiting" /\ State(l, g) = "retiring"
      /\ State(task[t].layer, task[t].on) \notin Settled
  BY DEF Awaits, Waiting
<1>3. task[t].on \in Generations
  BY <1>2 DEF RetirementInv, WaitsTracked
<1>4. CASE t \in Bodies
  <2>1. l = "runtime" /\ t[2] = g
    BY <1>4, TaskKinds DEF Awaits
  <2>2. task[t].layer = "generation" /\ task[t].on = g
    BY <1>2, <1>4, <2>1 DEF RetirementInv, WaitsTracked
  <2>3. entry = "runtime"
    BY <1>2, <2>1, Types DEF RetirementInv, EntryFits, Layers
  <2> QED BY <1>1, <2>1, <2>2, <2>3
<1>5. CASE t \in Hooks
  <2>1. l = "generation" /\ t[2] = g /\ HolderOf(t) = g /\ t \notin Bodies
    BY <1>5, TaskKinds DEF Awaits, HolderOf
  <2>2. task[t].layer = entry /\ <<g, task[t].on>> \in dependencies[entry]
    BY <1>2, <1>5, <2>1 DEF RetirementInv, WaitsTracked
  <2> QED BY <1>1, <1>3, <2>1, <2>2
<1>6. CASE t \in Disposals
  <2>1. l = "generation" /\ t[2] \in retirement["generation"][g].drain /\ t \notin Bodies
    BY <1>6, TaskKinds DEF Awaits
  <2>2. HolderOf(t) = g
    BY <1>6, <2>1 DEF RetirementInv, OpensFit, HolderOf
  <2>3. task[t].layer = entry /\ entry \in Reentrant
    BY <1>2, <1>6, <2>1 DEF RetirementInv, WaitsTracked
  <2>4. entry = "generation"
    BY <2>3, Types DEF Layers
  <2>5. <<g, task[t].on>> \in dependencies[entry]
    BY <1>2, <2>1, <2>2, <2>3, <2>4 DEF RetirementInv, WaitsTracked
  <2> QED BY <1>1, <1>3, <2>1, <2>3, <2>5
<1> QED BY <1>2, <1>4, <1>5, <1>6 DEF Tasks

LEMMA NoCycle ==
  ASSUME RetirementInv, "runtime" \notin Reentrant
  PROVE  NoCircularWait
<1>1. ASSUME NEW S, \A x \in S : \E y \in S : <<x, y>> \in WaitsFor
      PROVE  S = {}
  <2> DEFINE T == {g \in Generations : <<entry, g>> \in S}
  <2>1. \A x \in S : \E g, h \in Generations :
          \/ /\ x = <<"generation", g>> /\ <<entry, h>> \in S
             /\ <<g, h>> \in dependencies[entry]
          \/ entry = "runtime" /\ x = <<"runtime", g>> /\ <<"generation", g>> \in S
    <3> SUFFICES ASSUME NEW x \in S
                 PROVE  \E g, h \in Generations :
          \/ /\ x = <<"generation", g>> /\ <<entry, h>> \in S
             /\ <<g, h>> \in dependencies[entry]
          \/ entry = "runtime" /\ x = <<"runtime", g>> /\ <<"generation", g>> \in S
      OBVIOUS
    <3>1. PICK y \in S : <<x, y>> \in WaitsFor
      BY <1>1
    <3>2. Tracked(x, y)
      BY <3>1, WaitingEdge
    <3> QED BY <3>1, <3>2 DEF Tracked
  <2>2. \A g \in Generations : <<"generation", g>> \in S =>
          \E h \in T : <<g, h>> \in dependencies[entry]
    <3> SUFFICES ASSUME NEW g \in Generations, <<"generation", g>> \in S
                 PROVE  \E h \in T : <<g, h>> \in dependencies[entry]
      OBVIOUS
    <3>1. PICK k, h \in Generations :
            \/ /\ <<"generation", g>> = <<"generation", k>> /\ <<entry, h>> \in S
               /\ <<k, h>> \in dependencies[entry]
            \/ <<"generation", g>> = <<"runtime", k>>
      BY <2>1
    <3>2. k = g /\ <<entry, h>> \in S /\ <<k, h>> \in dependencies[entry]
      BY <3>1
    <3> QED BY <3>2
  <2>3. \A g \in T : \E h \in T : <<g, h>> \in dependencies[entry]
    <3> SUFFICES ASSUME NEW g \in T PROVE <<"generation", g>> \in S
      BY <2>2
    <3>1. PICK k, h \in Generations :
            \/ <<entry, g>> = <<"generation", k>>
            \/ entry = "runtime" /\ <<entry, g>> = <<"runtime", k>> /\ <<"generation", k>> \in S
      BY <2>1
    <3> QED BY <3>1
  <2>4. T = {}
    BY <2>3, NoLoop, Types DEF RetirementInv, GraphsSound
  <2> SUFFICES ASSUME NEW x \in S PROVE FALSE
    OBVIOUS
  <2>5. \E g \in Generations : <<"generation", g>> \in S
    BY <2>1
  <2> QED BY <2>2, <2>4, <2>5
<1> QED BY <1>1 DEF NoCircularWait, RetirementInv, GraphsSound

(***************************************************************************)
(* Theorems                                                                *)
(***************************************************************************)
\* Every state of retire(), openLane() and the hooks they run satisfies the
\* invariant: tasks, drains and graphs agree with the states of their owners.
THEOREM RetirementInvariant == Spec => []RetirementInv
<1>1. Init => RetirementInv
  BY InitKeeps
<1>2. RetirementInv /\ [Next]_vars => RetirementInv'
  BY NextKeeps
<1> QED BY <1>1, <1>2, PTL DEF Spec

\* What retire() promises of a generation: once it settled, its hooks have
\* ended, no open admitted before is under way, and it resolved exactly when
\* no hook failed and no late connection was left.
THEOREM SettledIsDone == Spec => []SettledMeansDone
<1>1. RetirementInv => SettledMeansDone
  BY DEF RetirementInv
<1> QED BY <1>1, RetirementInvariant, PTL

\* Hooks may await the retirement of any destination, and disposals that of
\* any bare generation: the contexts and graphs of #joinRetirement keep every
\* retirement from waiting for itself.  (A disposal that awaits the
\* retirement of a runtime is the case the assumption leaves out.)
THEOREM NothingWaitsForItself ==
  ASSUME "runtime" \notin Reentrant
  PROVE  Spec => []NoCircularWait
<1>1. RetirementInv => NoCircularWait
  BY NoCycle
<1> QED BY <1>1, RetirementInvariant, PTL

(***************************************************************************)
(* Induction.  The library states it with an operator; as sets it follows  *)
(* from the least element that a well-founded order gives.                 *)
(***************************************************************************)
LEMMA LeastNumber ==
  ASSUME NEW T, T \subseteq Nat, T # {}
  PROVE  \E n \in T : \A m \in T : n <= m
<1> DEFINE R == {ss \in Nat \X Nat : ss[1] < ss[2]}
<1>1. IsWellFoundedOn(R, Nat)
  BY NatLessThanWellFounded DEF OpToRel
<1>2. \A x, y \in Nat : <<y, x>> \in R <=> y < x
  OBVIOUS
<1> HIDE DEF R
<1>3. PICK x \in T : \A y \in T : ~ (<<y, x>> \in R)
  BY <1>1, WFMin
<1>4. \A y \in T : ~ (y < x)
  BY <1>2, <1>3
<1> QED
  BY <1>4

\* Induction, for the set of numbers that have the property
LEMMA SetInduction ==
  ASSUME NEW T, 0 \in T, \A n \in Nat : n \in T => n + 1 \in T
  PROVE  Nat \subseteq T
<1> SUFFICES ASSUME ~(Nat \subseteq T) PROVE FALSE
  OBVIOUS
<1> DEFINE U == {n \in Nat : n \notin T}
<1>1. PICK n \in U : \A m \in U : n <= m
  <2>1. U # {} /\ U \subseteq Nat
    OBVIOUS
  <2> HIDE DEF U
  <2> QED BY <2>1, LeastNumber
<1>2. n # 0 /\ n - 1 \in Nat /\ n - 1 \notin U
  BY <1>1
<1> QED
  BY <1>1, <1>2

\* The same up to a bound.
LEMMA BoundedInduction ==
  ASSUME NEW T, NEW N \in Nat, 0 \in T, \A n \in 0..(N - 1) : n \in T => n + 1 \in T
  PROVE  0..N \subseteq T
<1> DEFINE U == {n \in Nat : n <= N => n \in T}
<1>1. 0 \in U
  OBVIOUS
<1>2. ASSUME NEW n \in Nat, n \in U PROVE n + 1 \in U
  <2> SUFFICES ASSUME n + 1 <= N PROVE n + 1 \in T
    OBVIOUS
  <2>1. n \in 0..(N - 1) /\ n <= N
    OBVIOUS
  <2> QED BY <1>2, <2>1
<1> HIDE DEF U
<1>3. Nat \subseteq U
  BY <1>1, <1>2, SetInduction
<1> QED
  BY <1>3 DEF U

(***************************************************************************)
(* Definition by recursion over positions.  S[i] holds what the function   *)
(* may be at i, and F[i] is the step to it.                                *)
(***************************************************************************)
Steps(N, S, F) == \A i \in 1..N : F[i] \in [S[i - 1] -> S[i]]
Unwinds(g, N, S, F, b) ==
  /\ g = [i \in 0..N |-> g[i]] /\ g[0] = b
  /\ \A i \in 1..N : g[i] = F[i][g[i - 1]]
  /\ \A i \in 0..N : g[i] \in S[i]

\* Such a function exists, and it is the one: what a recursive LET computes.
LEMMA Recursion ==
  ASSUME NEW N \in Nat, NEW S, NEW F, NEW b, b \in S[0], Steps(N, S, F)
  PROVE  \E g : Unwinds(g, N, S, F, b)
<1> DEFINE Good(g, n) ==
             /\ g = [i \in 0..n |-> IF i = 0 THEN b ELSE F[i][g[i - 1]]]
             /\ \A i \in 0..n : g[i] \in S[i]
           T == {n \in Nat : \E g : Good(g, n)}
<1>1. 0 \in T
  <2> DEFINE g == [i \in 0..0 |-> b]
  <2>1. Good(g, 0)
    OBVIOUS
  <2> HIDE DEF g, Good
  <2> QED BY <2>1
<1>2. ASSUME NEW n \in 0..(N - 1), n \in T PROVE n + 1 \in T
  <2>1. PICK g : Good(g, n)
    BY <1>2
  <2>2. n \in 0..n /\ n + 1 \in 1..N /\ (n + 1) - 1 = n
    OBVIOUS
  <2>3. F[n + 1] \in [S[n] -> S[n + 1]]
    <3>1. F[n + 1] \in [S[(n + 1) - 1] -> S[n + 1]]
      BY <2>2 DEF Steps
    <3> QED BY <2>2, <3>1
  <2>4. g[n] \in S[n]
    BY <2>1, <2>2
  <2> DEFINE x == F[n + 1][g[n]]
             h == [i \in 0..(n + 1) |-> IF i = n + 1 THEN x ELSE g[i]]
  <2>5. x \in S[n + 1]
    BY <2>3, <2>4
  <2>6. ASSUME NEW i \in 0..(n + 1)
        PROVE  h[i] = (IF i = 0 THEN b ELSE F[i][h[i - 1]]) /\ h[i] \in S[i]
    <3>1. CASE i = n + 1
      <4>1. h[i] = x /\ h[i - 1] = g[n] /\ i # 0
        <5> HIDE DEF x, Good
        <5> QED BY <2>2, <3>1
      <4>2. h[i] = F[i][h[i - 1]]
        <5> HIDE DEF h, Good
        <5> QED BY <3>1, <4>1, Zenon
      <4> HIDE DEF h, Good, x
      <4> QED BY <2>5, <3>1, <4>1, <4>2, Zenon
    <3>2. CASE i \in 0..n
      <4>1. h[i] = g[i] /\ (i # 0 => h[i - 1] = g[i - 1])
        <5> HIDE DEF x, Good
        <5> QED BY <2>2, <3>2
      <4>2. g[i] = (IF i = 0 THEN b ELSE F[i][g[i - 1]]) /\ g[i] \in S[i]
        BY <2>1, <3>2, Zenon
      <4> HIDE DEF h, Good
      <4> QED BY <4>1, <4>2, Zenon
    <3>3. i = n + 1 \/ i \in 0..n
      BY <2>2
    <3> HIDE DEF h, Good
    <3> QED BY <3>1, <3>2, <3>3, Zenon
  <2>7. h = [i \in 0..(n + 1) |-> h[i]]
    <3> HIDE DEF x, Good
    <3> QED OBVIOUS
  <2> HIDE DEF h
  <2>8. Good(h, n + 1)
    BY <2>6, <2>7, Zenon
  <2> HIDE DEF Good
  <2> QED BY <2>8
<1> HIDE DEF T
<1>3. 0..N \subseteq T
  BY <1>1, <1>2, BoundedInduction
<1>4. PICK g : Good(g, N)
  BY <1>3 DEF T
<1>5. ASSUME NEW i \in 0..N
      PROVE  g[i] = (IF i = 0 THEN b ELSE F[i][g[i - 1]]) /\ g[i] \in S[i]
  BY <1>4
<1>6. g = [i \in 0..N |-> g[i]]
  BY <1>4
<1>7. g[0] = b /\ \A i \in 1..N : g[i] = F[i][g[i - 1]]
  BY <1>5
<1> HIDE DEF Good
<1> QED BY <1>5, <1>6, <1>7 DEF Unwinds

(***************************************************************************)
(* Sequences                                                               *)
(***************************************************************************)
LEMMA Cut ==
  ASSUME NEW S, NEW s \in Seq(S), NEW a \in Nat, NEW b \in Int, b <= Len(s)
  PROVE  /\ SubSeq(s, a + 1, b) \in Seq(S)
         /\ Len(SubSeq(s, a + 1, b)) = (IF a <= b THEN b - a ELSE 0)
         /\ \A i \in 1..(b - a) : SubSeq(s, a + 1, b)[i] = s[a + i]
<1>1. \A i \in (a + 1)..b : s[i] \in S
  <2> SUFFICES ASSUME NEW i \in (a + 1)..b PROVE s[i] \in S
    OBVIOUS
  <2>1. i \in 1..Len(s)
    BY LenProperties
  <2> QED BY <2>1, ElementOfSeq
<1>2. a + 1 \in Int
  OBVIOUS
<1>3. /\ SubSeq(s, a + 1, b) \in Seq(S)
      /\ Len(SubSeq(s, a + 1, b)) = (IF a + 1 <= b THEN b - (a + 1) + 1 ELSE 0)
      /\ \A i \in 1..(b - (a + 1) + 1) : SubSeq(s, a + 1, b)[i] = s[(a + 1) + i - 1]
  BY <1>1, <1>2, SubSeqProperties
<1>4. \A i \in 1..(b - a) : i \in 1..(b - (a + 1) + 1) /\ (a + 1) + i - 1 = a + i
  OBVIOUS
<1>5. \A i \in 1..(b - a) : SubSeq(s, a + 1, b)[i] = s[a + i]
  BY <1>3, <1>4
<1> QED
  BY <1>3, <1>5

\* Where bytes are joined first does not matter.
LEMMA BytesAssociate ==
  ASSUME NEW r \in Seq(Byte), NEW s \in Seq(Byte), NEW t \in Seq(Byte)
  PROVE  (r \o s) \o t = r \o (s \o t)
BY ConcatAssociative

\* The bytes from a place to an earlier one are none.
LEMMA CutNone ==
  ASSUME NEW s, NEW a \in Int, NEW b \in Int, b <= a
  PROVE  SubSeq(s, a + 1, b) = <<>>
<1>1. a + 1 \in Int /\ b < a + 1
  OBVIOUS
<1> QED BY <1>1, SubSeqEmpty

\* The first of a sequence, cut off
LEMMA CutOne ==
  ASSUME NEW S, NEW s \in Seq(S), 1 <= Len(s)
  PROVE  s[1] \in S /\ SubSeq(s, 1, 1) = <<s[1]>>
<1>1. Len(s) \in Nat
  BY LenProperties
<1>2. 1 \in 1..Len(s)
  BY <1>1
<1>3. s[1] \in S
  BY <1>2, ElementOfSeq
<1> DEFINE t == SubSeq(s, 1, 1)
           u == <<s[1]>>
<1>4. t \in Seq(S) /\ Len(t) = 1 /\ t[1] = s[1]
  BY <1>1, <1>2, SubSeqProperties
<1>5. u \in Seq(S) /\ Len(u) = 1 /\ u[1] = s[1]
  BY <1>3
<1> HIDE DEF t, u
<1>6. \A i \in 1..Len(t) : t[i] = u[i]
  BY <1>4, <1>5
<1>7. t = u
  BY <1>4, <1>5, <1>6, SeqEqual
<1> QED BY <1>3, <1>7 DEF t, u

\* Cuts that meet join to one, a cut of a cut is a cut, and a cut of two
\* sequences comes from one of them or from the end and the beginning.
LEMMA CutJoin ==
  ASSUME NEW s \in Seq(Byte), NEW a \in Nat, NEW b \in Nat, NEW c \in Nat,
         a <= b, b <= c, c <= Len(s)
  PROVE  SubSeq(s, a + 1, b) \o SubSeq(s, b + 1, c) = SubSeq(s, a + 1, c)
<1>1. Len(s) \in Nat
  BY LenProperties
<1>2. a + 1 \in 1..(Len(s) + 1) /\ b \in ((a + 1) - 1)..Len(s) /\ c \in b..Len(s)
  BY <1>1
<1> QED BY <1>2, ConcatAdjacentSubSeq

LEMMA CutCut ==
  ASSUME NEW S, NEW s \in Seq(S), NEW a \in Nat, NEW b \in Nat, NEW i \in Nat, NEW j \in Nat,
         a <= b, b <= Len(s), j <= b - a
  PROVE  SubSeq(SubSeq(s, a + 1, b), i + 1, j) = SubSeq(s, a + i + 1, a + j)
<1> DEFINE t == SubSeq(s, a + 1, b)
<1>1. t \in Seq(S) /\ Len(t) = b - a /\ \A k \in 1..(b - a) : t[k] = s[a + k]
  BY Cut
<1> HIDE DEF t
<1>2. /\ SubSeq(t, i + 1, j) \in Seq(S)
      /\ Len(SubSeq(t, i + 1, j)) = (IF i <= j THEN j - i ELSE 0)
      /\ \A k \in 1..(j - i) : SubSeq(t, i + 1, j)[k] = t[i + k]
  BY <1>1, Cut
<1>3. Len(s) \in Nat /\ a + i \in Nat /\ a + j \in Nat /\ a + j <= Len(s)
  BY LenProperties
<1>4. /\ SubSeq(s, (a + i) + 1, a + j) \in Seq(S)
      /\ Len(SubSeq(s, (a + i) + 1, a + j)) = (IF a + i <= a + j THEN (a + j) - (a + i) ELSE 0)
      /\ \A k \in 1..((a + j) - (a + i)) : SubSeq(s, (a + i) + 1, a + j)[k] = s[(a + i) + k]
  <2> HIDE <1>1, <1>2
  <2> QED BY <1>3, Cut
<1>5. \A k \in 1..(j - i) : t[i + k] = s[(a + i) + k]
  BY <1>1
<1>6. Len(SubSeq(t, i + 1, j)) = Len(SubSeq(s, (a + i) + 1, a + j))
  BY <1>2, <1>4
<1>7. \A k \in 1..Len(SubSeq(t, i + 1, j)) :
        SubSeq(t, i + 1, j)[k] = SubSeq(s, (a + i) + 1, a + j)[k]
  <2> SUFFICES ASSUME NEW k \in 1..Len(SubSeq(t, i + 1, j))
               PROVE  SubSeq(t, i + 1, j)[k] = SubSeq(s, (a + i) + 1, a + j)[k]
    OBVIOUS
  <2>1. k \in 1..(j - i) /\ k \in 1..((a + j) - (a + i))
    BY <1>2
  <2> QED BY <1>2, <1>4, <1>5, <2>1
<1>8. SubSeq(t, i + 1, j) = SubSeq(s, (a + i) + 1, a + j)
  BY <1>2, <1>4, <1>6, <1>7, SeqEqual
<1> QED BY <1>8 DEF t

LEMMA CutLeft ==
  ASSUME NEW s \in Seq(Byte), NEW t \in Seq(Byte), NEW a \in Nat, NEW b \in Nat,
         b <= Len(s)
  PROVE  SubSeq(s \o t, a + 1, b) = SubSeq(s, a + 1, b)
<1>1. CASE b <= a
  BY <1>1, CutNone
<1>2. CASE a < b
  <2>1. a + 1 \in 1..Len(s) /\ b \in 1..Len(s)
    BY <1>2, LenProperties
  <2> QED BY <2>1, SubSeqOfConcat1
<1> QED BY <1>1, <1>2

LEMMA CutRight ==
  ASSUME NEW s \in Seq(Byte), NEW t \in Seq(Byte), NEW a \in Nat, NEW b \in Nat,
         b <= Len(t)
  PROVE  SubSeq(s \o t, Len(s) + a + 1, Len(s) + b) = SubSeq(t, a + 1, b)
<1>1. Len(s) \in Nat /\ Len(t) \in Nat
  BY LenProperties
<1>2. CASE b <= a
  <2>1. Len(s) + a \in Int /\ Len(s) + b \in Int /\ Len(s) + b <= Len(s) + a
    BY <1>1, <1>2
  <2>2. SubSeq(s \o t, Len(s) + a + 1, Len(s) + b) = <<>>
    BY <2>1, CutNone
  <2> QED BY <1>2, <2>2, CutNone
<1>3. CASE a < b
  <2>1. /\ Len(s) + a + 1 \in (Len(s) + 1)..(Len(s) + Len(t))
        /\ Len(s) + b \in (Len(s) + 1)..(Len(s) + Len(t))
        /\ (Len(s) + a + 1) - Len(s) = a + 1 /\ (Len(s) + b) - Len(s) = b
    BY <1>1, <1>3
  <2>2. SubSeq(s \o t, Len(s) + a + 1, Len(s) + b)
          = SubSeq(t, (Len(s) + a + 1) - Len(s), (Len(s) + b) - Len(s))
    BY <2>1, SubSeqOfConcat2
  <2> QED BY <2>1, <2>2
<1> QED BY <1>2, <1>3

LEMMA CutAcross ==
  ASSUME NEW s \in Seq(Byte), NEW t \in Seq(Byte), NEW a \in Nat, NEW b \in Nat,
         a <= Len(s), b <= Len(t)
  PROVE  SubSeq(s \o t, a + 1, Len(s) + b) = SubSeq(s, a + 1, Len(s)) \o SubSeq(t, 1, b)
<1>1. Len(s) \in Nat /\ Len(t) \in Nat
  BY LenProperties
<1>2. s \o t \in Seq(Byte) /\ Len(s \o t) = Len(s) + Len(t)
  BY ConcatProperties
<1>3. SubSeq(s \o t, a + 1, Len(s) + b)
        = SubSeq(s \o t, a + 1, Len(s)) \o SubSeq(s \o t, Len(s) + 1, Len(s) + b)
  <2> DEFINE u == s \o t
             k == Len(s)
             m == Len(s) + b
  <2>1. u \in Seq(Byte) /\ k \in Nat /\ m \in Nat /\ a <= k /\ k <= m /\ m <= Len(u)
    BY <1>1, <1>2
  <2> HIDE DEF u, k, m
  <2>2. SubSeq(u, a + 1, k) \o SubSeq(u, k + 1, m) = SubSeq(u, a + 1, m)
    BY <2>1, CutJoin
  <2> QED BY <2>2 DEF u, k, m
<1> DEFINE n == Len(s)
<1>4. SubSeq(s \o t, a + 1, n) = SubSeq(s, a + 1, n)
  <2>1. n \in Nat /\ n <= Len(s)
    BY <1>1
  <2> HIDE DEF n
  <2> QED BY <2>1, CutLeft
<1>5. SubSeq(s \o t, Len(s) + 0 + 1, Len(s) + b) = SubSeq(t, 0 + 1, b)
  BY CutRight
<1>6. Len(s) + 0 + 1 = Len(s) + 1 /\ 0 + 1 = 1
  BY <1>1
<1>7. SubSeq(s \o t, Len(s) + 1, Len(s) + b) = SubSeq(t, 1, b)
  BY <1>5, <1>6
<1> QED BY <1>3, <1>4, <1>7

(***************************************************************************)
(* The bytes of chunks                                                     *)
(***************************************************************************)
\* The bytes of the first i chunks, for each i
Joins(g, c) ==
  /\ g \in [0..Len(c) -> Seq(Byte)] /\ g[0] = <<>>
  /\ \A i \in 1..Len(c) : g[i] = g[i - 1] \o c[i]

LEMMA JoinsExist ==
  ASSUME NEW c \in Seq(Seq(Byte))
  PROVE  \E g : Joins(g, c)
<1> DEFINE N == Len(c)
           S == [i \in 0..N |-> Seq(Byte)]
           F == [i \in 1..N |-> [s \in Seq(Byte) |-> s \o c[i]]]
<1>1. N \in Nat /\ \A i \in 1..N : c[i] \in Seq(Byte)
  BY LenProperties, ElementOfSeq
<1> HIDE DEF N
<1>2. ASSUME NEW i \in 1..N
      PROVE  F[i] \in [S[i - 1] -> S[i]] /\ \A s \in Seq(Byte) : F[i][s] = s \o c[i]
  <2>1. F[i] = [s \in Seq(Byte) |-> s \o c[i]] /\ S[i - 1] = Seq(Byte) /\ S[i] = Seq(Byte)
    <3>1. i \in 0..N /\ i - 1 \in 0..N
      BY <1>1
    <3>2. S[i - 1] = Seq(Byte) /\ S[i] = Seq(Byte)
      BY <3>1
    <3>3. F[i] = [s \in Seq(Byte) |-> s \o c[i]]
      BY Zenon
    <3> QED BY <3>2, <3>3
  <2>2. \A s \in Seq(Byte) : s \o c[i] \in Seq(Byte)
    BY <1>1, ConcatProperties
  <2> HIDE DEF F, S
  <2> QED BY <2>1, <2>2, Zenon
<1>3. <<>> \in S[0] /\ \A i \in 0..N : S[i] = Seq(Byte)
  BY <1>1, EmptySeq
<1> HIDE DEF S, F
<1>4. Steps(N, S, F)
  BY <1>2 DEF Steps
<1>5. PICK g : Unwinds(g, N, S, F, <<>>)
  BY <1>1, <1>3, <1>4, Recursion
<1>7. g \in [0..N -> Seq(Byte)] /\ g[0] = <<>>
  BY <1>1, <1>3, <1>5 DEF Unwinds
<1>6. ASSUME NEW i \in 1..N PROVE g[i] = g[i - 1] \o c[i]
  <2>1. i - 1 \in 0..N
    BY <1>1
  <2>2. g[i] = F[i][g[i - 1]]
    BY <1>5 DEF Unwinds
  <2>3. g[i - 1] \in Seq(Byte)
    BY <1>3, <1>5, <2>1 DEF Unwinds
  <2> QED BY <1>2, <2>2, <2>3
<1> QED BY <1>6, <1>7 DEF N, Joins

\* Two functions that agree on how they begin and go on are one.
LEMMA FlattenIs ==
  ASSUME NEW c \in Seq(Seq(Byte)), NEW g, Joins(g, c)
  PROVE  FlattenSeq(c) = g[Len(c)]
<1> DEFINE N == Len(c)
<1>1. N \in Nat /\ \A i \in 1..N : c[i] \in Seq(Byte)
  BY LenProperties, ElementOfSeq
<1>2. CASE N = 0
  <2>1. c = <<>>
    BY <1>2, EmptySeq
  <2> QED BY <1>2, <2>1 DEF FlattenSeq, Joins
<1>3. CASE N # 0
  <2> DEFINE Is(f) == f = [i \in 1..N |-> IF i = 1 THEN c[i] ELSE f[i - 1] \o c[i]]
             f == CHOOSE f : Is(f)
             h == [i \in 1..N |-> g[i]]
  <2>1. FlattenSeq(c) = f[N]
    BY <1>3 DEF FlattenSeq
  <2>2. Is(h)
    <3>1. ASSUME NEW i \in 1..N
          PROVE  h[i] = IF i = 1 THEN c[i] ELSE h[i - 1] \o c[i]
      <4>1. g[i] = g[i - 1] \o c[i] /\ h[i] = g[i]
        BY DEF Joins
      <4>2. CASE i = 1
        <5>1. g[i - 1] = <<>> /\ c[i] \in Seq(Byte)
          BY <1>1, <4>2 DEF Joins
        <5> QED BY <4>1, <4>2, <5>1, ConcatEmptySeq
      <4>3. CASE i # 1
        <5>1. i - 1 \in 1..N
          BY <1>1, <4>3
        <5>2. h[i - 1] = g[i - 1]
          BY <5>1
        <5> QED BY <4>1, <4>3, <5>2
      <4> QED BY <4>2, <4>3
    <3>2. h = [i \in 1..N |-> h[i]]
      OBVIOUS
    <3> HIDE DEF h, N
    <3> QED BY <3>1, <3>2
  <2>3. Is(f)
    BY <2>2
  <2> HIDE DEF f, h
  <2> DEFINE T == {k \in Nat : k \in 1..N => f[k] = g[k]}
  <2>4. 0 \in T
    OBVIOUS
  <2>5. ASSUME NEW k \in 0..(N - 1), k \in T PROVE k + 1 \in T
    <3>1. k \in Nat /\ k + 1 \in 1..N /\ (k + 1) - 1 = k
      BY <1>1
    <3>2. g[k + 1] = g[k] \o c[k + 1]
      BY <3>1 DEF Joins
    <3>3. f[k + 1] = IF k + 1 = 1 THEN c[k + 1] ELSE f[(k + 1) - 1] \o c[k + 1]
      <4> HIDE DEF N
      <4> QED BY <2>3, <3>1
    <3>4. CASE k = 0
      <4>1. g[0] = <<>> /\ c[k + 1] \in Seq(Byte)
        BY <1>1, <3>1 DEF Joins
      <4>2. g[k + 1] = c[k + 1]
        BY <3>2, <3>4, <4>1, ConcatEmptySeq
      <4>3. f[k + 1] = c[k + 1]
        BY <3>3, <3>4
      <4> QED BY <3>1, <4>2, <4>3
    <3>5. CASE k # 0
      <4>1. f[k] = g[k] /\ k + 1 # 1
        BY <2>5, <3>1, <3>5
      <4>2. f[k + 1] = f[k] \o c[k + 1]
        BY <3>1, <3>3, <4>1
      <4>3. f[k + 1] = g[k + 1]
        BY <3>2, <4>1, <4>2, Zenon
      <4> QED BY <3>1, <4>3
    <3> QED BY <3>4, <3>5
  <2> HIDE DEF T, N, Is
  <2>6. N \in T
    <3>1. 0..N \subseteq T
      BY <1>1, <2>4, <2>5, BoundedInduction
    <3> QED BY <1>1, <3>1
  <2>7. f[N] = g[N]
    BY <1>1, <1>3, <2>6 DEF T
  <2> QED BY <2>1, <2>7 DEF N
<1> QED BY <1>2, <1>3

\* The bytes of chunks are bytes.
LEMMA FlattenType ==
  ASSUME NEW c \in Chunks
  PROVE  FlattenSeq(c) \in Seq(Byte)
<1>1. PICK g : Joins(g, c)
  BY JoinsExist DEF Chunks
<1>2. FlattenSeq(c) = g[Len(c)]
  BY <1>1, FlattenIs DEF Chunks
<1>3. Len(c) \in 0..Len(c)
  BY LenProperties DEF Chunks
<1> QED BY <1>1, <1>2, <1>3 DEF Joins

LEMMA FlattenEmpty == FlattenSeq(<<>>) = <<>>
  BY DEF FlattenSeq

\* A chunk that arrives comes last.
LEMMA FlattenAppend ==
  ASSUME NEW c \in Chunks, NEW x \in Seq(Byte)
  PROVE  FlattenSeq(Append(c, x)) = FlattenSeq(c) \o x
<1> DEFINE d == Append(c, x)
           N == Len(c)
<1>1. /\ N \in Nat /\ d \in Chunks /\ Len(d) = N + 1
      /\ d[N + 1] = x /\ \A i \in 1..N : d[i] = c[i]
  BY AppendProperties, LenProperties DEF Chunks
<1> HIDE DEF d, N
<1>2. PICK g : Joins(g, d)
  BY <1>1, JoinsExist DEF Chunks
<1>3. FlattenSeq(d) = g[N + 1]
  BY <1>1, <1>2, FlattenIs DEF Chunks
<1>4. g[N + 1] = g[N] \o x
  <2>1. N + 1 \in 1..Len(d) /\ (N + 1) - 1 = N
    BY <1>1
  <2>2. g[N + 1] = g[(N + 1) - 1] \o d[N + 1]
    BY <1>2, <2>1 DEF Joins
  <2> QED BY <1>1, <2>1, <2>2, Zenon
<1> DEFINE h == [i \in 0..N |-> g[i]]
<1>5. Joins(h, c)
  <2>1. h \in [0..N -> Seq(Byte)] /\ h[0] = <<>>
    BY <1>1, <1>2 DEF Joins
  <2>2. ASSUME NEW i \in 1..N PROVE h[i] = h[i - 1] \o c[i]
    <3>1. i \in 1..Len(d) /\ i \in 0..N /\ i - 1 \in 0..N /\ d[i] = c[i]
      BY <1>1
    <3>2. h[i] = g[i] /\ h[i - 1] = g[i - 1]
      BY <3>1
    <3>3. g[i] = g[i - 1] \o d[i]
      BY <1>2, <3>1 DEF Joins
    <3> HIDE DEF h
    <3> QED BY <3>1, <3>2, <3>3, Zenon
  <2> HIDE DEF h
  <2> QED BY <2>1, <2>2 DEF Joins, N
<1>6. FlattenSeq(c) = g[N]
  <2>1. h[N] = g[N]
    BY <1>1
  <2> HIDE DEF h
  <2>2. FlattenSeq(c) = h[N]
    BY <1>5, FlattenIs DEF N, Chunks
  <2> QED BY <2>1, <2>2
<1> QED BY <1>3, <1>4, <1>6 DEF d

\* The bytes of the first chunks are those with which all of them begin, and
\* the others follow.
LEMMA JoinsGrow ==
  ASSUME NEW c \in Chunks, NEW g, Joins(g, c), NEW i \in 1..Len(c)
  PROVE  /\ g[i - 1] \in Seq(Byte) /\ g[i] \in Seq(Byte) /\ c[i] \in Seq(Byte)
         /\ g[i] = g[i - 1] \o c[i]
         /\ Len(g[i]) = Len(g[i - 1]) + Len(c[i])
<1>1. i \in 0..Len(c) /\ i - 1 \in 0..Len(c)
  BY LenProperties DEF Chunks
<1>2. g[i - 1] \in Seq(Byte) /\ g[i] \in Seq(Byte) /\ c[i] \in Seq(Byte)
  BY <1>1, ElementOfSeq DEF Joins, Chunks
<1>3. g[i] = g[i - 1] \o c[i]
  BY DEF Joins
<1>4. Len(g[i - 1] \o c[i]) = Len(g[i - 1]) + Len(c[i])
  <2> DEFINE u == g[i - 1]
             v == c[i]
  <2>1. u \in Seq(Byte) /\ v \in Seq(Byte)
    BY <1>2
  <2> HIDE DEF u, v
  <2>2. Len(u \o v) = Len(u) + Len(v)
    BY <2>1, ConcatProperties
  <2> QED BY <2>2 DEF u, v
<1> QED BY <1>2, <1>3, <1>4, Zenon

\* Each is the beginning of the later ones.
LEMMA JoinsBegin ==
  ASSUME NEW c \in Chunks, NEW g, Joins(g, c), NEW h \in 0..Len(c)
  PROVE  \A i \in h..Len(c) : Len(g[h]) <= Len(g[i]) /\ SubSeq(g[i], 1, Len(g[h])) = g[h]
<1> DEFINE N == Len(c)
           M == N - h
           T == {k \in Nat : k <= M => /\ Len(g[h]) <= Len(g[h + k])
                                       /\ SubSeq(g[h + k], 1, Len(g[h])) = g[h]}
<1>1. N \in Nat /\ h \in Nat /\ M \in Nat /\ \A i \in 0..N : g[i] \in Seq(Byte)
  BY LenProperties DEF Chunks, Joins
<1>2. 0 \in T
  <2>1. g[h] \in Seq(Byte) /\ h + 0 = h
    BY <1>1
  <2>2. Len(g[h]) \in Nat /\ SubSeq(g[h], 1, Len(g[h])) = g[h]
    BY <2>1, SubSeqFull, LenProperties
  <2> QED BY <2>1, <2>2
<1>3. ASSUME NEW k \in 0..(M - 1), k \in T PROVE k + 1 \in T
  <2> DEFINE i == h + (k + 1)
             m == Len(g[h])
             u == g[h + k]
             v == c[i]
  <2>1. k \in Nat /\ i \in 1..Len(c) /\ i - 1 = h + k /\ k <= M
    BY <1>1
  <2>2. m \in Nat /\ m <= Len(u) /\ SubSeq(u, 1, m) = g[h]
    <3>1. g[h] \in Seq(Byte)
      BY <1>1
    <3>2. m \in Nat
      BY <3>1, LenProperties
    <3> QED BY <1>3, <2>1, <3>2
  <2>3. /\ u \in Seq(Byte) /\ v \in Seq(Byte) /\ g[i] = u \o v
        /\ Len(g[i]) = Len(u) + Len(v)
    <3> HIDE DEF i
    <3>1. /\ g[i - 1] \in Seq(Byte) /\ c[i] \in Seq(Byte)
          /\ g[i] = g[i - 1] \o c[i] /\ Len(g[i]) = Len(g[i - 1]) + Len(c[i])
      BY <2>1, JoinsGrow
    <3> QED BY <2>1, <3>1, Zenon
  <2> HIDE DEF u, v, i, m
  <2>4. SubSeq(u \o v, 0 + 1, m) = SubSeq(u, 0 + 1, m)
    BY <2>2, <2>3, CutLeft
  <2>5. SubSeq(g[i], 1, m) = g[h]
    BY <2>2, <2>3, <2>4
  <2>6. m <= Len(g[i])
    <3>1. Len(u) \in Nat /\ Len(v) \in Nat
      BY <2>3, LenProperties
    <3> QED BY <2>2, <2>3, <3>1
  <2> QED BY <2>1, <2>5, <2>6 DEF i, m
<1> HIDE DEF T
<1>4. 0..M \subseteq T
  <2> HIDE DEF M
  <2> QED BY <1>1, <1>2, <1>3, BoundedInduction
<1> SUFFICES ASSUME NEW i \in h..Len(c)
             PROVE  Len(g[h]) <= Len(g[i]) /\ SubSeq(g[i], 1, Len(g[h])) = g[h]
  OBVIOUS
<1>5. i - h \in 0..M /\ h + (i - h) = i /\ i - h <= M
  BY <1>1
<1> QED BY <1>4, <1>5 DEF T

\* Without the first chunks, their bytes are gone.
LEMMA FlattenDrop ==
  ASSUME NEW c \in Chunks, NEW g, Joins(g, c), NEW h \in 0..Len(c)
  PROVE  FlattenSeq(SubSeq(c, h + 1, Len(c)))
           = SubSeq(FlattenSeq(c), Len(g[h]) + 1, Len(FlattenSeq(c)))
<1> DEFINE N == Len(c)
           d == SubSeq(c, h + 1, N)
           a == Len(g[h])
           f == [j \in 0..(N - h) |-> SubSeq(g[h + j], a + 1, Len(g[h + j]))]
<1>1. N \in Nat /\ h \in Nat /\ N - h \in Nat /\ \A i \in 0..N : g[i] \in Seq(Byte)
  BY LenProperties DEF Chunks, Joins
<1>2. d \in Chunks /\ Len(d) = N - h /\ \A j \in 1..(N - h) : d[j] = c[h + j]
  <2>1. N <= Len(c) /\ h <= N
    BY <1>1
  <2> HIDE DEF N
  <2> QED BY <1>1, <2>1, Cut DEF Chunks
<1>3. a \in Nat /\ \A i \in h..N : a <= Len(g[i])
  BY <1>1, LenProperties, JoinsBegin
<1>4. ASSUME NEW j \in 0..(N - h)
      PROVE  f[j] = SubSeq(g[h + j], a + 1, Len(g[h + j])) /\ f[j] \in Seq(Byte)
  <2> DEFINE u == g[h + j]
  <2>1. f[j] = SubSeq(g[h + j], a + 1, Len(g[h + j]))
    OBVIOUS
  <2>2. u \in Seq(Byte)
    <3>1. h + j \in 0..N
      BY <1>1
    <3> QED BY <1>1, <3>1
  <2>3. Len(u) \in Int /\ Len(u) <= Len(u)
    BY <2>2, LenProperties
  <2> HIDE DEF u, a, f
  <2>4. SubSeq(u, a + 1, Len(u)) \in Seq(Byte)
    BY <1>3, <2>2, <2>3, Cut
  <2> QED BY <2>1, <2>4 DEF u
<1>5. Joins(f, d)
  <2>1. f \in [0..Len(d) -> Seq(Byte)]
    <3>1. f = [j \in 0..(N - h) |-> f[j]]
      OBVIOUS
    <3> HIDE DEF f, d, N
    <3> QED BY <1>2, <1>4, <3>1
  <2>2. f[0] = <<>>
    <3>1. f[0] = SubSeq(g[h + 0], a + 1, Len(g[h + 0])) /\ h + 0 = h
      BY <1>1
    <3>2. f[0] = SubSeq(g[h], a + 1, a)
      <4> HIDE DEF f
      <4> QED BY <3>1
    <3> HIDE DEF f, a
    <3> QED BY <1>3, <3>2, CutNone
  <2>3. ASSUME NEW j \in 1..Len(d) PROVE f[j] = f[j - 1] \o d[j]
    <3> DEFINE u == g[h + (j - 1)]
               v == c[h + j]
    <3>1. /\ j \in 0..(N - h) /\ j - 1 \in 0..(N - h) /\ j \in 1..(N - h)
          /\ h + j \in 1..N /\ (h + j) - 1 = h + (j - 1) /\ h + (j - 1) \in h..N
      <4> HIDE DEF d
      <4> QED BY <1>1, <1>2
    <3>2. /\ u \in Seq(Byte) /\ v \in Seq(Byte) /\ g[h + j] = u \o v
          /\ Len(g[h + j]) = Len(u) + Len(v)
      <4> DEFINE i == h + j
      <4>1. i \in 1..Len(c) /\ i - 1 = h + (j - 1)
        BY <3>1
      <4> HIDE DEF i
      <4>2. /\ g[i - 1] \in Seq(Byte) /\ c[i] \in Seq(Byte)
            /\ g[i] = g[i - 1] \o c[i] /\ Len(g[i]) = Len(g[i - 1]) + Len(c[i])
        BY <4>1, JoinsGrow
      <4> QED BY <4>1, <4>2, Zenon DEF i
    <3>3. f[j] = SubSeq(g[h + j], a + 1, Len(g[h + j])) /\ f[j - 1] = SubSeq(u, a + 1, Len(u))
      BY <1>4, <3>1
    <3>4. a <= Len(u) /\ d[j] = v
      BY <1>2, <1>3, <3>1
    <3> HIDE DEF f, u, v, a, d
    <3>5. Len(v) \in Nat /\ SubSeq(v, 1, Len(v)) = v
      BY <3>2, LenProperties, SubSeqFull
    <3>6. SubSeq(u \o v, a + 1, Len(u) + Len(v)) = SubSeq(u, a + 1, Len(u)) \o SubSeq(v, 1, Len(v))
      <4> DEFINE b == Len(v)
      <4>1. b \in Nat /\ b <= Len(v)
        BY <3>5
      <4> HIDE DEF b
      <4>2. SubSeq(u \o v, a + 1, Len(u) + b) = SubSeq(u, a + 1, Len(u)) \o SubSeq(v, 1, b)
        <5>1. \A x, y \in Nat : x <= Len(u) /\ y <= Len(v) =>
                SubSeq(u \o v, x + 1, Len(u) + y) = SubSeq(u, x + 1, Len(u)) \o SubSeq(v, 1, y)
          BY <3>2, CutAcross
        <5> QED BY <1>3, <3>4, <4>1, <5>1, Zenon
      <4> QED BY <4>2 DEF b
    <3>7. f[j] = SubSeq(u \o v, a + 1, Len(u) + Len(v))
      BY <3>2, <3>3, Zenon
    <3> QED BY <3>3, <3>4, <3>5, <3>6, <3>7, Zenon
  <2> HIDE DEF f, d
  <2> QED BY <2>1, <2>2, <2>3 DEF Joins
<1> HIDE DEF f, d, a, N
<1>6. FlattenSeq(d) = f[N - h]
  BY <1>2, <1>5, FlattenIs DEF Chunks
<1>7. FlattenSeq(c) = g[N]
  BY FlattenIs DEF Chunks, N
<1>8. N - h \in 0..(N - h) /\ h + (N - h) = N
  BY <1>1
<1>9. f[N - h] = SubSeq(g[h + (N - h)], a + 1, Len(g[h + (N - h)]))
  BY <1>4, <1>8
<1>10. f[N - h] = SubSeq(g[N], a + 1, Len(g[N]))
  BY <1>8, <1>9, Zenon
<1> QED BY <1>6, <1>7, <1>10, Zenon DEF d, a, N

\* Reading on in the next chunk is reading on in the bytes of all.
LEMMA ReadOnBytes ==
  ASSUME NEW F \in Seq(Byte), NEW u \in Seq(Byte), NEW v \in Seq(Byte),
         NEW o \in Nat, NEW off \in Nat, NEW k \in Nat
  PROVE  /\ Len(u) + Len(v) <= Len(F) /\ SubSeq(F, 1, Len(u) + Len(v)) = u \o v
         /\ off + k <= Len(v) /\ o <= Len(u) + off
         => /\ SubSeq(F, o + 1, Len(u) + off) \o SubSeq(v, off + 1, off + k)
                 = SubSeq(F, o + 1, Len(u) + off + k)
            /\ Len(u) + off + k <= Len(F)
<1>0. SUFFICES
        ASSUME /\ Len(u) + Len(v) <= Len(F) /\ SubSeq(F, 1, Len(u) + Len(v)) = u \o v
               /\ off + k <= Len(v) /\ o <= Len(u) + off
        PROVE  /\ SubSeq(F, o + 1, Len(u) + off) \o SubSeq(v, off + 1, off + k)
                    = SubSeq(F, o + 1, Len(u) + off + k)
               /\ Len(u) + off + k <= Len(F)
  OBVIOUS
<1>1. Len(u) \in Nat /\ Len(v) \in Nat /\ Len(F) \in Nat
  BY LenProperties
<1> DEFINE lu == Len(u)
           lw == Len(u) + Len(v)
           lF == Len(F)
           b == off + k
           p == Len(u) + off
           q == Len(u) + off + k
<1>2. /\ lu \in Nat /\ lw \in Nat /\ lF \in Nat /\ b \in Nat /\ q \in Nat
      /\ p \in Nat /\ o <= p /\ lw <= lF /\ b <= Len(v) /\ q <= lw /\ p <= q /\ q <= lF
      /\ lu + off + 1 = p + 1 /\ lu + b = q
      /\ 0 + 1 = 1 /\ 0 + p + 1 = p + 1 /\ 0 + q = q
  BY <1>0, <1>1
<1> HIDE DEF lu, lw, lF, b, p, q
<1>3. SubSeq(v, off + 1, b) = SubSeq(F, p + 1, q)
  <2>1. SubSeq(u \o v, Len(u) + off + 1, Len(u) + b) = SubSeq(v, off + 1, b)
    BY <1>2, CutRight
  <2>2. SubSeq(u \o v, p + 1, q) = SubSeq(v, off + 1, b)
    BY <1>2, <2>1, Zenon DEF lu
  <2>3. SubSeq(SubSeq(F, 0 + 1, lw), p + 1, q) = SubSeq(F, 0 + p + 1, 0 + q)
    <3>1. 0 \in Nat /\ 0 <= lw /\ lw <= Len(F) /\ q <= lw - 0
      BY <1>2 DEF lF
    <3>2. lw \in Nat /\ q \in Nat /\ p \in Nat
      BY <1>2
    <3> QED BY <3>1, <3>2, CutCut
  <2>4. SubSeq(F, 1, lw) = u \o v
    BY <1>0 DEF lw
  <2> QED BY <1>2, <2>2, <2>3, <2>4, Zenon
<1>4. SubSeq(F, o + 1, p) \o SubSeq(F, p + 1, q) = SubSeq(F, o + 1, q)
  <2>1. p \in Nat /\ q \in Nat /\ o <= p /\ p <= q /\ q <= Len(F)
    BY <1>2 DEF lF
  <2> QED BY <2>1, CutJoin
<1>5. SubSeq(F, o + 1, p) \o SubSeq(v, off + 1, b) = SubSeq(F, o + 1, q)
  BY <1>3, <1>4, Zenon
<1> QED BY <1>2, <1>5, Zenon DEF lF, b, p, q

\* The same with the bytes of the chunks before as the place.
LEMMA ReadOn ==
  ASSUME NEW c \in Chunks, NEW g, Joins(g, c), NEW i \in 1..Len(c),
         NEW o \in Nat, NEW off \in Nat, NEW k \in Nat,
         off + k <= Len(c[i]), o <= Len(g[i - 1]) + off
  PROVE  /\ SubSeq(FlattenSeq(c), o + 1, Len(g[i - 1]) + off) \o SubSeq(c[i], off + 1, off + k)
              = SubSeq(FlattenSeq(c), o + 1, Len(g[i - 1]) + off + k)
         /\ Len(g[i - 1]) + off + k <= Len(FlattenSeq(c))
<1> DEFINE N == Len(c)
           F == FlattenSeq(c)
           u == g[i - 1]
           v == c[i]
           w == g[i]
<1>1. /\ u \in Seq(Byte) /\ v \in Seq(Byte) /\ w \in Seq(Byte) /\ w = u \o v
      /\ Len(w) = Len(u) + Len(v)
  BY JoinsGrow
<1>2. F \in Seq(Byte)
  BY FlattenType
<1>3. Len(w) <= Len(F) /\ SubSeq(F, 1, Len(w)) = w
  <2>1. F = g[N]
    BY FlattenIs DEF Chunks
  <2>2. i \in 0..Len(c) /\ N \in i..Len(c)
    BY LenProperties DEF Chunks
  <2>3. Len(g[i]) <= Len(g[N]) /\ SubSeq(g[N], 1, Len(g[i])) = g[i]
    <3> HIDE DEF N
    <3> QED BY <2>2, JoinsBegin
  <2> QED BY <2>1, <2>3
<1>4. o <= Len(u) + off /\ off + k <= Len(v)
  OBVIOUS
<1> HIDE DEF F, u, v, w
<1>5. Len(u) + Len(v) <= Len(F) /\ SubSeq(F, 1, Len(u) + Len(v)) = u \o v
  BY <1>1, <1>3
<1>6. /\ SubSeq(F, o + 1, Len(u) + off) \o SubSeq(v, off + 1, off + k)
           = SubSeq(F, o + 1, Len(u) + off + k)
      /\ Len(u) + off + k <= Len(F)
  BY <1>1, <1>2, <1>4, <1>5, ReadOnBytes
<1> QED BY <1>6, Zenon DEF F, u, v

(***************************************************************************)
(* Length fields                                                           *)
(***************************************************************************)
\* What the first i bytes of a length field spell
Reads(g, bytes) ==
  /\ g \in [0..Len(bytes) -> Nat] /\ g[0] = 0
  /\ \A i \in 1..Len(bytes) : g[i] = g[i - 1] * 256 + bytes[i]

\* The recursion of Number reads the field byte by byte.
LEMMA NumberIs ==
  ASSUME NEW bytes \in Seq(Byte)
  PROVE  \E g : Reads(g, bytes) /\ Number(bytes) = g[Len(bytes)]
<1> DEFINE N == Len(bytes)
           S == [i \in 0..N |-> Nat]
           F == [i \in 1..N |-> [s \in Nat |-> s * 256 + bytes[i]]]
           Is(f) == f = [i \in 0..N |-> IF i = 0 THEN 0 ELSE f[i - 1] * 256 + bytes[i]]
           f == CHOOSE f : Is(f)
<1>1. N \in Nat /\ \A i \in 1..N : bytes[i] \in Nat
  <2>1. N \in Nat /\ \A i \in 1..N : bytes[i] \in Byte
    BY LenProperties, ElementOfSeq
  <2>2. Byte \subseteq Nat
    BY DEF Byte
  <2> QED BY <2>1, <2>2
<1>2. Number(bytes) = f[N]
  BY DEF Number
<1> HIDE DEF N
<1>3. ASSUME NEW i \in 1..N
      PROVE  F[i] \in [S[i - 1] -> S[i]] /\ \A s \in Nat : F[i][s] = s * 256 + bytes[i]
  <2>1. i - 1 \in 0..N /\ i \in 0..N
    BY <1>1
  <2>2. S[i - 1] = Nat /\ S[i] = Nat /\ F[i] = [s \in Nat |-> s * 256 + bytes[i]]
    BY <2>1
  <2>3. \A s \in Nat : s * 256 + bytes[i] \in Nat
    BY <1>1
  <2>4. \A s \in Nat : F[i][s] = s * 256 + bytes[i]
    BY <2>2
  <2>5. F[i] \in [Nat -> Nat]
    BY <2>2, <2>3
  <2> HIDE DEF S, F
  <2> QED BY <2>2, <2>4, <2>5
<1>4. 0 \in S[0] /\ \A i \in 0..N : S[i] = Nat
  BY <1>1
<1> HIDE DEF S, F
<1>5. Steps(N, S, F)
  BY <1>3 DEF Steps
<1>6. PICK g : Unwinds(g, N, S, F, 0)
  BY <1>1, <1>4, <1>5, Recursion
<1>7. g \in [0..N -> Nat] /\ g[0] = 0
  BY <1>1, <1>4, <1>6 DEF Unwinds
<1>8. ASSUME NEW i \in 1..N PROVE g[i] = g[i - 1] * 256 + bytes[i]
  <2>1. i - 1 \in 0..N
    BY <1>1
  <2>2. g[i] = F[i][g[i - 1]]
    BY <1>6 DEF Unwinds
  <2>3. g[i - 1] \in Nat
    BY <1>7, <2>1
  <2> QED BY <1>3, <2>2, <2>3
<1>9. Is(g)
  <2>1. ASSUME NEW i \in 0..N
        PROVE  g[i] = IF i = 0 THEN 0 ELSE g[i - 1] * 256 + bytes[i]
    BY <1>1, <1>7, <1>8
  <2>2. g = [i \in 0..N |-> g[i]]
    BY <1>7
  <2> QED BY <2>1, <2>2, Zenon
<1>10. Is(f)
  BY <1>9
<1> HIDE DEF f
<1> DEFINE T == {i \in Nat : i <= N => f[i] = g[i]}
<1>11. 0 \in T
  BY <1>1, <1>7, <1>10
<1>12. ASSUME NEW i \in 0..(N - 1), i \in T PROVE i + 1 \in T
  <2>1. i \in Nat /\ i + 1 \in 1..N /\ (i + 1) - 1 = i /\ i + 1 # 0 /\ i + 1 \in 0..N
    BY <1>1
  <2>2. f[i + 1] = f[i] * 256 + bytes[i + 1]
    BY <1>10, <2>1
  <2>3. g[i + 1] = g[i] * 256 + bytes[i + 1]
    BY <1>8, <2>1
  <2>4. f[i] = g[i]
    BY <1>1, <1>12, <2>1
  <2> QED BY <2>1, <2>2, <2>3, <2>4
<1> HIDE DEF T, Is
<1>13. f[N] = g[N]
  <2>1. 0..N \subseteq T
    BY <1>1, <1>11, <1>12, BoundedInduction
  <2> QED BY <1>1, <2>1 DEF T
<1>14. Reads(g, bytes)
  BY <1>7, <1>8 DEF Reads, N
<1> QED BY <1>2, <1>13, <1>14 DEF N

LEMMA NumberType ==
  ASSUME NEW bytes \in Seq(Byte)
  PROVE  Number(bytes) \in Nat
<1>1. PICK g : Reads(g, bytes) /\ Number(bytes) = g[Len(bytes)]
  BY NumberIs
<1>2. Len(bytes) \in 0..Len(bytes)
  BY LenProperties
<1> QED BY <1>1, <1>2 DEF Reads

\* A length field spells the number that is read from it.
LEMMA DigitsOfNumber ==
  ASSUME NEW bytes \in Seq(Byte), Len(bytes) = LengthBytes
  PROVE  Digits(Number(bytes)) = bytes
<1> DEFINE N == LengthBytes
           n == Number(bytes)
           Is(f) == f = [i \in 0..N |-> IF i = N THEN n ELSE f[i + 1] \div 256]
           f == CHOOSE f : Is(f)
<1>1. PICK g : Reads(g, bytes) /\ n = g[N]
  BY NumberIs
<1>2. N \in Nat /\ \A i \in 1..N : bytes[i] \in 0..255
  BY LenProperties, ElementOfSeq DEF Byte
<1>3. /\ g \in [0..N -> Nat]
      /\ \A i \in 1..N : g[i] = g[i - 1] * 256 + bytes[i]
  BY <1>1 DEF Reads
<1>4. Digits(n) = [i \in 1..N |-> f[i] % 256]
  BY DEF Digits
<1> HIDE DEF n, N
<1>5. ASSUME NEW i \in 0..(N - 1) PROVE g[i + 1] \div 256 = g[i]
  <2>1. i + 1 \in 1..N /\ (i + 1) - 1 = i /\ i \in 0..N
    BY <1>2
  <2>2. g[i + 1] = g[i] * 256 + bytes[i + 1]
    BY <1>3, <2>1
  <2>3. g[i] \in Nat /\ bytes[i + 1] \in 0..255
    BY <1>2, <1>3, <2>1
  <2> DEFINE x == g[i]
             y == bytes[i + 1]
  <2>4. x \in Nat /\ y \in 0..255
    BY <2>3
  <2> HIDE DEF x, y
  <2>5. (x * 256 + y) \div 256 = x
    BY <2>4
  <2> QED BY <2>2, <2>5 DEF x, y
<1>6. Is(g)
  <2>1. ASSUME NEW i \in 0..N PROVE g[i] = IF i = N THEN n ELSE g[i + 1] \div 256
    BY <1>1, <1>2, <1>5
  <2>2. g = [i \in 0..N |-> g[i]]
    BY <1>3
  <2> QED BY <2>1, <2>2, Zenon
<1>7. Is(f)
  BY <1>6
<1> HIDE DEF f
<1> DEFINE T == {i \in Nat : i <= N => f[N - i] = g[N - i]}
<1>8. 0 \in T
  BY <1>1, <1>2, <1>7
<1>9. ASSUME NEW i \in 0..(N - 1), i \in T PROVE i + 1 \in T
  <2> DEFINE k == N - (i + 1)
  <2>1. i \in Nat /\ k \in 0..N /\ k \in 0..(N - 1) /\ k # N /\ k + 1 = N - i /\ i <= N
    BY <1>2
  <2> HIDE DEF k
  <2>2. f[k] = f[k + 1] \div 256
    BY <1>7, <2>1
  <2>3. f[k + 1] = g[k + 1]
    BY <1>9, <2>1
  <2>4. f[k] = g[k]
    BY <1>5, <2>1, <2>2, <2>3
  <2> QED BY <2>1, <2>4 DEF k
<1> HIDE DEF T
<1>10. ASSUME NEW i \in 0..N PROVE f[i] = g[i]
  <2>1. 0..N \subseteq T
    BY <1>2, <1>8, <1>9, BoundedInduction
  <2>2. N - i \in 0..N /\ N - (N - i) = i /\ N - i <= N
    BY <1>2
  <2> QED BY <2>1, <2>2 DEF T
<1>11. ASSUME NEW i \in 1..N PROVE f[i] % 256 = bytes[i]
  <2>1. i \in 0..N /\ i - 1 \in 0..N
    BY <1>2
  <2>2. f[i] = g[i - 1] * 256 + bytes[i] /\ g[i - 1] \in Nat /\ bytes[i] \in 0..255
    BY <1>2, <1>3, <1>10, <2>1
  <2> DEFINE x == g[i - 1]
             y == bytes[i]
  <2>3. x \in Nat /\ y \in 0..255
    BY <2>2
  <2> HIDE DEF x, y
  <2>4. (x * 256 + y) % 256 = y
    BY <2>3
  <2> QED BY <2>2, <2>4 DEF x, y
<1>12. bytes = [i \in 1..N |-> bytes[i]]
  BY LenProperties DEF N
<1>13. Digits(n) = bytes
  BY <1>4, <1>11, <1>12
<1> QED BY <1>13 DEF n

\* The length field of a record is bytes.
LEMMA DigitsType ==
  ASSUME NEW n \in Nat
  PROVE  Digits(n) \in Seq(Byte)
<1> DEFINE N == LengthBytes
           S == [i \in 0..N |-> Nat]
           F == [i \in 1..N |-> [s \in Nat |-> s \div 256]]
           Is(f) == f = [i \in 0..N |-> IF i = N THEN n ELSE f[i + 1] \div 256]
           f == CHOOSE f : Is(f)
<1>1. N \in Nat
  BY NiFramesAssumption
<1>2. Digits(n) = [i \in 1..N |-> f[i] % 256]
  BY DEF Digits
<1> HIDE DEF N
<1>3. ASSUME NEW i \in 1..N
      PROVE  F[i] \in [S[i - 1] -> S[i]] /\ \A s \in Nat : F[i][s] = s \div 256
  <2>1. i - 1 \in 0..N /\ i \in 0..N
    BY <1>1
  <2>2. S[i - 1] = Nat /\ S[i] = Nat /\ F[i] = [s \in Nat |-> s \div 256]
    BY <2>1
  <2>3. \A s \in Nat : s \div 256 \in Nat
    OBVIOUS
  <2> HIDE DEF S, F
  <2> QED BY <2>2, <2>3
<1>4. n \in S[0] /\ \A i \in 0..N : S[i] = Nat
  BY <1>1
<1> HIDE DEF S, F
<1>5. Steps(N, S, F)
  BY <1>3 DEF Steps
<1>6. PICK g : Unwinds(g, N, S, F, n)
  BY <1>1, <1>4, <1>5, Recursion
<1>7. g \in [0..N -> Nat] /\ g[0] = n
  BY <1>1, <1>4, <1>6 DEF Unwinds
<1>8. ASSUME NEW i \in 1..N PROVE g[i] = g[i - 1] \div 256
  <2>1. i - 1 \in 0..N
    BY <1>1
  <2>2. g[i] = F[i][g[i - 1]]
    BY <1>6 DEF Unwinds
  <2>3. g[i - 1] \in Nat
    BY <1>7, <2>1
  <2> QED BY <1>3, <2>2, <2>3
<1> DEFINE h == [i \in 0..N |-> g[N - i]]
<1>9. Is(h)
  <2>1. ASSUME NEW i \in 0..N PROVE h[i] = IF i = N THEN n ELSE h[i + 1] \div 256
    <3>1. CASE i = N
      BY <1>1, <1>7, <3>1
    <3>2. CASE i # N
      <4>1. i + 1 \in 0..N /\ N - i \in 1..N /\ (N - i) - 1 = N - (i + 1)
        BY <1>1, <3>2
      <4>2. h[i] = g[N - i] /\ h[i + 1] = g[N - (i + 1)]
        BY <4>1
      <4>3. g[N - i] = g[(N - i) - 1] \div 256
        BY <1>8, <4>1
      <4> HIDE DEF h
      <4> QED BY <3>2, <4>1, <4>2, <4>3
    <3> QED BY <3>1, <3>2
  <2>2. h = [i \in 0..N |-> h[i]]
    OBVIOUS
  <2> HIDE DEF h
  <2> QED BY <2>1, <2>2, Zenon
<1>10. Is(f)
  BY <1>9
<1> HIDE DEF f, h
<1> DEFINE T == {i \in Nat : i <= N => f[N - i] \in Nat}
<1>11. 0 \in T
  BY <1>1, <1>10
<1>12. ASSUME NEW i \in 0..(N - 1), i \in T PROVE i + 1 \in T
  <2> DEFINE k == N - (i + 1)
  <2>1. i \in Nat /\ k \in 0..N /\ k # N /\ k + 1 = N - i /\ i <= N
    BY <1>1
  <2> HIDE DEF k
  <2>2. f[k] = f[k + 1] \div 256
    BY <1>10, <2>1
  <2>3. f[k + 1] \in Nat
    BY <1>12, <2>1
  <2> QED BY <2>1, <2>2, <2>3 DEF k
<1> HIDE DEF T, Is
<1>13. ASSUME NEW i \in 1..N PROVE f[i] % 256 \in Byte
  <2>1. 0..N \subseteq T
    BY <1>1, <1>11, <1>12, BoundedInduction
  <2>2. N - i \in 0..N /\ N - (N - i) = i /\ N - i <= N
    BY <1>1
  <2>3. f[i] \in Nat
    BY <2>1, <2>2 DEF T
  <2> QED BY <2>3 DEF Byte
<1>14. [i \in 1..N |-> f[i] % 256] \in [1..N -> Byte]
  BY <1>13
<1> QED BY <1>1, <1>2, <1>14, SeqDef

(***************************************************************************)
(* The decoder                                                             *)
(***************************************************************************)
\* Chunks of which the next byte is at an offset into the first
BeginsAt(c, o) ==
  /\ c \in Chunks /\ o \in Nat /\ \A i \in 1..Len(c) : 0 < Len(c[i])
  /\ IF Len(c) = 0 THEN o = 0 ELSE o < Len(c[1])

\* #offset lies in the chunk at #head and no chunk after it is empty;
\* #bufferedBytes counts what they hold from there.
DecoderOK(d) ==
  /\ d \in Decoders /\ d.head <= Len(d.chunks)
  /\ BeginsAt(Unread(d), d.offset)
  /\ d.offset + d.buffered = Len(FlattenSeq(Unread(d)))

\* What the loop of #consume holds after i chunks when it wants length bytes
\* and started at offset o of chunk first: the bytes it went over.
Going(c, g, o, first, length, i) ==
  {acc \in [bytes : Seq(Byte), head : Nat, offset : Nat] :
     LET h == acc.head - first
         at == Len(g[h]) + acc.offset
     IN /\ h \in 0..i /\ acc.bytes = SubSeq(FlattenSeq(c), o + 1, at)
        /\ o <= at /\ at <= o + length /\ (at = o + length \/ h = i)
        /\ IF h = Len(c) THEN acc.offset = 0 ELSE acc.offset < Len(c[h + 1])}

\* One turn of the loop of #consume.
LEMMA TakeGoesOn ==
  ASSUME NEW c \in Chunks, NEW g, Joins(g, c), NEW o, BeginsAt(c, o),
         NEW first \in Nat, NEW length \in Nat, o + length <= Len(FlattenSeq(c)),
         NEW i \in 1..Len(c), NEW acc \in Going(c, g, o, first, length, i - 1)
  PROVE  Take(acc, c[i], length) \in Going(c, g, o, first, length, i)
<1> DEFINE F == FlattenSeq(c)
           h == acc.head - first
           at == Len(g[h]) + acc.offset
           N == Len(c)
<1>1. /\ acc \in [bytes : Seq(Byte), head : Nat, offset : Nat]
      /\ h \in 0..(i - 1) /\ acc.bytes = SubSeq(F, o + 1, at)
      /\ o <= at /\ at <= o + length /\ (at = o + length \/ h = i - 1)
      /\ (h = N => acc.offset = 0) /\ (h # N => acc.offset < Len(c[h + 1]))
  BY DEF Going
<1>2. /\ N \in Nat /\ o \in Nat /\ i \in Nat /\ F \in Seq(Byte) /\ Len(F) \in Nat
      /\ o + length <= Len(F)
  <2>1. N \in Nat /\ F \in Seq(Byte) /\ o \in Nat
    BY LenProperties, FlattenType DEF Chunks, BeginsAt
  <2> QED BY <2>1, LenProperties
<1>3. h \in Nat /\ g[h] \in Seq(Byte) /\ Len(g[h]) \in Nat /\ at \in Nat
  <2>1. h \in 0..Len(c)
    BY <1>1, <1>2
  <2>2. g[h] \in Seq(Byte)
    BY <2>1 DEF Joins
  <2>3. Len(g[h]) \in Nat
    BY <2>2, LenProperties
  <2>4. acc.offset \in Nat /\ at = Len(g[h]) + acc.offset
    BY <1>1
  <2>5. h \in Nat
    BY <1>1, <1>2
  <2> HIDE DEF h, at
  <2> QED BY <2>2, <2>3, <2>4, <2>5
<1>4. Len(acc.bytes) = at - o
  <2>1. Len(SubSeq(F, o + 1, at)) = (IF o <= at THEN at - o ELSE 0)
    <3>1. o <= at /\ at <= o + length
      BY <1>1
    <3> HIDE DEF at, F
    <3>2. at \in Int /\ at <= Len(F)
      BY <1>2, <1>3, <3>1
    <3> QED BY <1>2, <3>2, Cut
  <2> HIDE DEF at, F
  <2> QED BY <1>1, <2>1
<1>7. acc.head \in Nat /\ acc.offset \in Nat /\ acc.head = first + h
  BY <1>1
<1> HIDE DEF at, F, N, h
<1>5. CASE Len(acc.bytes) = length
  <2>1. Take(acc, c[i], length) = acc
    BY <1>5 DEF Take
  <2>2. at = o + length
    BY <1>2, <1>3, <1>4, <1>5
  <2>3. h \in 0..i
    BY <1>1
  <2>4. acc \in Going(c, g, o, first, length, i)
    BY <1>1, <2>2, <2>3 DEF Going, at, F, N, h
  <2> QED BY <2>1, <2>4
<1>6. CASE Len(acc.bytes) # length
  <2> DEFINE off == acc.offset
             lc == Len(c[i])
             lg == Len(g[i - 1])
             n == AtMost(length - Len(acc.bytes), lc - off)
             more == SubSeq(c[i], off + 1, off + n)
             x == Take(acc, c[i], length)
  <2>1. h = i - 1 /\ h # N /\ h + 1 = i /\ N = Len(c)
    <3>1. N = Len(c) /\ i <= N
      BY <1>2 DEF N
    <3>2. at # o + length
      BY <1>2, <1>3, <1>4, <1>6
    <3>3. h = i - 1
      BY <1>1, <3>2
    <3> QED BY <1>2, <3>1, <3>3
  <2>2. c[i] \in Seq(Byte) /\ lc \in Nat /\ Len(g[i]) = lg + lc
    <3>1. c[i] \in Seq(Byte) /\ Len(g[i]) = lg + lc
      BY JoinsGrow
    <3> QED BY <3>1, LenProperties
  <2>3. off \in Nat /\ off < lc /\ lg \in Nat /\ at = lg + off
    BY <1>1, <1>3, <1>7, <2>1 DEF at
  <2>4. x = [Advance(acc, c[i], n) EXCEPT !.bytes = @ \o more]
    BY <1>6 DEF Take
  <2>5. Advance(acc, c[i], n) = IF off + n = lc
                                THEN [[acc EXCEPT !.head = @ + 1] EXCEPT !.offset = 0]
                                ELSE [acc EXCEPT !.offset = @ + n]
    BY DEF Advance
  <2>6. n = AtMost(length - Len(acc.bytes), lc - off)
    OBVIOUS
  <2>7. acc.offset = off /\ Len(c[i]) = lc /\ Len(g[i - 1]) = lg
    OBVIOUS
  <2> HIDE DEF n, lc, lg, off, x
  <2>8. /\ n \in Nat /\ n # 0 /\ off + n <= lc /\ at + n <= o + length
        /\ (off + n = lc \/ at + n = o + length)
    <3>1. Len(acc.bytes) = at - o /\ at - o < length /\ at - o \in Nat
      BY <1>1, <1>2, <1>3, <1>4, <1>6
    <3>2. n = IF length - (at - o) < lc - off THEN length - (at - o) ELSE lc - off
      BY <2>6, <3>1 DEF AtMost
    <3> QED BY <1>2, <1>3, <2>2, <2>3, <3>1, <3>2
  <2>9. acc.bytes \o more = SubSeq(F, o + 1, at + n) /\ at + n <= Len(F)
    <3>1. off + n <= Len(c[i]) /\ o <= Len(g[i - 1]) + off
      BY <1>1, <2>3, <2>7, <2>8
    <3>2. /\ SubSeq(F, o + 1, Len(g[i - 1]) + off) \o SubSeq(c[i], off + 1, off + n)
               = SubSeq(F, o + 1, Len(g[i - 1]) + off + n)
          /\ Len(g[i - 1]) + off + n <= Len(F)
      BY <1>2, <2>3, <2>8, <3>1, ReadOn DEF F
    <3>3. Len(g[i - 1]) + off = at
      BY <2>3, <2>7
    <3> QED BY <1>1, <3>2, <3>3, Zenon
  <2>10. acc.bytes \o more \in Seq(Byte)
    <3>1. off + n \in Int /\ off + n <= Len(c[i])
      BY <2>3, <2>7, <2>8
    <3>2. more \in Seq(Byte)
      BY <2>2, <2>3, <3>1, Cut
    <3>3. acc.bytes \in Seq(Byte)
      BY <1>1
    <3> DEFINE u == acc.bytes
    <3> HIDE DEF more, u
    <3>4. u \o more \in Seq(Byte)
      BY <3>2, <3>3, ConcatProperties DEF u
    <3> QED BY <3>4 DEF u
  <2> DEFINE xb == acc.bytes \o more
  <2> HIDE DEF xb
  <2>11. CASE off + n = lc
    <3>1. x = [[[acc EXCEPT !.head = @ + 1] EXCEPT !.offset = 0] EXCEPT !.bytes = xb]
      BY <2>4, <2>5, <2>11 DEF xb
    <3>2. /\ x \in [bytes : Seq(Byte), head : Nat, offset : Nat]
          /\ x.bytes = xb /\ x.head = acc.head + 1 /\ x.offset = 0
      <4> DEFINE a1 == [acc EXCEPT !.head = @ + 1]
                 a2 == [a1 EXCEPT !.offset = 0]
      <4>1. /\ a1 \in [bytes : Seq(Byte), head : Nat, offset : Nat]
            /\ a1.head = acc.head + 1
        <5> DEFINE l == acc.head + 1
        <5>1. l \in Nat /\ a1 = [acc EXCEPT !.head = l]
          BY <1>7
        <5> HIDE DEF l, a1
        <5>2. a1 \in [bytes : Seq(Byte), head : Nat, offset : Nat] /\ a1.head = l
          BY <1>1, <5>1
        <5> QED BY <5>2 DEF l
      <4> HIDE DEF a1
      <4>2. /\ a2 \in [bytes : Seq(Byte), head : Nat, offset : Nat]
            /\ a2.head = acc.head + 1 /\ a2.offset = 0
        BY <4>1
      <4>3. x = [a2 EXCEPT !.bytes = xb]
        BY <3>1 DEF a1
      <4>4. xb \in Seq(Byte)
        BY <2>10 DEF xb
      <4> HIDE DEF a2
      <4> QED BY <4>2, <4>3, <4>4
    <3>3. x.head - first = i
      BY <1>2, <1>3, <1>7, <2>1, <3>2
    <3>4. Len(g[i]) = at + n
      BY <2>2, <2>3, <2>8, <2>11
    <3>5. Len(g[x.head - first]) + x.offset = at + n
      BY <1>3, <2>8, <3>2, <3>3, <3>4
    <3>6. x.bytes = SubSeq(F, o + 1, Len(g[x.head - first]) + x.offset)
      BY <2>9, <3>2, <3>5, Zenon DEF xb
    <3>7. o <= at + n /\ at + n <= o + length /\ i \in 0..i
      BY <1>1, <1>2, <1>3, <2>8
    <3>8. IF i = N THEN x.offset = 0 ELSE x.offset < Len(c[i + 1])
      <4>1. ASSUME i # N PROVE 0 < Len(c[i + 1])
        <5>1. i + 1 \in 1..Len(c)
          BY <1>2, <2>1, <4>1
        <5> QED BY <5>1 DEF BeginsAt
      <4> QED BY <3>2, <4>1
    <3> QED BY <3>2, <3>3, <3>5, <3>6, <3>7, <3>8 DEF Going, F, N, x
  <2>12. CASE off + n # lc
    <3>1. x = [[acc EXCEPT !.offset = @ + n] EXCEPT !.bytes = xb]
      BY <2>4, <2>5, <2>12 DEF xb
    <3>2. /\ x \in [bytes : Seq(Byte), head : Nat, offset : Nat]
          /\ x.bytes = xb /\ x.head = acc.head /\ x.offset = off + n
      <4> DEFINE a1 == [acc EXCEPT !.offset = @ + n]
      <4>1. /\ a1 \in [bytes : Seq(Byte), head : Nat, offset : Nat]
            /\ a1.head = acc.head /\ a1.offset = off + n
        <5>1. acc \in [bytes : Seq(Byte), head : Nat, offset : Nat]
          BY <1>1
        <5>2. acc.offset + n = off + n /\ off + n \in Nat
          BY <2>3, <2>7, <2>8
        <5>3. a1 = [acc EXCEPT !.offset = off + n]
          BY <5>2
        <5> HIDE DEF a1
        <5> QED BY <5>1, <5>2, <5>3
      <4>2. x = [a1 EXCEPT !.bytes = xb]
        BY <3>1
      <4>3. xb \in Seq(Byte)
        BY <2>10 DEF xb
      <4> HIDE DEF a1
      <4> QED BY <4>1, <4>2, <4>3
    <3>3. x.head - first = i - 1
      BY <1>2, <1>3, <1>7, <2>1, <3>2
    <3>5. Len(g[x.head - first]) + x.offset = at + n
      <4>1. Len(g[x.head - first]) = lg
        BY <2>7, <3>3
      <4>2. x.offset = off + n
        BY <3>2
      <4>3. lg + (off + n) = at + n
        BY <2>3, <2>8
      <4> QED BY <4>1, <4>2, <4>3, Zenon
    <3>6. x.bytes = SubSeq(F, o + 1, Len(g[x.head - first]) + x.offset)
      BY <2>9, <3>2, <3>5, Zenon DEF xb
    <3>7. o <= at + n /\ at + n = o + length
      BY <1>1, <1>2, <1>3, <2>8, <2>12
    <3>8. x.offset < Len(c[(i - 1) + 1])
      <4>1. (i - 1) + 1 = i /\ x.offset < lc
        BY <1>2, <2>2, <2>3, <2>8, <2>12, <3>2
      <4> QED BY <2>7, <4>1
    <3>9. i - 1 # N /\ i - 1 \in 0..i /\ at + n <= o + length
      BY <1>2, <2>1, <3>7
    <3> QED BY <3>2, <3>3, <3>5, <3>6, <3>7, <3>8, <3>9 DEF Going, F, N, x
  <2> QED BY <2>11, <2>12 DEF x
<1> QED BY <1>5, <1>6

\* A position in the chunks from which only what follows is read.
LEMMA MoveOn ==
  ASSUME NEW d, DecoderOK(d), NEW g, Joins(g, Unread(d)), NEW h \in 0..Len(Unread(d)),
         NEW offset \in Nat, NEW m \in 0..d.buffered,
         IF h = Len(Unread(d)) THEN offset = 0 ELSE offset < Len(Unread(d)[h + 1]),
         Len(g[h]) + offset = d.offset + m,
         NEW e, e \in Decoders, e.chunks = d.chunks, e.head = d.head + h,
         e.offset = offset, e.buffered = d.buffered - m
  PROVE  DecoderOK(e) /\ Remainder(e) = SubSeq(Remainder(d), m + 1, d.buffered)
<1> DEFINE c == Unread(d)
           N == Len(c)
           F == FlattenSeq(c)
           lF == Len(F)
           lg == Len(g[h])
           o == d.offset
           b == d.buffered
<1>1. /\ c \in Chunks /\ N \in Nat /\ h \in 0..N /\ h \in Nat
      /\ o \in Nat /\ b \in Nat /\ o + b = lF /\ F \in Seq(Byte) /\ m \in Nat /\ m <= b
      /\ \A i \in 1..N : 0 < Len(c[i])
      /\ d.head \in Nat /\ d.chunks \in Chunks /\ d.head <= Len(d.chunks)
  <2>1. c \in Chunks /\ F \in Seq(Byte)
    BY FlattenType DEF DecoderOK, BeginsAt
  <2>2. N \in Nat
    BY <2>1, LenProperties DEF Chunks
  <2> HIDE DEF F, c
  <2> QED BY <2>1, <2>2 DEF DecoderOK, BeginsAt, Decoders, F, c
<1>2. /\ \A i \in 0..N : g[i] \in Seq(Byte)
      /\ lg \in Nat /\ F = g[N] /\ lg + offset = o + m
  <2>1. \A i \in 0..N : g[i] \in Seq(Byte)
    BY DEF Joins
  <2>2. F = g[N]
    BY <1>1, FlattenIs DEF Chunks
  <2>3. g[h] \in Seq(Byte)
    BY <1>1, <2>1
  <2> QED BY <2>1, <2>2, <2>3, LenProperties
<1>3. Unread(e) = SubSeq(c, h + 1, N)
  <2> DEFINE s == d.chunks
             a == d.head
             z == Len(s)
  <2>1. Unread(e) = SubSeq(s, a + h + 1, z) /\ c = SubSeq(s, a + 1, z)
    BY DEF Unread
  <2>2. s \in Seq(Seq(Byte)) /\ a \in Nat /\ z \in Nat /\ a <= z /\ z <= Len(s)
    BY <1>1, LenProperties DEF Chunks
  <2>3. N = z - a
    <3>1. Len(SubSeq(s, a + 1, z)) = (IF a <= z THEN z - a ELSE 0)
      <4> HIDE DEF s, a, z
      <4> QED BY <2>2, Cut
    <3> HIDE DEF c
    <3> QED BY <2>1, <2>2, <3>1
  <2> HIDE DEF s, a, z, c, N
  <2>4. SubSeq(SubSeq(s, a + 1, z), h + 1, N) = SubSeq(s, a + h + 1, a + N)
    <3>1. N <= z - a
      BY <2>2, <2>3
    <3> QED BY <1>1, <2>2, <3>1, CutCut
  <2>5. a + N = z
    BY <2>2, <2>3
  <2> QED BY <2>1, <2>4, <2>5, Zenon
<1>4. /\ SubSeq(c, h + 1, N) \in Chunks /\ Len(SubSeq(c, h + 1, N)) = N - h
      /\ \A i \in 1..(N - h) : SubSeq(c, h + 1, N)[i] = c[h + i]
  <2>1. N <= Len(c) /\ h <= N /\ N \in Int /\ h \in Nat /\ c \in Seq(Seq(Byte))
    BY <1>1 DEF Chunks
  <2> HIDE DEF c, N
  <2>2. /\ SubSeq(c, h + 1, N) \in Seq(Seq(Byte))
        /\ Len(SubSeq(c, h + 1, N)) = (IF h <= N THEN N - h ELSE 0)
        /\ \A i \in 1..(N - h) : SubSeq(c, h + 1, N)[i] = c[h + i]
    BY <2>1, Cut
  <2> QED BY <2>1, <2>2 DEF Chunks
<1>5. FlattenSeq(SubSeq(c, h + 1, N)) = SubSeq(F, lg + 1, lF)
  <2> HIDE DEF c
  <2> QED BY <1>1, FlattenDrop DEF c
<1>6. lg <= lF
  <2>1. N \in h..Len(c) /\ h \in 0..Len(c)
    BY <1>1
  <2>2. Len(g[h]) <= Len(g[N])
    <3> HIDE DEF N, c
    <3> QED BY <1>1, <2>1, JoinsBegin DEF c
  <2> QED BY <1>2, <2>2
<1>7. e.offset + e.buffered = Len(SubSeq(F, lg + 1, lF))
  <2>1. Len(SubSeq(F, lg + 1, lF)) = lF - lg
    <3>1. F \in Seq(Byte) /\ lF \in Int /\ lF <= Len(F) /\ lg \in Nat /\ lg <= lF
      BY <1>1, <1>2, <1>6
    <3> HIDE DEF lF, lg, F
    <3>2. Len(SubSeq(F, lg + 1, lF)) = (IF lg <= lF THEN lF - lg ELSE 0)
      BY <3>1, Cut
    <3> QED BY <3>1, <3>2
  <2>2. e.offset + e.buffered = offset + (b - m)
    OBVIOUS
  <2>3. /\ o + b = lF /\ lg + offset = o + m /\ lg \in Nat /\ o \in Nat /\ b \in Nat
        /\ m \in Nat /\ offset \in Nat /\ lF \in Nat
    <3>1. F \in Seq(Byte)
      BY <1>1
    <3> HIDE DEF F
    <3>2. lF \in Nat
      BY <3>1, LenProperties
    <3> QED BY <1>1, <1>2, <3>2
  <2> HIDE DEF F, lF, lg, o, b
  <2>4. offset + (b - m) = lF - lg
    BY <2>3
  <2> QED BY <2>1, <2>2, <2>4
<1>8. BeginsAt(SubSeq(c, h + 1, N), e.offset)
  <2> DEFINE t == SubSeq(c, h + 1, N)
  <2>1. /\ t \in Chunks /\ Len(t) = N - h
        /\ \A i \in 1..(N - h) : t[i] = c[h + i]
    BY <1>4
  <2>2. /\ e.offset = offset
        /\ IF h = N THEN offset = 0 ELSE offset < Len(c[h + 1])
    OBVIOUS
  <2> HIDE DEF t, c, N
  <2>3. \A i \in 1..Len(t) : 0 < Len(t[i])
    <3> SUFFICES ASSUME NEW i \in 1..Len(t) PROVE 0 < Len(t[i])
      OBVIOUS
    <3>1. i \in 1..(N - h) /\ h + i \in 1..N
      BY <1>1, <2>1
    <3> QED BY <1>1, <2>1, <3>1
  <2>4. IF Len(t) = 0 THEN e.offset = 0 ELSE e.offset < Len(t[1])
    <3>1. CASE h = N
      BY <1>1, <2>1, <2>2, <3>1
    <3>2. CASE h # N
      <4>1. 1 \in 1..(N - h) /\ Len(t) # 0
        <5>1. N \in Nat /\ h \in Nat /\ h <= N /\ Len(t) = N - h
          BY <1>1, <2>1
        <5> QED BY <3>2, <5>1
      <4> QED BY <2>1, <2>2, <3>2, <4>1
    <3> QED BY <3>1, <3>2
  <2> QED BY <2>1, <2>2, <2>3, <2>4 DEF BeginsAt, t
<1>9. DecoderOK(e)
  <2>1. e.head <= Len(e.chunks)
    <3>1. N = Len(d.chunks) - d.head
      <4> DEFINE s == d.chunks
                 a == d.head
                 z == Len(s)
      <4>1. s \in Seq(Seq(Byte)) /\ a \in Nat /\ z \in Nat /\ a <= z /\ z <= Len(s)
        BY <1>1, LenProperties DEF Chunks
      <4>2. c = SubSeq(s, a + 1, z)
        BY DEF Unread
      <4> HIDE DEF s, a, z, c
      <4>3. Len(SubSeq(s, a + 1, z)) = (IF a <= z THEN z - a ELSE 0)
        BY <4>1, Cut
      <4>4. N = z - a
        BY <4>1, <4>2, <4>3
      <4> QED BY <4>4 DEF s, a, z
    <3>2. Len(d.chunks) \in Nat
      BY <1>1, LenProperties DEF Chunks
    <3>3. e.head = d.head + h /\ e.chunks = d.chunks /\ d.head \in Nat /\ h \in Nat /\ h <= N
      BY <1>1
    <3> HIDE DEF N
    <3> QED BY <3>1, <3>2, <3>3
  <2> HIDE DEF c, N
  <2> QED BY <1>3, <1>5, <1>7, <1>8, <2>1 DEF DecoderOK
<1>10. Remainder(e) = SubSeq(Remainder(d), m + 1, b)
  <2>1. Remainder(e) = SubSeq(SubSeq(F, lg + 1, lF), offset + 1, offset + (b - m))
    BY <1>3, <1>5 DEF Remainder
  <2>2. Remainder(d) = SubSeq(F, o + 1, o + b)
    BY DEF Remainder
  <2> HIDE DEF F, lF, lg, o, b
  <2> DEFINE q == offset + (b - m)
             r == o + b
  <2>3. SubSeq(SubSeq(F, lg + 1, lF), offset + 1, q) = SubSeq(F, lg + offset + 1, lg + q)
    <3>1. /\ o + b = lF /\ lg + offset = o + m /\ lg \in Nat /\ o \in Nat /\ b \in Nat
          /\ m \in Nat /\ m <= b /\ lg <= lF /\ F \in Seq(Byte)
      BY <1>1, <1>2, <1>6
    <3>2. lF = Len(F)
      BY DEF lF
    <3>3. q \in Nat /\ lF \in Nat /\ q <= lF - lg /\ lF <= Len(F)
      <4>1. b - m \in Nat /\ offset \in Nat /\ lF \in Nat
        BY <3>1
      <4>2. lF - lg = offset + (b - m)
        BY <3>1, <4>1
      <4>3. lF <= Len(F)
        BY <3>2, <4>1
      <4>4. q = offset + (b - m)
        OBVIOUS
      <4> HIDE DEF q
      <4> QED BY <4>1, <4>2, <4>3, <4>4
    <3>4. offset \in Nat
      OBVIOUS
    <3> HIDE DEF q
    <3> QED BY <3>1, <3>3, <3>4, CutCut
  <2>4. SubSeq(SubSeq(F, o + 1, r), m + 1, b) = SubSeq(F, o + m + 1, o + b)
    <3>1. r \in Nat /\ o <= r /\ r <= Len(F) /\ b <= r - o
      BY <1>1 DEF lF
    <3>2. F \in Seq(Byte) /\ o \in Nat /\ m \in Nat /\ b \in Nat
      BY <1>1
    <3> HIDE DEF r
    <3> QED BY <3>1, <3>2, CutCut
  <2>5. lg + offset + 1 = o + m + 1 /\ lg + q = o + b
    BY <1>1, <1>2
  <2> QED BY <2>1, <2>2, <2>3, <2>4, <2>5, Zenon
<1> QED BY <1>9, <1>10

\* Dropping the chunks already read leaves what is not.
LEMMA CompactedKeeps ==
  ASSUME NEW e, DecoderOK(e)
  PROVE  /\ DecoderOK(Compacted(e)) /\ Remainder(Compacted(e)) = Remainder(e)
         /\ Compacted(e).buffered = e.buffered
<1> DEFINE c == Unread(e)
           k == Compacted(e)
<1>1. /\ e \in Decoders /\ e.chunks \in Chunks /\ e.head \in Nat /\ e.head <= Len(e.chunks)
      /\ Len(e.chunks) \in Nat /\ c \in Chunks /\ Len(c) \in Nat
  <2>1. e \in Decoders /\ e.head <= Len(e.chunks) /\ c \in Chunks
    BY DEF DecoderOK, BeginsAt
  <2>2. e.chunks \in Chunks /\ e.head \in Nat
    BY <2>1 DEF Decoders
  <2> HIDE DEF c
  <2> QED BY <2>1, <2>2, LenProperties DEF Chunks
<1>2. SUFFICES /\ k \in Decoders /\ k.head <= Len(k.chunks) /\ Unread(k) = Unread(e)
               /\ k.offset = e.offset /\ k.buffered = e.buffered
  <2> HIDE DEF k
  <2> QED BY DEF DecoderOK, Remainder, k
<1>3. CASE e.head = Len(e.chunks)
  <2> DEFINE x == [e EXCEPT !.chunks = <<>>]
  <2>1. k = [x EXCEPT !.head = 0]
    BY <1>3 DEF Compacted
  <2>2. /\ x \in Decoders /\ x.chunks = <<>> /\ x.offset = e.offset
        /\ x.buffered = e.buffered
    BY <1>1, EmptySeq DEF Decoders, Chunks
  <2> HIDE DEF x, k
  <2>3. /\ k \in Decoders /\ k.chunks = <<>> /\ k.head = 0 /\ k.offset = e.offset
        /\ k.buffered = e.buffered
    BY <2>1, <2>2 DEF Decoders
  <2>4. Unread(k) = <<>>
    <3>1. Unread(k) = SubSeq(<<>>, 0 + 1, 0)
      BY <2>3, EmptySeq DEF Unread
    <3> QED BY <3>1, CutNone
  <2>5. Unread(e) = <<>>
    <3> DEFINE n == Len(e.chunks)
    <3>1. Unread(e) = SubSeq(e.chunks, n + 1, n) /\ n \in Int /\ n <= n
      BY <1>1, <1>3 DEF Unread
    <3> HIDE DEF n
    <3> QED BY <3>1, CutNone
  <2>6. Len(k.chunks) = 0
    BY <2>3, EmptySeq
  <2> QED BY <2>3, <2>4, <2>5, <2>6
<1>4. CASE e.head # Len(e.chunks) /\ e.head >= CompactAt /\ e.head * 2 >= Len(e.chunks)
  <2> DEFINE x == [e EXCEPT !.chunks = c]
  <2>1. k = [x EXCEPT !.head = 0]
    BY <1>4 DEF Compacted
  <2> HIDE DEF k
  <2>2. /\ x \in Decoders /\ x.chunks = c /\ x.offset = e.offset
        /\ x.buffered = e.buffered
    <3> HIDE DEF c
    <3> QED BY <1>1 DEF Decoders
  <2> HIDE DEF x
  <2>3. /\ k \in Decoders /\ k.chunks = c /\ k.head = 0 /\ k.offset = e.offset
        /\ k.buffered = e.buffered
    <3> HIDE DEF c
    <3> QED BY <2>1, <2>2 DEF Decoders
  <2>4. Unread(k) = SubSeq(c, 1, Len(c))
    BY <2>3 DEF Unread
  <2> HIDE DEF c
  <2>5. SubSeq(c, 1, Len(c)) = c
    BY <1>1, SubSeqFull DEF Chunks
  <2> QED BY <1>1, <2>3, <2>4, <2>5 DEF c
<1>5. CASE ~(e.head = Len(e.chunks))
           /\ ~(e.head >= CompactAt /\ e.head * 2 >= Len(e.chunks))
  <2>1. k = e
    BY <1>5 DEF Compacted
  <2> QED BY <1>1, <2>1
<1> QED BY <1>3, <1>4, <1>5

\* #consume returns what comes next and leaves the rest.
LEMMA ConsumeIs ==
  ASSUME NEW d, DecoderOK(d), NEW m \in 0..d.buffered
  PROVE  LET r == Consume(d, m) IN
         /\ r.bytes = SubSeq(Remainder(d), 1, m) /\ DecoderOK(r.rest)
         /\ r.rest.buffered = d.buffered - m
         /\ Remainder(r.rest) = SubSeq(Remainder(d), m + 1, d.buffered)
<1> DEFINE c == Unread(d)
           N == Len(c)
           o == d.offset
           B == FlattenSeq(c)
           first == d.head
           start == [bytes |-> <<>>, head |-> first, offset |-> o]
           Is(f) == f = [i \in 0..N |-> IF i = 0 THEN start ELSE Take(f[i - 1], c[i], m)]
           f == CHOOSE f : Is(f)
           end == f[N]
           e1 == [d EXCEPT !.head = end.head]
           e2 == [e1 EXCEPT !.offset = end.offset]
           e == [e2 EXCEPT !.buffered = @ - m]
<1>1. /\ c \in Chunks /\ N \in Nat /\ o \in Nat /\ first \in Nat /\ d.buffered \in Nat
      /\ d \in Decoders /\ m \in Nat /\ m <= d.buffered /\ B \in Seq(Byte)
      /\ BeginsAt(c, o) /\ Len(B) = o + d.buffered
  <2>1. d \in Decoders /\ BeginsAt(c, o) /\ o + d.buffered = Len(B)
    BY DEF DecoderOK
  <2> HIDE DEF c
  <2>2. c \in Chunks /\ N \in Nat /\ B \in Seq(Byte)
    BY <2>1, LenProperties, FlattenType DEF BeginsAt, Chunks
  <2> HIDE DEF B
  <2> QED BY <2>1, <2>2 DEF Decoders
<1>2. Consume(d, m) = [bytes |-> end.bytes, rest |-> Compacted(e)]
  BY DEF Consume
<1> HIDE DEF c, B, N, e, f
<1>3. PICK g : Joins(g, c)
  BY <1>1, JoinsExist DEF Chunks
<1>4. \A i \in 0..N : g[i] \in Seq(Byte) /\ Len(g[i]) \in Nat
  <2>1. \A i \in 0..N : g[i] \in Seq(Byte)
    BY <1>3 DEF Joins, N
  <2> QED BY <2>1, LenProperties
<1>5. g[0] = <<>> /\ B = g[N]
  BY <1>1, <1>3, FlattenIs DEF Joins, Chunks, B, N
<1> DEFINE G(i) == Going(c, g, o, first, m, i)
<1>6. start \in G(0)
  <2>1. /\ start \in [bytes : Seq(Byte), head : Nat, offset : Nat]
        /\ start.bytes = <<>> /\ start.head = first /\ start.offset = o
    BY <1>1, EmptySeq
  <2> HIDE DEF start
  <2>2. start.head - first = 0 /\ Len(g[start.head - first]) + start.offset = o
    BY <1>1, <1>5, <2>1, EmptySeq
  <2>3. SubSeq(B, o + 1, o) = <<>>
    BY <1>1, CutNone
  <2>4. 0 \in 0..0 /\ o <= o /\ o <= o + m
    BY <1>1
  <2>5. IF 0 = Len(c) THEN o = 0 ELSE o < Len(c[0 + 1])
    BY <1>1 DEF BeginsAt
  <2> HIDE DEF o, first
  <2> QED BY <2>1, <2>2, <2>3, <2>4, <2>5 DEF Going, B
<1>7. ASSUME NEW i \in 1..N, NEW acc \in G(i - 1) PROVE Take(acc, c[i], m) \in G(i)
  <2>1. o + m <= Len(FlattenSeq(c))
    BY <1>1 DEF B
  <2>2. i \in 1..Len(c)
    BY DEF N
  <2> HIDE DEF o, first
  <2> QED BY <1>1, <1>3, <2>1, <2>2, TakeGoesOn
<1> DEFINE S == [i \in 0..N |-> G(i)]
           F == [i \in 1..N |-> [acc \in G(i - 1) |-> Take(acc, c[i], m)]]
<1> HIDE DEF G, start
<1>8. ASSUME NEW i \in 1..N
      PROVE  F[i] \in [S[i - 1] -> S[i]]
             /\ \A acc \in S[i - 1] : F[i][acc] = Take(acc, c[i], m)
  <2>1. i - 1 \in 0..N /\ i \in 0..N
    BY <1>1
  <2>2. S[i - 1] = G(i - 1) /\ S[i] = G(i)
        /\ F[i] = [acc \in G(i - 1) |-> Take(acc, c[i], m)]
    BY <2>1
  <2> HIDE DEF S, F
  <2> QED BY <1>7, <2>2
<1>9. start \in S[0] /\ \A i \in 0..N : S[i] = G(i)
  BY <1>1, <1>6
<1> HIDE DEF S, F
<1>10. Steps(N, S, F)
  BY <1>8 DEF Steps
<1>11. PICK u : Unwinds(u, N, S, F, start)
  BY <1>1, <1>9, <1>10, Recursion
<1>12. Is(u)
  <2>1. ASSUME NEW i \in 0..N
        PROVE  u[i] = IF i = 0 THEN start ELSE Take(u[i - 1], c[i], m)
    <3>1. CASE i = 0
      BY <1>11, <3>1 DEF Unwinds
    <3>2. CASE i # 0
      <4>1. i \in 1..N /\ i - 1 \in 0..N
        BY <1>1, <3>2
      <4>2. u[i] = F[i][u[i - 1]] /\ u[i - 1] \in S[i - 1]
        BY <1>11, <4>1 DEF Unwinds
      <4> QED BY <1>8, <3>2, <4>1, <4>2
    <3> QED BY <3>1, <3>2
  <2>2. u = [i \in 0..N |-> u[i]]
    BY <1>11 DEF Unwinds
  <2> QED BY <2>1, <2>2, Zenon
<1>13. Is(f)
  BY <1>12 DEF f
<1> DEFINE T == {i \in Nat : i <= N => f[i] \in G(i)}
<1>14. 0 \in T
  <2>1. 0 \in 0..N
    BY <1>1
  <2> QED BY <1>6, <1>13, <2>1
<1>15. ASSUME NEW i \in 0..(N - 1), i \in T PROVE i + 1 \in T
  <2>1. i \in Nat /\ i + 1 \in 1..N /\ (i + 1) - 1 = i /\ i + 1 # 0 /\ i + 1 \in 0..N /\ i <= N
    BY <1>1
  <2>2. f[i + 1] = Take(f[i], c[i + 1], m)
    BY <1>13, <2>1
  <2>3. f[i] \in G((i + 1) - 1)
    BY <1>15, <2>1
  <2>4. Take(f[i], c[i + 1], m) \in G(i + 1)
    BY <1>7, <2>1, <2>3
  <2> QED BY <2>1, <2>2, <2>4
<1> HIDE DEF T, Is
<1>16. end \in G(N)
  <2>1. 0..N \subseteq T
    BY <1>1, <1>14, <1>15, BoundedInduction
  <2> QED BY <1>1, <2>1 DEF T
<1> DEFINE h == end.head - first
           at == Len(g[h]) + end.offset
<1> HIDE DEF end
<1>17. /\ end \in [bytes : Seq(Byte), head : Nat, offset : Nat]
       /\ h \in 0..N /\ end.bytes = SubSeq(B, o + 1, at)
       /\ o <= at /\ at <= o + m /\ (at = o + m \/ h = N)
       /\ IF h = N THEN end.offset = 0 ELSE end.offset < Len(c[h + 1])
  BY <1>16 DEF Going, G, B, N
<1>18. end.offset \in Nat /\ end.head \in Nat /\ end.head = first + h
  BY <1>1, <1>17
<1>19. at = o + m
  <2>1. CASE h = N
    <3>1. Len(g[h]) = Len(B) /\ end.offset = 0
      BY <1>5, <1>17, <2>1
    <3>2. at = Len(B)
      <4>1. Len(B) \in Nat
        BY <1>1
      <4> QED BY <3>1, <4>1
    <3> HIDE DEF at, h
    <3> QED BY <1>1, <1>17, <3>2
  <2> QED BY <1>17, <2>1
<1>20. end.bytes = SubSeq(Remainder(d), 1, m)
  <2> DEFINE b == o + d.buffered
  <2>1. Remainder(d) = SubSeq(B, o + 1, b)
    BY DEF Remainder, B, c
  <2>2. b \in Nat /\ o <= b /\ b <= Len(B) /\ m <= b - o
    BY <1>1
  <2> HIDE DEF b, at, o
  <2>3. SubSeq(SubSeq(B, o + 1, b), 0 + 1, m) = SubSeq(B, o + 0 + 1, o + m)
    BY <1>1, <2>2, CutCut
  <2>4. 0 + 1 = 1 /\ o + 0 + 1 = o + 1
    BY <1>1
  <2> QED BY <1>17, <1>19, <2>1, <2>3, <2>4, Zenon
<1>21. /\ e \in Decoders /\ e.chunks = d.chunks /\ e.head = d.head + h
       /\ e.offset = end.offset /\ e.buffered = d.buffered - m
  <2>1. e1 \in Decoders /\ e1.chunks = d.chunks /\ e1.head = d.head + h
        /\ e1.offset = d.offset /\ e1.buffered = d.buffered
    BY <1>1, <1>18 DEF Decoders
  <2>2. e = [e2 EXCEPT !.buffered = @ - m]
    BY DEF e
  <2> HIDE DEF e1, h
  <2>3. e2 \in Decoders /\ e2.chunks = d.chunks /\ e2.head = d.head + h
        /\ e2.offset = end.offset /\ e2.buffered = d.buffered
    BY <1>18, <2>1 DEF Decoders
  <2>4. d.buffered - m \in Nat
    BY <1>1
  <2> HIDE DEF e2
  <2> QED BY <2>2, <2>3, <2>4 DEF Decoders
<1>22. DecoderOK(e) /\ Remainder(e) = SubSeq(Remainder(d), m + 1, d.buffered)
  <2>1. Len(g[h]) + end.offset = d.offset + m
    BY <1>19
  <2>2. h \in 0..Len(Unread(d)) /\ Joins(g, Unread(d))
        /\ IF h = Len(Unread(d)) THEN end.offset = 0
           ELSE end.offset < Len(Unread(d)[h + 1])
    BY <1>3, <1>17 DEF N, c
  <2> HIDE DEF h
  <2> QED BY <1>18, <1>21, <2>1, <2>2, MoveOn
<1> HIDE DEF end, h
<1>23. DecoderOK(Compacted(e)) /\ Remainder(Compacted(e)) = Remainder(e)
       /\ Compacted(e).buffered = e.buffered
  BY <1>22, CompactedKeeps
<1>24. Consume(d, m).bytes = end.bytes /\ Consume(d, m).rest = Compacted(e)
  BY <1>2
<1> QED BY <1>20, <1>21, <1>22, <1>23, <1>24

\* What the loop of #peekUInt32BE has read after i chunks: the field, or all
\* that there is so far of it.
Peeking(c, g, o, i) ==
  {acc \in [bytes : Seq(Byte), offset : Nat] :
     LET B == FlattenSeq(c)
         at == Len(g[i]) + acc.offset
     IN \/ acc.bytes = SubSeq(B, o + 1, o + LengthBytes)
        \/ /\ acc.bytes = SubSeq(B, o + 1, at) /\ o <= at /\ at <= o + LengthBytes
           /\ IF i = Len(c) THEN acc.offset = 0 ELSE acc.offset < Len(c[i + 1])}

\* One turn of the loop of #peekUInt32BE.
LEMMA PeekGoesOn ==
  ASSUME NEW c \in Chunks, NEW g, Joins(g, c), NEW o, BeginsAt(c, o),
         o + LengthBytes <= Len(FlattenSeq(c)),
         NEW i \in 1..Len(c), NEW acc \in Peeking(c, g, o, i - 1)
  PROVE  Peek(acc, c[i]) \in Peeking(c, g, o, i)
<1> DEFINE B == FlattenSeq(c)
           N == Len(c)
           L == LengthBytes
           off == acc.offset
           lc == Len(c[i])
           lg == Len(g[i - 1])
           at == lg + off
           n == AtMost(L - Len(acc.bytes), lc - off)
           more == SubSeq(c[i], off + 1, off + n)
           xb == acc.bytes \o more
           x == Peek(acc, c[i])
<1>1. /\ acc.bytes \in Seq(Byte) /\ off \in Nat
      /\ \/ acc.bytes = SubSeq(B, o + 1, o + L)
         \/ /\ acc.bytes = SubSeq(B, o + 1, at) /\ o <= at /\ at <= o + L
            /\ IF i - 1 = N THEN off = 0 ELSE off < Len(c[(i - 1) + 1])
  BY DEF Peeking
<1>2. /\ N \in Nat /\ o \in Nat /\ B \in Seq(Byte) /\ Len(B) \in Nat /\ L \in Nat
      /\ o + L <= Len(B) /\ (i - 1) + 1 = i /\ i - 1 # N
  <2>1. N \in Nat /\ B \in Seq(Byte) /\ o \in Nat
    BY LenProperties, FlattenType DEF Chunks, BeginsAt
  <2>2. L \in Nat
    BY NiFramesAssumption
  <2> QED BY <2>1, <2>2, LenProperties
<1>3. /\ c[i] \in Seq(Byte) /\ lc \in Nat /\ lg \in Nat /\ Len(g[i]) = lg + lc
  <2>1. c[i] \in Seq(Byte) /\ g[i - 1] \in Seq(Byte) /\ Len(g[i]) = lg + lc
    BY JoinsGrow
  <2> QED BY <2>1, LenProperties
<1>4. x = [bytes |-> xb, offset |-> 0]
  BY DEF Peek
<1>5. n = AtMost(L - Len(acc.bytes), lc - off) /\ Len(c[i]) = lc /\ Len(g[i - 1]) = lg
  OBVIOUS
<1> HIDE DEF B, N, L, off, lc, lg, n, x
<1>6. CASE acc.bytes = SubSeq(B, o + 1, o + L)
  <2>1. Len(acc.bytes) = L
    <3> DEFINE b == o + L
    <3>1. b \in Int /\ b <= Len(B) /\ o <= b
      BY <1>2
    <3> HIDE DEF b
    <3>2. Len(SubSeq(B, o + 1, b)) = (IF o <= b THEN b - o ELSE 0)
      BY <1>2, <3>1, Cut
    <3> QED BY <1>2, <1>6, <3>1, <3>2 DEF b
  <2>2. n \in Int /\ off + n \in Int /\ off + n <= off
    BY <1>1, <1>2, <1>3, <1>5, <2>1 DEF AtMost
  <2>3. more = <<>>
    <3> DEFINE b == off + n
    <3>1. b \in Int /\ b <= off /\ off \in Int
      BY <1>1, <2>2
    <3> HIDE DEF b
    <3>2. SubSeq(c[i], off + 1, b) = <<>>
      BY <3>1, CutNone
    <3> QED BY <3>2 DEF b
  <2>4. xb = acc.bytes
    <3> DEFINE u == acc.bytes
    <3>1. u \in Seq(Byte)
      BY <1>1
    <3> HIDE DEF u, more
    <3>2. u \o <<>> = u
      BY <3>1, ConcatEmptySeq
    <3> QED BY <2>3, <3>2 DEF u
  <2> HIDE DEF xb
  <2>5. x \in [bytes : Seq(Byte), offset : Nat] /\ x.bytes = SubSeq(B, o + 1, o + L)
    BY <1>1, <1>4, <1>6, <2>4
  <2> QED BY <2>5 DEF Peeking, B, L, x
<1>7. CASE /\ acc.bytes = SubSeq(B, o + 1, at) /\ o <= at /\ at <= o + L
           /\ off < Len(c[i])
  <2>1. Len(acc.bytes) = at - o /\ at \in Nat
    <3>1. at \in Int /\ at <= Len(B) /\ at \in Nat
      BY <1>1, <1>2, <1>3, <1>7
    <3> HIDE DEF at
    <3>2. Len(SubSeq(B, o + 1, at)) = (IF o <= at THEN at - o ELSE 0)
      BY <1>2, <3>1, Cut
    <3>3. acc.bytes = SubSeq(B, o + 1, at) /\ o <= at
      BY <1>7 DEF at
    <3> QED BY <3>1, <3>2, <3>3
  <2>2. /\ n \in Nat /\ off + n <= lc /\ at + n <= o + L /\ o <= at + n
        /\ (off + n = lc \/ at + n = o + L) /\ at + n = lg + (off + n)
    <3>1. n = IF L - (at - o) < lc - off THEN L - (at - o) ELSE lc - off
      BY <1>5, <2>1 DEF AtMost
    <3>2. off < lc /\ o <= at /\ at <= o + L
      BY <1>5, <1>7
    <3>3. /\ lc \in Nat /\ off \in Nat /\ o \in Nat /\ L \in Nat /\ lg \in Nat
          /\ at \in Nat /\ at = lg + off
      BY <1>1, <1>2, <1>3, <2>1
    <3> HIDE DEF at, n, lc, lg, off
    <3> QED BY <3>1, <3>2, <3>3
  <2>3. xb = SubSeq(B, o + 1, at + n)
    <3>1. off + n <= Len(c[i]) /\ o <= Len(g[i - 1]) + off
      BY <1>5, <1>7, <2>2
    <3>2. SubSeq(B, o + 1, Len(g[i - 1]) + off) \o SubSeq(c[i], off + 1, off + n)
            = SubSeq(B, o + 1, Len(g[i - 1]) + off + n)
      <4>1. off \in Nat /\ n \in Nat /\ o \in Nat
        BY <1>1, <1>2, <2>2
      <4> HIDE DEF at, more, xb
      <4> DEFINE F == FlattenSeq(c)
                 lh == Len(g[i - 1])
      <4>2. /\ SubSeq(FlattenSeq(c), o + 1, Len(g[i - 1]) + off) \o SubSeq(c[i], off + 1, off + n)
                 = SubSeq(FlattenSeq(c), o + 1, Len(g[i - 1]) + off + n)
            /\ Len(g[i - 1]) + off + n <= Len(FlattenSeq(c))
        BY <3>1, <4>1, ReadOn
      <4> QED BY <4>2 DEF B
    <3>3. Len(g[i - 1]) + off = at
      BY <1>5
    <3> QED BY <1>7, <3>2, <3>3, Zenon
  <2>4. xb \in Seq(Byte)
    <3> DEFINE b == at + n
    <3>1. b \in Int /\ b <= Len(B)
      BY <1>2, <2>1, <2>2
    <3> HIDE DEF b, xb, at
    <3>2. SubSeq(B, o + 1, b) \in Seq(Byte)
      BY <1>2, <3>1, Cut
    <3> QED BY <2>3, <3>2 DEF b
  <2> HIDE DEF xb
  <2>5. x \in [bytes : Seq(Byte), offset : Nat] /\ x.bytes = xb /\ x.offset = 0
    BY <1>4, <2>4
  <2>6. CASE off + n = lc
    <3>1. Len(g[i]) + x.offset = at + n
      BY <1>3, <2>1, <2>2, <2>5, <2>6
    <3>2. x.bytes = SubSeq(B, o + 1, Len(g[i]) + x.offset)
      BY <2>3, <2>5, <3>1, Zenon
    <3>3. i # N => x.offset < Len(c[i + 1])
      <4>1. ASSUME i # N PROVE 0 < Len(c[i + 1])
        <5>1. i + 1 \in 1..Len(c)
          BY <1>2, <4>1 DEF N
        <5> QED BY <5>1 DEF BeginsAt
      <4> QED BY <2>5, <4>1
    <3> HIDE DEF at
    <3> QED BY <2>2, <2>5, <3>1, <3>2, <3>3 DEF Peeking, B, L, N, x
  <2>7. CASE at + n = o + L
    <3>1. x.bytes = SubSeq(B, o + 1, o + L)
      BY <2>3, <2>5, <2>7, Zenon
    <3> QED BY <2>5, <3>1 DEF Peeking, B, L, x
  <2> QED BY <2>2, <2>6, <2>7 DEF x
<1> HIDE DEF x
<1>8. i - 1 # N /\ c[(i - 1) + 1] = c[i]
  BY <1>2
<1>9. \/ acc.bytes = SubSeq(B, o + 1, o + L)
      \/ /\ acc.bytes = SubSeq(B, o + 1, at) /\ o <= at /\ at <= o + L
         /\ off < Len(c[i])
  <2> HIDE DEF at
  <2> QED BY <1>1, <1>8
<1> QED BY <1>6, <1>7, <1>9 DEF x

\* #peekUInt32BE reads the length field, wherever the chunks cut it.
LEMMA PeekIs ==
  ASSUME NEW d, DecoderOK(d), LengthBytes <= d.buffered
  PROVE  PeekLength(d) = Number(SubSeq(Remainder(d), 1, LengthBytes))
<1> DEFINE c == Unread(d)
           N == Len(c)
           L == LengthBytes
           o == d.offset
           B == FlattenSeq(c)
           start == [bytes |-> <<>>, offset |-> o]
           Is(f) == f = [i \in 0..N |-> IF i = 0 THEN start ELSE Peek(f[i - 1], c[i])]
           f == CHOOSE f : Is(f)
           end == f[N]
<1>1. /\ c \in Chunks /\ N \in Nat /\ o \in Nat /\ d.buffered \in Nat /\ L \in Nat
      /\ L <= d.buffered /\ B \in Seq(Byte) /\ BeginsAt(c, o) /\ Len(B) = o + d.buffered
  <2>1. d \in Decoders /\ BeginsAt(c, o) /\ o + d.buffered = Len(B)
    BY DEF DecoderOK
  <2> HIDE DEF c
  <2>2. c \in Chunks /\ N \in Nat /\ B \in Seq(Byte) /\ L \in Nat
    BY <2>1, LenProperties, FlattenType, NiFramesAssumption DEF BeginsAt, Chunks
  <2> HIDE DEF B
  <2> QED BY <2>1, <2>2 DEF Decoders
<1>2. PeekLength(d) = Number(end.bytes)
  BY DEF PeekLength
<1> HIDE DEF c, B, N, L, f
<1>3. PICK g : Joins(g, c)
  BY <1>1, JoinsExist DEF Chunks
<1>4. g[0] = <<>> /\ B = g[N]
  BY <1>1, <1>3, FlattenIs DEF Joins, Chunks, B, N
<1> DEFINE G(i) == Peeking(c, g, o, i)
<1>5. start \in G(0)
  <2>1. /\ start \in [bytes : Seq(Byte), offset : Nat]
        /\ start.bytes = <<>> /\ start.offset = o
    BY <1>1, EmptySeq
  <2> HIDE DEF start
  <2>2. Len(g[0]) + start.offset = o
    BY <1>1, <1>4, <2>1, EmptySeq
  <2>3. SubSeq(B, o + 1, o) = <<>>
    BY <1>1, CutNone
  <2>4. o <= o /\ o <= o + L
    BY <1>1
  <2>5. IF 0 = Len(c) THEN o = 0 ELSE o < Len(c[0 + 1])
    BY <1>1 DEF BeginsAt
  <2> HIDE DEF o
  <2> QED BY <2>1, <2>2, <2>3, <2>4, <2>5 DEF Peeking, B, L
<1>6. ASSUME NEW i \in 1..N, NEW acc \in G(i - 1) PROVE Peek(acc, c[i]) \in G(i)
  <2>1. o + LengthBytes <= Len(FlattenSeq(c))
    BY <1>1 DEF B, L
  <2>2. i \in 1..Len(c)
    BY DEF N
  <2> HIDE DEF o
  <2> QED BY <1>1, <1>3, <2>1, <2>2, PeekGoesOn
<1> DEFINE S == [i \in 0..N |-> G(i)]
           F == [i \in 1..N |-> [acc \in G(i - 1) |-> Peek(acc, c[i])]]
<1> HIDE DEF G, start
<1>7. ASSUME NEW i \in 1..N
      PROVE  F[i] \in [S[i - 1] -> S[i]]
             /\ \A acc \in S[i - 1] : F[i][acc] = Peek(acc, c[i])
  <2>1. i - 1 \in 0..N /\ i \in 0..N
    BY <1>1
  <2>2. S[i - 1] = G(i - 1) /\ S[i] = G(i)
        /\ F[i] = [acc \in G(i - 1) |-> Peek(acc, c[i])]
    BY <2>1
  <2> HIDE DEF S, F
  <2> QED BY <1>6, <2>2
<1>8. start \in S[0] /\ \A i \in 0..N : S[i] = G(i)
  BY <1>1, <1>5
<1> HIDE DEF S, F
<1>9. Steps(N, S, F)
  BY <1>7 DEF Steps
<1>10. PICK u : Unwinds(u, N, S, F, start)
  BY <1>1, <1>8, <1>9, Recursion
<1>11. Is(u)
  <2>1. ASSUME NEW i \in 0..N
        PROVE  u[i] = IF i = 0 THEN start ELSE Peek(u[i - 1], c[i])
    <3>1. CASE i = 0
      BY <1>10, <3>1 DEF Unwinds
    <3>2. CASE i # 0
      <4>1. i \in 1..N /\ i - 1 \in 0..N
        BY <1>1, <3>2
      <4>2. u[i] = F[i][u[i - 1]] /\ u[i - 1] \in S[i - 1]
        BY <1>10, <4>1 DEF Unwinds
      <4> QED BY <1>7, <3>2, <4>1, <4>2
    <3> QED BY <3>1, <3>2
  <2>2. u = [i \in 0..N |-> u[i]]
    BY <1>10 DEF Unwinds
  <2> QED BY <2>1, <2>2, Zenon
<1>12. Is(f)
  BY <1>11 DEF f
<1> DEFINE T == {i \in Nat : i <= N => f[i] \in G(i)}
<1>13. 0 \in T
  <2>1. 0 \in 0..N
    BY <1>1
  <2> QED BY <1>5, <1>12, <2>1
<1>14. ASSUME NEW i \in 0..(N - 1), i \in T PROVE i + 1 \in T
  <2>1. i \in Nat /\ i + 1 \in 1..N /\ (i + 1) - 1 = i /\ i + 1 # 0 /\ i + 1 \in 0..N /\ i <= N
    BY <1>1
  <2>2. f[i + 1] = Peek(f[i], c[i + 1])
    BY <1>12, <2>1
  <2>3. f[i] \in G((i + 1) - 1)
    BY <1>14, <2>1
  <2>4. Peek(f[i], c[i + 1]) \in G(i + 1)
    BY <1>6, <2>1, <2>3
  <2> QED BY <2>1, <2>2, <2>4
<1> HIDE DEF T, Is
<1>15. end \in G(N)
  <2>1. 0..N \subseteq T
    BY <1>1, <1>13, <1>14, BoundedInduction
  <2> QED BY <1>1, <2>1 DEF T
<1> HIDE DEF end
<1>16. end.bytes = SubSeq(B, o + 1, o + L)
  <2> DEFINE at == Len(g[N]) + end.offset
  <2>1. \/ end.bytes = SubSeq(B, o + 1, o + L)
        \/ /\ end.bytes = SubSeq(B, o + 1, at) /\ at <= o + L /\ end.offset = 0
    BY <1>15 DEF Peeking, G, B, N, L
  <2>2. CASE end.bytes = SubSeq(B, o + 1, at) /\ at <= o + L /\ end.offset = 0
    <3>1. at = Len(B)
      <4>1. Len(B) \in Nat
        BY <1>1
      <4> QED BY <1>4, <2>2, <4>1
    <3>2. at = o + L
      <4> HIDE DEF at
      <4> QED BY <1>1, <2>2, <3>1
    <3> QED BY <2>2, <3>2, Zenon
  <2> QED BY <2>1, <2>2
<1>17. SubSeq(Remainder(d), 1, L) = SubSeq(B, o + 1, o + L)
  <2> DEFINE b == o + d.buffered
  <2>1. Remainder(d) = SubSeq(B, o + 1, b)
    BY DEF Remainder, B, c
  <2>2. b \in Nat /\ o <= b /\ b <= Len(B) /\ L <= b - o
    BY <1>1
  <2> HIDE DEF b, o
  <2>3. SubSeq(SubSeq(B, o + 1, b), 0 + 1, L) = SubSeq(B, o + 0 + 1, o + L)
    BY <1>1, <2>2, CutCut
  <2>4. 0 + 1 = 1 /\ o + 0 + 1 = o + 1
    BY <1>1
  <2> QED BY <2>1, <2>3, <2>4, Zenon
<1> QED BY <1>2, <1>16, <1>17, Zenon DEF L

\* What a decoder has yet to hand out are bytes, as many as it counts.
LEMMA DecoderBytes ==
  ASSUME NEW d, DecoderOK(d)
  PROVE  Remainder(d) \in Seq(Byte) /\ Len(Remainder(d)) = d.buffered
<1> DEFINE o == d.offset
           B == FlattenSeq(Unread(d))
           b == o + d.buffered
<1>1. B \in Seq(Byte) /\ o \in Nat /\ d.buffered \in Nat /\ b = Len(B)
  BY FlattenType DEF DecoderOK, BeginsAt, Decoders
<1>2. Remainder(d) = SubSeq(B, o + 1, b) /\ b \in Int /\ o <= b /\ b - o = d.buffered
  BY <1>1 DEF Remainder
<1> HIDE DEF B, b, o
<1>3. /\ SubSeq(B, o + 1, b) \in Seq(Byte)
      /\ Len(SubSeq(B, o + 1, b)) = (IF o <= b THEN b - o ELSE 0)
  <2>1. b <= Len(B)
    BY <1>1, <1>2
  <2> QED BY <1>1, <1>2, <2>1, Cut
<1> QED BY <1>2, <1>3

\* A record that is whole: its encoding, and after it what is left.
LEMMA FrameIs ==
  ASSUME NEW d, DecoderOK(d), LengthBytes <= d.buffered,
         LengthBytes + PeekLength(d) <= d.buffered
  PROVE  LET p == Consume(Consume(d, LengthBytes).rest, PeekLength(d)) IN
         /\ p.bytes \in Seq(Byte) /\ DecoderOK(p.rest)
         /\ p.rest.buffered = d.buffered - LengthBytes - PeekLength(d)
         /\ EncodeNiFrame(p.bytes) \o Remainder(p.rest) = Remainder(d)
         /\ PeekLength(d) \in Nat /\ Len(p.bytes) = PeekLength(d)
         /\ Number(Digits(PeekLength(d))) = PeekLength(d)
<1> DEFINE R == Remainder(d)
           L == LengthBytes
           n == PeekLength(d)
           b == d.buffered
           r1 == Consume(d, L)
           r2 == Consume(r1.rest, n)
<1>1. L \in Nat /\ b \in Nat /\ R \in Seq(Byte) /\ Len(R) = b /\ L <= b /\ L + n <= b
  BY DecoderBytes, NiFramesAssumption DEF DecoderOK, Decoders
<1>2. n = Number(SubSeq(R, 1, L)) /\ L \in 0..b
  BY <1>1, PeekIs
<1>3. r1.rest.buffered = b - L /\ DecoderOK(r1.rest) /\ Remainder(r1.rest) = SubSeq(R, L + 1, b)
  BY <1>2, ConsumeIs
<1> HIDE DEF r1, n
<1>4. SubSeq(R, 1, L) \in Seq(Byte) /\ Len(SubSeq(R, 1, L)) = L
  <2> HIDE DEF R
  <2>1. /\ SubSeq(R, 0 + 1, L) \in Seq(Byte)
        /\ Len(SubSeq(R, 0 + 1, L)) = (IF 0 <= L THEN L - 0 ELSE 0)
    BY <1>1, Cut
  <2> QED BY <1>1, <2>1
<1>5. n \in Nat /\ Digits(n) = SubSeq(R, 1, L)
  BY <1>2, <1>4, NumberType, DigitsOfNumber
<1>17. Number(Digits(n)) = n
  BY <1>2, <1>5
<1>6. n \in 0..r1.rest.buffered /\ n \in 0..(b - L) /\ L + n \in Nat
  BY <1>1, <1>3, <1>5
<1>7. /\ r2.bytes = SubSeq(Remainder(r1.rest), 1, n) /\ DecoderOK(r2.rest)
      /\ r2.rest.buffered = r1.rest.buffered - n
      /\ Remainder(r2.rest) = SubSeq(Remainder(r1.rest), n + 1, r1.rest.buffered)
  BY <1>3, <1>6, ConsumeIs
<1> HIDE DEF r2
<1> HIDE DEF R, b
<1>8. /\ r2.bytes = SubSeq(SubSeq(R, L + 1, b), 1, n)
      /\ Remainder(r2.rest) = SubSeq(SubSeq(R, L + 1, b), n + 1, b - L)
      /\ r2.rest.buffered = b - L - n
  BY <1>3, <1>7
<1>9. SubSeq(SubSeq(R, L + 1, b), 1, n) = SubSeq(R, L + 1, L + n)
  <2>1. n <= b - L /\ 0 \in Nat /\ b <= Len(R)
    BY <1>1, <1>6
  <2>2. SubSeq(SubSeq(R, L + 1, b), 0 + 1, n) = SubSeq(R, L + 0 + 1, L + n)
    BY <1>1, <1>5, <2>1, CutCut
  <2>3. 0 + 1 = 1 /\ L + 0 + 1 = L + 1
    BY <1>1
  <2> QED BY <2>2, <2>3, Zenon
<1>10. SubSeq(SubSeq(R, L + 1, b), n + 1, b - L) = SubSeq(R, L + n + 1, b)
  <2> DEFINE j == b - L
  <2>1. j \in Nat /\ L + j = b /\ j <= b - L /\ b <= Len(R)
    BY <1>1, <1>6
  <2> HIDE DEF j
  <2>2. SubSeq(SubSeq(R, L + 1, b), n + 1, j) = SubSeq(R, L + n + 1, L + j)
    BY <1>1, <1>5, <2>1, CutCut
  <2> QED BY <2>1, <2>2, Zenon DEF j
<1>11. SubSeq(R, 1, L) \o SubSeq(R, L + 1, L + n) = SubSeq(R, 1, L + n)
  <2> DEFINE m == L + n
  <2>1. m \in Nat /\ L <= m /\ m <= Len(R) /\ 0 <= L
    BY <1>1, <1>5
  <2> HIDE DEF m
  <2>2. SubSeq(R, 0 + 1, L) \o SubSeq(R, L + 1, m) = SubSeq(R, 0 + 1, m)
    BY <1>1, <2>1, CutJoin
  <2>3. 0 + 1 = 1
    OBVIOUS
  <2> QED BY <2>2, <2>3, Zenon DEF m
<1>12. SubSeq(R, 1, L + n) \o SubSeq(R, L + n + 1, b) = SubSeq(R, 1, b)
  <2> DEFINE m == L + n
  <2>1. m \in Nat /\ 0 <= m /\ m <= b /\ b <= Len(R)
    BY <1>1, <1>5
  <2> HIDE DEF m
  <2>2. SubSeq(R, 0 + 1, m) \o SubSeq(R, m + 1, b) = SubSeq(R, 0 + 1, b)
    BY <1>1, <2>1, CutJoin
  <2>3. 0 + 1 = 1
    OBVIOUS
  <2> QED BY <2>2, <2>3, Zenon DEF m
<1>13. SubSeq(R, 1, b) = R
  BY <1>1, SubSeqFull
<1>14. r2.bytes \in Seq(Byte) /\ Len(r2.bytes) = n
  <2> DEFINE m == L + n
  <2>1. m \in Int /\ m <= Len(R) /\ L <= m /\ m - L = n
    BY <1>1, <1>5
  <2>0. r2.bytes = SubSeq(R, L + 1, m)
    BY <1>8, <1>9, Zenon
  <2> HIDE DEF m
  <2>2. /\ SubSeq(R, L + 1, m) \in Seq(Byte)
        /\ Len(SubSeq(R, L + 1, m)) = (IF L <= m THEN m - L ELSE 0)
    BY <1>1, <2>1, Cut
  <2> QED BY <2>0, <2>1, <2>2
<1>15. EncodeNiFrame(r2.bytes) = SubSeq(R, 1, L + n)
  <2>1. EncodeNiFrame(r2.bytes) = Digits(n) \o r2.bytes
    BY <1>14 DEF EncodeNiFrame
  <2> QED BY <1>5, <1>8, <1>9, <1>11, <2>1, Zenon
<1>16. EncodeNiFrame(r2.bytes) \o Remainder(r2.rest) = R
  BY <1>8, <1>10, <1>12, <1>13, <1>15, Zenon
<1> QED BY <1>5, <1>7, <1>8, <1>14, <1>16, <1>17 DEF r1, r2, n, R, b

\* The records in a queue, one after the other
LEMMA EncodedGrows ==
  ASSUME NEW f \in Chunks, NEW p \in Seq(Byte)
  PROVE  /\ Encoded(f) \in Seq(Byte) /\ Encoded(Append(f, p)) \in Seq(Byte)
         /\ EncodeNiFrame(p) \in Seq(Byte)
         /\ Encoded(Append(f, p)) = Encoded(f) \o EncodeNiFrame(p)
<1> DEFINE E(s) == [i \in DOMAIN s |-> EncodeNiFrame(s[i])]
           N == Len(f)
           q == Append(f, p)
           x == EncodeNiFrame(p)
<1>1. ASSUME NEW u \in Seq(Byte) PROVE EncodeNiFrame(u) \in Seq(Byte)
  <2>1. Digits(Len(u)) \in Seq(Byte)
    BY LenProperties, DigitsType
  <2> QED BY <2>1, ConcatProperties DEF EncodeNiFrame
<1>2. ASSUME NEW s \in Chunks PROVE E(s) \in Chunks /\ Len(E(s)) = Len(s)
  <2>1. DOMAIN s = 1..Len(s) /\ Len(s) \in Nat /\ \A i \in 1..Len(s) : s[i] \in Seq(Byte)
    BY LenProperties, ElementOfSeq DEF Chunks
  <2>2. E(s) \in [1..Len(s) -> Seq(Byte)]
    BY <1>1, <2>1
  <2> DEFINE e == E(s)
             M == Len(s)
  <2>3. M \in Nat /\ e \in [1..M -> Seq(Byte)]
    BY <2>1, <2>2
  <2> HIDE DEF e, M
  <2>4. e \in Chunks
    BY <2>3, SeqDef DEF Chunks
  <2>5. Len(e) = M
    <3>1. Len(e) \in Nat /\ DOMAIN e = 1..Len(e) /\ DOMAIN e = 1..M
      BY <2>3, <2>4, LenProperties DEF Chunks
    <3> QED BY <2>3, <3>1
  <2> QED BY <2>4, <2>5 DEF e, M
<1>3. /\ N \in Nat /\ q \in Chunks /\ Len(q) = N + 1 /\ q[N + 1] = p /\ DOMAIN q = 1..(N + 1)
      /\ DOMAIN f = 1..N /\ \A i \in 1..N : q[i] = f[i]
  BY AppendProperties, LenProperties DEF Chunks
<1>4. x \in Seq(Byte)
  BY <1>1
<1>5. E(q) = Append(E(f), x)
  <2>1. /\ E(q) \in Chunks /\ Len(E(q)) = N + 1 /\ E(f) \in Chunks /\ Len(E(f)) = N
    BY <1>2, <1>3
  <2>2. /\ Append(E(f), x) \in Chunks /\ Len(Append(E(f), x)) = N + 1
        /\ Append(E(f), x)[N + 1] = x /\ \A i \in 1..N : Append(E(f), x)[i] = E(f)[i]
    <3> HIDE DEF E, x, N
    <3> QED BY <1>4, <2>1, AppendProperties, LenProperties DEF Chunks
  <2>3. ASSUME NEW i \in 1..(N + 1) PROVE E(q)[i] = Append(E(f), x)[i]
    <3>1. CASE i = N + 1
      <4>1. E(q)[i] = EncodeNiFrame(q[i])
        BY <1>3
      <4> QED BY <1>3, <2>2, <3>1, <4>1
    <3>2. CASE i # N + 1
      <4>1. i \in 1..N
        BY <1>3, <3>2
      <4>2. E(q)[i] = EncodeNiFrame(q[i]) /\ E(f)[i] = EncodeNiFrame(f[i])
        BY <1>3, <4>1
      <4> QED BY <1>3, <2>2, <4>1, <4>2
    <3> QED BY <3>1, <3>2
  <2> HIDE DEF E, q, x
  <2> QED BY <2>1, <2>2, <2>3, SeqEqual DEF Chunks
<1>6. Encoded(f) = FlattenSeq(E(f)) /\ Encoded(q) = FlattenSeq(E(q))
  BY DEF Encoded
<1>7. E(f) \in Chunks /\ E(q) \in Chunks
  BY <1>2, <1>3
<1> HIDE DEF E, x, q
<1>8. FlattenSeq(Append(E(f), x)) = FlattenSeq(E(f)) \o x
  BY <1>4, <1>7, FlattenAppend
<1>9. FlattenSeq(E(f)) \in Seq(Byte) /\ FlattenSeq(E(q)) \in Seq(Byte)
  BY <1>7, FlattenType
<1> QED BY <1>4, <1>5, <1>6, <1>8, <1>9 DEF q, x

\* Two queues are one.
LEMMA ChunksJoin ==
  ASSUME NEW s \in Chunks, NEW t \in Chunks
  PROVE  s \o t \in Chunks /\ Len(s \o t) = Len(s) + Len(t)
  BY ConcatProperties DEF Chunks

\* A chunk in a queue of its own comes last.
LEMMA AppendLast ==
  ASSUME NEW z \in Chunks, NEW f \in Chunks, NEW p \in Seq(Byte)
  PROVE  z \o Append(f, p) = Append(z \o f, p) /\ z \o f \in Chunks
<1> DEFINE P == Seq(Byte)
<1>1. z \in Seq(P) /\ f \in Seq(P) /\ p \in P /\ Chunks = Seq(P)
  BY DEF Chunks
<1> HIDE DEF P
<1>2. Append(f, p) = f \o <<p>> /\ <<p>> \in Seq(P) /\ z \o f \in Seq(P)
  BY <1>1, AppendIsConcat, ConcatProperties
<1>3. Append(z \o f, p) = (z \o f) \o <<p>>
  BY <1>1, <1>2, AppendIsConcat
<1>4. (z \o f) \o <<p>> = z \o (f \o <<p>>)
  BY <1>1, <1>2, ConcatAssociative
<1> QED BY <1>1, <1>2, <1>3, <1>4, Zenon

\* What a record may hold: as much as is allowed and its length field can say.
Payloads ==
  {p \in Seq(Byte) : Len(p) <= MaxPayloadLength /\ Number(Digits(Len(p))) = Len(p)}
\* What is left when no more can be read: less than a record that is allowed
Waits(rest) ==
  \/ Len(rest) < LengthBytes
  \/ LET n == Number(SubSeq(rest, 1, LengthBytes)) IN
     n <= MaxPayloadLength /\ Len(rest) < LengthBytes + n

\* Such records are a queue.
LEMMA PayloadChunks ==
  ASSUME NEW ps \in Seq(Payloads)
  PROVE  ps \in Chunks /\ Len(ps) \in Nat
<1>1. Payloads \subseteq Seq(Byte)
  BY DEF Payloads
<1>2. \A i \in 1..Len(ps) : ps[i] \in Seq(Byte)
  BY <1>1, ElementOfSeq
<1>3. Len(ps) \in Nat /\ ps = [i \in 1..Len(ps) |-> ps[i]]
  BY LenProperties
<1> QED BY <1>2, <1>3 DEF Chunks

\* A decoder that waits holds less than a record.
LEMMA WaitsShort ==
  ASSUME NEW d, DecoderOK(d), Waits(Remainder(d))
  PROVE  d.buffered < LengthBytes + MaxPayloadLength
<1>1. /\ Remainder(d) \in Seq(Byte) /\ Len(Remainder(d)) = d.buffered
      /\ d.buffered \in Nat /\ LengthBytes \in Nat \ {0} /\ MaxPayloadLength \in Nat
  BY DecoderBytes, NiFramesAssumption DEF DecoderOK, Decoders
<1> DEFINE R == Remainder(d)
           n == Number(SubSeq(R, 1, LengthBytes))
<1>2. CASE d.buffered < LengthBytes
  BY <1>1, <1>2
<1>3. CASE ~(d.buffered < LengthBytes)
  <2>1. n <= MaxPayloadLength /\ d.buffered < LengthBytes + n
    BY <1>1, <1>3 DEF Waits
  <2>2. n \in Nat
    <3>1. SubSeq(R, 0 + 1, LengthBytes) \in Seq(Byte)
      BY <1>1, <1>3, Cut
    <3>2. 0 + 1 = 1
      OBVIOUS
    <3> HIDE DEF R
    <3> QED BY <3>1, <3>2, NumberType
  <2> HIDE DEF n
  <2> QED BY <1>1, <2>1, <2>2
<1> QED BY <1>2, <1>3

\* #bufferedBytes, in the loop of push()
Buffered(r) == r.decoder.buffered
\* push() can do no more: it found a length it does not accept, or it lacks
\* a part of a record that it does accept.
Stuck(r) == r.invalid \/ Waits(Remainder(r.decoder))

\* What the loop of push() has done after k turns to the bytes it began with
Pushing(bytes, k) ==
  {r \in [decoder : Decoders, payloads : Seq(Payloads), invalid : BOOLEAN] :
     /\ DecoderOK(r.decoder)
     /\ Stuck(r) \/ Buffered(r) + k <= Len(bytes)
     /\ \A z \in Chunks :
          Encoded(z \o r.payloads) \o Remainder(r.decoder) = Encoded(z) \o bytes}

\* One turn of the loop of push() hands out a record, or the loop is stuck.
LEMMA TurnGoesOn ==
  ASSUME NEW bytes \in Seq(Byte), NEW k \in Nat, NEW r \in Pushing(bytes, k)
  PROVE  Turn(r) \in Pushing(bytes, k + 1)
<1> DEFINE d == r.decoder
           n == PeekLength(d)
           p == Consume(Consume(d, LengthBytes).rest, n)
           b == d.buffered
           Results == [decoder : Decoders, payloads : Seq(Payloads), invalid : BOOLEAN]
<1>1. /\ r \in Results /\ DecoderOK(d) /\ b \in Nat
      /\ r.payloads \in Seq(Payloads) /\ r.payloads \in Chunks /\ r.invalid \in BOOLEAN
      /\ LengthBytes \in Nat /\ LengthBytes > 0 /\ MaxPayloadLength \in Nat
      /\ Len(bytes) \in Nat /\ Len(Remainder(d)) = b
  <2>1. r \in Results /\ DecoderOK(d)
    BY DEF Pushing
  <2>3. r.payloads \in Seq(Payloads) /\ r.payloads \in Chunks
    BY <2>1, PayloadChunks
  <2>4. Len(Remainder(d)) = b
    BY <2>1, DecoderBytes
  <2>2. b \in Nat
    BY <2>1 DEF DecoderOK, Decoders
  <2> QED BY <2>1, <2>2, <2>3, <2>4, NiFramesAssumption, LenProperties
<1>7. ASSUME LengthBytes <= b PROVE n = Number(SubSeq(Remainder(d), 1, LengthBytes))
  BY <1>1, <1>7, PeekIs
<1>6. ASSUME LengthBytes <= b PROVE n \in Nat
  <2>1. n = Number(SubSeq(Remainder(d), 1, LengthBytes))
    BY <1>1, <1>6, PeekIs
  <2>2. SubSeq(Remainder(d), 0 + 1, LengthBytes) \in Seq(Byte)
    <3>1. Remainder(d) \in Seq(Byte) /\ LengthBytes <= Len(Remainder(d))
      BY <1>1, <1>6, DecoderBytes
    <3> QED BY <1>1, <3>1, Cut
  <2>3. 0 + 1 = 1
    OBVIOUS
  <2> QED BY <2>1, <2>2, <2>3, NumberType
<1>2. CASE r.invalid \/ b < LengthBytes
  <2>1. Turn(r) = r
    BY <1>2 DEF Turn
  <2>2. Stuck(r)
    BY <1>1, <1>2 DEF Stuck, Waits
  <2> QED BY <2>1, <2>2 DEF Pushing
<1>3. CASE ~r.invalid /\ ~(b < LengthBytes) /\ n > MaxPayloadLength
  <2>1. Turn(r) = [r EXCEPT !.invalid = TRUE]
    BY <1>3 DEF Turn
  <2> DEFINE x == [r EXCEPT !.invalid = TRUE]
  <2>2. x \in Results /\ x.decoder = d /\ x.payloads = r.payloads /\ x.invalid = TRUE
    BY <1>1
  <2> HIDE DEF x
  <2>3. x \in Pushing(bytes, k + 1)
    BY <2>2 DEF Pushing, Stuck
  <2> QED BY <2>1, <2>3 DEF x
<1>4. CASE ~r.invalid /\ ~(b < LengthBytes) /\ ~(n > MaxPayloadLength) /\ b < LengthBytes + n
  <2>1. Turn(r) = r
    BY <1>4 DEF Turn
  <2>2. n \in Nat
    BY <1>1, <1>4, <1>6
  <2>3. Stuck(r)
    <3>1. n = Number(SubSeq(Remainder(d), 1, LengthBytes))
      BY <1>1, <1>4, <1>7
    <3> HIDE DEF n
    <3> QED BY <1>1, <1>4, <2>2, <3>1 DEF Stuck, Waits
  <2> QED BY <2>1, <2>3 DEF Pushing
<1>5. CASE ~r.invalid /\ ~(b < LengthBytes) /\ ~(n > MaxPayloadLength) /\ ~(b < LengthBytes + n)
  <2> DEFINE a1 == [r EXCEPT !.payloads = Append(@, p.bytes)]
             x == [a1 EXCEPT !.decoder = p.rest]
  <2>0. Turn(r) = x
    BY <1>5 DEF Turn
  <2>1. LengthBytes <= b /\ LengthBytes + n <= b
    <3>1. n \in Nat
      BY <1>1, <1>5, <1>6
    <3> HIDE DEF n
    <3> QED BY <1>1, <1>5, <3>1
  <2>2. /\ p.bytes \in Seq(Byte) /\ DecoderOK(p.rest) /\ p.rest.buffered = b - LengthBytes - n
        /\ EncodeNiFrame(p.bytes) \o Remainder(p.rest) = Remainder(d) /\ n \in Nat
        /\ Len(p.bytes) = n /\ Number(Digits(n)) = n
    BY <1>1, <2>1, FrameIs
  <2>10. n = Number(SubSeq(Remainder(d), 1, LengthBytes))
    BY <1>1, <2>1, <1>7
  <2> HIDE DEF n, p
  <2>11. p.bytes \in Payloads
    BY <1>1, <1>5, <2>2 DEF Payloads
  <2>3. Append(r.payloads, p.bytes) \in Seq(Payloads)
    <3> DEFINE f == r.payloads
               u == p.bytes
    <3>1. f \in Seq(Payloads) /\ u \in Payloads
      BY <1>1, <2>11
    <3> HIDE DEF f, u
    <3>2. Append(f, u) \in Seq(Payloads)
      BY <3>1, AppendProperties
    <3> QED BY <3>2 DEF f, u
  <2>4. a1 \in Results /\ a1.payloads = Append(r.payloads, p.bytes) /\ a1.decoder = d
        /\ a1.invalid = r.invalid
    BY <1>1, <2>3
  <2> HIDE DEF a1
  <2>5. x \in Results /\ x.payloads = Append(r.payloads, p.bytes) /\ x.decoder = p.rest
    BY <2>2, <2>4 DEF DecoderOK
  <2> HIDE DEF x
  <2>6. Stuck(x) \/ Buffered(x) + (k + 1) <= Len(bytes)
    <3>1. Stuck(r) \/ b + k <= Len(bytes)
      BY DEF Pushing, Buffered
    <3>2. Buffered(x) = b - LengthBytes - n
      BY <2>2, <2>5 DEF Buffered
    <3>3. CASE Stuck(r)
      <4>1. Waits(Remainder(d))
        BY <1>5, <3>3 DEF Stuck
      <4>2. b < LengthBytes \/ b < LengthBytes + n
        BY <1>1, <2>10, <4>1 DEF Waits
      <4> QED BY <1>5, <4>2
    <3>4. CASE b + k <= Len(bytes)
      BY <1>1, <2>2, <3>2, <3>4
    <3> QED BY <3>1, <3>3, <3>4
  <2>7. ASSUME NEW z \in Chunks
        PROVE  Encoded(z \o x.payloads) \o Remainder(x.decoder) = Encoded(z) \o bytes
    <3> DEFINE f == r.payloads
               u == p.bytes
               en == Encoded(z \o f)
               eu == EncodeNiFrame(u)
               w == Remainder(p.rest)
    <3>1. f \in Chunks /\ u \in Seq(Byte) /\ w \in Seq(Byte)
      BY <1>1, <2>2, DecoderBytes
    <3>2. z \o x.payloads = z \o Append(f, u) /\ Remainder(x.decoder) = w
      BY <2>5
    <3>3. Encoded(z \o f) \o Remainder(d) = Encoded(z) \o bytes
      BY DEF Pushing
    <3>4. Remainder(d) = eu \o w
      BY <2>2
    <3> HIDE DEF f, u, w
    <3>5. z \o Append(f, u) = Append(z \o f, u) /\ z \o f \in Chunks
      BY <3>1, AppendLast
    <3>6. Encoded(Append(z \o f, u)) = en \o eu /\ en \in Seq(Byte) /\ eu \in Seq(Byte)
      BY <3>1, <3>5, EncodedGrows
    <3> HIDE DEF en, eu
    <3>7. (en \o eu) \o w = en \o (eu \o w)
      BY <3>1, <3>6, BytesAssociate
    <3>8. en \o (eu \o w) = Encoded(z) \o bytes
      BY <3>3, <3>4, Zenon DEF en
    <3> QED BY <3>2, <3>5, <3>6, <3>7, <3>8, Zenon
  <2>8. DecoderOK(x.decoder)
    BY <2>2, <2>5
  <2>9. x \in Pushing(bytes, k + 1)
    BY <2>5, <2>6, <2>7, <2>8 DEF Pushing
  <2> QED BY <2>0, <2>9 DEF x
<1> QED BY <1>2, <1>3, <1>4, <1>5

\* A chunk that arrives is not read yet.
LEMMA UnreadAppend ==
  ASSUME NEW s \in Chunks, NEW x \in Seq(Byte), NEW h \in Nat, h <= Len(s)
  PROVE  /\ SubSeq(Append(s, x), h + 1, Len(Append(s, x)))
              = Append(SubSeq(s, h + 1, Len(s)), x)
         /\ Append(s, x) \in Chunks /\ h <= Len(Append(s, x))
<1> DEFINE P == Seq(Byte)
           n == Len(s)
           t == Append(s, x)
           u == SubSeq(s, h + 1, n)
           v == SubSeq(t, h + 1, n + 1)
<1>1. s \in Seq(P) /\ n \in Nat /\ x \in P /\ Chunks = Seq(P)
  BY LenProperties DEF Chunks
<1> HIDE DEF P
<1>2. /\ t \in Seq(P) /\ Len(t) = n + 1 /\ t[n + 1] = x /\ \A i \in 1..n : t[i] = s[i]
  BY <1>1, AppendProperties
<1> HIDE DEF t
<1>3. u \in Seq(P) /\ Len(u) = n - h /\ \A i \in 1..(n - h) : u[i] = s[h + i]
  <2>1. n \in Int /\ n <= Len(s)
    BY <1>1
  <2>2. /\ u \in Seq(P) /\ Len(u) = (IF h <= n THEN n - h ELSE 0)
        /\ \A i \in 1..(n - h) : u[i] = s[h + i]
    <3> HIDE DEF n
    <3> QED BY <1>1, <2>1, Cut
  <2> QED BY <2>2
<1>4. v \in Seq(P) /\ Len(v) = n + 1 - h /\ \A i \in 1..(n + 1 - h) : v[i] = t[h + i]
  <2> DEFINE m == n + 1
  <2>1. m \in Int /\ m <= Len(t) /\ h <= m
    BY <1>1, <1>2
  <2> HIDE DEF n, m
  <2>2. /\ SubSeq(t, h + 1, m) \in Seq(P)
        /\ Len(SubSeq(t, h + 1, m)) = (IF h <= m THEN m - h ELSE 0)
        /\ \A i \in 1..(m - h) : SubSeq(t, h + 1, m)[i] = t[h + i]
    BY <1>2, <2>1, Cut
  <2> QED BY <1>1, <2>1, <2>2 DEF m, v
<1> HIDE DEF u, v
<1>5. /\ Append(u, x) \in Seq(P) /\ Len(Append(u, x)) = Len(u) + 1
      /\ Append(u, x)[Len(u) + 1] = x /\ \A i \in 1..Len(u) : Append(u, x)[i] = u[i]
  BY <1>1, <1>3, AppendProperties
<1> DEFINE w == Append(u, x)
<1> HIDE DEF w, n
<1>6. Len(v) = Len(w) /\ Len(v) = n + 1 - h
  BY <1>1, <1>3, <1>4, <1>5 DEF w
<1>7. ASSUME NEW i \in 1..Len(v) PROVE v[i] = w[i]
  <2>1. v[i] = t[h + i]
    BY <1>4, <1>6
  <2>2. CASE i = n + 1 - h
    <3>1. h + i = n + 1 /\ i = Len(u) + 1
      BY <1>1, <1>3, <2>2
    <3> QED BY <1>2, <1>5, <2>1, <3>1 DEF w
  <2>3. CASE i # n + 1 - h
    <3>1. h + i \in 1..n /\ i \in 1..(n - h) /\ i \in 1..Len(u)
      BY <1>1, <1>3, <1>6, <2>3
    <3> QED BY <1>2, <1>3, <1>5, <2>1, <3>1 DEF w
  <2> QED BY <2>2, <2>3
<1>8. v = w
  BY <1>4, <1>5, <1>6, <1>7, SeqEqual DEF w
<1>9. h <= n + 1
  BY <1>1 DEF n
<1> QED BY <1>1, <1>2, <1>8, <1>9 DEF t, u, v, w, n

\* The decoder once push() has queued the chunk
Fed(d, chunk) ==
  IF chunk = <<>> THEN d
  ELSE [d EXCEPT !.chunks = Append(@, chunk), !.buffered = @ + Len(chunk)]

\* It holds what it held, and the chunk.
LEMMA FedIs ==
  ASSUME NEW d, DecoderOK(d), NEW chunk \in Seq(Byte)
  PROVE  /\ DecoderOK(Fed(d, chunk))
         /\ Remainder(Fed(d, chunk)) = Remainder(d) \o chunk
<1>1. CASE chunk = <<>>
  <2> DEFINE R == Remainder(d)
  <2>1. R \in Seq(Byte)
    BY DecoderBytes
  <2> HIDE DEF R
  <2>2. R \o <<>> = R
    BY <2>1, ConcatEmptySeq
  <2> QED BY <1>1, <2>2 DEF Fed, R
<1>2. CASE chunk # <<>>
  <2> DEFINE c == Unread(d)
             B == FlattenSeq(c)
             o == d.offset
             b == d.buffered
             l == Len(chunk)
             s == Append(d.chunks, chunk)
             e1 == [d EXCEPT !.chunks = s]
             e == [e1 EXCEPT !.buffered = @ + l]
  <2>1. /\ d \in Decoders /\ d.chunks \in Chunks /\ d.head \in Nat /\ d.head <= Len(d.chunks)
        /\ BeginsAt(c, o) /\ o + b = Len(B) /\ o \in Nat /\ b \in Nat
    BY DEF DecoderOK, Decoders
  <2>2. l \in Nat /\ l > 0
    BY <1>2, LenProperties, EmptySeq
  <2>3. Fed(d, chunk) = e
    BY <1>2 DEF Fed
  <2>4. /\ SubSeq(s, d.head + 1, Len(s)) = Append(c, chunk)
        /\ s \in Chunks /\ d.head <= Len(s)
    BY <2>1, UnreadAppend DEF Unread
  <2> HIDE DEF s, l, c, B
  <2>5. e1 \in Decoders /\ e1.chunks = s /\ e1.head = d.head /\ e1.offset = o /\ e1.buffered = b
    BY <2>1, <2>4 DEF Decoders
  <2> HIDE DEF e1
  <2>6. e \in Decoders /\ e.chunks = s /\ e.head = d.head /\ e.offset = o /\ e.buffered = b + l
    BY <2>1, <2>2, <2>5 DEF Decoders
  <2> HIDE DEF e, o, b
  <2>7. Unread(e) = Append(c, chunk)
    BY <2>4, <2>6 DEF Unread
  <2>8. c \in Chunks /\ B \in Seq(Byte) /\ Len(B) \in Nat
    <3>1. c \in Chunks
      BY <2>1 DEF BeginsAt
    <3>2. B \in Seq(Byte)
      BY <3>1, FlattenType DEF B
    <3> QED BY <3>1, <3>2, LenProperties
  <2>9. FlattenSeq(Append(c, chunk)) = B \o chunk
    BY <2>8, FlattenAppend DEF B
  <2>10. /\ Append(c, chunk) \in Chunks /\ Len(Append(c, chunk)) = Len(c) + 1 /\ Len(c) \in Nat
         /\ Append(c, chunk)[Len(c) + 1] = chunk
         /\ \A i \in 1..Len(c) : Append(c, chunk)[i] = c[i]
    BY <2>8, AppendProperties, LenProperties DEF Chunks
  <2>11. BeginsAt(Append(c, chunk), o)
    <3> DEFINE q == Append(c, chunk)
    <3> HIDE DEF q
    <3>1. /\ q \in Chunks /\ Len(q) = Len(c) + 1 /\ Len(c) \in Nat
          /\ q[Len(c) + 1] = chunk /\ \A i \in 1..Len(c) : q[i] = c[i]
      BY <2>10 DEF q
    <3>2. /\ o \in Nat /\ \A i \in 1..Len(c) : 0 < Len(c[i])
          /\ IF Len(c) = 0 THEN o = 0 ELSE o < Len(c[1])
      BY <2>1 DEF BeginsAt
    <3>3. \A i \in 1..Len(q) : 0 < Len(q[i])
      BY <2>2, <3>1, <3>2 DEF l
    <3>4. o < Len(q[1])
      <4>1. CASE Len(c) = 0
        <5>1. q[1] = chunk
          BY <3>1, <4>1
        <5> QED BY <2>2, <3>2, <4>1, <5>1 DEF l
      <4>2. CASE Len(c) # 0
        <5>1. q[1] = c[1]
          BY <3>1, <4>2
        <5> QED BY <3>2, <4>2, <5>1
      <4> QED BY <4>1, <4>2
    <3>5. Len(q) # 0
      BY <3>1
    <3> QED BY <3>1, <3>2, <3>3, <3>4, <3>5 DEF BeginsAt, q
  <2>12. Len(B \o chunk) = Len(B) + l /\ o + (b + l) = Len(B) + l
    <3>1. Len(B \o chunk) = Len(B) + l
      BY <2>8, ConcatProperties DEF l
    <3> QED BY <2>1, <2>2, <2>8, <3>1
  <2>13. DecoderOK(e)
    <3>1. e.head <= Len(e.chunks)
      BY <2>4, <2>6
    <3>2. BeginsAt(Unread(e), e.offset)
      BY <2>6, <2>7, <2>11
    <3>3. FlattenSeq(Unread(e)) = B \o chunk
      BY <2>7, <2>9
    <3>4. e.offset + e.buffered = Len(FlattenSeq(Unread(e)))
      BY <2>6, <2>12, <3>3
    <3> QED BY <2>6, <3>1, <3>2, <3>4 DEF DecoderOK
  <2>14. Remainder(e) = SubSeq(B \o chunk, o + 1, Len(B) + l)
    <3>1. e.offset = o /\ e.offset + e.buffered = Len(B) + l
      BY <2>6, <2>12
    <3> QED BY <2>7, <2>9, <3>1, Zenon DEF Remainder
  <2>15. SubSeq(B \o chunk, o + 1, Len(B) + l) = SubSeq(B, o + 1, Len(B)) \o SubSeq(chunk, 1, l)
    <3>1. o <= Len(B) /\ l <= Len(chunk) /\ o \in Nat
      BY <2>1, <2>2, <2>8 DEF l
    <3> HIDE DEF l
    <3> QED BY <2>2, <2>8, <3>1, CutAcross
  <2>16. SubSeq(chunk, 1, l) = chunk
    BY SubSeqFull DEF l
  <2>17. SubSeq(B, o + 1, Len(B)) = Remainder(d)
    BY <2>1, Zenon DEF Remainder, o, b, B, c
  <2>18. Remainder(e) = Remainder(d) \o chunk
    BY <2>14, <2>15, <2>16, <2>17, Zenon
  <2> QED BY <2>3, <2>13, <2>18 DEF e
<1> QED BY <1>1, <1>2

\* push(): the records that a chunk completes, and what is left, are the
\* bytes there were and the chunk; a peer cannot make it keep a whole record.
LEMMA PushIs ==
  ASSUME NEW d, DecoderOK(d), NEW chunk \in Seq(Byte)
  PROVE  LET r == Push(d, chunk) IN
         /\ r.payloads \in Seq(Payloads) /\ r.invalid \in BOOLEAN
         /\ DecoderOK(r.decoder) /\ Stuck(r)
         /\ \A z \in Chunks : Encoded(z \o r.payloads) \o Remainder(r.decoder)
                                = Encoded(z) \o (Remainder(d) \o chunk)
<1> DEFINE fed == Fed(d, chunk)
           N == fed.buffered + 1
           start == [decoder |-> fed, payloads |-> <<>>, invalid |-> FALSE]
           Is(f) == f = [k \in 0..N |-> IF k = 0 THEN start ELSE Turn(f[k - 1])]
           f == CHOOSE f : Is(f)
           bytes == Remainder(fed)
           G(k) == Pushing(bytes, k)
<1>1. DecoderOK(fed) /\ bytes = Remainder(d) \o chunk
  BY FedIs
<1>2. Push(d, chunk) = f[N]
  BY DEF Push, Fed
<1> HIDE DEF fed, f
<1>3. fed.buffered \in Nat /\ N \in Nat /\ bytes \in Seq(Byte) /\ Len(bytes) = fed.buffered
  <2>1. fed \in Decoders
    BY <1>1 DEF DecoderOK
  <2>2. fed.buffered \in Nat
    BY <2>1 DEF Decoders
  <2>3. bytes \in Seq(Byte) /\ Len(bytes) = fed.buffered
    BY <1>1, DecoderBytes
  <2> QED BY <2>2, <2>3
<1> HIDE DEF bytes
<1>4. start \in G(0)
  <2>1. <<>> \in Seq(Payloads)
    BY EmptySeq
  <2>2. start \in [decoder : Decoders, payloads : Seq(Payloads), invalid : BOOLEAN]
    <3>1. fed \in Decoders
      BY <1>1 DEF DecoderOK
    <3> HIDE DEF fed
    <3> QED BY <2>1, <3>1
  <2>3. Buffered(start) + 0 <= Len(bytes)
    BY <1>3 DEF Buffered
  <2>4. start.decoder = fed /\ start.payloads = <<>>
    OBVIOUS
  <2> HIDE DEF start
  <2>5. ASSUME NEW z \in Chunks
        PROVE  Encoded(z \o start.payloads) \o Remainder(start.decoder) = Encoded(z) \o bytes
    <3>1. z \o <<>> = z
      BY ConcatEmptySeq DEF Chunks
    <3>2. Remainder(start.decoder) = bytes
      BY <2>4, Zenon DEF bytes
    <3> QED BY <2>4, <3>1, <3>2, Zenon
  <2> QED BY <1>1, <2>2, <2>3, <2>4, <2>5 DEF Pushing
<1>5. ASSUME NEW k \in 1..N, NEW r \in G(k - 1) PROVE Turn(r) \in G(k)
  <2>1. k - 1 \in Nat /\ (k - 1) + 1 = k
    OBVIOUS
  <2>2. Turn(r) \in Pushing(bytes, (k - 1) + 1)
    BY <1>3, <2>1, TurnGoesOn
  <2> QED BY <2>1, <2>2
<1> DEFINE S == [k \in 0..N |-> G(k)]
           F == [k \in 1..N |-> [r \in G(k - 1) |-> Turn(r)]]
<1> HIDE DEF G, start, N
<1>6. ASSUME NEW k \in 1..N
      PROVE  F[k] \in [S[k - 1] -> S[k]] /\ \A r \in S[k - 1] : F[k][r] = Turn(r)
  <2>1. k - 1 \in 0..N /\ k \in 0..N
    BY <1>3
  <2>2. S[k - 1] = G(k - 1) /\ S[k] = G(k) /\ F[k] = [r \in G(k - 1) |-> Turn(r)]
    BY <2>1
  <2> HIDE DEF S, F
  <2> QED BY <1>5, <2>2
<1>7. start \in S[0] /\ \A k \in 0..N : S[k] = G(k)
  BY <1>3, <1>4
<1> HIDE DEF S, F
<1>8. Steps(N, S, F)
  BY <1>6 DEF Steps
<1>9. PICK u : Unwinds(u, N, S, F, start)
  BY <1>3, <1>7, <1>8, Recursion
<1>10. Is(u)
  <2>1. ASSUME NEW k \in 0..N PROVE u[k] = IF k = 0 THEN start ELSE Turn(u[k - 1])
    <3>1. CASE k = 0
      BY <1>9, <3>1 DEF Unwinds
    <3>2. CASE k # 0
      <4>1. k \in 1..N /\ k - 1 \in 0..N
        BY <1>3, <3>2
      <4>2. u[k] = F[k][u[k - 1]] /\ u[k - 1] \in S[k - 1]
        BY <1>9, <4>1 DEF Unwinds
      <4> QED BY <1>6, <3>2, <4>1, <4>2
    <3> QED BY <3>1, <3>2
  <2>2. u = [k \in 0..N |-> u[k]]
    BY <1>9 DEF Unwinds
  <2> QED BY <2>1, <2>2, Zenon
<1>11. Is(f)
  BY <1>10 DEF f
<1> DEFINE T == {k \in Nat : k <= N => f[k] \in G(k)}
<1>12. 0 \in T
  <2>1. 0 \in 0..N
    BY <1>3
  <2> QED BY <1>4, <1>11, <2>1
<1>13. ASSUME NEW k \in 0..(N - 1), k \in T PROVE k + 1 \in T
  <2>1. k \in Nat /\ k + 1 \in 1..N /\ (k + 1) - 1 = k /\ k + 1 # 0 /\ k + 1 \in 0..N /\ k <= N
    BY <1>3
  <2>2. f[k + 1] = Turn(f[k])
    BY <1>11, <2>1
  <2>3. f[k] \in G((k + 1) - 1)
    BY <1>13, <2>1
  <2>4. Turn(f[k]) \in G(k + 1)
    BY <1>5, <2>1, <2>3
  <2> QED BY <2>1, <2>2, <2>4
<1> HIDE DEF T, Is
<1>14. f[N] \in G(N)
  <2>1. 0..N \subseteq T
    BY <1>3, <1>12, <1>13, BoundedInduction
  <2> QED BY <1>3, <2>1 DEF T
<1> DEFINE end == f[N]
<1> HIDE DEF end
<1>15. /\ end.payloads \in Seq(Payloads) /\ end.invalid \in BOOLEAN /\ DecoderOK(end.decoder)
       /\ Stuck(end) \/ Buffered(end) + N <= Len(bytes)
       /\ \A z \in Chunks : Encoded(z \o end.payloads) \o Remainder(end.decoder)
                              = Encoded(z) \o bytes
  BY <1>14 DEF Pushing, G, end
<1>16. Stuck(end)
  <2>1. Buffered(end) \in Nat
    BY <1>15 DEF DecoderOK, Decoders, Buffered
  <2>2. ~(Buffered(end) + N <= Len(bytes))
    BY <1>3, <2>1 DEF N
  <2> QED BY <1>15, <2>2
<1>17. \A z \in Chunks : Encoded(z \o end.payloads) \o Remainder(end.decoder)
                           = Encoded(z) \o (Remainder(d) \o chunk)
  BY <1>1, <1>15, Zenon DEF bytes
<1>18. Push(d, chunk) = end
  BY <1>2 DEF end
<1> QED BY <1>15, <1>16, <1>17, <1>18

(***************************************************************************)
(* The transport.  Along with what is to be shown: a transport exists only *)
(* once the setup ended, the socket is paused for the queue's sake alone,  *)
(* and the tunnel took bytes the socket had emitted.                       *)
(***************************************************************************)
SetupRuns == setup \in {"connecting", "handshake", "handoff"}
\* What exists at which point of the setup, and why the socket is paused
InStages ==
  /\ SetupRuns => ni.state = Nothing /\ received = <<>>
  /\ setup = "connecting" => socket.read = 0 /\ ~socket.paused /\ tunnel = NoTunnel
  /\ socket.state = "connecting" => setup = "connecting"
  /\ ni.state = Nothing => \A s \in Sends : sends[s] = "idle"
  /\ closing # Nothing => ni.state \in {"closing", "closed"}
  /\ ni.state = "open" => setup = "done" /\ (ni.pausedForQueue <=> ni.queue # <<>>)
  /\ tunnel.taken <= socket.read

\* What came out of the decoder are records it may hand out, and no more can
\* be read from what is in it.
Parsed ==
  ni.state = "open" =>
    received \o ni.queue \in Seq(Payloads) /\ Waits(Remainder(ni.decoder))

\* The inductive invariant
TransportIndInv ==
  /\ TransportTypeOK /\ Bounded /\ HeldWhileQueued /\ NothingLeaks /\ BytesAccounted
  /\ InStages /\ DecoderOK(ni.decoder) /\ Parsed

\* Cuts of a queue join like cuts of bytes.
LEMMA CutJoinChunks ==
  ASSUME NEW s \in Chunks, NEW a \in Nat, NEW b \in Nat, NEW c \in Nat,
         a <= b, b <= c, c <= Len(s)
  PROVE  SubSeq(s, a + 1, b) \o SubSeq(s, b + 1, c) = SubSeq(s, a + 1, c)
<1>1. Len(s) \in Nat /\ s \in Seq(Seq(Byte))
  BY LenProperties DEF Chunks
<1>2. a + 1 \in 1..(Len(s) + 1) /\ b \in ((a + 1) - 1)..Len(s) /\ c \in b..Len(s)
  BY <1>1
<1> QED BY <1>1, <1>2, ConcatAdjacentSubSeq

\* The bytes of a queue: none if it is empty, fewer without its first record
LEMMA QueuedType ==
  ASSUME NEW q \in Chunks
  PROVE  QueuedBytes(q) \in Nat /\ Len(q) \in Nat
<1>1. FlattenSeq(q) \in Seq(Byte)
  BY FlattenType
<1> QED BY <1>1, LenProperties DEF QueuedBytes, Chunks

LEMMA NoneQueued == Len(<<>>) = 0 /\ QueuedBytes(<<>>) = 0 /\ <<>> \in Chunks
  BY FlattenEmpty, EmptySeq DEF QueuedBytes, Chunks

\* Without its first record a queue is shorter and holds no more bytes.
LEMMA TailQueued ==
  ASSUME NEW q \in Chunks, q # <<>>
  PROVE  /\ Tail(q) \in Chunks /\ Head(q) \in Seq(Byte)
         /\ Len(Tail(q)) <= Len(q) /\ QueuedBytes(Tail(q)) <= QueuedBytes(q)
         /\ \A z \in Chunks : Append(z, Head(q)) \o Tail(q) = z \o q
<1> DEFINE P == Seq(Byte)
           n == Len(q)
           F == FlattenSeq(q)
<1>1. q \in Seq(P) /\ n \in Nat /\ n > 0 /\ Chunks = Seq(P) /\ F \in Seq(Byte) /\ Len(F) \in Nat
  <2>1. F \in Seq(Byte)
    BY FlattenType
  <2> QED BY <2>1, LenProperties, EmptySeq DEF Chunks
<1> HIDE DEF P, F
<1>2. Tail(q) \in Seq(P) /\ Head(q) \in P /\ Len(Tail(q)) = n - 1 /\ <<Head(q)>> \o Tail(q) = q
  BY <1>1, HeadTailProperties
<1>3. Tail(q) = SubSeq(q, 1 + 1, n)
  <2>1. Tail(q) = SubSeq(q, 2, Len(q))
    BY <1>1, TailIsSubSeq
  <2> QED BY <2>1
<1>4. QueuedBytes(Tail(q)) <= QueuedBytes(q)
  <2>1. PICK g : Joins(g, q)
    BY JoinsExist DEF Chunks
  <2>2. 1 \in 0..Len(q)
    BY <1>1
  <2>3. FlattenSeq(SubSeq(q, 1 + 1, Len(q))) = SubSeq(F, Len(g[1]) + 1, Len(F))
    BY <2>1, <2>2, FlattenDrop DEF F
  <2> DEFINE a == Len(g[1])
  <2>4. a \in Nat
    <3>1. g[1] \in Seq(Byte)
      BY <2>1, <2>2 DEF Joins
    <3> QED BY <3>1, LenProperties
  <2> HIDE DEF a
  <2>5. Len(SubSeq(F, a + 1, Len(F))) = IF a <= Len(F) THEN Len(F) - a ELSE 0
    <3> DEFINE m == Len(F)
    <3>1. m \in Int /\ m <= Len(F)
      BY <1>1
    <3> HIDE DEF m
    <3>2. Len(SubSeq(F, a + 1, m)) = IF a <= m THEN m - a ELSE 0
      BY <1>1, <2>4, <3>1, Cut
    <3> QED BY <3>2 DEF m
  <2>6. QueuedBytes(Tail(q)) = Len(SubSeq(F, a + 1, Len(F)))
    BY <1>3, <2>3, Zenon DEF QueuedBytes, a
  <2>7. QueuedBytes(q) = Len(F)
    BY DEF QueuedBytes, F
  <2> QED BY <1>1, <2>4, <2>5, <2>6, <2>7
<1>5. ASSUME NEW z \in Chunks PROVE Append(z, Head(q)) \o Tail(q) = z \o q
  <2>1. Append(z, Head(q)) = z \o <<Head(q)>> /\ <<Head(q)>> \in Seq(P) /\ z \in Seq(P)
    BY <1>1, <1>2, AppendIsConcat
  <2>2. (z \o <<Head(q)>>) \o Tail(q) = z \o (<<Head(q)>> \o Tail(q))
    BY <1>2, <2>1, ConcatAssociative
  <2> QED BY <1>2, <2>1, <2>2, Zenon
<1>6. Len(Tail(q)) <= Len(q)
  BY <1>1, <1>2
<1> QED BY <1>1, <1>2, <1>4, <1>5, <1>6 DEF P

(***************************************************************************)
(* What an event makes of the transport, its socket and the history        *)
(***************************************************************************)
Seen == [ni : Transports, socket : Sockets, received : Chunks]

\* Closed, or on the way there: nothing is kept, and the socket is given up.
Ended(n, s) ==
  /\ n.state \in {"closing", "closed"} /\ n.queue = <<>> /\ n.pending = Nothing
  /\ n.decoder = EmptyDecoder /\ s.state # "connecting"
  /\ n.state = "closed" => s.state \notin {"up", "ending"}

\* A new decoder is well.
LEMMA EmptyDecoderOK ==
  /\ DecoderOK(EmptyDecoder) /\ EmptyDecoder.buffered = 0
  /\ Remainder(EmptyDecoder) = <<>>
<1> DEFINE e == EmptyDecoder
<1>1. e \in Decoders /\ e.chunks = <<>> /\ e.head = 0 /\ e.offset = 0 /\ e.buffered = 0
  BY EmptySeq DEF EmptyDecoder, Decoders, Chunks
<1> HIDE DEF e
<1>2. <<>> \in Chunks /\ Len(<<>>) = 0
  BY EmptySeq DEF Chunks
<1>3. Unread(e) = <<>>
  <2>1. Unread(e) = SubSeq(<<>>, 0 + 1, 0)
    BY <1>1, <1>2 DEF Unread
  <2> QED BY <2>1, CutNone
<1>4. FlattenSeq(Unread(e)) = <<>>
  BY <1>3, FlattenEmpty
<1>5. DecoderOK(e)
  BY <1>1, <1>2, <1>3, <1>4 DEF DecoderOK, BeginsAt
<1>6. Remainder(e) = <<>>
  <2>1. Remainder(e) = SubSeq(<<>>, 0 + 1, 0)
    BY <1>1, <1>4 DEF Remainder
  <2> QED BY <2>1, CutNone
<1> QED BY <1>1, <1>5, <1>6 DEF e

\* #fail: the transport is closed, what it kept is gone, its socket destroyed.
LEMMA FailedIs ==
  ASSUME NEW t \in Seen, NEW code \in TerminalCodes,
         t.ni.state = "closed" => Ended(t.ni, t.socket)
  PROVE  LET f == Failed(t, code) IN
         /\ f \in Seen /\ Ended(f.ni, f.socket) /\ f.ni.state = "closed"
         /\ f.socket.read = t.socket.read /\ f.received = t.received
         /\ f.socket.ended = t.socket.ended
<1>1. CASE t.ni.state = "closed"
  BY <1>1 DEF Failed
<1>2. CASE t.ni.state # "closed"
  <2> DEFINE n == Wiped(t, code)
             s == Destroyed(t.socket)
             a1 == [t EXCEPT !.ni = n]
             f == [a1 EXCEPT !.socket = s]
  <2>1. Failed(t, code) = f
    BY <1>2 DEF Failed
  <2>2. /\ n \in Transports /\ n.state = "closed" /\ n.queue = <<>> /\ n.pending = Nothing
        /\ n.decoder = EmptyDecoder
    <3> DEFINE e == IF t.ni.error = Nothing THEN code ELSE t.ni.error
               p == t.ni.pausedForQueue
    <3>1. e \in {Nothing} \cup TerminalCodes /\ p \in BOOLEAN
      BY DEF Seen, Transports
    <3>2. n = [[[NoTransport EXCEPT !.state = "closed"] EXCEPT !.error = e]
                 EXCEPT !.pausedForQueue = p]
      BY DEF Wiped
    <3> HIDE DEF e, p, n
    <3>3. EmptyDecoder \in Decoders /\ <<>> \in Chunks
      BY EmptyDecoderOK, NoneQueued DEF DecoderOK
    <3>4. n = [state |-> "closed", error |-> e, pending |-> Nothing, queue |-> <<>>,
               pausedForQueue |-> p, decoder |-> EmptyDecoder]
      BY <3>2 DEF NoTransport
    <3> QED BY <3>1, <3>3, <3>4 DEF Transports
  <2>3. /\ s \in Sockets /\ s.state \in {"destroyed", "closed"} /\ s.read = t.socket.read
        /\ s.ended = t.socket.ended
    BY DEF Seen, Sockets, Destroyed
  <2> HIDE DEF n, s
  <2>4. f \in Seen /\ f.ni = n /\ f.socket = s /\ f.received = t.received
    BY <2>2, <2>3 DEF Seen
  <2> HIDE DEF f
  <2>5. Ended(f.ni, f.socket)
    BY <2>2, <2>3, <2>4 DEF Ended
  <2> QED BY <2>1, <2>2, <2>3, <2>4, <2>5
<1> QED BY <1>1, <1>2

\* A transport that is open has queued what it holds the stream back for, and
\* accounts for the bytes that came so far.
OpenWell(n, s, r, bytes) ==
  /\ n.state = "open" /\ DecoderOK(n.decoder)
  /\ Len(n.queue) <= MaxQueuedFrames /\ QueuedBytes(n.queue) <= MaxQueuedBytes
  /\ n.decoder.buffered < LengthBytes + MaxPayloadLength
  /\ (n.pausedForQueue <=> n.queue # <<>>)
  /\ Encoded(r \o n.queue) \o Remainder(n.decoder) = bytes
  /\ r \o n.queue \in Seq(Payloads) /\ Waits(Remainder(n.decoder))

LEMMA ChunksAssociate ==
  ASSUME NEW u \in Chunks, NEW v \in Chunks, NEW w \in Chunks
  PROVE  (u \o v) \o w = u \o (v \o w)
<1> DEFINE P == Seq(Byte)
<1>1. Chunks = Seq(P)
  BY DEF Chunks
<1> HIDE DEF P
<1> QED BY <1>1, ConcatAssociative

\* #enqueue: the records that nobody waits for are queued, or the limit is
\* passed and the transport fails.
LEMMA QueuedIs ==
  ASSUME NEW t \in Seen, t.ni.queue = <<>>, ~t.ni.pausedForQueue, NEW extra \in Chunks
  PROVE  LET u == Queued(t, extra) IN
         /\ u \in Seen /\ u.ni.queue = extra /\ (u.ni.pausedForQueue <=> extra # <<>>)
         /\ u.ni.state = t.ni.state /\ u.ni.decoder = t.ni.decoder
         /\ u.received = t.received /\ u.socket.state = t.socket.state
         /\ u.socket.read = t.socket.read /\ u.socket.ended = t.socket.ended
         /\ u.socket.paused = (t.socket.paused \/ extra # <<>>)
<1> DEFINE more == extra # <<>>
           q == t.ni.queue \o extra
           p == t.ni.pausedForQueue \/ more
           held == t.socket.paused \/ (more /\ ~t.ni.pausedForQueue)
           a1 == [t EXCEPT !.ni.queue = q]
           a2 == [a1 EXCEPT !.ni.pausedForQueue = p]
           u == [a2 EXCEPT !.socket.paused = held]
<1>1. Queued(t, extra) = u
  BY DEF Queued
<1>2. /\ q = extra /\ p \in BOOLEAN /\ (p <=> more) /\ held \in BOOLEAN
      /\ held = (t.socket.paused \/ more)
  <2>1. <<>> \o extra = extra
    BY ConcatEmptySeq DEF Chunks
  <2>2. t.socket.paused \in BOOLEAN
    BY DEF Seen, Sockets
  <2> QED BY <2>1, <2>2
<1> HIDE DEF q, p, held
<1>3. /\ a1 \in Seen /\ a1.ni.queue = extra /\ a1.ni.state = t.ni.state
      /\ a1.ni.decoder = t.ni.decoder /\ a1.received = t.received /\ a1.socket = t.socket
  BY <1>2 DEF Seen, Transports
<1> HIDE DEF a1
<1>4. /\ a2 \in Seen /\ a2.ni.queue = extra /\ a2.ni.state = t.ni.state
      /\ a2.ni.decoder = t.ni.decoder /\ a2.received = t.received /\ a2.socket = t.socket
      /\ (a2.ni.pausedForQueue <=> more)
  BY <1>2, <1>3 DEF Seen, Transports
<1> HIDE DEF a2
<1>5. /\ u \in Seen /\ u.ni = a2.ni /\ u.received = t.received
      /\ u.socket.state = t.socket.state /\ u.socket.read = t.socket.read
      /\ u.socket.ended = t.socket.ended /\ u.socket.paused = held
  BY <1>2, <1>4 DEF Seen, Sockets
<1> HIDE DEF u
<1> QED BY <1>1, <1>2, <1>4, <1>5

\* One record at most is handed out.
HandsOut(t, u) ==
  \/ u.received = t.received
  \/ u.ni.state = "open" /\ \E x \in Seq(Byte) : u.received = Append(t.received, x)

\* #onData, when no record waits: it fails, or adds the chunk to the account.
LEMMA OnDataIs ==
  ASSUME NEW t \in Seen, t.ni.state = "open", t.ni.queue = <<>>,
         ~t.ni.pausedForQueue, DecoderOK(t.ni.decoder), NEW chunk \in Seq(Byte),
         t.received \in Seq(Payloads)
  PROVE  LET u == OnData(t, chunk) IN
         \/ u = Failed(t, "NI_PROTOCOL_ERROR")
         \/ /\ u \in Seen
            /\ OpenWell(u.ni, u.socket, u.received,
                        Encoded(t.received) \o (Remainder(t.ni.decoder) \o chunk))
            /\ u.socket.state = t.socket.state /\ u.socket.read = t.socket.read
            /\ u.socket.ended = t.socket.ended
            /\ u.socket.paused = (t.socket.paused \/ u.ni.queue # <<>>)
            /\ HandsOut(t, u) /\ (t.ni.pending = Nothing => u.received = t.received)
<1> DEFINE r == Push(t.ni.decoder, chunk)
           ps == r.payloads
           n == Len(ps)
           direct == IF t.ni.pending = Nothing THEN 0 ELSE AtMost(1, n)
           extra == SubSeq(ps, direct + 1, n)
           first == SubSeq(ps, 1, direct)
           pending == IF direct = 1 THEN Nothing ELSE t.ni.pending
           after == Encoded(t.received) \o (Remainder(t.ni.decoder) \o chunk)
           more == extra # <<>>
           dec == r.decoder
           a1 == [t EXCEPT !.ni.decoder = dec]
           a2 == [a1 EXCEPT !.ni.pending = pending]
           a3 == [a2 EXCEPT !.received = t.received \o first]
           u == Queued(a3, extra)
<1>1. /\ ps \in Chunks /\ DecoderOK(dec) /\ Stuck(r) /\ r.invalid \in BOOLEAN
      /\ ps \in Seq(Payloads)
      /\ \A z \in Chunks : Encoded(z \o ps) \o Remainder(dec)
                             = Encoded(z) \o (Remainder(t.ni.decoder) \o chunk)
  <2>1. /\ DecoderOK(dec) /\ Stuck(r) /\ r.invalid \in BOOLEAN /\ ps \in Seq(Payloads)
        /\ \A z \in Chunks : Encoded(z \o ps) \o Remainder(dec)
                               = Encoded(z) \o (Remainder(t.ni.decoder) \o chunk)
    BY PushIs
  <2> HIDE DEF ps
  <2>2. ps \in Chunks
    BY <2>1, PayloadChunks
  <2> QED BY <2>1, <2>2
<1>2. OnData(t, chunk) = IF r.invalid \/ ~Fits(t, extra) THEN Failed(t, "NI_PROTOCOL_ERROR")
                         ELSE u
  BY DEF OnData
<1> HIDE DEF r
<1>3. n \in Nat /\ direct \in Nat /\ direct <= n /\ 0 <= direct
  <2>1. n \in Nat
    BY <1>1, LenProperties DEF Chunks
  <2> HIDE DEF n
  <2> QED BY <2>1 DEF AtMost
<1>9. direct \in {0, 1} /\ (t.ni.pending = Nothing => direct = 0)
  <2> HIDE DEF n
  <2> QED BY <1>3 DEF AtMost
<1> HIDE DEF direct, n, ps
<1>4. first \in Chunks /\ extra \in Chunks /\ first \o extra = ps
  <2>1. ps \in Seq(Seq(Byte)) /\ n \in Int /\ n <= Len(ps) /\ direct \in Int /\ direct <= Len(ps)
        /\ Len(ps) = n /\ 0 \in Nat /\ 0 + 1 = 1
    BY <1>1, <1>3 DEF n, Chunks
  <2>2. SubSeq(ps, 0 + 1, direct) \in Chunks
    BY <2>1, Cut DEF Chunks
  <2>3. extra \in Chunks
    BY <1>3, <2>1, Cut DEF Chunks
  <2>4. SubSeq(ps, 0 + 1, direct) \o SubSeq(ps, direct + 1, n) = SubSeq(ps, 0 + 1, n)
    BY <1>1, <1>3, <2>1, CutJoinChunks
  <2>5. SubSeq(ps, 1, n) = ps
    BY <2>1, SubSeqFull DEF n
  <2> QED BY <2>1, <2>2, <2>3, <2>4, <2>5, Zenon
<1>10. /\ direct = 0 => first = <<>>
       /\ direct = 1 => ps[1] \in Seq(Byte) /\ first = <<ps[1]>>
  <2>1. ps \in Seq(Seq(Byte)) /\ direct <= Len(ps) /\ Len(ps) \in Nat
    BY <1>1, <1>3 DEF n, Chunks
  <2>2. direct = 0 => first = <<>>
    BY <2>1
  <2>3. ASSUME direct = 1 PROVE ps[1] \in Seq(Byte) /\ first = <<ps[1]>>
    <3> DEFINE P == Seq(Byte)
    <3>1. ps \in Seq(P) /\ 1 <= Len(ps)
      BY <2>1, <2>3
    <3> HIDE DEF P
    <3>2. ps[1] \in P /\ SubSeq(ps, 1, 1) = <<ps[1]>>
      BY <3>1, CutOne
    <3> QED BY <2>3, <3>2 DEF P
  <2> QED BY <2>2, <2>3
<1>5. pending \in {Nothing, "timed", "untimed"}
  BY DEF Seen, Transports
<1>6. dec \in Decoders
  BY <1>1 DEF DecoderOK
<1> HIDE DEF pending, first, extra, more, dec
<1>7. CASE r.invalid \/ ~Fits(t, extra)
  BY <1>2, <1>7
<1>8. CASE ~r.invalid /\ Fits(t, extra)
  <2>1. OnData(t, chunk) = u
    BY <1>2, <1>8
  <2>2. /\ a1 \in Seen /\ a1.ni.decoder = dec /\ a1.ni.state = "open" /\ a1.ni.queue = <<>>
        /\ ~a1.ni.pausedForQueue /\ a1.received = t.received /\ a1.socket = t.socket
    BY <1>6 DEF Seen, Transports
  <2> HIDE DEF a1
  <2>3. /\ a2 \in Seen /\ a2.ni.decoder = dec /\ a2.ni.state = "open" /\ a2.ni.queue = <<>>
        /\ ~a2.ni.pausedForQueue /\ a2.received = t.received /\ a2.socket = t.socket
    BY <1>5, <2>2 DEF Seen, Transports
  <2> HIDE DEF a2
  <2>4. t.received \o first \in Chunks /\ t.received \in Chunks
    BY <1>4, ChunksJoin DEF Seen
  <2> DEFINE h == t.received \o first
  <2>5. a3 = [a2 EXCEPT !.received = h]
    OBVIOUS
  <2> HIDE DEF h
  <2>6. /\ a3 \in Seen /\ a3.ni.decoder = dec /\ a3.ni.state = "open" /\ a3.ni.queue = <<>>
        /\ ~a3.ni.pausedForQueue /\ a3.received = h /\ a3.socket = t.socket
    <3> HIDE DEF a3
    <3> QED BY <2>3, <2>4, <2>5 DEF Seen, h
  <2> HIDE DEF a3
  <2>7. <<>> \o extra = extra
    BY <1>4, ConcatEmptySeq DEF Chunks
  <2>8. /\ u \in Seen /\ u.ni.queue = extra /\ (u.ni.pausedForQueue <=> more)
        /\ u.ni.state = "open" /\ u.ni.decoder = dec /\ u.received = h
        /\ u.socket.state = t.socket.state /\ u.socket.read = t.socket.read
        /\ u.socket.ended = t.socket.ended
        /\ u.socket.paused = (t.socket.paused \/ u.ni.queue # <<>>)
    BY <1>4, <2>6, QueuedIs DEF more
  <2> HIDE DEF u
  <2>14. /\ Len(extra) <= MaxQueuedFrames /\ QueuedBytes(extra) <= MaxQueuedBytes
    <3>1. t.ni.queue \o extra = extra /\ Len(t.ni.queue) = 0 /\ Len(extra) \in Nat
      BY <1>4, <2>7, NoneQueued, QueuedType
    <3>2. /\ Len(t.ni.queue) + Len(extra) <= MaxQueuedFrames
          /\ QueuedBytes(t.ni.queue \o extra) <= MaxQueuedBytes
      BY <1>8 DEF Fits
    <3> QED BY <3>1, <3>2
  <2>15. dec.buffered < LengthBytes + MaxPayloadLength
    <3>1. Waits(Remainder(dec))
      BY <1>1, <1>8 DEF Stuck, dec
    <3> QED BY <1>1, <3>1, WaitsShort
  <2>18. Waits(Remainder(dec))
    BY <1>1, <1>8 DEF Stuck, dec
  <2>16. Encoded(h \o extra) \o Remainder(dec) = after
    <3>1. (t.received \o first) \o extra = t.received \o (first \o extra)
      BY <1>4, <2>4, ChunksAssociate
    <3>2. Encoded(t.received \o ps) \o Remainder(dec) = after
      BY <1>1, <2>4
    <3> QED BY <1>4, <3>1, <3>2, Zenon DEF h
  <2>19. h \o extra \in Seq(Payloads)
    <3>1. (t.received \o first) \o extra = t.received \o (first \o extra)
      BY <1>4, <2>4, ChunksAssociate
    <3>2. t.received \o ps \in Seq(Payloads)
      BY <1>1, ConcatProperties
    <3> QED BY <1>4, <3>1, <3>2, Zenon DEF h
  <2>20. /\ h = t.received \/ \E x \in Seq(Byte) : h = Append(t.received, x)
         /\ t.ni.pending = Nothing => h = t.received
    <3>1. CASE direct = 0
      <4>1. t.received \o <<>> = t.received
        BY <2>4, ConcatEmptySeq DEF Chunks
      <4> QED BY <1>10, <3>1, <4>1 DEF h
    <3>2. CASE direct = 1
      <4> DEFINE x == ps[1]
      <4>1. x \in Seq(Byte) /\ first = <<x>>
        BY <1>10, <3>2
      <4> HIDE DEF x
      <4>2. t.received \o <<x>> = Append(t.received, x)
        BY <2>4, <4>1 DEF Chunks
      <4>3. t.ni.pending # Nothing
        BY <1>9, <3>2
      <4> QED BY <4>1, <4>2, <4>3 DEF h
    <3> QED BY <1>9, <3>1, <3>2
  <2>21. HandsOut(t, u) /\ (t.ni.pending = Nothing => u.received = t.received)
    BY <2>8, <2>20 DEF HandsOut
  <2>17. OpenWell(u.ni, u.socket, u.received, after)
    <3> HIDE DEF after
    <3> QED BY <1>1, <2>8, <2>14, <2>15, <2>16, <2>18, <2>19 DEF OpenWell, more
  <2> QED BY <2>1, <2>8, <2>17, <2>21
<1> QED BY <1>7, <1>8

(***************************************************************************)
(* The handshakes take bytes from the front of what they keep.             *)
(***************************************************************************)
\* What a handshake makes of a chunk
Answers ==
  [phase : {Nothing, "method-response", "authentication-response",
            "connect-response"},
   requests : Nat, taken : Nat, buffered : Seq(Byte),
   verdict : {Nothing, "accepted", "rejected"}]

\* u has taken size more bytes than t, from the front.
Eaten(t, u, size) ==
  /\ size \in 0..Len(t.buffered) /\ u.taken = t.taken + size
  /\ u.buffered = SubSeq(t.buffered, size + 1, Len(t.buffered))
Eats(t, u) == u \in Answers /\ \E size \in Nat : Eaten(t, u, size)

\* An answer may leave all bytes alone, and two answers eat what both eat.
LEMMA EatsNothing ==
  ASSUME NEW t \in Answers, NEW u \in Answers, u.buffered = t.buffered, u.taken = t.taken
  PROVE  Eats(t, u)
<1> DEFINE b == t.buffered
           n == Len(b)
<1>1. b \in Seq(Byte) /\ n \in Nat /\ t.taken \in Nat
  <2>1. b \in Seq(Byte) /\ t.taken \in Nat
    BY DEF Answers
  <2> QED BY <2>1, LenProperties
<1> HIDE DEF b
<1>2. SubSeq(b, 0 + 1, n) = b
  <2>1. SubSeq(b, 1, n) = b
    BY <1>1, SubSeqFull
  <2> QED BY <2>1
<1>3. Eaten(t, u, 0)
  <2>1. 0 \in 0..n /\ u.taken = t.taken + 0 /\ u.buffered = b
    BY <1>1 DEF b
  <2> QED BY <1>2, <2>1 DEF Eaten, b
<1> QED BY <1>3 DEF Eats

LEMMA EatsMore ==
  ASSUME NEW t \in Answers, NEW u, Eats(t, u), NEW v, Eats(u, v)
  PROVE  Eats(t, v)
<1> DEFINE b == t.buffered
           n == Len(b)
           c == u.buffered
<1>1. PICK i \in Nat : Eaten(t, u, i)
  BY DEF Eats
<1>2. PICK j \in Nat : Eaten(u, v, j)
  BY DEF Eats
<1>3. /\ b \in Seq(Byte) /\ n \in Nat /\ t.taken \in Nat /\ i <= n
      /\ u.taken = t.taken + i /\ c = SubSeq(b, i + 1, n)
  <2>1. b \in Seq(Byte) /\ t.taken \in Nat
    BY DEF Answers
  <2> QED BY <1>1, <2>1, LenProperties DEF Eaten
<1>4. v.taken = u.taken + j /\ v.buffered = SubSeq(c, j + 1, Len(c)) /\ j <= Len(c)
  BY <1>2 DEF Eaten
<1> HIDE DEF b, c, n
<1>5. Len(c) = n - i
  <2>1. n <= Len(b) /\ n \in Int
    BY <1>3 DEF n
  <2>2. Len(SubSeq(b, i + 1, n)) = IF i <= n THEN n - i ELSE 0
    BY <1>3, <2>1, Cut
  <2> QED BY <1>3, <2>2
<1> DEFINE m == Len(c)
           k == i + j
<1>6. /\ m \in Nat /\ m <= n - i /\ i + m = n /\ n <= Len(b) /\ j <= m /\ i <= n
      /\ k \in Nat /\ k <= n /\ v.taken = t.taken + k
  BY <1>3, <1>4, <1>5 DEF n
<1> HIDE DEF m
<1>7. SubSeq(SubSeq(b, i + 1, n), j + 1, m) = SubSeq(b, i + j + 1, i + m)
  BY <1>3, <1>6, CutCut
<1>8. v.buffered = SubSeq(b, k + 1, n)
  <2>1. v.buffered = SubSeq(SubSeq(b, i + 1, n), j + 1, m)
    BY <1>3, <1>4 DEF m
  <2> QED BY <1>6, <1>7, <2>1, Zenon
<1> HIDE DEF k
<1>9. Eaten(t, v, k)
  BY <1>6, <1>8 DEF Eaten, b, n
<1> QED BY <1>6, <1>9 DEF Eats

LEMMA CutAnswer ==
  ASSUME NEW t \in Answers, NEW size \in 0..Len(t.buffered)
  PROVE  SubSeq(t.buffered, size + 1, Len(t.buffered)) \in Seq(Byte)
<1> DEFINE b == t.buffered
           n == Len(b)
<1>1. b \in Seq(Byte) /\ n \in Nat /\ size \in Nat /\ n <= Len(b) /\ n \in Int
  <2>1. b \in Seq(Byte)
    BY DEF Answers
  <2> QED BY <2>1, LenProperties
<1> HIDE DEF b, n
<1>2. SubSeq(b, size + 1, n) \in Seq(Byte)
  BY <1>1, Cut
<1> QED BY <1>2 DEF b, n

\* Each verdict, each phase and each router eats from the front.
LEMMA AcceptedEats ==
  ASSUME NEW t \in Answers, NEW size \in 0..Len(t.buffered)
  PROVE  Eats(t, Accepted(t, size))
<1> DEFINE rest == SubSeq(t.buffered, size + 1, Len(t.buffered))
           a1 == [t EXCEPT !.verdict = "accepted"]
           a2 == [a1 EXCEPT !.taken = t.taken + size]
           u == [a2 EXCEPT !.buffered = rest]
<1>0. size \in Nat
  <2>1. Len(t.buffered) \in Nat
    BY LenProperties DEF Answers
  <2> QED BY <2>1
<1>1. Accepted(t, size) = u
  BY DEF Accepted
<1>2. rest \in Seq(Byte)
  BY CutAnswer
<1>3. a1 \in Answers /\ a1.taken = t.taken
  BY DEF Answers
<1> HIDE DEF a1, rest
<1>4. a2 \in Answers /\ a2.taken = t.taken + size
  <2> DEFINE k == t.taken + size
  <2>1. k \in Nat /\ a2 = [a1 EXCEPT !.taken = k]
    <3>1. t.taken \in Nat
      BY DEF Answers
    <3> QED BY <1>0, <3>1
  <2> HIDE DEF k, a2
  <2>2. a2 \in Answers /\ a2.taken = k
    BY <1>3, <2>1 DEF Answers
  <2> QED BY <2>2 DEF k
<1> HIDE DEF a2
<1>5. u \in Answers /\ u.taken = t.taken + size /\ u.buffered = rest
  BY <1>2, <1>4 DEF Answers
<1> HIDE DEF u
<1>6. Eaten(t, u, size)
  BY <1>5 DEF Eaten, rest
<1> QED BY <1>0, <1>1, <1>5, <1>6 DEF Eats

LEMMA RejectedEats ==
  ASSUME NEW t \in Answers
  PROVE  Eats(t, Rejected(t))
<1>1. Rejected(t) \in Answers /\ Rejected(t).buffered = t.buffered /\ Rejected(t).taken = t.taken
  BY DEF Rejected, Answers
<1> QED BY <1>1, EatsNothing

LEMMA NextPhaseEats ==
  ASSUME NEW t \in Answers, ~(Len(t.buffered) < 2),
         NEW phase \in {"authentication-response", "connect-response"}
  PROVE  Eats(t, NextPhase(t, phase))
<1> DEFINE rest == SubSeq(t.buffered, 3, Len(t.buffered))
           a1 == [t EXCEPT !.phase = phase]
           a2 == [a1 EXCEPT !.requests = t.requests + 1]
           a3 == [a2 EXCEPT !.taken = t.taken + 2]
           u == [a3 EXCEPT !.buffered = rest]
<1>0. 2 \in 0..Len(t.buffered) /\ 2 + 1 = 3 /\ t.requests \in Nat /\ t.taken \in Nat
  <2>1. Len(t.buffered) \in Nat /\ t.requests \in Nat /\ t.taken \in Nat
    BY LenProperties DEF Answers
  <2> QED BY <2>1
<1>1. NextPhase(t, phase) = u
  BY DEF NextPhase
<1>2. rest \in Seq(Byte) /\ rest = SubSeq(t.buffered, 2 + 1, Len(t.buffered))
  BY <1>0, CutAnswer
<1>3. a1 \in Answers
  BY DEF Answers
<1> HIDE DEF a1, rest
<1>4. a2 \in Answers
  <2> DEFINE k == t.requests + 1
  <2>1. k \in Nat /\ a2 = [a1 EXCEPT !.requests = k]
    BY <1>0
  <2> HIDE DEF k, a2
  <2> QED BY <1>3, <2>1 DEF Answers
<1> HIDE DEF a2
<1>5. a3 \in Answers /\ a3.taken = t.taken + 2
  <2> DEFINE k == t.taken + 2
  <2>1. k \in Nat /\ a3 = [a2 EXCEPT !.taken = k]
    BY <1>0
  <2> HIDE DEF k, a3
  <2>2. a3 \in Answers /\ a3.taken = k
    BY <1>4, <2>1 DEF Answers
  <2> QED BY <2>2 DEF k
<1> HIDE DEF a3
<1>6. u \in Answers /\ u.taken = t.taken + 2 /\ u.buffered = rest
  BY <1>2, <1>5 DEF Answers
<1> HIDE DEF u
<1>7. Eaten(t, u, 2)
  BY <1>0, <1>2, <1>6, Zenon DEF Eaten
<1> QED BY <1>1, <1>6, <1>7 DEF Eats

LEMMA SapRouterEats ==
  ASSUME NEW t \in Answers
  PROVE  Eats(t, SapRouterReply(t))
<1> DEFINE b == t.buffered
           L == LengthBytes
           length == Number(SubSeq(b, 1, L))
<1>1. b \in Seq(Byte) /\ Len(b) \in Nat /\ L \in Nat
  <2>1. b \in Seq(Byte)
    BY DEF Answers
  <2> QED BY <2>1, LenProperties, NiFramesAssumption
<1>2. CASE ~(Len(b) < L) /\ ~(length < MinReply \/ length > MaxReply) /\ ~(Len(b) < L + length)
           /\ SubSeq(b, L + 1, L + length) = Pong
  <2>1. SapRouterReply(t) = Accepted(t, L + length)
    BY <1>2 DEF SapRouterReply
  <2>2. length \in Nat
    <3>1. L <= Len(b) /\ 0 + 1 = 1
      BY <1>1, <1>2
    <3> HIDE DEF b
    <3>2. SubSeq(b, 0 + 1, L) \in Seq(Byte)
      BY <1>1, <3>1, Cut
    <3> QED BY <3>1, <3>2, NumberType
  <2> HIDE DEF length
  <2>3. L + length \in 0..Len(t.buffered)
    BY <1>1, <1>2, <2>2
  <2> QED BY <2>1, <2>3, AcceptedEats
<1>3. CASE /\ ~(Len(b) < L) /\ ~(Len(b) < L + length \/ Len(b) < L)
           /\ (length < MinReply \/ length > MaxReply \/ SubSeq(b, L + 1, L + length) # Pong)
  <2>1. SapRouterReply(t) = Rejected(t)
    BY <1>3 DEF SapRouterReply
  <2> QED BY <2>1, RejectedEats
<1>4. CASE Len(b) < L
  <2>1. SapRouterReply(t) = t
    BY <1>4 DEF SapRouterReply
  <2> QED BY <2>1, EatsNothing
<1>5. CASE ~(Len(b) < L) /\ Len(b) < L + length
  <2>1. SapRouterReply(t) \in {t, Rejected(t)}
    BY <1>5 DEF SapRouterReply
  <2> QED BY <2>1, EatsNothing, RejectedEats
<1> QED BY <1>2, <1>3, <1>4, <1>5

LEMMA ConnectEats ==
  ASSUME NEW t \in Answers
  PROVE  Eats(t, ConnectReply(t))
<1> DEFINE b == t.buffered
           size == ConnectReplyLength(b)
<1>1. b \in Seq(Byte) /\ Len(b) \in Nat
  <2>1. b \in Seq(Byte)
    BY DEF Answers
  <2> QED BY <2>1, LenProperties
<1>2. size \in Nat
  <2>1. Len(b) > 4 => b[5] \in Nat
    <3>1. ASSUME Len(b) > 4 PROVE b[5] \in Byte
      <4>1. 5 \in 1..Len(b)
        BY <1>1, <3>1
      <4> HIDE DEF b
      <4>2. \A i \in 1..Len(b) : b[i] \in Byte
        BY <1>1, ElementOfSeq
      <4> QED BY <4>1, <4>2
    <3>2. Byte \subseteq Nat
      BY DEF Byte
    <3> HIDE DEF b
    <3> QED BY <3>1, <3>2
  <2> HIDE DEF b
  <2> QED BY <1>1, <2>1 DEF ConnectReplyLength
<1>3. \/ ConnectReply(t) \in {t, Rejected(t)}
      \/ ConnectReply(t) = Accepted(t, size) /\ ~(Len(b) < size)
  <2> HIDE DEF size
  <2> QED BY DEF ConnectReply, size
<1>4. CASE ConnectReply(t) = Accepted(t, size) /\ ~(Len(b) < size)
  <2>1. size \in 0..Len(t.buffered)
    <3> HIDE DEF size
    <3> QED BY <1>1, <1>2, <1>4
  <2> QED BY <1>4, <2>1, AcceptedEats
<1> QED BY <1>3, <1>4, EatsNothing, RejectedEats

LEMMA SocksEats ==
  ASSUME NEW t \in Answers
  PROVE  Eats(t, SocksReply(t))
<1> DEFINE m == IF t.phase = "method-response" THEN MethodReply(t) ELSE t
           a == IF m.phase = "authentication-response" /\ m.verdict = Nothing
                THEN AuthenticationReply(m) ELSE m
           c == IF a.phase = "connect-response" /\ a.verdict = Nothing
                THEN ConnectReply(a) ELSE a
<1>1. SocksReply(t) = c
  BY DEF SocksReply
<1>2. Eats(t, m)
  <2>1. \/ m \in {t, Rejected(t)}
        \/ m = NextPhase(t, "authentication-response") /\ ~(Len(t.buffered) < 2)
    BY DEF MethodReply
  <2> HIDE DEF m
  <2> QED BY <2>1, EatsNothing, RejectedEats, NextPhaseEats
<1> HIDE DEF m
<1>3. m \in Answers
  BY <1>2 DEF Eats
<1>4. Eats(m, a)
  <2>1. \/ a \in {m, Rejected(m)}
        \/ a = NextPhase(m, "connect-response") /\ ~(Len(m.buffered) < 2)
    BY DEF AuthenticationReply
  <2> HIDE DEF a
  <2> QED BY <1>3, <2>1, EatsNothing, RejectedEats, NextPhaseEats
<1> HIDE DEF a
<1>5. a \in Answers
  BY <1>4 DEF Eats
<1>6. Eats(a, c)
  BY <1>5, EatsNothing, ConnectEats
<1> HIDE DEF c
<1> QED BY <1>1, <1>2, <1>3, <1>4, <1>5, <1>6, EatsMore

\* A chunk of the handshake: what is kept is the end of what came.
LEMMA ReplyIs ==
  ASSUME NEW t \in Tunnels, NEW chunk \in Seq(Byte), RoutedTransportAssumption
  PROVE  LET r == Reply(t, chunk)
             all == t.buffered \o chunk
         IN /\ r \in Answers
            /\ \E size \in 0..Len(all) : /\ r.taken = t.taken + size
                                         /\ r.buffered = SubSeq(all, size + 1, Len(all))
            /\ route = "socks5" /\ r.verdict # "rejected" => Len(all) <= MaxBufferedBytes
<1> DEFINE all == t.buffered \o chunk
           fed == Holding(t, all)
           r == Reply(t, chunk)
<1>1. t.buffered \in Seq(Byte) /\ Len(t.buffered) \in Nat /\ Len(chunk) \in Nat
      /\ all \in Seq(Byte) /\ Len(all) = Len(t.buffered) + Len(chunk) /\ MaxBufferedBytes \in Nat
  <2> DEFINE b == t.buffered
  <2>1. b \in Seq(Byte) /\ MaxBufferedBytes \in Nat
    BY RoutedTransportAssumption DEF Tunnels
  <2> HIDE DEF b
  <2>2. b \o chunk \in Seq(Byte) /\ Len(b \o chunk) = Len(b) + Len(chunk)
    BY <2>1, ConcatProperties
  <2> QED BY <2>1, <2>2, LenProperties DEF b
<1>2. fed \in Answers /\ fed.buffered = all /\ fed.taken = t.taken
  BY <1>1 DEF Answers, Tunnels, Holding
<1>3. r = IF route = "socks5" /\ Len(chunk) > MaxBufferedBytes - Len(t.buffered)
          THEN Rejected(fed)
          ELSE IF route = "saprouter" THEN SapRouterReply(fed) ELSE SocksReply(fed)
  BY DEF Reply, Answered
<1> HIDE DEF fed, r, all
<1>4. Eats(fed, r)
  BY <1>2, <1>3, SapRouterEats, SocksEats, RejectedEats
<1>5. PICK size \in Nat : Eaten(fed, r, size)
  BY <1>4 DEF Eats
<1>6. /\ size \in 0..Len(all) /\ r.taken = t.taken + size
      /\ r.buffered = SubSeq(all, size + 1, Len(all))
  BY <1>2, <1>5 DEF Eaten
<1>7. route = "socks5" /\ r.verdict # "rejected" => Len(all) <= MaxBufferedBytes
  <2>1. CASE Len(chunk) > MaxBufferedBytes - Len(t.buffered) /\ route = "socks5"
    BY <1>2, <1>3, <2>1 DEF Rejected, Answers
  <2> QED BY <1>1, <2>1
<1>8. r \in Answers
  BY <1>4 DEF Eats
<1> QED BY <1>6, <1>7, <1>8 DEF r, all

\* The bytes of the stream, and how many are still to come
LEMMA SentIs ==
  ASSUME TransportTypeOK
  PROVE  /\ Sent \in Seq(Byte) /\ Len(Sent) \in Nat /\ Unemitted = Len(Sent) - socket.read
         /\ socket.read \in 0..Len(Sent) /\ socket.read \in Nat
<1> DEFINE a == stream.router
           b == stream.target
<1>1. a \in Seq(Byte) /\ b \in Seq(Byte)
  BY DEF TransportTypeOK
<1>2. Sent = a \o b /\ Unemitted = Len(a) + Len(b) - socket.read
  BY DEF Sent, Unemitted
<1> HIDE DEF a, b
<1>3. /\ a \o b \in Seq(Byte) /\ Len(a \o b) = Len(a) + Len(b)
      /\ Len(a) \in Nat /\ Len(b) \in Nat /\ Len(a \o b) \in Nat
  BY <1>1, ConcatProperties, LenProperties
<1>4. socket.read \in 0..Len(Sent)
  BY DEF TransportTypeOK, Sockets
<1> QED BY <1>2, <1>3, <1>4

\* What a chunk adds to the bytes since any earlier place in the stream
LEMMA ChunkIs ==
  ASSUME TransportTypeOK, NEW n \in 1..Unemitted
  PROVE  /\ Chunk(n) \in Seq(Byte) /\ n \in Nat
         /\ Reading(n) \in Sockets /\ Reading(n).read = socket.read + n
         /\ Reading(n).state = socket.state /\ Reading(n).paused = socket.paused
         /\ Reading(n).ended = socket.ended
         /\ \A k \in 0..socket.read : SubSeq(Sent, k + 1, socket.read) \o Chunk(n)
                                        = SubSeq(Sent, k + 1, socket.read + n)
<1> DEFINE r == socket.read
           z == r + n
<1>1. /\ Sent \in Seq(Byte) /\ Len(Sent) \in Nat /\ r \in Nat /\ n \in Nat /\ z \in Nat
      /\ z <= Len(Sent) /\ r <= z
  BY SentIs
<1>2. Chunk(n) = SubSeq(Sent, r + 1, z)
  BY DEF Chunk
<1>3. /\ Reading(n) \in Sockets /\ Reading(n).read = socket.read + n
      /\ Reading(n).state = socket.state /\ Reading(n).paused = socket.paused
      /\ Reading(n).ended = socket.ended
  <2>1. Reading(n) = [socket EXCEPT !.read = z]
    BY DEF Reading
  <2>2. z \in 0..Len(Sent) /\ socket \in Sockets /\ z = socket.read + n
    BY <1>1 DEF TransportTypeOK
  <2> HIDE DEF z
  <2> QED BY <2>1, <2>2 DEF Sockets
<1> HIDE DEF r, z
<1>4. SubSeq(Sent, r + 1, z) \in Seq(Byte)
  <2>1. z \in Int
    BY <1>1
  <2> QED BY <1>1, <2>1, Cut
<1>5. ASSUME NEW k \in 0..r
      PROVE  SubSeq(Sent, k + 1, r) \o Chunk(n) = SubSeq(Sent, k + 1, z)
  <2>1. k \in Nat /\ k <= r
    BY <1>1
  <2>2. SubSeq(Sent, k + 1, r) \o SubSeq(Sent, r + 1, z) = SubSeq(Sent, k + 1, z)
    BY <1>1, <2>1, CutJoin
  <2> QED BY <1>2, <2>2
<1>6. \A k \in 0..r : SubSeq(Sent, k + 1, r) \o Chunk(n) = SubSeq(Sent, k + 1, z)
  BY <1>5
<1> QED BY <1>1, <1>2, <1>3, <1>4, <1>6 DEF r, z

\* What no step changes: the stream and the route
Steady == stream' = stream /\ route' = route
\* What a step has to say of its variables for the types to hold after it
KeepsTypes ==
  /\ ni' \in Transports /\ socket' \in Sockets /\ received' \in Chunks
  /\ tunnel' \in Tunnels /\ aborted' \in BOOLEAN
  /\ setup' \in {"connecting", "handshake", "handoff", "done", "failed"}
  /\ sends' \in [Sends -> {"idle", "writing", "written", "failed"}]
  /\ closing' \in {Nothing, "waiting", "settled"}

LEMMA TypesKept ==
  ASSUME TransportTypeOK, Steady, KeepsTypes
  PROVE  TransportTypeOK' /\ Sent' = Sent
<1>1. Sent' = Sent
  BY DEF Steady, Sent
<1>2. Sockets' = Sockets
  BY <1>1 DEF Sockets
<1> QED BY <1>1, <1>2 DEF TransportTypeOK, Steady, KeepsTypes

\* The transport, its socket and the history are of their types.
LEMMA NowSeen ==
  ASSUME TransportIndInv
  PROVE  /\ Now \in Seen /\ Now.ni = ni /\ Now.socket = socket /\ Now.received = received
         /\ ni.state \in {"closing", "closed"} => Ended(ni, socket)
         /\ TransportTypeOK /\ socket \in Sockets /\ ni \in Transports
<1>1. /\ TransportTypeOK /\ NothingLeaks /\ InStages
  BY DEF TransportIndInv
<1>2. ni \in Transports /\ socket \in Sockets /\ received \in Chunks
  BY <1>1 DEF TransportTypeOK
<1>3. Now \in Seen /\ Now.ni = ni /\ Now.socket = socket /\ Now.received = received
  BY <1>2 DEF Now, Seen
<1>4. ni.state \in {"closing", "closed"} => Ended(ni, socket)
  BY <1>1, <1>2 DEF NothingLeaks, InStages, SetupRuns, Ended, Alive, Nothing
<1> QED BY <1>1, <1>2, <1>3, <1>4

\* The transport ends, or had ended.
LEMMA EndsInv ==
  ASSUME TransportIndInv, Steady, KeepsTypes, Ended(ni', socket'),
         setup' \in {"done", "failed"},
         setup' = "failed" => socket'.state \notin {"up", "ending"},
         socket.read <= socket'.read, tunnel' \in {tunnel, NoTunnel},
         NiFramesAssumption, NiSocketAssumption, RoutedTransportAssumption
  PROVE  TransportIndInv'
<1>1. TransportTypeOK /\ Bounded /\ InStages
  BY DEF TransportIndInv
<1>2. TransportTypeOK' /\ Sent' = Sent
  BY <1>1, TypesKept
<1>3. /\ ni'.state \in {"closing", "closed"} /\ ni'.queue = <<>> /\ ni'.pending = Nothing
      /\ ni'.decoder = EmptyDecoder /\ socket'.state # "connecting"
      /\ ni'.state = "closed" => socket'.state \notin {"up", "ending"}
  BY DEF Ended
<1>4. DecoderOK(ni'.decoder) /\ ni'.decoder.buffered = 0
  BY <1>3, EmptyDecoderOK
<1>5. /\ tunnel'.taken <= socket'.read
      /\ route = "socks5" => Len(tunnel'.buffered) <= MaxBufferedBytes
  <2>1. CASE tunnel' = tunnel
    <3>1. tunnel.taken \in Nat /\ socket.read \in Nat /\ socket'.read \in Nat
      <4>1. tunnel.taken \in Nat
        BY <1>1 DEF TransportTypeOK, Tunnels
      <4>2. TransportTypeOK' => socket'.read \in 0..Len(Sent')
        BY DEF TransportTypeOK, Sockets
      <4>3. Len(Sent) \in Nat /\ socket.read \in Nat
        BY <1>1, SentIs
      <4> QED BY <1>2, <4>1, <4>2, <4>3
    <3> QED BY <1>1, <2>1, <3>1 DEF Bounded, InStages
  <2>2. CASE tunnel' = NoTunnel
    <3>1. socket'.read \in Nat
      <4>1. TransportTypeOK' => socket'.read \in 0..Len(Sent')
        BY DEF TransportTypeOK, Sockets
      <4>2. Len(Sent) \in Nat
        BY <1>1, SentIs
      <4> QED BY <1>2, <4>1, <4>2
    <3>2. tunnel'.taken = 0 /\ tunnel'.buffered = <<>> /\ MaxBufferedBytes \in Nat
      BY <2>2, RoutedTransportAssumption DEF NoTunnel
    <3> QED BY <3>1, <3>2, NoneQueued
  <2> QED BY <2>1, <2>2
<1>6. Bounded'
  <2>1. /\ Len(ni'.queue) <= MaxQueuedFrames /\ QueuedBytes(ni'.queue) <= MaxQueuedBytes
    BY <1>3, NoneQueued, NiSocketAssumption
  <2>2. ni'.decoder.buffered < LengthBytes + MaxPayloadLength
    BY <1>4, NiFramesAssumption
  <2> QED BY <1>5, <2>1, <2>2 DEF Bounded, Steady
<1>7. HeldWhileQueued'
  BY <1>3 DEF HeldWhileQueued
<1>8. NothingLeaks'
  BY <1>3 DEF NothingLeaks, Alive
<1>9. BytesAccounted'
  BY <1>3 DEF BytesAccounted
<1>10. InStages'
  BY <1>3, <1>5 DEF InStages, SetupRuns, Nothing
<1>11. Parsed'
  BY <1>3 DEF Parsed
<1> QED BY <1>2, <1>4, <1>6, <1>7, <1>8, <1>9, <1>10, <1>11 DEF TransportIndInv

\* The transport is open, and well.
LEMMA OpenInv ==
  ASSUME TransportIndInv, Steady, KeepsTypes,
         OpenWell(ni', socket', received', SubSeq(Sent, tunnel'.taken + 1, socket'.read)),
         socket'.paused <=> ni'.queue # <<>>, socket'.state # "connecting",
         setup' = "done", closing' = Nothing, tunnel'.taken <= socket'.read,
         route = "socks5" => Len(tunnel'.buffered) <= MaxBufferedBytes
  PROVE  TransportIndInv'
<1>1. TransportTypeOK /\ InStages
  BY DEF TransportIndInv
<1>2. TransportTypeOK' /\ Sent' = Sent
  BY <1>1, TypesKept
<1>3. /\ ni'.state = "open" /\ DecoderOK(ni'.decoder)
      /\ Len(ni'.queue) <= MaxQueuedFrames /\ QueuedBytes(ni'.queue) <= MaxQueuedBytes
      /\ ni'.decoder.buffered < LengthBytes + MaxPayloadLength
      /\ (ni'.pausedForQueue <=> ni'.queue # <<>>)
      /\ Encoded(received' \o ni'.queue) \o Remainder(ni'.decoder)
           = SubSeq(Sent, tunnel'.taken + 1, socket'.read)
      /\ received' \o ni'.queue \in Seq(Payloads) /\ Waits(Remainder(ni'.decoder))
  BY DEF OpenWell
<1>4. Bounded'
  BY <1>3 DEF Bounded, Steady
<1>5. HeldWhileQueued'
  BY DEF HeldWhileQueued
<1>6. NothingLeaks'
  BY <1>3 DEF NothingLeaks
<1>7. BytesAccounted'
  <2>1. Encoded(received' \o ni'.queue) \o Remainder(ni'.decoder)
           = SubSeq(Sent', tunnel'.taken + 1, socket'.read)
    BY <1>2, <1>3
  <2> QED BY <2>1 DEF BytesAccounted
<1>8. InStages'
  BY <1>3 DEF InStages, SetupRuns, Nothing
<1>9. Parsed'
  BY <1>3 DEF Parsed
<1> QED BY <1>2, <1>3, <1>4, <1>5, <1>6, <1>7, <1>8, <1>9 DEF TransportIndInv

\* There is no transport yet, or never will be.
LEMMA StartsInv ==
  ASSUME TransportIndInv, Steady, KeepsTypes, ni.state = Nothing,
         ni' = ni, received' = received, sends' = sends, closing' = closing,
         SetupRuns' => SetupRuns, tunnel'.taken <= socket'.read,
         route = "socks5" => Len(tunnel'.buffered) <= MaxBufferedBytes,
         socket'.state = "connecting" => setup' = "connecting",
         setup' = "connecting" => socket'.read = 0 /\ ~socket'.paused /\ tunnel' = NoTunnel,
         setup' = "failed" => socket'.state \notin {"up", "ending"},
         setup' \in {"handshake", "handoff"} =>
           tunnel'.buffered = SubSeq(Sent, tunnel'.taken + 1, socket'.read)
  PROVE  TransportIndInv'
<1>1. TransportTypeOK /\ InStages /\ Bounded /\ DecoderOK(ni.decoder)
  BY DEF TransportIndInv
<1>2. TransportTypeOK' /\ Sent' = Sent
  BY <1>1, TypesKept
<1>4. Bounded'
  BY <1>1 DEF Bounded, Steady
<1>5. HeldWhileQueued'
  BY DEF HeldWhileQueued, Nothing
<1>6. NothingLeaks'
  BY DEF NothingLeaks, Alive, Nothing
<1>7. BytesAccounted'
  <2>1. setup' \in {"handshake", "handoff"} =>
           tunnel'.buffered = SubSeq(Sent', tunnel'.taken + 1, socket'.read)
    BY <1>2
  <2>2. ni'.state # "open"
    BY DEF Nothing
  <2> QED BY <2>1, <2>2 DEF BytesAccounted
<1>8. InStages'
  BY <1>1 DEF InStages, SetupRuns, Nothing
<1>9. Parsed'
  BY DEF Parsed, Nothing
<1> QED BY <1>1, <1>2, <1>4, <1>5, <1>6, <1>7, <1>8, <1>9 DEF TransportIndInv

\* What no step of the socket or the transport changes
Same == stream' = stream /\ route' = route /\ tunnel' = tunnel /\ aborted' = aborted

LEMMA SameTypes ==
  ASSUME TransportTypeOK, Same
  PROVE  Steady /\ tunnel' \in Tunnels /\ aborted' \in BOOLEAN
  BY DEF TransportTypeOK, Same, Steady

\* Failures have terminal codes.
LEMMA TerminalCode ==
  {"NI_ABORTED", "NI_CONNECTION_CLOSED", "NI_PROTOCOL_ERROR",
   "NI_RECEIVE_TIMEOUT", "NI_WRITE_TIMEOUT", "NI_WRITE_FAILED"} \subseteq TerminalCodes
  BY DEF TerminalCodes

\* A failure ends the transport.
LEMMA FailsInv ==
  ASSUME TransportIndInv, NEW t \in Seen, NEW code \in TerminalCodes,
         t.ni.state = "closed" => Ended(t.ni, t.socket), Become(Failed(t, code)),
         socket.read <= t.socket.read, Steady, tunnel' \in {tunnel, NoTunnel},
         setup' \in {"done", "failed"}, aborted' \in BOOLEAN,
         sends' \in [Sends -> {"idle", "writing", "written", "failed"}],
         closing' \in {Nothing, "waiting", "settled"}
  PROVE  TransportIndInv'
<1> DEFINE f == Failed(t, code)
<1>1. /\ f \in Seen /\ Ended(f.ni, f.socket) /\ f.ni.state = "closed"
      /\ f.socket.read = t.socket.read /\ f.received = t.received
  BY FailedIs
<1>2. ni' = f.ni /\ socket' = f.socket /\ received' = f.received
  BY DEF Become
<1> HIDE DEF f
<1>3. TransportTypeOK
  BY DEF TransportIndInv
<1>4. Sockets' = Sockets
  BY DEF Sockets, Sent, Steady
<1>5. tunnel' \in Tunnels
  <2>1. NoTunnel \in Tunnels
    BY EmptySeq DEF NoTunnel, Tunnels
  <2> QED BY <1>3, <2>1 DEF TransportTypeOK
<1>6. KeepsTypes
  BY <1>1, <1>2, <1>4, <1>5 DEF KeepsTypes, Seen
<1>7. Ended(ni', socket')
  BY <1>1, <1>2
<1>8. socket.read <= socket'.read /\ socket'.state \notin {"up", "ending"}
  BY <1>1, <1>2 DEF Ended
<1> QED BY <1>6, <1>7, <1>8, EndsInv, NiFramesAssumption, NiSocketAssumption,
           RoutedTransportAssumption

\* Where no transport is open, an event changes the socket alone.
LEMMA IdleInv ==
  ASSUME TransportIndInv, Same, ni.state # "open", ni' = ni, received' = received,
         sends' = sends, setup' = setup, closing' \in {Nothing, "waiting", "settled"},
         closing' = closing \/ closing # Nothing, socket' \in Sockets,
         socket.read <= socket'.read, SetupRuns => socket'.read = socket.read,
         socket'.state \in {socket.state, "destroyed", "closed"},
         socket'.paused = socket.paused
  PROVE  TransportIndInv'
<1>1. /\ TransportTypeOK /\ InStages /\ NothingLeaks /\ BytesAccounted /\ Bounded
      /\ ni \in Transports
  BY DEF TransportIndInv, TransportTypeOK
<1>2. Sockets' = Sockets
  BY DEF Sockets, Sent, Same
<1>3. KeepsTypes /\ Steady
  BY <1>1, <1>2, SameTypes DEF KeepsTypes, TransportTypeOK
<1>4. CASE ni.state = Nothing
  <2>1. closing' = closing
    BY <1>1, <1>4 DEF InStages, Nothing
  <2>2. /\ socket.read \in Nat /\ socket'.read \in Nat /\ tunnel.taken \in Nat
        /\ tunnel' = tunnel
    <3>1. Len(Sent) \in Nat /\ socket.read \in Nat
      BY <1>1, SentIs
    <3>2. socket'.read \in 0..Len(Sent)
      BY DEF Sockets
    <3> QED BY <1>1, <3>1, <3>2 DEF TransportTypeOK, Tunnels, Same
  <2>3. /\ tunnel'.taken <= socket'.read
        /\ route = "socks5" => Len(tunnel'.buffered) <= MaxBufferedBytes
    BY <1>1, <2>2 DEF InStages, Bounded
  <2>4. /\ socket'.state = "connecting" => setup' = "connecting"
        /\ setup' = "connecting" => socket'.read = 0 /\ ~socket'.paused /\ tunnel' = NoTunnel
        /\ setup' = "failed" => socket'.state \notin {"up", "ending"}
    BY <1>1, <2>2 DEF InStages, SetupRuns, NothingLeaks, Alive
  <2>5. setup' \in {"handshake", "handoff"} =>
           tunnel'.buffered = SubSeq(Sent, tunnel'.taken + 1, socket'.read)
    BY <1>1, <2>2 DEF BytesAccounted, SetupRuns
  <2>6. SetupRuns' => SetupRuns
    BY DEF SetupRuns
  <2> QED BY <1>3, <1>4, <2>1, <2>3, <2>4, <2>5, <2>6, StartsInv
<1>5. CASE ni.state \in {"closing", "closed"}
  <2>1. Ended(ni, socket)
    BY <1>5, NowSeen
  <2>2. Ended(ni', socket')
    BY <2>1 DEF Ended
  <2>3. setup' \in {"done", "failed"}
    BY <1>1, <1>5 DEF InStages, SetupRuns, TransportTypeOK, Nothing
  <2>4. setup' = "failed" => socket'.state \notin {"up", "ending"}
    BY <1>1 DEF NothingLeaks, Alive
  <2>5. tunnel' \in {tunnel, NoTunnel}
    BY DEF Same
  <2> QED BY <1>3, <2>2, <2>3, <2>4, <2>5, EndsInv, NiFramesAssumption, NiSocketAssumption,
             RoutedTransportAssumption
<1>6. ni.state \in {Nothing, "open", "closing", "closed"}
  BY <1>1 DEF Transports
<1> QED BY <1>4, <1>5, <1>6

\* The first state, and steps that change nothing
LEMMA InitInv == TransportInit => TransportIndInv
<1> SUFFICES ASSUME TransportInit PROVE TransportIndInv
  OBVIOUS
<1>1. /\ socket = [state |-> "connecting", paused |-> FALSE, read |-> 0, ended |-> FALSE]
      /\ setup = "connecting" /\ ni = NoTransport /\ received = <<>>
      /\ sends = [s \in Sends |-> "idle"] /\ closing = Nothing
      /\ route \in Routes /\ stream \in [router : Replies[route], target : Frames]
      /\ tunnel = NoTunnel /\ aborted = FALSE
  BY DEF TransportInit, NiInit
<1>2. stream \in [router : Seq(Byte), target : Seq(Byte)]
  BY <1>1, RoutedTransportAssumption
<1>3. Sent \in Seq(Byte) /\ Len(Sent) \in Nat
  <2> DEFINE a == stream.router
             b == stream.target
  <2>1. a \in Seq(Byte) /\ b \in Seq(Byte)
    BY <1>2
  <2>2. Sent = a \o b
    BY DEF Sent
  <2> HIDE DEF a, b
  <2>3. a \o b \in Seq(Byte)
    BY <2>1, ConcatProperties
  <2> QED BY <2>2, <2>3, LenProperties
<1>4. /\ socket.state = "connecting" /\ socket.paused = FALSE /\ socket.read = 0
      /\ socket.ended = FALSE /\ socket \in Sockets
  <2>1. 0 \in 0..Len(Sent)
    BY <1>3
  <2> QED BY <1>1, <2>1 DEF Sockets
<1>5. /\ ni.state = Nothing /\ ni.queue = <<>> /\ ni.decoder = EmptyDecoder /\ ni \in Transports
  <2>1. EmptyDecoder \in Decoders /\ <<>> \in Chunks
    BY EmptyDecoderOK, NoneQueued DEF DecoderOK
  <2> QED BY <1>1, <2>1 DEF NoTransport, Transports
<1>6. tunnel \in Tunnels /\ tunnel.taken = 0 /\ tunnel.buffered = <<>>
  BY <1>1, EmptySeq DEF NoTunnel, Tunnels
<1>7. TransportTypeOK
  BY <1>1, <1>2, <1>4, <1>5, <1>6, NoneQueued DEF TransportTypeOK
<1>8. Bounded
  <2>1. /\ Len(ni.queue) <= MaxQueuedFrames /\ QueuedBytes(ni.queue) <= MaxQueuedBytes
        /\ Len(tunnel.buffered) <= MaxBufferedBytes
    BY <1>5, <1>6, NoneQueued, NiSocketAssumption, RoutedTransportAssumption
  <2>2. ni.decoder.buffered < LengthBytes + MaxPayloadLength
    BY <1>5, EmptyDecoderOK, NiFramesAssumption
  <2> QED BY <2>1, <2>2 DEF Bounded
<1>9. HeldWhileQueued /\ NothingLeaks
  BY <1>1, <1>5 DEF HeldWhileQueued, NothingLeaks, Nothing
<1>10. BytesAccounted
  BY <1>1, <1>5 DEF BytesAccounted, Nothing
<1>11. InStages
  BY <1>1, <1>4, <1>5, <1>6 DEF InStages, Nothing
<1>12. DecoderOK(ni.decoder) /\ Parsed
  BY <1>5, EmptyDecoderOK DEF Parsed, Nothing
<1> QED BY <1>7, <1>8, <1>9, <1>10, <1>11, <1>12 DEF TransportIndInv

LEMMA StutterInv == TransportIndInv /\ UNCHANGED transportVars => TransportIndInv'
<1> SUFFICES ASSUME TransportIndInv, UNCHANGED transportVars PROVE TransportIndInv'
  OBVIOUS
<1>1. /\ stream' = stream /\ socket' = socket /\ setup' = setup /\ ni' = ni
      /\ received' = received /\ sends' = sends /\ closing' = closing /\ route' = route
      /\ tunnel' = tunnel /\ aborted' = aborted
  BY DEF transportVars, niVars
<1>2. Sent' = Sent /\ Sockets' = Sockets
  BY <1>1 DEF Sent, Sockets
<1>3. TransportTypeOK'
  BY <1>1, <1>2 DEF TransportIndInv, TransportTypeOK
<1>4. Bounded' /\ HeldWhileQueued' /\ NothingLeaks' /\ InStages'
  BY <1>1 DEF TransportIndInv, Bounded, HeldWhileQueued, NothingLeaks, InStages, SetupRuns, Alive
<1>5. BytesAccounted' /\ DecoderOK(ni.decoder)' /\ Parsed'
  BY <1>1, <1>2 DEF TransportIndInv, BytesAccounted, Parsed
<1> QED BY <1>3, <1>4, <1>5 DEF TransportIndInv

\* NiNext leaves the router and the caller's abort alone.
Outside == UNCHANGED <<route, tunnel, aborted>>

\* When the stream flows, nothing waits in the queue.
LEMMA FlowsEmpty ==
  ASSUME TransportIndInv, ni.state = "open", ~socket.paused
  PROVE  /\ ni.queue = <<>> /\ ~ni.pausedForQueue /\ setup = "done" /\ closing = Nothing
         /\ DecoderOK(ni.decoder) /\ received \in Chunks
         /\ Encoded(received) \o Remainder(ni.decoder)
              = SubSeq(Sent, tunnel.taken + 1, socket.read)
         /\ tunnel.taken \in 0..socket.read /\ tunnel.taken \in Nat
         /\ received \in Seq(Payloads)
<1>1. /\ TransportTypeOK /\ HeldWhileQueued /\ InStages /\ BytesAccounted
      /\ DecoderOK(ni.decoder) /\ received \o ni.queue \in Seq(Payloads)
  BY DEF TransportIndInv, Parsed
<1>2. ni.queue = <<>> /\ ~ni.pausedForQueue /\ setup = "done"
  BY <1>1 DEF HeldWhileQueued, InStages
<1>3. closing = Nothing
  BY <1>1 DEF InStages
<1>4. received \in Chunks /\ tunnel.taken \in Nat
  BY <1>1 DEF TransportTypeOK, Tunnels
<1>5. received \o <<>> = received
  BY <1>4, ConcatEmptySeq DEF Chunks
<1>6. Encoded(received \o ni.queue) \o Remainder(ni.decoder)
        = SubSeq(Sent, tunnel.taken + 1, socket.read)
  BY <1>1 DEF BytesAccounted
<1>7. tunnel.taken \in 0..socket.read
  <2>1. socket.read \in Nat
    BY <1>1, SentIs
  <2> QED BY <1>1, <1>4, <2>1 DEF InStages
<1> QED BY <1>1, <1>2, <1>3, <1>4, <1>5, <1>6, <1>7

\* The steps of the socket
LEMMA DataInv ==
  ASSUME TransportIndInv, NEW n \in 1..Unemitted, Data(n), Outside
  PROVE  TransportIndInv'
<1> DEFINE t == [Now EXCEPT !.socket = Reading(n)]
           c == Chunk(n)
           u == OnData(t, c)
<1>1. /\ setup = "done" /\ ~socket.paused /\ socket.state \in {"up", "ending"}
      /\ Become(u) /\ stream' = stream /\ setup' = setup /\ sends' = sends
      /\ closing' = closing /\ Same
  BY DEF Data, Emits, Alive, Outside, Same
<1>2. /\ TransportTypeOK /\ Now \in Seen /\ Now.ni = ni /\ Now.received = received
      /\ socket \in Sockets /\ ni \in Transports
      /\ ni.state \in {"closing", "closed"} => Ended(ni, socket)
  BY NowSeen
<1>3. /\ c \in Seq(Byte) /\ n \in Nat
      /\ Reading(n) \in Sockets /\ Reading(n).read = socket.read + n
      /\ Reading(n).state = socket.state /\ Reading(n).paused = socket.paused
      /\ \A k \in 0..socket.read : SubSeq(Sent, k + 1, socket.read) \o c
                                     = SubSeq(Sent, k + 1, socket.read + n)
      /\ socket.read \in Nat
  BY <1>2, ChunkIs, SentIs
<1>4. t \in Seen /\ t.ni = ni /\ t.received = received /\ t.socket = Reading(n)
  BY <1>2, <1>3 DEF Seen
<1> HIDE DEF t, c
<1>5. /\ sends' \in [Sends -> {"idle", "writing", "written", "failed"}]
      /\ closing' \in {Nothing, "waiting", "settled"} /\ socket.read <= socket.read + n
  BY <1>1, <1>2, <1>3 DEF TransportTypeOK
<1>6. CASE ni.state # "open"
  <2>1. u = t
    BY <1>4, <1>6 DEF OnData
  <2> HIDE DEF u
  <2>2. ni' = ni /\ received' = received /\ socket' = Reading(n)
    BY <1>1, <1>4, <2>1 DEF Become
  <2> QED BY <1>1, <1>3, <1>5, <1>6, <2>2, IdleInv DEF SetupRuns
<1>7. CASE ni.state = "open"
  <2>1. /\ ni.queue = <<>> /\ ~ni.pausedForQueue /\ closing = Nothing
        /\ DecoderOK(ni.decoder) /\ received \in Chunks
        /\ Encoded(received) \o Remainder(ni.decoder)
             = SubSeq(Sent, tunnel.taken + 1, socket.read)
        /\ tunnel.taken \in 0..socket.read /\ tunnel.taken \in Nat
        /\ received \in Seq(Payloads)
    BY <1>1, <1>7, FlowsEmpty
  <2>2. \/ u = Failed(t, "NI_PROTOCOL_ERROR")
        \/ /\ u \in Seen
           /\ OpenWell(u.ni, u.socket, u.received,
                       Encoded(received) \o (Remainder(ni.decoder) \o c))
           /\ u.socket.state = Reading(n).state /\ u.socket.read = socket.read + n
           /\ u.socket.paused = (socket.paused \/ u.ni.queue # <<>>)
    <3>1. /\ t.ni.state = "open" /\ t.ni.queue = <<>> /\ ~t.ni.pausedForQueue
          /\ DecoderOK(t.ni.decoder) /\ t.received \in Seq(Payloads)
      BY <1>4, <1>7, <2>1
    <3>2. \/ u = Failed(t, "NI_PROTOCOL_ERROR")
          \/ /\ u \in Seen
             /\ OpenWell(u.ni, u.socket, u.received,
                         Encoded(t.received) \o (Remainder(t.ni.decoder) \o c))
             /\ u.socket.state = t.socket.state /\ u.socket.read = t.socket.read
             /\ u.socket.paused = (t.socket.paused \/ u.ni.queue # <<>>)
      BY <1>3, <1>4, <3>1, OnDataIs
    <3> HIDE DEF u
    <3> QED BY <1>3, <1>4, <3>2
  <2> HIDE DEF u
  <2>3. Steady /\ tunnel' \in Tunnels /\ aborted' \in BOOLEAN /\ tunnel' = tunnel
    BY <1>1, <1>2, SameTypes DEF Same
  <2>4. CASE u = Failed(t, "NI_PROTOCOL_ERROR")
    <3>1. t.ni.state # "closed" /\ socket.read <= t.socket.read
      BY <1>3, <1>4, <1>5, <1>7
    <3> QED BY <1>1, <1>4, <1>5, <2>3, <2>4, <3>1, FailsInv, TerminalCode
  <2>5. CASE /\ u \in Seen
             /\ OpenWell(u.ni, u.socket, u.received,
                         Encoded(received) \o (Remainder(ni.decoder) \o c))
             /\ u.socket.state = Reading(n).state /\ u.socket.read = socket.read + n
             /\ u.socket.paused = (socket.paused \/ u.ni.queue # <<>>)
    <3>1. ni' = u.ni /\ socket' = u.socket /\ received' = u.received
      BY <1>1 DEF Become
    <3>2. Encoded(received) \o (Remainder(ni.decoder) \o c)
            = SubSeq(Sent, tunnel'.taken + 1, socket'.read)
      <4> DEFINE e == Encoded(received)
                 m == Remainder(ni.decoder)
      <4>1. e \in Seq(Byte) /\ m \in Seq(Byte)
        <5>1. <<>> \in Seq(Byte)
          BY EmptySeq
        <5> QED BY <2>1, <5>1, DecoderBytes, EncodedGrows
      <4>2. e \o m = SubSeq(Sent, tunnel.taken + 1, socket.read)
        BY <2>1
      <4>3. SubSeq(Sent, tunnel.taken + 1, socket.read) \o c
              = SubSeq(Sent, tunnel.taken + 1, socket.read + n)
        BY <1>3, <2>1
      <4> HIDE DEF e, m
      <4>4. (e \o m) \o c = e \o (m \o c)
        <5>1. c \in Seq(Byte)
          BY <1>3
        <5> QED BY <4>1, <5>1, BytesAssociate
      <4>5. socket'.read = socket.read + n /\ tunnel' = tunnel
        BY <2>3, <2>5, <3>1
      <4> QED BY <4>2, <4>3, <4>4, <4>5, Zenon DEF e, m
    <3>3. OpenWell(ni', socket', received', SubSeq(Sent, tunnel'.taken + 1, socket'.read))
      BY <2>5, <3>1, <3>2, Zenon
    <3>4. Sockets' = Sockets
      BY <1>1 DEF Sockets, Sent
    <3>5. KeepsTypes
      BY <1>1, <1>2, <1>5, <2>3, <2>5, <3>1, <3>4 DEF KeepsTypes, Seen
    <3>6. /\ (socket'.paused <=> ni'.queue # <<>>) /\ socket'.state # "connecting"
          /\ setup' = "done" /\ closing' = Nothing
      BY <1>1, <1>3, <2>1, <2>5, <3>1
    <3>7. /\ tunnel'.taken <= socket'.read
          /\ route = "socks5" => Len(tunnel'.buffered) <= MaxBufferedBytes
      <4>1. Bounded
        BY DEF TransportIndInv
      <4> QED BY <1>3, <2>1, <2>3, <2>5, <3>1, <4>1 DEF Bounded
    <3> QED BY <2>3, <3>3, <3>5, <3>6, <3>7, OpenInv
  <2> QED BY <2>2, <2>4, <2>5
<1>8. ni.state = "open" \/ ni.state # "open"
  OBVIOUS
<1> QED BY <1>6, <1>7, <1>8

LEMMA EndInv ==
  ASSUME TransportIndInv, End, Outside
  PROVE  TransportIndInv'
<1> DEFINE t == [Now EXCEPT !.socket.ended = TRUE]
<1>1. /\ setup = "done" /\ stream' = stream /\ setup' = setup /\ sends' = sends
      /\ closing' = closing /\ Same
      /\ Become(IF ni.state = "open" THEN Failed(t, EndCode) ELSE t)
  BY DEF End, Outside, Same
<1>2. /\ TransportTypeOK /\ Now \in Seen /\ Now.ni = ni /\ Now.received = received
      /\ Now.socket = socket /\ socket \in Sockets
  BY NowSeen
<1>3. /\ t \in Seen /\ t.ni = ni /\ t.received = received /\ t.socket \in Sockets
      /\ t.socket.read = socket.read /\ t.socket.state = socket.state
      /\ t.socket.paused = socket.paused
  BY <1>2 DEF Seen, Sockets
<1> HIDE DEF t
<1>4. socket.read \in Nat
  BY <1>2, SentIs
<1>5. /\ sends' \in [Sends -> {"idle", "writing", "written", "failed"}]
      /\ closing' \in {Nothing, "waiting", "settled"}
      /\ Steady /\ aborted' \in BOOLEAN /\ tunnel' = tunnel
  BY <1>1, <1>2, SameTypes DEF TransportTypeOK, Same
<1>6. CASE ni.state # "open"
  <2>1. ni' = ni /\ received' = received /\ socket' = t.socket
    BY <1>1, <1>3, <1>6 DEF Become
  <2> QED BY <1>1, <1>3, <1>4, <1>5, <1>6, <2>1, IdleInv
<1>7. CASE ni.state = "open"
  <2>1. EndCode \in TerminalCodes /\ Become(Failed(t, EndCode))
    BY <1>1, <1>7, TerminalCode DEF EndCode
  <2> HIDE DEF t
  <2>2. t.ni.state # "closed" /\ socket.read <= t.socket.read
    BY <1>3, <1>4, <1>7
  <2> QED BY <1>1, <1>3, <1>5, <2>1, <2>2, FailsInv
<1> QED BY <1>6, <1>7

LEMMA SocketErrorInv ==
  ASSUME TransportIndInv, SocketError, Outside
  PROVE  TransportIndInv'
<1> DEFINE f == Failed(Now, "NI_CONNECTION_CLOSED")
           u == [f EXCEPT !.socket = Destroyed(@)]
<1>1. /\ setup = "done" /\ stream' = stream /\ setup' = setup /\ sends' = sends
      /\ closing' = closing /\ Same /\ Become(u)
  BY DEF SocketError, Outside, Same
<1>2. /\ TransportTypeOK /\ Now \in Seen /\ Now.ni = ni /\ Now.received = received
      /\ Now.socket = socket /\ socket \in Sockets
      /\ ni.state \in {"closing", "closed"} => Ended(ni, socket)
  BY NowSeen
<1>3. /\ f \in Seen /\ Ended(f.ni, f.socket) /\ f.ni.state = "closed"
      /\ f.socket.read = socket.read /\ f.received = received
  BY <1>2, FailedIs, TerminalCode
<1> HIDE DEF f
<1>4. /\ u.ni = f.ni /\ u.received = received /\ u.socket \in Sockets
      /\ u.socket.read = socket.read /\ Ended(u.ni, u.socket) /\ u \in Seen
  BY <1>3 DEF Seen, Sockets, Destroyed, Ended
<1> HIDE DEF u
<1>5. ni' = u.ni /\ socket' = u.socket /\ received' = u.received
  BY <1>1 DEF Become
<1>6. Steady /\ tunnel' \in Tunnels /\ aborted' \in BOOLEAN /\ tunnel' = tunnel
      /\ Sockets' = Sockets
  BY <1>1, <1>2, SameTypes DEF Same, Sockets, Sent
<1>7. KeepsTypes
  BY <1>1, <1>2, <1>4, <1>5, <1>6 DEF KeepsTypes, Seen, TransportTypeOK
<1>8. socket.read \in Nat
  BY <1>2, SentIs
<1>9. socket.read <= socket'.read /\ Ended(ni', socket')
  BY <1>4, <1>5, <1>8
<1>10. setup' \in {"done", "failed"} /\ setup' # "failed"
  BY <1>1
<1> QED BY <1>6, <1>7, <1>9, <1>10, EndsInv, NiFramesAssumption, NiSocketAssumption,
           RoutedTransportAssumption

LEMMA SocketClosesInv ==
  ASSUME TransportIndInv, SocketCloses, Outside
  PROVE  TransportIndInv'
<1> DEFINE t == [Now EXCEPT !.socket.state = "closed"]
           q == [t EXCEPT !.ni.state = "closed"]
<1>1. /\ stream' = stream /\ setup' = setup /\ sends' = sends
      /\ closing' = (IF closing = "waiting" THEN "settled" ELSE closing) /\ Same
      /\ Become(CASE t.ni.state = "closing" -> q
                  [] t.ni.state = "open" -> Failed(t, "NI_CONNECTION_CLOSED")
                  [] OTHER -> t)
  BY DEF SocketCloses, Outside, Same
<1>2. /\ TransportTypeOK /\ Now \in Seen /\ Now.ni = ni /\ Now.received = received
      /\ Now.socket = socket /\ socket \in Sockets /\ ni \in Transports
      /\ ni.state \in {"closing", "closed"} => Ended(ni, socket)
  BY NowSeen
<1>3. /\ t \in Seen /\ t.ni = ni /\ t.received = received /\ t.socket \in Sockets
      /\ t.socket.read = socket.read /\ t.socket.state = "closed"
      /\ t.socket.paused = socket.paused
  BY <1>2 DEF Seen, Sockets
<1> HIDE DEF t
<1>4. socket.read \in Nat /\ socket.read <= socket.read
  BY <1>2, SentIs
<1>5. /\ sends' \in [Sends -> {"idle", "writing", "written", "failed"}]
      /\ closing' \in {Nothing, "waiting", "settled"} /\ (closing' = closing \/ closing # Nothing)
      /\ Steady /\ tunnel' \in Tunnels /\ aborted' \in BOOLEAN /\ tunnel' = tunnel
      /\ setup \in {"connecting", "handshake", "handoff", "done", "failed"}
  BY <1>1, <1>2, SameTypes DEF TransportTypeOK, Same, Nothing
<1>6. CASE ni.state \notin {"open", "closing"}
  <2>1. ni' = ni /\ received' = received /\ socket' = t.socket
    BY <1>1, <1>3, <1>6 DEF Become
  <2> QED BY <1>1, <1>3, <1>4, <1>5, <1>6, <2>1, IdleInv
<1>7. CASE ni.state \in {"open", "closing"}
  <2>1. setup' \in {"done", "failed"}
    <3>1. InStages
      BY DEF TransportIndInv
    <3> QED BY <1>1, <1>5, <1>7, <3>1 DEF InStages, SetupRuns, Nothing
  <2>2. CASE ni.state = "open"
    <3>1. Become(Failed(t, "NI_CONNECTION_CLOSED"))
      BY <1>1, <1>3, <2>2
    <3>2. t.ni.state # "closed" /\ socket.read <= t.socket.read
      BY <1>3, <1>4, <2>2
    <3> QED BY <1>3, <1>5, <2>1, <3>1, <3>2, FailsInv, TerminalCode
  <2>3. CASE ni.state = "closing"
    <3>1. Ended(ni, socket)
      BY <1>2, <2>3
    <3>2. Become(q)
      BY <1>1, <1>3, <2>3
    <3>3. /\ q.ni \in Transports /\ q.ni.state = "closed" /\ q.ni.queue = ni.queue
          /\ q.ni.pending = ni.pending /\ q.ni.decoder = ni.decoder
          /\ q.socket = t.socket /\ q.received = received
      BY <1>3 DEF Seen, Transports
    <3> HIDE DEF q
    <3>4. ni' = q.ni /\ socket' = t.socket /\ received' = received
      BY <3>2, <3>3 DEF Become
    <3>5. Ended(ni', socket') /\ socket.read <= socket'.read
          /\ socket'.state \notin {"up", "ending"}
      BY <1>3, <1>4, <3>1, <3>3, <3>4 DEF Ended
    <3>6. Sockets' = Sockets /\ received \in Chunks
      BY <1>2, <1>5 DEF Sockets, Sent, Steady, TransportTypeOK
    <3>7. KeepsTypes
      BY <1>1, <1>3, <1>5, <3>3, <3>4, <3>6 DEF KeepsTypes
    <3> QED BY <1>5, <2>1, <3>5, <3>7, EndsInv, NiFramesAssumption, NiSocketAssumption,
               RoutedTransportAssumption
  <2> QED BY <1>7, <2>2, <2>3
<1> QED BY <1>6, <1>7

\* What an open transport is known for
LEMMA OpenFacts ==
  ASSUME TransportIndInv, ni.state = "open"
  PROVE  /\ setup = "done" /\ closing = Nothing /\ DecoderOK(ni.decoder)
         /\ (ni.pausedForQueue <=> ni.queue # <<>>) /\ (socket.paused <=> ni.queue # <<>>)
         /\ Len(ni.queue) <= MaxQueuedFrames /\ QueuedBytes(ni.queue) <= MaxQueuedBytes
         /\ ni.decoder.buffered < LengthBytes + MaxPayloadLength
         /\ Encoded(received \o ni.queue) \o Remainder(ni.decoder)
              = SubSeq(Sent, tunnel.taken + 1, socket.read)
         /\ ni.queue \in Chunks /\ received \in Chunks /\ tunnel.taken <= socket.read
         /\ route = "socks5" => Len(tunnel.buffered) <= MaxBufferedBytes
         /\ socket.state # "connecting" /\ ni \in Transports /\ socket \in Sockets
         /\ received \o ni.queue \in Seq(Payloads) /\ Waits(Remainder(ni.decoder))
<1>1. /\ TransportTypeOK /\ HeldWhileQueued /\ InStages /\ BytesAccounted /\ Bounded
      /\ DecoderOK(ni.decoder)
      /\ received \o ni.queue \in Seq(Payloads) /\ Waits(Remainder(ni.decoder))
  BY DEF TransportIndInv, Parsed
<1>2. /\ ni.queue \in Chunks /\ received \in Chunks /\ ni \in Transports /\ socket \in Sockets
  BY <1>1 DEF TransportTypeOK, Transports
<1>3. setup = "done" /\ (ni.pausedForQueue <=> ni.queue # <<>>) /\ tunnel.taken <= socket.read
      /\ socket.state # "connecting" /\ closing = Nothing
  BY <1>1 DEF InStages, SetupRuns
<1>4. socket.paused <=> ni.queue # <<>>
  BY <1>1 DEF HeldWhileQueued
<1>5. Encoded(received \o ni.queue) \o Remainder(ni.decoder)
        = SubSeq(Sent, tunnel.taken + 1, socket.read)
  BY <1>1 DEF BytesAccounted
<1> QED BY <1>1, <1>2, <1>3, <1>4, <1>5 DEF Bounded

\* An event that reads no byte, and after which the transport is still open
LEMMA StaysOpenInv ==
  ASSUME TransportIndInv, ni.state = "open", NEW t \in Seen, Become(t), Same,
         setup' = setup, sends' = sends, closing' = closing,
         t.ni.state = "open", t.ni.decoder = ni.decoder,
         t.received \o t.ni.queue = received \o ni.queue,
         Len(t.ni.queue) <= MaxQueuedFrames, QueuedBytes(t.ni.queue) <= MaxQueuedBytes,
         t.ni.pausedForQueue <=> t.ni.queue # <<>>, t.socket.paused <=> t.ni.queue # <<>>,
         t.socket.state = socket.state, t.socket.read = socket.read
  PROVE  TransportIndInv'
<1>1. ni' = t.ni /\ socket' = t.socket /\ received' = t.received
  BY DEF Become
<1>2. TransportTypeOK
  BY DEF TransportIndInv
<1>3. Steady /\ tunnel' \in Tunnels /\ aborted' \in BOOLEAN /\ tunnel' = tunnel
      /\ Sockets' = Sockets
  BY <1>2, SameTypes DEF Same, Sockets, Sent
<1>4. KeepsTypes
  BY <1>1, <1>2, <1>3 DEF KeepsTypes, Seen, TransportTypeOK
<1>5. OpenWell(ni', socket', received', SubSeq(Sent, tunnel'.taken + 1, socket'.read))
  <2>1. /\ DecoderOK(ni.decoder) /\ ni.decoder.buffered < LengthBytes + MaxPayloadLength
        /\ Encoded(received \o ni.queue) \o Remainder(ni.decoder)
             = SubSeq(Sent, tunnel.taken + 1, socket.read)
        /\ received \o ni.queue \in Seq(Payloads) /\ Waits(Remainder(ni.decoder))
    BY OpenFacts
  <2>2. Encoded(received' \o ni'.queue) \o Remainder(ni'.decoder)
          = SubSeq(Sent, tunnel'.taken + 1, socket'.read)
    BY <1>1, <1>3, <2>1
  <2>3. received' \o ni'.queue \in Seq(Payloads) /\ Waits(Remainder(ni'.decoder))
    BY <1>1, <2>1
  <2> QED BY <1>1, <2>1, <2>2, <2>3 DEF OpenWell
<1>6. /\ tunnel'.taken <= socket'.read
      /\ route = "socks5" => Len(tunnel'.buffered) <= MaxBufferedBytes
      /\ socket'.state # "connecting" /\ setup' = "done" /\ closing' = Nothing
      /\ (socket'.paused <=> ni'.queue # <<>>)
  BY <1>1, <1>3, OpenFacts
<1> QED BY <1>3, <1>4, <1>5, <1>6, OpenInv

\* Of an open transport, a failure is the end.
LEMMA OpenTransportFails ==
  ASSUME TransportIndInv, ni.state = "open", Same, setup' = setup, closing' = closing,
         sends' \in [Sends -> {"idle", "writing", "written", "failed"}],
         NEW code \in TerminalCodes, Become(Failed(Now, code))
  PROVE  TransportIndInv'
<1>1. Now \in Seen /\ Now.ni = ni /\ Now.socket = socket /\ TransportTypeOK
  BY NowSeen
<1>2. Steady /\ aborted' \in BOOLEAN /\ tunnel' = tunnel
  BY <1>1, SameTypes DEF Same
<1>3. setup' \in {"done", "failed"} /\ closing' \in {Nothing, "waiting", "settled"}
  BY OpenFacts
<1>4. Now.ni.state # "closed" /\ socket.read <= Now.socket.read
  BY <1>1, SentIs
<1> QED BY <1>1, <1>2, <1>3, <1>4, FailsInv

\* The calls of the transport
LEMMA ReceiveInv ==
  ASSUME TransportIndInv, Receive, Outside
  PROVE  TransportIndInv'
<1>1. /\ ni.state = "open" /\ stream' = stream /\ setup' = setup /\ sends' = sends
      /\ closing' = closing /\ Same
  BY DEF Receive, Outside, Same
<1>2. /\ Now \in Seen /\ Now.ni = ni /\ Now.received = received
      /\ Now.socket = socket /\ TransportTypeOK /\ ni \in Transports /\ socket \in Sockets
  BY NowSeen
<1>3. /\ (ni.pausedForQueue <=> ni.queue # <<>>) /\ (socket.paused <=> ni.queue # <<>>)
      /\ Len(ni.queue) <= MaxQueuedFrames /\ QueuedBytes(ni.queue) <= MaxQueuedBytes
      /\ ni.queue \in Chunks /\ received \in Chunks
  BY <1>1, OpenFacts
<1>4. sends' \in [Sends -> {"idle", "writing", "written", "failed"}]
  BY <1>1, <1>2 DEF TransportTypeOK
<1>5. CASE TakeQueued
  <2> DEFINE q == ni.queue
             rest == Tail(q)
             h == Append(received, Head(q))
             a1 == [Now EXCEPT !.ni.queue = rest]
             a2 == [a1 EXCEPT !.received = h]
             u == Resumed(a2)
             b1 == [a2 EXCEPT !.ni.pausedForQueue = FALSE]
             b2 == [b1 EXCEPT !.socket.paused = FALSE]
  <2>1. q # <<>> /\ Become(u)
    <3>1. q # <<>> /\ Become(Resumed([Now EXCEPT !.ni.queue = Tail(@),
                                              !.received = Append(@, Head(ni.queue))]))
      BY <1>5 DEF TakeQueued
    <3>2. [Now EXCEPT !.ni.queue = Tail(@), !.received = Append(@, Head(ni.queue))] = a2
      BY <1>2
    <3> QED BY <3>1, <3>2
  <2>2. /\ rest \in Chunks /\ Head(q) \in Seq(Byte) /\ Len(rest) <= Len(q)
        /\ QueuedBytes(rest) <= QueuedBytes(q)
        /\ h \o rest = received \o q
    BY <1>3, <2>1, TailQueued
  <2>3. h \in Chunks
    <3> DEFINE x == Head(q)
               v == received
    <3>1. v \in Chunks /\ x \in Seq(Byte)
      BY <1>3, <2>2
    <3> HIDE DEF x, v
    <3>2. Append(v, x) \in Chunks
      BY <3>1, AppendProperties DEF Chunks
    <3> QED BY <3>2 DEF x, v
  <2> HIDE DEF rest, h
  <2>4. /\ a1 \in Seen /\ a1.ni.queue = rest /\ a1.ni.state = "open"
        /\ a1.ni.decoder = ni.decoder /\ a1.ni.pausedForQueue = ni.pausedForQueue
        /\ a1.received = received /\ a1.socket = socket
    BY <1>1, <1>2, <2>2 DEF Seen, Transports
  <2> HIDE DEF a1
  <2>5. /\ a2 \in Seen /\ a2.ni.queue = rest /\ a2.ni.state = "open"
        /\ a2.ni.decoder = ni.decoder /\ a2.ni.pausedForQueue = ni.pausedForQueue
        /\ a2.received = h /\ a2.socket = socket
    BY <2>3, <2>4 DEF Seen
  <2> HIDE DEF a2
  <2>6. a2.ni.pausedForQueue /\ a2.socket.paused
    BY <1>3, <2>1, <2>5
  <2>7. u = IF rest = <<>> THEN b2 ELSE a2
    BY <2>5, <2>6 DEF Resumed
  <2>8. /\ b1 \in Seen /\ b1.ni.queue = rest /\ b1.ni.state = "open"
        /\ b1.ni.decoder = ni.decoder /\ b1.ni.pausedForQueue = FALSE
        /\ b1.received = h /\ b1.socket = socket
    BY <2>5 DEF Seen, Transports
  <2> HIDE DEF b1
  <2>9. /\ b2 \in Seen /\ b2.ni = b1.ni /\ b2.received = h /\ b2.socket.paused = FALSE
        /\ b2.socket.state = socket.state /\ b2.socket.read = socket.read
    BY <1>2, <2>8 DEF Seen, Sockets
  <2> HIDE DEF b2, u
  <2>10. /\ u \in Seen /\ u.ni.state = "open" /\ u.ni.decoder = ni.decoder
         /\ u.ni.queue = rest /\ u.received = h
         /\ u.socket.state = socket.state /\ u.socket.read = socket.read
         /\ (u.ni.pausedForQueue <=> rest # <<>>) /\ (u.socket.paused <=> rest # <<>>)
    BY <2>5, <2>6, <2>7, <2>8, <2>9
  <2>11. Len(rest) <= MaxQueuedFrames /\ QueuedBytes(rest) <= MaxQueuedBytes
    BY <1>3, <2>2, QueuedType, NiSocketAssumption
  <2>12. u.received \o u.ni.queue = received \o ni.queue
    BY <2>2, <2>10
  <2> QED BY <1>1, <2>1, <2>10, <2>11, <2>12, StaysOpenInv
<1>6. CASE ResumeFails
  <2> DEFINE t == [Now EXCEPT !.ni.queue = <<>>]
  <2>1. Become(Failed(t, "NI_CONNECTION_CLOSED"))
    BY <1>6 DEF ResumeFails
  <2>2. /\ t \in Seen /\ t.ni.state = "open" /\ t.socket = socket
    BY <1>1, <1>2, NoneQueued DEF Seen, Transports
  <2> HIDE DEF t
  <2>3. /\ Steady /\ aborted' \in BOOLEAN /\ tunnel' = tunnel
    BY <1>1, <1>2, SameTypes DEF Same
  <2>4. setup' \in {"done", "failed"} /\ closing' \in {Nothing, "waiting", "settled"}
    BY <1>1, OpenFacts
  <2>5. t.ni.state # "closed" /\ socket.read <= t.socket.read
    BY <1>2, <2>2, SentIs
  <2> QED BY <1>4, <2>1, <2>2, <2>3, <2>4, <2>5, FailsInv, TerminalCode
<1>7. CASE Wait
  <2>1. PICK timing \in {"timed", "untimed"} : Become([Now EXCEPT !.ni.pending = timing])
    BY <1>7 DEF Wait
  <2> DEFINE u == [Now EXCEPT !.ni.pending = timing]
  <2>2. /\ u \in Seen /\ u.ni.state = "open" /\ u.ni.decoder = ni.decoder
        /\ u.ni.queue = ni.queue /\ u.received = received /\ u.socket = socket
        /\ u.ni.pausedForQueue = ni.pausedForQueue
    BY <1>1, <1>2 DEF Seen, Transports
  <2>3. Become(u)
    BY <2>1
  <2> HIDE DEF u
  <2> QED BY <1>1, <1>3, <2>2, <2>3, StaysOpenInv
<1>8. TakeQueued \/ ResumeFails \/ Wait
  BY DEF Receive
<1> QED BY <1>5, <1>6, <1>7, <1>8

\* A receive that fails leaves the rest to the failure.
LEMMA ReceiveFailsInv ==
  ASSUME TransportIndInv, ReceiveFails \/ AssertNoQueuedFrames, Outside
  PROVE  TransportIndInv'
<1>1. /\ ni.state = "open" /\ setup' = setup /\ sends' = sends /\ closing' = closing /\ Same
  BY DEF ReceiveFails, AssertNoQueuedFrames, Outside, Same
<1>2. TransportTypeOK
  BY DEF TransportIndInv
<1>3. sends' \in [Sends -> {"idle", "writing", "written", "failed"}]
  BY <1>1, <1>2 DEF TransportTypeOK
<1>4. PICK code \in TerminalCodes : Become(Failed(Now, code))
  BY TerminalCode DEF ReceiveFails, AssertNoQueuedFrames
<1> QED BY <1>1, <1>3, <1>4, OpenTransportFails

\* Only the promise of a send changes.
LEMMA SendsInv ==
  ASSUME TransportIndInv, NEW s \in Sends, Send(s) \/ Written(s), Outside
  PROVE  TransportIndInv'
<1>1. /\ Same /\ socket' = socket /\ setup' = setup /\ ni' = ni /\ received' = received
      /\ closing' = closing
  BY DEF Send, Written, Outside, Same
<1>2. TransportTypeOK /\ InStages
  BY DEF TransportIndInv
<1>3. PICK v \in {"writing", "written"} : sends' = [sends EXCEPT ![s] = v]
  BY DEF Send, Written
<1>4. sends' \in [Sends -> {"idle", "writing", "written", "failed"}]
  BY <1>2, <1>3 DEF TransportTypeOK
<1>5. ni.state # Nothing
  BY <1>2 DEF Send, Written, InStages, Nothing
<1>6. Steady /\ tunnel' = tunnel /\ Sent' = Sent /\ Sockets' = Sockets
  BY <1>1 DEF Same, Steady, Sent, Sockets
<1>7. TransportTypeOK'
  BY <1>1, <1>2, <1>4, <1>6 DEF TransportTypeOK, Same
<1>8. Bounded' /\ HeldWhileQueued' /\ NothingLeaks'
  BY <1>1, <1>6 DEF TransportIndInv, Bounded, HeldWhileQueued, NothingLeaks, Alive, Steady
<1>9. InStages'
  BY <1>1, <1>2, <1>5, <1>6 DEF InStages, SetupRuns
<1>10. BytesAccounted' /\ DecoderOK(ni.decoder)' /\ Parsed'
  BY <1>1, <1>6 DEF TransportIndInv, BytesAccounted, Parsed
<1> QED BY <1>7, <1>8, <1>9, <1>10 DEF TransportIndInv

\* A write that fails, and close()
LEMMA WriteFailsInv ==
  ASSUME TransportIndInv, NEW s \in Sends, SendFails(s) \/ WriteFails(s), Outside
  PROVE  TransportIndInv'
<1>1. /\ Same /\ setup' = setup /\ closing' = closing
      /\ sends' = [sends EXCEPT ![s] = "failed"]
  BY DEF SendFails, WriteFails, Outside, Same
<1>2. /\ Now \in Seen /\ Now.ni = ni /\ Now.socket = socket /\ TransportTypeOK
      /\ ni.state \in {"closing", "closed"} => Ended(ni, socket)
  BY NowSeen
<1>3. PICK code \in TerminalCodes : Become(Failed(Now, code))
  BY TerminalCode DEF SendFails, WriteFails
<1>4. ni.state # Nothing /\ InStages
  <2>1. InStages
    BY DEF TransportIndInv
  <2> QED BY <2>1 DEF SendFails, WriteFails, InStages, Nothing
<1>5. /\ Steady /\ aborted' \in BOOLEAN /\ tunnel' = tunnel
  BY <1>1, <1>2, SameTypes DEF Same
<1>6. /\ setup' \in {"done", "failed"} /\ closing' \in {Nothing, "waiting", "settled"}
      /\ sends' \in [Sends -> {"idle", "writing", "written", "failed"}]
  BY <1>1, <1>2, <1>4 DEF TransportTypeOK, InStages, SetupRuns
<1>7. socket.read <= Now.socket.read
  BY <1>2, SentIs
<1> QED BY <1>2, <1>3, <1>5, <1>6, <1>7, FailsInv

LEMMA CloseInv ==
  ASSUME TransportIndInv, CloseBegins \/ CloseTimesOut, Outside
  PROVE  TransportIndInv'
<1>1. /\ Same /\ setup' = setup /\ sends' = sends /\ closing' \in {"waiting", "settled"}
  BY DEF CloseBegins, CloseTimesOut, Outside, Same
<1>2. /\ Now \in Seen /\ Now.ni = ni /\ Now.socket = socket /\ Now.received = received
      /\ TransportTypeOK /\ ni \in Transports /\ socket \in Sockets /\ received \in Chunks
      /\ ni.state \in {"closing", "closed"} => Ended(ni, socket)
  BY NowSeen DEF TransportTypeOK
<1>3. /\ InStages
  BY DEF TransportIndInv
<1>4. ni.state \in {"open", "closing", "closed"}
  BY <1>3 DEF CloseBegins, CloseTimesOut, InStages, Nothing
<1>5. socket.state # "connecting" /\ setup \in {"done", "failed"}
  BY <1>2, <1>3, <1>4 DEF InStages, SetupRuns, Nothing, TransportTypeOK
<1>6. /\ ni' \in Transports /\ socket' \in Sockets /\ received' = received
      /\ socket'.read = socket.read /\ Ended(ni', socket')
      /\ setup = "failed" => socket'.state \notin {"up", "ending"}
  <2>1. CASE CloseBegins
    <3> DEFINE p == ni.pausedForQueue
               x == [NoTransport EXCEPT !.state = "closing", !.pausedForQueue = p]
    <3>1. /\ x \in Transports /\ x.state = "closing" /\ x.queue = <<>> /\ x.pending = Nothing
          /\ x.decoder = EmptyDecoder
      <4>1. p \in BOOLEAN
        BY <1>2 DEF Transports
      <4> DEFINE x1 == [NoTransport EXCEPT !.state = "closing"]
      <4>2. x = [x1 EXCEPT !.pausedForQueue = p]
        OBVIOUS
      <4> HIDE DEF p, x
      <4>3. EmptyDecoder \in Decoders /\ <<>> \in Chunks
        BY EmptyDecoderOK, NoneQueued DEF DecoderOK
      <4>4. /\ x1 \in Transports /\ x1.state = "closing" /\ x1.queue = <<>>
            /\ x1.pending = Nothing /\ x1.decoder = EmptyDecoder
        BY <4>3 DEF NoTransport, Transports
      <4> HIDE DEF x1
      <4> QED BY <4>1, <4>2, <4>4 DEF Transports
    <3>2. Quiet = [Now EXCEPT !.ni = x]
      BY DEF Quiet
    <3> HIDE DEF x
    <3>3. /\ Quiet \in Seen /\ Quiet.ni = x /\ Quiet.socket = socket /\ Quiet.received = received
      BY <1>2, <3>1, <3>2 DEF Seen
    <3>4. setup = "done"
      BY <2>1, <1>3 DEF CloseBegins, InStages
    <3>5. CASE Become([Quiet EXCEPT !.socket.state = IF @ = "up" THEN "ending" ELSE @])
      <4> DEFINE v == IF socket.state = "up" THEN "ending" ELSE socket.state
                 u == [Quiet EXCEPT !.socket.state = v]
      <4>1. Become(u)
        BY <3>3, <3>5
      <4>2. v \in {"connecting", "up", "ending", "destroyed", "closed"} /\ v # "connecting"
        BY <1>2, <1>5 DEF Sockets
      <4> HIDE DEF v
      <4>3. /\ u.ni = x /\ u.socket \in Sockets /\ u.socket.state = v
            /\ u.socket.read = socket.read /\ u.received = received
        BY <1>2, <3>3, <4>2 DEF Seen, Sockets
      <4> HIDE DEF u
      <4> QED BY <3>1, <3>4, <4>1, <4>2, <4>3 DEF Become, Ended
    <3>6. CASE Become([Quiet EXCEPT !.ni.state = "closed", !.socket = Destroyed(@)])
      <4> DEFINE a1 == [Quiet EXCEPT !.ni.state = "closed"]
                 d == Destroyed(socket)
                 u == [a1 EXCEPT !.socket = d]
      <4>1. /\ a1 \in Seen /\ a1.ni.state = "closed" /\ a1.ni.queue = <<>>
            /\ a1.ni.pending = Nothing /\ a1.ni.decoder = EmptyDecoder
            /\ a1.socket = socket /\ a1.received = received
        BY <3>1, <3>3 DEF Seen, Transports
      <4>2. Become(u)
        BY <3>3, <3>6
      <4> HIDE DEF a1
      <4>3. d \in Sockets /\ d.state \in {"destroyed", "closed"} /\ d.read = socket.read
        BY <1>2 DEF Sockets, Destroyed
      <4> HIDE DEF d
      <4>4. /\ u.ni = a1.ni /\ u.socket = d /\ u.received = received /\ u \in Seen
        BY <4>1, <4>3 DEF Seen
      <4> HIDE DEF u
      <4> QED BY <4>1, <4>2, <4>3, <4>4 DEF Become, Ended, Seen
    <3> QED BY <2>1, <3>5, <3>6 DEF CloseBegins
  <2>2. CASE CloseTimesOut
    <3> DEFINE a1 == [Now EXCEPT !.ni.state = "closed"]
               d == Destroyed(socket)
               u == [a1 EXCEPT !.socket = d]
    <3>1. Ended(ni, socket)
      BY <1>2, <1>3, <2>2 DEF CloseTimesOut, InStages, Nothing
    <3>2. /\ a1 \in Seen /\ a1.ni.state = "closed" /\ a1.ni.queue = <<>>
          /\ a1.ni.pending = Nothing /\ a1.ni.decoder = EmptyDecoder
          /\ a1.socket = socket /\ a1.received = received
      BY <1>2, <3>1 DEF Seen, Transports, Ended
    <3>3. Become(u)
      <4>1. Become([Now EXCEPT !.ni.state = "closed", !.socket = Destroyed(@)])
        BY <2>2 DEF CloseTimesOut
      <4> QED BY <1>2, <4>1
    <3> HIDE DEF a1
    <3>4. d \in Sockets /\ d.state \in {"destroyed", "closed"} /\ d.read = socket.read
      BY <1>2 DEF Sockets, Destroyed
    <3> HIDE DEF d
    <3>5. /\ u.ni = a1.ni /\ u.socket = d /\ u.received = received /\ u \in Seen
      BY <3>2, <3>4 DEF Seen
    <3> HIDE DEF u
    <3> QED BY <3>2, <3>3, <3>4, <3>5 DEF Become, Ended, Seen
  <2> QED BY <2>1, <2>2
<1>7. Steady /\ tunnel' \in Tunnels /\ aborted' \in BOOLEAN /\ tunnel' = tunnel
      /\ Sockets' = Sockets
  BY <1>1, <1>2, SameTypes DEF Same, Sockets, Sent
<1>8. KeepsTypes
  BY <1>1, <1>2, <1>6, <1>7 DEF KeepsTypes, TransportTypeOK
<1>9. socket.read <= socket'.read /\ setup' \in {"done", "failed"}
  BY <1>1, <1>2, <1>5, <1>6, SentIs
<1> QED BY <1>1, <1>6, <1>7, <1>8, <1>9, EndsInv, NiFramesAssumption, NiSocketAssumption,
           RoutedTransportAssumption

\* What the setup leaves alone until the transport stands
LEMMA SetupFacts ==
  ASSUME TransportIndInv, SetupRuns
  PROVE  /\ TransportTypeOK /\ InStages /\ ni.state = Nothing /\ closing = Nothing
         /\ received = <<>> /\ socket.read \in Nat /\ tunnel.taken \in 0..socket.read
         /\ tunnel.taken \in Nat /\ tunnel.buffered \in Seq(Byte)
         /\ route = "socks5" => Len(tunnel.buffered) <= MaxBufferedBytes
         /\ setup \in {"handshake", "handoff"} =>
              tunnel.buffered = SubSeq(Sent, tunnel.taken + 1, socket.read)
         /\ Now \in Seen /\ socket \in Sockets /\ tunnel \in Tunnels
<1>1. TransportTypeOK /\ InStages /\ Bounded /\ BytesAccounted
  BY DEF TransportIndInv
<1>2. ni.state = Nothing /\ received = <<>> /\ closing = Nothing
  BY <1>1 DEF InStages, Nothing
<1>3. socket.read \in Nat
  BY <1>1, SentIs
<1>4. tunnel \in Tunnels /\ socket \in Sockets
  BY <1>1 DEF TransportTypeOK
<1>5. tunnel.taken \in 0..socket.read /\ tunnel.taken \in Nat /\ tunnel.buffered \in Seq(Byte)
  BY <1>1, <1>3, <1>4 DEF InStages, Tunnels
<1>6. /\ route = "socks5" => Len(tunnel.buffered) <= MaxBufferedBytes
      /\ setup \in {"handshake", "handoff"} =>
           tunnel.buffered = SubSeq(Sent, tunnel.taken + 1, socket.read)
  BY <1>1 DEF Bounded, BytesAccounted
<1> QED BY <1>1, <1>2, <1>3, <1>4, <1>5, <1>6, NowSeen

\* A setup that fails
LEMMA NoTunnelIs ==
  /\ NoTunnel \in Tunnels /\ NoTunnel.taken = 0 /\ NoTunnel.buffered = <<>>
  /\ Len(NoTunnel.buffered) = 0
  BY EmptySeq DEF NoTunnel, Tunnels

LEMMA SetupFailsInv ==
  ASSUME TransportIndInv, SetupRuns, SetupFails, Steady, ni' = ni, received' = received,
         sends' = sends, closing' = closing, aborted' \in BOOLEAN
  PROVE  TransportIndInv'
<1>1. /\ TransportTypeOK /\ InStages /\ ni.state = Nothing /\ socket \in Sockets
  BY SetupFacts
<1>2. setup' = "failed" /\ socket' = Destroyed(socket) /\ tunnel' = NoTunnel
  BY DEF SetupFails
<1>3. Sockets' = Sockets
  BY DEF Sockets, Sent, Steady
<1>4. socket' \in Sockets /\ socket'.state \in {"destroyed", "closed"}
      /\ socket'.read = socket.read
  BY <1>1, <1>2 DEF Destroyed, Sockets
<1>5. KeepsTypes
  BY <1>1, <1>2, <1>3, <1>4, NoTunnelIs DEF KeepsTypes, TransportTypeOK
<1>6. /\ tunnel'.taken <= socket'.read
      /\ route = "socks5" => Len(tunnel'.buffered) <= MaxBufferedBytes
  BY <1>1, <1>2, <1>4, NoTunnelIs, SentIs, RoutedTransportAssumption
<1>7. ~SetupRuns'
  BY <1>2 DEF SetupRuns
<1> QED BY <1>1, <1>2, <1>4, <1>5, <1>6, <1>7, StartsInv

LEMMA NothingEncoded == Encoded(<<>> \o <<>>) = <<>> /\ Encoded(<<>>) = <<>>
<1>1. <<>> \o <<>> = <<>>
  BY EmptySeq, ConcatEmptySeq
<1>2. [i \in DOMAIN <<>> |-> EncodeNiFrame(<<>>[i])] = <<>>
  OBVIOUS
<1>3. Encoded(<<>>) = FlattenSeq(<<>>)
  BY <1>2 DEF Encoded
<1> QED BY <1>1, <1>3, FlattenEmpty

\* A transport that opens has nothing to account for yet.
LEMMA OpenedIs ==
  /\ Opened \in Transports /\ Opened.state = "open" /\ Opened.queue = <<>>
  /\ ~Opened.pausedForQueue /\ Opened.decoder = EmptyDecoder
<1>1. EmptyDecoder \in Decoders /\ <<>> \in Chunks
  BY EmptyDecoderOK, NoneQueued DEF DecoderOK
<1> QED BY <1>1 DEF Opened, NoTransport, Transports

\* The steps of the setup
LEMMA ConnectedInv ==
  ASSUME TransportIndInv, Connected
  PROVE  TransportIndInv'
<1>1. /\ setup = "connecting" /\ SetupRuns /\ socket' = [socket EXCEPT !.state = "up"]
      /\ stream' = stream /\ received' = received /\ sends' = sends /\ closing' = closing
      /\ route' = route /\ aborted' = aborted
  BY DEF Connected, SetupRuns
<1>2. /\ TransportTypeOK /\ InStages /\ ni.state = Nothing /\ closing = Nothing
      /\ received = <<>> /\ socket \in Sockets /\ tunnel \in Tunnels
  BY <1>1, SetupFacts
<1>3. socket.read = 0 /\ ~socket.paused /\ tunnel = NoTunnel
  BY <1>1, <1>2 DEF InStages
<1>4. /\ socket' \in Sockets /\ socket'.state = "up" /\ socket'.read = 0 /\ ~socket'.paused
  BY <1>1, <1>2, <1>3 DEF Sockets
<1>5. Sockets' = Sockets /\ Steady
  BY <1>1 DEF Sockets, Sent, Steady
<1>6. SubSeq(Sent, 0 + 1, 0) = <<>>
  BY CutNone
<1>7. CASE route = "direct"
  <2>1. setup' = "done" /\ ni' = Opened /\ tunnel' = NoTunnel
    BY <1>3, <1>7 DEF Connected
  <2>2. KeepsTypes
    BY <1>1, <1>2, <1>4, <1>5, <2>1, NoTunnelIs, OpenedIs DEF KeepsTypes, TransportTypeOK
  <2>3. OpenWell(ni', socket', received', SubSeq(Sent, tunnel'.taken + 1, socket'.read))
    <3>1. /\ ni'.state = "open" /\ ni'.queue = <<>> /\ ~ni'.pausedForQueue
          /\ ni'.decoder = EmptyDecoder
      BY <2>1, OpenedIs
    <3>2. DecoderOK(ni'.decoder) /\ ni'.decoder.buffered < LengthBytes + MaxPayloadLength
      BY <3>1, EmptyDecoderOK, NiFramesAssumption
    <3>3. /\ Len(ni'.queue) <= MaxQueuedFrames /\ QueuedBytes(ni'.queue) <= MaxQueuedBytes
      BY <3>1, NoneQueued, NiSocketAssumption
    <3>4. Encoded(received' \o ni'.queue) \o Remainder(ni'.decoder) = <<>>
      <4>1. <<>> \o <<>> = <<>>
        BY EmptySeq, ConcatEmptySeq
      <4>2. Encoded(received' \o ni'.queue) = <<>>
        BY <1>1, <1>2, <3>1, NothingEncoded
      <4>3. Remainder(ni'.decoder) = <<>>
        BY <3>1, EmptyDecoderOK
      <4> QED BY <4>1, <4>2, <4>3
    <3>5. SubSeq(Sent, tunnel'.taken + 1, socket'.read) = <<>>
      BY <1>4, <1>6, <2>1, NoTunnelIs
    <3>6. received' \o ni'.queue \in Seq(Payloads) /\ Waits(Remainder(ni'.decoder))
      <4>1. received' = <<>> /\ ni'.queue = <<>> /\ Remainder(ni'.decoder) = <<>>
        BY <1>1, <1>2, <3>1, EmptyDecoderOK
      <4>2. <<>> \o <<>> = <<>> /\ <<>> \in Seq(Payloads)
        BY EmptySeq, ConcatEmptySeq
      <4>3. Waits(<<>>)
        BY NoneQueued, NiFramesAssumption DEF Waits
      <4> QED BY <4>1, <4>2, <4>3
    <3> QED BY <3>1, <3>2, <3>3, <3>4, <3>5, <3>6 DEF OpenWell
  <2>4. /\ (socket'.paused <=> ni'.queue # <<>>) /\ tunnel'.taken <= socket'.read
        /\ route = "socks5" => Len(tunnel'.buffered) <= MaxBufferedBytes
    BY <1>4, <2>1, NoTunnelIs, OpenedIs, RoutedTransportAssumption
  <2> QED BY <1>1, <1>2, <1>4, <1>5, <2>1, <2>2, <2>3, <2>4, OpenInv
<1>8. CASE route # "direct"
  <2> DEFINE x1 == [NoTunnel EXCEPT !.requests = 1]
             ph == IF route = "socks5" THEN "method-response" ELSE NoTunnel.phase
             x == [x1 EXCEPT !.phase = ph]
  <2>1. setup' = "handshake" /\ ni' = ni /\ tunnel' = x
    BY <1>8 DEF Connected, NoTunnel, FirstRequest
  <2>2. x1 \in Tunnels /\ x1.taken = 0 /\ x1.buffered = <<>>
    BY NoTunnelIs DEF Tunnels
  <2>3. ph \in {Nothing, "method-response"}
    BY DEF NoTunnel
  <2> HIDE DEF x1, ph
  <2>4. x \in Tunnels /\ x.taken = 0 /\ x.buffered = <<>>
    BY <2>2, <2>3 DEF Tunnels
  <2> HIDE DEF x
  <2>5. KeepsTypes
    BY <1>1, <1>2, <1>4, <1>5, <2>1, <2>4 DEF KeepsTypes, TransportTypeOK
  <2>6. /\ tunnel'.taken <= socket'.read
        /\ route = "socks5" => Len(tunnel'.buffered) <= MaxBufferedBytes
    BY <1>4, <2>1, <2>4, NoneQueued, RoutedTransportAssumption
  <2>7. tunnel'.buffered = SubSeq(Sent, tunnel'.taken + 1, socket'.read)
    BY <1>4, <1>6, <2>1, <2>4
  <2>8. /\ SetupRuns' => SetupRuns
        /\ socket'.state # "connecting" /\ setup' \notin {"connecting", "failed"}
    BY <1>1, <1>4, <2>1
  <2> QED BY <1>1, <1>2, <1>5, <2>1, <2>5, <2>6, <2>7, <2>8, StartsInv
<1> QED BY <1>7, <1>8

LEMMA AttemptEndsInv ==
  ASSUME TransportIndInv, AttemptFails \/ Abort
  PROVE  TransportIndInv'
<1>1. /\ SetupRuns /\ stream' = stream /\ ni' = ni /\ received' = received /\ sends' = sends
      /\ closing' = closing /\ route' = route /\ Steady
  BY DEF AttemptFails, Abort, SetupRuns, Steady
<1>2. TransportTypeOK /\ ni.state = Nothing /\ InStages
  BY <1>1, SetupFacts
<1>3. aborted' \in BOOLEAN
  BY <1>2 DEF AttemptFails, Abort, TransportTypeOK
<1>4. CASE SetupFails
  BY <1>1, <1>3, <1>4, SetupFailsInv
<1>5. CASE ~SetupFails
  <2>1. setup = "handoff" /\ setup' = setup /\ socket' = socket /\ tunnel' = tunnel
    BY <1>5 DEF AttemptFails, Abort
  <2>2. Sockets' = Sockets
    BY <1>1 DEF Sockets, Sent
  <2>3. KeepsTypes
    BY <1>1, <1>2, <1>3, <2>1, <2>2 DEF KeepsTypes, TransportTypeOK
  <2>4. /\ tunnel'.taken <= socket'.read
        /\ route = "socks5" => Len(tunnel'.buffered) <= MaxBufferedBytes
        /\ tunnel'.buffered = SubSeq(Sent, tunnel'.taken + 1, socket'.read)
    BY <1>1, <2>1, SetupFacts
  <2>5. socket'.state # "connecting" /\ setup' \notin {"connecting", "failed"}
    BY <1>2, <2>1 DEF InStages
  <2> QED BY <1>1, <1>2, <2>3, <2>4, <2>5, StartsInv
<1> QED BY <1>4, <1>5

LEMMA HandshakeInv ==
  ASSUME TransportIndInv, HandshakeData
  PROVE  TransportIndInv'
<1>1. /\ setup = "handshake" /\ SetupRuns /\ socket.state \in {"up", "ending"}
      /\ stream' = stream /\ ni' = ni /\ received' = received /\ sends' = sends
      /\ closing' = closing /\ route' = route /\ aborted' = aborted /\ Steady
  BY DEF HandshakeData, Emits, Alive, SetupRuns, Steady
<1>2. /\ TransportTypeOK /\ ni.state = Nothing /\ socket.read \in Nat
      /\ tunnel.taken \in 0..socket.read /\ tunnel.taken \in Nat
      /\ tunnel.buffered \in Seq(Byte) /\ tunnel \in Tunnels
      /\ tunnel.buffered = SubSeq(Sent, tunnel.taken + 1, socket.read)
  BY <1>1, SetupFacts
<1>3. PICK n \in 1..Unemitted :
        LET r == Reply(tunnel, Chunk(n)) IN
        IF r.verdict = "rejected"
        THEN setup' = "failed" /\ socket' = Destroyed(Reading(n)) /\ tunnel' = NoTunnel
        ELSE /\ tunnel' = [phase |-> r.phase, requests |-> r.requests,
                           taken |-> r.taken,
                           buffered |-> IF r.verdict = Nothing THEN r.buffered ELSE Kept(r)]
             /\ setup' = IF r.verdict = Nothing THEN setup ELSE "handoff"
             /\ socket' = [Reading(n) EXCEPT !.paused = r.verdict # Nothing]
  BY DEF HandshakeData
<1> DEFINE c == Chunk(n)
           r == Reply(tunnel, c)
           all == tunnel.buffered \o c
           z == socket.read + n
<1>4. /\ c \in Seq(Byte) /\ n \in Nat /\ Reading(n) \in Sockets /\ Reading(n).read = z
      /\ Reading(n).state = socket.state /\ z \in Nat /\ z <= Len(Sent)
      /\ SubSeq(Sent, tunnel.taken + 1, socket.read) \o c = SubSeq(Sent, tunnel.taken + 1, z)
      /\ Sent \in Seq(Byte)
  <2> DEFINE k == tunnel.taken
             d == Chunk(n)
             m == socket.read
  <2>1. /\ d \in Seq(Byte) /\ n \in Nat /\ Reading(n) \in Sockets /\ Reading(n).read = m + n
        /\ Reading(n).state = socket.state
        /\ \A i \in 0..m : SubSeq(Sent, i + 1, m) \o d = SubSeq(Sent, i + 1, m + n)
    BY <1>2, ChunkIs
  <2>2. Sent \in Seq(Byte) /\ Len(Sent) \in Nat /\ Unemitted = Len(Sent) - m /\ m \in Nat
    BY <1>2, SentIs
  <2>3. k \in 0..m
    BY <1>2
  <2> HIDE DEF k, d, m
  <2>4. m + n \in Nat /\ m + n <= Len(Sent)
    BY <2>1, <2>2
  <2>5. SubSeq(Sent, k + 1, m) \o d = SubSeq(Sent, k + 1, m + n)
    BY <2>1, <2>3
  <2> QED BY <2>1, <2>2, <2>4, <2>5 DEF k, d, m
<1>5. all = SubSeq(Sent, tunnel.taken + 1, z)
  BY <1>2, <1>4
<1>6. /\ r \in Answers
      /\ \E size \in 0..Len(all) : /\ r.taken = tunnel.taken + size
                                   /\ r.buffered = SubSeq(all, size + 1, Len(all))
      /\ route = "socks5" /\ r.verdict # "rejected" => Len(all) <= MaxBufferedBytes
  BY <1>2, <1>4, ReplyIs, RoutedTransportAssumption
<1>7. Sockets' = Sockets
  BY <1>1 DEF Sockets, Sent
<1> HIDE DEF c, r, z
<1>8. CASE r.verdict = "rejected"
  <2>1. setup' = "failed" /\ socket' = Destroyed(Reading(n)) /\ tunnel' = NoTunnel
    BY <1>3, <1>8 DEF r, c
  <2>2. socket' \in Sockets /\ socket'.state \in {"destroyed", "closed"} /\ socket'.read = z
    BY <1>4, <2>1 DEF Destroyed, Sockets
  <2>3. KeepsTypes
    BY <1>1, <1>2, <1>7, <2>1, <2>2, NoTunnelIs DEF KeepsTypes, TransportTypeOK
  <2>4. /\ tunnel'.taken <= socket'.read
        /\ route = "socks5" => Len(tunnel'.buffered) <= MaxBufferedBytes
    BY <1>4, <2>1, <2>2, NoTunnelIs, RoutedTransportAssumption
  <2>5. ~SetupRuns'
    BY <2>1 DEF SetupRuns
  <2> QED BY <1>1, <1>2, <2>1, <2>2, <2>3, <2>4, <2>5, StartsInv
<1>9. CASE r.verdict # "rejected"
  <2> DEFINE b == IF r.verdict = Nothing THEN r.buffered ELSE Kept(r)
             paused == r.verdict # Nothing
  <2>1. /\ tunnel' = [phase |-> r.phase, requests |-> r.requests, taken |-> r.taken,
                      buffered |-> b]
        /\ setup' = (IF r.verdict = Nothing THEN setup ELSE "handoff")
        /\ socket' = [Reading(n) EXCEPT !.paused = paused]
    BY <1>3, <1>9 DEF r, c
  <2>2. b = r.buffered
    BY DEF Kept
  <2> HIDE DEF b
  <2>3. /\ tunnel' \in Tunnels /\ tunnel'.taken = r.taken /\ tunnel'.buffered = r.buffered
    BY <1>6, <2>1, <2>2 DEF Answers, Tunnels
  <2>4. paused \in BOOLEAN
    OBVIOUS
  <2> HIDE DEF paused
  <2>5. socket' \in Sockets /\ socket'.state = socket.state /\ socket'.read = z
    BY <1>4, <2>1, <2>4 DEF Sockets
  <2>6. setup' \in {"handshake", "handoff"}
    BY <1>1, <2>1
  <2>7. KeepsTypes
    BY <1>1, <1>2, <1>7, <2>3, <2>5, <2>6 DEF KeepsTypes, TransportTypeOK
  <2>8. PICK size \in 0..Len(all) : /\ r.taken = tunnel.taken + size
                                    /\ r.buffered = SubSeq(all, size + 1, Len(all))
    BY <1>6
  <2> DEFINE k == tunnel.taken
             m == Len(all)
  <2>9. m \in Nat /\ m = z - k /\ k \in Nat /\ k <= z
    <3>1. k \in Nat /\ k <= z /\ z \in Int
      BY <1>2, <1>4 DEF z
    <3> HIDE DEF k
    <3>2. Len(SubSeq(Sent, k + 1, z)) = (IF k <= z THEN z - k ELSE 0)
      BY <1>4, <3>1, Cut
    <3>3. m = Len(SubSeq(Sent, k + 1, z))
      BY <1>5, Zenon DEF k
    <3> QED BY <1>4, <3>1, <3>2, <3>3
  <2> HIDE DEF m, k, all
  <2>10. size \in Nat /\ size <= m /\ k + size \in Nat /\ k + size <= z /\ k + m = z
         /\ m <= z - k
    BY <1>4, <2>8, <2>9 DEF m
  <2>11. SubSeq(SubSeq(Sent, k + 1, z), size + 1, m) = SubSeq(Sent, k + size + 1, k + m)
    BY <1>4, <2>9, <2>10, CutCut
  <2>12. r.buffered = SubSeq(Sent, r.taken + 1, z)
    <3>1. r.buffered = SubSeq(SubSeq(Sent, k + 1, z), size + 1, m)
      BY <1>5, <2>8, Zenon DEF k, m
    <3>2. r.taken = k + size
      BY <2>8 DEF k
    <3> QED BY <2>10, <2>11, <3>1, <3>2, Zenon
  <2>13. tunnel'.taken <= socket'.read
    BY <2>3, <2>5, <2>8, <2>10 DEF k
  <2>14. route = "socks5" => Len(tunnel'.buffered) <= MaxBufferedBytes
    <3>1. Len(tunnel'.buffered) <= m
      <4>1. z \in Int /\ k + size <= z
        BY <1>4, <2>10
      <4> DEFINE i == k + size
      <4>2. i \in Nat /\ i <= z /\ r.taken = i
        BY <2>8, <2>10 DEF k
      <4> HIDE DEF i
      <4>3. Len(SubSeq(Sent, i + 1, z)) = (IF i <= z THEN z - i ELSE 0)
        BY <1>4, <4>1, <4>2, Cut
      <4>4. Len(tunnel'.buffered) = z - i
        BY <2>3, <2>12, <4>2, <4>3
      <4> QED BY <1>4, <2>9, <2>10, <4>4 DEF i
    <3>2. route = "socks5" => m <= MaxBufferedBytes
      BY <1>6, <1>9 DEF m
    <3>3. Len(tunnel'.buffered) \in Nat
      BY <2>3, LenProperties DEF Tunnels
    <3> QED BY <2>9, <3>1, <3>2, <3>3, RoutedTransportAssumption
  <2>15. tunnel'.buffered = SubSeq(Sent, tunnel'.taken + 1, socket'.read)
    BY <2>3, <2>5, <2>12
  <2>16. socket'.state # "connecting" /\ setup' \notin {"connecting", "failed"}
    BY <1>1, <2>5, <2>6
  <2> QED BY <1>1, <1>2, <2>7, <2>13, <2>14, <2>15, <2>16, StartsInv
<1> QED BY <1>8, <1>9

LEMMA BreaksInv ==
  ASSUME TransportIndInv, BreaksUnheard
  PROVE  TransportIndInv'
<1>1. /\ setup = "handoff" /\ SetupRuns /\ socket' = Destroyed(socket) /\ Same /\ setup' = setup
      /\ ni' = ni /\ received' = received /\ sends' = sends /\ closing' = closing
  BY DEF BreaksUnheard, SetupRuns, Same
<1>2. /\ TransportTypeOK /\ ni.state = Nothing /\ closing = Nothing /\ socket \in Sockets
      /\ socket.read \in Nat
  BY <1>1, SetupFacts
<1>3. /\ socket' \in Sockets /\ socket'.state \in {socket.state, "destroyed", "closed"}
      /\ socket'.read = socket.read /\ socket'.paused = socket.paused
  BY <1>1, <1>2 DEF Destroyed, Sockets
<1> QED BY <1>1, <1>2, <1>3, IdleInv DEF Nothing

LEMMA AdoptInv ==
  ASSUME TransportIndInv, Adopt
  PROVE  TransportIndInv'
<1> DEFINE o == [Now EXCEPT !.ni = Opened]
           b == tunnel.buffered
           t == OnData(o, b)
<1>1. /\ setup = "handoff" /\ SetupRuns /\ stream' = stream /\ sends' = sends
      /\ closing' = closing /\ route' = route /\ aborted' = aborted /\ Steady
  BY DEF Adopt, SetupRuns, Steady
<1>2. /\ TransportTypeOK /\ ni.state = Nothing /\ closing = Nothing /\ received = <<>>
      /\ socket.read \in Nat /\ tunnel.taken \in 0..socket.read /\ tunnel.taken \in Nat
      /\ b \in Seq(Byte) /\ tunnel \in Tunnels /\ Now \in Seen /\ Now.socket = socket
      /\ Now.received = received /\ b = SubSeq(Sent, tunnel.taken + 1, socket.read)
      /\ InStages
  BY <1>1, SetupFacts, NowSeen
<1>3. \/ SetupFails /\ ni' = ni /\ received' = received
      \/ Alive /\ t.ni.state # "open" /\ setup' = "failed" /\ tunnel' = NoTunnel /\ Become(t)
      \/ /\ Alive /\ t.ni.state = "open" /\ setup' = "done"
         /\ tunnel' = [tunnel EXCEPT !.buffered = <<>>] /\ Become(Flowing(t))
  BY DEF Adopt
<1> HIDE DEF b
<1>4. /\ o \in Seen /\ o.ni = Opened /\ o.socket = socket /\ o.received = <<>>
  BY <1>2, OpenedIs DEF Seen
<1> HIDE DEF o
<1>5. \/ t = Failed(o, "NI_PROTOCOL_ERROR")
      \/ /\ t \in Seen
         /\ OpenWell(t.ni, t.socket, t.received, b)
         /\ t.socket.state = socket.state /\ t.socket.read = socket.read
         /\ t.socket.paused = (socket.paused \/ t.ni.queue # <<>>)
  <2>1. /\ o.ni.state = "open" /\ o.ni.queue = <<>> /\ ~o.ni.pausedForQueue
        /\ DecoderOK(o.ni.decoder) /\ Remainder(o.ni.decoder) = <<>>
        /\ o.received \in Seq(Payloads)
    BY <1>4, OpenedIs, EmptyDecoderOK, EmptySeq
  <2>2. \/ t = Failed(o, "NI_PROTOCOL_ERROR")
        \/ /\ t \in Seen
           /\ OpenWell(t.ni, t.socket, t.received,
                       Encoded(o.received) \o (Remainder(o.ni.decoder) \o b))
           /\ t.socket.state = o.socket.state /\ t.socket.read = o.socket.read
           /\ t.socket.paused = (o.socket.paused \/ t.ni.queue # <<>>)
    BY <1>2, <1>4, <2>1, OnDataIs
  <2>3. Encoded(o.received) \o (Remainder(o.ni.decoder) \o b) = b
    <3>1. <<>> \o b = b
      BY <1>2, ConcatEmptySeq
    <3>2. Encoded(o.received) = <<>> /\ Remainder(o.ni.decoder) = <<>>
      BY <1>4, <2>1, NothingEncoded
    <3> QED BY <3>1, <3>2, Zenon
  <2> HIDE DEF t
  <2> QED BY <1>4, <2>2, <2>3
<1> HIDE DEF t
<1>6. CASE SetupFails /\ ni' = ni /\ received' = received
  <2>1. aborted' \in BOOLEAN
    BY <1>1, <1>2 DEF TransportTypeOK
  <2> QED BY <1>1, <1>6, <2>1, SetupFailsInv
<1>7. CASE t.ni.state # "open" /\ setup' = "failed" /\ tunnel' = NoTunnel /\ Become(t)
  <2>1. t = Failed(o, "NI_PROTOCOL_ERROR")
    BY <1>5, <1>7 DEF OpenWell
  <2>2. Become(Failed(o, "NI_PROTOCOL_ERROR"))
    BY <1>7, <2>1
  <2>3. /\ sends' \in [Sends -> {"idle", "writing", "written", "failed"}]
        /\ closing' \in {Nothing, "waiting", "settled"} /\ aborted' \in BOOLEAN
    BY <1>1, <1>2 DEF TransportTypeOK
  <2>4. o.ni.state # "closed" /\ socket.read <= o.socket.read
    BY <1>2, <1>4, OpenedIs
  <2> QED BY <1>1, <1>4, <1>7, <2>2, <2>3, <2>4, FailsInv, TerminalCode
<1>8. CASE /\ Alive /\ t.ni.state = "open" /\ setup' = "done"
           /\ tunnel' = [tunnel EXCEPT !.buffered = <<>>] /\ Become(Flowing(t))
  <2>1. t # Failed(o, "NI_PROTOCOL_ERROR")
    <3>1. o.ni.state # "closed"
      BY <1>4, OpenedIs
    <3>2. Failed(o, "NI_PROTOCOL_ERROR").ni.state = "closed"
      BY <1>4, <3>1, FailedIs, TerminalCode
    <3> QED BY <1>8, <3>2
  <2>2. /\ t \in Seen /\ OpenWell(t.ni, t.socket, t.received, b)
        /\ t.socket.state = socket.state /\ t.socket.read = socket.read
        /\ t.socket.paused = (socket.paused \/ t.ni.queue # <<>>)
    BY <1>5, <2>1
  <2>3. t.ni.pausedForQueue <=> t.ni.queue # <<>>
    BY <2>2 DEF OpenWell
  <2> DEFINE u == Flowing(t)
             x == [t EXCEPT !.socket.paused = FALSE]
  <2>4. u = IF t.ni.pausedForQueue THEN t ELSE x
    BY DEF Flowing
  <2>5. /\ x \in Seen /\ x.ni = t.ni /\ x.received = t.received /\ x.socket.paused = FALSE
        /\ x.socket.state = socket.state /\ x.socket.read = socket.read
    BY <2>2 DEF Seen, Sockets
  <2> HIDE DEF u, x
  <2>6. /\ u \in Seen /\ u.ni = t.ni /\ u.received = t.received
        /\ u.socket.state = socket.state /\ u.socket.read = socket.read
        /\ (u.socket.paused <=> u.ni.queue # <<>>)
    BY <2>2, <2>3, <2>4, <2>5
  <2>7. ni' = u.ni /\ socket' = u.socket /\ received' = u.received
    BY <1>8 DEF Become, u
  <2>8. tunnel' \in Tunnels /\ tunnel'.taken = tunnel.taken /\ tunnel'.buffered = <<>>
    BY <1>2, <1>8, EmptySeq DEF Tunnels
  <2>9. Sockets' = Sockets
    BY <1>1 DEF Sockets, Sent
  <2>10. KeepsTypes
    BY <1>1, <1>2, <1>8, <2>6, <2>7, <2>8, <2>9 DEF KeepsTypes, Seen, TransportTypeOK
  <2>11. OpenWell(ni', socket', received', SubSeq(Sent, tunnel'.taken + 1, socket'.read))
    <3>1. SubSeq(Sent, tunnel'.taken + 1, socket'.read) = b
      BY <1>2, <2>6, <2>7, <2>8
    <3>2. OpenWell(ni', socket', received', b)
      BY <2>2, <2>6, <2>7 DEF OpenWell
    <3> QED BY <3>1, <3>2
  <2>12. /\ (socket'.paused <=> ni'.queue # <<>>) /\ socket'.state # "connecting"
         /\ tunnel'.taken <= socket'.read
         /\ route = "socks5" => Len(tunnel'.buffered) <= MaxBufferedBytes
    BY <1>2, <1>8, <2>6, <2>7, <2>8, NoneQueued, RoutedTransportAssumption DEF Alive
  <2> QED BY <1>1, <1>2, <1>8, <2>10, <2>11, <2>12, OpenInv
<1> QED BY <1>3, <1>6, <1>7, <1>8

LEMMA AdoptFailsInv ==
  ASSUME TransportIndInv, AdoptFails
  PROVE  TransportIndInv'
<1> DEFINE x == [NoTransport EXCEPT !.state = "closed"]
           n == [x EXCEPT !.error = "NI_CONNECTION_CLOSED"]
<1>1. /\ setup = "handoff" /\ SetupRuns /\ SetupFails /\ stream' = stream /\ received' = received
      /\ sends' = sends /\ closing' = closing /\ route' = route /\ aborted' = aborted /\ Steady
      /\ ni' = n
  BY DEF AdoptFails, SetupRuns, Steady
<1>2. /\ TransportTypeOK /\ socket \in Sockets /\ socket.read \in Nat
  BY <1>1, SetupFacts
<1>3. setup' = "failed" /\ socket' = Destroyed(socket) /\ tunnel' = NoTunnel
  BY <1>1 DEF SetupFails
<1>4. /\ socket' \in Sockets /\ socket'.state \in {"destroyed", "closed"}
      /\ socket'.read = socket.read
  BY <1>2, <1>3 DEF Destroyed, Sockets
<1>5. /\ x \in Transports /\ x.state = "closed" /\ x.queue = <<>> /\ x.pending = Nothing
      /\ x.decoder = EmptyDecoder
  <2>1. EmptyDecoder \in Decoders /\ <<>> \in Chunks
    BY EmptyDecoderOK, NoneQueued DEF DecoderOK
  <2> QED BY <2>1 DEF NoTransport, Transports
<1> HIDE DEF x
<1>6. /\ n \in Transports /\ n.state = "closed" /\ n.queue = <<>> /\ n.pending = Nothing
      /\ n.decoder = EmptyDecoder
  BY <1>5, TerminalCode DEF Transports
<1> HIDE DEF n
<1>7. Sockets' = Sockets
  BY <1>1 DEF Sockets, Sent
<1>8. KeepsTypes
  BY <1>1, <1>2, <1>3, <1>4, <1>6, <1>7, NoTunnelIs DEF KeepsTypes, TransportTypeOK
<1>9. Ended(ni', socket') /\ socket.read <= socket'.read
  BY <1>1, <1>2, <1>4, <1>6 DEF Ended
<1> QED BY <1>1, <1>3, <1>4, <1>8, <1>9, EndsInv, NiFramesAssumption, NiSocketAssumption,
           RoutedTransportAssumption

\* Every step keeps the invariant.
LEMMA StepInv == TransportIndInv /\ [TransportNext]_transportVars => TransportIndInv'
<1> SUFFICES ASSUME TransportIndInv, [TransportNext]_transportVars PROVE TransportIndInv'
  OBVIOUS
<1>1. CASE SetsUp
  BY <1>1, ConnectedInv, AttemptEndsInv, HandshakeInv, BreaksInv, AdoptInv, AdoptFailsInv
  DEF SetsUp
<1>2. CASE NiNext /\ Outside
  BY <1>2, DataInv, EndInv, SocketErrorInv, SocketClosesInv, ReceiveInv, ReceiveFailsInv,
     SendsInv, WriteFailsInv, CloseInv DEF NiNext
<1>3. CASE UNCHANGED transportVars
  BY <1>3, StutterInv
<1> QED BY <1>1, <1>2, <1>3 DEF TransportNext, Outside

\* Every state of the dial, the handshake and the transport satisfies the
\* inductive invariant, whatever the peers send and however it is cut.
THEOREM TransportInvariant == TransportSpec => []TransportIndInv
<1>1. TransportInit => TransportIndInv
  BY InitInv
<1>2. TransportIndInv /\ [TransportNext]_transportVars => TransportIndInv'
  BY StepInv
<1> QED BY <1>1, <1>2, PTL DEF TransportSpec

\* The transport keeps its limits, holds its stream back exactly while
\* records wait, and leaves nothing behind when it ends: for every stream,
\* every number of sends and every size of the limits.
THEOREM TransportSafe == TransportSpec => []TransportInv
<1>1. TransportIndInv => TransportInv
  BY DEF TransportIndInv, TransportInv
<1> QED BY <1>1, TransportInvariant, PTL

\* However the stream of a router and its target is cut into chunks, the
\* handshake and the decoder hand out what came, record by record, and keep
\* the rest: no byte is lost, doubled or moved.
THEOREM NoByteLost == TransportSpec => []BytesAccounted
<1>1. TransportIndInv => BytesAccounted
  BY DEF TransportIndInv
<1> QED BY <1>1, TransportInvariant, PTL

(***************************************************************************)
(* The records of a stream                                                 *)
(***************************************************************************)
\* A step from a position to a later one, or the end: item[i] comes before what
\* follows from jump[i].
Leaps(N, stop, item, jump) ==
  /\ stop \subseteq 0..N /\ item \in [0..N -> Seq(Byte)] /\ jump \in [0..N -> Nat]
  /\ \A i \in (0..N) \ stop : i < jump[i] /\ jump[i] <= N
Follows(f, N, stop, item, jump) ==
  f = [i \in 0..N |-> IF i \in stop THEN <<>> ELSE <<item[i]>> \o f[jump[i]]]

\* What comes first, and the rest, are a queue.
LEMMA OneMore ==
  ASSUME NEW p \in Seq(Byte), NEW q \in Chunks
  PROVE  <<p>> \o q \in Chunks
BY DEF Chunks

\* A function defined by its later values exists.
LEMMA RecursionBack ==
  ASSUME NEW N \in Nat, NEW stop, NEW item, NEW jump, Leaps(N, stop, item, jump)
  PROVE  \E f \in [0..N -> Chunks] : Follows(f, N, stop, item, jump)
<1> DEFINE Value(f, i) == IF i \in stop THEN <<>> ELSE <<item[i]>> \o f[jump[i]]
           Good(f, k) == /\ f \in [(N - k)..N -> Chunks]
                         /\ \A i \in (N - k)..N : f[i] = Value(f, i)
           T == {k \in Nat : \E f : Good(f, k)}
<1>1. ASSUME NEW i \in 0..N, NEW q \in Chunks
      PROVE  <<item[i]>> \o q \in Chunks /\ <<>> \in Chunks
  <2>1. item[i] \in Seq(Byte)
    BY DEF Leaps
  <2>2. <<item[i]>> \o q \in Chunks
    BY <2>1, OneMore
  <2>3. <<>> \in Chunks
    BY DEF Chunks
  <2> QED BY <2>2, <2>3
<1>2. 0 \in T
  <2> DEFINE f == [i \in N..N |-> <<>>]
  <2>1. N \in stop
    BY DEF Leaps
  <2>2. <<>> \in Chunks
    BY DEF Chunks
  <2>3. f \in [(N - 0)..N -> Chunks] /\ \A i \in (N - 0)..N : f[i] = <<>> /\ i = N
    BY <2>2
  <2> HIDE DEF f
  <2>4. Good(f, 0)
    BY <2>1, <2>3
  <2> HIDE DEF Good
  <2> QED BY <2>4
<1>3. ASSUME NEW k \in 0..(N - 1), k \in T PROVE k + 1 \in T
  <2>1. PICK f : Good(f, k)
    BY <1>3
  <2> DEFINE j == N - (k + 1)
             x == Value(f, j)
             h == [i \in j..N |-> IF i = j THEN x ELSE f[i]]
  <2>2. j \in 0..N /\ N - k = j + 1 /\ j..N = {j} \cup (j + 1)..N /\ j \notin (j + 1)..N
    OBVIOUS
  <2>3. f \in [(j + 1)..N -> Chunks] /\ \A i \in (j + 1)..N : f[i] = Value(f, i)
    <3> HIDE DEF j, Value
    <3> QED BY <2>1, <2>2
  <2> HIDE DEF j, Good
  <2>4. ASSUME NEW i \in j..N, i \notin stop
        PROVE  jump[i] \in (j + 1)..N /\ f[jump[i]] \in Chunks /\ h[jump[i]] = f[jump[i]]
    <3>1. i \in 0..N
      BY <2>2
    <3>2. i < jump[i] /\ jump[i] <= N /\ jump[i] \in Nat
      BY <2>4, <3>1 DEF Leaps
    <3>3. jump[i] \in (j + 1)..N /\ jump[i] \in j..N /\ jump[i] # j
      BY <2>2, <3>1, <3>2
    <3> HIDE DEF x
    <3> QED BY <2>3, <3>3
  <2>5. x \in Chunks
    <3>1. CASE j \in stop
      BY <3>1 DEF Chunks
    <3>2. CASE j \notin stop
      <4>1. j \in j..N
        BY <2>2
      <4>2. f[jump[j]] \in Chunks
        BY <2>4, <3>2, <4>1
      <4> QED BY <1>1, <2>2, <3>2, <4>2
    <3> QED BY <3>1, <3>2
  <2>6. ASSUME NEW i \in j..N
        PROVE  h[i] \in Chunks /\ h[i] = Value(h, i)
    <3>1. h[i] \in Chunks /\ h[i] = Value(f, i)
      <4>1. CASE i = j
        BY <2>5, <4>1
      <4>2. CASE i \in (j + 1)..N
        <5>1. h[i] = f[i]
          <6> HIDE DEF x, Value
          <6> QED BY <2>2, <4>2
        <5> HIDE DEF h, Value
        <5> QED BY <2>3, <4>2, <5>1
      <4> QED BY <2>2, <4>1, <4>2
    <3>2. Value(h, i) = Value(f, i)
      <4>1. CASE i \in stop
        BY <4>1
      <4>2. CASE i \notin stop
        <5> HIDE DEF h, x
        <5> QED BY <2>4, <4>2
      <4> QED BY <4>1, <4>2
    <3> HIDE DEF h, Value
    <3> QED BY <3>1, <3>2
  <2>7. h = [i \in j..N |-> h[i]]
    <3> HIDE DEF x
    <3> QED OBVIOUS
  <2> HIDE DEF h, Value
  <2>8. Good(h, k + 1)
    <3>1. h \in [j..N -> Chunks]
      BY <2>6, <2>7
    <3> QED BY <2>6, <3>1 DEF Good, j
  <2> QED BY <2>8
<1> HIDE DEF T
<1>4. N \in T
  <2>1. 0..N \subseteq T
    BY <1>2, <1>3, BoundedInduction
  <2> QED BY <2>1
<1>5. PICK f : Good(f, N)
  BY <1>4 DEF T
<1>6. N - N = 0
  OBVIOUS
<1>7. f \in [0..N -> Chunks] /\ \A i \in 0..N : f[i] = Value(f, i)
  <2> HIDE DEF Value
  <2> QED BY <1>5, <1>6
<1>8. f = [i \in 0..N |-> Value(f, i)]
  <2>1. f = [i \in 0..N |-> f[i]]
    BY <1>7
  <2> HIDE DEF Value
  <2> QED BY <1>7, <2>1
<1>9. Follows(f, N, stop, item, jump)
  BY <1>8 DEF Follows
<1> QED BY <1>7, <1>9

\* The length field at a position, the position after its record, and whether
\* no record can be read there
FieldAt(bytes, i) == Number(SubSeq(bytes, i + 1, i + LengthBytes))
NextAt(bytes, i) == i + LengthBytes + FieldAt(bytes, i)
EndsAt(bytes, i) ==
  \/ i + LengthBytes > Len(bytes)
  \/ FieldAt(bytes, i) > MaxPayloadLength \/ NextAt(bytes, i) > Len(bytes)
RecordAt(bytes, i) == SubSeq(bytes, i + LengthBytes + 1, NextAt(bytes, i))
\* f[i] are the records from position i on.
Parse(f, bytes, i) ==
  IF EndsAt(bytes, i) THEN <<>> ELSE <<RecordAt(bytes, i)>> \o f[NextAt(bytes, i)]
Parses(f, bytes) == \A i \in 0..Len(bytes) : f[i] = Parse(f, bytes, i)

\* A record lies within the bytes, and the next one begins later.
LEMMA RecordWithin ==
  ASSUME NEW bytes \in Seq(Byte), NEW i \in 0..Len(bytes)
  PROVE  /\ i + LengthBytes <= Len(bytes) => FieldAt(bytes, i) \in Nat
         /\ ~EndsAt(bytes, i) => /\ FieldAt(bytes, i) \in Nat
                                 /\ RecordAt(bytes, i) \in Seq(Byte)
                                 /\ NextAt(bytes, i) \in 0..Len(bytes)
                                 /\ i < NextAt(bytes, i)
<1>1. Len(bytes) \in Nat /\ LengthBytes \in Nat \ {0}
  BY LenProperties, NiFramesAssumption
<1>2. ASSUME i + LengthBytes <= Len(bytes) PROVE FieldAt(bytes, i) \in Nat
  <2>1. i \in Nat /\ i + LengthBytes \in Int
    BY <1>1
  <2>2. SubSeq(bytes, i + 1, i + LengthBytes) \in Seq(Byte)
    BY <1>2, <2>1, Cut
  <2> QED BY <2>2, NumberType DEF FieldAt
<1>3. ASSUME ~EndsAt(bytes, i)
      PROVE  /\ FieldAt(bytes, i) \in Nat /\ RecordAt(bytes, i) \in Seq(Byte)
             /\ NextAt(bytes, i) \in 0..Len(bytes) /\ i < NextAt(bytes, i)
  <2>1. ~(i + LengthBytes > Len(bytes)) /\ ~(NextAt(bytes, i) > Len(bytes))
    BY <1>3 DEF EndsAt
  <2>2. FieldAt(bytes, i) \in Nat
    BY <1>1, <1>2, <2>1
  <2>3. NextAt(bytes, i) = i + LengthBytes + FieldAt(bytes, i)
    BY DEF NextAt
  <2>4. /\ NextAt(bytes, i) \in 0..Len(bytes) /\ i < NextAt(bytes, i)
        /\ NextAt(bytes, i) \in Int /\ NextAt(bytes, i) <= Len(bytes)
        /\ i + LengthBytes \in Nat
    BY <1>1, <2>1, <2>2, <2>3
  <2>5. SubSeq(bytes, i + LengthBytes + 1, NextAt(bytes, i)) \in Seq(Byte)
    BY <2>4, Cut
  <2> QED BY <2>2, <2>4, <2>5 DEF RecordAt
<1> QED BY <1>2, <1>3

\* The records from each position are a function, and there is one.
LEMMA ParseExists ==
  ASSUME NEW bytes \in Seq(Byte)
  PROVE  \E f \in [0..Len(bytes) -> Chunks] :
           Parses(f, bytes) /\ f = [i \in 0..Len(bytes) |-> Parse(f, bytes, i)]
<1> DEFINE N == Len(bytes)
           stop == {i \in 0..N : EndsAt(bytes, i)}
           item == [i \in 0..N |-> IF i \in stop THEN <<>> ELSE RecordAt(bytes, i)]
           jump == [i \in 0..N |-> IF i \in stop THEN 0 ELSE NextAt(bytes, i)]
<1>1. N \in Nat /\ stop \subseteq 0..N /\ \A i \in 0..N : i \in stop <=> EndsAt(bytes, i)
  BY LenProperties
<1>2. ASSUME NEW i \in 0..N
      PROVE  /\ item[i] \in Seq(Byte) /\ jump[i] \in Nat
             /\ i \notin stop => /\ item[i] = RecordAt(bytes, i) /\ i < jump[i]
                                 /\ jump[i] = NextAt(bytes, i) /\ jump[i] <= N
  <2>1. CASE i \in stop
    <3>1. item[i] = <<>> /\ jump[i] = 0
      <4> HIDE DEF stop
      <4> QED BY <2>1
    <3> QED BY <2>1, <3>1
  <2>2. CASE i \notin stop
    <3>1. item[i] = RecordAt(bytes, i) /\ jump[i] = NextAt(bytes, i)
      <4> HIDE DEF stop
      <4> QED BY <2>2
    <3>2. ~EndsAt(bytes, i)
      BY <2>2
    <3>3. /\ RecordAt(bytes, i) \in Seq(Byte) /\ NextAt(bytes, i) \in 0..Len(bytes)
          /\ i < NextAt(bytes, i)
      BY <3>2, RecordWithin
    <3> HIDE DEF item, jump, stop
    <3> QED BY <1>1, <2>2, <3>1, <3>3
  <2> QED BY <2>1, <2>2
<1>3. item = [i \in 0..N |-> item[i]] /\ jump = [i \in 0..N |-> jump[i]]
  <2> HIDE DEF stop
  <2> QED OBVIOUS
<1> HIDE DEF item, jump, stop, N
<1>4. Leaps(N, stop, item, jump)
  BY <1>1, <1>2, <1>3 DEF Leaps
<1>5. PICK f \in [0..N -> Chunks] : Follows(f, N, stop, item, jump)
  BY <1>1, <1>4, RecursionBack
<1>6. ASSUME NEW i \in 0..N PROVE f[i] = Parse(f, bytes, i)
  <2>1. f[i] = IF i \in stop THEN <<>> ELSE <<item[i]>> \o f[jump[i]]
    BY <1>5 DEF Follows
  <2> QED BY <1>1, <1>2, <2>1 DEF Parse
<1>7. f = [i \in 0..N |-> f[i]]
  BY <1>5
<1>8. f = [i \in 0..N |-> Parse(f, bytes, i)]
  BY <1>6, <1>7
<1>9. Parses(f, bytes)
  BY <1>6 DEF Parses, N
<1> QED BY <1>5, <1>8, <1>9 DEF N

\* Behind other bytes, the same records are read.
LEMMA FieldBehind ==
  ASSUME NEW e \in Seq(Byte), NEW x \in Seq(Byte), NEW i \in 0..Len(x)
  PROVE  /\ EndsAt(e \o x, Len(e) + i) <=> EndsAt(x, i)
         /\ ~EndsAt(x, i) => /\ NextAt(e \o x, Len(e) + i) = Len(e) + NextAt(x, i)
                             /\ RecordAt(e \o x, Len(e) + i) = RecordAt(x, i)
<1>1. /\ Len(e) \in Nat /\ Len(x) \in Nat /\ LengthBytes \in Nat \ {0} /\ i \in Nat
      /\ Len(e \o x) = Len(e) + Len(x)
  <2>1. Len(e) \in Nat /\ Len(x) \in Nat
    BY LenProperties
  <2> QED BY <2>1, ConcatProperties, NiFramesAssumption
<1>2. CASE i + LengthBytes > Len(x)
  BY <1>1, <1>2 DEF EndsAt
<1>3. CASE ~(i + LengthBytes > Len(x))
  <2>1. i + LengthBytes \in Nat /\ i + LengthBytes <= Len(x)
    BY <1>1, <1>3
  <2>2. SubSeq(e \o x, Len(e) + i + 1, Len(e) + (i + LengthBytes))
          = SubSeq(x, i + 1, i + LengthBytes)
    BY <1>1, <2>1, CutRight
  <2>3. /\ (Len(e) + i) + 1 = Len(e) + i + 1
        /\ (Len(e) + i) + LengthBytes = Len(e) + (i + LengthBytes)
    BY <1>1
  <2>4. FieldAt(e \o x, Len(e) + i) = FieldAt(x, i)
    BY <2>2, <2>3 DEF FieldAt
  <2>5. FieldAt(x, i) \in Nat
    BY <2>1, RecordWithin
  <2>6. NextAt(e \o x, Len(e) + i) = Len(e) + NextAt(x, i) /\ NextAt(x, i) \in Nat
    BY <1>1, <2>4, <2>5 DEF NextAt
  <2>7. EndsAt(e \o x, Len(e) + i) <=> EndsAt(x, i)
    BY <1>1, <2>1, <2>4, <2>6 DEF EndsAt
  <2>8. ASSUME ~EndsAt(x, i) PROVE RecordAt(e \o x, Len(e) + i) = RecordAt(x, i)
    <3>1. NextAt(x, i) <= Len(x)
      BY <1>1, <2>6, <2>8 DEF EndsAt
    <3>2. SubSeq(e \o x, Len(e) + (i + LengthBytes) + 1, Len(e) + NextAt(x, i))
            = SubSeq(x, (i + LengthBytes) + 1, NextAt(x, i))
      <4> DEFINE a == i + LengthBytes
                 b == NextAt(x, i)
      <4>1. a \in Nat /\ b \in Nat /\ b <= Len(x)
        BY <2>1, <2>6, <3>1
      <4> HIDE DEF a, b
      <4>2. SubSeq(e \o x, Len(e) + a + 1, Len(e) + b) = SubSeq(x, a + 1, b)
        BY <4>1, CutRight
      <4> QED BY <4>2 DEF a, b
    <3>3. (Len(e) + i) + LengthBytes + 1 = Len(e) + (i + LengthBytes) + 1
      BY <1>1
    <3> QED BY <2>6, <3>2, <3>3 DEF RecordAt
  <2> QED BY <2>6, <2>7, <2>8
<1> QED BY <1>2, <1>3

LEMMA ParseBehind ==
  ASSUME NEW e \in Seq(Byte), NEW x \in Seq(Byte),
         NEW f, Parses(f, e \o x), NEW h, Parses(h, x)
  PROVE  \A i \in 0..Len(x) : f[Len(e) + i] = h[i]
<1> DEFINE N == Len(x)
           T == {k \in Nat : \A i \in 0..N : N - i < k => f[Len(e) + i] = h[i]}
<1>1. Len(e) \in Nat /\ N \in Nat /\ Len(e \o x) = Len(e) + N
  <2>1. Len(e) \in Nat /\ Len(x) \in Nat
    BY LenProperties
  <2> QED BY <2>1, ConcatProperties
<1>2. 0 \in T
  BY <1>1
<1>3. ASSUME NEW k \in 0..N, k \in T PROVE k + 1 \in T
  <2> SUFFICES ASSUME NEW i \in 0..N, N - i < k + 1 PROVE f[Len(e) + i] = h[i]
    BY <1>1
  <2>1. Len(e) + i \in 0..Len(e \o x) /\ i \in 0..Len(x)
    <3> HIDE DEF T
    <3> QED BY <1>1
  <2>2. f[Len(e) + i] = Parse(f, e \o x, Len(e) + i) /\ h[i] = Parse(h, x, i)
    BY <2>1 DEF Parses
  <2>3. EndsAt(e \o x, Len(e) + i) <=> EndsAt(x, i)
    BY <2>1, FieldBehind
  <2>4. CASE EndsAt(x, i)
    BY <2>2, <2>3, <2>4 DEF Parse
  <2>5. CASE ~EndsAt(x, i)
    <3>1. /\ NextAt(e \o x, Len(e) + i) = Len(e) + NextAt(x, i)
          /\ RecordAt(e \o x, Len(e) + i) = RecordAt(x, i)
      BY <2>1, <2>5, FieldBehind
    <3>2. NextAt(x, i) \in 0..N /\ i < NextAt(x, i)
      BY <2>1, <2>5, RecordWithin
    <3>3. N - NextAt(x, i) < k
      <4> HIDE DEF T, N
      <4> QED BY <1>1, <3>2
    <3>4. f[Len(e) + NextAt(x, i)] = h[NextAt(x, i)]
      BY <1>3, <3>2, <3>3
    <3> HIDE DEF T, N
    <3> QED BY <2>2, <2>3, <2>5, <3>1, <3>4 DEF Parse
  <2> QED BY <2>4, <2>5
<1> HIDE DEF T
<1>4. N + 1 \in Nat /\ (N + 1) - 1 = N
  BY <1>1
<1>5. N + 1 \in T
  <2>1. 0..(N + 1) \subseteq T
    <3> HIDE DEF N
    <3> QED BY <1>2, <1>3, <1>4, BoundedInduction
  <2> HIDE DEF N
  <2> QED BY <1>1, <2>1
<1>6. \A i \in 0..N : N - i < N + 1
  <2> HIDE DEF N
  <2> QED BY <1>1
<1> QED BY <1>5, <1>6 DEF T

\* The recursion of Records reads the stream record by record.
LEMMA RecordsAre ==
  ASSUME NEW x \in Seq(Byte), NEW h, Parses(h, x)
  PROVE  Records(x) = h[0]
<1> DEFINE Is(f) == f = [i \in 0..Len(x) |-> Parse(f, x, i)]
           from == CHOOSE f : Is(f)
<1>1. Records(x) = from[0]
  BY DEF Records, Parse, EndsAt, NextAt, FieldAt, RecordAt
<1>2. PICK f : Is(f)
  BY ParseExists
<1>3. Is(from)
  BY <1>2
<1> HIDE DEF from
<1>4. Parses(from, x)
  BY <1>3 DEF Parses
<1>5. <<>> \in Seq(Byte) /\ <<>> \o x = x /\ Len(<<>>) = 0 /\ 0 \in 0..Len(x)
  <2>1. Len(x) \in Nat
    BY LenProperties
  <2> QED BY <2>1
<1>6. from[Len(<<>>) + 0] = h[0]
  <2> DEFINE e == <<>>
  <2>1. e \in Seq(Byte) /\ Parses(from, e \o x)
    BY <1>4, <1>5
  <2> HIDE DEF e
  <2>2. \A i \in 0..Len(x) : from[Len(e) + i] = h[i]
    BY <2>1, ParseBehind
  <2> QED BY <1>5, <2>2 DEF e
<1> QED BY <1>1, <1>5, <1>6

\* In such a rest there is no record.
LEMMA NothingWhole ==
  ASSUME NEW x \in Seq(Byte), Waits(x)
  PROVE  Records(x) = <<>>
<1>1. PICK h \in [0..Len(x) -> Chunks] : Parses(h, x)
  BY ParseExists
<1>2. Len(x) \in Nat /\ 0 \in 0..Len(x) /\ LengthBytes \in Nat
  <2>1. Len(x) \in Nat
    BY LenProperties
  <2> QED BY <2>1, NiFramesAssumption
<1>3. 0 + LengthBytes = LengthBytes /\ 0 + 1 = 1
  BY <1>2
<1>4. FieldAt(x, 0) = Number(SubSeq(x, 1, LengthBytes))
  BY <1>3 DEF FieldAt
<1>5. EndsAt(x, 0)
  BY <1>2, <1>3, <1>4 DEF Waits, EndsAt, NextAt
<1>6. h[0] = <<>>
  BY <1>1, <1>2, <1>5 DEF Parses, Parse
<1> QED BY <1>1, <1>6, RecordsAre

\* The length field has its length.
LEMMA DigitsLength ==
  ASSUME NEW n \in Nat
  PROVE  Len(Digits(n)) = LengthBytes
<1> DEFINE f == CHOOSE f : f = [i \in 0..LengthBytes |->
                                 IF i = LengthBytes THEN n ELSE f[i + 1] \div 256]
<1>1. Digits(n) = [i \in 1..LengthBytes |-> f[i] % 256]
  BY DEF Digits
<1> HIDE DEF f
<1>2. LengthBytes \in Nat
  BY NiFramesAssumption
<1> QED BY <1>1, <1>2

\* A record is read back, and reading goes on behind it.
LEMMA RecordFirst ==
  ASSUME NEW p \in Payloads, NEW x \in Seq(Byte)
  PROVE  /\ EncodeNiFrame(p) \o x \in Seq(Byte)
         /\ Records(EncodeNiFrame(p) \o x) = <<p>> \o Records(x)
<1> DEFINE digits == Digits(Len(p))
           e == EncodeNiFrame(p)
           y == e \o x
<1>1. /\ p \in Seq(Byte) /\ Len(p) \in Nat /\ Len(p) <= MaxPayloadLength
      /\ Number(digits) = Len(p) /\ Len(x) \in Nat /\ LengthBytes \in Nat \ {0}
      /\ MaxPayloadLength \in Nat
  <2>1. p \in Seq(Byte) /\ Len(p) <= MaxPayloadLength /\ Number(digits) = Len(p)
    BY DEF Payloads
  <2>2. Len(p) \in Nat /\ Len(x) \in Nat
    BY <2>1, LenProperties
  <2> QED BY <2>1, <2>2, NiFramesAssumption
<1>2. digits \in Seq(Byte) /\ Len(digits) = LengthBytes
  <2>1. digits \in Seq(Byte)
    BY <1>1, DigitsType
  <2>2. Len(digits) = LengthBytes
    BY <1>1, DigitsLength
  <2> QED BY <2>1, <2>2
<1>3. e = digits \o p
  BY DEF EncodeNiFrame
<1> HIDE DEF digits, e
<1>4. /\ e \in Seq(Byte) /\ Len(e) = LengthBytes + Len(p) /\ y \in Seq(Byte)
      /\ Len(y) = Len(e) + Len(x)
  BY <1>1, <1>2, <1>3, ConcatProperties
<1> HIDE DEF y
<1>5. SubSeq(y, 1, LengthBytes) = digits
  <2>1. SubSeq(y, 0 + 1, LengthBytes) = SubSeq(e, 0 + 1, LengthBytes)
    BY <1>1, <1>4, CutLeft DEF y
  <2>2. SubSeq(e, 0 + 1, LengthBytes) = SubSeq(digits, 0 + 1, LengthBytes)
    BY <1>1, <1>2, <1>3, CutLeft
  <2>3. SubSeq(digits, 1, LengthBytes) = digits
    BY <1>1, <1>2
  <2>4. 0 + 1 = 1
    OBVIOUS
  <2> QED BY <2>1, <2>2, <2>3, <2>4, Zenon
<1>6. FieldAt(y, 0) = Len(p) /\ NextAt(y, 0) = Len(e)
  <2>1. 0 + 1 = 1 /\ 0 + LengthBytes = LengthBytes
    BY <1>1
  <2>2. FieldAt(y, 0) = Len(p)
    BY <1>1, <1>5, <2>1, Zenon DEF FieldAt
  <2>3. NextAt(y, 0) = 0 + LengthBytes + FieldAt(y, 0)
    BY DEF NextAt
  <2>4. NextAt(y, 0) = LengthBytes + Len(p)
    BY <2>1, <2>2, <2>3, Zenon
  <2> QED BY <1>4, <2>2, <2>4, Zenon
<1>7. ~EndsAt(y, 0)
  BY <1>1, <1>4, <1>6 DEF EndsAt
<1>8. RecordAt(y, 0) = p
  <2>1. SubSeq(y, LengthBytes + 1, Len(e)) = SubSeq(e, LengthBytes + 1, Len(e))
    BY <1>1, <1>4, CutLeft DEF y
  <2>2. SubSeq(digits \o p, Len(digits) + 0 + 1, Len(digits) + Len(p))
          = SubSeq(p, 0 + 1, Len(p))
    BY <1>1, <1>2, CutRight
  <2>3. SubSeq(p, 1, Len(p)) = p
    BY <1>1
  <2>4. SubSeq(e, LengthBytes + 1, Len(e)) = p
    BY <1>1, <1>2, <1>3, <1>4, <2>2, <2>3
  <2> QED BY <1>1, <1>6, <2>1, <2>4 DEF RecordAt
<1>9. PICK f \in [0..Len(y) -> Chunks] : Parses(f, y)
  BY <1>4, ParseExists
<1>10. PICK h \in [0..Len(x) -> Chunks] : Parses(h, x)
  BY ParseExists
<1>11. f[0] = <<p>> \o f[Len(e)]
  <2>1. 0 \in 0..Len(y)
    BY <1>1, <1>4
  <2> QED BY <1>6, <1>7, <1>8, <1>9, <2>1 DEF Parses, Parse
<1>12. f[Len(e)] = h[0]
  <2>1. \A i \in 0..Len(x) : f[Len(e) + i] = h[i]
    BY <1>4, <1>9, <1>10, ParseBehind DEF y
  <2>2. 0 \in 0..Len(x) /\ Len(e) + 0 = Len(e)
    BY <1>1, <1>4
  <2> QED BY <2>1, <2>2
<1>13. Records(y) = f[0] /\ Records(x) = h[0]
  BY <1>4, <1>9, <1>10, RecordsAre
<1> QED BY <1>4, <1>11, <1>12, <1>13 DEF y, e

\* The records of a stream are a queue.
LEMMA RecordsType ==
  ASSUME NEW x \in Seq(Byte)
  PROVE  Records(x) \in Chunks
<1>1. PICK h \in [0..Len(x) -> Chunks] : Parses(h, x)
  BY ParseExists
<1>2. 0 \in 0..Len(x)
  BY LenProperties
<1>3. Records(x) = h[0]
  BY <1>1, RecordsAre
<1> QED BY <1>1, <1>2, <1>3

\* Whole records, and what follows them, are read one after the other.
LEMMA RecordsJoin ==
  ASSUME NEW ps \in Seq(Payloads), NEW x \in Seq(Byte)
  PROVE  Records(Encoded(ps) \o x) = ps \o Records(x)
<1> DEFINE T == {n \in Nat : \A qs \in Seq(Payloads) : Len(qs) = n =>
                   \A y \in Seq(Byte) : Records(Encoded(qs) \o y) = qs \o Records(y)}
<1>1. 0 \in T
  <2> SUFFICES ASSUME NEW qs \in Seq(Payloads), Len(qs) = 0, NEW y \in Seq(Byte)
               PROVE  Records(Encoded(qs) \o y) = qs \o Records(y)
    OBVIOUS
  <2>1. qs = <<>>
    BY EmptySeq
  <2>2. Encoded(qs) = <<>>
    BY <2>1, NothingEncoded
  <2>3. <<>> \o y = y
    OBVIOUS
  <2>4. Records(y) \in Chunks
    BY RecordsType
  <2>5. <<>> \o Records(y) = Records(y)
    BY <2>4 DEF Chunks
  <2> QED BY <2>1, <2>2, <2>3, <2>5
<1>2. ASSUME NEW n \in Nat, n \in T PROVE n + 1 \in T
  <2> SUFFICES ASSUME NEW qs \in Seq(Payloads), Len(qs) = n + 1, NEW y \in Seq(Byte)
               PROVE  Records(Encoded(qs) \o y) = qs \o Records(y)
    OBVIOUS
  <2> DEFINE front == SubSeq(qs, 1, n)
             p == qs[n + 1]
  <2>1. front \in Seq(Payloads) /\ Len(front) = n /\ p \in Payloads
        /\ qs = Append(front, p)
    <3>1. \A i \in 1..(n + 1) : qs[i] \in Payloads
      BY ElementOfSeq
    <3>2. n + 1 \in 1..(n + 1)
      OBVIOUS
    <3> HIDE DEF T
    <3>3. front \in Seq(Payloads) /\ Len(front) = n
      <4>1. SubSeq(qs, 0 + 1, n) \in Seq(Payloads) /\ Len(SubSeq(qs, 0 + 1, n)) = n
        BY Cut
      <4> QED BY <4>1
    <3>4. qs = Append(front, p)
      BY <3>3
    <3> QED BY <3>1, <3>2, <3>3, <3>4
  <2> HIDE DEF front, p
  <2>2. p \in Seq(Byte) /\ front \in Chunks
    BY <2>1, PayloadChunks DEF Payloads
  <2>3. /\ Encoded(qs) = Encoded(front) \o EncodeNiFrame(p)
        /\ Encoded(front) \in Seq(Byte) /\ EncodeNiFrame(p) \in Seq(Byte)
    BY <2>1, <2>2, EncodedGrows
  <2> DEFINE z == EncodeNiFrame(p) \o y
  <2>4. z \in Seq(Byte) /\ Records(z) = <<p>> \o Records(y)
    BY <2>1, RecordFirst
  <2>5. Encoded(qs) \o y = Encoded(front) \o z
    BY <2>3, BytesAssociate
  <2> HIDE DEF z
  <2>6. Records(Encoded(front) \o z) = front \o Records(z)
    BY <1>2, <2>1, <2>4
  <2>7. Records(y) \in Chunks
    BY RecordsType
  <2>8. front \o (<<p>> \o Records(y)) = qs \o Records(y)
    <3> DEFINE r == Records(y)
    <3> HIDE DEF r
    <3>1. <<p>> \in Chunks /\ front \o <<p>> = Append(front, p)
      BY <2>2 DEF Chunks
    <3>2. (front \o <<p>>) \o r = front \o (<<p>> \o r)
      BY <2>2, <2>7, <3>1, ChunksAssociate DEF r
    <3> QED BY <2>1, <3>1, <3>2, Zenon DEF r
  <2> QED BY <2>4, <2>5, <2>6, <2>8
<1> HIDE DEF T
<1>3. Nat \subseteq T
  BY <1>1, <1>2, SetInduction
<1> QED BY <1>3, PayloadChunks DEF T

\* What came and what is yet to come are read as what was handed out or waits,
\* followed by what the decoder holds and what is yet to come.
LEMMA ReadsOn ==
  ASSUME TransportIndInv, ni.state = "open", NEW x \in Seq(Byte)
  PROVE  /\ Records(SubSeq(Sent, tunnel.taken + 1, socket.read) \o x)
              = (received \o ni.queue) \o Records(Remainder(ni.decoder) \o x)
         /\ Remainder(ni.decoder) \in Seq(Byte)
<1> DEFINE ps == received \o ni.queue
           rest == Remainder(ni.decoder)
           after == SubSeq(Sent, tunnel.taken + 1, socket.read)
<1>1. /\ ps \in Seq(Payloads) /\ rest \in Seq(Byte)
      /\ Encoded(ps) \o rest = after
  <2>1. /\ ps \in Seq(Payloads) /\ DecoderOK(ni.decoder)
        /\ Encoded(ps) \o rest = after
    BY OpenFacts
  <2>2. rest \in Seq(Byte)
    BY <2>1, DecoderBytes
  <2> QED BY <2>1, <2>2
<1> HIDE DEF ps, rest, after
<1>2. Encoded(ps) \in Seq(Byte)
  <2>1. ps \in Chunks /\ <<>> \in Seq(Byte)
    BY <1>1, PayloadChunks
  <2> QED BY <2>1, EncodedGrows
<1>3. (Encoded(ps) \o rest) \o x = Encoded(ps) \o (rest \o x)
  BY <1>1, <1>2, BytesAssociate
<1> DEFINE y == rest \o x
<1>4. y \in Seq(Byte)
  BY <1>1, ConcatProperties
<1> HIDE DEF y
<1>5. Records(Encoded(ps) \o y) = ps \o Records(y)
  BY <1>1, <1>4, RecordsJoin
<1>6. Records(after \o x) = ps \o Records(rest \o x)
  BY <1>1, <1>3, <1>5, Zenon DEF y
<1> QED BY <1>1, <1>6 DEF ps, rest, after

\* The records handed out and those that wait are the records in the bytes
\* that came after the handshake: all that are whole, in order.
InOrder ==
  ni.state = "open" =>
    received \o ni.queue = Records(SubSeq(Sent, tunnel.taken + 1, socket.read))

LEMMA OrderInv == TransportIndInv => InOrder
<1> SUFFICES ASSUME TransportIndInv, ni.state = "open"
             PROVE  received \o ni.queue
                      = Records(SubSeq(Sent, tunnel.taken + 1, socket.read))
  BY DEF InOrder
<1> DEFINE ps == received \o ni.queue
           rest == Remainder(ni.decoder)
           after == SubSeq(Sent, tunnel.taken + 1, socket.read)
<1>1. <<>> \in Seq(Byte) /\ ps \in Seq(Payloads) /\ Waits(rest)
      /\ Encoded(ps) \o rest = after
  BY OpenFacts, EmptySeq
<1>2. Records(after \o <<>>) = ps \o Records(rest \o <<>>) /\ rest \in Seq(Byte)
  BY <1>1, ReadsOn
<1>3. after \in Seq(Byte) /\ ps \in Chunks
  <2> HIDE DEF ps, rest, after
  <2>1. ps \in Chunks
    BY <1>1, PayloadChunks
  <2>2. Encoded(ps) \in Seq(Byte)
    BY <1>1, <2>1, EncodedGrows
  <2>3. Encoded(ps) \o rest \in Seq(Byte)
    BY <1>2, <2>2, ConcatProperties
  <2> QED BY <1>1, <2>1, <2>3
<1> HIDE DEF ps, rest, after
<1>4. after \o <<>> = after /\ rest \o <<>> = rest
  BY <1>2, <1>3, ConcatEmptySeq
<1>5. Records(rest) = <<>>
  BY <1>1, <1>2, NothingWhole
<1>6. ps \o <<>> = ps
  BY <1>3, ConcatEmptySeq DEF Chunks
<1>7. Records(after) = ps
  BY <1>2, <1>4, <1>5, <1>6, Zenon
<1> QED BY <1>7 DEF ps, after

\* However the bytes of a router and its target are cut, and whatever happens
\* between, the records that receive() returned and those in its queue are the
\* records of the bytes that came since the handshake, no fewer and no other.
THEOREM RecordsComeInOrder == TransportSpec => []InOrder
<1>1. TransportIndInv => InOrder
  BY OrderInv
<1> QED BY <1>1, TransportInvariant, PTL

(***************************************************************************)
(* The tunnel takes the router's answer and no more.                       *)
(***************************************************************************)
\* The bytes b are the beginning of w and what follows it, so far as both go.
Agrees(b, w) == \A i \in 1..Len(b) : i <= Len(w) => b[i] = w[i]

LEMMA AgreeCut ==
  ASSUME NEW b \in Seq(Byte), NEW w \in Seq(Byte), Agrees(b, w),
         NEW i \in Nat, NEW j \in Nat, j <= Len(b), j <= Len(w)
  PROVE  SubSeq(b, i + 1, j) = SubSeq(w, i + 1, j)
<1> DEFINE x == SubSeq(b, i + 1, j)
           y == SubSeq(w, i + 1, j)
<1>1. x \in Seq(Byte) /\ Len(x) = (IF i <= j THEN j - i ELSE 0)
      /\ \A k \in 1..(j - i) : x[k] = b[i + k]
  BY Cut
<1>2. y \in Seq(Byte) /\ Len(y) = (IF i <= j THEN j - i ELSE 0)
      /\ \A k \in 1..(j - i) : y[k] = w[i + k]
  BY Cut
<1> HIDE DEF x, y
<1>3. ASSUME NEW k \in 1..Len(x) PROVE x[k] = y[k]
  <2>1. k \in 1..(j - i) /\ i + k \in 1..Len(b) /\ i + k <= Len(w)
    BY <1>1, LenProperties
  <2> QED BY <1>1, <1>2, <2>1 DEF Agrees
<1>4. x = y
  BY <1>1, <1>2, <1>3, SeqEqual
<1> QED BY <1>4 DEF x, y

LEMMA AgreeRest ==
  ASSUME NEW b \in Seq(Byte), NEW w \in Seq(Byte), Agrees(b, w),
         NEW i \in Nat, i <= Len(b), i <= Len(w)
  PROVE  Agrees(SubSeq(b, i + 1, Len(b)), SubSeq(w, i + 1, Len(w)))
<1> DEFINE m == Len(b)
           n == Len(w)
           x == SubSeq(b, i + 1, m)
           y == SubSeq(w, i + 1, n)
<1>1. m \in Nat /\ n \in Nat
  BY LenProperties
<1>2. Len(x) = m - i /\ (\A k \in 1..(m - i) : x[k] = b[i + k])
      /\ Len(y) = n - i /\ (\A k \in 1..(n - i) : y[k] = w[i + k])
  BY <1>1, Cut
<1> HIDE DEF x, y
<1>3. ASSUME NEW k \in 1..Len(x), k <= Len(y) PROVE x[k] = y[k]
  <2>1. k \in 1..(m - i) /\ k \in 1..(n - i) /\ i + k \in 1..m /\ i + k <= n
    BY <1>1, <1>2, <1>3
  <2> QED BY <1>2, <2>1 DEF Agrees
<1> QED BY <1>3 DEF Agrees, x, y

LEMMA HoldingIsAnswer ==
  ASSUME NEW t \in Answers, NEW w \in Seq(Byte)
  PROVE  /\ Holding(t, w) \in Answers /\ Holding(t, w).phase = t.phase
         /\ Holding(t, w).requests = t.requests /\ Holding(t, w).taken = t.taken
         /\ Holding(t, w).buffered = w /\ Holding(t, w).verdict = Nothing
  BY DEF Holding, Answers

\* Verdicts, and what they take
LEMMA VerdictIs ==
  ASSUME NEW t \in Answers, NEW size \in Nat
  PROVE  /\ Accepted(t, size).verdict = "accepted"
         /\ Accepted(t, size).taken = t.taken + size
         /\ Rejected(t).verdict = "rejected"
  BY DEF Accepted, Rejected, Answers

\* A SAProuter's answer
LEMMA SapRouterExact ==
  ASSUME NEW t \in Answers, t.verdict = Nothing, NEW w \in Seq(Byte), Agrees(t.buffered, w),
         UsedUp("saprouter", Holding(t, w))
  PROVE  LET r == SapRouterReply(t) IN
         \/ r.verdict = "rejected"
         \/ r.verdict = "accepted" /\ r.taken = t.taken + Len(w)
         \/ r = t
<1> DEFINE b == t.buffered
           L == LengthBytes
           length == Number(SubSeq(b, 1, L))
           v == Holding(t, w)
           r == SapRouterReply(t)
<1>1. /\ b \in Seq(Byte) /\ Len(b) \in Nat /\ L \in Nat /\ Len(w) \in Nat /\ t.taken \in Nat
  <2>1. b \in Seq(Byte) /\ t.taken \in Nat
    BY DEF Answers
  <2> QED BY <2>1, LenProperties, NiFramesAssumption
<1>2. v \in Answers /\ v.taken = t.taken /\ v.buffered = w /\ v.verdict = Nothing
  BY HoldingIsAnswer
<1>3. SapRouterReply(v).verdict = "rejected"
      \/ (SapRouterReply(v).verdict = "accepted" /\ SapRouterReply(v).taken = t.taken + Len(w))
  BY <1>2 DEF UsedUp, Answered
<1>4. SapRouterReply(v) # v
  BY <1>2, <1>3 DEF Nothing
<1>5. CASE Len(b) < L
  BY <1>5 DEF SapRouterReply
<1>6. CASE ~(Len(b) < L) /\ (length < MinReply \/ length > MaxReply)
  <2>1. r = Rejected(t)
    BY <1>6 DEF SapRouterReply
  <2> QED BY <2>1, VerdictIs
<1>7. CASE /\ ~(Len(b) < L) /\ ~(length < MinReply \/ length > MaxReply)
           /\ Len(b) < L + length
  BY <1>7 DEF SapRouterReply
<1>8. CASE /\ ~(Len(b) < L) /\ ~(length < MinReply \/ length > MaxReply)
           /\ ~(Len(b) < L + length)
  <2>0. Agrees(b, w)
    OBVIOUS
  <2> HIDE DEF v, b, L
  <2>1. L <= Len(w)
    <3>1. Len(w) < L => SapRouterReply(v) = v
      BY <1>2 DEF SapRouterReply, L
    <3> QED BY <1>1, <1>4, <3>1
  <2>2. SubSeq(b, 1, L) = SubSeq(w, 1, L)
    <3>1. SubSeq(b, 0 + 1, L) = SubSeq(w, 0 + 1, L)
      <4>1. 0 \in Nat /\ L <= Len(b)
        BY <1>1, <1>8
      <4> QED BY <1>1, <2>0, <2>1, <4>1, AgreeCut
    <3>2. 0 + 1 = 1
      OBVIOUS
    <3> QED BY <3>1, <3>2, Zenon
  <2>3. length \in Nat
    <3>1. SubSeq(b, 0 + 1, L) \in Seq(Byte)
      BY <1>1, <1>8, Cut
    <3>2. SubSeq(b, 1, L) \in Seq(Byte)
      BY <3>1
    <3> QED BY <3>2, NumberType
  <2>4. length = Number(SubSeq(w, 1, L))
    BY <2>2
  <2> HIDE DEF length
  <2>5. L + length <= Len(w)
    <3>1. Len(w) < L + length => SapRouterReply(v) = v
      BY <1>1, <1>2, <1>8, <2>1, <2>4 DEF SapRouterReply, L
    <3> QED BY <1>1, <1>4, <2>3, <3>1
  <2>6. SubSeq(b, L + 1, L + length) = SubSeq(w, L + 1, L + length)
    <3> DEFINE j == L + length
    <3>1. j \in Nat /\ j <= Len(b) /\ j <= Len(w)
      BY <1>1, <1>8, <2>3, <2>5
    <3> HIDE DEF j
    <3>2. SubSeq(b, L + 1, j) = SubSeq(w, L + 1, j)
      BY <1>1, <2>0, <3>1, AgreeCut
    <3> QED BY <3>2 DEF j
  <2>7. CASE SubSeq(b, L + 1, L + length) # Pong
    <3>1. r = Rejected(t)
      BY <1>8, <2>7 DEF SapRouterReply, b, L, length
    <3> QED BY <3>1, VerdictIs
  <2>8. CASE SubSeq(b, L + 1, L + length) = Pong
    <3>1. r = Accepted(t, L + length)
      BY <1>8, <2>8 DEF SapRouterReply, b, L, length
    <3>2. ~(Len(w) < L) /\ ~(Len(w) < L + length)
      BY <1>1, <2>1, <2>3, <2>5
    <3>3. SubSeq(w, L + 1, L + length) = Pong
      BY <2>6, <2>8
    <3>4. SapRouterReply(v) = Accepted(v, L + length)
      BY <1>2, <1>8, <2>4, <3>2, <3>3 DEF SapRouterReply, L
    <3> DEFINE j == L + length
    <3>5. j \in Nat
      BY <1>1, <2>3
    <3>6. r = Accepted(t, j) /\ SapRouterReply(v) = Accepted(v, j)
      BY <3>1, <3>4
    <3> HIDE DEF j, r
    <3>7. Accepted(v, j).verdict = "accepted" /\ Accepted(v, j).taken = v.taken + j
          /\ Accepted(t, j).verdict = "accepted" /\ Accepted(t, j).taken = t.taken + j
      BY <1>2, <3>5, VerdictIs
    <3>8. t.taken + j = t.taken + Len(w)
      BY <1>2, <1>3, <3>6, <3>7
    <3> QED BY <3>6, <3>7, <3>8 DEF r
  <2> QED BY <2>7, <2>8
<1> QED BY <1>5, <1>6, <1>7, <1>8

\* x is what became of t, and it stands before the rest of the answer w.
Stands(r, t, w, x) ==
  /\ x \in Answers /\ x.verdict = Nothing
  /\ \E s \in 0..Len(w) :
       LET z == SubSeq(w, s + 1, Len(w)) IN
       x.taken = t.taken + s /\ Agrees(x.buffered, z) /\ UsedUp(r, Holding(x, z))

LEMMA StandsStill ==
  ASSUME NEW r, NEW t \in Answers, t.verdict = Nothing, NEW w \in Seq(Byte),
         Agrees(t.buffered, w), UsedUp(r, Holding(t, w))
  PROVE  Stands(r, t, w, t)
<1>1. Len(w) \in Nat /\ SubSeq(w, 1, Len(w)) = w /\ t.taken \in Nat
  BY LenProperties, SubSeqFull DEF Answers
<1>2. 0 \in 0..Len(w) /\ t.taken = t.taken + 0 /\ SubSeq(w, 0 + 1, Len(w)) = w
  BY <1>1
<1> QED BY <1>2 DEF Stands

LEMMA StandsOn ==
  ASSUME NEW r, NEW t \in Answers, NEW w \in Seq(Byte), NEW x, Stands(r, t, w, x)
  PROVE  \E z \in Seq(Byte) :
           /\ x.taken + Len(z) = t.taken + Len(w)
           /\ Agrees(x.buffered, z) /\ UsedUp(r, Holding(x, z))
           /\ \A y : Stands(r, x, z, y) => Stands(r, t, w, y)
<1> DEFINE n == Len(w)
<1>1. PICK s \in 0..n : /\ x.taken = t.taken + s
                        /\ Agrees(x.buffered, SubSeq(w, s + 1, n))
                        /\ UsedUp(r, Holding(x, SubSeq(w, s + 1, n)))
  BY DEF Stands
<1> DEFINE z == SubSeq(w, s + 1, n)
           m == Len(z)
<1>2. n \in Nat /\ s \in Nat /\ s <= n /\ n <= Len(w) /\ t.taken \in Nat
  BY LenProperties DEF Answers
<1> HIDE DEF n
<1>3. z \in Seq(Byte) /\ m = n - s
  BY <1>2, Cut
<1>4. x.taken + m = t.taken + n
  <2> HIDE DEF m
  <2> QED BY <1>1, <1>2, <1>3
<1>5. ASSUME NEW y, Stands(r, x, z, y) PROVE Stands(r, t, w, y)
  <2> HIDE DEF z, m
  <2>1. y \in Answers /\ y.verdict = Nothing
    BY <1>5 DEF Stands
  <2>2. PICK j \in 0..m : /\ y.taken = x.taken + j
                          /\ Agrees(y.buffered, SubSeq(z, j + 1, m))
                          /\ UsedUp(r, Holding(y, SubSeq(z, j + 1, m)))
    BY <1>5 DEF Stands, m
  <2> DEFINE k == s + j
  <2>3. /\ k \in 0..n /\ y.taken = t.taken + k /\ j \in Nat /\ m \in Nat /\ s + m = n
        /\ m <= n - s
    BY <1>1, <1>2, <1>3, <2>2
  <2>4. SubSeq(SubSeq(w, s + 1, n), j + 1, m) = SubSeq(w, s + j + 1, s + m)
    BY <1>2, <2>3, CutCut
  <2>5. SubSeq(z, j + 1, m) = SubSeq(w, k + 1, n)
    <3>1. SubSeq(z, j + 1, m) = SubSeq(w, s + j + 1, s + m)
      BY <2>4 DEF z
    <3> QED BY <2>3, <3>1, Zenon
  <2> HIDE DEF k
  <2>6. Agrees(y.buffered, SubSeq(w, k + 1, n)) /\ UsedUp(r, Holding(y, SubSeq(w, k + 1, n)))
    BY <2>2, <2>5
  <2> QED BY <2>1, <2>3, <2>6 DEF Stands, n
<1>6. Agrees(x.buffered, z) /\ UsedUp(r, Holding(x, z))
  BY <1>1
<1> HIDE DEF z
<1> QED BY <1>3, <1>4, <1>5, <1>6 DEF n

\* The answers of a SOCKS5 proxy, phase by phase
LEMMA NextPhaseIs ==
  ASSUME NEW t \in Answers, NEW p
  PROVE  NextPhase(t, p) =
           [phase |-> p, requests |-> t.requests + 1, taken |-> t.taken + 2,
            buffered |-> SubSeq(t.buffered, 3, Len(t.buffered)), verdict |-> t.verdict]
<1> DEFINE q == t.requests + 1
           k == t.taken + 2
           b == SubSeq(t.buffered, 3, Len(t.buffered))
           e1 == [t EXCEPT !.phase = p]
           e2 == [e1 EXCEPT !.requests = q]
           e3 == [e2 EXCEPT !.taken = k]
           e4 == [e3 EXCEPT !.buffered = b]
<1>1. NextPhase(t, p) = e4
  BY DEF NextPhase
<1> HIDE DEF q, k, b
<1>2. e1 = [phase |-> p, requests |-> t.requests, taken |-> t.taken,
            buffered |-> t.buffered, verdict |-> t.verdict]
  BY DEF Answers
<1> HIDE DEF e1
<1>3. e2 = [phase |-> p, requests |-> q, taken |-> t.taken,
            buffered |-> t.buffered, verdict |-> t.verdict]
  BY <1>2
<1> HIDE DEF e2
<1>4. e3 = [phase |-> p, requests |-> q, taken |-> k,
            buffered |-> t.buffered, verdict |-> t.verdict]
  BY <1>3
<1> HIDE DEF e3
<1>5. e4 = [phase |-> p, requests |-> q, taken |-> k, buffered |-> b, verdict |-> t.verdict]
  BY <1>4
<1> HIDE DEF e4
<1> QED BY <1>1, <1>5 DEF q, k, b

\* A phase whose two bytes are right: what is left is an answer to the next.
LEMMA PhaseExact ==
  ASSUME NEW t \in Answers, t.verdict = Nothing, NEW w \in Seq(Byte), Agrees(t.buffered, w),
         UsedUp("socks5", Holding(t, w)),
         NEW e, NEW p \in {"authentication-response", "connect-response"},
         ~(Len(t.buffered) < 2), SubSeq(t.buffered, 1, 2) = e,
         \A v \in Answers : v.phase = t.phase /\ v.verdict = Nothing =>
           IF Len(v.buffered) < 2 THEN SocksReply(v) = v
           ELSE SubSeq(v.buffered, 1, 2) = e => SocksReply(v) = SocksReply(NextPhase(v, p))
  PROVE  Stands("socks5", t, w, NextPhase(t, p))
<1> DEFINE b == t.buffered
           v == Holding(t, w)
           n == Len(w)
           z == SubSeq(w, 3, n)
           u == NextPhase(t, p)
           a == SocksReply(v)
<1>1. /\ v \in Answers /\ v.phase = t.phase /\ v.requests = t.requests /\ v.taken = t.taken
      /\ v.buffered = w /\ v.verdict = Nothing
  BY HoldingIsAnswer
<1>2. a.verdict = "rejected" \/ (a.verdict = "accepted" /\ a.taken = t.taken + n)
  BY <1>1 DEF UsedUp, Answered
<1>3. /\ b \in Seq(Byte) /\ Len(b) \in Nat /\ n \in Nat /\ t.taken \in Nat /\ t.requests \in Nat
      /\ Agrees(b, w) /\ ~(Len(b) < 2)
  <2>1. b \in Seq(Byte) /\ t.taken \in Nat /\ t.requests \in Nat
    BY DEF Answers
  <2> QED BY <2>1, LenProperties
<1>4. Len(v.buffered) = n
  BY <1>1
<1>5. n >= 2
  <2>1. Len(v.buffered) < 2 => a = v
    BY <1>1
  <2>2. a # v
    BY <1>1, <1>2 DEF Nothing
  <2> HIDE DEF v, n, a
  <2> QED BY <1>3, <1>4, <2>1, <2>2
<1>6. SubSeq(w, 1, 2) = e
  <2>1. 0 \in Nat /\ 2 \in Nat /\ 2 <= Len(b) /\ 2 <= Len(w) /\ 0 + 1 = 1
    BY <1>3, <1>5
  <2> HIDE DEF b, n
  <2>2. SubSeq(b, 0 + 1, 2) = SubSeq(w, 0 + 1, 2)
    BY <1>3, <2>1, AgreeCut
  <2> QED BY <2>1, <2>2, Zenon DEF b
<1>7. a = SocksReply(NextPhase(v, p))
  <2>1. ~(Len(v.buffered) < 2) /\ SubSeq(v.buffered, 1, 2) = e
    BY <1>1, <1>3, <1>5, <1>6
  <2> HIDE DEF v
  <2> QED BY <1>1, <2>1
<1>8. NextPhase(v, p) = Holding(u, z)
  <2> HIDE DEF v, z, u
  <2>1. NextPhase(v, p) = [phase |-> p, requests |-> t.requests + 1, taken |-> t.taken + 2,
                           buffered |-> z, verdict |-> Nothing]
    BY <1>1, NextPhaseIs DEF z
  <2>2. u.phase = p /\ u.requests = t.requests + 1 /\ u.taken = t.taken + 2
    BY NextPhaseIs DEF u
  <2> QED BY <2>1, <2>2 DEF Holding
<1>9. u \in Answers /\ u.verdict = Nothing /\ u.taken = t.taken + 2
      /\ u.buffered = SubSeq(b, 3, Len(b))
  <2>1. Eats(t, u)
    BY NextPhaseEats
  <2> QED BY <2>1, NextPhaseIs DEF Eats
<1>10. z \in Seq(Byte) /\ Len(z) = n - 2 /\ Agrees(u.buffered, z) /\ z = SubSeq(w, 2 + 1, n)
  <2>1. 2 \in Nat /\ 2 <= Len(b) /\ 2 <= n /\ 2 + 1 = 3 /\ n <= Len(w)
    BY <1>3, <1>5
  <2> HIDE DEF b
  <2>2. SubSeq(w, 2 + 1, n) \in Seq(Byte) /\ Len(SubSeq(w, 2 + 1, n)) = n - 2
    BY <1>3, <2>1, Cut
  <2>3. Agrees(SubSeq(b, 2 + 1, Len(b)), SubSeq(w, 2 + 1, n))
    BY <1>3, <2>1, AgreeRest
  <2> HIDE DEF n, u
  <2>4. z = SubSeq(w, 2 + 1, n)
    BY <2>1
  <2>5. u.buffered = SubSeq(b, 2 + 1, Len(b))
    BY <1>9, <2>1 DEF b
  <2> HIDE DEF z
  <2> QED BY <2>2, <2>3, <2>4, <2>5
<1>11. UsedUp("socks5", Holding(u, z))
  <2>1. Holding(u, z).taken = t.taken + 2 /\ Holding(u, z).buffered = z
    BY <1>9 DEF Holding
  <2>2. t.taken + n = (t.taken + 2) + Len(z)
    <3>1. Len(z) = n - 2 /\ n \in Nat /\ t.taken \in Nat
      BY <1>3, <1>10
    <3> HIDE DEF n, z
    <3> QED BY <3>1
  <2>3. SocksReply(Holding(u, z)) = a
    BY <1>7, <1>8
  <2> HIDE DEF u, z, a, n
  <2> QED BY <1>2, <2>1, <2>2, <2>3 DEF UsedUp, Answered
<1>12. 2 \in 0..n
  BY <1>3, <1>5
<1>13. /\ z = SubSeq(w, 2 + 1, Len(w)) /\ 2 \in 0..Len(w) /\ Agrees(u.buffered, z)
       /\ UsedUp("socks5", Holding(u, z)) /\ u.taken = t.taken + 2
       /\ u \in Answers /\ u.verdict = Nothing
  BY <1>9, <1>10, <1>11, <1>12
<1> HIDE DEF u, z
<1>14. Stands("socks5", t, w, u)
  BY <1>13 DEF Stands
<1> QED BY <1>14 DEF u

LEMMA ConnectExact ==
  ASSUME NEW t \in Answers, t.verdict = Nothing, t.phase = "connect-response",
         NEW w \in Seq(Byte), Agrees(t.buffered, w), UsedUp("socks5", Holding(t, w))
  PROVE  LET r == ConnectReply(t) IN
         \/ r.verdict = "rejected"
         \/ r.verdict = "accepted" /\ r.taken = t.taken + Len(w)
         \/ r = t
<1> DEFINE b == t.buffered
           v == Holding(t, w)
           r == ConnectReply(t)
           S == ConnectReplyLength(b)
<1>1. /\ b \in Seq(Byte) /\ Len(b) \in Nat /\ Len(w) \in Nat /\ t.taken \in Nat
  <2>1. b \in Seq(Byte) /\ t.taken \in Nat
    BY DEF Answers
  <2> QED BY <2>1, LenProperties
<1>2. /\ v \in Answers /\ v.taken = t.taken /\ v.buffered = w /\ v.verdict = Nothing
      /\ v.phase = "connect-response"
  BY HoldingIsAnswer
<1>3. SocksReply(v) = ConnectReply(v)
  <2> HIDE DEF v
  <2> QED BY <1>2 DEF SocksReply
<1>4. \/ ConnectReply(v).verdict = "rejected"
      \/ ConnectReply(v).verdict = "accepted" /\ ConnectReply(v).taken = t.taken + Len(w)
  BY <1>2, <1>3 DEF UsedUp, Answered
<1>5. ConnectReply(v) # v
  BY <1>2, <1>4 DEF Nothing
<1> HIDE DEF v
<1>6. CASE Len(b) < 4
  BY <1>6 DEF ConnectReply
<1>7. CASE ~(Len(b) < 4) /\ (<<b[1], b[2], b[3]>> # <<5, 0, 0>> \/ S = 0)
  <2>1. r = Rejected(t)
    BY <1>7 DEF ConnectReply
  <2> QED BY <2>1, VerdictIs
<1>8. CASE /\ ~(Len(b) < 4) /\ <<b[1], b[2], b[3]>> = <<5, 0, 0>> /\ S # 0
           /\ Len(b) < S
  BY <1>8 DEF ConnectReply
<1>9. CASE /\ ~(Len(b) < 4) /\ <<b[1], b[2], b[3]>> = <<5, 0, 0>> /\ S # 0
           /\ ~(Len(b) < S)
  <2>0. Agrees(b, w)
    OBVIOUS
  <2>1. r = Accepted(t, S)
    BY <1>9 DEF ConnectReply
  <2> HIDE DEF r, b, S
  <2>11. ~(Len(b) < 4) /\ S # 0 /\ ~(Len(b) < S) /\ <<b[1], b[2], b[3]>> = <<5, 0, 0>>
    BY <1>9
  <2>12. ~(Len(b) < 4) /\ S # 0 /\ ~(Len(b) < S)
    BY <2>11
  <2> USE DEF S
  <2>2. Len(w) >= 4
    <3>1. Len(w) < 4 => ConnectReply(v) = v
      BY <1>2 DEF ConnectReply
    <3> QED BY <1>1, <1>5, <3>1
  <2>3. b[1] = w[1] /\ b[2] = w[2] /\ b[3] = w[3] /\ b[4] = w[4]
        /\ (Len(b) > 4 /\ Len(w) > 4 => b[5] = w[5])
    BY <1>1, <1>9, <2>0, <2>2 DEF Agrees
  <2>4. <<w[1], w[2], w[3]>> = <<5, 0, 0>>
    BY <1>9, <2>3
  <2>5. ConnectReply(v) = IF ConnectReplyLength(w) = 0 THEN Rejected(v)
                          ELSE IF Len(w) < ConnectReplyLength(w) THEN v
                          ELSE Accepted(v, ConnectReplyLength(w))
    <3>1. ~(Len(w) < 4)
      BY <1>1, <2>2
    <3> QED BY <1>2, <2>4, <3>1 DEF ConnectReply
  <2>6. Len(b) > 4 => b[5] \in Nat
    <3>1. ASSUME Len(b) > 4 PROVE b[5] \in Byte
      <4>1. 5 \in 1..Len(b)
        BY <1>1, <3>1
      <4>2. \A i \in 1..Len(b) : b[i] \in Byte
        BY <1>1, ElementOfSeq
      <4> QED BY <4>1, <4>2
    <3>2. Byte \subseteq Nat
      BY DEF Byte
    <3> QED BY <3>1, <3>2
  <2>7. S \in Nat /\ ConnectReplyLength(w) = S
    <3>1. CASE b[4] = 1
      BY <2>3, <3>1 DEF ConnectReplyLength
    <3>2. CASE b[4] = 4
      BY <2>3, <3>2 DEF ConnectReplyLength
    <3>3. CASE b[4] = 3
      <4>1. Len(b) # 4
        <5> SUFFICES ASSUME Len(b) = 4 PROVE FALSE
          OBVIOUS
        <5>1. S = 5
          BY <3>3 DEF ConnectReplyLength
        <5> HIDE DEF S
        <5>2. Len(b) < S
          BY <5>1
        <5> QED BY <2>12, <5>2
      <4>2. Len(w) # 4
        <5>1. Len(w) = 4 => ConnectReplyLength(w) = 5
          BY <2>3, <3>3 DEF ConnectReplyLength
        <5>2. Len(w) = 4 => ConnectReply(v) = v
          <6> DEFINE c == ConnectReplyLength(w)
          <6> HIDE DEF c, S
          <6>1. ASSUME Len(w) = 4 PROVE c # 0 /\ Len(w) < c
            BY <5>1, <6>1 DEF c
          <6> QED BY <2>5, <6>1 DEF c
        <5> QED BY <1>5, <5>2
      <4>3. Len(b) > 4 /\ Len(w) > 4
        <5>1. ~(Len(b) < 4)
          BY <2>12
        <5> DEFINE i == Len(b)
                   j == Len(w)
        <5>2. i \in Nat /\ j \in Nat /\ ~(i < 4) /\ j >= 4 /\ i # 4 /\ j # 4
          BY <1>1, <2>2, <4>1, <4>2, <5>1
        <5> HIDE DEF i, j
        <5>3. i > 4 /\ j > 4
          BY <5>2
        <5> QED BY <5>3 DEF i, j
      <4>4. b[5] = w[5] /\ w[4] = 3 /\ b[5] \in Nat
        BY <2>3, <2>6, <3>3, <4>3
      <4>5. b[5] > 0
        <5>1. ~(b[5] > 0) => S = 0
          BY <1>1, <3>3, <4>1 DEF ConnectReplyLength
        <5> QED BY <1>9, <5>1
      <4> QED BY <1>1, <3>3, <4>3, <4>4, <4>5 DEF ConnectReplyLength
    <3>4. CASE b[4] \notin {1, 3, 4}
      <4>1. S = 0
        BY <3>4 DEF ConnectReplyLength
      <4> QED BY <1>9, <4>1
    <3> QED BY <3>1, <3>2, <3>3, <3>4
  <2> HIDE DEF S
  <2>8. ConnectReply(v) = Accepted(v, S)
    BY <1>5, <1>9, <2>5, <2>7
  <2>9. /\ Accepted(v, S).verdict = "accepted" /\ Accepted(v, S).taken = v.taken + S
        /\ Accepted(t, S).verdict = "accepted" /\ Accepted(t, S).taken = t.taken + S
    BY <1>2, <2>7, VerdictIs
  <2>10. t.taken + S = t.taken + Len(w)
    BY <1>2, <1>4, <2>8, <2>9
  <2> QED BY <2>1, <2>9, <2>10 DEF r
<1> QED BY <1>6, <1>7, <1>8, <1>9

LEMMA SocksExact ==
  ASSUME NEW t \in Answers, t.verdict = Nothing, NEW w \in Seq(Byte), Agrees(t.buffered, w),
         UsedUp("socks5", Holding(t, w))
  PROVE  LET r == SocksReply(t) IN
         \/ r.verdict = "rejected"
         \/ r.verdict = "accepted" /\ r.taken = t.taken + Len(w)
         \/ Stands("socks5", t, w, r)
<1> DEFINE m == IF t.phase = "method-response" THEN MethodReply(t) ELSE t
           a == IF m.phase = "authentication-response" /\ m.verdict = Nothing
                THEN AuthenticationReply(m) ELSE m
           c == IF a.phase = "connect-response" /\ a.verdict = Nothing
                THEN ConnectReply(a) ELSE a
           r == SocksReply(t)
<1>1. r = c
  BY DEF SocksReply
<1> HIDE DEF r
<1>2. m.verdict = "rejected" \/ Stands("socks5", t, w, m)
  <2>1. \/ m \in {t, Rejected(t)}
        \/ /\ m = NextPhase(t, "authentication-response") /\ t.phase = "method-response"
           /\ ~(Len(t.buffered) < 2) /\ SubSeq(t.buffered, 1, 2) = <<5, 128>>
    BY DEF MethodReply
  <2>2. CASE ~(m \in {t, Rejected(t)})
    <3>1. ASSUME NEW v \in Answers, v.phase = t.phase, v.verdict = Nothing
          PROVE  IF Len(v.buffered) < 2 THEN SocksReply(v) = v
                 ELSE SubSeq(v.buffered, 1, 2) = <<5, 128>> =>
                   SocksReply(v) = SocksReply(NextPhase(v, "authentication-response"))
      <4>1. v.phase = "method-response"
        BY <2>1, <2>2, <3>1
      <4>2. CASE Len(v.buffered) < 2
        BY <4>1, <4>2 DEF SocksReply, MethodReply
      <4>3. CASE ~(Len(v.buffered) < 2) /\ SubSeq(v.buffered, 1, 2) = <<5, 128>>
        <5> DEFINE u == NextPhase(v, "authentication-response")
        <5>1. MethodReply(v) = u
          BY <4>3 DEF MethodReply
        <5>2. u.phase = "authentication-response"
          BY NextPhaseIs
        <5> HIDE DEF u
        <5>3. SocksReply(v) = SocksReply(u)
          BY <4>1, <5>1, <5>2 DEF SocksReply
        <5> QED BY <4>3, <5>3 DEF u
      <4> QED BY <4>2, <4>3
    <3> DEFINE e == <<5, 128>>
               p == "authentication-response"
    <3>2. /\ p \in {"authentication-response", "connect-response"}
          /\ ~(Len(t.buffered) < 2) /\ SubSeq(t.buffered, 1, 2) = e
          /\ m = NextPhase(t, p)
      BY <2>1, <2>2
    <3>3. \A v \in Answers : v.phase = t.phase /\ v.verdict = Nothing =>
            IF Len(v.buffered) < 2 THEN SocksReply(v) = v
            ELSE SubSeq(v.buffered, 1, 2) = e => SocksReply(v) = SocksReply(NextPhase(v, p))
      BY <3>1
    <3> HIDE DEF e, p, m
    <3>4. Stands("socks5", t, w, NextPhase(t, p))
      BY <3>2, <3>3, PhaseExact
    <3> QED BY <3>2, <3>4
  <2> HIDE DEF m
  <2> QED BY <2>1, <2>2, StandsStill, VerdictIs
<1> HIDE DEF m
<1>3. a.verdict = "rejected" \/ Stands("socks5", t, w, a)
  <2>1. CASE m.verdict = "rejected"
    BY <2>1 DEF Nothing
  <2>2. CASE Stands("socks5", t, w, m)
    <3>1. m \in Answers /\ m.verdict = Nothing
      BY <2>2 DEF Stands
    <3>2. PICK z \in Seq(Byte) :
            /\ Agrees(m.buffered, z) /\ UsedUp("socks5", Holding(m, z))
            /\ \A y : Stands("socks5", m, z, y) => Stands("socks5", t, w, y)
      BY <2>2, StandsOn
    <3>3. \/ a \in {m, Rejected(m)}
          \/ /\ a = NextPhase(m, "connect-response") /\ m.phase = "authentication-response"
             /\ ~(Len(m.buffered) < 2) /\ SubSeq(m.buffered, 1, 2) = <<1, 0>>
      BY DEF AuthenticationReply
    <3>4. CASE ~(a \in {m, Rejected(m)})
      <4>1. ASSUME NEW v \in Answers, v.phase = m.phase, v.verdict = Nothing
            PROVE  IF Len(v.buffered) < 2 THEN SocksReply(v) = v
                   ELSE SubSeq(v.buffered, 1, 2) = <<1, 0>> =>
                     SocksReply(v) = SocksReply(NextPhase(v, "connect-response"))
        <5>1. v.phase = "authentication-response"
          BY <3>3, <3>4, <4>1
        <5>2. CASE Len(v.buffered) < 2
          BY <4>1, <5>1, <5>2 DEF SocksReply, AuthenticationReply
        <5>3. CASE ~(Len(v.buffered) < 2) /\ SubSeq(v.buffered, 1, 2) = <<1, 0>>
          <6> DEFINE u == NextPhase(v, "connect-response")
          <6>1. AuthenticationReply(v) = u
            BY <5>3 DEF AuthenticationReply
          <6>2. u.phase = "connect-response"
            BY NextPhaseIs
          <6> HIDE DEF u
          <6>3. SocksReply(v) = SocksReply(u)
            BY <4>1, <5>1, <6>1, <6>2 DEF SocksReply
          <6> QED BY <5>3, <6>3 DEF u
        <5> QED BY <5>2, <5>3
      <4> DEFINE e == <<1, 0>>
                 p == "connect-response"
      <4>2. /\ p \in {"authentication-response", "connect-response"}
            /\ ~(Len(m.buffered) < 2) /\ SubSeq(m.buffered, 1, 2) = e
            /\ a = NextPhase(m, p)
        BY <3>3, <3>4
      <4>3. \A v \in Answers : v.phase = m.phase /\ v.verdict = Nothing =>
              IF Len(v.buffered) < 2 THEN SocksReply(v) = v
              ELSE SubSeq(v.buffered, 1, 2) = e => SocksReply(v) = SocksReply(NextPhase(v, p))
        BY <4>1
      <4> HIDE DEF e, p, a
      <4>4. Stands("socks5", m, z, NextPhase(m, p))
        BY <3>1, <3>2, <4>2, <4>3, PhaseExact
      <4> QED BY <3>2, <4>2, <4>4
    <3> HIDE DEF a
    <3> QED BY <2>2, <3>1, <3>3, <3>4, VerdictIs
  <2> QED BY <1>2, <2>1, <2>2
<1> HIDE DEF a
<1>4. \/ c.verdict = "rejected"
      \/ c.verdict = "accepted" /\ c.taken = t.taken + Len(w)
      \/ Stands("socks5", t, w, c)
  <2>1. CASE a.verdict = "rejected"
    BY <2>1 DEF Nothing
  <2>2. CASE Stands("socks5", t, w, a)
    <3>1. a \in Answers /\ a.verdict = Nothing
      BY <2>2 DEF Stands
    <3>2. PICK z \in Seq(Byte) :
            /\ a.taken + Len(z) = t.taken + Len(w)
            /\ Agrees(a.buffered, z) /\ UsedUp("socks5", Holding(a, z))
      BY <2>2, StandsOn
    <3>3. CASE a.phase = "connect-response"
      <4>1. \/ c.verdict = "rejected"
            \/ c.verdict = "accepted" /\ c.taken = a.taken + Len(z)
            \/ c = a
        BY <3>1, <3>2, <3>3, ConnectExact
      <4> HIDE DEF c
      <4> QED BY <2>2, <3>2, <4>1
    <3>4. CASE a.phase # "connect-response"
      BY <2>2, <3>4
    <3> QED BY <3>3, <3>4
  <2> QED BY <1>3, <2>1, <2>2
<1> HIDE DEF c
<1> QED BY <1>1, <1>4 DEF r

LEMMA ReplyExact ==
  ASSUME NEW t \in Tunnels, NEW chunk \in Seq(Byte), NEW w \in Seq(Byte),
         t.buffered \o chunk \in Seq(Byte), Agrees(t.buffered \o chunk, w),
         route \in {"saprouter", "socks5"}, UsedUp(route, Holding(t, w))
  PROVE  LET r == Reply(t, chunk) IN
         \/ r.verdict = "rejected"
         \/ r.verdict = "accepted" /\ r.taken = t.taken + Len(w)
         \/ /\ r.verdict = Nothing
            /\ \E s \in 0..Len(w) :
                 /\ r.taken = t.taken + s
                 /\ UsedUp(route, Holding(r, SubSeq(w, s + 1, Len(w))))
<1> DEFINE all == t.buffered \o chunk
           fed == Holding(t, all)
           r == Reply(t, chunk)
           a == Answered(route, fed)
<1>1. /\ fed \in Answers /\ fed.buffered = all /\ fed.taken = t.taken /\ fed.verdict = Nothing
      /\ Holding(fed, w) = Holding(t, w)
  BY DEF Answers, Tunnels, Holding
<1>2. r = a \/ r = Rejected(fed)
  BY DEF Reply
<1> HIDE DEF fed, r, all
<1>3. \/ a.verdict = "rejected"
      \/ a.verdict = "accepted" /\ a.taken = t.taken + Len(w)
      \/ Stands(route, fed, w, a)
  <2>1. Agrees(fed.buffered, w) /\ UsedUp(route, Holding(fed, w))
    BY <1>1 DEF all
  <2>2. CASE route = "saprouter"
    <3>1. \/ a.verdict = "rejected"
          \/ a.verdict = "accepted" /\ a.taken = fed.taken + Len(w)
          \/ a = fed
      BY <1>1, <2>1, <2>2, SapRouterExact DEF Answered
    <3>2. Stands(route, fed, w, fed)
      BY <1>1, <2>1, StandsStill
    <3> HIDE DEF a
    <3> QED BY <1>1, <3>1, <3>2
  <2>3. CASE route = "socks5"
    <3>1. \/ a.verdict = "rejected"
          \/ a.verdict = "accepted" /\ a.taken = fed.taken + Len(w)
          \/ Stands("socks5", fed, w, a)
      BY <1>1, <2>1, <2>3, SocksExact DEF Answered
    <3> HIDE DEF a
    <3> QED BY <1>1, <2>3, <3>1
  <2> QED BY <2>2, <2>3
<1> HIDE DEF a
<1>4. Stands(route, fed, w, a) =>
        /\ a.verdict = Nothing
        /\ \E s \in 0..Len(w) :
             /\ a.taken = t.taken + s
             /\ UsedUp(route, Holding(a, SubSeq(w, s + 1, Len(w))))
  BY <1>1 DEF Stands
<1>5. Rejected(fed).verdict = "rejected"
  BY <1>1, VerdictIs
<1> QED BY <1>2, <1>3, <1>4, <1>5 DEF r

\* What is left of the router's answer while the tunnel is set up
Rest == SubSeq(stream.router, tunnel.taken + 1, Len(stream.router))
HandedOverExactly == setup \in {"handoff", "done"} => tunnel.taken = Len(stream.router)
\* The inductive invariant: what is left is an answer to the request that is out.
Faithful ==
  /\ stream.router \in Replies[route]
  /\ setup = "handshake" =>
       /\ route # "direct" /\ tunnel.taken <= Len(stream.router)
       /\ UsedUp(route, Holding(tunnel, Rest))
  /\ HandedOverExactly

LEMMA FaithfulInit == TransportInit => Faithful
<1> SUFFICES ASSUME TransportInit PROVE Faithful
  OBVIOUS
<1>1. setup = "connecting" /\ stream \in [router : Replies[route], target : Frames]
  BY DEF TransportInit, NiInit
<1> QED BY <1>1 DEF Faithful, HandedOverExactly

LEMMA FaithfulConnected ==
  ASSUME TransportIndInv, Faithful, Connected
  PROVE  Faithful'
<1> DEFINE b == stream.router
<1>1. /\ setup = "connecting" /\ stream' = stream /\ route' = route /\ b \in Replies[route]
      /\ IF route = "direct" THEN setup' = "done" /\ tunnel' = tunnel
         ELSE setup' = "handshake" /\ tunnel' = FirstRequest(route)
  BY DEF Connected, Faithful
<1>2. /\ route \in Routes /\ tunnel = NoTunnel /\ b \in Seq(Byte)
  BY <1>1 DEF TransportIndInv, TransportTypeOK, InStages
<1>3. IF route = "direct" THEN b = <<>> ELSE UsedUp(route, Holding(FirstRequest(route), b))
  BY <1>1, <1>2, WholeReplies
<1>4. CASE route = "direct"
  <2>1. tunnel'.taken = 0 /\ Len(b) = 0 /\ b' = b /\ setup' = "done"
    BY <1>1, <1>2, <1>3, <1>4, NoTunnelIs
  <2> QED BY <1>1, <2>1 DEF Faithful, HandedOverExactly
<1>5. CASE route # "direct"
  <2>1. /\ setup' = "handshake" /\ tunnel' = FirstRequest(route) /\ stream'.router = b
        /\ UsedUp(route, Holding(FirstRequest(route), b))
    BY <1>1, <1>3, <1>5
  <2>2. FirstRequest(route).taken = 0
    BY DEF FirstRequest, NoTunnel
  <2>3. Len(b) \in Nat /\ SubSeq(b, 1, Len(b)) = b
    BY <1>2, LenProperties, SubSeqFull
  <2>4. tunnel'.taken = 0
    BY <2>1, <2>2
  <2>5. Rest' = SubSeq(b, 0 + 1, Len(b))
    BY <2>1, <2>4 DEF Rest
  <2>6. 0 + 1 = 1 /\ 0 <= Len(b)
    BY <2>3
  <2>7. Rest' = b
    BY <2>3, <2>5, <2>6, Zenon
  <2> HIDE DEF b
  <2>8. UsedUp(route', Holding(tunnel', Rest'))
    BY <1>1, <2>1, <2>7
  <2> QED BY <1>1, <1>5, <2>1, <2>4, <2>6, <2>8 DEF Faithful, HandedOverExactly, b
<1> QED BY <1>4, <1>5

\* The bytes the tunnel reads are the router's, so far as they go.
LEMMA HandshakeAgrees ==
  ASSUME TransportIndInv, setup = "handshake", tunnel.taken <= Len(stream.router),
         NEW n \in 1..Unemitted
  PROVE  /\ Chunk(n) \in Seq(Byte) /\ Rest \in Seq(Byte)
         /\ tunnel.buffered \o Chunk(n) \in Seq(Byte)
         /\ Agrees(tunnel.buffered \o Chunk(n), Rest)
<1> DEFINE a == stream.router
           b == stream.target
           k == tunnel.taken
           m == socket.read
           z == m + n
           l == Len(a)
           c == Chunk(n)
<1>1. SetupRuns
  BY DEF SetupRuns
<1>2. /\ TransportTypeOK /\ m \in Nat /\ k \in 0..m /\ k \in Nat
      /\ tunnel.buffered = SubSeq(Sent, k + 1, m)
  BY <1>1, SetupFacts
<1>3. /\ a \in Seq(Byte) /\ b \in Seq(Byte) /\ Sent = a \o b /\ l \in Nat /\ Len(b) \in Nat
  BY <1>2, LenProperties DEF TransportTypeOK, Sent
<1>4. Sent \in Seq(Byte) /\ Len(Sent) \in Nat /\ Unemitted = Len(Sent) - m
  BY <1>2, SentIs
<1>5. /\ c \in Seq(Byte) /\ n \in Nat
      /\ \A i \in 0..m : SubSeq(Sent, i + 1, m) \o c = SubSeq(Sent, i + 1, z)
  BY <1>2, ChunkIs
<1> DEFINE all == tunnel.buffered \o c
<1>6. all = SubSeq(Sent, k + 1, z)
  BY <1>2, <1>5
<1> HIDE DEF a, b, k, m, c, all
<1>7. z \in Nat /\ z <= Len(Sent) /\ k <= z
  BY <1>2, <1>4, <1>5
<1> HIDE DEF z
<1>8. all \in Seq(Byte) /\ Len(all) = z - k /\ \A i \in 1..(z - k) : all[i] = Sent[k + i]
  <2> DEFINE d == SubSeq(Sent, k + 1, z)
  <2>1. d \in Seq(Byte) /\ Len(d) = z - k /\ \A i \in 1..(z - k) : d[i] = Sent[k + i]
    BY <1>2, <1>4, <1>7, Cut
  <2> QED BY <1>6, <2>1, Zenon
<1>9. Rest \in Seq(Byte) /\ Len(Rest) = l - k /\ \A i \in 1..(l - k) : Rest[i] = a[k + i]
  <2>1. Rest = SubSeq(a, k + 1, l) /\ k <= l
    BY DEF Rest, a, k
  <2> DEFINE d == SubSeq(a, k + 1, l)
  <2>2. d \in Seq(Byte) /\ Len(d) = l - k /\ \A i \in 1..(l - k) : d[i] = a[k + i]
    BY <1>2, <1>3, <2>1, Cut
  <2> QED BY <2>1, <2>2, Zenon
<1>10. ASSUME NEW i \in 1..Len(all), i <= Len(Rest) PROVE all[i] = Rest[i]
  <2> HIDE DEF l
  <2>1. i \in 1..(z - k) /\ i \in 1..(l - k) /\ k + i \in 1..l
    BY <1>2, <1>3, <1>7, <1>8, <1>9, <1>10
  <2>2. Sent[k + i] = a[k + i]
    <3> DEFINE j == k + i
    <3>1. j \in 1..Len(a)
      BY <2>1 DEF l
    <3> HIDE DEF j
    <3>2. (a \o b)[j] = a[j]
      BY <1>3, <3>1, ConcatProperties
    <3> QED BY <1>3, <3>2 DEF j
  <2> QED BY <1>8, <1>9, <2>1, <2>2
<1> QED BY <1>5, <1>8, <1>9, <1>10 DEF Agrees, all, c

LEMMA FaithfulHandshake ==
  ASSUME TransportIndInv, Faithful, HandshakeData
  PROVE  Faithful'
<1>1. /\ setup = "handshake" /\ stream' = stream /\ route' = route
      /\ stream.router \in Replies[route]
      /\ route # "direct" /\ tunnel.taken <= Len(stream.router)
      /\ UsedUp(route, Holding(tunnel, Rest))
  BY DEF HandshakeData, Faithful
<1>2. PICK n \in 1..Unemitted :
        LET r == Reply(tunnel, Chunk(n)) IN
        IF r.verdict = "rejected"
        THEN setup' = "failed" /\ socket' = Destroyed(Reading(n)) /\ tunnel' = NoTunnel
        ELSE /\ tunnel' = [phase |-> r.phase, requests |-> r.requests,
                           taken |-> r.taken,
                           buffered |-> IF r.verdict = Nothing THEN r.buffered ELSE Kept(r)]
             /\ setup' = IF r.verdict = Nothing THEN setup ELSE "handoff"
             /\ socket' = [Reading(n) EXCEPT !.paused = r.verdict # Nothing]
  BY DEF HandshakeData
<1> DEFINE c == Chunk(n)
           r == Reply(tunnel, c)
           w == Rest
           k == tunnel.taken
           l == Len(stream.router)
<1>3. /\ tunnel \in Tunnels /\ route \in {"saprouter", "socks5"} /\ k \in Nat
      /\ stream.router \in Seq(Byte) /\ l \in Nat
  <2>1. TransportTypeOK
    BY DEF TransportIndInv
  <2>2. tunnel \in Tunnels /\ stream.router \in Seq(Byte) /\ route \in Routes
    BY <2>1 DEF TransportTypeOK
  <2> QED BY <1>1, <2>2, RoutedTransportAssumption, LenProperties DEF Tunnels
<1>4. /\ c \in Seq(Byte) /\ w \in Seq(Byte) /\ tunnel.buffered \o c \in Seq(Byte)
      /\ Agrees(tunnel.buffered \o c, w)
  BY <1>1, HandshakeAgrees
<1>5. w = SubSeq(stream.router, k + 1, l) /\ Len(w) = l - k /\ k <= l
  <2>1. w = SubSeq(stream.router, k + 1, l) /\ k <= l
    BY <1>1 DEF Rest
  <2> HIDE DEF w, k
  <2>2. Len(SubSeq(stream.router, k + 1, l)) = (IF k <= l THEN l - k ELSE 0)
    BY <1>3, Cut
  <2> QED BY <2>1, <2>2
<1> HIDE DEF c
<1>6. \/ r.verdict = "rejected"
      \/ r.verdict = "accepted" /\ r.taken = tunnel.taken + Len(w)
      \/ /\ r.verdict = Nothing
         /\ \E s \in 0..Len(w) :
              /\ r.taken = tunnel.taken + s
              /\ UsedUp(route, Holding(r, SubSeq(w, s + 1, Len(w))))
  <2> HIDE DEF w
  <2>1. UsedUp(route, Holding(tunnel, w))
    BY <1>1 DEF w
  <2> QED BY <1>3, <1>4, <2>1, ReplyExact
<1> HIDE DEF r, w, k, l
<1>7. CASE r.verdict = "rejected"
  <2>1. setup' = "failed"
    BY <1>2, <1>7 DEF r, c
  <2> QED BY <1>1, <2>1 DEF Faithful, HandedOverExactly
<1>8. CASE r.verdict = "accepted" /\ r.taken = tunnel.taken + Len(w)
  <2>1. setup' = "handoff" /\ tunnel'.taken = r.taken
    BY <1>2, <1>8 DEF r, c, Nothing
  <2>2. r.taken = l
    BY <1>3, <1>5, <1>8 DEF k
  <2> QED BY <1>1, <2>1, <2>2 DEF Faithful, HandedOverExactly, l
<1>9. CASE /\ r.verdict = Nothing
           /\ \E s \in 0..Len(w) :
                /\ r.taken = tunnel.taken + s
                /\ UsedUp(route, Holding(r, SubSeq(w, s + 1, Len(w))))
  <2>1. PICK s \in 0..Len(w) : /\ r.taken = k + s
                               /\ UsedUp(route, Holding(r, SubSeq(w, s + 1, Len(w))))
    BY <1>9 DEF k
  <2>2. /\ setup' = "handshake"
        /\ tunnel'.phase = r.phase /\ tunnel'.requests = r.requests /\ tunnel'.taken = r.taken
    BY <1>1, <1>2, <1>9 DEF r, c, Nothing
  <2>3. \A x : Holding(tunnel', x) = Holding(r, x)
    BY <2>2 DEF Holding
  <2> DEFINE i == k + s
             m == Len(w)
  <2>4. s \in Nat /\ m \in Nat /\ m <= l - k /\ k + m = l /\ i \in Nat /\ i <= l
    BY <1>3, <1>5, <2>1
  <2>5. SubSeq(w, s + 1, m) = SubSeq(stream.router, i + 1, l)
    <3> HIDE DEF m
    <3>1. SubSeq(SubSeq(stream.router, k + 1, l), s + 1, m)
            = SubSeq(stream.router, k + s + 1, k + m)
      <4>1. l <= Len(stream.router)
        BY <1>3 DEF l
      <4> QED BY <1>3, <1>5, <2>4, <4>1, CutCut
    <3>2. SubSeq(SubSeq(stream.router, k + 1, l), s + 1, m) = SubSeq(w, s + 1, m)
      BY <1>5
    <3> QED BY <2>4, <3>1, <3>2, Zenon
  <2> HIDE DEF i, m
  <2>6. Rest' = SubSeq(stream.router, i + 1, l) /\ tunnel'.taken = i
    BY <1>1, <2>1, <2>2 DEF Rest, l, i
  <2>7. UsedUp(route, Holding(tunnel', Rest'))
    <3>1. Rest' = SubSeq(w, s + 1, m)
      BY <2>5, <2>6
    <3>2. UsedUp(route, Holding(r, Rest'))
      BY <2>1, <3>1 DEF m
    <3> QED BY <2>3, <3>2
  <2> QED BY <1>1, <2>2, <2>4, <2>6, <2>7 DEF Faithful, HandedOverExactly, l
<1> QED BY <1>6, <1>7, <1>8, <1>9

LEMMA FaithfulStep ==
  TransportIndInv /\ Faithful /\ [TransportNext]_transportVars => Faithful'
<1> SUFFICES ASSUME TransportIndInv, Faithful, [TransportNext]_transportVars
             PROVE  Faithful'
  OBVIOUS
<1>1. ASSUME stream' = stream, route' = route, setup' = setup, tunnel' = tunnel
      PROVE  Faithful'
  BY <1>1 DEF Faithful, HandedOverExactly, Rest
<1>2. CASE UNCHANGED transportVars
  BY <1>1, <1>2 DEF transportVars, niVars
<1>3. CASE NiNext /\ Outside
  <2>1. stream' = stream /\ setup' = setup
    BY <1>3 DEF NiNext, Data, End, SocketError, SocketCloses, Receive, ReceiveFails,
       AssertNoQueuedFrames, Send, SendFails, Written, WriteFails, CloseBegins, CloseTimesOut
  <2> QED BY <1>1, <1>3, <2>1 DEF Outside
<1>4. ASSUME setup' = "failed", stream' = stream, route' = route
      PROVE  Faithful'
  BY <1>4 DEF Faithful, HandedOverExactly
<1>5. CASE AttemptFails \/ Abort \/ BreaksUnheard \/ AdoptFails
  BY <1>1, <1>4, <1>5 DEF AttemptFails, Abort, BreaksUnheard, AdoptFails, SetupFails
<1>6. CASE Adopt
  <2>1. /\ stream' = stream /\ route' = route /\ setup = "handoff"
        /\ \/ setup' = "failed"
           \/ setup' = "done" /\ tunnel' = [tunnel EXCEPT !.buffered = <<>>]
    BY <1>6 DEF Adopt, SetupFails
  <2>2. CASE setup' = "done" /\ tunnel' = [tunnel EXCEPT !.buffered = <<>>]
    <3>1. tunnel \in Tunnels
      BY DEF TransportIndInv, TransportTypeOK
    <3>2. tunnel'.taken = tunnel.taken
      BY <2>2, <3>1 DEF Tunnels
    <3> QED BY <2>1, <2>2, <3>2 DEF Faithful, HandedOverExactly
  <2> QED BY <1>4, <2>1, <2>2
<1> QED BY <1>2, <1>3, <1>5, <1>6, FaithfulConnected, FaithfulHandshake
    DEF TransportNext, SetsUp, Outside

\* However its answer is cut, and whatever came with it, the tunnel hands over
\* the stream at the byte where the router's answer ends and the target's
\* first record begins.
THEOREM TunnelTakesItsOwn == TransportSpec => []HandedOverExactly
<1>1. TransportInit => Faithful
  BY FaithfulInit
<1>2. TransportIndInv /\ Faithful /\ [TransportNext]_transportVars => Faithful'
  BY FaithfulStep
<1>3. Faithful => HandedOverExactly
  BY DEF Faithful
<1> QED BY <1>1, <1>2, <1>3, TransportInvariant, PTL DEF TransportSpec

(***************************************************************************)
(* The refinement of FrameChannel, but for its fairness                    *)
(***************************************************************************)
\* What a step does to an open transport: it hands out one record at most,
\* and takes the end of the stream only while the stream flows.
Moves ==
  /\ ni'.state \in {"open", "closing", "closed"}
  /\ \/ received' = received
     \/ ni'.state = "open" /\ \E x \in Seq(Byte) : received' = Append(received, x)
  /\ socket'.ended # socket.ended => ~socket.paused

LEMMA FailureMoves ==
  ASSUME NEW t \in Seen, NEW code \in TerminalCodes, t.ni.state # "closed",
         Become(Failed(t, code)), t.received = received,
         t.socket.ended # socket.ended => ~socket.paused
  PROVE  Moves
<1>1. /\ Failed(t, code).ni.state = "closed" /\ Failed(t, code).received = t.received
      /\ Failed(t, code).socket.ended = t.socket.ended
  BY FailedIs
<1>2. /\ ni' = Failed(t, code).ni /\ socket' = Failed(t, code).socket
      /\ received' = Failed(t, code).received
  BY DEF Become
<1> QED BY <1>1, <1>2 DEF Moves

LEMMA DataMoves ==
  ASSUME TransportIndInv, NEW n \in 1..Unemitted, Data(n), ni.state = "open"
  PROVE  Moves
<1> DEFINE t == [Now EXCEPT !.socket = Reading(n)]
           c == Chunk(n)
           u == OnData(t, c)
<1>1. ~socket.paused /\ Become(u)
  BY DEF Data, Emits
<1>2. /\ TransportTypeOK /\ Now \in Seen /\ Now.ni = ni /\ Now.received = received
  BY NowSeen
<1>3. c \in Seq(Byte) /\ Reading(n) \in Sockets
  BY <1>2, ChunkIs
<1>4. t \in Seen /\ t.ni = ni /\ t.received = received /\ t.socket = Reading(n)
  BY <1>2, <1>3 DEF Seen
<1>5. /\ ni.queue = <<>> /\ ~ni.pausedForQueue /\ DecoderOK(ni.decoder)
      /\ received \in Seq(Payloads)
  BY <1>1, FlowsEmpty
<1> HIDE DEF t, c
<1>6. /\ t.ni.state = "open" /\ t.ni.queue = <<>> /\ ~t.ni.pausedForQueue
      /\ DecoderOK(t.ni.decoder) /\ t.received \in Seq(Payloads)
  BY <1>4, <1>5
<1>7. \/ u = Failed(t, "NI_PROTOCOL_ERROR")
      \/ OpenWell(u.ni, u.socket, u.received,
                  Encoded(t.received) \o (Remainder(t.ni.decoder) \o c)) /\ HandsOut(t, u)
  BY <1>3, <1>4, <1>6, OnDataIs
<1> HIDE DEF u
<1>8. CASE u = Failed(t, "NI_PROTOCOL_ERROR")
  <2>1. Become(Failed(t, "NI_PROTOCOL_ERROR")) /\ t.ni.state # "closed"
    BY <1>1, <1>6, <1>8
  <2> QED BY <1>1, <1>4, <2>1, FailureMoves, TerminalCode
<1>9. CASE u.ni.state = "open" /\ HandsOut(t, u)
  <2>1. ni' = u.ni /\ received' = u.received
    BY <1>1 DEF Become
  <2> QED BY <1>1, <1>4, <1>9, <2>1 DEF Moves, HandsOut
<1> QED BY <1>7, <1>8, <1>9 DEF OpenWell

LEMMA ReceiveMoves ==
  ASSUME TransportIndInv, Receive
  PROVE  Moves
<1>1. ni.state = "open" /\ (TakeQueued \/ ResumeFails \/ Wait)
  BY DEF Receive
<1>2. /\ Now \in Seen /\ Now.ni = ni /\ Now.received = received /\ Now.socket = socket
      /\ ni \in Transports /\ socket \in Sockets
  BY NowSeen
<1>3. ni.queue \in Chunks /\ received \in Chunks
  BY <1>1, OpenFacts
<1>4. CASE TakeQueued
  <2> DEFINE x == Head(ni.queue)
             h == Append(received, x)
             rest == Tail(ni.queue)
             a == [Now EXCEPT !.ni.queue = rest, !.received = h]
  <2>1. ni.queue # <<>> /\ Become(Resumed(a))
    <3>1. /\ ni.queue # <<>>
          /\ Become(Resumed([Now EXCEPT !.ni.queue = Tail(@),
                                        !.received = Append(@, Head(ni.queue))]))
      BY <1>4 DEF TakeQueued
    <3>2. [Now EXCEPT !.ni.queue = Tail(@), !.received = Append(@, Head(ni.queue))] = a
      BY <1>2
    <3> QED BY <3>1, <3>2
  <2>2. x \in Seq(Byte)
    BY <1>3, <2>1, TailQueued
  <2> HIDE DEF x, h, rest
  <2>3. a.ni.state = "open" /\ a.received = h /\ a.socket = socket
    BY <1>1, <1>2 DEF Seen, Transports
  <2> HIDE DEF a
  <2>4. /\ Resumed(a).ni.state = "open" /\ Resumed(a).received = h
        /\ Resumed(a).socket.ended = socket.ended
    BY <1>2, <2>3 DEF Resumed, Sockets
  <2>5. ni'.state = "open" /\ received' = h /\ socket'.ended = socket.ended
    BY <2>1, <2>4 DEF Become
  <2> QED BY <2>2, <2>5 DEF Moves, h
<1>5. CASE ResumeFails
  <2> DEFINE t == [Now EXCEPT !.ni.queue = <<>>]
  <2>1. Become(Failed(t, "NI_CONNECTION_CLOSED"))
    BY <1>5 DEF ResumeFails
  <2>2. t \in Seen /\ t.ni.state = "open" /\ t.socket = socket /\ t.received = received
    BY <1>1, <1>2, NoneQueued DEF Seen, Transports
  <2> HIDE DEF t
  <2>3. t.ni.state # "closed"
    BY <2>2
  <2> QED BY <2>1, <2>2, <2>3, FailureMoves, TerminalCode
<1>6. CASE Wait
  <2>1. PICK timing \in {"timed", "untimed"} : Become([Now EXCEPT !.ni.pending = timing])
    BY <1>6 DEF Wait
  <2> DEFINE u == [Now EXCEPT !.ni.pending = timing]
  <2>2. u.ni.state = "open" /\ u.received = received /\ u.socket = socket
    BY <1>1, <1>2 DEF Seen, Transports
  <2>3. ni' = u.ni /\ received' = u.received /\ socket' = u.socket
    BY <2>1 DEF Become
  <2> HIDE DEF u
  <2> QED BY <2>2, <2>3 DEF Moves
<1> QED BY <1>1, <1>4, <1>5, <1>6

LEMMA CloseMoves ==
  ASSUME TransportIndInv, CloseBegins
  PROVE  Moves
<1>1. /\ Now.ni = ni /\ Now.received = received /\ Now.socket = socket /\ Now \in Seen
      /\ socket \in Sockets
  BY NowSeen
<1> DEFINE p == ni.pausedForQueue
           x == [NoTransport EXCEPT !.state = "closing", !.pausedForQueue = p]
<1>2. x.state = "closing" /\ Quiet = [Now EXCEPT !.ni = x]
  BY DEF NoTransport, Quiet
<1> HIDE DEF x
<1>3. Quiet.ni = x /\ Quiet.received = received /\ Quiet.socket = socket
  BY <1>1, <1>2 DEF Seen
<1>4. CASE Become([Quiet EXCEPT !.socket.state = IF @ = "up" THEN "ending" ELSE @])
  <2> DEFINE v == IF socket.state = "up" THEN "ending" ELSE socket.state
             u == [Quiet EXCEPT !.socket.state = v]
  <2>1. Become(u)
    BY <1>3, <1>4
  <2> HIDE DEF v
  <2>2. u.ni = x /\ u.received = received /\ u.socket.ended = socket.ended
    BY <1>1, <1>2, <1>3 DEF Seen, Sockets
  <2> HIDE DEF u
  <2> QED BY <1>2, <2>1, <2>2 DEF Become, Moves
<1>5. CASE Become([Quiet EXCEPT !.ni.state = "closed", !.socket = Destroyed(@)])
  <2> DEFINE d == Destroyed(socket)
             y == [x EXCEPT !.state = "closed"]
             u == [[Quiet EXCEPT !.ni = y] EXCEPT !.socket = d]
  <2>1. Become(u)
    BY <1>3, <1>5
  <2>2. d.ended = socket.ended
    BY <1>1 DEF Destroyed, Sockets
  <2>3. y.state = "closed"
    BY DEF x, NoTransport
  <2> HIDE DEF d, y
  <2>4. u.ni = y /\ u.received = received /\ u.socket = d
    BY <1>1, <1>2 DEF Seen
  <2> HIDE DEF u
  <2> QED BY <2>1, <2>2, <2>3, <2>4 DEF Become, Moves
<1> QED BY <1>4, <1>5 DEF CloseBegins

\* An open transport has nothing left to set up.
LEMMA OnlyServes ==
  ASSUME TransportIndInv, TransportNext, ni.state = "open"
  PROVE  NiNext /\ stream' = stream /\ setup' = setup /\ tunnel' = tunnel
<1>1. setup = "done"
  BY OpenFacts
<1>2. NiNext /\ Outside
  BY <1>1 DEF TransportNext, SetsUp, Connected, AttemptFails, Abort, HandshakeData,
     BreaksUnheard, Adopt, AdoptFails, Outside
<1> QED
  BY <1>2 DEF NiNext, Data, End, SocketError, SocketCloses, Receive, ReceiveFails,
     AssertNoQueuedFrames, Send, SendFails, Written, WriteFails, CloseBegins, CloseTimesOut,
     Outside

\* Whatever an open transport does, it is one of these moves.
LEMMA TransportMoves ==
  ASSUME TransportIndInv, TransportNext, ni.state = "open"
  PROVE  Moves
<1>1. /\ TransportTypeOK /\ setup = "done" /\ closing = Nothing
      /\ Now \in Seen /\ Now.ni = ni /\ Now.received = received /\ Now.socket = socket
      /\ socket \in Sockets /\ ni \in Transports
  BY OpenFacts, NowSeen
<1>2. NiNext
  BY OnlyServes
<1>3. Now.ni.state # "closed" /\ Now.socket.ended = socket.ended
  BY <1>1
<1>4. CASE \E n \in 1..Unemitted : Data(n)
  BY <1>4, DataMoves
<1>5. CASE End
  <2> DEFINE t == [Now EXCEPT !.socket.ended = TRUE]
  <2>1. Become(Failed(t, EndCode)) /\ EndCode \in TerminalCodes /\ ~socket.paused
    BY <1>5, TerminalCode DEF End, EndCode, Emits
  <2>2. t \in Seen /\ t.ni = ni /\ t.received = received
    BY <1>1 DEF Seen, Sockets
  <2> HIDE DEF t
  <2>3. t.ni.state # "closed"
    BY <2>2
  <2> QED BY <2>1, <2>2, <2>3, FailureMoves
<1>6. CASE SocketError
  <2> DEFINE f == Failed(Now, "NI_CONNECTION_CLOSED")
             d == Destroyed(f.socket)
             u == [f EXCEPT !.socket = d]
  <2>1. Become(u)
    BY <1>6 DEF SocketError
  <2>2. /\ f \in Seen /\ f.ni.state = "closed" /\ f.received = received
        /\ f.socket.ended = socket.ended
    BY <1>1, <1>3, FailedIs, TerminalCode
  <2> HIDE DEF f
  <2>3. d.ended = f.socket.ended
    BY <2>2 DEF Destroyed, Seen, Sockets
  <2> HIDE DEF d
  <2>4. u.ni = f.ni /\ u.received = f.received /\ u.socket = d
    BY <2>2 DEF Seen
  <2> HIDE DEF u
  <2> QED BY <2>1, <2>2, <2>3, <2>4 DEF Become, Moves
<1>7. CASE SocketCloses
  <2> DEFINE t == [Now EXCEPT !.socket.state = "closed"]
  <2>1. t \in Seen /\ t.ni = ni /\ t.received = received /\ t.socket.ended = socket.ended
    BY <1>1 DEF Seen, Sockets
  <2>2. Become(Failed(t, "NI_CONNECTION_CLOSED"))
    <3>1. Become(CASE t.ni.state = "closing" -> [t EXCEPT !.ni.state = "closed"]
                   [] t.ni.state = "open" -> Failed(t, "NI_CONNECTION_CLOSED")
                   [] OTHER -> t)
      BY <1>7 DEF SocketCloses
    <3> HIDE DEF t
    <3>2. t.ni.state = "open"
      BY <2>1
    <3> QED BY <3>1, <3>2
  <2> HIDE DEF t
  <2>3. t.ni.state # "closed"
    BY <2>1
  <2> QED BY <2>1, <2>2, <2>3, FailureMoves, TerminalCode
<1>8. CASE Receive \/ CloseBegins
  BY <1>8, ReceiveMoves, CloseMoves
<1>9. CASE \E code \in TerminalCodes : Become(Failed(Now, code))
  BY <1>1, <1>3, <1>9, FailureMoves
<1>10. CASE \E s \in Sends : Send(s) \/ Written(s)
  BY <1>10 DEF Send, Written, Moves
<1>11. ~CloseTimesOut
  BY <1>1 DEF CloseTimesOut, Nothing
<1>12. ReceiveFails \/ AssertNoQueuedFrames \/ (\E s \in Sends : SendFails(s) \/ WriteFails(s))
        => \E code \in TerminalCodes : Become(Failed(Now, code))
  BY TerminalCode DEF ReceiveFails, AssertNoQueuedFrames, SendFails, WriteFails
<1> QED BY <1>2, <1>4, <1>5, <1>6, <1>7, <1>8, <1>9, <1>10, <1>11, <1>12 DEF NiNext

\* When the peer ends an open transport in an orderly way, every record it
\* sent until then has been returned by receive().
THEOREM NothingCutOff == TransportSpec => EndAfterDrain
<1>1. TransportIndInv /\ [TransportNext]_transportVars =>
        [socket'.ended /\ ~socket.ended /\ ni.state = "open" =>
           received = Records(SubSeq(Sent, tunnel.taken + 1, socket.read))]_transportVars
  <2>1. ASSUME TransportIndInv, TransportNext, socket'.ended, ~socket.ended,
               ni.state = "open"
        PROVE  received = Records(SubSeq(Sent, tunnel.taken + 1, socket.read))
    <3>1. ~socket.paused
      BY <2>1, TransportMoves DEF Moves
    <3>2. ni.queue = <<>> /\ received \in Chunks
      BY <2>1, <3>1, FlowsEmpty
    <3>3. received \o ni.queue = Records(SubSeq(Sent, tunnel.taken + 1, socket.read))
      BY <2>1, OrderInv DEF InOrder
    <3>4. received \o <<>> = received
      BY <3>2, ConcatEmptySeq DEF Chunks
    <3> QED BY <3>2, <3>3, <3>4
  <2>2. CASE UNCHANGED transportVars
    <3>1. socket' = socket
      BY <2>2 DEF transportVars, niVars
    <3> QED BY <2>2, <3>1
  <2> QED BY <2>1, <2>2
<1> QED BY <1>1, TransportInvariant, PTL DEF TransportSpec, EndAfterDrain

\* What the target sent is what the session got, and then more.
Ahead ==
  ni.state = "open" => \E more \in Chunks : Records(stream.target) = received \o more

LEMMA AheadInv == TransportIndInv /\ HandedOverExactly => Ahead
<1> SUFFICES ASSUME TransportIndInv, HandedOverExactly, ni.state = "open"
             PROVE  \E more \in Chunks : Records(stream.target) = received \o more
  BY DEF Ahead
<1> DEFINE a == stream.router
           b == stream.target
           k == Len(a)
           n == Len(Sent)
           m == socket.read
           rest == Remainder(ni.decoder)
           x == SubSeq(Sent, m + 1, n)
<1>1. /\ a \in Seq(Byte) /\ b \in Seq(Byte) /\ Sent = a \o b /\ Sent \in Seq(Byte)
      /\ n \in Nat /\ m \in 0..n /\ tunnel.taken <= m /\ tunnel.taken = k
      /\ received \in Chunks /\ ni.queue \in Chunks
  <2>1. TransportTypeOK /\ setup = "done" /\ tunnel.taken <= socket.read
    BY OpenFacts DEF TransportIndInv
  <2> QED BY <2>1, OpenFacts, SentIs DEF TransportTypeOK, HandedOverExactly, Sent
<1> HIDE DEF a, b, n, m
<1>2. k \in Nat /\ n = k + Len(b) /\ Len(b) \in Nat
  BY <1>1, ConcatProperties, LenProperties DEF n
<1> HIDE DEF k
<1>3. x \in Seq(Byte)
  BY <1>1, <1>2, Cut DEF n
<1>4. Records(SubSeq(Sent, k + 1, m) \o x) = (received \o ni.queue) \o Records(rest \o x)
      /\ rest \in Seq(Byte)
  BY <1>1, <1>3, ReadsOn DEF m
<1>5. SubSeq(Sent, k + 1, m) \o x = SubSeq(Sent, k + 1, n)
  <2>1. /\ k <= m /\ m <= n /\ m \in Nat /\ n <= Len(Sent) /\ k \in Nat /\ n \in Nat
        /\ Sent \in Seq(Byte)
    BY <1>1, <1>2 DEF n
  <2> HIDE DEF k, m, n
  <2> QED BY <2>1, CutJoin
<1>6. SubSeq(Sent, k + 1, n) = b
  <2> DEFINE c == SubSeq(Sent, k + 1, n)
  <2>1. c \in Seq(Byte) /\ Len(c) = n - k /\ \A i \in 1..(n - k) : c[i] = Sent[k + i]
    BY <1>1, <1>2, Cut DEF n
  <2>2. \A i \in 1..Len(b) : (a \o b)[k + i] = b[i]
    BY <1>1, <1>2, ConcatProperties DEF k
  <2> HIDE DEF c
  <2> DEFINE l == Len(b)
  <2>3. Len(c) = Len(b) /\ \A i \in 1..Len(b) : c[i] = b[i]
    <3>1. n - k = l
      BY <1>2
    <3> HIDE DEF l
    <3>2. Len(c) = l /\ \A i \in 1..l : c[i] = Sent[k + i]
      BY <2>1, <3>1
    <3>3. \A i \in 1..l : Sent[k + i] = b[i]
      BY <1>1, <2>2 DEF l
    <3> QED BY <3>2, <3>3 DEF l
  <2>4. c = b
    BY <1>1, <2>1, <2>3, SeqEqual
  <2> QED BY <2>4 DEF c
<1> DEFINE more == ni.queue \o Records(rest \o x)
<1>7. more \in Chunks /\ Records(b) = received \o more
  <2> DEFINE z == Records(rest \o x)
  <2>1. rest \o x \in Seq(Byte)
    BY <1>3, <1>4, ConcatProperties
  <2>2. z \in Chunks
    BY <2>1, RecordsType
  <2>3. Records(b) = (received \o ni.queue) \o z
    BY <1>4, <1>5, <1>6, Zenon
  <2> HIDE DEF z
  <2>4. (received \o ni.queue) \o z = received \o (ni.queue \o z)
    BY <1>1, <2>2, ChunksAssociate
  <2>5. ni.queue \o z \in Chunks
    BY <1>1, <2>2, ConcatProperties DEF Chunks
  <2> QED BY <2>3, <2>4, <2>5, Zenon DEF z
<1> HIDE DEF more
<1> QED BY <1>7 DEF b

\* A transport that is not open hands out nothing, and neither does its setup.
LEMMA IdleMoves ==
  ASSUME TransportIndInv, NiNext, ni.state # "open"
  PROVE  /\ received' = received /\ ni'.state \in {ni.state, "closed"}
         /\ stream' = stream /\ setup' = setup
<1>1. /\ Now \in Seen /\ Now.ni = ni /\ Now.received = received /\ ni \in Transports
  BY NowSeen
<1>2. stream' = stream /\ setup' = setup
  BY DEF NiNext, Data, End, SocketError, SocketCloses, Receive, ReceiveFails,
     AssertNoQueuedFrames, Send, SendFails, Written, WriteFails, CloseBegins, CloseTimesOut
<1>3. ASSUME NEW t \in Seen, t.ni = ni, t.received = received, NEW code \in TerminalCodes
      PROVE  Failed(t, code).received = received /\ Failed(t, code).ni.state \in {ni.state, "closed"}
  <2>1. CASE t.ni.state = "closed"
    BY <1>3, <2>1 DEF Failed
  <2>2. CASE t.ni.state # "closed"
    BY <1>3, <2>2, FailedIs
  <2> QED BY <2>1, <2>2
<1>4. ASSUME NEW n \in 1..Unemitted, Data(n)
      PROVE  ni' = ni /\ received' = received
  <2> DEFINE t == [Now EXCEPT !.socket = Reading(n)]
             c == Chunk(n)
  <2>1. Become(OnData(t, c))
    BY <1>4 DEF Data
  <2>2. t.ni = ni /\ t.received = received
    BY <1>1 DEF Seen
  <2> HIDE DEF t, c
  <2>3. OnData(t, c) = t
    BY <2>2 DEF OnData
  <2> QED BY <2>1, <2>2, <2>3 DEF Become
<1>5. CASE End
  <2> DEFINE t == [Now EXCEPT !.socket.ended = TRUE]
  <2>1. Become(t)
    BY <1>5 DEF End
  <2>2. t.ni = ni /\ t.received = received
    BY <1>1 DEF Seen
  <2> HIDE DEF t
  <2> QED BY <1>2, <2>1, <2>2 DEF Become
<1>6. CASE SocketError
  <2> DEFINE f == Failed(Now, "NI_CONNECTION_CLOSED")
             u == [f EXCEPT !.socket = Destroyed(@)]
  <2>1. Become(u)
    BY <1>6 DEF SocketError
  <2>2. f.received = received /\ f.ni.state \in {ni.state, "closed"}
    BY <1>1, <1>3, TerminalCode
  <2>3. f \in Seen
    BY <1>1, FailedIs, TerminalCode DEF Failed
  <2> HIDE DEF f
  <2>4. u.ni = f.ni /\ u.received = f.received
    BY <2>3 DEF Seen
  <2> HIDE DEF u
  <2> QED BY <1>2, <2>1, <2>2, <2>4 DEF Become
<1>7. CASE SocketCloses
  <2> DEFINE t == [Now EXCEPT !.socket.state = "closed"]
             u == [t EXCEPT !.ni.state = "closed"]
  <2>1. Become(IF t.ni.state = "closing" THEN u
               ELSE IF t.ni.state = "open" THEN Failed(t, "NI_CONNECTION_CLOSED")
               ELSE t)
    BY <1>7 DEF SocketCloses
  <2>2. t \in Seen /\ t.ni = ni /\ t.received = received
    <3> DEFINE s == [socket EXCEPT !.state = "closed"]
    <3>1. socket \in Sockets
      BY NowSeen
    <3>2. s \in Sockets /\ t = [Now EXCEPT !.socket = s]
      BY <1>1, <3>1, NowSeen DEF Sockets
    <3> HIDE DEF s, t
    <3> QED BY <1>1, <3>2 DEF Seen
  <2> HIDE DEF t
  <2>3. u.ni.state = "closed" /\ u.received = received
    BY <1>1, <2>2 DEF Seen, Transports
  <2> HIDE DEF u
  <2>4. Become(u) \/ Become(t)
    BY <2>1, <2>2
  <2> QED BY <1>2, <2>2, <2>3, <2>4 DEF Become
<1>8. CASE CloseTimesOut
  <2> DEFINE u == [Now EXCEPT !.ni.state = "closed", !.socket = Destroyed(@)]
  <2>1. Become(u)
    BY <1>8 DEF CloseTimesOut
  <2>2. u.ni.state = "closed" /\ u.received = received
    BY <1>1 DEF Seen, Transports
  <2> HIDE DEF u
  <2> QED BY <1>2, <2>1, <2>2 DEF Become
<1>9. ASSUME NEW s \in Sends, WriteFails(s)
      PROVE  received' = received /\ ni'.state \in {ni.state, "closed"}
  <2>1. PICK code \in TerminalCodes : Become(Failed(Now, code))
    BY <1>9, TerminalCode DEF WriteFails
  <2> QED BY <1>1, <1>3, <2>1 DEF Become
<1>10. CASE \E s \in Sends : Written(s)
  BY <1>10 DEF Written
<1>11. /\ ~Receive /\ ~ReceiveFails /\ ~AssertNoQueuedFrames /\ ~CloseBegins
       /\ \A s \in Sends : ~Send(s) /\ ~SendFails(s)
  BY DEF Receive, ReceiveFails, AssertNoQueuedFrames, CloseBegins, Send, SendFails
<1> QED BY <1>2, <1>4, <1>5, <1>6, <1>7, <1>8, <1>9, <1>10, <1>11 DEF NiNext

LEMMA SetupMoves ==
  ASSUME TransportIndInv, SetsUp
  PROVE  SetupRuns /\ received' = received /\ stream' = stream
<1>1. SetupRuns /\ stream' = stream
  BY DEF SetsUp, Connected, AttemptFails, Abort, HandshakeData, BreaksUnheard, Adopt,
     AdoptFails, SetupRuns
<1>2. CASE Adopt
  <2> DEFINE o == [Now EXCEPT !.ni = Opened]
             b == tunnel.buffered
             t == OnData(o, b)
  <2>1. /\ Now \in Seen /\ Now.received = received /\ received = <<>> /\ b \in Seq(Byte)
    BY <1>1, SetupFacts, NowSeen
  <2>2. received' = received \/ Become(t) \/ Become(Flowing(t))
    BY <1>2 DEF Adopt
  <2> HIDE DEF b
  <2>3. o \in Seen /\ o.ni = Opened /\ o.received = <<>>
    BY <2>1, OpenedIs DEF Seen
  <2> HIDE DEF o
  <2>4. /\ o.ni.state = "open" /\ o.ni.queue = <<>> /\ ~o.ni.pausedForQueue
        /\ DecoderOK(o.ni.decoder) /\ o.received \in Seq(Payloads)
        /\ o.ni.pending = Nothing
    BY <2>3, OpenedIs, EmptyDecoderOK, EmptySeq DEF Opened, NoTransport
  <2>5. t.received = <<>> /\ t \in Seen
    <3>1. \/ t = Failed(o, "NI_PROTOCOL_ERROR")
          \/ t \in Seen /\ t.received = o.received
      BY <2>1, <2>3, <2>4, OnDataIs
    <3>2. /\ Failed(o, "NI_PROTOCOL_ERROR").received = o.received
          /\ Failed(o, "NI_PROTOCOL_ERROR") \in Seen
      BY <2>3, <2>4, FailedIs, TerminalCode
    <3> HIDE DEF t
    <3> QED BY <2>3, <3>1, <3>2
  <2> HIDE DEF t
  <2>6. Flowing(t).received = t.received
    BY <2>5 DEF Flowing, Seen
  <2> QED BY <1>1, <2>1, <2>2, <2>5, <2>6 DEF Become
<1>3. CASE ~Adopt
  BY <1>1, <1>3 DEF SetsUp, Connected, AttemptFails, Abort, HandshakeData, BreaksUnheard,
     AdoptFails
<1> QED BY <1>2, <1>3

\* Every step is a step of the channel, or none.
LEMMA ChannelStep ==
  TransportIndInv /\ Ahead' /\ [TransportNext]_transportVars
    => [Channel!Next]_(Channel!vars)
<1> SUFFICES ASSUME TransportIndInv, Ahead', [TransportNext]_transportVars
             PROVE  [Channel!Next]_(Channel!vars)
  OBVIOUS
<1> DEFINE R == Records(stream.target)
           Status == IF ni.state = Nothing /\ setup # "failed" THEN "setup"
                     ELSE IF ni.state = "open" THEN "open" ELSE "closed"
<1>1. CASE UNCHANGED transportVars
  BY <1>1 DEF transportVars, niVars, Channel!vars
<1>2. CASE TransportNext /\ ni.state = "open"
  <2>1. Moves /\ stream' = stream /\ setup' = setup
    BY <1>2, TransportMoves, OnlyServes
  <2>2. received \in Chunks
    BY <1>2, OpenFacts
  <2>3. CASE received' = received
    BY <1>2, <2>1, <2>3 DEF Moves, Channel!Next, Channel!Close, Channel!vars, Nothing
  <2>4. CASE ni'.state = "open" /\ \E x \in Seq(Byte) : received' = Append(received, x)
    <3>1. PICK x \in Seq(Byte) : received' = Append(received, x)
      BY <2>4
    <3>2. PICK more \in Chunks : R = Append(received, x) \o more
      BY <2>1, <2>4, <3>1 DEF Ahead
    <3> HIDE DEF R
    <3>3. Len(received) < Len(R) /\ R[Len(received) + 1] = x
      <4> DEFINE n == Len(received)
                 u == Append(received, x)
      <4>1. n \in Nat /\ u \in Chunks /\ Len(u) = n + 1 /\ u[n + 1] = x
        BY <2>2, <3>1, AppendProperties, LenProperties DEF Chunks
      <4> HIDE DEF n, u
      <4>2. Len(u \o more) = Len(u) + Len(more) /\ (u \o more)[n + 1] = u[n + 1]
            /\ Len(more) \in Nat
        <5> DEFINE P == Seq(Byte)
        <5>1. n + 1 \in 1..Len(u) /\ u \in Seq(P) /\ more \in Seq(P)
          BY <3>2, <4>1 DEF Chunks
        <5> HIDE DEF P
        <5> QED BY <5>1, ConcatProperties, LenProperties
      <4>3. R = u \o more
        BY <3>2 DEF u
      <4> QED BY <4>1, <4>2, <4>3 DEF n
    <3>4. R' = R
      BY <2>1 DEF R
    <3>5. Status = "open" /\ Status' = "open"
      BY <1>2, <2>4 DEF Nothing
    <3>6. Channel!Deliver
      BY <3>1, <3>3, <3>4, <3>5 DEF Channel!Deliver, R
    <3> QED BY <3>6 DEF Channel!Next
  <2> QED BY <2>1, <2>3, <2>4 DEF Moves
<1>3. CASE TransportNext /\ ni.state # "open"
  <2>1. /\ received' = received /\ stream' = stream
        /\ SetupRuns \/ (ni'.state \in {ni.state, "closed"} /\ setup' = setup)
    BY <1>3, IdleMoves, SetupMoves DEF TransportNext
  <2>2. R' = R
    BY <2>1
  <2>3. SetupRuns => Status = "setup"
    <3>1. SetupRuns => ni.state = Nothing /\ setup # "failed"
      BY SetupFacts DEF SetupRuns
    <3> QED BY <3>1
  <2>4. Status \in {"setup", "closed"} /\ Status' \in {"setup", "open", "closed"}
    BY <1>3
  <2>5. ~SetupRuns => Status' \in {Status, "closed"}
    BY <1>3, <2>1 DEF Nothing
  <2>6. \/ Status = "setup" /\ Status' = "open"
        \/ Status' = Status
        \/ Status' = "closed"
    BY <2>3, <2>4, <2>5
  <2> HIDE DEF R, Status
  <2>7. Channel!Open \/ Channel!Close \/ UNCHANGED <<R, received, Status>>
    BY <2>1, <2>2, <2>6 DEF Channel!Open, Channel!Close, R, Status
  <2> QED BY <2>7 DEF Channel!Next, Channel!vars, R, Status
<1> QED BY <1>1, <1>2, <1>3

\* Whatever the route and however the bytes are cut, the session on a
\* transport sees a FrameChannel of the records its target sent: whole, in
\* order, each once, while the transport is open, and none after it.
THEOREM TransportIsAFrameChannel ==
  TransportSpec => Channel!Init /\ [][Channel!Next]_(Channel!vars)
<1>1. TransportInit => Channel!Init
  BY DEF TransportInit, NiInit, NoTransport, Channel!Init
<1>2. TransportIndInv /\ HandedOverExactly => Ahead
  BY AheadInv
<1>3. TransportIndInv /\ Ahead' /\ [TransportNext]_transportVars
        => [Channel!Next]_(Channel!vars)
  BY ChannelStep
<1> QED BY <1>1, <1>2, <1>3, TransportInvariant, TunnelTakesItsOwn, PTL DEF TransportSpec
=============================================================================
