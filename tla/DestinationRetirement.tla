----------------------- MODULE DestinationRetirement -----------------------
(***************************************************************************)
(* How a destination is opened and retired:                                *)
(* src/destination/configuration-generation.ts and                         *)
(* src/destination/runtime.ts.                                             *)
(*                                                                         *)
(* A generation opens connections and retires once.  Its retirement runs   *)
(* the hooks of its lanes and waits for every open admitted before, whose  *)
(* late connection it disposes of.  A runtime sits on each generation and  *)
(* retires it together with its metadata repository.  Hooks and disposals  *)
(* are user code: they may retire any destination and await it, so that    *)
(* retirements can wait for one another.  The two classes break such       *)
(* cycles with the same scheme, each on its own: an asynchronous context   *)
(* names the retirements a call runs inside of, and a graph records which  *)
(* retirement waits for which.  An action is one run of the JavaScript     *)
(* thread between two awaits.                                              *)
(***************************************************************************)
EXTENDS Naturals, FiniteSets

CONSTANTS
  Generations, Lanes,   \* each generation has a retirement hook per lane
  Opens,                \* calls of openLane()
  Reentrant,            \* the layers whose retire() a disposal may call
  MaxCalls,             \* bound: calls of retire() by one hook or disposal
  MaxFailures           \* bound: hooks, disposals and repositories that fail

None == "none"
Layers == {"generation", "runtime"}

ASSUME RetirementAssumption ==
  /\ Reentrant \subseteq Layers /\ {MaxCalls, MaxFailures} \subseteq Nat
  /\ None \notin Generations

Hooks == {<<"hook", g, i>> : g \in Generations, i \in Lanes}
Bodies == {<<"body", g>> : g \in Generations}
Disposals == {<<"disposal", o>> : o \in Opens}
Tasks == Hooks \cup Bodies \cup Disposals

VARIABLES
  entry,        \* the layer users hold: bare generations, or their runtimes
  retirement,   \* #retirement of each layer's owners, with #state
  dependencies, \* retirementDependencies of each layer
  task,         \* the asynchronous calls that can wait for a retirement
  opening       \* the calls of openLane()
vars == <<entry, retirement, dependencies, task, opening>>

\* AsyncLocalStorage: the retirements a call runs inside of, and the nearest
Contexts == [Layers -> [owners : SUBSET Generations, owner : Generations \cup {None}]]
Outer == [l \in Layers |-> [owners |-> {}, owner |-> None]]
Inside(context, l, g) ==
  [context EXCEPT ![l] = [owners |-> @.owners \cup {g}, owner |-> g]]

Settled == {"resolved", "rejected"}
Unretired == [state |-> "active", inherited |-> Outer, drain |-> {}]
Idle == [pc |-> "idle", on |-> None, layer |-> None, calls |-> 0, reply |-> None]

State(l, g) == retirement[l][g].state

Failures == {t \in Tasks : task[t].pc = "failed"}
MayBe(outcome) == outcome = "ended" \/ Cardinality(Failures) < MaxFailures

\* The context a call runs in
ContextOf(t) ==
  CASE t[1] = "hook" ->
         Inside(retirement["generation"][t[2]].inherited, "generation", t[2])
    [] t[1] = "body" ->
         Inside(retirement["runtime"][t[2]].inherited, "runtime", t[2])
    \* openLane() was called from outside of any retirement
    [] OTHER -> Inside(Outer, "generation", opening[t[2]].of)

TypeOK ==
  /\ entry \in Layers
  /\ retirement \in [Layers -> [Generations ->
       [state : {"active", "retiring"} \cup Settled,
        inherited : Contexts, drain : SUBSET Opens]]]
  /\ dependencies \in [Layers -> SUBSET (Generations \X Generations)]
  /\ task \in [Tasks ->
       [pc : {"idle", "running", "waiting", "ended", "failed"},
        on : Generations \cup {None}, layer : Layers \cup {None},
        calls : 0..MaxCalls, reply : {None} \cup Settled]]
  /\ opening \in [Opens ->
       [pc : {"idle", "opening", "disposing", "delivered", "failed",
              "disposed", "leaked"}, of : Generations \cup {None}]]

Init ==
  /\ entry \in Layers
  /\ retirement = [l \in Layers |-> [g \in Generations |-> Unretired]]
  /\ dependencies = [l \in Layers |-> {}]
  /\ task = [t \in Tasks |-> Idle]
  /\ opening = [o \in Opens |-> [pc |-> "idle", of |-> None]]

(***************************************************************************)
(* retire() of either class                                                *)
(***************************************************************************)
\* S holds with each retirement all those it waits for.
Closed(edges, S) == \A d \in edges : d[1] \in S => d[2] \in S
Reaches(edges, from, to) ==
  \A S \in SUBSET Generations : from \in S /\ Closed(edges, S) => to \in S

\* (A variant that looks one step ahead only.)
JoinWouldCycleAtOnce(l, owner, target) ==
  target = owner \/ <<target, owner>> \in dependencies[l]
JoinWouldCycle(l, owner, target) == Reaches(dependencies[l], target, owner)

\* #state and inFlightOpens at the moment retire() is called
InFlight(g) ==
  {o \in Opens : opening[o].of = g /\ opening[o].pc \in {"opening", "disposing"}}
Begun(l, g, context) ==
  [state |-> "retiring", inherited |-> context,
   drain |-> IF l = "generation" THEN InFlight(g) ELSE {}]

Inherits(l, g, context) ==
  /\ g \in context[l].owners
  /\ l = "generation" => State(l, g) \notin Settled
JoinsCycle(l, g, context) ==
  context[l].owner # None /\ JoinWouldCycle(l, context[l].owner, g)
Acknowledges(l, g, context) ==
  Inherits(l, g, context) \/ JoinsCycle(l, g, context)

\* (A variant that forgets to record who waits.)
UntrackedJoin(l, g, context) == dependencies
TrackJoin(l, g, context) ==
  IF Acknowledges(l, g, context) \/ context[l].owner = None
     \/ Settled \cap {State(l, g), State(l, context[l].owner)} # {}
  THEN dependencies
  ELSE [dependencies EXCEPT ![l] = @ \cup {<<context[l].owner, g>>}]

\* A first call begins the retirement, whether or not its caller may wait.
Begins(l, g, context) ==
  retirement' = IF State(l, g) = "active" /\ ~Inherits(l, g, context)
                THEN [retirement EXCEPT ![l][g] = Begun(l, g, context)]
                ELSE retirement

\* Task t calls retire() of g and awaits what it returns, or leaves it be.
Retires(t, l, g, awaited, after) ==
  LET context == ContextOf(t) IN
  /\ Begins(l, g, context)
  /\ dependencies' = TrackJoin(l, g, context)
  /\ task' = [task EXCEPT ![t] =
       IF ~awaited THEN after
       ELSE IF Acknowledges(l, g, context)
       THEN after
       ELSE [after EXCEPT !.pc = "waiting", !.on = g, !.layer = l]]

\* A caller outside of any retirement: nothing waits for what it awaits.
OutsideRetires(g) ==
  /\ State(entry, g) = "active"
  /\ Begins(entry, g, Outer)
  /\ UNCHANGED <<entry, dependencies, task, opening>>

\* User code inside a retirement
UserCodeRetires(t, g, awaited) ==
  /\ t \in Hooks \cup Disposals
  /\ t \in Disposals => entry \in Reentrant
  /\ task[t].pc = "running" /\ task[t].calls < MaxCalls
  /\ Retires(t, entry, g, awaited,
             [Idle EXCEPT !.pc = "running", !.calls = task[t].calls + 1])
  /\ UNCHANGED <<entry, opening>>

\* The retirement a task awaits has settled.
Resumes(t) ==
  /\ task[t].pc = "waiting" /\ State(task[t].layer, task[t].on) \in Settled
  /\ task' = [task EXCEPT ![t] =
       [Idle EXCEPT !.pc = "running", !.calls = task[t].calls,
                    !.reply = IF t \in Bodies THEN State(task[t].layer, task[t].on)
                                              ELSE None]]
  /\ UNCHANGED <<entry, retirement, dependencies, opening>>

(***************************************************************************)
(* The retirement of a generation, in a microtask of its own               *)
(***************************************************************************)
HooksOf(g) == {t \in Hooks : t[2] = g}

RunHooks(g) ==
  /\ State("generation", g) = "retiring"
  /\ \E t \in HooksOf(g) : task[t].pc = "idle"
  /\ task' = [t \in Tasks |->
       IF t \in HooksOf(g) THEN [Idle EXCEPT !.pc = "running"] ELSE task[t]]
  /\ UNCHANGED <<entry, retirement, dependencies, opening>>

HookEnds(t, outcome) ==
  /\ t \in Hooks /\ task[t].pc = "running" /\ MayBe(outcome)
  /\ task' = [task EXCEPT ![t] = [Idle EXCEPT !.pc = outcome]]
  /\ UNCHANGED <<entry, retirement, dependencies, opening>>

\* A dependency goes with the retirement of either end.
Forget(l, g) ==
  dependencies' = [dependencies EXCEPT ![l] = {d \in @ : g \notin {d[1], d[2]}}]

LateFailures(g) ==
  {o \in retirement["generation"][g].drain : opening[o].pc = "leaked"}

\* (A variant that does not wait for the opens admitted before.)
HooksEnded(g) == \A t \in HooksOf(g) : task[t].pc \in {"ended", "failed"}
Drained(g) ==
  /\ \A t \in HooksOf(g) : task[t].pc \in {"ended", "failed"}
  /\ retirement["generation"][g].drain \cap InFlight(g) = {}

GenerationSettles(g) ==
  /\ State("generation", g) = "retiring" /\ Drained(g)
  /\ retirement' = [retirement EXCEPT !["generation"][g] =
       [Unretired EXCEPT !.state =
                    IF LateFailures(g) # {}
                       \/ \E t \in HooksOf(g) : task[t].pc = "failed"
                    THEN "rejected" ELSE "resolved"]]
  /\ Forget("generation", g)
  /\ UNCHANGED <<entry, task, opening>>

(***************************************************************************)
(* The retirement of a runtime: its repository and its generation          *)
(***************************************************************************)
RunBody(g) ==
  /\ State("runtime", g) = "retiring" /\ task[<<"body", g>>].pc = "idle"
  /\ Retires(<<"body", g>>, "generation", g, TRUE, [Idle EXCEPT !.pc = "running"])
  /\ UNCHANGED <<entry, opening>>

\* The repository retires well or fails, as outcome says.
RuntimeSettles(g, outcome) ==
  /\ task[<<"body", g>>].pc = "running" /\ MayBe(outcome)
  /\ retirement' = [retirement EXCEPT !["runtime"][g].state =
       IF outcome = "failed" \/ task[<<"body", g>>].reply = "rejected"
       THEN "rejected" ELSE "resolved"]
  /\ task' = [task EXCEPT ![<<"body", g>>] = [Idle EXCEPT !.pc = outcome]]
  /\ Forget("runtime", g)
  /\ UNCHANGED <<entry, opening>>

(***************************************************************************)
(* openApplication(), openRepository()                                     *)
(***************************************************************************)
Admits(g) ==
  /\ State("generation", g) = "active"
  /\ entry = "runtime" => State("runtime", g) = "active"

OpenLane(o, g) ==
  /\ opening[o].pc = "idle"
  /\ opening' = [opening EXCEPT ![o] =
       [pc |-> IF Admits(g) THEN "opening" ELSE "failed", of |-> g]]
  /\ UNCHANGED <<entry, retirement, dependencies, task>>

OpenFails(o) ==
  /\ opening[o].pc = "opening"
  /\ opening' = [opening EXCEPT ![o].pc = "failed"]
  /\ UNCHANGED <<entry, retirement, dependencies, task>>

Delivers(o) == State("generation", opening[o].of) = "active"

OpenSucceeds(o) ==
  /\ opening[o].pc = "opening"
  /\ \/ /\ Delivers(o)
        /\ opening' = [opening EXCEPT ![o].pc = "delivered"]
        /\ UNCHANGED task
     \/ /\ ~Delivers(o)
        /\ opening' = [opening EXCEPT ![o].pc = "disposing"]
        /\ task' = [task EXCEPT ![<<"disposal", o>>].pc = "running"]
  /\ UNCHANGED <<entry, retirement, dependencies>>

DisposalEnds(o, outcome) ==
  /\ opening[o].pc = "disposing" /\ task[<<"disposal", o>>].pc = "running"
  /\ MayBe(outcome)
  /\ opening' = [opening EXCEPT ![o].pc =
       IF outcome = "ended" THEN "disposed" ELSE "leaked"]
  /\ task' = [task EXCEPT ![<<"disposal", o>>] = [Idle EXCEPT !.pc = outcome]]
  /\ UNCHANGED <<entry, retirement, dependencies>>

-----------------------------------------------------------------------------
\* Progress the event loop owes to what is pending
Proceed ==
  \/ \E g \in Generations :
       \/ RunHooks(g) \/ GenerationSettles(g) \/ RunBody(g)
       \/ \E outcome \in {"ended", "failed"} : RuntimeSettles(g, outcome)
  \/ \E t \in Tasks : Resumes(t)
  \/ \E t \in Hooks, outcome \in {"ended", "failed"} : HookEnds(t, outcome)
  \/ \E o \in Opens :
       \/ OpenSucceeds(o) \/ OpenFails(o)
       \/ \E outcome \in {"ended", "failed"} : DisposalEnds(o, outcome)

Next ==
  \/ Proceed
  \/ \E g \in Generations : OutsideRetires(g)
  \/ \E t \in Tasks, g \in Generations, awaited \in BOOLEAN :
       UserCodeRetires(t, g, awaited)
  \/ \E o \in Opens, g \in Generations : OpenLane(o, g)

Spec == Init /\ [][Next]_vars

(***************************************************************************)
(* The event loop runs what is ready, and hooks, opens and disposals that  *)
(* are not waiting come to an end.  The bound on calls makes any sequence  *)
(* of such steps finite, so it is enough that they never all stop.         *)
(***************************************************************************)
FairSpec == Spec /\ WF_vars(Proceed)

-----------------------------------------------------------------------------
\* What the retirement of g at layer l cannot settle without: the tasks it runs
Awaits(l, g) ==
  {t \in Tasks :
     /\ State(l, g) = "retiring"
     /\ CASE t[1] = "hook" -> l = "generation" /\ t[2] = g
          [] t[1] = "body" -> l = "runtime" /\ t[2] = g
          [] OTHER -> l = "generation" /\ t[2] \in retirement[l][g].drain}
\* A retirement waits for another when one of its tasks does.
Owners == Layers \X Generations
Waiting == {t \in Tasks : task[t].pc = "waiting"
                            /\ State(task[t].layer, task[t].on) \notin Settled}
WaitsFor ==
  UNION {{<<x, <<task[t].layer, task[t].on>>>> :
            t \in Awaits(x[1], x[2]) \cap Waiting} : x \in Owners}

(***************************************************************************)
(* No retirement waits for itself, directly or through others: the context *)
(* and the graph of each class together break every cycle that hooks and   *)
(* disposals can build (retire(), #joinRetirement of both classes).  And   *)
(* an edge of a graph joins two retirements that are under way: a hook     *)
(* that did not await what it called leaves none behind, which would make  *)
(* a later join look like a cycle (trackRetirementJoin).                   *)
(***************************************************************************)
NoStaleDependency ==
  \A l \in Layers : \A d \in dependencies[l] :
     State(l, d[1]) = "retiring" /\ State(l, d[2]) = "retiring"
NoCircularWait ==
  /\ TypeOK /\ NoStaleDependency
  /\ LET edges == WaitsFor IN
     \A S \in SUBSET {e[1] : e \in edges} :
        (\A x \in S : \E y \in S : <<x, y>> \in edges) => S = {}

(***************************************************************************)
(* A retirement that settled left nothing behind: no hook of it runs, no   *)
(* open admitted before it is under way, and it resolved only if no hook   *)
(* failed and every late connection was disposed of (the drain and the     *)
(* failures that retire() collects).                                       *)
(***************************************************************************)
SettledMeansDone ==
  \A g \in Generations : State("generation", g) \in Settled =>
    /\ InFlight(g) = {}
    /\ \A t \in HooksOf(g) : task[t].pc \in {"ended", "failed"}
    /\ State("generation", g) = "resolved" <=>
         /\ \A t \in HooksOf(g) : task[t].pc = "ended"
         /\ \A o \in Opens : opening[o].of = g => opening[o].pc # "leaked"

(***************************************************************************)
(* Every retirement settles, whichever retirements its hooks and disposals *)
(* await; with it, everyone who awaits retire() gets an answer.  (Each     *)
(* owner retires once, so that none being under way again and again says   *)
(* that each of them ends.)                                                *)
(***************************************************************************)
RetirementsSettle ==
  []<>(\A l \in Layers, g \in Generations : State(l, g) # "retiring")

(***************************************************************************)
(* A disposal that awaits a retirement gets its answer: "late disposal may *)
(* await owning retirement without deadlocking the drain"                  *)
(* (test/destination-configuration-generation.test.ts:1110).  It holds of  *)
(* a generation, and fails of a runtime: #disposeLateConnection restores   *)
(* the context of the generation's class only, so that retire() of the     *)
(* runtime, called by the disposal, returns the promise that waits for it. *)
(***************************************************************************)
LateDisposalIsAnswered ==
  \A t \in Disposals : task[t].pc = "waiting" ~> task[t].pc # "waiting"
=============================================================================
