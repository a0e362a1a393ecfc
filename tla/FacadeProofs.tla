---------------------------- MODULE FacadeProofs ----------------------------
(***************************************************************************)
(* Theorems about the node-rfc facade, for any number of clients, leases   *)
(* and calls of a pool, or a direct client with any operations: no session *)
(* has two holders or none, and no client gets a session that another one  *)
(* left behind in a state of its own.                                      *)
(***************************************************************************)
EXTENDS RfcClientPool, FiniteSetTheorems, SequenceTheorems, TLAPS

(***************************************************************************)
(* The inductive invariant                                                 *)
(***************************************************************************)
\* How far each operation can be
StepsOf(op) ==
  CASE op = "none" -> {"idle"}
    [] op = "open" -> {"acquiring", "describing", "returning", "undoing", "retiring"}
    [] op = "close" -> {"releasing", "retiring"}
    [] OTHER -> {"session", "resetting", "lookup", "evicting", "replacing", "describing",
                 "returning", "undoing", "dropping"}

AtSession(c) == running[c].pc \in {"session", "resetting"}
\* The operation has taken the lease off the client, or there was none.
EmptyHanded(c) ==
  running[c].pc \in Taken \cup {"acquiring", "replacing", "dropping", "retiring"}

ClientSound(c) ==
  /\ running[c].pc \in StepsOf(running[c].op)
  /\ running[c].pc = "idle" => running[c] = Idle
  /\ AtSession(c) \/ running[c].pc \in Taken => running[c].lease # None
  /\ EmptyHanded(c) \/ state[c] \in {"closed", "faulted", "opening"} => mine[c] = None
  /\ mine[c] # None => hasOwner[c]
  /\ claimed[c] => c \in Managed /\ state[c] \in {"closed", "faulted"}
  /\ c \in leased => Claimable(c)

\* A managed client is neither opened nor closed.
ManagedSound(c) ==
  /\ running[c].op \notin {"open", "close"} /\ running[c].pc # "dropping"
  /\ state[c] \in {"closed", "faulted", "open"}
  /\ \A i \in DOMAIN queue[c] : queue[c][i] \notin {"open", "close"}

AtRest(c) == running[c] = Idle /\ mine[c] = None /\ state[c] = "closed" /\ ~claimed[c]

AcquireSound(a) ==
  /\ a \notin use.calls => acquires[a] = NotAcquiring
  /\ acquires[a].pc \in {"off", "acquiring", "done"} =>
       acquires[a].leases = {} /\ acquires[a].infos = 0
  /\ acquires[a].pc = "describing" =>
       /\ acquires[a].infos < Cardinality(a)
       /\ Cardinality(a) <= MaxConnections
       /\ Cardinality(acquires[a].leases) = Cardinality(a)
  \* the clients of the call are not born yet
  /\ a \in use.calls /\ acquires[a].pc # "done" => \A c \in a : AtRest(c)

ClaimsSound ==
  /\ \A i \in DOMAIN recycling : claimed[recycling[i].client]
  /\ \A claim \in closeClaims : claimed[claim.client]
  /\ closing = "off" => closeClaims = {}
  /\ growth.pc # "returning" => growth.leases = {}

\* A session under an operation is held by the client or by the claim on it.
HasClaim(c, l) ==
  \/ \E i \in DOMAIN recycling : recycling[i].client = c /\ recycling[i].lease = l
  \/ \E claim \in closeClaims : claim.client = c /\ claim.lease = l
SessionHeld(c) ==
  AtSession(c) => mine[c] = running[c].lease \/ HasClaim(c, running[c].lease)

HeldOnce(l) ==
  IF lease[l] = "held" THEN \E h : Holders(l) = {h} ELSE Holders(l) = {}

\* With a pool there is no direct client, and without one nothing else.
OneKind ==
  /\ use.pooled => AtRest(Direct) /\ queue[Direct] = <<>>
  /\ ~use.pooled =>
       /\ \A c \in Managed : AtRest(c) /\ queue[c] = <<>>
       /\ leased = {} /\ recycling = <<>> /\ closing = "off" /\ growth = NotGrowing

\* A direct client at rest has retired the destination it made.
DirectSound ==
  ~use.pooled =>
    /\ running[Direct].op \in {"call", "ping", "reset", "metadata"}
         /\ running[Direct].pc # "dropping" =>
         hasOwner[Direct] /\ state[Direct] \in {"open", "closing"}
    /\ running[Direct] = Idle
         /\ (~hasOwner[Direct] \/ state[Direct] \in {"closed", "faulted", "opening"}) =>
         owner \in {"none", "retired"}

FacadeInv ==
  /\ TypeOK /\ ClaimsSound /\ OneKind /\ DirectSound
  /\ \A c \in Clients : ClientSound(c) /\ SessionHeld(c)
  /\ \A c \in Managed : ManagedSound(c)
  /\ \A a \in AcquireCalls : AcquireSound(a)
  /\ \A l \in Leases : HeldOnce(l)

(***************************************************************************)
(* Steps of one client                                                     *)
(***************************************************************************)
\* Whose steps there can be
Whose(c) == c \in IF use.pooled THEN UNION use.calls ELSE {Direct}

Frame(c) ==
  /\ UNCHANGED <<use, poolVars, claimed>>
  /\ \A w \in Clients \ {c} :
       /\ running'[w] = running[w] /\ mine'[w] = mine[w] /\ state'[w] = state[w]
       /\ hasOwner'[w] = hasOwner[w] /\ reusable'[w] = reusable[w]
       /\ queue'[w] = queue[w]

\* What c holds of a lease
Hands(c, l) ==
  {h \in {<<"client", c>>} : mine[c] = l}
  \cup {h \in {<<"operation", c>>} : running[c].lease = l /\ running[c].pc \in Taken}
Others(c, l) == Holders(l) \ {<<"client", c>>, <<"operation", c>>}

LEMMA HoldersSplit ==
  ASSUME NEW c \in Clients, NEW l
  PROVE  Holders(l) = Others(c, l) \cup Hands(c, l)
BY DEF Holders, Others, Hands

LEMMA OthersKept ==
  ASSUME NEW c \in Clients, NEW l, Frame(c)
  PROVE  Others(c, l)' = Others(c, l)
<1>1. /\ Clients' = Clients
      /\ {x \in Clients : mine'[x] = l} \ {c} = {x \in Clients : mine[x] = l} \ {c}
      /\ {x \in Clients : running'[x].lease = l /\ running'[x].pc \in Taken} \ {c}
           = {x \in Clients : running[x].lease = l /\ running[x].pc \in Taken} \ {c}
  BY DEF Frame
<1> QED BY <1>1 DEF Others, Holders, Frame, poolVars

\* What becomes of a lease in a step of c
Passes(c, l) ==
  \/ Hands(c, l)' = Hands(c, l) /\ (lease'[l] = "held" <=> lease[l] = "held")
  \/ /\ Hands(c, l) # {} /\ \E h : Hands(c, l)' = {h}
     /\ lease'[l] = "held" <=> lease[l] = "held"
  \/ Hands(c, l) # {} /\ Hands(c, l)' = {} /\ lease'[l] # "held"
  \/ lease[l] # "held" /\ (\E h : Hands(c, l)' = {h}) /\ lease'[l] = "held"

LEMMA PassedOn ==
  ASSUME NEW c \in Clients, NEW l \in Leases, HeldOnce(l), Frame(c), Passes(c, l)
  PROVE  HeldOnce(l)'
<1> DEFINE O == Others(c, l)
           H == Hands(c, l)
           H1 == Hands(c, l)'
<1>1. Holders(l) = O \cup H BY HoldersSplit
<1>2. Holders(l)' = O \cup H1
  <2>1. Holders(l)' = Others(c, l)' \cup H1
    BY DEF Holders, Others, Hands
  <2> QED BY <2>1, OthersKept
<1>3. O \cap H = {} BY DEF Others, Hands
<1> HIDE DEF O, H, H1
<1>4. CASE H1 = H /\ (lease'[l] = "held" <=> lease[l] = "held")
  BY <1>1, <1>2, <1>4 DEF HeldOnce
<1>5. CASE H # {} /\ (\E h : H1 = {h}) /\ (lease'[l] = "held" <=> lease[l] = "held")
  <2>1. O = {} BY <1>1, <1>3, <1>5 DEF HeldOnce
  <2>2. lease[l] = "held" BY <1>1, <1>5 DEF HeldOnce
  <2> QED BY <1>2, <1>5, <2>1, <2>2 DEF HeldOnce
<1>6. CASE H # {} /\ H1 = {} /\ lease'[l] # "held"
  <2>1. O = {} BY <1>1, <1>3, <1>6 DEF HeldOnce
  <2> QED BY <1>2, <1>6, <2>1 DEF HeldOnce
<1>7. CASE lease[l] # "held" /\ (\E h : H1 = {h}) /\ lease'[l] = "held"
  <2>1. O = {} BY <1>1, <1>7 DEF HeldOnce
  <2> QED BY <1>2, <1>7, <2>1 DEF HeldOnce
<1> QED BY <1>4, <1>5, <1>6, <1>7 DEF Passes, H, H1

\* A step of c that makes no call: the leases it gets had none made on them.
Quiet(c) ==
  /\ Frame(c) /\ UNCHANGED <<spoiled, touched>>
  /\ \A l \in Leases : lease'[l] \in {"none", "reused"} => lease'[l] = lease[l]
  /\ \/ running'[c] = running[c] \/ running'[c].pc # "describing"
     \/ lease[running'[c].lease] = "none"
  /\ \/ mine'[c] = None
     \/ mine'[c] = mine[c] /\ (running'[c] = running[c] \/ running[c].pc # "resetting")
     \/ running[c].pc = "describing" /\ mine'[c] = running[c].lease
  /\ reusable'[c] = reusable[c] \/ ~claimed[c]

\* What must be shown of a step of c
LEMMA ClientStep ==
  ASSUME FacadeInv, NEW c \in Clients, Whose(c), Frame(c), TypeOK',
         ClientSound(c)', SessionHeld(c)', c \in Managed => ManagedSound(c)',
         AtRest(c) => AtRest(c)' \/ c = Direct,
         c = Direct => DirectSound',
         \A l \in Leases : Passes(c, l)
  PROVE  FacadeInv'
<1>1. use.pooled => c \in Managed /\ c # Direct
  BY ClientAssumption, PoolAssumption DEF Whose, FacadeInv, TypeOK, ClientTypeOK
<1>2. ~use.pooled => c = Direct BY DEF Whose
<1>3. ASSUME NEW w \in Clients, w # c
      PROVE  ClientSound(w)' /\ SessionHeld(w)' /\ (AtRest(w) => AtRest(w)')
             /\ (w \in Managed => ManagedSound(w)')
  BY <1>3 DEF FacadeInv, Frame, poolVars, ClientSound, SessionHeld, AtRest, ManagedSound,
              AtSession, EmptyHanded, Claimable, HasClaim, Clients
<1>4. ASSUME NEW a \in AcquireCalls PROVE AcquireSound(a)'
  <2>1. AcquireSound(a) /\ use' = use /\ acquires' = acquires
    BY DEF FacadeInv, Frame, poolVars
  <2>2. \A w \in a : w \in Managed /\ w # Direct
    BY ClientAssumption, PoolAssumption
  <2>3. \A w \in a : AtRest(w) => AtRest(w)' BY <1>3, <2>2 DEF Clients
  <2> QED BY <2>1, <2>3 DEF AcquireSound
<1>5. \A l \in Leases : HeldOnce(l)' BY PassedOn DEF FacadeInv
<1>6. ClaimsSound' BY DEF FacadeInv, Frame, poolVars, ClaimsSound
<1>7. OneKind'
  <2>1. Direct \in Clients /\ Managed \subseteq Clients BY DEF Clients
  <2>2. CASE use.pooled
    BY <1>1, <1>3, <2>1, <2>2 DEF FacadeInv, OneKind, Frame
  <2>3. CASE ~use.pooled
    BY <1>2, <1>3, <2>1, <2>3, ClientAssumption DEF FacadeInv, OneKind, Frame, poolVars
  <2> QED BY <2>2, <2>3
<1>8. DirectSound'
  BY <1>1, <1>2 DEF DirectSound, Frame
<1>9. \A w \in Managed : w \in Clients BY DEF Clients
<1> QED BY <1>3, <1>4, <1>5, <1>6, <1>7, <1>8, <1>9 DEF FacadeInv

(***************************************************************************)
(* Where an operation gets to                                              *)
(***************************************************************************)
Pcs == {"idle", "acquiring", "describing", "session", "resetting", "lookup",
        "evicting", "replacing", "returning", "undoing", "dropping",
        "releasing", "retiring"}

LEMMA Kinds ==
  /\ Direct \in Clients /\ Managed \subseteq Clients /\ Direct \notin Managed
  /\ None \notin Leases /\ IsFiniteSet(Leases) /\ Idle \in Runs
  /\ \A w \in Workloads : w.ops \in Nat /\ w.kinds \subseteq Operations
BY ClientAssumption, PoolAssumption, FS_Interval
   DEF Clients, Leases, None, Idle, Runs

LEMMA StepsToGives ==
  ASSUME TypeOK, NEW c \in Clients, NEW pc \in Pcs, StepsTo(c, pc)
  PROVE  /\ running' \in [Clients -> Runs]
         /\ running'[c].pc = pc /\ running'[c].op = running[c].op
         /\ running'[c].lease = running[c].lease
         /\ \A w \in Clients \ {c} : running'[w] = running[w]
<1>1. running \in [Clients -> Runs] BY DEF TypeOK, ClientTypeOK
<1>2. running' = [running EXCEPT ![c].pc = pc] BY DEF StepsTo
<1>3. PICK x : x = [running[c] EXCEPT !.pc = pc] OBVIOUS
<1>4. /\ x \in Runs /\ x.pc = pc /\ x.op = running[c].op
      /\ x.lease = running[c].lease
  BY <1>1, <1>3 DEF Runs, Pcs
<1>5. running' = [running EXCEPT ![c] = x] BY <1>1, <1>2, <1>3
<1> QED BY <1>1, <1>4, <1>5

LEMMA GoesGives ==
  ASSUME TypeOK, NEW c \in Clients, NEW op \in Operations, NEW pc \in Pcs,
         NEW l \in Leases \cup {None}, Goes(c, op, pc, l)
  PROVE  /\ running' \in [Clients -> Runs]
         /\ running'[c].pc = pc /\ running'[c].op = op /\ running'[c].lease = l
         /\ \A w \in Clients \ {c} : running'[w] = running[w]
<1>1. running \in [Clients -> Runs] BY DEF TypeOK, ClientTypeOK
<1>2. PICK x : x = [op |-> op, pc |-> pc, lease |-> l] OBVIOUS
<1>3. x \in Runs /\ x.pc = pc /\ x.op = op /\ x.lease = l BY <1>2 DEF Runs, Pcs
<1>4. running' = [running EXCEPT ![c] = x] BY <1>2 DEF Goes
<1> QED BY <1>1, <1>3, <1>4

LEMMA EndsGives ==
  ASSUME TypeOK, NEW c \in Clients, Ends(c)
  PROVE  /\ running' \in [Clients -> Runs]
         /\ running'[c] = Idle
         /\ running'[c].pc = "idle" /\ running'[c].op = "none"
         /\ running'[c].lease = None
         /\ \A w \in Clients \ {c} : running'[w] = running[w]
BY Kinds DEF TypeOK, ClientTypeOK, Ends, Idle

\* An operation that rests or has not begun holds nothing by itself.
LEMMA RestingHands ==
  ASSUME FacadeInv, NEW c \in Clients, NEW l \in Leases
  PROVE  /\ running[c].pc \notin Taken =>
              Hands(c, l) = {h \in {<<"client", c>>} : mine[c] = l}
         /\ mine[c] = None =>
              Hands(c, l) = {h \in {<<"operation", c>>} :
                               running[c].lease = l /\ running[c].pc \in Taken}
BY Kinds DEF Hands

LEMMA ClientTyped ==
  ASSUME TypeOK, UNCHANGED poolVars, ClientTypeOK'
  PROVE  TypeOK'
BY DEF TypeOK, poolVars

(***************************************************************************)
(* Admission and the beginning of an operation                             *)
(***************************************************************************)
LEMMA AskKeeps ==
  ASSUME FacadeInv, NEW c \in Clients, Whose(c), NEW op \in Operations, Ask(c, op),
         UNCHANGED poolVars
  PROVE  FacadeInv' /\ Quiet(c)
<1>1. TypeOK /\ ClientTypeOK BY DEF FacadeInv, TypeOK
<1>2. /\ queue'[c] = Append(queue[c], op) /\ state'[c] = StateAfter(c, op)
      /\ \A w \in Clients \ {c} : queue'[w] = queue[w] /\ state'[w] = state[w]
      /\ queue' \in [Clients -> Seq(Operations)]
      /\ state' \in [Clients -> {"closed", "opening", "open", "closing", "faulted"}]
  BY <1>1 DEF Ask, ClientTypeOK, StateAfter
<1>3. Frame(c) BY <1>2 DEF Ask, Frame, binding
<1>4. asked' \in 0..use.ops BY <1>1, Kinds DEF Ask, ClientTypeOK
<1>5. ClientTypeOK'
  BY <1>1, <1>2, <1>4 DEF ClientTypeOK, Ask, ownerVars, binding
<1>6. TypeOK' BY <1>1, <1>5, ClientTyped
<1>7. UNCHANGED <<running, mine, claimed, hasOwner, lease, owner, use, recycling,
                  closeClaims, leased>>
  BY DEF Ask, binding, ownerVars, poolVars
<1>8. \/ op = "open" /\ c = Direct /\ state[c] = "closed" /\ state'[c] = "opening"
      \/ /\ op = "close" /\ c = Direct /\ state'[c] = "closing"
         /\ state[c] \in {"open", "faulted", "opening"}
      \/ op \notin {"open", "close"} /\ state'[c] = state[c]
  BY <1>2 DEF Ask, Admits, StateAfter, Operations
<1>9. ClientSound(c)'
  BY <1>1, <1>7, <1>8, Kinds DEF FacadeInv, ClientSound, Claimable, EmptyHanded, AtSession,
                          TypeOK
<1>10. SessionHeld(c)' BY <1>7 DEF FacadeInv, SessionHeld, AtSession, HasClaim
<1>11. c \in Managed => ManagedSound(c)'
  <2> SUFFICES ASSUME c \in Managed PROVE ManagedSound(c)'
    OBVIOUS
  <2>1. op \notin {"open", "close"} /\ state'[c] = state[c] BY <1>8, Kinds
  <2>2. ManagedSound(c) BY DEF FacadeInv
  <2>3. \A i \in DOMAIN queue'[c] : queue'[c][i] \notin {"open", "close"}
    BY <1>1, <1>2, <2>1, <2>2 DEF ManagedSound, ClientTypeOK
  <2> QED BY <1>7, <2>1, <2>2, <2>3 DEF ManagedSound
<1>12. AtRest(c) => AtRest(c)' \/ c = Direct BY <1>7, <1>8 DEF AtRest
<1>13. c = Direct => DirectSound'
  BY <1>7, <1>8 DEF DirectSound, FacadeInv, Idle
<1>14. \A l \in Leases : Passes(c, l) BY <1>7 DEF Passes, Hands
<1>15. Quiet(c)
  BY <1>3, <1>7 DEF Quiet, Ask, ownerVars, binding
<1> QED BY <1>3, <1>6, <1>9, <1>10, <1>11, <1>12, <1>13, <1>14, <1>15, ClientStep

\* What the beginning of an operation says of the queue
LEMMA BeginsGives ==
  ASSUME FacadeInv, NEW c \in Clients, NEW op, Begins(c, op)
  PROVE  /\ queue' \in [Clients -> Seq(Operations)] /\ op \in Operations
         /\ \A w \in Clients \ {c} : queue'[w] = queue[w]
         /\ c \in Managed =>
              /\ op \notin {"open", "close"}
              /\ \A i \in DOMAIN queue'[c] : queue'[c][i] \notin {"open", "close"}
         /\ running[c] = Idle /\ UNCHANGED <<use, asked, lease, spoiled, touched>>
<1>1. queue \in [Clients -> Seq(Operations)] BY DEF FacadeInv, TypeOK, ClientTypeOK
<1>2. /\ queue[c] \in Seq(Operations) /\ queue[c] # <<>> /\ Head(queue[c]) = op
      /\ queue' = [queue EXCEPT ![c] = Tail(@)] /\ queue'[c] = Tail(queue[c])
  BY <1>1 DEF Begins
<1>3. /\ op \in Operations /\ op = queue[c][1] /\ 1 \in DOMAIN queue[c]
      /\ Tail(queue[c]) \in Seq(Operations)
      /\ \A i \in DOMAIN Tail(queue[c]) :
           i + 1 \in DOMAIN queue[c] /\ Tail(queue[c])[i] = queue[c][i + 1]
  BY <1>2, HeadTailProperties
<1>4. c \in Managed => \A i \in DOMAIN queue[c] : queue[c][i] \notin {"open", "close"}
  BY DEF FacadeInv, ManagedSound
<1> QED BY <1>1, <1>2, <1>3, <1>4 DEF Begins

LEMMA BeginOpenKeeps ==
  ASSUME FacadeInv, NEW c \in Clients, Whose(c), BeginOpen(c), UNCHANGED poolVars
  PROVE  FacadeInv' /\ Quiet(c)
<1>1. TypeOK /\ ClientTypeOK /\ ClientSound(c) BY DEF FacadeInv, TypeOK
<1>2. Begins(c, "open") BY DEF BeginOpen
<1>3. /\ queue' \in [Clients -> Seq(Operations)]
      /\ \A w \in Clients \ {c} : queue'[w] = queue[w]
      /\ running[c] = Idle /\ UNCHANGED <<use, asked, lease, spoiled, touched>>
      /\ c \notin Managed /\ c = Direct
  BY <1>2, BeginsGives, Kinds DEF Clients
<1>4. /\ running[c].pc = "idle" /\ running[c].op = "none" BY <1>3 DEF Idle
<1>5. UNCHANGED <<mine, claimed, reusable, leased, recycling, closeClaims>>
  BY DEF BeginOpen, poolVars
<1>6. \/ /\ state[c] = "opening" /\ owner' = "active" /\ state' = state
         /\ hasOwner' = [hasOwner EXCEPT ![c] = TRUE]
         /\ Goes(c, "open", "acquiring", None)
      \/ /\ state[c] = "opening" /\ state' = [state EXCEPT ![c] = "closed"]
         /\ UNCHANGED <<owner, hasOwner, running>>
      \/ UNCHANGED <<state, owner, hasOwner, running>>
  BY DEF BeginOpen, Becomes
<1>7. Goes(c, "open", "acquiring", None) =>
        /\ running' \in [Clients -> Runs]
        /\ running'[c].pc = "acquiring" /\ running'[c].op = "open"
        /\ running'[c].lease = None
        /\ \A w \in Clients \ {c} : running'[w] = running[w]
  BY <1>1, GoesGives, Kinds DEF Pcs, Operations
<1>8. Frame(c)
  BY <1>1, <1>3, <1>5, <1>6, <1>7 DEF Frame, ClientTypeOK
<1>9. ClientTypeOK'
  <2>1. running' \in [Clients -> Runs] BY <1>1, <1>6, <1>7 DEF ClientTypeOK
  <2>2. state' \in [Clients -> {"closed", "opening", "open", "closing", "faulted"}]
    BY <1>1, <1>6 DEF ClientTypeOK, Goes
  <2>3. /\ hasOwner' \in [Clients -> BOOLEAN] /\ claimed' = claimed
        /\ owner' \in {"none", "active", "retiring", "retired"}
    BY <1>1, <1>5, <1>6 DEF ClientTypeOK
  <2> QED BY <1>1, <1>3, <1>5, <2>1, <2>2, <2>3 DEF ClientTypeOK
<1>10. TypeOK' BY <1>1, <1>9, ClientTyped
<1>11. ClientSound(c)'
  BY <1>1, <1>3, <1>4, <1>5, <1>6, <1>7, Kinds
     DEF ClientSound, ClientTypeOK, EmptyHanded, AtSession, StepsOf, Taken, Claimable,
         TypeOK
<1>12. SessionHeld(c)' BY <1>4, <1>6, <1>7 DEF SessionHeld, AtSession
<1>13. c = Direct => DirectSound'
  BY <1>1, <1>3, <1>4, <1>6, <1>7 DEF DirectSound, FacadeInv, Idle, ClientTypeOK
<1>14. ASSUME NEW l \in Leases PROVE Passes(c, l)
  BY <1>3, <1>4, <1>5, <1>6, <1>7 DEF Passes, Hands, Taken
<1>15. Quiet(c)
  BY <1>3, <1>4, <1>5, <1>7, <1>6, <1>8 DEF Quiet
<1> QED BY <1>3, <1>8, <1>10, <1>11, <1>12, <1>13, <1>14, <1>15, ClientStep

LEMMA BeginCloseKeeps ==
  ASSUME FacadeInv, NEW c \in Clients, Whose(c), BeginClose(c), UNCHANGED poolVars
  PROVE  FacadeInv' /\ Quiet(c)
<1>1. TypeOK /\ ClientTypeOK /\ ClientSound(c) BY DEF FacadeInv, TypeOK
<1>2. Begins(c, "close") BY DEF BeginClose
<1>3. /\ queue' \in [Clients -> Seq(Operations)]
      /\ \A w \in Clients \ {c} : queue'[w] = queue[w]
      /\ running[c] = Idle /\ UNCHANGED <<use, asked, lease, spoiled, touched>>
      /\ c \notin Managed /\ c = Direct
  BY <1>2, BeginsGives, Kinds DEF Clients
<1>4. running[c].pc = "idle" /\ running[c].op = "none" BY <1>3 DEF Idle
<1>5. /\ UNCHANGED <<hasOwner, claimed, reusable, leased, recycling, closeClaims>>
      /\ mine' = [mine EXCEPT ![c] = None]
  BY DEF BeginClose, poolVars
<1>6. \/ /\ mine[c] # None /\ Goes(c, "close", "releasing", mine[c])
         /\ UNCHANGED <<state, owner>>
      \/ /\ mine[c] = None /\ Goes(c, "close", "retiring", None) /\ UNCHANGED state
         /\ owner' \in {owner, "retiring"}
      \/ /\ ~hasOwner[c] /\ state' = [state EXCEPT ![c] = "closed"]
         /\ UNCHANGED <<owner, running>>
  BY DEF BeginClose, Becomes, AskToRetire
<1>7. mine[c] \in Leases \cup {None} BY <1>1 DEF ClientTypeOK
<1>8. \A pc \in {"releasing", "retiring"}, l \in Leases \cup {None} :
        Goes(c, "close", pc, l) =>
          /\ running' \in [Clients -> Runs]
          /\ running'[c].pc = pc /\ running'[c].op = "close" /\ running'[c].lease = l
          /\ \A w \in Clients \ {c} : running'[w] = running[w]
  BY <1>1, GoesGives DEF Pcs, Operations
<1>9. Frame(c)
  BY <1>1, <1>3, <1>5, <1>6, <1>7, <1>8 DEF Frame, ClientTypeOK
<1>10. ClientTypeOK'
  <2>1. /\ running' \in [Clients -> Runs] /\ mine' \in [Clients -> Leases \cup {None}]
        /\ state' \in [Clients -> {"closed", "opening", "open", "closing", "faulted"}]
        /\ owner' \in {"none", "active", "retiring", "retired"}
    BY <1>1, <1>5, <1>6, <1>7, <1>8 DEF ClientTypeOK
  <2> QED BY <1>1, <1>3, <1>5, <2>1 DEF ClientTypeOK
<1>11. TypeOK' BY <1>1, <1>10, ClientTyped
<1>12. mine'[c] = None BY <1>1, <1>5 DEF ClientTypeOK
<1>14. ClientSound(c)'
  BY <1>1, <1>3, <1>4, <1>5, <1>6, <1>7, <1>8, <1>12, Kinds
     DEF ClientSound, ClientTypeOK, EmptyHanded, AtSession, StepsOf, Taken, Claimable,
         TypeOK
<1>15. SessionHeld(c)' BY <1>4, <1>6, <1>7, <1>8 DEF SessionHeld, AtSession
<1>16. c = Direct => DirectSound'
  BY <1>1, <1>3, <1>4, <1>5, <1>6, <1>7, <1>8 DEF DirectSound, FacadeInv, Idle, ClientTypeOK
<1>17. ASSUME NEW l \in Leases PROVE Passes(c, l)
  <2>0. /\ Hands(c, l) = {h \in {<<"client", c>>} : mine[c] = l}
        /\ Hands(c, l)' = {h \in {<<"operation", c>>} : running'[c].lease = l
                                                       /\ running'[c].pc \in Taken}
    BY <1>4, <1>12, Kinds DEF Hands, Taken
  <2>1. CASE Goes(c, "close", "releasing", mine[c])
    <3>1. running'[c].lease = mine[c] /\ running'[c].pc \in Taken
      BY <1>7, <1>8, <2>1 DEF Taken
    <3>2. CASE mine[c] = l
      <4>1. Hands(c, l) = {<<"client", c>>} /\ Hands(c, l)' = {<<"operation", c>>}
        BY <2>0, <3>1, <3>2
      <4> QED BY <1>3, <4>1 DEF Passes
    <3>3. CASE mine[c] # l
      BY <1>3, <2>0, <3>1, <3>3 DEF Passes
    <3> QED BY <3>2, <3>3
  <2>2. CASE Goes(c, "close", "retiring", None) /\ mine[c] = None
    BY <1>3, <1>4, <1>8, <1>12, <2>2, Kinds DEF Passes, Hands, Taken
  <2>3. CASE ~hasOwner[c] /\ UNCHANGED running
    <3>1. mine[c] = None BY <1>1, <2>3 DEF ClientSound
    <3> QED BY <1>3, <1>4, <2>0, <2>3, <3>1, Kinds DEF Passes, Taken
  <2> QED BY <1>6, <2>1, <2>2, <2>3
<1>18. Quiet(c)
  BY <1>3, <1>4, <1>5, <1>12, <1>6, <1>7, <1>8, <1>9 DEF Quiet
<1> QED BY <1>3, <1>9, <1>11, <1>14, <1>15, <1>16, <1>17, <1>18, ClientStep

(***************************************************************************)
(* What a client and its operation hold                                    *)
(***************************************************************************)
Carries(c) == IF running[c].pc \in Taken THEN running[c].lease ELSE None

LEMMA HandsAre ==
  ASSUME NEW c, NEW l \in Leases
  PROVE  Hands(c, l) = {h \in {<<"client", c>>} : mine[c] = l}
                       \cup {h \in {<<"operation", c>>} : Carries(c) = l}
BY Kinds DEF Hands, Carries

\* A step that moves no lease
LEMMA HoldsOn ==
  ASSUME NEW c, NEW l \in Leases,
         mine'[c] = mine[c], Carries(c)' = Carries(c), lease'[l] = lease[l]
  PROVE  Passes(c, l)
<1>1. Hands(c, l) = {h \in {<<"client", c>>} : mine[c] = l}
                    \cup {h \in {<<"operation", c>>} : Carries(c) = l}
  BY HandsAre
<1>2. Hands(c, l)' = {h \in {<<"client", c>>} : mine'[c] = l}
                     \cup {h \in {<<"operation", c>>} : Carries(c)' = l}
  BY Kinds DEF Hands, Carries
<1> HIDE DEF Carries
<1> QED BY <1>1, <1>2 DEF Passes

\* A client that has no lease and whose operation gives one up
LEMMA LetsGo ==
  ASSUME NEW c, NEW l \in Leases, TypeOK, NEW v, v # "held",
         mine[c] = None, mine'[c] = None, Carries(c) \in Leases, Carries(c)' = None,
         lease' = [lease EXCEPT ![Carries(c)] = v]
  PROVE  Passes(c, l)
<1>1. Hands(c, l) = {h \in {<<"operation", c>>} : Carries(c) = l}
  BY HandsAre, Kinds
<1>2. Hands(c, l)' = {}
  BY Kinds DEF Hands, Carries
<1>3. lease'[l] = IF l = Carries(c) THEN v ELSE lease[l] BY DEF TypeOK, ClientTypeOK
<1> HIDE DEF Carries
<1>4. CASE l = Carries(c)
  <2>1. Hands(c, l) = {<<"operation", c>>} BY <1>1, <1>4
  <2> QED BY <1>2, <1>3, <1>4, <2>1 DEF Passes
<1>5. CASE l # Carries(c)
  <2>1. Hands(c, l) = {} BY <1>1, <1>5
  <2> QED BY <1>2, <1>3, <1>5, <2>1 DEF Passes
<1> QED BY <1>4, <1>5

\* One whose operation is granted a lease
LEMMA Gets ==
  ASSUME NEW c, NEW l \in Leases, NEW x \in Leases, Grants({x}),
         mine[c] = None, mine'[c] = None, Carries(c) = None, Carries(c)' = x
  PROVE  Passes(c, l)
<1>1. Hands(c, l) = {} BY HandsAre, Kinds
<1>2. Hands(c, l)' = {h \in {<<"operation", c>>} : x = l} BY Kinds DEF Hands, Carries
<1>3. lease[x] = "none" /\ lease'[l] = IF l = x THEN "held" ELSE lease[l] BY DEF Grants
<1>4. CASE l = x
  <2>1. Hands(c, l)' = {<<"operation", c>>} BY <1>2, <1>4
  <2> QED BY <1>3, <1>4, <2>1 DEF Passes
<1>5. CASE l # x
  BY <1>1, <1>2, <1>3, <1>5 DEF Passes
<1> QED BY <1>4, <1>5

\* One that hands a lease to its operation, or is given it by the operation
LEMMA Shifts ==
  ASSUME NEW c, NEW l \in Leases, NEW x \in Leases, lease'[l] = lease[l],
         \/ mine[c] = x /\ Carries(c) = None /\ mine'[c] = None /\ Carries(c)' = x
         \/ mine[c] = None /\ Carries(c) = x /\ mine'[c] = x /\ Carries(c)' = None
  PROVE  Passes(c, l)
<1>1. Hands(c, l) = {h \in {<<"client", c>>} : mine[c] = l}
                    \cup {h \in {<<"operation", c>>} : Carries(c) = l}
  BY HandsAre
<1>2. Hands(c, l)' = {h \in {<<"client", c>>} : mine'[c] = l}
                     \cup {h \in {<<"operation", c>>} : Carries(c)' = l}
  BY Kinds DEF Hands, Carries
<1> HIDE DEF Carries
<1>3. CASE l = x
  <2>1. \/ Hands(c, l) = {<<"client", c>>} /\ Hands(c, l)' = {<<"operation", c>>}
        \/ Hands(c, l) = {<<"operation", c>>} /\ Hands(c, l)' = {<<"client", c>>}
    BY <1>1, <1>2, <1>3, Kinds
  <2> QED BY <2>1 DEF Passes
<1>4. CASE l # x
  <2>1. Hands(c, l) = {} /\ Hands(c, l)' = {} BY <1>1, <1>2, <1>4, Kinds
  <2> QED BY <2>1 DEF Passes
<1> QED BY <1>3, <1>4

(***************************************************************************)
(* call(), ping(), reset and metadata                                      *)
(***************************************************************************)
Uses == {"call", "ping", "reset", "metadata"}

LEMMA BeginUseKeeps ==
  ASSUME FacadeInv, NEW c \in Clients, Whose(c), BeginUse(c), UNCHANGED poolVars
  PROVE  FacadeInv' /\ Quiet(c)
<1>1. TypeOK /\ ClientTypeOK /\ ClientSound(c) BY DEF FacadeInv, TypeOK
<1>2. PICK op \in DOMAIN FirstStep :
        /\ Begins(c, op)
        /\ \/ BindsTo(c, op) /\ Goes(c, op, FirstStep[op], mine[c])
           \/ ~BindsTo(c, op) /\ UNCHANGED running
  BY DEF BeginUse
<1>3. op \in Uses /\ op \in Operations /\ FirstStep[op] \in {"session", "resetting", "lookup"}
  BY DEF FirstStep, Uses, Operations
<1>4. /\ queue' \in [Clients -> Seq(Operations)]
      /\ \A w \in Clients \ {c} : queue'[w] = queue[w]
      /\ c \in Managed =>
           \A i \in DOMAIN queue'[c] : queue'[c][i] \notin {"open", "close"}
      /\ running[c] = Idle /\ UNCHANGED <<use, asked, lease, spoiled, touched>>
  BY <1>2, BeginsGives
<1>5. running[c].pc = "idle" /\ running[c].op = "none" BY <1>4 DEF Idle
<1>6. UNCHANGED <<owner, state, mine, hasOwner, claimed, reusable, leased, recycling,
                  closeClaims>>
  BY DEF BeginUse, binding, poolVars
<1>7. mine[c] \in Leases \cup {None} BY <1>1 DEF ClientTypeOK
<1>8. \/ /\ mine[c] # None /\ running' \in [Clients -> Runs]
         /\ running'[c].pc = FirstStep[op] /\ running'[c].op = op
         /\ running'[c].lease = mine[c]
         /\ \A w \in Clients \ {c} : running'[w] = running[w]
      \/ UNCHANGED running
  <2>1. CASE BindsTo(c, op) /\ Goes(c, op, FirstStep[op], mine[c])
    <3>1. mine[c] # None BY <2>1 DEF BindsTo, Alive
    <3>2. FirstStep[op] \in Pcs BY <1>3 DEF Pcs
    <3> HIDE DEF FirstStep
    <3> QED BY <1>1, <1>3, <1>7, <2>1, <3>1, <3>2, GoesGives
  <2> QED BY <1>2, <2>1
<1>9. Frame(c) BY <1>4, <1>6, <1>8 DEF Frame
<1> HIDE DEF FirstStep
<1>10. ClientTypeOK' BY <1>1, <1>4, <1>6, <1>8 DEF ClientTypeOK
<1>11. TypeOK' BY <1>1, <1>10, ClientTyped
<1>12. ClientSound(c)'
  BY <1>1, <1>3, <1>5, <1>6, <1>8, Kinds
     DEF ClientSound, EmptyHanded, AtSession, StepsOf, Taken, Claimable, Uses
<1>13. SessionHeld(c)'
  BY <1>5, <1>6, <1>8 DEF SessionHeld, AtSession
<1>14. c \in Managed => ManagedSound(c)'
  BY <1>3, <1>4, <1>6, <1>8 DEF FacadeInv, ManagedSound, Uses
<1>15. AtRest(c) => AtRest(c)' BY <1>6, <1>8 DEF AtRest
<1>16. c = Direct => DirectSound'
  BY <1>1, <1>4, <1>5, <1>6, <1>8 DEF DirectSound, FacadeInv, Idle, ClientSound, ClientTypeOK
<1>17. Carries(c) = None /\ Carries(c)' = None
  BY <1>3, <1>5, <1>8 DEF Carries, Taken
<1>18. \A l \in Leases : Passes(c, l)
  BY <1>4, <1>6, <1>17, HoldsOn
<1>19. Quiet(c)
  BY <1>3, <1>4, <1>5, <1>6, <1>8, <1>9 DEF Quiet
<1> QED BY <1>9, <1>11, <1>12, <1>13, <1>14, <1>15, <1>16, <1>18, <1>19, ClientStep

LEMMA LookedUpKeeps ==
  ASSUME FacadeInv, NEW c \in Clients, Whose(c), LookedUp(c), UNCHANGED poolVars
  PROVE  FacadeInv' /\ Quiet(c)
<1>1. TypeOK /\ ClientTypeOK /\ ClientSound(c) BY DEF FacadeInv, TypeOK
<1>2. /\ running[c].pc = "lookup" /\ Ends(c)
      /\ UNCHANGED <<use, queue, asked, owner, lease, spoiled, touched, state, mine,
                     hasOwner, claimed, reusable, leased, recycling, closeClaims>>
  BY DEF LookedUp, AtStep, ownerVars, binding, poolVars
<1>3. /\ running' \in [Clients -> Runs] /\ running'[c] = Idle
      /\ running'[c].pc = "idle" /\ running'[c].op = "none" /\ running'[c].lease = None
      /\ \A w \in Clients \ {c} : running'[w] = running[w]
  BY <1>1, <1>2, EndsGives
<1>4. running[c].op \in Uses
  BY <1>1, <1>2 DEF ClientSound, StepsOf, Uses, ClientTypeOK, Runs, Operations
<1>5. Frame(c) BY <1>2, <1>3 DEF Frame
<1>6. ClientTypeOK' BY <1>1, <1>2, <1>3 DEF ClientTypeOK
<1>7. TypeOK' BY <1>1, <1>6, ClientTyped
<1>8. ClientSound(c)'
  BY <1>1, <1>2, <1>3 DEF ClientSound, EmptyHanded, AtSession, StepsOf, Taken, Claimable
<1>9. SessionHeld(c)' BY <1>3 DEF SessionHeld, AtSession
<1>10. c \in Managed => ManagedSound(c)'
  BY <1>2, <1>3 DEF FacadeInv, ManagedSound
<1>11. AtRest(c) => AtRest(c)' BY <1>2, <1>3 DEF AtRest
<1>12. c = Direct => DirectSound'
  BY <1>2, <1>3, <1>4 DEF DirectSound, FacadeInv, Uses
<1>13. Carries(c) = None /\ Carries(c)' = None BY <1>2, <1>3 DEF Carries, Taken
<1>14. \A l \in Leases : Passes(c, l) BY <1>2, <1>13, HoldsOn
<1>15. Quiet(c)
  BY <1>2, <1>3, <1>5 DEF Quiet
<1> QED BY <1>5, <1>7, <1>8, <1>9, <1>10, <1>11, <1>12, <1>14, <1>15, ClientStep

(***************************************************************************)
(* At the session                                                          *)
(***************************************************************************)
\* Invoked and ResetDone: the operation goes on, ends, or fails fatally.
SessionStep(c) ==
  /\ AtSession(c)
  /\ UNCHANGED <<use, queue, asked, owner, lease, state, hasOwner, claimed>>
  /\ spoiled' \subseteq Leases /\ touched' \subseteq Leases
  /\ \/ Fatal(c)
     \/ /\ UNCHANGED <<mine, reusable>>
        /\ Ends(c) \/ StepsTo(c, "resetting")

LEMMA SessionSteps ==
  ASSUME FacadeInv, NEW c \in Clients,
         (\E outcome \in Outcomes : Invoked(c, outcome)) \/ ResetDone(c)
  PROVE  SessionStep(c)
<1>1. TypeOK /\ ClientTypeOK /\ ClientSound(c) BY DEF FacadeInv, TypeOK
<1>2. ASSUME NEW outcome \in Outcomes, Invoked(c, outcome) PROVE SessionStep(c)
  <2>1. running[c].pc = "session" BY <1>2 DEF Invoked, AtStep
  <2>2. running[c].lease \in Leases
    BY <1>1, <2>1 DEF ClientSound, AtSession, ClientTypeOK, Runs
  <2>3. spoiled' \subseteq Leases /\ touched' \subseteq Leases
    BY <1>1, <1>2, <2>2 DEF Invoked, ClientTypeOK
  <2> QED BY <1>2, <2>1, <2>3 DEF Invoked, AtStep, SessionStep, AtSession
<1>3. ASSUME ResetDone(c) PROVE SessionStep(c)
  <2>1. running[c].pc = "resetting" BY <1>3 DEF ResetDone, AtStep
  <2>2. running[c].lease \in Leases
    BY <1>1, <2>1 DEF ClientSound, AtSession, ClientTypeOK, Runs
  <2>3. spoiled' \subseteq Leases /\ touched' \subseteq Leases
    BY <1>1, <1>3, <2>2 DEF ResetDone, ClientTypeOK
  <2> QED BY <1>3, <2>1, <2>3 DEF ResetDone, AtStep, SessionStep, AtSession
<1> QED BY <1>2, <1>3

LEMMA SessionStepKeeps ==
  ASSUME FacadeInv, NEW c \in Clients, Whose(c), SessionStep(c), UNCHANGED poolVars
  PROVE  FacadeInv'
<1>1. TypeOK /\ ClientTypeOK /\ ClientSound(c) BY DEF FacadeInv, TypeOK
<1>2. /\ AtSession(c)
      /\ UNCHANGED <<use, queue, asked, owner, lease, state, hasOwner, claimed, leased,
                     recycling, closeClaims>>
      /\ spoiled' \subseteq Leases /\ touched' \subseteq Leases
  BY DEF SessionStep, poolVars
<1>3. PICK x : x = running[c].lease OBVIOUS
<1>4. x \in Leases /\ running[c].op \in Uses
  BY <1>1, <1>2, <1>3
     DEF ClientSound, AtSession, StepsOf, Uses, ClientTypeOK, Runs, Operations
<1>5. \/ /\ mine[c] = x /\ mine' = [mine EXCEPT ![c] = None]
         /\ running'[c].pc = "evicting" /\ running'[c].lease = x
         /\ running'[c].op = running[c].op
      \/ mine' = mine /\ running'[c] = Idle
      \/ /\ mine' = mine /\ running'[c].pc = "resetting" /\ running'[c].lease = x
         /\ running'[c].op = running[c].op
  BY <1>1, <1>3, StepsToGives, EndsGives DEF SessionStep, Fatal, Pcs
<1>6. /\ running' \in [Clients -> Runs]
      /\ \A w \in Clients \ {c} : running'[w] = running[w]
  BY <1>1, StepsToGives, EndsGives DEF SessionStep, Fatal, Pcs
<1>7. /\ mine' \in [Clients -> Leases \cup {None}]
      /\ \A w \in Clients \ {c} : mine'[w] = mine[w]
  BY <1>1, <1>5 DEF ClientTypeOK
<1>8. /\ reusable' \in [Clients -> BOOLEAN]
      /\ \A w \in Clients \ {c} : reusable'[w] = reusable[w]
  BY <1>1 DEF SessionStep, Fatal, MarksClaim, ClientTypeOK
<1>9. Frame(c) BY <1>2, <1>6, <1>7, <1>8 DEF Frame
<1>10. ClientTypeOK' BY <1>1, <1>2, <1>6, <1>7, <1>8 DEF ClientTypeOK
<1>11. TypeOK' BY <1>1, <1>10, ClientTyped
<1>12. Idle.pc = "idle" /\ Idle.op = "none" BY DEF Idle
<1>13. mine'[c] = mine[c] \/ mine'[c] = None BY <1>1, <1>5 DEF ClientTypeOK
<1>14. ClientSound(c)'
  BY <1>1, <1>2, <1>4, <1>5, <1>12, <1>13, Kinds
     DEF ClientSound, EmptyHanded, AtSession, StepsOf, Taken, Claimable, Uses, ClientTypeOK
<1>15. SessionHeld(c)'
  BY <1>2, <1>3, <1>5, <1>12 DEF FacadeInv, SessionHeld, AtSession, HasClaim
<1>16. c \in Managed => ManagedSound(c)'
  BY <1>2, <1>4, <1>5, <1>12 DEF FacadeInv, ManagedSound, Uses
<1>17. ~AtRest(c) BY <1>2, <1>12 DEF AtRest, AtSession
<1>18. c = Direct => DirectSound'
  BY <1>2, <1>4, <1>5, <1>12 DEF DirectSound, FacadeInv, Uses, AtSession
<1>19. Carries(c) = None BY <1>2 DEF Carries, AtSession, Taken
<1>20. ASSUME NEW l \in Leases PROVE Passes(c, l)
  <2>1. CASE mine[c] = x /\ mine' = [mine EXCEPT ![c] = None]
             /\ running'[c].pc = "evicting" /\ running'[c].lease = x
    <3>1. Carries(c)' = x /\ mine'[c] = None BY <1>1, <2>1 DEF Carries, Taken, ClientTypeOK
    <3> QED BY <1>2, <1>4, <1>19, <2>1, <3>1, Shifts
  <2>2. CASE mine' = mine /\ running'[c].pc \in {"idle", "resetting"}
    <3>1. Carries(c)' = None BY <2>2 DEF Carries, Taken
    <3> QED BY <1>2, <1>19, <2>2, <3>1, HoldsOn
  <2> QED BY <1>5, <1>12, <2>1, <2>2
<1> QED BY <1>9, <1>11, <1>14, <1>15, <1>16, <1>17, <1>18, <1>20, ClientStep

(***************************************************************************)
(* An operation that lets a lease go                                       *)
(***************************************************************************)
\* What becomes of a client that faults
LEMMA FaultsGives ==
  ASSUME TypeOK, NEW c \in Clients, Faults(c)
  PROVE  /\ running' \in [Clients -> Runs]
         /\ \A w \in Clients \ {c} : running'[w] = running[w] /\ state'[w] = state[w]
         /\ state' \in [Clients -> {"closed", "opening", "open", "closing", "faulted"}]
         /\ state'[c] = "faulted"
         /\ owner' \in {"none", "active", "retiring", "retired"}
         /\ \/ /\ c = Direct /\ running'[c].pc = "dropping"
               /\ running'[c].op = running[c].op
            \/ c # Direct /\ running'[c] = Idle
<1>1. ClientTypeOK BY DEF TypeOK
<1>2. /\ \A w \in Clients \ {c} : state'[w] = state[w]
      /\ state' \in [Clients -> {"closed", "opening", "open", "closing", "faulted"}]
      /\ state'[c] = "faulted"
      /\ owner' \in {"none", "active", "retiring", "retired"}
  BY <1>1 DEF Faults, Becomes, AskToRetire, ClientTypeOK
<1>3. CASE c = Direct
  BY <1>2, <1>3, StepsToGives DEF Faults, Pcs
<1>4. CASE c # Direct
  BY <1>2, <1>4, EndsGives DEF Faults
<1> QED BY <1>3, <1>4

\* Evicted and Returned
LetsGoStep(c) ==
  /\ running[c].pc \in {"evicting", "returning", "undoing"} /\ running[c].op # "open"
  /\ UNCHANGED <<use, queue, asked, binding>>
  /\ Destroy(running[c].lease)
  /\ \/ Faults(c)
     \/ (Ends(c) \/ (StepsTo(c, "replacing"))) /\ UNCHANGED <<state, owner>>

LEMMA LetsGoSteps ==
  ASSUME FacadeInv, NEW c \in Clients, Evicted(c) \/ Returned(c)
  PROVE  LetsGoStep(c)
<1>1. ClientSound(c) BY DEF FacadeInv
<1>2. CASE Evicted(c)
  BY <1>1, <1>2 DEF Evicted, AtStep, LetsGoStep, ClientSound, StepsOf
<1>3. CASE Returned(c)
  BY <1>3 DEF Returned, AtStep, LetsGoStep
<1> QED BY <1>2, <1>3

LEMMA LetsGoStepKeeps ==
  ASSUME FacadeInv, NEW c \in Clients, Whose(c), LetsGoStep(c), UNCHANGED poolVars
  PROVE  FacadeInv' /\ Quiet(c)
<1>1. TypeOK /\ ClientTypeOK /\ ClientSound(c) BY DEF FacadeInv, TypeOK
<1>2. /\ running[c].pc \in {"evicting", "returning", "undoing"} /\ running[c].op # "open"
      /\ UNCHANGED <<use, queue, asked, mine, hasOwner, claimed, reusable, leased,
                     recycling, closeClaims>>
  BY DEF LetsGoStep, binding, poolVars
<1>3. running[c].lease \in Leases /\ running[c].op \in Uses /\ mine[c] = None
  BY <1>1, <1>2
     DEF ClientSound, EmptyHanded, StepsOf, Uses, ClientTypeOK, Runs, Operations, Taken
<1>4. /\ lease' = [lease EXCEPT ![running[c].lease] = "destroyed"]
      /\ UNCHANGED <<spoiled, touched>>
  BY DEF LetsGoStep, Destroy, GiveBack
<1>5. /\ running' \in [Clients -> Runs]
      /\ \A w \in Clients \ {c} : running'[w] = running[w] /\ state'[w] = state[w]
      /\ state' \in [Clients -> {"closed", "opening", "open", "closing", "faulted"}]
      /\ owner' \in {"none", "active", "retiring", "retired"}
  BY <1>1, FaultsGives, EndsGives, StepsToGives DEF LetsGoStep, Pcs, ClientTypeOK
<1>6. \/ /\ state'[c] = "faulted" /\ c = Direct /\ running'[c].pc = "dropping"
         /\ running'[c].op = running[c].op
      \/ state'[c] = "faulted" /\ c # Direct /\ running'[c] = Idle
      \/ state'[c] = state[c] /\ owner' = owner /\ running'[c] = Idle
      \/ /\ state'[c] = state[c] /\ owner' = owner /\ running'[c].pc = "replacing"
         /\ running'[c].op = running[c].op
  BY <1>1, FaultsGives, EndsGives, StepsToGives DEF LetsGoStep, Pcs
<1>7. Frame(c) BY <1>2, <1>5 DEF Frame
<1>8. ClientTypeOK'
  <2>1. lease' \in [Leases -> {"none", "held", "reused", "destroyed"}]
    BY <1>1, <1>3, <1>4 DEF ClientTypeOK
  <2> QED BY <1>1, <1>2, <1>4, <1>5, <2>1 DEF ClientTypeOK
<1>9. TypeOK' BY <1>1, <1>8, ClientTyped
<1>10. Idle.pc = "idle" /\ Idle.op = "none" BY DEF Idle
<1>11. ClientSound(c)'
  BY <1>1, <1>2, <1>3, <1>6, <1>10, Kinds
     DEF ClientSound, EmptyHanded, AtSession, StepsOf, Taken, Claimable, Uses
<1>12. SessionHeld(c)' BY <1>6, <1>10 DEF SessionHeld, AtSession
<1>13. c \in Managed => ManagedSound(c)'
  BY <1>2, <1>3, <1>6, <1>10, Kinds DEF FacadeInv, ManagedSound, Uses
<1>14. ~AtRest(c) BY <1>2, <1>10 DEF AtRest
<1>15. c = Direct => DirectSound'
  BY <1>2, <1>3, <1>6, <1>10 DEF DirectSound, FacadeInv, Uses
<1>16. ASSUME NEW l \in Leases PROVE Passes(c, l)
  <2>1. Carries(c) = running[c].lease BY <1>2 DEF Carries, Taken
  <2>2. Carries(c)' = None BY <1>6, <1>10 DEF Carries, Taken
  <2> HIDE DEF Carries
  <2>3. mine'[c] = None /\ Carries(c) \in Leases
        /\ lease' = [lease EXCEPT ![Carries(c)] = "destroyed"]
    BY <1>2, <1>3, <1>4, <2>1
  <2> QED BY <1>1, <1>3, <2>2, <2>3, LetsGo
<1>17. Quiet(c)
  BY <1>1, <1>2, <1>3, <1>4, <1>6, <1>7, <1>10 DEF Quiet, ClientTypeOK
<1> QED BY <1>7, <1>9, <1>11, <1>12, <1>13, <1>14, <1>15, <1>16, <1>17, ClientStep

(***************************************************************************)
(* An operation that is granted a lease                                    *)
(***************************************************************************)
LEMMA GrantsGive ==
  ASSUME ClientTypeOK, NEW S \in SUBSET Leases, Grants(S)
  PROVE  /\ lease' \in [Leases -> {"none", "held", "reused", "destroyed"}]
         /\ UNCHANGED <<owner, spoiled, touched>>
BY DEF Grants, ClientTypeOK

\* Replacement and OpenAcquired
GrantStep(c) ==
  /\ \/ running[c].pc = "acquiring" /\ running[c].op = "open"
     \/ running[c].pc = "replacing"
  /\ UNCHANGED <<use, queue, asked, binding, state>>
  /\ \E l \in Leases : Grants({l}) /\ Goes(c, running[c].op, "describing", l)

LEMMA GrantStepKeeps ==
  ASSUME FacadeInv, NEW c \in Clients, Whose(c), GrantStep(c), UNCHANGED poolVars
  PROVE  FacadeInv' /\ Quiet(c)
<1>1. TypeOK /\ ClientTypeOK /\ ClientSound(c) BY DEF FacadeInv, TypeOK
<1>2. /\ \/ running[c].pc = "acquiring" /\ running[c].op = "open"
         \/ running[c].pc = "replacing"
      /\ UNCHANGED <<use, queue, asked, mine, hasOwner, claimed, reusable, leased,
                     recycling, closeClaims, state>>
  BY DEF GrantStep, binding, poolVars
<1>3. /\ running[c].op \in Uses \cup {"open"} /\ running[c].op \in Operations
      /\ running[c].pc = "replacing" => running[c].op \in Uses
      /\ mine[c] = None
  BY <1>1, <1>2
     DEF ClientSound, EmptyHanded, StepsOf, Uses, ClientTypeOK, Runs, Operations, Taken
<1>4. PICK x \in Leases : Grants({x}) /\ Goes(c, running[c].op, "describing", x)
  BY DEF GrantStep
<1>5. /\ running' \in [Clients -> Runs] /\ running'[c].pc = "describing"
      /\ running'[c].op = running[c].op /\ running'[c].lease = x
      /\ \A w \in Clients \ {c} : running'[w] = running[w]
  BY <1>1, <1>3, <1>4, GoesGives DEF Pcs
<1>6. /\ lease' \in [Leases -> {"none", "held", "reused", "destroyed"}]
      /\ UNCHANGED <<owner, spoiled, touched>>
  BY <1>1, <1>4, GrantsGive
<1>7. Frame(c) BY <1>2, <1>5 DEF Frame
<1>8. ClientTypeOK' BY <1>1, <1>2, <1>5, <1>6 DEF ClientTypeOK
<1>9. TypeOK' BY <1>1, <1>8, ClientTyped
<1>10. ClientSound(c)'
  BY <1>1, <1>2, <1>3, <1>5, Kinds
     DEF ClientSound, EmptyHanded, AtSession, StepsOf, Taken, Claimable, Uses
<1>11. SessionHeld(c)' BY <1>5 DEF SessionHeld, AtSession
<1>12. c \in Managed => ManagedSound(c)'
  BY <1>2, <1>5 DEF FacadeInv, ManagedSound
<1>13. ~AtRest(c) BY <1>2 DEF AtRest, Idle
<1>14. c = Direct => DirectSound'
  BY <1>2, <1>3, <1>5, <1>6 DEF DirectSound, FacadeInv, Uses, Idle
<1>15. ASSUME NEW l \in Leases PROVE Passes(c, l)
  <2>1. Carries(c) = None /\ Carries(c)' = x BY <1>2, <1>5 DEF Carries, Taken
  <2> QED BY <1>2, <1>3, <1>4, <2>1, Gets
<1>16. Quiet(c)
  BY <1>2, <1>3, <1>4, <1>5, <1>6, <1>7 DEF Quiet, Grants
<1> QED BY <1>7, <1>9, <1>10, <1>11, <1>12, <1>13, <1>14, <1>15, <1>16, ClientStep

\* One that is not: a replacement faults, an open() retires the destination.
LEMMA ReplacementFails ==
  ASSUME FacadeInv, NEW c \in Clients, Whose(c), UNCHANGED poolVars,
         running[c].pc = "replacing", Faults(c),
         UNCHANGED <<use, queue, asked, binding, lease, spoiled, touched>>
  PROVE  FacadeInv' /\ Quiet(c)
<1>1. TypeOK /\ ClientTypeOK /\ ClientSound(c) BY DEF FacadeInv, TypeOK
<1>2. UNCHANGED <<mine, hasOwner, claimed, reusable, leased, recycling, closeClaims>>
  BY DEF binding, poolVars
<1>3. running[c].op \in Uses /\ mine[c] = None
  BY <1>1
     DEF ClientSound, EmptyHanded, StepsOf, Uses, ClientTypeOK, Runs, Operations, Taken
<1>4. /\ running' \in [Clients -> Runs]
      /\ \A w \in Clients \ {c} : running'[w] = running[w] /\ state'[w] = state[w]
      /\ state' \in [Clients -> {"closed", "opening", "open", "closing", "faulted"}]
      /\ state'[c] = "faulted"
      /\ owner' \in {"none", "active", "retiring", "retired"}
      /\ \/ /\ c = Direct /\ running'[c].pc = "dropping"
            /\ running'[c].op = running[c].op
         \/ c # Direct /\ running'[c] = Idle
  BY <1>1, FaultsGives
<1>5. Frame(c) BY <1>2, <1>4 DEF Frame
<1>6. ClientTypeOK' BY <1>1, <1>2, <1>4 DEF ClientTypeOK
<1>7. TypeOK' BY <1>1, <1>6, ClientTyped
<1>8. Idle.pc = "idle" /\ Idle.op = "none" BY DEF Idle
<1>9. ClientSound(c)'
  BY <1>1, <1>2, <1>3, <1>4, <1>8, Kinds
     DEF ClientSound, EmptyHanded, AtSession, StepsOf, Taken, Claimable, Uses
<1>10. SessionHeld(c)' BY <1>4, <1>8 DEF SessionHeld, AtSession
<1>11. c \in Managed => ManagedSound(c)'
  BY <1>2, <1>4, <1>8, Kinds DEF FacadeInv, ManagedSound
<1>12. ~AtRest(c) BY <1>8 DEF AtRest
<1>13. c = Direct => DirectSound'
  BY <1>4, <1>8 DEF DirectSound, FacadeInv
<1>14. Carries(c) = None /\ Carries(c)' = None BY <1>4, <1>8 DEF Carries, Taken
<1>15. \A l \in Leases : Passes(c, l) BY <1>2, <1>14, HoldsOn
<1>16. Quiet(c)
  BY <1>2, <1>4, <1>5, <1>8 DEF Quiet
<1> QED BY <1>5, <1>7, <1>9, <1>10, <1>11, <1>12, <1>13, <1>15, <1>16, ClientStep

(***************************************************************************)
(* open() and close(): the destination is retired                          *)
(***************************************************************************)
\* Which clients open and close at all
LEMMA OnlyDirectOpens ==
  ASSUME FacadeInv, NEW c \in Clients, running[c].op \in {"open", "close"}
  PROVE  c = Direct /\ c \notin Managed
BY Kinds DEF Clients, FacadeInv, ManagedSound

\* The end of OpenAcquired, and GivesUp
RetireStep(c) ==
  /\ running[c].op \in {"open", "close"}
  /\ UNCHANGED <<use, queue, asked, binding, state, spoiled, touched>>
  /\ AskToRetire /\ StepsTo(c, "retiring")
  /\ \/ running[c].pc = "acquiring" /\ UNCHANGED lease
     \/ /\ running[c].pc \in {"releasing", "returning", "undoing"}
        /\ lease' = [lease EXCEPT ![running[c].lease] = "destroyed"]

LEMMA RetireStepKeeps ==
  ASSUME FacadeInv, NEW c \in Clients, Whose(c), RetireStep(c), UNCHANGED poolVars
  PROVE  FacadeInv' /\ Quiet(c)
<1>1. TypeOK /\ ClientTypeOK /\ ClientSound(c) BY DEF FacadeInv, TypeOK
<1>2. /\ running[c].op \in {"open", "close"}
      /\ UNCHANGED <<use, queue, asked, mine, hasOwner, claimed, reusable, leased,
                     recycling, closeClaims, state, spoiled, touched>>
      /\ owner' \in {"none", "active", "retiring", "retired"}
  BY <1>1 DEF RetireStep, binding, poolVars, AskToRetire, ClientTypeOK
<1>3. running[c].pc \in {"acquiring", "releasing", "returning", "undoing"}
      /\ mine[c] = None
  BY <1>1 DEF RetireStep, ClientSound, EmptyHanded, Taken
<1>4. /\ running' \in [Clients -> Runs] /\ running'[c].pc = "retiring"
      /\ running'[c].op = running[c].op
      /\ \A w \in Clients \ {c} : running'[w] = running[w]
  BY <1>1, StepsToGives DEF RetireStep, Pcs
<1>5. Frame(c) BY <1>2, <1>4 DEF Frame
<1>6. lease' \in [Leases -> {"none", "held", "reused", "destroyed"}]
  BY <1>1 DEF RetireStep, ClientTypeOK
<1>7. ClientTypeOK' BY <1>1, <1>2, <1>4, <1>6 DEF ClientTypeOK
<1>8. TypeOK' BY <1>1, <1>7, ClientTyped
<1>9. ClientSound(c)'
  BY <1>1, <1>2, <1>3, <1>4, Kinds
     DEF ClientSound, EmptyHanded, AtSession, StepsOf, Taken, Claimable
<1>10. SessionHeld(c)' BY <1>4 DEF SessionHeld, AtSession
<1>11. c = Direct /\ c \notin Managed BY <1>2, OnlyDirectOpens
<1>12. ~AtRest(c) BY <1>3 DEF AtRest, Idle
<1>13. DirectSound'
  BY <1>2, <1>4, <1>11 DEF DirectSound, FacadeInv, Idle
<1>14. Carries(c)' = None BY <1>4 DEF Carries, Taken
<1>15. ASSUME NEW l \in Leases PROVE Passes(c, l)
  <2>1. CASE running[c].pc = "acquiring" /\ UNCHANGED lease
    <3>1. Carries(c) = None BY <2>1 DEF Carries, Taken
    <3> QED BY <1>2, <1>14, <2>1, <3>1, HoldsOn
  <2>2. CASE /\ running[c].pc \in {"releasing", "returning", "undoing"}
             /\ lease' = [lease EXCEPT ![running[c].lease] = "destroyed"]
    <3>1. Carries(c) = running[c].lease BY <2>2 DEF Carries, Taken
    <3>2. running[c].lease \in Leases
      BY <1>1, <2>2 DEF ClientSound, Taken, ClientTypeOK, Runs
    <3> HIDE DEF Carries
    <3>3. Carries(c) \in Leases /\ lease' = [lease EXCEPT ![Carries(c)] = "destroyed"]
      BY <2>2, <3>1, <3>2
    <3> QED BY <1>1, <1>2, <1>3, <1>14, <3>3, LetsGo
  <2> QED BY <2>1, <2>2 DEF RetireStep
<1>16. Quiet(c)
  BY <1>1, <1>2, <1>3, <1>4, <1>5 DEF Quiet, RetireStep, ClientTypeOK
<1> QED BY <1>5, <1>8, <1>9, <1>10, <1>11, <1>12, <1>13, <1>15, <1>16, ClientStep

LEMMA ClosedKeeps ==
  ASSUME FacadeInv, NEW c \in Clients, Whose(c), Closed(c), UNCHANGED poolVars
  PROVE  FacadeInv' /\ Quiet(c)
<1>1. TypeOK /\ ClientTypeOK /\ ClientSound(c) BY DEF FacadeInv, TypeOK
<1>2. /\ running[c].pc = "retiring" /\ owner = "retired"
      /\ UNCHANGED <<use, queue, asked, owner, lease, spoiled, touched, claimed, reusable,
                     leased, recycling, closeClaims>>
      /\ mine' = [mine EXCEPT ![c] = None] /\ hasOwner' = [hasOwner EXCEPT ![c] = FALSE]
      /\ state' = [state EXCEPT ![c] = "closed"] /\ Ends(c)
  BY DEF Closed, AtStep, ownerVars, poolVars, Becomes
<1>3. mine[c] = None BY <1>1, <1>2 DEF ClientSound, EmptyHanded
<1>4. running[c].op \in {"open", "close"}
  BY <1>1, <1>2 DEF ClientSound, StepsOf, ClientTypeOK, Runs, Operations
<1>5. c = Direct /\ c \notin Managed BY <1>4, OnlyDirectOpens
<1>6. /\ running' \in [Clients -> Runs] /\ running'[c] = Idle
      /\ running'[c].pc = "idle" /\ running'[c].op = "none" /\ running'[c].lease = None
      /\ \A w \in Clients \ {c} : running'[w] = running[w]
  BY <1>1, <1>2, EndsGives
<1>7. /\ mine'[c] = None /\ state'[c] = "closed" /\ hasOwner'[c] = FALSE
      /\ mine' = mine
  BY <1>1, <1>2, <1>3 DEF ClientTypeOK
<1>8. Frame(c) BY <1>1, <1>2, <1>6 DEF Frame, ClientTypeOK
<1>9. ClientTypeOK' BY <1>1, <1>2, <1>6, <1>7 DEF ClientTypeOK
<1>10. TypeOK' BY <1>1, <1>9, ClientTyped
<1>11. c \notin leased BY <1>1, <1>5 DEF TypeOK
<1>12. ClientSound(c)'
  BY <1>1, <1>2, <1>6, <1>7, <1>11
     DEF ClientSound, EmptyHanded, AtSession, StepsOf, Taken
<1>13. SessionHeld(c)' BY <1>6 DEF SessionHeld, AtSession
<1>14. ~AtRest(c) BY <1>2 DEF AtRest, Idle
<1>15. DirectSound' BY <1>2, <1>5, <1>6 DEF DirectSound, Idle
<1>16. Carries(c) = None /\ Carries(c)' = None BY <1>2, <1>6 DEF Carries, Taken
<1>17. \A l \in Leases : Passes(c, l) BY <1>2, <1>7, <1>16, HoldsOn
<1>18. Quiet(c)
  BY <1>2, <1>6, <1>7, <1>8 DEF Quiet
<1> QED BY <1>5, <1>8, <1>10, <1>12, <1>13, <1>14, <1>15, <1>17, <1>18, ClientStep

LEMMA DroppedKeeps ==
  ASSUME FacadeInv, NEW c \in Clients, Whose(c), Dropped(c), UNCHANGED poolVars
  PROVE  FacadeInv' /\ Quiet(c)
<1>1. TypeOK /\ ClientTypeOK /\ ClientSound(c) BY DEF FacadeInv, TypeOK
<1>2. /\ running[c].pc = "dropping" /\ owner = "retired"
      /\ UNCHANGED <<use, queue, asked, owner, lease, spoiled, touched, state, mine,
                     claimed, reusable, leased, recycling, closeClaims>>
      /\ hasOwner' \in {hasOwner, [hasOwner EXCEPT ![c] = FALSE]} /\ Ends(c)
  BY DEF Dropped, AtStep, ownerVars, poolVars
<1>3. mine[c] = None BY <1>1, <1>2 DEF ClientSound, EmptyHanded
<1>4. c = Direct /\ c \notin Managed
  BY <1>2, Kinds DEF FacadeInv, ManagedSound, Clients
<1>5. /\ running' \in [Clients -> Runs] /\ running'[c] = Idle
      /\ running'[c].pc = "idle" /\ running'[c].op = "none" /\ running'[c].lease = None
      /\ \A w \in Clients \ {c} : running'[w] = running[w]
  BY <1>1, <1>2, EndsGives
<1>6. /\ hasOwner' \in [Clients -> BOOLEAN]
      /\ \A w \in Clients \ {c} : hasOwner'[w] = hasOwner[w]
  BY <1>1, <1>2 DEF ClientTypeOK
<1>7. Frame(c) BY <1>2, <1>5, <1>6 DEF Frame
<1>8. ClientTypeOK' BY <1>1, <1>2, <1>5, <1>6 DEF ClientTypeOK
<1>9. TypeOK' BY <1>1, <1>8, ClientTyped
<1>10. c \notin leased BY <1>1, <1>4 DEF TypeOK
<1>11. ClientSound(c)'
  BY <1>1, <1>2, <1>3, <1>5, <1>10 DEF ClientSound, EmptyHanded, AtSession, StepsOf, Taken
<1>12. SessionHeld(c)' BY <1>5 DEF SessionHeld, AtSession
<1>13. ~AtRest(c) BY <1>2 DEF AtRest, Idle
<1>14. DirectSound' BY <1>2, <1>4, <1>5 DEF DirectSound, Idle
<1>15. Carries(c) = None /\ Carries(c)' = None BY <1>2, <1>5 DEF Carries, Taken
<1>16. \A l \in Leases : Passes(c, l) BY <1>2, <1>15, HoldsOn
<1>17. Quiet(c)
  BY <1>2, <1>5, <1>7 DEF Quiet
<1> QED BY <1>4, <1>7, <1>9, <1>11, <1>12, <1>13, <1>14, <1>16, <1>17, ClientStep

LEMMA DescribedKeeps ==
  ASSUME FacadeInv, NEW c \in Clients, Whose(c), Described(c), UNCHANGED poolVars
  PROVE  FacadeInv' /\ Quiet(c)
<1>1. TypeOK /\ ClientTypeOK /\ ClientSound(c) BY DEF FacadeInv, TypeOK
<1>2. /\ running[c].pc = "describing"
      /\ UNCHANGED <<use, queue, asked, owner, lease, spoiled, touched, claimed,
                     leased, recycling, closeClaims>>
  BY DEF Described, AtStep, ownerVars, poolVars, Installs, binding
<1>3. /\ mine[c] = None /\ running[c].lease \in Leases
      /\ running[c].op \in Uses \cup {"open"}
      /\ running[c].op # "none" /\ running[c] # Idle
  BY <1>1, <1>2
     DEF ClientSound, EmptyHanded, Taken, ClientTypeOK, Runs, StepsOf, Uses, Operations, Idle
<1>4. PICK x \in Leases : x = running[c].lease BY <1>3
<1>5. CASE StillWanted(c) /\ Installs(c, running[c].lease) /\ Ends(c)
  <2>1. /\ mine' = [mine EXCEPT ![c] = x]
        /\ hasOwner' = [hasOwner EXCEPT ![c] = TRUE]
        /\ reusable' = [reusable EXCEPT ![c] = TRUE]
        /\ state' = [state EXCEPT ![c] = "open"]
        /\ state[c] \in {"opening", "open"}
    BY <1>4, <1>5 DEF Installs, Becomes, StillWanted
  <2>2. /\ running' \in [Clients -> Runs] /\ running'[c] = Idle
        /\ running'[c].pc = "idle" /\ running'[c].op = "none" /\ running'[c].lease = None
        /\ \A w \in Clients \ {c} : running'[w] = running[w]
    BY <1>1, <1>5, EndsGives
  <2>3. mine'[c] = x /\ hasOwner'[c] = TRUE /\ state'[c] = "open"
    BY <1>1, <2>1 DEF ClientTypeOK
  <2>4. Frame(c) BY <1>1, <1>2, <2>1, <2>2 DEF Frame, ClientTypeOK
  <2>5. ClientTypeOK' BY <1>1, <1>2, <2>1, <2>2 DEF ClientTypeOK
  <2>6. TypeOK' BY <1>1, <2>5, ClientTyped
  <2>7. ClientSound(c)'
    BY <1>1, <1>2, <2>1, <2>2, <2>3
       DEF ClientSound, EmptyHanded, AtSession, StepsOf, Taken, Claimable
  <2>8. SessionHeld(c)' BY <2>2 DEF SessionHeld, AtSession
  <2>9. c \in Managed => ManagedSound(c)'
    BY <1>2, <2>2, <2>3 DEF FacadeInv, ManagedSound
  <2>10. ~AtRest(c) BY <1>3 DEF AtRest
  <2>11. c = Direct => DirectSound' BY <2>2, <2>3 DEF DirectSound
  <2>12. ASSUME NEW l \in Leases PROVE Passes(c, l)
    <3>1. Carries(c) = x /\ Carries(c)' = None BY <1>2, <1>4, <2>2 DEF Carries, Taken
    <3> QED BY <1>2, <1>3, <2>3, <3>1, Shifts
  <2>13. Quiet(c)
    BY <1>2, <1>3, <1>4, <2>1, <2>2, <2>3, <2>4, <2>7 DEF Quiet, ClientSound
  <2> QED BY <2>4, <2>6, <2>7, <2>8, <2>9, <2>10, <2>11, <2>12, <2>13, ClientStep
<1>6. ASSUME NEW pc \in {"returning", "undoing"}, StepsTo(c, pc), UNCHANGED <<state, binding>>
      PROVE  FacadeInv' /\ Quiet(c)
  <2>1. UNCHANGED <<state, mine, hasOwner, reusable>> BY <1>6 DEF binding
  <2>2. /\ running' \in [Clients -> Runs] /\ running'[c].pc \in {"returning", "undoing"}
        /\ running'[c].op = running[c].op /\ running'[c].lease = running[c].lease
        /\ \A w \in Clients \ {c} : running'[w] = running[w]
    BY <1>1, <1>6, StepsToGives DEF Pcs
  <2>3. Frame(c) BY <1>2, <2>1, <2>2 DEF Frame
  <2>4. ClientTypeOK' BY <1>1, <1>2, <2>1, <2>2 DEF ClientTypeOK
  <2>5. TypeOK' BY <1>1, <2>4, ClientTyped
  <2>6. ClientSound(c)'
    BY <1>1, <1>2, <1>3, <2>1, <2>2, Kinds
       DEF ClientSound, EmptyHanded, AtSession, StepsOf, Taken, Claimable, Uses
  <2>7. SessionHeld(c)' BY <2>2 DEF SessionHeld, AtSession
  <2>8. c \in Managed => ManagedSound(c)'
    BY <1>2, <2>1, <2>2 DEF FacadeInv, ManagedSound
  <2>9. ~AtRest(c) BY <1>3 DEF AtRest
  <2>10. running'[c] # Idle BY <2>2 DEF Idle
  <2>11. c = Direct => DirectSound'
    BY <1>2, <2>1, <2>2, <2>10 DEF DirectSound, FacadeInv
  <2>12. Carries(c)' = Carries(c) BY <1>2, <2>2 DEF Carries, Taken
  <2>13. \A l \in Leases : Passes(c, l) BY <1>2, <2>1, <2>12, HoldsOn
  <2>14. Quiet(c) BY <1>2, <2>1, <2>2, <2>3 DEF Quiet
  <2> QED BY <2>3, <2>5, <2>6, <2>7, <2>8, <2>9, <2>11, <2>13, <2>14, ClientStep
<1> QED BY <1>5, <1>6 DEF Described

(***************************************************************************)
(* The clients taken together                                              *)
(***************************************************************************)
\* The steps that make a call on a session
MakesCall(c) == (\E outcome \in Outcomes : Invoked(c, outcome)) \/ ResetDone(c)

LEMMA ProceedsKeeps ==
  ASSUME FacadeInv, NEW c \in Clients, Whose(c), Proceeds(c), UNCHANGED poolVars
  PROVE  FacadeInv' /\ (Quiet(c) \/ MakesCall(c))
<1>1. CASE BeginOpen(c) BY <1>1, BeginOpenKeeps
<1>2. CASE BeginClose(c) BY <1>2, BeginCloseKeeps
<1>3. CASE BeginUse(c) BY <1>3, BeginUseKeeps
<1>4. CASE LookedUp(c) BY <1>4, LookedUpKeeps
<1>5. CASE MakesCall(c)
  BY <1>5, SessionSteps, SessionStepKeeps DEF MakesCall
<1>6. CASE Evicted(c) \/ Returned(c) BY <1>6, LetsGoSteps, LetsGoStepKeeps
<1>7. CASE Replacement(c)
  <2>1. CASE \E l \in Leases : Grants({l}) /\ Goes(c, running[c].op, "describing", l)
    <3>1. GrantStep(c) \/ Faults(c)
      BY <1>7, <2>1 DEF Replacement, AtStep, GrantStep
    <3>2. CASE GrantStep(c) BY <3>2, GrantStepKeeps
    <3>3. CASE ~GrantStep(c)
      BY <1>7, <2>1, <3>3, ReplacementFails DEF Replacement, AtStep, GrantStep
    <3> QED BY <3>2, <3>3
  <2>2. CASE Faults(c) /\ UNCHANGED <<lease, spoiled, touched>>
    BY <1>7, <2>2, ReplacementFails DEF Replacement, AtStep
  <2> QED BY <1>7, <2>1, <2>2 DEF Replacement
<1>8. CASE Described(c) BY <1>8, DescribedKeeps
<1>9. CASE Dropped(c) BY <1>9, DroppedKeeps
<1>10. CASE OpenAcquired(c)
  <2>1. running[c].pc = "acquiring" /\ UNCHANGED <<use, queue, asked, state, binding>>
    BY <1>10 DEF OpenAcquired, AtStep
  <2>2. running[c].op = "open"
    BY <2>1 DEF FacadeInv, TypeOK, ClientTypeOK, ClientSound, StepsOf, Runs, Operations
  <2>3. CASE \E l \in Leases : Grants({l}) /\ Goes(c, "open", "describing", l)
    BY <2>1, <2>2, <2>3, GrantStepKeeps DEF GrantStep
  <2>4. CASE AskToRetire /\ StepsTo(c, "retiring") /\ UNCHANGED <<lease, spoiled, touched>>
    BY <2>1, <2>2, <2>4, RetireStepKeeps DEF RetireStep
  <2> QED BY <1>10, <2>3, <2>4 DEF OpenAcquired
<1>11. CASE GivesUp(c)
  <2>1. /\ running[c].pc \in {"releasing", "returning", "undoing"}
        /\ running[c].pc # "releasing" => running[c].op = "open"
        /\ UNCHANGED <<use, queue, asked, state, binding>>
        /\ AskToRetire /\ StepsTo(c, "retiring") /\ Destroy(running[c].lease)
    BY <1>11 DEF GivesUp, AtStep
  <2>2. running[c].op \in {"open", "close"}
    BY <2>1 DEF FacadeInv, TypeOK, ClientTypeOK, ClientSound, StepsOf, Runs, Operations
  <2> QED BY <2>1, <2>2, RetireStepKeeps DEF RetireStep, Destroy, GiveBack
<1>12. CASE Closed(c) BY <1>12, ClosedKeeps
<1> QED BY <1>1, <1>2, <1>3, <1>4, <1>5, <1>6, <1>7, <1>8, <1>9, <1>10, <1>11, <1>12
        DEF Proceeds, MakesCall

LEMMA OwnerRetiresKeeps ==
  ASSUME FacadeInv, OwnerRetires, UNCHANGED poolVars
  PROVE  FacadeInv'
<1>1. /\ UNCHANGED <<use, lease, spoiled, touched, state, mine, hasOwner, claimed, reusable,
                     queue, running, asked, closed, leased, acquires, recycling, growth,
                     closing, closeClaims>>
      /\ owner' = "retired"
  BY DEF OwnerRetires, binding, poolVars
<1>2. TypeOK' BY <1>1 DEF FacadeInv, TypeOK, ClientTypeOK
<1>3. /\ \A c \in Clients : ClientSound(c)' /\ SessionHeld(c)'
      /\ \A c \in Managed : ManagedSound(c)'
  BY <1>1 DEF FacadeInv, ClientSound, SessionHeld, ManagedSound, AtSession, EmptyHanded,
              Claimable, HasClaim
<1>4. /\ \A a \in AcquireCalls : AcquireSound(a)'
      /\ ClaimsSound' /\ OneKind'
  BY <1>1 DEF FacadeInv, AcquireSound, ClaimsSound, OneKind, AtRest
<1>5. DirectSound' BY <1>1 DEF FacadeInv, DirectSound
<1>6. ASSUME NEW l \in Leases PROVE HeldOnce(l)'
  <2>1. Holders(l)' = Holders(l) BY <1>1 DEF Holders
  <2>2. HeldOnce(l) BY DEF FacadeInv
  <2> QED BY <1>1, <2>1, <2>2 DEF HeldOnce
<1> QED BY <1>2, <1>3, <1>4, <1>5, <1>6 DEF FacadeInv

LEMMA ClientStepsKeep ==
  ASSUME FacadeInv, ClientSteps
  PROVE  FacadeInv'
<1>1. UNCHANGED poolVars BY DEF ClientSteps
<1>2. \A w \in use.calls : w \subseteq Managed
  BY PoolAssumption DEF FacadeInv, TypeOK, ClientTypeOK
<1>3. ASSUME NEW c \in IF use.pooled THEN UNION use.calls ELSE {Direct},
             (\E op \in Operations : Ask(c, op)) \/ Proceeds(c)
      PROVE  FacadeInv'
  <2>1. c \in Clients /\ Whose(c) BY <1>2, <1>3 DEF Clients, Whose
  <2> QED BY <1>1, <1>3, <2>1, AskKeeps, ProceedsKeeps
<1> QED BY <1>1, <1>3, OwnerRetiresKeeps DEF ClientSteps

(***************************************************************************)
(* Steps of the pool                                                       *)
(***************************************************************************)
\* What becomes of a lease when the holders in P are exchanged for those in P1
LEMMA PartPasses ==
  ASSUME NEW l \in Leases, NEW O, NEW P, NEW P1, HeldOnce(l),
         Holders(l) = O \cup P, Holders(l)' = O \cup P1, O \cap P = {},
         \/ P1 = P /\ (lease'[l] = "held" <=> lease[l] = "held")
         \/ P # {} /\ (\E h : P1 = {h}) /\ (lease'[l] = "held" <=> lease[l] = "held")
         \/ P # {} /\ P1 = {} /\ lease'[l] # "held"
         \/ lease[l] # "held" /\ (\E h : P1 = {h}) /\ lease'[l] = "held"
  PROVE  HeldOnce(l)'
<1>1. CASE P1 = P /\ (lease'[l] = "held" <=> lease[l] = "held")
  BY <1>1 DEF HeldOnce
<1>2. CASE P # {} /\ (\E h : P1 = {h}) /\ (lease'[l] = "held" <=> lease[l] = "held")
  <2>1. O = {} BY <1>2 DEF HeldOnce
  <2>2. lease[l] = "held" BY <1>2 DEF HeldOnce
  <2> QED BY <1>2, <2>1, <2>2 DEF HeldOnce
<1>3. CASE P # {} /\ P1 = {} /\ lease'[l] # "held"
  <2>1. O = {} BY <1>3 DEF HeldOnce
  <2> QED BY <1>3, <2>1 DEF HeldOnce
<1>4. CASE lease[l] # "held" /\ (\E h : P1 = {h}) /\ lease'[l] = "held"
  <2>1. O = {} BY <1>4 DEF HeldOnce
  <2> QED BY <1>4, <2>1 DEF HeldOnce
<1> QED BY <1>1, <1>2, <1>3, <1>4

LEMMA PoolStep ==
  ASSUME FacadeInv, use.pooled, UNCHANGED <<use, queue, running, asked>>,
         TypeOK', ClaimsSound',
         \A c \in Managed : ClientSound(c)' /\ SessionHeld(c)',
         \A c \in Managed : state'[c] \in {"closed", "faulted", "open"},
         /\ mine'[Direct] = mine[Direct] /\ state'[Direct] = state[Direct]
         /\ claimed'[Direct] = claimed[Direct] /\ hasOwner'[Direct] = hasOwner[Direct],
         \A a \in AcquireCalls : AcquireSound(a)',
         \A l \in Leases : HeldOnce(l)'
  PROVE  FacadeInv'
<1>1. OneKind' BY DEF FacadeInv, OneKind, AtRest
<1>2. DirectSound' BY DEF DirectSound
<1>3. ClientSound(Direct)' /\ SessionHeld(Direct)'
  <2>1. AtRest(Direct) /\ ClientSound(Direct) BY Kinds DEF FacadeInv, OneKind
  <2>2. Direct \notin leased' BY Kinds DEF TypeOK
  <2> QED BY <2>1, <2>2 DEF AtRest, ClientSound, SessionHeld, AtSession, EmptyHanded, Idle
<1>4. \A c \in Managed : ManagedSound(c)' BY DEF FacadeInv, ManagedSound
<1>5. \A c \in Clients : ClientSound(c)' /\ SessionHeld(c)' BY <1>3 DEF Clients
<1> QED BY <1>1, <1>2, <1>4, <1>5 DEF FacadeInv

\* Steps that leave the clients as they are
LEMMA QuietStep ==
  ASSUME FacadeInv, use.pooled, KeepsClients, KeepsBinding, leased' = leased,
         TypeOK', ClaimsSound',
         \A c \in Managed : SessionHeld(c)',
         \A a \in AcquireCalls : AcquireSound(a)',
         \A l \in Leases : HeldOnce(l)'
  PROVE  FacadeInv'
<1>1. UNCHANGED <<use, queue, running, asked, state, mine, hasOwner, claimed, reusable>>
  BY DEF KeepsClients, KeepsBinding, binding
<1>2. \A c \in Managed : ClientSound(c)' /\ state'[c] \in {"closed", "faulted", "open"}
  BY <1>1, Kinds DEF FacadeInv, ClientSound, EmptyHanded, AtSession, Claimable, ManagedSound
<1> QED BY <1>1, <1>2, PoolStep

\* Whoever runs a pool has one.
LEMMA Pooled ==
  ASSUME FacadeInv
  PROVE  /\ \A a \in use.calls : use.pooled /\ a \in AcquireCalls
         /\ \A a \in AcquireCalls : acquires[a].pc # "off" => a \in use.calls /\ use.pooled
         /\ leased # {} \/ recycling # <<>> \/ closing # "off" \/ growth # NotGrowing =>
              use.pooled
<1>1. use \in Workloads BY DEF FacadeInv, TypeOK, ClientTypeOK
<1>2. use.calls \subseteq AcquireCalls /\ (~use.pooled => use.calls = {})
  BY <1>1, PoolAssumption
<1>3. \A a \in AcquireCalls : acquires[a].pc # "off" => a \in use.calls
  BY DEF FacadeInv, AcquireSound, NotAcquiring
<1>4. leased # {} \/ recycling # <<>> \/ closing # "off" \/ growth # NotGrowing => use.pooled
  BY DEF FacadeInv, OneKind
<1> QED BY <1>2, <1>3, <1>4

(***************************************************************************)
(* acquire()                                                               *)
(***************************************************************************)
CallStates == [leases : SUBSET Leases, infos : 0..MaxConnections,
               pc : {"off", "acquiring", "describing", "undoing", "done"}]

LEMMA CallFacts ==
  ASSUME TypeOK, NEW a \in AcquireCalls
  PROVE  /\ acquires \in [AcquireCalls -> CallStates] /\ acquires[a] \in CallStates
         /\ IsFiniteSet(a) /\ Cardinality(a) \in Nat \ {0}
         /\ a \subseteq Managed /\ a \subseteq Clients /\ Direct \notin a
         /\ NotAcquiring \in CallStates /\ MaxConnections \in Nat \ {0}
<1>1. a \subseteq Managed /\ a # {} /\ IsFiniteSet(Managed) /\ MaxConnections \in Nat \ {0}
  BY PoolAssumption, ClientAssumption
<1>2. IsFiniteSet(a) BY <1>1, FS_Subset
<1>3. Cardinality(a) \in Nat /\ Cardinality(a) # 0
  BY <1>1, <1>2, FS_CardinalityType, FS_EmptySet
<1>4. a \subseteq Clients /\ Direct \notin a BY <1>1, Kinds
<1>5. acquires \in [AcquireCalls -> CallStates] BY DEF TypeOK, CallStates
<1>6. acquires[a] \in CallStates BY <1>5
<1>7. NotAcquiring \in CallStates BY <1>1 DEF NotAcquiring, CallStates
<1> QED BY <1>1, <1>2, <1>3, <1>4, <1>5, <1>6, <1>7

\* The call a holds the leases L from now on and has come to pc.
LEMMA CallStep ==
  ASSUME TypeOK, NEW a \in AcquireCalls, NEW e \in CallStates,
         acquires' = [acquires EXCEPT ![a] = e]
  PROVE  /\ acquires' \in [AcquireCalls -> CallStates] /\ acquires'[a] = e
         /\ \A b \in AcquireCalls \ {a} : acquires'[b] = acquires[b]
BY DEF TypeOK, CallStates

LEMMA CallGoesGives ==
  ASSUME TypeOK, NEW a \in AcquireCalls,
         NEW pc \in {"off", "acquiring", "describing", "undoing", "done"}, CallGoes(a, pc)
  PROVE  \E e \in CallStates :
           /\ e.pc = pc /\ e.leases = acquires[a].leases /\ e.infos = acquires[a].infos
           /\ acquires' = [acquires EXCEPT ![a] = e]
<1>1. PICK e : e = [acquires[a] EXCEPT !.pc = pc] OBVIOUS
<1>2. acquires[a] \in CallStates BY CallFacts
<1>3. /\ e \in CallStates /\ e.pc = pc /\ e.leases = acquires[a].leases
      /\ e.infos = acquires[a].infos
  BY <1>1, <1>2 DEF CallStates
<1>4. acquires' = [acquires EXCEPT ![a] = e] BY <1>1 DEF CallGoes
<1> QED BY <1>3, <1>4

AcquirePart(a, l) == {h \in {<<"acquire", a>>} : l \in acquires[a].leases}

LEMMA AcquireMoves ==
  ASSUME FacadeInv, NEW a \in AcquireCalls, NEW l \in Leases,
         UNCHANGED <<mine, running, recycling, closeClaims>>, growth'.leases = growth.leases,
         \A b \in AcquireCalls \ {a} : acquires'[b] = acquires[b],
         LET P == AcquirePart(a, l)
             P1 == AcquirePart(a, l)'
         IN \/ P1 = P /\ (lease'[l] = "held" <=> lease[l] = "held")
            \/ P # {} /\ P1 = {} /\ lease'[l] # "held"
            \/ lease[l] # "held" /\ (\E h : P1 = {h}) /\ lease'[l] = "held"
  PROVE  HeldOnce(l)'
<1> DEFINE O == Holders(l) \ {<<"acquire", a>>}
           P == AcquirePart(a, l)
           P1 == AcquirePart(a, l)'
<1>1. Holders(l) = O \cup P BY DEF Holders, AcquirePart
<1>2. O \cap P = {} BY DEF AcquirePart
<1>3. Holders(l)' = O \cup P1
  <2>1. {x \in AcquireCalls : l \in acquires'[x].leases} \ {a}
           = {x \in AcquireCalls : l \in acquires[x].leases} \ {a}
    OBVIOUS
  <2> QED BY <2>1 DEF Holders, AcquirePart
<1>4. HeldOnce(l) BY DEF FacadeInv
<1> HIDE DEF O, P, P1
<1> QED BY <1>1, <1>2, <1>3, <1>4, PartPasses DEF P, P1

\* The other calls of acquire() do not notice, as long as their clients rest.
LEMMA OtherCalls ==
  ASSUME FacadeInv, NEW a \in AcquireCalls, use' = use,
         \A b \in AcquireCalls \ {a} : acquires'[b] = acquires[b],
         \A b \in AcquireCalls \ {a} : b \in use.calls /\ acquires[b].pc # "done" =>
           \A c \in b : AtRest(c) => AtRest(c)'
  PROVE  \A b \in AcquireCalls \ {a} : AcquireSound(b)'
BY DEF FacadeInv, AcquireSound

\* What all steps of acquire() share that leave the clients as they are
LEMMA AcquireQuiet ==
  ASSUME FacadeInv, NEW a \in AcquireCalls, a \in use.calls, NEW e \in CallStates,
         acquires' = [acquires EXCEPT ![a] = e],
         KeepsClients, KeepsBinding, KeepsRest, UNCHANGED <<leased, growth>>,
         owner' \in {"none", "active", "retiring", "retired"},
         lease' \in [Leases -> {"none", "held", "reused", "destroyed"}],
         spoiled' \subseteq Leases, touched' \subseteq Leases,
         acquires'[a] = e => AcquireSound(a)',
         \A l \in Leases : HeldOnce(l)'
  PROVE  FacadeInv'
<1>1. TypeOK /\ ClientTypeOK /\ ClaimsSound BY DEF FacadeInv, TypeOK
<1>2. /\ acquires' \in [AcquireCalls -> CallStates] /\ acquires'[a] = e
      /\ \A b \in AcquireCalls \ {a} : acquires'[b] = acquires[b]
  BY <1>1, CallStep
<1>3. UNCHANGED <<use, queue, running, asked, state, mine, hasOwner, claimed, reusable,
                  closed, recycling, closing, closeClaims, leased, growth>>
  BY DEF KeepsClients, KeepsBinding, KeepsRest, binding
<1>4. use.pooled BY Pooled
<1>5. TypeOK'
  BY <1>1, <1>2, <1>3 DEF TypeOK, ClientTypeOK, CallStates
<1>6. ClaimsSound' BY <1>1, <1>3 DEF ClaimsSound
<1>7. \A c \in Managed : SessionHeld(c)'
  BY <1>3, Kinds DEF FacadeInv, SessionHeld, AtSession, HasClaim
<1>8. \A b \in AcquireCalls : AcquireSound(b)'
  <2>1. \A c : AtRest(c) => AtRest(c)' BY <1>3 DEF AtRest
  <2>2. \A b \in AcquireCalls \ {a} : AcquireSound(b)' BY <1>2, <1>3, <2>1, OtherCalls
  <2> QED BY <1>2, <2>2
<1> QED BY <1>3, <1>4, <1>5, <1>6, <1>7, <1>8, QuietStep

LEMMA AcquireKeeps ==
  ASSUME FacadeInv, NEW a \in AcquireCalls, Acquire(a)
  PROVE  FacadeInv'
<1>1. TypeOK /\ ClientTypeOK /\ AcquireSound(a) BY DEF FacadeInv, TypeOK
<1>2. /\ a \in use.calls /\ acquires[a].pc = "off"
      /\ UNCHANGED <<lease, spoiled, touched, leased, growth>>
      /\ KeepsClients /\ KeepsBinding /\ KeepsRest
      /\ owner' \in {"none", "active", "retiring", "retired"}
  BY <1>1 DEF Acquire, EnsureOwner, ClientTypeOK
<1>3. PICK pc \in {"acquiring", "done"} : CallGoes(a, pc) BY DEF Acquire
<1>4. PICK e \in CallStates :
        /\ e.pc = pc /\ e.leases = acquires[a].leases /\ e.infos = acquires[a].infos
        /\ acquires' = [acquires EXCEPT ![a] = e]
  BY <1>1, <1>3, CallGoesGives
<1>5. ASSUME acquires'[a] = e PROVE AcquireSound(a)'
  <2>1. \A c \in a : AtRest(c)' = AtRest(c)
    BY <1>2 DEF AtRest, KeepsClients, KeepsBinding, binding
  <2> QED BY <1>1, <1>2, <1>3, <1>4, <1>5, <2>1 DEF AcquireSound, KeepsClients
<1>6. ASSUME NEW l \in Leases PROVE HeldOnce(l)'
  <2>1. acquires'[a] = e /\ \A b \in AcquireCalls \ {a} : acquires'[b] = acquires[b]
    BY <1>1, <1>4, CallStep
  <2>2. AcquirePart(a, l)' = AcquirePart(a, l) BY <1>4, <2>1 DEF AcquirePart
  <2> QED BY <1>2, <2>1, <2>2, AcquireMoves
          DEF KeepsClients, KeepsBinding, KeepsRest, binding
<1> QED BY <1>1, <1>2, <1>4, <1>5, <1>6, AcquireQuiet DEF ClientTypeOK

LEMMA AcquireGrantedKeeps ==
  ASSUME FacadeInv, NEW a \in AcquireCalls, AcquireGranted(a)
  PROVE  FacadeInv'
<1>1. TypeOK /\ ClientTypeOK /\ AcquireSound(a) BY DEF FacadeInv, TypeOK
<1>2. /\ acquires[a].pc = "acquiring" /\ UNCHANGED <<leased, growth>>
      /\ KeepsClients /\ KeepsBinding /\ KeepsRest
  BY DEF AcquireGranted
<1>3. a \in use.calls /\ use.pooled BY <1>2, Pooled
<1>4. acquires[a].leases = {} /\ acquires[a].infos = 0 BY <1>1, <1>2 DEF AcquireSound
<1>5. \A c \in a : AtRest(c)' = AtRest(c)
  BY <1>2 DEF AtRest, KeepsClients, KeepsBinding, binding
<1>6. CASE CallGoes(a, "done") /\ UNCHANGED ownerVars
  <2>1. PICK e \in CallStates :
          /\ e.pc = "done" /\ e.leases = acquires[a].leases /\ e.infos = acquires[a].infos
          /\ acquires' = [acquires EXCEPT ![a] = e]
    BY <1>1, <1>6, CallGoesGives
  <2>2. UNCHANGED <<owner, lease, spoiled, touched>> BY <1>6 DEF ownerVars
  <2>3. ASSUME acquires'[a] = e PROVE AcquireSound(a)'
    BY <1>1, <1>2, <1>4, <2>1, <2>3, <1>3 DEF AcquireSound, KeepsClients
  <2>4. ASSUME NEW l \in Leases PROVE HeldOnce(l)'
    <3>1. acquires'[a] = e /\ \A b \in AcquireCalls \ {a} : acquires'[b] = acquires[b]
      BY <1>1, <2>1, CallStep
    <3>2. AcquirePart(a, l)' = AcquirePart(a, l) BY <2>1, <3>1 DEF AcquirePart
    <3> QED BY <1>2, <2>2, <3>1, <3>2, AcquireMoves
            DEF KeepsClients, KeepsBinding, KeepsRest, binding
  <2> QED BY <1>1, <1>2, <1>3, <2>1, <2>2, <2>3, <2>4, AcquireQuiet DEF ClientTypeOK
<1>7. ASSUME NEW S \in SUBSET Leases, Cardinality(S) = Cardinality(a), Grants(S),
             acquires' = [acquires EXCEPT ![a].pc = "describing", ![a].leases = S]
      PROVE  FacadeInv'
  <2>1. PICK e0 : e0 = [acquires[a] EXCEPT !.pc = "describing"] OBVIOUS
  <2>2. PICK e : e = [e0 EXCEPT !.leases = S] OBVIOUS
  <2>3. acquires[a] \in CallStates /\ a \subseteq Managed /\ Cardinality(a) \in Nat \ {0}
        /\ MaxConnections \in Nat \ {0}
    BY <1>1, CallFacts
  <2>4. /\ e \in CallStates /\ e.pc = "describing" /\ e.leases = S /\ e.infos = 0
    BY <1>4, <2>1, <2>2, <2>3 DEF CallStates
  <2>5. acquires' = [acquires EXCEPT ![a] = e]
    BY <1>1, <1>7, <2>1, <2>2, <2>3, CallFacts
  <2>6. /\ lease' \in [Leases -> {"none", "held", "reused", "destroyed"}]
        /\ UNCHANGED <<owner, spoiled, touched>>
    BY <1>1, <1>7, GrantsGive
  <2>7. Cardinality(a) <= MaxConnections
    <3>1. IsFiniteSet(Held) BY Kinds, FS_Subset DEF Held
    <3>2. Cardinality(Held) \in Nat BY <3>1, FS_CardinalityType
    <3>3. Cardinality(Held) + Cardinality(a) <= MaxConnections
      BY <1>3, <1>7 DEF Grants, Capacity
    <3> QED BY <2>3, <3>2, <3>3
  <2>8. ASSUME acquires'[a] = e PROVE AcquireSound(a)'
    BY <1>1, <1>2, <1>3, <1>5, <1>7, <2>3, <2>4, <2>7, <2>8 DEF AcquireSound, KeepsClients
  <2>9. ASSUME NEW l \in Leases PROVE HeldOnce(l)'
    <3>1. acquires'[a] = e /\ \A b \in AcquireCalls \ {a} : acquires'[b] = acquires[b]
      BY <1>1, <2>4, <2>5, CallStep
    <3>2. AcquirePart(a, l) = {} BY <1>4 DEF AcquirePart
    <3>3. AcquirePart(a, l)' = {h \in {<<"acquire", a>>} : l \in S}
      BY <2>4, <3>1 DEF AcquirePart
    <3>4. CASE l \in S
      <4>1. lease[l] = "none" /\ lease'[l] = "held" BY <1>7, <3>4 DEF Grants
      <4>2. AcquirePart(a, l)' = {<<"acquire", a>>} BY <3>3, <3>4
      <4> QED BY <1>2, <3>1, <4>1, <4>2, AcquireMoves
              DEF KeepsClients, KeepsBinding, KeepsRest, binding
    <3>5. CASE l \notin S
      <4>1. lease'[l] = lease[l] BY <1>7, <3>5 DEF Grants
      <4>2. AcquirePart(a, l)' = {} BY <3>3, <3>5
      <4> QED BY <1>2, <3>1, <3>2, <4>1, <4>2, AcquireMoves
              DEF KeepsClients, KeepsBinding, KeepsRest, binding
    <3> QED BY <3>4, <3>5
  <2> QED BY <1>1, <1>2, <1>3, <2>4, <2>5, <2>6, <2>8, <2>9, AcquireQuiet DEF ClientTypeOK
<1> QED BY <1>6, <1>7 DEF AcquireGranted

LEMMA AcquireUndoesKeeps ==
  ASSUME FacadeInv, NEW a \in AcquireCalls, AcquireUndoes(a)
  PROVE  FacadeInv'
<1>1. TypeOK /\ ClientTypeOK /\ AcquireSound(a) BY DEF FacadeInv, TypeOK
<1>2. /\ acquires[a].pc = "undoing" /\ UNCHANGED <<owner, leased, growth>>
      /\ KeepsClients /\ KeepsBinding /\ KeepsRest
  BY DEF AcquireUndoes
<1>3. a \in use.calls /\ use.pooled BY <1>2, Pooled
<1>4. \A c \in a : AtRest(c)' = AtRest(c)
  BY <1>2 DEF AtRest, KeepsClients, KeepsBinding, binding
<1>5. \A c \in a : AtRest(c) BY <1>1, <1>2, <1>3 DEF AcquireSound
<1>6. acquires[a] \in CallStates BY <1>1, CallFacts
<1>7. ASSUME NEW x \in acquires[a].leases,
             acquires' = [acquires EXCEPT ![a].leases = @ \ {x}], Destroy(x)
      PROVE  FacadeInv'
  <2>1. PICK e : e = [acquires[a] EXCEPT !.leases = @ \ {x}] OBVIOUS
  <2>2. /\ e \in CallStates /\ e.pc = "undoing" /\ e.infos = acquires[a].infos
        /\ e.leases = acquires[a].leases \ {x} /\ x \in Leases
    BY <1>2, <1>6, <2>1 DEF CallStates
  <2>3. acquires' = [acquires EXCEPT ![a] = e] BY <1>7, <2>1
  <2>4. /\ lease' = [lease EXCEPT ![x] = "destroyed"] /\ UNCHANGED <<spoiled, touched>>
        /\ lease' \in [Leases -> {"none", "held", "reused", "destroyed"}]
    BY <1>1, <1>7 DEF Destroy, GiveBack, ClientTypeOK
  <2>5. ASSUME acquires'[a] = e PROVE AcquireSound(a)'
    BY <1>1, <1>2, <1>3, <1>4, <1>5, <2>2, <2>5 DEF AcquireSound, KeepsClients
  <2>6. ASSUME NEW l \in Leases PROVE HeldOnce(l)'
    <3>1. acquires'[a] = e /\ \A b \in AcquireCalls \ {a} : acquires'[b] = acquires[b]
      BY <1>1, <2>2, <2>3, CallStep
    <3>2. CASE l = x
      <4>1. AcquirePart(a, l) # {} /\ AcquirePart(a, l)' = {}
        BY <1>7, <2>2, <3>1, <3>2 DEF AcquirePart
      <4>2. lease'[l] # "held" BY <1>1, <2>4, <3>2 DEF ClientTypeOK
      <4> QED BY <1>2, <3>1, <4>1, <4>2, AcquireMoves
              DEF KeepsClients, KeepsBinding, KeepsRest, binding
    <3>3. CASE l # x
      <4>1. AcquirePart(a, l)' = AcquirePart(a, l) BY <2>2, <3>1, <3>3 DEF AcquirePart
      <4>2. lease'[l] = lease[l] BY <1>1, <2>4, <3>3 DEF ClientTypeOK
      <4> QED BY <1>2, <3>1, <4>1, <4>2, AcquireMoves
              DEF KeepsClients, KeepsBinding, KeepsRest, binding
    <3> QED BY <3>2, <3>3
  <2>7. /\ owner' \in {"none", "active", "retiring", "retired"}
        /\ spoiled' \subseteq Leases /\ touched' \subseteq Leases
    BY <1>1, <1>2, <2>4 DEF ClientTypeOK
  <2> QED BY <1>2, <1>3, <2>2, <2>3, <2>4, <2>5, <2>6, <2>7, AcquireQuiet
<1>8. ASSUME acquires[a].leases = {}, UNCHANGED <<lease, spoiled, touched>>,
             acquires' = [acquires EXCEPT ![a] = [NotAcquiring EXCEPT !.pc = "done"]]
      PROVE  FacadeInv'
  <2>1. PICK e : e = [NotAcquiring EXCEPT !.pc = "done"] OBVIOUS
  <2>2. NotAcquiring \in CallStates BY <1>1, CallFacts
  <2>3. e \in CallStates /\ e.pc = "done" /\ e.infos = 0 /\ e.leases = {}
    BY <2>1, <2>2 DEF CallStates, NotAcquiring
  <2>4. acquires' = [acquires EXCEPT ![a] = e] BY <1>8, <2>1
  <2>5. ASSUME acquires'[a] = e PROVE AcquireSound(a)'
    BY <1>2, <1>3, <2>3, <2>5 DEF AcquireSound, KeepsClients
  <2>6. ASSUME NEW l \in Leases PROVE HeldOnce(l)'
    <3>1. acquires'[a] = e /\ \A b \in AcquireCalls \ {a} : acquires'[b] = acquires[b]
      BY <1>1, <2>3, <2>4, CallStep
    <3>2. AcquirePart(a, l)' = AcquirePart(a, l) BY <1>8, <2>3, <3>1 DEF AcquirePart
    <3> QED BY <1>2, <1>8, <3>1, <3>2, AcquireMoves
            DEF KeepsClients, KeepsBinding, KeepsRest, binding
  <2>7. /\ owner' \in {"none", "active", "retiring", "retired"}
        /\ lease' \in [Leases -> {"none", "held", "reused", "destroyed"}]
        /\ spoiled' \subseteq Leases /\ touched' \subseteq Leases
    BY <1>1, <1>2, <1>8 DEF ClientTypeOK
  <2> QED BY <1>2, <1>3, <2>3, <2>4, <2>5, <2>6, <2>7, AcquireQuiet
<1> QED BY <1>7, <1>8 DEF AcquireUndoes

(***************************************************************************)
(* acquire() publishes its clients                                         *)
(***************************************************************************)
\* More work for #readyTail holds no lease.
LEMMA MaintainsGives ==
  ASSUME TypeOK, growth' = Maintains \/ growth' = growth
  PROVE  /\ growth' \in [asked : Nat, jobs : Nat, leases : SUBSET Leases,
                         again : BOOLEAN, pc : {"idle", "acquiring", "returning"}]
         /\ growth'.leases = growth.leases /\ growth'.pc = growth.pc
<1> DEFINE Growths == [asked : Nat, jobs : Nat, leases : SUBSET Leases, again : BOOLEAN,
                       pc : {"idle", "acquiring", "returning"}]
<1>1. growth \in Growths BY DEF TypeOK
<1>2. growth' = growth \/ growth' = [growth EXCEPT !.jobs = @ + 1] BY DEF Maintains
<1>3. CASE growth' = [growth EXCEPT !.jobs = @ + 1]
  <2>1. PICK n : n = growth.jobs + 1 OBVIOUS
  <2>2. growth.jobs \in Nat /\ n \in Nat BY <1>1, <2>1
  <2>3. growth' = [growth EXCEPT !.jobs = n] BY <1>3, <2>1
  <2> QED BY <1>1, <2>2, <2>3
<1> QED BY <1>1, <1>2, <1>3

Publishes(a, give) ==
  /\ acquires[a].pc = "describing" /\ ~closed
  /\ acquires[a].infos + 1 = Cardinality(a)
  /\ {give[c] : c \in a} = acquires[a].leases
  /\ mine' = [c \in Clients |-> IF c \in a THEN give[c] ELSE mine[c]]
  /\ hasOwner' = [c \in Clients |-> hasOwner[c] \/ c \in a]
  /\ state' = [c \in Clients |-> IF c \in a THEN "open" ELSE state[c]]
  /\ acquires' = [acquires EXCEPT ![a] = [NotAcquiring EXCEPT !.pc = "done"]]
  /\ leased' = leased \cup a /\ growth' = Maintains
  /\ UNCHANGED <<claimed, reusable>> /\ KeepsClients /\ KeepsRest /\ UNCHANGED ownerVars

\* As many leases as clients: no two clients are given the same.
LEMMA GivesEachItsOwn ==
  ASSUME FacadeInv, NEW a \in AcquireCalls, NEW give \in [a -> acquires[a].leases],
         acquires[a].pc = "describing", {give[c] : c \in a} = acquires[a].leases
  PROVE  \A c, d \in a : give[c] = give[d] => c = d
<1>1. TypeOK /\ AcquireSound(a) BY DEF FacadeInv
<1>2. IsFiniteSet(a) /\ acquires[a] \in CallStates BY <1>1, CallFacts
<1>3. IsFiniteSet(acquires[a].leases) BY <1>2, Kinds, FS_Subset DEF CallStates
<1>4. Cardinality(a) = Cardinality(acquires[a].leases) BY <1>1 DEF AcquireSound
<1>5. give \in Surjection(a, acquires[a].leases) BY DEF Surjection
<1>6. give \in Injection(a, acquires[a].leases)
  BY <1>2, <1>3, <1>4, <1>5, FS_SurjSameCardinalityImpliesInj
<1> QED BY <1>6 DEF Injection, IsInjective

LEMMA PublishKeeps ==
  ASSUME FacadeInv, NEW a \in AcquireCalls, NEW give \in [a -> acquires[a].leases],
         Publishes(a, give)
  PROVE  FacadeInv'
<1>1. TypeOK /\ ClientTypeOK /\ AcquireSound(a) /\ ClaimsSound BY DEF FacadeInv, TypeOK
<1>2. /\ acquires[a].pc = "describing"
      /\ {give[c] : c \in a} = acquires[a].leases
      /\ UNCHANGED <<use, queue, running, asked, claimed, reusable, owner, lease, spoiled,
                     touched, closed, recycling, closing, closeClaims>>
      /\ leased' = leased \cup a
  BY DEF Publishes, KeepsClients, KeepsRest, ownerVars
<1>3. a \in use.calls /\ use.pooled BY <1>2, Pooled
<1>4. /\ acquires[a] \in CallStates /\ a \subseteq Managed /\ a \subseteq Clients
      /\ Direct \notin a /\ NotAcquiring \in CallStates
  BY <1>1, CallFacts
<1>5. \A c \in a : AtRest(c) BY <1>1, <1>2, <1>3 DEF AcquireSound
<1>6. \A c, d \in a : give[c] = give[d] => c = d BY <1>2, GivesEachItsOwn
<1>7. \A c \in a : give[c] \in Leases /\ give[c] \in acquires[a].leases
  BY <1>4 DEF CallStates
<1>8. /\ mine' \in [Clients -> Leases \cup {None}] /\ hasOwner' \in [Clients -> BOOLEAN]
      /\ state' \in [Clients -> {"closed", "opening", "open", "closing", "faulted"}]
      /\ \A c \in a : mine'[c] = give[c] /\ hasOwner'[c] = TRUE /\ state'[c] = "open"
      /\ \A c \in Clients \ a : /\ mine'[c] = mine[c] /\ hasOwner'[c] = hasOwner[c]
                                /\ state'[c] = state[c]
  BY <1>1, <1>4, <1>7 DEF Publishes, ClientTypeOK
<1>9. PICK e : e = [NotAcquiring EXCEPT !.pc = "done"] OBVIOUS
<1>10. e \in CallStates /\ e.pc = "done" /\ e.infos = 0 /\ e.leases = {}
  BY <1>4, <1>9 DEF CallStates, NotAcquiring
<1>11. acquires' = [acquires EXCEPT ![a] = e] BY <1>9 DEF Publishes
<1>12. /\ acquires' \in [AcquireCalls -> CallStates] /\ acquires'[a] = e
       /\ \A b \in AcquireCalls \ {a} : acquires'[b] = acquires[b]
  BY <1>1, <1>10, <1>11, CallStep
<1>13. /\ growth' \in [asked : Nat, jobs : Nat, leases : SUBSET Leases,
                       again : BOOLEAN, pc : {"idle", "acquiring", "returning"}]
       /\ growth'.leases = growth.leases /\ growth'.pc = growth.pc
  BY <1>1, MaintainsGives DEF Publishes
<1>14. TypeOK'
  <2>1. ClientTypeOK' BY <1>1, <1>2, <1>8 DEF ClientTypeOK
  <2>2. leased' \subseteq Managed BY <1>1, <1>2, <1>4 DEF TypeOK
  <2> QED BY <1>1, <1>2, <1>12, <1>13, <2>1, <2>2 DEF TypeOK, CallStates
<1>15. ClaimsSound' BY <1>1, <1>2, <1>13 DEF ClaimsSound
<1>16. ASSUME NEW c \in Managed
       PROVE  /\ ClientSound(c)' /\ SessionHeld(c)'
              /\ state'[c] \in {"closed", "faulted", "open"}
  <2>1. c \in Clients /\ ClientSound(c) /\ SessionHeld(c) /\ ManagedSound(c)
    BY Kinds DEF FacadeInv
  <2>2. CASE c \in a
    <3>1. running[c] = Idle /\ ~claimed[c] BY <1>5, <2>2 DEF AtRest
    <3>2. running[c].pc = "idle" /\ running[c].op = "none" BY <3>1 DEF Idle
    <3> QED BY <1>2, <1>8, <2>2, <3>1, <3>2
            DEF ClientSound, SessionHeld, AtSession, EmptyHanded, StepsOf, Taken, Claimable
  <2>3. CASE c \notin a
    <3>1. c \in leased' <=> c \in leased BY <1>2, <2>3
    <3> QED BY <1>2, <1>8, <2>1, <2>3, <3>1
            DEF ClientSound, SessionHeld, AtSession, EmptyHanded, Claimable, HasClaim,
                ManagedSound
  <2> QED BY <2>2, <2>3
<1>17. ASSUME NEW b \in AcquireCalls PROVE AcquireSound(b)'
  <2>1. CASE b = a
    BY <1>2, <1>3, <1>10, <1>12, <2>1 DEF AcquireSound
  <2>2. CASE b # a
    <3>1. ASSUME NEW d \in AcquireCalls \ {a}, d \in use.calls, NEW c \in d, AtRest(c)
          PROVE  AtRest(c)'
      <4>1. c \notin a
        BY <1>1, <1>3, <3>1, PoolAssumption DEF ClientTypeOK
      <4>2. c \in Clients BY <1>1, CallFacts
      <4> QED BY <1>2, <1>8, <3>1, <4>1, <4>2 DEF AtRest
    <3>2. \A d \in AcquireCalls \ {a} : AcquireSound(d)'
      BY <1>2, <1>12, <3>1, OtherCalls
    <3> QED BY <2>2, <3>2
  <2> QED BY <2>1, <2>2
<1>18. ASSUME NEW l \in Leases PROVE HeldOnce(l)'
  <2> DEFINE Mine == {<<"client", c>> : c \in {x \in a : mine[x] = l}}
             Mine1 == {<<"client", c>> : c \in {x \in a : mine'[x] = l}}
             Calls == AcquirePart(a, l)
             O == Holders(l) \ ({<<"client", c>> : c \in a} \cup {<<"acquire", a>>})
  <2>1. Mine = {} BY <1>5, Kinds DEF AtRest
  <2>2. Holders(l) = O \cup Calls
    BY <1>4, <1>5, Kinds DEF Holders, AcquirePart, AtRest
  <2>3. O \cap Calls = {} BY DEF AcquirePart
  <2>4. Holders(l)' = O \cup Mine1
    <3>1. {x \in AcquireCalls : l \in acquires'[x].leases}
            = {x \in AcquireCalls : l \in acquires[x].leases} \ {a}
      BY <1>10, <1>12
    <3>2. {x \in Clients : mine'[x] = l}
            = ({x \in Clients : mine[x] = l} \ a) \cup {x \in a : mine'[x] = l}
      BY <1>4, <1>8
    <3> QED BY <1>2, <1>13, <3>1, <3>2 DEF Holders
  <2>5. HeldOnce(l) BY DEF FacadeInv
  <2> HIDE DEF O, Mine, Calls
  <2>6. CASE l \in acquires[a].leases
    <3>1. PICK c \in a : give[c] = l BY <1>2, <2>6
    <3>2. Mine1 = {<<"client", c>>} BY <1>6, <1>8, <3>1
    <3>3. Calls = {<<"acquire", a>>} BY <2>6 DEF Calls, AcquirePart
    <3> HIDE DEF Mine1
    <3>4. Calls # {} /\ \E h : Mine1 = {h} BY <3>2, <3>3
    <3> QED BY <1>2, <2>2, <2>3, <2>4, <2>5, <3>4, PartPasses
  <2>7. CASE l \notin acquires[a].leases
    <3>1. Mine1 = {} BY <1>7, <1>8, <2>7
    <3>2. Calls = {} BY <2>7 DEF Calls, AcquirePart
    <3> HIDE DEF Mine1
    <3> QED BY <1>2, <2>2, <2>3, <2>4, <2>5, <3>1, <3>2, PartPasses
  <2> QED BY <2>6, <2>7
<1>19. /\ mine'[Direct] = mine[Direct] /\ state'[Direct] = state[Direct]
       /\ claimed'[Direct] = claimed[Direct] /\ hasOwner'[Direct] = hasOwner[Direct]
  BY <1>2, <1>4, <1>8, Kinds
<1> QED BY <1>2, <1>3, <1>14, <1>15, <1>16, <1>17, <1>18, <1>19, PoolStep

LEMMA AcquireDescribesKeeps ==
  ASSUME FacadeInv, NEW a \in AcquireCalls, AcquireDescribes(a)
  PROVE  FacadeInv'
<1>1. TypeOK /\ ClientTypeOK /\ AcquireSound(a) BY DEF FacadeInv, TypeOK
<1>2. /\ acquires[a].pc = "describing" /\ KeepsClients /\ KeepsRest
      /\ UNCHANGED <<owner, lease, spoiled, touched>>
  BY DEF AcquireDescribes, ownerVars
<1>3. a \in use.calls /\ use.pooled BY <1>2, Pooled
<1>4. /\ acquires[a] \in CallStates /\ Cardinality(a) \in Nat \ {0}
      /\ MaxConnections \in Nat \ {0}
  BY <1>1, CallFacts
<1>5. ASSUME NEW e \in CallStates, acquires' = [acquires EXCEPT ![a] = e],
             e.leases = acquires[a].leases, e.pc = "describing" \/ e.pc = "undoing",
             e.pc = "describing" => e.infos < Cardinality(a),
             UNCHANGED <<state, binding, leased, growth>>
      PROVE  FacadeInv'
  <2>1. KeepsBinding BY <1>5 DEF KeepsBinding
  <2>2. \A c \in a : AtRest(c)' = AtRest(c)
    BY <1>2, <2>1 DEF AtRest, KeepsClients, KeepsBinding, binding
  <2>3. ASSUME acquires'[a] = e PROVE AcquireSound(a)'
    BY <1>1, <1>2, <1>3, <1>5, <2>2, <2>3 DEF AcquireSound, KeepsClients
  <2>4. ASSUME NEW l \in Leases PROVE HeldOnce(l)'
    <3>1. acquires'[a] = e /\ \A b \in AcquireCalls \ {a} : acquires'[b] = acquires[b]
      BY <1>1, <1>5, CallStep
    <3>2. AcquirePart(a, l)' = AcquirePart(a, l) BY <1>5, <3>1 DEF AcquirePart
    <3> QED BY <1>2, <1>5, <2>1, <3>1, <3>2, AcquireMoves
            DEF KeepsClients, KeepsBinding, KeepsRest, binding
  <2> QED BY <1>1, <1>2, <1>3, <1>5, <2>1, <2>3, <2>4, AcquireQuiet DEF ClientTypeOK
<1>6. CASE /\ acquires[a].infos + 1 # Cardinality(a)
           /\ acquires' = [acquires EXCEPT ![a].infos = @ + 1]
           /\ UNCHANGED <<state, binding, leased, growth>>
  <2>1. PICK e : e = [acquires[a] EXCEPT !.infos = @ + 1] OBVIOUS
  <2>2. /\ acquires[a].infos \in Nat /\ acquires[a].infos + 1 < Cardinality(a)
        /\ acquires[a].infos + 1 \in 0..MaxConnections
    BY <1>1, <1>2, <1>4, <1>6 DEF AcquireSound, CallStates
  <2>3. /\ e \in CallStates /\ e.leases = acquires[a].leases /\ e.pc = "describing"
        /\ e.infos < Cardinality(a)
    BY <1>2, <1>4, <2>1, <2>2 DEF CallStates
  <2>4. acquires' = [acquires EXCEPT ![a] = e] BY <1>6, <2>1
  <2> QED BY <1>5, <1>6, <2>3, <2>4
<1>7. CASE CallGoes(a, "undoing") /\ UNCHANGED <<state, binding, leased, growth>>
  <2>1. PICK e \in CallStates :
          /\ e.pc = "undoing" /\ e.leases = acquires[a].leases
          /\ acquires' = [acquires EXCEPT ![a] = e]
    BY <1>1, <1>7, CallGoesGives
  <2> QED BY <1>5, <1>7, <2>1
<1>8. CASE \E give \in [a -> acquires[a].leases] : Publishes(a, give)
  BY <1>8, PublishKeeps
<1> QED BY <1>6, <1>7, <1>8 DEF AcquireDescribes, MayPublish, Publishes

(***************************************************************************)
(* release(): clients are claimed                                          *)
(***************************************************************************)
LEMMA ClaimAllGives ==
  ASSUME FacadeInv, NEW S \in SUBSET leased, ClaimAll(S)
  PROVE  /\ S \subseteq Managed /\ S \subseteq Clients /\ Direct \notin S /\ IsFiniteSet(S)
         /\ mine' \in [Clients -> Leases \cup {None}]
         /\ hasOwner' \in [Clients -> BOOLEAN] /\ claimed' \in [Clients -> BOOLEAN]
         /\ state' \in [Clients -> {"closed", "opening", "open", "closing", "faulted"}]
         /\ \A c \in S : /\ mine'[c] = None /\ ~hasOwner'[c] /\ claimed'[c]
                         /\ state'[c] = "closed"
         /\ \A c \in Clients \ S :
              /\ mine'[c] = mine[c] /\ hasOwner'[c] = hasOwner[c]
              /\ claimed'[c] = claimed[c] /\ state'[c] = state[c]
         /\ reusable' = reusable
<1>1. TypeOK /\ ClientTypeOK BY DEF FacadeInv, TypeOK
<1>2. S \subseteq Managed BY <1>1 DEF TypeOK
<1>3. S \subseteq Clients /\ Direct \notin S BY <1>2, Kinds
<1>4. IsFiniteSet(S) BY <1>2, ClientAssumption, FS_Subset
<1>5. \A c \in Clients : claimed[c] \in BOOLEAN /\ hasOwner[c] \in BOOLEAN
  BY <1>1 DEF ClientTypeOK
<1>6. /\ mine' \in [Clients -> Leases \cup {None}]
      /\ state' \in [Clients -> {"closed", "opening", "open", "closing", "faulted"}]
      /\ \A c \in S : mine'[c] = None /\ state'[c] = "closed"
      /\ \A c \in Clients \ S : mine'[c] = mine[c] /\ state'[c] = state[c]
  BY <1>1, <1>3 DEF ClaimAll, ClientTypeOK
<1>7. /\ hasOwner' \in [Clients -> BOOLEAN] /\ claimed' \in [Clients -> BOOLEAN]
      /\ \A c \in S : ~hasOwner'[c] /\ claimed'[c]
      /\ \A c \in Clients \ S : hasOwner'[c] = hasOwner[c] /\ claimed'[c] = claimed[c]
  BY <1>3, <1>5 DEF ClaimAll
<1> QED BY <1>2, <1>3, <1>4, <1>6, <1>7 DEF ClaimAll

\* Release and CloseAll
LEMMA ClaimStep ==
  ASSUME FacadeInv, NEW S \in SUBSET leased, ClaimAll(S), use.pooled,
         KeepsClients, leased' = leased \ S, UNCHANGED <<acquires, growth>>,
         UNCHANGED <<lease, spoiled, touched>>,
         owner' \in {"none", "active", "retiring", "retired"}, closed' \in BOOLEAN,
         closing' \in {"off", "claims", "tails", "retiring", "done"},
         closeClaims' \subseteq Claims, recycling' \in Seq(Claims),
         ClaimsSound',
         \A c \in Managed, l \in Leases : HasClaim(c, l) => HasClaim(c, l)',
         \A c \in S, l \in Leases : mine[c] = l => HasClaim(c, l)',
         \A l \in Leases : HeldOnce(l)'
  PROVE  FacadeInv'
<1>1. TypeOK /\ ClientTypeOK BY DEF FacadeInv, TypeOK
<1>2. /\ S \subseteq Managed /\ S \subseteq Clients /\ Direct \notin S
      /\ mine' \in [Clients -> Leases \cup {None}]
      /\ hasOwner' \in [Clients -> BOOLEAN] /\ claimed' \in [Clients -> BOOLEAN]
      /\ state' \in [Clients -> {"closed", "opening", "open", "closing", "faulted"}]
      /\ \A c \in S : /\ mine'[c] = None /\ ~hasOwner'[c] /\ claimed'[c]
                      /\ state'[c] = "closed"
      /\ \A c \in Clients \ S :
           /\ mine'[c] = mine[c] /\ hasOwner'[c] = hasOwner[c]
           /\ claimed'[c] = claimed[c] /\ state'[c] = state[c]
      /\ reusable' = reusable
  BY ClaimAllGives
<1>3. UNCHANGED <<use, queue, running, asked>> BY DEF KeepsClients
<1>4. TypeOK'
  <2>1. ClientTypeOK' BY <1>1, <1>2, <1>3 DEF ClientTypeOK
  <2> QED BY <1>1, <2>1 DEF TypeOK
<1>5. ASSUME NEW c \in Managed
      PROVE  /\ ClientSound(c)' /\ SessionHeld(c)'
             /\ state'[c] \in {"closed", "faulted", "open"}
  <2>1. /\ c \in Clients /\ ClientSound(c) /\ SessionHeld(c) /\ ManagedSound(c)
        /\ running[c] \in Runs /\ mine[c] \in Leases \cup {None}
    BY <1>1, Kinds DEF FacadeInv, ClientTypeOK
  <2>2. SessionHeld(c)'
    <3>1. PICK x : x = running[c].lease OBVIOUS
    <3>2. SUFFICES ASSUME AtSession(c) PROVE mine'[c] = x \/ HasClaim(c, x)'
      BY <1>3, <3>1 DEF SessionHeld, AtSession, HasClaim
    <3>3. x \in Leases BY <2>1, <3>1, <3>2 DEF ClientSound, Runs
    <3>4. mine[c] = x \/ HasClaim(c, x) BY <2>1, <3>1, <3>2 DEF SessionHeld
    <3>5. CASE HasClaim(c, x) BY <3>3, <3>5
    <3>6. CASE mine[c] = x BY <1>2, <2>1, <3>3, <3>6
    <3> QED BY <3>4, <3>5, <3>6
  <2>3. CASE c \in S
    BY <1>2, <1>3, <2>1, <2>2, <2>3 DEF ClientSound, AtSession, EmptyHanded
  <2>4. CASE c \notin S
    <3>1. c \in leased' <=> c \in leased BY <2>4
    <3> QED BY <1>2, <1>3, <2>1, <2>2, <2>4, <3>1
            DEF ClientSound, AtSession, EmptyHanded, Claimable, ManagedSound
  <2> QED BY <2>3, <2>4
<1>6. ASSUME NEW a \in AcquireCalls PROVE AcquireSound(a)'
  <2>1. ASSUME NEW c \in a, AtRest(c) PROVE AtRest(c)'
    <3>1. c \in Clients BY <1>1, CallFacts
    <3>2. c \notin S
      BY <2>1, <3>1 DEF AtRest, FacadeInv, ClientSound, Claimable
    <3> QED BY <1>2, <1>3, <2>1, <3>1, <3>2 DEF AtRest
  <2>2. AcquireSound(a) BY DEF FacadeInv
  <2> QED BY <1>3, <2>1, <2>2 DEF AcquireSound
<1> QED BY <1>2, <1>3, <1>4, <1>5, <1>6, Kinds, PoolStep

\* A lease among those of the clients in S has one of them for its holder.
LEMMA ClaimedOne ==
  ASSUME FacadeInv, NEW S \in SUBSET Clients, NEW l \in Leases, NEW c \in S, mine[c] = l
  PROVE  \A d \in S : mine[d] = l => d = c
<1>1. <<"client", c>> \in Holders(l) BY DEF Holders
<1>2. PICK h : Holders(l) = {h} BY <1>1 DEF FacadeInv, HeldOnce
<1>3. ASSUME NEW d \in S, mine[d] = l PROVE d = c
  <2>1. <<"client", d>> \in Holders(l) BY <1>3 DEF Holders
  <2>2. <<"client", d>> = <<"client", c>> BY <1>1, <1>2, <2>1
  <2> QED BY <2>2
<1> QED BY <1>3

\* The claims that a release puts behind #recycleTail
LEMMA AppendsClaims ==
  ASSUME FacadeInv, NEW S \in SUBSET leased, NEW order \in Bijection(1..Cardinality(S), S),
         recycling' = recycling \o
           [i \in 1..Cardinality(S) |-> [client |-> order[i], lease |-> mine[order[i]],
                                         last |-> i = Cardinality(S)]]
  PROVE  /\ recycling' \in Seq(Claims)
         /\ Len(recycling) \in Nat /\ Cardinality(S) \in Nat
         /\ DOMAIN recycling = 1..Len(recycling)
         /\ DOMAIN recycling' = 1..(Len(recycling) + Cardinality(S))
         /\ \A i \in DOMAIN recycling : recycling'[i] = recycling[i]
         /\ \A i \in 1..Cardinality(S) :
              /\ recycling'[Len(recycling) + i].client = order[i]
              /\ recycling'[Len(recycling) + i].lease = mine[order[i]]
<1>1. /\ recycling \in Seq(Claims) /\ S \subseteq Managed /\ S \subseteq Clients
      /\ mine \in [Clients -> Leases \cup {None}]
  BY Kinds DEF FacadeInv, TypeOK, ClientTypeOK
<1>2. IsFiniteSet(S) BY <1>1, ClientAssumption, FS_Subset
<1>3. Cardinality(S) \in Nat BY <1>2, FS_CardinalityType
<1> DEFINE n == Cardinality(S)
           new == [i \in 1..n |-> [client |-> order[i], lease |-> mine[order[i]],
                                   last |-> i = n]]
<1>4. \A i \in 1..n : order[i] \in S BY DEF Bijection, Surjection
<1>5. \A i \in 1..n : [client |-> order[i], lease |-> mine[order[i]], last |-> i = n] \in Claims
  BY <1>1, <1>4 DEF Claims
<1>6. new \in Seq(Claims) /\ Len(new) = n
  BY <1>3, <1>5
<1>7. \A i \in 1..n : new[i].client = order[i] /\ new[i].lease = mine[order[i]]
  OBVIOUS
<1> HIDE DEF n, new
<1>8. recycling' = recycling \o new BY DEF n, new
<1>9. /\ recycling' \in Seq(Claims) /\ Len(recycling') = Len(recycling) + n
      /\ \A i \in 1..(Len(recycling) + n) :
           recycling'[i] = IF i <= Len(recycling) THEN recycling[i]
                           ELSE new[i - Len(recycling)]
  <2>1. recycling \in Seq(Claims) /\ new \in Seq(Claims) BY <1>1, <1>6
  <2>2. /\ recycling \o new \in Seq(Claims)
        /\ Len(recycling \o new) = Len(recycling) + Len(new)
        /\ \A i \in 1..(Len(recycling) + Len(new)) :
             (recycling \o new)[i] = IF i <= Len(recycling) THEN recycling[i]
                                     ELSE new[i - Len(recycling)]
    BY <2>1, ConcatProperties, Zenon
  <2> QED BY <1>6, <1>8, <2>2, Zenon
<1>10. /\ Len(recycling) \in Nat /\ DOMAIN recycling = 1..Len(recycling)
       /\ DOMAIN recycling' = 1..(Len(recycling) + n)
  <2>1. recycling \in Seq(Claims) /\ recycling' \in Seq(Claims)
        /\ Len(recycling') = Len(recycling) + n
    BY <1>1, <1>9
  <2>2. DOMAIN recycling' = 1..Len(recycling') BY <2>1, LenProperties
  <2> QED BY <2>1, <2>2, LenProperties
<1>11. \A i \in DOMAIN recycling : recycling'[i] = recycling[i]
  BY <1>3, <1>9, <1>10 DEF n
<1>12. ASSUME NEW i \in 1..n PROVE recycling'[Len(recycling) + i] = new[i]
  <2>1. n \in Nat BY <1>3 DEF n
  <2>2. Len(recycling) + i \in 1..(Len(recycling) + n) /\ ~(Len(recycling) + i <= Len(recycling))
        /\ (Len(recycling) + i) - Len(recycling) = i
    BY <1>10, <2>1
  <2> QED BY <1>9, <2>2
<1> QED BY <1>3, <1>7, <1>9, <1>10, <1>11, <1>12 DEF n

LEMMA ReleaseKeeps ==
  ASSUME FacadeInv, NEW S \in SUBSET leased, Release(S)
  PROVE  FacadeInv'
<1>1. TypeOK /\ ClientTypeOK /\ ClaimsSound BY DEF FacadeInv, TypeOK
<1>2. /\ S # {} /\ leased' = leased \ S /\ ClaimAll(S) /\ KeepsClients
      /\ UNCHANGED <<closed, acquires, growth, closing, closeClaims, owner, lease,
                     spoiled, touched>>
  BY DEF Release, ownerVars
<1>3. PICK order \in Bijection(1..Cardinality(S), S) :
        recycling' = recycling \o
          [i \in 1..Cardinality(S) |-> [client |-> order[i], lease |-> mine[order[i]],
                                        last |-> i = Cardinality(S)]]
  BY DEF Release
<1> DEFINE n == Cardinality(S)
           len == Len(recycling)
<1>4. /\ recycling' \in Seq(Claims) /\ len \in Nat /\ n \in Nat
      /\ DOMAIN recycling = 1..len /\ DOMAIN recycling' = 1..(len + n)
      /\ \A i \in DOMAIN recycling : recycling'[i] = recycling[i]
      /\ \A i \in 1..n : /\ recycling'[len + i].client = order[i]
                         /\ recycling'[len + i].lease = mine[order[i]]
  BY <1>3, AppendsClaims
<1>5. /\ \A i \in 1..n : order[i] \in S
      /\ \A c \in S : \E i \in 1..n : order[i] = c
      /\ \A i, j \in 1..n : order[i] = order[j] => i = j
  BY DEF Bijection, Injection, Surjection, IsInjective
<1>6. /\ S \subseteq Clients
      /\ \A c \in S : mine'[c] = None /\ claimed'[c]
      /\ \A c \in Clients \ S : mine'[c] = mine[c] /\ claimed'[c] = claimed[c]
  BY <1>2, ClaimAllGives
<1> HIDE DEF n, len
<1>7. \A i \in 1..(len + n) : i \in 1..len \/ \E j \in 1..n : i = len + j
  <2> SUFFICES ASSUME NEW i \in 1..(len + n), i \notin 1..len
               PROVE  \E j \in 1..n : i = len + j
    OBVIOUS
  <2>1. i - len \in 1..n /\ i = len + (i - len) BY <1>4
  <2> QED BY <2>1
<1>8. \A j \in 1..n : len + j \in 1..(len + n) /\ len + j \notin 1..len BY <1>4
<1>9. ClaimsSound'
  <2>1. \A c \in Clients : claimed[c] => claimed'[c] BY <1>6
  <2>2. ASSUME NEW i \in DOMAIN recycling' PROVE claimed'[recycling'[i].client]
    <3>1. CASE i \in 1..len
      <4>1. recycling[i] \in Claims BY <1>1, <1>4, <3>1 DEF TypeOK
      <4>2. recycling[i].client \in Clients BY <4>1, Kinds DEF Claims
      <4> QED BY <1>1, <1>4, <2>1, <3>1, <4>2 DEF ClaimsSound
    <3>2. ASSUME NEW j \in 1..n, i = len + j PROVE claimed'[recycling'[i].client]
      BY <1>4, <1>5, <1>6, <3>2
    <3> QED BY <1>4, <1>7, <2>2, <3>1, <3>2
  <2>3. \A claim \in closeClaims : claim.client \in Clients
    BY <1>1, Kinds DEF TypeOK, Claims
  <2> QED BY <1>1, <1>2, <2>1, <2>2, <2>3 DEF ClaimsSound
<1>10. ASSUME NEW c \in Managed, NEW l \in Leases, HasClaim(c, l) PROVE HasClaim(c, l)'
  <2>1. ASSUME NEW i \in DOMAIN recycling, recycling[i].client = c, recycling[i].lease = l
        PROVE  HasClaim(c, l)'
    <3>1. i \in DOMAIN recycling' /\ recycling'[i] = recycling[i]
      BY <1>4
    <3> QED BY <2>1, <3>1 DEF HasClaim
  <2> QED BY <1>2, <1>10, <2>1 DEF HasClaim
<1>11. ASSUME NEW c \in S, NEW l \in Leases, mine[c] = l PROVE HasClaim(c, l)'
  <2>1. PICK i \in 1..n : order[i] = c BY <1>5
  <2>2. len + i \in DOMAIN recycling' BY <1>4, <1>8
  <2> QED BY <1>4, <1>11, <2>1, <2>2 DEF HasClaim
<1>12. ASSUME NEW l \in Leases PROVE HeldOnce(l)'
  <2> DEFINE O == Holders(l) \ {<<"client", c>> : c \in S}
             P == {<<"client", c>> : c \in {x \in S : mine[x] = l}}
             New == {i \in 1..n : mine[order[i]] = l}
             P1 == {<<"claim", len + i>> : i \in New}
  <2>1. Holders(l) = O \cup P BY <1>6 DEF Holders
  <2>2. O \cap P = {} OBVIOUS
  <2>3. Holders(l)' = O \cup P1
    <3>1. {x \in Clients : mine'[x] = l} = {x \in Clients : mine[x] = l} \ S
      BY <1>6, Kinds
    <3>2. {x \in DOMAIN recycling' : recycling'[x].lease = l}
            = {x \in DOMAIN recycling : recycling[x].lease = l} \cup {len + i : i \in New}
      <4>1. ASSUME NEW x \in DOMAIN recycling', recycling'[x].lease = l
            PROVE  x \in {y \in DOMAIN recycling : recycling[y].lease = l}
                         \cup {len + i : i \in New}
        <5>1. CASE x \in 1..len BY <1>4, <4>1, <5>1
        <5>2. ASSUME NEW j \in 1..n, x = len + j
              PROVE  x \in {len + i : i \in New}
          BY <1>4, <4>1, <5>2
        <5> QED BY <1>4, <1>7, <4>1, <5>1, <5>2
      <4>2. \A x \in DOMAIN recycling : x \in DOMAIN recycling' BY <1>4
      <4> QED BY <1>4, <1>8, <4>1, <4>2
    <3>3. {<<"claim", i>> : i \in {x \in DOMAIN recycling' : recycling'[x].lease = l}}
            = {<<"claim", i>> : i \in {x \in DOMAIN recycling : recycling[x].lease = l}} \cup P1
      BY <3>2
    <3> HIDE DEF P1
    <3> QED BY <1>2, <3>1, <3>3 DEF Holders, KeepsClients
  <2>4. HeldOnce(l) BY DEF FacadeInv
  <2>5. CASE \E c \in S : mine[c] = l
    <3>1. PICK c \in S : mine[c] = l BY <2>5
    <3>2. \A d \in S : mine[d] = l => d = c BY <1>6, <3>1, ClaimedOne
    <3>3. PICK i \in 1..n : order[i] = c BY <1>5
    <3>4. New = {i} BY <1>5, <3>1, <3>2, <3>3
    <3>5. P # {} /\ P1 = {<<"claim", len + i>>} BY <3>1, <3>4
    <3> HIDE DEF O, P, P1
    <3> QED BY <1>2, <2>1, <2>2, <2>3, <2>4, <3>5, PartPasses
  <2>6. CASE ~\E c \in S : mine[c] = l
    <3>1. P = {} /\ P1 = {} BY <1>5, <2>6
    <3> HIDE DEF O, P, P1
    <3> QED BY <1>2, <2>1, <2>2, <2>3, <2>4, <3>1, PartPasses
  <2> QED BY <2>5, <2>6
<1>13. use.pooled BY <1>2, Pooled
<1> QED BY <1>1, <1>2, <1>4, <1>9, <1>10, <1>11, <1>12, <1>13, ClaimStep
        DEF TypeOK, ClientTypeOK

(***************************************************************************)
(* #recycleClaim                                                           *)
(***************************************************************************)
LEMMA GiveBackGives ==
  ASSUME ClientTypeOK, NEW x \in Leases, NEW again \in BOOLEAN, NEW reset \in BOOLEAN,
         GiveBack(x, again, reset)
  PROVE  /\ lease' \in [Leases -> {"none", "held", "reused", "destroyed"}]
         /\ lease'[x] # "held" /\ \A l \in Leases \ {x} : lease'[l] = lease[l]
         /\ spoiled' = spoiled /\ touched' \subseteq Leases
BY DEF GiveBack, ClientTypeOK

LEMMA RecycleKeeps ==
  ASSUME FacadeInv, Recycle
  PROVE  FacadeInv'
<1>1. TypeOK /\ ClientTypeOK /\ ClaimsSound BY DEF FacadeInv, TypeOK
<1>2. /\ recycling # <<>> /\ recycling' = Tail(recycling)
      /\ UNCHANGED <<closed, leased, acquires, closing, closeClaims, owner>>
      /\ KeepsClients /\ KeepsBinding
      /\ growth' = Maintains \/ growth' = growth
  BY DEF Recycle
<1> DEFINE claim == recycling[1]
           len == Len(recycling)
<1>3. /\ recycling' \in Seq(Claims) /\ len \in Nat /\ len >= 1
      /\ DOMAIN recycling = 1..len /\ DOMAIN recycling' = 1..(len - 1)
      /\ \A i \in 1..(len - 1) : recycling'[i] = recycling[i + 1]
      /\ Head(recycling) = claim /\ claim \in Claims
  <2>1. recycling \in Seq(Claims) /\ recycling # <<>> BY <1>1, <1>2 DEF TypeOK
  <2>2. /\ Tail(recycling) \in Seq(Claims) /\ Len(Tail(recycling)) = Len(recycling) - 1
        /\ \A i \in 1..Len(Tail(recycling)) : Tail(recycling)[i] = recycling[i + 1]
    BY <2>1, HeadTailProperties
  <2>3. DOMAIN Tail(recycling) = 1..Len(Tail(recycling)) BY <2>2, LenProperties
  <2>4. Len(recycling) \in Nat /\ Len(recycling) >= 1 /\ DOMAIN recycling = 1..Len(recycling)
        /\ Head(recycling) = recycling[1] /\ recycling[1] \in Claims
    BY <2>1
  <2> QED BY <1>2, <2>2, <2>3, <2>4
<1>4. UNCHANGED <<use, queue, running, asked, state, mine, hasOwner, claimed, reusable>>
  BY <1>2 DEF KeepsClients, KeepsBinding, binding
<1>5. use.pooled BY <1>2, Pooled
<1>6. \/ claim.lease = None /\ UNCHANGED <<lease, spoiled, touched>>
      \/ /\ claim.lease \in Leases /\ TailIsOver(claim.client)
         /\ GiveBack(claim.lease, FALSE, FALSE) \/ GiveBack(claim.lease, TRUE, TRUE)
  BY <1>3 DEF Recycle, Destroy, Claims
<1>7. /\ lease' \in [Leases -> {"none", "held", "reused", "destroyed"}]
      /\ spoiled' \subseteq Leases /\ touched' \subseteq Leases
      /\ \A l \in Leases : l # claim.lease => lease'[l] = lease[l]
      /\ claim.lease \in Leases => lease'[claim.lease] # "held"
  <2>1. CASE claim.lease = None /\ UNCHANGED <<lease, spoiled, touched>>
    BY <1>1, <2>1, Kinds DEF ClientTypeOK
  <2>2. ASSUME NEW flag \in BOOLEAN, claim.lease \in Leases, GiveBack(claim.lease, flag, flag)
        PROVE  <1>7!:
    BY <1>1, <2>2, GiveBackGives DEF ClientTypeOK
  <2> QED BY <1>6, <2>1, <2>2
<1>8. /\ growth' \in [asked : Nat, jobs : Nat, leases : SUBSET Leases,
                      again : BOOLEAN, pc : {"idle", "acquiring", "returning"}]
      /\ growth'.leases = growth.leases /\ growth'.pc = growth.pc
  BY <1>1, <1>2, MaintainsGives
<1>9. TypeOK'
  <2>1. ClientTypeOK' BY <1>1, <1>2, <1>4, <1>7 DEF ClientTypeOK
  <2> QED BY <1>1, <1>2, <1>3, <1>8, <2>1 DEF TypeOK
<1> HIDE DEF len, claim
<1>10. \A i \in 1..(len - 1) : i + 1 \in 1..len /\ i + 1 # 1 BY <1>3
<1>11. \A i \in 1..len : i # 1 => i - 1 \in 1..(len - 1) /\ (i - 1) + 1 = i BY <1>3
<1>12. ClaimsSound'
  <2>1. \A i \in DOMAIN recycling' : claimed'[recycling'[i].client]
    BY <1>1, <1>3, <1>4, <1>10 DEF ClaimsSound
  <2> QED BY <1>1, <1>2, <1>4, <1>8, <2>1 DEF ClaimsSound
<1>13. ASSUME NEW c \in Managed PROVE SessionHeld(c)'
  <2>1. c \in Clients /\ ClientSound(c) /\ SessionHeld(c) /\ running[c] \in Runs
    BY <1>1, Kinds DEF FacadeInv, ClientTypeOK
  <2>2. PICK x : x = running[c].lease OBVIOUS
  <2>3. SUFFICES ASSUME AtSession(c) PROVE mine[c] = x \/ HasClaim(c, x)'
    BY <1>4, <2>2 DEF SessionHeld, AtSession, HasClaim
  <2>4. x \in Leases BY <2>1, <2>2, <2>3 DEF ClientSound, Runs
  <2>5. mine[c] = x \/ HasClaim(c, x) BY <2>1, <2>2, <2>3 DEF SessionHeld
  <2>6. ASSUME NEW i \in DOMAIN recycling, recycling[i].client = c, recycling[i].lease = x
        PROVE  HasClaim(c, x)'
    <3>1. i # 1
      <4> SUFFICES ASSUME i = 1 PROVE FALSE
        OBVIOUS
      <4>1. claim.client = c /\ claim.lease = x BY <2>6 DEF claim
      <4>2. running[c] = Idle BY <1>6, <2>4, <4>1, Kinds DEF TailIsOver
      <4> QED BY <2>3, <4>2 DEF AtSession, Idle
    <3>2. i - 1 \in DOMAIN recycling' /\ recycling'[i - 1] = recycling[i]
      BY <1>3, <1>11, <2>6, <3>1
    <3> QED BY <2>6, <3>2 DEF HasClaim
  <2> QED BY <1>2, <2>5, <2>6 DEF HasClaim
<1>14. ASSUME NEW l \in Leases PROVE HeldOnce(l)'
  <2> DEFINE P == {<<"claim", i>> : i \in {x \in 1..len : recycling[x].lease = l}}
             P1 == {<<"claim", i>> : i \in {x \in 1..(len - 1) : recycling[x + 1].lease = l}}
             O == Holders(l) \ {<<"claim", i>> : i \in 1..len}
  <2>1. Holders(l) = O \cup P BY <1>3 DEF Holders
  <2>2. O \cap P = {} OBVIOUS
  <2>3. Holders(l)' = O \cup P1
    <3>1. {<<"claim", i>> : i \in {x \in DOMAIN recycling' : recycling'[x].lease = l}} = P1
      BY <1>3
    <3> HIDE DEF P1
    <3> QED BY <1>2, <1>3, <1>4, <1>8, <3>1 DEF Holders
  <2>4. HeldOnce(l) BY DEF FacadeInv
  <2>5. \A h \in P1 : \E i \in 1..(len - 1) : h = <<"claim", i>> /\ <<"claim", i + 1>> \in P
    BY <1>10
  <2>6. \A i \in 1..len : <<"claim", i>> \in P <=> recycling[i].lease = l
    OBVIOUS
  <2>7. \A i \in 1..len : <<"claim", i>> \in P /\ i # 1 => <<"claim", i - 1>> \in P1
    BY <1>11
  <2>8. \A h \in P : \E i \in 1..len : h = <<"claim", i>> OBVIOUS
  <2> HIDE DEF O, P, P1
  <2>9. ASSUME NEW h \in P PROVE P = {h}
    BY <2>1, <2>4, <2>9 DEF HeldOnce
  <2>10. CASE l = claim.lease
    <3>1. 1 \in 1..len BY <1>3
    <3>2. <<"claim", 1>> \in P BY <2>6, <2>10, <3>1 DEF claim
    <3>3. P = {<<"claim", 1>>} BY <2>9, <3>2
    <3>4. P1 = {}
      <4> SUFFICES ASSUME NEW h \in P1 PROVE FALSE
        OBVIOUS
      <4>1. PICK i \in 1..(len - 1) : <<"claim", i + 1>> \in P BY <2>5
      <4>2. <<"claim", i + 1>> = <<"claim", 1>> BY <3>3, <4>1
      <4> QED BY <1>10, <4>2
    <3> QED BY <1>7, <2>1, <2>2, <2>3, <2>4, <2>10, <3>2, <3>4, PartPasses
  <2>11. CASE l # claim.lease /\ P = {}
    <3>1. P1 = {} BY <2>5, <2>11
    <3>2. P1 = P /\ (lease'[l] = "held" <=> lease[l] = "held") BY <1>7, <2>11, <3>1
    <3> QED BY <2>1, <2>2, <2>3, <2>4, <3>2, PartPasses
  <2>12. CASE l # claim.lease /\ P # {}
    <3>1. PICK j \in 1..len : <<"claim", j>> \in P BY <2>8, <2>12
    <3>2. P = {<<"claim", j>>} BY <2>9, <3>1
    <3>3. j # 1 BY <2>6, <2>12, <3>1 DEF claim
    <3>4. <<"claim", j - 1>> \in P1 BY <2>7, <3>1, <3>3
    <3>5. ASSUME NEW h \in P1 PROVE h = <<"claim", j - 1>>
      <4>1. PICK i \in 1..(len - 1) : h = <<"claim", i>> /\ <<"claim", i + 1>> \in P
        BY <2>5, <3>5
      <4>2. <<"claim", i + 1>> = <<"claim", j>> BY <3>2, <4>1
      <4>3. i + 1 = j BY <4>2
      <4>4. i = j - 1 BY <4>3
      <4> QED BY <4>1, <4>4
    <3>6. P1 = {<<"claim", j - 1>>} BY <3>4, <3>5
    <3> QED BY <1>7, <2>1, <2>2, <2>3, <2>4, <2>12, <3>6, PartPasses
  <2> QED BY <2>10, <2>11, <2>12
<1>15. ASSUME NEW a \in AcquireCalls PROVE AcquireSound(a)'
  BY <1>2, <1>4 DEF FacadeInv, AcquireSound, AtRest
<1> QED BY <1>2, <1>5, <1>9, <1>12, <1>13, <1>14, <1>15, QuietStep

(***************************************************************************)
(* ready() and low water                                                   *)
(***************************************************************************)
GrowthStates == [asked : Nat, jobs : Nat, leases : SUBSET Leases,
                 again : BOOLEAN, pc : {"idle", "acquiring", "returning"}]
ReadyPart(l) == {h \in {<<"ready", l>>} : l \in growth.leases}

LEMMA GrowthStep ==
  ASSUME FacadeInv, use.pooled, growth' \in GrowthStates,
         growth'.pc # "returning" => growth'.leases = {},
         KeepsClients, KeepsBinding, KeepsRest, UNCHANGED <<leased, acquires>>,
         owner' \in {"none", "active", "retiring", "retired"},
         lease' \in [Leases -> {"none", "held", "reused", "destroyed"}],
         spoiled' \subseteq Leases, touched' \subseteq Leases,
         \A l \in Leases :
           \/ ReadyPart(l)' = ReadyPart(l) /\ lease'[l] = lease[l]
           \/ l \in growth.leases /\ l \notin growth'.leases /\ lease'[l] # "held"
           \/ lease[l] # "held" /\ l \in growth'.leases /\ lease'[l] = "held"
  PROVE  FacadeInv'
<1>1. TypeOK /\ ClientTypeOK /\ ClaimsSound BY DEF FacadeInv, TypeOK
<1>2. UNCHANGED <<use, queue, running, asked, state, mine, hasOwner, claimed, reusable,
                  closed, recycling, closing, closeClaims, leased, acquires>>
  BY DEF KeepsClients, KeepsBinding, KeepsRest, binding
<1>3. TypeOK' BY <1>1, <1>2 DEF TypeOK, ClientTypeOK, GrowthStates
<1>4. ClaimsSound' BY <1>1, <1>2 DEF ClaimsSound
<1>5. \A c \in Managed : SessionHeld(c)'
  BY <1>2, Kinds DEF FacadeInv, SessionHeld, AtSession, HasClaim
<1>6. \A a \in AcquireCalls : AcquireSound(a)'
  BY <1>2 DEF FacadeInv, AcquireSound, AtRest
<1>7. ASSUME NEW l \in Leases PROVE HeldOnce(l)'
  <2> DEFINE P == ReadyPart(l)
             P1 == ReadyPart(l)'
             O == Holders(l) \ {<<"ready", l>>}
  <2>1. Holders(l) = O \cup P BY DEF Holders, ReadyPart
  <2>2. O \cap P = {} BY DEF ReadyPart
  <2>3. Holders(l)' = O \cup P1 BY <1>2 DEF Holders, ReadyPart
  <2>4. HeldOnce(l) BY DEF FacadeInv
  <2>5. \/ P1 = P /\ lease'[l] = lease[l]
        \/ P # {} /\ P1 = {} /\ lease'[l] # "held"
        \/ lease[l] # "held" /\ P1 = {<<"ready", l>>} /\ lease'[l] = "held"
    BY DEF ReadyPart
  <2> HIDE DEF O, P, P1
  <2>6. \/ P1 = P /\ (lease'[l] = "held" <=> lease[l] = "held")
        \/ P # {} /\ P1 = {} /\ lease'[l] # "held"
        \/ lease[l] # "held" /\ (\E h : P1 = {h}) /\ lease'[l] = "held"
    BY <2>5
  <2> QED BY <2>1, <2>2, <2>3, <2>4, <2>6, PartPasses
<1> QED BY <1>2, <1>3, <1>4, <1>5, <1>6, <1>7, QuietStep

LEMMA ReadySame ==
  ASSUME growth'.leases = growth.leases, lease' = lease
  PROVE  \A l \in Leases : ReadyPart(l)' = ReadyPart(l) /\ lease'[l] = lease[l]
BY DEF ReadyPart

LEMMA AskReadyKeeps ==
  ASSUME FacadeInv, AskReady
  PROVE  FacadeInv'
<1>1. TypeOK /\ ClientTypeOK /\ ClaimsSound BY DEF FacadeInv, TypeOK
<1>2. /\ use.pooled /\ UNCHANGED <<clientVars, leased, acquires>> /\ KeepsRest
      /\ growth' = [growth EXCEPT !.asked = @ + 1, !.jobs = @ + 1]
  BY DEF AskReady
<1>3. /\ growth' \in GrowthStates /\ growth'.leases = growth.leases
      /\ growth'.pc = growth.pc
  <2>1. growth \in GrowthStates BY <1>1 DEF TypeOK, GrowthStates
  <2>2. PICK e : e = [growth EXCEPT !.asked = @ + 1] OBVIOUS
  <2>3. e \in GrowthStates /\ e.leases = growth.leases /\ e.pc = growth.pc
        /\ e.jobs = growth.jobs
    BY <2>1, <2>2 DEF GrowthStates
  <2>4. growth' = [e EXCEPT !.jobs = @ + 1] BY <1>2, <2>1, <2>2 DEF GrowthStates
  <2> QED BY <2>3, <2>4 DEF GrowthStates
<1>4. /\ UNCHANGED <<owner, lease, spoiled, touched>> /\ KeepsClients /\ KeepsBinding
  BY <1>2 DEF clientVars, ownerVars, KeepsClients, KeepsBinding
<1>5. \A l \in Leases : ReadyPart(l)' = ReadyPart(l) /\ lease'[l] = lease[l]
  BY <1>3, <1>4, ReadySame
<1>6. growth'.pc # "returning" => growth'.leases = {} BY <1>1, <1>3 DEF ClaimsSound
<1> QED BY <1>1, <1>2, <1>3, <1>4, <1>5, <1>6, GrowthStep DEF ClientTypeOK

LEMMA GrowthBeginsKeeps ==
  ASSUME FacadeInv, GrowthBegins
  PROVE  FacadeInv'
<1>1. TypeOK /\ ClientTypeOK /\ ClaimsSound BY DEF FacadeInv, TypeOK
<1>2. /\ growth.pc = "idle" /\ growth.jobs > 0
      /\ UNCHANGED <<lease, spoiled, touched, leased, acquires>>
      /\ KeepsClients /\ KeepsBinding /\ KeepsRest
      /\ owner' \in {"none", "active", "retiring", "retired"}
  BY <1>1 DEF GrowthBegins, EnsureOwner, ClientTypeOK
<1>3. growth \in GrowthStates BY <1>1 DEF TypeOK, GrowthStates
<1>4. growth # NotGrowing BY <1>2 DEF NotGrowing
<1>5. use.pooled BY <1>4, Pooled
<1>6. PICK e : e = [growth EXCEPT !.jobs = @ - 1] OBVIOUS
<1>7. e \in GrowthStates /\ e.leases = growth.leases /\ e.pc = "idle"
  BY <1>2, <1>3, <1>6 DEF GrowthStates
<1>8. growth' = e \/ growth' = [e EXCEPT !.pc = "acquiring"]
  BY <1>3, <1>6 DEF GrowthBegins, GrowthStates
<1>9. growth' \in GrowthStates /\ growth'.leases = growth.leases
  BY <1>7, <1>8 DEF GrowthStates
<1>10. growth.leases = {} BY <1>1, <1>2 DEF ClaimsSound
<1>11. \A l \in Leases : ReadyPart(l)' = ReadyPart(l) /\ lease'[l] = lease[l]
  BY <1>2, <1>9, ReadySame
<1> QED BY <1>1, <1>2, <1>5, <1>9, <1>10, <1>11, GrowthStep DEF ClientTypeOK

LEMMA GrowthGrantedKeeps ==
  ASSUME FacadeInv, GrowthGranted
  PROVE  FacadeInv'
<1>1. TypeOK /\ ClientTypeOK /\ ClaimsSound BY DEF FacadeInv, TypeOK
<1>2. /\ growth.pc = "acquiring" /\ UNCHANGED <<leased, acquires>>
      /\ KeepsClients /\ KeepsBinding /\ KeepsRest
  BY DEF GrowthGranted
<1>3. growth \in GrowthStates BY <1>1 DEF TypeOK, GrowthStates
<1>4. growth # NotGrowing BY <1>2 DEF NotGrowing
<1>5. use.pooled BY <1>4, Pooled
<1>6. growth.leases = {} BY <1>1, <1>2 DEF ClaimsSound
<1>7. CASE growth' = [growth EXCEPT !.pc = "idle"] /\ UNCHANGED ownerVars
  <2>1. growth' \in GrowthStates /\ growth'.leases = growth.leases
    BY <1>3, <1>7 DEF GrowthStates
  <2>2. UNCHANGED <<owner, lease, spoiled, touched>> BY <1>7 DEF ownerVars
  <2>3. \A l \in Leases : ReadyPart(l)' = ReadyPart(l) /\ lease'[l] = lease[l]
    BY <2>1, <2>2, ReadySame
  <2> QED BY <1>1, <1>2, <1>5, <1>6, <2>1, <2>2, <2>3, GrowthStep DEF ClientTypeOK
<1>8. ASSUME NEW S \in SUBSET Leases, Grants(S),
             growth' = [growth EXCEPT !.pc = "returning", !.leases = S, !.again = ~closed]
      PROVE  FacadeInv'
  <2>1. PICK e0 : e0 = [growth EXCEPT !.pc = "returning"] OBVIOUS
  <2>2. e0 \in GrowthStates /\ e0.pc = "returning" BY <1>3, <2>1 DEF GrowthStates
  <2>3. PICK e1 : e1 = [e0 EXCEPT !.leases = S] OBVIOUS
  <2>4. e1 \in GrowthStates /\ e1.pc = "returning" /\ e1.leases = S
    BY <2>2, <2>3 DEF GrowthStates
  <2>5. growth' = [e1 EXCEPT !.again = ~closed]
    BY <1>3, <1>8, <2>1, <2>3 DEF GrowthStates
  <2>6. (~closed) \in BOOLEAN OBVIOUS
  <2>7. growth' \in GrowthStates /\ growth'.pc = "returning" /\ growth'.leases = S
    BY <2>4, <2>5, <2>6 DEF GrowthStates
  <2>8. /\ lease' \in [Leases -> {"none", "held", "reused", "destroyed"}]
        /\ UNCHANGED <<owner, spoiled, touched>>
    BY <1>1, <1>8, GrantsGive
  <2>9. ASSUME NEW l \in Leases
        PROVE  \/ ReadyPart(l)' = ReadyPart(l) /\ lease'[l] = lease[l]
               \/ lease[l] # "held" /\ l \in growth'.leases /\ lease'[l] = "held"
    <3>1. CASE l \in S BY <1>8, <2>7, <3>1 DEF Grants
    <3>2. CASE l \notin S BY <1>6, <1>8, <2>7, <3>2 DEF Grants, ReadyPart
    <3> QED BY <3>1, <3>2
  <2> QED BY <1>1, <1>2, <1>5, <2>7, <2>8, <2>9, GrowthStep DEF ClientTypeOK
<1> QED BY <1>7, <1>8 DEF GrowthGranted

LEMMA GrowthReturnsKeeps ==
  ASSUME FacadeInv, GrowthReturns
  PROVE  FacadeInv'
<1>1. TypeOK /\ ClientTypeOK /\ ClaimsSound BY DEF FacadeInv, TypeOK
<1>2. /\ growth.pc = "returning" /\ UNCHANGED <<owner, leased, acquires>>
      /\ KeepsClients /\ KeepsBinding /\ KeepsRest
  BY DEF GrowthReturns
<1>3. growth \in GrowthStates BY <1>1 DEF TypeOK, GrowthStates
<1>4. growth # NotGrowing BY <1>2 DEF NotGrowing
<1>5. use.pooled BY <1>4, Pooled
<1>6. ASSUME NEW x \in growth.leases, growth' = [growth EXCEPT !.leases = @ \ {x}],
             GiveBack(x, growth.again, FALSE)
      PROVE  FacadeInv'
  <2>1. /\ growth' \in GrowthStates /\ growth'.pc = "returning"
        /\ growth'.leases = growth.leases \ {x} /\ x \in Leases /\ growth.again \in BOOLEAN
    BY <1>2, <1>3, <1>6 DEF GrowthStates
  <2>2. /\ lease' \in [Leases -> {"none", "held", "reused", "destroyed"}]
        /\ lease'[x] # "held" /\ \A l \in Leases \ {x} : lease'[l] = lease[l]
        /\ spoiled' = spoiled /\ touched' \subseteq Leases
    BY <1>1, <1>6, <2>1, GiveBackGives
  <2>3. ASSUME NEW l \in Leases
        PROVE  \/ ReadyPart(l)' = ReadyPart(l) /\ lease'[l] = lease[l]
               \/ l \in growth.leases /\ l \notin growth'.leases /\ lease'[l] # "held"
    <3>1. CASE l = x BY <1>6, <2>1, <2>2, <3>1
    <3>2. CASE l # x BY <2>1, <2>2, <3>2 DEF ReadyPart
    <3> QED BY <3>1, <3>2
  <2> QED BY <1>1, <1>2, <1>5, <2>1, <2>2, <2>3, GrowthStep DEF ClientTypeOK
<1>7. CASE /\ growth.leases = {} /\ UNCHANGED <<lease, spoiled, touched>>
           /\ growth' = [growth EXCEPT !.pc = "idle", !.again = FALSE]
  <2>1. PICK e : e = [growth EXCEPT !.pc = "idle"] OBVIOUS
  <2>2. e \in GrowthStates /\ e.pc = "idle" /\ e.leases = {}
    BY <1>3, <1>7, <2>1 DEF GrowthStates
  <2>3. growth' = [e EXCEPT !.again = FALSE] BY <1>3, <1>7, <2>1 DEF GrowthStates
  <2>4. growth' \in GrowthStates /\ growth'.leases = {} BY <2>2, <2>3 DEF GrowthStates
  <2>5. \A l \in Leases : ReadyPart(l)' = ReadyPart(l) /\ lease'[l] = lease[l]
    BY <1>7, <2>4, ReadySame
  <2> QED BY <1>1, <1>2, <1>5, <1>7, <2>4, <2>5, GrowthStep DEF ClientTypeOK
<1> QED BY <1>6, <1>7 DEF GrowthReturns

(***************************************************************************)
(* closeAll()                                                              *)
(***************************************************************************)
LEMMA CloseAllKeeps ==
  ASSUME FacadeInv, CloseAll
  PROVE  FacadeInv'
<1>1. TypeOK /\ ClientTypeOK /\ ClaimsSound BY DEF FacadeInv, TypeOK
<1>2. /\ use.pooled /\ closing = "off" /\ closed' = TRUE /\ leased' = {}
      /\ closing' = "claims" /\ ClaimAll(leased) /\ KeepsClients
      /\ closeClaims' = {[client |-> c, lease |-> mine[c], last |-> FALSE] : c \in leased}
      /\ UNCHANGED <<lease, spoiled, touched, acquires, recycling, growth>>
      /\ owner' \in {"none", "active", "retiring", "retired"}
  BY <1>1 DEF CloseAll, AskToRetire, ClientTypeOK
<1>3. closeClaims = {} BY <1>1, <1>2 DEF ClaimsSound
<1>4. /\ leased \subseteq Managed /\ leased \subseteq Clients
      /\ \A c \in leased : mine'[c] = None /\ claimed'[c]
      /\ \A c \in Clients \ leased : mine'[c] = mine[c] /\ claimed'[c] = claimed[c]
  BY <1>2, ClaimAllGives
<1>5. closeClaims' \subseteq Claims
  <2>1. \A c \in leased : mine[c] \in Leases \cup {None} BY <1>1, <1>4 DEF ClientTypeOK
  <2>2. \A c \in leased : [client |-> c, lease |-> mine[c], last |-> FALSE] \in Claims
    BY <1>4, <2>1 DEF Claims
  <2> QED BY <1>2, <2>2
<1>6. ClaimsSound'
  <2>1. \A c \in Clients : claimed[c] => claimed'[c] BY <1>4
  <2>2. \A i \in DOMAIN recycling : recycling[i].client \in Clients
    <3>1. \A i \in DOMAIN recycling : recycling[i] \in Claims BY <1>1 DEF TypeOK
    <3> QED BY <3>1, Kinds DEF Claims
  <2>3. \A claim \in closeClaims' : claimed'[claim.client] BY <1>2, <1>4
  <2> QED BY <1>1, <1>2, <2>1, <2>2, <2>3 DEF ClaimsSound
<1>7. ASSUME NEW c \in Managed, NEW l \in Leases, HasClaim(c, l) PROVE HasClaim(c, l)'
  BY <1>2, <1>3, <1>7 DEF HasClaim
<1>8. ASSUME NEW c \in leased, NEW l \in Leases, mine[c] = l PROVE HasClaim(c, l)'
  <2>1. PICK claim : claim = [client |-> c, lease |-> mine[c], last |-> FALSE] OBVIOUS
  <2>2. claim \in closeClaims' /\ claim.client = c /\ claim.lease = l BY <1>2, <1>8, <2>1
  <2> QED BY <2>2 DEF HasClaim
<1>9. ASSUME NEW l \in Leases PROVE HeldOnce(l)'
  <2> DEFINE O == Holders(l) \ {<<"client", c>> : c \in leased}
             P == {<<"client", c>> : c \in {x \in leased : mine[x] = l}}
             P1 == {<<"close", claim>> : claim \in {x \in closeClaims' : x.lease = l}}
  <2>1. Holders(l) = O \cup P BY <1>4 DEF Holders
  <2>2. O \cap P = {} OBVIOUS
  <2>3. Holders(l)' = O \cup P1
    <3>1. {x \in Clients : mine'[x] = l} = {x \in Clients : mine[x] = l} \ leased
      BY <1>4, Kinds
    <3> QED BY <1>2, <1>3, <3>1 DEF Holders, KeepsClients
  <2>4. HeldOnce(l) BY DEF FacadeInv
  <2>5. CASE \E c \in leased : mine[c] = l
    <3>1. PICK c \in leased : mine[c] = l BY <2>5
    <3>2. \A d \in leased : mine[d] = l => d = c BY <1>4, <3>1, ClaimedOne
    <3>3. PICK claim : claim = [client |-> c, lease |-> mine[c], last |-> FALSE] OBVIOUS
    <3>4. {x \in closeClaims' : x.lease = l} = {claim} BY <1>2, <3>1, <3>2, <3>3
    <3>5. P # {} /\ P1 = {<<"close", claim>>} BY <3>1, <3>4
    <3> HIDE DEF O, P, P1
    <3>6. P # {} /\ (\E h : P1 = {h}) /\ lease'[l] = lease[l] BY <1>2, <3>5
    <3> QED BY <2>1, <2>2, <2>3, <2>4, <3>6, PartPasses
  <2>6. CASE ~\E c \in leased : mine[c] = l
    <3>1. P = {} /\ P1 = {} BY <1>2, <2>6
    <3> HIDE DEF O, P, P1
    <3>2. P1 = P /\ lease'[l] = lease[l] BY <1>2, <3>1
    <3> QED BY <2>1, <2>2, <2>3, <2>4, <3>2, PartPasses
  <2> QED BY <2>5, <2>6
<1>10. leased' = leased \ leased BY <1>2
<1> QED BY <1>1, <1>2, <1>5, <1>6, <1>7, <1>8, <1>9, <1>10, ClaimStep
        DEF TypeOK, ClientTypeOK

LEMMA CloseReturnsKeeps ==
  ASSUME FacadeInv, CloseReturns
  PROVE  FacadeInv'
<1>1. TypeOK /\ ClientTypeOK /\ ClaimsSound BY DEF FacadeInv, TypeOK
<1>2. /\ closing = "claims" /\ KeepsClients /\ KeepsBinding
      /\ UNCHANGED <<owner, closed, leased, acquires, recycling, growth, closing>>
  BY DEF CloseReturns
<1>3. PICK claim \in closeClaims :
       /\ closeClaims' = closeClaims \ {claim}
       /\ \/ claim.lease = None /\ UNCHANGED <<lease, spoiled, touched>>
          \/ claim.lease # None /\ TailIsOver(claim.client) /\ Destroy(claim.lease)
  BY DEF CloseReturns
<1>4. UNCHANGED <<use, queue, running, asked, state, mine, hasOwner, claimed, reusable>>
  BY <1>2 DEF KeepsClients, KeepsBinding, binding
<1>5. use.pooled BY <1>2, Pooled
<1>6. claim.lease \in Leases \cup {None} BY <1>1 DEF TypeOK, Claims
<1>7. /\ lease' \in [Leases -> {"none", "held", "reused", "destroyed"}]
      /\ spoiled' \subseteq Leases /\ touched' \subseteq Leases
      /\ \A l \in Leases : l # claim.lease => lease'[l] = lease[l]
      /\ claim.lease \in Leases => lease'[claim.lease] # "held"
  <2>1. CASE claim.lease = None /\ UNCHANGED <<lease, spoiled, touched>>
    BY <1>1, <2>1, Kinds DEF ClientTypeOK
  <2>2. CASE claim.lease # None /\ Destroy(claim.lease)
    BY <1>1, <1>6, <2>2, GiveBackGives DEF ClientTypeOK, Destroy
  <2> QED BY <1>3, <2>1, <2>2
<1>8. TypeOK'
  <2>1. ClientTypeOK' BY <1>1, <1>2, <1>4, <1>7 DEF ClientTypeOK
  <2> QED BY <1>1, <1>2, <1>3, <2>1 DEF TypeOK
<1>9. ClaimsSound' BY <1>1, <1>2, <1>3, <1>4 DEF ClaimsSound
<1>10. ASSUME NEW c \in Managed PROVE SessionHeld(c)'
  <2>1. c \in Clients /\ ClientSound(c) /\ SessionHeld(c) /\ running[c] \in Runs
    BY <1>1, Kinds DEF FacadeInv, ClientTypeOK
  <2>2. PICK x : x = running[c].lease OBVIOUS
  <2>3. SUFFICES ASSUME AtSession(c) PROVE mine[c] = x \/ HasClaim(c, x)'
    BY <1>4, <2>2 DEF SessionHeld, AtSession, HasClaim
  <2>4. x \in Leases BY <2>1, <2>2, <2>3 DEF ClientSound, Runs
  <2>5. mine[c] = x \/ HasClaim(c, x) BY <2>1, <2>2, <2>3 DEF SessionHeld
  <2>6. ASSUME claim.client = c, claim.lease = x PROVE FALSE
    <3>1. running[c] = Idle BY <1>3, <2>4, <2>6, Kinds DEF TailIsOver
    <3> QED BY <2>3, <3>1 DEF AtSession, Idle
  <2> QED BY <1>2, <1>3, <2>5, <2>6 DEF HasClaim
<1>11. ASSUME NEW l \in Leases PROVE HeldOnce(l)'
  <2> DEFINE P == {h \in {<<"close", claim>>} : claim.lease = l}
             P1 == {}
             O == Holders(l) \ {<<"close", claim>>}
  <2>1. Holders(l) = O \cup P BY <1>3 DEF Holders
  <2>2. O \cap P = {} OBVIOUS
  <2>3. Holders(l)' = O \cup P1
    <3>1. {x \in closeClaims' : x.lease = l} = {x \in closeClaims : x.lease = l} \ {claim}
      BY <1>3
    <3> QED BY <1>2, <1>4, <3>1 DEF Holders
  <2>4. HeldOnce(l) BY DEF FacadeInv
  <2>5. \/ P1 = P /\ lease'[l] = lease[l]
        \/ P # {} /\ P1 = {} /\ lease'[l] # "held"
    BY <1>7
  <2> HIDE DEF O, P, P1
  <2> QED BY <2>1, <2>2, <2>3, <2>4, <2>5, PartPasses
<1>12. ASSUME NEW a \in AcquireCalls PROVE AcquireSound(a)'
  BY <1>2, <1>4 DEF FacadeInv, AcquireSound, AtRest
<1> QED BY <1>2, <1>5, <1>8, <1>9, <1>10, <1>11, <1>12, QuietStep

LEMMA CloseGoesOnKeeps ==
  ASSUME FacadeInv, CloseGoesOn
  PROVE  FacadeInv'
<1>1. TypeOK /\ ClientTypeOK /\ ClaimsSound BY DEF FacadeInv, TypeOK
<1>2. /\ closing # "off" /\ closing' \in {"tails", "retiring", "done"}
      /\ UNCHANGED <<use, owner, lease, spoiled, touched, state, mine, hasOwner, claimed,
                     reusable, queue, running, asked, closed, leased, acquires, recycling,
                     growth, closeClaims>>
  BY DEF CloseGoesOn, clientVars, ownerVars, binding
<1>3. use.pooled BY <1>2, Pooled
<1>4. TypeOK' BY <1>1, <1>2 DEF TypeOK, ClientTypeOK
<1>5. ClaimsSound' BY <1>1, <1>2 DEF ClaimsSound
<1>6. \A c \in Managed : SessionHeld(c)'
  BY <1>2, Kinds DEF FacadeInv, SessionHeld, AtSession, HasClaim
<1>7. \A a \in AcquireCalls : AcquireSound(a)'
  BY <1>2 DEF FacadeInv, AcquireSound, AtRest
<1>8. ASSUME NEW l \in Leases PROVE HeldOnce(l)'
  <2>1. Holders(l)' = Holders(l) BY <1>2 DEF Holders
  <2>2. HeldOnce(l) BY DEF FacadeInv
  <2> QED BY <1>2, <2>1, <2>2 DEF HeldOnce
<1> QED BY <1>2, <1>3, <1>4, <1>5, <1>6, <1>7, <1>8, QuietStep
        DEF KeepsClients, KeepsBinding, binding

(***************************************************************************)
(* The invariant holds                                                     *)
(***************************************************************************)
LEMMA InitFacade == Init => FacadeInv
<1> SUFFICES ASSUME Init PROVE FacadeInv
  OBVIOUS
<1> USE DEF Init, ClientInit
<1>1. TypeOK
  <2>1. /\ use \in Workloads /\ use.ops \in Nat /\ asked \in 0..use.ops BY Kinds
  <2>2. running \in [Clients -> Runs] BY Kinds
  <2>3. queue \in [Clients -> Seq(Operations)] OBVIOUS
  <2>4. ClientTypeOK BY <2>1, <2>2, <2>3 DEF ClientTypeOK
  <2>5. NotAcquiring \in [leases : SUBSET Leases, infos : 0..MaxConnections,
                          pc : {"off", "acquiring", "describing", "undoing", "done"}]
    BY ClientAssumption DEF NotAcquiring
  <2>6. growth \in [asked : Nat, jobs : Nat, leases : SUBSET Leases,
                    again : BOOLEAN, pc : {"idle", "acquiring", "returning"}]
    BY DEF NotGrowing
  <2>7. recycling \in Seq(Claims) OBVIOUS
  <2> QED BY <2>4, <2>5, <2>6, <2>7 DEF TypeOK
<1>2. ClaimsSound BY DEF ClaimsSound, NotGrowing
<1>3. \A c \in Clients : AtRest(c) /\ queue[c] = <<>> BY DEF AtRest
<1>4. OneKind BY <1>3, Kinds DEF OneKind
<1>5. DirectSound BY Kinds DEF DirectSound, Idle
<1>6. \A c \in Clients : ClientSound(c) /\ SessionHeld(c)
  BY <1>3 DEF ClientSound, SessionHeld, AtSession, EmptyHanded, StepsOf, Taken, AtRest, Idle
<1>7. \A c \in Managed : ManagedSound(c) BY <1>3, Kinds DEF ManagedSound, AtRest, Idle
<1>8. ASSUME NEW a \in AcquireCalls PROVE AcquireSound(a)
  <2>1. a \subseteq Clients BY <1>1, CallFacts
  <2> QED BY <1>3, <2>1 DEF AcquireSound, NotAcquiring
<1>9. ASSUME NEW l \in Leases PROVE HeldOnce(l)
  <2>1. /\ \A c \in Clients : mine[c] # l /\ running[c].lease # l
        /\ \A a \in AcquireCalls : acquires[a].leases = {}
        /\ growth.leases = {} /\ recycling = <<>> /\ closeClaims = {}
    BY Kinds DEF Idle, NotAcquiring, NotGrowing
  <2>2. Holders(l) = {} BY <2>1 DEF Holders
  <2> QED BY <2>2 DEF HeldOnce
<1> QED BY <1>1, <1>2, <1>4, <1>5, <1>6, <1>7, <1>8, <1>9 DEF FacadeInv

LEMMA NextFacade == FacadeInv /\ [Next]_vars => FacadeInv'
<1> SUFFICES ASSUME FacadeInv, [Next]_vars PROVE FacadeInv'
  OBVIOUS
<1>1. CASE ClientSteps BY <1>1, ClientStepsKeep
<1>2. ASSUME NEW a \in AcquireCalls,
             Acquire(a) \/ AcquireGranted(a) \/ AcquireDescribes(a) \/ AcquireUndoes(a)
      PROVE  FacadeInv'
  BY <1>2, AcquireKeeps, AcquireGrantedKeeps, AcquireDescribesKeeps, AcquireUndoesKeeps
<1>3. CASE \E S \in SUBSET leased : Release(S) BY <1>3, ReleaseKeeps
<1>4. CASE Recycle BY <1>4, RecycleKeeps
<1>5. CASE AskReady \/ GrowthBegins \/ GrowthGranted \/ GrowthReturns
  BY <1>5, AskReadyKeeps, GrowthBeginsKeeps, GrowthGrantedKeeps, GrowthReturnsKeeps
<1>6. CASE CloseAll \/ CloseReturns \/ CloseGoesOn
  BY <1>6, CloseAllKeeps, CloseReturnsKeeps, CloseGoesOnKeeps
<1>7. CASE UNCHANGED vars
  <2>1. UNCHANGED <<use, owner, lease, spoiled, touched, state, mine, hasOwner, claimed,
                    reusable, queue, running, asked, closed, leased, acquires, recycling,
                    growth, closing, closeClaims>>
    BY <1>7 DEF vars, clientVars, ownerVars, binding, poolVars
  <2>2. TypeOK' /\ ClaimsSound' /\ OneKind' /\ DirectSound'
    BY <2>1 DEF FacadeInv, TypeOK, ClientTypeOK, ClaimsSound, OneKind, DirectSound, AtRest
  <2>3. /\ \A c \in Clients : ClientSound(c)' /\ SessionHeld(c)'
        /\ \A c \in Managed : ManagedSound(c)'
    BY <2>1 DEF FacadeInv, ClientSound, SessionHeld, ManagedSound, AtSession, EmptyHanded,
                Claimable, HasClaim
  <2>4. \A a \in AcquireCalls : AcquireSound(a)' BY <2>1 DEF FacadeInv, AcquireSound, AtRest
  <2>5. ASSUME NEW l \in Leases PROVE HeldOnce(l)'
    <3>1. Holders(l)' = Holders(l) BY <2>1 DEF Holders
    <3>2. HeldOnce(l) BY DEF FacadeInv
    <3> QED BY <2>1, <3>1, <3>2 DEF HeldOnce
  <2> QED BY <2>2, <2>3, <2>4, <2>5 DEF FacadeInv
<1> QED BY <1>1, <1>2, <1>3, <1>4, <1>5, <1>6, <1>7 DEF Next, PoolProceeds

\* In every reachable state the fields of every client fit the await its
\* operation stands at (#operationTail, node-rfc-client.ts), a pool's lists of
\* claims and of clients agree with the clients, and each lease lent has one holder.
THEOREM FacadeInvariant == Spec => []FacadeInv
<1> QED BY InitFacade, NextFacade, PTL DEF Spec

\* A lease that is lent belongs to exactly one client, claim, call or retry, and
\* one that is not to none.
LEMMA OneHolderOf == FacadeInv => OneHolder
<1> SUFFICES ASSUME FacadeInv PROVE OneHolder
  OBVIOUS
<1>1. TypeOK /\ ClientTypeOK BY DEF FacadeInv, TypeOK
<1>2. ASSUME NEW l \in Leases
      PROVE  Cardinality(Holders(l)) = (IF lease[l] = "held" THEN 1 ELSE 0)
  <2>1. HeldOnce(l) BY DEF FacadeInv
  <2>2. CASE lease[l] = "held"
    <3>1. PICK h : Holders(l) = {h} BY <2>1, <2>2 DEF HeldOnce
    <3>2. Cardinality({h}) = 1 BY FS_Singleton
    <3> QED BY <2>2, <3>1, <3>2
  <2>3. CASE lease[l] # "held"
    <3>1. Holders(l) = {} BY <2>1, <2>3 DEF HeldOnce
    <3>2. Cardinality({}) = 0 BY FS_EmptySet
    <3> QED BY <2>3, <3>1, <3>2
  <2> QED BY <2>2, <2>3
<1>3. ASSUME NEW c \in Clients, running[c].pc \in {"session", "resetting"}
      PROVE  lease[running[c].lease] = "held"
  <2>1. /\ ClientSound(c) /\ SessionHeld(c) /\ running[c] \in Runs /\ AtSession(c)
    BY <1>1, <1>3 DEF FacadeInv, ClientTypeOK, AtSession
  <2>2. PICK l \in Leases : l = running[c].lease BY <2>1 DEF ClientSound, Runs
  <2>3. mine[c] = l \/ HasClaim(c, l) BY <2>1, <2>2 DEF SessionHeld
  <2>4. Holders(l) # {}
    BY <2>3 DEF Holders, HasClaim
  <2> QED BY <2>2, <2>4 DEF FacadeInv, HeldOnce
<1>4. ASSUME ~use.pooled, state[Direct] \in {"closed", "faulted"}, TailIsOver(Direct)
      PROVE  owner \in {"none", "retired"} /\ Held = {}
  <2>1. owner \in {"none", "retired"} BY <1>4 DEF FacadeInv, DirectSound, TailIsOver
  <2>2. ASSUME NEW l \in Leases PROVE Holders(l) = {}
    <3>1. \A c \in Clients : mine[c] = None /\ running[c] = Idle
      BY <1>4, Kinds DEF FacadeInv, ClientSound, OneKind, AtRest, TailIsOver, Clients
    <3>2. \A c \in Clients : mine[c] # l /\ running[c].pc \notin Taken
      BY <3>1, Kinds DEF Idle, Taken
    <3>3. \A a \in AcquireCalls : acquires[a].leases = {}
      <4>1. use.calls = {} BY <1>1, <1>4, PoolAssumption DEF ClientTypeOK
      <4> QED BY <4>1 DEF FacadeInv, AcquireSound, NotAcquiring
    <3>4. recycling = <<>> /\ closeClaims = {} /\ growth.leases = {}
      BY <1>4 DEF FacadeInv, OneKind, ClaimsSound, NotGrowing
    <3> QED BY <3>2, <3>3, <3>4 DEF Holders
  <2>3. Held = {} BY <2>2 DEF Held, FacadeInv, HeldOnce
  <2> QED BY <2>1, <2>3
<1>5. RestsEmptyHanded
  <2>1. ASSUME NEW c \in Clients
        PROVE  claimed[c] \/ state[c] \in {"closed", "faulted"} => mine[c] = None
    BY DEF FacadeInv, ClientSound
  <2>2. \A c \in leased : Claimable(c)
    BY <1>1, Kinds DEF FacadeInv, ClientSound, TypeOK
  <2> QED BY <1>4, <2>1, <2>2 DEF RestsEmptyHanded
<1> QED BY <1>1, <1>2, <1>3, <1>5 DEF OneHolder

\* A session is never held twice nor lost: whatever release(), closeAll(), a
\* failing operation, its replacement and acquire() hand on to one another, each
\* lent lease is given back exactly once (#replaceFatalLease, node-rfc-client.ts;
\* #recycleClaim and closeAll, node-rfc-pool.ts).
THEOREM EverySessionHasOneHolder == Spec => []OneHolder
<1> QED BY FacadeInvariant, OneHolderOf, PTL

(***************************************************************************)
(* Nothing is left behind                                                  *)
(***************************************************************************)
\* A lease that no call has been made on
Pristine(l) ==
  \/ lease[l] \in {"none", "reused"}
  \/ \E a \in AcquireCalls : l \in acquires[a].leases
  \/ l \in growth.leases
  \/ \E c \in Clients : running[c].pc = "describing" /\ running[c].lease = l

\* No call has been made on such a lease; no client holds one that a call spoiled;
\* a claim on a spoiled one knows; and a stateless client holds one that was called
\* on only while it resets it.
CleanInv ==
  /\ \A l \in Leases : Pristine(l) => l \notin spoiled \cup touched
  /\ \A c \in Clients : mine[c] \notin spoiled
  /\ \A i \in DOMAIN recycling :
       recycling[i].lease \in spoiled => ~reusable[recycling[i].client]
  /\ Stateless => \A c \in Clients : mine[c] \in touched =>
       running[c].pc = "resetting" /\ running[c].lease = mine[c]

\* What a step may do that makes no call
LEMMA NotWorse ==
  ASSUME FacadeInv, CleanInv, spoiled' = spoiled, touched' \subseteq touched,
         \A l \in Leases : Pristine(l)' => Pristine(l) \/ l \notin spoiled' \cup touched',
         \A c \in Clients :
           \/ mine'[c] = None
           \/ mine'[c] = mine[c] /\ (running'[c] = running[c] \/ running[c].pc # "resetting")
           \/ mine'[c] \in Leases /\ Pristine(mine'[c]),
         \A i \in DOMAIN recycling' :
           \/ \E j \in DOMAIN recycling :
                /\ recycling'[i].lease = recycling[j].lease
                /\ recycling'[i].client = recycling[j].client
                /\ reusable'[recycling[j].client] = reusable[recycling[j].client]
           \/ \E c \in Clients : recycling'[i].lease = mine[c]
  PROVE  CleanInv'
<1>1. None \notin spoiled /\ None \notin touched
  BY Kinds DEF FacadeInv, TypeOK, ClientTypeOK
<1>2. \A l \in Leases : Pristine(l)' => l \notin spoiled' \cup touched'
  BY DEF CleanInv
<1> HIDE DEF Pristine
<1>3. \A c \in Clients : mine'[c] \notin spoiled' BY <1>1 DEF CleanInv
<1>4. \A i \in DOMAIN recycling' :
        recycling'[i].lease \in spoiled' => ~reusable'[recycling'[i].client]
  BY DEF CleanInv
<1>5. ASSUME Stateless, NEW c \in Clients, mine'[c] \in touched'
      PROVE  running'[c].pc = "resetting" /\ running'[c].lease = mine'[c]
  BY <1>1, <1>5 DEF CleanInv
<1> QED BY <1>2, <1>3, <1>4, <1>5 DEF CleanInv

LEMMA ClaimFacts ==
  ASSUME TypeOK, NEW i \in DOMAIN recycling
  PROVE  recycling[i] \in Claims /\ recycling[i].client \in Clients
<1>1. recycling[i] \in Claims BY DEF TypeOK
<1> QED BY <1>1, Kinds DEF Claims

LEMMA QuietIsClean ==
  ASSUME FacadeInv, CleanInv, NEW c \in Clients, Quiet(c)
  PROVE  CleanInv'
<1>1. /\ UNCHANGED <<spoiled, touched, acquires, growth, recycling, claimed>>
      /\ \A w \in Clients \ {c} :
           running'[w] = running[w] /\ mine'[w] = mine[w] /\ reusable'[w] = reusable[w]
  BY DEF Quiet, Frame, poolVars
<1>2. ASSUME NEW l \in Leases, Pristine(l)' PROVE Pristine(l)
  <2>1. CASE lease'[l] \in {"none", "reused"} BY <2>1 DEF Quiet, Pristine
  <2>2. CASE (\E a \in AcquireCalls : l \in acquires[a].leases) \/ l \in growth.leases
    BY <2>2 DEF Pristine
  <2>3. ASSUME NEW w \in Clients, running'[w].pc = "describing", running'[w].lease = l
        PROVE  Pristine(l)
    BY <1>1, <2>3 DEF Pristine, Quiet
  <2> QED BY <1>1, <1>2, <2>1, <2>2, <2>3 DEF Pristine
<1>3. ASSUME NEW w \in Clients
      PROVE  \/ mine'[w] = None
             \/ mine'[w] = mine[w]
                /\ (running'[w] = running[w] \/ running[w].pc # "resetting")
             \/ mine'[w] \in Leases /\ Pristine(mine'[w])
  <2>1. CASE w # c BY <1>1, <2>1
  <2>2. CASE w = c /\ running[c].pc = "describing" /\ mine'[c] = running[c].lease
    <3>1. running[c].lease \in Leases
      BY <2>2 DEF FacadeInv, ClientSound, Taken, TypeOK, ClientTypeOK, Runs
    <3> QED BY <2>2, <3>1 DEF Pristine
  <2> QED BY <2>1, <2>2 DEF Quiet
<1>4. \A i \in DOMAIN recycling :
        reusable'[recycling[i].client] = reusable[recycling[i].client]
  <2>1. ASSUME NEW i \in DOMAIN recycling
        PROVE  claimed[recycling[i].client] /\ recycling[i].client \in Clients
    BY ClaimFacts DEF FacadeInv, ClaimsSound
  <2> QED BY <1>1, <2>1 DEF Quiet
<1> QED BY <1>1, <1>2, <1>3, <1>4, NotWorse

\* A session under an operation is the client's own or the one of its claim.
LEMMA SessionOwned ==
  ASSUME FacadeInv, NEW c \in Clients, AtSession(c), NEW l \in Leases, l = running[c].lease
  PROVE  /\ ~Pristine(l)
         /\ \A d \in Clients : mine[d] = l => d = c
         /\ \A i \in DOMAIN recycling :
              recycling[i].lease = l => recycling[i].client = c /\ mine[c] # l
         /\ mine[c] # l => claimed[c] /\ mine[c] = None
<1>1. mine[c] = l \/ HasClaim(c, l) BY DEF FacadeInv, SessionHeld
<1> DEFINE Claiming == {<<"claim", i>> : i \in {x \in DOMAIN recycling :
                                                 recycling[x].lease = l}}
<1>2. PICK h \in Holders(l) :
        \/ h = <<"client", c>> /\ mine[c] = l
        \/ \E i \in DOMAIN recycling : h = <<"claim", i>> /\ recycling[i].client = c
        \/ \E claim \in closeClaims : h = <<"close", claim>> /\ claim.client = c
  BY <1>1 DEF HasClaim, Holders
<1>3. Holders(l) = {h} /\ lease[l] = "held" BY <1>2 DEF FacadeInv, HeldOnce
<1>4. ~Pristine(l)
  <2>1. ASSUME NEW a \in AcquireCalls, l \in acquires[a].leases PROVE FALSE
    <3>1. <<"acquire", a>> \in Holders(l) BY <2>1 DEF Holders
    <3>2. h = <<"acquire", a>> BY <1>3, <3>1
    <3> QED BY <1>2, <3>2
  <2>2. ASSUME l \in growth.leases PROVE FALSE
    <3>1. <<"ready", l>> \in Holders(l) BY <2>2 DEF Holders
    <3>2. h = <<"ready", l>> BY <1>3, <3>1
    <3> QED BY <1>2, <3>2
  <2>3. ASSUME NEW d \in Clients, running[d].pc = "describing", running[d].lease = l
        PROVE  FALSE
    <3>1. <<"operation", d>> \in Holders(l) BY <2>3 DEF Holders, Taken
    <3>2. h = <<"operation", d>> BY <1>3, <3>1
    <3> QED BY <1>2, <3>2
  <2> QED BY <1>3, <2>1, <2>2, <2>3 DEF Pristine
<1>5. ASSUME NEW d \in Clients, mine[d] = l PROVE d = c
  <2>1. <<"client", d>> \in Holders(l) BY <1>5 DEF Holders
  <2>2. h = <<"client", d>> BY <1>3, <2>1
  <2> QED BY <1>2, <2>2
<1>6. ASSUME NEW i \in DOMAIN recycling, recycling[i].lease = l
      PROVE  recycling[i].client = c /\ mine[c] # l
  <2>1. <<"claim", i>> \in Holders(l) BY <1>6 DEF Holders
  <2>2. h = <<"claim", i>> BY <1>3, <2>1
  <2>3. recycling[i].client = c BY <1>2, <2>2
  <2>4. mine[c] # l
    <3> SUFFICES ASSUME mine[c] = l PROVE FALSE
      OBVIOUS
    <3>1. <<"client", c>> \in Holders(l) BY DEF Holders
    <3>2. h = <<"client", c>> BY <1>3, <3>1
    <3> QED BY <2>2, <3>2
  <2> QED BY <2>3, <2>4
<1>7. mine[c] # l => claimed[c] /\ mine[c] = None
  <2> SUFFICES ASSUME mine[c] # l PROVE claimed[c] /\ mine[c] = None
    OBVIOUS
  <2>1. claimed[c] BY <1>1 DEF HasClaim, FacadeInv, ClaimsSound
  <2> QED BY <2>1 DEF FacadeInv, ClientSound
<1> QED BY <1>4, <1>5, <1>6, <1>7

\* What a failing call leaves: the session is out of the client's hands, and a
\* claim on it knows that it must not be used again.
LEMMA CallsAreClean ==
  ASSUME FacadeInv, CleanInv, NEW c \in Clients, MakesCall(c), UNCHANGED poolVars
  PROVE  CleanInv'
<1>1. TypeOK /\ ClientTypeOK /\ ClientSound(c) BY DEF FacadeInv, TypeOK
<1>2. AtSession(c) BY DEF MakesCall, Invoked, ResetDone, AtStep, AtSession
<1>3. PICK l \in Leases : l = running[c].lease
  BY <1>1, <1>2 DEF ClientSound, ClientTypeOK, Runs
<1>4. /\ ~Pristine(l)
      /\ \A d \in Clients : mine[d] = l => d = c
      /\ \A i \in DOMAIN recycling :
           recycling[i].lease = l => recycling[i].client = c /\ mine[c] # l
      /\ mine[c] # l => claimed[c] /\ mine[c] = None
  BY <1>2, <1>3, SessionOwned
<1>5. None \notin spoiled /\ None \notin touched /\ None # l
  BY <1>1, Kinds DEF ClientTypeOK
<1>6. /\ UNCHANGED <<lease, acquires, growth, recycling, claimed>>
      /\ spoiled' \subseteq spoiled \cup {l} /\ touched' \subseteq touched \cup {l}
  BY <1>3 DEF MakesCall, Invoked, ResetDone, poolVars
<1>7. SessionStep(c) BY SessionSteps DEF MakesCall
<1>8. /\ running' \in [Clients -> Runs]
      /\ \A w \in Clients \ {c} : running'[w] = running[w]
      /\ running'[c].pc # "describing"
  <2>1. Ends(c) \/ \E pc \in {"evicting", "resetting"} : StepsTo(c, pc)
    BY <1>7 DEF SessionStep, Fatal
  <2>2. ASSUME NEW pc \in {"evicting", "resetting"}, StepsTo(c, pc)
        PROVE  /\ running' \in [Clients -> Runs]
               /\ \A w \in Clients \ {c} : running'[w] = running[w]
               /\ running'[c].pc # "describing"
    BY <1>1, <2>2, StepsToGives DEF Pcs
  <2> QED BY <1>1, <2>1, <2>2, EndsGives
<1>9. /\ \A d \in Clients \ {c} : mine'[d] = mine[d]
      /\ \A d \in Clients : reusable'[d] => reusable[d]
      /\ mine'[c] \in {mine[c], None}
      /\ Fatal(c) => mine'[c] = None /\ (mine[c] # l => ~reusable'[c])
  <2>1. CASE ~Fatal(c) BY <1>7, <2>1 DEF SessionStep
  <2>2. CASE mine[c] # l /\ MarksClaim(c) /\ UNCHANGED mine
    BY <1>1, <1>4, <2>2 DEF MarksClaim, ClientTypeOK
  <2>3. CASE /\ mine[c] = l /\ reusable' = [reusable EXCEPT ![c] = FALSE]
             /\ mine' = [mine EXCEPT ![c] = None]
    BY <1>1, <2>3 DEF ClientTypeOK
  <2> QED BY <1>3, <2>1, <2>2, <2>3 DEF Fatal
<1>10. l \in spoiled' => Fatal(c) \/ l \in spoiled
  BY <1>3 DEF MakesCall, Invoked, ResetDone
<1>11. ASSUME NEW x \in Leases, Pristine(x)' PROVE x \notin spoiled' \cup touched'
  <2>1. Pristine(x) BY <1>6, <1>8, <1>11 DEF Pristine
  <2>2. x # l BY <1>4, <2>1
  <2> QED BY <1>6, <2>1, <2>2 DEF CleanInv
<1>12. ASSUME NEW d \in Clients PROVE mine'[d] \notin spoiled'
  <2>1. CASE mine'[d] = l
    <3>1. d = c /\ mine[c] = l BY <1>4, <1>5, <1>9, <2>1
    <3>2. ~Fatal(c) BY <1>5, <1>9, <2>1, <3>1
    <3> QED BY <1>10, <2>1, <3>1, <3>2 DEF CleanInv
  <2>2. CASE mine'[d] # l
    <3>1. mine'[d] \in {mine[d], None} BY <1>9
    <3> QED BY <1>5, <1>6, <2>2, <3>1 DEF CleanInv
  <2> QED BY <2>1, <2>2
<1>13. ASSUME NEW i \in DOMAIN recycling, recycling[i].lease \in spoiled'
       PROVE  ~reusable'[recycling[i].client]
  <2>1. recycling[i].client \in Clients BY <1>1, ClaimFacts
  <2>2. CASE recycling[i].lease \in spoiled BY <1>9, <2>1, <2>2 DEF CleanInv
  <2>3. CASE recycling[i].lease \notin spoiled
    <3>1. recycling[i].lease = l BY <1>6, <1>13, <2>3
    <3>2. Fatal(c) BY <1>10, <1>13, <2>3, <3>1
    <3> QED BY <1>4, <1>9, <3>1, <3>2
  <2> QED BY <2>2, <2>3
<1>14. ASSUME Stateless, NEW d \in Clients, mine'[d] \in touched'
       PROVE  running'[d].pc = "resetting" /\ running'[d].lease = mine'[d]
  <2>1. CASE d # c
    <3>1. mine[d] \in touched BY <1>4, <1>6, <1>9, <1>14, <2>1
    <3> QED BY <1>8, <1>9, <1>14, <2>1, <3>1 DEF CleanInv
  <2>2. CASE d = c
    <3>1. mine'[c] # None /\ mine'[c] = mine[c] /\ mine[c] = l
      BY <1>4, <1>5, <1>6, <1>9, <1>14, <2>2
    <3>2. ~Fatal(c) BY <1>9, <3>1
    <3>3. ASSUME NEW outcome \in Outcomes, Invoked(c, outcome)
          PROVE  running'[c].pc = "resetting" /\ running'[c].lease = l
      <4>1. /\ running[c].pc = "session" /\ outcome # "fatal"
            /\ IF running[c].op = "call" /\ MustReset(outcome)
               THEN StepsTo(c, "resetting") ELSE Ends(c)
            /\ touched' = IF running[c].op = "call" /\ outcome # "unsent"
                          THEN touched \cup {l} ELSE touched
        BY <1>3, <3>2, <3>3 DEF Invoked, AtStep
      <4>2. l \notin touched BY <1>14, <3>1, <4>1 DEF CleanInv
      <4>3. running[c].op = "call" /\ outcome # "unsent" BY <1>14, <2>2, <3>1, <4>1, <4>2
      <4>4. StepsTo(c, "resetting") BY <1>14, <4>1, <4>3 DEF MustReset, Outcomes
      <4> QED BY <1>1, <1>3, <4>4, StepsToGives DEF Pcs
    <3>4. ASSUME ResetDone(c) PROVE FALSE
      <4>1. touched' = touched \ {l} BY <1>3, <3>2, <3>4 DEF ResetDone
      <4> QED BY <1>14, <2>2, <3>1, <4>1
    <3> QED BY <2>2, <3>1, <3>3, <3>4 DEF MakesCall
  <2> QED BY <2>1, <2>2
<1>15. \A i \in DOMAIN recycling' :
         recycling'[i].lease \in spoiled' => ~reusable'[recycling'[i].client]
  BY <1>6, <1>13
<1> QED BY <1>11, <1>12, <1>14, <1>15 DEF CleanInv

(***************************************************************************)
(* The pool makes no calls                                                 *)
(***************************************************************************)
LEMMA PoolNotWorse ==
  ASSUME FacadeInv, CleanInv, UNCHANGED <<running, reusable>>,
         spoiled' = spoiled, touched' \subseteq touched,
         \A l \in Leases : lease'[l] \in {"none", "reused"} =>
           lease'[l] = lease[l] \/ l \notin spoiled' \cup touched',
         \A a \in AcquireCalls : \A l \in acquires'[a].leases : Pristine(l),
         \A l \in growth'.leases : Pristine(l),
         \A c \in Clients : \/ mine'[c] = None \/ mine'[c] = mine[c]
                            \/ mine'[c] \in Leases /\ Pristine(mine'[c]),
         \A i \in DOMAIN recycling' :
           \/ \E j \in DOMAIN recycling : /\ recycling'[i].lease = recycling[j].lease
                                          /\ recycling'[i].client = recycling[j].client
           \/ \E c \in Clients : recycling'[i].lease = mine[c]
  PROVE  CleanInv'
<1>1. ASSUME NEW l \in Leases, Pristine(l)'
      PROVE  Pristine(l) \/ l \notin spoiled' \cup touched'
  <2>1. CASE lease'[l] \in {"none", "reused"} BY <2>1 DEF Pristine
  <2>2. CASE lease'[l] \notin {"none", "reused"}
    BY <1>1, <2>2 DEF Pristine
  <2> QED BY <2>1, <2>2
<1>2. \A c \in Clients :
        \/ mine'[c] = None
        \/ mine'[c] = mine[c] /\ (running'[c] = running[c] \/ running[c].pc # "resetting")
        \/ mine'[c] \in Leases /\ Pristine(mine'[c])
  OBVIOUS
<1>3. \A i \in DOMAIN recycling' :
        \/ \E j \in DOMAIN recycling :
             /\ recycling'[i].lease = recycling[j].lease
             /\ recycling'[i].client = recycling[j].client
             /\ reusable'[recycling[j].client] = reusable[recycling[j].client]
        \/ \E c \in Clients : recycling'[i].lease = mine[c]
  OBVIOUS
<1> HIDE DEF Pristine
<1> QED BY <1>1, <1>2, <1>3, NotWorse

\* What the pool holds already
LEMMA PoolHoldsPristine ==
  /\ \A a \in AcquireCalls : \A l \in acquires[a].leases : Pristine(l)
  /\ \A l \in growth.leases : Pristine(l)
BY DEF Pristine

\* The steps that neither give leases to clients nor take them away
LEMMA PoolQuiet ==
  ASSUME FacadeInv, CleanInv, KeepsClients, KeepsBinding,
         spoiled' = spoiled, touched' \subseteq touched,
         \A l \in Leases : lease'[l] \in {"none", "reused"} =>
           lease'[l] = lease[l] \/ l \notin spoiled' \cup touched',
         acquires' = acquires \/ \A a \in AcquireCalls :
                                   \A l \in acquires'[a].leases : Pristine(l),
         growth'.leases = growth.leases \/ \A l \in growth'.leases : Pristine(l),
         recycling' = recycling \/ \A i \in DOMAIN recycling' :
           i + 1 \in DOMAIN recycling /\ recycling'[i] = recycling[i + 1]
  PROVE  CleanInv'
<1>1. UNCHANGED <<running, reusable, mine>>
  BY DEF KeepsClients, KeepsBinding, binding
<1>2. \A a \in AcquireCalls : \A l \in acquires'[a].leases : Pristine(l)
  BY PoolHoldsPristine
<1>3. \A l \in growth'.leases : Pristine(l) BY PoolHoldsPristine
<1>4. \A i \in DOMAIN recycling' : \E j \in DOMAIN recycling :
        /\ recycling'[i].lease = recycling[j].lease
        /\ recycling'[i].client = recycling[j].client
  OBVIOUS
<1> HIDE DEF Pristine
<1> QED BY <1>1, <1>2, <1>3, <1>4, PoolNotWorse

LEMMA AcquiresAreClean ==
  ASSUME FacadeInv, CleanInv, NEW a \in AcquireCalls,
         Acquire(a) \/ AcquireGranted(a) \/ AcquireDescribes(a) \/ AcquireUndoes(a)
  PROVE  CleanInv'
<1>1. TypeOK /\ ClientTypeOK BY DEF FacadeInv, TypeOK
<1>2. acquires \in [AcquireCalls -> CallStates] BY <1>1, CallFacts
<1>3. ASSUME KeepsClients, KeepsBinding, NEW e \in CallStates, UNCHANGED <<growth, recycling>>,
             spoiled' = spoiled, touched' = touched,
             acquires' = [acquires EXCEPT ![a] = e], \A l \in e.leases : Pristine(l),
             \A l \in Leases : lease'[l] \in {"none", "reused"} => lease'[l] = lease[l]
      PROVE  CleanInv'
  <2>1. acquires'[a] = e /\ \A b \in AcquireCalls \ {a} : acquires'[b] = acquires[b]
    BY <1>1, <1>3, CallStep
  <2>2. \A b \in AcquireCalls : \A l \in acquires'[b].leases : Pristine(l)
    BY <1>3, <2>1, PoolHoldsPristine
  <2> HIDE DEF Pristine
  <2> QED BY <1>3, <2>2, PoolQuiet
<1>4. \A pc \in {"off", "acquiring", "describing", "undoing", "done"} :
        CallGoes(a, pc) =>
          \E e \in CallStates : /\ acquires' = [acquires EXCEPT ![a] = e]
                                /\ \A l \in e.leases : Pristine(l)
  BY <1>1, CallGoesGives, PoolHoldsPristine
<1>5. CASE Acquire(a)
  <2>1. /\ KeepsClients /\ KeepsBinding /\ UNCHANGED <<growth, recycling>>
        /\ UNCHANGED <<lease, spoiled, touched>>
        /\ CallGoes(a, "acquiring") \/ CallGoes(a, "done")
    BY <1>5 DEF Acquire, KeepsRest
  <2> QED BY <1>3, <1>4, <2>1
<1>6. CASE AcquireGranted(a)
  <2>1. KeepsClients /\ KeepsBinding /\ UNCHANGED <<growth, recycling>>
    BY <1>6 DEF AcquireGranted, KeepsRest
  <2>2. CASE CallGoes(a, "done") /\ UNCHANGED ownerVars
    BY <1>3, <1>4, <2>1, <2>2 DEF ownerVars
  <2>3. ASSUME NEW S \in SUBSET Leases, Grants(S),
               acquires' = [acquires EXCEPT ![a].pc = "describing", ![a].leases = S]
        PROVE  CleanInv'
    <3>1. PICK e0 : e0 = [acquires[a] EXCEPT !.pc = "describing"] OBVIOUS
    <3>2. PICK e : e = [e0 EXCEPT !.leases = S] OBVIOUS
    <3>3. e \in CallStates /\ e.leases = S BY <1>2, <3>1, <3>2 DEF CallStates
    <3>4. acquires' = [acquires EXCEPT ![a] = e] BY <1>2, <2>3, <3>1, <3>2
    <3>5. /\ \A l \in S : Pristine(l)
          /\ \A l \in Leases : lease'[l] \in {"none", "reused"} => lease'[l] = lease[l]
      BY <2>3 DEF Grants, Pristine
    <3> QED BY <1>3, <2>1, <2>3, <3>3, <3>4, <3>5 DEF Grants
  <2> QED BY <1>6, <2>2, <2>3 DEF AcquireGranted
<1>7. CASE AcquireDescribes(a)
  <2>1. /\ KeepsClients /\ UNCHANGED <<recycling, lease, spoiled, touched, reusable>>
    BY <1>7 DEF AcquireDescribes, KeepsRest, ownerVars, binding
  <2>2. CASE CallGoes(a, "undoing") /\ UNCHANGED <<state, binding, leased, growth>>
    BY <1>3, <1>4, <2>1, <2>2 DEF KeepsBinding
  <2>3. CASE /\ acquires' = [acquires EXCEPT ![a].infos = @ + 1]
             /\ acquires[a].infos + 1 # Cardinality(a) /\ acquires[a].pc = "describing"
             /\ UNCHANGED <<state, binding, leased, growth>>
    <3>1. PICK e : e = [acquires[a] EXCEPT !.infos = @ + 1] OBVIOUS
    <3>2. acquires' = [acquires EXCEPT ![a] = e] BY <2>3, <3>1
    <3>3. e.leases = acquires[a].leases BY <1>2, <3>1 DEF CallStates
    <3>4. acquires'[a] = e /\ \A b \in AcquireCalls \ {a} : acquires'[b] = acquires[b]
      BY <1>2, <3>2
    <3>5. \A b \in AcquireCalls : \A l \in acquires'[b].leases : Pristine(l)
      BY <3>3, <3>4, PoolHoldsPristine
    <3> HIDE DEF Pristine
    <3> QED BY <2>1, <2>3, <3>5, PoolQuiet DEF KeepsBinding
  <2>4. ASSUME NEW give \in [a -> acquires[a].leases],
               mine' = [c \in Clients |-> IF c \in a THEN give[c] ELSE mine[c]],
               acquires' = [acquires EXCEPT ![a] = [NotAcquiring EXCEPT !.pc = "done"]],
               growth' = Maintains
        PROVE  CleanInv'
    <3>1. acquires'[a].leases = {} /\ \A b \in AcquireCalls \ {a} : acquires'[b] = acquires[b]
      <4>1. PICK e : e = [NotAcquiring EXCEPT !.pc = "done"] OBVIOUS
      <4>2. e.leases = {} BY <4>1 DEF NotAcquiring
      <4> QED BY <1>2, <2>4, <4>1, <4>2
    <3>2. \A b \in AcquireCalls : \A l \in acquires'[b].leases : Pristine(l)
      BY <3>1, PoolHoldsPristine
    <3>3. \A l \in growth'.leases : Pristine(l)
      BY <1>1, <2>4, MaintainsGives, PoolHoldsPristine
    <3>4. \A c \in Clients : \/ mine'[c] = mine[c]
                             \/ mine'[c] \in Leases /\ Pristine(mine'[c])
      <4>1. \A l \in acquires[a].leases : l \in Leases /\ Pristine(l)
        BY <1>2, PoolHoldsPristine DEF CallStates
      <4> HIDE DEF Pristine
      <4>2. ASSUME NEW c \in Clients
            PROVE  \/ mine'[c] = mine[c]
                   \/ mine'[c] \in Leases /\ Pristine(mine'[c])
        <5>1. CASE c \in a
          <6>1. mine'[c] = give[c] /\ give[c] \in acquires[a].leases BY <2>4, <5>1
          <6> QED BY <4>1, <6>1
        <5>2. CASE c \notin a BY <2>4, <5>2
        <5> QED BY <5>1, <5>2
      <4> QED BY <4>2
    <3> HIDE DEF Pristine
    <3> QED BY <2>1, <3>2, <3>3, <3>4, PoolNotWorse DEF KeepsClients
  <2> QED BY <1>7, <2>2, <2>3, <2>4 DEF AcquireDescribes
<1>8. CASE AcquireUndoes(a)
  <2>1. KeepsClients /\ KeepsBinding /\ UNCHANGED <<growth, recycling>>
    BY <1>8 DEF AcquireUndoes, KeepsRest
  <2>2. ASSUME NEW x \in acquires[a].leases, Destroy(x),
               acquires' = [acquires EXCEPT ![a].leases = @ \ {x}]
        PROVE  CleanInv'
    <3>1. PICK e : e = [acquires[a] EXCEPT !.leases = @ \ {x}] OBVIOUS
    <3>2. e \in CallStates /\ e.leases \subseteq acquires[a].leases
      BY <1>2, <3>1 DEF CallStates
    <3>3. acquires' = [acquires EXCEPT ![a] = e] BY <2>2, <3>1
    <3>4. \A l \in e.leases : Pristine(l) BY <3>2, PoolHoldsPristine
    <3>5. /\ spoiled' = spoiled /\ touched' = touched
          /\ \A l \in Leases : lease'[l] \in {"none", "reused"} => lease'[l] = lease[l]
      BY <1>1, <2>2 DEF Destroy, GiveBack, ClientTypeOK
    <3> HIDE DEF Pristine
    <3> QED BY <1>3, <2>1, <3>2, <3>3, <3>4, <3>5
  <2>3. CASE /\ acquires' = [acquires EXCEPT ![a] = [NotAcquiring EXCEPT !.pc = "done"]]
             /\ UNCHANGED <<lease, spoiled, touched>>
    <3>1. PICK e : e = [NotAcquiring EXCEPT !.pc = "done"] OBVIOUS
    <3>2. NotAcquiring \in CallStates BY <1>1, CallFacts
    <3>3. e \in CallStates /\ e.leases = {} BY <3>1, <3>2 DEF NotAcquiring, CallStates
    <3> QED BY <1>3, <2>1, <2>3, <3>1, <3>3
  <2> QED BY <1>8, <2>2, <2>3 DEF AcquireUndoes
<1> QED BY <1>5, <1>6, <1>7, <1>8

LEMMA GrowthIsClean ==
  ASSUME FacadeInv, CleanInv, AskReady \/ GrowthBegins \/ GrowthGranted \/ GrowthReturns
  PROVE  CleanInv'
<1>1. TypeOK /\ ClientTypeOK BY DEF FacadeInv, TypeOK
<1>2. growth \in GrowthStates BY <1>1 DEF TypeOK, GrowthStates
<1>3. KeepsClients /\ KeepsBinding /\ UNCHANGED <<acquires, recycling>>
  BY DEF AskReady, GrowthBegins, GrowthGranted, GrowthReturns, KeepsRest,
         clientVars, KeepsClients, KeepsBinding
<1>4. CASE AskReady \/ GrowthBegins
  <2>1. UNCHANGED <<lease, spoiled, touched>>
    BY <1>4 DEF AskReady, GrowthBegins, clientVars, ownerVars
  <2>2. growth'.leases = growth.leases
    <3>1. CASE AskReady
      <4>1. PICK e : e = [growth EXCEPT !.asked = @ + 1] OBVIOUS
      <4>2. growth' = [e EXCEPT !.jobs = @ + 1]
        BY <1>2, <3>1, <4>1 DEF AskReady, GrowthStates
      <4> QED BY <1>2, <4>1, <4>2 DEF GrowthStates
    <3>2. CASE GrowthBegins
      <4>1. PICK e : e = [growth EXCEPT !.jobs = @ - 1] OBVIOUS
      <4>2. growth' = e \/ growth' = [e EXCEPT !.pc = "acquiring"]
        BY <1>2, <3>2, <4>1 DEF GrowthBegins, GrowthStates
      <4> QED BY <1>2, <4>1, <4>2 DEF GrowthStates
    <3> QED BY <1>4, <3>1, <3>2
  <2> QED BY <1>3, <2>1, <2>2, PoolQuiet
<1>5. CASE GrowthGranted
  <2>1. CASE growth' = [growth EXCEPT !.pc = "idle"] /\ UNCHANGED ownerVars
    <3>1. growth'.leases = growth.leases BY <1>2, <2>1 DEF GrowthStates
    <3> QED BY <1>3, <2>1, <3>1, PoolQuiet DEF ownerVars
  <2>2. ASSUME NEW S \in SUBSET Leases, Grants(S),
               growth' = [growth EXCEPT !.pc = "returning", !.leases = S, !.again = ~closed]
        PROVE  CleanInv'
    <3>1. PICK e0 : e0 = [growth EXCEPT !.pc = "returning"] OBVIOUS
    <3>2. e0 \in GrowthStates BY <1>2, <3>1 DEF GrowthStates
    <3>3. PICK e1 : e1 = [e0 EXCEPT !.leases = S] OBVIOUS
    <3>4. e1 \in GrowthStates /\ e1.leases = S BY <3>2, <3>3 DEF GrowthStates
    <3>5. growth' = [e1 EXCEPT !.again = ~closed]
      BY <1>2, <2>2, <3>1, <3>3 DEF GrowthStates
    <3>6. growth'.leases = S BY <3>4, <3>5 DEF GrowthStates
    <3>7. /\ \A l \in growth'.leases : Pristine(l)
          /\ \A l \in Leases : lease'[l] \in {"none", "reused"} => lease'[l] = lease[l]
          /\ UNCHANGED <<spoiled, touched>>
      BY <2>2, <3>6 DEF Grants, Pristine
    <3> HIDE DEF Pristine
    <3> QED BY <1>3, <3>7, PoolQuiet
  <2> QED BY <1>5, <2>1, <2>2 DEF GrowthGranted
<1>6. CASE GrowthReturns
  <2>1. ASSUME NEW x \in growth.leases, growth' = [growth EXCEPT !.leases = @ \ {x}],
               GiveBack(x, growth.again, FALSE)
        PROVE  CleanInv'
    <3>1. growth'.leases \subseteq growth.leases /\ x \in Leases
      BY <1>2, <2>1 DEF GrowthStates
    <3>2. \A l \in growth'.leases : Pristine(l) BY <3>1, PoolHoldsPristine
    <3>3. x \notin spoiled \cup touched BY <2>1, <3>1, PoolHoldsPristine DEF CleanInv
    <3>4. /\ spoiled' = spoiled /\ touched' = touched
          /\ \A l \in Leases : l # x => lease'[l] = lease[l]
      BY <1>1, <2>1 DEF GiveBack, ClientTypeOK
    <3> HIDE DEF Pristine
    <3> QED BY <1>3, <3>2, <3>3, <3>4, PoolQuiet
  <2>2. CASE /\ growth.leases = {} /\ UNCHANGED <<lease, spoiled, touched>>
             /\ growth' = [growth EXCEPT !.pc = "idle", !.again = FALSE]
    <3>1. PICK e : e = [growth EXCEPT !.pc = "idle"] OBVIOUS
    <3>2. growth' = [e EXCEPT !.again = FALSE] BY <1>2, <2>2, <3>1 DEF GrowthStates
    <3>3. growth'.leases = growth.leases BY <1>2, <3>1, <3>2 DEF GrowthStates
    <3> QED BY <1>3, <2>2, <3>3, PoolQuiet
  <2> QED BY <1>6, <2>1, <2>2 DEF GrowthReturns
<1> QED BY <1>4, <1>5, <1>6

LEMMA ReleaseIsClean ==
  ASSUME FacadeInv, CleanInv, NEW S \in SUBSET leased, Release(S)
  PROVE  CleanInv'
<1>1. /\ ClaimAll(S) /\ UNCHANGED <<acquires, growth, lease, spoiled, touched, running>>
  BY DEF Release, ownerVars, KeepsClients
<1>2. /\ S \subseteq Clients /\ reusable' = reusable
      /\ \A c \in Clients : mine'[c] = None \/ mine'[c] = mine[c]
  BY <1>1, ClaimAllGives
<1>3. PICK order \in Bijection(1..Cardinality(S), S) :
        recycling' = recycling \o
          [i \in 1..Cardinality(S) |-> [client |-> order[i], lease |-> mine[order[i]],
                                        last |-> i = Cardinality(S)]]
  BY DEF Release
<1> DEFINE n == Cardinality(S)
           len == Len(recycling)
<1>4. /\ len \in Nat /\ n \in Nat
      /\ DOMAIN recycling = 1..len /\ DOMAIN recycling' = 1..(len + n)
      /\ \A i \in DOMAIN recycling : recycling'[i] = recycling[i]
      /\ \A i \in 1..n : recycling'[len + i].lease = mine[order[i]]
  BY <1>3, AppendsClaims
<1>5. \A i \in 1..n : order[i] \in Clients BY <1>2 DEF Bijection, Surjection
<1> HIDE DEF n, len
<1>6. ASSUME NEW i \in DOMAIN recycling'
      PROVE  \/ \E j \in DOMAIN recycling : /\ recycling'[i].lease = recycling[j].lease
                                            /\ recycling'[i].client = recycling[j].client
             \/ \E c \in Clients : recycling'[i].lease = mine[c]
  <2>1. CASE i \in 1..len BY <1>4, <2>1
  <2>2. CASE i \notin 1..len
    <3>1. i - len \in 1..n /\ i = len + (i - len) BY <1>4, <2>2
    <3>2. recycling'[i].lease = mine[order[i - len]] BY <1>4, <3>1
    <3> QED BY <1>5, <3>1, <3>2
  <2> QED BY <2>1, <2>2
<1> QED BY <1>1, <1>2, <1>6, PoolHoldsPristine, PoolNotWorse

LEMMA RecycleIsClean ==
  ASSUME FacadeInv, CleanInv, Recycle
  PROVE  CleanInv'
<1>1. TypeOK /\ ClientTypeOK BY DEF FacadeInv, TypeOK
<1>2. /\ recycling # <<>> /\ recycling' = Tail(recycling) /\ UNCHANGED acquires
      /\ KeepsClients /\ KeepsBinding
      /\ growth' = Maintains \/ growth' = growth
  BY DEF Recycle
<1>3. recycling \in Seq(Claims) /\ Head(recycling) = recycling[1] /\ 1 \in DOMAIN recycling
  BY <1>1, <1>2 DEF TypeOK
<1>4. \A i \in DOMAIN recycling' :
        i + 1 \in DOMAIN recycling /\ recycling'[i] = recycling[i + 1]
  BY <1>2, <1>3, HeadTailProperties
<1>5. growth'.leases = growth.leases BY <1>1, <1>2, MaintainsGives
<1>6. PICK claim : claim = recycling[1] OBVIOUS
<1>7. \/ UNCHANGED <<lease, spoiled, touched>>
      \/ Destroy(claim.lease)
      \/ reusable[claim.client] /\ GiveBack(claim.lease, TRUE, TRUE)
  BY <1>3, <1>6 DEF Recycle, ReusableAfterTail
<1>8. /\ spoiled' = spoiled /\ touched' \subseteq touched
      /\ \A l \in Leases : lease'[l] \in {"none", "reused"} =>
           lease'[l] = lease[l] \/ l \notin spoiled' \cup touched'
  <2>1. CASE Destroy(claim.lease)
    BY <1>1, <2>1 DEF Destroy, GiveBack, ClientTypeOK
  <2>2. CASE reusable[claim.client] /\ GiveBack(claim.lease, TRUE, TRUE)
    <3>1. claim.lease \notin spoiled BY <1>3, <1>6, <2>2 DEF CleanInv
    <3> QED BY <1>1, <2>2, <3>1 DEF GiveBack, ClientTypeOK
  <2> QED BY <1>7, <2>1, <2>2
<1> QED BY <1>2, <1>4, <1>5, <1>8, PoolQuiet

LEMMA CloseIsClean ==
  ASSUME FacadeInv, CleanInv, CloseAll \/ CloseReturns \/ CloseGoesOn
  PROVE  CleanInv'
<1>1. TypeOK /\ ClientTypeOK BY DEF FacadeInv, TypeOK
<1>2. CASE CloseAll
  <2>1. /\ ClaimAll(leased) /\ running' = running
        /\ UNCHANGED <<lease, spoiled, touched, acquires, recycling, growth>>
    BY <1>2 DEF CloseAll, KeepsClients
  <2>2. /\ reusable' = reusable
        /\ \A c \in Clients : mine'[c] = None \/ mine'[c] = mine[c]
    BY <2>1, ClaimAllGives
  <2> QED BY <2>1, <2>2, PoolHoldsPristine, PoolNotWorse
<1>3. CASE CloseReturns
  <2>1. KeepsClients /\ KeepsBinding /\ UNCHANGED <<acquires, recycling, growth>>
    BY <1>3 DEF CloseReturns
  <2>2. UNCHANGED <<lease, spoiled, touched>> \/ \E claim \in closeClaims : Destroy(claim.lease)
    BY <1>3 DEF CloseReturns
  <2>3. /\ spoiled' = spoiled /\ touched' = touched
        /\ \A l \in Leases : lease'[l] \in {"none", "reused"} => lease'[l] = lease[l]
    BY <1>1, <2>2 DEF Destroy, GiveBack, ClientTypeOK
  <2> QED BY <2>1, <2>3, PoolQuiet
<1>4. CASE CloseGoesOn
  <2>1. /\ KeepsClients /\ KeepsBinding
        /\ UNCHANGED <<lease, spoiled, touched, acquires, recycling, growth>>
    BY <1>4 DEF CloseGoesOn, clientVars, ownerVars, KeepsClients, KeepsBinding
  <2> QED BY <2>1, PoolQuiet
<1> QED BY <1>2, <1>3, <1>4

LEMMA ClientsAreClean ==
  ASSUME FacadeInv, CleanInv, ClientSteps
  PROVE  CleanInv'
<1>1. UNCHANGED poolVars BY DEF ClientSteps
<1>2. \A w \in use.calls : w \subseteq Managed
  BY PoolAssumption DEF FacadeInv, TypeOK, ClientTypeOK
<1>3. ASSUME NEW c \in IF use.pooled THEN UNION use.calls ELSE {Direct},
             (\E op \in Operations : Ask(c, op)) \/ Proceeds(c)
      PROVE  CleanInv'
  <2>1. c \in Clients /\ Whose(c) BY <1>2, <1>3 DEF Clients, Whose
  <2>2. Quiet(c) \/ MakesCall(c) BY <1>1, <1>3, <2>1, AskKeeps, ProceedsKeeps
  <2> QED BY <1>1, <2>1, <2>2, QuietIsClean, CallsAreClean
<1>4. CASE OwnerRetires
  <2>1. UNCHANGED <<running, lease, spoiled, touched, mine, reusable, acquires, recycling,
                    growth>>
    BY <1>1, <1>4 DEF OwnerRetires, binding, poolVars
  <2> QED BY <2>1, PoolHoldsPristine, PoolNotWorse
<1> QED BY <1>1, <1>3, <1>4 DEF ClientSteps

LEMMA InitClean == Init => CleanInv
BY Kinds DEF Init, ClientInit, CleanInv

LEMMA NextClean == FacadeInv /\ CleanInv /\ [Next]_vars => CleanInv'
<1> SUFFICES ASSUME FacadeInv, CleanInv, [Next]_vars PROVE CleanInv'
  OBVIOUS
<1>1. CASE ClientSteps BY <1>1, ClientsAreClean
<1>2. ASSUME NEW a \in AcquireCalls,
             Acquire(a) \/ AcquireGranted(a) \/ AcquireDescribes(a) \/ AcquireUndoes(a)
      PROVE  CleanInv'
  BY <1>2, AcquiresAreClean
<1>3. CASE \E S \in SUBSET leased : Release(S) BY <1>3, ReleaseIsClean
<1>4. CASE Recycle BY <1>4, RecycleIsClean
<1>5. CASE AskReady \/ GrowthBegins \/ GrowthGranted \/ GrowthReturns
  BY <1>5, GrowthIsClean
<1>6. CASE CloseAll \/ CloseReturns \/ CloseGoesOn BY <1>6, CloseIsClean
<1>7. CASE UNCHANGED vars
  <2>1. UNCHANGED <<running, lease, spoiled, touched, mine, reusable, acquires, recycling,
                    growth>>
    BY <1>7 DEF vars, clientVars, ownerVars, binding, poolVars
  <2> QED BY <2>1, PoolHoldsPristine, PoolNotWorse
<1> QED BY <1>1, <1>2, <1>3, <1>4, <1>5, <1>6, <1>7 DEF Next, PoolProceeds

LEMMA CleanGives == FacadeInv /\ CleanInv => NothingLeftBehind
<1> SUFFICES ASSUME FacadeInv, CleanInv PROVE NothingLeftBehind
  OBVIOUS
<1>1. \A l \in Leases : lease[l] = "reused" => l \notin spoiled \cup touched
  BY DEF CleanInv, Pristine
<1>2. ASSUME Stateless, NEW c \in Clients, running[c] = Idle
      PROVE  mine[c] \notin touched
  BY <1>2 DEF CleanInv, Idle
<1> QED BY <1>1, <1>2 DEF NothingLeftBehind

\* No call that failed fatally, and with stateless clients no call at all, is
\* followed on its session by another client's call or by a reuse: the session is
\* destroyed, or reset first (#replaceFatalLease, node-rfc-client.ts; #recycleClaim,
\* node-rfc-pool.ts).
THEOREM NothingIsLeftBehind == Spec => []NothingLeftBehind
<1>1. Init => FacadeInv /\ CleanInv BY InitFacade, InitClean
<1>2. FacadeInv /\ CleanInv /\ [Next]_vars => (FacadeInv /\ CleanInv)'
  BY NextFacade, NextClean
<1> QED BY <1>1, <1>2, CleanGives, PTL DEF Spec
=============================================================================
