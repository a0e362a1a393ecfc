----------------------------- MODULE RfcClient -----------------------------
(***************************************************************************)
(* The clients of the node-rfc facade: src/compat/node-rfc-client.ts.      *)
(*                                                                         *)
(* A direct client owns a destination with one connection; a managed one   *)
(* is given a lease of its pool's destination.  The operations of a client *)
(* wait for each other in #operationTail.  One that fails fatally replaces *)
(* the lease on the spot, while close(), cancel() or a release to the pool *)
(* come from outside the queue.  An action is one run of the JavaScript    *)
(* thread between two awaits.  A behaviour has one destination: that of a  *)
(* direct client, or that of a pool (RfcClientPool).                       *)
(***************************************************************************)
EXTENDS Integers, Sequences, FiniteSets

CONSTANTS
  Direct, Managed,      \* the direct client, the clients a pool may make
  MaxConnections,       \* the application connections of the pool
  Stateless,            \* clientOptions.stateless
  MaxLeases,            \* bound: leases granted in a behaviour
  Workloads             \* bound: what is asked at all in a behaviour, see ClientInit

None == 0              \* no lease
Clients == Managed \cup {Direct}

ASSUME ClientAssumption ==
  /\ Direct \notin Managed /\ IsFiniteSet(Managed) /\ MaxConnections \in Nat \ {0}
  /\ Stateless \in BOOLEAN /\ MaxLeases \in Nat

VARIABLES
  use,       \* the workload of this behaviour
  owner,     \* the destination owner
  lease,     \* what has become of each lease
  spoiled,   \* leases whose session failed in a way that ends it
  touched,   \* leases whose session has application context on the server
  state, mine, hasOwner, claimed, reusable,
             \* #state, #lease, #owner, #releaseClaimed, #leaseReusable
  queue,     \* operations admitted to #operationTail and not begun
  running,   \* the operation that has begun
  asked      \* how many operations the clients were asked for
ownerVars == <<owner, lease, spoiled, touched>>
binding == <<mine, hasOwner, claimed, reusable>>
clientVars == <<use, ownerVars, state, binding, queue, running, asked>>

Leases == 1..MaxLeases
Operations == {"open", "close", "call", "ping", "reset", "metadata"}
Idle == [op |-> "none", pc |-> "idle", lease |-> None]
Runs == [op : Operations \cup {"none"}, lease : Leases \cup {None},
         pc : {"idle", "acquiring", "describing", "session", "resetting", "lookup",
               "evicting", "replacing", "returning", "undoing", "dropping",
               "releasing", "retiring"}]

ClientTypeOK ==
  /\ use \in Workloads /\ asked \in 0..use.ops
  /\ owner \in {"none", "active", "retiring", "retired"}
  /\ lease \in [Leases -> {"none", "held", "reused", "destroyed"}]
  /\ spoiled \subseteq Leases /\ touched \subseteq Leases
  /\ state \in [Clients -> {"closed", "opening", "open", "closing", "faulted"}]
  /\ mine \in [Clients -> Leases \cup {None}]
  /\ hasOwner \in [Clients -> BOOLEAN] /\ claimed \in [Clients -> BOOLEAN]
  /\ reusable \in [Clients -> BOOLEAN]
  /\ queue \in [Clients -> Seq(Operations)] /\ running \in [Clients -> Runs]

\* A workload says whether there is a pool, which operations are asked of its
\* clients or of the direct one and how many, and for a pool the calls of
\* acquire(), the number of ready() and whether low water is maintained.
ClientInit ==
  /\ use \in Workloads
  /\ owner = "none"
  /\ lease = [l \in Leases |-> "none"]
  /\ spoiled = {} /\ touched = {}
  /\ state = [c \in Clients |-> "closed"]
  /\ mine = [c \in Clients |-> None]
  /\ hasOwner = [c \in Clients |-> FALSE]
  /\ claimed = [c \in Clients |-> FALSE]
  /\ reusable = [c \in Clients |-> TRUE]
  /\ queue = [c \in Clients |-> <<>>]
  /\ running = [c \in Clients |-> Idle]
  /\ asked = 0

(***************************************************************************)
(* What the facade asks of the destination owner                           *)
(***************************************************************************)
Held == {l \in Leases : lease[l] = "held"}
Capacity == IF use.pooled THEN MaxConnections ELSE 1

\* n sessions, all or none.  Any request may also fail, or overrun its time.
Grants(S) ==
  LET fresh == {l \in Leases : lease[l] = "none"}
  IN /\ owner = "active" /\ Cardinality(Held) + Cardinality(S) <= Capacity
     /\ S \subseteq fresh /\ \A l \in S, m \in fresh \ S : l < m
     /\ lease' = [l \in Leases |-> IF l \in S THEN "held" ELSE lease[l]]
     /\ UNCHANGED <<owner, spoiled, touched>>

\* releaseApplication(): the session goes back, even when the promise rejects.
\* One that goes back for others to use is reset if the caller says so.
GiveBack(l, again, reset) ==
  /\ lease' = [lease EXCEPT ![l] = IF again THEN "reused" ELSE "destroyed"]
  /\ touched' = IF reset THEN touched \ {l} ELSE touched
  /\ UNCHANGED spoiled
Destroy(l) == GiveBack(l, FALSE, FALSE)

\* (A variant that leaves a destination alone while something of it is lent.)
AskToRetireIdle == owner' = IF owner = "active" /\ Held = {} THEN "retiring" ELSE owner
AskToRetire == owner' = IF owner = "active" THEN "retiring" ELSE owner
\* The retirement ends, on time or not (see DirectDestinationOwner).
OwnerRetires ==
  /\ owner = "retiring" /\ owner' = "retired"
  /\ UNCHANGED <<use, lease, spoiled, touched, state, binding, queue, running, asked>>

(***************************************************************************)
(* Admission                                                               *)
(***************************************************************************)
ClosePending(c) ==
  running[c].op = "close" \/ \E i \in DOMAIN queue[c] : queue[c][i] = "close"

Alive(c) == state[c] = "open" /\ mine[c] # None

\* A call refused at admission changes nothing; one on a client that its pool
\* has taken back is refused at its turn.
Admits(c, op) ==
  CASE op = "open" -> c = Direct /\ state[c] = "closed"
    [] op = "close" -> /\ c = Direct /\ ~ClosePending(c)
                       /\ state[c] \in {"open", "faulted", "opening"}
    [] op = "ping" -> Alive(c)
    [] OTHER -> ~claimed[c]

\* open() and close() take effect at once: close() also aborts the opening and
\* the calls, which shows in what they come to.
StateAfter(c, op) ==
  CASE op = "open" -> "opening" [] op = "close" -> "closing" [] OTHER -> state[c]

Ask(c, op) ==
  /\ asked < use.ops /\ op \in use.kinds /\ Admits(c, op)
  /\ asked' = asked + 1
  /\ queue' = [queue EXCEPT ![c] = Append(@, op)]
  /\ state' = [state EXCEPT ![c] = StateAfter(c, op)]
  /\ UNCHANGED <<use, ownerVars, binding, running>>

(***************************************************************************)
(* The operations, one at a time                                           *)
(***************************************************************************)
Goes(c, op, pc, l) == running' = [running EXCEPT ![c] = [op |-> op, pc |-> pc, lease |-> l]]
StepsTo(c, pc) == running' = [running EXCEPT ![c].pc = pc]
Ends(c) == running' = [running EXCEPT ![c] = Idle]
Becomes(c, s) == state' = [state EXCEPT ![c] = s]

Begins(c, op) ==
  /\ running[c] = Idle /\ queue[c] # <<>> /\ Head(queue[c]) = op
  /\ queue' = [queue EXCEPT ![c] = Tail(@)]
  /\ UNCHANGED <<use, asked, lease, spoiled, touched>>

\* #openCore: without a route or an owner the client is closed again.
BeginOpen(c) ==
  /\ Begins(c, "open")
  /\ \/ /\ state[c] = "opening"
        /\ owner' = "active" /\ hasOwner' = [hasOwner EXCEPT ![c] = TRUE]
        /\ Goes(c, "open", "acquiring", None) /\ UNCHANGED state
     \/ /\ state[c] = "opening"
        /\ Becomes(c, "closed") /\ UNCHANGED <<owner, hasOwner, running>>
     \/ state[c] # "opening" /\ UNCHANGED <<state, owner, hasOwner, running>>
  /\ UNCHANGED <<mine, claimed, reusable>>

\* #retireDirectOwner
BeginClose(c) ==
  /\ Begins(c, "close")
  /\ mine' = [mine EXCEPT ![c] = None]
  /\ \/ /\ hasOwner[c] /\ mine[c] # None
        /\ Goes(c, "close", "releasing", mine[c]) /\ UNCHANGED <<state, owner>>
     \/ /\ hasOwner[c] /\ mine[c] = None
        /\ AskToRetire /\ Goes(c, "close", "retiring", None) /\ UNCHANGED state
     \/ /\ ~hasOwner[c]
        /\ Becomes(c, "closed") /\ UNCHANGED <<owner, running>>
  /\ UNCHANGED <<hasOwner, claimed, reusable>>

FirstStep == [call |-> "session", ping |-> "session", reset |-> "resetting",
              metadata |-> "lookup"]
\* "Follow that replacement instead of using the released admission token": a
\* ping that was admitted before close() still runs.
BindsTo(c, op) ==
  IF op = "ping" THEN hasOwner[c] /\ mine[c] # None ELSE Alive(c) /\ hasOwner[c]

BeginUse(c) ==
  /\ \E op \in DOMAIN FirstStep :
       /\ Begins(c, op)
       /\ \/ BindsTo(c, op) /\ Goes(c, op, FirstStep[op], mine[c])
          \/ ~BindsTo(c, op) /\ UNCHANGED running
  /\ UNCHANGED <<owner, state, binding>>

AtStep(c, pc) == running[c].pc = pc /\ UNCHANGED <<use, queue, asked>>

LookedUp(c) ==
  /\ AtStep(c, "lookup") /\ Ends(c) /\ UNCHANGED <<ownerVars, state, binding>>

(***************************************************************************)
(* #replaceFatalLease                                                      *)
(***************************************************************************)
\* (A variant that leaves the lease of another holder as it was.)
HandedOver(c) == UNCHANGED reusable
\* "The pool is the sole disposer after that handoff."
MarksClaim(c) ==
  reusable' = [reusable EXCEPT ![c] = @ /\ ~(claimed[c] /\ mine[c] = None)]

\* (A variant of Fatal that does not ask who has the lease by now.)
FatalWhoeverHasIt(c) ==
  /\ reusable' = [reusable EXCEPT ![c] = FALSE]
  /\ mine' = [mine EXCEPT ![c] = None] /\ StepsTo(c, "evicting")

Fatal(c) ==
  \/ /\ mine[c] # running[c].lease
     /\ MarksClaim(c) /\ Ends(c) /\ UNCHANGED mine
  \/ /\ mine[c] = running[c].lease
     /\ reusable' = [reusable EXCEPT ![c] = FALSE]
     /\ mine' = [mine EXCEPT ![c] = None] /\ StepsTo(c, "evicting")

\* A direct client gives its destination up with the connection.
Faults(c) ==
  /\ Becomes(c, "faulted")
  /\ IF c = Direct THEN AskToRetire /\ StepsTo(c, "dropping")
                   ELSE Ends(c) /\ UNCHANGED owner

Evicted(c) ==
  /\ AtStep(c, "evicting") /\ Destroy(running[c].lease)
  /\ \/ Faults(c)       \* the release failed
     \/ state[c] = "open" /\ StepsTo(c, "replacing") /\ UNCHANGED <<state, owner>>
     \/ state[c] # "open" /\ Ends(c) /\ UNCHANGED <<state, owner>>
  /\ UNCHANGED binding

Replacement(c) ==
  /\ AtStep(c, "replacing")
  /\ \/ /\ \E l \in Leases : Grants({l}) /\ Goes(c, running[c].op, "describing", l)
        /\ UNCHANGED state
     \/ Faults(c) /\ UNCHANGED <<lease, spoiled, touched>>
  /\ UNCHANGED binding

\* #installLease
Installs(c, l) ==
  /\ mine' = [mine EXCEPT ![c] = l] /\ hasOwner' = [hasOwner EXCEPT ![c] = TRUE]
  /\ reusable' = [reusable EXCEPT ![c] = TRUE]
  /\ Becomes(c, "open")
  /\ UNCHANGED claimed

StillWanted(c) == state[c] = IF running[c].op = "open" THEN "opening" ELSE "open"

\* The applicationInfo() of a new lease: it is installed if nobody has closed,
\* released or claimed the client while the thread was away.
Described(c) ==
  /\ AtStep(c, "describing")
  /\ \/ StillWanted(c) /\ Installs(c, running[c].lease) /\ Ends(c)
     \/ ~StillWanted(c) /\ StepsTo(c, "returning") /\ UNCHANGED <<state, binding>>
     \/ StepsTo(c, "undoing") /\ UNCHANGED <<state, binding>>   \* no info
  /\ UNCHANGED ownerVars

\* The lease that was not installed goes back; an open() ends in retirement.
Returned(c) ==
  /\ running[c].op # "open"
  /\ \/ AtStep(c, "undoing") /\ Destroy(running[c].lease) /\ Faults(c)
     \/ /\ AtStep(c, "returning") /\ Destroy(running[c].lease)
        /\ Faults(c) \/ (Ends(c) /\ UNCHANGED <<state, owner>>)
  /\ UNCHANGED binding

Dropped(c) ==
  /\ AtStep(c, "dropping") /\ owner = "retired" /\ Ends(c)
  /\ hasOwner' \in {hasOwner, [hasOwner EXCEPT ![c] = FALSE]}
  /\ UNCHANGED <<ownerVars, state, mine, claimed, reusable>>

(***************************************************************************)
(* open() and close() go on                                                *)
(***************************************************************************)
OpenAcquired(c) ==
  /\ AtStep(c, "acquiring")
  /\ \/ \E l \in Leases : Grants({l}) /\ Goes(c, "open", "describing", l)
     \/ AskToRetire /\ StepsTo(c, "retiring") /\ UNCHANGED <<lease, spoiled, touched>>
  /\ UNCHANGED <<state, binding>>

\* What an open() undoes and what a close() lets go of.
GivesUp(c) ==
  /\ \/ AtStep(c, "releasing")
     \/ running[c].op = "open" /\ (AtStep(c, "returning") \/ AtStep(c, "undoing"))
  /\ Destroy(running[c].lease)
  /\ AskToRetire /\ StepsTo(c, "retiring")
  /\ UNCHANGED <<state, binding>>

Closed(c) ==
  /\ AtStep(c, "retiring") /\ owner = "retired"
  /\ mine' = [mine EXCEPT ![c] = None] /\ hasOwner' = [hasOwner EXCEPT ![c] = FALSE]
  /\ Becomes(c, "closed") /\ Ends(c)
  /\ UNCHANGED <<ownerVars, claimed, reusable>>

(***************************************************************************)
(* call(), ping() and resetServerContext() at the session                  *)
(***************************************************************************)
\* What may have left application context behind is reset by a stateless client.
MustReset(outcome) == Stateless /\ outcome \in {"result", "complete"}

Outcomes == {"result", "complete", "unsent", "fatal"}

Invoked(c, outcome) ==
  LET l == running[c].lease
  IN /\ AtStep(c, "session")
     /\ touched' = IF running[c].op = "call" /\ outcome # "unsent"
                   THEN touched \cup {l} ELSE touched
     /\ spoiled' = IF outcome = "fatal" THEN spoiled \cup {l} ELSE spoiled
     /\ \/ outcome = "fatal" /\ Fatal(c)
        \/ /\ outcome # "fatal" /\ UNCHANGED <<mine, reusable>>
           /\ IF running[c].op = "call" /\ MustReset(outcome)
              THEN StepsTo(c, "resetting") ELSE Ends(c)
     /\ UNCHANGED <<owner, lease, state, hasOwner, claimed>>

ResetDone(c) ==
  LET l == running[c].lease
  IN /\ AtStep(c, "resetting")
     /\ \/ /\ touched' = touched \ {l} /\ Ends(c)
           /\ UNCHANGED <<spoiled, mine, reusable>>
        \/ spoiled' = spoiled \cup {l} /\ Fatal(c) /\ UNCHANGED touched
     /\ UNCHANGED <<owner, lease, state, hasOwner, claimed>>

Proceeds(c) ==
  \/ BeginOpen(c) \/ BeginClose(c) \/ BeginUse(c) \/ LookedUp(c)
  \/ \E outcome \in Outcomes : Invoked(c, outcome)
  \/ ResetDone(c)
  \/ Evicted(c) \/ Replacement(c) \/ Described(c) \/ Returned(c) \/ Dropped(c)
  \/ OpenAcquired(c) \/ GivesUp(c) \/ Closed(c)

(***************************************************************************)
(* The calls of the pool                                                   *)
(***************************************************************************)
\* [pooledClientClaim]
Claimable(c) == ~claimed[c] /\ state[c] \in {"open", "faulted"} /\ hasOwner[c]
ClaimAll(S) ==
  /\ claimed' = [c \in Clients |-> claimed[c] \/ c \in S]
  /\ state' = [c \in Clients |-> IF c \in S THEN "closed" ELSE state[c]]
  /\ mine' = [c \in Clients |-> IF c \in S THEN None ELSE mine[c]]
  /\ hasOwner' = [c \in Clients |-> hasOwner[c] /\ c \notin S]
  /\ UNCHANGED reusable

TailIsOver(c) == running[c] = Idle /\ queue[c] = <<>>
=============================================================================
