--------------------------- MODULE ConnectionPool ---------------------------
(***************************************************************************)
(* The bounded connection pool of src/pool/connection-pool-runtime.ts.     *)
(*                                                                         *)
(* The pool runs on one JavaScript thread.  An action is one run of that   *)
(* thread between two points at which it yields: a call of a public        *)
(* method, a promise reaction, a timer or a microtask.  The dispatch loop  *)
(* is the one run that is cut into several actions; while it holds the     *)
(* thread (InTurn) nothing else is enabled.                                *)
(*                                                                         *)
(* What the factory does (create, validate, reset, destroy), what the      *)
(* borrowers do and when timers expire is chosen by the environment.       *)
(***************************************************************************)
EXTENDS Integers, Sequences, FiniteSets, SequencesExt

CONSTANTS
  Slots,              \* places for physical connections, more than allowed
  Requests,           \* calls of acquire(), each made at most once
  MaxConnections, MaxWaiters, LowWater, IdleHigh,
  ValidateOnCheckout, ResetOnRelease,
  ReleaseCaps,        \* values of release's idleHigh option, when given
  LeaseResets,        \* do borrowers call resetActiveLease?
  Failing,            \* factory operations that may throw, reject or be false
  Expiring            \* factory operations that may exceed their deadline

None == "none"
NoCap == -1
Operations == {"create", "validate", "reset", "destroy"}

ASSUME BoundsAssumption ==
  /\ MaxConnections \in Nat \ {0} /\ MaxWaiters \in Nat \ {0}
  /\ LowWater \in 0..IdleHigh /\ IdleHigh \in 0..MaxConnections
  /\ ReleaseCaps \subseteq 0..MaxConnections

ASSUME SetsAssumption ==
  /\ IsFiniteSet(Slots) /\ None \notin Requests
  /\ ValidateOnCheckout \in BOOLEAN /\ ResetOnRelease \in BOOLEAN
  /\ LeaseResets \in BOOLEAN
  /\ Failing \subseteq Operations /\ Expiring \subseteq Operations

VARIABLES
  state,            \* #state
  shutdown,         \* the promise of close(), drain() and retire()
  conn,             \* physical.state; "creating" and "free" for the rest
  op,               \* the factory call in flight on a slot, or how it ended
  owner,            \* creation.ownerWaiterId
  cap,              \* physical.recycleIdleHigh
  release,          \* where the release() call that gave up a slot stands
  idle, creating, waiters,         \* #idle, #creating, #waiters
  status, count, overdue,          \* of a request; is its deadline past?
  leases,           \* #knownLeases, by generation
  dpc, waiter, candidates,         \* the dispatch loop and its locals
  pumpScheduled, pumpAgain,        \* #pumpRequestedWhileDispatching
  lowWaterBlocked

connVars == <<conn, op, owner, cap, idle, creating>>
requestVars == <<waiters, status, count, overdue>>
loopVars == <<dpc, waiter, candidates>>
pumpVars == <<pumpScheduled, pumpAgain>>
endVars == <<state, shutdown>>
vars == <<state, shutdown, conn, op, owner, cap, release, idle, creating,
          waiters, status, count, overdue, leases, dpc, waiter, candidates,
          pumpScheduled, pumpAgain, lowWaterBlocked>>

(***************************************************************************)
(* Types                                                                   *)
(***************************************************************************)
ConnStates == {"free", "creating", "idle", "validating", "leased",
               "resetting", "closing"}
\* "running"; "signalled": its abort signal fired; "overrun": its deadline
\* passed while the callback still runs; "failed": a destroy that rejected;
\* the last three are outcomes of a validation.
OpStates == {None, "running", "signalled", "overrun", "failed",
             "healthy", "unhealthy", "timedout"}
Lease == [slot : Slots, holder : Requests, active : BOOLEAN,
          busy : {None, "call", "reset"}]

TypeOK ==
  /\ state \in {"open", "retiring", "closing", "closed"}
  /\ shutdown \in {None, "pending", "resolved", "rejected"}
  /\ conn \in [Slots -> ConnStates]
  /\ op \in [Slots -> OpStates]
  /\ owner \in [Slots -> Requests \cup {None}]
  /\ cap \in [Slots -> {NoCap} \cup 0..MaxConnections]
  /\ release \in [Slots -> {None, "resetting", "destroying", "evicting",
                            "resuming"}]
  /\ idle \in Seq(Slots) /\ creating \in Seq(Slots)
  /\ waiters \in Seq(Requests) /\ Len(waiters) <= MaxWaiters
  /\ status \in [Requests -> {"new", "waiting", "granted", "rejected"}]
  /\ count \in [Requests -> 1..MaxConnections]
  /\ overdue \subseteq Requests
  /\ leases \in Seq(Lease)
  /\ dpc \in {"off", "loop", "await", "rollback", "refuse", "return"}
  /\ waiter \in Requests \cup {None}
  /\ candidates \in Seq(Slots)
  /\ pumpScheduled \in BOOLEAN /\ pumpAgain \in BOOLEAN
  /\ lowWaterBlocked \in BOOLEAN

(***************************************************************************)
(* Reading the state                                                       *)
(***************************************************************************)
InTurn == dpc \in {"loop", "rollback", "refuse"}
\* The environment's part in a factory call: it throws, rejects or (for a
\* validation) says no; or the call's deadline passes.
MayFail(k) == k \in Failing
MayExpire(k) == k \in Expiring

Active(r) == status[r] = "waiting"
In(states) == {s \in Slots : conn[s] \in states}

\* (A variant that pops the last element instead.)
WithoutLast(q, x) == IF q = <<>> THEN q ELSE Front(q)
\* Array.prototype.indexOf and splice(index, 1): q without its element x.
Without(q, x) ==
  IF \E i \in DOMAIN q : q[i] = x
  THEN RemoveAt(q, CHOOSE i \in DOMAIN q : q[i] = x)
  ELSE q

Capacity == Cardinality(Slots \ In({"free"}))
LiveCreations == {s \in Slots : conn[s] = "creating" /\ op[s] = "running"}
ExpectedAvailable ==
  Len(idle) + Cardinality(LiveCreations) + Cardinality(In({"resetting"}))

(***************************************************************************)
(* Steps that are shared by several actions                                *)
(***************************************************************************)
\* (A variant that drops a request made during a dispatch.)
RequestPumpIfOff ==
  /\ pumpScheduled' = (pumpScheduled \/ (state = "open" /\ dpc = "off"))
  /\ UNCHANGED pumpAgain
RequestPump ==
  /\ pumpScheduled' = (pumpScheduled \/ (state = "open" /\ dpc = "off"))
  /\ pumpAgain' = (pumpAgain \/ (state = "open" /\ dpc # "off"))

\* Something #checkClosed cannot account for: a creation that overran, a
\* destroy that failed or overran.  (And a variant that forgets the former.)
UnaccountedRecord(c, o) ==
  \E s \in Slots : c[s] = "closing" /\ o[s] \in {"overrun", "failed"}
Unaccounted(c, o) ==
  \E s \in Slots :
    \/ c[s] = "creating" /\ o[s] = "overrun"
    \/ c[s] = "closing" /\ o[s] \in {"overrun", "failed"}
\* No record and no creation is left.  (And a variant without creations.)
NoRecord(c) == \A s \in Slots : c[s] \in {"free", "creating"}
Emptied(c) == \A s \in Slots : c[s] = "free"
Draining(now) == now \in {"retiring", "closing"}

\* #checkClosed and #failClose, once conn' and op' are known
CheckClosed(now, promise) ==
  /\ state' = IF Draining(now) /\ Emptied(conn') THEN "closed" ELSE now
  /\ shutdown' = IF ~Draining(now) \/ promise # "pending" THEN promise
                 ELSE IF Unaccounted(conn', op') THEN "rejected"
                 ELSE IF Emptied(conn') THEN "resolved" ELSE promise

\* #reconcileCreations over the queue ws and the creations cr with the
\* operation states o and owners w: the oldest live creations that the head
\* of the queue (or the low-water mark) still needs are kept for it, the
\* others are told to abort.
Reconcile(ws, cr, o, w, blocked) ==
  LET desired == IF ws # <<>> THEN count[Head(ws)]
                 ELSE IF blocked THEN 0 ELSE LowWater
      needed == IF state # "open" THEN 0
                ELSE desired - Len(idle) - Cardinality(In({"resetting"}))
      Live(i) == o[cr[i]] = "running"
      live == {cr[i] : i \in {i \in DOMAIN cr : Live(i)}}
      kept == {cr[i] : i \in {i \in DOMAIN cr :
                 Live(i) /\ Cardinality({j \in 1..i : Live(j)}) <= needed}}
      head == IF ws = <<>> THEN None ELSE Head(ws)
  IN /\ op' = [s \in Slots |-> IF s \in live \ kept THEN "signalled" ELSE o[s]]
     /\ owner' = [s \in Slots |-> IF s \in kept THEN head
                                  ELSE IF s \in live THEN None ELSE w[s]]

\* #cleanupWaiter and the settlement of its promise, which happens once.
SettleWaiter(r, outcome, cr, o, w, blocked) ==
  /\ status' = [status EXCEPT ![r] = IF Active(r) THEN outcome ELSE @]
  /\ waiters' = Without(waiters, r)
  /\ overdue' = overdue \ {r}
  /\ UNCHANGED count
  /\ Reconcile(waiters', cr, o, w, blocked)

\* #rejectWaiter
RejectWaiter(r) ==
  /\ SettleWaiter(r, "rejected", creating, op, owner, lowWaterBlocked)
  /\ RequestPump

\* The callers of #rejectWaiter that look the waiter up by a creation's
\* owner, after the creation itself was settled.
RejectOwner(s, cr, o) ==
  LET w == [owner EXCEPT ![s] = None]
  IN IF owner[s] # None /\ Active(owner[s])
     THEN SettleWaiter(owner[s], "rejected", cr, o, w, TRUE)
     ELSE /\ op' = o /\ owner' = w
          /\ UNCHANGED requestVars

\* Does #returnToPool keep a connection whose recycle cap is k?
Keeps(k) ==
  /\ state = "open"
  /\ waiters # <<>> \/ Len(idle) < (IF k = NoCap THEN IdleHigh ELSE k)

\* #returnToPool: idle again, or destroyed.  The cap outlives the return only
\* while a waiter is there to take the connection; on a connection that is
\* destroyed it is dead.
ReturnToPool(s, k) ==
  /\ conn' = [conn EXCEPT ![s] = IF Keeps(k) THEN "idle" ELSE "closing"]
  /\ op' = [op EXCEPT ![s] = IF Keeps(k) THEN None ELSE "running"]
  /\ idle' = IF Keeps(k) THEN Append(idle, s) ELSE idle
  /\ cap' = [cap EXCEPT ![s] = IF Keeps(k) /\ waiters # <<>> THEN k
                               ELSE NoCap]

\* #destroy of a connection that is not idle
Destroy(s) ==
  /\ conn' = [conn EXCEPT ![s] = "closing"]
  /\ op' = [op EXCEPT ![s] = "running"]

\* #startCreation
StartCreation(r) ==
  LET s == CHOOSE s \in Slots : conn[s] = "free"
  IN /\ In({"free"}) # {}
     /\ conn' = [conn EXCEPT ![s] = "creating"]
     /\ op' = [op EXCEPT ![s] = "running"]
     /\ owner' = [owner EXCEPT ![s] = r]
     /\ creating' = Append(creating, s)
     /\ UNCHANGED <<cap, idle>>

(***************************************************************************)
(* acquire(), and the three ways a waiting request is given up             *)
(***************************************************************************)
HasRoomForOneMore == Len(waiters) <= MaxWaiters
HasRoom == Len(waiters) < MaxWaiters
\* (A variant that would serve the latest request first.)
Push(r) == <<r>> \o waiters
Enqueue(r) == Append(waiters, r)

Acquire(r, n) ==
  /\ ~InTurn /\ status[r] = "new"
  /\ state = "open" /\ HasRoom
  /\ status' = [status EXCEPT ![r] = "waiting"]
  /\ count' = [count EXCEPT ![r] = n]
  /\ waiters' = Enqueue(r)
  /\ lowWaterBlocked' = FALSE
  /\ RequestPump
  /\ UNCHANGED <<endVars, connVars, release, overdue, leases, loopVars>>

\* POOL_CLOSED and POOL_OVERLOADED
AcquireRefused(r, n) ==
  /\ ~InTurn /\ status[r] = "new"
  /\ state # "open" \/ ~HasRoom
  /\ status' = [status EXCEPT ![r] = "rejected"]
  /\ count' = [count EXCEPT ![r] = n]
  /\ UNCHANGED <<endVars, connVars, release, waiters, overdue, leases,
                 loopVars, pumpVars, lowWaterBlocked>>

\* The abort listener.
AbortRequest(r) ==
  /\ ~InTurn /\ Active(r)
  /\ RejectWaiter(r)
  /\ UNCHANGED <<endVars, conn, cap, idle, creating, release, leases,
                 loopVars, lowWaterBlocked>>

\* The clock reaches waiter.deadline; the timer may be late.
DeadlinePasses(r) ==
  /\ ~InTurn /\ Active(r)
  /\ overdue' = overdue \cup {r}
  /\ UNCHANGED <<endVars, connVars, release, waiters, status, count, leases,
                 loopVars, pumpVars, lowWaterBlocked>>

TimeoutFires(r) == r \in overdue /\ AbortRequest(r)

(***************************************************************************)
(* Borrowers: withActiveLease(), resetActiveLease(), release()             *)
(***************************************************************************)
\* #activeLeaseRecord, and the refusal of a lease that is in use
Usable(g) == leases[g].active /\ leases[g].busy = None

CallStarts(g) ==
  /\ ~InTurn /\ Usable(g) /\ state \in {"open", "retiring"}
  /\ leases' = [leases EXCEPT ![g].busy = "call"]
  /\ UNCHANGED <<endVars, connVars, release, requestVars, loopVars, pumpVars,
                 lowWaterBlocked>>

CallEnds(g) ==
  /\ ~InTurn /\ leases[g].busy = "call"
  /\ leases' = [leases EXCEPT ![g].busy = None]
  /\ UNCHANGED <<endVars, connVars, release, requestVars, loopVars, pumpVars,
                 lowWaterBlocked>>

LeaseResetStarts(g) ==
  /\ ~InTurn /\ Usable(g) /\ state = "open" /\ LeaseResets
  /\ leases' = [leases EXCEPT ![g].busy = "reset"]
  /\ conn' = [conn EXCEPT ![leases[g].slot] = "resetting"]
  /\ op' = [op EXCEPT ![leases[g].slot] = "running"]
  /\ UNCHANGED <<endVars, owner, cap, idle, creating, release, requestVars,
                 loopVars, pumpVars, lowWaterBlocked>>

\* The finally block is the same for success, failure and expiry; it does
\* not request a pump.
LeaseResetSettles(g) ==
  /\ ~InTurn /\ leases[g].busy = "reset"
  /\ leases' = [leases EXCEPT ![g].busy = None]
  /\ conn' = [conn EXCEPT ![leases[g].slot] = "leased"]
  /\ op' = [op EXCEPT ![leases[g].slot] = None]
  /\ UNCHANGED <<endVars, owner, cap, idle, creating, release, requestVars,
                 loopVars, pumpVars, lowWaterBlocked>>

\* release() up to its first await
ReleaseEvicts(g, s) ==
  /\ Destroy(s)
  /\ release' = [release EXCEPT ![s] = "destroying"]
  /\ UNCHANGED <<cap, idle, lowWaterBlocked>>

ReleaseResets(g, s, k) ==
  /\ conn' = [conn EXCEPT ![s] = "resetting"]
  /\ op' = [op EXCEPT ![s] = "running"]
  /\ cap' = [cap EXCEPT ![s] = k]
  /\ release' = [release EXCEPT ![s] = "resetting"]
  /\ UNCHANGED <<idle, lowWaterBlocked>>

\* The last part of release(): the connection goes back, and the call waits
\* for that (a destroy, or one microtask) before it requests a pump.
ReleaseReturns(s, k) ==
  /\ ReturnToPool(s, k)
  /\ release' = [release EXCEPT ![s] =
                   IF Keeps(k) THEN "resuming" ELSE "destroying"]
  /\ lowWaterBlocked' = FALSE

Release(g, reusable, k) ==
  LET s == leases[g].slot
  IN /\ ~InTurn /\ Usable(g)
     /\ leases' = [leases EXCEPT ![g].active = FALSE]
     /\ \/ /\ ~reusable \/ state # "open"
           /\ ReleaseEvicts(g, s)
        \/ /\ reusable /\ state = "open"
           /\ IF ResetOnRelease THEN ReleaseResets(g, s, k)
                                ELSE ReleaseReturns(s, k)
     /\ UNCHANGED <<endVars, owner, creating, requestVars, loopVars, pumpVars>>

ReleaseResetSucceeds(s) ==
  /\ ~InTurn /\ release[s] = "resetting"
  /\ IF state = "open"
     THEN ReleaseReturns(s, cap[s])
     ELSE /\ Destroy(s)
          /\ release' = [release EXCEPT ![s] = "destroying"]
          /\ UNCHANGED <<cap, idle, lowWaterBlocked>>
  /\ UNCHANGED <<endVars, owner, creating, requestVars, leases, loopVars,
                 pumpVars>>

\* The reset threw, or its deadline passed: the connection is destroyed, and
\* the pump is requested even if that fails.
ReleaseResetFails(s) ==
  /\ ~InTurn /\ release[s] = "resetting"
  /\ MayFail("reset") \/ MayExpire("reset")
  /\ Destroy(s)
  /\ release' = [release EXCEPT ![s] = "evicting"]
  /\ UNCHANGED <<endVars, owner, cap, idle, creating, requestVars, leases,
                 loopVars, pumpVars, lowWaterBlocked>>

\* release() after its last await.  (Where it does not call #checkClosed that
\* call would change nothing: see DrainNoticed.)
ReleaseResumes(s) ==
  /\ ~InTurn /\ release[s] = "resuming"
  /\ release' = [release EXCEPT ![s] = None]
  /\ RequestPump
  /\ UNCHANGED <<connVars, requestVars, leases, loopVars, lowWaterBlocked>>
  /\ CheckClosed(state, shutdown)

(***************************************************************************)
(* Factory callbacks settle                                                *)
(***************************************************************************)
\* (A variant that ignores the abort signal of a creation.)
AnyCreation(s) == TRUE
StillWanted(s) == op[s] = "running"
\* #creationSucceeded: an aborted creation's connection is destroyed at once.
CreateSucceeds(s) ==
  /\ ~InTurn /\ conn[s] = "creating"
  /\ creating' = Without(creating, s)
  /\ IF StillWanted(s)
     THEN ReturnToPool(s, NoCap) /\ lowWaterBlocked' = FALSE
     ELSE Destroy(s) /\ UNCHANGED <<cap, idle, lowWaterBlocked>>
  /\ owner' = [owner EXCEPT ![s] = None]
  /\ RequestPump
  /\ UNCHANGED <<release, requestVars, leases, loopVars>>
  /\ CheckClosed(state, shutdown)

\* #creationFailed; the failure of an expired creation only frees its place.
CreateFails(s) ==
  /\ ~InTurn /\ conn[s] = "creating" /\ MayFail("create")
  /\ creating' = Without(creating, s)
  /\ conn' = [conn EXCEPT ![s] = "free"]
  /\ LET o == [op EXCEPT ![s] = None]
     IN IF op[s] = "overrun"
        THEN op' = o /\ UNCHANGED <<owner, requestVars, lowWaterBlocked>>
        ELSE RejectOwner(s, creating', o) /\ lowWaterBlocked' = TRUE
  /\ RequestPump
  /\ UNCHANGED <<cap, idle, release, leases, loopVars>>
  /\ CheckClosed(state, shutdown)

\* #creationExpired: the creation keeps its place until the callback ends.
CreateExpires(s) ==
  /\ ~InTurn /\ conn[s] = "creating" /\ op[s] \in {"running", "signalled"}
  /\ MayExpire("create")
  /\ RejectOwner(s, creating, [op EXCEPT ![s] = "overrun"])
  /\ lowWaterBlocked' = TRUE
  /\ RequestPump
  /\ UNCHANGED <<conn, cap, idle, creating, release, leases, loopVars>>
  /\ CheckClosed(state, shutdown)

\* #validate
ValidateSettles(s, outcome) ==
  /\ ~InTurn /\ conn[s] = "validating" /\ op[s] \in {"running", "signalled"}
  /\ \/ outcome = "healthy"
     \/ outcome = "unhealthy" /\ MayFail("validate")
     \/ outcome = "timedout" /\ MayExpire("validate")
  /\ op' = [op EXCEPT ![s] = outcome]
  /\ UNCHANGED <<endVars, conn, owner, cap, idle, creating, release,
                 requestVars, leases, loopVars, pumpVars, lowWaterBlocked>>

\* What becomes of the release() call that awaits the destroy of s
AfterDestroy(s, ok) ==
  release' = [release EXCEPT ![s] =
    CASE @ = "evicting" -> "resuming"
      [] @ = "destroying" -> IF ok THEN "resuming" ELSE None
      [] OTHER -> @]

\* The callback of #destroy fulfils, in time or late.
DestroySucceeds(s) ==
  /\ ~InTurn /\ conn[s] = "closing" /\ op[s] \in {"running", "overrun"}
  /\ conn' = [conn EXCEPT ![s] = "free"]
  /\ op' = [op EXCEPT ![s] = None]
  /\ IF op[s] = "running" THEN AfterDestroy(s, TRUE) ELSE UNCHANGED release
  /\ RequestPump
  /\ UNCHANGED <<owner, cap, idle, creating, requestVars, leases, loopVars,
                 lowWaterBlocked>>
  /\ CheckClosed(state, shutdown)

\* It throws or expires: the record is kept, and counts, until a late
\* success; after a failure it is never removed.
DestroyFails(s, end) ==
  /\ ~InTurn /\ conn[s] = "closing" /\ op[s] = "running"
  /\ \/ end = "failed" /\ MayFail("destroy")
     \/ end = "overrun" /\ MayExpire("destroy")
  /\ op' = [op EXCEPT ![s] = end]
  /\ AfterDestroy(s, FALSE)
  /\ RequestPump
  /\ UNCHANGED <<conn, owner, cap, idle, creating, requestVars, leases,
                 loopVars, lowWaterBlocked>>
  /\ CheckClosed(state, shutdown)

DestroyFailsLate(s) ==
  /\ ~InTurn /\ conn[s] = "closing" /\ op[s] = "overrun"
  /\ MayFail("destroy")
  /\ op' = [op EXCEPT ![s] = "failed"]
  /\ UNCHANGED <<endVars, conn, owner, cap, idle, creating, release,
                 requestVars, leases, loopVars, pumpVars, lowWaterBlocked>>

(***************************************************************************)
(* The pump and the dispatch loop                                          *)
(***************************************************************************)
\* The microtask queued by #requestPump
PumpTick ==
  /\ dpc = "off" /\ pumpScheduled
  /\ pumpScheduled' = FALSE
  /\ IF state = "open" THEN dpc' = "loop" /\ pumpAgain' = FALSE
                       ELSE UNCHANGED <<dpc, pumpAgain>>
  /\ UNCHANGED <<endVars, connVars, release, requestVars, leases, waiter,
                 candidates, lowWaterBlocked>>

\* (A variant that forgets what was requested meanwhile.)
DispatchEndsDeaf ==
  /\ dpc = "return"
  /\ dpc' = "off"
  /\ UNCHANGED <<endVars, connVars, release, requestVars, leases, waiter,
                 candidates, pumpVars, lowWaterBlocked>>
\* The finally reaction of the dispatch promise
DispatchEnds ==
  /\ dpc = "return"
  /\ dpc' = "off"
  /\ pumpScheduled' = (pumpScheduled \/ (pumpAgain /\ state = "open"))
  /\ UNCHANGED <<endVars, connVars, release, requestVars, leases, waiter,
                 candidates, pumpAgain, lowWaterBlocked>>

AtHead == dpc = "loop" /\ state = "open" /\ waiters # <<>>
AtRest == dpc = "loop" /\ state = "open" /\ waiters = <<>>

LoopStops ==
  /\ dpc = "loop" /\ state # "open"
  /\ dpc' = "return"
  /\ UNCHANGED <<endVars, connVars, release, requestVars, leases, waiter,
                 candidates, pumpVars, lowWaterBlocked>>

\* #trimIdleHigh: the smallest of the caps decides how many stay.
High(s) == IF cap[s] = NoCap THEN IdleHigh ELSE cap[s]
Untrimmed ==
  Len(idle) > IdleHigh \/ \E i \in DOMAIN idle : cap[idle[i]] # NoCap
TrimLength(n) ==
  /\ n <= IdleHigh /\ \A i \in DOMAIN idle : n <= High(idle[i])
  /\ \/ n \in {Len(idle), IdleHigh}
     \/ \E i \in DOMAIN idle : n = High(idle[i])

LoopTrims ==
  /\ AtRest /\ Untrimmed
  /\ \E n \in 0..Len(idle) :
       LET cut == {idle[i] : i \in (n + 1)..Len(idle)}
       IN /\ TrimLength(n)
          /\ idle' = SubSeq(idle, 1, n)
          /\ conn' = [s \in Slots |-> IF s \in cut THEN "closing" ELSE conn[s]]
          /\ op' = [s \in Slots |-> IF s \in cut THEN "running" ELSE op[s]]
          /\ cap' = [s \in Slots |-> IF conn[s] = "idle" THEN NoCap ELSE cap[s]]
  /\ UNCHANGED <<endVars, owner, creating, release, requestVars, leases,
                 loopVars, pumpVars, lowWaterBlocked>>

\* One creation of #ensureWaiterCapacity or #ensureLowWater
MayCreate(wanted) ==
  ExpectedAvailable < wanted /\ Capacity < MaxConnections
Refills == ~lowWaterBlocked /\ MayCreate(LowWater)
ServableHead == AtHead /\ Head(waiters) \notin overdue

LoopCreates ==
  /\ \/ /\ AtRest /\ ~Untrimmed /\ Refills
        /\ StartCreation(None)
     \/ /\ ServableHead /\ Len(idle) < count[Head(waiters)]
        /\ MayCreate(count[Head(waiters)])
        /\ StartCreation(Head(waiters))
  /\ UNCHANGED <<endVars, release, requestVars, leases, loopVars, pumpVars,
                 lowWaterBlocked>>

\* #dispatch returns: nothing is left to start.
LoopReturns ==
  /\ \/ AtRest /\ ~Untrimmed /\ ~Refills
     \/ /\ ServableHead /\ Len(idle) < count[Head(waiters)]
        /\ ~MayCreate(count[Head(waiters)])
  /\ dpc' = "return"
  /\ UNCHANGED <<endVars, connVars, release, requestVars, leases, waiter,
                 candidates, pumpVars, lowWaterBlocked>>

LoopRejects ==
  /\ AtHead /\ Head(waiters) \in overdue
  /\ RejectWaiter(Head(waiters))
  /\ UNCHANGED <<endVars, conn, cap, idle, creating, release, leases,
                 loopVars, lowWaterBlocked>>

\* The first idle connections become candidates; the loop awaits their
\* validation.
LoopTakes ==
  /\ ServableHead /\ Len(idle) >= count[Head(waiters)]
  /\ LET n == count[Head(waiters)]
         taken == {idle[i] : i \in 1..n}
     IN /\ candidates' = SubSeq(idle, 1, n)
        /\ idle' = SubSeq(idle, n + 1, Len(idle))
        /\ conn' = [s \in Slots |-> IF s \in taken THEN "validating"
                                    ELSE conn[s]]
        /\ op' = [s \in Slots |->
                    IF s \notin taken THEN op[s]
                    ELSE IF ValidateOnCheckout THEN "running" ELSE "healthy"]
  /\ waiter' = Head(waiters)
  /\ dpc' = "await"
  /\ UNCHANGED <<endVars, owner, cap, creating, release, requestVars, leases,
                 pumpVars, lowWaterBlocked>>

Outcomes == {op[candidates[i]] : i \in DOMAIN candidates}
Validated ==
  dpc = "await" /\ Outcomes \subseteq {"healthy", "unhealthy", "timedout"}

\* May the request chosen before the await still be served?
\* (A variant that does not look again whether it was settled meanwhile.)
StillOpen(r) == state = "open"
StillHead(r) == state = "open" /\ Active(r) /\ Head(waiters) = r

\* Nothing is granted: a validation expired, the request is gone or no longer
\* first, or a candidate is unhealthy.
ResumeRollsBack ==
  /\ Validated
  /\ \/ "timedout" \in Outcomes /\ dpc' = "refuse"
     \/ /\ "timedout" \notin Outcomes
        /\ ~StillHead(waiter) \/ (waiter \notin overdue /\ Outcomes # {"healthy"})
        /\ dpc' = "rollback"
  /\ UNCHANGED <<endVars, connVars, release, requestVars, leases, waiter,
                 candidates, pumpVars, lowWaterBlocked>>

\* #waiterCannotDispatch: the deadline passed during the validation.
ResumeRejects ==
  /\ Validated /\ "timedout" \notin Outcomes
  /\ StillHead(waiter) /\ waiter \in overdue
  /\ RejectWaiter(waiter)
  /\ dpc' = "rollback"
  /\ UNCHANGED <<endVars, conn, cap, idle, creating, release, leases, waiter,
                 candidates, lowWaterBlocked>>

Grantable(r) == StillHead(r) /\ r \notin overdue
ResumeGrants ==
  LET taken == {candidates[i] : i \in DOMAIN candidates}
  IN /\ Validated /\ Outcomes = {"healthy"} /\ Grantable(waiter)
     /\ SettleWaiter(waiter, "granted", creating,
                     [s \in Slots |-> IF s \in taken THEN None ELSE op[s]],
                     owner, lowWaterBlocked)
     /\ conn' = [s \in Slots |-> IF s \in taken THEN "leased" ELSE conn[s]]
     /\ cap' = [s \in Slots |-> IF s \in taken THEN NoCap ELSE cap[s]]
     /\ leases' = leases \o [i \in DOMAIN candidates |->
                    [slot |-> candidates[i], holder |-> waiter,
                     active |-> TRUE, busy |-> None]]
     /\ candidates' = <<>> /\ waiter' = None
     /\ dpc' = "loop"
     /\ UNCHANGED <<endVars, idle, creating, release, pumpVars,
                    lowWaterBlocked>>

\* One candidate goes back, or is destroyed if it is not healthy.
RollsBack ==
  /\ dpc \in {"rollback", "refuse"} /\ candidates # <<>>
  /\ LET s == Head(candidates)
     IN IF op[s] = "healthy" THEN ReturnToPool(s, cap[s])
                             ELSE Destroy(s) /\ UNCHANGED <<cap, idle>>
  /\ candidates' = Tail(candidates)
  /\ UNCHANGED <<endVars, owner, creating, release, requestVars, leases, dpc,
                 waiter, pumpVars, lowWaterBlocked>>

RolledBack ==
  /\ dpc = "rollback" /\ candidates = <<>>
  /\ dpc' = "loop" /\ waiter' = None
  /\ UNCHANGED <<connVars, release, requestVars, leases, candidates,
                 pumpVars, lowWaterBlocked>>
  /\ CheckClosed(state, shutdown)

\* A validation expired: the request is refused after the rollback.
RefusesWaiter ==
  /\ dpc = "refuse" /\ candidates = <<>>
  /\ dpc' = "loop" /\ waiter' = None
  /\ IF Active(waiter) THEN RejectWaiter(waiter)
                       ELSE UNCHANGED <<op, owner, requestVars, pumpVars>>
  /\ UNCHANGED <<endVars, conn, cap, idle, creating, release, leases,
                 candidates, lowWaterBlocked>>

(***************************************************************************)
(* close(), drain() and retire()                                           *)
(***************************************************************************)
Interrupted == {"creating", "validating", "resetting"}

Shutdown(target) ==
  /\ ~InTurn /\ state = "open"
  /\ status' = [r \in Requests |-> IF Active(r) THEN "rejected" ELSE status[r]]
  /\ waiters' = <<>> /\ overdue' = {}
  /\ conn' = [s \in Slots |-> IF conn[s] = "idle" THEN "closing" ELSE conn[s]]
  /\ op' = [s \in Slots |->
              CASE conn[s] = "idle" -> "running"
                [] conn[s] \in Interrupted /\ op[s] = "running" -> "signalled"
                [] OTHER -> op[s]]
  /\ owner' = [s \in Slots |-> IF s \in LiveCreations THEN None ELSE owner[s]]
  /\ idle' = <<>>
  /\ UNCHANGED <<cap, creating, release, count, leases, loopVars, pumpVars,
                 lowWaterBlocked>>
  /\ CheckClosed(target, "pending")

\* close() while retiring
Escalate ==
  /\ ~InTurn /\ state = "retiring"
  /\ state' = "closing"
  /\ UNCHANGED <<shutdown, connVars, release, requestVars, leases, loopVars,
                 pumpVars, lowWaterBlocked>>

\* POOL_SHUTDOWN_TIMEOUT
ShutdownTimeout ==
  /\ ~InTurn /\ shutdown = "pending"
  /\ shutdown' = "rejected"
  /\ UNCHANGED <<state, connVars, release, requestVars, leases, loopVars,
                 pumpVars, lowWaterBlocked>>

(***************************************************************************)
(* The specification                                                       *)
(***************************************************************************)
\* The constructor ends with #requestPump, for the low-water mark.
Init ==
  /\ state = "open" /\ shutdown = None
  /\ conn = [s \in Slots |-> "free"] /\ op = [s \in Slots |-> None]
  /\ owner = [s \in Slots |-> None] /\ cap = [s \in Slots |-> NoCap]
  /\ release = [s \in Slots |-> None]
  /\ idle = <<>> /\ creating = <<>> /\ waiters = <<>>
  /\ status = [r \in Requests |-> "new"] /\ count = [r \in Requests |-> 1]
  /\ overdue = {} /\ leases = <<>>
  /\ dpc = "off" /\ waiter = None /\ candidates = <<>>
  /\ pumpScheduled = TRUE /\ pumpAgain = FALSE /\ lowWaterBlocked = FALSE

Asks(r) ==
  \/ \E n \in 1..MaxConnections : Acquire(r, n) \/ AcquireRefused(r, n)
  \/ AbortRequest(r) \/ DeadlinePasses(r) \/ TimeoutFires(r)

Borrows(g) ==
  \/ CallStarts(g) \/ CallEnds(g) \/ LeaseResetStarts(g) \/ LeaseResetSettles(g)
  \/ \E reusable \in BOOLEAN, k \in ReleaseCaps \cup {NoCap} :
       Release(g, reusable, k)

Settles(s) ==
  \/ CreateSucceeds(s) \/ CreateFails(s) \/ CreateExpires(s)
  \/ \E outcome \in {"healthy", "unhealthy", "timedout"} :
       ValidateSettles(s, outcome)
  \/ ReleaseResetSucceeds(s) \/ ReleaseResetFails(s) \/ ReleaseResumes(s)
  \/ DestroySucceeds(s) \/ DestroyFailsLate(s)
  \/ \E end \in {"failed", "overrun"} : DestroyFails(s, end)

Dispatches ==
  \/ PumpTick \/ DispatchEnds
  \/ LoopStops \/ LoopTrims \/ LoopCreates \/ LoopReturns \/ LoopRejects
  \/ LoopTakes
  \/ ResumeRollsBack \/ ResumeRejects \/ ResumeGrants
  \/ RollsBack \/ RolledBack \/ RefusesWaiter

Ends ==
  \/ \E target \in {"retiring", "closing"} : Shutdown(target)
  \/ Escalate \/ ShutdownTimeout

Next ==
  \/ \E r \in Requests : Asks(r)
  \/ \E g \in DOMAIN leases : Borrows(g)
  \/ \E s \in Slots : Settles(s)
  \/ Dispatches
  \/ Ends

Spec == Init /\ [][Next]_vars
=============================================================================
