---------------------------- MODULE Transaction ----------------------------
(***************************************************************************)
(* The coordinators of BAPI units of work (LUW) that share the sessions of *)
(* one pool: src/lifecycle/transaction-runtime.ts.                         *)
(*                                                                         *)
(* begin() pins a lease; business calls, one commit or rollback, and the   *)
(* reset run on it; a terminal gives it up.  An action is one run of the   *)
(* JavaScript thread.  Where another public call can come between the      *)
(* settlement of a bounded call and the code after its await (acquire,     *)
(* business call) these are two actions; once a terminal is claimed no     *)
(* public call changes anything, and they are one.  The private methods    *)
(* are operators from the fields of a runtime to its new fields.           *)
(*                                                                         *)
(* The lease adapter and the classifier are the environment: they answer,  *)
(* fail, or ignore their abort signal until the deadline passes, and work  *)
(* that overran its deadline still runs on the session until it settles.   *)
(* A broken scheduler counts as a passed deadline.  Calls that the runtime *)
(* refuses change nothing and are left out.                                *)
(***************************************************************************)
EXTENDS Naturals

CONSTANTS
  Transactions,    \* the runtimes
  Sessions,        \* the physical sessions behind their lease adapters
  HasClassifier    \* is there a classifyFailure?

None == "none"

ASSUME TransactionAssumption == HasClassifier \in BOOLEAN /\ None \notin Sessions

VARIABLES
  tx,              \* the fields of each runtime
  free             \* the sessions that may be acquired
vars == <<tx, free>>

Pending == {"running", "signalled"}
Settled == {"ok", "failed", "timedout"}
Over == {"resolved", "rejected"}

States == {"idle", "opening", "active", "calling", "committing",
           "rollingBack", "resetting", "releasing", "closing", "failed",
           "closed"}
Outcomes == {None, "active", "committed", "rolledBack", "rejected", "ambiguous"}
Acquires == {None, "rollback"} \cup Pending \cup Settled
Calls == {None} \cup Pending \cup Settled
Terminals == {None, "opening", "acquires", "call", "control", "reset",
              "operations", "release"} \cup Over
Lates == {None, "acquiring", "evicting"}
LateReleases == {None, "waiting", "releasing", "done"}
Controls == {None, "commit", "rollback"}
Leases == {None, "held", "reused", "evicted"}
Units == {"open", "committed", "rolledBack"}

Fields ==
  [state : States, outcome : Outcomes,
   token : BOOLEAN,             \* was a token published?
   acquire : Acquires,          \* what begin() awaits: acquire or rollback
   \* an acquire past its deadline (#acquireQuarantines), and whether one was
   \* not settled cleanly (#acquireQuarantineFailure)
   late : Lates, lateFailed : BOOLEAN,
   call : Calls,                \* the business call
   overdue : BOOLEAN,           \* work past its deadline (#operationQuarantine)
   terminal : Terminals,        \* where it stands, or how it was settled
   control : Controls,          \* what the terminal invoked
   \* the disposition the terminal will release with; does it hold a failure?
   reusable : BOOLEAN, flawed : BOOLEAN,
   lateRelease : LateReleases,
   \* what became of the lease of the latest acquire, how often the adapter
   \* was told to release it, and the session it stands for
   lease : Leases, releases : Nat, session : Sessions \cup {None},
   \* the unit of work at the SAP side; did a call end with its effect unknown?
   luw : Units, doubt : BOOLEAN]

TypeOK == tx \in [Transactions -> Fields] /\ free \subseteq Sessions

\* Runtime t gets the fields x.  Its adapter keeps account of the sessions:
\* one that is acquired is taken, one released as reusable is free again.
Becomes(t, x) ==
  /\ tx' = [tx EXCEPT ![t] = x]
  /\ free' = IF x.lease = tx[t].lease THEN free
             ELSE IF x.lease = "reused" THEN free \cup {x.session}
             ELSE free \ {x.session}

(***************************************************************************)
(* begin()                                                                 *)
(***************************************************************************)
Begin(t) ==
  /\ tx[t].state = "idle"
  /\ Becomes(t, [tx[t] EXCEPT !.state = "opening", !.acquire = "running",
                              !.lateFailed = FALSE, !.lease = None,
                              !.session = None, !.releases = 0])

\* #releaseLease: the call is the hand-over; its answer is awaited, but
\* nothing depends on it.  The flag #releaseClaimed is left out: see
\* ReleasedOnce.
HandOver(x, reuse) ==
  [x EXCEPT !.lease = IF reuse THEN "reused" ELSE "evicted",
            !.releases = @ + 1]

AcquireSucceeds(t, s) ==
  /\ tx[t].acquire \in Pending /\ s \in free
  /\ Becomes(t, [tx[t] EXCEPT !.acquire = "ok", !.lease = "held",
                              !.session = s])

AcquireFails(t) ==
  /\ tx[t].acquire \in Pending
  /\ Becomes(t, [tx[t] EXCEPT !.acquire = "failed"])

AcquireExpires(t) ==
  /\ tx[t].acquire \in Pending
  /\ Becomes(t, [tx[t] EXCEPT !.acquire = "timedout", !.late = "acquiring"])

Publishable(x) == x.state = "opening"

BeginPublishes(t) ==
  /\ tx[t].acquire = "ok" /\ Publishable(tx[t])
  /\ Becomes(t, [tx[t] EXCEPT !.state = "active", !.outcome = "active",
                              !.token = TRUE, !.acquire = None])

\* close() came first: the lease goes back.
BeginRollsBack(t) ==
  /\ tx[t].acquire = "ok" /\ ~Publishable(tx[t])
  /\ Becomes(t, HandOver([tx[t] EXCEPT !.acquire = "rollback"], FALSE))

\* #settleTerminal
Fulfilled(x) == [x EXCEPT !.state = "closed", !.terminal = "resolved"]
Refuted(x) == [x EXCEPT !.state = "failed", !.terminal = "rejected"]

\* #finishCloseDuringOpening after begin() has ended
FinishCloseDuringOpening(x) ==
  IF x.late # None THEN [x EXCEPT !.state = "closing", !.terminal = "acquires"]
  ELSE IF x.lateFailed THEN Refuted(x) ELSE Fulfilled(x)

\* The end of a begin() that rejects, and what a close() waiting for it does.
\* (A variant that forgets the close().)
BeginEndsAlone(x) ==
  [x EXCEPT !.acquire = None,
            !.state = IF @ = "opening"
                      THEN IF x.late = None THEN "idle" ELSE "failed" ELSE @]
BeginEnds(x) ==
  LET y == [x EXCEPT !.acquire = None]
  IN IF x.state = "opening"
     THEN [y EXCEPT !.state = IF x.late = None THEN "idle" ELSE "failed"]
     ELSE FinishCloseDuringOpening(y)

BeginRejects(t) ==
  /\ tx[t].acquire \in {"failed", "timedout"}
  /\ Becomes(t, BeginEnds(tx[t]))

RollbackSettles(t, r) ==
  /\ tx[t].acquire = "rollback"
  /\ Becomes(t, BeginEnds([tx[t] EXCEPT !.lateFailed = @ \/ r # "ok"]))

(***************************************************************************)
(* An acquire past its deadline                                            *)
(***************************************************************************)
\* #cleanupLateAcquire: a lease arrives that nobody waits for.
LateFulfils(t, s) ==
  /\ tx[t].late = "acquiring" /\ s \in free
  /\ Becomes(t, HandOver([tx[t] EXCEPT !.late = "evicting", !.session = s],
                         FALSE))

\* #trackAcquireQuarantine, #settleAcquireQuarantineState, and the close()
\* that waits for the quarantine
LateEnds(x, failure) ==
  LET y == [x EXCEPT !.late = None, !.lateFailed = @ \/ failure]
  IN IF x.terminal = "acquires"
     THEN IF failure THEN Refuted(y) ELSE Fulfilled(y)
     ELSE IF x.state = "failed" /\ ~x.token /\ ~y.lateFailed
     THEN [y EXCEPT !.state = IF x.terminal = None THEN "idle" ELSE "closed"]
     ELSE y

LateRejects(t) ==
  tx[t].late = "acquiring" /\ Becomes(t, LateEnds(tx[t], FALSE))

LateEvictionSettles(t, r) ==
  tx[t].late = "evicting" /\ Becomes(t, LateEnds(tx[t], r # "ok"))

\* The close() waiting for the quarantine loses patience.
AcquiresTimeOut(t) ==
  tx[t].terminal = "acquires" /\ Becomes(t, Refuted(tx[t]))

(***************************************************************************)
(* Terminals                                                               *)
(***************************************************************************)
\* #releasePublishedLease
StartRelease(x, reuse) ==
  HandOver([x EXCEPT !.state = "releasing", !.terminal = "release"], reuse)

\* The release at the end of a terminal.  Work past its deadline still owns
\* the session and is waited for: #prepareReleaseAfterQuarantine.
EndWithRelease(x, reuse, failure) ==
  LET y == [x EXCEPT !.reusable = reuse, !.flawed = failure]
  IN IF x.overdue THEN [y EXCEPT !.terminal = "operations"]
     ELSE StartRelease(y, reuse)

\* #finishControl up to its first await
StartControl(x, op) ==
  [x EXCEPT !.state = IF op = "commit" THEN "committing" ELSE "rollingBack",
            !.control = op, !.terminal = "control"]

Commit(t) ==
  tx[t].state = "active" /\ Becomes(t, StartControl(tx[t], "commit"))

\* rollback(), abort() and close() between two calls
Rollback(t) ==
  tx[t].state = "active" /\ Becomes(t, StartControl(tx[t], "rollback"))

Executed(x) == IF x.control = "commit" THEN "committed" ELSE "rolledBack"

\* The SAP system executes the control function, in time for an answer or,
\* when the answer was lost, at any later time.
ServerExecutes(t) ==
  /\ tx[t].luw = "open" /\ tx[t].control # None
  /\ tx[t].terminal = "control" \/ tx[t].outcome = "ambiguous"
  /\ Becomes(t, [tx[t] EXCEPT !.luw = Executed(tx[t])])

ControlSucceeds(t) ==
  /\ tx[t].terminal = "control" /\ tx[t].luw # "open"
  /\ Becomes(t, [tx[t] EXCEPT !.outcome = Executed(tx[t]),
                              !.state = "resetting", !.terminal = "reset"])

\* The answer's RETURN table holds an error: TransactionBapiError.
ControlRefused(t) ==
  /\ tx[t].terminal = "control" /\ tx[t].luw = "open"
  /\ Becomes(t, EndWithRelease([tx[t] EXCEPT !.outcome = "rejected"],
                               FALSE, TRUE))

\* (A variant that takes any failure for a rejection.)
LostOutcomeUnclassified == "rejected"
LostOutcome == "ambiguous"

ControlLost(t, r) ==
  /\ tx[t].terminal = "control" /\ r # "ok"
  /\ Becomes(t, EndWithRelease([tx[t] EXCEPT !.outcome = LostOutcome,
                                             !.overdue = (r = "timedout")],
                               FALSE, TRUE))

\* (A variant that keeps the lease whatever the reset did.)
ReusableAlways(r) == TRUE
Reusable(r) == r = "ok"

ResetSettles(t, r) ==
  /\ tx[t].terminal = "reset"
  /\ Becomes(t, EndWithRelease([tx[t] EXCEPT !.overdue = (r = "timedout")],
                               Reusable(r), r # "ok"))

\* Work past its deadline settles at last, and what waited for it goes on: the
\* terminal, or the late release.
\* (Variants: the late release is forgotten, or is taken for the terminal's.)
LateReleaseForgotten(x) ==
  IF x.terminal = "operations" THEN StartRelease(x, x.reusable) ELSE x
LateReleaseRevives(x) ==
  IF x.terminal = "operations" \/ x.lateRelease = "waiting"
  THEN StartRelease(x, x.reusable) ELSE x
AfterOverdue(x) ==
  IF x.terminal = "operations" THEN StartRelease(x, x.reusable)
  ELSE IF x.lateRelease = "waiting"
  THEN HandOver([x EXCEPT !.state = "releasing", !.lateRelease = "releasing"],
                FALSE)
  ELSE x
OverdueSettles(t) ==
  /\ tx[t].overdue
  /\ Becomes(t, AfterOverdue([tx[t] EXCEPT !.overdue = FALSE]))

\* The terminal loses patience: it rejects and leaves the release to
\* #startLateRelease.
OperationsTimeOut(t) ==
  /\ tx[t].terminal = "operations"
  /\ Becomes(t, [Refuted(tx[t]) EXCEPT !.lateRelease = "waiting"])

ReleaseSettles(t, r) ==
  /\ tx[t].terminal = "release"
  /\ Becomes(t, IF tx[t].flawed \/ r # "ok"
                THEN [tx[t] EXCEPT !.state = "closed", !.terminal = "rejected"]
                ELSE Fulfilled(tx[t]))

LateReleaseSettles(t) ==
  /\ tx[t].lateRelease = "releasing"
  /\ Becomes(t, [tx[t] EXCEPT !.state = "closed", !.lateRelease = "done"])

(***************************************************************************)
(* call()                                                                  *)
(***************************************************************************)
Call(t) ==
  /\ tx[t].state = "active"
  /\ Becomes(t, [tx[t] EXCEPT !.state = "calling", !.call = "running"])

CallSettles(t, r) ==
  /\ tx[t].call \in Pending
  /\ Becomes(t, [tx[t] EXCEPT !.call = r, !.overdue = (r = "timedout")])

\* The session is in a known state: the transaction stays active or, if
\* close() or cancel() came first, #finishCloseDuringCall rolls it back.
CallStable(x, closing) ==
  LET y == [x EXCEPT !.call = None]
  IN IF closing THEN StartControl(y, "rollback")
     ELSE [y EXCEPT !.state = "active"]

CallReturns(t) ==
  /\ tx[t].call = "ok"
  /\ Becomes(t, CallStable(tx[t], tx[t].state = "closing"))

\* A failed call leaves the session in an unknown state: it is given up
\* without a word.
CallFails(t) ==
  /\ tx[t].call \in {"failed", "timedout"}
  /\ Becomes(t, EndWithRelease(
       [tx[t] EXCEPT !.call = None, !.outcome = "ambiguous", !.doubt = TRUE,
                     !.state = IF @ = "closing" THEN @ ELSE "failed"],
       FALSE, FALSE))

\* classifyFailure answers "recoverable"; it may have called close() itself.
CallRecovers(t, reenters) ==
  /\ tx[t].call = "failed" /\ tx[t].state # "closing" /\ HasClassifier
  /\ Becomes(t, CallStable(tx[t], reenters))

(***************************************************************************)
(* close()                                                                 *)
(***************************************************************************)
CloseIdle(t) == tx[t].state = "idle" /\ Becomes(t, Fulfilled(tx[t]))

\* #abortClosableWork
Signalled(w) == IF w = "running" THEN "signalled" ELSE w

CloseOpening(t) ==
  /\ tx[t].state = "opening"
  /\ Becomes(t, [tx[t] EXCEPT !.state = "closing", !.terminal = "opening",
                              !.acquire = Signalled(@)])

\* close(), cancel() and abort() during a call: #closeDuringCall
CloseCalling(t) ==
  /\ tx[t].state = "calling"
  /\ Becomes(t, [tx[t] EXCEPT !.state = "closing", !.terminal = "call",
                              !.call = Signalled(@)])

\* A begin() timed out, and its acquire was not settled cleanly.
CloseFailed(t) ==
  /\ tx[t].state = "failed" /\ ~tx[t].token /\ tx[t].terminal = None
  /\ Becomes(t, FinishCloseDuringOpening(tx[t]))

(***************************************************************************)
(* The specification                                                       *)
(***************************************************************************)
Init ==
  /\ free = Sessions
  /\ tx = [t \in Transactions |->
       [state |-> "idle", outcome |-> None, token |-> FALSE, acquire |-> None,
        late |-> None, lateFailed |-> FALSE, call |-> None, overdue |-> FALSE,
        terminal |-> None, control |-> None, reusable |-> FALSE,
        flawed |-> FALSE, lateRelease |-> None, lease |-> None,
        releases |-> 0, session |-> None, luw |-> "open", doubt |-> FALSE]]

Asks(t) ==
  \/ Begin(t) \/ Call(t) \/ Commit(t) \/ Rollback(t)
  \/ CloseIdle(t) \/ CloseOpening(t) \/ CloseCalling(t) \/ CloseFailed(t)

\* What the event loop has queued
Resumes(t) ==
  \/ BeginPublishes(t) \/ BeginRollsBack(t) \/ BeginRejects(t)
  \/ CallReturns(t) \/ CallFails(t) \/ \E b \in BOOLEAN : CallRecovers(t, b)

\* A bounded call settles: by an answer, or by its deadline ("timedout").
Settles(t, r) ==
  \/ RollbackSettles(t, r) \/ LateEvictionSettles(t, r)
  \/ CallSettles(t, r) \/ ControlLost(t, r) \/ ResetSettles(t, r)
  \/ ReleaseSettles(t, r)

Answers(t) ==
  \/ \E s \in Sessions : AcquireSucceeds(t, s)
  \/ AcquireFails(t) \/ ControlSucceeds(t) \/ ControlRefused(t)

\* Deadlines with no answer that could come in their place
Expires(t) ==
  \/ AcquireExpires(t) \/ AcquiresTimeOut(t) \/ OperationsTimeOut(t)
  \/ LateReleaseSettles(t)

\* The adapter answers after the deadline.
Straggles(t) ==
  \/ \E s \in Sessions : LateFulfils(t, s)
  \/ LateRejects(t) \/ OverdueSettles(t)

Next ==
  \E t \in Transactions :
    \/ Asks(t) \/ Resumes(t) \/ Answers(t) \/ Expires(t) \/ Straggles(t)
    \/ ServerExecutes(t) \/ \E r \in Settled : Settles(t, r)

Spec == Init /\ [][Next]_vars

(***************************************************************************)
(* What makes the transaction coordinators correct.                        *)
(***************************************************************************)
\* What runs on a session for a transaction: a business call, the control
\* function or the reset inside their deadlines, or work that overran one.
Working(x) ==
  x.call \in Pending \/ x.terminal \in {"control", "reset"} \/ x.overdue

\* "A once-only ownership handoff" (TransactionLeaseAdapter.release): whoever
\* gives a lease up, the terminal, the late release, the rollback of a begin()
\* or a late acquire, tells the adapter exactly once.
ReleasedOnce ==
  \A t \in Transactions :
    tx[t].releases = IF tx[t].lease \in {"reused", "evicted"} THEN 1 ELSE 0

\* The lease is never transferred while work still runs on its session, not
\* even work the runtime has stopped waiting for; and no second piece of work
\* is started beside one that has overrun.
WorkOwnsLease ==
  \A t \in Transactions :
    /\ Working(tx[t]) => tx[t].lease = "held"
    /\ tx[t].overdue =>
         tx[t].call \notin Pending /\ tx[t].terminal \notin {"control", "reset"}

\* Transactions are isolated: of all those that ever had a session only one
\* holds it or has work on it, and each of the others has finished its unit
\* of work and reset the session without a failure.  Nobody holds a session
\* that is free to be acquired.
Isolation ==
  \A t \in Transactions :
    /\ tx[t].session \in free => tx[t].lease = "reused"
    /\ \A u \in Transactions \ {t} :
         tx[t].session = tx[u].session /\ tx[t].session # None =>
           \E v \in {t, u} :
             /\ tx[v].lease = "reused" /\ tx[v].luw # "open"
             /\ ~tx[v].flawed /\ ~Working(tx[v])

\* cancel() "never sends rollback on an ambiguous session": after a business
\* call whose effect is unknown, neither commit nor rollback is ever invoked.
NoControlInDoubt ==
  \A t \in Transactions : tx[t].doubt => tx[t].control = None

\* The reported outcome is never wrong: a definite outcome is the one of the
\* SAP system, a rejected control function was not executed, and what was
\* executed is never reported as anything else.
OutcomeHonest ==
  \A t \in Transactions :
    /\ tx[t].outcome \in {"committed", "rolledBack"} => tx[t].luw = tx[t].outcome
    /\ tx[t].outcome = "rejected" => tx[t].luw = "open"
    /\ tx[t].luw # "open" /\ tx[t].terminal # "control" =>
         tx[t].outcome \in {tx[t].luw, "ambiguous"}

\* A fulfilled commit(), rollback() or close() means what it says: the control
\* function succeeded and the lease was kept, or no control function was due;
\* and nothing is held or on its way any more.
FulfilledIsClean ==
  \A t \in Transactions : tx[t].terminal = "resolved" =>
    /\ tx[t].state = "closed" /\ tx[t].lease # "held"
    /\ tx[t].late = None /\ ~tx[t].overdue
    /\ tx[t].control # None =>
         tx[t].lease = "reused" /\ tx[t].outcome = Executed(tx[t])

\* A runtime at rest, idle or closed, holds no lease and waits for none.
NothingHeldAtRest ==
  \A t \in Transactions : tx[t].state \in {"idle", "closed"} =>
    /\ tx[t].lease # "held" /\ tx[t].late = None /\ ~Working(tx[t])

\* The end is final: a closed runtime stays closed, a decided outcome and a
\* settled terminal are never revised.
EndIsFinal ==
  [][\A t \in Transactions :
       /\ tx[t].state = "closed" => tx'[t].state = "closed"
       /\ tx[t].outcome \notin {None, "active"} =>
            tx'[t].outcome = tx[t].outcome
       /\ tx[t].terminal \in Over => tx'[t].terminal = tx[t].terminal]_vars

(***************************************************************************)
(* The inductive invariant: the fields of one runtime fit together, and    *)
(* the sessions of different runtimes are apart.                           *)
(***************************************************************************)
\* Before a token is published there is nothing but an acquire, in time or
\* late, and the close() that may wait for it.
BeforeToken(x) ==
  /\ x.outcome = None /\ x.call = None /\ ~x.overdue /\ x.control = None
  /\ x.lateRelease = None /\ x.luw = "open" /\ ~x.doubt
  /\ x.state \in {"idle", "opening", "closing", "failed", "closed"}
  /\ x.lease = "held" <=> x.acquire = "ok"
  /\ x.lease # "reused"
  /\ x.acquire \in Pending \cup {"failed"} => x.lease = None /\ x.late = None
  /\ x.acquire \in {"ok", "rollback"} => x.late = None
  /\ x.acquire = "rollback" => x.lease = "evicted"
  /\ x.late = "acquiring" => x.lease = None
  /\ x.late = "evicting" => x.lease = "evicted"
  /\ x.state = "idle" => x.terminal = None /\ x.acquire = None /\ x.late = None
  /\ x.state = "opening" =>
       x.terminal = None /\ x.acquire \notin {None, "rollback"}
  /\ x.state = "closing" =>
       IF x.terminal = "opening" THEN x.acquire # None
       ELSE x.terminal = "acquires" /\ x.acquire = None /\ x.late # None
  /\ x.state = "failed" => x.terminal \in {None, "rejected"} /\ x.acquire = None
  /\ x.state = "closed" =>
       x.terminal \in Over /\ x.acquire = None /\ x.late = None

\* The states of a published transaction, one by one.
Published(x) ==
  /\ x.acquire = None /\ x.late = None
  /\ \/ /\ x.state = "active" /\ x.terminal = None
        /\ x.call = None /\ ~x.overdue
     \/ /\ \/ x.state = "calling" /\ x.terminal = None
           \/ x.state = "closing" /\ x.terminal = "call"
        /\ x.call # None /\ (x.overdue => x.call = "timedout")
     \/ /\ x.state \in {"committing", "rollingBack"} /\ x.terminal = "control"
        /\ ~x.overdue
     \/ x.state = "resetting" /\ x.terminal = "reset" /\ ~x.overdue
     \/ /\ x.state \in {"closing", "failed", "committing", "rollingBack",
                        "resetting"}
        /\ x.terminal = "operations" /\ x.overdue /\ ~x.reusable
     \/ x.state = "failed" /\ x.terminal = "rejected" /\ x.overdue
     \/ /\ \/ x.state = "releasing" /\ x.terminal = "release"
           \/ x.state = "releasing" /\ x.terminal = "rejected"
           \/ x.state = "closed" /\ x.terminal \in Over
        /\ ~x.overdue
  /\ x.call # None => x.state \in {"calling", "closing"} /\ x.terminal \in {None, "call"}
  /\ x.lateRelease # None => x.terminal = "rejected"
  /\ x.terminal = "rejected" =>
       /\ x.state = "failed" <=> x.lateRelease = "waiting"
       /\ x.state = "releasing" <=> x.lateRelease = "releasing"
  /\ x.lease = IF x.state \notin {"releasing", "closed"} THEN "held"
               ELSE IF x.reusable /\ x.lateRelease = None THEN "reused"
               ELSE "evicted"

\* What is known of the outcome, stage by stage.
Decided(x) ==
  /\ x.terminal \in {None, "call"} =>
       x.outcome = "active" /\ x.control = None /\ x.luw = "open" /\ ~x.doubt
  /\ x.terminal = "control" =>
       /\ x.outcome = "active" /\ x.control # None /\ ~x.doubt
       /\ x.luw \in {"open", Executed(x)}
  /\ x.terminal = "reset" =>
       x.outcome = Executed(x) /\ x.luw = x.outcome /\ x.control # None /\ ~x.doubt
  /\ x.terminal \in {"operations", "release"} \cup Over =>
       \/ x.doubt /\ x.control = None /\ x.outcome = "ambiguous" /\ x.luw = "open"
          /\ ~x.reusable
       \/ /\ ~x.doubt /\ x.control # None
          /\ x.reusable => ~x.flawed /\ x.outcome \notin {"rejected", "ambiguous"}
          /\ ~x.reusable => x.flawed
          /\ \/ x.outcome = "rejected" /\ x.luw = "open"
             \/ x.outcome = "ambiguous" /\ x.luw \in {"open", Executed(x)}
             \/ x.outcome = Executed(x) /\ x.luw = x.outcome
  /\ x.terminal = "resolved" => ~x.flawed

Fit(x) ==
  /\ IF x.token THEN Published(x) /\ Decided(x) ELSE BeforeToken(x)
  /\ x.releases = IF x.lease \in {"reused", "evicted"} THEN 1 ELSE 0
  /\ x.session = None <=> x.lease = None
FieldsFit == \A t \in Transactions : Fit(tx[t])

\* A session that is free or that somebody else has: only a lease that was
\* released as reusable may name it still.
SessionsApart ==
  \A t \in Transactions : tx[t].lease \in {"held", "evicted"} =>
    /\ tx[t].session \notin free
    /\ \A u \in Transactions \ {t} :
         tx[u].session = tx[t].session => tx[u].lease = "reused"

TransactionInv == TypeOK /\ FieldsFit /\ SessionsApart

(***************************************************************************)
(* Liveness                                                                *)
(***************************************************************************)
\* Deadlines pass and the event loop runs what is queued; the adapter need
\* never answer and never heed a signal.
Fairness ==
  \A t \in Transactions :
    /\ WF_vars(Resumes(t)) /\ WF_vars(Expires(t))
    /\ WF_vars(Settles(t, "timedout"))

FairSpec == Spec /\ Fairness

\* Every begin(), every call() and every commit(), rollback() or close() is
\* answered although the adapter may hang.  If, besides, whatever overran its
\* deadline settles in the end, then a transaction that ended does not stay
\* failed: its lease is given back and the runtime closes, unless giving back a
\* late lease failed.
QuarantineEnds ==
  (\A t \in Transactions : WF_vars(LateRejects(t) \/ OverdueSettles(t)))
    => \A t \in Transactions :
         tx[t].terminal # None ~> (tx[t].state = "closed" \/ tx[t].lateFailed)

CallsAnswered ==
  /\ QuarantineEnds
  /\ \A t \in Transactions :
       /\ tx[t].state = "opening" ~> tx[t].state # "opening"
       /\ tx[t].state = "calling" ~> tx[t].state # "calling"
       /\ tx[t].terminal # None ~> tx[t].terminal \in Over
=============================================================================
