--------------------------- MODULE PoolProperties ---------------------------
(***************************************************************************)
(* What makes the connection pool correct: invariants, what a step may     *)
(* never do, liveness, and the lease service it implements.                *)
(***************************************************************************)
EXTENDS ConnectionPool

(***************************************************************************)
(* Invariants                                                              *)
(***************************************************************************)
Distinct(q) == \A i, j \in DOMAIN q : q[i] = q[j] => i = j
Elements(q) == {q[i] : i \in DOMAIN q}

\* The pool's lists agree with the states of what they list, so that no
\* connection or request is listed twice or forgotten: #idle, #creating and
\* the candidates of the dispatch loop partition the connections that are in
\* those states, and #waiters holds the requests that are still unsettled.
IdleListed == Distinct(idle) /\ Elements(idle) = In({"idle"})
CreatingListed == Distinct(creating) /\ Elements(creating) = In({"creating"})
CandidatesListed ==
  Distinct(candidates) /\ Elements(candidates) = In({"validating"})
WaitersListed ==
  Distinct(waiters) /\ Elements(waiters) = {r \in Requests : Active(r)}
ListsAgree ==
  IdleListed /\ CreatingListed /\ CandidatesListed /\ WaitersListed

\* A lease owns its connection alone ("Ownership invariants",
\* docs/architecture.md): two active leases never share one, an active lease's
\* connection is out of the pool's hands except for a reset the borrower asked
\* for, and a leased connection always has a lease that can give it back.
LeaseExclusive ==
  /\ \A g, h \in DOMAIN leases :
       leases[g].active /\ leases[h].active /\ leases[g].slot = leases[h].slot
         => g = h
  /\ \A g \in DOMAIN leases : leases[g].active =>
       conn[leases[g].slot] =
         IF leases[g].busy = "reset" THEN "resetting" ELSE "leased"
  /\ \A s \in In({"leased"}) :
       \E g \in DOMAIN leases : leases[g].active /\ leases[g].slot = s
  /\ \A g \in DOMAIN leases : leases[g].busy # None => leases[g].active

\* Whatever is being created, used or torn down, or could not be torn down,
\* counts: there are never more than maxConnections physical connections.
CapacityBound == Cardinality(Slots \ In({"free"})) <= MaxConnections

\* A connection is reset for one reason only: either the release() that gave
\* it up awaits the reset, and no lease reaches it any more, or its borrower
\* asked for it.
ResetsOwned ==
  \A s \in Slots :
    LET borrowed == {g \in DOMAIN leases : leases[g].active /\ leases[g].slot = s}
    IN /\ release[s] = "resetting" => conn[s] = "resetting" /\ borrowed = {}
       /\ conn[s] = "resetting" => release[s] = "resetting" \/ borrowed # {}

\* The dispatch loop holds candidates, and a request to serve, only across
\* the await and the rollback that may follow it.
LoopLocals ==
  /\ dpc \in {"off", "loop", "return"} => candidates = <<>>
  /\ dpc \in {"await", "rollback", "refuse"} => waiter \in Requests

\* The inductive invariant behind exclusive leases and bounded capacity: the
\* lists, the leases and the resets must agree for any of them to survive a
\* step.
PoolInv ==
  /\ TypeOK /\ ListsAgree /\ LeaseExclusive /\ CapacityBound
  /\ ResetsOwned /\ LoopLocals

\* acquire(N) is atomic: a fulfilled request was given exactly N leases, any
\* other request none, however the validation of its candidates was
\* interrupted (abort, deadline, expiry, shutdown).
GrantsAllOrNothing ==
  \A r \in Requests :
    Cardinality({g \in DOMAIN leases : leases[g].holder = r}) =
      IF status[r] = "granted" THEN count[r] ELSE 0

\* No pump and no dispatch is due, and no release() is past its reset: the
\* tail of such a call still wakes the pool, after the destroy it awaits.
Quiet ==
  /\ state = "open" /\ dpc = "off" /\ ~pumpScheduled
  /\ \A s \in Slots : release[s] \in {None, "resetting"}

\* The end of a resetActiveLease wakes nobody, although until then its
\* connection counted as one that may come back; whoever oversleeps is woken by
\* the next lease that is released.
MayOversleep == LeaseResets /\ \E g \in DOMAIN leases : leases[g].active

\* No lost wake-up.  A pool that sleeps while somebody waits has nothing left
\* to do for the head of the queue: it has too few idle connections, and
\* either enough of them are on their way or no further one may be created.
\* One that sleeps with nobody waiting is between its water marks: no more
\* than idleHigh idle connections, no recycle cap left over, and lowWater
\* connections at hand or coming unless capacity or a failed creation forbids.
NoLostWakeup ==
  Quiet =>
    IF waiters # <<>>
    THEN /\ Len(idle) < count[Head(waiters)]
         /\ MayCreate(count[Head(waiters)]) => MayOversleep
    ELSE /\ Len(idle) <= IdleHigh /\ \A i \in DOMAIN idle : cap[idle[i]] = NoCap
         /\ Refills => MayOversleep

\* A shutdown reaches every factory call that is in flight: once the pool is
\* not open, each creation, validation and reset was told to abort, has
\* overrun its deadline, or has already settled.
ShutdownSignalsAll ==
  state # "open" =>
    \A s \in In({"creating", "validating", "resetting"}) : op[s] # "running"

\* The last connection to go never goes unnoticed: while the pool drains there
\* is still something to wait for, and a connection that cannot be accounted
\* for has already failed the promise of close().
DrainNoticed ==
  state \in {"retiring", "closing"} =>
    /\ \E s \in Slots : conn[s] # "free"
    /\ (\E s \in Slots : \/ conn[s] = "creating" /\ op[s] = "overrun"
                         \/ conn[s] = "closing" /\ op[s] \in {"overrun", "failed"})
         => shutdown = "rejected"

\* close() never claims physical closure that did not happen: its promise is
\* fulfilled, and the pool closed, only with no connection, no lease and no
\* waiter left.
ClosureHonest ==
  /\ shutdown = "resolved" => state = "closed"
  /\ state = "closed" =>
       /\ \A s \in Slots : conn[s] = "free"
       /\ waiters = <<>>
       /\ \A g \in DOMAIN leases : ~leases[g].active

\* A shutdown is honest towards all: it reaches the calls in flight, it does
\* not lose the last connection, and it claims no closure that did not happen.
ShutdownHonest == ShutdownSignalsAll /\ DrainNoticed /\ ClosureHonest

(***************************************************************************)
(* What a step may never do                                                *)
(***************************************************************************)
Doomed(s) ==
  \/ conn[s] = "closing"
  \/ conn[s] = "creating" /\ op[s] \in {"signalled", "overrun"}

\* A connection that was given up (its destroy has begun, or its creation was
\* aborted or expired) never serves again: it can only be closed and forgotten.
NoResurrection ==
  [][\A s \in Slots : Doomed(s) => Doomed(s)' \/ conn'[s] = "free"]_vars

\* So does a pool: no lease is issued and no connection is created once it has
\* left the open state, and it never opens again.
GivenUpForGood ==
  NoResurrection /\ [][state # "open" =>
       /\ state' # "open" /\ Len(leases') = Len(leases)
       /\ In({"creating"})' \subseteq In({"creating"})]_vars

(***************************************************************************)
(* Liveness                                                                *)
(***************************************************************************)
\* What the environment is trusted with.  The event loop runs what is queued
\* (Dispatches, ReleaseResumes); every factory callback ends sooner or later,
\* in time or not, and so does every call made under a lease; a borrower ends
\* by releasing its lease.  Neither an acquire timer nor the shutdown timer is
\* needed.
FactoryEnds(s) ==
  \/ CreateSucceeds(s) \/ CreateFails(s)
  \/ \E outcome \in {"healthy", "unhealthy", "timedout"} :
       ValidateSettles(s, outcome)
  \/ ReleaseResetSucceeds(s) \/ ReleaseResetFails(s)
  \/ DestroySucceeds(s)
BorrowerEnds(g) == g \in DOMAIN leases /\ (CallEnds(g) \/ LeaseResetSettles(g))
BorrowerReleases(g) ==
  /\ g \in DOMAIN leases
  /\ \E reusable \in BOOLEAN, k \in ReleaseCaps \cup {NoCap} :
       Release(g, reusable, k)
Generations == 1..(Cardinality(Requests) * MaxConnections)

Fairness ==
  /\ WF_vars(Dispatches)
  /\ \A s \in Slots : WF_vars(FactoryEnds(s)) /\ WF_vars(ReleaseResumes(s))
  /\ \A g \in Generations :
       WF_vars(BorrowerEnds(g)) /\ SF_vars(BorrowerReleases(g))

FairSpec == Spec /\ Fairness

\* Every request is settled in the end, although nothing but the pool's own
\* wake-ups (no timer, no abort, no shutdown) is there to do it.
RequestsSettle == \A r \in Requests : Active(r) ~> ~Active(r)

\* A pool that was told to retire or close ends closed, once the borrowers
\* have given back what they hold.
PoolCloses == state \in {"retiring", "closing"} ~> state = "closed"
PoolSettles == RequestsSettle /\ PoolCloses

(***************************************************************************)
(* Refinement                                                              *)
(***************************************************************************)
ActiveLeases == {g \in DOMAIN leases : leases[g].active}
Gate == CASE state = "open" -> "open" [] state = "closed" -> "closed"
          [] OTHER -> "draining"

Service == INSTANCE LeaseService
  WITH gate <- Gate, queue <- waiters, answer <- status, wants <- count,
       issued <- Len(leases), held <- ActiveLeases

\* Behind its creations, validations, resets and destroys, its pump and its
\* timers, the pool is the lease service its callers rely on: every step is
\* one of that service's, or invisible to them.
ImplementsLeaseService == Service!LSSpec

=============================================================================
