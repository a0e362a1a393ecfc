------------------------- MODULE ApplicationLeases -------------------------
(***************************************************************************)
(* The application leases of a destination and what is done under them:    *)
(* src/destination/direct-destination-owner.ts.                            *)
(*                                                                         *)
(* Callers borrow sessions of the application pool through opaque tokens.  *)
(* A token admits one operation at a time and is handed back once.  The    *)
(* pool is the lease service it implements (LeaseService): its leases are  *)
(* numbers, and a token has the number of the lease it wraps.  The session *)
(* contexts of the destination borrow through the same calls.  An action   *)
(* is one run of the JavaScript thread between two awaits.                 *)
(***************************************************************************)
EXTENDS LeaseService

CONSTANTS
  ContextRequests,      \* the acquisitions made by session contexts
  MaxOperations         \* bound: operations begun under one lease

None == "none"

ASSUME LeasesAssumption ==
  /\ IsFiniteSet(Requests) /\ None \notin Requests
  /\ ContextRequests \subseteq Requests
  /\ MaxConnections \in Nat \ {0} /\ MaxOperations \in Nat

VARIABLES
  state,       \* "active", "retiring" or "retired"
  acquiring,   \* the calls of acquireApplications()
  lease,       \* the lease records, by the number of the pool's lease
  operation,   \* the operation whose promise is the tail of each lease
  releasing    \* the call of releaseApplication() that claimed each lease
pool == <<gate, queue, answer, wants, issued, held>>
records == <<acquiring, lease, operation, releasing>>

Leases == 1..(Cardinality(Requests) * MaxConnections)

Unissued == [st |-> "none", of |-> None, begun |-> 0]
Unclaimed == [pc |-> "off", reset |-> FALSE]

LeasesTypeOK ==
  /\ state \in {"active", "retiring", "retired"}
  /\ acquiring \in [Requests -> {"off", "waiting", "published", "refused"}]
  /\ lease \in [Leases ->
       [st : {"none", "granted", "owned", "releaseClaimed", "released"},
        of : Requests \cup {None}, begun : 0..MaxOperations]]
  /\ operation \in [Leases -> {"off", "queued", "metadata", "session"}]
  /\ releasing \in [Leases ->
       [pc : {"off", "tail", "reset", "handback", "done"}, reset : BOOLEAN]]

LeasesInit ==
  /\ LSInit
  /\ state = "active"
  /\ acquiring = [r \in Requests |-> "off"]
  /\ lease = [g \in Leases |-> Unissued]
  /\ operation = [g \in Leases |-> "off"]
  /\ releasing = [g \in Leases |-> Unclaimed]

(***************************************************************************)
(* #acquireApplications                                                    *)
(***************************************************************************)
\* A retired owner refuses by itself; otherwise the pool queues or refuses.
\* A context borrows one lease.
Acquire(r, n) ==
  /\ acquiring[r] = "off" /\ (r \in ContextRequests => n = 1)
  /\ \/ /\ state # "active"
        /\ acquiring' = [acquiring EXCEPT ![r] = "refused"]
        /\ UNCHANGED pool
     \/ /\ state = "active"
        /\ acquiring' = [acquiring EXCEPT ![r] = "waiting"]
        /\ Enqueue(r, n) \/ Refuse(r, n)
  /\ UNCHANGED <<state, lease, operation, releasing>>

\* The pool serves the head of its queue.
PoolGrants ==
  /\ Grant
  /\ lease' = [g \in Leases |->
       IF g \in held' \ held THEN [lease[g] EXCEPT !.st = "granted", !.of = Head(queue)]
       ELSE lease[g]]
  /\ UNCHANGED <<state, acquiring, operation, releasing>>

\* The pool drops a request whose signal or timer has fired.
PoolDrops ==
  /\ \E i \in DOMAIN queue : Drop(i)
  /\ UNCHANGED <<state, records>>

GrantedTo(r) == {g \in Leases : lease[g].st = "granted" /\ lease[g].of = r}
Become(S, st) ==
  lease' = [g \in Leases |-> IF g \in S THEN [lease[g] EXCEPT !.st = st] ELSE lease[g]]

\* The await of acquire() is over.  An owner that was retired meanwhile gives
\* everything back and publishes nothing.
Acquired(r) ==
  /\ acquiring[r] = "waiting"
  /\ \/ /\ answer[r] = "rejected"
        /\ acquiring' = [acquiring EXCEPT ![r] = "refused"]
        /\ UNCHANGED <<held, lease>>
     \/ /\ answer[r] = "granted" /\ state = "active"
        /\ acquiring' = [acquiring EXCEPT ![r] = "published"]
        /\ Become(GrantedTo(r), "owned")
        /\ UNCHANGED held
     \/ /\ answer[r] = "granted" /\ state # "active"
        /\ acquiring' = [acquiring EXCEPT ![r] = "refused"]
        /\ Become(GrantedTo(r), "released")
        /\ held' = held \ GrantedTo(r)
  /\ UNCHANGED <<gate, queue, answer, wants, issued, state, operation, releasing>>

(***************************************************************************)
(* #runApplicationOperation: record.active says that there is an operation *)
(***************************************************************************)
\* A lease that is released or busy refuses, and nothing changes.
Start(g) ==
  /\ lease[g].st = "owned" /\ operation[g] = "off"
  /\ lease[g].begun < MaxOperations
  /\ lease' = [lease EXCEPT ![g].begun = @ + 1]
  /\ operation' = [operation EXCEPT ![g] = "queued"]
  /\ UNCHANGED <<pool, state, acquiring, releasing>>

\* withActiveLease() refuses a lease that the pool does not know any more.
Enters(g) ==
  operation' = [operation EXCEPT ![g] = IF g \in held THEN "session" ELSE "off"]

\* The operation begins: ping, reset and info use the session at once, an
\* invocation looks its metadata up first, and may fail there.
Proceed(g) ==
  /\ \/ /\ operation[g] = "queued"
        /\ Enters(g) \/ operation' = [operation EXCEPT ![g] = "metadata"]
     \/ /\ operation[g] = "metadata"
        /\ Enters(g) \/ operation' = [operation EXCEPT ![g] = "off"]
  /\ UNCHANGED <<pool, state, acquiring, lease, releasing>>

SessionEnds(g) ==
  /\ operation[g] = "session"
  /\ operation' = [operation EXCEPT ![g] = "off"]
  /\ UNCHANGED <<pool, state, acquiring, lease, releasing>>

(***************************************************************************)
(* releaseApplication                                                      *)
(***************************************************************************)
\* "This synchronous transition is the once-only ownership handoff."  Only a
\* reusable session is reset; what else becomes of it is the pool's business.
Claim(g, reset) ==
  /\ lease[g].st = "owned"
  /\ Become({g}, "releaseClaimed")
  /\ releasing' = [releasing EXCEPT ![g] = [pc |-> "tail", reset |-> reset]]
  /\ UNCHANGED <<pool, state, acquiring, operation>>

\* (A variant that does not wait for the operation.)
TailIsOverAtOnce(g) == TRUE
\* The tail that release() found is the operation that is under way.
TailIsOver(g) == operation[g] = "off"

\* After the tail: a reset, if there is to be one and the pool still resets.
AwaitsTail(g) ==
  LET resets == releasing[g].reset /\ gate = "open"
  IN /\ releasing[g].pc = "tail" /\ TailIsOver(g)
     /\ releasing' = [releasing EXCEPT ![g] =
          [pc |-> IF resets THEN "reset" ELSE "handback", reset |-> FALSE]]
     /\ UNCHANGED <<pool, state, acquiring, lease, operation>>

\* Whether or not it could be reset, the session goes back.
ResetEnds(g) ==
  /\ releasing[g].pc = "reset"
  /\ releasing' = [releasing EXCEPT ![g].pc = "handback"]
  /\ UNCHANGED <<pool, state, acquiring, lease, operation>>

\* The pool takes the session back; whatever it says, the finally block forgets
\* the record.
HandsBack(g) ==
  /\ releasing[g].pc = "handback"
  /\ releasing' = [releasing EXCEPT ![g].pc = "done"]
  /\ Become({g}, "released")
  /\ GiveBack(g)
  /\ UNCHANGED <<state, acquiring, operation>>
=============================================================================
