----------------------------- MODULE PoolProofs -----------------------------
(***************************************************************************)
(* The connection pool, for every number of connections, requests and      *)
(* waiters and every configuration: its lists, leases and capacity; grants *)
(* that are all or nothing; shutdowns that are honest; wake-ups that are   *)
(* not lost; what is given up for good; and the lease service it is.       *)
(***************************************************************************)
EXTENDS PoolProperties, TLAPS, FiniteSetTheorems, SequenceTheorems

(***************************************************************************)
(* Lists                                                                   *)
(***************************************************************************)
\* Removing the element at a position (Array.prototype.splice) leaves the
\* other elements in their order.
LEMMA RemoveAtElement ==
  ASSUME NEW S, NEW q \in Seq(S), NEW i \in 1..Len(q)
  PROVE  /\ RemoveAt(q, i) \in Seq(S)
         /\ Len(RemoveAt(q, i)) = Len(q) - 1
         /\ \A j \in 1..(Len(q) - 1) :
              RemoveAt(q, i)[j] = IF j < i THEN q[j] ELSE q[j + 1]
<1> DEFINE a == SubSeq(q, 1, i - 1)
           b == SubSeq(q, i + 1, Len(q))
<1>1. /\ a \in Seq(S) /\ Len(a) = i - 1
      /\ \A j \in 1..(i - 1) : a[j] = q[j]
  BY SubSeqProperties
<1>2. /\ b \in Seq(S) /\ Len(b) = Len(q) - i
      /\ \A j \in 1..(Len(q) - i) : b[j] = q[i + j]
  BY SubSeqProperties
<1>4. RemoveAt(q, i) = a \o b
  BY DEF RemoveAt
<1> HIDE DEF a, b
<1>0. Len(q) \in Nat /\ i \in Int /\ 1 <= i /\ i <= Len(q)
  OBVIOUS
<1>3. /\ a \o b \in Seq(S) /\ Len(a \o b) = Len(q) - 1
      /\ \A j \in 1..(Len(q) - 1) :
           (a \o b)[j] = IF j <= i - 1 THEN a[j] ELSE b[j - (i - 1)]
  <2>1. /\ a \o b \in Seq(S) /\ Len(a \o b) = Len(a) + Len(b)
        /\ \A j \in 1..(Len(a) + Len(b)) :
             (a \o b)[j] = IF j <= Len(a) THEN a[j] ELSE b[j - Len(a)]
    BY <1>1, <1>2, ConcatProperties
  <2>2. Len(a) + Len(b) = Len(q) - 1 /\ Len(a) = i - 1
    BY <1>0, <1>1, <1>2
  <2> QED  BY <2>1, <2>2
<1>5. ASSUME NEW j \in 1..(Len(q) - 1)
      PROVE  (a \o b)[j] = IF j < i THEN q[j] ELSE q[j + 1]
  <2>1. CASE j < i
    BY <1>1, <1>3, <2>1
  <2>2. CASE j >= i
    <3>1. j - (i - 1) \in 1..(Len(q) - i) /\ i + (j - (i - 1)) = j + 1
      BY <1>0, <2>2
    <3>2. ~(j <= i - 1) /\ ~(j < i)
      BY <1>0, <2>2
    <3> QED  BY <1>2, <1>3, <3>1, <3>2
  <2>3. j < i \/ j >= i
    BY <1>0
  <2> QED  BY <2>1, <2>2, <2>3
<1> QED  BY <1>3, <1>4, <1>5

\* #idle, #creating and #waiters hold no element twice, so taking one out
\* takes out exactly that one.
LEMMA WithoutElement ==
  ASSUME NEW S, NEW q \in Seq(S), NEW x
  PROVE  /\ Without(q, x) \in Seq(S)
         /\ Len(Without(q, x)) <= Len(q)
         /\ Distinct(q) => /\ Distinct(Without(q, x))
                           /\ Elements(Without(q, x)) = Elements(q) \ {x}
<1>1. CASE \A i \in DOMAIN q : q[i] # x
  BY <1>1 DEF Without, Elements
<1>2. CASE \E i \in DOMAIN q : q[i] = x
  <2> DEFINE i == CHOOSE i \in DOMAIN q : q[i] = x
             w == RemoveAt(q, i)
  <2>1. i \in 1..Len(q) /\ q[i] = x
    BY <1>2
  <2>2. Without(q, x) = w
    BY <1>2 DEF Without
  <2> HIDE DEF i
  <2>3. /\ w \in Seq(S) /\ Len(w) = Len(q) - 1
        /\ \A j \in 1..(Len(q) - 1) : w[j] = IF j < i THEN q[j] ELSE q[j + 1]
    BY <2>1, RemoveAtElement
  <2> HIDE DEF w
  <2>4. ASSUME Distinct(q)
        PROVE  Distinct(w)
    <3> DEFINE Old(j) == IF j < i THEN j ELSE j + 1
    <3>1. \A j \in DOMAIN w : Old(j) \in 1..Len(q) /\ w[j] = q[Old(j)]
      BY <2>1, <2>3
    <3>2. \A j, k \in DOMAIN w : Old(j) = Old(k) => j = k
      BY <2>1, <2>3
    <3> HIDE DEF Old
    <3>3. \A j, k \in DOMAIN q : q[j] = q[k] => j = k
      BY <2>4 DEF Distinct
    <3>4. DOMAIN q = 1..Len(q)
      OBVIOUS
    <3> QED  BY <3>1, <3>2, <3>3, <3>4 DEF Distinct
  <2>5. ASSUME Distinct(q)
        PROVE  Elements(w) = Elements(q) \ {x}
    <3>1. ASSUME NEW y \in Elements(w)
          PROVE  y \in Elements(q) \ {x}
      <4>1. PICK j \in 1..(Len(q) - 1) : y = w[j]
        BY <2>3, <3>1 DEF Elements
      <4>2. PICK k \in 1..Len(q) : k # i /\ y = q[k]
        BY <2>1, <2>3, <4>1
      <4> QED  BY <2>1, <2>5, <4>2 DEF Elements, Distinct
    <3>2. ASSUME NEW y \in Elements(q) \ {x}
          PROVE  y \in Elements(w)
      <4>1. PICK k \in 1..Len(q) : y = q[k]
        BY <3>2 DEF Elements
      <4>2. k # i
        BY <2>1, <3>2, <4>1
      <4>3. PICK j \in 1..(Len(q) - 1) : y = w[j]
        <5>1. CASE k < i
          BY <2>1, <2>3, <4>1, <5>1
        <5>2. CASE k > i
          <6>1. k - 1 \in 1..(Len(q) - 1) /\ ~(k - 1 < i) /\ (k - 1) + 1 = k
            BY <2>1, <4>1, <5>2
          <6>2. w[k - 1] = y
            BY <2>3, <4>1, <6>1
          <6> QED  BY <6>1, <6>2
        <5> QED  BY <2>1, <4>1, <4>2, <5>1, <5>2
      <4> QED  BY <2>3, <4>3 DEF Elements
    <3> QED  BY <3>1, <3>2
  <2> QED  BY <2>2, <2>3, <2>4, <2>5
<1> QED  BY <1>1, <1>2

\* Array.prototype.push
LEMMA AppendElement ==
  ASSUME NEW S, NEW q \in Seq(S), NEW x \in S
  PROVE  /\ Append(q, x) \in Seq(S)
         /\ Elements(Append(q, x)) = Elements(q) \cup {x}
         /\ Distinct(q) /\ x \notin Elements(q) => Distinct(Append(q, x))
<1>1. /\ Append(q, x) \in Seq(S) /\ Len(Append(q, x)) = Len(q) + 1
      /\ \A i \in 1..Len(q) : Append(q, x)[i] = q[i]
      /\ Append(q, x)[Len(q) + 1] = x
  BY AppendProperties
<1> DEFINE p == Append(q, x)
<1> HIDE DEF p
<1>2. /\ p \in Seq(S) /\ Len(p) = Len(q) + 1
      /\ \A i \in 1..Len(q) : p[i] = q[i]
      /\ p[Len(q) + 1] = x
  BY <1>1 DEF p
<1>3. Elements(p) = Elements(q) \cup {x}
  BY <1>2 DEF Elements
<1>4. ASSUME Distinct(q), x \notin Elements(q)
      PROVE  Distinct(p)
  BY <1>2, <1>4 DEF Distinct, Elements
<1> QED  BY <1>2, <1>3, <1>4 DEF p

\* The part of a list from position m to n (Array.prototype.splice).
LEMMA SubSeqElements ==
  ASSUME NEW S, NEW q \in Seq(S), Distinct(q),
         NEW m \in 1..(Len(q) + 1), NEW n \in (m - 1)..Len(q)
  PROVE  /\ SubSeq(q, m, n) \in Seq(S)
         /\ Distinct(SubSeq(q, m, n))
         /\ Elements(SubSeq(q, m, n)) = {q[i] : i \in m..n}
<1> DEFINE p == SubSeq(q, m, n)
<1>1. /\ p \in Seq(S) /\ Len(p) = n - m + 1
      /\ \A i \in 1..(n - m + 1) : p[i] = q[m + i - 1]
  BY SubSeqProperties
<1> HIDE DEF p
<1>2. Distinct(p)
  BY SMTT(20), <1>1 DEF Distinct
<1>3. Elements(p) = {q[i] : i \in m..n}
  <2>1. ASSUME NEW i \in m..n PROVE q[i] \in Elements(p)
    <3>1. i - m + 1 \in 1..(n - m + 1) /\ m + (i - m + 1) - 1 = i
      OBVIOUS
    <3>2. p[i - m + 1] = q[i]
      BY <1>1, <3>1
    <3> QED  BY <1>1, <3>1, <3>2 DEF Elements
  <2>2. ASSUME NEW j \in 1..(n - m + 1) PROVE p[j] \in {q[i] : i \in m..n}
    <3>1. m + j - 1 \in m..n
      OBVIOUS
    <3> QED  BY <1>1, <3>1
  <2>3. DOMAIN p = 1..(n - m + 1)
    BY <1>1
  <2>4. Elements(p) \subseteq {q[i] : i \in m..n}
    BY <2>2, <2>3 DEF Elements
  <2>5. {q[i] : i \in m..n} \subseteq Elements(p)
    BY <2>1
  <2> QED  BY <2>4, <2>5
<1> QED  BY <1>1, <1>2, <1>3 DEF p

(***************************************************************************)
(* The shared steps                                                        *)
(***************************************************************************)
\* #reconcileCreations only re-labels creations.
LEMMA ReconcileType ==
  ASSUME TypeOK, NEW ws \in Seq(Requests), NEW cr,
         NEW o \in [Slots -> OpStates], NEW w \in [Slots -> Requests \cup {None}],
         NEW blocked, Reconcile(ws, cr, o, w, blocked)
  PROVE  op' \in [Slots -> OpStates] /\ owner' \in [Slots -> Requests \cup {None}]
<1>1. (IF ws = <<>> THEN None ELSE Head(ws)) \in Requests \cup {None}
  BY HeadTailProperties
<1>2. "signalled" \in OpStates
  BY DEF OpStates
<1>3. op' \in [Slots -> OpStates]
  BY <1>2 DEF Reconcile
<1>4. owner' \in [Slots -> Requests \cup {None}]
  BY <1>1 DEF Reconcile
<1> QED  BY <1>3, <1>4

\* A settled request leaves the queue, and nothing else does.
LEMMA SettleWaiterStep ==
  ASSUME TypeOK, WaitersListed, NEW r \in Requests,
         NEW outcome \in {"granted", "rejected"}, NEW cr,
         NEW o \in [Slots -> OpStates], NEW w \in [Slots -> Requests \cup {None}],
         NEW blocked, SettleWaiter(r, outcome, cr, o, w, blocked)
  PROVE  /\ op' \in [Slots -> OpStates]
         /\ owner' \in [Slots -> Requests \cup {None}]
         /\ status' \in [Requests -> {"new", "waiting", "granted", "rejected"}]
         /\ waiters' \in Seq(Requests) /\ Len(waiters') <= MaxWaiters
         /\ overdue' \subseteq Requests /\ count' = count
         /\ WaitersListed'
<1>1. /\ waiters' \in Seq(Requests) /\ Len(waiters') <= Len(waiters)
      /\ Distinct(waiters') /\ Elements(waiters') = Elements(waiters) \ {r}
  BY WithoutElement DEF SettleWaiter, TypeOK, WaitersListed
<1>2. op' \in [Slots -> OpStates] /\ owner' \in [Slots -> Requests \cup {None}]
  BY <1>1, ReconcileType DEF SettleWaiter
<1>3. Len(waiters') <= MaxWaiters
  BY <1>1, BoundsAssumption DEF TypeOK
<1>4. status' \in [Requests -> {"new", "waiting", "granted", "rejected"}]
  BY DEF SettleWaiter, TypeOK
<1>5. WaitersListed'
  <2>1. \A x \in Requests : (status'[x] = "waiting") <=> (Active(x) /\ x # r)
    BY DEF SettleWaiter, TypeOK, Active
  <2> QED  BY <1>1, <2>1 DEF WaitersListed, Active
<1> QED  BY <1>1, <1>2, <1>3, <1>4, <1>5 DEF SettleWaiter, TypeOK

\* #rejectWaiter
LEMMA RejectWaiterStep ==
  ASSUME TypeOK, WaitersListed, NEW r \in Requests, RejectWaiter(r)
  PROVE  /\ op' \in [Slots -> OpStates]
         /\ owner' \in [Slots -> Requests \cup {None}]
         /\ status' \in [Requests -> {"new", "waiting", "granted", "rejected"}]
         /\ waiters' \in Seq(Requests) /\ Len(waiters') <= MaxWaiters
         /\ overdue' \subseteq Requests /\ count' = count
         /\ pumpScheduled' \in BOOLEAN /\ pumpAgain' \in BOOLEAN
         /\ WaitersListed'
<1>1. SettleWaiter(r, "rejected", creating, op, owner, lowWaterBlocked)
  BY DEF RejectWaiter
<1>2. pumpScheduled' \in BOOLEAN /\ pumpAgain' \in BOOLEAN
  BY DEF RejectWaiter, RequestPump, TypeOK
<1> QED  BY <1>1, <1>2, SettleWaiterStep DEF TypeOK

\* The rejection of the request a creation was started for.
LEMMA RejectOwnerStep ==
  ASSUME TypeOK, WaitersListed, NEW s \in Slots, NEW cr,
         NEW o \in [Slots -> OpStates], RejectOwner(s, cr, o)
  PROVE  /\ op' \in [Slots -> OpStates]
         /\ owner' \in [Slots -> Requests \cup {None}]
         /\ status' \in [Requests -> {"new", "waiting", "granted", "rejected"}]
         /\ waiters' \in Seq(Requests) /\ Len(waiters') <= MaxWaiters
         /\ overdue' \subseteq Requests /\ count' = count
         /\ WaitersListed'
<1> DEFINE w == [owner EXCEPT ![s] = None]
<1>1. w \in [Slots -> Requests \cup {None}]
  BY DEF TypeOK
<1> HIDE DEF w
<1>2. CASE owner[s] # None /\ Active(owner[s])
  <2>1. SettleWaiter(owner[s], "rejected", cr, o, w, TRUE) /\ owner[s] \in Requests
    BY <1>2 DEF RejectOwner, w, TypeOK
  <2> QED  BY <1>1, <2>1, SettleWaiterStep
<1>3. CASE ~(owner[s] # None /\ Active(owner[s]))
  BY <1>1, <1>3 DEF RejectOwner, w, TypeOK, requestVars, WaitersListed, Active
<1> QED  BY <1>2, <1>3

\* #checkClosed
LEMMA CheckClosedType ==
  ASSUME NEW now \in {"open", "retiring", "closing", "closed"},
         NEW promise \in {None, "pending", "resolved", "rejected"},
         CheckClosed(now, promise)
  PROVE  /\ state' \in {"open", "retiring", "closing", "closed"}
         /\ shutdown' \in {None, "pending", "resolved", "rejected"}
BY DEF CheckClosed

\* One field of one lease changes.
LEMMA LeaseUpdate ==
  ASSUME TypeOK, NEW g \in DOMAIN leases
  PROVE  /\ leases[g] \in Lease
         /\ \A b \in {None, "call", "reset"} :
              LET L == [leases EXCEPT ![g].busy = b]
              IN /\ L \in Seq(Lease) /\ DOMAIN L = DOMAIN leases
                 /\ \A h \in DOMAIN leases :
                      L[h] = IF h = g THEN [leases[g] EXCEPT !.busy = b]
                             ELSE leases[h]
         /\ LET L == [leases EXCEPT ![g].active = FALSE]
            IN /\ L \in Seq(Lease) /\ DOMAIN L = DOMAIN leases
               /\ \A h \in DOMAIN leases :
                    L[h] = IF h = g THEN [leases[g] EXCEPT !.active = FALSE]
                           ELSE leases[h]
<1>1. leases \in Seq(Lease) /\ g \in 1..Len(leases) /\ leases[g] \in Lease
  BY DEF TypeOK
<1>2. ASSUME NEW b \in {None, "call", "reset"}
      PROVE  [leases[g] EXCEPT !.busy = b] \in Lease
  BY <1>1 DEF Lease
<1>3. [leases[g] EXCEPT !.active = FALSE] \in Lease
  BY <1>1 DEF Lease
<1> QED  BY <1>1, <1>2, <1>3, ExceptSeq

(***************************************************************************)
(* Types                                                                   *)
(***************************************************************************)
\* What the borrowers do keeps every variable in its type.
LEMMA BorrowsType ==
  ASSUME PoolInv, NEW g \in DOMAIN leases, Borrows(g)
  PROVE  TypeOK'
<1> USE DEF PoolInv, endVars, connVars, requestVars, loopVars, pumpVars
<1>1. leases[g] \in Lease
  BY LeaseUpdate
<1>2. leases[g].slot \in Slots
  BY <1>1 DEF Lease
<1>3. CASE CallStarts(g)
  <2>1. leases' \in Seq(Lease)
    BY <1>3, LeaseUpdate DEF CallStarts
  <2> QED  BY <1>3, <2>1 DEF CallStarts, TypeOK
<1>4. CASE CallEnds(g)
  <2>1. leases' \in Seq(Lease)
    BY <1>4, LeaseUpdate DEF CallEnds
  <2> QED  BY <1>4, <2>1 DEF CallEnds, TypeOK
<1>5. CASE LeaseResetStarts(g)
  <2>1. leases' \in Seq(Lease)
    BY <1>5, LeaseUpdate DEF LeaseResetStarts
  <2> QED  BY <1>2, <1>5, <2>1 DEF LeaseResetStarts, TypeOK, ConnStates, OpStates
<1>6. CASE LeaseResetSettles(g)
  <2>1. leases' \in Seq(Lease)
    BY <1>6, LeaseUpdate DEF LeaseResetSettles
  <2> QED  BY <1>2, <1>6, <2>1 DEF LeaseResetSettles, TypeOK, ConnStates, OpStates
<1>7. ASSUME NEW reusable \in BOOLEAN, NEW k \in ReleaseCaps \cup {NoCap},
             Release(g, reusable, k)
      PROVE  TypeOK'
  <2>1. leases' \in Seq(Lease)
    BY <1>7, LeaseUpdate DEF Release
  <2>2. k \in {NoCap} \cup 0..MaxConnections
    BY BoundsAssumption
  <2>3. CASE ReleaseEvicts(g, leases[g].slot)
    BY <1>2, <1>7, <2>1, <2>3
    DEF Release, ReleaseEvicts, Destroy, TypeOK, ConnStates, OpStates
  <2>4. CASE ReleaseResets(g, leases[g].slot, k)
    BY <1>2, <1>7, <2>1, <2>2, <2>4
    DEF Release, ReleaseResets, TypeOK, ConnStates, OpStates
  <2>5. CASE ReleaseReturns(leases[g].slot, k)
    <3>1. idle' \in Seq(Slots)
      BY <1>2, <2>5, AppendElement DEF ReleaseReturns, ReturnToPool, TypeOK
    <3> QED  BY ZenonT(60), <1>2, <1>7, <2>1, <2>2, <2>5, <3>1
             DEF Release, ReleaseReturns, ReturnToPool, TypeOK, ConnStates,
                 OpStates, NoCap
  <2> QED  BY <1>7, <2>3, <2>4, <2>5 DEF Release
<1> QED  BY <1>3, <1>4, <1>5, <1>6, <1>7 DEF Borrows

\* So do the factory's callbacks ...
LEMMA SettlesType ==
  ASSUME PoolInv, NEW s \in Slots, Settles(s)
  PROVE  TypeOK'
<1> USE DEF PoolInv, endVars, connVars, requestVars, loopVars, pumpVars
<1>1. cap[s] \in {NoCap} \cup 0..MaxConnections
  BY DEF TypeOK
<1>2. ASSUME RequestPump
      PROVE  pumpScheduled' \in BOOLEAN /\ pumpAgain' \in BOOLEAN
  BY <1>2 DEF RequestPump, TypeOK
<1>3. ASSUME NEW k \in {NoCap} \cup 0..MaxConnections, ReturnToPool(s, k)
      PROVE  /\ conn' \in [Slots -> ConnStates] /\ op' \in [Slots -> OpStates]
             /\ cap' \in [Slots -> {NoCap} \cup 0..MaxConnections]
             /\ idle' \in Seq(Slots)
  BY <1>3, AppendElement DEF ReturnToPool, TypeOK, ConnStates, OpStates, NoCap
<1>4. ASSUME CheckClosed(state, shutdown)
      PROVE  /\ state' \in {"open", "retiring", "closing", "closed"}
             /\ shutdown' \in {None, "pending", "resolved", "rejected"}
  BY <1>4, CheckClosedType DEF TypeOK
<1>5. Without(creating, s) \in Seq(Slots)
  BY WithoutElement DEF TypeOK
<1>6. CASE CreateSucceeds(s)
  <2>1. CASE StillWanted(s)
    BY <1>2, <1>3, <1>4, <1>5, <1>6, <2>1 DEF CreateSucceeds, TypeOK
  <2>2. CASE ~StillWanted(s)
    BY <1>2, <1>4, <1>5, <1>6, <2>2
    DEF CreateSucceeds, Destroy, TypeOK, ConnStates, OpStates
  <2> QED  BY <2>1, <2>2
<1>7. CASE CreateFails(s)
  <2> DEFINE o == [op EXCEPT ![s] = None]
  <2>1. o \in [Slots -> OpStates]
    BY DEF TypeOK, OpStates
  <2>2. /\ conn' \in [Slots -> ConnStates] /\ creating' \in Seq(Slots)
        /\ pumpScheduled' \in BOOLEAN /\ pumpAgain' \in BOOLEAN
        /\ state' \in {"open", "retiring", "closing", "closed"}
        /\ shutdown' \in {None, "pending", "resolved", "rejected"}
    BY <1>2, <1>4, <1>5, <1>7 DEF CreateFails, TypeOK, ConnStates
  <2>3. CASE op[s] = "overrun"
    BY <1>7, <2>1, <2>2, <2>3 DEF CreateFails, TypeOK
  <2>4. CASE op[s] # "overrun"
    <3>1. RejectOwner(s, creating', o) /\ lowWaterBlocked' = TRUE
      BY <1>7, <2>4 DEF CreateFails
    <3> HIDE DEF o
    <3> QED  BY <1>7, <2>1, <2>2, <3>1, RejectOwnerStep
             DEF CreateFails, TypeOK, ListsAgree
  <2> QED  BY <2>3, <2>4
<1>8. CASE CreateExpires(s)
  <2>1. [op EXCEPT ![s] = "overrun"] \in [Slots -> OpStates]
    BY DEF TypeOK, OpStates
  <2> QED  BY <1>2, <1>4, <1>8, <2>1, RejectOwnerStep
           DEF CreateExpires, TypeOK, ListsAgree
<1>9. ASSUME NEW outcome \in {"healthy", "unhealthy", "timedout"},
             ValidateSettles(s, outcome)
      PROVE  TypeOK'
  BY <1>9 DEF ValidateSettles, TypeOK, OpStates
<1>10. CASE ReleaseResetSucceeds(s)
  <2>1. CASE state = "open"
    BY <1>1, <1>3, <1>10, <2>1 DEF ReleaseResetSucceeds, ReleaseReturns, TypeOK
  <2>2. CASE state # "open"
    BY ZenonT(60), <1>10, <2>2
    DEF ReleaseResetSucceeds, Destroy, TypeOK, ConnStates, OpStates
  <2> QED  BY <2>1, <2>2
<1>11. CASE ReleaseResetFails(s)
  BY <1>11 DEF ReleaseResetFails, Destroy, TypeOK, ConnStates, OpStates
<1>12. CASE ReleaseResumes(s)
  BY <1>2, <1>4, <1>12 DEF ReleaseResumes, TypeOK
<1>13. ASSUME NEW ok \in BOOLEAN, AfterDestroy(s, ok)
       PROVE  release' \in [Slots -> {None, "resetting", "destroying",
                                      "evicting", "resuming"}]
  BY <1>13 DEF AfterDestroy, TypeOK
<1>14. CASE DestroySucceeds(s)
  BY <1>2, <1>4, <1>13, <1>14 DEF DestroySucceeds, TypeOK, ConnStates, OpStates
<1>15. CASE DestroyFailsLate(s)
  BY <1>15 DEF DestroyFailsLate, TypeOK, OpStates
<1>16. ASSUME NEW end \in {"failed", "overrun"}, DestroyFails(s, end)
       PROVE  TypeOK'
  BY <1>2, <1>4, <1>13, <1>16 DEF DestroyFails, TypeOK, OpStates
<1> QED  BY <1>6, <1>7, <1>8, <1>9, <1>10, <1>11, <1>12, <1>14, <1>15, <1>16
         DEF Settles

\* ... the requests ...
LEMMA AsksType ==
  ASSUME PoolInv, NEW r \in Requests, Asks(r)
  PROVE  TypeOK'
<1> USE DEF PoolInv, endVars, connVars, requestVars, loopVars, pumpVars
<1>1. ASSUME RequestPump
      PROVE  pumpScheduled' \in BOOLEAN /\ pumpAgain' \in BOOLEAN
  BY <1>1 DEF RequestPump, TypeOK
<1>2. ASSUME NEW n \in 1..MaxConnections, Acquire(r, n)
      PROVE  TypeOK'
  <2>1. waiters' \in Seq(Requests) /\ Len(waiters') <= MaxWaiters
    BY <1>2, AppendProperties, BoundsAssumption
    DEF Acquire, Enqueue, HasRoom, TypeOK
  <2> QED  BY <1>1, <1>2, <2>1 DEF Acquire, TypeOK
<1>3. ASSUME NEW n \in 1..MaxConnections, AcquireRefused(r, n)
      PROVE  TypeOK'
  BY <1>3 DEF AcquireRefused, TypeOK
<1>4. CASE AbortRequest(r)
  BY <1>4, RejectWaiterStep DEF AbortRequest, TypeOK, ListsAgree
<1>5. CASE DeadlinePasses(r)
  BY <1>5 DEF DeadlinePasses, TypeOK
<1> QED  BY <1>2, <1>3, <1>4, <1>5 DEF Asks, TimeoutFires

\* ... the shutdown ...
LEMMA EndsType ==
  ASSUME PoolInv, Ends
  PROVE  TypeOK'
<1> USE DEF PoolInv, endVars, connVars, requestVars, loopVars, pumpVars
<1>1. ASSUME NEW target \in {"retiring", "closing"}, Shutdown(target)
      PROVE  TypeOK'
  <2>1. /\ state' \in {"open", "retiring", "closing", "closed"}
        /\ shutdown' \in {None, "pending", "resolved", "rejected"}
    <3>1. CheckClosed(target, "pending")
      BY <1>1 DEF Shutdown
    <3> QED  BY <3>1, CheckClosedType
  <2>2. /\ conn' \in [Slots -> ConnStates] /\ op' \in [Slots -> OpStates]
        /\ owner' \in [Slots -> Requests \cup {None}]
    BY <1>1 DEF Shutdown, TypeOK, ConnStates, OpStates
  <2>3. /\ status' \in [Requests -> {"new", "waiting", "granted", "rejected"}]
        /\ waiters' \in Seq(Requests) /\ Len(waiters') <= MaxWaiters
        /\ idle' \in Seq(Slots)
    BY <1>1, BoundsAssumption DEF Shutdown, TypeOK
  <2> QED  BY <1>1, <2>1, <2>2, <2>3 DEF Shutdown, TypeOK
<1>2. CASE Escalate
  BY <1>2 DEF Escalate, TypeOK
<1>3. CASE ShutdownTimeout
  BY <1>3 DEF ShutdownTimeout, TypeOK
<1> QED  BY <1>1, <1>2, <1>3 DEF Ends

\* ... and the dispatch loop.
LEMMA DispatchesType ==
  ASSUME PoolInv, Dispatches
  PROVE  TypeOK'
<1> USE DEF PoolInv, endVars, connVars, requestVars, loopVars, pumpVars
<1>0. /\ idle \in Seq(Slots) /\ candidates \in Seq(Slots) /\ waiters \in Seq(Requests)
      /\ Distinct(idle)
  BY DEF TypeOK, ListsAgree, IdleListed
<1>1. CASE PumpTick
  BY <1>1 DEF PumpTick, TypeOK
<1>2. CASE DispatchEnds
  BY <1>2 DEF DispatchEnds, TypeOK
<1>3. CASE LoopStops
  BY <1>3 DEF LoopStops, TypeOK
<1>4. CASE LoopTrims
  <2>1. PICK n \in 0..Len(idle) :
          LET cut == {idle[i] : i \in (n + 1)..Len(idle)}
          IN /\ idle' = SubSeq(idle, 1, n)
             /\ conn' = [s \in Slots |-> IF s \in cut THEN "closing" ELSE conn[s]]
             /\ op' = [s \in Slots |-> IF s \in cut THEN "running" ELSE op[s]]
             /\ cap' = [s \in Slots |-> IF conn[s] = "idle" THEN NoCap ELSE cap[s]]
    BY <1>4 DEF LoopTrims
  <2>2. idle' \in Seq(Slots)
    BY <1>0, <2>1, SubSeqElements
  <2> QED  BY <1>4, <2>1, <2>2 DEF LoopTrims, TypeOK, ConnStates, OpStates
<1>5. ASSUME NEW r \in Requests \cup {None}, StartCreation(r)
      PROVE  /\ conn' \in [Slots -> ConnStates] /\ op' \in [Slots -> OpStates]
             /\ owner' \in [Slots -> Requests \cup {None}]
             /\ creating' \in Seq(Slots) /\ cap' = cap /\ idle' = idle
  <2> DEFINE s == CHOOSE s \in Slots : conn[s] = "free"
  <2>1. s \in Slots
    BY <1>5 DEF StartCreation, In
  <2>2. creating' = Append(creating, s)
    BY <1>5 DEF StartCreation
  <2> HIDE DEF s
  <2>3. creating' \in Seq(Slots)
    BY <2>1, <2>2, AppendElement DEF TypeOK
  <2> QED  BY <1>5, <2>3 DEF StartCreation, TypeOK, ConnStates, OpStates
<1>6. CASE LoopCreates
  <2>1. PICK r \in Requests \cup {None} : StartCreation(r)
    BY <1>0, <1>6, HeadTailProperties DEF LoopCreates, ServableHead, AtHead
  <2> QED  BY <1>5, <1>6, <2>1 DEF LoopCreates, TypeOK
<1>7. CASE LoopReturns
  BY <1>7 DEF LoopReturns, TypeOK
<1>8. CASE LoopRejects
  <2>1. Head(waiters) \in Requests
    BY <1>0, <1>8, HeadTailProperties DEF LoopRejects, AtHead
  <2> QED  BY <1>8, <2>1, RejectWaiterStep DEF LoopRejects, TypeOK, ListsAgree
<1>9. CASE LoopTakes
  <2>1. Head(waiters) \in Requests
    BY <1>0, <1>9, HeadTailProperties DEF LoopTakes, ServableHead, AtHead
  <2>2. count[Head(waiters)] \in 1..Len(idle)
    BY <1>0, <1>9, <2>1 DEF LoopTakes, TypeOK
  <2>3. candidates' \in Seq(Slots) /\ idle' \in Seq(Slots)
    BY SMTT(20), <1>0, <1>9, <2>2, SubSeqElements DEF LoopTakes
  <2> QED  BY <1>9, <2>1, <2>3 DEF LoopTakes, TypeOK, ConnStates, OpStates
<1>10. CASE ResumeRollsBack
  BY <1>10 DEF ResumeRollsBack, TypeOK
<1>11. dpc \in {"await", "rollback", "refuse"} => waiter \in Requests
  BY DEF LoopLocals
<1>12. CASE ResumeRejects
  <2>1. waiter \in Requests
    BY <1>11, <1>12 DEF ResumeRejects, Validated
  <2> QED  BY <1>12, <2>1, RejectWaiterStep DEF ResumeRejects, TypeOK, ListsAgree
<1>13. CASE ResumeGrants
  <2> DEFINE taken == {candidates[i] : i \in DOMAIN candidates}
             o == [s \in Slots |-> IF s \in taken THEN None ELSE op[s]]
             new == [i \in DOMAIN candidates |->
                      [slot |-> candidates[i], holder |-> waiter,
                       active |-> TRUE, busy |-> None]]
  <2>1. waiter \in Requests
    BY <1>11, <1>13 DEF ResumeGrants, Validated
  <2>2. new \in Seq(Lease)
    <3>1. \A i \in DOMAIN candidates :
            [slot |-> candidates[i], holder |-> waiter, active |-> TRUE,
             busy |-> None] \in Lease
      BY <1>0, <2>1 DEF Lease
    <3>2. /\ Len(candidates) \in Nat /\ DOMAIN candidates = 1..Len(candidates)
          /\ new \in [1..Len(candidates) -> Lease]
      BY <1>0, <3>1
    <3> HIDE DEF new
    <3> QED  BY <3>2
  <2>3. leases' \in Seq(Lease)
    <3>1. leases' = leases \o new
      BY <1>13 DEF ResumeGrants
    <3> HIDE DEF new
    <3> QED  BY <2>2, <3>1, ConcatProperties DEF TypeOK
  <2>4. o \in [Slots -> OpStates]
    BY DEF TypeOK, OpStates
  <2>5. SettleWaiter(waiter, "granted", creating, o, owner, lowWaterBlocked)
    BY <1>13 DEF ResumeGrants
  <2>6. /\ conn' \in [Slots -> ConnStates]
        /\ cap' \in [Slots -> {NoCap} \cup 0..MaxConnections]
    BY <1>13 DEF ResumeGrants, TypeOK, ConnStates
  <2> HIDE DEF o, new, taken
  <2>7. /\ op' \in [Slots -> OpStates]
        /\ owner' \in [Slots -> Requests \cup {None}]
        /\ status' \in [Requests -> {"new", "waiting", "granted", "rejected"}]
        /\ waiters' \in Seq(Requests) /\ Len(waiters') <= MaxWaiters
        /\ overdue' \subseteq Requests /\ count' = count
    BY <2>1, <2>4, <2>5, SettleWaiterStep DEF TypeOK, ListsAgree
  <2> QED  BY <1>13, <2>3, <2>6, <2>7 DEF ResumeGrants, TypeOK
<1>14. CASE RollsBack
  <2> DEFINE s == Head(candidates)
  <2>1. s \in Slots /\ candidates' \in Seq(Slots)
    BY <1>0, <1>14, HeadTailProperties DEF RollsBack
  <2>2. \/ ReturnToPool(s, cap[s])
        \/ Destroy(s) /\ cap' = cap /\ idle' = idle
    BY <1>14 DEF RollsBack
  <2> HIDE DEF s
  <2>3. /\ conn' \in [Slots -> ConnStates] /\ op' \in [Slots -> OpStates]
        /\ cap' \in [Slots -> {NoCap} \cup 0..MaxConnections]
        /\ idle' \in Seq(Slots)
    <3>1. CASE ReturnToPool(s, cap[s])
      <4>1. Append(idle, s) \in Seq(Slots) /\ idle \in Seq(Slots)
        BY <1>0, <2>1, AppendElement
      <4>2. idle' \in Seq(Slots)
        BY <3>1, <4>1 DEF ReturnToPool
      <4> QED  BY <2>1, <3>1, <4>2
               DEF ReturnToPool, TypeOK, ConnStates, OpStates, NoCap
    <3>2. CASE Destroy(s) /\ cap' = cap /\ idle' = idle
      BY <2>1, <3>2 DEF Destroy, TypeOK, ConnStates, OpStates
    <3> QED  BY <2>2, <3>1, <3>2
  <2> QED  BY <1>14, <2>1, <2>3 DEF RollsBack, TypeOK
<1>15. CASE RolledBack
  BY <1>15, CheckClosedType DEF RolledBack, TypeOK
<1>16. CASE RefusesWaiter
  <2>1. waiter \in Requests
    BY <1>11, <1>16 DEF RefusesWaiter
  <2>2. CASE Active(waiter)
    BY <1>16, <2>1, <2>2, RejectWaiterStep DEF RefusesWaiter, TypeOK, ListsAgree
  <2>3. CASE ~Active(waiter)
    BY <1>16, <2>3 DEF RefusesWaiter, TypeOK
  <2> QED  BY <2>2, <2>3
<1> QED  BY <1>1, <1>2, <1>3, <1>4, <1>6, <1>7, <1>8, <1>9, <1>10, <1>12,
            <1>13, <1>14, <1>15, <1>16 DEF Dispatches

(***************************************************************************)
(* The queue of waiters and the locals of the dispatch loop                *)
(***************************************************************************)
\* #waiters keeps listing exactly the unsettled requests.
LEMMA WaitersStep ==
  ASSUME PoolInv, Next
  PROVE  WaitersListed'
<1> USE DEF PoolInv, endVars, connVars, requestVars, loopVars, pumpVars
<1>0. TypeOK /\ WaitersListed
  BY DEF ListsAgree
<1>1. ASSUME UNCHANGED <<waiters, status>>
      PROVE  WaitersListed'
  BY <1>0, <1>1 DEF WaitersListed, Active
<1>2. ASSUME NEW r \in Requests, Asks(r)
      PROVE  WaitersListed'
  <2>1. ASSUME NEW n \in 1..MaxConnections, Acquire(r, n)
        PROVE  WaitersListed'
    <3>1. r \notin Elements(waiters)
      BY <1>0, <2>1 DEF Acquire, WaitersListed, Active
    <3>2. waiters' = Append(waiters, r) /\ waiters \in Seq(Requests)
      BY <2>1 DEF Acquire, Enqueue, TypeOK
    <3>3. Distinct(waiters') /\ Elements(waiters') = Elements(waiters) \cup {r}
      BY <1>0, <3>1, <3>2, AppendElement DEF WaitersListed
    <3>4. \A x \in Requests : (status'[x] = "waiting") <=> (Active(x) \/ x = r)
      BY <2>1 DEF Acquire, TypeOK, Active
    <3> QED  BY <1>0, <3>3, <3>4 DEF WaitersListed, Active
  <2>2. ASSUME NEW n \in 1..MaxConnections, AcquireRefused(r, n)
        PROVE  WaitersListed'
    <3>1. \A x \in Requests : (status'[x] = "waiting") <=> Active(x)
      BY <2>2 DEF AcquireRefused, TypeOK, Active
    <3> QED  BY <1>0, <2>2, <3>1 DEF AcquireRefused, WaitersListed, Active
  <2>3. CASE AbortRequest(r)
    BY <1>0, <2>3, RejectWaiterStep DEF AbortRequest
  <2>4. CASE DeadlinePasses(r)
    BY <1>1, <2>4 DEF DeadlinePasses
  <2> QED  BY <1>2, <2>1, <2>2, <2>3, <2>4 DEF Asks, TimeoutFires
<1>3. ASSUME NEW g \in DOMAIN leases, Borrows(g)
      PROVE  WaitersListed'
  BY <1>1, <1>3
  DEF Borrows, CallStarts, CallEnds, LeaseResetStarts, LeaseResetSettles, Release
<1>4. ASSUME NEW s \in Slots, Settles(s)
      PROVE  WaitersListed'
  <2>1. CASE CreateFails(s)
    <3>1. CASE op[s] = "overrun"
      BY <1>1, <2>1, <3>1 DEF CreateFails
    <3>2. CASE op[s] # "overrun"
      <4>1. [op EXCEPT ![s] = None] \in [Slots -> OpStates]
        BY DEF TypeOK, OpStates
      <4> QED  BY <1>0, <2>1, <3>2, <4>1, RejectOwnerStep DEF CreateFails
    <3> QED  BY <3>1, <3>2
  <2>2. CASE CreateExpires(s)
    <3>1. [op EXCEPT ![s] = "overrun"] \in [Slots -> OpStates]
      BY DEF TypeOK, OpStates
    <3> QED  BY <1>0, <2>2, <3>1, RejectOwnerStep DEF CreateExpires
  <2> QED  BY <1>1, <1>4, <2>1, <2>2
           DEF Settles, CreateSucceeds, ValidateSettles, ReleaseResetSucceeds,
               ReleaseResetFails, ReleaseResumes, DestroySucceeds, DestroyFails,
               DestroyFailsLate
<1>5. CASE Dispatches
  <2>1. dpc \in {"await", "rollback", "refuse"} => waiter \in Requests
    BY DEF LoopLocals
  <2>2. CASE LoopRejects
    <3>1. Head(waiters) \in Requests
      BY <2>2, HeadTailProperties DEF LoopRejects, AtHead, TypeOK
    <3> QED  BY <1>0, <2>2, <3>1, RejectWaiterStep DEF LoopRejects
  <2>3. CASE ResumeRejects
    BY <1>0, <2>1, <2>3, RejectWaiterStep DEF ResumeRejects, Validated
  <2>4. CASE RefusesWaiter
    <3>1. CASE Active(waiter)
      BY <1>0, <2>1, <2>4, <3>1, RejectWaiterStep DEF RefusesWaiter
    <3>2. CASE ~Active(waiter)
      BY <1>1, <2>4, <3>2 DEF RefusesWaiter
    <3> QED  BY <3>1, <3>2
  <2>5. CASE ResumeGrants
    <3> DEFINE taken == {candidates[i] : i \in DOMAIN candidates}
               o == [s \in Slots |-> IF s \in taken THEN None ELSE op[s]]
    <3>1. waiter \in Requests
      BY <2>1, <2>5 DEF ResumeGrants, Validated
    <3>2. o \in [Slots -> OpStates]
      BY DEF TypeOK, OpStates
    <3>3. SettleWaiter(waiter, "granted", creating, o, owner, lowWaterBlocked)
      BY <2>5 DEF ResumeGrants
    <3> HIDE DEF o
    <3> QED  BY <1>0, <3>1, <3>2, <3>3, SettleWaiterStep DEF TypeOK
  <2> QED  BY <1>1, <1>5, <2>2, <2>3, <2>4, <2>5
           DEF Dispatches, PumpTick, DispatchEnds, LoopStops, LoopTrims,
               LoopCreates, LoopReturns, LoopTakes, ResumeRollsBack, RollsBack,
               RolledBack
<1>6. CASE Ends
  <2>1. ASSUME NEW target \in {"retiring", "closing"}, Shutdown(target)
        PROVE  WaitersListed'
    <3>1. waiters' = <<>> /\ \A r \in Requests : status'[r] # "waiting"
      BY <2>1 DEF Shutdown, Active
    <3> QED  BY <3>1 DEF WaitersListed, Active, Distinct, Elements
  <2> QED  BY <1>1, <1>6, <2>1 DEF Ends, Escalate, ShutdownTimeout
<1> QED  BY <1>2, <1>3, <1>4, <1>5, <1>6 DEF Next

\* Outside the await and the rollback the loop holds no candidate.
LEMMA LocalsStep ==
  ASSUME PoolInv, Next
  PROVE  LoopLocals'
<1> USE DEF PoolInv, endVars, connVars, requestVars, loopVars, pumpVars
<1>0. TypeOK /\ LoopLocals
  OBVIOUS
<1>1. ASSUME UNCHANGED loopVars
      PROVE  LoopLocals'
  BY <1>0, <1>1 DEF LoopLocals
<1>2. ASSUME NEW r \in Requests, Asks(r)
      PROVE  LoopLocals'
  BY <1>1, <1>2
  DEF Asks, Acquire, AcquireRefused, AbortRequest, DeadlinePasses, TimeoutFires
<1>3. ASSUME NEW g \in DOMAIN leases, Borrows(g)
      PROVE  LoopLocals'
  BY <1>1, <1>3
  DEF Borrows, CallStarts, CallEnds, LeaseResetStarts, LeaseResetSettles, Release
<1>4. ASSUME NEW s \in Slots, Settles(s)
      PROVE  LoopLocals'
  BY <1>1, <1>4
  DEF Settles, CreateSucceeds, CreateFails, CreateExpires, ValidateSettles,
      ReleaseResetSucceeds, ReleaseResetFails, ReleaseResumes, DestroySucceeds,
      DestroyFails, DestroyFailsLate
<1>5. CASE Ends
  BY <1>1, <1>5 DEF Ends, Shutdown, Escalate, ShutdownTimeout
<1>6. CASE Dispatches
  <2>1. CASE LoopTakes
    BY <1>0, <2>1, HeadTailProperties
    DEF LoopTakes, ServableHead, AtHead, LoopLocals, TypeOK
  <2> QED  BY <1>0, <1>1, <1>6, <2>1
           DEF LoopLocals, Dispatches, PumpTick, DispatchEnds, LoopStops,
               LoopTrims, LoopCreates, LoopReturns, LoopRejects, AtHead, AtRest,
               ServableHead, ResumeRollsBack, ResumeRejects, ResumeGrants,
               Validated, RollsBack, RolledBack, RefusesWaiter
<1> QED  BY <1>2, <1>3, <1>4, <1>5, <1>6 DEF Next

(***************************************************************************)
(* Connections and leases                                                  *)
(***************************************************************************)
ConnInv ==
  /\ IdleListed /\ CreatingListed /\ CandidatesListed
  /\ LeaseExclusive /\ ResetsOwned /\ CapacityBound

ownVars == <<conn, idle, creating, candidates, leases, release>>

\* Only a step that fills a free place can exceed the capacity.
LEMMA CapacityKept ==
  ASSUME PoolInv, \A s \in Slots : conn[s] = "free" => conn'[s] = "free"
  PROVE  CapacityBound'
<1> DEFINE A == Slots \ In({"free"})
           B == {s \in Slots : conn'[s] # "free"}
<1>1. B \subseteq A /\ IsFiniteSet(A)
  BY SetsAssumption, FS_Subset DEF In
<1>2. Cardinality(B) <= Cardinality(A)
  /\ Cardinality(A) \in Nat /\ Cardinality(B) \in Nat
  BY <1>1, FS_Subset, FS_CardinalityType
<1>3. CapacityBound' <=> Cardinality(B) <= MaxConnections
  <2>1. (Slots \ In({"free"}))' = B
    BY DEF In
  <2> QED  BY <2>1 DEF CapacityBound
<1> HIDE DEF A, B
<1>4. Cardinality(A) <= MaxConnections
  BY DEF PoolInv, CapacityBound, A
<1> QED  BY <1>2, <1>3, <1>4, BoundsAssumption

\* A step that moves only connections nobody borrows, and resets none, leaves
\* every lease alone.
LEMMA LeasesKept ==
  ASSUME PoolInv, leases' = leases,
         \A s \in Slots :
           \/ conn'[s] = conn[s]
           \/ /\ conn[s] \notin {"leased", "resetting"}
              /\ conn'[s] \notin {"leased", "resetting"},
         \A s \in Slots :
           \/ release'[s] = release[s]
           \/ release[s] # "resetting" /\ release'[s] # "resetting"
  PROVE  LeaseExclusive' /\ ResetsOwned'
<1>1. LeaseExclusive /\ ResetsOwned /\ TypeOK
  BY DEF PoolInv
<1>2. \A g \in DOMAIN leases : leases[g].slot \in Slots
  BY <1>1, LeaseUpdate DEF Lease
<1>3. \A g \in DOMAIN leases : leases[g].active =>
        conn'[leases[g].slot] = conn[leases[g].slot]
  BY <1>1, <1>2 DEF LeaseExclusive
<1>4. \A s \in Slots : conn'[s] \in {"leased", "resetting"} => conn'[s] = conn[s]
  OBVIOUS
<1>5. LeaseExclusive'
  BY <1>1, <1>2, <1>3, <1>4 DEF LeaseExclusive, In
<1>6. ASSUME NEW s \in Slots
      PROVE  LET borrowed == {g \in DOMAIN leases : leases[g].active /\ leases[g].slot = s}
             IN /\ release'[s] = "resetting" => conn'[s] = "resetting" /\ borrowed = {}
                /\ conn'[s] = "resetting" => release'[s] = "resetting" \/ borrowed # {}
  <2> DEFINE borrowed == {g \in DOMAIN leases : leases[g].active /\ leases[g].slot = s}
  <2>1. /\ release[s] = "resetting" => conn[s] = "resetting" /\ borrowed = {}
        /\ conn[s] = "resetting" => release[s] = "resetting" \/ borrowed # {}
    BY <1>1 DEF ResetsOwned
  <2> HIDE DEF borrowed
  <2>2. /\ release'[s] = "resetting" => conn'[s] = "resetting" /\ borrowed = {}
        /\ conn'[s] = "resetting" => release'[s] = "resetting" \/ borrowed # {}
    BY <1>4, <2>1
  <2> QED  BY <2>2 DEF borrowed
<1>7. ResetsOwned'
  BY <1>6 DEF ResetsOwned
<1> QED  BY <1>5, <1>7

\* A step that touches none of these keeps what relates them.
LEMMA ConnFrame ==
  ASSUME ConnInv, UNCHANGED ownVars
  PROVE  ConnInv'
BY DEF ConnInv, ownVars, IdleListed, CreatingListed, CandidatesListed,
       LeaseExclusive, ResetsOwned, CapacityBound, In

\* #returnToPool: the connection s, which was not idle, is idle or closing.
LEMMA ReturnStep ==
  ASSUME PoolInv, NEW s \in Slots, NEW k, conn[s] \notin {"idle", "free"},
         ReturnToPool(s, k)
  PROVE  /\ IdleListed' /\ CapacityBound'
         /\ conn' \in [Slots -> ConnStates]
         /\ conn'[s] \in {"idle", "closing"}
         /\ \A x \in Slots \ {s} : conn'[x] = conn[x]
<1>1. /\ TypeOK /\ Distinct(idle) /\ Elements(idle) = In({"idle"})
  BY DEF PoolInv, ListsAgree, IdleListed
<1>2. /\ conn' \in [Slots -> ConnStates] /\ conn'[s] \in {"idle", "closing"}
      /\ \A x \in Slots \ {s} : conn'[x] = conn[x]
  BY <1>1 DEF ReturnToPool, TypeOK, ConnStates
<1>3. CapacityBound'
  BY <1>2, CapacityKept
<1>4. CASE Keeps(k)
  <2>1. idle' = Append(idle, s) /\ conn'[s] = "idle" /\ idle \in Seq(Slots)
    BY <1>1, <1>4 DEF ReturnToPool, TypeOK
  <2>2. s \notin Elements(idle)
    BY <1>1 DEF In
  <2>3. Distinct(idle') /\ Elements(idle') = Elements(idle) \cup {s}
    BY <1>1, <2>1, <2>2, AppendElement
  <2>4. In({"idle"})' = In({"idle"}) \cup {s}
    BY <1>2, <2>1 DEF In
  <2> QED  BY <1>1, <1>2, <1>3, <2>3, <2>4 DEF IdleListed
<1>5. CASE ~Keeps(k)
  <2>1. idle' = idle /\ conn'[s] = "closing"
    BY <1>1, <1>5 DEF ReturnToPool, TypeOK
  <2>2. In({"idle"})' = In({"idle"})
    BY <1>2, <2>1 DEF In
  <2> QED  BY <1>1, <1>2, <1>3, <2>1, <2>2 DEF IdleListed
<1> QED  BY <1>4, <1>5

\* A call under a lease, or a reset asked for by its borrower.
LEMMA LeaseUseConn ==
  ASSUME PoolInv, NEW g \in DOMAIN leases,
         \/ CallStarts(g) \/ CallEnds(g)
         \/ LeaseResetStarts(g) \/ LeaseResetSettles(g)
  PROVE  ConnInv'
<1> USE DEF PoolInv, endVars, connVars, requestVars, loopVars, pumpVars
<1> DEFINE s == leases[g].slot
<1>0. /\ TypeOK /\ IdleListed /\ CreatingListed /\ CandidatesListed
      /\ LeaseExclusive /\ ResetsOwned
  BY DEF ListsAgree
<1>1. \A h \in DOMAIN leases : leases[h] \in Lease /\ leases[h].slot \in Slots
  BY <1>0, LeaseUpdate DEF Lease
<1>2. PICK b \in {None, "call", "reset"} : leases' = [leases EXCEPT ![g].busy = b]
  BY DEF CallStarts, CallEnds, LeaseResetStarts, LeaseResetSettles
<1>3. /\ DOMAIN leases' = DOMAIN leases
      /\ \A h \in DOMAIN leases : leases'[h] =
           IF h = g THEN [leases[g] EXCEPT !.busy = b] ELSE leases[h]
  BY <1>0, <1>2, LeaseUpdate
<1>4. \A h \in DOMAIN leases :
        /\ leases'[h].slot = leases[h].slot /\ leases'[h].active = leases[h].active
        /\ h # g => leases'[h].busy = leases[h].busy
        /\ leases'[g].busy = b
  BY <1>1, <1>3 DEF Lease
<1>5. leases[g].active /\ conn[s] \in {"leased", "resetting"} /\ s \in Slots
  BY <1>0, <1>1
  DEF CallStarts, CallEnds, LeaseResetStarts, LeaseResetSettles, Usable,
      LeaseExclusive, None
<1>6. /\ conn' \in [Slots -> ConnStates]
      /\ conn'[s] = IF b = "reset" THEN "resetting" ELSE "leased"
      /\ \A x \in Slots \ {s} : conn'[x] = conn[x]
      /\ UNCHANGED <<idle, creating, candidates, release>>
  <2>1. CASE CallStarts(g)
    <3>1. conn[s] = "leased" /\ leases'[g].busy = "call"
      BY <1>0, <1>3, <1>1, <2>1 DEF CallStarts, Usable, LeaseExclusive, Lease, None
    <3>2. b = "call"
      BY <1>4, <3>1
    <3> QED  BY <1>0, <2>1, <3>1, <3>2 DEF CallStarts, TypeOK
  <2>2. CASE CallEnds(g)
    <3>1. conn[s] = "leased" /\ leases'[g].busy = None
      BY <1>0, <1>3, <1>1, <2>2 DEF CallEnds, LeaseExclusive, Lease, None
    <3>2. b = None
      BY <1>4, <3>1
    <3> QED  BY <1>0, <2>2, <3>1, <3>2 DEF CallEnds, TypeOK, None
  <2>3. CASE LeaseResetStarts(g)
    <3>1. leases'[g].busy = "reset"
      BY <1>1, <2>3, LeaseUpdate DEF LeaseResetStarts, Lease
    <3>2. b = "reset"
      BY <1>4, <3>1
    <3> QED  BY <1>0, <1>5, <2>3, <3>2 DEF LeaseResetStarts, TypeOK, ConnStates
  <2>4. CASE LeaseResetSettles(g)
    <3>1. leases'[g].busy = None
      BY <1>1, <2>4, LeaseUpdate DEF LeaseResetSettles, Lease
    <3>2. b = None
      BY <1>4, <3>1
    <3> QED  BY <1>0, <1>5, <2>4, <3>2 DEF LeaseResetSettles, TypeOK, ConnStates, None
  <2> QED  BY <2>1, <2>2, <2>3, <2>4
<1> HIDE DEF s
<1>7. CapacityBound'
  BY <1>5, <1>6, CapacityKept
<1>8. IdleListed' /\ CreatingListed' /\ CandidatesListed'
  <2>1. /\ In({"idle"})' = In({"idle"}) /\ In({"creating"})' = In({"creating"})
        /\ In({"validating"})' = In({"validating"})
    BY <1>5, <1>6 DEF In
  <2> QED  BY <1>0, <1>6, <2>1 DEF IdleListed, CreatingListed, CandidatesListed
<1>9. \A h \in DOMAIN leases : leases[h].active /\ leases[h].slot = s => h = g
  BY <1>0, <1>5 DEF LeaseExclusive, s
<1>10. LeaseExclusive'
  <2>1. \A h, i \in DOMAIN leases' :
          leases'[h].active /\ leases'[i].active /\ leases'[h].slot = leases'[i].slot
            => h = i
    BY <1>0, <1>3, <1>4 DEF LeaseExclusive
  <2>2. \A h \in DOMAIN leases' : leases'[h].active =>
          conn'[leases'[h].slot] =
            IF leases'[h].busy = "reset" THEN "resetting" ELSE "leased"
    <3>1. ASSUME NEW h \in DOMAIN leases, h # g, leases[h].active
          PROVE  conn'[leases'[h].slot] =
                   IF leases'[h].busy = "reset" THEN "resetting" ELSE "leased"
      <4>1. leases[h].slot \in Slots \ {s}
        BY <1>1, <1>9, <3>1
      <4> QED  BY <1>0, <1>4, <1>6, <3>1, <4>1 DEF LeaseExclusive
    <3>2. conn'[leases'[g].slot] =
            IF leases'[g].busy = "reset" THEN "resetting" ELSE "leased"
      BY <1>4, <1>6 DEF s
    <3> QED  BY <1>3, <1>4, <3>1, <3>2
  <2>3. \A x \in Slots : conn'[x] = "leased" =>
          \E h \in DOMAIN leases' : leases'[h].active /\ leases'[h].slot = x
    <3>1. ASSUME NEW x \in Slots, conn'[x] = "leased"
          PROVE  \E h \in DOMAIN leases' : leases'[h].active /\ leases'[h].slot = x
      <4>1. CASE x = s
        BY <1>3, <1>4, <1>5, <4>1 DEF s
      <4>2. CASE x # s
        <5>1. conn[x] = "leased"
          BY <1>6, <3>1, <4>2
        <5> QED  BY <1>0, <1>3, <1>4, <5>1 DEF LeaseExclusive, In
      <4> QED  BY <4>1, <4>2
    <3> QED  BY <3>1
  <2>4. \A h \in DOMAIN leases' : leases'[h].busy # None => leases'[h].active
    BY <1>0, <1>3, <1>4, <1>5 DEF LeaseExclusive
  <2> QED  BY <2>1, <2>2, <2>3, <2>4 DEF LeaseExclusive, In
<1>11. ResetsOwned'
  <2>1. ASSUME NEW x \in Slots
        PROVE  {h \in DOMAIN leases' : leases'[h].active /\ leases'[h].slot = x} =
               {h \in DOMAIN leases : leases[h].active /\ leases[h].slot = x}
    BY <1>3, <1>4
  <2>2. g \in {h \in DOMAIN leases : leases[h].active /\ leases[h].slot = s}
    BY <1>5 DEF s
  <2>3. ASSUME NEW x \in Slots
        PROVE  LET borrowed == {h \in DOMAIN leases : leases[h].active /\ leases[h].slot = x}
               IN /\ release[x] = "resetting" => conn'[x] = "resetting" /\ borrowed = {}
                  /\ conn'[x] = "resetting" => release[x] = "resetting" \/ borrowed # {}
    <3>1. CASE x = s
      BY <1>0, <1>5, <2>2, <3>1 DEF ResetsOwned
    <3>2. CASE x # s
      <4>1. conn'[x] = conn[x]
        BY <1>6, <3>2
      <4> QED  BY <1>0, <4>1 DEF ResetsOwned
    <3> QED  BY <3>1, <3>2
  <2>4. release' = release
    BY <1>6
  <2> QED  BY <2>1, <2>3, <2>4 DEF ResetsOwned
<1> QED  BY <1>7, <1>8, <1>10, <1>11 DEF ConnInv

\* A step that moves one connection, which is not listed anywhere before or
\* after, leaves the lists alone.
LEMMA ListsKept ==
  ASSUME PoolInv, UNCHANGED <<idle, creating, candidates>>,
         \A s \in Slots :
           \/ conn'[s] = conn[s]
           \/ /\ conn[s] \notin {"idle", "creating", "validating"}
              /\ conn'[s] \notin {"idle", "creating", "validating"}
  PROVE  IdleListed' /\ CreatingListed' /\ CandidatesListed'
<1>1. /\ In({"idle"})' = In({"idle"}) /\ In({"creating"})' = In({"creating"})
      /\ In({"validating"})' = In({"validating"})
  BY DEF In
<1> QED  BY <1>1 DEF PoolInv, ListsAgree, IdleListed, CreatingListed, CandidatesListed

\* A connection that is neither being created nor validated, before or after,
\* matters to neither list.
LEMMA OtherListsKept ==
  ASSUME PoolInv, UNCHANGED <<creating, candidates>>,
         \A s \in Slots :
           \/ conn'[s] = conn[s]
           \/ /\ conn[s] \notin {"creating", "validating"}
              /\ conn'[s] \notin {"creating", "validating"}
  PROVE  CreatingListed' /\ CandidatesListed'
<1>1. /\ In({"creating"})' = In({"creating"})
      /\ In({"validating"})' = In({"validating"})
  BY DEF In
<1> QED  BY <1>1 DEF PoolInv, ListsAgree, CreatingListed, CandidatesListed

\* release(): the lease ends, and its connection goes out of the borrower's
\* hands in the same step.
LEMMA ReleaseConn ==
  ASSUME PoolInv, NEW g \in DOMAIN leases, NEW reusable \in BOOLEAN, NEW k,
         Release(g, reusable, k)
  PROVE  ConnInv'
<1> USE DEF PoolInv, endVars, connVars, requestVars, loopVars, pumpVars
<1> DEFINE s == leases[g].slot
<1>0. /\ TypeOK /\ LeaseExclusive /\ ResetsOwned
  OBVIOUS
<1>1. \A h \in DOMAIN leases : leases[h] \in Lease /\ leases[h].slot \in Slots
  BY <1>0, LeaseUpdate DEF Lease
<1>2. /\ DOMAIN leases' = DOMAIN leases
      /\ \A h \in DOMAIN leases : leases'[h] =
           IF h = g THEN [leases[g] EXCEPT !.active = FALSE] ELSE leases[h]
  <2>1. leases' = [leases EXCEPT ![g].active = FALSE]
    BY DEF Release
  <2> QED  BY <1>0, <2>1, LeaseUpdate
<1>3. \A h \in DOMAIN leases :
        /\ leases'[h].slot = leases[h].slot /\ leases'[h].busy = leases[h].busy
        /\ leases'[h].active <=> leases[h].active /\ h # g
  BY <1>1, <1>2 DEF Lease
<1>4. leases[g].active /\ leases[g].busy = None /\ conn[s] = "leased" /\ s \in Slots
  BY <1>0, <1>1 DEF Release, Usable, LeaseExclusive, None
<1>5. UNCHANGED <<creating, candidates>>
  BY DEF Release
<1>6. /\ \A x \in Slots \ {s} : conn'[x] = conn[x] /\ release'[x] = release[x]
      /\ \/ conn'[s] = "closing" /\ release'[s] = "destroying" /\ idle' = idle
         \/ conn'[s] = "resetting" /\ release'[s] = "resetting" /\ idle' = idle
         \/ /\ ReturnToPool(s, k) /\ conn'[s] \in {"idle", "closing"}
            /\ release'[s] \in {"resuming", "destroying"}
  <2>1. CASE ReleaseEvicts(g, s)
    BY <1>0, <1>4, <2>1 DEF ReleaseEvicts, Destroy, TypeOK
  <2>2. CASE ReleaseResets(g, s, k)
    BY <1>0, <1>4, <2>2 DEF ReleaseResets, TypeOK
  <2>3. CASE ReleaseReturns(s, k)
    <3>1. conn'[s] \in {"idle", "closing"} /\ \A x \in Slots \ {s} : conn'[x] = conn[x]
      BY <1>4, <2>3, ReturnStep DEF ReleaseReturns
    <3> QED  BY <1>0, <1>4, <2>3, <3>1 DEF ReleaseReturns, TypeOK
  <2> QED  BY <2>1, <2>2, <2>3 DEF Release
<1> HIDE DEF s
<1>7. IdleListed' /\ CapacityBound'
  <2>1. CASE ReturnToPool(s, k)
    BY <1>4, <2>1, ReturnStep
  <2>2. CASE idle' = idle /\ conn'[s] \in {"closing", "resetting"}
    <3>1. CapacityBound'
      BY <1>4, <1>6, CapacityKept
    <3>2. IdleListed'
      BY <1>4, <1>5, <1>6, <2>2, ListsKept
    <3> QED  BY <3>1, <3>2
  <2> QED  BY <1>6, <2>1, <2>2
<1>8. CreatingListed' /\ CandidatesListed'
  BY <1>4, <1>5, <1>6, OtherListsKept
<1>9. \A h \in DOMAIN leases : leases[h].active /\ leases[h].slot = s => h = g
  BY <1>0, <1>4 DEF LeaseExclusive, s
<1>10. LeaseExclusive'
  <2>1. \A h, i \in DOMAIN leases' :
          leases'[h].active /\ leases'[i].active /\ leases'[h].slot = leases'[i].slot
            => h = i
    BY <1>0, <1>2, <1>3 DEF LeaseExclusive
  <2>2. ASSUME NEW h \in DOMAIN leases, leases'[h].active
        PROVE  conn'[leases'[h].slot] =
                 IF leases'[h].busy = "reset" THEN "resetting" ELSE "leased"
    <3>1. leases[h].slot \in Slots \ {s} /\ leases[h].active
      BY <1>1, <1>3, <1>9, <2>2
    <3> QED  BY <1>0, <1>3, <1>6, <3>1 DEF LeaseExclusive
  <2>3. ASSUME NEW x \in Slots, conn'[x] = "leased"
        PROVE  \E h \in DOMAIN leases : leases'[h].active /\ leases'[h].slot = x
    <3>1. x # s /\ conn[x] = "leased"
      BY <1>6, <2>3
    <3>2. PICK h \in DOMAIN leases : leases[h].active /\ leases[h].slot = x
      BY <1>0, <3>1 DEF LeaseExclusive, In
    <3> QED  BY <1>3, <3>1, <3>2 DEF s
  <2>4. \A h \in DOMAIN leases : leases'[h].busy # None => leases'[h].active
    BY <1>0, <1>3, <1>4 DEF LeaseExclusive
  <2> QED  BY <1>2, <2>1, <2>2, <2>3, <2>4 DEF LeaseExclusive, In
<1>11. ResetsOwned'
  <2>1. ASSUME NEW x \in Slots, x # s
        PROVE  {h \in DOMAIN leases' : leases'[h].active /\ leases'[h].slot = x} =
               {h \in DOMAIN leases : leases[h].active /\ leases[h].slot = x}
    BY <1>2, <1>3, <2>1 DEF s
  <2>2. {h \in DOMAIN leases' : leases'[h].active /\ leases'[h].slot = s} = {}
    BY <1>2, <1>3, <1>9
  <2>3. ASSUME NEW x \in Slots
        PROVE  LET borrowed == {h \in DOMAIN leases' :
                                  leases'[h].active /\ leases'[h].slot = x}
               IN /\ release'[x] = "resetting" => conn'[x] = "resetting" /\ borrowed = {}
                  /\ conn'[x] = "resetting" => release'[x] = "resetting" \/ borrowed # {}
    <3>1. CASE x = s
      BY <1>6, <2>2, <3>1
    <3>2. CASE x # s
      <4>1. conn'[x] = conn[x] /\ release'[x] = release[x]
        BY <1>6, <3>2
      <4> QED  BY <1>0, <2>1, <3>2, <4>1 DEF ResetsOwned
    <3> QED  BY <3>1, <3>2
  <2> QED  BY <2>3 DEF ResetsOwned
<1> QED  BY <1>7, <1>8, <1>10, <1>11 DEF ConnInv

\* The reset a release() awaits ends: the connection, which no lease reaches,
\* is idle again or being destroyed.
LEMMA ReleaseResetConn ==
  ASSUME PoolInv, NEW s \in Slots, ReleaseResetSucceeds(s) \/ ReleaseResetFails(s)
  PROVE  ConnInv'
<1> USE DEF PoolInv, endVars, connVars, requestVars, loopVars, pumpVars
<1>0. TypeOK /\ LeaseExclusive /\ ResetsOwned
  OBVIOUS
<1>1. release[s] = "resetting" /\ leases' = leases /\ UNCHANGED <<creating, candidates>>
  BY DEF ReleaseResetSucceeds, ReleaseResetFails
<1>2. /\ conn[s] = "resetting"
      /\ \A g \in DOMAIN leases : leases[g].active => leases[g].slot # s
  BY <1>0, <1>1 DEF ResetsOwned
<1>3. /\ \A x \in Slots \ {s} : conn'[x] = conn[x] /\ release'[x] = release[x]
      /\ conn'[s] \in {"idle", "closing"} /\ release'[s] # "resetting"
      /\ IdleListed' /\ CapacityBound'
  <2>1. CASE \E k : ReleaseReturns(s, k)
    <3>1. PICK k : ReleaseReturns(s, k)
      BY <2>1
    <3>2. /\ IdleListed' /\ CapacityBound' /\ conn'[s] \in {"idle", "closing"}
          /\ \A x \in Slots \ {s} : conn'[x] = conn[x]
      BY <1>2, <3>1, ReturnStep DEF ReleaseReturns
    <3> QED  BY <1>0, <3>1, <3>2 DEF ReleaseReturns, TypeOK
  <2>2. CASE /\ Destroy(s) /\ idle' = idle
             /\ \E e \in {"destroying", "evicting"} : release' = [release EXCEPT ![s] = e]
    <3>1. /\ \A x \in Slots \ {s} : conn'[x] = conn[x] /\ release'[x] = release[x]
          /\ conn'[s] = "closing" /\ release'[s] # "resetting"
      BY <1>0, <2>2 DEF Destroy, TypeOK
    <3> QED  BY <1>1, <1>2, <2>2, <3>1, ListsKept, CapacityKept
  <2> QED  BY <2>1, <2>2 DEF ReleaseResetSucceeds, ReleaseResetFails
<1>4. CreatingListed' /\ CandidatesListed'
  BY <1>1, <1>2, <1>3, OtherListsKept
<1>5. \A g \in DOMAIN leases : leases[g].slot \in Slots
  BY <1>0, LeaseUpdate DEF Lease
<1>6. LeaseExclusive'
  BY <1>0, <1>1, <1>2, <1>3, <1>5 DEF LeaseExclusive, In
<1>7. ResetsOwned'
  <2>1. ASSUME NEW x \in Slots
        PROVE  LET borrowed == {g \in DOMAIN leases : leases[g].active /\ leases[g].slot = x}
               IN /\ release'[x] = "resetting" => conn'[x] = "resetting" /\ borrowed = {}
                  /\ conn'[x] = "resetting" => release'[x] = "resetting" \/ borrowed # {}
    <3>1. CASE x = s
      BY <1>3, <3>1
    <3>2. CASE x # s
      <4>1. conn'[x] = conn[x] /\ release'[x] = release[x]
        BY <1>3, <3>2
      <4> QED  BY <1>0, <4>1 DEF ResetsOwned
    <3> QED  BY <3>1, <3>2
  <2> QED  BY <1>1, <2>1 DEF ResetsOwned
<1> QED  BY <1>3, <1>4, <1>6, <1>7 DEF ConnInv

\* A factory callback settles.
LEMMA SettlesConn ==
  ASSUME PoolInv, NEW s \in Slots, Settles(s)
  PROVE  ConnInv'
<1> USE DEF PoolInv, endVars, connVars, requestVars, loopVars, pumpVars
<1>0. /\ TypeOK /\ ResetsOwned /\ IdleListed /\ CreatingListed /\ CandidatesListed
      /\ ConnInv
  BY DEF ListsAgree, ConnInv
<1>1. ASSUME conn[s] = "creating", creating' = Without(creating, s),
             \A x \in Slots \ {s} : conn'[x] = conn[x],
             conn'[s] \in {"free", "idle", "closing"},
             UNCHANGED <<candidates, leases, release>>
      PROVE  /\ CreatingListed' /\ CandidatesListed' /\ CapacityBound'
             /\ LeaseExclusive' /\ ResetsOwned'
  <2>1. Distinct(creating') /\ Elements(creating') = Elements(creating) \ {s}
    BY <1>0, <1>1, WithoutElement DEF TypeOK, CreatingListed
  <2>2. /\ In({"creating"})' = In({"creating"}) \ {s}
        /\ In({"validating"})' = In({"validating"})
    BY <1>1 DEF In
  <2>3. CreatingListed' /\ CandidatesListed'
    BY <1>0, <1>1, <2>1, <2>2 DEF CreatingListed, CandidatesListed
  <2>4. CapacityBound'
    BY <1>1, CapacityKept
  <2>5. LeaseExclusive' /\ ResetsOwned'
    BY <1>1, LeasesKept
  <2> QED  BY <2>3, <2>4, <2>5
<1>2. CASE CreateSucceeds(s)
  <2>1. /\ IdleListed' /\ conn'[s] \in {"idle", "closing"}
        /\ \A x \in Slots \ {s} : conn'[x] = conn[x]
    <3>1. CASE StillWanted(s)
      BY <1>2, <3>1, ReturnStep DEF CreateSucceeds
    <3>2. CASE ~StillWanted(s)
      <4>1. /\ conn'[s] = "closing" /\ \A x \in Slots \ {s} : conn'[x] = conn[x]
            /\ idle' = idle /\ conn[s] = "creating"
        BY <1>0, <1>2, <3>2 DEF CreateSucceeds, Destroy, TypeOK
      <4>2. In({"idle"})' = In({"idle"})
        BY <4>1 DEF In
      <4> QED  BY <1>0, <4>1, <4>2 DEF IdleListed
    <3> QED  BY <3>1, <3>2
  <2> QED  BY <1>1, <1>2, <2>1 DEF CreateSucceeds, ConnInv
<1>3. CASE CreateFails(s)
  <2>1. /\ conn'[s] = "free" /\ \A x \in Slots \ {s} : conn'[x] = conn[x]
        /\ idle' = idle /\ conn[s] = "creating"
    BY <1>0, <1>3 DEF CreateFails, TypeOK
  <2>2. In({"idle"})' = In({"idle"})
    BY <2>1 DEF In
  <2> QED  BY <1>0, <1>1, <1>3, <2>1, <2>2 DEF CreateFails, IdleListed, ConnInv
<1>4. ASSUME UNCHANGED <<idle, creating, candidates, leases>>,
             \A x \in Slots :
               \/ conn'[x] = conn[x]
               \/ conn[x] = "closing" /\ conn'[x] = "free",
             \A x \in Slots :
               \/ release'[x] = release[x]
               \/ release[x] # "resetting" /\ release'[x] # "resetting"
      PROVE  ConnInv'
  BY <1>4, ListsKept, LeasesKept, CapacityKept DEF ConnInv
<1>5. CASE ReleaseResumes(s)
  <2>1. \A x \in Slots : \/ release'[x] = release[x]
                         \/ release[x] # "resetting" /\ release'[x] # "resetting"
    BY <1>0, <1>5 DEF ReleaseResumes, TypeOK, None
  <2> QED  BY <1>4, <1>5, <2>1 DEF ReleaseResumes
<1>6. ASSUME NEW ok \in BOOLEAN, AfterDestroy(s, ok)
      PROVE  \A x \in Slots :
               \/ release'[x] = release[x]
               \/ release[x] # "resetting" /\ release'[x] # "resetting"
  BY <1>0, <1>6 DEF AfterDestroy, TypeOK, None
<1>7. CASE DestroySucceeds(s)
  <2>1. \A x \in Slots : \/ conn'[x] = conn[x]
                         \/ conn[x] = "closing" /\ conn'[x] = "free"
    BY <1>0, <1>7 DEF DestroySucceeds, TypeOK
  <2>2. \A x \in Slots : \/ release'[x] = release[x]
                         \/ release[x] # "resetting" /\ release'[x] # "resetting"
    BY <1>6, <1>7 DEF DestroySucceeds
  <2> QED  BY <1>4, <1>7, <2>1, <2>2 DEF DestroySucceeds
<1>8. ASSUME NEW end \in {"failed", "overrun"}, DestroyFails(s, end)
      PROVE  ConnInv'
  BY <1>4, <1>6, <1>8 DEF DestroyFails
<1>9. ASSUME UNCHANGED ownVars PROVE ConnInv'
  BY <1>0, <1>9, ConnFrame
<1>10. ASSUME NEW outcome, ValidateSettles(s, outcome) PROVE ConnInv'
  BY <1>9, <1>10 DEF ValidateSettles, ownVars
<1>11. CASE CreateExpires(s)
  BY <1>9, <1>11 DEF CreateExpires, ownVars
<1>12. CASE DestroyFailsLate(s)
  BY <1>9, <1>12 DEF DestroyFailsLate, ownVars
<1> QED  BY <1>2, <1>3, <1>5, <1>7, <1>8, <1>10, <1>11, <1>12, ReleaseResetConn
         DEF Settles

\* One creation is started, under the limit.
LEMMA CreationConn ==
  ASSUME PoolInv, NEW r, StartCreation(r), Capacity < MaxConnections,
         UNCHANGED <<candidates, leases, release>>
  PROVE  ConnInv'
<1> USE DEF PoolInv
<1>0. /\ TypeOK /\ IdleListed /\ CreatingListed /\ CandidatesListed
  BY DEF ListsAgree
<1> DEFINE s == CHOOSE s \in Slots : conn[s] = "free"
<1>1. s \in Slots /\ conn[s] = "free"
  BY DEF StartCreation, In
<1>2. /\ creating' = Append(creating, s) /\ idle' = idle
      /\ conn'[s] = "creating" /\ \A x \in Slots \ {s} : conn'[x] = conn[x]
  BY <1>0, <1>1 DEF StartCreation, TypeOK
<1> HIDE DEF s
<1>3. IdleListed' /\ CandidatesListed'
  <2>1. In({"idle"})' = In({"idle"}) /\ In({"validating"})' = In({"validating"})
    BY <1>1, <1>2 DEF In
  <2> QED  BY <1>0, <1>2, <2>1 DEF IdleListed, CandidatesListed
<1>4. CreatingListed'
  <2>1. s \notin Elements(creating) /\ creating \in Seq(Slots)
    BY <1>0, <1>1 DEF CreatingListed, In, TypeOK
  <2>2. Distinct(creating') /\ Elements(creating') = Elements(creating) \cup {s}
    BY <1>0, <1>1, <1>2, <2>1, AppendElement DEF CreatingListed
  <2>3. In({"creating"})' = In({"creating"}) \cup {s}
    BY <1>1, <1>2 DEF In
  <2> QED  BY <1>0, <2>2, <2>3 DEF CreatingListed
<1>5. LeaseExclusive' /\ ResetsOwned'
  BY <1>1, <1>2, LeasesKept
<1>6. CapacityBound'
  <2> DEFINE A == Slots \ In({"free"})
  <2>1. IsFiniteSet(A) /\ s \notin A
    BY <1>1, SetsAssumption, FS_Subset DEF In
  <2>2. (Slots \ In({"free"}))' = A \cup {s}
    BY <1>1, <1>2 DEF In
  <2>3. Cardinality(A \cup {s}) = Cardinality(A) + 1 /\ Cardinality(A) \in Nat
    BY <2>1, FS_AddElement, FS_CardinalityType
  <2>4. Cardinality(A) < MaxConnections
    BY DEF Capacity
  <2> HIDE DEF A
  <2>5. Cardinality(A \cup {s}) <= MaxConnections
    BY <2>3, <2>4, BoundsAssumption
  <2> QED  BY <2>2, <2>5 DEF CapacityBound
<1> QED  BY <1>3, <1>4, <1>5, <1>6 DEF ConnInv

\* The surplus of #idle is destroyed, or its head taken for a checkout.
LEMMA IdleSplitConn ==
  ASSUME PoolInv, LoopTrims \/ LoopTakes
  PROVE  ConnInv'
<1> USE DEF PoolInv, endVars, connVars, requestVars, loopVars, pumpVars
<1>0. /\ TypeOK /\ IdleListed /\ CreatingListed /\ CandidatesListed /\ LoopLocals
  BY DEF ListsAgree
<1>1. idle \in Seq(Slots) /\ Distinct(idle) /\ Elements(idle) = In({"idle"})
      /\ DOMAIN idle = 1..Len(idle) /\ Len(idle) \in Nat
  BY <1>0 DEF TypeOK, IdleListed
<1>2. ASSUME NEW moved, NEW to \in {"closing", "validating"},
             moved \subseteq Elements(idle),
             Distinct(idle'), Elements(idle') = Elements(idle) \ moved,
             \A s \in Slots : conn'[s] = IF s \in moved THEN to ELSE conn[s],
             UNCHANGED <<creating, leases, release>>
      PROVE  /\ IdleListed' /\ CreatingListed' /\ CapacityBound'
             /\ LeaseExclusive' /\ ResetsOwned'
             /\ In({"validating"})' =
                  In({"validating"}) \cup IF to = "closing" THEN {} ELSE moved
  <2>1. \A s \in Slots : s \in moved => conn[s] = "idle"
    BY <1>1, <1>2 DEF In
  <2>2. /\ In({"idle"})' = In({"idle"}) \ moved
        /\ In({"creating"})' = In({"creating"})
    BY <1>2, <2>1 DEF In
  <2>3. IdleListed' /\ CreatingListed'
    BY <1>0, <1>1, <1>2, <2>2 DEF IdleListed, CreatingListed
  <2>4. CapacityBound'
    BY <1>2, <2>1, CapacityKept
  <2>5. LeaseExclusive' /\ ResetsOwned'
    BY <1>2, <2>1, LeasesKept
  <2>6. moved \subseteq Slots
    BY <1>1, <1>2 DEF In
  <2>7. In({"validating"})' =
          In({"validating"}) \cup IF to = "closing" THEN {} ELSE moved
    BY <1>2, <2>1, <2>6 DEF In
  <2> QED  BY <2>3, <2>4, <2>5, <2>7
<1>3. ASSUME NEW n \in 0..Len(idle)
      PROVE  /\ Distinct(SubSeq(idle, 1, n)) /\ Distinct(SubSeq(idle, n + 1, Len(idle)))
             /\ Elements(SubSeq(idle, 1, n)) = {idle[i] : i \in 1..n}
             /\ Elements(SubSeq(idle, n + 1, Len(idle))) = {idle[i] : i \in (n + 1)..Len(idle)}
             /\ Elements(idle) = {idle[i] : i \in 1..n} \cup {idle[i] : i \in (n + 1)..Len(idle)}
             /\ {idle[i] : i \in 1..n} \cap {idle[i] : i \in (n + 1)..Len(idle)} = {}
  <2>1. /\ 1 \in 1..(Len(idle) + 1) /\ n \in (1 - 1)..Len(idle)
        /\ n + 1 \in 1..(Len(idle) + 1) /\ Len(idle) \in (n + 1 - 1)..Len(idle)
    BY <1>1
  <2>2. /\ Distinct(SubSeq(idle, 1, n))
        /\ Elements(SubSeq(idle, 1, n)) = {idle[i] : i \in 1..n}
    BY <1>1, <2>1, SubSeqElements
  <2>3. /\ Distinct(SubSeq(idle, n + 1, Len(idle)))
        /\ Elements(SubSeq(idle, n + 1, Len(idle))) = {idle[i] : i \in (n + 1)..Len(idle)}
    BY <1>1, <2>1, SubSeqElements
  <2>4. \A i \in 1..Len(idle) : i \in 1..n \/ i \in (n + 1)..Len(idle)
    BY <1>1
  <2>5. \A i \in 1..n, j \in (n + 1)..Len(idle) :
          i \in DOMAIN idle /\ j \in DOMAIN idle /\ i # j
    BY <1>1
  <2>6. Elements(idle) = {idle[i] : i \in 1..n} \cup {idle[i] : i \in (n + 1)..Len(idle)}
    BY <1>1, <2>4, <2>5 DEF Elements
  <2>7. {idle[i] : i \in 1..n} \cap {idle[i] : i \in (n + 1)..Len(idle)} = {}
    BY <1>1, <2>5 DEF Distinct
  <2> QED  BY <2>2, <2>3, <2>6, <2>7
<1>4. CASE LoopTrims
  <2>1. PICK n \in 0..Len(idle) :
          LET cut == {idle[i] : i \in (n + 1)..Len(idle)}
          IN /\ idle' = SubSeq(idle, 1, n)
             /\ conn' = [s \in Slots |-> IF s \in cut THEN "closing" ELSE conn[s]]
    BY <1>4 DEF LoopTrims
  <2> DEFINE cut == {idle[i] : i \in (n + 1)..Len(idle)}
             kept == {idle[i] : i \in 1..n}
  <2>2. /\ Distinct(idle') /\ Elements(idle') = kept
        /\ Elements(idle) = kept \cup cut /\ kept \cap cut = {}
    BY <1>3, <2>1
  <2>3. \A s \in Slots : conn'[s] = IF s \in cut THEN "closing" ELSE conn[s]
    BY <2>1
  <2> HIDE DEF cut, kept
  <2>4. UNCHANGED <<creating, candidates, leases, release>>
    BY <1>4 DEF LoopTrims
  <2>5. /\ IdleListed' /\ CreatingListed' /\ CapacityBound'
        /\ LeaseExclusive' /\ ResetsOwned' /\ In({"validating"})' = In({"validating"})
    BY <1>2, <2>2, <2>3, <2>4
  <2> QED  BY <1>0, <2>4, <2>5 DEF CandidatesListed, ConnInv
<1>5. CASE LoopTakes
  <2> DEFINE n == count[Head(waiters)]
             taken == {idle[i] : i \in 1..n}
             rest == {idle[i] : i \in (n + 1)..Len(idle)}
  <2>1. n \in 0..Len(idle)
    BY <1>0, <1>1, <1>5, HeadTailProperties DEF LoopTakes, ServableHead, AtHead, TypeOK
  <2>2. /\ candidates' = SubSeq(idle, 1, n) /\ idle' = SubSeq(idle, n + 1, Len(idle))
        /\ \A s \in Slots : conn'[s] = IF s \in taken THEN "validating" ELSE conn[s]
        /\ UNCHANGED <<creating, leases, release>>
    BY <1>5 DEF LoopTakes
  <2> HIDE DEF n
  <2>3. /\ Distinct(idle') /\ Elements(idle') = rest /\ Distinct(candidates')
        /\ Elements(candidates') = taken
        /\ Elements(idle) = taken \cup rest /\ taken \cap rest = {}
    BY <1>3, <2>1, <2>2
  <2> HIDE DEF taken, rest
  <2>4. /\ IdleListed' /\ CreatingListed' /\ CapacityBound'
        /\ LeaseExclusive' /\ ResetsOwned'
        /\ In({"validating"})' = In({"validating"}) \cup taken
    BY <1>2, <2>2, <2>3
  <2>5. In({"validating"}) = {}
    BY <1>0, <1>5
    DEF LoopTakes, ServableHead, AtHead, LoopLocals, CandidatesListed, Elements
  <2> QED  BY <2>3, <2>4, <2>5 DEF CandidatesListed, ConnInv
<1> QED  BY <1>4, <1>5

\* The candidates are handed out: each gets the one new lease that names it.
LEMMA GrantConn ==
  ASSUME PoolInv, ResumeGrants
  PROVE  ConnInv'
<1> USE DEF PoolInv, endVars, connVars, requestVars, loopVars, pumpVars
<1> DEFINE taken == {candidates[i] : i \in DOMAIN candidates}
           new == [i \in DOMAIN candidates |->
                    [slot |-> candidates[i], holder |-> waiter,
                     active |-> TRUE, busy |-> None]]
           n == Len(leases)
<1>0. /\ TypeOK /\ IdleListed /\ CreatingListed /\ CandidatesListed
      /\ LeaseExclusive /\ ResetsOwned
      /\ candidates \in Seq(Slots) /\ DOMAIN candidates = 1..Len(candidates)
      /\ leases \in Seq(Lease) /\ DOMAIN leases = 1..n /\ n \in Nat
      /\ Len(candidates) \in Nat
  BY DEF ListsAgree, TypeOK
<1>1. /\ taken = In({"validating"}) /\ taken \subseteq Slots
      /\ \A i, j \in DOMAIN candidates : candidates[i] = candidates[j] => i = j
  BY <1>0 DEF CandidatesListed, Elements, Distinct, In
<1>2. /\ \A s \in Slots : conn'[s] = IF s \in taken THEN "leased" ELSE conn[s]
      /\ leases' = leases \o new /\ candidates' = <<>>
      /\ UNCHANGED <<idle, creating, release>>
  BY DEF ResumeGrants
<1>3. /\ DOMAIN leases' = 1..(n + Len(candidates))
      /\ \A g \in 1..n : leases'[g] = leases[g]
      /\ \A i \in DOMAIN candidates :
           /\ leases'[n + i].slot = candidates[i] /\ leases'[n + i].active = TRUE
           /\ leases'[n + i].busy = None
  <2>1. \A i \in DOMAIN candidates :
          new[i].slot = candidates[i] /\ new[i].active = TRUE /\ new[i].busy = None
    OBVIOUS
  <2>2. new \in Seq(Lease) /\ Len(new) = Len(candidates)
    <3>1. waiter \in Requests
      BY DEF ResumeGrants, Validated, LoopLocals
    <3>2. \A i \in DOMAIN candidates :
            [slot |-> candidates[i], holder |-> waiter, active |-> TRUE,
             busy |-> None] \in Lease
      BY <1>0, <3>1 DEF Lease
    <3>3. new \in [1..Len(candidates) -> Lease]
      BY <1>0, <3>2
    <3> HIDE DEF new
    <3> QED  BY <1>0, <3>3
  <2> HIDE DEF new
  <2>3. /\ leases' \in Seq(Lease) /\ Len(leases') = n + Len(candidates)
        /\ \A i \in 1..(n + Len(candidates)) :
             leases'[i] = IF i <= n THEN leases[i] ELSE new[i - n]
    <3>1. /\ leases \o new \in Seq(Lease)
          /\ Len(leases \o new) = Len(leases) + Len(new)
          /\ \A i \in 1..(Len(leases) + Len(new)) : (leases \o new)[i] =
               IF i <= Len(leases) THEN leases[i] ELSE new[i - Len(leases)]
      BY <1>0, <2>2, ConcatProperties
    <3> QED  BY <1>2, <2>2, <3>1
  <2>4. ASSUME NEW i \in 1..Len(candidates)
        PROVE  leases'[n + i] = new[i]
    <3> DEFINE m == Len(candidates)
    <3>1. n \in Nat /\ m \in Nat /\ i \in 1..m
      BY <1>0
    <3> HIDE DEF m, n
    <3>2. n + i \in 1..(n + m) /\ ~(n + i <= n) /\ (n + i) - n = i
      BY <3>1
    <3> QED  BY <2>3, <3>2 DEF m
  <2>5. \A g \in 1..n : leases'[g] = leases[g]
    BY <1>0, <2>3
  <2> QED  BY <1>0, <2>1, <2>3, <2>4, <2>5
<1> HIDE DEF new, n
<1>4. \A g \in DOMAIN leases' :
        \/ g \in DOMAIN leases /\ leases'[g] = leases[g]
        \/ \E i \in DOMAIN candidates :
             /\ g = n + i /\ leases'[g].slot = candidates[i] /\ leases'[g].active
             /\ leases'[g].busy = None
  <2>1. ASSUME NEW g \in DOMAIN leases', g \notin DOMAIN leases
        PROVE  g - n \in DOMAIN candidates /\ g = n + (g - n)
    BY <1>0, <1>3, <2>1
  <2> QED  BY <1>0, <1>3, <2>1
<1>5. \A g \in DOMAIN leases :
        /\ leases[g].slot \in Slots
        /\ g \in DOMAIN leases' /\ leases'[g] = leases[g]
        /\ leases[g].active => leases[g].slot \notin taken
  <2>1. ASSUME NEW g \in DOMAIN leases
        PROVE  leases[g].slot \in Slots /\ g \in DOMAIN leases' /\ leases'[g] = leases[g]
    <3>1. leases[g].slot \in Slots
      BY <1>0, LeaseUpdate DEF Lease
    <3>2. g \in 1..n /\ 1..n \subseteq 1..(n + Len(candidates))
      BY <1>0
    <3> QED  BY <1>3, <3>1, <3>2
  <2>2. ASSUME NEW g \in DOMAIN leases, leases[g].active
        PROVE  leases[g].slot \notin taken
    BY <1>0, <1>1, <2>2 DEF LeaseExclusive, In
  <2> QED  BY <2>1, <2>2
<1>6. \A s \in taken : \E g \in DOMAIN leases' : leases'[g].active /\ leases'[g].slot = s
  <2>1. ASSUME NEW i \in DOMAIN candidates
        PROVE  n + i \in DOMAIN leases'
    <3> DEFINE m == Len(candidates)
    <3>1. n \in Nat /\ m \in Nat /\ i \in 1..m
      BY <1>0
    <3> HIDE DEF m
    <3>2. n + i \in 1..(n + m)
      BY <3>1
    <3> QED  BY <1>3, <3>2 DEF m
  <2> QED  BY <1>3, <2>1
<1>7. \A i \in DOMAIN candidates : candidates[i] \in taken
  OBVIOUS
<1>8. \A s \in taken : conn[s] = "validating"
  BY <1>1 DEF In
<1> HIDE DEF taken
<1>9. IdleListed' /\ CreatingListed' /\ CandidatesListed'
  <2>1. /\ In({"idle"})' = In({"idle"}) /\ In({"creating"})' = In({"creating"})
        /\ In({"validating"})' = {}
    BY <1>1, <1>2, <1>8 DEF In
  <2> QED  BY <1>0, <1>2, <2>1
           DEF IdleListed, CreatingListed, CandidatesListed, Distinct, Elements
<1>10. CapacityBound'
  BY <1>1, <1>2, <1>8, CapacityKept
<1>11. LeaseExclusive'
  <2>1. ASSUME NEW g \in DOMAIN leases', NEW h \in DOMAIN leases',
               leases'[g].active, leases'[h].active, leases'[g].slot = leases'[h].slot
        PROVE  g = h
    <3>1. CASE g \in DOMAIN leases /\ h \in DOMAIN leases
      BY <1>0, <1>5, <2>1, <3>1 DEF LeaseExclusive
    <3>2. CASE g \in DOMAIN leases <=> h \notin DOMAIN leases
      BY <1>4, <1>5, <1>7, <2>1, <3>2
    <3>3. CASE g \notin DOMAIN leases /\ h \notin DOMAIN leases
      BY <1>1, <1>4, <2>1, <3>3
    <3> QED  BY <3>1, <3>2, <3>3
  <2>2. ASSUME NEW g \in DOMAIN leases', leases'[g].active
        PROVE  conn'[leases'[g].slot] =
                 IF leases'[g].busy = "reset" THEN "resetting" ELSE "leased"
    <3>1. CASE g \in DOMAIN leases
      BY <1>0, <1>2, <1>5, <2>2, <3>1 DEF LeaseExclusive
    <3>2. CASE g \notin DOMAIN leases
      BY <1>1, <1>2, <1>4, <1>7, <3>2 DEF None
    <3> QED  BY <3>1, <3>2
  <2>3. ASSUME NEW s \in Slots, conn'[s] = "leased"
        PROVE  \E g \in DOMAIN leases' : leases'[g].active /\ leases'[g].slot = s
    <3>1. CASE s \in taken
      BY <1>6, <3>1
    <3>2. CASE s \notin taken
      <4>1. PICK g \in DOMAIN leases : leases[g].active /\ leases[g].slot = s
        BY <1>0, <1>2, <2>3, <3>2 DEF LeaseExclusive, In
      <4> QED  BY <1>5, <4>1
    <3> QED  BY <3>1, <3>2
  <2>4. \A g \in DOMAIN leases' : leases'[g].busy # None => leases'[g].active
    BY <1>0, <1>4 DEF LeaseExclusive
  <2> QED  BY <2>1, <2>2, <2>3, <2>4 DEF LeaseExclusive, In
<1>12. ResetsOwned'
  <2>1. ASSUME NEW s \in Slots
        PROVE  LET borrowed == {g \in DOMAIN leases' :
                                  leases'[g].active /\ leases'[g].slot = s}
               IN /\ release[s] = "resetting" => conn'[s] = "resetting" /\ borrowed = {}
                  /\ conn'[s] = "resetting" => release[s] = "resetting" \/ borrowed # {}
    <3>1. CASE s \in taken
      BY <1>0, <1>2, <1>8, <3>1 DEF ResetsOwned
    <3>2. CASE s \notin taken
      <4>1. {g \in DOMAIN leases' : leases'[g].active /\ leases'[g].slot = s} =
            {g \in DOMAIN leases : leases[g].active /\ leases[g].slot = s}
        BY <1>4, <1>5, <1>7, <3>2
      <4>2. conn'[s] = conn[s]
        BY <1>2, <3>2
      <4> QED  BY <1>0, <4>1, <4>2 DEF ResetsOwned
    <3> QED  BY <3>1, <3>2
  <2> QED  BY <1>2, <2>1 DEF ResetsOwned
<1> QED  BY <1>9, <1>10, <1>11, <1>12 DEF ConnInv

\* One candidate goes back, or is destroyed.
LEMMA RollsBackConn ==
  ASSUME PoolInv, RollsBack
  PROVE  ConnInv'
<1> USE DEF PoolInv, endVars, connVars, requestVars, loopVars, pumpVars
<1> DEFINE s == Head(candidates)
<1>0. /\ TypeOK /\ IdleListed /\ CreatingListed /\ CandidatesListed
      /\ candidates \in Seq(Slots) /\ candidates # <<>> /\ Len(candidates) \in Nat
      /\ DOMAIN candidates = 1..Len(candidates) /\ Len(candidates) # 0
  <2>1. TypeOK /\ candidates \in Seq(Slots) /\ candidates # <<>>
    BY DEF TypeOK, RollsBack
  <2>2. Len(candidates) # 0
    BY <2>1, EmptySeq
  <2> QED  BY <2>1, <2>2 DEF ListsAgree
<1>1. s = candidates[1] /\ s \in Slots /\ conn[s] = "validating"
  <2>1. s = candidates[1] /\ 1 \in DOMAIN candidates
    BY <1>0
  <2> QED  BY <1>0, <2>1 DEF CandidatesListed, Elements, In
<1>2. \/ ReturnToPool(s, cap[s])
      \/ Destroy(s) /\ idle' = idle
  BY DEF RollsBack
<1>3. candidates' = Tail(candidates) /\ UNCHANGED <<creating, leases, release>>
  BY DEF RollsBack
<1> HIDE DEF s
<1>4. /\ IdleListed' /\ conn'[s] \in {"idle", "closing"}
      /\ \A x \in Slots \ {s} : conn'[x] = conn[x]
  <2>1. CASE ReturnToPool(s, cap[s])
    BY <1>1, <2>1, ReturnStep
  <2>2. CASE Destroy(s) /\ idle' = idle
    <3>1. conn'[s] = "closing" /\ \A x \in Slots \ {s} : conn'[x] = conn[x]
      BY <1>0, <1>1, <2>2 DEF Destroy, TypeOK
    <3>2. In({"idle"})' = In({"idle"})
      BY <1>1, <3>1 DEF In
    <3> QED  BY <1>0, <2>2, <3>1, <3>2 DEF IdleListed
  <2> QED  BY <1>2, <2>1, <2>2
<1>5. CandidatesListed'
  <2> DEFINE m == Len(candidates)
  <2>0. m \in Nat /\ m # 0 /\ Distinct(candidates)
    BY <1>0 DEF CandidatesListed
  <2>1. /\ candidates' = SubSeq(candidates, 2, m)
        /\ 2 \in 1..(m + 1) /\ m \in (2 - 1)..m
    BY <1>0, <1>3, TailIsSubSeq
  <2>2. /\ Distinct(candidates')
        /\ Elements(candidates') = {candidates[i] : i \in 2..m}
    BY <1>0, <2>0, <2>1, SubSeqElements
  <2>3. {candidates[i] : i \in 2..m} = Elements(candidates) \ {s}
    <3>1. \A i \in 1..m : i = 1 \/ i \in 2..m
      BY <2>0
    <3>2. \A i \in 2..m : i \in 1..m /\ i # 1
      BY <2>0
    <3>3. DOMAIN candidates = 1..m /\ 1 \in 1..m
      BY <1>0, <2>0
    <3> HIDE DEF m
    <3> QED  BY <1>1, <2>0, <3>1, <3>2, <3>3 DEF Elements, Distinct
  <2>4. In({"validating"})' = In({"validating"}) \ {s}
    BY <1>1, <1>4 DEF In
  <2> QED  BY <1>0, <2>2, <2>3, <2>4 DEF CandidatesListed
<1>6. CreatingListed'
  <2>1. In({"creating"})' = In({"creating"})
    BY <1>1, <1>4 DEF In
  <2> QED  BY <1>0, <1>3, <2>1 DEF CreatingListed
<1>7. CapacityBound'
  BY <1>1, <1>4, CapacityKept
<1>8. LeaseExclusive' /\ ResetsOwned'
  BY <1>1, <1>3, <1>4, LeasesKept
<1> QED  BY <1>4, <1>5, <1>6, <1>7, <1>8 DEF ConnInv

\* The dispatch loop.
LEMMA DispatchesConn ==
  ASSUME PoolInv, Dispatches
  PROVE  ConnInv'
<1> USE DEF PoolInv, endVars, connVars, requestVars, loopVars, pumpVars
<1>0. TypeOK /\ LoopLocals /\ ConnInv
  BY DEF ConnInv, ListsAgree
<1>1. ASSUME UNCHANGED ownVars PROVE ConnInv'
  BY <1>0, <1>1, ConnFrame
<1>2. CASE LoopCreates
  <2>1. \E r : StartCreation(r)
    BY <1>2 DEF LoopCreates
  <2>2. Capacity < MaxConnections /\ UNCHANGED <<candidates, leases, release>>
    BY <1>2 DEF LoopCreates, Refills, MayCreate
  <2> QED  BY <2>1, <2>2, CreationConn
<1>3. CASE PumpTick \/ DispatchEnds \/ LoopStops \/ LoopReturns \/ ResumeRollsBack
  BY <1>1, <1>3
  DEF PumpTick, DispatchEnds, LoopStops, LoopReturns, ResumeRollsBack, ownVars
<1>4. CASE LoopRejects \/ ResumeRejects \/ RolledBack \/ RefusesWaiter
  BY <1>1, <1>4
  DEF LoopRejects, ResumeRejects, RolledBack, RefusesWaiter, ownVars
<1> QED  BY <1>2, <1>3, <1>4, IdleSplitConn, GrantConn, RollsBackConn DEF Dispatches

\* The shutdown destroys what is idle.
LEMMA EndsConn ==
  ASSUME PoolInv, Ends
  PROVE  ConnInv'
<1> USE DEF PoolInv, endVars, connVars, requestVars, loopVars, pumpVars
<1>0. TypeOK /\ ConnInv /\ CreatingListed /\ CandidatesListed
  BY DEF ConnInv, ListsAgree
<1>1. ASSUME NEW target, Shutdown(target) PROVE ConnInv'
  <2>1. /\ \A s \in Slots : conn'[s] = IF conn[s] = "idle" THEN "closing" ELSE conn[s]
        /\ idle' = <<>> /\ UNCHANGED <<creating, candidates, leases, release>>
    BY <1>1 DEF Shutdown
  <2>2. /\ In({"idle"})' = {} /\ In({"creating"})' = In({"creating"})
        /\ In({"validating"})' = In({"validating"})
    BY <2>1 DEF In
  <2>3. IdleListed' /\ CreatingListed' /\ CandidatesListed'
    BY <1>0, <2>1, <2>2
    DEF IdleListed, CreatingListed, CandidatesListed, Distinct, Elements
  <2>4. CapacityBound'
    BY <2>1, CapacityKept
  <2>5. LeaseExclusive' /\ ResetsOwned'
    BY <2>1, LeasesKept
  <2> QED  BY <2>3, <2>4, <2>5 DEF ConnInv
<1>2. CASE Escalate \/ ShutdownTimeout
  BY <1>0, <1>2, ConnFrame DEF Escalate, ShutdownTimeout, ownVars
<1> QED  BY <1>1, <1>2 DEF Ends

(***************************************************************************)
(* The theorems                                                            *)
(***************************************************************************)
\* The empty pool the constructor leaves satisfies the invariant.
LEMMA PoolInvInit ==
  Init => PoolInv
<1> SUFFICES ASSUME Init PROVE PoolInv
  OBVIOUS
<1>1. TypeOK
  <2>1. /\ idle \in Seq(Slots) /\ creating \in Seq(Slots) /\ candidates \in Seq(Slots)
        /\ waiters \in Seq(Requests) /\ Len(waiters) <= MaxWaiters
        /\ leases \in Seq(Lease)
    BY BoundsAssumption DEF Init
  <2>2. /\ conn \in [Slots -> ConnStates] /\ op \in [Slots -> OpStates]
        /\ owner \in [Slots -> Requests \cup {None}]
        /\ cap \in [Slots -> {NoCap} \cup 0..MaxConnections]
        /\ release \in [Slots -> {None, "resetting", "destroying", "evicting",
                                  "resuming"}]
    BY DEF Init, ConnStates, OpStates
  <2>3. /\ status \in [Requests -> {"new", "waiting", "granted", "rejected"}]
        /\ count \in [Requests -> 1..MaxConnections]
    BY BoundsAssumption DEF Init
  <2> QED  BY <2>1, <2>2, <2>3 DEF Init, TypeOK
<1>2. ListsAgree
  <2>1. /\ In({"idle"}) = {} /\ In({"creating"}) = {} /\ In({"validating"}) = {}
        /\ {r \in Requests : Active(r)} = {}
    BY DEF Init, In, Active
  <2> QED  BY <2>1
           DEF Init, ListsAgree, IdleListed, CreatingListed, CandidatesListed,
               WaitersListed, Distinct, Elements
<1>3. LeaseExclusive /\ ResetsOwned /\ LoopLocals
  <2>1. In({"leased"}) = {}
    BY DEF Init, In
  <2> QED  BY <2>1 DEF Init, LeaseExclusive, ResetsOwned, LoopLocals, None
<1>4. CapacityBound
  <2>1. Slots \ In({"free"}) = {}
    BY DEF Init, In
  <2> QED  BY <2>1, FS_EmptySet, BoundsAssumption DEF CapacityBound
<1> QED  BY <1>1, <1>2, <1>3, <1>4 DEF PoolInv

\* Every step of the pool preserves it.
LEMMA PoolInvStep ==
  PoolInv /\ [Next]_vars => PoolInv'
<1> SUFFICES ASSUME PoolInv, [Next]_vars PROVE PoolInv'
  OBVIOUS
<1>1. CASE Next
  <2>1. TypeOK'
    BY <1>1, AsksType, BorrowsType, SettlesType, DispatchesType, EndsType DEF Next
  <2>2. ConnInv'
    <3>1. ASSUME NEW r \in Requests, Asks(r) PROVE ConnInv'
      <4>1. UNCHANGED ownVars
        BY <3>1
        DEF Asks, Acquire, AcquireRefused, AbortRequest, DeadlinePasses,
            TimeoutFires, ownVars, connVars, loopVars
      <4> QED  BY <4>1, ConnFrame DEF PoolInv, ListsAgree, ConnInv
    <3>2. ASSUME NEW g \in DOMAIN leases, Borrows(g) PROVE ConnInv'
      BY <3>2, LeaseUseConn, ReleaseConn DEF Borrows
    <3> QED  BY <1>1, <3>1, <3>2, SettlesConn, DispatchesConn, EndsConn DEF Next
  <2>3. WaitersListed' /\ LoopLocals'
    BY <1>1, WaitersStep, LocalsStep
  <2> QED  BY <2>1, <2>2, <2>3 DEF PoolInv, ConnInv, ListsAgree
<1>2. CASE UNCHANGED vars
  BY <1>2
  DEF vars, PoolInv, TypeOK, ListsAgree, IdleListed, CreatingListed,
      CandidatesListed, WaitersListed, LeaseExclusive, CapacityBound,
      ResetsOwned, LoopLocals, In, Active
<1> QED  BY <1>1, <1>2

\* The pool's lists, leases, resets and capacity agree in every reachable
\* state, whatever the factory, the borrowers and the timers do.
THEOREM PoolInvariant == Spec => []PoolInv
BY PoolInvInit, PoolInvStep, PTL DEF Spec

\* Every variable keeps its type; the queue of waiters never outgrows
\* maxWaiters (POOL_OVERLOADED).
THEOREM PoolTypes == Spec => []TypeOK
<1>1. PoolInv => TypeOK
  BY DEF PoolInv
<1> QED  BY <1>1, PoolInvariant, PTL

\* No physical connection is ever lent twice, nor touched by the pool while it
\* is lent.
THEOREM ExclusiveLeases == Spec => []LeaseExclusive
<1>1. PoolInv => LeaseExclusive
  BY DEF PoolInv
<1> QED  BY <1>1, PoolInvariant, PTL

\* There are never more than maxConnections physical connections, counting the
\* ones being created, torn down, or lost in a failed destroy.
THEOREM BoundedCapacity == Spec => []CapacityBound
<1>1. PoolInv => CapacityBound
  BY DEF PoolInv
<1> QED  BY <1>1, PoolInvariant, PTL

\* #idle, #creating, the candidates and #waiters list exactly what is in those
\* states, each once.
THEOREM ListsAlwaysAgree == Spec => []ListsAgree
<1>1. PoolInv => ListsAgree
  BY DEF PoolInv
<1> QED  BY <1>1, PoolInvariant, PTL

(***************************************************************************)
(* Grants                                                                  *)
(***************************************************************************)
\* The invariant behind the atomicity of acquire(N): the loop awaits exactly
\* the connections its request asked for.
GrantInv ==
  /\ GrantsAllOrNothing
  /\ dpc = "await" => Len(candidates) = count[waiter] /\ status[waiter] # "new"

\* What a request was given: the leases it holds or held.
Given(r) == {g \in DOMAIN leases : leases[g].holder = r}

\* #cleanupWaiter settles one request; it changes no other, and none that was
\* settled before.
LEMMA SettlesOne ==
  ASSUME TypeOK, NEW r \in Requests, NEW outcome \in {"granted", "rejected"},
         NEW cr, NEW o, NEW w, NEW blocked,
         SettleWaiter(r, outcome, cr, o, w, blocked)
  PROVE  /\ \A x \in Requests :
              status'[x] = IF x = r /\ Active(r) THEN outcome ELSE status[x]
         /\ count' = count
BY DEF SettleWaiter, TypeOK

\* No step but a grant issues a lease or fulfils a request; a request keeps
\* the number it asked for.
LEMMA OnlyGrantsGive ==
  ASSUME PoolInv, Next, ~ResumeGrants
  PROVE  /\ DOMAIN leases' = DOMAIN leases
         /\ \A g \in DOMAIN leases : leases'[g].holder = leases[g].holder
         /\ \A r \in Requests :
              /\ (status'[r] = "granted") <=> (status[r] = "granted")
              /\ status[r] # "new" => status'[r] # "new" /\ count'[r] = count[r]
<1> USE DEF PoolInv, endVars, connVars, requestVars, loopVars, pumpVars
<1> DEFINE Asked == \A r \in Requests :
              /\ (status'[r] = "granted") <=> (status[r] = "granted")
              /\ status[r] # "new" => status'[r] # "new" /\ count'[r] = count[r]
           Lent == /\ DOMAIN leases' = DOMAIN leases
                   /\ \A g \in DOMAIN leases : leases'[g].holder = leases[g].holder
<1>0. TypeOK
  OBVIOUS
<1>1. ASSUME UNCHANGED <<status, count>> PROVE Asked
  BY <1>1
<1>2. ASSUME UNCHANGED leases PROVE Lent
  BY <1>2
<1>3. ASSUME NEW r \in Requests, RejectWaiter(r) PROVE Asked
  BY <1>0, <1>3, SettlesOne DEF RejectWaiter, Active
<1>4. ASSUME NEW s \in Slots, NEW cr, NEW o, RejectOwner(s, cr, o) PROVE Asked
  <2>1. owner[s] \in Requests \cup {None}
    BY <1>0 DEF TypeOK
  <2>2. CASE owner[s] # None /\ Active(owner[s])
    <3>1. /\ owner[s] \in Requests
          /\ SettleWaiter(owner[s], "rejected", cr, o,
                          [owner EXCEPT ![s] = None], TRUE)
      BY <1>4, <2>1, <2>2 DEF RejectOwner
    <3> QED  BY <1>0, <3>1, SettlesOne DEF Active
  <2>3. CASE ~(owner[s] # None /\ Active(owner[s]))
    BY <1>1, <1>4, <2>3 DEF RejectOwner
  <2> QED  BY <2>2, <2>3
<1>5. ASSUME NEW r \in Requests, Asks(r) PROVE Lent /\ Asked
  <2>1. ASSUME NEW n \in 1..MaxConnections, Acquire(r, n) PROVE Lent /\ Asked
    BY <1>0, <1>2, <2>1 DEF Acquire, TypeOK
  <2>2. ASSUME NEW n \in 1..MaxConnections, AcquireRefused(r, n)
        PROVE  Lent /\ Asked
    BY <1>0, <1>2, <2>2 DEF AcquireRefused, TypeOK
  <2>3. CASE AbortRequest(r)
    BY <1>2, <1>3, <2>3 DEF AbortRequest
  <2>4. CASE DeadlinePasses(r)
    BY <1>1, <1>2, <2>4 DEF DeadlinePasses
  <2> QED  BY <1>5, <2>1, <2>2, <2>3, <2>4 DEF Asks, TimeoutFires
<1>6. ASSUME NEW g \in DOMAIN leases, Borrows(g) PROVE Lent /\ Asked
  <2>1. UNCHANGED <<status, count>>
    BY <1>6
    DEF Borrows, CallStarts, CallEnds, LeaseResetStarts, LeaseResetSettles, Release
  <2>2. \/ leases' = [leases EXCEPT ![g].active = FALSE]
        \/ \E b \in {None, "call", "reset"} :
             leases' = [leases EXCEPT ![g].busy = b]
    BY <1>6
    DEF Borrows, CallStarts, CallEnds, LeaseResetStarts, LeaseResetSettles, Release
  <2>3. Lent
    <3>1. CASE leases' = [leases EXCEPT ![g].active = FALSE]
      BY <1>0, <3>1, LeaseUpdate DEF Lease
    <3>2. ASSUME NEW b \in {None, "call", "reset"},
                 leases' = [leases EXCEPT ![g].busy = b]
          PROVE  Lent
      BY <1>0, <3>2, LeaseUpdate DEF Lease
    <3> QED  BY <2>2, <3>1, <3>2
  <2> QED  BY <1>1, <2>1, <2>3
<1>7. ASSUME NEW s \in Slots, Settles(s) PROVE Lent /\ Asked
  <2>1. CASE CreateFails(s)
    BY <1>1, <1>2, <1>4, <2>1 DEF CreateFails
  <2>2. CASE CreateExpires(s)
    BY <1>2, <1>4, <2>2 DEF CreateExpires
  <2> QED  BY <1>1, <1>2, <1>7, <2>1, <2>2
           DEF Settles, CreateSucceeds, ValidateSettles, ReleaseResetSucceeds,
               ReleaseResetFails, ReleaseResumes, DestroySucceeds, DestroyFails,
               DestroyFailsLate
<1>8. CASE Dispatches
  <2>1. dpc \in {"await", "rollback", "refuse"} => waiter \in Requests
    BY DEF LoopLocals
  <2>2. CASE LoopRejects
    <3>1. Head(waiters) \in Requests
      BY <2>2, HeadTailProperties DEF LoopRejects, AtHead, TypeOK
    <3> QED  BY <1>2, <1>3, <2>2, <3>1 DEF LoopRejects
  <2>3. CASE ResumeRejects
    BY <1>2, <1>3, <2>1, <2>3 DEF ResumeRejects, Validated
  <2>4. CASE RefusesWaiter
    BY <1>1, <1>2, <1>3, <2>1, <2>4 DEF RefusesWaiter
  <2> QED  BY <1>1, <1>2, <1>8, <2>2, <2>3, <2>4
           DEF Dispatches, PumpTick, DispatchEnds, LoopStops, LoopTrims,
               LoopCreates, LoopReturns, LoopTakes, ResumeRollsBack, RollsBack,
               RolledBack
<1>9. CASE Ends
  <2>1. ASSUME NEW target \in {"retiring", "closing"}, Shutdown(target)
        PROVE  Lent /\ Asked
    BY <1>0, <1>2, <2>1 DEF Shutdown, TypeOK, Active
  <2> QED  BY <1>1, <1>2, <1>9, <2>1 DEF Ends, Escalate, ShutdownTimeout
<1> QED  BY <1>5, <1>6, <1>7, <1>8, <1>9 DEF Next

\* The loop comes to its await with new candidates only by taking them.
LEMMA AwaitStarts ==
  ASSUME PoolInv, Next, dpc' = "await"
  PROVE  LoopTakes \/ UNCHANGED loopVars
<1> USE DEF PoolInv, endVars, connVars, requestVars, loopVars, pumpVars
<1>1. ASSUME NEW r \in Requests, Asks(r) PROVE UNCHANGED loopVars
  BY <1>1
  DEF Asks, Acquire, AcquireRefused, AbortRequest, DeadlinePasses, TimeoutFires
<1>2. ASSUME NEW g \in DOMAIN leases, Borrows(g) PROVE UNCHANGED loopVars
  BY <1>2
  DEF Borrows, CallStarts, CallEnds, LeaseResetStarts, LeaseResetSettles, Release
<1>3. ASSUME NEW s \in Slots, Settles(s) PROVE UNCHANGED loopVars
  BY <1>3
  DEF Settles, CreateSucceeds, CreateFails, CreateExpires, ValidateSettles,
      ReleaseResetSucceeds, ReleaseResetFails, ReleaseResumes, DestroySucceeds,
      DestroyFails, DestroyFailsLate
<1>4. CASE Ends
  BY <1>4 DEF Ends, Shutdown, Escalate, ShutdownTimeout
<1>5. CASE Dispatches
  BY <1>5
  DEF Dispatches, PumpTick, DispatchEnds, LoopStops, LoopTrims, LoopCreates,
      LoopReturns, LoopRejects, AtHead, AtRest, ServableHead, ResumeRollsBack,
      ResumeRejects, ResumeGrants, Validated, RollsBack, RolledBack, RefusesWaiter
<1> QED  BY <1>1, <1>2, <1>3, <1>4, <1>5 DEF Next

\* A grant appends one active lease per candidate to what was issued before.
LEMMA GrantIssues ==
  ASSUME PoolInv, ResumeGrants
  PROVE  /\ leases' \in Seq(Lease) /\ Len(leases') = Len(leases) + Len(candidates)
         /\ DOMAIN leases' = 1..(Len(leases) + Len(candidates))
         /\ \A g \in 1..Len(leases) : leases'[g] = leases[g]
         /\ \A g \in DOMAIN leases' : g > Len(leases) =>
              /\ g - Len(leases) \in DOMAIN candidates
              /\ leases'[g] = [slot |-> candidates[g - Len(leases)],
                              holder |-> waiter, active |-> TRUE, busy |-> None]
<1> USE DEF PoolInv
<1> DEFINE new == [i \in DOMAIN candidates |->
                    [slot |-> candidates[i], holder |-> waiter,
                     active |-> TRUE, busy |-> None]]
           n == Len(leases)
           m == Len(candidates)
<1>0. /\ TypeOK /\ waiter \in Requests /\ leases \in Seq(Lease) /\ n \in Nat
      /\ candidates \in Seq(Slots) /\ DOMAIN candidates = 1..m /\ m \in Nat
      /\ leases' = leases \o new
  BY DEF TypeOK, ResumeGrants, Validated, LoopLocals
<1>1. new \in Seq(Lease) /\ Len(new) = m
  <2>1. \A i \in 1..m : new[i] \in Lease
    BY <1>0 DEF Lease
  <2>2. new \in [1..m -> Lease]
    BY <1>0, <2>1
  <2> HIDE DEF new, m
  <2> QED  BY <1>0, <2>2
<1>2. \A i \in 1..m : new[i] = [slot |-> candidates[i], holder |-> waiter,
                                active |-> TRUE, busy |-> None]
  BY <1>0
<1> HIDE DEF new
<1>3. /\ leases \o new \in Seq(Lease)
      /\ Len(leases \o new) = Len(leases) + Len(new)
      /\ \A i \in 1..(Len(leases) + Len(new)) : (leases \o new)[i] =
           IF i <= Len(leases) THEN leases[i] ELSE new[i - Len(leases)]
  BY <1>0, <1>1, ConcatProperties
<1>4. /\ leases' \in Seq(Lease) /\ Len(leases') = n + m
      /\ DOMAIN leases' = 1..(n + m)
      /\ \A i \in 1..(n + m) : leases'[i] = IF i <= n THEN leases[i] ELSE new[i - n]
  BY <1>0, <1>1, <1>3
<1> HIDE DEF n, m
<1>5. ASSUME NEW g \in 1..(n + m), g > n
      PROVE  g - n \in 1..m /\ ~(g <= n)
  BY <1>0, <1>5
<1>6. \A g \in 1..n : g \in 1..(n + m) /\ g <= n
  BY <1>0
<1> QED  BY <1>0, <1>2, <1>4, <1>5, <1>6 DEF n, m

\* A grant hands its request exactly the candidates, and it had nothing before.
LEMMA GrantGivesAll ==
  ASSUME PoolInv, GrantInv, ResumeGrants
  PROVE  GrantsAllOrNothing'
<1> USE DEF PoolInv
<1> DEFINE n == Len(leases)
           m == Len(candidates)
           G(r) == {g \in DOMAIN leases : leases[g].holder = r}
           H(r) == {g \in DOMAIN leases' : leases'[g].holder = r}
<1>0. /\ TypeOK /\ waiter \in Requests /\ Active(waiter)
      /\ leases \in Seq(Lease) /\ DOMAIN leases = 1..n /\ n \in Nat
      /\ m \in Nat /\ m = count[waiter]
  BY DEF TypeOK, ResumeGrants, Validated, LoopLocals, Grantable, StillHead, GrantInv
<1>1. /\ \A r \in Requests :
           status'[r] = IF r = waiter THEN "granted" ELSE status[r]
      /\ count' = count
  BY <1>0, SettlesOne DEF ResumeGrants
<1>2. /\ DOMAIN leases' = 1..(n + m)
      /\ \A g \in 1..n : leases'[g] = leases[g]
      /\ \A g \in 1..(n + m) : g > n => leases'[g].holder = waiter
  BY GrantIssues
<1> HIDE DEF n, m
<1>3. G(waiter) = {}
  <2>1. IsFiniteSet(G(waiter))
    BY <1>0, FS_Interval, FS_Subset
  <2>2. Cardinality(G(waiter)) = 0
    BY <1>0 DEF GrantInv, GrantsAllOrNothing, Active
  <2> QED  BY <2>1, <2>2, FS_EmptySet
<1>4. H(waiter) = (n + 1)..(n + m)
  <2>1. \A g \in 1..n : leases'[g].holder # waiter
    BY <1>0, <1>2, <1>3
  <2>2. \A g \in 1..(n + m) : g \in 1..n \/ (g > n /\ g \in (n + 1)..(n + m))
    BY <1>0
  <2>3. \A g \in (n + 1)..(n + m) : g \in 1..(n + m) /\ g > n
    BY <1>0
  <2> QED  BY <1>2, <2>1, <2>2, <2>3
<1>5. Cardinality(H(waiter)) = m
  <2>1. n + 1 \in Int /\ n + m \in Int
        /\ (IF n + 1 > n + m THEN 0 ELSE (n + m) - (n + 1) + 1) = m
    BY <1>0
  <2> QED  BY <1>4, <2>1, FS_Interval
<1>6. ASSUME NEW r \in Requests, r # waiter PROVE H(r) = G(r)
  <2>1. \A g \in 1..(n + m) : g \in 1..n \/ g > n
    BY <1>0
  <2>2. \A g \in 1..n : g \in 1..(n + m)
    BY <1>0
  <2> QED  BY <1>0, <1>2, <1>6, <2>1, <2>2
<1> HIDE DEF G, H
<1>7. ASSUME NEW r \in Requests
      PROVE  Cardinality(H(r)) = IF status'[r] = "granted" THEN count'[r] ELSE 0
  <2>1. Cardinality(G(r)) = IF status[r] = "granted" THEN count[r] ELSE 0
    BY DEF G, GrantInv, GrantsAllOrNothing
  <2> QED  BY <1>0, <1>1, <1>5, <1>6, <2>1
<1> QED  BY <1>7 DEF GrantsAllOrNothing, H

\* The request of a grant keeps the number it asked for from the moment its
\* candidates were taken.
LEMMA GrantInvStep ==
  PoolInv /\ GrantInv /\ [Next]_vars => GrantInv'
<1> SUFFICES ASSUME PoolInv, GrantInv, [Next]_vars PROVE GrantInv'
  OBVIOUS
<1> USE DEF PoolInv, loopVars
<1>0. TypeOK
  OBVIOUS
<1>1. CASE UNCHANGED vars
  BY <1>1 DEF vars, GrantInv, GrantsAllOrNothing
<1>2. CASE Next
  <2>1. GrantsAllOrNothing'
    <3>1. CASE ~ResumeGrants
      <4>1. ASSUME NEW r \in Requests
            PROVE  Cardinality({g \in DOMAIN leases' : leases'[g].holder = r}) =
                     IF status'[r] = "granted" THEN count'[r] ELSE 0
        <5>1. {g \in DOMAIN leases' : leases'[g].holder = r} =
              {g \in DOMAIN leases : leases[g].holder = r}
          BY <1>2, <3>1, OnlyGrantsGive
        <5>2. /\ (status'[r] = "granted") <=> (status[r] = "granted")
              /\ status[r] # "new" => count'[r] = count[r]
          BY <1>2, <3>1, OnlyGrantsGive
        <5> QED  BY <5>1, <5>2 DEF GrantInv, GrantsAllOrNothing
      <4> QED  BY <4>1 DEF GrantsAllOrNothing
    <3> QED  BY <3>1, GrantGivesAll
  <2>2. ASSUME dpc' = "await"
        PROVE  Len(candidates') = count'[waiter'] /\ status'[waiter'] # "new"
    <3>0. ~ResumeGrants
      BY <2>2 DEF ResumeGrants
    <3>1. CASE UNCHANGED loopVars
      <4>1. waiter \in Requests /\ dpc = "await"
        BY <2>2, <3>1 DEF LoopLocals
      <4>2. /\ status[waiter] # "new"
            /\ status'[waiter] # "new" /\ count'[waiter] = count[waiter]
        BY <1>2, <3>0, <4>1, OnlyGrantsGive DEF GrantInv
      <4> QED  BY <3>1, <4>1, <4>2 DEF GrantInv
    <3>2. CASE LoopTakes
      <4> DEFINE r == Head(waiters)
      <4>1. r \in Requests /\ r = waiters[1] /\ 1 \in DOMAIN waiters
        BY <1>0, <3>2, HeadTailProperties, EmptySeq
        DEF LoopTakes, ServableHead, AtHead, TypeOK
      <4>2. status[r] = "waiting"
        BY <4>1 DEF ListsAgree, WaitersListed, Elements, Active
      <4>3. /\ waiter' = r /\ candidates' = SubSeq(idle, 1, count[r])
            /\ count[r] <= Len(idle) /\ UNCHANGED <<status, count>>
        BY <3>2 DEF LoopTakes, requestVars
      <4>4. count[r] \in Nat /\ idle \in Seq(Slots)
        BY <1>0, <4>1, BoundsAssumption DEF TypeOK
      <4> HIDE DEF r
      <4>5. Len(SubSeq(idle, 1, count[r])) = count[r]
        BY <4>3, <4>4, SubSeqProperties
      <4> QED  BY <4>2, <4>3, <4>5
    <3> QED  BY <1>2, <2>2, <3>1, <3>2, AwaitStarts
  <2> QED  BY <2>1, <2>2 DEF GrantInv
<1> QED  BY <1>1, <1>2

\* A new pool has granted nothing.
LEMMA GrantInvInit == Init => GrantInv
<1> SUFFICES ASSUME Init PROVE GrantInv
  OBVIOUS
<1>1. DOMAIN leases = {} /\ dpc # "await"
  BY DEF Init
<1>2. \A r \in Requests : status[r] # "granted"
  BY DEF Init
<1> QED  BY <1>1, <1>2, FS_EmptySet DEF GrantInv, GrantsAllOrNothing

\* acquire(N) is atomic whatever interrupts the validation of its candidates:
\* N leases or none (#dispatch between takeIdle and the grant).
THEOREM GrantsAreAtomic == Spec => []GrantsAllOrNothing
<1>1. GrantInv => GrantsAllOrNothing
  BY DEF GrantInv
<1> QED  BY <1>1, GrantInvInit, GrantInvStep, PoolInvariant, PTL DEF Spec

(***************************************************************************)
(* Shutdown                                                                *)
(***************************************************************************)
\* The invariant behind an honest shutdown: what the promise of close() may
\* be in each state, and what is left to wait for.
EndInv ==
  /\ state = "open" => shutdown = None
  /\ Draining(state) =>
       /\ shutdown \in {"pending", "rejected"} /\ ~Emptied(conn)
       /\ Unaccounted(conn, op) => shutdown = "rejected"
  /\ state = "closed" => shutdown \in {"resolved", "rejected"} /\ Emptied(conn)
  /\ state # "open" => waiters = <<>>
  /\ ShutdownSignalsAll

\* After the shutdown nobody waits.
LEMMA NobodyWaits ==
  ASSUME PoolInv, EndInv, state # "open"
  PROVE  \A r \in Requests : ~Active(r)
BY DEF PoolInv, EndInv, ListsAgree, WaitersListed, Elements

\* A call in flight after the shutdown has already been told to abort.
Unsignalled == {s \in Slots : conn[s] \in Interrupted /\ op[s] = "running"}

\* No call in flight escaped the signal: the same fact as a set that is empty.
LEMMA UnsignalledNone ==
  ShutdownSignalsAll <=> (state # "open" => Unsignalled = {})
BY DEF ShutdownSignalsAll, Unsignalled, Interrupted, In

\* While the pool is open there is no promise to keep.
LEMMA OpenEnds ==
  ASSUME EndInv, state = "open", UNCHANGED endVars \/ CheckClosed(state, shutdown)
  PROVE  EndInv'
BY DEF EndInv, CheckClosed, Draining, endVars, ShutdownSignalsAll

\* #checkClosed keeps the promise: it fails it for what cannot be accounted
\* for, and fulfils it when nothing is left.
LEMMA CheckClosedEnds ==
  ASSUME TypeOK, EndInv, state # "open", CheckClosed(state, shutdown),
         state = "closed" => Emptied(conn'), waiters' = waiters,
         \A s \in Slots : conn'[s] \in Interrupted /\ op'[s] = "running"
                            => conn[s] \in Interrupted /\ op[s] = "running"
  PROVE  EndInv'
<1>1. Unsignalled' = {}
  BY UnsignalledNone DEF Unsignalled, EndInv
<1>2. ShutdownSignalsAll'
  BY <1>1 DEF ShutdownSignalsAll, Unsignalled, Interrupted, In
<1>3. Emptied(conn') => ~Unaccounted(conn', op')
  BY DEF Emptied, Unaccounted
<1>4. state \in {"retiring", "closing", "closed"}
  BY DEF TypeOK
<1> QED  BY <1>2, <1>3, <1>4 DEF EndInv, CheckClosed, Draining

\* Nor does a step matter that neither frees a place nor loses a connection.
LEMMA EndFrame ==
  ASSUME TypeOK, EndInv, state # "open", UNCHANGED endVars, waiters' = waiters,
         Emptied(conn') <=> Emptied(conn),
         Unaccounted(conn', op') => Unaccounted(conn, op),
         \A s \in Slots : conn'[s] \in Interrupted /\ op'[s] = "running"
                            => conn[s] \in Interrupted /\ op[s] = "running"
  PROVE  EndInv'
<1>1. Unsignalled' = {}
  BY UnsignalledNone DEF Unsignalled, EndInv
<1>2. ShutdownSignalsAll'
  BY <1>1 DEF ShutdownSignalsAll, Unsignalled, Interrupted, In
<1>3. state' = state /\ shutdown' = shutdown
  BY DEF endVars
<1> QED  BY <1>2, <1>3 DEF EndInv

\* One connection changes its state without being freed or lost.
LEMMA EndMove ==
  ASSUME TypeOK, EndInv, state # "open", UNCHANGED endVars, waiters' = waiters,
         NEW s \in Slots, conn[s] # "free", conn'[s] # "free",
         \A x \in Slots \ {s} : conn'[x] = conn[x] /\ op'[x] = op[x],
         ~(conn'[s] = "creating" /\ op'[s] = "overrun"),
         conn'[s] = "closing" => op'[s] = "running",
         conn'[s] \in Interrupted => op'[s] # "running"
  PROVE  EndInv'
<1>1. Emptied(conn') <=> Emptied(conn)
  BY DEF Emptied
<1>2. Unaccounted(conn', op') => Unaccounted(conn, op)
  BY DEF Unaccounted
<1>3. \A x \in Slots : conn'[x] \in Interrupted /\ op'[x] = "running"
                         => conn[x] \in Interrupted /\ op[x] = "running"
  OBVIOUS
<1> QED  BY <1>1, <1>2, <1>3, EndFrame

\* What the borrowers do.
LEMMA BorrowsEnds ==
  ASSUME PoolInv, EndInv, state # "open", NEW g \in DOMAIN leases, Borrows(g)
  PROVE  EndInv'
<1> USE DEF PoolInv, endVars, connVars, requestVars
<1>0. TypeOK /\ leases[g].slot \in Slots
  BY LeaseUpdate DEF Lease
<1>1. CASE CallStarts(g) \/ CallEnds(g)
  BY <1>0, <1>1, EndFrame DEF CallStarts, CallEnds
<1>2. CASE LeaseResetSettles(g)
  <2>1. leases[g].active /\ conn[leases[g].slot] = "resetting"
    BY <1>2 DEF LeaseResetSettles, LeaseExclusive, None
  <2>2. /\ conn'[leases[g].slot] = "leased" /\ UNCHANGED <<endVars, waiters>>
        /\ \A x \in Slots \ {leases[g].slot} : conn'[x] = conn[x] /\ op'[x] = op[x]
    BY <1>0, <1>2 DEF LeaseResetSettles, TypeOK
  <2> QED  BY <1>0, <2>1, <2>2, EndMove DEF Interrupted
<1>3. ASSUME NEW reusable \in BOOLEAN, NEW k \in ReleaseCaps \cup {NoCap},
             Release(g, reusable, k)
      PROVE  EndInv'
  <2>1. conn[leases[g].slot] = "leased"
    BY <1>3 DEF Release, Usable, LeaseExclusive, None
  <2>2. /\ Destroy(leases[g].slot) /\ UNCHANGED <<endVars, waiters>>
    BY <1>3 DEF Release, ReleaseEvicts
  <2>3. /\ conn'[leases[g].slot] = "closing" /\ op'[leases[g].slot] = "running"
        /\ \A x \in Slots \ {leases[g].slot} : conn'[x] = conn[x] /\ op'[x] = op[x]
    BY <1>0, <2>2 DEF Destroy, TypeOK
  <2> QED  BY <1>0, <2>1, <2>2, <2>3, EndMove DEF Interrupted
<1>4. ~LeaseResetStarts(g)
  BY DEF LeaseResetStarts
<1> QED  BY <1>1, <1>2, <1>3, <1>4 DEF Borrows

\* The factory's callbacks.
LEMMA SettlesEnds ==
  ASSUME PoolInv, EndInv, state # "open", NEW s \in Slots, Settles(s)
  PROVE  EndInv'
<1> USE DEF PoolInv, endVars, connVars, requestVars, Interrupted
<1>0. TypeOK /\ (state = "closed" => conn[s] = "free")
  BY DEF EndInv, Emptied
<1>9. \A x \in Slots : conn[x] \in Interrupted => op[x] # "running"
  BY UnsignalledNone DEF EndInv, Unsignalled
<1>1. CASE CreateSucceeds(s)
  <2>1. op[s] # "running" /\ conn[s] = "creating"
    BY <1>1, <1>9 DEF CreateSucceeds
  <2>2. Destroy(s) /\ waiters' = waiters /\ CheckClosed(state, shutdown)
    BY <1>1, <2>1 DEF CreateSucceeds, StillWanted
  <2>3. \A x \in Slots : conn'[x] \in Interrupted /\ op'[x] = "running"
                           => conn[x] \in Interrupted /\ op[x] = "running"
    BY <1>0, <2>2 DEF Destroy, TypeOK
  <2> QED  BY <1>0, <2>1, <2>2, <2>3, CheckClosedEnds
<1>2. CASE CreateFails(s)
  <2> DEFINE o == [op EXCEPT ![s] = None]
  <2>1. op' = o /\ waiters' = waiters /\ conn[s] = "creating"
        /\ CheckClosed(state, shutdown)
    <3>1. owner[s] # None => owner[s] \in Requests
      BY <1>0 DEF TypeOK
    <3>2. ~(owner[s] # None /\ Active(owner[s]))
      BY <3>1, NobodyWaits
    <3> QED  BY <1>2, <3>2 DEF CreateFails, RejectOwner
  <2>2. \A x \in Slots : conn'[x] \in Interrupted /\ op'[x] = "running"
                           => conn[x] \in Interrupted /\ op[x] = "running"
    BY <1>0, <1>2, <2>1 DEF CreateFails, TypeOK, None
  <2> QED  BY <1>0, <2>1, <2>2, CheckClosedEnds
<1>3. CASE CreateExpires(s)
  <2>1. op' = [op EXCEPT ![s] = "overrun"] /\ waiters' = waiters
        /\ conn[s] = "creating" /\ conn' = conn /\ CheckClosed(state, shutdown)
    <3>1. owner[s] # None => owner[s] \in Requests
      BY <1>0 DEF TypeOK
    <3>2. ~(owner[s] # None /\ Active(owner[s]))
      BY <3>1, NobodyWaits
    <3> QED  BY <1>3, <3>2 DEF CreateExpires, RejectOwner
  <2>2. \A x \in Slots : conn'[x] \in Interrupted /\ op'[x] = "running"
                           => conn[x] \in Interrupted /\ op[x] = "running"
    BY <1>0, <2>1 DEF TypeOK
  <2> QED  BY <1>0, <2>1, <2>2, CheckClosedEnds
<1>4. ASSUME NEW outcome \in {"healthy", "unhealthy", "timedout"},
             ValidateSettles(s, outcome)
      PROVE  EndInv'
  <2>1. /\ conn[s] = "validating" /\ conn' = conn /\ op'[s] = outcome
        /\ \A x \in Slots \ {s} : op'[x] = op[x]
        /\ UNCHANGED <<endVars, waiters>>
    BY <1>0, <1>4 DEF ValidateSettles, TypeOK
  <2> QED  BY <1>0, <2>1, EndMove
<1>5. CASE ReleaseResetSucceeds(s) \/ ReleaseResetFails(s)
  <2>1. conn[s] = "resetting"
    BY <1>5 DEF ReleaseResetSucceeds, ReleaseResetFails, ResetsOwned
  <2>2. Destroy(s) /\ UNCHANGED <<endVars, waiters>>
    BY <1>5 DEF ReleaseResetSucceeds, ReleaseResetFails
  <2>3. /\ conn'[s] = "closing" /\ op'[s] = "running"
        /\ \A x \in Slots \ {s} : conn'[x] = conn[x] /\ op'[x] = op[x]
    BY <1>0, <2>2 DEF Destroy, TypeOK
  <2> QED  BY <1>0, <2>1, <2>2, <2>3, EndMove
<1>6. CASE ReleaseResumes(s)
  <2>1. UNCHANGED <<conn, op, waiters>> /\ CheckClosed(state, shutdown)
    BY <1>6 DEF ReleaseResumes
  <2> QED  BY <1>0, <2>1, CheckClosedEnds DEF EndInv
<1>7. CASE DestroySucceeds(s)
  <2>1. conn[s] = "closing" /\ waiters' = waiters /\ CheckClosed(state, shutdown)
    BY <1>7 DEF DestroySucceeds
  <2>2. \A x \in Slots : conn'[x] \in Interrupted /\ op'[x] = "running"
                           => conn[x] \in Interrupted /\ op[x] = "running"
    BY <1>0, <1>7 DEF DestroySucceeds, TypeOK
  <2> QED  BY <1>0, <2>1, <2>2, CheckClosedEnds
<1>8. ASSUME NEW end \in {"failed", "overrun"}, DestroyFails(s, end)
      PROVE  EndInv'
  <2>1. conn[s] = "closing" /\ conn' = conn /\ waiters' = waiters
        /\ CheckClosed(state, shutdown)
    BY <1>8 DEF DestroyFails
  <2>2. \A x \in Slots : conn'[x] \in Interrupted /\ op'[x] = "running"
                           => conn[x] \in Interrupted /\ op[x] = "running"
    BY <1>0, <1>8, <2>1 DEF DestroyFails, TypeOK
  <2> QED  BY <1>0, <2>1, <2>2, CheckClosedEnds
<1>10. CASE DestroyFailsLate(s)
  <2>1. /\ conn[s] = "closing" /\ op[s] = "overrun" /\ op'[s] = "failed"
        /\ \A x \in Slots \ {s} : op'[x] = op[x]
        /\ UNCHANGED <<conn, endVars, waiters>>
    BY <1>0, <1>10 DEF DestroyFailsLate, TypeOK
  <2>2. Unaccounted(conn', op') => Unaccounted(conn, op)
    BY <2>1 DEF Unaccounted
  <2>3. \A x \in Slots : conn'[x] \in Interrupted /\ op'[x] = "running"
                           => conn[x] \in Interrupted /\ op[x] = "running"
    BY <2>1
  <2> QED  BY <1>0, <2>1, <2>2, <2>3, EndFrame
<1> QED  BY <1>1, <1>2, <1>3, <1>4, <1>5, <1>6, <1>7, <1>8, <1>10 DEF Settles

\* The dispatch loop, which stops at the next look at the state.
LEMMA DispatchesEnds ==
  ASSUME PoolInv, EndInv, state # "open", Dispatches
  PROVE  EndInv'
<1> USE DEF PoolInv, endVars, connVars, requestVars, loopVars
<1>0. TypeOK
  OBVIOUS
<1>1. CASE PumpTick \/ DispatchEnds \/ LoopStops \/ ResumeRollsBack
  BY <1>0, <1>1, EndFrame
  DEF PumpTick, DispatchEnds, LoopStops, ResumeRollsBack
<1>2. CASE RollsBack
  <2> DEFINE s == Head(candidates)
  <2>1. s \in Slots /\ conn[s] = "validating"
    <3>1. candidates \in Seq(Slots) /\ candidates # <<>>
      BY <1>0, <1>2 DEF RollsBack, TypeOK
    <3>2. s = candidates[1] /\ 1 \in DOMAIN candidates
      BY <3>1, EmptySeq, HeadTailProperties
    <3> QED  BY <3>1, <3>2 DEF ListsAgree, CandidatesListed, Elements, In
  <2>2. ReturnToPool(s, cap[s]) \/ Destroy(s)
    BY <1>2 DEF RollsBack
  <2>3. UNCHANGED <<endVars, waiters>>
    BY <1>2 DEF RollsBack
  <2> HIDE DEF s
  <2>4. /\ conn'[s] = "closing" /\ op'[s] = "running"
        /\ \A x \in Slots \ {s} : conn'[x] = conn[x] /\ op'[x] = op[x]
    BY <1>0, <2>1, <2>2 DEF ReturnToPool, Keeps, Destroy, TypeOK
  <2> QED  BY <1>0, <2>1, <2>3, <2>4, EndMove DEF Interrupted
<1>3. CASE RolledBack
  <2>1. UNCHANGED <<conn, op, waiters>> /\ CheckClosed(state, shutdown)
    BY <1>3 DEF RolledBack
  <2> QED  BY <1>0, <2>1, CheckClosedEnds DEF EndInv
<1>4. CASE RefusesWaiter
  <2>1. waiter \in Requests
    BY <1>4 DEF RefusesWaiter, LoopLocals
  <2>2. ~Active(waiter)
    BY <2>1, NobodyWaits
  <2>3. UNCHANGED <<conn, op, waiters, endVars>>
    BY <1>4, <2>2 DEF RefusesWaiter
  <2> QED  BY <1>0, <2>3, EndFrame
<1> QED  BY <1>1, <1>2, <1>3, <1>4
         DEF Dispatches, LoopTrims, LoopCreates, LoopReturns, LoopRejects,
             LoopTakes, ResumeRejects, ResumeGrants, AtHead, AtRest,
             ServableHead, Grantable, StillHead

\* close(), drain() and retire() signal what is in flight, and settle at once
\* when there is nothing to wait for.
LEMMA ShutdownEnds ==
  ASSUME PoolInv, EndInv, Ends
  PROVE  EndInv'
<1> USE DEF PoolInv, endVars, connVars, requestVars
<1>0. TypeOK
  OBVIOUS
<1>1. ASSUME NEW target \in {"retiring", "closing"}, Shutdown(target)
      PROVE  EndInv'
  <2>1. waiters' = <<>> /\ CheckClosed(target, "pending")
    BY <1>1 DEF Shutdown
  <2>2. ShutdownSignalsAll'
    <3>1. ASSUME NEW s \in Slots, conn'[s] \in Interrupted
          PROVE  op'[s] # "running"
      <4>1. conn'[s] = IF conn[s] = "idle" THEN "closing" ELSE conn[s]
        BY <1>0, <1>1 DEF Shutdown
      <4>2. conn[s] \in Interrupted /\ conn[s] # "idle"
        BY <3>1, <4>1 DEF Interrupted
      <4>3. op'[s] = CASE conn[s] = "idle" -> "running"
                       [] conn[s] \in Interrupted /\ op[s] = "running" -> "signalled"
                       [] OTHER -> op[s]
        BY <1>1 DEF Shutdown
      <4> HIDE DEF Interrupted
      <4>4. CASE op[s] = "running"
        BY <4>2, <4>3, <4>4
      <4>5. CASE op[s] # "running"
        BY <4>2, <4>3, <4>5
      <4> QED  BY <4>4, <4>5
    <3> QED  BY <3>1 DEF ShutdownSignalsAll, Interrupted, In
  <2>3. Emptied(conn') => ~Unaccounted(conn', op')
    BY DEF Emptied, Unaccounted
  <2> QED  BY <2>1, <2>2, <2>3 DEF EndInv, CheckClosed, Draining
<1>2. CASE Escalate
  BY <1>2 DEF Escalate, EndInv, Draining, ShutdownSignalsAll, In
<1>3. CASE ShutdownTimeout
  BY <1>3 DEF ShutdownTimeout, EndInv, Draining, ShutdownSignalsAll, In, None
<1> QED  BY <1>1, <1>2, <1>3 DEF Ends

\* Every step keeps the promises of the shutdown.
LEMMA EndInvStep ==
  PoolInv /\ EndInv /\ [Next]_vars => EndInv'
<1> SUFFICES ASSUME PoolInv, EndInv, [Next]_vars PROVE EndInv'
  OBVIOUS
<1> USE DEF PoolInv, endVars, connVars, requestVars
<1>0. TypeOK
  OBVIOUS
<1>1. CASE UNCHANGED vars
  BY <1>1
  DEF vars, EndInv, Draining, Emptied, Unaccounted, ShutdownSignalsAll, In
<1>2. CASE Next
  <2>1. CASE state = "open"
    <3>1. CASE Ends
      BY <3>1, ShutdownEnds
    <3>2. CASE ~Ends
      <4>1. ASSUME NEW r \in Requests, Asks(r) PROVE UNCHANGED endVars
        BY <4>1
        DEF Asks, Acquire, AcquireRefused, AbortRequest, DeadlinePasses,
            TimeoutFires
      <4>2. ASSUME NEW g \in DOMAIN leases, Borrows(g) PROVE UNCHANGED endVars
        BY <4>2
        DEF Borrows, CallStarts, CallEnds, LeaseResetStarts, LeaseResetSettles,
            Release
      <4>3. ASSUME NEW s \in Slots, Settles(s)
            PROVE  UNCHANGED endVars \/ CheckClosed(state, shutdown)
        BY <4>3
        DEF Settles, CreateSucceeds, CreateFails, CreateExpires, ValidateSettles,
            ReleaseResetSucceeds, ReleaseResetFails, ReleaseResumes,
            DestroySucceeds, DestroyFails, DestroyFailsLate
      <4>4. ASSUME Dispatches
            PROVE  UNCHANGED endVars \/ CheckClosed(state, shutdown)
        BY <4>4
        DEF Dispatches, PumpTick, DispatchEnds, LoopStops, LoopTrims, LoopCreates,
            LoopReturns, LoopRejects, LoopTakes, ResumeRollsBack, ResumeRejects,
            ResumeGrants, RollsBack, RolledBack, RefusesWaiter
      <4> QED  BY <1>2, <2>1, <3>2, <4>1, <4>2, <4>3, <4>4, OpenEnds DEF Next
    <3> QED  BY <3>1, <3>2
  <2>2. CASE state # "open"
    <3>1. ASSUME NEW r \in Requests, Asks(r) PROVE EndInv'
      <4>1. ~Active(r)
        BY <2>2, NobodyWaits
      <4>2. UNCHANGED <<conn, op, waiters, endVars>>
        BY <2>2, <3>1, <4>1
        DEF Asks, Acquire, AcquireRefused, AbortRequest, DeadlinePasses,
            TimeoutFires
      <4> QED  BY <1>0, <2>2, <4>2, EndFrame
    <3> QED  BY <1>2, <2>2, <3>1, BorrowsEnds, SettlesEnds, DispatchesEnds,
                ShutdownEnds
             DEF Next
  <2> QED  BY <2>1, <2>2
<1> QED  BY <1>1, <1>2

\* An open pool has promised nothing.
LEMMA EndInvInit == Init => EndInv
BY DEF Init, EndInv, Draining, ShutdownSignalsAll

\* A shutdown reaches the calls in flight, notices the last connection to go,
\* and claims no closure that did not happen (#beginShutdown, #checkClosed,
\* #failClose).
THEOREM ShutdownsAreHonest == Spec => []ShutdownHonest
<1>1. PoolInv /\ EndInv => ShutdownHonest
  <2> SUFFICES ASSUME PoolInv, EndInv PROVE ShutdownHonest
    OBVIOUS
  <2>1. DrainNoticed
    BY DEF EndInv, DrainNoticed, Draining, Emptied, Unaccounted
  <2>2. ClosureHonest
    <3>1. shutdown = "resolved" => state = "closed"
      BY DEF EndInv, PoolInv, TypeOK, Draining, None
    <3>2. ASSUME state = "closed", NEW g \in DOMAIN leases PROVE ~leases[g].active
      <4>1. leases[g].slot \in Slots /\ conn[leases[g].slot] = "free"
        BY <3>2, LeaseUpdate DEF EndInv, Emptied, PoolInv, Lease
      <4> QED  BY <4>1 DEF PoolInv, LeaseExclusive
    <3> QED  BY <3>1, <3>2 DEF EndInv, ClosureHonest, Emptied
  <2> QED  BY <2>1, <2>2 DEF EndInv, ShutdownHonest
<1> QED  BY <1>1, EndInvInit, EndInvStep, PoolInvariant, PTL DEF Spec

(***************************************************************************)
(* Wake-ups                                                                *)
(***************************************************************************)
\* The dispatch has found nothing to do, and nothing has happened since that
\* would make it look again.
Asleep ==
  /\ state = "open"
  /\ \/ dpc = "off" /\ ~pumpScheduled
     \/ dpc = "return" /\ ~pumpAgain
  /\ \A s \in Slots : \/ release[s] \in {None, "resetting"}
                      \/ conn[s] \in {"leased", "resetting"}

\* A resetActiveLease() is what can make the sleeping pool miss its chance: its
\* connection counted as one that may come back, and then did not.
Borrowed == In({"resetting", "leased"})
Returnable(wanted) ==
  /\ LeaseResets
  /\ Len(idle) + Cardinality(LiveCreations) + Cardinality(Borrowed) >= wanted

Enough ==
  IF waiters # <<>>
  THEN /\ Len(idle) < count[Head(waiters)]
       /\ MayCreate(count[Head(waiters)]) => Returnable(count[Head(waiters)])
  ELSE /\ Len(idle) <= IdleHigh /\ \A i \in DOMAIN idle : cap[idle[i]] = NoCap
       /\ Refills => Returnable(LowWater)

WakeInv ==
  /\ Asleep => Enough
  /\ \A g \in DOMAIN leases : leases[g].busy = "reset" => LeaseResets

\* What counts as available is a number, and a borrowed connection that is not
\* reset is missing from it.
LEMMA AvailableCounts ==
  ASSUME TypeOK
  PROVE  /\ Capacity \in Nat /\ ExpectedAvailable \in Nat
         /\ Len(idle) \in Nat /\ Cardinality(LiveCreations) \in Nat
         /\ Cardinality(Borrowed) \in Nat /\ Cardinality(In({"resetting"})) \in Nat
         /\ Cardinality(In({"resetting"})) <= Cardinality(Borrowed)
         /\ Cardinality(In({"resetting"})) < Cardinality(Borrowed)
              => In({"leased"}) # {}
<1>1. /\ IsFiniteSet(Slots \ In({"free"})) /\ IsFiniteSet(LiveCreations)
      /\ IsFiniteSet(Borrowed) /\ IsFiniteSet(In({"resetting"}))
  <2>1. /\ (Slots \ In({"free"})) \subseteq Slots /\ LiveCreations \subseteq Slots
        /\ Borrowed \subseteq Slots /\ In({"resetting"}) \subseteq Slots
    BY DEF LiveCreations, Borrowed, In
  <2> QED  BY <2>1, SetsAssumption, FS_Subset
<1>2. /\ Cardinality(Slots \ In({"free"})) \in Nat
      /\ Cardinality(LiveCreations) \in Nat /\ Cardinality(Borrowed) \in Nat
      /\ Cardinality(In({"resetting"})) \in Nat
  BY <1>1, FS_CardinalityType
<1>3. In({"resetting"}) \in SUBSET Borrowed
  BY DEF Borrowed, In
<1>4. Cardinality(In({"resetting"})) <= Cardinality(Borrowed)
  BY <1>1, <1>3, FS_Subset
<1>5. In({"leased"}) = {} => Borrowed = In({"resetting"})
  BY DEF Borrowed, In
<1>6. Len(idle) \in Nat
  BY DEF TypeOK
<1> QED  BY <1>2, <1>4, <1>5, <1>6 DEF Capacity, ExpectedAvailable

\* While the pool sleeps, connections only move between their borrowers and
\* their resets; a reset that ends without waking the pool is a borrower's.
LEMMA WakeFrame ==
  ASSUME PoolInv, Enough,
         waiters' = waiters, idle' = idle, lowWaterBlocked' = lowWaterBlocked,
         \A r \in Requests : Active(r) => count'[r] = count[r],
         \A s \in In({"idle"}) : cap'[s] = cap[s],
         In({"free"})' = In({"free"}), LiveCreations' = LiveCreations,
         Borrowed' = Borrowed,
         In({"resetting"}) \subseteq In({"resetting"})' \/ LeaseResets,
         TypeOK'
  PROVE  Enough'
<1>0. TypeOK /\ idle \in Seq(Slots) /\ LowWater \in Int
  <2>1. TypeOK
    BY DEF PoolInv
  <2>2. idle \in Seq(Slots)
    BY <2>1 DEF TypeOK
  <2>3. LowWater \in Int
    BY BoundsAssumption
  <2> QED  BY <2>1, <2>2, <2>3
<1>1. Capacity' = Capacity
  BY DEF Capacity
<1>7. Cardinality(In({"resetting"})') \in Nat
  <2>1. In({"resetting"})' \in SUBSET Slots
    BY DEF In
  <2> QED  BY <2>1, SetsAssumption, FS_Subset, FS_CardinalityType
<1>2. ExpectedAvailable' >= ExpectedAvailable \/ LeaseResets
  <2>1. ASSUME In({"resetting"}) \subseteq In({"resetting"})'
        PROVE  Cardinality(In({"resetting"})) <= Cardinality(In({"resetting"})')
    <3>1. In({"resetting"})' \subseteq Slots
      BY DEF In
    <3> QED  BY <2>1, <3>1, SetsAssumption, FS_Subset
  <2>2. /\ Len(idle) \in Nat /\ Cardinality(LiveCreations) \in Nat
        /\ Cardinality(In({"resetting"})) \in Nat
        /\ Cardinality(In({"resetting"})') \in Nat
    BY <1>0, <1>7, AvailableCounts
  <2> QED  BY <2>1, <2>2 DEF ExpectedAvailable
<1>3. /\ Capacity \in Nat /\ ExpectedAvailable \in Nat /\ ExpectedAvailable' \in Nat
      /\ ExpectedAvailable
           <= Len(idle) + Cardinality(LiveCreations) + Cardinality(Borrowed)
      /\ Len(idle) + Cardinality(LiveCreations) + Cardinality(Borrowed) \in Nat
  <2>1. /\ Len(idle) \in Nat /\ Cardinality(LiveCreations) \in Nat
        /\ Cardinality(Borrowed) \in Nat /\ Cardinality(In({"resetting"})) \in Nat
        /\ Cardinality(In({"resetting"})) <= Cardinality(Borrowed)
        /\ Capacity \in Nat /\ ExpectedAvailable \in Nat
    BY <1>0, AvailableCounts
  <2>2. /\ ExpectedAvailable =
             Len(idle) + Cardinality(LiveCreations) + Cardinality(In({"resetting"}))
        /\ ExpectedAvailable' =
             Len(idle) + Cardinality(LiveCreations) + Cardinality(In({"resetting"})')
    BY DEF ExpectedAvailable
  <2> QED  BY <1>7, <2>1, <2>2
<1>4. ASSUME NEW w \in Int, MayCreate(w) => Returnable(w),
             ExpectedAvailable' < w, Capacity' < MaxConnections
      PROVE  /\ LeaseResets
             /\ Len(idle) + Cardinality(LiveCreations) + Cardinality(Borrowed) >= w
  <2>1. CASE ExpectedAvailable < w
    BY <1>1, <1>4, <2>1 DEF MayCreate, Returnable
  <2>2. CASE ~(ExpectedAvailable < w)
    BY <1>2, <1>3, <1>4, <2>2
  <2> QED  BY <2>1, <2>2
<1>5. CASE waiters # <<>>
  <2> DEFINE r == Head(waiters)
  <2>1. r \in Requests /\ r = waiters[1] /\ 1 \in DOMAIN waiters
    BY <1>0, <1>5, HeadTailProperties, EmptySeq DEF TypeOK
  <2>2. Active(r)
    BY <2>1 DEF PoolInv, ListsAgree, WaitersListed, Elements
  <2>3. count'[r] = count[r] /\ count[r] \in Int
    BY <1>0, <2>1, <2>2, BoundsAssumption DEF TypeOK
  <2>4. Len(idle) < count[r] /\ (MayCreate(count[r]) => Returnable(count[r]))
    BY <1>5 DEF Enough
  <2> HIDE DEF r
  <2>5. /\ Len(idle') < count'[r]
        /\ ExpectedAvailable' < count'[r] /\ Capacity' < MaxConnections =>
             /\ LeaseResets
             /\ Len(idle') + Cardinality(LiveCreations') + Cardinality(Borrowed')
                  >= count'[r]
    BY <1>4, <2>3, <2>4
  <2> QED  BY <1>5, <2>5 DEF Enough, MayCreate, Returnable, r
<1>6. CASE waiters = <<>>
  <2>1. /\ Len(idle) <= IdleHigh /\ \A i \in DOMAIN idle : cap[idle[i]] = NoCap
        /\ Refills => Returnable(LowWater)
    BY <1>6 DEF Enough
  <2>2. \A i \in DOMAIN idle : cap'[idle[i]] = NoCap
    <3>1. \A i \in DOMAIN idle : idle[i] \in In({"idle"})
      BY DEF PoolInv, ListsAgree, IdleListed, Elements
    <3> QED  BY <2>1, <3>1
  <2>3. CASE lowWaterBlocked
    BY <1>6, <2>1, <2>2, <2>3 DEF Enough, Refills
  <2>4. CASE ~lowWaterBlocked
    <3>1. ExpectedAvailable' < LowWater /\ Capacity' < MaxConnections =>
             /\ LeaseResets
             /\ Len(idle') + Cardinality(LiveCreations') + Cardinality(Borrowed')
                  >= LowWater
      BY <1>0, <1>4, <2>1, <2>4 DEF Refills
    <3> QED  BY <1>6, <2>1, <2>2, <3>1 DEF Enough, Refills, MayCreate, Returnable
  <2> QED  BY <2>3, <2>4
<1> QED  BY <1>5, <1>6

\* Whoever requests a pump wakes the pool, or makes the dispatch that is about
\* to return look again.
LEMMA PumpWakes ==
  ASSUME RequestPump, dpc' = dpc, state' = state \/ CheckClosed(state, shutdown)
  PROVE  ~Asleep'
BY DEF RequestPump, Asleep, CheckClosed, Draining

\* A borrower may only reset a connection where resets are in use.
ResetsAllowed == \A g \in DOMAIN leases : leases[g].busy = "reset" => LeaseResets

\* Only a borrower starts a reset under a lease, and only where that is in use.
LEMMA ResetsStayAllowed ==
  ASSUME PoolInv, ResetsAllowed, Next
  PROVE  ResetsAllowed'
<1> USE DEF PoolInv
<1>0. TypeOK
  OBVIOUS
<1>1. ASSUME UNCHANGED leases PROVE ResetsAllowed'
  BY <1>1 DEF ResetsAllowed
<1>2. ASSUME NEW g \in DOMAIN leases, Borrows(g) PROVE ResetsAllowed'
  <2>1. CASE CallStarts(g) \/ CallEnds(g) \/ LeaseResetSettles(g)
    <3>1. PICK b \in {None, "call"} : leases' = [leases EXCEPT ![g].busy = b]
      BY <2>1 DEF CallStarts, CallEnds, LeaseResetSettles
    <3>2. b # "reset"
      BY DEF None
    <3> QED  BY <1>0, <3>1, <3>2, LeaseUpdate DEF ResetsAllowed
  <2>2. CASE LeaseResetStarts(g)
    BY <2>2 DEF LeaseResetStarts, ResetsAllowed
  <2>3. ASSUME NEW reusable \in BOOLEAN, NEW k \in ReleaseCaps \cup {NoCap},
               Release(g, reusable, k)
        PROVE  ResetsAllowed'
    <3>1. leases' = [leases EXCEPT ![g].active = FALSE]
      BY <2>3 DEF Release
    <3> QED  BY <1>0, <3>1, LeaseUpdate DEF ResetsAllowed
  <2> QED  BY <1>2, <2>1, <2>2, <2>3 DEF Borrows
<1>3. CASE ResumeGrants
  <2>1. \A g \in DOMAIN leases' :
          \/ g \in DOMAIN leases /\ leases'[g] = leases[g]
          \/ leases'[g].busy = None
    <3>1. Len(leases) \in Nat /\ Len(candidates) \in Nat
          /\ DOMAIN leases = 1..Len(leases)
      BY <1>0 DEF TypeOK
    <3>2. \A g \in 1..(Len(leases) + Len(candidates)) :
            g > Len(leases) \/ g \in 1..Len(leases)
      BY <3>1
    <3> QED  BY <1>3, <3>1, <3>2, GrantIssues
  <2> QED  BY <2>1 DEF ResetsAllowed, None
<1>4. ASSUME NEW r \in Requests, Asks(r) PROVE UNCHANGED leases
  BY <1>4
  DEF Asks, Acquire, AcquireRefused, AbortRequest, DeadlinePasses, TimeoutFires
<1>5. ASSUME NEW s \in Slots, Settles(s) PROVE UNCHANGED leases
  BY <1>5
  DEF Settles, CreateSucceeds, CreateFails, CreateExpires, ValidateSettles,
      ReleaseResetSucceeds, ReleaseResetFails, ReleaseResumes, DestroySucceeds,
      DestroyFails, DestroyFailsLate
<1>6. CASE Dispatches /\ ~ResumeGrants
  BY <1>1, <1>6
  DEF Dispatches, PumpTick, DispatchEnds, LoopStops, LoopTrims, LoopCreates,
      LoopReturns, LoopRejects, LoopTakes, ResumeRollsBack, ResumeRejects,
      RollsBack, RolledBack, RefusesWaiter
<1>7. CASE Ends
  BY <1>1, <1>7 DEF Ends, Shutdown, Escalate, ShutdownTimeout
<1> QED  BY <1>1, <1>2, <1>3, <1>4, <1>5, <1>6, <1>7 DEF Next

\* What the borrowers do leaves a sleeping pool with nothing to do, or wakes
\* it.
LEMMA BorrowsWake ==
  ASSUME PoolInv, WakeInv, NEW g \in DOMAIN leases, Borrows(g), TypeOK', Asleep'
  PROVE  Enough'
<1> USE DEF PoolInv, endVars, connVars, requestVars, loopVars, pumpVars
<1> DEFINE s == leases[g].slot
<1>0. TypeOK /\ s \in Slots
  BY LeaseUpdate DEF Lease
<1>1. CASE CallStarts(g) \/ CallEnds(g)
  <2>1. Asleep
    BY <1>1 DEF CallStarts, CallEnds, Asleep
  <2>2. /\ UNCHANGED <<waiters, idle, lowWaterBlocked, count, cap, conn, op>>
    BY <1>1 DEF CallStarts, CallEnds
  <2>3. /\ In({"free"})' = In({"free"}) /\ LiveCreations' = LiveCreations
        /\ Borrowed' = Borrowed /\ In({"resetting"})' = In({"resetting"})
    BY <2>2 DEF In, LiveCreations, Borrowed
  <2> QED  BY <2>1, <2>2, <2>3, WakeFrame DEF WakeInv
<1>2. CASE LeaseResetStarts(g)
  <2>1. conn[s] = "leased"
    BY <1>2 DEF LeaseResetStarts, Usable, LeaseExclusive, None
  <2>2. /\ UNCHANGED <<waiters, idle, lowWaterBlocked, count, cap, state, dpc,
                       pumpScheduled, pumpAgain, release>>
        /\ conn'[s] = "resetting"
        /\ \A x \in Slots \ {s} : conn'[x] = conn[x] /\ op'[x] = op[x]
        /\ LeaseResets
    BY <1>0, <1>2 DEF LeaseResetStarts, TypeOK
  <2> HIDE DEF s
  <2>3. /\ In({"free"})' = In({"free"}) /\ LiveCreations' = LiveCreations
        /\ Borrowed' = Borrowed
    BY <1>0, <2>1, <2>2 DEF In, LiveCreations, Borrowed
  <2>4. Asleep
    BY <1>0, <2>1, <2>2 DEF Asleep
  <2> QED  BY <2>1, <2>2, <2>3, <2>4, WakeFrame DEF WakeInv
<1>3. CASE LeaseResetSettles(g)
  <2>1. conn[s] = "resetting" /\ LeaseResets
    BY <1>3 DEF LeaseResetSettles, LeaseExclusive, WakeInv, None
  <2>2. /\ UNCHANGED <<waiters, idle, lowWaterBlocked, count, cap, state, dpc,
                       pumpScheduled, pumpAgain, release>>
        /\ conn'[s] = "leased"
        /\ \A x \in Slots \ {s} : conn'[x] = conn[x] /\ op'[x] = op[x]
    BY <1>0, <1>3 DEF LeaseResetSettles, TypeOK
  <2> HIDE DEF s
  <2>3. /\ In({"free"})' = In({"free"}) /\ LiveCreations' = LiveCreations
        /\ Borrowed' = Borrowed
    BY <1>0, <2>1, <2>2 DEF In, LiveCreations, Borrowed
  <2>4. Asleep
    BY <1>0, <2>1, <2>2 DEF Asleep
  <2> QED  BY <2>1, <2>2, <2>3, <2>4, WakeFrame DEF WakeInv
<1>4. ASSUME NEW reusable \in BOOLEAN, NEW k \in ReleaseCaps \cup {NoCap},
             Release(g, reusable, k)
      PROVE  Enough'
  <2>0. conn[s] = "leased"
    BY <1>4 DEF Release, Usable, LeaseExclusive, None
  <2>1. ReleaseResets(g, s, k)
    <3>1. CASE ReleaseEvicts(g, s)
      <4>1. release'[s] = "destroying" /\ conn'[s] = "closing"
        BY <1>0, <3>1 DEF ReleaseEvicts, Destroy, TypeOK
      <4> QED  BY <1>0, <4>1 DEF Asleep, None
    <3>2. CASE ReleaseReturns(s, k)
      <4>1. /\ release'[s] \in {"resuming", "destroying"}
            /\ conn'[s] \in {"idle", "closing"}
        BY <1>0, <3>2 DEF ReleaseReturns, ReturnToPool, TypeOK
      <4> QED  BY <1>0, <4>1 DEF Asleep, None
    <3> QED  BY <1>4, <3>1, <3>2 DEF Release
  <2>2. /\ UNCHANGED <<waiters, idle, lowWaterBlocked, count, state, dpc,
                       pumpScheduled, pumpAgain>>
        /\ conn'[s] = "resetting" /\ release'[s] = "resetting"
        /\ \A x \in Slots \ {s} : /\ conn'[x] = conn[x] /\ op'[x] = op[x]
                                  /\ cap'[x] = cap[x] /\ release'[x] = release[x]
    BY <1>0, <1>4, <2>1 DEF Release, ReleaseResets, TypeOK
  <2> HIDE DEF s
  <2>5. Asleep
    BY <1>0, <2>0, <2>2 DEF Asleep
  <2>3. /\ In({"free"})' = In({"free"}) /\ LiveCreations' = LiveCreations
        /\ Borrowed' = Borrowed /\ In({"resetting"}) \subseteq In({"resetting"})'
        /\ \A x \in In({"idle"}) : cap'[x] = cap[x]
    BY <1>0, <2>0, <2>2 DEF In, LiveCreations, Borrowed
  <2> QED  BY <2>2, <2>3, <2>5, WakeFrame DEF WakeInv
<1> QED  BY <1>1, <1>2, <1>3, <1>4 DEF Borrows

\* A new request, an abort and a timeout wake the pool; a refusal and a
\* deadline change nothing it looks at.
LEMMA AsksWake ==
  ASSUME PoolInv, WakeInv, NEW r \in Requests, Asks(r), TypeOK', Asleep'
  PROVE  Enough'
<1> USE DEF PoolInv, endVars, connVars, requestVars, loopVars, pumpVars
<1>0. TypeOK
  OBVIOUS
<1>1. ASSUME NEW n \in 1..MaxConnections, Acquire(r, n) PROVE FALSE
  <2>1. RequestPump /\ dpc' = dpc /\ state' = state
    BY <1>1 DEF Acquire
  <2> QED  BY <2>1, PumpWakes
<1>2. ASSUME AbortRequest(r) PROVE FALSE
  <2>1. RequestPump /\ dpc' = dpc /\ state' = state
    BY <1>2 DEF AbortRequest, RejectWaiter
  <2> QED  BY <2>1, PumpWakes
<1>3. ASSUME UNCHANGED <<state, dpc, pumpScheduled, pumpAgain, release, waiters,
                         idle, lowWaterBlocked, cap, conn, op>>,
             \A x \in Requests : Active(x) => count'[x] = count[x]
      PROVE  Enough'
  <2>1. Asleep
    BY <1>3 DEF Asleep
  <2>2. /\ In({"free"})' = In({"free"}) /\ LiveCreations' = LiveCreations
        /\ Borrowed' = Borrowed /\ In({"resetting"})' = In({"resetting"})
    BY <1>3 DEF In, LiveCreations, Borrowed
  <2> QED  BY <1>3, <2>1, <2>2, WakeFrame DEF WakeInv
<1>4. ASSUME NEW n \in 1..MaxConnections, AcquireRefused(r, n) PROVE Enough'
  <2>1. \A x \in Requests : Active(x) => count'[x] = count[x]
    BY <1>0, <1>4 DEF AcquireRefused, TypeOK, Active
  <2> QED  BY <1>3, <1>4, <2>1 DEF AcquireRefused
<1>5. CASE DeadlinePasses(r)
  BY <1>3, <1>5 DEF DeadlinePasses
<1> QED  BY <1>1, <1>2, <1>4, <1>5 DEF Asks, TimeoutFires

\* A factory callback that settles wakes the pool, or leaves a release() that
\* still will.
LEMMA SettlesWake ==
  ASSUME PoolInv, WakeInv, NEW s \in Slots, Settles(s), TypeOK', Asleep'
  PROVE  Enough'
<1> USE DEF PoolInv, endVars, connVars, requestVars, loopVars, pumpVars
<1>0. TypeOK
  OBVIOUS
<1>1. ASSUME \/ CreateSucceeds(s) \/ CreateFails(s) \/ CreateExpires(s)
             \/ ReleaseResumes(s) \/ DestroySucceeds(s)
             \/ \E end \in {"failed", "overrun"} : DestroyFails(s, end)
      PROVE  FALSE
  <2>1. RequestPump /\ dpc' = dpc /\ CheckClosed(state, shutdown)
    BY <1>1
    DEF CreateSucceeds, CreateFails, CreateExpires, ReleaseResumes,
        DestroySucceeds, DestroyFails
  <2> QED  BY <2>1, PumpWakes
<1>2. ASSUME ReleaseResetSucceeds(s) \/ ReleaseResetFails(s) PROVE FALSE
  <2>1. /\ release'[s] \in {"resuming", "destroying", "evicting"}
        /\ conn'[s] \in {"idle", "closing"}
    <3>1. CASE Destroy(s)
      BY <1>0, <1>2, <3>1
      DEF ReleaseResetSucceeds, ReleaseResetFails, ReleaseReturns, Destroy, TypeOK
    <3>2. CASE ReleaseReturns(s, cap[s])
      BY <1>0, <3>2 DEF ReleaseReturns, ReturnToPool, TypeOK
    <3> QED  BY <1>2, <3>1, <3>2 DEF ReleaseResetSucceeds, ReleaseResetFails
  <2> QED  BY <2>1 DEF Asleep, None
<1>3. ASSUME NEW outcome \in {"healthy", "unhealthy", "timedout"},
             ValidateSettles(s, outcome)
      PROVE  FALSE
  <2>1. dpc \in {"off", "return"} /\ conn[s] = "validating"
    BY <1>3 DEF ValidateSettles, Asleep
  <2> QED  BY <2>1 DEF LoopLocals, ListsAgree, CandidatesListed, Elements, In
<1>4. CASE DestroyFailsLate(s)
  <2>1. /\ UNCHANGED <<state, dpc, pumpScheduled, pumpAgain, release, waiters,
                       idle, lowWaterBlocked, cap, conn, count>>
        /\ conn[s] = "closing" /\ \A x \in Slots \ {s} : op'[x] = op[x]
    BY <1>0, <1>4 DEF DestroyFailsLate, TypeOK
  <2>2. Asleep
    BY <2>1 DEF Asleep
  <2>3. /\ In({"free"})' = In({"free"}) /\ LiveCreations' = LiveCreations
        /\ Borrowed' = Borrowed /\ In({"resetting"})' = In({"resetting"})
    BY <2>1 DEF In, LiveCreations, Borrowed
  <2> QED  BY <2>1, <2>2, <2>3, WakeFrame DEF WakeInv
<1> QED  BY <1>1, <1>2, <1>3, <1>4 DEF Settles

\* The dispatch falls asleep only when it finds nothing to do.
LEMMA DispatchesWake ==
  ASSUME PoolInv, WakeInv, Dispatches, TypeOK', Asleep'
  PROVE  Enough'
<1> USE DEF PoolInv, endVars, connVars, requestVars, loopVars, pumpVars
<1>0. TypeOK /\ MaxConnections \in Nat /\ LowWater \in Int /\ IdleHigh \in Int
  BY BoundsAssumption
<1>1. ASSUME LoopReturns PROVE Enough'
  <2>1. /\ UNCHANGED <<waiters, count, idle, cap, lowWaterBlocked, conn, op>>
    BY <1>1 DEF LoopReturns
  <2>2. /\ Capacity' = Capacity /\ ExpectedAvailable' = ExpectedAvailable
    BY <2>1 DEF Capacity, ExpectedAvailable, LiveCreations, In
  <2>3. CASE AtRest /\ ~Untrimmed /\ ~Refills
    <3>1. /\ waiters' = <<>> /\ ~(Len(idle) > IdleHigh)
          /\ \A i \in DOMAIN idle' : cap'[idle'[i]] = NoCap
          /\ ~Refills'
      BY <2>1, <2>2, <2>3 DEF AtRest, Untrimmed, Refills, MayCreate
    <3>2. Len(idle') <= IdleHigh
      <4>1. Len(idle) \in Nat
        BY <1>0 DEF TypeOK
      <4> QED  BY <1>0, <2>1, <3>1, <4>1
    <3> QED  BY <3>1, <3>2 DEF Enough
  <2>4. CASE /\ ServableHead /\ Len(idle) < count[Head(waiters)]
             /\ ~MayCreate(count[Head(waiters)])
    BY <2>1, <2>2, <2>4 DEF ServableHead, AtHead, Enough, MayCreate
  <2> QED  BY <1>1, <2>3, <2>4 DEF LoopReturns
<1>2. ASSUME DispatchEnds PROVE Enough'
  <2>1. Asleep
    BY <1>2 DEF DispatchEnds, Asleep
  <2>2. UNCHANGED <<waiters, count, idle, cap, lowWaterBlocked, conn, op>>
    BY <1>2 DEF DispatchEnds
  <2>3. /\ In({"free"})' = In({"free"}) /\ LiveCreations' = LiveCreations
        /\ Borrowed' = Borrowed /\ In({"resetting"})' = In({"resetting"})
    BY <2>2 DEF In, LiveCreations, Borrowed
  <2> QED  BY <2>1, <2>2, <2>3, WakeFrame DEF WakeInv
<1>3. ~PumpTick
  BY DEF PumpTick, Asleep
<1>4. ~LoopStops /\ ~RolledBack /\ ~RefusesWaiter /\ ~ResumeRollsBack
      /\ ~ResumeRejects /\ ~ResumeGrants /\ ~LoopTakes
  BY DEF LoopStops, RolledBack, RefusesWaiter, ResumeRollsBack, ResumeRejects,
         ResumeGrants, LoopTakes, Asleep
<1>5. ~LoopTrims /\ ~LoopCreates /\ ~LoopRejects /\ ~RollsBack
  BY DEF LoopTrims, LoopCreates, LoopRejects, RollsBack, AtRest, AtHead,
         ServableHead, Asleep
<1> QED  BY <1>1, <1>2, <1>3, <1>4, <1>5 DEF Dispatches

\* Every step leaves the pool awake or with nothing to do.
LEMMA WakeInvStep ==
  PoolInv /\ EndInv /\ WakeInv /\ PoolInv' /\ [Next]_vars => WakeInv'
<1> SUFFICES ASSUME PoolInv, EndInv, WakeInv, PoolInv', [Next]_vars PROVE WakeInv'
  OBVIOUS
<1>0. TypeOK'
  BY DEF PoolInv
<1>1. CASE UNCHANGED vars
  BY <1>1
  DEF vars, WakeInv, Asleep, Enough, Returnable, Refills, MayCreate,
      ExpectedAvailable, Capacity, LiveCreations, Borrowed, In
<1>2. CASE Next
  <2>1. ~(Ends /\ Asleep')
    <3>1. ASSUME NEW target \in {"retiring", "closing"}, Shutdown(target)
          PROVE  state' # "open"
      BY <3>1 DEF Shutdown, CheckClosed, Draining
    <3>2. Escalate => state' # "open"
      BY DEF Escalate
    <3>3. ShutdownTimeout => state' # "open"
      BY DEF ShutdownTimeout, EndInv, None
    <3> QED  BY <3>1, <3>2, <3>3 DEF Ends, Asleep
  <2>2. ASSUME Asleep' PROVE Enough'
    BY <1>0, <1>2, <2>1, <2>2, AsksWake, BorrowsWake, SettlesWake, DispatchesWake
    DEF Next
  <2>3. ResetsAllowed'
    BY <1>2, ResetsStayAllowed DEF ResetsAllowed, WakeInv
  <2> QED  BY <2>2, <2>3 DEF WakeInv, ResetsAllowed
<1> QED  BY <1>1, <1>2

\* The constructor ends with a pump request.
LEMMA WakeInvInit == Init => WakeInv
BY DEF Init, WakeInv, Asleep

\* A pool that sleeps has nothing to do for those who wait, and sits between
\* its water marks when nobody does (#requestPump, #dispatch); only the end of
\* a resetActiveLease() can let it oversleep, while a lease is out.
THEOREM NoWakeupIsLost == Spec => []NoLostWakeup
<1>1. PoolInv /\ WakeInv => NoLostWakeup
  <2> SUFFICES ASSUME PoolInv, WakeInv, Quiet PROVE NoLostWakeup
    BY DEF NoLostWakeup
  <2>0. TypeOK /\ LowWater \in Int
    BY BoundsAssumption DEF PoolInv
  <2>1. Enough
    BY DEF WakeInv, Quiet, Asleep
  <2>2. ASSUME NEW w \in Int, MayCreate(w), Returnable(w)
        PROVE  MayOversleep
    <3>1. /\ Len(idle) \in Nat /\ Cardinality(LiveCreations) \in Nat
          /\ Cardinality(Borrowed) \in Nat /\ Cardinality(In({"resetting"})) \in Nat
      BY <2>0, AvailableCounts
    <3>2. Cardinality(In({"resetting"})) < Cardinality(Borrowed)
      BY <2>2, <3>1 DEF MayCreate, Returnable, ExpectedAvailable
    <3>3. In({"leased"}) # {}
      BY <2>0, <3>2, AvailableCounts
    <3>4. \E g \in DOMAIN leases : leases[g].active
      BY <3>3 DEF PoolInv, LeaseExclusive
    <3> QED  BY <2>2, <3>4 DEF MayOversleep, Returnable
  <2>3. CASE waiters # <<>>
    <3> DEFINE r == Head(waiters)
    <3>1. r \in Requests
      BY <2>0, <2>3, HeadTailProperties DEF TypeOK
    <3>2. count[r] \in Int
      BY <2>0, <3>1, BoundsAssumption DEF TypeOK
    <3> QED  BY <2>1, <2>2, <2>3, <3>2 DEF Enough, NoLostWakeup
  <2>4. CASE waiters = <<>>
    BY <2>0, <2>1, <2>2, <2>4 DEF Enough, NoLostWakeup, Refills
  <2> QED  BY <2>3, <2>4
<1> QED  BY <1>1, EndInvInit, EndInvStep, WakeInvInit, WakeInvStep,
            PoolInvariant, PTL DEF Spec

(***************************************************************************)
(* What is given up                                                        *)
(***************************************************************************)
\* #reconcileCreations tells creations to abort, and changes no other call.
OpsFrom(o) == \A s \in Slots : \/ op'[s] = o[s]
                               \/ o[s] = "running" /\ op'[s] = "signalled"

\* What #reconcileCreations does to a call in flight.
LEMMA ReconcileOps ==
  ASSUME NEW ws, NEW cr, NEW o, NEW w, NEW blocked, Reconcile(ws, cr, o, w, blocked)
  PROVE  OpsFrom(o)
<1> DEFINE live == {cr[i] : i \in {i \in DOMAIN cr : o[cr[i]] = "running"}}
<1>1. \A s \in live : o[s] = "running"
  OBVIOUS
<1>2. PICK K : op' = [s \in Slots |-> IF s \in live \ K THEN "signalled" ELSE o[s]]
  BY DEF Reconcile
<1> HIDE DEF live
<1>3. \A s \in Slots : op'[s] = IF s \in live \ K THEN "signalled" ELSE o[s]
  BY <1>2
<1> QED  BY <1>1, <1>3 DEF OpsFrom

\* So does everything that settles a request.
LEMMA SettledOps ==
  /\ \A r : RejectWaiter(r) => OpsFrom(op)
  /\ \A r, outcome, cr, o, w, blocked :
       SettleWaiter(r, outcome, cr, o, w, blocked) => OpsFrom(o)
  /\ \A s, cr, o : RejectOwner(s, cr, o) => OpsFrom(o)
<1>1. ASSUME NEW r, NEW outcome, NEW cr, NEW o, NEW w, NEW blocked,
             SettleWaiter(r, outcome, cr, o, w, blocked)
      PROVE  OpsFrom(o)
  BY <1>1, ReconcileOps DEF SettleWaiter
<1>2. ASSUME NEW r, RejectWaiter(r) PROVE OpsFrom(op)
  BY <1>1, <1>2 DEF RejectWaiter
<1>3. ASSUME NEW s, NEW cr, NEW o, RejectOwner(s, cr, o) PROVE OpsFrom(o)
  <2>1. CASE owner[s] # None /\ Active(owner[s])
    BY <1>1, <1>3, <2>1 DEF RejectOwner
  <2>2. CASE ~(owner[s] # None /\ Active(owner[s]))
    BY <1>3, <2>2 DEF RejectOwner, OpsFrom
  <2> QED  BY <2>1, <2>2
<1> QED  BY <1>1, <1>2, <1>3

\* No connection comes back from where it was given up, and none starts, as
\* far as its state tells.
Condemned ==
  /\ \A s \in Slots : Doomed(s) => Doomed(s)' \/ conn'[s] = "free"
  /\ In({"creating"})' \subseteq In({"creating"})

\* One connection changes its state.
LEMMA OneMoves ==
  ASSUME NEW s \in Slots,
         \A x \in Slots \ {s} :
           /\ conn'[x] = conn[x]
           /\ op'[x] = op[x] \/ op'[x] = "signalled",
         \/ conn'[s] \in {"closing", "free"}
         \/ ~Doomed(s) /\ (conn'[s] = "creating" => conn[s] = "creating")
         \/ conn'[s] = conn[s] /\ op'[s] \in {"signalled", "overrun"}
  PROVE  Condemned
BY DEF Condemned, Doomed, In

\* Several connections change their state, of which none was given up.
LEMMA OthersMove ==
  ASSUME \A x \in Slots :
           \/ conn'[x] = conn[x] /\ (op'[x] = op[x] \/ op'[x] = "signalled")
           \/ conn'[x] # "creating" /\ ~Doomed(x)
           \/ conn'[x] = "closing"
  PROVE  Condemned
BY DEF Condemned, Doomed, In

\* Nothing comes back when a request is made or given up ...
LEMMA AsksCondemn ==
  ASSUME NEW r \in Requests, Asks(r)
  PROVE  Condemned
<1> USE DEF connVars
<1>1. conn' = conn
  BY DEF Asks, Acquire, AcquireRefused, AbortRequest, DeadlinePasses, TimeoutFires
<1>2. OpsFrom(op)
  BY SettledOps
  DEF Asks, Acquire, AcquireRefused, AbortRequest, DeadlinePasses, TimeoutFires,
      OpsFrom
<1> QED  BY <1>1, <1>2, OthersMove DEF OpsFrom

\* ... when a borrower uses or returns its connection ...
LEMMA BorrowsCondemn ==
  ASSUME PoolInv, NEW g \in DOMAIN leases, Borrows(g)
  PROVE  Condemned
<1> USE DEF PoolInv, connVars
<1> DEFINE s == leases[g].slot
<1>0. TypeOK /\ s \in Slots
  BY LeaseUpdate DEF Lease
<1>1. CASE CallStarts(g) \/ CallEnds(g)
  BY <1>1, OthersMove DEF CallStarts, CallEnds
<1>2. CASE LeaseResetStarts(g) \/ LeaseResetSettles(g)
  <2>1. conn[s] \in {"leased", "resetting"}
    BY <1>2 DEF LeaseResetStarts, LeaseResetSettles, Usable, LeaseExclusive, None
  <2>2. /\ conn'[s] \in {"leased", "resetting"}
        /\ \A x \in Slots \ {s} : conn'[x] = conn[x] /\ op'[x] = op[x]
    BY <1>0, <1>2 DEF LeaseResetStarts, LeaseResetSettles, TypeOK
  <2> HIDE DEF s
  <2> QED  BY <1>0, <2>1, <2>2, OneMoves DEF Doomed
<1>3. ASSUME NEW reusable \in BOOLEAN, NEW k \in ReleaseCaps \cup {NoCap},
             Release(g, reusable, k)
      PROVE  Condemned
  <2>1. conn[s] = "leased"
    BY <1>3 DEF Release, Usable, LeaseExclusive, None
  <2>2. ReleaseEvicts(g, s) \/ ReleaseResets(g, s, k) \/ ReleaseReturns(s, k)
    BY <1>3 DEF Release
  <2> HIDE DEF s
  <2>3. /\ conn'[s] \in {"closing", "resetting", "idle"}
        /\ \A x \in Slots \ {s} : conn'[x] = conn[x] /\ op'[x] = op[x]
    BY <1>0, <2>2
    DEF ReleaseEvicts, ReleaseResets, ReleaseReturns, ReturnToPool, Destroy, TypeOK
  <2> QED  BY <1>0, <2>1, <2>3, OneMoves DEF Doomed
<1> QED  BY <1>1, <1>2, <1>3 DEF Borrows

\* ... when a factory callback settles ...
LEMMA SettlesCondemn ==
  ASSUME PoolInv, NEW s \in Slots, Settles(s)
  PROVE  Condemned
<1> USE DEF PoolInv, connVars
<1>0. TypeOK
  OBVIOUS
<1>1. CASE CreateSucceeds(s)
  <2>1. CASE StillWanted(s)
    <3>1. ~Doomed(s)
      BY <1>1, <2>1 DEF CreateSucceeds, StillWanted, Doomed
    <3>2. /\ conn'[s] # "creating"
          /\ \A x \in Slots \ {s} : conn'[x] = conn[x] /\ op'[x] = op[x]
      BY <1>0, <1>1, <2>1 DEF CreateSucceeds, ReturnToPool, TypeOK
    <3> QED  BY <3>1, <3>2, OneMoves
  <2>2. CASE ~StillWanted(s)
    <3>1. /\ conn'[s] = "closing"
          /\ \A x \in Slots \ {s} : conn'[x] = conn[x] /\ op'[x] = op[x]
      BY <1>0, <1>1, <2>2 DEF CreateSucceeds, Destroy, TypeOK
    <3> QED  BY <3>1, OneMoves
  <2> QED  BY <2>1, <2>2
<1>2. CASE CreateFails(s)
  <2> DEFINE o == [op EXCEPT ![s] = None]
  <2>1. OpsFrom(o)
    <3>1. op' = o \/ RejectOwner(s, creating', o)
      BY <1>2 DEF CreateFails
    <3> HIDE DEF o
    <3> QED  BY <3>1, SettledOps DEF OpsFrom
  <2>2. /\ conn'[s] = "free" /\ \A x \in Slots \ {s} : conn'[x] = conn[x]
        /\ \A x \in Slots \ {s} : o[x] = op[x]
    BY <1>0, <1>2 DEF CreateFails, TypeOK
  <2> HIDE DEF o
  <2>3. \A x \in Slots \ {s} : op'[x] = op[x] \/ op'[x] = "signalled"
    BY <2>1, <2>2 DEF OpsFrom
  <2> QED  BY <2>2, <2>3, OneMoves
<1>3. CASE CreateExpires(s)
  <2> DEFINE o == [op EXCEPT ![s] = "overrun"]
  <2>1. OpsFrom(o) /\ conn' = conn
    BY <1>3, SettledOps DEF CreateExpires
  <2>2. o[s] = "overrun" /\ \A x \in Slots \ {s} : o[x] = op[x]
    BY <1>0 DEF TypeOK
  <2> HIDE DEF o
  <2>3. /\ op'[s] = "overrun"
        /\ \A x \in Slots \ {s} : op'[x] = op[x] \/ op'[x] = "signalled"
    BY <2>1, <2>2 DEF OpsFrom
  <2> QED  BY <2>1, <2>3, OneMoves
<1>4. ASSUME NEW outcome \in {"healthy", "unhealthy", "timedout"},
             ValidateSettles(s, outcome)
      PROVE  Condemned
  <2>1. /\ conn[s] = "validating" /\ conn' = conn
        /\ \A x \in Slots \ {s} : op'[x] = op[x]
    BY <1>0, <1>4 DEF ValidateSettles, TypeOK
  <2> QED  BY <2>1, OneMoves DEF Doomed
<1>5. CASE ReleaseResetSucceeds(s) \/ ReleaseResetFails(s)
  <2>1. conn[s] = "resetting"
    BY <1>5 DEF ReleaseResetSucceeds, ReleaseResetFails, ResetsOwned
  <2>2. Destroy(s) \/ ReturnToPool(s, cap[s])
    BY <1>5 DEF ReleaseResetSucceeds, ReleaseResetFails, ReleaseReturns
  <2>3. /\ conn'[s] \in {"closing", "idle"}
        /\ \A x \in Slots \ {s} : conn'[x] = conn[x] /\ op'[x] = op[x]
    BY <1>0, <2>2 DEF Destroy, ReturnToPool, TypeOK
  <2> QED  BY <2>1, <2>3, OneMoves DEF Doomed
<1>6. CASE ReleaseResumes(s)
  BY <1>6, OthersMove DEF ReleaseResumes
<1>7. CASE DestroySucceeds(s)
  <2>1. /\ conn'[s] = "free"
        /\ \A x \in Slots \ {s} : conn'[x] = conn[x] /\ op'[x] = op[x]
    BY <1>0, <1>7 DEF DestroySucceeds, TypeOK
  <2> QED  BY <2>1, OneMoves
<1>8. ASSUME \/ DestroyFailsLate(s)
             \/ \E end \in {"failed", "overrun"} : DestroyFails(s, end)
      PROVE  Condemned
  <2>1. conn' = conn /\ conn[s] = "closing"
        /\ \A x \in Slots \ {s} : op'[x] = op[x]
    BY <1>0, <1>8 DEF DestroyFailsLate, DestroyFails, TypeOK
  <2> QED  BY <2>1, OneMoves
<1> QED  BY <1>1, <1>2, <1>3, <1>4, <1>5, <1>6, <1>7, <1>8 DEF Settles

\* ... when the loop runs, except for the creations it starts ...
LEMMA DispatchesCondemn ==
  ASSUME PoolInv, Dispatches, ~LoopCreates
  PROVE  Condemned
<1> USE DEF PoolInv, connVars, loopVars
<1>0. TypeOK
  OBVIOUS
<1>1. CASE PumpTick \/ DispatchEnds \/ LoopStops \/ LoopReturns \/ ResumeRollsBack
  BY <1>1, OthersMove
  DEF PumpTick, DispatchEnds, LoopStops, LoopReturns, ResumeRollsBack
<1>2. CASE LoopRejects \/ ResumeRejects \/ RolledBack \/ RefusesWaiter
  <2>1. conn' = conn /\ OpsFrom(op)
    BY <1>2, SettledOps
    DEF LoopRejects, ResumeRejects, RolledBack, RefusesWaiter, OpsFrom
  <2> QED  BY <2>1, OthersMove DEF OpsFrom
<1>3. CASE LoopTrims
  <2>1. PICK n \in 0..Len(idle) :
          LET cut == {idle[i] : i \in (n + 1)..Len(idle)}
          IN /\ conn' = [s \in Slots |-> IF s \in cut THEN "closing" ELSE conn[s]]
             /\ op' = [s \in Slots |-> IF s \in cut THEN "running" ELSE op[s]]
    BY <1>3 DEF LoopTrims
  <2> QED  BY <2>1, OthersMove
<1>4. CASE LoopTakes
  <2> DEFINE n == count[Head(waiters)]
             taken == {idle[i] : i \in 1..n}
  <2>1. taken \subseteq In({"idle"})
    <3>1. Head(waiters) \in Requests
      BY <1>0, <1>4, HeadTailProperties DEF LoopTakes, ServableHead, AtHead, TypeOK
    <3>2. n \in Nat /\ n <= Len(idle) /\ Len(idle) \in Nat /\ DOMAIN idle = 1..Len(idle)
      BY <1>0, <1>4, <3>1, BoundsAssumption DEF LoopTakes, TypeOK
    <3> HIDE DEF n
    <3>3. \A i \in 1..n : i \in DOMAIN idle
      BY <3>2
    <3> QED  BY <3>3 DEF ListsAgree, IdleListed, Elements
  <2>2. \A x \in Slots :
          /\ conn'[x] = IF x \in taken THEN "validating" ELSE conn[x]
          /\ x \notin taken => op'[x] = op[x]
    BY <1>4 DEF LoopTakes
  <2> HIDE DEF taken
  <2> QED  BY <2>1, <2>2, OthersMove DEF In, Doomed
<1>5. CASE ResumeGrants
  <2> DEFINE taken == {candidates[i] : i \in DOMAIN candidates}
             o == [s \in Slots |-> IF s \in taken THEN None ELSE op[s]]
  <2>1. taken = In({"validating"})
    BY DEF ListsAgree, CandidatesListed, Elements
  <2>2. OpsFrom(o)
    BY <1>5, SettledOps DEF ResumeGrants
  <2>3. \A x \in Slots : conn'[x] = IF x \in taken THEN "leased" ELSE conn[x]
    BY <1>5 DEF ResumeGrants
  <2>4. \A x \in Slots : x \notin taken => o[x] = op[x]
    OBVIOUS
  <2> HIDE DEF taken, o
  <2> QED  BY <2>1, <2>2, <2>3, <2>4, OthersMove DEF In, Doomed, OpsFrom
<1>6. CASE RollsBack
  <2> DEFINE s == Head(candidates)
  <2>1. s \in Slots /\ conn[s] = "validating"
    <3>1. candidates \in Seq(Slots) /\ candidates # <<>>
      BY <1>0, <1>6 DEF RollsBack, TypeOK
    <3>2. s = candidates[1] /\ 1 \in DOMAIN candidates
      BY <3>1, EmptySeq, HeadTailProperties
    <3> QED  BY <3>1, <3>2 DEF ListsAgree, CandidatesListed, Elements, In
  <2>2. ReturnToPool(s, cap[s]) \/ Destroy(s)
    BY <1>6 DEF RollsBack
  <2> HIDE DEF s
  <2>3. /\ conn'[s] \in {"closing", "idle"}
        /\ \A x \in Slots \ {s} : conn'[x] = conn[x] /\ op'[x] = op[x]
    BY <1>0, <2>1, <2>2 DEF ReturnToPool, Destroy, TypeOK
  <2> QED  BY <2>1, <2>3, OneMoves DEF Doomed
<1> QED  BY <1>1, <1>2, <1>3, <1>4, <1>5, <1>6 DEF Dispatches

\* ... or when the pool is told to end.
LEMMA EndsCondemn ==
  ASSUME Ends
  PROVE  Condemned
<1> USE DEF connVars
<1>1. ASSUME NEW target \in {"retiring", "closing"}, Shutdown(target)
      PROVE  Condemned
  <2>1. ASSUME NEW x \in Slots
        PROVE  \/ conn'[x] = conn[x] /\ (op'[x] = op[x] \/ op'[x] = "signalled")
               \/ conn'[x] = "closing"
    <3>1. conn'[x] = IF conn[x] = "idle" THEN "closing" ELSE conn[x]
      BY <1>1 DEF Shutdown
    <3>2. op'[x] = CASE conn[x] = "idle" -> "running"
                     [] conn[x] \in Interrupted /\ op[x] = "running" -> "signalled"
                     [] OTHER -> op[x]
      BY <1>1 DEF Shutdown
    <3>3. CASE conn[x] = "idle"
      BY <3>1, <3>3
    <3>4. CASE conn[x] # "idle"
      <4>1. conn'[x] = conn[x]
        BY <3>1, <3>4
      <4>2. CASE conn[x] \in Interrupted /\ op[x] = "running"
        BY <3>2, <3>4, <4>1, <4>2
      <4>3. CASE ~(conn[x] \in Interrupted /\ op[x] = "running")
        BY <3>2, <3>4, <4>1, <4>3
      <4> QED  BY <4>2, <4>3
    <3> QED  BY <3>3, <3>4
  <2> QED  BY <2>1, OthersMove
<1> QED  BY <1>1, OthersMove DEF Ends, Escalate, ShutdownTimeout

\* A step that starts a creation uses a free place.
LEMMA CreationCondemns ==
  ASSUME PoolInv, LoopCreates
  PROVE  \A s \in Slots : Doomed(s) => Doomed(s)'
<1>1. PICK r : StartCreation(r)
  BY DEF LoopCreates
<1> DEFINE f == CHOOSE s \in Slots : conn[s] = "free"
<1>2. f \in Slots /\ conn[f] = "free"
  BY <1>1 DEF StartCreation, In
<1>3. conn' = [conn EXCEPT ![f] = "creating"] /\ op' = [op EXCEPT ![f] = "running"]
  BY <1>1 DEF StartCreation
<1> HIDE DEF f
<1>4. \A x \in Slots \ {f} : conn'[x] = conn[x] /\ op'[x] = op[x]
  BY <1>3 DEF PoolInv, TypeOK
<1> QED  BY <1>2, <1>4 DEF Doomed

\* The state of the pool never goes back to open.
LEMMA NeverReopens ==
  ASSUME Next, state # "open"
  PROVE  state' # "open"
<1> USE DEF endVars
<1>1. ASSUME CheckClosed(state, shutdown) PROVE state' # "open"
  BY <1>1 DEF CheckClosed
<1>2. ASSUME UNCHANGED endVars PROVE state' # "open"
  BY <1>2
<1>3. ASSUME NEW r \in Requests, Asks(r) PROVE UNCHANGED endVars
  BY <1>3
  DEF Asks, Acquire, AcquireRefused, AbortRequest, DeadlinePasses, TimeoutFires
<1>4. ASSUME NEW g \in DOMAIN leases, Borrows(g) PROVE UNCHANGED endVars
  BY <1>4
  DEF Borrows, CallStarts, CallEnds, LeaseResetStarts, LeaseResetSettles, Release
<1>5. ASSUME NEW s \in Slots, Settles(s)
      PROVE  UNCHANGED endVars \/ CheckClosed(state, shutdown)
  BY <1>5
  DEF Settles, CreateSucceeds, CreateFails, CreateExpires, ValidateSettles,
      ReleaseResetSucceeds, ReleaseResetFails, ReleaseResumes, DestroySucceeds,
      DestroyFails, DestroyFailsLate
<1>6. ASSUME Dispatches
      PROVE  UNCHANGED endVars \/ CheckClosed(state, shutdown)
  BY <1>6
  DEF Dispatches, PumpTick, DispatchEnds, LoopStops, LoopTrims, LoopCreates,
      LoopReturns, LoopRejects, LoopTakes, ResumeRollsBack, ResumeRejects,
      ResumeGrants, RollsBack, RolledBack, RefusesWaiter
<1>7. Ends => state' # "open"
  BY DEF Ends, Shutdown, Escalate, ShutdownTimeout
<1> QED  BY <1>1, <1>2, <1>3, <1>4, <1>5, <1>6, <1>7 DEF Next

\* As many leases were issued as there are generations.
LEMMA SameLength ==
  ASSUME NEW m \in Nat, NEW n \in Nat, 1..m = 1..n
  PROVE  m = n
<1>1. m \in 1..n \/ m = 0
  OBVIOUS
<1>2. n \in 1..m \/ n = 0
  OBVIOUS
<1> QED  BY <1>1, <1>2

\* An aborted or expired creation, a connection that is being destroyed and a
\* pool that was told to end never serve again (#creationSucceeded, #destroy,
\* #beginShutdown).
THEOREM NothingComesBack == Spec => GivenUpForGood
<1>1. ASSUME PoolInv, PoolInv', [Next]_vars
      PROVE  /\ [\A s \in Slots : Doomed(s) => Doomed(s)' \/ conn'[s] = "free"]_vars
             /\ [state # "open" => /\ state' # "open" /\ Len(leases') = Len(leases)
                                   /\ In({"creating"})' \subseteq In({"creating"})]_vars
  <2>1. CASE UNCHANGED vars
    BY <2>1
  <2>2. CASE Next
    <3>1. Condemned \/ LoopCreates
      BY <1>1, <2>2, AsksCondemn, BorrowsCondemn, SettlesCondemn,
         DispatchesCondemn, EndsCondemn
      DEF Next
    <3>2. \A s \in Slots : Doomed(s) => Doomed(s)' \/ conn'[s] = "free"
      BY <1>1, <3>1, CreationCondemns DEF Condemned
    <3>3. ASSUME state # "open"
          PROVE  /\ state' # "open" /\ Len(leases') = Len(leases)
                 /\ In({"creating"})' \subseteq In({"creating"})
      <4>1. state' # "open"
        BY <2>2, <3>3, NeverReopens
      <4>2. ~ResumeGrants /\ ~LoopCreates
        BY <3>3
        DEF ResumeGrants, Grantable, StillHead, LoopCreates, AtRest, AtHead,
            ServableHead
      <4>3. /\ DOMAIN leases' = DOMAIN leases
            /\ leases \in Seq(Lease) /\ leases' \in Seq(Lease)
        BY <1>1, <2>2, <4>2, OnlyGrantsGive DEF PoolInv, TypeOK
      <4>4. Len(leases') = Len(leases)
        BY <4>3, SameLength
      <4> QED  BY <3>1, <4>1, <4>2, <4>4 DEF Condemned
    <3> QED  BY <3>2, <3>3
  <2> QED  BY <1>1, <2>1, <2>2
<1>2. Spec => NoResurrection
  BY <1>1, PoolInvariant, PTL DEF Spec, NoResurrection
<1>3. Spec => [][state # "open" =>
                   /\ state' # "open" /\ Len(leases') = Len(leases)
                   /\ In({"creating"})' \subseteq In({"creating"})]_vars
  BY <1>1, PoolInvariant, PTL DEF Spec
<1> QED  BY <1>2, <1>3, PTL DEF GivenUpForGood

(***************************************************************************)
(* The lease service                                                       *)
(***************************************************************************)
ServiceStep == [Service!LSNext]_(Service!lsVars)

\* A request that waits gives up, or is given up: the queue closes the gap.
LEMMA SettledIsDropped ==
  ASSUME PoolInv, NEW r \in Requests, Active(r), NEW cr, NEW o, NEW w, NEW blocked,
         SettleWaiter(r, "rejected", cr, o, w, blocked), Gate' = Gate,
         leases' = leases
  PROVE  Service!LSNext
<1> DEFINE i == CHOOSE i \in DOMAIN waiters : waiters[i] = r
<1>1. \E k \in DOMAIN waiters : waiters[k] = r
  BY DEF PoolInv, ListsAgree, WaitersListed, Elements
<1>2. i \in DOMAIN waiters /\ waiters[i] = r
  BY <1>1
<1>3. waiters' = RemoveAt(waiters, i)
  BY <1>1 DEF SettleWaiter, Without
<1>4. status' = [status EXCEPT ![r] = "rejected"] /\ count' = count
  BY DEF SettleWaiter
<1> HIDE DEF i
<1>5. Len(leases)' = Len(leases) /\ ActiveLeases' = ActiveLeases
  BY DEF ActiveLeases
<1>6. Service!Drop(i)
  BY <1>2, <1>3, <1>4, <1>5 DEF Service!Drop, Service!RemoveAt, RemoveAt
<1> QED  BY <1>2, <1>6 DEF Service!LSNext

\* A step that concerns neither a request nor a lease is invisible, and so is
\* one that only notes that a lease is busy.
LEMMA Invisible ==
  ASSUME Gate' = Gate, UNCHANGED <<waiters, status, count>>,
         Len(leases') = Len(leases), ActiveLeases' = ActiveLeases
  PROVE  ServiceStep
BY DEF ServiceStep, Service!lsVars

\* While somebody waits the pool is open, and #checkClosed changes nothing.
LEMMA OpenGate ==
  ASSUME \/ UNCHANGED endVars
         \/ state = "open" /\ CheckClosed(state, shutdown)
  PROVE  Gate' = Gate
BY DEF endVars, CheckClosed, Draining, Gate

\* Whoever still waits does so at an open pool.
LEMMA WaitingIsOpen ==
  ASSUME PoolInv, EndInv, NEW r \in Requests, Active(r)
  PROVE  state = "open"
BY NobodyWaits

\* #checkClosed closes the pool when the last connection is gone, and with it
\* the last lease.
LEMMA CheckClosedCloses ==
  ASSUME PoolInv, PoolInv', EndInv, CheckClosed(state, shutdown), leases' = leases,
         UNCHANGED <<waiters, status, count>>
  PROVE  ServiceStep
<1>0. ActiveLeases' = ActiveLeases
  BY DEF ActiveLeases
<1>1. CASE state' = state
  <2>1. Gate' = Gate
    BY <1>1 DEF Gate
  <2> QED  BY <1>0, <2>1, Invisible
<1>2. CASE state' # state
  <2>1. Draining(state) /\ state' = "closed" /\ Emptied(conn')
    BY <1>2 DEF CheckClosed
  <2>2. ActiveLeases' = {}
    <3>1. ASSUME NEW g \in DOMAIN leases', leases'[g].active PROVE FALSE
      <4>1. leases' \in Seq(Lease) /\ leases'[g] \in Lease
        BY <3>1 DEF PoolInv, TypeOK
      <4>2. leases'[g].slot \in Slots
        BY <4>1 DEF Lease
      <4>3. conn'[leases'[g].slot] # "free"
        BY <3>1 DEF PoolInv, LeaseExclusive
      <4> QED  BY <2>1, <4>2, <4>3 DEF Emptied
    <3> QED  BY <3>1 DEF ActiveLeases
  <2>3. Gate = "draining" /\ Gate' = "closed"
    BY <2>1 DEF Gate, Draining
  <2>4. Service!Close
    BY <1>0, <2>2, <2>3 DEF Service!Close
  <2> QED  BY <2>4 DEF ServiceStep, Service!LSNext
<1> QED  BY <1>1, <1>2

\* No more leases are out than there may be connections.
LEMMA LeasesBounded ==
  PoolInv => /\ IsFiniteSet(ActiveLeases)
             /\ Cardinality(ActiveLeases) <= MaxConnections
<1> SUFFICES ASSUME PoolInv
             PROVE  /\ IsFiniteSet(ActiveLeases)
                    /\ Cardinality(ActiveLeases) <= MaxConnections
  OBVIOUS
<1> DEFINE T == Slots \ In({"free"})
           f == [g \in ActiveLeases |-> leases[g].slot]
<1>1. IsFiniteSet(T)
  BY SetsAssumption, FS_Subset
<1>2. \A g \in ActiveLeases : leases[g].slot \in T
  <2>1. \A g \in ActiveLeases : leases[g].slot \in Slots
    BY LeaseUpdate DEF PoolInv, ActiveLeases, Lease
  <2>2. \A g \in ActiveLeases : conn[leases[g].slot] # "free"
    BY DEF PoolInv, LeaseExclusive, ActiveLeases
  <2> QED  BY <2>1, <2>2 DEF In
<1>3. \A g, h \in ActiveLeases : leases[g].slot = leases[h].slot => g = h
  BY DEF PoolInv, LeaseExclusive, ActiveLeases
<1>4. f \in Injection(ActiveLeases, T)
  BY <1>2, <1>3 DEF Injection, IsInjective
<1>5. IsFiniteSet(ActiveLeases) /\ Cardinality(ActiveLeases) <= Cardinality(T)
  BY <1>1, <1>4, FS_Injection
<1>6. Cardinality(T) <= MaxConnections
  BY DEF PoolInv, CapacityBound
<1>7. Cardinality(T) \in Nat /\ Cardinality(ActiveLeases) \in Nat /\ MaxConnections \in Nat
  BY <1>1, <1>5, FS_CardinalityType, BoundsAssumption
<1> HIDE DEF T
<1> QED  BY <1>5, <1>6, <1>7

\* The head of a queue without repetitions is what splice() takes out first.
LEMMA WithoutHead ==
  ASSUME NEW S, NEW q \in Seq(S), q # <<>>, Distinct(q)
  PROVE  Without(q, Head(q)) = Tail(q)
<1>1. Len(q) \in Nat /\ Len(q) # 0 /\ Head(q) = q[1]
  BY EmptySeq
<1> DEFINE i == CHOOSE i \in DOMAIN q : q[i] = Head(q)
           w == RemoveAt(q, 1)
<1>2. i = 1
  <2>1. 1 \in DOMAIN q
    BY <1>1
  <2>2. i \in DOMAIN q /\ q[i] = q[1]
    BY <1>1, <2>1
  <2> QED  BY <2>1, <2>2 DEF Distinct
<1>3. Without(q, Head(q)) = w
  <2>1. \E k \in DOMAIN q : q[k] = Head(q)
    BY <1>1
  <2>2. Without(q, Head(q)) = RemoveAt(q, i)
    BY <2>1 DEF Without
  <2> QED  BY <1>2, <2>2
<1>4. /\ w \in Seq(S) /\ Len(w) = Len(q) - 1
      /\ \A j \in 1..(Len(q) - 1) : w[j] = IF j < 1 THEN q[j] ELSE q[j + 1]
  BY <1>1, RemoveAtElement
<1>5. /\ Tail(q) \in Seq(S) /\ Len(Tail(q)) = Len(q) - 1
      /\ \A j \in 1..Len(Tail(q)) : Tail(q)[j] = q[j + 1]
  BY HeadTailProperties
<1> HIDE DEF w
<1>6. \A j \in 1..Len(w) : w[j] = Tail(q)[j]
  BY <1>1, <1>4, <1>5
<1> QED  BY <1>3, <1>4, <1>5, <1>6, SeqEqual

\* The grant of the loop is the service's: to the head of the queue, all it
\* asked for, within the bound.
LEMMA GrantServes ==
  ASSUME PoolInv, PoolInv', GrantInv, ResumeGrants
  PROVE  Service!Grant
<1> USE DEF PoolInv, endVars
<1> DEFINE n == Len(leases)
           m == Len(candidates)
           new == (n + 1)..(n + m)
<1>0. /\ TypeOK /\ waiter \in Requests /\ Active(waiter) /\ state = "open"
      /\ n \in Nat /\ m \in Nat /\ m = count[waiter]
      /\ DOMAIN leases = 1..n /\ Head(waiters) = waiter
  <2>1. TypeOK /\ LoopLocals
    BY DEF PoolInv
  <2>2. /\ dpc = "await" /\ Active(waiter) /\ state = "open" /\ Head(waiters) = waiter
    BY DEF ResumeGrants, Validated, Grantable, StillHead
  <2>3. waiter \in Requests
    BY <2>1, <2>2 DEF TypeOK, LoopLocals
  <2>4. m \in Nat /\ m = count[waiter]
    BY <2>1, <2>2 DEF GrantInv, TypeOK
  <2>5. n \in Nat /\ DOMAIN leases = 1..n
    BY <2>1 DEF TypeOK
  <2> QED  BY <2>1, <2>2, <2>3, <2>4, <2>5
<1>1. waiters \in Seq(Requests) /\ waiters # <<>> /\ Distinct(waiters)
  BY <1>0 DEF TypeOK, ListsAgree, WaitersListed, Elements
<1>2. Gate = "open" /\ Gate' = Gate
  BY <1>0 DEF ResumeGrants, Gate
<1>3. /\ status' = [status EXCEPT ![waiter] = "granted"] /\ count' = count
      /\ waiters' = Without(waiters, waiter)
  BY <1>0 DEF ResumeGrants, SettleWaiter
<1>4. waiters' = Tail(waiters)
  BY <1>0, <1>1, <1>3, WithoutHead
<1>5. /\ DOMAIN leases' = 1..(n + m) /\ Len(leases') = n + m
      /\ \A g \in 1..n : leases'[g] = leases[g]
      /\ \A g \in 1..(n + m) : g > n => leases'[g].active = TRUE
  BY GrantIssues
<1> HIDE DEF n, m
<1>6. ActiveLeases' = ActiveLeases \cup new
  <2>1. \A g \in 1..(n + m) : g \in 1..n \/ (g > n /\ g \in new)
    BY <1>0
  <2>2. \A g \in new : g \in 1..(n + m) /\ g > n
    BY <1>0
  <2>3. \A g \in 1..n : g \in 1..(n + m)
    BY <1>0
  <2> HIDE DEF new
  <2>4. \A g : g \in ActiveLeases' <=> g \in 1..(n + m) /\ leases'[g].active
    BY <1>5 DEF ActiveLeases
  <2>5. \A g : g \in ActiveLeases <=> g \in 1..n /\ leases[g].active
    BY <1>0 DEF ActiveLeases
  <2>6. ASSUME NEW g \in ActiveLeases' PROVE g \in ActiveLeases \cup new
    BY <1>5, <2>1, <2>4, <2>5, <2>6
  <2>7. ASSUME NEW g \in ActiveLeases \cup new PROVE g \in ActiveLeases'
    BY <1>5, <2>2, <2>3, <2>4, <2>5, <2>7
  <2> QED  BY <2>6, <2>7
<1>7. Cardinality(ActiveLeases) + m <= MaxConnections
  <2>1. IsFiniteSet(new) /\ Cardinality(new) = m
    <3>1. n + 1 \in Int /\ n + m \in Int
          /\ (IF n + 1 > n + m THEN 0 ELSE (n + m) - (n + 1) + 1) = m
      BY <1>0
    <3> QED  BY <3>1, FS_Interval
  <2>2. ActiveLeases \cap new = {}
    <3>1. \A g \in new : g \notin 1..n
      BY <1>0
    <3> HIDE DEF new
    <3> QED  BY <1>0, <3>1 DEF ActiveLeases
  <2> HIDE DEF new
  <2>3. IsFiniteSet(ActiveLeases)
    BY LeasesBounded
  <2>4. Cardinality(ActiveLeases') = Cardinality(ActiveLeases) + m
    <3>1. Cardinality(ActiveLeases) \in Nat
      BY <2>3, FS_CardinalityType
    <3>2. Cardinality(ActiveLeases \cup new) =
            Cardinality(ActiveLeases) + Cardinality(new)
              - Cardinality(ActiveLeases \cap new)
      BY <2>1, <2>3, FS_Union
    <3>3. Cardinality(ActiveLeases \cap new) = 0
      BY <2>2, FS_EmptySet
    <3> QED  BY <1>0, <1>6, <2>1, <3>1, <3>2, <3>3
  <2>5. (PoolInv => Cardinality(ActiveLeases) <= MaxConnections)'
    BY LeasesBounded, PTL
  <2> QED  BY <2>4, <2>5
<1>8. Len(leases)' = n + m
  BY <1>5
<1>9. Service!Cardinality(ActiveLeases) = Cardinality(ActiveLeases)
  BY DEF Service!Cardinality, Cardinality
<1>10. /\ count[Head(waiters)] = m /\ Len(leases) = n
       /\ ActiveLeases' = ActiveLeases \cup (n + 1)..(n + m)
  BY <1>0, <1>6 DEF n
<1> HIDE DEF new
<1> QED  BY <1>0, <1>1, <1>2, <1>3, <1>4, <1>7, <1>8, <1>9, <1>10 DEF Service!Grant

\* acquire() and the ways a request is given up.
LEMMA AsksServe ==
  ASSUME PoolInv, EndInv, NEW r \in Requests, Asks(r)
  PROVE  ServiceStep
<1> USE DEF endVars, ServiceStep
<1>1. ActiveLeases' = ActiveLeases /\ leases' = leases /\ Len(leases)' = Len(leases)
      /\ Gate' = Gate
  BY DEF Asks, Acquire, AcquireRefused, AbortRequest, DeadlinePasses, TimeoutFires,
         ActiveLeases, Gate
<1>2. ASSUME NEW n \in 1..MaxConnections, Acquire(r, n) PROVE ServiceStep
  <2>1. Service!Enqueue(r, n)
    BY <1>1, <1>2 DEF Acquire, Enqueue, Service!Enqueue, Gate
  <2> QED  BY <2>1 DEF Service!LSNext
<1>3. ASSUME NEW n \in 1..MaxConnections, AcquireRefused(r, n) PROVE ServiceStep
  <2>1. Service!Refuse(r, n)
    BY <1>1, <1>3 DEF AcquireRefused, Service!Refuse
  <2> QED  BY <2>1 DEF Service!LSNext
<1>4. CASE AbortRequest(r)
  BY <1>1, <1>4, SettledIsDropped DEF AbortRequest, RejectWaiter
<1>5. CASE DeadlinePasses(r)
  BY <1>1, <1>5, Invisible DEF DeadlinePasses
<1> QED  BY <1>2, <1>3, <1>4, <1>5 DEF Asks, TimeoutFires

\* release() gives a lease back; a lease in use stays out.
LEMMA BorrowsServe ==
  ASSUME PoolInv, NEW g \in DOMAIN leases, Borrows(g)
  PROVE  ServiceStep
<1> USE DEF PoolInv, endVars, requestVars
<1>0. TypeOK /\ leases \in Seq(Lease)
  BY DEF TypeOK
<1>1. Gate' = Gate /\ UNCHANGED <<waiters, status, count>>
  BY DEF Borrows, CallStarts, CallEnds, LeaseResetStarts, LeaseResetSettles,
         Release, Gate
<1>2. CASE \E b \in {None, "call", "reset"} : leases' = [leases EXCEPT ![g].busy = b]
  <2>1. PICK b \in {None, "call", "reset"} : leases' = [leases EXCEPT ![g].busy = b]
    BY <1>2
  <2>2. /\ leases' \in Seq(Lease) /\ DOMAIN leases' = DOMAIN leases
        /\ \A h \in DOMAIN leases :
             leases'[h] = IF h = g THEN [leases[g] EXCEPT !.busy = b] ELSE leases[h]
    BY <1>0, <2>1, LeaseUpdate
  <2>3. leases[g] \in Lease
    BY <1>0, LeaseUpdate
  <2>4. \A h \in DOMAIN leases : leases'[h].active = leases[h].active
    BY <2>2, <2>3 DEF Lease
  <2>5. ActiveLeases' = ActiveLeases
    BY <2>2, <2>4 DEF ActiveLeases
  <2>6. Len(leases') = Len(leases)
    BY <1>0, <2>2, SameLength
  <2> QED  BY <1>1, <2>5, <2>6, Invisible
<1>3. ASSUME NEW reusable \in BOOLEAN, NEW k \in ReleaseCaps \cup {NoCap},
             Release(g, reusable, k)
      PROVE  ServiceStep
  <2>1. leases[g].active /\ leases' = [leases EXCEPT ![g].active = FALSE]
    BY <1>3 DEF Release, Usable
  <2>2. /\ leases' \in Seq(Lease) /\ DOMAIN leases' = DOMAIN leases
        /\ \A h \in DOMAIN leases :
             leases'[h] = IF h = g THEN [leases[g] EXCEPT !.active = FALSE]
                          ELSE leases[h]
    BY <1>0, <2>1, LeaseUpdate
  <2>3. leases[g] \in Lease
    BY <1>0, LeaseUpdate
  <2>4. \A h \in DOMAIN leases :
          leases'[h].active = IF h = g THEN FALSE ELSE leases[h].active
    BY <2>2, <2>3 DEF Lease
  <2>5. ActiveLeases' = ActiveLeases \ {g} /\ g \in ActiveLeases
    BY <2>1, <2>2, <2>4 DEF ActiveLeases
  <2>6. Len(leases') = Len(leases)
    BY <1>0, <2>2, SameLength
  <2>7. Service!GiveBack(g)
    BY <1>1, <2>5, <2>6 DEF Service!GiveBack
  <2> QED  BY <2>5, <2>7 DEF ServiceStep, Service!LSNext
<1> QED  BY <1>2, <1>3
         DEF Borrows, CallStarts, CallEnds, LeaseResetStarts, LeaseResetSettles

\* A creation that fails may reject the request it was started for.
LEMMA RejectOwnerServes ==
  ASSUME PoolInv, PoolInv', EndInv, NEW s \in Slots, NEW cr, NEW o,
         RejectOwner(s, cr, o), CheckClosed(state, shutdown), leases' = leases
  PROVE  ServiceStep
<1>1. owner[s] \in Requests \cup {None}
  BY DEF PoolInv, TypeOK
<1>2. CASE owner[s] # None /\ Active(owner[s])
  <2>1. /\ owner[s] \in Requests
        /\ SettleWaiter(owner[s], "rejected", cr, o, [owner EXCEPT ![s] = None], TRUE)
    BY <1>1, <1>2 DEF RejectOwner
  <2>2. Gate' = Gate
    BY <1>2, <2>1, WaitingIsOpen, OpenGate
  <2>3. Service!LSNext
    BY <1>2, <2>1, <2>2, SettledIsDropped
  <2> QED  BY <2>3 DEF ServiceStep
<1>3. CASE ~(owner[s] # None /\ Active(owner[s]))
  BY <1>3, CheckClosedCloses DEF RejectOwner, requestVars
<1> QED  BY <1>2, <1>3

\* What the factory does is invisible, but for the last destroy of a drain.
LEMMA SettlesServe ==
  ASSUME PoolInv, PoolInv', EndInv, NEW s \in Slots, Settles(s)
  PROVE  ServiceStep
<1> USE DEF endVars, requestVars
<1>1. leases' = leases /\ ActiveLeases' = ActiveLeases
  BY DEF Settles, CreateSucceeds, CreateFails, CreateExpires, ValidateSettles,
         ReleaseResetSucceeds, ReleaseResetFails, ReleaseResumes, DestroySucceeds,
         DestroyFails, DestroyFailsLate, ActiveLeases
<1>2. CASE CreateFails(s)
  <2> DEFINE o == [op EXCEPT ![s] = None]
  <2>1. CheckClosed(state, shutdown)
    BY <1>2 DEF CreateFails
  <2>2. RejectOwner(s, creating', o) \/ UNCHANGED <<waiters, status, count>>
    BY <1>2 DEF CreateFails
  <2> HIDE DEF o
  <2> QED  BY <1>1, <2>1, <2>2, RejectOwnerServes, CheckClosedCloses
<1>3. CASE CreateExpires(s)
  BY <1>1, <1>3, RejectOwnerServes DEF CreateExpires
<1>4. CASE /\ ~CreateFails(s) /\ ~CreateExpires(s)
  <2>1. /\ UNCHANGED <<waiters, status, count>>
        /\ UNCHANGED endVars \/ CheckClosed(state, shutdown)
    BY <1>4
    DEF Settles, CreateSucceeds, ValidateSettles, ReleaseResetSucceeds,
        ReleaseResetFails, ReleaseResumes, DestroySucceeds, DestroyFails,
        DestroyFailsLate
  <2>2. CASE UNCHANGED endVars
    BY <1>1, <2>1, <2>2, OpenGate, Invisible
  <2> QED  BY <1>1, <2>1, <2>2, CheckClosedCloses
<1> QED  BY <1>2, <1>3, <1>4

\* The loop is invisible but for its grants and its rejections.
LEMMA DispatchesServe ==
  ASSUME PoolInv, PoolInv', GrantInv, EndInv, Dispatches
  PROVE  ServiceStep
<1> USE DEF endVars, requestVars
<1>1. CASE ResumeGrants
  BY <1>1, GrantServes DEF ServiceStep, Service!LSNext
<1>2. ASSUME NEW r \in Requests, Active(r), RejectWaiter(r), UNCHANGED endVars,
             leases' = leases
      PROVE  ServiceStep
  BY <1>2, OpenGate, SettledIsDropped DEF RejectWaiter, ServiceStep
<1>3. ASSUME UNCHANGED <<waiters, status, count>>, UNCHANGED endVars, leases' = leases
      PROVE  ServiceStep
  <2>1. ActiveLeases' = ActiveLeases
    BY <1>3 DEF ActiveLeases
  <2> QED  BY <1>3, <2>1, OpenGate, Invisible
<1>4. dpc \in {"await", "rollback", "refuse"} => waiter \in Requests
  BY DEF PoolInv, LoopLocals
<1>5. CASE LoopRejects
  <2>1. waiters \in Seq(Requests) /\ waiters # <<>> /\ RejectWaiter(Head(waiters))
    BY <1>5 DEF LoopRejects, AtHead, PoolInv, TypeOK
  <2>2. Head(waiters) = waiters[1] /\ 1 \in DOMAIN waiters
    BY <2>1, EmptySeq
  <2>3. Head(waiters) \in Requests /\ Active(Head(waiters))
    BY <2>1, <2>2 DEF PoolInv, ListsAgree, WaitersListed, Elements
  <2> QED  BY <1>2, <1>5, <2>1, <2>3 DEF LoopRejects
<1>6. CASE ResumeRejects
  BY <1>2, <1>4, <1>6 DEF ResumeRejects, Validated, StillHead
<1>7. CASE RefusesWaiter
  BY <1>2, <1>3, <1>4, <1>7 DEF RefusesWaiter
<1>8. CASE RolledBack
  BY <1>8, CheckClosedCloses DEF RolledBack
<1>9. CASE PumpTick \/ DispatchEnds \/ LoopStops \/ LoopTrims \/ LoopCreates
           \/ LoopReturns \/ LoopTakes \/ ResumeRollsBack \/ RollsBack
  BY <1>3, <1>9
  DEF PumpTick, DispatchEnds, LoopStops, LoopTrims, LoopCreates, LoopReturns,
      LoopTakes, ResumeRollsBack, RollsBack
<1> QED  BY <1>1, <1>5, <1>6, <1>7, <1>8, <1>9 DEF Dispatches

\* drain() and close() stop the service.
LEMMA EndsServe ==
  ASSUME PoolInv, EndInv, Ends
  PROVE  ServiceStep
<1> USE DEF endVars, requestVars
<1>1. leases' = leases /\ ActiveLeases' = ActiveLeases /\ Len(leases)' = Len(leases)
  BY DEF Ends, Shutdown, Escalate, ShutdownTimeout, ActiveLeases
<1>2. ASSUME NEW target \in {"retiring", "closing"}, Shutdown(target)
      PROVE  ServiceStep
  <2>1. /\ state = "open" /\ waiters' = <<>> /\ count' = count
        /\ status' = [r \in Requests |->
                        IF status[r] = "waiting" THEN "rejected" ELSE status[r]]
        /\ state' = IF Emptied(conn') THEN "closed" ELSE target
    BY <1>2 DEF Shutdown, CheckClosed, Draining, Active
  <2>2. Emptied(conn') => ActiveLeases = {}
    <3>1. ASSUME Emptied(conn'), NEW g \in DOMAIN leases, leases[g].active
          PROVE  FALSE
      <4>1. leases[g].slot \in Slots
        BY LeaseUpdate DEF PoolInv, Lease
      <4>2. conn[leases[g].slot] \in {"leased", "resetting"}
        BY <3>1 DEF PoolInv, LeaseExclusive
      <4>3. conn'[leases[g].slot] = conn[leases[g].slot]
        BY <1>2, <4>1, <4>2 DEF Shutdown
      <4> QED  BY <3>1, <4>1, <4>2, <4>3 DEF Emptied
    <3> QED  BY <3>1 DEF ActiveLeases
  <2>3. /\ Gate = "open"
        /\ Gate' \in {"draining"} \cup (IF ActiveLeases = {} THEN {"closed"} ELSE {})
    BY <2>1, <2>2 DEF Gate
  <2>4. Service!Drain
    BY <1>1, <2>1, <2>3 DEF Service!Drain
  <2> QED  BY <2>4 DEF ServiceStep, Service!LSNext
<1>3. CASE Escalate \/ ShutdownTimeout
  <2>1. Gate' = Gate
    BY <1>3 DEF Escalate, ShutdownTimeout, Gate
  <2>2. UNCHANGED <<waiters, status, count>>
    BY <1>3 DEF Escalate, ShutdownTimeout
  <2> QED  BY <1>1, <2>1, <2>2, Invisible
<1> QED  BY <1>2, <1>3 DEF Ends

\* The empty pool is a lease service that nobody has called.
LEMMA InitServes == Init => Service!LSInit
<1> SUFFICES ASSUME Init PROVE Service!LSInit
  OBVIOUS
<1>1. leases = <<>> /\ DOMAIN leases = {}
  BY DEF Init
<1>2. ActiveLeases = {} /\ Len(leases) = 0
  BY <1>1 DEF ActiveLeases
<1> QED  BY <1>2 DEF Init, Service!LSInit, Gate

\* Every step of the pool is a step of the lease service, or invisible to its
\* callers: first come, first served, all or nothing, never more than
\* maxConnections leases, closed only when all have come back.
THEOREM PoolIsALeaseService == Spec => ImplementsLeaseService
<1>1. PoolInv /\ PoolInv' /\ GrantInv /\ EndInv /\ [Next]_vars
        => [Service!LSNext]_(Service!lsVars)
  <2> SUFFICES ASSUME PoolInv, PoolInv', GrantInv, EndInv, [Next]_vars
               PROVE  ServiceStep
    BY DEF ServiceStep
  <2>1. CASE UNCHANGED vars
    BY <2>1, Invisible DEF vars, Gate, ActiveLeases
  <2>2. CASE Next
    BY <2>2, AsksServe, BorrowsServe, SettlesServe, DispatchesServe, EndsServe
    DEF Next
  <2> QED  BY <2>1, <2>2
<1> QED  BY <1>1, InitServes, PoolInvariant, GrantInvInit, GrantInvStep, EndInvInit,
            EndInvStep, PTL
         DEF Spec, ImplementsLeaseService, Service!LSSpec

=============================================================================
