----------------------------- MODULE OwnerProofs -----------------------------
(***************************************************************************)
(* Theorems about the owner of a destination, for any number of callers,   *)
(* leases, descriptors and refreshes: the leases its callers hold are      *)
(* those its pool has lent, its retirement leaves nothing behind, and a    *)
(* refresh spares what was read after it began.                            *)
(***************************************************************************)
EXTENDS DirectDestinationOwner, FiniteSetTheorems, SequenceTheorems, TLAPS

(***************************************************************************)
(* The inductive invariant                                                 *)
(***************************************************************************)
Granted == {r \in Requests : answer[r] = "granted"}

ServiceInv ==
  /\ gate \in {"open", "draining", "closed"} /\ queue \in Seq(Requests)
  /\ answer \in [Requests -> {"new", "waiting", "granted", "rejected"}]
  /\ wants \in [Requests -> 1..MaxConnections]
  /\ issued \in Nat /\ held \subseteq 1..issued
  \* who is served is served once, so the numbers of the leases are bounded
  /\ \A i \in DOMAIN queue : answer[queue[i]] = "waiting"
  /\ \A i, j \in DOMAIN queue : queue[i] = queue[j] => i = j
  /\ issued <= Cardinality(Granted) * MaxConnections
  /\ gate = "closed" => held = {}

HasSession == {"granted", "owned", "releaseClaimed"}
LeaseSound(g) ==
  /\ g \in held <=> lease[g].st \in HasSession
  /\ g > issued => lease[g].st = "none"
  /\ lease[g].st = "granted" =>
       /\ lease[g].of \in Requests
       /\ acquiring[lease[g].of] = "waiting" /\ answer[lease[g].of] = "granted"
  /\ operation[g] # "off" => lease[g].st \in {"owned", "releaseClaimed"}
  /\ releasing[g].pc \in {"tail", "reset", "handback"} <=> lease[g].st = "releaseClaimed"
  /\ releasing[g].pc \in {"reset", "handback"} => operation[g] = "off"

LeasesInv ==
  /\ ServiceInv /\ LeasesTypeOK
  /\ \A g \in Leases : LeaseSound(g)
  /\ \A r \in Requests : answer[r] = "waiting" => acquiring[r] = "waiting"

\* What has been read has a version.
GenerationsInv ==
  /\ GenerationsTypeOK
  /\ cache = [k \in Keys |-> cache[k]]
  /\ \A n \in Names : version[n] # 0
  /\ \A l \in Loads : load[l].pc = "read" => load[l].version # 0

RetirementSound ==
  /\ repository \in {"open", "retired"} /\ overdue \in BOOLEAN
  /\ retirement \in {None, "resolved", "rejected"} \cup Parts
  /\ state = "active" <=> retirement = None
  /\ repository = "open" <=> retirement \in {None, "contexts", "application"}
  /\ ~Open /\ ~overdue => gate = "closed"
  /\ retirement = "resolved" => ~overdue /\ Loading = {}
  /\ ~Active => tokens = <<>>

OwnerInv == LeasesInv /\ GenerationsInv /\ RetirementSound

\* One record for each key, made by a load that is over; those of a refresh
\* were made before it began.
OneRecord(s) == \A i, j \in DOMAIN s : s[i].key = s[j].key => i = j
RecordsInv ==
  /\ OneRecord(tokens)
  /\ \A i \in DOMAIN tokens : load[tokens[i].load].pc = "ended"
  /\ \A r \in refresh.records : r.load \in refresh.before

(***************************************************************************)
(* Sequences                                                               *)
(***************************************************************************)
LEMMA RemoveAtElement ==
  ASSUME NEW S, NEW q \in Seq(S), NEW i \in 1..Len(q)
  PROVE  /\ RemoveAt(q, i) \in Seq(S)
         /\ Len(RemoveAt(q, i)) = Len(q) - 1
         /\ \A j \in 1..(Len(q) - 1) :
              RemoveAt(q, i)[j] = IF j < i THEN q[j] ELSE q[j + 1]
<1> DEFINE a == SubSeq(q, 1, i - 1)
           b == SubSeq(q, i + 1, Len(q))
<1>1. /\ a \in Seq(S) /\ Len(a) = i - 1
      /\ \A j \in 1..(i - 1) : a[j] = q[j]
  BY SubSeqProperties
<1>2. /\ b \in Seq(S) /\ Len(b) = Len(q) - i
      /\ \A j \in 1..(Len(q) - i) : b[j] = q[i + j]
  BY SubSeqProperties
<1>4. RemoveAt(q, i) = a \o b
  BY DEF RemoveAt
<1> HIDE DEF a, b
<1>0. Len(q) \in Nat /\ i \in Int /\ 1 <= i /\ i <= Len(q)
  OBVIOUS
<1>3. /\ a \o b \in Seq(S) /\ Len(a \o b) = Len(q) - 1
      /\ \A j \in 1..(Len(q) - 1) :
           (a \o b)[j] = IF j <= i - 1 THEN a[j] ELSE b[j - (i - 1)]
  <2>1. /\ a \o b \in Seq(S) /\ Len(a \o b) = Len(a) + Len(b)
        /\ \A j \in 1..(Len(a) + Len(b)) :
             (a \o b)[j] = IF j <= Len(a) THEN a[j] ELSE b[j - Len(a)]
    BY <1>1, <1>2, ConcatProperties
  <2>2. Len(a) + Len(b) = Len(q) - 1 /\ Len(a) = i - 1
    BY <1>0, <1>1, <1>2
  <2> QED  BY <2>1, <2>2
<1>5. ASSUME NEW j \in 1..(Len(q) - 1)
      PROVE  (a \o b)[j] = IF j < i THEN q[j] ELSE q[j + 1]
  <2>1. CASE j < i
    BY <1>1, <1>3, <2>1
  <2>2. CASE j >= i
    <3>1. j - (i - 1) \in 1..(Len(q) - i) /\ i + (j - (i - 1)) = j + 1
      BY <1>0, <2>2
    <3>2. ~(j <= i - 1) /\ ~(j < i)
      BY <1>0, <2>2
    <3> QED  BY <1>2, <1>3, <3>1, <3>2
  <2>3. j < i \/ j >= i
    BY <1>0
  <2> QED  BY <2>1, <2>2, <2>3
<1> QED  BY <1>3, <1>4, <1>5

\* The filter of the tokens finds a place for each number.
LEMMA WithoutElements ==
  ASSUME NEW S, tokens \in Seq(S), NEW keys
  PROVE  /\ Without(keys) \in Seq(S)
         /\ tokens = <<>> => Without(keys) = <<>>
         /\ \A m \in DOMAIN Without(keys) : \E i \in DOMAIN tokens :
              Without(keys)[m] = tokens[i] /\ tokens[i].key \notin keys
         /\ OneRecord(tokens) => OneRecord(Without(keys))
<1> DEFINE kept == {i \in DOMAIN tokens : tokens[i].key \notin keys}
           below(i) == {j \in kept : j <= i}
           rank == [i \in kept |-> Cardinality(below(i))]
           n == Cardinality(kept)
<1>1. DOMAIN tokens = 1..Len(tokens) /\ Len(tokens) \in Nat
      /\ \A i \in DOMAIN tokens : tokens[i] \in S
  OBVIOUS
<1>2. IsFiniteSet(1..Len(tokens)) BY <1>1, FS_Interval
<1>3. IsFiniteSet(kept) BY <1>1, <1>2, FS_Subset
<1>4. n \in Nat BY <1>3, FS_CardinalityType
<1>5. \A i \in kept : i \in Nat BY <1>1
<1>6. ASSUME NEW i \in kept
      PROVE  /\ IsFiniteSet(below(i)) /\ Cardinality(below(i)) \in 1..n
  <2>1. below(i) \in SUBSET kept OBVIOUS
  <2>2. IsFiniteSet(below(i)) /\ Cardinality(below(i)) <= n
    BY <1>3, <2>1, FS_Subset
  <2>3. i \in below(i) BY <1>5
  <2>4. Cardinality(below(i)) \in Nat BY <2>2, FS_CardinalityType
  <2>5. Cardinality(below(i)) # 0 BY <2>2, <2>3, FS_EmptySet
  <2> HIDE DEF below
  <2> QED BY <1>4, <2>2, <2>4, <2>5
<1>7. ASSUME NEW i \in kept, NEW j \in kept, i < j
      PROVE  Cardinality(below(i)) # Cardinality(below(j))
  <2>1. below(i) \in SUBSET below(j) BY <1>5, <1>7
  <2>2. j \in below(j) /\ j \notin below(i) BY <1>5, <1>7
  <2>3. IsFiniteSet(below(j)) BY <1>6
  <2> HIDE DEF below
  <2> QED BY <2>1, <2>2, <2>3, FS_Subset
<1>8. rank \in Injection(kept, 1..n)
  <2>1. rank \in [kept -> 1..n] BY <1>6
  <2>2. ASSUME NEW i \in kept, NEW j \in kept, rank[i] = rank[j] PROVE i = j
    <3>1. Cardinality(below(i)) = Cardinality(below(j)) BY <2>2
    <3>2. ~(i < j) /\ ~(j < i) BY <1>7, <3>1
    <3> QED BY <1>5, <3>2
  <2> HIDE DEF rank
  <2> QED BY <2>1, <2>2 DEF Injection, IsInjective
<1>9. IsFiniteSet(1..n) /\ Cardinality(1..n) = n BY <1>4, FS_Interval
<1>10. rank \in Surjection(kept, 1..n)
  <2> HIDE DEF rank
  <2> QED BY <1>8, <1>9, FS_Injection
<1> DEFINE place(m) == CHOOSE i \in kept : Cardinality({j \in kept : j <= i}) = m
<1>11. ASSUME NEW m \in 1..n 
      PROVE  place(m) \in kept /\ Cardinality({j \in kept : j <= place(m)}) = m
  <2>1. \E i \in kept : rank[i] = m
    <3> HIDE DEF rank
    <3> QED BY <1>10 DEF Surjection
  <2>2. \E i \in kept : Cardinality({j \in kept : j <= i}) = m BY <2>1
  <2> HIDE DEF kept
  <2> QED BY <2>2
<1>12. Without(keys) = [m \in 1..n |-> tokens[place(m)]] BY DEF Without
<1>13. \A m \in 1..n : tokens[place(m)] \in S
  <2>1. \A i \in kept : tokens[i] \in S BY <1>1
  <2> HIDE DEF kept, place
  <2> QED BY <1>11, <2>1
<1>14. Without(keys) \in Seq(S)
  <2> HIDE DEF n, place
  <2> QED BY <1>4, <1>12, <1>13
<1>15. ASSUME tokens = <<>> PROVE Without(keys) = <<>>
  <2>1. kept = {} BY <1>15
  <2>2. n = 0 BY <2>1, FS_EmptySet
  <2> HIDE DEF n, place, kept
  <2> QED BY <1>12, <2>2
<1>16. DOMAIN Without(keys) = 1..n /\ \A m \in 1..n : Without(keys)[m] = tokens[place(m)]
  BY <1>12
<1>17. \A i \in kept : i \in DOMAIN tokens /\ tokens[i].key \notin keys
  OBVIOUS
<1>18. \A m \in DOMAIN Without(keys) : \E i \in DOMAIN tokens :
         Without(keys)[m] = tokens[i] /\ tokens[i].key \notin keys
  <2> HIDE DEF place, kept, n
  <2> QED BY <1>11, <1>16, <1>17
<1>19. ASSUME OneRecord(tokens) PROVE OneRecord(Without(keys))
  <2>1. ASSUME NEW l \in 1..n, NEW m \in 1..n, tokens[place(l)].key = tokens[place(m)].key
        PROVE  l = m
    <3>1. place(l) \in kept /\ place(m) \in kept BY <1>11
    <3>2. place(l) = place(m)
      <4> HIDE DEF place, kept, n
      <4> QED BY <1>17, <1>19, <2>1, <3>1 DEF OneRecord
    <3>3. Cardinality({j \in kept : j <= place(l)}) = l
          /\ Cardinality({j \in kept : j <= place(m)}) = m
      BY <1>11
    <3> HIDE DEF place, kept, n
    <3> QED BY <3>2, <3>3
  <2> HIDE DEF place, n
  <2> QED BY <1>16, <2>1 DEF OneRecord
<1> QED BY <1>14, <1>15, <1>18, <1>19

(***************************************************************************)
(* The lease service                                                       *)
(***************************************************************************)
LEMMA Bounds ==
  /\ MaxConnections \in Nat \ {0} /\ IsFiniteSet(Requests) /\ None \notin Requests
  /\ Cardinality(Requests) \in Nat /\ Leases \subseteq Nat \ {0}
BY LeasesAssumption, FS_CardinalityType DEF Leases

LEMMA GrantedFinite ==
  IsFiniteSet(Granted) /\ Cardinality(Granted) \in Nat
BY Bounds, FS_Subset, FS_CardinalityType DEF Granted

\* Products of bounds
LEMMA OneMore ==
  ASSUME NEW n \in Nat, NEW m \in Nat, NEW k \in Nat, k <= n * m, NEW w \in 1..m
  PROVE  k + w <= (n + 1) * m
<1>1. (n + 1) * m = n * m + m OBVIOUS
<1>2. n * m \in Nat OBVIOUS
<1> QED BY <1>1, <1>2

LEMMA Monotone ==
  ASSUME NEW n \in Nat, NEW m \in Nat, NEW k \in Nat, n <= k
  PROVE  n * m <= k * m
<1>1. PICK d \in Nat : k = n + d
  <2>1. k - n \in Nat /\ k = n + (k - n) OBVIOUS
  <2> QED BY <2>1
<1>2. k * m = n * m + d * m BY <1>1
<1>3. d * m \in Nat /\ n * m \in Nat OBVIOUS
<1> QED BY <1>2, <1>3

LEMMA QueueTyped ==
  ASSUME ServiceInv
  PROVE  /\ DOMAIN queue = 1..Len(queue) /\ Len(queue) \in Nat
         /\ \A i \in 1..Len(queue) : queue[i] \in Requests
BY DEF ServiceInv

LEMMA EnqueueKeeps ==
  ASSUME ServiceInv, NEW r \in Requests, NEW n \in 1..MaxConnections, Enqueue(r, n)
  PROVE  ServiceInv'
<1>1. /\ answer[r] = "new" /\ answer' = [answer EXCEPT ![r] = "waiting"]
      /\ queue' = Append(queue, r)
  BY DEF Enqueue
<1>2. /\ queue' \in Seq(Requests) /\ Len(queue') = Len(queue) + 1
      /\ \A i \in 1..Len(queue) : queue'[i] = queue[i]
      /\ queue'[Len(queue) + 1] = r
  BY <1>1, AppendProperties DEF ServiceInv
<1>3. Granted' = Granted
  BY <1>1 DEF Granted, ServiceInv
<1>4. \A i \in DOMAIN queue' : answer'[queue'[i]] = "waiting"
  BY <1>1, <1>2, QueueTyped DEF ServiceInv
<1>5. \A i, j \in DOMAIN queue' : queue'[i] = queue'[j] => i = j
  <2>1. \A i \in 1..Len(queue) : queue[i] # r
    BY <1>1, QueueTyped DEF ServiceInv
  <2>2. \A i \in DOMAIN queue' : i \in 1..Len(queue) \/ i = Len(queue) + 1
    BY <1>2, QueueTyped
  <2> QED BY <1>2, <2>1, <2>2, QueueTyped DEF ServiceInv
<1>6. answer' \in [Requests -> {"new", "waiting", "granted", "rejected"}]
      /\ wants' \in [Requests -> 1..MaxConnections]
  BY DEF ServiceInv, Enqueue
<1> QED BY <1>2, <1>3, <1>4, <1>5, <1>6 DEF ServiceInv, Enqueue

LEMMA RefuseKeeps ==
  ASSUME ServiceInv, NEW r \in Requests, NEW n \in 1..MaxConnections, Refuse(r, n)
  PROVE  ServiceInv'
<1>1. /\ answer[r] = "new" /\ answer' = [answer EXCEPT ![r] = "rejected"]
      /\ UNCHANGED <<gate, queue, issued, held>>
  BY DEF Refuse
<1>2. Granted' = Granted
  BY <1>1 DEF Granted, ServiceInv
<1>3. \A i \in DOMAIN queue : answer'[queue[i]] = "waiting"
  BY <1>1, QueueTyped DEF ServiceInv
<1>4. answer' \in [Requests -> {"new", "waiting", "granted", "rejected"}]
      /\ wants' \in [Requests -> 1..MaxConnections]
  BY DEF ServiceInv, Refuse
<1> QED BY <1>1, <1>2, <1>3, <1>4 DEF ServiceInv

LEMMA DropKeeps ==
  ASSUME ServiceInv, NEW i \in DOMAIN queue, Drop(i)
  PROVE  ServiceInv' /\ Granted' = Granted
<1>0. i \in 1..Len(queue) /\ queue \in Seq(Requests) /\ queue[i] \in Requests
  BY QueueTyped DEF ServiceInv
<1>1. /\ answer' = [answer EXCEPT ![queue[i]] = "rejected"]
      /\ queue' = RemoveAt(queue, i)
      /\ UNCHANGED <<gate, wants, issued, held>>
  BY DEF Drop
<1>2. /\ queue' \in Seq(Requests) /\ Len(queue') = Len(queue) - 1
      /\ \A j \in 1..(Len(queue) - 1) :
           queue'[j] = IF j < i THEN queue[j] ELSE queue[j + 1]
  BY <1>0, <1>1, RemoveAtElement
<1>3. Granted' = Granted
  BY <1>0, <1>1, QueueTyped DEF Granted, ServiceInv
<1>4. ASSUME NEW j \in DOMAIN queue'
      PROVE  \E k \in 1..Len(queue) :
               k # i /\ queue'[j] = queue[k] /\ k = (IF j < i THEN j ELSE j + 1)
  BY <1>0, <1>2, QueueTyped
<1>5. \A j \in DOMAIN queue' : answer'[queue'[j]] = "waiting"
  <2>1. \A k \in 1..Len(queue) : k # i => queue[k] # queue[i] /\ queue[k] \in Requests
    BY <1>0, QueueTyped DEF ServiceInv
  <2> QED BY <1>0, <1>1, <1>4, <2>1, QueueTyped DEF ServiceInv
<1>6. \A j, m \in DOMAIN queue' : queue'[j] = queue'[m] => j = m
  <2> TAKE j, m \in DOMAIN queue'
  <2> HAVE queue'[j] = queue'[m]
  <2>1. PICK k \in 1..Len(queue) :
          queue'[j] = queue[k] /\ k = (IF j < i THEN j ELSE j + 1)
    BY <1>4
  <2>2. PICK l \in 1..Len(queue) :
          queue'[m] = queue[l] /\ l = (IF m < i THEN m ELSE m + 1)
    BY <1>4
  <2>3. k = l
    BY <2>1, <2>2, QueueTyped DEF ServiceInv
  <2>4. j \in Int /\ m \in Int
    BY <1>2
  <2> QED BY <1>0, <2>1, <2>2, <2>3, <2>4
<1>7. answer' \in [Requests -> {"new", "waiting", "granted", "rejected"}]
  BY <1>1 DEF ServiceInv
<1> QED BY <1>1, <1>2, <1>3, <1>5, <1>6, <1>7 DEF ServiceInv

LEMMA GrantKeeps ==
  ASSUME ServiceInv, Grant
  PROVE  /\ ServiceInv'
         /\ issued' \in Nat /\ issued <= issued'
         /\ Head(queue) \in Requests /\ answer[Head(queue)] = "waiting"
         /\ answer' = [answer EXCEPT ![Head(queue)] = "granted"]
         /\ held' = held \cup (issued + 1)..issued'
<1> DEFINE r == Head(queue)
<1>1. /\ gate = "open" /\ queue # <<>>
      /\ answer' = [answer EXCEPT ![r] = "granted"]
      /\ issued' = issued + wants[r]
      /\ held' = held \cup (issued + 1)..(issued + wants[r])
      /\ queue' = Tail(queue) /\ UNCHANGED <<gate, wants>>
  BY DEF Grant
<1>2. /\ Len(queue) >= 1 /\ r = queue[1]
      /\ queue' \in Seq(Requests) /\ Len(queue') = Len(queue) - 1
      /\ \A i \in 1..(Len(queue) - 1) : queue'[i] = queue[i + 1]
  BY <1>1, QueueTyped DEF ServiceInv
<1>3. r \in Requests /\ answer[r] = "waiting" /\ wants[r] \in 1..MaxConnections
  BY <1>2, QueueTyped DEF ServiceInv
<1> HIDE DEF r
<1>4. issued \in Nat /\ issued' \in Nat /\ issued <= issued'
  BY <1>1, <1>3, Bounds DEF ServiceInv
<1>5. held' \subseteq 1..issued'
  <2>1. held \subseteq 1..issued BY DEF ServiceInv
  <2>2. held' = held \cup (issued + 1)..issued' BY <1>1
  <2> QED BY <1>4, <2>1, <2>2
<1>6. Granted' = Granted \cup {r} /\ r \notin Granted
  BY <1>1, <1>3 DEF Granted, ServiceInv
<1>7. Cardinality(Granted') = Cardinality(Granted) + 1
  BY <1>6, GrantedFinite, FS_AddElement
<1>8. issued' <= Cardinality(Granted') * MaxConnections
  <2>1. issued <= Cardinality(Granted) * MaxConnections
    BY DEF ServiceInv
  <2>2. issued + wants[r] <= (Cardinality(Granted) + 1) * MaxConnections
    BY <1>3, <1>4, <2>1, Bounds, GrantedFinite, OneMore
  <2> QED BY <1>1, <1>7, <2>2
<1>9. ASSUME NEW i \in DOMAIN queue'
      PROVE  i + 1 \in 1..Len(queue) /\ i + 1 # 1 /\ queue'[i] = queue[i + 1] /\ i \in Int
  BY <1>2, QueueTyped
<1>10. \A i \in DOMAIN queue' : answer'[queue'[i]] = "waiting"
  <2>1. ASSUME NEW k \in 1..Len(queue), k # 1
        PROVE  queue[k] # r /\ queue[k] \in Requests
    <3>1. 1 \in DOMAIN queue /\ k \in DOMAIN queue BY <1>2, QueueTyped
    <3>2. \A i, j \in DOMAIN queue : queue[i] = queue[j] => i = j BY DEF ServiceInv
    <3> QED BY <1>2, <2>1, <3>1, <3>2, QueueTyped
  <2> QED BY <1>1, <1>9, <2>1, QueueTyped DEF ServiceInv
<1>11. \A i, j \in DOMAIN queue' : queue'[i] = queue'[j] => i = j
  <2> TAKE i, j \in DOMAIN queue'
  <2> HAVE queue'[i] = queue'[j]
  <2>1. i + 1 = j + 1
    BY <1>9, QueueTyped DEF ServiceInv
  <2> QED BY <1>9, <2>1
<1>12. answer' \in [Requests -> {"new", "waiting", "granted", "rejected"}]
  BY <1>1 DEF ServiceInv
<1>13. gate' = "closed" => held' = {}
  BY <1>1
<1>14. ServiceInv'
  BY <1>1, <1>2, <1>4, <1>5, <1>8, <1>10, <1>11, <1>12, <1>13 DEF ServiceInv
<1> QED BY <1>1, <1>3, <1>4, <1>14 DEF r

\* Leases come back, one or several.
LEMMA BackKeeps ==
  ASSUME ServiceInv, NEW S, held' = held \ S, UNCHANGED <<gate, queue, answer, wants, issued>>
  PROVE  ServiceInv'
<1>1. Granted' = Granted BY DEF Granted
<1> QED BY <1>1 DEF ServiceInv

LEMMA DrainKeeps ==
  ASSUME ServiceInv, Drain
  PROVE  ServiceInv' /\ Granted' = Granted
<1>1. /\ answer' = [q \in Requests |-> IF answer[q] = "waiting" THEN "rejected" ELSE answer[q]]
      /\ queue' = <<>> /\ UNCHANGED <<wants, issued, held>>
      /\ gate' \in {"draining"} \cup (IF held = {} THEN {"closed"} ELSE {})
  BY DEF Drain
<1>2. Granted' = Granted BY <1>1 DEF Granted, ServiceInv
<1>3. answer' \in [Requests -> {"new", "waiting", "granted", "rejected"}]
  BY <1>1 DEF ServiceInv
<1>4. queue' \in Seq(Requests) /\ DOMAIN queue' = {}
  BY <1>1
<1>5. gate' \in {"draining", "closed"} /\ (gate' = "closed" => held = {})
  BY <1>1
<1> QED BY <1>1, <1>2, <1>3, <1>4, <1>5 DEF ServiceInv

LEMMA CloseKeeps ==
  ASSUME ServiceInv, Close
  PROVE  ServiceInv'
<1>1. Granted' = Granted BY DEF Close, Granted
<1> QED BY <1>1 DEF ServiceInv, Close

\* No lease has a number beyond Leases.
LEMMA WithinLeases ==
  ASSUME ServiceInv
  PROVE  issued <= Cardinality(Requests) * MaxConnections /\ held \subseteq Leases
<1>1. Granted \subseteq Requests BY DEF Granted
<1>2. Cardinality(Granted) <= Cardinality(Requests) BY <1>1, Bounds, FS_Subset
<1>3. Cardinality(Granted) * MaxConnections <= Cardinality(Requests) * MaxConnections
  BY <1>2, Bounds, GrantedFinite, Monotone
<1>4. /\ Cardinality(Granted) * MaxConnections \in Nat
      /\ Cardinality(Requests) * MaxConnections \in Nat
      /\ issued \in Nat
  BY Bounds, GrantedFinite DEF ServiceInv
<1>5. issued <= Cardinality(Requests) * MaxConnections
  BY <1>3, <1>4 DEF ServiceInv
<1> DEFINE top == Cardinality(Requests) * MaxConnections
<1>6. held \subseteq 1..top
  <2> HIDE DEF top
  <2>1. top \in Nat /\ issued <= top BY <1>4, <1>5 DEF top
  <2> QED BY <1>4, <2>1 DEF ServiceInv
<1> QED BY <1>5, <1>6 DEF Leases

(***************************************************************************)
(* The leases                                                              *)
(***************************************************************************)
LeaseSet == [st : {"none", "granted", "owned", "releaseClaimed", "released"},
             of : Requests \cup {None}, begun : 0..MaxOperations]
ClaimSet == [pc : {"off", "tail", "reset", "handback", "done"}, reset : BOOLEAN]
Operations == {"off", "queued", "metadata", "session"}
Calls == {"off", "waiting", "published", "refused"}

LEMMA LeasesTyped ==
  ASSUME LeasesInv
  PROVE  /\ state \in {"active", "retiring", "retired"}
         /\ acquiring \in [Requests -> Calls]
         /\ lease \in [Leases -> LeaseSet]
         /\ operation \in [Leases -> Operations]
         /\ releasing \in [Leases -> ClaimSet]
         /\ \A g \in Leases : lease[g] \in LeaseSet /\ releasing[g] \in ClaimSet
BY DEF LeasesInv, LeasesTypeOK, LeaseSet, ClaimSet, Operations, Calls

\* A lease that a step does not touch stays sound.
LEMMA Untouched ==
  ASSUME NEW g \in Leases, LeaseSound(g), g \in Nat,
         lease'[g] = lease[g], operation'[g] = operation[g], releasing'[g] = releasing[g],
         g \in held' <=> g \in held,
         issued \in Nat, issued' \in Nat, issued <= issued',
         lease[g].st = "granted" =>
           /\ acquiring'[lease[g].of] = "waiting" /\ answer'[lease[g].of] = "granted"
  PROVE  LeaseSound(g)'
<1>1. g > issued' => g > issued OBVIOUS
<1> QED BY <1>1 DEF LeaseSound

LEMMA AcquireKeeps ==
  ASSUME LeasesInv, NEW r \in Requests, NEW n \in 1..MaxConnections, Acquire(r, n)
  PROVE  LeasesInv'
<1>0. /\ acquiring[r] = "off" /\ UNCHANGED <<state, lease, operation, releasing>>
      /\ \/ acquiring' = [acquiring EXCEPT ![r] = "refused"] /\ UNCHANGED pool
         \/ /\ acquiring' = [acquiring EXCEPT ![r] = "waiting"]
            /\ Enqueue(r, n) \/ Refuse(r, n)
  BY DEF Acquire
<1>1. ServiceInv BY DEF LeasesInv
<1>2. ServiceInv'
  <2>1. CASE UNCHANGED pool
    <3>1. Granted' = Granted BY <2>1 DEF Granted, pool
    <3> QED BY <1>1, <2>1, <3>1 DEF ServiceInv, pool
  <2> QED BY <1>0, <1>1, <2>1, EnqueueKeeps, RefuseKeeps
<1>3. /\ held' = held /\ issued' = issued
      /\ \A q \in Requests : q # r => answer'[q] = answer[q]
      /\ answer'[r] \in {"waiting", "rejected"} => acquiring'[r] = "waiting" \/ answer'[r] = answer[r]
      /\ answer[r] # "new" => answer'[r] = answer[r]
  BY <1>0, <1>1, LeasesTyped DEF pool, Enqueue, Refuse, ServiceInv
<1>4. /\ acquiring' \in [Requests -> Calls]
      /\ \A q \in Requests : q # r => acquiring'[q] = acquiring[q]
  BY <1>0, LeasesTyped DEF Calls
<1>5. ASSUME NEW g \in Leases PROVE LeaseSound(g)'
  <2>1. LeaseSound(g) BY DEF LeasesInv
  <2>2. lease[g].st = "granted" =>
          /\ lease[g].of \in Requests /\ lease[g].of # r
          /\ acquiring[lease[g].of] = "waiting" /\ answer[lease[g].of] = "granted"
    BY <1>0, <2>1 DEF LeaseSound
  <2>3. issued \in Nat /\ issued' \in Nat /\ issued <= issued' /\ g \in Nat
    BY <1>1, <1>3, Bounds DEF ServiceInv
  <2> QED BY <1>0, <1>3, <1>4, <2>1, <2>2, <2>3, Untouched
<1>6. \A q \in Requests : answer'[q] = "waiting" => acquiring'[q] = "waiting"
  BY <1>0, <1>3, <1>4 DEF LeasesInv
<1>7. LeasesTypeOK'
  BY <1>0, <1>4, LeasesTyped DEF LeasesTypeOK, LeaseSet, ClaimSet, Operations, Calls
<1> QED BY <1>2, <1>5, <1>6, <1>7 DEF LeasesInv

LEMMA PoolGrantsKeeps ==
  ASSUME LeasesInv, PoolGrants
  PROVE  LeasesInv'
<1> DEFINE r == Head(queue)
<1>0. /\ Grant /\ UNCHANGED <<state, acquiring, operation, releasing>>
      /\ lease' = [g \in Leases |->
           IF g \in held' \ held THEN [lease[g] EXCEPT !.st = "granted", !.of = r]
           ELSE lease[g]]
  BY DEF PoolGrants
<1>1. ServiceInv BY DEF LeasesInv
<1>2. /\ ServiceInv'
      /\ issued' \in Nat /\ issued <= issued'
      /\ r \in Requests /\ answer[r] = "waiting"
      /\ answer' = [answer EXCEPT ![r] = "granted"]
      /\ held' = held \cup (issued + 1)..issued'
  BY <1>0, <1>1, GrantKeeps
<1> HIDE DEF r
<1>3. issued \in Nat /\ held \subseteq 1..issued /\ answer \in [Requests -> {"new", "waiting", "granted", "rejected"}]
  BY <1>1 DEF ServiceInv
<1>4. acquiring[r] = "waiting" BY <1>2 DEF LeasesInv
<1>5. ASSUME NEW g \in Leases PROVE LeaseSound(g)'
  <2>1. LeaseSound(g) /\ g \in Nat /\ lease[g] \in LeaseSet BY Bounds, LeasesTyped DEF LeasesInv
  <2>2. CASE g \in held' \ held
    <3>1. g > issued /\ g <= issued' BY <1>2, <1>3, <2>1, <2>2
    <3>2. lease[g].st = "none" BY <2>1, <3>1 DEF LeaseSound
    <3>3. lease'[g].st = "granted" /\ lease'[g].of = r
      BY <1>0, <2>1, <2>2 DEF LeaseSet
    <3>4. operation[g] = "off" /\ releasing[g].pc \notin {"tail", "reset", "handback"}
      BY <2>1, <3>2 DEF LeaseSound
    <3>5. ~(g > issued') BY <1>2, <2>1, <3>1
    <3>6. answer'[r] = "granted" /\ acquiring'[r] = "waiting" BY <1>0, <1>2, <1>3, <1>4
    <3> QED BY <1>0, <1>2, <2>2, <3>3, <3>4, <3>5, <3>6 DEF LeaseSound, HasSession
  <2>3. CASE g \notin held' \ held
    <3>1. lease'[g] = lease[g] BY <1>0, <2>3
    <3>2. g \in held' <=> g \in held BY <1>2, <2>3
    <3>3. lease[g].st = "granted" =>
            /\ lease[g].of \in Requests /\ acquiring[lease[g].of] = "waiting"
            /\ answer[lease[g].of] = "granted"
      BY <2>1 DEF LeaseSound
    <3>4. lease[g].st = "granted" =>
            acquiring'[lease[g].of] = "waiting" /\ answer'[lease[g].of] = "granted"
      BY <1>0, <1>2, <1>3, <3>3
    <3> QED BY <1>0, <1>2, <1>3, <2>1, <3>1, <3>2, <3>4, Untouched
  <2> QED BY <2>2, <2>3
<1>6. \A q \in Requests : answer'[q] = "waiting" => acquiring'[q] = "waiting"
  BY <1>0, <1>2, <1>3 DEF LeasesInv
<1>7. lease' \in [Leases -> LeaseSet]
  <2>1. ASSUME NEW g \in Leases PROVE lease'[g] \in LeaseSet
    <3>1. lease[g] \in LeaseSet BY LeasesTyped
    <3>2. [lease[g] EXCEPT !.st = "granted", !.of = r] \in LeaseSet
      BY <1>2, <3>1 DEF LeaseSet
    <3> QED BY <1>0, <3>1, <3>2
  <2> QED BY <1>0, <2>1
<1>8. LeasesTypeOK'
  BY <1>0, <1>7, LeasesTyped DEF LeasesTypeOK, LeaseSet, ClaimSet, Operations, Calls
<1> QED BY <1>2, <1>5, <1>6, <1>8 DEF LeasesInv

LEMMA PoolDropsKeeps ==
  ASSUME LeasesInv, NEW i \in DOMAIN queue, Drop(i), UNCHANGED <<state, records>>
  PROVE  LeasesInv'
<1>1. ServiceInv BY DEF LeasesInv
<1>2. ServiceInv' BY <1>1, DropKeeps
<1>3. /\ queue[i] \in Requests /\ answer[queue[i]] = "waiting"
      /\ answer' = [answer EXCEPT ![queue[i]] = "rejected"]
      /\ held' = held /\ issued' = issued
      /\ UNCHANGED <<acquiring, lease, operation, releasing, state>>
  BY <1>1, QueueTyped DEF Drop, ServiceInv, records
<1>4. answer \in [Requests -> {"new", "waiting", "granted", "rejected"}] /\ issued \in Nat
  BY <1>1 DEF ServiceInv
<1>5. ASSUME NEW g \in Leases PROVE LeaseSound(g)'
  <2>1. LeaseSound(g) /\ g \in Nat BY Bounds DEF LeasesInv
  <2>2. lease[g].st = "granted" =>
            acquiring'[lease[g].of] = "waiting" /\ answer'[lease[g].of] = "granted"
    BY <1>3, <1>4, <2>1 DEF LeaseSound
  <2> QED BY <1>3, <1>4, <2>1, <2>2, Untouched
<1>6. \A q \in Requests : answer'[q] = "waiting" => acquiring'[q] = "waiting"
  BY <1>3, <1>4 DEF LeasesInv
<1>7. LeasesTypeOK' BY <1>3 DEF LeasesInv, LeasesTypeOK
<1> QED BY <1>2, <1>5, <1>6, <1>7 DEF LeasesInv

LEMMA BecomeKeepsType ==
  ASSUME LeasesInv, NEW S, NEW st \in {"owned", "releaseClaimed", "released"}, Become(S, st)
  PROVE  /\ lease' \in [Leases -> LeaseSet]
         /\ \A g \in Leases :
              IF g \in S THEN lease'[g].st = st /\ lease'[g].of = lease[g].of
              ELSE lease'[g] = lease[g]
<1>1. ASSUME NEW g \in Leases
      PROVE  /\ lease'[g] \in LeaseSet
             /\ IF g \in S THEN lease'[g].st = st /\ lease'[g].of = lease[g].of
                ELSE lease'[g] = lease[g]
  <2>1. lease[g] \in LeaseSet BY LeasesTyped
  <2>2. lease'[g] = IF g \in S THEN [lease[g] EXCEPT !.st = st] ELSE lease[g] BY DEF Become
  <2>3. [lease[g] EXCEPT !.st = st] \in LeaseSet BY <2>1 DEF LeaseSet
  <2>4. [lease[g] EXCEPT !.st = st].st = st /\ [lease[g] EXCEPT !.st = st].of = lease[g].of
    BY <2>1 DEF LeaseSet
  <2> QED BY <2>1, <2>2, <2>3, <2>4
<1>2. lease' = [g \in Leases |-> lease'[g]] BY DEF Become
<1> QED BY <1>1, <1>2

LEMMA AcquiredKeeps ==
  ASSUME LeasesInv, NEW r \in Requests, Acquired(r)
  PROVE  LeasesInv'
<1>0. /\ acquiring[r] = "waiting"
      /\ UNCHANGED <<gate, queue, answer, wants, issued, state, operation, releasing>>
      /\ \/ /\ answer[r] = "rejected" /\ acquiring' = [acquiring EXCEPT ![r] = "refused"]
            /\ UNCHANGED <<held, lease>>
         \/ /\ answer[r] = "granted" /\ acquiring' = [acquiring EXCEPT ![r] = "published"]
            /\ Become(GrantedTo(r), "owned") /\ UNCHANGED held
         \/ /\ answer[r] = "granted" /\ acquiring' = [acquiring EXCEPT ![r] = "refused"]
            /\ Become(GrantedTo(r), "released") /\ held' = held \ GrantedTo(r)
  BY DEF Acquired
<1>1. ServiceInv BY DEF LeasesInv
<1>2. ServiceInv'
  <2>1. \E S : held' = held \ S
    <3>1. CASE held' = held \ GrantedTo(r) BY <3>1
    <3>2. CASE held' = held
      <4>1. held' = held \ {} BY <3>2
      <4> QED BY <4>1
    <3> QED BY <1>0, <3>1, <3>2
  <2> QED BY <1>0, <1>1, <2>1, BackKeeps
<1>3. /\ acquiring' \in [Requests -> Calls]
      /\ \A q \in Requests : q # r => acquiring'[q] = acquiring[q]
  BY <1>0, LeasesTyped DEF Calls
<1>4. issued' = issued /\ issued \in Nat /\ answer' = answer BY <1>0, <1>1 DEF ServiceInv
<1>5. ASSUME NEW g \in Leases, lease'[g] = lease[g], g \in held' <=> g \in held,
             lease[g].st = "granted" => lease[g].of # r
      PROVE  LeaseSound(g)'
  <2>1. LeaseSound(g) /\ g \in Nat BY Bounds DEF LeasesInv
  <2>2. lease[g].st = "granted" =>
            acquiring'[lease[g].of] = "waiting" /\ answer'[lease[g].of] = "granted"
    BY <1>3, <1>4, <1>5, <2>1 DEF LeaseSound
  <2> QED BY <1>0, <1>4, <1>5, <2>1, <2>2, Untouched
<1>6. lease' \in [Leases -> LeaseSet] /\ \A g \in Leases : LeaseSound(g)'
  <2>1. CASE answer[r] = "rejected"
    <3>1. held' = held /\ lease' = lease BY <1>0, <2>1
    <3>2. \A g \in Leases : lease[g].st = "granted" => lease[g].of # r
      BY <2>1 DEF LeasesInv, LeaseSound
    <3> QED BY <1>5, <3>1, <3>2, LeasesTyped
  <2>2. CASE answer[r] # "rejected"
    <3>1. PICK st \in {"owned", "released"} :
            /\ Become(GrantedTo(r), st)
            /\ st = "owned" => held' = held
            /\ st = "released" => held' = held \ GrantedTo(r)
      BY <1>0, <2>2
    <3>2. /\ lease' \in [Leases -> LeaseSet]
          /\ \A g \in Leases :
               IF g \in GrantedTo(r) THEN lease'[g].st = st /\ lease'[g].of = lease[g].of
               ELSE lease'[g] = lease[g]
      BY <3>1, BecomeKeepsType
    <3>3. ASSUME NEW g \in Leases, g \notin GrantedTo(r) PROVE LeaseSound(g)'
      <4>1. lease[g].st = "granted" => lease[g].of # r BY <3>3 DEF GrantedTo
      <4>2. g \in held' <=> g \in held BY <3>1, <3>3
      <4> QED BY <1>5, <3>2, <3>3, <4>1, <4>2
    <3>4. ASSUME NEW g \in Leases, g \in GrantedTo(r) PROVE LeaseSound(g)'
      <4>1. LeaseSound(g) /\ lease[g].st = "granted" /\ lease'[g].st = st
        BY <3>2, <3>4 DEF LeasesInv, GrantedTo
      <4>2. g \in held /\ ~(g > issued) /\ operation[g] = "off"
            /\ releasing[g].pc \notin {"tail", "reset", "handback"}
        BY <4>1, Bounds DEF LeaseSound, HasSession
      <4>3. g \in held' <=> st = "owned" BY <3>1, <3>4, <4>2
      <4> QED BY <1>0, <1>4, <4>1, <4>2, <4>3 DEF LeaseSound, HasSession
    <3> QED BY <3>2, <3>3, <3>4
  <2> QED BY <2>1, <2>2
<1>7. \A q \in Requests : answer'[q] = "waiting" => acquiring'[q] = "waiting"
  BY <1>0, <1>3 DEF LeasesInv
<1>8. LeasesTypeOK'
  BY <1>0, <1>3, <1>6, LeasesTyped DEF LeasesTypeOK, LeaseSet, ClaimSet, Operations, Calls
<1> QED BY <1>2, <1>6, <1>7, <1>8 DEF LeasesInv

\* What is done under one lease disturbs no other.
LEMMA OneLease ==
  ASSUME LeasesInv, NEW g \in Leases,
         UNCHANGED <<gate, queue, answer, wants, issued, state, acquiring>>,
         held' = held \/ held' = held \ {g},
         lease' \in [Leases -> LeaseSet], operation' \in [Leases -> Operations],
         releasing' \in [Leases -> ClaimSet],
         \A h \in Leases \ {g} :
           lease'[h] = lease[h] /\ operation'[h] = operation[h] /\ releasing'[h] = releasing[h],
         LeaseSound(g)'
  PROVE  LeasesInv'
<1>1. ServiceInv /\ LeasesTypeOK /\ (\A h \in Leases : LeaseSound(h))
      /\ \A r \in Requests : answer[r] = "waiting" => acquiring[r] = "waiting"
  BY DEF LeasesInv
<1>2. ServiceInv'
  <2>1. held' = held \ {} \/ held' = held \ {g} OBVIOUS
  <2> QED BY <1>1, <2>1, BackKeeps
<1>3. ASSUME NEW h \in Leases, h # g PROVE LeaseSound(h)'
  <2>1. LeaseSound(h) /\ h \in Nat /\ issued \in Nat BY <1>1, Bounds DEF ServiceInv
  <2>2. h \in held' <=> h \in held BY <1>3
  <2>3. lease[h].st = "granted" =>
            acquiring'[lease[h].of] = "waiting" /\ answer'[lease[h].of] = "granted"
    BY <2>1 DEF LeaseSound
  <2> QED BY <1>3, <2>1, <2>2, <2>3, Untouched
<1>4. LeasesTypeOK'
  BY <1>1 DEF LeasesTypeOK, LeaseSet, ClaimSet, Operations
<1> QED BY <1>1, <1>2, <1>3, <1>4 DEF LeasesInv

LEMMA StartKeeps ==
  ASSUME LeasesInv, NEW g \in Leases, Start(g)
  PROVE  LeasesInv'
<1>0. /\ lease[g].st = "owned" /\ operation[g] = "off" /\ lease[g].begun < MaxOperations
      /\ lease' = [lease EXCEPT ![g].begun = @ + 1]
      /\ operation' = [operation EXCEPT ![g] = "queued"]
      /\ UNCHANGED <<gate, queue, answer, wants, issued, held, state, acquiring, releasing>>
  BY DEF Start, pool
<1>1. LeaseSound(g) /\ lease[g] \in LeaseSet BY LeasesTyped DEF LeasesInv
<1>2. PICK e : e = [lease[g] EXCEPT !.begun = @ + 1] OBVIOUS
<1>3. e \in LeaseSet /\ e.st = "owned"
  <2>1. MaxOperations \in Nat BY LeasesAssumption
  <2>2. lease[g].begun + 1 \in 0..MaxOperations BY <1>0, <1>1, <2>1 DEF LeaseSet
  <2> QED BY <1>0, <1>1, <1>2, <2>2 DEF LeaseSet
<1>4. lease' = [lease EXCEPT ![g] = e] BY <1>0, <1>2
<1>5. /\ lease' \in [Leases -> LeaseSet] /\ operation' \in [Leases -> Operations]
      /\ releasing' \in [Leases -> ClaimSet]
      /\ lease'[g] = e /\ operation'[g] = "queued"
      /\ \A h \in Leases \ {g} : lease'[h] = lease[h] /\ operation'[h] = operation[h]
  BY <1>0, <1>3, <1>4, LeasesTyped DEF Operations
<1>6. LeaseSound(g)' BY <1>0, <1>1, <1>3, <1>5 DEF LeaseSound, HasSession
<1> QED BY <1>0, <1>5, <1>6, OneLease

LEMMA OperationKeeps ==
  ASSUME LeasesInv, NEW g \in Leases, operation[g] # "off",
         NEW at \in Operations, operation' = [operation EXCEPT ![g] = at],
         UNCHANGED <<pool, state, acquiring, lease, releasing>>
  PROVE  LeasesInv'
<1>1. LeaseSound(g) BY DEF LeasesInv
<1>2. /\ lease' \in [Leases -> LeaseSet] /\ operation' \in [Leases -> Operations]
      /\ releasing' \in [Leases -> ClaimSet]
      /\ operation'[g] = at
      /\ \A h \in Leases \ {g} : operation'[h] = operation[h]
  BY LeasesTyped DEF Operations
<1>3. LeaseSound(g)' BY <1>1, <1>2 DEF LeaseSound, HasSession, pool
<1> QED BY <1>2, <1>3, OneLease DEF pool

LEMMA ProceedKeeps ==
  ASSUME LeasesInv, NEW g \in Leases, Proceed(g) \/ SessionEnds(g)
  PROVE  LeasesInv'
<1>1. /\ operation[g] # "off" /\ UNCHANGED <<pool, state, acquiring, lease, releasing>>
      /\ \E at \in Operations : operation' = [operation EXCEPT ![g] = at]
  BY DEF Proceed, SessionEnds, Enters, Operations
<1> QED BY <1>1, OperationKeeps

LEMMA ClaimKeeps ==
  ASSUME LeasesInv, NEW g \in Leases, NEW reset \in BOOLEAN, Claim(g, reset)
  PROVE  LeasesInv'
<1>0. /\ lease[g].st = "owned" /\ Become({g}, "releaseClaimed")
      /\ releasing' = [releasing EXCEPT ![g] = [pc |-> "tail", reset |-> reset]]
      /\ UNCHANGED <<gate, queue, answer, wants, issued, held, state, acquiring, operation>>
  BY DEF Claim, pool
<1>1. LeaseSound(g) BY DEF LeasesInv
<1>2. /\ lease' \in [Leases -> LeaseSet] /\ lease'[g].st = "releaseClaimed"
      /\ \A h \in Leases \ {g} : lease'[h] = lease[h]
  BY <1>0, BecomeKeepsType
<1>3. /\ releasing' \in [Leases -> ClaimSet] /\ releasing'[g].pc = "tail"
      /\ \A h \in Leases \ {g} : releasing'[h] = releasing[h]
  BY <1>0, LeasesTyped DEF ClaimSet
<1>4. LeaseSound(g)' BY <1>0, <1>1, <1>2, <1>3 DEF LeaseSound, HasSession
<1> QED BY <1>0, <1>2, <1>3, <1>4, OneLease, LeasesTyped

LEMMA AwaitsTailKeeps ==
  ASSUME LeasesInv, NEW g \in Leases, AwaitsTail(g) \/ ResetEnds(g)
  PROVE  LeasesInv'
<1>0. UNCHANGED <<gate, queue, answer, wants, issued, held, state, acquiring, lease, operation>>
  BY DEF AwaitsTail, ResetEnds, pool
<1>1. LeaseSound(g) /\ releasing[g] \in ClaimSet BY LeasesTyped DEF LeasesInv
<1>2. PICK c \in ClaimSet :
        /\ releasing' = [releasing EXCEPT ![g] = c]
        /\ c.pc \in {"reset", "handback"} /\ operation[g] = "off"
        /\ releasing[g].pc \in {"tail", "reset"}
  <2>1. CASE AwaitsTail(g)
    <3>1. PICK pc \in {"reset", "handback"} :
            releasing' = [releasing EXCEPT ![g] = [pc |-> pc, reset |-> FALSE]]
      BY <2>1 DEF AwaitsTail
    <3>2. [pc |-> pc, reset |-> FALSE] \in ClaimSet BY DEF ClaimSet
    <3>3. operation[g] = "off" /\ releasing[g].pc = "tail" BY <2>1 DEF AwaitsTail, TailIsOver
    <3> QED BY <3>1, <3>2, <3>3
  <2>2. CASE ResetEnds(g)
    <3>1. PICK c : c = [releasing[g] EXCEPT !.pc = "handback"] OBVIOUS
    <3>2. c \in ClaimSet /\ c.pc = "handback" BY <1>1, <3>1 DEF ClaimSet
    <3>3. releasing' = [releasing EXCEPT ![g] = c] /\ releasing[g].pc = "reset"
      BY <2>2, <3>1 DEF ResetEnds
    <3> QED BY <1>1, <3>2, <3>3 DEF LeaseSound
  <2> QED BY <2>1, <2>2
<1>3. /\ releasing' \in [Leases -> ClaimSet] /\ releasing'[g] = c
      /\ \A h \in Leases \ {g} : releasing'[h] = releasing[h]
  BY <1>2, LeasesTyped
<1>4. LeaseSound(g)' BY <1>0, <1>1, <1>2, <1>3 DEF LeaseSound, HasSession
<1> QED BY <1>0, <1>3, <1>4, OneLease, LeasesTyped

LEMMA HandsBackKeeps ==
  ASSUME LeasesInv, NEW g \in Leases, HandsBack(g)
  PROVE  LeasesInv'
<1>0. /\ releasing[g].pc = "handback" /\ Become({g}, "released")
      /\ releasing' = [releasing EXCEPT ![g].pc = "done"]
      /\ held' = held \ {g}
      /\ UNCHANGED <<gate, queue, answer, wants, issued, state, acquiring, operation>>
  BY DEF HandsBack, GiveBack
<1>1. LeaseSound(g) /\ releasing[g] \in ClaimSet BY LeasesTyped DEF LeasesInv
<1>2. /\ lease' \in [Leases -> LeaseSet] /\ lease'[g].st = "released"
      /\ \A h \in Leases \ {g} : lease'[h] = lease[h]
  BY <1>0, BecomeKeepsType
<1>3. PICK c : c = [releasing[g] EXCEPT !.pc = "done"] OBVIOUS
<1>4. c \in ClaimSet /\ c.pc = "done" BY <1>1, <1>3 DEF ClaimSet
<1>5. releasing' = [releasing EXCEPT ![g] = c] BY <1>0, <1>3
<1>6. /\ releasing' \in [Leases -> ClaimSet] /\ releasing'[g] = c
      /\ \A h \in Leases \ {g} : releasing'[h] = releasing[h]
  BY <1>4, <1>5, LeasesTyped
<1>7. LeaseSound(g)'
  <2>1. lease[g].st = "releaseClaimed" /\ operation[g] = "off" BY <1>0, <1>1 DEF LeaseSound
  <2>2. ~(g > issued) BY <1>1, <2>1 DEF LeaseSound
  <2> QED BY <1>0, <1>2, <1>4, <1>6, <2>1, <2>2 DEF LeaseSound, HasSession
<1> QED BY <1>0, <1>2, <1>6, <1>7, OneLease, LeasesTyped

LEMMA LeaseStepsKeep ==
  ASSUME LeasesInv, LeaseSteps, callers.requests \subseteq Requests
  PROVE  LeasesInv'
<1>1. CASE \E r \in callers.requests : (\E n \in 1..MaxConnections : Acquire(r, n)) \/ Acquired(r)
  BY <1>1, AcquireKeeps, AcquiredKeeps
<1>2. CASE PoolGrants
  BY <1>2, PoolGrantsKeeps
<1>3. CASE PoolDrops
  BY <1>3, PoolDropsKeeps DEF PoolDrops
<1>4. CASE \E g \in Leases : Uses(g) \/ Continues(g)
  BY <1>4, StartKeeps, ClaimKeeps, ProceedKeeps, AwaitsTailKeeps, HandsBackKeeps
  DEF Uses, Continues
<1> QED BY <1>1, <1>2, <1>3, <1>4 DEF LeaseSteps

(***************************************************************************)
(* The generations                                                         *)
(***************************************************************************)
LoadSet == [pc : {"idle", "ended"} \cup Running, key : Keys, optimized : BOOLEAN,
            epoch : Nat, version : Versions]
Entries == [load : Loads, version : Versions \ {0}]
RefreshSet == [pc : {"off", "asking", "answered", "fulfilled", "failed"},
               names : SUBSET Names, records : SUBSET Records,
               before : SUBSET Loads, seen : [Names -> Versions]]
Answers == {"idle", "waiting", "answered", "refused", "failed", "canceled"}

VersionInv == version \in [Names -> Versions] /\ \A n \in Names : version[n] # 0
CacheInv ==
  /\ cache = [k \in Keys |-> cache[k]] /\ epoch \in [Keys -> Nat]
  /\ \A k \in Keys : cache[k] = NoEntry \/ cache[k] \in Entries
LoadInv ==
  load \in [Loads -> LoadSet] /\ \A l \in Loads : load[l].pc = "read" => load[l].version # 0
RefreshInv == refresh \in RefreshSet /\ asked \in [RefreshCalls -> Answers]

LEMMA GenerationsParts ==
  GenerationsInv <=>
    VersionInv /\ CacheInv /\ LoadInv /\ tokens \in Seq(Records) /\ RefreshInv
BY DEF GenerationsInv, GenerationsTypeOK, VersionInv, CacheInv, LoadInv, RefreshInv,
       LoadSet, Entries, RefreshSet, Answers

LEMMA GenerationsPartsNext ==
  GenerationsInv' <=>
    VersionInv' /\ CacheInv' /\ LoadInv' /\ (tokens \in Seq(Records))' /\ RefreshInv'
BY GenerationsParts, PTL

LEMMA GenerationBounds ==
  /\ MaxEntries \in Nat /\ MaxLoads \in Nat /\ MaxRefreshes \in Nat
  /\ MaxVersion \in Nat \ {0} /\ 0 \in Versions /\ 1 \in Versions
  /\ \A k \in Keys : NameOf[k] \in Names
  /\ (CHOOSE k \in Keys : TRUE) \in Keys
BY GenerationsAssumption DEF Versions, Names

LEMMA NoLoadTyped ==
  ASSUME NEW pc \in {"idle", "ended"}
  PROVE  NoLoad(pc) \in LoadSet /\ NoLoad(pc).pc = pc
BY GenerationBounds DEF NoLoad, LoadSet

LEMMA NoRefreshTyped == NoRefresh \in RefreshSet
<1>1. [n \in Names |-> 0] \in [Names -> Versions] BY GenerationBounds
<1> QED BY <1>1 DEF NoRefresh, RefreshSet

\* One load moves on.
LEMMA LoadMoves ==
  ASSUME LoadInv, NEW l \in Loads, NEW x \in LoadSet, load' = [load EXCEPT ![l] = x],
         x.pc = "read" => x.version # 0
  PROVE  /\ LoadInv'
         /\ x.pc \notin Running => Loading' \subseteq Loading
         /\ load[l].pc \in Running => Loading' \subseteq Loading
<1>1. load' \in [Loads -> LoadSet] /\ load'[l] = x
      /\ \A m \in Loads : m # l => load'[m] = load[m]
  BY DEF LoadInv
<1>2. LoadInv' BY <1>1 DEF LoadInv
<1> QED BY <1>1, <1>2 DEF Loading

LEMMA NewestTyped ==
  ASSUME NEW S, NEW s \in Seq(S), NEW n \in Nat
  PROVE  Newest(s, n) \in Seq(S)
<1>1. CASE Len(s) <= n BY <1>1 DEF Newest
<1>2. CASE Len(s) > n
  <2>1. Len(s) \in Nat /\ Len(s) - n + 1 \in 1..(Len(s) + 1) BY <1>2
  <2>2. Len(s) \in (Len(s) - n + 1 - 1)..Len(s) BY <2>1
  <2>3. SubSeq(s, Len(s) - n + 1, Len(s)) \in Seq(S) BY <2>1, <2>2, SubSeqProperties
  <2> QED BY <1>2, <2>3 DEF Newest
<1>3. Len(s) <= n \/ Len(s) > n OBVIOUS
<1> QED BY <1>1, <1>2, <1>3

LEMMA BeginsKeeps ==
  ASSUME GenerationsInv, NEW l \in Loads, NEW k \in Keys, NEW optimized \in BOOLEAN,
         Begins(l, k, optimized)
  PROVE  GenerationsInv' /\ (tokens = <<>> => tokens' = <<>>)
<1> DEFINE x == [pc |-> "reading", key |-> k, optimized |-> optimized,
                 epoch |-> epoch[k], version |-> 0]
<1>0. VersionInv /\ CacheInv /\ LoadInv /\ tokens \in Seq(Records) /\ RefreshInv
  BY GenerationsParts
<1>1. x \in LoadSet
  <2>1. epoch[k] \in Nat BY <1>0 DEF CacheInv
  <2> QED BY <2>1, GenerationBounds DEF LoadSet, Running
<1>2. load' = [load EXCEPT ![l] = x] /\ x.pc = "reading" BY DEF Begins
<1> HIDE DEF x
<1>3. LoadInv' BY <1>0, <1>1, <1>2, LoadMoves
<1>4. tokens' = tokens \/ tokens' = Without({k}) BY DEF Begins
<1>5. tokens' \in Seq(Records) /\ (tokens = <<>> => tokens' = <<>>)
  BY <1>0, <1>4, WithoutElements
<1>6. VersionInv' /\ CacheInv' /\ RefreshInv'
  BY <1>0 DEF Begins, VersionInv, CacheInv, RefreshInv
<1> QED BY <1>3, <1>5, <1>6, GenerationsPartsNext

LEMMA ReadsKeeps ==
  ASSUME GenerationsInv, NEW l \in Loads, Reads(l)
  PROVE  GenerationsInv' /\ tokens' = tokens /\ Loading' \subseteq Loading
<1> DEFINE v == version[NameOf[load[l].key]]
<1>0. VersionInv /\ CacheInv /\ LoadInv /\ tokens \in Seq(Records) /\ RefreshInv
  BY GenerationsParts
<1>1. load[l] \in LoadSet BY <1>0 DEF LoadInv
<1>2. v \in Versions /\ v # 0
  <2>1. NameOf[load[l].key] \in Names BY <1>1, GenerationBounds DEF LoadSet
  <2> QED BY <1>0, <2>1 DEF VersionInv
<1>3. load[l].pc = "reading" /\ load' = [load EXCEPT ![l] = [@ EXCEPT !.pc = "read", !.version = v]]
  BY DEF Reads
<1> HIDE DEF v
<1>4. PICK x : x = [load[l] EXCEPT !.pc = "read", !.version = v] OBVIOUS
<1>5. x \in LoadSet /\ x.version = v BY <1>1, <1>2, <1>4 DEF LoadSet, Running
<1>6. load' = [load EXCEPT ![l] = x] BY <1>3, <1>4
<1>7. LoadInv' /\ Loading' \subseteq Loading
  BY <1>0, <1>2, <1>3, <1>5, <1>6, LoadMoves DEF Running
<1>8. VersionInv' /\ CacheInv' /\ RefreshInv' /\ tokens' = tokens
  BY <1>0 DEF Reads, VersionInv, CacheInv, RefreshInv
<1> QED BY <1>0, <1>7, <1>8, GenerationsPartsNext

LEMMA FailsKeeps ==
  ASSUME GenerationsInv, NEW l \in Loads, Fails(l)
  PROVE  GenerationsInv' /\ tokens' = tokens /\ Loading' \subseteq Loading
<1>0. VersionInv /\ CacheInv /\ LoadInv /\ tokens \in Seq(Records) /\ RefreshInv
  BY GenerationsParts
<1>1. LoadInv' /\ Loading' \subseteq Loading
  <2>1. load' = [load EXCEPT ![l] = NoLoad("ended")] BY DEF Fails
  <2>2. NoLoad("ended") \in LoadSet /\ NoLoad("ended").pc = "ended" BY NoLoadTyped
  <2> QED BY <1>0, <2>1, <2>2, LoadMoves DEF Running
<1>2. VersionInv' /\ CacheInv' /\ RefreshInv' /\ tokens' = tokens
  BY <1>0 DEF Fails, VersionInv, CacheInv, RefreshInv
<1> QED BY <1>0, <1>1, <1>2, GenerationsPartsNext

LEMMA ReturnsKeeps ==
  ASSUME GenerationsInv, NEW l \in Loads, Returns(l, Active)
  PROVE  GenerationsInv' /\ (~Active => tokens' = tokens) /\ Loading' \subseteq Loading
<1> DEFINE x == load[l]
           r == [key |-> x.key, load |-> l, token |-> x.version]
<1>0. VersionInv /\ CacheInv /\ LoadInv /\ tokens \in Seq(Records) /\ RefreshInv
  BY GenerationsParts
<1>1. x \in LoadSet /\ x.pc = "read" /\ x.version # 0 BY <1>0 DEF LoadInv, Returns
<1>2. LoadInv' /\ Loading' \subseteq Loading
  <2>1. load' = [load EXCEPT ![l] = NoLoad("ended")] BY DEF Returns
  <2>2. NoLoad("ended") \in LoadSet /\ NoLoad("ended").pc = "ended" BY NoLoadTyped
  <2> QED BY <1>0, <2>1, <2>2, LoadMoves DEF Running
<1>3. r \in Records BY <1>1 DEF LoadSet, Records
<1>4. tokens' = tokens \/ RememberGeneration(Active, r)
  BY DEF Returns
<1> HIDE DEF r
<1>5. tokens' \in Seq(Records) /\ (~Active => tokens' = tokens)
  <2>1. CASE tokens' = tokens BY <1>0, <2>1
  <2>2. CASE RememberGeneration(Active, r) /\ tokens' # tokens
    <3>1. /\ Active /\ MaxEntries # 0
          /\ tokens' = Append(Newest(Without({r.key}), MaxEntries - 1), r)
      BY <2>2 DEF RememberGeneration
    <3>2. MaxEntries - 1 \in Nat BY <3>1, GenerationBounds
    <3>3. Without({r.key}) \in Seq(Records) BY <1>0, WithoutElements
    <3>4. Newest(Without({r.key}), MaxEntries - 1) \in Seq(Records) BY <3>2, <3>3, NewestTyped
    <3> QED BY <1>3, <3>1, <3>4, AppendProperties
  <2> QED BY <1>4, <2>1, <2>2
<1>6. CacheInv'
  <2> DEFINE e == [load |-> l, version |-> x.version]
  <2>1. e \in Entries BY <1>1 DEF Entries, LoadSet
  <2>2. epoch' = epoch BY DEF Returns
  <2>3. \/ cache' = cache
        \/ \E victims : cache' = [k \in Keys |->
             IF k = x.key THEN e ELSE IF k \in victims THEN NoEntry ELSE cache[k]]
    BY DEF Returns
  <2> HIDE DEF e, x
  <2>4. CASE cache' = cache BY <1>0, <2>2, <2>4 DEF CacheInv
  <2>5. ASSUME NEW victims, cache' = [k \in Keys |->
             IF k = x.key THEN e ELSE IF k \in victims THEN NoEntry ELSE cache[k]]
        PROVE  CacheInv'
    BY <1>0, <2>1, <2>2, <2>5 DEF CacheInv
  <2> QED BY <2>3, <2>4, <2>5
<1>7. VersionInv' /\ RefreshInv'
  BY <1>0 DEF Returns, VersionInv, RefreshInv
<1> QED BY <1>2, <1>5, <1>6, <1>7, GenerationsPartsNext

\* A step that changes neither loads nor what is cached
LEMMA RefreshMoves ==
  ASSUME GenerationsInv, RefreshInv', UNCHANGED <<version, cache, epoch, load, tokens>>
  PROVE  GenerationsInv' /\ tokens' = tokens /\ Loading' = Loading
<1>1. VersionInv /\ CacheInv /\ LoadInv /\ tokens \in Seq(Records) BY GenerationsParts
<1>2. VersionInv' /\ CacheInv' /\ LoadInv' /\ (tokens \in Seq(Records))' /\ Loading' = Loading
  BY <1>1 DEF VersionInv, CacheInv, LoadInv, Loading
<1> QED BY <1>2, GenerationsPartsNext

LEMMA ChangesKeeps ==
  ASSUME GenerationsInv, NEW n \in Names, Changes(n)
  PROVE  GenerationsInv' /\ tokens' = tokens /\ Loading' = Loading
<1>1. VersionInv /\ CacheInv /\ LoadInv /\ tokens \in Seq(Records) /\ RefreshInv
  BY GenerationsParts
<1>2. version[n] + 1 \in Versions \ {0}
  BY <1>1, GenerationBounds DEF Changes, VersionInv, Versions
<1>3. VersionInv' BY <1>1, <1>2 DEF Changes, VersionInv
<1>4. /\ CacheInv' /\ LoadInv' /\ (tokens \in Seq(Records))' /\ RefreshInv'
      /\ Loading' = Loading /\ tokens' = tokens
  BY <1>1 DEF Changes, CacheInv, LoadInv, RefreshInv, Loading
<1> QED BY <1>3, <1>4, GenerationsPartsNext

LEMMA AskKeeps ==
  ASSUME GenerationsInv, NEW c \in RefreshCalls, NEW names \in SUBSET Names,
         Ask(c, names, Active) \/ Cancel(c)
  PROVE  GenerationsInv' /\ tokens' = tokens /\ Loading' = Loading
<1>1. RefreshInv /\ tokens \in Seq(Records) BY GenerationsParts
<1>2. asked' \in [RefreshCalls -> Answers]
  BY <1>1 DEF Ask, Cancel, RefreshInv, Answers
<1>3. refresh' \in RefreshSet
  <2> DEFINE start == [NoRefresh EXCEPT !.pc = "asking", !.names = names,
                       !.records = RecordsOf(names), !.before = Over]
  <2>1. RecordsOf(names) \in SUBSET Records
    BY <1>1 DEF RecordsOf, ToSet
  <2>2. Over \in SUBSET Loads BY DEF Over
  <2>3. start \in RefreshSet BY <2>1, <2>2, NoRefreshTyped DEF RefreshSet
  <2>4. refresh' = refresh \/ refresh' = start BY DEF Ask, Cancel
  <2> HIDE DEF start
  <2> QED BY <1>1, <2>3, <2>4 DEF RefreshInv
<1>4. RefreshInv' BY <1>2, <1>3 DEF RefreshInv
<1>5. UNCHANGED <<version, cache, epoch, load, tokens>> BY DEF Ask, Cancel
<1> QED BY <1>4, <1>5, RefreshMoves

LEMMA TimestampsKeep ==
  ASSUME GenerationsInv, TimestampsArrive
  PROVE  GenerationsInv' /\ tokens' = tokens /\ Loading' = Loading
<1>1. RefreshInv /\ VersionInv BY GenerationsParts
<1> DEFINE seen == [n \in Names |-> IF n \in refresh.names THEN version[n] ELSE 0]
<1>2. seen \in [Names -> Versions] BY <1>1, GenerationBounds DEF VersionInv
<1>3. \/ refresh' = [refresh EXCEPT !.pc = "answered", !.seen = seen]
      \/ refresh' = [refresh EXCEPT !.pc = "failed"]
  BY DEF TimestampsArrive
<1> HIDE DEF seen
<1>4. refresh' \in RefreshSet BY <1>1, <1>2, <1>3 DEF RefreshInv, RefreshSet
<1>5. RefreshInv' /\ UNCHANGED <<version, cache, epoch, load, tokens>>
  BY <1>1, <1>4 DEF TimestampsArrive, RefreshInv
<1> QED BY <1>5, RefreshMoves

LEMMA ComparesKeeps ==
  ASSUME GenerationsInv, Compares(Active)
  PROVE  GenerationsInv' /\ (tokens = <<>> => tokens' = <<>>) /\ Loading' = Loading
<1>1. VersionInv /\ CacheInv /\ LoadInv /\ tokens \in Seq(Records) /\ RefreshInv
  BY GenerationsParts
<1> DEFINE gone == {r.key : r \in Stale}
<1>2. refresh' \in RefreshSet
  BY <1>1 DEF Compares, RefreshInv, RefreshSet
<1>3. UNCHANGED <<version, load, asked>> BY DEF Compares
<1>4. \/ UNCHANGED <<cache, epoch, tokens>>
      \/ /\ cache' = [k \in Keys |-> IF k \in gone THEN NoEntry ELSE cache[k]]
         /\ epoch' = [k \in Keys |-> IF k \in gone THEN epoch[k] + 1 ELSE epoch[k]]
         /\ tokens' = Without(gone)
  BY DEF Compares
<1> HIDE DEF gone
<1>5. CacheInv' BY <1>1, <1>4 DEF CacheInv
<1>6. tokens' \in Seq(Records) /\ (tokens = <<>> => tokens' = <<>>)
  BY <1>1, <1>4, WithoutElements
<1>7. VersionInv' /\ LoadInv' /\ RefreshInv' /\ Loading' = Loading
  BY <1>1, <1>2, <1>3 DEF VersionInv, LoadInv, RefreshInv, Loading
<1> QED BY <1>5, <1>6, <1>7, GenerationsPartsNext

LEMMA RefreshEndsKeeps ==
  ASSUME GenerationsInv, RefreshEnds
  PROVE  GenerationsInv' /\ tokens' = tokens /\ Loading' = Loading
<1>1. RefreshInv BY GenerationsParts
<1>2. refresh' \in RefreshSet BY NoRefreshTyped DEF RefreshEnds
<1>3. asked' \in [RefreshCalls -> Answers] BY <1>1 DEF RefreshEnds, RefreshInv, Answers
<1>4. RefreshInv' /\ UNCHANGED <<version, cache, epoch, load, tokens>>
  BY <1>2, <1>3 DEF RefreshEnds, RefreshInv
<1> QED BY <1>4, RefreshMoves

LEMMA ForgetsKeeps ==
  ASSUME GenerationsInv, Forgets
  PROVE  GenerationsInv' /\ tokens' = <<>> /\ Loading' = Loading
<1>1. VersionInv /\ CacheInv /\ LoadInv /\ RefreshInv BY GenerationsParts
<1>2. VersionInv' /\ CacheInv' /\ LoadInv' /\ RefreshInv' /\ Loading' = Loading
      /\ tokens' = <<>>
  BY <1>1 DEF Forgets, VersionInv, CacheInv, LoadInv, RefreshInv, Loading
<1>3. tokens' \in Seq(Records) BY <1>2
<1> QED BY <1>2, <1>3, GenerationsPartsNext

LEMMA RepositoryClearsKeeps ==
  ASSUME GenerationsInv, RepositoryClears
  PROVE  GenerationsInv' /\ tokens' = tokens /\ Loading' = Loading
<1>1. VersionInv /\ CacheInv /\ LoadInv /\ tokens \in Seq(Records) /\ RefreshInv
  BY GenerationsParts
<1>2. CacheInv' BY <1>1 DEF RepositoryClears, CacheInv
<1>3. VersionInv' /\ LoadInv' /\ (tokens \in Seq(Records))' /\ RefreshInv'
      /\ tokens' = tokens /\ Loading' = Loading
  BY <1>1 DEF RepositoryClears, VersionInv, LoadInv, RefreshInv, Loading
<1> QED BY <1>2, <1>3, GenerationsPartsNext

LEMMA MetadataStepsKeep ==
  ASSUME GenerationsInv, MetadataSteps, callers \in Workloads
  PROVE  /\ GenerationsInv'
         /\ ~Active => (tokens = <<>> => tokens' = <<>>)
         /\ ~Open => Loading' \subseteq Loading
<1>0. callers.loads \subseteq Loads /\ callers.strategies \subseteq BOOLEAN
      /\ callers.refreshes \subseteq RefreshCalls
  BY WorkloadsAssumption
<1>1. CASE \E n \in Names : Changes(n)
  BY <1>1, ChangesKeeps
<1>2. CASE \E l \in callers.loads :
             Open /\ \E k \in Keys, optimized \in callers.strategies : Begins(l, k, optimized)
  BY <1>0, <1>2, BeginsKeeps
<1>3. CASE \E l \in callers.loads : LoadSteps(l, Active)
  <2>1. PICK l \in Loads : LoadSteps(l, Active) BY <1>0, <1>3
  <2>2. Reads(l) \/ Fails(l) \/ Returns(l, Active) BY <2>1 DEF LoadSteps
  <2> QED BY <2>2, ReadsKeeps, FailsKeeps, ReturnsKeeps
<1>4. CASE \E c \in callers.refreshes :
             (\E names \in SUBSET Names : Ask(c, names, Active)) \/ Cancel(c)
  <2>1. PICK c \in RefreshCalls :
               \E names \in SUBSET Names : Ask(c, names, Active) \/ Cancel(c)
    BY <1>0, <1>4
  <2> QED BY <2>1, AskKeeps
<1>5. CASE RefreshSteps(Active)
  BY <1>5, TimestampsKeep, ComparesKeeps, RefreshEndsKeeps DEF RefreshSteps
<1> QED BY <1>1, <1>2, <1>3, <1>4, <1>5 DEF MetadataSteps

(***************************************************************************)
(* The retirement                                                          *)
(***************************************************************************)
LEMMA InitOwner == ASSUME Init PROVE OwnerInv /\ callers \in Workloads
<1>1. callers \in Workloads BY DEF Init
<1>2. ServiceInv
  <2>1. Granted = {} BY DEF Init, LeasesInit, LSInit, Granted
  <2>2. Cardinality(Granted) * MaxConnections = 0 BY <2>1, Bounds, FS_EmptySet
  <2>3. queue \in Seq(Requests) /\ DOMAIN queue = {} BY DEF Init, LeasesInit, LSInit
  <2> QED BY <2>2, <2>3, Bounds DEF Init, LeasesInit, LSInit, ServiceInv
<1>3. LeasesTypeOK /\ \A g \in Leases : LeaseSound(g)
  <2>1. 0 \in 0..MaxOperations BY LeasesAssumption
  <2>2. LeasesTypeOK BY <2>1 DEF Init, LeasesInit, LeasesTypeOK, Unissued, Unclaimed
  <2>3. \A g \in Leases : LeaseSound(g)
    BY DEF Init, LeasesInit, LSInit, LeaseSound, HasSession, Unissued, Unclaimed
  <2> QED BY <2>2, <2>3
<1>4. \A r \in Requests : answer[r] # "waiting" BY DEF Init, LeasesInit, LSInit
<1>5. VersionInv /\ CacheInv
  BY GenerationBounds DEF Init, GenerationsInit, VersionInv, CacheInv
<1>6. LoadInv /\ RefreshInv /\ tokens \in Seq(Records)
  BY NoLoadTyped, NoRefreshTyped DEF Init, GenerationsInit, LoadInv, RefreshInv, Answers
<1>7. RetirementSound
  BY DEF Init, LeasesInit, GenerationsInit, RetirementSound, Open, Active, None, Parts
<1> QED BY <1>1, <1>2, <1>3, <1>4, <1>5, <1>6, <1>7, GenerationsParts DEF OwnerInv, LeasesInv

LEMMA LeasesStay ==
  ASSUME LeasesInv, UNCHANGED <<pool, records>>, state' \in {"active", "retiring", "retired"}
  PROVE  LeasesInv'
<1>1. ServiceInv' 
  <2>1. Granted' = Granted BY DEF Granted, pool
  <2> QED BY <2>1 DEF LeasesInv, ServiceInv, pool
<1>2. ASSUME NEW g \in Leases PROVE LeaseSound(g)'
  BY DEF LeasesInv, LeaseSound, pool, records
<1> QED BY <1>1, <1>2 DEF LeasesInv, LeasesTypeOK, pool, records

LEMMA GenerationsStay ==
  ASSUME GenerationsInv, UNCHANGED metadataVars
  PROVE  GenerationsInv' /\ tokens' = tokens /\ Loading' = Loading
<1>1. VersionInv /\ CacheInv /\ LoadInv /\ tokens \in Seq(Records) /\ RefreshInv
  BY GenerationsParts
<1>2. VersionInv' /\ CacheInv' /\ LoadInv' /\ (tokens \in Seq(Records))' /\ RefreshInv'
      /\ Loading' = Loading
  BY <1>1 DEF metadataVars, VersionInv, CacheInv, LoadInv, RefreshInv, Loading
<1> QED BY <1>2, GenerationsPartsNext DEF metadataVars

LEMMA GateStays ==
  ASSUME LeaseSteps
  PROVE  gate' = gate
BY DEF LeaseSteps, Acquire, Acquired, PoolGrants, PoolDrops, Uses, Continues, Start, Claim,
       Proceed, SessionEnds, AwaitsTail, ResetEnds, HandsBack, GiveBack, Enqueue, Refuse,
       Grant, Drop, pool

LEMMA LeaseStepsLeaveState ==
  ASSUME LeaseSteps
  PROVE  state' = state /\ UNCHANGED <<metadataVars, retireVars>>
BY DEF LeaseSteps, Acquire, Acquired, PoolGrants, PoolDrops, Uses, Continues, Start, Claim,
       Proceed, SessionEnds, AwaitsTail, ResetEnds, HandsBack

LEMMA ContextsRetiredKeeps ==
  ASSUME OwnerInv, ContextsRetired
  PROVE  OwnerInv'
<1>1. LeasesInv /\ GenerationsInv /\ RetirementSound BY DEF OwnerInv
<1>2. /\ retirement = "contexts" /\ retirement' = "application" /\ Drain
      /\ UNCHANGED <<acquiring, lease, operation, releasing, state, metadataVars, repository>>
      /\ overdue' = overdue \/ overdue' = TRUE
  BY DEF ContextsRetired, Goes, MayOverrun, records
<1>3. ServiceInv' BY <1>1, <1>2, DrainKeeps DEF LeasesInv
<1>4. /\ answer' = [r \in Requests |-> IF answer[r] = "waiting" THEN "rejected" ELSE answer[r]]
      /\ held' = held /\ issued' = issued
  BY <1>2 DEF Drain
<1>5. ASSUME NEW g \in Leases PROVE LeaseSound(g)'
  <2>1. LeaseSound(g) /\ g \in Nat /\ issued \in Nat BY <1>1, Bounds DEF LeasesInv, ServiceInv
  <2>2. lease[g].st = "granted" =>
            acquiring'[lease[g].of] = "waiting" /\ answer'[lease[g].of] = "granted"
    BY <1>2, <1>4, <2>1 DEF LeaseSound
  <2> QED BY <1>2, <1>4, <2>1, <2>2, Untouched
<1>6. \A r \in Requests : answer'[r] # "waiting" BY <1>4
<1>7. LeasesTypeOK' BY <1>1, <1>2 DEF LeasesInv, LeasesTypeOK
<1>8. LeasesInv' BY <1>3, <1>5, <1>6, <1>7 DEF LeasesInv
<1>9. GenerationsInv' /\ tokens' = tokens BY <1>1, <1>2, GenerationsStay
<1>10. RetirementSound'
  BY <1>1, <1>2, <1>9 DEF RetirementSound, Active, Open, None, Parts
<1> QED BY <1>8, <1>9, <1>10 DEF OwnerInv

LEMMA RetirementKeeps ==
  ASSUME OwnerInv, Retire \/ PoolCloses \/ ApplicationRetired \/ RemainingRetired
  PROVE  OwnerInv'
<1>1. LeasesInv /\ GenerationsInv /\ RetirementSound BY DEF OwnerInv
<1>2. CASE Retire
  <2>1. /\ UNCHANGED <<pool, records, repository, overdue>> /\ Forgets
        /\ state' = "retiring" /\ retirement = None /\ retirement' = "contexts"
    BY <1>2 DEF Retire, GateCloses
  <2>2. LeasesInv' BY <1>1, <2>1, LeasesStay
  <2>3. GenerationsInv' /\ tokens' = <<>> BY <1>1, <2>1, ForgetsKeeps
  <2>4. RetirementSound'
    BY <1>1, <2>1, <2>3 DEF RetirementSound, Active, Open, None, Parts
  <2> QED BY <2>2, <2>3, <2>4 DEF OwnerInv
<1>3. CASE PoolCloses
  <2>1. /\ UNCHANGED <<acquiring, lease, operation, releasing, state, metadataVars,
                       repository, retirement, overdue>>
        /\ gate' = "closed" /\ UNCHANGED <<queue, answer, wants, issued, held>> /\ Close
    BY <1>3 DEF PoolCloses, Close, records, retireVars
  <2>2. ServiceInv' BY <1>1, <2>1, CloseKeeps DEF LeasesInv
  <2>3. ASSUME NEW g \in Leases PROVE LeaseSound(g)'
    BY <1>1, <2>1 DEF LeasesInv, LeaseSound
  <2>4. LeasesInv' BY <1>1, <2>1, <2>2, <2>3 DEF LeasesInv, LeasesTypeOK
  <2>5. GenerationsInv' /\ tokens' = tokens /\ Loading' = Loading
    BY <1>1, <2>1, GenerationsStay
  <2>6. RetirementSound' BY <1>1, <2>1, <2>5 DEF RetirementSound, Active, Open
  <2> QED BY <2>4, <2>5, <2>6 DEF OwnerInv
<1>4. CASE ApplicationRetired
  <2>1. /\ UNCHANGED <<pool, records, state>> /\ RepositoryClears
        /\ retirement = "application" /\ retirement' = "remaining" /\ repository' = "retired"
        /\ (gate = "closed" /\ overdue' = overdue) \/ overdue' = TRUE
    BY <1>4 DEF ApplicationRetired, Goes, MayOverrun, ApplicationDone
  <2>2. LeasesInv'
    <3>1. state' \in {"active", "retiring", "retired"} BY <1>1, <2>1, LeasesTyped
    <3> QED BY <1>1, <2>1, <3>1, LeasesStay
  <2>3. GenerationsInv' /\ tokens' = tokens BY <1>1, <2>1, RepositoryClearsKeeps
  <2>4. RetirementSound'
    BY <1>1, <2>1, <2>3 DEF RetirementSound, Active, Open, None, Parts, pool
  <2> QED BY <2>2, <2>3, <2>4 DEF OwnerInv
<1>5. CASE RemainingRetired
  <2>1. /\ UNCHANGED <<pool, records, metadataVars, repository>>
        /\ retirement = "remaining" /\ state' = "retired"
        /\ retirement' = IF ~overdue' THEN "resolved" ELSE "rejected"
        /\ (Loading = {} /\ overdue' = overdue) \/ overdue' = TRUE
    BY <1>5 DEF RemainingRetired, MayOverrun
  <2>2. LeasesInv' BY <1>1, <2>1, LeasesStay
  <2>3. GenerationsInv' /\ tokens' = tokens /\ Loading' = Loading
    BY <1>1, <2>1, GenerationsStay
  <2>4. RetirementSound'
    BY <1>1, <2>1, <2>3 DEF RetirementSound, Active, Open, None, Parts, pool
  <2> QED BY <2>2, <2>3, <2>4 DEF OwnerInv
<1> QED BY <1>2, <1>3, <1>4, <1>5

LEMMA NextOwner ==
  ASSUME OwnerInv, callers \in Workloads, [Next]_vars
  PROVE  OwnerInv' /\ callers' \in Workloads
<1>0. callers' = callers
  BY DEF Next, LeaseSteps, MetadataSteps, Retire, ContextsRetired, PoolCloses,
         ApplicationRetired, RemainingRetired, Goes, retireVars, vars
<1>1. LeasesInv /\ GenerationsInv /\ RetirementSound BY DEF OwnerInv
<1>2. CASE LeaseSteps
  <2>1. callers.requests \subseteq Requests BY WorkloadsAssumption
  <2>2. LeasesInv' BY <1>1, <1>2, <2>1, LeaseStepsKeep
  <2>3. gate' = gate /\ state' = state /\ UNCHANGED <<metadataVars, retireVars>>
    BY <1>2, GateStays, LeaseStepsLeaveState
  <2>4. GenerationsInv' /\ tokens' = tokens /\ Loading' = Loading
    BY <1>1, <2>3, GenerationsStay
  <2>5. RetirementSound'
    BY <1>1, <2>3, <2>4 DEF RetirementSound, Active, Open, retireVars
  <2> QED BY <1>0, <2>2, <2>4, <2>5 DEF OwnerInv
<1>3. CASE MetadataSteps
  <2>1. UNCHANGED <<pool, records, state, retireVars>> BY <1>3 DEF MetadataSteps
  <2>2. LeasesInv'
    <3>1. state' \in {"active", "retiring", "retired"} BY <1>1, <2>1, LeasesTyped
    <3> QED BY <1>1, <2>1, <3>1, LeasesStay
  <2>3. /\ GenerationsInv' /\ (~Active => (tokens = <<>> => tokens' = <<>>))
        /\ ~Open => Loading' \subseteq Loading
    BY <1>1, <1>3, MetadataStepsKeep
  <2>4. RetirementSound'
    BY <1>1, <2>1, <2>3 DEF RetirementSound, Active, Open, retireVars, pool, Parts, None
  <2> QED BY <1>0, <2>2, <2>3, <2>4 DEF OwnerInv
<1>4. CASE UNCHANGED vars
  <2>1. UNCHANGED <<pool, records, state, metadataVars, repository, retirement, overdue>>
    BY <1>4 DEF vars
  <2>2. LeasesInv'
    <3>1. state' \in {"active", "retiring", "retired"} BY <1>1, <2>1, LeasesTyped
    <3> QED BY <1>1, <2>1, <3>1, LeasesStay
  <2>3. GenerationsInv' /\ tokens' = tokens /\ Loading' = Loading
    BY <1>1, <2>1, GenerationsStay
  <2>4. RetirementSound'
    BY <1>1, <2>1, <2>3 DEF RetirementSound, Active, Open, pool
  <2> QED BY <1>0, <2>2, <2>3, <2>4 DEF OwnerInv
<1> QED BY <1>0, <1>2, <1>3, <1>4, ContextsRetiredKeeps, RetirementKeeps DEF Next

(***************************************************************************)
(* Theorems                                                                *)
(***************************************************************************)
\* Every state of the owner satisfies the invariant: the pool's books, the lease
\* records, the calls of releaseApplication(), the metadata tables and the
\* progress of retire() agree.
THEOREM OwnerInvariant == Spec => []OwnerInv
<1> DEFINE Inv == OwnerInv /\ callers \in Workloads
<1>1. Init => Inv BY InitOwner
<1>2. Inv /\ [Next]_vars => Inv' BY NextOwner
<1> QED BY <1>1, <1>2, PTL DEF Spec

LEMMA OwnerAccounts == ASSUME OwnerInv PROVE LeasesAccounted
<1>1. LeasesInv /\ GenerationsInv /\ RetirementSound BY DEF OwnerInv
<1>2. TypeOK
  BY <1>1 DEF TypeOK, LeasesInv, GenerationsInv, RetirementSound
<1>3. held \subseteq Leases BY <1>1, WithinLeases DEF LeasesInv
<1>4. held = {g \in Leases : lease[g].st \in {"granted", "owned", "releaseClaimed"}}
  BY <1>1, <1>3 DEF LeasesInv, LeaseSound, HasSession
<1>5. \A g \in Leases :
       /\ lease[g].st = "granted" => acquiring[lease[g].of] = "waiting"
       /\ operation[g] # "off" => lease[g].st \in {"owned", "releaseClaimed"}
       /\ releasing[g].pc \in {"reset", "handback"} => operation[g] = "off"
  BY <1>1 DEF LeasesInv, LeaseSound
<1>6. gate = "closed" => held = {} /\ \A g \in Leases : operation[g] = "off"
  BY <1>1, <1>4, <1>5 DEF LeasesInv, ServiceInv
<1>7. OrderlyRetirement
  BY <1>1, <1>6 DEF OrderlyRetirement, RetirementSound, LookingUp, Open, None, Parts
<1> QED BY <1>2, <1>4, <1>5, <1>7 DEF LeasesAccounted

\* What acquireApplications() and releaseApplication() promise with the pool: a
\* session that is lent stands in one record, nobody works on it when it goes
\* back, and when retire() has resolved, all have come back and no operation or
\* load is under way.
THEOREM LeasesAreAccounted == Spec => []LeasesAccounted
<1>1. OwnerInv => LeasesAccounted BY OwnerAccounts
<1> QED BY <1>1, OwnerInvariant, PTL

(***************************************************************************)
(* The records of a refresh                                                *)
(***************************************************************************)
LEMMA NewestDrawn ==
  ASSUME NEW s \in Seq(Records), NEW n \in Nat, OneRecord(s)
  PROVE  /\ OneRecord(Newest(s, n))
         /\ \A i \in DOMAIN Newest(s, n) : \E j \in DOMAIN s : Newest(s, n)[i] = s[j]
<1>1. CASE Len(s) <= n BY <1>1 DEF Newest
<1>2. CASE Len(s) > n
  <2> DEFINE m == Len(s) - n + 1
             t == SubSeq(s, m, Len(s))
  <2>1. /\ Len(s) \in Nat /\ m \in 1..(Len(s) + 1)
        /\ Len(s) \in (m - 1)..Len(s) /\ DOMAIN s = 1..Len(s)
    BY <1>2
  <2>2. /\ t \in Seq(Records) /\ Len(t) = IF m <= Len(s) THEN Len(s) - m + 1 ELSE 0
        /\ \A i \in 1..(Len(s) - m + 1) : t[i] = s[m + i - 1]
    BY <2>1, SubSeqProperties
  <2>3. Newest(s, n) = t BY <1>2 DEF Newest
  <2> HIDE DEF m, t
  <2>4. ASSUME NEW i \in DOMAIN t
        PROVE  i \in Int /\ m + i - 1 \in DOMAIN s /\ t[i] = s[m + i - 1]
    <3>1. DOMAIN t = 1..Len(t) BY <2>2
    <3>2. i \in Int /\ i >= 1 /\ i <= Len(s) - m + 1 BY <2>1, <2>2, <3>1
    <3>3. i \in 1..(Len(s) - m + 1) /\ m + i - 1 \in 1..Len(s) BY <2>1, <3>2
    <3> QED BY <2>1, <2>2, <3>2, <3>3
  <2>5. ASSUME NEW i \in DOMAIN t, NEW j \in DOMAIN t, t[i].key = t[j].key PROVE i = j
    <3>1. m + i - 1 = m + j - 1 BY <2>4, <2>5 DEF OneRecord
    <3>2. i \in Int /\ j \in Int /\ m \in Int BY <2>1, <2>4
    <3> QED BY <3>1, <3>2
  <2>6. OneRecord(t) BY <2>5 DEF OneRecord
  <2>7. \A i \in DOMAIN t : \E j \in DOMAIN s : t[i] = s[j] BY <2>4
  <2> QED BY <2>3, <2>6, <2>7
<1>3. Len(s) <= n \/ Len(s) > n OBVIOUS
<1> QED BY <1>1, <1>2, <1>3

\* What has ended has ended.
Ended(l) == load[l].pc = "ended"

\* Tokens drawn from the present ones
LEMMA Drawn ==
  ASSUME GenerationsInv, RecordsInv, \A l \in Loads : Ended(l) => Ended(l)',
         OneRecord(tokens'),
         \A i \in DOMAIN tokens' :
           \/ \E j \in DOMAIN tokens : tokens'[i] = tokens[j]
           \/ tokens'[i].load \in Loads /\ load'[tokens'[i].load].pc = "ended",
         \A r \in refresh'.records : r.load \in refresh'.before
  PROVE  RecordsInv'
<1>1. \A i \in DOMAIN tokens : tokens[i].load \in Loads /\ load[tokens[i].load].pc = "ended"
  <2>1. tokens \in Seq(Records) BY GenerationsParts
  <2>2. \A i \in DOMAIN tokens : tokens[i] \in Records BY <2>1
  <2> QED BY <2>2 DEF RecordsInv, Records
<1>2. \A i \in DOMAIN tokens' : load'[tokens'[i].load].pc = "ended"
  BY <1>1 DEF Ended
<1>3. OneRecord(tokens)'
  BY DEF OneRecord
<1> QED BY <1>2, <1>3 DEF RecordsInv

LEMMA DrawnFromWithout ==
  ASSUME GenerationsInv, RecordsInv, \A l \in Loads : Ended(l) => Ended(l)',
         NEW keys, tokens' = tokens \/ tokens' = Without(keys),
         \A r \in refresh'.records : r.load \in refresh'.before
  PROVE  RecordsInv'
<1>1. tokens \in Seq(Records) /\ OneRecord(tokens) BY GenerationsParts DEF RecordsInv
<1>2. OneRecord(tokens')
  BY <1>1, WithoutElements
<1>3. \A i \in DOMAIN tokens' : \E j \in DOMAIN tokens : tokens'[i] = tokens[j]
  <2>1. CASE tokens' = tokens BY <2>1
  <2>2. CASE tokens' = Without(keys) BY <1>1, <2>2, WithoutElements
  <2> QED BY <2>1, <2>2
<1> QED BY <1>2, <1>3, Drawn

LEMMA EndedStays ==
  ASSUME GenerationsInv, [Next]_vars, callers \in Workloads, NEW l \in Loads, Ended(l)
  PROVE  Ended(l)'
<1>1. load \in [Loads -> LoadSet] BY GenerationsParts DEF LoadInv
<1>2. callers.loads \subseteq Loads BY WorkloadsAssumption
<1>3. load' = load \/ \E m \in Loads : \E x : load[m].pc # "ended" /\ load' = [load EXCEPT ![m] = x]
  <2>1. CASE \E m \in callers.loads, k \in Keys, optimized \in callers.strategies :
               Begins(m, k, optimized)
    BY <1>2, <2>1 DEF Begins
  <2>2. CASE \E m \in callers.loads : LoadSteps(m, Active)
    BY <1>2, <2>2 DEF LoadSteps, Reads, Fails, Returns
  <2>3. CASE LeaseSteps BY <2>3, LeaseStepsLeaveState DEF metadataVars
  <2> QED BY <2>1, <2>2, <2>3
    DEF Next, vars, metadataVars, MetadataSteps, Retire, ContextsRetired, PoolCloses,
        ApplicationRetired, RemainingRetired, GateCloses, Forgets, RepositoryClears, Changes,
        Ask, Cancel, RefreshSteps, TimestampsArrive, Compares, RefreshEnds
<1> QED BY <1>1, <1>3 DEF Ended

LEMMA ReturnsRecords ==
  ASSUME GenerationsInv, RecordsInv, NEW l \in Loads, Returns(l, Active),
         \A m \in Loads : Ended(m) => Ended(m)'
  PROVE  RecordsInv'
<1> DEFINE x == load[l]
           r == [key |-> x.key, load |-> l, token |-> x.version]
           s == Newest(Without({x.key}), MaxEntries - 1)
<1>1. tokens \in Seq(Records) /\ OneRecord(tokens) /\ load \in [Loads -> LoadSet]
  BY GenerationsParts DEF RecordsInv, LoadInv
<1>2. \A q \in refresh'.records : q.load \in refresh'.before BY DEF Returns, RecordsInv
<1>3. Ended(l)' BY <1>1, NoLoadTyped DEF Returns, Ended
<1>4. tokens' = tokens \/ (MaxEntries # 0 /\ tokens' = Append(s, r))
  BY DEF Returns, RememberGeneration
<1>5. CASE tokens' = tokens BY <1>2, <1>5, DrawnFromWithout
<1>6. CASE MaxEntries # 0 /\ tokens' = Append(s, r)
  <2> DEFINE w == Without({x.key})
  <2>1. /\ w \in Seq(Records) /\ OneRecord(w)
        /\ \A m \in DOMAIN w : \E i \in DOMAIN tokens : w[m] = tokens[i] /\ tokens[i].key # x.key
    <3> DEFINE keys == {x.key}
    <3>1. /\ Without(keys) \in Seq(Records) /\ OneRecord(Without(keys))
          /\ \A m \in DOMAIN Without(keys) : \E i \in DOMAIN tokens :
               Without(keys)[m] = tokens[i] /\ tokens[i].key \notin keys
      <4> HIDE DEF keys
      <4> QED BY <1>1, WithoutElements
    <3>2. \A z : z \notin keys => z # x.key OBVIOUS
    <3>3. w = Without(keys) OBVIOUS
    <3> HIDE DEF keys, w, x
    <3> QED BY <3>1, <3>2, <3>3
  <2>2. MaxEntries - 1 \in Nat BY <1>6, GenerationBounds
  <2> HIDE DEF w, x
  <2>3. /\ s \in Seq(Records) /\ OneRecord(s)
        /\ \A i \in DOMAIN s : \E j \in DOMAIN w : s[i] = w[j]
    BY <2>1, <2>2, NewestTyped, NewestDrawn DEF w
  <2> HIDE DEF s
  <2>4. \A i \in DOMAIN s : \E j \in DOMAIN tokens : s[i] = tokens[j] /\ s[i].key # x.key
    BY <2>1, <2>3
  <2>5. r.key = x.key /\ r.load = l OBVIOUS
  <2>6. r \in Records
    <3>1. x \in LoadSet BY <1>1 DEF x
    <3> QED BY <3>1 DEF LoadSet, Records
  <2> HIDE DEF r
  <2>7. /\ tokens' \in Seq(Records) /\ Len(tokens') = Len(s) + 1 /\ Len(s) \in Nat
        /\ \A i \in 1..Len(s) : tokens'[i] = s[i]
        /\ tokens'[Len(s) + 1] = r
    BY <1>6, <2>3, <2>6, AppendProperties
  <2>8. ASSUME NEW i \in DOMAIN tokens'
        PROVE  (i \in DOMAIN s /\ tokens'[i] = s[i]) \/ (i = Len(s) + 1 /\ tokens'[i] = r)
    <3>1. i \in 1..(Len(s) + 1) /\ DOMAIN s = 1..Len(s) BY <2>3, <2>7
    <3> QED BY <2>7, <3>1
  <2>9. OneRecord(tokens')
    BY <2>3, <2>4, <2>5, <2>8 DEF OneRecord
  <2>10. \A i \in DOMAIN tokens' :
           \/ \E j \in DOMAIN tokens : tokens'[i] = tokens[j]
           \/ tokens'[i].load \in Loads /\ load'[tokens'[i].load].pc = "ended"
    <3>1. ASSUME NEW i \in DOMAIN tokens', tokens'[i] = r
          PROVE  tokens'[i].load \in Loads /\ load'[tokens'[i].load].pc = "ended"
      <4>1. tokens'[i].load = l BY <2>5, <3>1
      <4> QED BY <1>3, <4>1 DEF Ended
    <3> QED BY <2>4, <2>8, <3>1
  <2> QED BY <1>2, <2>9, <2>10, Drawn
<1> QED BY <1>4, <1>5, <1>6

LEMMA NextRecords ==
  ASSUME OwnerInv, callers \in Workloads, RecordsInv, [Next]_vars
  PROVE  RecordsInv'
<1>1. GenerationsInv /\ tokens \in Seq(Records) BY GenerationsParts DEF OwnerInv
<1>2. \A l \in Loads : Ended(l) => Ended(l)' BY <1>1, EndedStays
<1>3. ASSUME tokens' = tokens \/ (\E keys : tokens' = Without(keys)),
             \A r \in refresh'.records : r.load \in refresh'.before
      PROVE  RecordsInv'
  BY <1>1, <1>2, <1>3, DrawnFromWithout
<1>4. ASSUME refresh' = refresh PROVE \A r \in refresh'.records : r.load \in refresh'.before
  BY <1>4 DEF RecordsInv
<1>5. CASE LeaseSteps
  BY <1>3, <1>4, <1>5, LeaseStepsLeaveState DEF metadataVars
<1>6. CASE Retire
  <2>1. tokens' = <<>> /\ refresh' = refresh BY <1>6 DEF Retire, GateCloses, Forgets
  <2>2. OneRecord(tokens') /\ DOMAIN tokens' = {} BY <2>1 DEF OneRecord
  <2> QED BY <1>1, <1>2, <1>4, <2>1, <2>2, Drawn
<1>7. CASE ContextsRetired \/ PoolCloses \/ ApplicationRetired \/ RemainingRetired \/ UNCHANGED vars
  <2>1. tokens' = tokens /\ refresh' = refresh
    BY <1>7 DEF ContextsRetired, PoolCloses, ApplicationRetired, RemainingRetired,
                RepositoryClears, metadataVars, vars
  <2> QED BY <1>3, <1>4, <2>1
<1>8. CASE MetadataSteps
  <2>0. callers.loads \subseteq Loads /\ callers.refreshes \subseteq RefreshCalls
    BY WorkloadsAssumption
  <2>1. CASE \E n \in Names : Changes(n)
    BY <1>3, <1>4, <2>1 DEF Changes
  <2>2. CASE \E l \in callers.loads, k \in Keys, optimized \in callers.strategies :
               Begins(l, k, optimized)
    <3>1. (tokens' = tokens \/ \E keys : tokens' = Without(keys)) /\ refresh' = refresh
      BY <2>2 DEF Begins
    <3> QED BY <1>3, <1>4, <3>1
  <2>3. CASE \E l \in callers.loads : LoadSteps(l, Active)
    <3>1. PICK l \in Loads : Reads(l) \/ Fails(l) \/ Returns(l, Active)
      BY <2>0, <2>3 DEF LoadSteps
    <3>2. CASE Reads(l) \/ Fails(l) BY <1>3, <1>4, <3>2 DEF Reads, Fails
    <3>3. CASE Returns(l, Active) BY <1>1, <1>2, <3>3, ReturnsRecords
    <3> QED BY <3>1, <3>2, <3>3
  <2>4. CASE \E c \in callers.refreshes :
               (\E names \in SUBSET Names : Ask(c, names, Active)) \/ Cancel(c)
    <3>1. CASE refresh' = refresh
      BY <1>3, <1>4, <2>4, <3>1 DEF Ask, Cancel
    <3>2. CASE refresh' # refresh
      <4>1. PICK names \in SUBSET Names :
              /\ refresh' = [NoRefresh EXCEPT !.pc = "asking", !.names = names,
                               !.records = RecordsOf(names), !.before = Over]
              /\ tokens' = tokens
        BY <2>4, <3>2 DEF Ask, Cancel
      <4>2. refresh'.records = RecordsOf(names) /\ refresh'.before = Over
        BY <4>1 DEF NoRefresh
      <4>3. \A r \in RecordsOf(names) : \E i \in DOMAIN tokens : r = tokens[i]
        BY DEF RecordsOf, ToSet
      <4>4. \A i \in DOMAIN tokens : tokens[i].load \in Over
        <5>1. \A i \in DOMAIN tokens : tokens[i] \in Records BY <1>1
        <5> QED BY <5>1 DEF RecordsInv, Over, Records
      <4>5. \A r \in refresh'.records : r.load \in refresh'.before BY <4>2, <4>3, <4>4
      <4> QED BY <1>3, <4>1, <4>5
    <3> QED BY <3>1, <3>2
  <2>5. CASE RefreshSteps(Active)
    <3>1. refresh' = NoRefresh \/ (refresh'.records = refresh.records /\ refresh'.before = refresh.before)
      <4>1. refresh \in RefreshSet BY <1>1, GenerationsParts DEF RefreshInv
      <4> QED BY <2>5, <4>1 DEF RefreshSteps, TimestampsArrive, Compares, RefreshEnds, RefreshSet
    <3>2. \A r \in refresh'.records : r.load \in refresh'.before
      BY <3>1 DEF NoRefresh, RecordsInv
    <3>3. tokens' = tokens \/ \E keys : tokens' = Without(keys)
      BY <2>5 DEF RefreshSteps, TimestampsArrive, Compares, RefreshEnds
    <3> QED BY <1>3, <3>2, <3>3
  <2> QED BY <1>8, <2>1, <2>2, <2>3, <2>4, <2>5 DEF MetadataSteps
<1> QED BY <1>5, <1>6, <1>7, <1>8 DEF Next

LEMMA ComparisonSpares ==
  ASSUME OwnerInv, RecordsInv, callers \in Workloads, [Next]_vars, NEW k \in Keys,
         refresh.pc = "answered", refresh'.pc = "fulfilled",
         cache[k] # NoEntry, cache'[k] = NoEntry,
         NEW r \in ToSet(tokens), r.key = k, r.load = cache[k].load
  PROVE  cache[k].load \in refresh.before
<1>1. GenerationsInv BY DEF OwnerInv
<1>2. refresh \in RefreshSet BY <1>1, GenerationsParts DEF RefreshInv
<1>3. Compares(Active)
  <2>1. refresh' # refresh /\ refresh' # NoRefresh BY DEF NoRefresh
  <2>2. ~LeaseSteps BY <2>1, LeaseStepsLeaveState DEF metadataVars
  <2>3. ~\E c, names : Ask(c, names, Active)
    BY <2>1 DEF Ask, NoRefresh
  <2>4. ~TimestampsArrive BY DEF TimestampsArrive
  <2>5. ~RefreshEnds BY <2>1 DEF RefreshEnds
  <2>6. ~(Retire \/ ContextsRetired \/ PoolCloses \/ ApplicationRetired \/ RemainingRetired
            \/ UNCHANGED vars)
    BY <2>1 DEF Retire, GateCloses, Forgets, ContextsRetired, PoolCloses, ApplicationRetired,
                RemainingRetired, RepositoryClears, metadataVars, vars
  <2>7. MetadataSteps BY <2>2, <2>6 DEF Next
  <2> QED BY <2>1, <2>3, <2>4, <2>5, <2>7
    DEF MetadataSteps, RefreshSteps, LoadSteps, Changes, Begins, Reads, Fails, Returns, Cancel
<1>4. k \in {q.key : q \in Stale}
  <2>1. cache' = cache \/ cache' = [h \in Keys |-> IF h \in {q.key : q \in Stale} THEN NoEntry ELSE cache[h]]
    BY <1>3 DEF Compares
  <2> QED BY <2>1
<1>5. PICK q \in Stale : q.key = k BY <1>4
<1>6. q \in refresh.records /\ q \in ToSet(tokens) BY <1>5 DEF Stale
<1>7. q = r BY <1>5, <1>6 DEF ToSet, RecordsInv, OneRecord
<1> QED BY <1>6, <1>7 DEF RecordsInv

\* #executeMetadataRefresh never invalidates a descriptor that was loaded while
\* its timestamp call was in flight: the records it compares are as old as its
\* admission, and a key has one record.
THEOREM ReloadsSurvive == Spec => ReloadSurvives
<1> DEFINE Inv == OwnerInv /\ callers \in Workloads /\ RecordsInv
           Spares == \A k \in Keys :
             LET l == cache[k].load
             IN /\ refresh.pc = "answered" /\ refresh'.pc = "fulfilled"
                /\ cache[k] # NoEntry /\ cache'[k] = NoEntry
                /\ \E r \in ToSet(tokens) : r.key = k /\ r.load = l
                => l \in refresh.before
<1>1. Init => Inv
  <2> SUFFICES ASSUME Init PROVE RecordsInv BY InitOwner
  <2>1. tokens = <<>> /\ refresh.records = {}
    BY DEF Init, GenerationsInit, NoRefresh
  <2> QED BY <2>1 DEF RecordsInv, OneRecord
<1>2. Inv /\ [Next]_vars => Inv' BY NextOwner, NextRecords
<1>3. Inv /\ [Next]_vars => Spares
  <2> SUFFICES ASSUME Inv, [Next]_vars, NEW k \in Keys,
                      refresh.pc = "answered", refresh'.pc = "fulfilled",
                      cache[k] # NoEntry, cache'[k] = NoEntry,
                      NEW r \in ToSet(tokens), r.key = k, r.load = cache[k].load
               PROVE  cache[k].load \in refresh.before
    OBVIOUS
  <2> QED BY ComparisonSpares
<1>4. Inv /\ [Next]_vars => [Spares]_vars BY <1>3
<1> QED BY <1>1, <1>2, <1>4, PTL DEF Spec, ReloadSurvives
=============================================================================
