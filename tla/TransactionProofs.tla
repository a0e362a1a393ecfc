------------------------- MODULE TransactionProofs -------------------------
(***************************************************************************)
(* Proofs about the transaction coordinators, for any number of runtimes   *)
(* and sessions.                                                           *)
(*                                                                         *)
(* Every action gives one runtime new fields.  Whether these fit together  *)
(* does not depend on other runtimes, so there is a lemma about the fields *)
(* alone for each private method, and one lemma (BecomesKeeps) that        *)
(* carries such a step over to all runtimes and their sessions.            *)
(***************************************************************************)
EXTENDS Transaction, TLAPS

\* How the lease and the session of a runtime may change in one step: not at
\* all, by giving a held lease up, by taking a free session, or by forgetting
\* a lease that is no longer held.
LeaseStep(x, y) ==
  \/ y.lease = x.lease /\ y.session = x.session
  \/ x.lease = "held" /\ y.lease \in {"reused", "evicted"} /\ y.session = x.session
  \/ x.lease = None /\ y.lease \in {"held", "evicted"} /\ y.session \in free
  \/ x.lease # "held" /\ y.lease = None /\ y.session = None

\* What is decided stays decided.
Final(x, y) ==
  /\ x.state = "closed" => y.state = "closed"
  /\ x.outcome \notin {None, "active"} => y.outcome = x.outcome
  /\ x.terminal \in Over => y.terminal = x.terminal

Good(x, y) == y \in Fields /\ Fit(y) /\ LeaseStep(x, y) /\ Final(x, y)

\* Fields that two states of a runtime have in common
SameOpen(x, y) == /\ y.token = x.token /\ y.acquire = x.acquire
                  /\ y.late = x.late /\ y.lateFailed = x.lateFailed
SameWork(x, y) == y.call = x.call /\ y.overdue = x.overdue
SameEnd(x, y) == /\ y.control = x.control /\ y.reusable = x.reusable
                 /\ y.flawed = x.flawed /\ y.lateRelease = x.lateRelease
SameLease(x, y) == /\ y.lease = x.lease /\ y.releases = x.releases
                   /\ y.session = x.session
SameLuw(x, y) == y.outcome = x.outcome /\ y.luw = x.luw /\ y.doubt = x.doubt

(***************************************************************************)
(* What the private methods do to the fields                               *)
(***************************************************************************)
\* A field may be given any value of its type.
LEMMA UpdateType ==
  ASSUME NEW x \in Fields
  PROVE
         /\ \A v \in States : [x EXCEPT !.state = v] \in Fields
         /\ \A v \in Outcomes : [x EXCEPT !.outcome = v] \in Fields
         /\ \A v \in Acquires : [x EXCEPT !.acquire = v] \in Fields
         /\ \A v \in Lates : [x EXCEPT !.late = v] \in Fields
         /\ \A v \in Calls : [x EXCEPT !.call = v] \in Fields
         /\ \A v \in Terminals : [x EXCEPT !.terminal = v] \in Fields
         /\ \A v \in Controls : [x EXCEPT !.control = v] \in Fields
         /\ \A v \in LateReleases : [x EXCEPT !.lateRelease = v] \in Fields
         /\ \A v \in Leases : [x EXCEPT !.lease = v] \in Fields
         /\ \A v \in Nat : [x EXCEPT !.releases = v] \in Fields
         /\ \A v \in Sessions \cup {None} : [x EXCEPT !.session = v] \in Fields
         /\ \A v \in Units : [x EXCEPT !.luw = v] \in Fields
         /\ \A v \in BOOLEAN :
              /\ [x EXCEPT !.token = v] \in Fields
              /\ [x EXCEPT !.lateFailed = v] \in Fields
              /\ [x EXCEPT !.overdue = v] \in Fields
              /\ [x EXCEPT !.reusable = v] \in Fields
              /\ [x EXCEPT !.flawed = v] \in Fields
              /\ [x EXCEPT !.doubt = v] \in Fields
<1>1. \A v \in States : [x EXCEPT !.state = v] \in Fields BY DEF Fields
<1>2. \A v \in Outcomes : [x EXCEPT !.outcome = v] \in Fields BY DEF Fields
<1>3. \A v \in Acquires : [x EXCEPT !.acquire = v] \in Fields BY DEF Fields
<1>4. \A v \in Lates : [x EXCEPT !.late = v] \in Fields BY DEF Fields
<1>5. \A v \in Calls : [x EXCEPT !.call = v] \in Fields BY DEF Fields
<1>6. \A v \in Terminals : [x EXCEPT !.terminal = v] \in Fields BY DEF Fields
<1>7. \A v \in Controls : [x EXCEPT !.control = v] \in Fields BY DEF Fields
<1>8. \A v \in LateReleases : [x EXCEPT !.lateRelease = v] \in Fields BY DEF Fields
<1>9. \A v \in Leases : [x EXCEPT !.lease = v] \in Fields BY DEF Fields
<1>10. \A v \in Nat : [x EXCEPT !.releases = v] \in Fields BY DEF Fields
<1>11. \A v \in Sessions \cup {None} : [x EXCEPT !.session = v] \in Fields BY DEF Fields
<1>12. \A v \in Units : [x EXCEPT !.luw = v] \in Fields BY DEF Fields
<1>13. \A v \in BOOLEAN : [x EXCEPT !.token = v] \in Fields BY DEF Fields
<1>14. \A v \in BOOLEAN : [x EXCEPT !.lateFailed = v] \in Fields BY DEF Fields
<1>15. \A v \in BOOLEAN : [x EXCEPT !.overdue = v] \in Fields BY DEF Fields
<1>16. \A v \in BOOLEAN : [x EXCEPT !.reusable = v] \in Fields BY DEF Fields
<1>17. \A v \in BOOLEAN : [x EXCEPT !.flawed = v] \in Fields BY DEF Fields
<1>18. \A v \in BOOLEAN : [x EXCEPT !.doubt = v] \in Fields BY DEF Fields
<1> QED BY <1>1, <1>2, <1>3, <1>4, <1>5, <1>6, <1>7, <1>8, <1>9,
           <1>10, <1>11, <1>12, <1>13, <1>14, <1>15, <1>16, <1>17, <1>18

\* HandOver changes the lease and counts the release.
LEMMA HandOverFields ==
  ASSUME NEW x \in Fields, NEW b \in BOOLEAN
  PROVE  LET y == HandOver(x, b)
         IN /\ y \in Fields
            /\ y.lease = IF b THEN "reused" ELSE "evicted"
            /\ y.releases = x.releases + 1 /\ y.session = x.session
            /\ y.state = x.state /\ y.terminal = x.terminal
            /\ SameOpen(x, y) /\ SameWork(x, y) /\ SameEnd(x, y) /\ SameLuw(x, y)
<1> DEFINE z == [x EXCEPT !.lease = IF b THEN "reused" ELSE "evicted"]
           y == HandOver(x, b)
<1>1. x.releases + 1 \in Nat BY DEF Fields
<1>2. z \in Fields BY UpdateType DEF Leases
<1>3. z.releases = x.releases BY DEF Fields
<1>4. y = [z EXCEPT !.releases = x.releases + 1] BY <1>3 DEF HandOver
<1> HIDE DEF z
<1>5. y \in Fields BY <1>1, <1>2, <1>4, UpdateType
<1> USE DEF z
<1> QED BY <1>5 DEF HandOver, Fields, SameOpen, SameWork, SameEnd, SameLuw

\* Fulfilled and Refuted settle the terminal and nothing else.
LEMMA SettledFields ==
  ASSUME NEW x \in Fields, NEW y, y \in {Fulfilled(x), Refuted(x)}
  PROVE  /\ y \in Fields
         /\ y = Fulfilled(x) => y.state = "closed" /\ y.terminal = "resolved"
         /\ y = Refuted(x) => y.state = "failed" /\ y.terminal = "rejected"
         /\ SameOpen(x, y) /\ SameWork(x, y) /\ SameEnd(x, y)
         /\ SameLease(x, y) /\ SameLuw(x, y)
<1>1. CASE y = Fulfilled(x)
  <2>1. Fulfilled(x) \in Fields /\ Fulfilled(x).state = "closed"
    <3>1. Fulfilled(x) \in Fields
      BY UpdateType DEF Fulfilled, States, Terminals, Over
    <3> QED BY <3>1 DEF Fulfilled, Fields
  <2>2. Refuted(x).state = "failed" BY DEF Refuted, Fields, Over
  <2>3. /\ SameOpen(x, Fulfilled(x)) /\ SameWork(x, Fulfilled(x))
        /\ SameEnd(x, Fulfilled(x)) /\ SameLease(x, Fulfilled(x))
        /\ SameLuw(x, Fulfilled(x)) /\ Fulfilled(x).terminal = "resolved"
    BY DEF Fulfilled, Fields, SameOpen, SameWork, SameEnd, SameLease, SameLuw
  <2> QED BY <1>1, <2>1, <2>2, <2>3
<1>2. CASE y = Refuted(x)
  <2>1. Refuted(x) \in Fields /\ Refuted(x).state = "failed"
    <3>1. Refuted(x) \in Fields
      BY UpdateType DEF Refuted, States, Terminals, Over
    <3> QED BY <3>1 DEF Refuted, Fields
  <2>2. Fulfilled(x).state = "closed" BY DEF Fulfilled, Fields, Over
  <2>3. /\ SameOpen(x, Refuted(x)) /\ SameWork(x, Refuted(x))
        /\ SameEnd(x, Refuted(x)) /\ SameLease(x, Refuted(x))
        /\ SameLuw(x, Refuted(x)) /\ Refuted(x).terminal = "rejected"
    BY DEF Refuted, Fields, SameOpen, SameWork, SameEnd, SameLease, SameLuw
  <2> QED BY <1>2, <2>1, <2>2, <2>3
<1> QED BY <1>1, <1>2

\* StartRelease hands over and waits for the answer.
LEMMA StartReleaseFields ==
  ASSUME NEW x \in Fields, NEW b \in BOOLEAN
  PROVE  LET y == StartRelease(x, b)
         IN /\ y \in Fields
            /\ y.state = "releasing" /\ y.terminal = "release"
            /\ y.lease = IF b THEN "reused" ELSE "evicted"
            /\ y.releases = x.releases + 1 /\ y.session = x.session
            /\ SameOpen(x, y) /\ SameWork(x, y) /\ SameEnd(x, y) /\ SameLuw(x, y)
<1> DEFINE z == [x EXCEPT !.state = "releasing", !.terminal = "release"]
<1>1. z \in Fields BY UpdateType DEF States, Terminals
<1>2. /\ z.state = "releasing" /\ z.terminal = "release" /\ SameOpen(x, z)
      /\ SameWork(x, z) /\ SameEnd(x, z) /\ SameLuw(x, z) /\ SameLease(x, z)
  BY DEF Fields, SameOpen, SameWork, SameEnd, SameLuw, SameLease
<1>3. StartRelease(x, b) = HandOver(z, b) BY DEF StartRelease
<1> HIDE DEF z
<1> QED BY <1>1, <1>2, <1>3, HandOverFields
        DEF SameOpen, SameWork, SameEnd, SameLuw, SameLease

\* EndWithRelease waits for overdue work, or releases at once.
LEMMA EndWithReleaseFields ==
  ASSUME NEW x \in Fields, NEW b \in BOOLEAN, NEW f \in BOOLEAN
  PROVE  LET y == EndWithRelease(x, b, f)
         IN /\ y \in Fields /\ y.reusable = b /\ y.flawed = f
            /\ y.control = x.control /\ y.lateRelease = x.lateRelease
            /\ y.session = x.session
            /\ SameOpen(x, y) /\ SameWork(x, y) /\ SameLuw(x, y)
            /\ x.overdue => /\ y.state = x.state /\ y.terminal = "operations"
                            /\ SameLease(x, y)
            /\ ~x.overdue => /\ y.state = "releasing" /\ y.terminal = "release"
                             /\ y.lease = IF b THEN "reused" ELSE "evicted"
                             /\ y.releases = x.releases + 1
<1> DEFINE z == [x EXCEPT !.reusable = b, !.flawed = f]
<1>1. z \in Fields BY UpdateType
<1>2. /\ z.reusable = b /\ z.flawed = f /\ z.state = x.state
      /\ z.control = x.control /\ z.lateRelease = x.lateRelease
      /\ SameOpen(x, z) /\ SameWork(x, z) /\ SameLuw(x, z) /\ SameLease(x, z)
  BY DEF Fields, SameOpen, SameWork, SameLuw, SameLease
<1>3. CASE ~x.overdue
  <2>1. EndWithRelease(x, b, f) = StartRelease(z, b)
    BY <1>3 DEF EndWithRelease
  <2> HIDE DEF z
  <2> QED BY <1>1, <1>2, <1>3, <2>1, StartReleaseFields
          DEF SameOpen, SameWork, SameEnd, SameLuw, SameLease
<1>4. CASE x.overdue
  <2> DEFINE y == [z EXCEPT !.terminal = "operations"]
  <2>1. EndWithRelease(x, b, f) = y BY <1>4 DEF EndWithRelease
  <2> HIDE DEF z
  <2>2. y \in Fields BY <1>1, UpdateType DEF Terminals
  <2>3. /\ y.terminal = "operations" /\ y.state = z.state
        /\ SameOpen(z, y) /\ SameWork(z, y) /\ SameEnd(z, y) /\ SameLuw(z, y)
        /\ SameLease(z, y)
    BY <1>1 DEF Fields, SameOpen, SameWork, SameEnd, SameLuw, SameLease
  <2> HIDE DEF y
  <2> QED BY ZenonT(60), <1>2, <1>4, <2>1, <2>2, <2>3
          DEF SameOpen, SameWork, SameEnd, SameLuw, SameLease
<1> QED
  <2>1. x.overdue \in BOOLEAN BY DEF Fields
  <2> QED BY <1>3, <1>4, <2>1

(***************************************************************************)
(* The fields of one runtime                                               *)
(***************************************************************************)
\* begin() starts.
LEMMA BeginGood ==
  ASSUME NEW x \in Fields, Fit(x), x.state = "idle"
  PROVE  Good(x, [x EXCEPT !.state = "opening", !.acquire = "running",
                           !.lateFailed = FALSE, !.lease = None,
                           !.session = None, !.releases = 0])
<1>0. ~x.token /\ BeforeToken(x)
  BY DEF Fit, Published, BeforeToken, None, Pending, Settled
<1> DEFINE y == [x EXCEPT !.state = "opening", !.acquire = "running",
                           !.lateFailed = FALSE, !.lease = None,
                           !.session = None, !.releases = 0]
<1>1. y \in Fields BY UpdateType DEF States, Acquires, Pending, Leases
<1>2. /\ y.state = "opening" /\ y.acquire = "running" /\ y.lease = None
      /\ y.session = None /\ y.releases = 0 /\ y.terminal = x.terminal
      /\ y.token = x.token /\ y.late = x.late
      /\ SameWork(x, y) /\ SameEnd(x, y) /\ SameLuw(x, y)
  BY DEF Fields, SameWork, SameEnd, SameLuw
<1> HIDE DEF y
<1>3. Fit(y) BY <1>0, <1>2 DEF Fit, BeforeToken, None, Pending, Settled, Over, SameOpen, SameWork, SameEnd, SameLease, SameLuw
<1>4. Good(x, y)
  BY <1>0, <1>1, <1>2, <1>3
    DEF Good, LeaseStep, Final, SameLease, SameLuw, BeforeToken,
    None, Pending, Settled, Over
<1> QED BY <1>4 DEF y

\* The acquire is answered.
LEMMA AcquiredGood ==
  ASSUME TransactionAssumption, free \subseteq Sessions, NEW s \in free,
         NEW x \in Fields, Fit(x), x.acquire \in Pending
  PROVE  Good(x, [x EXCEPT !.acquire = "ok", !.lease = "held", !.session = s])
<1>0. ~x.token /\ BeforeToken(x) /\ x.lease = None
  BY DEF Fit, Published, BeforeToken, None, Pending, Settled
<1> DEFINE y == [x EXCEPT !.acquire = "ok", !.lease = "held", !.session = s]
<1>1. y \in Fields BY UpdateType DEF Acquires, Settled, Leases
<1>2. /\ y.acquire = "ok" /\ y.lease = "held" /\ y.session = s
      /\ y.releases = x.releases /\ y.state = x.state /\ y.terminal = x.terminal
      /\ y.token = x.token /\ y.late = x.late
      /\ SameWork(x, y) /\ SameEnd(x, y) /\ SameLuw(x, y)
  BY DEF Fields, SameWork, SameEnd, SameLuw
<1> HIDE DEF y
<1>3. Fit(y) BY <1>0, <1>2 DEF Fit, BeforeToken, None, Pending, Settled, Over, SameOpen, SameWork, SameEnd, SameLease, SameLuw,
     TransactionAssumption
<1>4. Good(x, y)
  BY <1>0, <1>1, <1>2, <1>3
    DEF Good, LeaseStep, Final, SameLease, SameLuw, BeforeToken,
    None, Pending, Settled, Over
<1> QED BY <1>4 DEF y

\* The acquire fails.
LEMMA AcquireFailedGood ==
  ASSUME NEW x \in Fields, Fit(x), x.acquire \in Pending
  PROVE  Good(x, [x EXCEPT !.acquire = "failed"])
<1>0. ~x.token /\ BeforeToken(x)
  BY DEF Fit, Published, BeforeToken, None, Pending, Settled
<1> DEFINE y == [x EXCEPT !.acquire = "failed"]
<1>1. y \in Fields BY UpdateType DEF Acquires, Settled
<1>2. /\ y.acquire = "failed" /\ y.state = x.state /\ y.terminal = x.terminal
      /\ y.token = x.token /\ y.late = x.late
      /\ SameLease(x, y) /\ SameWork(x, y) /\ SameEnd(x, y) /\ SameLuw(x, y)
  BY DEF Fields, SameLease, SameWork, SameEnd, SameLuw
<1> HIDE DEF y
<1>3. Fit(y) BY <1>0, <1>2 DEF Fit, BeforeToken, None, Pending, Settled, Over, SameOpen, SameWork, SameEnd, SameLease, SameLuw
<1>4. Good(x, y)
  BY <1>0, <1>1, <1>2, <1>3
    DEF Good, LeaseStep, Final, SameLease, SameLuw, BeforeToken,
    None, Pending, Settled, Over
<1> QED BY <1>4 DEF y

\* The acquire expires.
LEMMA AcquireExpiredGood ==
  ASSUME NEW x \in Fields, Fit(x), x.acquire \in Pending
  PROVE  Good(x, [x EXCEPT !.acquire = "timedout", !.late = "acquiring"])
<1>0. ~x.token /\ BeforeToken(x)
  BY DEF Fit, Published, BeforeToken, None, Pending, Settled
<1> DEFINE y == [x EXCEPT !.acquire = "timedout", !.late = "acquiring"]
<1>1. y \in Fields BY UpdateType DEF Acquires, Settled, Lates
<1>2. /\ y.acquire = "timedout" /\ y.late = "acquiring" /\ y.token = x.token
      /\ y.state = x.state /\ y.terminal = x.terminal
      /\ SameLease(x, y) /\ SameWork(x, y) /\ SameEnd(x, y) /\ SameLuw(x, y)
  BY DEF Fields, SameLease, SameWork, SameEnd, SameLuw
<1> HIDE DEF y
<1>3. Fit(y) BY <1>0, <1>2 DEF Fit, BeforeToken, None, Pending, Settled, Over, SameOpen, SameWork, SameEnd, SameLease, SameLuw
<1>4. Good(x, y)
  BY <1>0, <1>1, <1>2, <1>3
    DEF Good, LeaseStep, Final, SameLease, SameLuw, BeforeToken,
    None, Pending, Settled, Over
<1> QED BY <1>4 DEF y

\* begin() publishes its lease.
LEMMA PublishGood ==
  ASSUME NEW x \in Fields, Fit(x), x.acquire = "ok", x.state = "opening"
  PROVE  Good(x, [x EXCEPT !.state = "active", !.outcome = "active",
                           !.token = TRUE, !.acquire = None])
<1>0. ~x.token /\ BeforeToken(x)
  BY DEF Fit, Published, BeforeToken, None, Pending, Settled
<1> DEFINE y == [x EXCEPT !.state = "active", !.outcome = "active",
                           !.token = TRUE, !.acquire = None]
<1>1. y \in Fields BY UpdateType DEF States, Outcomes, Acquires
<1>2. /\ y.state = "active" /\ y.outcome = "active" /\ y.token = TRUE
      /\ y.acquire = None /\ y.late = x.late /\ y.terminal = x.terminal
      /\ y.luw = x.luw /\ y.doubt = x.doubt
      /\ SameLease(x, y) /\ SameWork(x, y) /\ SameEnd(x, y)
  BY DEF Fields, SameLease, SameWork, SameEnd
<1> HIDE DEF y
<1>3. Fit(y) 
  BY <1>0, <1>2 DEF Fit, BeforeToken, Published, Decided, None, Pending, Settled, Over,
     SameOpen, SameWork, SameEnd, SameLease, SameLuw
<1>4. Good(x, y)
  BY <1>0, <1>1, <1>2, <1>3
    DEF Good, LeaseStep, Final, SameLease, SameLuw, BeforeToken,
    None, Pending, Settled, Over
<1> QED BY <1>4 DEF y

\* close() came first: the lease goes back.
LEMMA BeginRollsBackGood ==
  ASSUME NEW x \in Fields, Fit(x), x.acquire = "ok", x.state # "opening"
  PROVE  Good(x, HandOver([x EXCEPT !.acquire = "rollback"], FALSE))
<1>0. ~x.token /\ BeforeToken(x)
  BY DEF Fit, Published, BeforeToken, None, Pending, Settled
<1> DEFINE z == [x EXCEPT !.acquire = "rollback"]
           y == HandOver(z, FALSE)
<1>1. z \in Fields BY UpdateType DEF Acquires
<1>2. /\ z.acquire = "rollback" /\ z.state = x.state /\ z.terminal = x.terminal
      /\ z.token = x.token /\ z.late = x.late
      /\ SameLease(x, z) /\ SameWork(x, z) /\ SameEnd(x, z) /\ SameLuw(x, z)
  BY DEF Fields, SameLease, SameWork, SameEnd, SameLuw
<1> HIDE DEF z
<1>3. /\ y \in Fields /\ y.lease = "evicted" /\ y.releases = z.releases + 1
      /\ y.session = z.session /\ y.state = z.state /\ y.terminal = z.terminal
      /\ SameOpen(z, y) /\ SameWork(z, y) /\ SameEnd(z, y) /\ SameLuw(z, y)
  BY <1>1, HandOverFields
<1> HIDE DEF y
<1>4. Fit(y) 
  BY <1>0, <1>2, <1>3 DEF Fit, BeforeToken, None, Pending, Settled, Over,
     SameOpen, SameWork, SameEnd, SameLease, SameLuw
<1>5. Good(x, y)
  BY <1>0, <1>2, <1>3, <1>4
    DEF Good, LeaseStep, Final, SameLease, SameLuw, BeforeToken,
    None, Pending, Settled, Over
<1> QED BY <1>5 DEF y, z

\* A late acquire delivers a lease.
LEMMA LateFulfilsGood ==
  ASSUME TransactionAssumption, free \subseteq Sessions, NEW s \in free,
         NEW x \in Fields, Fit(x), x.late = "acquiring"
  PROVE  Good(x, HandOver([x EXCEPT !.late = "evicting", !.session = s], FALSE))
<1>0. ~x.token /\ BeforeToken(x)
  BY DEF Fit, Published, BeforeToken, None, Pending, Settled
<1> DEFINE z == [x EXCEPT !.late = "evicting", !.session = s]
           y == HandOver(z, FALSE)
<1>1. z \in Fields BY UpdateType DEF Lates
<1>2. /\ z.late = "evicting" /\ z.session = s /\ z.state = x.state
      /\ z.terminal = x.terminal /\ z.token = x.token /\ z.acquire = x.acquire
      /\ z.lease = x.lease /\ z.releases = x.releases
      /\ SameWork(x, z) /\ SameEnd(x, z) /\ SameLuw(x, z)
  BY DEF Fields, SameWork, SameEnd, SameLuw
<1> HIDE DEF z
<1>3. /\ y \in Fields /\ y.lease = "evicted" /\ y.releases = z.releases + 1
      /\ y.session = z.session /\ y.state = z.state /\ y.terminal = z.terminal
      /\ SameOpen(z, y) /\ SameWork(z, y) /\ SameEnd(z, y) /\ SameLuw(z, y)
  BY <1>1, HandOverFields
<1> HIDE DEF y
<1>4. Fit(y) 
  BY <1>0, <1>2, <1>3 DEF Fit, BeforeToken, None, Pending, Settled, Over,
     TransactionAssumption, SameOpen, SameWork, SameEnd, SameLease, SameLuw
<1>5. Good(x, y)
  BY <1>0, <1>2, <1>3, <1>4
    DEF Good, LeaseStep, Final, SameLease, SameLuw, BeforeToken,
    None, Pending, Settled, Over
<1> QED BY <1>5 DEF y, z

\* FinishCloseDuringOpening changes the state and the terminal only.
LEMMA FinishFields ==
  ASSUME NEW x \in Fields
  PROVE  LET y == FinishCloseDuringOpening(x)
         IN /\ y \in Fields
            /\ x.late # None => y.state = "closing" /\ y.terminal = "acquires"
            /\ x.late = None =>
                 \/ y.state = "failed" /\ y.terminal = "rejected"
                 \/ y.state = "closed" /\ y.terminal = "resolved"
            /\ SameOpen(x, y) /\ SameWork(x, y) /\ SameEnd(x, y)
            /\ SameLease(x, y) /\ SameLuw(x, y)
<1>1. CASE x.late # None
  <2> DEFINE y == [x EXCEPT !.state = "closing", !.terminal = "acquires"]
  <2>1. y = FinishCloseDuringOpening(x) BY <1>1 DEF FinishCloseDuringOpening
  <2>2. y \in Fields BY UpdateType DEF States, Terminals
  <2>3. /\ y.state = "closing" /\ y.terminal = "acquires" /\ SameOpen(x, y)
        /\ SameWork(x, y) /\ SameEnd(x, y) /\ SameLease(x, y) /\ SameLuw(x, y)
    BY DEF Fields, SameOpen, SameWork, SameEnd, SameLease, SameLuw
  <2> HIDE DEF y
  <2> QED BY <1>1, <2>1, <2>2, <2>3
<1>2. CASE x.late = None
  <2>1. FinishCloseDuringOpening(x) \in {Fulfilled(x), Refuted(x)}
    BY <1>2 DEF FinishCloseDuringOpening
  <2> QED BY <1>2, <2>1, SettledFields
<1> QED BY <1>1, <1>2

\* A close() that comes after a begin() timed out
LEMMA CloseFailedGood ==
  ASSUME NEW x \in Fields, Fit(x), ~x.token, x.state = "failed",
         x.terminal = None
  PROVE  Good(x, FinishCloseDuringOpening(x))
<1> DEFINE y == FinishCloseDuringOpening(x)
<1>1. /\ y \in Fields
      /\ x.late # None => y.state = "closing" /\ y.terminal = "acquires"
      /\ x.late = None =>
           \/ y.state = "failed" /\ y.terminal = "rejected"
           \/ y.state = "closed" /\ y.terminal = "resolved"
      /\ SameOpen(x, y) /\ SameWork(x, y) /\ SameEnd(x, y)
      /\ SameLease(x, y) /\ SameLuw(x, y)
  BY FinishFields
<1> HIDE DEF y
<1>2. Fit(y)
  BY <1>1 DEF Fit, BeforeToken, None, Pending, Settled, Over,
     SameOpen, SameWork, SameEnd, SameLease, SameLuw
<1>3. Good(x, y) BY <1>1, <1>2
  DEF Good, LeaseStep, Final, SameLease, SameLuw, Fit, BeforeToken,
  None, Pending, Settled, Over
<1> QED BY <1>3 DEF y

\* The end of a begin() that rejects
LEMMA BeginEndsGood ==
  ASSUME NEW x \in Fields, Fit(x), NEW b \in BOOLEAN,
         x.acquire \in {"failed", "timedout", "rollback"}
  PROVE  Good(x, BeginEnds([x EXCEPT !.lateFailed = b]))
<1>0. ~x.token /\ BeforeToken(x)
  BY DEF Fit, Published, BeforeToken, None, Pending, Settled
<1> DEFINE w == [x EXCEPT !.lateFailed = b]
           z == [w EXCEPT !.acquire = None]
           y == BeginEnds(w)
<1>1. w \in Fields /\ z \in Fields BY UpdateType DEF Acquires
<1>2. w.state = x.state /\ w.late = x.late BY DEF Fields
<1>3. /\ z.acquire = None /\ z.state = x.state /\ z.terminal = x.terminal
      /\ z.token = x.token /\ z.late = x.late
      /\ SameWork(x, z) /\ SameEnd(x, z) /\ SameLease(x, z) /\ SameLuw(x, z)
  BY DEF Fields, SameWork, SameEnd, SameLease, SameLuw
<1>4. y = IF w.state = "opening"
          THEN [z EXCEPT !.state = IF w.late = None THEN "idle" ELSE "failed"]
          ELSE FinishCloseDuringOpening(z)
  BY DEF BeginEnds
<1> HIDE DEF w, z, y
<1>5. /\ y \in Fields /\ SameOpen(z, y) /\ SameWork(z, y) /\ SameEnd(z, y)
      /\ SameLease(z, y) /\ SameLuw(z, y)
      /\ x.state = "opening" =>
           /\ y.state = IF x.late = None THEN "idle" ELSE "failed"
           /\ y.terminal = x.terminal
      /\ x.state # "opening" /\ x.late # None =>
           y.state = "closing" /\ y.terminal = "acquires"
      /\ x.state # "opening" /\ x.late = None =>
           \/ y.state = "failed" /\ y.terminal = "rejected"
           \/ y.state = "closed" /\ y.terminal = "resolved"
  <2>1. CASE x.state # "opening"
    BY <1>1, <1>2, <1>3, <1>4, <2>1, FinishFields
  <2>2. CASE x.state = "opening"
    <3> DEFINE v == [z EXCEPT !.state = IF x.late = None THEN "idle" ELSE "failed"]
    <3>1. y = v BY <1>2, <1>4, <2>2
    <3>2. v \in Fields BY <1>1, UpdateType DEF States
    <3>3. /\ v.state = IF x.late = None THEN "idle" ELSE "failed"
          /\ v.terminal = z.terminal
          /\ SameOpen(z, v) /\ SameWork(z, v) /\ SameEnd(z, v)
          /\ SameLease(z, v) /\ SameLuw(z, v)
      BY <1>1 DEF Fields, SameOpen, SameWork, SameEnd, SameLease, SameLuw
    <3> HIDE DEF v
    <3> QED BY <1>3, <2>2, <3>1, <3>2, <3>3
  <2> QED BY <2>1, <2>2
<1>6. Fit(y)
  BY <1>0, <1>3, <1>5 DEF Fit, BeforeToken, None, Pending, Settled, Over,
     SameOpen, SameWork, SameEnd, SameLease, SameLuw
<1>7. Good(x, y) BY <1>0, <1>3, <1>5, <1>6
  DEF Good, LeaseStep, Final, SameLease, SameLuw, BeforeToken,
  None, Pending, Settled, Over
<1> QED BY <1>7 DEF y, w

\* A late acquire is over.
LEMMA LateEndsGood ==
  ASSUME NEW x \in Fields, Fit(x), x.late # None, NEW b \in BOOLEAN
  PROVE  Good(x, LateEnds(x, b))
<1>0. ~x.token /\ BeforeToken(x)
  BY DEF Fit, Published, BeforeToken, None, Pending, Settled
<1> DEFINE z == [x EXCEPT !.late = None, !.lateFailed = (x.lateFailed \/ b)]
           y == LateEnds(x, b)
<1>1. z \in Fields
  <2>1. (x.lateFailed \/ b) \in BOOLEAN OBVIOUS
  <2>2. [x EXCEPT !.late = None] \in Fields BY UpdateType DEF Lates
  <2> QED BY <2>1, <2>2, UpdateType
<1>2. /\ z.late = None /\ z.state = x.state /\ z.terminal = x.terminal
      /\ z.token = x.token /\ z.acquire = x.acquire
      /\ SameWork(x, z) /\ SameEnd(x, z) /\ SameLease(x, z) /\ SameLuw(x, z)
  BY DEF Fields, SameWork, SameEnd, SameLease, SameLuw
<1>a. z = [x EXCEPT !.late = None, !.lateFailed = @ \/ b]
  <2>1. [x EXCEPT !.late = None].lateFailed = x.lateFailed BY DEF Fields
  <2> QED BY <2>1
<1>3. y = IF x.terminal = "acquires"
          THEN IF b THEN Refuted(z) ELSE Fulfilled(z)
          ELSE IF x.state = "failed" /\ ~x.token /\ ~z.lateFailed
          THEN [z EXCEPT !.state = IF x.terminal = None THEN "idle" ELSE "closed"]
          ELSE z
  BY <1>a DEF LateEnds
<1> HIDE DEF z, y
<1>4. /\ y \in Fields /\ SameOpen(z, y) /\ SameWork(z, y) /\ SameEnd(z, y)
      /\ SameLease(z, y) /\ SameLuw(z, y)
      /\ x.terminal = "acquires" =>
           \/ y.state = "failed" /\ y.terminal = "rejected"
           \/ y.state = "closed" /\ y.terminal = "resolved"
      /\ x.terminal # "acquires" =>
           /\ y.terminal = x.terminal
           /\ \/ y.state = x.state
              \/ /\ x.state = "failed"
                 /\ y.state = IF x.terminal = None THEN "idle" ELSE "closed"
  <2>1. CASE x.terminal = "acquires"
    <3>1. y \in {Fulfilled(z), Refuted(z)} BY <1>3, <2>1
    <3> QED BY <1>1, <2>1, <3>1, SettledFields
  <2>2. CASE x.terminal # "acquires" /\ ~(x.state = "failed" /\ ~x.token /\ ~z.lateFailed)
    <3>1. y = z BY <1>3, <2>2
    <3> QED BY <1>1, <1>2, <2>2, <3>1
            DEF SameOpen, SameWork, SameEnd, SameLease, SameLuw
  <2>3. CASE x.terminal # "acquires" /\ x.state = "failed" /\ ~x.token /\ ~z.lateFailed
    <3> DEFINE v == [z EXCEPT !.state = IF x.terminal = None THEN "idle" ELSE "closed"]
    <3>1. y = v BY <1>3, <2>3
    <3>2. v \in Fields BY <1>1, UpdateType DEF States
    <3>3. /\ v.state = IF x.terminal = None THEN "idle" ELSE "closed"
          /\ v.terminal = z.terminal
          /\ SameOpen(z, v) /\ SameWork(z, v) /\ SameEnd(z, v)
          /\ SameLease(z, v) /\ SameLuw(z, v)
      BY <1>1 DEF Fields, SameOpen, SameWork, SameEnd, SameLease, SameLuw
    <3> HIDE DEF v
    <3> QED BY <1>2, <2>3, <3>1, <3>2, <3>3
  <2> QED BY <2>1, <2>2, <2>3
<1>5. Fit(y)
  BY <1>0, <1>2, <1>4 DEF Fit, BeforeToken, None, Pending, Settled, Over,
     SameOpen, SameWork, SameEnd, SameLease, SameLuw
<1>6. Good(x, y) BY <1>0, <1>2, <1>4, <1>5
  DEF Good, LeaseStep, Final, SameLease, SameLuw, BeforeToken,
  None, Pending, Settled, Over
<1> QED BY <1>6 DEF y

\* Fulfilled and Refuted where they settle an unpublished transaction:
\* close() of an idle runtime, and close() that stops waiting
LEMMA SettledGood ==
  ASSUME NEW x \in Fields, Fit(x)
  PROVE  /\ x.state = "idle" => Good(x, Fulfilled(x))
         /\ x.terminal = "acquires" => Good(x, Refuted(x))
<1>1. ASSUME x.state = "idle" PROVE Good(x, Fulfilled(x))
  <2>1. ~x.token /\ BeforeToken(x)
    BY <1>1 DEF Fit, Published, BeforeToken, None, Pending, Settled, Over
  <2> DEFINE y == Fulfilled(x)
  <2>2. /\ y \in Fields /\ y.state = "closed" /\ y.terminal = "resolved"
        /\ SameOpen(x, y) /\ SameWork(x, y) /\ SameEnd(x, y)
        /\ SameLease(x, y) /\ SameLuw(x, y)
    BY SettledFields
  <2> HIDE DEF y
  <2>3. Fit(y)
    BY <1>1, <2>1, <2>2 DEF Fit, BeforeToken, None, Pending, Settled, Over,
       SameOpen, SameWork, SameEnd, SameLease, SameLuw
  <2>4. Good(x, y) BY <1>1, <2>1, <2>2, <2>3
    DEF Good, LeaseStep, Final, SameLease, SameLuw, Fit, BeforeToken,
    None, Pending, Settled, Over
  <2> QED BY <2>4 DEF y
<1>2. ASSUME x.terminal = "acquires" PROVE Good(x, Refuted(x))
  <2>1. ~x.token /\ BeforeToken(x)
    BY <1>2 DEF Fit, Published, BeforeToken, None, Pending, Settled, Over
  <2> DEFINE y == Refuted(x)
  <2>2. /\ y \in Fields /\ y.state = "failed" /\ y.terminal = "rejected"
        /\ SameOpen(x, y) /\ SameWork(x, y) /\ SameEnd(x, y)
        /\ SameLease(x, y) /\ SameLuw(x, y)
    BY SettledFields
  <2> HIDE DEF y
  <2>3. Fit(y)
    BY <1>2, <2>1, <2>2 DEF Fit, BeforeToken, None, Pending, Settled, Over,
       SameOpen, SameWork, SameEnd, SameLease, SameLuw, Fields, States
  <2>4. Good(x, y) BY <1>2, <2>1, <2>2, <2>3
    DEF Good, LeaseStep, Final, SameLease, SameLuw, Fit, BeforeToken,
    None, Pending, Settled, Over
  <2> QED BY <2>4 DEF y
<1> QED BY <1>1, <1>2

\* StartControl invokes commit or rollback.
LEMMA StartControlFields ==
  ASSUME NEW x \in Fields, NEW op \in {"commit", "rollback"}
  PROVE  LET y == StartControl(x, op)
         IN /\ y \in Fields
            /\ y.state = IF op = "commit" THEN "committing" ELSE "rollingBack"
            /\ y.control = op /\ y.terminal = "control"
            /\ y.reusable = x.reusable /\ y.flawed = x.flawed
            /\ y.lateRelease = x.lateRelease
            /\ SameOpen(x, y) /\ SameWork(x, y) /\ SameLease(x, y) /\ SameLuw(x, y)
<1> DEFINE y == [x EXCEPT
              !.state = IF op = "commit" THEN "committing" ELSE "rollingBack",
              !.control = op, !.terminal = "control"]
<1>1. y \in Fields BY UpdateType DEF States, Controls, Terminals
<1>2. y = StartControl(x, op) BY DEF StartControl
<1>3. /\ y.state = IF op = "commit" THEN "committing" ELSE "rollingBack"
      /\ y.control = op /\ y.terminal = "control"
      /\ y.reusable = x.reusable /\ y.flawed = x.flawed
      /\ y.lateRelease = x.lateRelease
      /\ SameOpen(x, y) /\ SameWork(x, y) /\ SameLease(x, y) /\ SameLuw(x, y)
  BY DEF Fields, SameOpen, SameWork, SameLease, SameLuw
<1> HIDE DEF y
<1> QED BY <1>1, <1>2, <1>3

\* A terminal of an active transaction
LEMMA ControlGood ==
  ASSUME NEW x \in Fields, Fit(x), x.state = "active",
         NEW op \in {"commit", "rollback"}
  PROVE  Good(x, StartControl(x, op))
<1>0. x.token /\ Published(x) /\ Decided(x)
  BY DEF Fit, BeforeToken, None, Pending, Settled, Over
<1> DEFINE y == StartControl(x, op)
<1>1. /\ y \in Fields
      /\ y.state = IF op = "commit" THEN "committing" ELSE "rollingBack"
      /\ y.control = op /\ y.terminal = "control"
      /\ y.reusable = x.reusable /\ y.flawed = x.flawed
      /\ y.lateRelease = x.lateRelease
      /\ SameOpen(x, y) /\ SameWork(x, y) /\ SameLease(x, y) /\ SameLuw(x, y)
  BY StartControlFields
<1> HIDE DEF y
<1>2. Fit(y)
  BY <1>0, <1>1 DEF Fit, Published, Decided, Executed, None, Pending, Settled, Over,
     SameOpen, SameWork, SameEnd, SameLease, SameLuw
<1>3. Good(x, y) BY <1>0, <1>1, <1>2
  DEF Good, LeaseStep, Final, SameLease, SameLuw, Published,
  None, Pending, Settled, Over
<1> QED BY <1>3 DEF y

\* A business call leaves the session in a known state.
LEMMA CallStableGood ==
  ASSUME NEW x \in Fields, Fit(x), x.call \in {"ok", "failed"}, NEW b \in BOOLEAN,
         ~b => x.state # "closing"
  PROVE  Good(x, CallStable(x, b))
<1>0. x.token /\ Published(x) /\ Decided(x)
  BY DEF Fit, BeforeToken, None
<1> DEFINE z == [x EXCEPT !.call = None]
           y == CallStable(x, b)
<1>1. z \in Fields BY UpdateType DEF Calls
<1>2. /\ z.call = None /\ z.overdue = x.overdue /\ z.state = x.state
      /\ z.terminal = x.terminal
      /\ SameOpen(x, z) /\ SameEnd(x, z) /\ SameLease(x, z) /\ SameLuw(x, z)
  BY DEF Fields, SameOpen, SameEnd, SameLease, SameLuw
<1>3. y = IF b THEN StartControl(z, "rollback") ELSE [z EXCEPT !.state = "active"]
  BY DEF CallStable
<1> HIDE DEF z, y
<1>4. /\ y \in Fields
      /\ y.reusable = z.reusable /\ y.flawed = z.flawed
      /\ y.lateRelease = z.lateRelease
      /\ SameOpen(z, y) /\ SameWork(z, y) /\ SameLease(z, y) /\ SameLuw(z, y)
      /\ b => /\ y.state = "rollingBack" /\ y.control = "rollback"
              /\ y.terminal = "control"
      /\ ~b => /\ y.state = "active" /\ y.control = z.control
               /\ y.terminal = z.terminal
  <2>1. CASE b BY <1>1, <1>3, <2>1, StartControlFields
  <2>2. CASE ~b
    <3> DEFINE v == [z EXCEPT !.state = "active"]
    <3>1. v \in Fields BY <1>1, UpdateType DEF States
    <3>2. /\ v.state = "active" /\ v.terminal = z.terminal
          /\ SameOpen(z, v) /\ SameWork(z, v) /\ SameEnd(z, v)
          /\ SameLease(z, v) /\ SameLuw(z, v)
      BY <1>1 DEF Fields, SameOpen, SameWork, SameEnd, SameLease, SameLuw
    <3>3. y = v BY <1>3, <2>2
    <3> HIDE DEF v
    <3> QED BY <2>2, <3>1, <3>2, <3>3 DEF SameEnd
  <2> QED BY <2>1, <2>2
<1>5. Fit(y)
  BY <1>0, <1>2, <1>4 DEF Fit, Published, Decided, Executed, None, Pending, Settled, Over,
     SameOpen, SameWork, SameEnd, SameLease, SameLuw
<1>6. Good(x, y) BY <1>0, <1>2, <1>4, <1>5
  DEF Good, LeaseStep, Final, SameLease, SameLuw, Published,
  None, Pending, Settled, Over
<1> QED BY <1>6 DEF y

\* A business call starts.
LEMMA CallGood ==
  ASSUME NEW x \in Fields, Fit(x), x.state = "active"
  PROVE  Good(x, [x EXCEPT !.state = "calling", !.call = "running"])
<1>0. x.token /\ Published(x) /\ Decided(x)
  BY DEF Fit, BeforeToken, None, Pending, Settled, Over
<1> DEFINE y == [x EXCEPT !.state = "calling", !.call = "running"]
<1>1. y \in Fields BY UpdateType DEF States, Calls, Pending
<1>2. /\ y.state = "calling" /\ y.call = "running" /\ y.overdue = x.overdue
      /\ y.terminal = x.terminal
      /\ SameOpen(x, y) /\ SameEnd(x, y) /\ SameLease(x, y) /\ SameLuw(x, y)
  BY DEF Fields, SameOpen, SameWork, SameEnd, SameLease, SameLuw
<1> HIDE DEF y
<1>3. Fit(y)
  BY <1>0, <1>2 DEF Fit, Published, Decided, Executed, None, Pending, Settled, Over,
     SameOpen, SameWork, SameEnd, SameLease, SameLuw
<1>4. Good(x, y) BY <1>0, <1>1, <1>2, <1>3
  DEF Good, LeaseStep, Final, SameLease, SameLuw, Published,
  None, Pending, Settled, Over
<1> QED BY <1>4 DEF y

\* A business call settles, or overruns its deadline.
LEMMA CallSettlesGood ==
  ASSUME NEW x \in Fields, Fit(x), x.call \in Pending, NEW r \in Settled
  PROVE  Good(x, [x EXCEPT !.call = r, !.overdue = (r = "timedout")])
<1>0. x.token /\ Published(x) /\ Decided(x)
  BY DEF Fit, BeforeToken, None, Pending, Settled, Over
<1> DEFINE y == [x EXCEPT !.call = r, !.overdue = (r = "timedout")]
<1>1. y \in Fields BY UpdateType DEF Calls
<1>2. /\ y.call = r /\ (y.overdue <=> r = "timedout") /\ y.state = x.state
      /\ y.terminal = x.terminal
      /\ SameOpen(x, y) /\ SameEnd(x, y) /\ SameLease(x, y) /\ SameLuw(x, y)
  BY DEF Fields, SameOpen, SameWork, SameEnd, SameLease, SameLuw
<1> HIDE DEF y
<1>3. Fit(y)
  BY <1>0, <1>2 DEF Fit, Published, Decided, Executed, None, Pending, Settled, Over,
     SameOpen, SameWork, SameEnd, SameLease, SameLuw
<1>4. Good(x, y) BY <1>0, <1>1, <1>2, <1>3
  DEF Good, LeaseStep, Final, SameLease, SameLuw, Published,
  None, Pending, Settled, Over
<1> QED BY <1>4 DEF y

\* A failed business call gives the session up.
LEMMA CallFailsGood ==
  ASSUME NEW x \in Fields, Fit(x), x.call \in {"failed", "timedout"}
  PROVE  Good(x, EndWithRelease([x EXCEPT !.call = None, !.outcome = "ambiguous", !.doubt = TRUE,
                        !.state = IF @ = "closing" THEN @ ELSE "failed"], FALSE, FALSE))
<1>0. x.token /\ Published(x) /\ Decided(x)
  BY DEF Fit, BeforeToken, None, Pending, Settled, Over
<1> DEFINE z == [x EXCEPT !.call = None, !.outcome = "ambiguous", !.doubt = TRUE,
                        !.state = IF @ = "closing" THEN @ ELSE "failed"]
           b == FALSE
           f == FALSE
           y == EndWithRelease(z, b, f)
<1>1. z \in Fields BY UpdateType DEF Calls, Outcomes, States
<1>2. /\ z.call = None /\ z.outcome = "ambiguous" /\ z.doubt = TRUE
      /\ z.state = IF x.state = "closing" THEN x.state ELSE "failed"
      /\ z.overdue = x.overdue /\ z.luw = x.luw
      /\ SameOpen(x, z) /\ SameEnd(x, z) /\ SameLease(x, z)
  BY DEF Fields, SameOpen, SameWork, SameEnd, SameLease, SameLuw
<1>3. b \in BOOLEAN /\ f \in BOOLEAN BY DEF Reusable
<1> HIDE DEF z
<1>4. /\ y \in Fields /\ y.reusable = b /\ y.flawed = f
      /\ y.control = z.control /\ y.lateRelease = z.lateRelease
      /\ y.session = z.session
      /\ SameOpen(z, y) /\ SameWork(z, y) /\ SameLuw(z, y)
      /\ z.overdue => /\ y.state = z.state /\ y.terminal = "operations"
                      /\ SameLease(z, y)
      /\ ~z.overdue => /\ y.state = "releasing" /\ y.terminal = "release"
                       /\ y.lease = IF b THEN "reused" ELSE "evicted"
                       /\ y.releases = z.releases + 1
  BY <1>1, <1>3, EndWithReleaseFields
<1> HIDE DEF y
<1>5. Fit(y)
  BY <1>0, <1>2, <1>4 DEF Reusable, Fit, Published, Decided, Executed, None, Pending, Settled, Over,
     SameOpen, SameWork, SameEnd, SameLease, SameLuw
<1>6. Good(x, y)
  <2>1. x.lease = "held"
    BY <1>0 DEF Published, None, Pending, Settled, Over
  <2> QED BY <1>0, <1>2, <1>4, <1>5, <2>1
         DEF Good, LeaseStep, Final, SameLease, SameLuw, Published, Decided,
         None, Pending, Settled, Over
<1> QED BY <1>6 DEF y, z

\* close() during a call
LEMMA CloseCallingGood ==
  ASSUME NEW x \in Fields, Fit(x), x.state = "calling"
  PROVE  Good(x, [x EXCEPT !.state = "closing", !.terminal = "call",
                        !.call = Signalled(@)])
<1>0. x.token /\ Published(x) /\ Decided(x)
  BY DEF Fit, BeforeToken, None, Pending, Settled, Over
<1>a. Signalled(x.call) \in Calls BY DEF Fields, Calls, Signalled, Pending
<1>b. x.call \in Pending \cup Settled
  BY <1>0 DEF Fields, Calls, Published, None
<1> DEFINE y == [x EXCEPT !.state = "closing", !.terminal = "call",
                        !.call = Signalled(@)]
<1>1. y \in Fields BY <1>a, UpdateType DEF States, Terminals
<1>2. /\ y.state = "closing" /\ y.terminal = "call"
      /\ y.call = IF x.call = "running" THEN "signalled" ELSE x.call
      /\ y.overdue = x.overdue
      /\ SameOpen(x, y) /\ SameEnd(x, y) /\ SameLease(x, y) /\ SameLuw(x, y)
  BY DEF Fields, Signalled, SameOpen, SameWork, SameEnd, SameLease, SameLuw
<1> HIDE DEF y
<1>3. Fit(y)
  BY <1>0, <1>b, <1>2 DEF Fit, Published, Decided, Executed, None, Pending, Settled, Over,
     SameOpen, SameWork, SameEnd, SameLease, SameLuw
<1>4. Good(x, y) BY <1>0, <1>1, <1>2, <1>3
  DEF Good, LeaseStep, Final, SameLease, SameLuw, Published,
  None, Pending, Settled, Over
<1> QED BY <1>4 DEF y

\* The SAP system executes the control function.
LEMMA ServerGood ==
  ASSUME NEW x \in Fields, Fit(x), x.luw = "open", x.control # None,
         x.terminal = "control" \/ x.outcome = "ambiguous"
  PROVE  Good(x, [x EXCEPT !.luw = Executed(x)])
<1>0. x.token /\ Published(x) /\ Decided(x)
  BY DEF Fit, BeforeToken, None, Pending, Settled, Over
<1> DEFINE y == [x EXCEPT !.luw = Executed(x)]
<1>1. y \in Fields BY UpdateType DEF Units, Executed
<1>2. /\ y.luw = Executed(x) /\ y.outcome = x.outcome /\ y.doubt = x.doubt
      /\ y.state = x.state /\ y.terminal = x.terminal
      /\ SameOpen(x, y) /\ SameWork(x, y) /\ SameEnd(x, y) /\ SameLease(x, y)
  BY DEF Fields, SameOpen, SameWork, SameEnd, SameLease, SameLuw
<1> HIDE DEF y
<1>3. Fit(y)
  BY <1>0, <1>2 DEF Fit, Published, Decided, Executed, None, Pending, Settled, Over,
     SameOpen, SameWork, SameEnd, SameLease, SameLuw
<1>4. Good(x, y) BY <1>0, <1>1, <1>2, <1>3
  DEF Good, LeaseStep, Final, SameLease, SameLuw, Published,
  None, Pending, Settled, Over
<1> QED BY <1>4 DEF y

\* The control function succeeds.
LEMMA ControlSucceedsGood ==
  ASSUME NEW x \in Fields, Fit(x), x.terminal = "control", x.luw # "open"
  PROVE  Good(x, [x EXCEPT !.outcome = Executed(x),
                        !.state = "resetting", !.terminal = "reset"])
<1>0. x.token /\ Published(x) /\ Decided(x)
  BY DEF Fit, BeforeToken, None, Pending, Settled, Over
<1> DEFINE y == [x EXCEPT !.outcome = Executed(x),
                        !.state = "resetting", !.terminal = "reset"]
<1>1. y \in Fields BY UpdateType DEF Outcomes, States, Terminals, Executed
<1>2. /\ y.outcome = Executed(x) /\ y.state = "resetting" /\ y.terminal = "reset"
      /\ y.luw = x.luw /\ y.doubt = x.doubt
      /\ SameOpen(x, y) /\ SameWork(x, y) /\ SameEnd(x, y) /\ SameLease(x, y)
  BY DEF Fields, SameOpen, SameWork, SameEnd, SameLease, SameLuw
<1> HIDE DEF y
<1>3. Fit(y)
  BY <1>0, <1>2 DEF Fit, Published, Decided, Executed, None, Pending, Settled, Over,
     SameOpen, SameWork, SameEnd, SameLease, SameLuw
<1>4. Good(x, y) BY <1>0, <1>1, <1>2, <1>3
  DEF Good, LeaseStep, Final, SameLease, SameLuw, Published, Decided,
  None, Pending, Settled, Over
<1> QED BY <1>4 DEF y

\* The control function is refused.
LEMMA ControlRefusedGood ==
  ASSUME NEW x \in Fields, Fit(x), x.terminal = "control", x.luw = "open"
  PROVE  Good(x, EndWithRelease([x EXCEPT !.outcome = "rejected"], FALSE, TRUE))
<1>0. x.token /\ Published(x) /\ Decided(x)
  BY DEF Fit, BeforeToken, None, Pending, Settled, Over
<1> DEFINE z == [x EXCEPT !.outcome = "rejected"]
           b == FALSE
           f == TRUE
           y == EndWithRelease(z, b, f)
<1>1. z \in Fields BY UpdateType DEF Outcomes
<1>2. /\ z.outcome = "rejected" /\ z.luw = x.luw /\ z.doubt = x.doubt
      /\ z.state = x.state
      /\ SameOpen(x, z) /\ SameWork(x, z) /\ SameEnd(x, z) /\ SameLease(x, z)
  BY DEF Fields, SameOpen, SameWork, SameEnd, SameLease, SameLuw
<1>3. b \in BOOLEAN /\ f \in BOOLEAN BY DEF Reusable
<1> HIDE DEF z
<1>4. /\ y \in Fields /\ y.reusable = b /\ y.flawed = f
      /\ y.control = z.control /\ y.lateRelease = z.lateRelease
      /\ y.session = z.session
      /\ SameOpen(z, y) /\ SameWork(z, y) /\ SameLuw(z, y)
      /\ z.overdue => /\ y.state = z.state /\ y.terminal = "operations"
                      /\ SameLease(z, y)
      /\ ~z.overdue => /\ y.state = "releasing" /\ y.terminal = "release"
                       /\ y.lease = IF b THEN "reused" ELSE "evicted"
                       /\ y.releases = z.releases + 1
  BY <1>1, <1>3, EndWithReleaseFields
<1> HIDE DEF y
<1>5. Fit(y)
  BY <1>0, <1>2, <1>4 DEF Reusable, Fit, Published, Decided, Executed, None, Pending, Settled, Over,
     SameOpen, SameWork, SameEnd, SameLease, SameLuw
<1>6. Good(x, y)
  <2>1. x.lease = "held"
    BY <1>0 DEF Published, None, Pending, Settled, Over
  <2> QED BY <1>0, <1>2, <1>4, <1>5, <2>1
         DEF Good, LeaseStep, Final, SameLease, SameLuw, Published, Decided,
         None, Pending, Settled, Over
<1> QED BY <1>6 DEF y, z

\* The outcome of the control function is lost.
LEMMA ControlLostGood ==
  ASSUME NEW x \in Fields, Fit(x), x.terminal = "control", NEW r \in Settled, r # "ok"
  PROVE  Good(x, EndWithRelease([x EXCEPT !.outcome = LostOutcome,
                                       !.overdue = (r = "timedout")], FALSE, TRUE))
<1>0. x.token /\ Published(x) /\ Decided(x)
  BY DEF Fit, BeforeToken, None, Pending, Settled, Over
<1> DEFINE z == [x EXCEPT !.outcome = LostOutcome,
                                       !.overdue = (r = "timedout")]
           b == FALSE
           f == TRUE
           y == EndWithRelease(z, b, f)
<1>1. z \in Fields BY UpdateType DEF LostOutcome, Outcomes
<1>2. /\ z.outcome = "ambiguous" /\ (z.overdue <=> r = "timedout")
      /\ z.luw = x.luw /\ z.doubt = x.doubt
      /\ z.state = x.state /\ z.call = x.call
      /\ SameOpen(x, z) /\ SameEnd(x, z) /\ SameLease(x, z)
  BY DEF LostOutcome, Fields, SameOpen, SameWork, SameEnd, SameLease, SameLuw
<1>3. b \in BOOLEAN /\ f \in BOOLEAN BY DEF Reusable
<1> HIDE DEF z
<1>4. /\ y \in Fields /\ y.reusable = b /\ y.flawed = f
      /\ y.control = z.control /\ y.lateRelease = z.lateRelease
      /\ y.session = z.session
      /\ SameOpen(z, y) /\ SameWork(z, y) /\ SameLuw(z, y)
      /\ z.overdue => /\ y.state = z.state /\ y.terminal = "operations"
                      /\ SameLease(z, y)
      /\ ~z.overdue => /\ y.state = "releasing" /\ y.terminal = "release"
                       /\ y.lease = IF b THEN "reused" ELSE "evicted"
                       /\ y.releases = z.releases + 1
  BY <1>1, <1>3, EndWithReleaseFields
<1> HIDE DEF y
<1>5. Fit(y)
  BY <1>0, <1>2, <1>4 DEF Reusable, Fit, Published, Decided, Executed, None, Pending, Settled, Over,
     SameOpen, SameWork, SameEnd, SameLease, SameLuw
<1>6. Good(x, y)
  <2>1. x.lease = "held"
    BY <1>0 DEF Published, None, Pending, Settled, Over
  <2> QED BY <1>0, <1>2, <1>4, <1>5, <2>1
         DEF Good, LeaseStep, Final, SameLease, SameLuw, Published, Decided,
         None, Pending, Settled, Over
<1> QED BY <1>6 DEF y, z

\* The reset settles, or overruns its deadline.
LEMMA ResetSettlesGood ==
  ASSUME NEW x \in Fields, Fit(x), x.terminal = "reset", NEW r \in Settled
  PROVE  Good(x, EndWithRelease([x EXCEPT !.overdue = (r = "timedout")], Reusable(r), r # "ok"))
<1>0. x.token /\ Published(x) /\ Decided(x)
  BY DEF Fit, BeforeToken, None, Pending, Settled, Over
<1> DEFINE z == [x EXCEPT !.overdue = (r = "timedout")]
           b == Reusable(r)
           f == r # "ok"
           y == EndWithRelease(z, b, f)
<1>1. z \in Fields BY UpdateType DEF Settled
<1>2. /\ (z.overdue <=> r = "timedout") /\ z.call = x.call /\ z.state = x.state
      /\ SameOpen(x, z) /\ SameEnd(x, z) /\ SameLease(x, z) /\ SameLuw(x, z)
  BY DEF Fields, SameOpen, SameWork, SameEnd, SameLease, SameLuw
<1>3. b \in BOOLEAN /\ f \in BOOLEAN BY DEF Reusable
<1>b. b <=> r = "ok" BY DEF Reusable
<1>f. f <=> r # "ok" OBVIOUS
<1> HIDE DEF z, b, f
<1>4. /\ y \in Fields /\ y.reusable = b /\ y.flawed = f
      /\ y.control = z.control /\ y.lateRelease = z.lateRelease
      /\ y.session = z.session
      /\ SameOpen(z, y) /\ SameWork(z, y) /\ SameLuw(z, y)
      /\ z.overdue => /\ y.state = z.state /\ y.terminal = "operations"
                      /\ SameLease(z, y)
      /\ ~z.overdue => /\ y.state = "releasing" /\ y.terminal = "release"
                       /\ y.lease = IF b THEN "reused" ELSE "evicted"
                       /\ y.releases = z.releases + 1
  BY <1>1, <1>3, EndWithReleaseFields
<1> HIDE DEF y
<1>5. Fit(y)
  BY <1>0, <1>2, <1>4, <1>b, <1>f DEF Fit, Published, Decided, Executed, None, Pending, Settled, Over,
     SameOpen, SameWork, SameEnd, SameLease, SameLuw
<1>6. Good(x, y)
  <2>1. x.lease = "held"
    BY <1>0 DEF Published, None, Pending, Settled, Over
  <2> QED BY <1>0, <1>2, <1>4, <1>5, <2>1
         DEF Good, LeaseStep, Final, SameLease, SameLuw, Published,
         None, Pending, Settled, Over
<1> QED BY <1>6 DEF y, z, b, f

\* The terminal stops waiting for work past its deadline.
LEMMA OperationsTimeOutGood ==
  ASSUME NEW x \in Fields, Fit(x), x.terminal = "operations"
  PROVE  Good(x, [Refuted(x) EXCEPT !.lateRelease = "waiting"])
<1>0. x.token /\ Published(x) /\ Decided(x)
  BY DEF Fit, BeforeToken, None, Pending, Settled, Over
<1> DEFINE z == Refuted(x)
           y == [z EXCEPT !.lateRelease = "waiting"]
<1>1. /\ z \in Fields /\ z.state = "failed" /\ z.terminal = "rejected"
      /\ SameOpen(x, z) /\ SameWork(x, z) /\ SameEnd(x, z)
      /\ SameLease(x, z) /\ SameLuw(x, z)
  BY SettledFields
<1> HIDE DEF z
<1>2. y \in Fields BY <1>1, UpdateType DEF LateReleases
<1>3. /\ y.lateRelease = "waiting" /\ y.state = "failed"
      /\ y.terminal = "rejected" /\ y.control = z.control
      /\ y.reusable = z.reusable /\ y.flawed = z.flawed
      /\ SameOpen(z, y) /\ SameWork(z, y) /\ SameLease(z, y) /\ SameLuw(z, y)
  BY <1>1 DEF Fields, SameOpen, SameWork, SameLease, SameLuw
<1> HIDE DEF y
<1>4. Fit(y)
  BY <1>0, <1>1, <1>3 DEF Fit, Published, Decided, Executed, None, Pending, Settled, Over,
     SameOpen, SameWork, SameEnd, SameLease, SameLuw
<1>5. Good(x, y) BY <1>0, <1>1, <1>2, <1>3, <1>4
  DEF Good, LeaseStep, Final, SameLease, SameLuw, Published,
  None, Pending, Settled, Over
<1> QED BY <1>5 DEF y, z

\* Work past its deadline settles.
LEMMA OverdueGood ==
  ASSUME NEW x \in Fields, Fit(x), x.overdue
  PROVE  Good(x, AfterOverdue([x EXCEPT !.overdue = FALSE]))
<1>0. x.token /\ Published(x) /\ Decided(x)
  BY DEF Fit, BeforeToken
<1> DEFINE z == [x EXCEPT !.overdue = FALSE]
           y == AfterOverdue(z)
<1> SUFFICES Good(x, y) OBVIOUS
<1>1. z \in Fields BY UpdateType
<1>2. /\ ~z.overdue /\ z.call = x.call /\ z.state = x.state
      /\ z.terminal = x.terminal
      /\ SameOpen(x, z) /\ SameEnd(x, z) /\ SameLease(x, z) /\ SameLuw(x, z)
  BY DEF Fields, SameOpen, SameEnd, SameLease, SameLuw
<1>3. z.reusable \in BOOLEAN BY <1>1 DEF Fields
<1> HIDE DEF z, y
<1>4. CASE z.terminal = "operations"
  <2>1. y = StartRelease(z, z.reusable) BY <1>4 DEF AfterOverdue, y
  <2>2. /\ y \in Fields
        /\ y.state = "releasing" /\ y.terminal = "release"
        /\ y.lease = IF z.reusable THEN "reused" ELSE "evicted"
        /\ y.releases = z.releases + 1 /\ y.session = z.session
        /\ SameOpen(z, y) /\ SameWork(z, y) /\ SameEnd(z, y) /\ SameLuw(z, y)
    BY <1>1, <1>3, <2>1, StartReleaseFields
  <2>3. Fit(y)
    BY <1>0, <1>2, <1>4, <2>2 DEF Fit, Published, Decided, Executed, None, Pending, Settled, Over,
     SameOpen, SameWork, SameEnd, SameLease, SameLuw
  <2>4. x.lease = "held" BY <1>0, <1>2, <1>4 DEF Published, Over, None
  <2> QED BY <1>0, <1>2, <1>4, <2>2, <2>3, <2>4
         DEF Good, LeaseStep, Final, SameLease, SameLuw, Published, Decided,
         None, Pending, Settled, Over
<1>5. CASE z.terminal # "operations" /\ z.lateRelease = "waiting"
  <2> DEFINE w == [z EXCEPT !.state = "releasing", !.lateRelease = "releasing"]
  <2>1. y = HandOver(w, FALSE) BY <1>5 DEF AfterOverdue, y
  <2>2. w \in Fields BY <1>1, UpdateType DEF States, LateReleases
  <2>3. /\ w.state = "releasing" /\ w.lateRelease = "releasing"
        /\ w.terminal = z.terminal /\ w.control = z.control
        /\ w.reusable = z.reusable /\ w.flawed = z.flawed
        /\ SameOpen(z, w) /\ SameWork(z, w) /\ SameLease(z, w) /\ SameLuw(z, w)
    BY <1>1 DEF Fields, SameOpen, SameWork, SameLease, SameLuw
  <2> HIDE DEF w
  <2>4. /\ y \in Fields /\ y.lease = "evicted"
        /\ y.releases = w.releases + 1 /\ y.session = w.session
        /\ y.state = w.state /\ y.terminal = w.terminal
        /\ SameOpen(w, y) /\ SameWork(w, y) /\ SameEnd(w, y) /\ SameLuw(w, y)
    BY <2>1, <2>2, HandOverFields
  <2>5. Fit(y)
    BY <1>0, <1>2, <1>5, <2>3, <2>4 DEF Fit, Published, Decided, Executed, None, Pending, Settled, Over,
     SameOpen, SameWork, SameEnd, SameLease, SameLuw
  <2>6. x.lease = "held" BY <1>0, <1>2, <1>5 DEF Published, Over, None, SameEnd
  <2> QED BY <1>0, <1>2, <2>3, <2>4, <2>5, <2>6
         DEF Good, LeaseStep, Final, SameLease, SameLuw, Published,
         None, Pending, Settled, Over
<1>6. CASE z.terminal # "operations" /\ z.lateRelease # "waiting"
  <2>1. y = z BY <1>6 DEF AfterOverdue, y
  <2>2. Fit(z)
    BY <1>0, <1>2, <1>6 DEF Fit, Published, Decided, Executed, None, Pending, Settled, Over,
     SameOpen, SameWork, SameEnd, SameLease, SameLuw
  <2> QED BY <1>0, <1>1, <1>2, <2>1, <2>2
         DEF Good, LeaseStep, Final, SameLease, SameLuw, Published,
         None, Pending, Settled, Over
<1> QED BY <1>4, <1>5, <1>6

\* The release of a terminal settles.
LEMMA ReleaseSettlesGood ==
  ASSUME NEW x \in Fields, Fit(x), x.terminal = "release"
  PROVE  /\ x.flawed = FALSE => Good(x, Fulfilled(x))
         /\ Good(x, [x EXCEPT !.state = "closed", !.terminal = "rejected"])
<1>0. x.token /\ Published(x) /\ Decided(x)
  BY DEF Fit, BeforeToken, None, Pending, Settled, Over
<1>1. ASSUME x.flawed = FALSE PROVE Good(x, Fulfilled(x))
  <2> DEFINE y == Fulfilled(x)
  <2>1. /\ y \in Fields /\ y.state = "closed" /\ y.terminal = "resolved"
        /\ SameOpen(x, y) /\ SameWork(x, y) /\ SameEnd(x, y)
        /\ SameLease(x, y) /\ SameLuw(x, y)
    BY SettledFields
  <2> HIDE DEF y
  <2>2. Fit(y)
    BY <1>0, <1>1, <2>1 DEF Fit, Published, Decided, Executed, None, Pending, Settled, Over,
     SameOpen, SameWork, SameEnd, SameLease, SameLuw
  <2>3. Good(x, y) BY <1>0, <2>1, <2>2
    DEF Good, LeaseStep, Final, SameLease, SameLuw, Published,
    None, Pending, Settled, Over
  <2> QED BY <2>3 DEF y
<1>2. Good(x, [x EXCEPT !.state = "closed", !.terminal = "rejected"])
  <2> DEFINE y == [x EXCEPT !.state = "closed", !.terminal = "rejected"]
  <2>1. y \in Fields BY UpdateType DEF States, Terminals, Over
  <2>2. /\ y.state = "closed" /\ y.terminal = "rejected"
        /\ SameOpen(x, y) /\ SameWork(x, y) /\ SameEnd(x, y)
        /\ SameLease(x, y) /\ SameLuw(x, y)
    BY DEF Fields, SameOpen, SameWork, SameEnd, SameLease, SameLuw
  <2> HIDE DEF y
  <2>3. Fit(y)
    BY <1>0, <2>2 DEF Fit, Published, Decided, Executed, None, Pending, Settled, Over,
     SameOpen, SameWork, SameEnd, SameLease, SameLuw
  <2>4. Good(x, y) BY <1>0, <2>1, <2>2, <2>3
    DEF Good, LeaseStep, Final, SameLease, SameLuw, Published,
    None, Pending, Settled, Over
  <2> QED BY <2>4 DEF y
<1> QED BY <1>1, <1>2

\* The late release settles.
LEMMA LateReleaseSettlesGood ==
  ASSUME NEW x \in Fields, Fit(x), x.lateRelease = "releasing"
  PROVE  Good(x, [x EXCEPT !.state = "closed", !.lateRelease = "done"])
<1>0. x.token /\ Published(x) /\ Decided(x)
  BY DEF Fit, BeforeToken, None, Pending, Settled, Over
<1> DEFINE y == [x EXCEPT !.state = "closed", !.lateRelease = "done"]
<1>1. y \in Fields BY UpdateType DEF States, LateReleases
<1>2. /\ y.state = "closed" /\ y.lateRelease = "done"
      /\ y.terminal = x.terminal /\ y.control = x.control
      /\ y.reusable = x.reusable /\ y.flawed = x.flawed
      /\ SameOpen(x, y) /\ SameWork(x, y) /\ SameLease(x, y) /\ SameLuw(x, y)
  BY DEF Fields, SameOpen, SameWork, SameEnd, SameLease, SameLuw
<1> HIDE DEF y
<1>3. Fit(y)
  BY <1>0, <1>2 DEF Fit, Published, Decided, Executed, None, Pending, Settled, Over,
     SameOpen, SameWork, SameEnd, SameLease, SameLuw
<1>4. Good(x, y) BY <1>0, <1>1, <1>2, <1>3
  DEF Good, LeaseStep, Final, SameLease, SameLuw, Published,
  None, Pending, Settled, Over
<1> QED BY <1>4 DEF y

\* close() during begin()
LEMMA CloseOpeningGood ==
  ASSUME NEW x \in Fields, Fit(x), x.state = "opening"
  PROVE  Good(x, [x EXCEPT !.state = "closing", !.terminal = "opening",
                           !.acquire = Signalled(@)])
<1>0. ~x.token /\ BeforeToken(x) /\ x.acquire \in Pending \cup Settled
  BY DEF Fit, Published, BeforeToken, Fields, Acquires, None, Pending, Settled, Over
<1>a. Signalled(x.acquire) \in Acquires BY <1>0 DEF Acquires, Signalled, Pending
<1> DEFINE y == [x EXCEPT !.state = "closing", !.terminal = "opening",
                          !.acquire = Signalled(@)]
<1>1. y \in Fields BY <1>a, UpdateType DEF States, Terminals
<1>2. /\ y.state = "closing" /\ y.terminal = "opening"
      /\ y.acquire = IF x.acquire = "running" THEN "signalled" ELSE x.acquire
      /\ y.token = x.token /\ y.late = x.late
      /\ SameWork(x, y) /\ SameEnd(x, y) /\ SameLease(x, y) /\ SameLuw(x, y)
  BY DEF Fields, Signalled, SameWork, SameEnd, SameLease, SameLuw
<1> HIDE DEF y
<1>3. Fit(y)
  BY <1>0, <1>2 DEF Fit, BeforeToken, None, Pending, Settled, Over,
     SameWork, SameEnd, SameLease, SameLuw
<1>4. Good(x, y) BY <1>0, <1>1, <1>2, <1>3
  DEF Good, LeaseStep, Final, SameLease, SameLuw, BeforeToken,
  None, Pending, Settled, Over
<1> QED BY <1>4 DEF y

(***************************************************************************)
(* All runtimes and their sessions                                         *)
(***************************************************************************)
\* A good step of one runtime keeps the invariant.
LEMMA BecomesKeeps ==
  ASSUME TransactionAssumption, TransactionInv, NEW t \in Transactions,
         NEW y, Good(tx[t], y), Becomes(t, y)
  PROVE  TransactionInv'
<1> DEFINE x == tx[t]
<1>1. /\ tx \in [Transactions -> Fields] /\ free \subseteq Sessions
      /\ None \notin Sessions
  BY DEF TransactionInv, TypeOK, TransactionAssumption
<1>2. /\ y \in Fields /\ Fit(y) /\ LeaseStep(x, y) /\ tx' = [tx EXCEPT ![t] = y]
      /\ free' = IF y.lease = x.lease THEN free
                 ELSE IF y.lease = "reused" THEN free \cup {y.session}
                 ELSE free \ {y.session}
  BY DEF Good, Becomes
<1>3. tx' \in [Transactions -> Fields] /\ tx'[t] = y
  BY <1>1, <1>2
<1>4. \A u \in Transactions \ {t} : tx'[u] = tx[u] BY <1>1, <1>2
<1>5. \A u \in Transactions : Fit(tx[u]) /\ tx[u] \in Fields
  BY <1>1 DEF TransactionInv, FieldsFit
<1>6. FieldsFit'
  <2> SUFFICES ASSUME NEW u \in Transactions PROVE Fit(tx'[u])
    BY DEF FieldsFit, Fit, Published, Decided, BeforeToken, Executed
  <2> QED BY <1>2, <1>3, <1>4, <1>5
<1>7. \A u \in Transactions :
        /\ tx[u].lease \in Leases /\ tx[u].session \in Sessions \cup {None}
        /\ tx[u].session = None <=> tx[u].lease = None
  BY <1>5 DEF Fields, Fit
<1>8. \A u \in Transactions : tx[u].lease \in {"held", "evicted"} =>
        /\ tx[u].session \notin free
        /\ \A v \in Transactions \ {u} :
             tx[v].session = tx[u].session => tx[v].lease = "reused"
  BY DEF TransactionInv, SessionsApart
<1> HIDE DEF x
<1>9. free' \subseteq Sessions /\ SessionsApart'
  <2>1. CASE y.lease = x.lease /\ y.session = x.session
    <3>1. \A u \in Transactions :
            tx'[u].lease = tx[u].lease /\ tx'[u].session = tx[u].session
      BY <1>3, <1>4, <2>1 DEF x
    <3>2. free' = free BY <1>2, <2>1
    <3> QED BY <1>1, <1>8, <3>1, <3>2 DEF SessionsApart
  <2>2. CASE /\ x.lease = "held" /\ y.lease \in {"reused", "evicted"}
             /\ y.session = x.session
    <3>1. x.session \in Sessions BY <1>7, <2>2 DEF x, None
    <3>2. /\ free' \subseteq free \cup {x.session}
          /\ y.lease = "evicted" => free' \subseteq free
      BY <1>2, <2>2
    <3>3. \A v \in Transactions \ {t} :
            tx[v].session = x.session => tx[v].lease = "reused"
      BY <1>8, <2>2 DEF x
    <3>4. x.session \notin free BY <1>8, <2>2 DEF x
    <3>5. ASSUME NEW u \in Transactions, tx'[u].lease \in {"held", "evicted"}
          PROVE  /\ tx'[u].session \notin free'
                 /\ \A v \in Transactions \ {u} :
                      tx'[v].session = tx'[u].session => tx'[v].lease = "reused"
      <4>1. CASE u = t BY <1>3, <1>4, <2>2, <3>2, <3>3, <3>4, <3>5, <4>1
      <4>2. CASE u # t
        <5>1. tx'[u] = tx[u] BY <1>4, <4>2
        <5>2. tx[u].session # x.session BY <3>3, <3>5, <4>2, <5>1
        <5> QED BY <1>3, <1>4, <1>8, <2>2, <3>2, <3>5, <5>1, <5>2
      <4> QED BY <4>1, <4>2
    <3> QED BY <1>1, <3>1, <3>2, <3>5 DEF SessionsApart
  <2>3. CASE /\ x.lease = None /\ y.lease \in {"held", "evicted"}
             /\ y.session \in free
    <3>1. free' = free \ {y.session} BY <1>2, <2>3 DEF None
    <3>2. \A v \in Transactions \ {t} :
            tx[v].session = y.session => tx[v].lease = "reused"
      BY <1>1, <1>7, <1>8, <2>3 DEF Leases
    <3>3. ASSUME NEW u \in Transactions, tx'[u].lease \in {"held", "evicted"}
          PROVE  /\ tx'[u].session \notin free'
                 /\ \A v \in Transactions \ {u} :
                      tx'[v].session = tx'[u].session => tx'[v].lease = "reused"
      <4>1. CASE u = t BY <1>3, <1>4, <3>1, <3>2, <4>1
      <4>2. CASE u # t
        <5>1. tx'[u] = tx[u] BY <1>4, <4>2
        <5>2. tx[u].session # y.session BY <1>8, <2>3, <3>3, <5>1
        <5> QED BY <1>3, <1>4, <1>8, <3>1, <3>3, <5>1, <5>2
      <4> QED BY <4>1, <4>2
    <3> QED BY <1>1, <3>1, <3>3 DEF SessionsApart
  <2>4. CASE x.lease # "held" /\ y.lease = None /\ y.session = None
    <3>1. free' \subseteq free BY <1>2, <2>4 DEF None
    <3>2. ASSUME NEW u \in Transactions, tx'[u].lease \in {"held", "evicted"}
          PROVE  /\ tx'[u].session \notin free'
                 /\ \A v \in Transactions \ {u} :
                      tx'[v].session = tx'[u].session => tx'[v].lease = "reused"
      <4>1. u # t BY <1>3, <2>4, <3>2 DEF None
      <4>2. tx'[u] = tx[u] BY <1>4, <4>1
      <4>3. tx[u].session # None BY <1>7, <3>2, <4>2 DEF None
      <4> QED BY <1>3, <1>4, <1>8, <2>4, <3>1, <3>2, <4>2, <4>3
    <3> QED BY <1>1, <3>1, <3>2 DEF SessionsApart
  <2> QED BY <1>2, <2>1, <2>2, <2>3, <2>4 DEF LeaseStep
<1> QED BY <1>3, <1>6, <1>9 DEF TransactionInv, TypeOK

\* The invariant holds of the initial state.
LEMMA InitInv == TransactionAssumption /\ Init => TransactionInv
<1> SUFFICES ASSUME TransactionAssumption, Init PROVE TransactionInv
  OBVIOUS
<1>1. free = Sessions BY DEF Init
<1>2. tx \in [Transactions -> Fields]
  BY DEF Init, Fields, States, Outcomes, Acquires, Lates, Calls, Terminals,
     Controls, LateReleases, Leases, Units, None
<1>3. ASSUME NEW t \in Transactions
      PROVE  Fit(tx[t]) /\ tx[t].lease = None
  BY <1>3 DEF Init, Fit, BeforeToken, None, Pending, Settled
<1>4. SessionsApart BY <1>3 DEF SessionsApart, None
<1> QED BY <1>1, <1>2, <1>3, <1>4 DEF TransactionInv, TypeOK, FieldsFit

\* Every step gives one runtime good new fields.
LEMMA NextIsGood ==
  ASSUME TransactionAssumption, TransactionInv, Next
  PROVE  \E t \in Transactions : \E y : Good(tx[t], y) /\ Becomes(t, y)
<1>1. PICK t \in Transactions :
        \/ Asks(t) \/ Resumes(t) \/ Answers(t) \/ Expires(t) \/ Straggles(t)
        \/ ServerExecutes(t) \/ \E r \in Settled : Settles(t, r)
  BY DEF Next
<1> DEFINE x == tx[t]
           GoodStep == \E u \in Transactions : \E y : Good(tx[u], y) /\ Becomes(u, y)
<1> SUFFICES GoodStep OBVIOUS
<1>2. x \in Fields /\ Fit(x) /\ free \subseteq Sessions
  BY DEF TransactionInv, TypeOK, FieldsFit
<1>3. ASSUME NEW y, Good(x, y), Becomes(t, y) PROVE GoodStep
  BY <1>3
<1> HIDE DEF x, GoodStep
<1>4. CASE Asks(t)
  <2>1. CASE Begin(t) BY <1>2, <1>3, <2>1, BeginGood DEF Begin, x
  <2>2. CASE Call(t) BY <1>2, <1>3, <2>2, CallGood DEF Call, x
  <2>3. CASE Commit(t) BY <1>2, <1>3, <2>3, ControlGood DEF Commit, x
  <2>4. CASE Rollback(t) BY <1>2, <1>3, <2>4, ControlGood DEF Rollback, x
  <2>5. CASE CloseIdle(t) BY <1>2, <1>3, <2>5, SettledGood DEF CloseIdle, x
  <2>6. CASE CloseOpening(t)
    BY <1>2, <1>3, <2>6, CloseOpeningGood DEF CloseOpening, x
  <2>7. CASE CloseCalling(t)
    BY <1>2, <1>3, <2>7, CloseCallingGood DEF CloseCalling, x
  <2>8. CASE CloseFailed(t)
    BY <1>2, <1>3, <2>8, CloseFailedGood DEF CloseFailed, x
  <2> QED BY <1>4, <2>1, <2>2, <2>3, <2>4, <2>5, <2>6, <2>7, <2>8 DEF Asks
<1>5. CASE Resumes(t)
  <2>1. CASE BeginPublishes(t)
    BY <1>2, <1>3, <2>1, PublishGood DEF BeginPublishes, Publishable, x
  <2>2. CASE BeginRollsBack(t)
    BY <1>2, <1>3, <2>2, BeginRollsBackGood DEF BeginRollsBack, Publishable, x
  <2>3. CASE BeginRejects(t)
    <3>1. x.acquire \in {"failed", "timedout"} /\ Becomes(t, BeginEnds(x))
      BY <2>3 DEF BeginRejects, x
    <3>2. x.lateFailed \in BOOLEAN /\ x = [x EXCEPT !.lateFailed = x.lateFailed]
      BY <1>2 DEF Fields
    <3>3. Good(x, BeginEnds([x EXCEPT !.lateFailed = x.lateFailed]))
      BY <1>2, <3>1, <3>2, BeginEndsGood
    <3> QED BY <1>3, <3>1, <3>2, <3>3
  <2>4. CASE CallReturns(t)
    <3>1. /\ x.call = "ok" /\ (x.state = "closing") \in BOOLEAN
          /\ Becomes(t, CallStable(x, x.state = "closing"))
      BY <2>4 DEF CallReturns, x
    <3>2. Good(x, CallStable(x, x.state = "closing"))
      BY <1>2, <3>1, CallStableGood
    <3> QED BY <1>3, <3>1, <3>2
  <2>5. CASE CallFails(t) BY <1>2, <1>3, <2>5, CallFailsGood DEF CallFails, x
  <2>6. ASSUME NEW b \in BOOLEAN, CallRecovers(t, b) PROVE GoodStep
    BY <1>2, <1>3, <2>6, CallStableGood DEF CallRecovers, x
  <2> QED BY <1>5, <2>1, <2>2, <2>3, <2>4, <2>5, <2>6 DEF Resumes
<1>6. CASE Answers(t)
  <2>1. ASSUME NEW s \in Sessions, AcquireSucceeds(t, s) PROVE GoodStep
    BY <1>2, <1>3, <2>1, AcquiredGood DEF AcquireSucceeds, x
  <2>2. CASE AcquireFails(t)
    BY <1>2, <1>3, <2>2, AcquireFailedGood DEF AcquireFails, x
  <2>3. CASE ControlSucceeds(t)
    BY <1>2, <1>3, <2>3, ControlSucceedsGood DEF ControlSucceeds, x
  <2>4. CASE ControlRefused(t)
    BY <1>2, <1>3, <2>4, ControlRefusedGood DEF ControlRefused, x
  <2> QED BY <1>6, <2>1, <2>2, <2>3, <2>4 DEF Answers
<1>7. CASE Expires(t)
  <2>1. CASE AcquireExpires(t)
    BY <1>2, <1>3, <2>1, AcquireExpiredGood DEF AcquireExpires, x
  <2>2. CASE AcquiresTimeOut(t)
    BY <1>2, <1>3, <2>2, SettledGood DEF AcquiresTimeOut, x
  <2>3. CASE OperationsTimeOut(t)
    BY <1>2, <1>3, <2>3, OperationsTimeOutGood DEF OperationsTimeOut, x
  <2>4. CASE LateReleaseSettles(t)
    BY <1>2, <1>3, <2>4, LateReleaseSettlesGood DEF LateReleaseSettles, x
  <2> QED BY <1>7, <2>1, <2>2, <2>3, <2>4 DEF Expires
<1>8. CASE Straggles(t)
  <2>1. ASSUME NEW s \in Sessions, LateFulfils(t, s) PROVE GoodStep
    BY <1>2, <1>3, <2>1, LateFulfilsGood DEF LateFulfils, x
  <2>2. CASE LateRejects(t)
    BY <1>2, <1>3, <2>2, LateEndsGood DEF LateRejects, x, None
  <2>3. CASE OverdueSettles(t)
    BY <1>2, <1>3, <2>3, OverdueGood DEF OverdueSettles, x
  <2> QED BY <1>8, <2>1, <2>2, <2>3 DEF Straggles
<1>9. CASE ServerExecutes(t)
  BY <1>2, <1>3, <1>9, ServerGood DEF ServerExecutes, x
<1>10. ASSUME NEW r \in Settled, Settles(t, r) PROVE GoodStep
  <2>1. CASE RollbackSettles(t, r)
    <3> DEFINE b == x.lateFailed \/ r # "ok"
    <3>1. x.acquire = "rollback"
          /\ Becomes(t, BeginEnds([x EXCEPT !.lateFailed = b]))
      BY <2>1 DEF RollbackSettles, x
    <3>2. b \in BOOLEAN OBVIOUS
    <3> HIDE DEF b
    <3> QED BY <1>2, <1>3, <3>1, <3>2, BeginEndsGood
  <2>2. CASE LateEvictionSettles(t, r)
    <3> DEFINE b == r # "ok"
    <3>1. x.late # None /\ Becomes(t, LateEnds(x, b))
      BY <2>2 DEF LateEvictionSettles, x, None
    <3>2. b \in BOOLEAN OBVIOUS
    <3> HIDE DEF b
    <3> QED BY <1>2, <1>3, <3>1, <3>2, LateEndsGood
  <2>3. CASE CallSettles(t, r)
    BY <1>2, <1>3, <1>10, <2>3, CallSettlesGood DEF CallSettles, x
  <2>4. CASE ControlLost(t, r)
    BY <1>2, <1>3, <1>10, <2>4, ControlLostGood DEF ControlLost, x
  <2>5. CASE ResetSettles(t, r)
    BY <1>2, <1>3, <1>10, <2>5, ResetSettlesGood DEF ResetSettles, x
  <2>6. CASE ReleaseSettles(t, r)
    <3>1. x.terminal = "release" /\ x.flawed \in BOOLEAN
      BY <1>2, <2>6 DEF ReleaseSettles, x, Fields
    <3>2. CASE x.flawed \/ r # "ok"
      BY <1>2, <1>3, <2>6, <3>1, <3>2, ReleaseSettlesGood DEF ReleaseSettles, x
    <3>3. CASE ~(x.flawed \/ r # "ok")
      BY <1>2, <1>3, <2>6, <3>1, <3>3, ReleaseSettlesGood DEF ReleaseSettles, x
    <3> QED BY <3>2, <3>3
  <2> QED BY <1>10, <2>1, <2>2, <2>3, <2>4, <2>5, <2>6 DEF Settles
<1> QED BY <1>1, <1>4, <1>5, <1>6, <1>7, <1>8, <1>9, <1>10

\* Every step keeps the invariant.
LEMMA NextKeeps ==
  TransactionAssumption /\ TransactionInv /\ [Next]_vars => TransactionInv'
<1> SUFFICES ASSUME TransactionAssumption, TransactionInv, [Next]_vars
             PROVE  TransactionInv'
  OBVIOUS
<1>1. CASE UNCHANGED vars
  BY <1>1 DEF vars, TransactionInv, TypeOK, FieldsFit, SessionsApart, Fit,
     Published, Decided, BeforeToken, Executed
<1>2. CASE Next
  BY <1>2, NextIsGood, BecomesKeeps
<1> QED BY <1>1, <1>2

(***************************************************************************)
(* The theorems                                                            *)
(***************************************************************************)
\* The fields of every runtime fit together and the sessions of different
\* runtimes are apart, whatever the adapters do and however late.
THEOREM TransactionInvariant == Spec => []TransactionInv
<1>1. Init => TransactionInv BY TransactionAssumption, InitInv
<1>2. TransactionInv /\ [Next]_vars => TransactionInv'
  BY TransactionAssumption, NextKeeps
<1> QED BY <1>1, <1>2, PTL DEF Spec

\* The lease of a transaction is handed back exactly once, although the
\* terminal, the late release, the rollback of begin() and the clean-up of a
\* late acquire all may do it.
THEOREM LeaseHandedBackOnce == Spec => []ReleasedOnce
<1>1. TransactionInv => ReleasedOnce
  BY DEF TransactionInv, FieldsFit, Fit, ReleasedOnce
<1> QED BY <1>1, TransactionInvariant, PTL

\* A lease is not handed back while a call, a control function, a reset or
\* work past its deadline still runs on its session.
THEOREM NoHandOverUnderWork == Spec => []WorkOwnsLease
<1>1. TransactionInv => WorkOwnsLease
  <2> SUFFICES ASSUME TransactionInv, NEW t \in Transactions
               PROVE  /\ Working(tx[t]) => tx[t].lease = "held"
                      /\ tx[t].overdue =>
                           /\ tx[t].call \notin Pending
                           /\ tx[t].terminal \notin {"control", "reset"}
    BY DEF WorkOwnsLease
  <2>1. Fit(tx[t]) BY DEF TransactionInv, FieldsFit
  <2>2. CASE tx[t].token
    BY <2>1, <2>2 DEF Fit, Published, Working, Pending, Over, None
  <2>3. CASE ~tx[t].token
    BY <2>1, <2>3 DEF Fit, BeforeToken, Working, Pending, Over, None
  <2> QED BY <2>2, <2>3
<1> QED BY <1>1, TransactionInvariant, PTL

\* Two transactions never share a session: only after the one has finished
\* its unit of work and reset the session can the other have it.
THEOREM TransactionsIsolated == Spec => []Isolation
<1>1. ASSUME NEW x \in Fields, Fit(x), x.lease = "reused"
      PROVE  x.luw # "open" /\ ~x.flawed /\ ~Working(x)
  <2>1. x.token /\ Published(x) /\ Decided(x)
    BY <1>1 DEF Fit, BeforeToken
  <2>2. /\ x.state \in {"releasing", "closed"} /\ x.reusable
        /\ x.lateRelease = None
    BY <1>1, <2>1 DEF Published
  <2>3. x.terminal \in {"release"} \cup Over /\ ~x.overdue /\ x.call = None
    BY <2>1, <2>2 DEF Published, Over, None
  <2> QED BY <2>1, <2>2, <2>3 DEF Decided, Executed, Working, Pending, Over, None
<1>2. TransactionInv => Isolation
  <2> SUFFICES ASSUME TransactionInv PROVE Isolation OBVIOUS
  <2>1. \A t \in Transactions :
          /\ tx[t] \in Fields /\ Fit(tx[t])
          /\ tx[t].lease \in Leases /\ tx[t].session \in Sessions \cup {None}
          /\ tx[t].session = None <=> tx[t].lease = None
    BY DEF TransactionInv, TypeOK, FieldsFit, Fit, Fields
  <2>2. /\ None \notin free
        /\ \A t \in Transactions : tx[t].lease \in {"held", "evicted"} =>
             /\ tx[t].session \notin free
             /\ \A u \in Transactions \ {t} :
                  tx[u].session = tx[t].session => tx[u].lease = "reused"
    BY TransactionAssumption DEF TransactionInv, TypeOK, SessionsApart,
       TransactionAssumption
  <2>3. ASSUME NEW t \in Transactions, tx[t].session \in free
        PROVE  tx[t].lease = "reused"
    BY <2>1, <2>2, <2>3 DEF Leases
  <2>4. ASSUME NEW t \in Transactions, NEW u \in Transactions \ {t},
               tx[t].session = tx[u].session, tx[t].session # None
        PROVE  \E v \in {t, u} :
                 /\ tx[v].lease = "reused" /\ tx[v].luw # "open"
                 /\ ~tx[v].flawed /\ ~Working(tx[v])
    <3>1. PICK v \in {t, u} : tx[v].lease = "reused"
      BY <2>1, <2>2, <2>4 DEF Leases
    <3>2. tx[v] \in Fields /\ Fit(tx[v]) BY <2>1
    <3> QED BY <1>1, <3>1, <3>2
  <2> QED BY <2>3, <2>4 DEF Isolation
<1> QED BY <1>2, TransactionInvariant, PTL

\* After a business call whose effect is unknown no commit and no rollback is
\* ever sent on the session.
THEOREM NoControlAfterDoubt == Spec => []NoControlInDoubt
<1>1. TransactionInv => NoControlInDoubt
  <2> SUFFICES ASSUME TransactionInv, NEW t \in Transactions, tx[t].doubt
               PROVE  tx[t].control = None
    BY DEF NoControlInDoubt
  <2>1. Fit(tx[t]) /\ tx[t] \in Fields BY DEF TransactionInv, TypeOK, FieldsFit
  <2>2. tx[t].token /\ Published(tx[t]) /\ Decided(tx[t])
    BY <2>1 DEF Fit, BeforeToken
  <2> QED BY <2>2 DEF Published, Decided, Over, None
<1> QED BY <1>1, TransactionInvariant, PTL

\* The outcome a transaction reports is the one of the SAP system, or says
\* that it is not known.
THEOREM OutcomesHonest == Spec => []OutcomeHonest
<1>1. TransactionInv => OutcomeHonest
  <2> SUFFICES ASSUME TransactionInv, NEW t \in Transactions
               PROVE  /\ tx[t].outcome \in {"committed", "rolledBack"} =>
                           tx[t].luw = tx[t].outcome
                      /\ tx[t].outcome = "rejected" => tx[t].luw = "open"
                      /\ tx[t].luw # "open" /\ tx[t].terminal # "control" =>
                           tx[t].outcome \in {tx[t].luw, "ambiguous"}
    BY DEF OutcomeHonest
  <2>1. Fit(tx[t]) /\ tx[t] \in Fields BY DEF TransactionInv, TypeOK, FieldsFit
  <2>2. CASE tx[t].token
    BY <2>1, <2>2 DEF Fit, Published, Decided, Executed, Over, None
  <2>3. CASE ~tx[t].token
    BY <2>1, <2>3 DEF Fit, BeforeToken, None
  <2> QED BY <2>2, <2>3
<1> QED BY <1>1, TransactionInvariant, PTL

\* A commit(), rollback() or close() that fulfils left nothing behind: the
\* outcome is the one asked for and the session went back as reusable.
THEOREM FulfilledMeansClean == Spec => []FulfilledIsClean
<1>1. TransactionInv => FulfilledIsClean
  <2> SUFFICES ASSUME TransactionInv, NEW t \in Transactions,
                      tx[t].terminal = "resolved"
               PROVE  /\ tx[t].state = "closed" /\ tx[t].lease # "held"
                      /\ tx[t].late = None /\ ~tx[t].overdue
                      /\ tx[t].control # None =>
                           /\ tx[t].lease = "reused"
                           /\ tx[t].outcome = Executed(tx[t])
    BY DEF FulfilledIsClean
  <2>1. Fit(tx[t]) /\ tx[t] \in Fields BY DEF TransactionInv, TypeOK, FieldsFit
  <2>2. CASE tx[t].token
    BY <2>1, <2>2 DEF Fit, Published, Decided, Executed, Over, None
  <2>3. CASE ~tx[t].token
    BY <2>1, <2>3 DEF Fit, BeforeToken, None, Over
  <2> QED BY <2>2, <2>3
<1> QED BY <1>1, TransactionInvariant, PTL

\* A runtime that is idle or closed holds no lease and expects none.
THEOREM RestHoldsNothing == Spec => []NothingHeldAtRest
<1>1. TransactionInv => NothingHeldAtRest
  <2> SUFFICES ASSUME TransactionInv, NEW t \in Transactions,
                      tx[t].state \in {"idle", "closed"}
               PROVE  /\ tx[t].lease # "held" /\ tx[t].late = None
                      /\ ~Working(tx[t])
    BY DEF NothingHeldAtRest
  <2>1. Fit(tx[t]) /\ tx[t] \in Fields BY DEF TransactionInv, TypeOK, FieldsFit
  <2>2. CASE tx[t].token
    BY <2>1, <2>2 DEF Fit, Published, Working, Pending, Over, None
  <2>3. CASE ~tx[t].token
    BY <2>1, <2>3 DEF Fit, BeforeToken, Working, Pending, Over, None
  <2> QED BY <2>2, <2>3
<1> QED BY <1>1, TransactionInvariant, PTL

\* A closed runtime stays closed; a decided outcome and a settled terminal are
\* never revised, not even by what comes after the deadline.
THEOREM EndsAreFinal == Spec => EndIsFinal
<1> DEFINE Ends == \A t \in Transactions :
             /\ tx[t].state = "closed" => tx'[t].state = "closed"
             /\ tx[t].outcome \notin {None, "active"} =>
                  tx'[t].outcome = tx[t].outcome
             /\ tx[t].terminal \in Over => tx'[t].terminal = tx[t].terminal
<1>1. TransactionInv /\ [Next]_vars => [Ends]_vars
  <2> SUFFICES ASSUME TransactionInv, Next, NEW u \in Transactions
               PROVE  Final(tx[u], tx'[u])
    BY DEF Final
  <2>0. PICK t \in Transactions : \E y : Good(tx[t], y) /\ Becomes(t, y)
    BY TransactionAssumption, NextIsGood
  <2>1. PICK y : Good(tx[t], y) /\ Becomes(t, y)
    BY <2>0
  <2>2. tx' = [tx EXCEPT ![t] = y] /\ Final(tx[t], y) /\ t \in DOMAIN tx
    BY <2>1 DEF Becomes, Good, TransactionInv, TypeOK
  <2> QED BY <2>2 DEF Final
<1> QED BY <1>1, TransactionInvariant, PTL DEF EndIsFinal, Spec

=============================================================================
