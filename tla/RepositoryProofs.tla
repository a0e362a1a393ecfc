--------------------------- MODULE RepositoryProofs ---------------------------
(***************************************************************************)
(* The metadata repository's invariants, for any lookups, objects and      *)
(* principals, any modes and any limits.                                   *)
(***************************************************************************)
EXTENDS RepositoryProperties, FiniteSetTheorems, TLAPS

(***************************************************************************)
(* What one step makes of one lookup                                       *)
(***************************************************************************)
\* What x asks for, and the stamps it bears, are those of y.
Alike(x, y) ==
  /\ y.object = x.object /\ y.principal = x.principal
  /\ y.strategy = x.strategy /\ y.epoch = x.epoch
  /\ y.admission = x.admission /\ y.since = x.since /\ y.asOf = x.asOf
  /\ y.sweep = x.sweep

\* A record of Fields stays one when a field is replaced by one of its type.
LEMMA UpdateType ==
  ASSUME NEW x \in Fields
  PROVE  /\ \A v \in {"idle", "ended"} \cup Busy : [x EXCEPT !.pc = v] \in Fields
         /\ \A v \in Strategies : [x EXCEPT !.strategy = v] \in Fields
         /\ \A v \in BOOLEAN : [x EXCEPT !.fellBack = v] \in Fields
         /\ \A v \in Epochs : [x EXCEPT !.epoch = v] \in Fields
         /\ \A v \in Epochs : [x EXCEPT !.admission = v] \in Fields
         /\ \A v \in Lookups \cup {None} : [x EXCEPT !.on = v] \in Fields
         /\ \A v \in Answers \cup {None} : [x EXCEPT !.outcome = v] \in Fields
         /\ \A v \in Nat : [x EXCEPT !.value = v] \in Fields
         /\ \A v \in {None, "value", "error", "canceled"} :
              [x EXCEPT !.answer = v] \in Fields
         /\ \A v \in Nat : [x EXCEPT !.since = v] \in Fields
         /\ \A v \in Nat : [x EXCEPT !.sweep = v] \in Fields
         /\ \A v \in Nat : [x EXCEPT !.asOf = v] \in Fields
         /\ \A v \in Permits : [x EXCEPT !.permit = v] \in Fields
<1>1. \A v \in {"idle", "ended"} \cup Busy : [x EXCEPT !.pc = v] \in Fields
  BY DEF Fields
<1>2. \A v \in Strategies : [x EXCEPT !.strategy = v] \in Fields BY DEF Fields
<1>3. \A v \in BOOLEAN : [x EXCEPT !.fellBack = v] \in Fields BY DEF Fields
<1>4. \A v \in Epochs : [x EXCEPT !.epoch = v] \in Fields BY DEF Fields
<1>5. \A v \in Epochs : [x EXCEPT !.admission = v] \in Fields BY DEF Fields
<1>6. \A v \in Lookups \cup {None} : [x EXCEPT !.on = v] \in Fields BY DEF Fields
<1>7. \A v \in Answers \cup {None} : [x EXCEPT !.outcome = v] \in Fields
  BY DEF Fields
<1>8. \A v \in Nat : [x EXCEPT !.value = v] \in Fields BY DEF Fields
<1>9. \A v \in {None, "value", "error", "canceled"} :
        [x EXCEPT !.answer = v] \in Fields
  BY DEF Fields
<1>10. \A v \in Nat : [x EXCEPT !.since = v] \in Fields BY DEF Fields
<1>11. \A v \in Nat : [x EXCEPT !.sweep = v] \in Fields BY DEF Fields
<1>12. \A v \in Nat : [x EXCEPT !.asOf = v] \in Fields BY DEF Fields
<1>13. \A v \in Permits : [x EXCEPT !.permit = v] \in Fields BY DEF Fields
<1> QED BY <1>1, <1>2, <1>3, <1>4, <1>5, <1>6, <1>7, <1>8, <1>9, <1>10, <1>11,
           <1>12, <1>13

\* Begins and Joins await a call; Hits and Throws await nothing.
Await(x, kind, s, r) == [x EXCEPT !.pc = kind, !.on = s, !.outcome = r]

LEMMA AwaitFields ==
  ASSUME NEW x \in Fields, NEW kind, kind \in Busy,
         NEW s, s \in Lookups \cup {None}, NEW r, r \in Answers \cup {None},
         NEW y, y = Await(x, kind, s, r)
  PROVE  /\ y \in Fields /\ Alike(x, y)
         /\ y.pc = kind /\ y.on = s /\ y.outcome = r
         /\ y.permit = x.permit /\ y.value = x.value /\ y.answer = x.answer
<1>1. PICK y1 : y1 = [x EXCEPT !.pc = kind] OBVIOUS
<1>2. y1 \in Fields BY <1>1 DEF Fields
<1>3. PICK y2 : y2 = [y1 EXCEPT !.on = s] OBVIOUS
<1>4. y2 \in Fields BY <1>2, <1>3 DEF Fields
<1>5. y = [y2 EXCEPT !.outcome = r] BY <1>1, <1>3 DEF Await
<1>6. y \in Fields BY <1>4, <1>5 DEF Fields
<1> QED BY <1>6 DEF Fields, Alike, Await

LEMMA AwaitForms ==
  ASSUME NEW x, NEW l, NEW s, NEW r, NEW kind
  PROVE  /\ Begins(x, l, kind) = Await(x, kind, l, None)
         /\ Joins(x, s, kind) = Await(x, kind, s, None)
         /\ Hits(x, kind, r) = Await(x, kind, None, r)
         /\ Throws(x, r) = Await(x, "thrown", None, r)
BY DEF Begins, Joins, Hits, Throws, Await

\* A settled authorization is hit.
LEMMA AllowedFields ==
  ASSUME NEW x \in Fields, NEW y, y = Hits(x, "authorizing", "ok")
  PROVE  /\ y \in Fields /\ Alike(x, y)
         /\ y.pc = "authorizing" /\ y.on = None /\ y.answer = x.answer
<1>1. y = Await(x, "authorizing", None, "ok") BY AwaitForms
<1>2. "authorizing" \in Busy /\ "ok" \in Answers
  BY DEF Busy, Waiting, Answers
<1> QED BY <1>1, <1>2, AwaitFields

\* Over keeps what was asked and by what permission.
LEMMA OverFields ==
  ASSUME NEW x \in Fields, NEW a \in {"value", "error", "canceled"}
  PROVE  LET y == Over(x, a)
         IN /\ y \in Fields /\ y.pc = "ended" /\ y.on = None /\ y.answer = a
            /\ y.object = x.object /\ y.principal = x.principal
            /\ y.strategy = x.strategy /\ y.since = x.since
            /\ y.permit = x.permit
<1> DEFINE y1 == [x EXCEPT !.pc = "ended"]
           y2 == [y1 EXCEPT !.on = None]
           y3 == [y2 EXCEPT !.outcome = None]
           y4 == [y3 EXCEPT !.fellBack = FALSE]
           y5 == [y4 EXCEPT !.epoch = Zero]
           y6 == [y5 EXCEPT !.admission = Zero]
           y7 == [y6 EXCEPT !.asOf = 0]
           y8 == [y7 EXCEPT !.sweep = 0]
           y9 == [y8 EXCEPT !.answer = a]
<1>1. Over(x, a) = y9 BY DEF Over
<1>2. Zero \in Epochs BY DEF Zero, Epochs
<1>3. y1 \in Fields BY UpdateType
<1>4. y2 \in Fields BY <1>3, UpdateType
<1>5. y3 \in Fields BY <1>4, UpdateType
<1>6. y4 \in Fields BY <1>5, UpdateType
<1>7. y5 \in Fields BY <1>6, <1>2, UpdateType
<1>8. y6 \in Fields BY <1>7, <1>2, UpdateType
<1>9. y7 \in Fields BY <1>8, UpdateType
<1>10. y8 \in Fields BY <1>9, UpdateType
<1>11. y9 \in Fields BY <1>10, UpdateType
<1> QED BY ZenonT(60), <1>1, <1>11 DEF Fields

LEMMA ReturnsFields ==
  ASSUME NEW x \in Fields, NEW v \in Nat
  PROVE  LET y == Returns(x, v)
         IN /\ y \in Fields /\ y.pc = "ended" /\ y.on = None
            /\ y.answer = Answered(x, "value") /\ y.value = v
            /\ y.object = x.object /\ y.principal = x.principal
            /\ y.strategy = x.strategy /\ y.since = x.since
            /\ y.permit = x.permit
<1> DEFINE z == Over(x, Answered(x, "value"))
<1>1. Answered(x, "value") \in {"value", "canceled"}
  BY DEF Answered
<1>2. /\ z \in Fields /\ z.pc = "ended" /\ z.on = None
      /\ z.answer = Answered(x, "value")
      /\ z.object = x.object /\ z.principal = x.principal
      /\ z.strategy = x.strategy /\ z.since = x.since /\ z.permit = x.permit
  BY <1>1, OverFields
<1>3. Returns(x, v) = [z EXCEPT !.value = v] BY DEF Returns
<1> HIDE DEF z
<1>4. [z EXCEPT !.value = v] \in Fields BY <1>2, UpdateType
<1> QED BY <1>2, <1>3, <1>4 DEF Fields

LEMMA FailsFields ==
  ASSUME NEW x \in Fields
  PROVE  LET y == Fails(x)
         IN /\ y \in Fields /\ y.pc = "ended" /\ y.on = None
            /\ y.answer = Answered(x, "error") /\ y.object = x.object
<1> DEFINE z == Over(x, Answered(x, "error"))
           z1 == [z EXCEPT !.strategy = "classic"]
           z2 == [z1 EXCEPT !.value = 0]
           z3 == [z2 EXCEPT !.since = 0]
           z4 == [z3 EXCEPT !.permit = NoPermit(x.object, x.principal)]
<1>1. Answered(x, "error") \in {"error", "canceled"}
  BY DEF Answered
<1>2. /\ z \in Fields /\ z.pc = "ended" /\ z.on = None
      /\ z.answer = Answered(x, "error") /\ z.object = x.object
  BY <1>1, OverFields
<1>3. NoPermit(x.object, x.principal) \in Permits
  BY DEF NoPermit, Permits, Fields, Strategies
<1>4. Fails(x) = z4 BY DEF Fails
<1> HIDE DEF z
<1>5. z1 \in Fields BY <1>2, UpdateType DEF Strategies
<1>6. z2 \in Fields BY <1>5, UpdateType
<1>7. z3 \in Fields BY <1>6, UpdateType
<1>8. z4 \in Fields BY <1>3, <1>7, UpdateType
<1> QED BY <1>2, <1>4, <1>8 DEF Fields

(***************************************************************************)
(* What a lookup may become                                                *)
(***************************************************************************)
\* The stamps of x are right, and do not contradict those of any lookup.
Prepared(l, x) ==
  /\ x \in Fields /\ Active(x)
  /\ x.since <= x.asOf
  /\ Dated(x.object, x.epoch, x.since)
  /\ Dated(x.object, x.admission, x.asOf)
  /\ x.epoch = EpochFor(x.object) => x.sweep = sweeps
  /\ Agree(x, x) /\ \A w \in Lookups : Agree(x, look[w])

\* With y in the place of l, the invariant holds of each lookup.
Fits(l, y) ==
  /\ y \in Fields
  /\ Active(y) => Stamped(l, y)
  /\ y.on # None => y.pc \in Waiting
  /\ Fresh(y)
  /\ Agree(y, y) /\ \A w \in Lookups \ {l} : Agree(y, look[w])
  /\ Reading(y) => ReadsBy(y, y.permit)
  /\ y.on # None => Linked(y, IF y.on = l THEN y ELSE look[y.on])

\* y goes on with what x was asked for.
Carries(x, y) ==
  /\ Active(y) /\ y.object = x.object /\ y.since = x.since
  /\ y.answer = x.answer

\* y returns a version that x may read.
Delivers(x, y) ==
  \E v \in Nat : /\ y = Returns(x, v)
                 /\ x.since <= v /\ v <= version[x.object]

LEMMA NoneIsNoLookup == None \notin Lookups
BY RepositoryAssumption

\* A lookup in progress is prepared as it stands.
LEMMA LookupPrepared ==
  ASSUME TypeOK, LookupsSound, StampsAgree, NEW l \in Lookups, Active(look[l])
  PROVE  Prepared(l, look[l])
BY DEF TypeOK, LookupsSound, StampsAgree, Prepared, Stamped

\* Whatever y changes but its request and its stamps, it keeps its place.
LEMMA AlikeAgrees ==
  ASSUME NEW x \in Fields, NEW y \in Fields, NEW z \in Fields,
         Alike(x, y), Agree(x, z), Active(x)
  PROVE  Agree(y, z)
BY DEF Alike, Agree, Stamps

LEMMA AlikePrepared ==
  ASSUME TypeOK, NEW l \in Lookups, NEW x, Prepared(l, x), NEW y \in Fields,
         Alike(x, y)
  PROVE  /\ Agree(y, y) /\ \A w \in Lookups : Agree(y, look[w])
         /\ y.since <= y.asOf
         /\ Dated(y.object, y.epoch, y.since)
         /\ Dated(y.object, y.admission, y.asOf)
         /\ y.epoch = EpochFor(y.object) => y.sweep = sweeps
<1>1. x \in Fields BY DEF Prepared
<1>2. Agree(y, y)
  BY DEF Prepared, Alike, Agree, Stamps
<1>3. ASSUME NEW w \in Lookups PROVE Agree(y, look[w])
  <2>1. look[w] \in Fields BY DEF TypeOK
  <2> QED BY <1>1, <2>1, AlikeAgrees DEF Prepared
<1>4. /\ y.since <= y.asOf
      /\ Dated(y.object, y.epoch, y.since)
      /\ Dated(y.object, y.admission, y.asOf)
      /\ y.epoch = EpochFor(y.object) => y.sweep = sweeps
  BY DEF Prepared, Alike
<1> QED BY <1>2, <1>3, <1>4

LEMMA ThrownFits ==
  ASSUME TypeOK, NEW l \in Lookups, NEW x, Prepared(l, x), NEW r \in Answers,
         NEW y, y = Throws(x, r)
  PROVE  Fits(l, y) /\ y.on = None /\ y.pc = "thrown" /\ Carries(x, y)
<1>1. /\ x \in Fields /\ "thrown" \in Busy
      /\ None \in Lookups \cup {None} /\ r \in Answers \cup {None}
  BY DEF Prepared, Busy
<1>2. y = Await(x, "thrown", None, r) BY AwaitForms
<1>3. /\ y \in Fields /\ Alike(x, y) /\ y.pc = "thrown" /\ y.on = None
      /\ y.answer = x.answer
  BY <1>1, <1>2, AwaitFields
<1>4. /\ Agree(y, y) /\ \A w \in Lookups : Agree(y, look[w])
      /\ y.since <= y.asOf
      /\ Dated(y.object, y.epoch, y.since)
      /\ Dated(y.object, y.admission, y.asOf)
      /\ y.epoch = EpochFor(y.object) => y.sweep = sweeps
  BY <1>3, AlikePrepared
<1>5. Stamped(l, y) BY <1>3, <1>4, NoneIsNoLookup DEF Stamped
<1>6. Fresh(y) /\ ~Reading(y) BY <1>3 DEF Fresh, Reading
<1>7. Carries(x, y) BY <1>3 DEF Carries, Alike, Active, Busy
<1> QED BY <1>3, <1>4, <1>5, <1>6, <1>7 DEF Fits

LEMMA FailedFits ==
  ASSUME TypeOK, NEW l \in Lookups, NEW x \in Fields, NEW y, y = Fails(x)
  PROVE  Fits(l, y) /\ y.on = None /\ y.pc = "ended"
<1>1. /\ y \in Fields /\ y.pc = "ended" /\ y.on = None
      /\ y.answer \in {"error", "canceled"}
  BY FailsFields DEF Answered
<1>2. ~Active(y) BY <1>1 DEF Active, Busy, Waiting
<1>3. Agree(y, y) /\ \A w \in Lookups : Agree(y, look[w])
  BY <1>2 DEF Agree
<1>4. Fresh(y) /\ ~Reading(y) BY <1>1 DEF Fresh, Reading
<1> QED BY <1>1, <1>2, <1>3, <1>4 DEF Fits

LEMMA ReturnedFits ==
  ASSUME TypeOK, NEW l \in Lookups, NEW x \in Fields, NEW v \in Nat,
         ReadsBy(x, x.permit), x.since <= v, v <= version[x.object],
         NEW y, y = Returns(x, v)
  PROVE  Fits(l, y) /\ y.on = None /\ y.pc = "ended"
<1>1. /\ y \in Fields /\ y.pc = "ended" /\ y.on = None /\ y.value = v
      /\ y.object = x.object /\ y.principal = x.principal
      /\ y.strategy = x.strategy /\ y.since = x.since /\ y.permit = x.permit
  BY ReturnsFields
<1>2. ~Active(y) BY <1>1 DEF Active, Busy, Waiting
<1>3. Agree(y, y) /\ \A w \in Lookups : Agree(y, look[w])
  BY <1>2 DEF Agree
<1>4. Fresh(y) BY <1>1 DEF Fresh
<1>5. ReadsBy(y, y.permit) BY <1>1 DEF ReadsBy
<1> QED BY <1>1, <1>2, <1>3, <1>4, <1>5 DEF Fits

(***************************************************************************)
(* #authorize                                                              *)
(***************************************************************************)
\* Who asks for the same as a call that is under way may have its result.
LEMMA SameCall ==
  ASSUME TypeOK, LookupsSound, SharedWorkIsOwn,
         NEW l \in Lookups, NEW x, Prepared(l, x),
         NEW s \in Lookups, look[s].on = s,
         Key(x, x.admission) = Key(look[s], look[s].admission)
  PROVE  /\ x.principal = look[s].principal
         /\ look[s].pc = "authorizing" => ReadsBy(x, look[s].permit)
         /\ look[s].pc = "loading" => x.since <= look[s].value
<1> DEFINE z == look[s]
<1>1. x \in Fields /\ z \in Fields BY DEF TypeOK, Prepared
<1>2. /\ x.principal = z.principal /\ x.strategy = z.strategy
      /\ x.object = z.object /\ x.admission = z.admission
  BY DEF Key
<1>3. z.pc \in Waiting BY NoneIsNoLookup DEF LookupsSound
<1>4. Active(z) /\ Stamped(s, z) BY <1>3 DEF LookupsSound, Active, Busy
<1>5. Agree(x, z) /\ Active(x) /\ x.since <= x.asOf BY DEF Prepared
<1>6. x.asOf = z.asOf BY <1>2, <1>4, <1>5 DEF Agree, Stamps
<1>7. Linked(z, z) BY NoneIsNoLookup DEF SharedWorkIsOwn
<1>8. ASSUME z.pc = "authorizing" PROVE ReadsBy(x, z.permit)
  <2>1. ReadsBy(z, z.permit) BY <1>7, <1>8 DEF Linked
  <2>2. z.asOf <= z.permit.at BY <1>4, <1>8 DEF Stamped
  <2>3. x.since \in Nat /\ x.asOf \in Nat /\ z.permit.at \in Nat
    BY <1>1 DEF Fields, Permits
  <2>4. x.since <= z.permit.at BY <1>5, <1>6, <2>2, <2>3
  <2> QED BY <1>2, <2>1, <2>4 DEF ReadsBy
<1>9. ASSUME z.pc = "loading" PROVE x.since <= z.value
  <2>1. z.asOf <= z.value BY <1>4, <1>9 DEF Stamped
  <2>2. x.since \in Nat /\ x.asOf \in Nat /\ z.value \in Nat
    BY <1>1 DEF Fields
  <2> QED BY <1>5, <1>6, <2>1, <2>2
<1> QED BY <1>2, <1>8, <1>9

\* The entry that a new call of the adapter for y gets
NewAuthorization(l, y, e) ==
  /\ e \in AuthorizationEntries /\ e.promise = l
  /\ y.on = l /\ y.pc = "authorizing" /\ y.outcome = None
  /\ e.key = Key(y, y.admission) /\ e.permit = y.permit

LEMMA AuthorizeFits ==
  ASSUME TypeOK, LookupsSound, SharedWorkIsOwn, AuthorizationsCurrent,
         NEW l \in Lookups, look[l].on = None, NEW x, Prepared(l, x),
         NEW known \in SUBSET authorizations, Authorize(l, x, known)
  PROVE  \E y : /\ Becomes(l, y) /\ Fits(l, y) /\ y.pc # "loading"
                /\ Carries(x, y)
                /\ \A e \in authorizations' :
                     e \in known \/ NewAuthorization(l, y, e)
<1> DEFINE same == {e \in known : e.key = Key(x, x.admission)}
           asked == [principal |-> x.principal, strategy |-> x.strategy,
                     object |-> x.object, at |-> version[x.object]]
<1>1. /\ x \in Fields /\ Active(x) /\ "authorizing" \in Busy /\ "ok" \in Answers
      /\ Dated(x.object, x.admission, x.asOf) /\ x.since <= x.asOf
  BY DEF Prepared, Busy, Waiting, Answers
<1>2. ASSUME NEW e \in same, e.promise # None,
             Becomes(l, Joins(x, e.promise, "authorizing")),
             authorizations' = known
      PROVE  \E y : /\ Becomes(l, y) /\ Fits(l, y) /\ y.pc # "loading"
                    /\ Carries(x, y)
                    /\ \A d \in authorizations' :
                         d \in known \/ NewAuthorization(l, y, d)
  <2>1. PICK s : s = e.promise OBVIOUS
  <2>2. /\ s \in Lookups /\ look[s].on = s /\ look[s].pc = "authorizing"
        /\ Key(x, x.admission) = Key(look[s], look[s].admission)
    BY <1>2, <2>1 DEF AuthorizationsCurrent, Running, Calls
  <2>3. ReadsBy(x, look[s].permit) /\ x.principal = look[s].principal
    BY <2>2, SameCall
  <2>4. s # l BY <2>2, NoneIsNoLookup
  <2>5. PICK y : y = Joins(x, s, "authorizing") OBVIOUS
  <2>6. y = Await(x, "authorizing", s, None) BY <2>5, AwaitForms
  <2>7. /\ y \in Fields /\ Alike(x, y) /\ y.pc = "authorizing" /\ y.on = s
        /\ y.outcome = None /\ y.answer = x.answer
    BY <1>1, <2>2, <2>6, AwaitFields
  <2>8. /\ Agree(y, y) /\ \A w \in Lookups : Agree(y, look[w])
        /\ y.since <= y.asOf
        /\ Dated(y.object, y.epoch, y.since)
        /\ Dated(y.object, y.admission, y.asOf)
        /\ y.epoch = EpochFor(y.object) => y.sweep = sweeps
    BY <2>7, AlikePrepared
  <2>9. Stamped(l, y) BY <2>4, <2>7, <2>8 DEF Stamped
  <2>10. Fresh(y) /\ ~Reading(y) BY <2>2, <2>7, NoneIsNoLookup DEF Fresh, Reading
  <2>11. Linked(y, look[s])
    BY <2>2, <2>3, <2>7 DEF Linked, Alike, Key, ReadsBy
  <2>12. Fits(l, y)
    BY <2>4, <2>7, <2>8, <2>9, <2>10, <2>11 DEF Fits, Waiting
  <2>13. Carries(x, y) BY <1>1, <2>7 DEF Carries, Alike, Active
  <2> QED BY <1>2, <2>1, <2>5, <2>7, <2>12, <2>13
<1>3. ASSUME NEW e \in same, e.promise = None,
             Becomes(l, [Hits(x, "authorizing", "ok") EXCEPT !.permit = e.permit]),
             authorizations' = known
      PROVE  \E y : /\ Becomes(l, y) /\ Fits(l, y) /\ y.pc # "loading"
                    /\ Carries(x, y)
                    /\ \A d \in authorizations' :
                         d \in known \/ NewAuthorization(l, y, d)
  <2>1. PICK z : z = Hits(x, "authorizing", "ok") OBVIOUS
  <2>2. x \in Fields BY <1>1
  <2>3. /\ z \in Fields /\ Alike(x, z) /\ z.pc = "authorizing" /\ z.on = None
        /\ z.answer = x.answer
    BY <2>1, <2>2, AllowedFields
  <2>4. PICK y : y = [z EXCEPT !.permit = e.permit] OBVIOUS
  <2>5. e.permit \in Permits BY DEF TypeOK, AuthorizationEntries
  <2>6. y \in Fields BY <2>3, <2>4, <2>5, UpdateType
  <2>7. /\ Alike(x, y) /\ y.pc = "authorizing" /\ y.on = None
        /\ y.permit = e.permit /\ y.answer = x.answer
    BY <2>3, <2>4, <2>6 DEF Fields, Alike
  <2>8. /\ Agree(y, y) /\ \A w \in Lookups : Agree(y, look[w])
        /\ y.since <= y.asOf
        /\ Dated(y.object, y.epoch, y.since)
        /\ Dated(y.object, y.admission, y.asOf)
        /\ y.epoch = EpochFor(y.object) => y.sweep = sweeps
    BY <2>6, <2>7, AlikePrepared
  <2>9. Stamped(l, y) BY <2>7, <2>8, NoneIsNoLookup DEF Stamped
  <2>10. ReadsBy(y, y.permit)
    <3>1. /\ e.key = Key(x, x.admission)
          /\ e.permit = [principal |-> e.key.principal, strategy |-> e.key.strategy,
                         object |-> e.key.object, at |-> version[e.key.object]]
      BY <1>3 DEF AuthorizationsCurrent
    <3>2. e.permit = [principal |-> x.principal, strategy |-> x.strategy,
                      object |-> x.object, at |-> version[x.object]]
      BY <3>1 DEF Key
    <3>3. /\ x.asOf <= version[x.object] /\ x.since \in Nat /\ x.asOf \in Nat
          /\ version[x.object] \in Nat
      BY <1>1 DEF Dated, TypeOK, Fields
    <3>4. x.since <= version[x.object] BY <1>1, <3>3
    <3>5. /\ y.principal = x.principal /\ y.strategy = x.strategy
          /\ y.object = x.object /\ y.since = x.since
      BY <2>7 DEF Alike
    <3> QED BY <2>7, <3>2, <3>4, <3>5 DEF ReadsBy
  <2>11. Fresh(y) BY <2>7 DEF Fresh
  <2>12. Fits(l, y) BY <2>6, <2>7, <2>8, <2>9, <2>10, <2>11 DEF Fits
  <2>13. Carries(x, y) BY <1>1, <2>7 DEF Carries, Alike, Active
  <2> QED BY <1>3, <2>1, <2>4, <2>7, <2>12, <2>13
<1>4. ASSUME Becomes(l, Throws(x, "other")), authorizations' = known
      PROVE  \E y : /\ Becomes(l, y) /\ Fits(l, y) /\ y.pc # "loading"
                    /\ Carries(x, y)
                    /\ \A d \in authorizations' :
                         d \in known \/ NewAuthorization(l, y, d)
  <2>1. PICK y : y = Throws(x, "other") OBVIOUS
  <2>2. Fits(l, y) /\ y.pc = "thrown" /\ Carries(x, y)
    BY <2>1, ThrownFits DEF Answers
  <2> QED BY <1>4, <2>1, <2>2
<1>5. ASSUME NEW rest \in SUBSET known,
             authorizations' = rest \cup
               {[key |-> Key(x, x.admission), promise |-> l, permit |-> asked]},
             Becomes(l, [Begins(x, l, "authorizing") EXCEPT !.permit = asked])
      PROVE  \E y : /\ Becomes(l, y) /\ Fits(l, y) /\ y.pc # "loading"
                    /\ Carries(x, y)
                    /\ \A d \in authorizations' :
                         d \in known \/ NewAuthorization(l, y, d)
  <2>1. PICK z : z = Begins(x, l, "authorizing") OBVIOUS
  <2>2. z = Await(x, "authorizing", l, None) BY <2>1, AwaitForms
  <2>3. /\ z \in Fields /\ Alike(x, z) /\ z.pc = "authorizing" /\ z.on = l
        /\ z.outcome = None /\ z.answer = x.answer
    BY <1>1, <2>2, AwaitFields
  <2>4. PICK y : y = [z EXCEPT !.permit = asked] OBVIOUS
  <2>5. /\ x.asOf <= version[x.object] /\ x.since \in Nat /\ x.asOf \in Nat
        /\ version[x.object] \in Nat
    BY <1>1 DEF Dated, TypeOK, Fields
  <2>6. asked \in Permits BY <1>1, <2>5 DEF Permits, Fields
  <2>7. y \in Fields BY <2>3, <2>4, <2>6, UpdateType
  <2>8. /\ Alike(x, y) /\ y.pc = "authorizing" /\ y.on = l
        /\ y.outcome = None /\ y.permit = asked /\ y.answer = x.answer
    BY <2>3, <2>4, <2>7 DEF Fields, Alike
  <2>9. /\ Agree(y, y) /\ \A w \in Lookups : Agree(y, look[w])
        /\ y.since <= y.asOf
        /\ Dated(y.object, y.epoch, y.since)
        /\ Dated(y.object, y.admission, y.asOf)
        /\ y.epoch = EpochFor(y.object) => y.sweep = sweeps
    BY <2>7, <2>8, AlikePrepared
  <2>10. y.object = x.object /\ y.permit.at = version[x.object]
    BY <2>8 DEF Alike
  <2>11. y.asOf <= y.permit.at /\ Dated(y.object, y.admission, y.permit.at)
    BY <2>5, <2>9, <2>10 DEF Dated
  <2>12. Stamped(l, y) BY <2>8, <2>9, <2>11 DEF Stamped
  <2>13. ReadsBy(y, y.permit)
    <3>1. x.since <= version[x.object] BY <1>1, <2>5
    <3>2. /\ y.principal = x.principal /\ y.strategy = x.strategy
          /\ y.object = x.object /\ y.since = x.since
      BY <2>8 DEF Alike
    <3> QED BY <2>8, <3>1, <3>2 DEF ReadsBy
  <2>14. Fresh(y) /\ ~Reading(y)
    BY <2>8, NoneIsNoLookup DEF Fresh, Reading
  <2>15. Linked(y, y) BY <2>8, <2>13 DEF Linked
  <2>16. Fits(l, y)
    BY <2>7, <2>8, <2>9, <2>12, <2>14, <2>15 DEF Fits, Waiting
  <2>17. ASSUME NEW d \in authorizations', d \notin known
         PROVE  NewAuthorization(l, y, d)
    <3>1. d = [key |-> Key(x, x.admission), promise |-> l, permit |-> asked]
      BY <1>5, <2>17
    <3>2. Key(x, x.admission) = Key(y, y.admission)
      BY <2>8 DEF Key, Alike
    <3>3. Key(x, x.admission) \in Keys BY <1>1 DEF Key, Keys, Fields
    <3> QED BY <2>6, <2>8, <3>1, <3>2, <3>3
            DEF NewAuthorization, AuthorizationEntries
  <2>18. Carries(x, y) BY <1>1, <2>8 DEF Carries, Alike, Active
  <2> QED BY <1>5, <2>1, <2>4, <2>8, <2>16, <2>17, <2>18
<1> QED BY <1>2, <1>3, <1>4, <1>5 DEF Authorize

\* The current epoch and version of the object contradict nobody's stamps.
LEMMA CurrentStamp ==
  ASSUME TypeOK, LookupsSound, NEW w \in Lookups, Active(look[w]),
         NEW t \in Stamps(look[w]), t[1] = EpochFor(look[w].object)
  PROVE  t[2] = version[look[w].object]
BY DEF LookupsSound, Stamped, Dated, Stamps

LEMMA VersionsAndEpochs ==
  ASSUME TypeOK, NEW o \in Objects
  PROVE  /\ version[o] \in Nat /\ EpochFor(o) \in Epochs
         /\ Dated(o, EpochFor(o), version[o])
BY DEF TypeOK, EpochFor, Epochs, Dated

\* A lookup that begins is prepared.
LEMMA CurrentPrepared ==
  ASSUME TypeOK, LookupsSound, NEW l \in Lookups, NEW x \in Fields, Active(x),
         x.epoch = EpochFor(x.object), x.admission = EpochFor(x.object),
         x.since = version[x.object], x.asOf = version[x.object],
         x.sweep = sweeps
  PROVE  Prepared(l, x)
<1>1. x.object \in Objects BY DEF Fields
<1>2. /\ version[x.object] \in Nat
      /\ Dated(x.object, EpochFor(x.object), version[x.object])
  BY <1>1, VersionsAndEpochs
<1>3. Agree(x, x) BY DEF Agree, Stamps
<1>4. ASSUME NEW w \in Lookups PROVE Agree(x, look[w])
  BY CurrentStamp DEF Agree, Stamps
<1> QED BY <1>2, <1>3, <1>4 DEF Prepared

\* So is one that asks again in the current epoch,
LEMMA ReadmittedPrepared ==
  ASSUME TypeOK, LookupsSound, StampsAgree, NEW l \in Lookups, Active(look[l]),
         NEW x, x = Readmitted(look[l])
  PROVE  Prepared(l, x) /\ Carries(look[l], x)
<1> DEFINE y == look[l]
<1>1. y \in Fields /\ Prepared(l, y) BY LookupPrepared DEF TypeOK
<1>2. y.object \in Objects BY <1>1 DEF Fields
<1>3. /\ version[y.object] \in Nat /\ EpochFor(y.object) \in Epochs
      /\ Dated(y.object, EpochFor(y.object), version[y.object])
  BY <1>2, VersionsAndEpochs
<1>4. PICK z : z = [y EXCEPT !.admission = EpochFor(y.object)] OBVIOUS
<1>5. z \in Fields BY <1>1, <1>3, <1>4, UpdateType
<1>6. x = [z EXCEPT !.asOf = version[y.object]] BY <1>4 DEF Readmitted
<1>7. x \in Fields BY <1>3, <1>5, <1>6, UpdateType
<1>8. /\ x.pc = y.pc /\ x.object = y.object /\ x.epoch = y.epoch
      /\ x.since = y.since /\ x.sweep = y.sweep
      /\ x.admission = EpochFor(y.object) /\ x.asOf = version[y.object]
      /\ x.answer = y.answer
  BY <1>4, <1>5, <1>6, <1>7 DEF Fields
<1>9. x.since <= x.asOf
  <2>1. y.since \in Nat /\ y.asOf \in Nat BY <1>1 DEF Fields
  <2>2. y.since <= y.asOf /\ y.asOf <= version[y.object]
    BY <1>1 DEF Prepared, Dated
  <2> QED BY <1>3, <1>8, <2>1, <2>2
<1>10. Active(x) BY <1>8 DEF Active
<1>11. Stamps(x) = {<<y.epoch, y.since>>, <<EpochFor(y.object), version[y.object]>>}
  BY <1>8 DEF Stamps
<1>12. ASSUME NEW w \in Lookups, Active(look[w]), look[w].object = y.object,
              NEW s \in Stamps(x), NEW t \in Stamps(look[w]), s[1] = t[1]
       PROVE  s[2] = t[2]
  <2>1. CASE s = <<y.epoch, y.since>>
    <3>1. s \in Stamps(y) BY <2>1 DEF Stamps
    <3> QED BY <1>12, <3>1 DEF StampsAgree, Agree
  <2>2. CASE s = <<EpochFor(y.object), version[y.object]>>
    BY <1>12, <2>2, CurrentStamp
  <2> QED BY <1>11, <2>1, <2>2
<1>13. ASSUME NEW w \in Lookups PROVE Agree(x, look[w])
  BY <1>8, <1>12 DEF Agree
<1>14. Agree(x, x)
  <2>1. y.epoch = EpochFor(y.object) => y.since = version[y.object]
    BY <1>1 DEF Prepared, Dated
  <2> QED BY <1>11, <2>1 DEF Agree
<1>15. /\ Dated(x.object, x.epoch, x.since)
       /\ Dated(x.object, x.admission, x.asOf)
       /\ x.epoch = EpochFor(x.object) => x.sweep = sweeps
  BY <1>1, <1>3, <1>8 DEF Prepared
<1>16. Carries(y, x) BY <1>8, <1>10 DEF Carries
<1> QED BY <1>7, <1>9, <1>10, <1>13, <1>14, <1>15, <1>16 DEF Prepared

\* and one that starts an attempt, in the epoch of the lookup.
LEMMA AttemptPrepared ==
  ASSUME NEW l \in Lookups, NEW y, Prepared(l, y),
         NEW x, x = [y EXCEPT !.admission = y.epoch, !.asOf = y.since]
  PROVE  Prepared(l, x) /\ Carries(y, x)
<1>1. y \in Fields BY DEF Prepared
<1>2. PICK z : z = [y EXCEPT !.admission = y.epoch] OBVIOUS
<1>3. z \in Fields BY <1>1, <1>2, UpdateType DEF Fields
<1>4. x = [z EXCEPT !.asOf = y.since] BY <1>2
<1>5. x \in Fields BY <1>1, <1>3, <1>4, UpdateType DEF Fields
<1>6. /\ x.pc = y.pc /\ x.object = y.object /\ x.epoch = y.epoch
      /\ x.since = y.since /\ x.sweep = y.sweep
      /\ x.admission = y.epoch /\ x.asOf = y.since /\ x.answer = y.answer
  BY <1>2, <1>3, <1>4, <1>5 DEF Fields
<1>7. x.since <= x.asOf BY <1>1, <1>6 DEF Fields
<1>8. Active(x) BY <1>6 DEF Active, Prepared
<1>9. Stamps(x) = {<<y.epoch, y.since>>} BY <1>6 DEF Stamps
<1>10. <<y.epoch, y.since>> \in Stamps(y) BY DEF Stamps
<1>11. Agree(x, x) BY <1>9 DEF Agree
<1>12. ASSUME NEW w \in Lookups PROVE Agree(x, look[w])
  BY <1>6, <1>9, <1>10 DEF Prepared, Agree, Active
<1>13. /\ Dated(x.object, x.epoch, x.since)
       /\ Dated(x.object, x.admission, x.asOf)
       /\ x.epoch = EpochFor(x.object) => x.sweep = sweeps
  BY <1>6 DEF Prepared
<1> QED BY <1>5, <1>6, <1>7, <1>8, <1>11, <1>12, <1>13 DEF Prepared, Carries

LEMMA AdmissionFits ==
  ASSUME TypeOK, LookupsSound, SharedWorkIsOwn, AuthorizationsCurrent,
         NEW l \in Lookups, look[l].on = None, NEW x, Prepared(l, x),
         NEW known \in SUBSET authorizations, Admission(l, x, known)
  PROVE  \E y : /\ Becomes(l, y) /\ Fits(l, y) /\ y.pc # "loading"
                /\ Carries(x, y)
                /\ state # "active" => y.on = None
                /\ \A e \in authorizations' :
                     e \in known \/ NewAuthorization(l, y, e)
<1>1. CASE state = "retired"
  <2>1. Becomes(l, Throws(x, "other")) /\ authorizations' = known
    BY <1>1 DEF Admission
  <2>2. PICK y : y = Throws(x, "other") OBVIOUS
  <2>3. Fits(l, y) /\ y.on = None /\ y.pc = "thrown" /\ Carries(x, y)
    BY <2>2, ThrownFits DEF Answers
  <2> QED BY <2>1, <2>2, <2>3
<1>2. CASE state # "retired"
  <2>1. PICK z : z = [x EXCEPT !.admission = x.epoch, !.asOf = x.since]
    OBVIOUS
  <2>2. Prepared(l, z) /\ Carries(x, z) BY <2>1, AttemptPrepared
  <2>3. Authorize(l, z, known) BY <1>2, <2>1 DEF Admission
  <2>4. PICK y : /\ Becomes(l, y) /\ Fits(l, y) /\ y.pc # "loading"
                 /\ Carries(z, y)
                 /\ \A e \in authorizations' :
                      e \in known \/ NewAuthorization(l, y, e)
    BY <2>2, <2>3, AuthorizeFits
  <2>5. state = "active" BY <1>2 DEF TypeOK
  <2> QED BY <2>2, <2>4, <2>5 DEF Carries
<1> QED BY <1>1, <1>2

(***************************************************************************)
(* #selectStrategy, and the read itself                                    *)
(***************************************************************************)
\* The entry that a new probe of y gets, or a denial remembered now
NewProbe(l, y, e) ==
  /\ e \in ProbeEntries /\ e.at = sweeps
  /\ IF e.promise = None THEN e.result # None
     ELSE /\ e.promise = l /\ y.on = l /\ y.pc = "probing" /\ y.outcome = None
          /\ y.principal = e.principal

LEMMA ProbeFits ==
  ASSUME TypeOK, LookupsSound, ProbesCurrent,
         NEW l \in Lookups, look[l].on = None, NEW x \in Fields,
         x.epoch = EpochFor(x.object), x.admission = EpochFor(x.object),
         x.since = version[x.object], x.asOf = version[x.object],
         x.sweep = sweeps, Probe(l, x)
  PROVE  \E y : /\ Becomes(l, y) /\ Fits(l, y) /\ y.pc # "loading"
                /\ Carries(x, y) \/ y = Fails(x)
                /\ \A e \in probes' : e \in probes \/ NewProbe(l, y, e)
<1>1. "probing" \in Busy BY DEF Busy, Waiting
<1>2. ASSUME NEW y \in Fields, Alike(x, y), y.pc = "probing",
             y.answer = x.answer,
             y.on # None =>
               Linked(y, IF y.on = l THEN y ELSE look[y.on])
      PROVE  Fits(l, y) /\ Carries(x, y)
  <2>1. Active(y) BY <1>1, <1>2 DEF Active
  <2>2. Prepared(l, y)
    BY <1>2, <2>1, CurrentPrepared DEF Alike
  <2>3. Stamped(l, y) BY <1>2, <2>2 DEF Prepared, Stamped
  <2>4. Fresh(y) /\ ~Reading(y) BY <1>2 DEF Fresh, Reading
  <2>5. Carries(x, y) BY <1>2, <2>1 DEF Carries, Alike
  <2> QED BY <1>2, <2>2, <2>3, <2>4, <2>5 DEF Fits, Prepared, Waiting
<1>3. ASSUME NEW e \in probes, e.principal = x.principal, UNCHANGED probes,
             Becomes(l, IF e.promise # None THEN Joins(x, e.promise, "probing")
                        ELSE Hits(x, "probing", e.result))
      PROVE  \E y : /\ Becomes(l, y) /\ Fits(l, y) /\ y.pc # "loading"
                    /\ Carries(x, y) \/ y = Fails(x)
                    /\ \A d \in probes' : d \in probes \/ NewProbe(l, y, d)
  <2>1. CASE e.promise # None
    <3>1. PICK s : s = e.promise OBVIOUS
    <3>2. /\ s \in Lookups /\ look[s].on = s /\ look[s].pc = "probing"
          /\ look[s].principal = x.principal
      BY <1>3, <2>1, <3>1 DEF ProbesCurrent, Running, Calls
    <3>3. s # l BY <3>2, NoneIsNoLookup
    <3>4. PICK y : y = Joins(x, s, "probing") OBVIOUS
    <3>5. y = Await(x, "probing", s, None) BY <3>4, AwaitForms
    <3>6. y \in Fields /\ Alike(x, y) /\ y.pc = "probing" /\ y.on = s
          /\ y.answer = x.answer
      BY <1>1, <3>2, <3>5, AwaitFields
    <3>7. Linked(y, look[s]) BY <3>2, <3>6 DEF Linked, Alike
    <3>8. Fits(l, y) /\ Carries(x, y) BY <1>2, <3>3, <3>6, <3>7
    <3> QED BY <1>3, <2>1, <3>1, <3>4, <3>6, <3>8
  <2>2. CASE e.promise = None
    <3>1. PICK r : r = e.result OBVIOUS
    <3>2. r \in Answers \cup {None} /\ None \in Lookups \cup {None}
      BY <3>1 DEF TypeOK, ProbeEntries, Answers
    <3>3. PICK y : y = Hits(x, "probing", r) OBVIOUS
    <3>4. y = Await(x, "probing", None, r) BY <3>3, AwaitForms
    <3>5. y \in Fields /\ Alike(x, y) /\ y.pc = "probing" /\ y.on = None
          /\ y.answer = x.answer
      BY <1>1, <3>2, <3>4, AwaitFields
    <3>6. Fits(l, y) /\ Carries(x, y)
      BY <1>2, <3>5
    <3> QED BY <1>3, <2>2, <3>1, <3>3, <3>5, <3>6
  <2> QED BY <2>1, <2>2
<1>4. ASSUME Becomes(l, Fails(x)), UNCHANGED probes
      PROVE  \E y : /\ Becomes(l, y) /\ Fits(l, y) /\ y.pc # "loading"
                    /\ Carries(x, y) \/ y = Fails(x)
                    /\ \A d \in probes' : d \in probes \/ NewProbe(l, y, d)
  <2>1. PICK y : y = Fails(x) OBVIOUS
  <2>2. Fits(l, y) /\ y.pc = "ended" BY <2>1, FailedFits
  <2> QED BY <1>4, <2>1, <2>2
<1>5. ASSUME NEW rest \in SUBSET probes,
             probes' = rest \cup {[principal |-> x.principal, result |-> None,
                                   promise |-> l, at |-> sweeps]},
             Becomes(l, Begins(x, l, "probing"))
      PROVE  \E y : /\ Becomes(l, y) /\ Fits(l, y) /\ y.pc # "loading"
                    /\ Carries(x, y) \/ y = Fails(x)
                    /\ \A d \in probes' : d \in probes \/ NewProbe(l, y, d)
  <2>1. PICK y : y = Begins(x, l, "probing") OBVIOUS
  <2>2. y = Await(x, "probing", l, None) BY <2>1, AwaitForms
  <2>3. /\ y \in Fields /\ Alike(x, y) /\ y.pc = "probing" /\ y.on = l
        /\ y.outcome = None /\ y.answer = x.answer
    BY <1>1, <2>2, AwaitFields
  <2>4. Linked(y, y) BY <2>3 DEF Linked
  <2>5. Fits(l, y) /\ Carries(x, y) BY <1>2, <2>3, <2>4
  <2>6. ASSUME NEW d \in probes', d \notin probes PROVE NewProbe(l, y, d)
    <3>1. d = [principal |-> x.principal, result |-> None, promise |-> l,
               at |-> sweeps]
      BY <1>5, <2>6
    <3> QED BY <2>3, <3>1, NoneIsNoLookup
            DEF NewProbe, ProbeEntries, TypeOK, Fields, Alike
  <2> QED BY <1>5, <2>1, <2>3, <2>5, <2>6
<1> QED BY <1>3, <1>4, <1>5 DEF Probe

\* The load that y starts
NewLoad(l, y) ==
  /\ y.on = l /\ y.pc = "loading" /\ y.admission = EpochFor(y.object)
  /\ \A s \in inFlight :
       Key(look[s], look[s].admission) # Key(y, y.admission)

LEMMA ReadsFits ==
  ASSUME TypeOK, LookupsSound, StampsAgree, SharedWorkIsOwn, CacheCurrent,
         JoinableLoads, AuthorizedReads, NEW l \in Lookups,
         Resumed(l, "authorizing"), look[l].outcome = "ok",
         look[l].admission = EpochFor(look[l].object), Reads(l, look[l])
  PROVE  \E y : /\ Becomes(l, y) /\ Fits(l, y)
                /\ Carries(look[l], y) \/ Delivers(look[l], y)
                /\ y.on = l => y.pc = "loading"
                /\ \/ y.on # l /\ UNCHANGED inFlight
                   \/ inFlight' = inFlight \cup {l} /\ NewLoad(l, y)
<1> DEFINE x == look[l]
           same == {s \in inFlight :
                      Key(look[s], look[s].admission) = Key(x, x.admission)}
<1>1. /\ x \in Fields /\ x.pc = "authorizing" /\ x.on = None /\ Active(x)
  BY DEF Resumed, TypeOK, Active, Busy, Waiting
<1>2. Prepared(l, x) BY <1>1, LookupPrepared
<1>3. ReadsBy(x, x.permit) BY <1>1 DEF AuthorizedReads, Reading
<1>4. /\ version[x.object] \in Nat /\ x.since \in Nat /\ x.asOf \in Nat
      /\ x.since <= x.asOf /\ x.asOf <= version[x.object]
  BY <1>1, <1>2 DEF TypeOK, Fields, Prepared, Dated
<1>5. ASSUME NEW e \in cache, e.object = x.object,
             Becomes(l, Returns(x, e.seen)), UNCHANGED inFlight
      PROVE  \E y : /\ Becomes(l, y) /\ Fits(l, y)
                    /\ Carries(look[l], y) \/ Delivers(look[l], y)
                    /\ y.on = l => y.pc = "loading"
                    /\ \/ y.on # l /\ UNCHANGED inFlight
                       \/ inFlight' = inFlight \cup {l} /\ NewLoad(l, y)
  <2>1. e.seen = version[x.object] BY <1>5 DEF CacheCurrent
  <2>2. x.since <= version[x.object] BY <1>4
  <2>3. PICK y : y = Returns(x, e.seen) OBVIOUS
  <2>4. /\ x \in Fields /\ e.seen \in Nat /\ x.since <= e.seen
        /\ e.seen <= version[x.object]
    BY <1>1, <1>4, <2>1, <2>2
  <2>5. Fits(l, y) /\ y.on = None /\ Delivers(x, y)
    BY <1>3, <2>3, <2>4, ReturnedFits DEF Delivers
  <2> QED BY <1>5, <2>3, <2>5, NoneIsNoLookup
<1>6. ASSUME NEW s \in same, Becomes(l, Joins(x, s, "loading")),
             UNCHANGED inFlight
      PROVE  \E y : /\ Becomes(l, y) /\ Fits(l, y)
                    /\ Carries(look[l], y) \/ Delivers(look[l], y)
                    /\ y.on = l => y.pc = "loading"
                    /\ \/ y.on # l /\ UNCHANGED inFlight
                       \/ inFlight' = inFlight \cup {l} /\ NewLoad(l, y)
  <2>1. /\ s \in Lookups /\ look[s].on = s /\ look[s].pc = "loading"
        /\ Key(x, x.admission) = Key(look[s], look[s].admission)
    BY <1>6 DEF JoinableLoads, Calls
  <2>2. x.since <= look[s].value /\ x.principal = look[s].principal
    BY <1>2, <2>1, SameCall
  <2>3. s # l BY <1>1, <2>1, NoneIsNoLookup
  <2>4. PICK y : y = Joins(x, s, "loading") OBVIOUS
  <2>5. y = Await(x, "loading", s, None) BY <2>4, AwaitForms
  <2>6. /\ y \in Fields /\ Alike(x, y) /\ y.pc = "loading" /\ y.on = s
        /\ y.permit = x.permit /\ y.answer = x.answer
    BY <1>1, <2>1, <2>5, AwaitFields DEF Busy, Waiting
  <2>7. /\ Agree(y, y) /\ \A w \in Lookups : Agree(y, look[w])
        /\ y.since <= y.asOf
        /\ Dated(y.object, y.epoch, y.since)
        /\ Dated(y.object, y.admission, y.asOf)
        /\ y.epoch = EpochFor(y.object) => y.sweep = sweeps
    BY <1>2, <2>6, AlikePrepared
  <2>8. Stamped(l, y) BY <2>3, <2>6, <2>7 DEF Stamped
  <2>9. Fresh(y) BY <2>1, <2>6, NoneIsNoLookup DEF Fresh
  <2>10. ReadsBy(y, y.permit) BY <1>3, <2>6 DEF ReadsBy, Alike
  <2>11. Linked(y, look[s])
    BY <2>1, <2>2, <2>6 DEF Linked, Alike, Key
  <2>12. Fits(l, y)
    BY <2>3, <2>6, <2>7, <2>8, <2>9, <2>10, <2>11 DEF Fits, Waiting
  <2>13. Carries(x, y)
    BY <2>6 DEF Carries, Alike, Active, Busy, Waiting
  <2> QED BY <1>6, <2>3, <2>4, <2>6, <2>12, <2>13
<1>7. ASSUME Becomes(l, Throws(x, "other")), UNCHANGED inFlight
      PROVE  \E y : /\ Becomes(l, y) /\ Fits(l, y)
                    /\ Carries(look[l], y) \/ Delivers(look[l], y)
                    /\ y.on = l => y.pc = "loading"
                    /\ \/ y.on # l /\ UNCHANGED inFlight
                       \/ inFlight' = inFlight \cup {l} /\ NewLoad(l, y)
  <2>1. PICK y : y = Throws(x, "other") OBVIOUS
  <2>2. Fits(l, y) /\ y.on = None /\ Carries(x, y)
    BY <1>2, <2>1, ThrownFits DEF Answers
  <2> QED BY <1>7, <2>1, <2>2, NoneIsNoLookup
<1>8. ASSUME same = {}, inFlight' = inFlight \cup {l},
             Becomes(l, [Begins(x, l, "loading") EXCEPT !.value = version[x.object]])
      PROVE  \E y : /\ Becomes(l, y) /\ Fits(l, y)
                    /\ Carries(look[l], y) \/ Delivers(look[l], y)
                    /\ y.on = l => y.pc = "loading"
                    /\ \/ y.on # l /\ UNCHANGED inFlight
                       \/ inFlight' = inFlight \cup {l} /\ NewLoad(l, y)
  <2>1. PICK z : z = Begins(x, l, "loading") OBVIOUS
  <2>2. z = Await(x, "loading", l, None) BY <2>1, AwaitForms
  <2>3. /\ z \in Fields /\ Alike(x, z) /\ z.pc = "loading" /\ z.on = l
        /\ z.permit = x.permit /\ z.answer = x.answer
    BY <1>1, <2>2, AwaitFields DEF Busy, Waiting
  <2>4. PICK y : y = [z EXCEPT !.value = version[x.object]] OBVIOUS
  <2>5. y \in Fields BY <1>4, <2>3, <2>4, UpdateType
  <2>6. /\ Alike(x, y) /\ y.pc = "loading" /\ y.on = l
        /\ y.permit = x.permit /\ y.value = version[x.object]
        /\ y.answer = x.answer
    BY <2>3, <2>4, <2>5 DEF Fields, Alike
  <2>7. /\ Agree(y, y) /\ \A w \in Lookups : Agree(y, look[w])
        /\ y.since <= y.asOf
        /\ Dated(y.object, y.epoch, y.since)
        /\ Dated(y.object, y.admission, y.asOf)
        /\ y.epoch = EpochFor(y.object) => y.sweep = sweeps
    BY <1>2, <2>5, <2>6, AlikePrepared
  <2>8. /\ y.object = x.object /\ y.asOf = x.asOf /\ y.since = x.since
        /\ y.admission = x.admission
    BY <2>6 DEF Alike
  <2>9. y.asOf <= y.value /\ Dated(y.object, y.admission, y.value)
    BY <1>4, <2>6, <2>7, <2>8 DEF Dated
  <2>10. Stamped(l, y) BY <2>6, <2>7, <2>9 DEF Stamped
  <2>11. Fresh(y) BY <2>6, NoneIsNoLookup DEF Fresh
  <2>12. ReadsBy(y, y.permit) BY <1>3, <2>6 DEF ReadsBy, Alike
  <2>13. y.since <= y.value BY <1>4, <2>6, <2>8
  <2>14. Linked(y, y) BY <2>6, <2>13 DEF Linked
  <2>15. Fits(l, y)
    BY <2>5, <2>6, <2>7, <2>10, <2>11, <2>12, <2>14 DEF Fits, Waiting
  <2>16. NewLoad(l, y)
    <3>1. Key(x, x.admission) = Key(y, y.admission)
      BY <2>6 DEF Key, Alike
    <3> QED BY <1>8, <2>6, <2>8, <3>1 DEF NewLoad
  <2>17. Carries(x, y)
    BY <2>6 DEF Carries, Alike, Active, Busy, Waiting
  <2> QED BY <1>8, <2>1, <2>4, <2>6, <2>15, <2>16, <2>17
<1> QED BY <1>5, <1>6, <1>7, <1>8 DEF Reads

(***************************************************************************)
(* Frames: from one lookup to all of them, and to the tables               *)
(***************************************************************************)
\* Whoever waits on l still does, for the same.
LEMMA LookStep ==
  ASSUME TypeOK, LookupsSound, StampsAgree, SharedWorkIsOwn, AuthorizedReads,
         NEW l \in Lookups, NEW y, Becomes(l, y), Fits(l, y),
         \A w \in Lookups \ {l} : look[w].on = l => Linked(look[w], y),
         UNCHANGED <<globalEpoch, objectEpochs, version, sweeps>>
  PROVE  /\ look' \in [Lookups -> Fields]
         /\ LookupsSound' /\ StampsAgree' /\ SharedWorkIsOwn' /\ AuthorizedReads'
<1>1. /\ look' \in [Lookups -> Fields] /\ look'[l] = y
      /\ \A w \in Lookups \ {l} : look'[w] = look[w]
  BY DEF Becomes, Fits, TypeOK
<1>2. \A o : EpochFor(o)' = EpochFor(o) BY DEF EpochFor
<1>3. LookupsSound'
  <2> SUFFICES ASSUME NEW w \in Lookups
               PROVE  /\ Active(look'[w]) => Stamped(w, look[w])'
                      /\ look'[w].on # None => look'[w].pc \in Waiting
                      /\ Fresh(look[w])'
    BY DEF LookupsSound, Active
  <2>1. CASE w = l
    <3>1. Active(y) => Stamped(l, y)' BY <1>2 DEF Fits, Stamped, Dated
    <3>2. Fresh(y)' BY DEF Fits, Fresh
    <3> QED BY <1>1, <2>1, <3>1, <3>2 DEF Fits
  <2>2. CASE w # l
    <3>1. look'[w] = look[w] BY <1>1, <2>2
    <3>2. Active(look[w]) => Stamped(w, look[w])'
      BY <1>2, <3>1 DEF LookupsSound, Stamped, Dated
    <3>3. Fresh(look[w])' BY <3>1 DEF LookupsSound, Fresh
    <3> QED BY <3>1, <3>2, <3>3 DEF LookupsSound
  <2> QED BY <2>1, <2>2
<1>4. StampsAgree'
  <2> SUFFICES ASSUME NEW v \in Lookups, NEW w \in Lookups
               PROVE  Agree(look'[v], look'[w])
    BY DEF StampsAgree
  <2>1. CASE v = l /\ w = l BY <1>1, <2>1 DEF Fits
  <2>2. CASE v = l /\ w # l BY <1>1, <2>2 DEF Fits
  <2>3. CASE v # l /\ w = l
    <3>1. Agree(y, look[v]) BY <2>3 DEF Fits
    <3>2. Agree(look[v], y) BY <3>1 DEF Agree
    <3> QED BY <1>1, <2>3, <3>2
  <2>4. CASE v # l /\ w # l BY <1>1, <2>4 DEF StampsAgree
  <2> QED BY <2>1, <2>2, <2>3, <2>4
<1>5. SharedWorkIsOwn'
  <2> SUFFICES ASSUME NEW w \in Lookups, look'[w].on # None
               PROVE  Linked(look'[w], look'[look'[w].on])
    BY DEF SharedWorkIsOwn
  <2>1. look'[w].on \in Lookups BY <1>1 DEF Fields
  <2>2. CASE w = l BY <1>1, <2>1, <2>2 DEF Fits
  <2>3. CASE w # l
    <3>1. look'[w] = look[w] BY <1>1, <2>3
    <3>2. CASE look[w].on = l BY <1>1, <2>3, <3>1, <3>2
    <3>3. CASE look[w].on # l
      BY <1>1, <2>1, <3>1, <3>3 DEF SharedWorkIsOwn
    <3> QED BY <3>2, <3>3
  <2> QED BY <2>2, <2>3
<1>6. AuthorizedReads'
  <2> SUFFICES ASSUME NEW w \in Lookups, Reading(look'[w])
               PROVE  ReadsBy(look'[w], look'[w].permit)
    BY DEF AuthorizedReads
  <2>1. CASE w = l BY <1>1, <2>1 DEF Fits
  <2>2. CASE w # l BY <1>1, <2>2 DEF AuthorizedReads
  <2> QED BY <2>1, <2>2
<1> QED BY <1>1, <1>3, <1>4, <1>5, <1>6

\* A lookup that awaited nothing goes on: what the tables held still holds, and
\* what they gain is its own.
LEMMA MoveKeeps ==
  ASSUME RepositoryInv, NEW l \in Lookups, look[l].on = None,
         NEW y, Becomes(l, y), Fits(l, y),
         state # "active" => y.on = None,
         UNCHANGED <<state, retirement, cache, globalEpoch, objectEpochs,
                     version, sweeps>>,
         \A e \in authorizations' :
           \/ e \in authorizations
           \/ state = "active" /\ NewAuthorization(l, y, e),
         \A e \in probes' :
           \/ e \in probes
           \/ state = "active" /\ NewProbe(l, y, e),
         \/ UNCHANGED inFlight /\ (y.on = l => y.pc # "loading")
         \/ state = "active" /\ inFlight' = inFlight \cup {l} /\ NewLoad(l, y)
  PROVE  RepositoryInv'
<1> USE DEF RepositoryInv
<1>1. ASSUME NEW w \in Lookups \ {l}, look[w].on = l PROVE FALSE
  <2>1. look[w].on # None BY <1>1, NoneIsNoLookup
  <2>2. look[l].on = l BY <1>1, <2>1 DEF SharedWorkIsOwn, Linked
  <2> QED BY <2>2, NoneIsNoLookup
<1>2. /\ look' \in [Lookups -> Fields]
      /\ LookupsSound' /\ StampsAgree' /\ SharedWorkIsOwn' /\ AuthorizedReads'
  BY <1>1, LookStep
<1>3. /\ look'[l] = y /\ \A w \in Lookups \ {l} : look'[w] = look[w]
  BY DEF Becomes, TypeOK
<1>4. \A o : EpochFor(o)' = EpochFor(o) BY DEF EpochFor
<1>5. TypeOK'
  <2>1. authorizations' \subseteq AuthorizationEntries
    BY DEF TypeOK, NewAuthorization
  <2>2. probes' \subseteq ProbeEntries BY DEF TypeOK, NewProbe
  <2>3. inFlight' \subseteq Lookups BY DEF TypeOK
  <2> QED BY <1>2, <2>1, <2>2, <2>3 DEF TypeOK
<1>6. CacheCurrent' BY DEF CacheCurrent
<1>7. AuthorizationsCurrent'
  <2> SUFFICES ASSUME NEW e \in authorizations'
               PROVE  IF e.promise = None
                      THEN /\ e.key.epoch = EpochFor(e.key.object)
                           /\ e.permit = [principal |-> e.key.principal,
                                          strategy |-> e.key.strategy,
                                          object |-> e.key.object,
                                          at |-> version[e.key.object]]
                      ELSE /\ e.promise \in Lookups
                           /\ look'[e.promise].pc = "authorizing"
                           /\ look'[e.promise].on = e.promise
                           /\ look'[e.promise].outcome = None
                           /\ e.key = Key(look'[e.promise], look'[e.promise].admission)
                           /\ e.permit = look'[e.promise].permit
    BY <1>4 DEF AuthorizationsCurrent, Running, Calls
  <2>1. CASE e \in authorizations
    <3>1. CASE e.promise = None BY <2>1, <3>1 DEF AuthorizationsCurrent
    <3>2. CASE e.promise # None
      <4>1. /\ e.promise \in Lookups /\ look[e.promise].pc = "authorizing"
            /\ look[e.promise].on = e.promise /\ look[e.promise].outcome = None
            /\ e.key = Key(look[e.promise], look[e.promise].admission)
            /\ e.permit = look[e.promise].permit
        BY <2>1, <3>2 DEF AuthorizationsCurrent, Running, Calls
      <4>2. e.promise # l BY <3>2, <4>1
      <4> QED BY <1>3, <3>2, <4>1, <4>2
    <3> QED BY <3>1, <3>2
  <2>2. CASE NewAuthorization(l, y, e)
    BY <1>3, <2>2, NoneIsNoLookup DEF NewAuthorization
  <2> QED BY <2>1, <2>2
<1>8. ProbesCurrent'
  <2> SUFFICES ASSUME NEW e \in probes'
               PROVE  /\ e.at = sweeps
                      /\ IF e.promise = None THEN e.result # None
                         ELSE /\ e.promise \in Lookups
                              /\ look'[e.promise].pc = "probing"
                              /\ look'[e.promise].on = e.promise
                              /\ look'[e.promise].outcome = None
                              /\ look'[e.promise].principal = e.principal
    BY DEF ProbesCurrent, Running, Calls
  <2>1. CASE e \in probes
    <3>1. CASE e.promise = None BY <2>1, <3>1 DEF ProbesCurrent
    <3>2. CASE e.promise # None
      <4>1. /\ e.promise \in Lookups /\ look[e.promise].pc = "probing"
            /\ look[e.promise].on = e.promise /\ look[e.promise].outcome = None
            /\ look[e.promise].principal = e.principal /\ e.at = sweeps
        BY <2>1, <3>2 DEF ProbesCurrent, Running, Calls
      <4>2. e.promise # l BY <3>2, <4>1
      <4> QED BY <1>3, <3>2, <4>1, <4>2
    <3> QED BY <3>1, <3>2
  <2>2. CASE NewProbe(l, y, e)
    BY <1>3, <2>2 DEF NewProbe
  <2> QED BY <2>1, <2>2
<1>9. JoinableLoads'
  <2>1. CASE UNCHANGED inFlight /\ (y.on = l => y.pc # "loading")
    <3>1. Calls("loading")' = Calls("loading")
      BY <1>3, <2>1, NoneIsNoLookup DEF Calls
    <3>2. \A w \in Calls("loading") : w # l
      BY NoneIsNoLookup DEF Calls
    <3>3. \A w \in Calls("loading") : look'[w] = look[w]
      BY <1>3, <3>2 DEF Calls
    <3> QED BY <1>4, <2>1, <3>1, <3>3 DEF JoinableLoads
  <2>2. CASE state = "active" /\ inFlight' = inFlight \cup {l} /\ NewLoad(l, y)
    <3>1. Calls("loading")' = Calls("loading") \cup {l}
      BY <1>3, <2>2 DEF Calls, NewLoad
    <3>2. \A w \in Calls("loading") : w # l /\ look'[w] = look[w]
      BY <1>3, NoneIsNoLookup DEF Calls
    <3>3. ASSUME NEW w \in Lookups
          PROVE  w \in inFlight' <=>
                   /\ w \in Calls("loading")'
                   /\ look'[w].admission = EpochFor(look'[w].object)
      <4>1. CASE w = l BY <1>3, <2>2, <3>1, <4>1 DEF NewLoad
      <4>2. CASE w # l
        BY <1>3, <2>2, <3>1, <4>2 DEF JoinableLoads, Calls
      <4> QED BY <4>1, <4>2
    <3>4. ASSUME NEW w \in Calls("loading"),
                 Key(look[w], look[w].admission) = Key(y, y.admission)
          PROVE  FALSE
      <4>1. look[w].admission = y.admission /\ look[w].object = y.object
        BY <3>4 DEF Key
      <4>2. w \in inFlight BY <2>2, <4>1 DEF JoinableLoads, NewLoad
      <4> QED BY <2>2, <3>4, <4>2 DEF NewLoad
    <3>5. \A v, w \in Calls("loading")' :
            Key(look'[v], look'[v].admission) = Key(look'[w], look'[w].admission)
              => v = w
      BY <1>3, <3>1, <3>2, <3>4 DEF JoinableLoads
    <3>6. inFlight' = {w \in Calls("loading")' :
                         look'[w].admission = EpochFor(look'[w].object)}
      BY <2>2, <3>3 DEF TypeOK, Calls
    <3> QED BY <3>5, <3>6 DEF JoinableLoads, EpochFor
  <2> QED BY <2>1, <2>2
<1>10. RetiredHoldsNothing'
  <2>1. CASE state = "active"
    BY <2>1 DEF RetiredHoldsNothing, None
  <2>2. CASE state = "retired"
    <3>1. /\ cache' = {} /\ authorizations' = {} /\ probes' = {} /\ inFlight' = {}
      BY <2>2 DEF RetiredHoldsNothing
    <3>2. retirement = "resolved" => \A w \in Lookups : look'[w].on = None
      BY <1>3, <2>2 DEF RetiredHoldsNothing
    <3> QED BY <2>2, <3>1, <3>2 DEF RetiredHoldsNothing
  <2> QED BY <2>1, <2>2 DEF TypeOK
<1> QED BY <1>2, <1>5, <1>6, <1>7, <1>8, <1>9, <1>10

\* A call is answered, or a caller gives up: nothing changes that others may
\* have looked at, but a load may turn out to have the current version.
LEMMA AmendStep ==
  ASSUME TypeOK, LookupsSound, StampsAgree, SharedWorkIsOwn, AuthorizedReads,
         NEW l \in Lookups, Active(look[l]),
         NEW y \in Fields, Becomes(l, y), Alike(look[l], y),
         y.pc = look[l].pc, y.on = look[l].on, y.permit = look[l].permit,
         \/ y.outcome = look[l].outcome /\ y.value = look[l].value
         \/ y.on = l /\ y.value \in {look[l].value, version[y.object]},
         UNCHANGED <<globalEpoch, objectEpochs, version, sweeps>>
  PROVE  /\ look' \in [Lookups -> Fields]
         /\ look'[l] = y /\ \A w \in Lookups \ {l} : look'[w] = look[w]
         /\ LookupsSound' /\ StampsAgree' /\ SharedWorkIsOwn' /\ AuthorizedReads'
<1> DEFINE x == look[l]
<1>1. x \in Fields /\ Prepared(l, x) /\ Stamped(l, x)
  BY LookupPrepared DEF TypeOK, LookupsSound
<1>2. /\ Agree(y, y) /\ \A w \in Lookups : Agree(y, look[w])
      /\ y.since <= y.asOf
      /\ Dated(y.object, y.epoch, y.since)
      /\ Dated(y.object, y.admission, y.asOf)
      /\ y.epoch = EpochFor(y.object) => y.sweep = sweeps
  BY <1>1, AlikePrepared
<1>3. /\ y.object = x.object /\ y.since = x.since /\ y.asOf = x.asOf
      /\ y.admission = x.admission /\ y.principal = x.principal
      /\ Key(y, y.admission) = Key(x, x.admission)
  BY DEF Alike, Key
<1>4. y.pc # "ended" /\ Active(y)
  BY DEF Active, Busy, Waiting
<1>5. /\ version[y.object] \in Nat /\ y.asOf \in Nat /\ y.since \in Nat
      /\ y.asOf <= version[y.object]
  BY <1>2 DEF TypeOK, Fields, Dated
<1>6. ASSUME y.on = l, y.pc = "loading"
      PROVE  /\ y.asOf <= y.value
             /\ Dated(y.object, y.admission, y.value)
             /\ version[y.object] = y.value \/ x.value = y.value
  <2>1. CASE y.value = x.value
    BY <1>1, <1>3, <1>6, <2>1 DEF Stamped
  <2>2. CASE y.value = version[y.object]
    BY <1>2, <1>5, <2>2 DEF Dated
  <2> QED BY <2>1, <2>2
<1>7. Stamped(l, y)
  BY <1>1, <1>2, <1>3, <1>6 DEF Stamped
<1>8. Fresh(y)
  <2>1. CASE y.on = l BY <1>4, <2>1, NoneIsNoLookup DEF Fresh
  <2>2. CASE y.outcome = x.outcome /\ y.value = x.value
    BY <1>3, <1>4, <2>2 DEF Fresh, LookupsSound
  <2> QED BY <2>1, <2>2
<1>9. Reading(y) => ReadsBy(y, y.permit)
  <2>1. Reading(y) => Reading(x)
    BY <1>4, NoneIsNoLookup DEF Reading
  <2> QED BY <2>1 DEF AuthorizedReads, ReadsBy, Alike
<1>10. y.on # None => y.pc \in Waiting BY DEF LookupsSound
<1>11. ASSUME NEW w \in Lookups, look[w].on = l, Linked(look[w], x)
       PROVE  Linked(look[w], y)
  <2>1. /\ y.on = look[w].on /\ y.pc = look[w].pc
        /\ look[w].principal = y.principal
        /\ look[w].pc # "probing" =>
             Key(look[w], look[w].admission) = Key(y, y.admission)
        /\ look[w].pc = "authorizing" => ReadsBy(look[w], y.permit)
    BY <1>3, <1>11 DEF Linked
  <2>2. ASSUME look[w].pc = "loading" PROVE look[w].since <= y.value
    <3>1. CASE y.value = x.value BY <1>11, <2>2, <3>1 DEF Linked
    <3>2. CASE y.value = version[y.object]
      <4>1. look[w].object = y.object
        BY <2>1, <2>2 DEF Key
      <4>2. Stamped(w, look[w])
        BY <2>2 DEF LookupsSound, Active, Busy, Waiting
      <4>3. look[w] \in Fields BY DEF TypeOK
      <4>4. look[w].since <= version[look[w].object]
        BY <4>2 DEF Stamped, Dated
      <4> QED BY <3>2, <4>1, <4>4
    <3> QED BY <3>1, <3>2
  <2> QED BY <2>1, <2>2 DEF Linked
<1>12. \A w \in Lookups \ {l} : look[w].on = l => Linked(look[w], y)
  BY <1>11, NoneIsNoLookup DEF SharedWorkIsOwn
<1>13. y.on # None => Linked(y, IF y.on = l THEN y ELSE look[y.on])
  <2>1. CASE y.on = l
    <3>1. Linked(x, x) BY <2>1, NoneIsNoLookup DEF SharedWorkIsOwn
    <3>2. Linked(x, y) BY <1>11, <2>1, <3>1
    <3>3. Linked(y, y)
      BY <1>3, <3>2 DEF Linked, ReadsBy, Alike
    <3> QED BY <2>1, <3>3
  <2>2. CASE y.on # None /\ y.on # l
    <3>1. Linked(x, look[y.on]) BY <2>2 DEF SharedWorkIsOwn
    <3>2. Linked(y, look[y.on])
      BY <1>3, <3>1 DEF Linked, ReadsBy, Alike
    <3> QED BY <2>2, <3>2
  <2> QED BY <2>1, <2>2
<1>14. Fits(l, y)
  BY <1>2, <1>7, <1>8, <1>9, <1>10, <1>13 DEF Fits
<1>15. look'[l] = y /\ \A w \in Lookups \ {l} : look'[w] = look[w]
  BY DEF Becomes, TypeOK
<1> QED BY <1>12, <1>14, <1>15, LookStep

\* An entry that a decision of the adapter leaves behind
SettledNow(e) ==
  /\ e \in AuthorizationEntries /\ e.promise = None
  /\ e.key.epoch = EpochFor(e.key.object)
  /\ e.permit = [principal |-> e.key.principal, strategy |-> e.key.strategy,
                 object |-> e.key.object, at |-> version[e.key.object]]
ProbedNow(e) ==
  e \in ProbeEntries /\ e.promise = None /\ e.result # None /\ e.at = sweeps

LEMMA AmendKeeps ==
  ASSUME RepositoryInv,
         NEW l \in Lookups, Active(look[l]),
         NEW y \in Fields, Becomes(l, y), Alike(look[l], y),
         y.pc = look[l].pc, y.on = look[l].on, y.permit = look[l].permit,
         \/ y.outcome = look[l].outcome /\ y.value = look[l].value
         \/ y.on = l /\ y.value \in {look[l].value, version[y.object]},
         UNCHANGED <<state, retirement, inFlight, globalEpoch, objectEpochs,
                     version, sweeps>>,
         cache' \subseteq CacheEntries, CacheCurrent',
         state = "retired" => cache' = {},
         \A e \in authorizations' :
           \/ e \in authorizations /\ (e.promise = l => y.outcome = None)
           \/ state = "active" /\ SettledNow(e),
         \A e \in probes' :
           \/ e \in probes /\ (e.promise = l => y.outcome = None)
           \/ state = "active" /\ ProbedNow(e)
  PROVE  RepositoryInv'
<1> USE DEF RepositoryInv
<1>1. /\ look' \in [Lookups -> Fields]
      /\ look'[l] = y /\ \A w \in Lookups \ {l} : look'[w] = look[w]
      /\ LookupsSound' /\ StampsAgree' /\ SharedWorkIsOwn' /\ AuthorizedReads'
  BY AmendStep
<1>2. /\ y.object = look[l].object /\ y.admission = look[l].admission
      /\ y.principal = look[l].principal
      /\ Key(y, y.admission) = Key(look[l], look[l].admission)
  BY DEF Alike, Key
<1>3. \A o : EpochFor(o)' = EpochFor(o) BY DEF EpochFor
<1>4. TypeOK'
  <2>1. authorizations' \subseteq AuthorizationEntries
    BY DEF TypeOK, SettledNow
  <2>2. probes' \subseteq ProbeEntries BY DEF TypeOK, ProbedNow
  <2> QED BY <1>1, <2>1, <2>2 DEF TypeOK
<1>5. AuthorizationsCurrent'
  <2> SUFFICES ASSUME NEW e \in authorizations'
               PROVE  IF e.promise = None
                      THEN /\ e.key.epoch = EpochFor(e.key.object)
                           /\ e.permit = [principal |-> e.key.principal,
                                          strategy |-> e.key.strategy,
                                          object |-> e.key.object,
                                          at |-> version[e.key.object]]
                      ELSE /\ e.promise \in Lookups
                           /\ look'[e.promise].pc = "authorizing"
                           /\ look'[e.promise].on = e.promise
                           /\ look'[e.promise].outcome = None
                           /\ e.key = Key(look'[e.promise], look'[e.promise].admission)
                           /\ e.permit = look'[e.promise].permit
    BY <1>3 DEF AuthorizationsCurrent, Running, Calls
  <2>1. CASE e \in authorizations /\ (e.promise = l => y.outcome = None)
    <3>1. CASE e.promise = None BY <2>1, <3>1 DEF AuthorizationsCurrent
    <3>2. CASE e.promise # None
      <4>1. /\ e.promise \in Lookups /\ look[e.promise].pc = "authorizing"
            /\ look[e.promise].on = e.promise /\ look[e.promise].outcome = None
            /\ e.key = Key(look[e.promise], look[e.promise].admission)
            /\ e.permit = look[e.promise].permit
        BY <2>1, <3>2 DEF AuthorizationsCurrent, Running, Calls
      <4>2. CASE e.promise = l BY <1>1, <1>2, <2>1, <3>2, <4>1, <4>2
      <4>3. CASE e.promise # l BY <1>1, <3>2, <4>1, <4>3
      <4> QED BY <4>2, <4>3
    <3> QED BY <3>1, <3>2
  <2>2. CASE SettledNow(e) BY <2>2 DEF SettledNow
  <2> QED BY <2>1, <2>2
<1>6. ProbesCurrent'
  <2> SUFFICES ASSUME NEW e \in probes'
               PROVE  /\ e.at = sweeps
                      /\ IF e.promise = None THEN e.result # None
                         ELSE /\ e.promise \in Lookups
                              /\ look'[e.promise].pc = "probing"
                              /\ look'[e.promise].on = e.promise
                              /\ look'[e.promise].outcome = None
                              /\ look'[e.promise].principal = e.principal
    BY DEF ProbesCurrent, Running, Calls
  <2>1. CASE e \in probes /\ (e.promise = l => y.outcome = None)
    <3>1. CASE e.promise = None BY <2>1, <3>1 DEF ProbesCurrent
    <3>2. CASE e.promise # None
      <4>1. /\ e.promise \in Lookups /\ look[e.promise].pc = "probing"
            /\ look[e.promise].on = e.promise /\ look[e.promise].outcome = None
            /\ look[e.promise].principal = e.principal /\ e.at = sweeps
        BY <2>1, <3>2 DEF ProbesCurrent, Running, Calls
      <4>2. CASE e.promise = l BY <1>1, <1>2, <2>1, <3>2, <4>1, <4>2
      <4>3. CASE e.promise # l BY <1>1, <3>2, <4>1, <4>3
      <4> QED BY <4>2, <4>3
    <3> QED BY <3>1, <3>2
  <2>2. CASE ProbedNow(e) BY <2>2 DEF ProbedNow
  <2> QED BY <2>1, <2>2
<1>7. JoinableLoads'
  <2>1. ASSUME NEW w \in Lookups
        PROVE  /\ look'[w].pc = look[w].pc /\ look'[w].on = look[w].on
               /\ look'[w].admission = look[w].admission
               /\ look'[w].object = look[w].object
               /\ Key(look'[w], look'[w].admission) = Key(look[w], look[w].admission)
    <3>1. CASE w = l BY <1>1, <1>2, <3>1
    <3>2. CASE w # l BY <1>1, <3>2
    <3> QED BY <3>1, <3>2
  <2>2. Calls("loading")' = Calls("loading") BY <2>1 DEF Calls
  <2>3. \A w \in Calls("loading") : w \in Lookups BY DEF Calls
  <2>4. inFlight' = {w \in Calls("loading") :
                       look'[w].admission = EpochFor(look'[w].object)}
    BY <2>1, <2>3 DEF JoinableLoads
  <2>5. \A v, w \in Calls("loading") :
          Key(look'[v], look'[v].admission) = Key(look'[w], look'[w].admission)
            => v = w
    BY <2>1, <2>3 DEF JoinableLoads
  <2> QED BY <2>2, <2>4, <2>5 DEF JoinableLoads, EpochFor
<1>8. RetiredHoldsNothing'
  <2>1. state # "active" => state = "retired" BY DEF TypeOK
  <2>2. state = "retired" =>
          cache' = {} /\ authorizations' = {} /\ probes' = {} /\ inFlight' = {}
    BY DEF RetiredHoldsNothing
  <2>3. retirement = "resolved" => \A w \in Lookups : look'[w].on = None
    BY <1>1 DEF RetiredHoldsNothing
  <2> QED BY <2>2, <2>3 DEF RetiredHoldsNothing
<1> QED BY <1>1, <1>4, <1>5, <1>6, <1>7, <1>8

(***************************************************************************)
(* The lookups' actions                                                    *)
(***************************************************************************)
LEMMA AskedFields ==
  ASSUME TypeOK, NEW l \in Lookups, NEW o \in Objects, NEW p \in Principals,
         NEW x, x = Asked(l, o, p)
  PROVE  /\ x \in Fields /\ x.object = o /\ x.on = None /\ x.answer = None
         /\ x.epoch = EpochFor(o) /\ x.admission = EpochFor(o)
         /\ x.since = version[o] /\ x.asOf = version[o] /\ x.sweep = sweeps
<1> DEFINE y1 == [look[l] EXCEPT !.object = o]
           y2 == [y1 EXCEPT !.principal = p]
           y3 == [y2 EXCEPT !.strategy = "classic"]
           y4 == [y3 EXCEPT !.fellBack = FALSE]
           y5 == [y4 EXCEPT !.epoch = EpochFor(o)]
           y6 == [y5 EXCEPT !.admission = EpochFor(o)]
           y7 == [y6 EXCEPT !.on = None]
           y8 == [y7 EXCEPT !.outcome = None]
           y9 == [y8 EXCEPT !.value = 0]
           y10 == [y9 EXCEPT !.answer = None]
           y11 == [y10 EXCEPT !.since = version[o]]
           y12 == [y11 EXCEPT !.sweep = sweeps]
           y13 == [y12 EXCEPT !.asOf = version[o]]
           y14 == [y13 EXCEPT !.permit = NoPermit(o, p)]
<1>1. x = y14 BY DEF Asked
<1>2. /\ EpochFor(o) \in Epochs /\ version[o] \in Nat /\ sweeps \in Nat
  BY VersionsAndEpochs DEF TypeOK
<1>3. NoPermit(o, p) \in Permits BY DEF NoPermit, Permits, Strategies
<1>4. y1 \in Fields BY DEF TypeOK, Fields
<1>5. y2 \in Fields BY <1>4 DEF Fields
<1>6. y3 \in Fields BY <1>5, UpdateType DEF Strategies
<1>7. y4 \in Fields BY <1>6, UpdateType
<1>8. y5 \in Fields BY <1>7, <1>2, UpdateType
<1>9. y6 \in Fields BY <1>8, <1>2, UpdateType
<1>10. y7 \in Fields BY <1>9, UpdateType
<1>11. y8 \in Fields BY <1>10, UpdateType
<1>12. y9 \in Fields BY <1>11, UpdateType
<1>13. y10 \in Fields BY <1>12, UpdateType
<1>14. y11 \in Fields BY <1>13, <1>2, UpdateType
<1>15. y12 \in Fields BY <1>14, <1>2, UpdateType
<1>16. y13 \in Fields BY <1>15, <1>2, UpdateType
<1>17. y14 \in Fields BY <1>16, <1>3, UpdateType
<1> QED BY ZenonT(60), <1>1, <1>17 DEF Fields

\* The strategy is no part of a stamp.
LEMMA StrategyPrepared ==
  ASSUME NEW l \in Lookups, NEW x, Prepared(l, x), NEW s \in Strategies,
         NEW b \in BOOLEAN,
         NEW y, y = [x EXCEPT !.strategy = s, !.fellBack = b]
  PROVE  Prepared(l, y) /\ Carries(x, y)
<1>1. x \in Fields BY DEF Prepared
<1>2. PICK z : z = [x EXCEPT !.strategy = s] OBVIOUS
<1>3. z \in Fields BY <1>1, <1>2, UpdateType
<1>4. y = [z EXCEPT !.fellBack = b] BY <1>2
<1>5. y \in Fields BY <1>3, <1>4 DEF Fields
<1>6. /\ y.pc = x.pc /\ y.object = x.object /\ y.epoch = x.epoch
      /\ y.admission = x.admission /\ y.since = x.since /\ y.asOf = x.asOf
      /\ y.sweep = x.sweep /\ y.answer = x.answer
  BY <1>2, <1>3, <1>4, <1>5 DEF Fields
<1>7. Stamps(y) = Stamps(x) /\ Active(y)
  BY <1>6 DEF Stamps, Prepared, Active
<1>8. Agree(y, y) /\ \A w \in Lookups : Agree(y, look[w])
  BY <1>6, <1>7 DEF Prepared, Agree
<1>9. Carries(x, y) BY <1>6, <1>7 DEF Carries
<1> QED BY <1>5, <1>6, <1>7, <1>8, <1>9 DEF Prepared

LEMMA GetKeeps ==
  ASSUME RepositoryInv, NEW l \in Lookups, NEW o \in Objects,
         NEW p \in Principals, Get(l, o, p)
  PROVE  RepositoryInv'
<1>1. TypeOK /\ LookupsSound /\ ProbesCurrent BY DEF RepositoryInv
<1>2. look[l].on = None BY <1>1 DEF Get, LookupsSound, Waiting
<1>3. PICK x : x = Asked(l, o, p) OBVIOUS
<1>4. /\ x \in Fields /\ x.object = o /\ x.on = None
      /\ x.epoch = EpochFor(o) /\ x.admission = EpochFor(o)
      /\ x.since = version[o] /\ x.asOf = version[o] /\ x.sweep = sweeps
  BY <1>1, <1>3, AskedFields
<1>5. /\ state = "active"
      /\ UNCHANGED <<state, retirement, cache, inFlight, authorizations,
                     globalEpoch, objectEpochs, version, sweeps>>
  BY DEF Get
<1>6. CASE Mode[p] \in {"auto", "optimizedOnly"}
  <2>1. Probe(l, x) BY <1>3, <1>6 DEF Get
  <2>2. PICK y : /\ Becomes(l, y) /\ Fits(l, y) /\ y.pc # "loading"
                 /\ \A e \in probes' : e \in probes \/ NewProbe(l, y, e)
    BY <1>1, <1>2, <1>4, <2>1, ProbeFits
  <2> QED BY <1>2, <1>5, <2>2, MoveKeeps
<1>7. CASE Mode[p] \notin {"auto", "optimizedOnly"}
  <2>1. /\ Becomes(l, [x EXCEPT !.pc = "selected", !.strategy = Mode[p]])
        /\ UNCHANGED probes
    BY <1>3, <1>7 DEF Get
  <2>2. Mode[p] \in Strategies
    BY <1>7, RepositoryAssumption DEF Modes, Strategies
  <2>3. PICK z : z = [x EXCEPT !.pc = "selected"] OBVIOUS
  <2>4. z \in Fields BY <1>4, <2>3, UpdateType DEF Busy
  <2>5. PICK y : y = [z EXCEPT !.strategy = Mode[p]] OBVIOUS
  <2>6. y \in Fields BY <2>2, <2>4, <2>5, UpdateType
  <2>7. /\ y.pc = "selected" /\ y.on = None /\ y.object = o
        /\ y.epoch = EpochFor(o) /\ y.admission = EpochFor(o)
        /\ y.since = version[o] /\ y.asOf = version[o] /\ y.sweep = sweeps
    BY <1>4, <2>3, <2>4, <2>5, <2>6 DEF Fields
  <2>8. Active(y) BY <2>7 DEF Active, Busy
  <2>9. Prepared(l, y) BY <1>1, <2>6, <2>7, <2>8, CurrentPrepared
  <2>10. Stamped(l, y) /\ Fresh(y) /\ ~Reading(y)
    BY <2>7, <2>9 DEF Prepared, Stamped, Fresh, Reading
  <2>11. Fits(l, y) BY <2>6, <2>7, <2>9, <2>10 DEF Fits, Prepared
  <2>12. Becomes(l, y) BY <2>1, <2>3, <2>5
  <2> QED BY <1>2, <1>5, <2>1, <2>7, <2>11, <2>12, MoveKeeps
<1> QED BY <1>6, <1>7

LEMMA SelectsKeeps ==
  ASSUME RepositoryInv, NEW l \in Lookups, Selects(l)
  PROVE  RepositoryInv'
<1>1. /\ TypeOK /\ LookupsSound /\ StampsAgree /\ SharedWorkIsOwn
      /\ AuthorizationsCurrent
  BY DEF RepositoryInv
<1>2. look[l].on = None /\ Active(look[l])
  BY <1>1 DEF Selects, Resumed, LookupsSound, Waiting, Active, Busy
<1>3. Prepared(l, look[l]) BY <1>1, <1>2, LookupPrepared
<1>4. UNCHANGED <<state, retirement, cache, inFlight, probes, globalEpoch,
                  objectEpochs, version, sweeps>>
  BY DEF Selects
<1>5. ASSUME NEW x, Prepared(l, x), Admission(l, x, authorizations)
      PROVE  RepositoryInv'
  <2>1. PICK y : /\ Becomes(l, y) /\ Fits(l, y) /\ y.pc # "loading"
                 /\ state # "active" => y.on = None
                 /\ \A e \in authorizations' :
                      e \in authorizations \/ NewAuthorization(l, y, e)
    BY <1>1, <1>2, <1>5, AdmissionFits
  <2>2. \A e \in authorizations' :
          \/ e \in authorizations
          \/ state = "active" /\ NewAuthorization(l, y, e)
    BY <2>1, NoneIsNoLookup DEF NewAuthorization
  <2> QED BY <1>2, <1>4, <2>1, <2>2, MoveKeeps
<1>6. ASSUME Admission(l, [look[l] EXCEPT !.strategy = "optimized"], authorizations)
      PROVE  RepositoryInv'
  <2>1. PICK b : b = look[l].fellBack OBVIOUS
  <2>2. b \in BOOLEAN BY <1>1, <2>1 DEF TypeOK, Fields
  <2>3. PICK x : x = [look[l] EXCEPT !.strategy = "optimized", !.fellBack = b]
    OBVIOUS
  <2>4. Prepared(l, x)
    BY <1>3, <2>2, <2>3, StrategyPrepared DEF Strategies
  <2>5. x = [look[l] EXCEPT !.strategy = "optimized"]
    BY <1>1, <2>1, <2>3 DEF TypeOK, Fields
  <2> QED BY <1>5, <1>6, <2>4, <2>5
<1>7. ASSUME Becomes(l, Fails(look[l])), UNCHANGED authorizations
      PROVE  RepositoryInv'
  <2>1. PICK y : y = Fails(look[l]) OBVIOUS
  <2>2. Fits(l, y) /\ y.on = None /\ y.pc = "ended"
    BY <1>1, <2>1, FailedFits DEF TypeOK
  <2> QED BY <1>2, <1>4, <1>7, <2>1, <2>2, MoveKeeps
<1> QED BY <1>3, <1>5, <1>6, <1>7 DEF Selects

LEMMA AdmitsKeeps ==
  ASSUME RepositoryInv, NEW l \in Lookups, Admits(l)
  PROVE  RepositoryInv'
<1> DEFINE x == look[l]
<1>1. /\ TypeOK /\ LookupsSound /\ StampsAgree /\ SharedWorkIsOwn
      /\ AuthorizationsCurrent /\ CacheCurrent /\ JoinableLoads
      /\ AuthorizedReads
  BY DEF RepositoryInv
<1>2. /\ x.on = None /\ Active(x) /\ Resumed(l, "authorizing") /\ x.outcome = "ok"
  BY DEF Admits, Resumed, Waiting, Active, Busy
<1>3. Prepared(l, x) BY <1>1, <1>2, LookupPrepared
<1>4. UNCHANGED <<state, retirement, cache, probes, globalEpoch, objectEpochs,
                  version, sweeps>>
  BY DEF Admits
<1>5. ASSUME Becomes(l, Throws(x, "other")), UNCHANGED <<authorizations, inFlight>>
      PROVE  RepositoryInv'
  <2>1. PICK y : y = Throws(x, "other") OBVIOUS
  <2>2. Fits(l, y) /\ y.on = None /\ y.pc = "thrown"
    BY <1>1, <1>3, <2>1, ThrownFits DEF Answers
  <2> QED BY <1>2, <1>4, <1>5, <2>1, <2>2, MoveKeeps
<1>6. ASSUME state = "active", UNCHANGED inFlight,
             Authorize(l, Readmitted(x),
                       Forget(authorizations, Key(x, x.admission)))
      PROVE  RepositoryInv'
  <2>1. PICK z : z = Readmitted(x) OBVIOUS
  <2>2. Prepared(l, z) BY <1>1, <1>2, <2>1, ReadmittedPrepared
  <2>3. PICK known \in SUBSET authorizations : Authorize(l, z, known)
    BY <1>6, <2>1 DEF Forget
  <2>4. PICK y : /\ Becomes(l, y) /\ Fits(l, y) /\ y.pc # "loading"
                 /\ \A e \in authorizations' :
                      e \in known \/ NewAuthorization(l, y, e)
    BY <1>1, <1>2, <2>2, <2>3, AuthorizeFits
  <2> QED BY <1>2, <1>4, <1>6, <2>3, <2>4, MoveKeeps
<1>7. ASSUME state = "active", x.admission = EpochFor(x.object), Reads(l, x),
             UNCHANGED authorizations
      PROVE  RepositoryInv'
  <2>1. PICK y : /\ Becomes(l, y) /\ Fits(l, y)
                 /\ y.on = l => y.pc = "loading"
                 /\ \/ y.on # l /\ UNCHANGED inFlight
                    \/ inFlight' = inFlight \cup {l} /\ NewLoad(l, y)
    BY <1>1, <1>2, <1>7, ReadsFits
  <2> QED BY <1>2, <1>4, <1>7, <2>1, MoveKeeps
<1> QED BY <1>5, <1>6, <1>7 DEF Admits

LEMMA LoadResumesKeeps ==
  ASSUME RepositoryInv, NEW l \in Lookups, LoadResumes(l)
  PROVE  RepositoryInv'
<1> DEFINE x == look[l]
<1>1. TypeOK /\ LookupsSound /\ StampsAgree /\ AuthorizedReads
  BY DEF RepositoryInv
<1>2. /\ x.pc = "loading" /\ x.on = None /\ Active(x) /\ x.outcome # None
      /\ x \in Fields
  BY <1>1 DEF LoadResumes, Resumed, Waiting, Active, Busy, TypeOK
<1>3. Prepared(l, x) BY <1>1, <1>2, LookupPrepared
<1>4. UNCHANGED <<state, retirement, cache, inFlight, probes, globalEpoch,
                  objectEpochs, version, sweeps>>
  BY DEF LoadResumes
<1>5. CASE x.outcome = "ok"
  <2>1. Becomes(l, Returns(x, x.value)) /\ UNCHANGED authorizations
    BY <1>5 DEF LoadResumes
  <2>2. PICK y : y = Returns(x, x.value) OBVIOUS
  <2>3. /\ x.value \in Nat /\ x.since <= x.value
        /\ x.value <= version[x.object] /\ ReadsBy(x, x.permit)
    BY <1>1, <1>2, <1>5
       DEF LookupsSound, Fresh, AuthorizedReads, Reading, Fields
  <2>4. Fits(l, y) /\ y.on = None /\ y.pc = "ended"
    BY <1>1, <1>2, <2>2, <2>3, ReturnedFits
  <2> QED BY <1>2, <1>4, <2>1, <2>2, <2>4, MoveKeeps
<1>6. CASE x.outcome # "ok"
  <2>1. /\ Becomes(l, Throws(x, x.outcome))
        /\ authorizations' = Forget(authorizations, Key(x, x.admission))
    BY <1>6 DEF LoadResumes
  <2>2. PICK y : y = Throws(x, x.outcome) OBVIOUS
  <2>3. x.outcome \in Answers BY <1>2 DEF Fields
  <2>4. Fits(l, y) /\ y.on = None /\ y.pc = "thrown"
    BY <1>1, <1>3, <2>2, <2>3, ThrownFits
  <2>5. authorizations' \subseteq authorizations BY <2>1 DEF Forget
  <2> QED BY <1>2, <1>4, <2>1, <2>2, <2>4, <2>5, MoveKeeps
<1> QED BY <1>5, <1>6

\* A fallback is remembered only if no invalidation came after the lookup.
LEMMA RemembersNow ==
  ASSUME TypeOK, NEW l \in Lookups, Active(look[l]), Prepared(l, look[l]),
         Remembers(look[l]), NEW y, NEW e \in probes'
  PROVE  e \in probes \/ (state = "active" /\ NewProbe(l, y, e))
<1> DEFINE x == look[l]
           denial == [principal |-> x.principal, result |-> "denied",
                      promise |-> None, at |-> x.sweep]
<1>1. CASE UNCHANGED probes BY <1>1
<1>2. CASE MayRemember(x) /\ \E rest \in SUBSET probes : probes' = rest \cup {denial}
  <2>1. state = "active" /\ x.sweep = sweeps
    BY <1>2 DEF MayRemember, Prepared
  <2>2. denial \in ProbeEntries
    BY DEF Prepared, Fields, ProbeEntries
  <2>3. NewProbe(l, y, denial)
    BY <2>1, <2>2 DEF NewProbe, None
  <2> QED BY <1>2, <2>1, <2>3
<1>3. CASE ~UNCHANGED probes
  <2>1. MayRemember(x) BY <1>3 DEF Remembers
  <2>2. \E rest \in SUBSET probes : probes' = rest \cup {denial}
    BY <1>3 DEF Remembers
  <2> QED BY <1>2, <2>1, <2>2
<1> QED BY <1>1, <1>3

LEMMA UnwindsKeeps ==
  ASSUME RepositoryInv, NEW l \in Lookups, Unwinds(l)
  PROVE  RepositoryInv'
<1> DEFINE x == look[l]
           forgotten == Forget(authorizations, Key(x, x.epoch))
<1>1. /\ TypeOK /\ LookupsSound /\ StampsAgree /\ SharedWorkIsOwn
      /\ AuthorizationsCurrent
  BY DEF RepositoryInv
<1>2. /\ x.on = None /\ Active(x) /\ x \in Fields
  BY <1>1 DEF Unwinds, Resumed, LookupsSound, Waiting, Active, Busy, TypeOK
<1>3. Prepared(l, x) BY <1>1, <1>2, LookupPrepared
<1>4. UNCHANGED <<state, retirement, cache, inFlight, globalEpoch,
                  objectEpochs, version, sweeps>>
  BY DEF Unwinds
<1>5. forgotten \subseteq authorizations BY DEF Forget
<1>6. ASSUME Becomes(l, Fails(x)), authorizations' \subseteq authorizations,
             UNCHANGED probes
      PROVE  RepositoryInv'
  <2>1. PICK y : y = Fails(x) OBVIOUS
  <2>2. Fits(l, y) /\ y.on = None /\ y.pc = "ended"
    BY <1>1, <1>2, <2>1, FailedFits
  <2> QED BY <1>2, <1>4, <1>6, <2>1, <2>2, MoveKeeps
<1>7. ASSUME Remembers(x),
             Admission(l, [x EXCEPT !.strategy = "classic", !.fellBack = TRUE],
                       forgotten)
      PROVE  RepositoryInv'
  <2>1. PICK z : z = [x EXCEPT !.strategy = "classic", !.fellBack = TRUE]
    OBVIOUS
  <2>2. Prepared(l, z)
    BY <1>3, <2>1, StrategyPrepared DEF Strategies
  <2>3. PICK known \in SUBSET authorizations : Admission(l, z, known)
    BY <1>5, <1>7, <2>1
  <2>4. PICK y : /\ Becomes(l, y) /\ Fits(l, y) /\ y.pc # "loading"
                 /\ state # "active" => y.on = None
                 /\ \A e \in authorizations' :
                      e \in known \/ NewAuthorization(l, y, e)
    BY <1>1, <1>2, <2>2, <2>3, AdmissionFits
  <2>5. \A e \in authorizations' :
          \/ e \in authorizations
          \/ state = "active" /\ NewAuthorization(l, y, e)
    BY <2>3, <2>4, NoneIsNoLookup DEF NewAuthorization
  <2>6. \A e \in probes' :
          \/ e \in probes
          \/ state = "active" /\ NewProbe(l, y, e)
    BY <1>1, <1>2, <1>3, <1>7, RemembersNow
  <2> QED BY <1>2, <1>4, <2>4, <2>5, <2>6, MoveKeeps
<1> QED BY <1>5, <1>6, <1>7 DEF Unwinds

LEMMA AbortKeeps ==
  ASSUME RepositoryInv, NEW l \in Lookups, Abort(l)
  PROVE  RepositoryInv'
<1> DEFINE x == look[l]
<1>1. TypeOK /\ CacheCurrent /\ RetiredHoldsNothing BY DEF RepositoryInv
<1>2. x \in Fields /\ Active(x) /\ Becomes(l, [x EXCEPT !.answer = "canceled"])
  BY <1>1 DEF Abort, TypeOK, Active
<1>3. UNCHANGED <<state, retirement, cache, inFlight, authorizations, probes,
                  globalEpoch, objectEpochs, version, sweeps>>
  BY DEF Abort
<1>4. PICK y : y = [x EXCEPT !.answer = "canceled"] OBVIOUS
<1>5. y \in Fields BY <1>2, <1>4, UpdateType
<1>6. /\ Alike(x, y) /\ y.pc = x.pc /\ y.on = x.on /\ y.permit = x.permit
      /\ y.outcome = x.outcome /\ y.value = x.value
  BY <1>2, <1>4 DEF Fields, Alike
<1>7. cache' \subseteq CacheEntries /\ CacheCurrent'
      /\ (state = "retired" => cache' = {})
  BY <1>1, <1>3 DEF TypeOK, CacheCurrent, RetiredHoldsNothing
<1>8. ASSUME NEW e \in authorizations PROVE e.promise = l => y.outcome = None
  BY <1>6, NoneIsNoLookup DEF RepositoryInv, AuthorizationsCurrent, Running
<1>9. ASSUME NEW e \in probes PROVE e.promise = l => y.outcome = None
  BY <1>6, NoneIsNoLookup DEF RepositoryInv, ProbesCurrent, Running
<1>10. \A e \in authorizations' :
         \/ e \in authorizations /\ (e.promise = l => y.outcome = None)
         \/ state = "active" /\ SettledNow(e)
  BY <1>3, <1>8
<1>11. \A e \in probes' :
         \/ e \in probes /\ (e.promise = l => y.outcome = None)
         \/ state = "active" /\ ProbedNow(e)
  BY <1>3, <1>9
<1>12. Becomes(l, y) BY <1>2, <1>4
<1> QED BY <1>2, <1>3, <1>5, <1>6, <1>7, <1>10, <1>11, <1>12, AmendKeeps

(***************************************************************************)
(* The answers of the adapter                                              *)
(***************************************************************************)
LEMMA OutcomeFields ==
  ASSUME NEW x \in Fields, NEW r \in Answers, NEW y, y = [x EXCEPT !.outcome = r]
  PROVE  /\ y \in Fields /\ Alike(x, y) /\ y.pc = x.pc /\ y.on = x.on
         /\ y.permit = x.permit /\ y.outcome = r /\ y.value = x.value
         /\ y.answer = x.answer
<1>1. y \in Fields BY UpdateType
<1> QED BY <1>1 DEF Fields, Alike

LEMMA ProbeAnswersKeeps ==
  ASSUME RepositoryInv, NEW l \in Lookups, NEW r \in Answers, ProbeAnswers(l, r)
  PROVE  RepositoryInv'
<1> DEFINE x == look[l]
           mine == {e \in probes : e.promise = l}
<1>1. /\ TypeOK /\ CacheCurrent /\ RetiredHoldsNothing /\ ProbesCurrent
      /\ AuthorizationsCurrent
  BY DEF RepositoryInv
<1>2. /\ x \in Fields /\ Active(x) /\ x.on = l /\ x.pc = "probing"
  BY <1>1 DEF ProbeAnswers, Running, Calls, TypeOK, Active, Busy, Waiting
<1>3. UNCHANGED <<state, retirement, cache, inFlight, authorizations,
                  globalEpoch, objectEpochs, version, sweeps>>
  BY DEF ProbeAnswers
<1>4. PICK y : y = [x EXCEPT !.outcome = r] OBVIOUS
<1>5. /\ y \in Fields /\ Alike(x, y) /\ y.pc = x.pc /\ y.on = x.on
      /\ y.permit = x.permit /\ y.outcome = r /\ y.value = x.value
  BY <1>2, <1>4, OutcomeFields
<1>6. Becomes(l, y) BY <1>4 DEF ProbeAnswers
<1>7. cache' \subseteq CacheEntries /\ CacheCurrent'
      /\ (state = "retired" => cache' = {})
  BY <1>1, <1>3 DEF TypeOK, CacheCurrent, RetiredHoldsNothing
<1>8. ASSUME NEW e \in authorizations PROVE e.promise # l
  BY <1>1, <1>2, NoneIsNoLookup DEF AuthorizationsCurrent, Running, Calls
<1>9. ASSUME NEW e \in probes'
      PROVE  \/ e \in probes /\ e.promise # l
             \/ state = "active" /\ ProbedNow(e)
  <2>1. CASE e \in probes \ mine BY <2>1
  <2>2. CASE e \notin probes \ mine
    <3>1. PICK d \in mine : e = [d EXCEPT !.promise = None, !.result = r] /\ r # "other"
      BY <2>2 DEF ProbeAnswers
    <3>2. d \in ProbeEntries /\ d.at = sweeps
      BY <1>1, <3>1 DEF TypeOK, ProbesCurrent
    <3>3. r \in {"ok", "denied"} BY <3>1 DEF Answers
    <3>4. ProbedNow(e)
      BY <3>1, <3>2, <3>3 DEF ProbedNow, ProbeEntries, None
    <3>5. state = "active"
      BY <1>1, <3>1 DEF TypeOK, RetiredHoldsNothing
    <3> QED BY <3>4, <3>5
  <2> QED BY <2>1, <2>2
<1> QED BY <1>2, <1>3, <1>5, <1>6, <1>7, <1>8, <1>9, AmendKeeps

LEMMA AuthorizeAnswersKeeps ==
  ASSUME RepositoryInv, NEW l \in Lookups, NEW r \in Answers,
         AuthorizeAnswers(l, r)
  PROVE  RepositoryInv'
<1> DEFINE x == look[l]
           mine == {e \in authorizations : e.promise = l}
           valid == /\ r = "ok" /\ state = "active"
                    /\ x.admission = EpochFor(x.object)
<1>1. /\ TypeOK /\ CacheCurrent /\ RetiredHoldsNothing /\ ProbesCurrent
      /\ AuthorizationsCurrent /\ LookupsSound /\ SharedWorkIsOwn
  BY DEF RepositoryInv
<1>2. /\ x \in Fields /\ Active(x) /\ x.on = l /\ x.pc = "authorizing"
  BY <1>1 DEF AuthorizeAnswers, Running, Calls, TypeOK, Active, Busy, Waiting
<1>3. UNCHANGED <<state, retirement, cache, inFlight, probes, globalEpoch,
                  objectEpochs, version, sweeps>>
  BY DEF AuthorizeAnswers
<1>4. PICK y : y = [x EXCEPT !.outcome = r] OBVIOUS
<1>5. /\ y \in Fields /\ Alike(x, y) /\ y.pc = x.pc /\ y.on = x.on
      /\ y.permit = x.permit /\ y.outcome = r /\ y.value = x.value
  BY <1>2, <1>4, OutcomeFields
<1>6. Becomes(l, y) BY <1>4 DEF AuthorizeAnswers
<1>7. cache' \subseteq CacheEntries /\ CacheCurrent'
      /\ (state = "retired" => cache' = {})
  BY <1>1, <1>3 DEF TypeOK, CacheCurrent, RetiredHoldsNothing
<1>8. ASSUME NEW e \in probes PROVE e.promise # l
  BY <1>1, <1>2, NoneIsNoLookup DEF ProbesCurrent, Running, Calls
<1>9. ASSUME NEW e \in authorizations'
      PROVE  \/ e \in authorizations /\ e.promise # l
             \/ state = "active" /\ SettledNow(e)
  <2>1. CASE e \in authorizations \ mine BY <2>1
  <2>2. CASE e \notin authorizations \ mine
    <3>1. PICK d \in mine : e = [d EXCEPT !.promise = None] /\ valid
      BY <2>2 DEF AuthorizeAnswers
    <3>2. d \in AuthorizationEntries BY <1>1 DEF TypeOK
    <3>3. d.key = Key(x, x.admission) /\ d.permit = x.permit
      BY <1>1, NoneIsNoLookup DEF AuthorizationsCurrent
    <3>4. e \in AuthorizationEntries /\ e.promise = None
          /\ e.key = Key(x, x.admission) /\ e.permit = x.permit
      BY <3>1, <3>2, <3>3 DEF AuthorizationEntries
    <3>5. /\ e.key.epoch = EpochFor(e.key.object)
          /\ e.key.principal = x.principal /\ e.key.strategy = x.strategy
          /\ e.key.object = x.object
      BY <3>1, <3>4 DEF Key
    <3>6. Linked(x, x) BY <1>1, <1>2, NoneIsNoLookup DEF SharedWorkIsOwn
    <3>7. x.permit = [principal |-> x.principal, strategy |-> x.strategy,
                      object |-> x.object, at |-> x.permit.at]
      BY <1>2, <3>6 DEF Linked, ReadsBy
    <3>8. x.permit.at = version[x.object]
      BY <1>1, <1>2, <3>1 DEF LookupsSound, Stamped, Dated
    <3>9. e.permit = [principal |-> e.key.principal, strategy |-> e.key.strategy,
                      object |-> e.key.object, at |-> version[e.key.object]]
      BY <3>4, <3>5, <3>7, <3>8
    <3> QED BY <3>1, <3>4, <3>5, <3>9 DEF SettledNow
  <2> QED BY <2>1, <2>2
<1> QED BY <1>2, <1>3, <1>5, <1>6, <1>7, <1>8, <1>9, AmendKeeps

\* What is cached was loaded in the current epoch, so it is the current version.
LEMMA LoadAnswersKeeps ==
  ASSUME RepositoryInv, NEW l \in Lookups, NEW r \in Answers, NEW b \in Sizes,
         LoadAnswers(l, r, b)
  PROVE  RepositoryInv'
<1> DEFINE z == look[l]
<1>1. /\ TypeOK /\ CacheCurrent /\ RetiredHoldsNothing /\ ProbesCurrent
      /\ AuthorizationsCurrent /\ LookupsSound
  BY DEF RepositoryInv
<1>2. /\ z \in Fields /\ Active(z) /\ z.on = l /\ z.pc = "loading"
  BY <1>1 DEF LoadAnswers, Running, Calls, TypeOK, Active, Busy, Waiting
<1>3. UNCHANGED <<state, retirement, inFlight, probes, globalEpoch,
                  objectEpochs, version, sweeps>>
  BY DEF LoadAnswers
<1>4. PICK x : x = [z EXCEPT !.outcome = r] OBVIOUS
<1>5. /\ x \in Fields /\ Alike(z, x) /\ x.pc = z.pc /\ x.on = z.on
      /\ x.permit = z.permit /\ x.outcome = r /\ x.value = z.value
      /\ x.object = z.object /\ x.admission = z.admission
  BY <1>2, <1>4, OutcomeFields DEF Alike
<1>6. ASSUME NEW e \in authorizations PROVE e.promise # l
  BY <1>1, <1>2, NoneIsNoLookup DEF AuthorizationsCurrent, Running, Calls
<1>7. ASSUME NEW e \in probes PROVE e.promise # l
  BY <1>1, <1>2, NoneIsNoLookup DEF ProbesCurrent, Running, Calls
<1>8. ASSUME Becomes(l, x), authorizations' \subseteq authorizations,
             cache' \subseteq CacheEntries, CacheCurrent',
             state = "retired" => cache' = {}
      PROVE  RepositoryInv'
  BY <1>2, <1>3, <1>5, <1>6, <1>7, <1>8, AmendKeeps
<1>9. ASSUME UNCHANGED cache
      PROVE  /\ cache' \subseteq CacheEntries /\ CacheCurrent'
             /\ state = "retired" => cache' = {}
  BY <1>1, <1>3, <1>9 DEF TypeOK, CacheCurrent, RetiredHoldsNothing
<1>10. ASSUME NEW e \in cache, e.object = x.object,
              Becomes(l, [x EXCEPT !.value = e.seen]),
              UNCHANGED <<cache, authorizations>>
       PROVE  RepositoryInv'
  <2>1. e.seen = version[x.object] /\ e.seen \in Nat
    BY <1>1, <1>10 DEF CacheCurrent, TypeOK, CacheEntries
  <2>2. PICK y : y = [x EXCEPT !.value = e.seen] OBVIOUS
  <2>3. y \in Fields BY <1>5, <2>1, <2>2, UpdateType
  <2>4. /\ Alike(x, y) /\ y.pc = x.pc /\ y.on = x.on /\ y.permit = x.permit
        /\ y.value = e.seen /\ y.object = x.object
    BY <1>5, <2>2, <2>3 DEF Fields, Alike
  <2>5. Alike(z, y) BY <1>5, <2>4 DEF Alike
  <2>6. Becomes(l, y) BY <1>10, <2>2
  <2>7. y.on = l /\ y.value = version[y.object] BY <1>2, <1>5, <2>1, <2>4
  <2> QED BY <1>2, <1>3, <1>5, <1>6, <1>7, <1>9, <1>10, <2>3, <2>4, <2>5,
             <2>6, <2>7, AmendKeeps
<1>11. ASSUME NEW victims \in SUBSET cache,
              {e \in cache : e.object = x.object} = {},
              r = "ok", state = "active", z.admission = EpochFor(z.object),
              cache' = (cache \ victims) \cup
                {[object |-> x.object, seen |-> x.value, bytes |-> b]}
       PROVE  cache' \subseteq CacheEntries /\ CacheCurrent'
  <2> DEFINE new == [object |-> x.object, seen |-> x.value, bytes |-> b]
  <2>1. new \in CacheEntries BY <1>5 DEF Fields, CacheEntries
  <2>2. x.value = version[x.object]
    BY <1>1, <1>2, <1>5, <1>11 DEF LookupsSound, Stamped, Dated
  <2>3. new.object = x.object /\ new.seen = version[x.object]
    BY <2>2
  <2> HIDE DEF new
  <2>4. cache' \subseteq CacheEntries BY <1>1, <1>11, <2>1 DEF TypeOK, new
  <2>5. \A e \in cache' : (e \in cache /\ e.object # x.object) \/ e = new
    BY <1>11 DEF new
  <2>6. CacheCurrent' BY <1>1, <1>3, <2>3, <2>5 DEF CacheCurrent
  <2> QED BY <2>4, <2>6
<1>12. ASSUME CacheSnapshot(l, x, b), r = "ok", state = "active",
              z.admission = EpochFor(z.object)
       PROVE  RepositoryInv'
  <2>1. CASE \E e \in cache : /\ e.object = x.object
                              /\ Becomes(l, [x EXCEPT !.value = e.seen])
                              /\ UNCHANGED <<cache, authorizations>>
    BY <1>10, <2>1
  <2>2. CASE /\ Becomes(l, x) /\ UNCHANGED cache
             /\ authorizations' = ForgetObjects(authorizations, {x.object})
    BY <1>8, <1>9, <2>2 DEF ForgetObjects
  <2>3. ASSUME NEW victims \in SUBSET cache,
               {e \in cache : e.object = x.object} = {},
               Becomes(l, x),
               cache' = (cache \ victims) \cup
                 {[object |-> x.object, seen |-> x.value, bytes |-> b]},
               authorizations' =
                 ForgetObjects(authorizations, {e.object : e \in victims})
        PROVE  RepositoryInv'
    <3>1. cache' \subseteq CacheEntries /\ CacheCurrent'
      BY <1>11, <1>12, <2>3
    <3>2. authorizations' \subseteq authorizations BY <2>3 DEF ForgetObjects
    <3> QED BY <1>8, <1>12, <2>3, <3>1, <3>2
  <2> QED BY <1>12, <2>1, <2>2, <2>3 DEF CacheSnapshot
<1>13. CASE /\ Becomes(l, x)
            /\ UNCHANGED <<cache, retainedBytes, authorizations>>
  BY <1>8, <1>9, <1>13
<1> QED BY <1>4, <1>12, <1>13 DEF LoadAnswers

\* The end of a call gives its result to whoever awaited it.
Result(x, r, v, q) ==
  [x EXCEPT !.on = None, !.outcome = r, !.value = v, !.permit = q]

LEMMA ResultFields ==
  ASSUME NEW x \in Fields, NEW r \in Answers, NEW v \in Nat, NEW q \in Permits,
         NEW y, y = Result(x, r, v, q)
  PROVE  /\ y \in Fields /\ Alike(x, y) /\ y.pc = x.pc /\ y.on = None
         /\ y.outcome = r /\ y.value = v /\ y.permit = q
         /\ y.answer = x.answer
<1>1. PICK y1 : y1 = [x EXCEPT !.on = None] OBVIOUS
<1>2. y1 \in Fields BY <1>1 DEF Fields
<1>3. PICK y2 : y2 = [y1 EXCEPT !.outcome = r] OBVIOUS
<1>4. y2 \in Fields BY <1>2, <1>3 DEF Fields
<1>5. PICK y3 : y3 = [y2 EXCEPT !.value = v] OBVIOUS
<1>6. y3 \in Fields BY <1>4, <1>5 DEF Fields
<1>7. y = [y3 EXCEPT !.permit = q] BY <1>1, <1>3, <1>5 DEF Result
<1>8. y \in Fields BY <1>6, <1>7 DEF Fields
<1> QED BY <1>8 DEF Fields, Alike, Result

LEMMA CallEndsKeeps ==
  ASSUME RepositoryInv, NEW l \in Lookups, CallEnds(l)
  PROVE  RepositoryInv'
<1> DEFINE c == look[l]
<1>1. /\ TypeOK /\ CacheCurrent /\ RetiredHoldsNothing /\ ProbesCurrent
      /\ AuthorizationsCurrent /\ LookupsSound /\ StampsAgree /\ SharedWorkIsOwn
      /\ JoinableLoads /\ AuthorizedReads
  BY DEF RepositoryInv
<1>2. /\ c \in Fields /\ c.on = l /\ c.outcome # None
      /\ c.outcome \in Answers /\ c.value \in Nat /\ c.permit \in Permits
  BY <1>1 DEF CallEnds, TypeOK, Fields
<1>3. c.pc \in Waiting BY <1>1, <1>2, NoneIsNoLookup DEF LookupsSound
<1>4. /\ inFlight' = inFlight \ {l}
      /\ UNCHANGED <<state, retirement, cache, authorizations, probes,
                     globalEpoch, objectEpochs, version, sweeps>>
  BY DEF CallEnds
<1>5. \A o : EpochFor(o)' = EpochFor(o) BY <1>4 DEF EpochFor
<1>6. ASSUME NEW w \in Lookups, look[w].on # l
      PROVE  look'[w] = look[w]
  BY <1>6 DEF CallEnds
<1>7. ASSUME NEW w \in Lookups, look[w].on = l
      PROVE  /\ look'[w] \in Fields /\ Alike(look[w], look'[w])
             /\ look'[w].pc = look[w].pc /\ look'[w].on = None
             /\ look'[w].outcome = c.outcome
             /\ look'[w].value = IF look[w].pc = "loading" THEN c.value
                                 ELSE look[w].value
             /\ look'[w].permit = IF look[w].pc = "authorizing" THEN c.permit
                                  ELSE look[w].permit
  <2>1. PICK x : x = look[w] OBVIOUS
  <2>2. x \in Fields BY <1>1, <2>1 DEF TypeOK
  <2>3. PICK v : v = IF x.pc = "loading" THEN c.value ELSE x.value OBVIOUS
  <2>4. PICK q : q = IF x.pc = "authorizing" THEN c.permit ELSE x.permit OBVIOUS
  <2>5. v \in Nat /\ q \in Permits BY <1>2, <2>2, <2>3, <2>4 DEF Fields
  <2>6. look'[w] = Result(x, c.outcome, v, q)
    BY <1>7, <2>1, <2>2, <2>3, <2>4 DEF CallEnds, Fields, Result
  <2>7. PICK y : y = look'[w] OBVIOUS
  <2>8. /\ y \in Fields /\ Alike(x, y) /\ y.pc = x.pc /\ y.on = None
        /\ y.outcome = c.outcome /\ y.value = v /\ y.permit = q
    BY <1>2, <2>2, <2>5, <2>6, <2>7, ResultFields
  <2> QED BY <2>1, <2>3, <2>4, <2>7, <2>8
<1>8. ASSUME NEW w \in Lookups, look[w].on = l
      PROVE  /\ Linked(look[w], c) /\ look[w].pc \in Waiting /\ Active(look[w])
             /\ Stamped(w, look[w]) /\ look[w] \in Fields
  BY <1>1, <1>8, NoneIsNoLookup
     DEF SharedWorkIsOwn, LookupsSound, Active, Busy, TypeOK
<1>9. look' \in [Lookups -> Fields]
  <2>1. \A w \in Lookups : look'[w] \in Fields BY <1>1, <1>6, <1>7 DEF TypeOK
  <2> QED BY <2>1 DEF CallEnds
<1>10. TypeOK' BY <1>1, <1>4, <1>9 DEF TypeOK
<1>11. LookupsSound'
  <2> SUFFICES ASSUME NEW w \in Lookups
               PROVE  /\ Active(look'[w]) => Stamped(w, look[w])'
                      /\ look'[w].on # None => look'[w].pc \in Waiting
                      /\ Fresh(look[w])'
    BY DEF LookupsSound, Active
  <2>1. CASE look[w].on # l
    <3>1. look'[w] = look[w] BY <1>6, <2>1
    <3>2. Active(look[w]) => Stamped(w, look[w])'
      BY <1>1, <1>4, <1>5, <3>1 DEF LookupsSound, Stamped, Dated
    <3>3. Fresh(look[w])' BY <1>1, <1>4, <3>1 DEF LookupsSound, Fresh
    <3> QED BY <1>1, <3>1, <3>2, <3>3 DEF LookupsSound
  <2>2. CASE look[w].on = l
    <3>1. PICK y : y = look'[w] OBVIOUS
    <3>2. /\ y \in Fields /\ Alike(look[w], y) /\ y.pc = look[w].pc
          /\ y.on = None /\ y.pc # "ended"
          /\ y.pc = "loading" => y.value = c.value
      BY <1>7, <1>8, <2>2, <3>1 DEF Waiting
    <3>3. /\ y.since <= y.asOf
          /\ Dated(y.object, y.epoch, y.since)
          /\ Dated(y.object, y.admission, y.asOf)
          /\ y.epoch = EpochFor(y.object) => y.sweep = sweeps
      BY <1>8, <2>2, <3>2 DEF Stamped, Alike
    <3>4. Stamped(w, look[w])'
      BY <1>4, <1>5, <3>1, <3>2, <3>3, NoneIsNoLookup DEF Stamped, Dated
    <3>5. ASSUME y.pc = "loading"
          PROVE  y.since <= y.value /\ y.value <= version[y.object]
      <4>1. look[w].pc = "loading" /\ c.pc = "loading" /\ look[w].since <= c.value
            /\ look[w].object = c.object
        BY <1>8, <2>2, <3>2, <3>5 DEF Linked, Key
      <4>2. c.value <= version[c.object]
        BY <1>1, <1>2, <4>1 DEF LookupsSound, Stamped, Dated, Active, Busy, Waiting
      <4> QED BY <3>2, <3>5, <4>1, <4>2 DEF Alike
    <3>6. Fresh(look[w])' BY <1>4, <3>1, <3>2, <3>5 DEF Fresh
    <3> QED BY <3>1, <3>2, <3>4, <3>6
  <2> QED BY <2>1, <2>2
<1>12. \A w \in Lookups : /\ Active(look'[w]) <=> Active(look[w])
                          /\ Stamps(look'[w]) = Stamps(look[w])
                          /\ look'[w].object = look[w].object
  BY <1>6, <1>7 DEF Active, Stamps, Alike
<1>13. StampsAgree' BY <1>1, <1>12 DEF StampsAgree, Agree
<1>14. SharedWorkIsOwn'
  <2> SUFFICES ASSUME NEW w \in Lookups, look'[w].on # None
               PROVE  Linked(look'[w], look'[look'[w].on])
    BY DEF SharedWorkIsOwn
  <2>1. look[w].on # l BY <1>7
  <2>2. look'[w] = look[w] BY <1>6, <2>1
  <2>3. PICK s \in Lookups : s = look[w].on
    BY <1>1, <2>2 DEF TypeOK, Fields
  <2>4. Linked(look[w], look[s]) BY <1>1, <2>2, <2>3 DEF SharedWorkIsOwn
  <2>5. look[s].on = s BY <2>3, <2>4 DEF Linked
  <2>6. look'[s] = look[s] BY <1>6, <2>1, <2>3, <2>5
  <2> QED BY <2>2, <2>3, <2>4, <2>6
<1>15. AuthorizedReads'
  <2> SUFFICES ASSUME NEW w \in Lookups, Reading(look'[w])
               PROVE  ReadsBy(look'[w], look'[w].permit)
    BY DEF AuthorizedReads
  <2>1. CASE look[w].on # l
    BY <1>1, <1>6, <2>1 DEF AuthorizedReads
  <2>2. CASE look[w].on = l
    <3>1. PICK y : y = look'[w] OBVIOUS
    <3>2. /\ Alike(look[w], y) /\ y.pc = look[w].pc /\ y.pc \in Waiting
          /\ y.permit = IF look[w].pc = "authorizing" THEN c.permit
                        ELSE look[w].permit
      BY <1>7, <1>8, <2>2, <3>1
    <3>3. CASE y.pc = "authorizing"
      <4>1. ReadsBy(look[w], c.permit) BY <1>8, <2>2, <3>2, <3>3 DEF Linked
      <4> QED BY <3>1, <3>2, <3>3, <4>1 DEF ReadsBy, Alike
    <3>4. CASE y.pc = "loading"
      <4>1. ReadsBy(look[w], look[w].permit)
        BY <1>1, <3>2, <3>4 DEF AuthorizedReads, Reading
      <4> QED BY <3>1, <3>2, <3>4, <4>1 DEF ReadsBy, Alike
    <3>5. y.pc = "authorizing" \/ y.pc = "loading"
      BY <3>1, <3>2 DEF Reading, Waiting
    <3> QED BY <3>3, <3>4, <3>5
  <2> QED BY <2>1, <2>2
<1>16. CacheCurrent' BY <1>1, <1>4 DEF CacheCurrent
<1>17. AuthorizationsCurrent'
  <2> SUFFICES ASSUME NEW e \in authorizations, e.promise # None
               PROVE  look'[e.promise] = look[e.promise]
    BY <1>1, <1>4, <1>5 DEF AuthorizationsCurrent, Running, Calls
  <2>1. /\ e.promise \in Lookups /\ look[e.promise].on = e.promise
        /\ look[e.promise].outcome = None
    BY <1>1 DEF AuthorizationsCurrent, Running, Calls
  <2> QED BY <1>2, <1>6, <2>1
<1>18. ProbesCurrent'
  <2> SUFFICES ASSUME NEW e \in probes, e.promise # None
               PROVE  look'[e.promise] = look[e.promise]
    BY <1>1, <1>4 DEF ProbesCurrent, Running, Calls
  <2>1. /\ e.promise \in Lookups /\ look[e.promise].on = e.promise
        /\ look[e.promise].outcome = None
    BY <1>1 DEF ProbesCurrent, Running, Calls
  <2> QED BY <1>2, <1>6, <2>1
<1>19. JoinableLoads'
  <2>1. ASSUME NEW w \in Lookups
        PROVE  w \in Calls("loading")' <=> w \in Calls("loading") /\ w # l
    <3>1. CASE look[w].on = l
      BY <1>7, <3>1, NoneIsNoLookup DEF Calls
    <3>2. CASE look[w].on # l BY <1>2, <1>6, <3>2 DEF Calls
    <3> QED BY <3>1, <3>2
  <2>2. \A w \in Calls("loading") : w # l => w \in Lookups /\ look'[w] = look[w]
    BY <1>6 DEF Calls
  <2>3. Calls("loading")' = Calls("loading") \ {l} BY <2>1 DEF Calls
  <2>4. inFlight' = {w \in Calls("loading") \ {l} :
                       look'[w].admission = EpochFor(look'[w].object)}
    BY <1>1, <1>4, <2>2 DEF JoinableLoads
  <2>5. \A v, w \in Calls("loading") \ {l} :
          Key(look'[v], look'[v].admission) = Key(look'[w], look'[w].admission)
            => v = w
    BY <1>1, <2>2 DEF JoinableLoads
  <2> QED BY <1>4, <2>3, <2>4, <2>5 DEF JoinableLoads, EpochFor
<1>20. RetiredHoldsNothing'
  <2>1. \A w \in Lookups : look[w].on = None => look'[w].on = None
    BY <1>6, <1>7
  <2> QED BY <1>1, <1>4, <2>1 DEF RetiredHoldsNothing
<1> QED BY <1>10, <1>11, <1>13, <1>14, <1>15, <1>16, <1>17, <1>18, <1>19, <1>20
        DEF RepositoryInv

(***************************************************************************)
(* Invalidation and retirement                                             *)
(***************************************************************************)
\* Every epoch of o that has been given out is over, or is still the current one.
Outdated(o) ==
  \/ globalEpoch < globalEpoch'
  \/ globalEpoch = globalEpoch' /\ objectEpochs[o] < objectEpochs'[o]
Untouched(o) ==
  /\ UNCHANGED <<globalEpoch, sweeps>>
  /\ objectEpochs'[o] = objectEpochs[o] /\ version'[o] = version[o]

LEMMA DatedStep ==
  ASSUME TypeOK, NEW o \in Objects, NEW e \in Epochs, NEW v \in Nat,
         globalEpoch' \in Nat, objectEpochs' \in [Objects -> Nat],
         version' \in [Objects -> Nat], version[o] <= version'[o],
         Outdated(o) \/ Untouched(o), Dated(o, e, v)
  PROVE  /\ Dated(o, e, v)'
         /\ Outdated(o) => e # EpochFor(o)'
<1>1. /\ e.global \in Nat /\ e.object \in Nat /\ globalEpoch \in Nat
      /\ objectEpochs[o] \in Nat /\ version[o] \in Nat
      /\ objectEpochs'[o] \in Nat /\ version'[o] \in Nat
  BY DEF TypeOK, Epochs
<1>2. v <= version'[o] BY <1>1 DEF Dated
<1>3. CASE Outdated(o)
  <2>1. /\ e.global <= globalEpoch'
        /\ e.global = globalEpoch' => e.object < objectEpochs'[o]
    BY <1>1, <1>3 DEF Outdated, Dated
  <2>2. e # [global |-> globalEpoch', object |-> objectEpochs'[o]]
    BY <1>1, <2>1
  <2> QED BY <1>1, <1>2, <2>1, <2>2 DEF Dated, EpochFor
<1>4. CASE Untouched(o)
  <2>1. ~Outdated(o) BY <1>1, <1>4 DEF Outdated, Untouched
  <2> QED BY <1>2, <1>4, <2>1 DEF Untouched, Dated, EpochFor
<1> QED BY <1>3, <1>4

\* Lookups in progress stand an invalidation: what they bear is merely old.
LEMMA TimeStep ==
  ASSUME TypeOK, LookupsSound, StampsAgree, SharedWorkIsOwn, AuthorizedReads,
         JoinableLoads, UNCHANGED look,
         globalEpoch' \in Nat, objectEpochs' \in [Objects -> Nat],
         version' \in [Objects -> Nat],
         \A o \in Objects : version[o] <= version'[o],
         \A o \in Objects : Outdated(o) \/ Untouched(o),
         inFlight' = {l \in inFlight : Untouched(look[l].object)}
  PROVE  /\ LookupsSound' /\ StampsAgree' /\ SharedWorkIsOwn' /\ AuthorizedReads'
         /\ JoinableLoads'
<1>1. ASSUME NEW l \in Lookups, Active(look[l])
      PROVE  Stamped(l, look[l])'
  <2>1. PICK x : x = look[l] OBVIOUS
  <2>2. /\ x \in Fields /\ Stamped(l, x) /\ x.object \in Objects
        /\ x.epoch \in Epochs /\ x.admission \in Epochs /\ x.since \in Nat
        /\ x.asOf \in Nat /\ x.value \in Nat /\ x.permit.at \in Nat
    BY <1>1, <2>1 DEF LookupsSound, TypeOK, Fields, Permits
  <2>3. \A e \in Epochs, v \in Nat :
          Dated(x.object, e, v) => /\ Dated(x.object, e, v)'
                                   /\ Outdated(x.object) => e # EpochFor(x.object)'
    BY <2>2, DatedStep
  <2>4. /\ Dated(x.object, x.epoch, x.since)'
        /\ Dated(x.object, x.admission, x.asOf)'
    BY <2>2, <2>3 DEF Stamped
  <2>5. x.epoch = EpochFor(x.object)' => x.sweep = sweeps'
    <3>1. CASE Outdated(x.object) BY <2>2, <2>3, <3>1 DEF Stamped
    <3>2. CASE Untouched(x.object)
      BY <2>2, <3>2 DEF Stamped, Untouched, EpochFor
    <3> QED BY <2>2, <3>1, <3>2
  <2>6. /\ x.on = l /\ x.pc = "authorizing" =>
             x.asOf <= x.permit.at /\ Dated(x.object, x.admission, x.permit.at)'
        /\ x.on = l /\ x.pc = "loading" =>
             x.asOf <= x.value /\ Dated(x.object, x.admission, x.value)'
    BY <2>2, <2>3 DEF Stamped
  <2>7. x.since <= x.asOf BY <2>2 DEF Stamped
  <2>8. look'[l] = x BY <2>1
  <2> QED BY <2>4, <2>5, <2>6, <2>7, <2>8 DEF Stamped
<1>2. ASSUME NEW l \in Lookups PROVE Fresh(look[l])'
  <2>1. PICK x : x = look[l] OBVIOUS
  <2>2. /\ x \in Fields /\ Fresh(x) /\ x.value \in Nat
        /\ version[x.object] \in Nat /\ version'[x.object] \in Nat
        /\ version[x.object] <= version'[x.object]
    BY <2>1 DEF LookupsSound, TypeOK, Fields
  <2> QED BY <2>1, <2>2 DEF Fresh
<1>3. LookupsSound' BY <1>1, <1>2 DEF LookupsSound, Active
<1>4. StampsAgree' BY DEF StampsAgree
<1>5. SharedWorkIsOwn' BY DEF SharedWorkIsOwn
<1>6. AuthorizedReads' BY DEF AuthorizedReads
<1>7. ASSUME NEW l \in Calls("loading")
      PROVE  look[l].admission = EpochFor(look[l].object)' <=>
               /\ look[l].admission = EpochFor(look[l].object)
               /\ Untouched(look[l].object)
  <2>1. PICK x : x = look[l] OBVIOUS
  <2>2. /\ l \in Lookups /\ Active(x)
    BY <2>1 DEF Calls, Active, Busy, Waiting
  <2>3. /\ x \in Fields /\ Stamped(l, x) /\ x.object \in Objects
        /\ x.admission \in Epochs /\ x.asOf \in Nat
    BY <2>1, <2>2 DEF LookupsSound, TypeOK, Fields
  <2>4. Outdated(x.object) => x.admission # EpochFor(x.object)'
    BY <2>3, DatedStep DEF Stamped
  <2>5. CASE Outdated(x.object)
    <3>1. ~Untouched(x.object)
      BY <2>3, <2>5 DEF Outdated, Untouched, TypeOK
    <3> QED BY <2>1, <2>4, <2>5, <3>1
  <2>6. CASE Untouched(x.object)
    BY <2>1, <2>6 DEF Untouched, EpochFor
  <2> QED BY <2>3, <2>5, <2>6
<1>8. JoinableLoads'
  <2>1. Calls("loading")' = Calls("loading") BY DEF Calls
  <2>2. inFlight' = {l \in Calls("loading") :
                       look[l].admission = EpochFor(look[l].object)'}
    BY <1>7 DEF JoinableLoads, Calls
  <2> QED BY <2>1, <2>2 DEF JoinableLoads, EpochFor, Calls
<1> QED BY <1>3, <1>4, <1>5, <1>6, <1>8

\* An emptied repository in a new global epoch
LEMMA ClearsKeeps ==
  ASSUME RepositoryInv, Clears, UNCHANGED look,
         state' \in {"active", "retired"},
         retirement' \in {None, "draining", "resolved"},
         retirement' # None => state' = "retired",
         retirement' = "resolved" => \A l \in Lookups : look[l].on = None,
         version' \in [Objects -> Nat],
         \A o \in Objects : version[o] <= version'[o], sweeps' \in Nat
  PROVE  RepositoryInv'
<1>1. /\ TypeOK /\ LookupsSound /\ StampsAgree /\ SharedWorkIsOwn
      /\ AuthorizedReads /\ JoinableLoads /\ RetiredHoldsNothing
  BY DEF RepositoryInv
<1>2. /\ cache' = {} /\ inFlight' = {} /\ authorizations' = {} /\ probes' = {}
      /\ globalEpoch' = globalEpoch + 1 /\ globalEpoch \in Nat
      /\ objectEpochs' \in [Objects -> Nat]
  BY <1>1 DEF Clears, TypeOK
<1>3. globalEpoch' \in Nat /\ globalEpoch < globalEpoch' BY <1>2
<1>4. \A o \in Objects : Outdated(o) BY <1>3 DEF Outdated
<1>5. \A o : ~Untouched(o) BY <1>2 DEF Untouched
<1>6. inFlight' = {l \in inFlight : Untouched(look[l].object)}
  BY <1>2, <1>5
<1>7. /\ LookupsSound' /\ StampsAgree' /\ SharedWorkIsOwn' /\ AuthorizedReads'
      /\ JoinableLoads'
  BY <1>1, <1>2, <1>3, <1>4, <1>6, TimeStep
<1>8. TypeOK' BY <1>1, <1>2, <1>3 DEF TypeOK
<1>9. CacheCurrent' /\ AuthorizationsCurrent' /\ ProbesCurrent'
  BY <1>2 DEF CacheCurrent, AuthorizationsCurrent, ProbesCurrent
<1>10. RetiredHoldsNothing'
  BY <1>2 DEF RetiredHoldsNothing
<1> QED BY <1>7, <1>8, <1>9, <1>10 DEF RepositoryInv

LEMMA InvalidateAllKeeps ==
  ASSUME RepositoryInv, InvalidateAll
  PROVE  RepositoryInv'
<1>1. TypeOK /\ RetiredHoldsNothing BY DEF RepositoryInv
<1>2. /\ Clears /\ UNCHANGED <<state, retirement, look>>
      /\ version' = [o \in Objects |-> version[o] + 1] /\ sweeps' = sweeps + 1
  BY DEF InvalidateAll
<1>3. /\ version' \in [Objects -> Nat] /\ sweeps' \in Nat
      /\ \A o \in Objects : version[o] <= version'[o]
  BY <1>1, <1>2 DEF TypeOK
<1>4. /\ state' \in {"active", "retired"}
      /\ retirement' \in {None, "draining", "resolved"}
      /\ retirement' # None => state' = "retired"
      /\ retirement' = "resolved" => \A l \in Lookups : look[l].on = None
  BY <1>1, <1>2 DEF TypeOK, RetiredHoldsNothing
<1> QED BY <1>2, <1>3, <1>4, ClearsKeeps

LEMMA RetireKeeps ==
  ASSUME RepositoryInv, Retire
  PROVE  RepositoryInv'
<1>1. TypeOK BY DEF RepositoryInv
<1>2. /\ Clears /\ UNCHANGED <<look, version, sweeps>>
      /\ state' = "retired" /\ retirement' = "draining"
  BY DEF Retire
<1>3. /\ version' \in [Objects -> Nat] /\ sweeps' \in Nat
      /\ \A o \in Objects : version[o] <= version'[o]
  BY <1>1, <1>2 DEF TypeOK
<1> QED BY <1>2, <1>3, ClearsKeeps

LEMMA RetirementEndsKeeps ==
  ASSUME RepositoryInv, RetirementEnds
  PROVE  RepositoryInv'
<1>1. /\ TypeOK /\ LookupsSound /\ StampsAgree /\ CacheCurrent
      /\ AuthorizationsCurrent /\ ProbesCurrent /\ SharedWorkIsOwn
      /\ JoinableLoads /\ AuthorizedReads /\ RetiredHoldsNothing
  BY DEF RepositoryInv
<1>2. /\ retirement = "draining" /\ retirement' = "resolved"
      /\ UNCHANGED <<state, cache, retainedBytes, inFlight, authorizations,
                     probes, globalEpoch, objectEpochs, look, version, sweeps>>
  BY DEF RetirementEnds
<1>3. ASSUME NEW l \in Lookups, look[l].on # None PROVE FALSE
  <2>1. PICK s \in Lookups : s = look[l].on BY <1>1, <1>3 DEF TypeOK, Fields
  <2>2. look[s].on = s BY <1>1, <1>3, <2>1 DEF SharedWorkIsOwn, Linked
  <2>3. look[s].pc \in Waiting
    BY <1>1, <2>1, <2>2, NoneIsNoLookup DEF LookupsSound
  <2>4. s \in ActiveOperations BY <2>1, <2>2, <2>3 DEF ActiveOperations, Calls
  <2> QED BY <2>4 DEF RetirementEnds
<1>4. TypeOK' BY <1>1, <1>2 DEF TypeOK
<1>5. LookupsSound' /\ StampsAgree' /\ CacheCurrent'
  BY <1>1, <1>2
     DEF LookupsSound, Active, Stamped, Dated, EpochFor, Fresh, StampsAgree,
         CacheCurrent
<1>6. AuthorizationsCurrent' /\ ProbesCurrent'
  BY <1>1, <1>2
     DEF AuthorizationsCurrent, ProbesCurrent, Running, Calls, EpochFor
<1>7. SharedWorkIsOwn' /\ JoinableLoads' /\ AuthorizedReads'
  BY <1>1, <1>2
     DEF SharedWorkIsOwn, JoinableLoads, Calls, EpochFor, AuthorizedReads
<1>8. RetiredHoldsNothing'
  <2>1. \A l \in Lookups : look'[l].on = None BY <1>2, <1>3
  <2>2. state = "retired" BY <1>1, <1>2 DEF RetiredHoldsNothing, None
  <2> QED BY <1>1, <1>2, <2>1, <2>2 DEF RetiredHoldsNothing
<1> QED BY <1>4, <1>5, <1>6, <1>7, <1>8 DEF RepositoryInv

LEMMA InvalidateKeeps ==
  ASSUME RepositoryInv, NEW o \in Objects, Invalidate(o)
  PROVE  RepositoryInv'
<1>1. /\ TypeOK /\ LookupsSound /\ StampsAgree /\ CacheCurrent
      /\ AuthorizationsCurrent /\ ProbesCurrent /\ SharedWorkIsOwn
      /\ JoinableLoads /\ AuthorizedReads /\ RetiredHoldsNothing
  BY DEF RepositoryInv
<1>2. /\ version' = [version EXCEPT ![o] = @ + 1]
      /\ cache' = {e \in cache : e.object # o}
      /\ UNCHANGED <<state, retirement, probes, look, sweeps>>
      /\ AdvanceObjectEpoch(o)
  BY DEF Invalidate
<1>3. /\ version' \in [Objects -> Nat] /\ version'[o] = version[o] + 1
      /\ \A u \in Objects : version[u] <= version'[u]
      /\ \A u \in Objects \ {o} : version'[u] = version[u]
  BY <1>1, <1>2 DEF TypeOK
<1>4. ASSUME Compacts(o)
      PROVE  /\ globalEpoch' \in Nat /\ objectEpochs' \in [Objects -> Nat]
             /\ \A u \in Objects : Outdated(u)
             /\ authorizations' = {}
             /\ inFlight' = {l \in inFlight : Untouched(look[l].object)}
  <2>1. /\ objectEpochs' = [u \in Objects |-> 0] /\ globalEpoch' = globalEpoch + 1
        /\ authorizations' = {} /\ inFlight' = {}
    BY <1>2, <1>4 DEF AdvanceObjectEpoch, Compacted
  <2>2. globalEpoch' \in Nat /\ globalEpoch < globalEpoch'
    BY <1>1, <2>1 DEF TypeOK
  <2>3. \A u : ~Untouched(u) BY <1>1, <2>1, <2>2 DEF Untouched, TypeOK
  <2> QED BY <2>1, <2>2, <2>3 DEF Outdated
<1>5. ASSUME ~Compacts(o)
      PROVE  /\ globalEpoch' = globalEpoch /\ objectEpochs' \in [Objects -> Nat]
             /\ Outdated(o) /\ ~Untouched(o)
             /\ \A u \in Objects \ {o} : Untouched(u)
             /\ authorizations' = {e \in authorizations : e.key.object # o}
             /\ inFlight' = {l \in inFlight : look[l].object # o}
  <2>1. /\ objectEpochs' = [objectEpochs EXCEPT ![o] = @ + 1]
        /\ globalEpoch' = globalEpoch
        /\ authorizations' = {e \in authorizations : e.key.object # o}
        /\ inFlight' = {l \in inFlight : look[l].object # o}
    BY <1>2, <1>5 DEF AdvanceObjectEpoch, Advanced, ForgetObjects
  <2>2. objectEpochs[o] \in Nat /\ objectEpochs'[o] = objectEpochs[o] + 1
        /\ objectEpochs' \in [Objects -> Nat]
        /\ \A u \in Objects \ {o} : objectEpochs'[u] = objectEpochs[u]
    BY <1>1, <2>1 DEF TypeOK
  <2>3. Outdated(o) /\ ~Untouched(o) BY <2>1, <2>2 DEF Outdated, Untouched
  <2>4. \A u \in Objects \ {o} : Untouched(u)
    BY <1>2, <1>3, <2>1, <2>2 DEF Untouched
  <2> QED BY <2>1, <2>2, <2>3, <2>4
<1>6. /\ globalEpoch' \in Nat /\ objectEpochs' \in [Objects -> Nat]
      /\ \A u \in Objects : Outdated(u) \/ Untouched(u)
      /\ inFlight' = {l \in inFlight : Untouched(look[l].object)}
  <2>1. CASE Compacts(o) BY <1>4, <2>1
  <2>2. CASE ~Compacts(o)
    <3>1. \A l \in inFlight : look[l].object \in Objects
      BY <1>1 DEF TypeOK, Fields
    <3>2. \A l \in inFlight :
            Untouched(look[l].object) <=> look[l].object # o
      BY <1>5, <2>2, <3>1
    <3>3. globalEpoch' \in Nat BY <1>1, <1>5, <2>2 DEF TypeOK
    <3> QED BY <1>5, <2>2, <3>2, <3>3
  <2> QED BY <2>1, <2>2
<1>7. /\ LookupsSound' /\ StampsAgree' /\ SharedWorkIsOwn' /\ AuthorizedReads'
      /\ JoinableLoads'
  BY <1>1, <1>2, <1>3, <1>6, TimeStep
<1>8. authorizations' \subseteq authorizations BY <1>4, <1>5
<1>9. TypeOK'
  <2>1. sweeps' \in Nat /\ look' \in [Lookups -> Fields]
    BY <1>1, <1>2 DEF TypeOK
  <2> QED BY <1>1, <1>2, <1>3, <1>6, <1>8, <2>1 DEF TypeOK
<1>10. CacheCurrent' BY <1>1, <1>2, <1>3 DEF CacheCurrent, TypeOK, CacheEntries
<1>11. AuthorizationsCurrent'
  <2>1. CASE Compacts(o) BY <1>4, <2>1 DEF AuthorizationsCurrent
  <2>2. CASE ~Compacts(o)
    <3>1. ASSUME NEW e \in authorizations'
          PROVE  /\ e \in authorizations /\ EpochFor(e.key.object)' = EpochFor(e.key.object)
                 /\ version'[e.key.object] = version[e.key.object]
      <4>1. e \in authorizations /\ e.key.object # o BY <1>5, <2>2
      <4>2. e.key.object \in Objects
        BY <1>1, <4>1 DEF TypeOK, AuthorizationEntries, Keys
      <4>3. Untouched(e.key.object) BY <1>5, <2>2, <4>1, <4>2
      <4> QED BY <4>1, <4>3 DEF Untouched, EpochFor
    <3> QED BY <1>1, <1>2, <3>1 DEF AuthorizationsCurrent, Running, Calls
  <2> QED BY <2>1, <2>2
<1>12. ProbesCurrent' BY <1>1, <1>2 DEF ProbesCurrent, Running, Calls
<1>13. RetiredHoldsNothing'
  BY <1>1, <1>2, <1>6, <1>8 DEF RetiredHoldsNothing
<1> QED BY <1>7, <1>9, <1>10, <1>11, <1>12, <1>13 DEF RepositoryInv

(***************************************************************************)
(* The invariant                                                           *)
(***************************************************************************)
LEMMA InitHolds == Init => RepositoryInv
<1> SUFFICES ASSUME Init PROVE RepositoryInv
  OBVIOUS
<1>1. PICK o \in Objects : o = CHOOSE u \in Objects : TRUE
  BY RepositoryAssumption
<1>2. PICK p \in Principals : p = CHOOSE q \in Principals : TRUE
  BY RepositoryAssumption
<1>3. PICK x : x = [pc |-> "idle", object |-> o, principal |-> p,
                    strategy |-> "classic", fellBack |-> FALSE, epoch |-> Zero,
                    admission |-> Zero, on |-> None, outcome |-> None,
                    value |-> 0, answer |-> None, since |-> 0, sweep |-> 0,
                    asOf |-> 0, permit |-> NoPermit(o, p)]
  OBVIOUS
<1>4. look = [l \in Lookups |-> x] BY <1>1, <1>2, <1>3 DEF Init
<1>5. NoPermit(o, p) \in Permits /\ Zero \in Epochs
  BY DEF NoPermit, Permits, Strategies, Zero, Epochs
<1>6. x \in Fields BY <1>3, <1>5 DEF Fields, Strategies
<1>7. /\ x.pc = "idle" /\ x.on = None BY <1>3
<1>8. TypeOK BY <1>4, <1>6 DEF Init, TypeOK
<1>9. LookupsSound /\ StampsAgree /\ SharedWorkIsOwn /\ AuthorizedReads
  BY <1>4, <1>7
     DEF LookupsSound, StampsAgree, SharedWorkIsOwn, AuthorizedReads, Active,
         Busy, Waiting, Agree, Fresh, Reading
<1>10. JoinableLoads BY <1>4, <1>7 DEF Init, JoinableLoads, Calls
<1>11. CacheCurrent /\ AuthorizationsCurrent /\ ProbesCurrent
  BY DEF Init, CacheCurrent, AuthorizationsCurrent, ProbesCurrent
<1>12. RetiredHoldsNothing BY DEF Init, RetiredHoldsNothing, None
<1> QED BY <1>8, <1>9, <1>10, <1>11, <1>12 DEF RepositoryInv

LEMMA NextKeeps == RepositoryInv /\ Next => RepositoryInv'
<1> SUFFICES ASSUME RepositoryInv, Next PROVE RepositoryInv'
  OBVIOUS
<1>1. ASSUME NEW l \in Lookups, Continues(l) PROVE RepositoryInv'
  BY <1>1, SelectsKeeps, AdmitsKeeps, LoadResumesKeeps, UnwindsKeeps
     DEF Continues
<1>2. ASSUME NEW l \in Lookups, Replies(l) PROVE RepositoryInv'
  BY <1>2, ProbeAnswersKeeps, AuthorizeAnswersKeeps, LoadAnswersKeeps
     DEF Replies
<1> QED BY <1>1, <1>2, GetKeeps, AbortKeeps, CallEndsKeeps, InvalidateKeeps,
           InvalidateAllKeeps, RetireKeeps, RetirementEndsKeeps DEF Next

LEMMA StutterKeeps == RepositoryInv /\ UNCHANGED vars => RepositoryInv'
<1> SUFFICES ASSUME RepositoryInv, UNCHANGED vars PROVE RepositoryInv'
  OBVIOUS
<1>1. UNCHANGED <<state, retirement, cache, retainedBytes, inFlight,
                  authorizations, probes, globalEpoch, objectEpochs, look,
                  version, sweeps>>
  BY DEF vars
<1>2. TypeOK' /\ CacheCurrent' /\ RetiredHoldsNothing' /\ StampsAgree'
  BY <1>1 DEF RepositoryInv, TypeOK, CacheCurrent, RetiredHoldsNothing, StampsAgree
<1>3. LookupsSound'
  BY <1>1 DEF RepositoryInv, LookupsSound, Active, Stamped, Dated, EpochFor, Fresh
<1>4. AuthorizationsCurrent'
  BY <1>1 DEF RepositoryInv, AuthorizationsCurrent, EpochFor, Running, Calls
<1>5. ProbesCurrent' BY <1>1 DEF RepositoryInv, ProbesCurrent, Running, Calls
<1>6. SharedWorkIsOwn' /\ AuthorizedReads'
  BY <1>1 DEF RepositoryInv, SharedWorkIsOwn, AuthorizedReads
<1>7. JoinableLoads'
  BY <1>1 DEF RepositoryInv, JoinableLoads, Calls, EpochFor
<1> QED BY <1>2, <1>3, <1>4, <1>5, <1>6, <1>7 DEF RepositoryInv

\* In every reachable state the epochs tell versions apart, the tables hold
\* nothing that an invalidation has outlived, and what is shared is shared
\* among equals (#authorize, #getWithStrategy, #advanceObjectEpoch).
THEOREM RepositoryInvariant == Spec => []RepositoryInv
<1>1. RepositoryInv /\ [Next]_vars => RepositoryInv'
  BY NextKeeps, StutterKeeps
<1> QED BY InitHolds, <1>1, PTL DEF Spec

\* "Every read is gated by a separately cached principal authorization":
\* whatever a lookup reads, joins or hits, it was allowed in its own name.
THEOREM ReadsAreAuthorized == Spec => []AuthorizedReads
<1>1. RepositoryInv => AuthorizedReads BY DEF RepositoryInv
<1> QED BY <1>1, RepositoryInvariant, PTL

\* "An invalidation during a load prevents stale cache resurrection", also when
\* object epochs have been compacted into the global one.
THEOREM CacheNeverStale == Spec => []CacheCurrent
<1>1. RepositoryInv => CacheCurrent BY DEF RepositoryInv
<1> QED BY <1>1, RepositoryInvariant, PTL

\* retire() lets go of everything, and its promise is fulfilled only when no
\* adapter call is under way any more.
THEOREM RetirementLeavesNothing == Spec => []RetiredHoldsNothing
<1>1. RepositoryInv => RetiredHoldsNothing BY DEF RepositoryInv
<1> QED BY <1>1, RepositoryInvariant, PTL

(***************************************************************************)
(* Refinement: what a step is to the callers                               *)
(***************************************************************************)
Views == [l \in Lookups |-> Seen(look[l])]

ServiceStep == [Service!MSNext]_(Service!MSvars)

LEMMA ViewStep ==
  ASSUME TypeOK, NEW l \in Lookups, NEW y, Becomes(l, y)
  PROVE  Views' = [Views EXCEPT ![l] = Seen(y)]
<1>1. \A m \in Lookups : look'[m] = IF m = l THEN y ELSE look[m]
  BY DEF Becomes, TypeOK
<1>2. Views' = [m \in Lookups |-> Seen(IF m = l THEN y ELSE look[m])]
  BY <1>1 DEF Views, Seen, Active
<1> QED BY <1>2 DEF Views

\* The caller sees no difference as long as its call goes on.
LEMMA OnwardStep ==
  ASSUME TypeOK, NEW l \in Lookups, Active(look[l]),
         NEW y, Becomes(l, y), Carries(look[l], y), UNCHANGED <<state, version>>
  PROVE  ServiceStep
<1>1. Seen(y) = Seen(look[l]) BY DEF Seen, Carries
<1>2. Views' = Views BY <1>1, ViewStep DEF Views
<1> QED BY <1>2 DEF ServiceStep, Service!MSvars, Views

\* It is refused, unless it had given up before.
LEMMA RefuseStep ==
  ASSUME TypeOK, NEW l \in Lookups, Active(look[l]),
         NEW y, Becomes(l, y), y.object = look[l].object,
         \/ Active(y) /\ y.answer = "canceled"
         \/ ~Active(y) /\ y.answer = Answered(look[l], "error"),
         UNCHANGED <<state, version>>
  PROVE  ServiceStep
<1>1. Seen(y) = Service!Refused(look[l].object)
  BY DEF Seen, Service!Refused, Answered
<1>2. Views' = [Views EXCEPT ![l] = Seen(y)] BY ViewStep
<1>3. Views[l] = Seen(look[l]) BY DEF Views
<1>4. CASE look[l].answer = "canceled"
  <2>1. Seen(look[l]) = Service!Refused(look[l].object)
    BY <1>4 DEF Seen, Service!Refused
  <2>2. Views' = Views BY <1>1, <1>2, <2>1 DEF Views
  <2> QED BY <2>2 DEF ServiceStep, Service!MSvars, Views
<1>5. CASE look[l].answer # "canceled"
  <2>1. Views[l].asking /\ Views[l].object = look[l].object
    BY <1>3, <1>5 DEF Seen
  <2>2. Service!Refuse(l) BY <1>1, <1>2, <2>1 DEF Service!Refuse, Views
  <2> QED BY <2>2 DEF ServiceStep, Service!MSNext
<1> QED BY <1>4, <1>5

\* It gets a version that was current at some time since it began.
LEMMA ReturnStep ==
  ASSUME TypeOK, NEW l \in Lookups, Active(look[l]),
         NEW y, Becomes(l, y), Delivers(look[l], y), UNCHANGED <<state, version>>
  PROVE  ServiceStep
<1> DEFINE x == look[l]
<1>1. PICK v \in Nat : y = Returns(x, v) /\ x.since <= v /\ v <= version[x.object]
  BY DEF Delivers
<1>2. x \in Fields BY DEF TypeOK
<1>3. /\ y.pc = "ended" /\ y.answer = Answered(x, "value") /\ y.value = v
      /\ y.object = x.object /\ y.since = x.since
  BY <1>1, <1>2, ReturnsFields
<1>4. ~Active(y) BY <1>3 DEF Active, Busy, Waiting
<1>5. Views' = [Views EXCEPT ![l] = Seen(y)] BY ViewStep
<1>6. CASE x.answer = "canceled"
  <2>1. Seen(y) = Seen(x) BY <1>3, <1>4, <1>6 DEF Seen, Answered
  <2>2. Views' = Views BY <1>5, <2>1 DEF Views
  <2> QED BY <2>2 DEF ServiceStep, Service!MSvars, Views
<1>7. CASE x.answer # "canceled"
  <2>1. Seen(x) = [asking |-> TRUE, object |-> x.object, since |-> x.since, got |-> 0]
    BY <1>7 DEF Seen
  <2>2. Seen(y) = Service!Got(x.object, x.since, v)
    BY <1>3, <1>4, <1>7 DEF Seen, Answered, Service!Got
  <2>3. Views[l] = Seen(x) BY DEF Views
  <2>4. Views[l].object = x.object /\ Views[l].since = x.since
    BY <2>1, <2>3
  <2>5. Views' = [Views EXCEPT ![l] =
                   Service!Got(Views[l].object, Views[l].since, v)]
    BY <1>5, <2>2, <2>4
  <2>6. v \in x.since .. version[x.object]
    BY <1>1, <1>2 DEF TypeOK, Fields
  <2>7. Views[l].asking /\ Views[l].object = x.object /\ Views[l].since = x.since
    BY <2>1, <2>3
  <2>8. Service!Return(l) BY <2>5, <2>6, <2>7 DEF Service!Return, Views
  <2> QED BY <2>8 DEF ServiceStep, Service!MSNext
<1> QED BY <1>6, <1>7

\* Nothing changes but the versions, the lookups' views of them do not.
LEMMA SupersedeStep ==
  ASSUME NEW S \in SUBSET Objects, UNCHANGED <<state, look>>,
         version' = [o \in Objects |-> IF o \in S THEN version[o] + 1 ELSE version[o]]
  PROVE  ServiceStep
<1>1. Views' = Views BY DEF Views, Seen, Active
<1>2. Service!Supersede(S) BY <1>1 DEF Service!Supersede, Views
<1> QED BY <1>2 DEF ServiceStep, Service!MSNext

LEMMA FailStep ==
  ASSUME TypeOK, NEW l \in Lookups, Active(look[l]),
         Becomes(l, Fails(look[l])), UNCHANGED <<state, version>>
  PROVE  ServiceStep
<1>1. PICK y : y = Fails(look[l]) OBVIOUS
<1>2. look[l] \in Fields BY DEF TypeOK
<1>3. /\ y.pc = "ended" /\ y.answer = Answered(look[l], "error")
      /\ y.object = look[l].object
  BY <1>1, <1>2, FailsFields
<1>4. ~Active(y) BY <1>3 DEF Active, Busy, Waiting
<1> QED BY <1>1, <1>3, <1>4, RefuseStep

LEMMA GetServes ==
  ASSUME RepositoryInv, NEW l \in Lookups, NEW o \in Objects,
         NEW p \in Principals, Get(l, o, p)
  PROVE  ServiceStep
<1>1. TypeOK /\ LookupsSound /\ ProbesCurrent BY DEF RepositoryInv
<1>2. look[l].on = None /\ ~Active(look[l])
  BY <1>1 DEF Get, LookupsSound, Waiting, Active, Busy
<1>3. PICK x : x = Asked(l, o, p) OBVIOUS
<1>4. /\ x \in Fields /\ x.object = o /\ x.on = None /\ x.answer = None
      /\ x.epoch = EpochFor(o) /\ x.admission = EpochFor(o)
      /\ x.since = version[o] /\ x.asOf = version[o] /\ x.sweep = sweeps
  BY <1>1, <1>3, AskedFields
<1>5. state = "active" /\ UNCHANGED <<state, version>> BY DEF Get
<1>6. \E y : Becomes(l, y) /\ (Carries(x, y) \/ y = Fails(x))
  <2>1. CASE Mode[p] \in {"auto", "optimizedOnly"}
    <3>1. Probe(l, x) BY <1>3, <2>1 DEF Get
    <3> QED BY <1>1, <1>2, <1>4, <3>1, ProbeFits
  <2>2. CASE Mode[p] \notin {"auto", "optimizedOnly"}
    <3>1. Becomes(l, [x EXCEPT !.pc = "selected", !.strategy = Mode[p]])
      BY <1>3, <2>2 DEF Get
    <3>2. Mode[p] \in Strategies
      BY <2>2, RepositoryAssumption DEF Modes, Strategies
    <3>3. PICK z : z = [x EXCEPT !.pc = "selected"] OBVIOUS
    <3>4. z \in Fields BY <1>4, <3>3, UpdateType DEF Busy
    <3>5. PICK y : y = [z EXCEPT !.strategy = Mode[p]] OBVIOUS
    <3>6. y \in Fields BY <3>2, <3>4, <3>5, UpdateType
    <3>7. /\ y.pc = "selected" /\ y.object = x.object /\ y.since = x.since
          /\ y.answer = x.answer
      BY <1>4, <3>3, <3>4, <3>5, <3>6 DEF Fields
    <3>8. Carries(x, y) BY <3>7 DEF Carries, Active, Busy
    <3> QED BY <3>1, <3>3, <3>5, <3>8
  <2> QED BY <2>1, <2>2
<1>7. PICK y : Becomes(l, y) /\ (Carries(x, y) \/ y = Fails(x)) BY <1>6
<1>8. Views' = [Views EXCEPT ![l] = Seen(y)] BY <1>1, <1>7, ViewStep
<1>9. ~Views[l].asking BY <1>2 DEF Views, Seen
<1>10. Seen(y) \in {Service!Refused(o),
                    [asking |-> TRUE, object |-> o, since |-> version[o],
                     got |-> 0]}
  <2>1. CASE Carries(x, y)
    <3>1. /\ Active(y) /\ y.answer # "canceled" /\ y.object = o
          /\ y.since = version[o]
      BY <1>4, <2>1 DEF Carries, None
    <3> QED BY <3>1 DEF Seen
  <2>2. CASE y = Fails(x)
    <3>1. y.pc = "ended" /\ y.answer = "error" /\ y.object = o
      BY <1>4, <2>2, FailsFields DEF Answered, None
    <3>2. ~Active(y) BY <3>1 DEF Active, Busy, Waiting
    <3> QED BY <3>1, <3>2 DEF Seen, Service!Refused
  <2> QED BY <1>7, <2>1, <2>2
<1>11. Service!Ask(l, o) BY <1>5, <1>8, <1>9, <1>10 DEF Service!Ask, Views
<1> QED BY <1>11 DEF ServiceStep, Service!MSNext

LEMMA AdmissionServes ==
  ASSUME RepositoryInv, NEW l \in Lookups, look[l].on = None, Active(look[l]),
         NEW x, Prepared(l, x), Carries(look[l], x),
         NEW known \in SUBSET authorizations, Admission(l, x, known),
         UNCHANGED <<state, version>>
  PROVE  ServiceStep
<1>1. TypeOK /\ LookupsSound /\ SharedWorkIsOwn /\ AuthorizationsCurrent
  BY DEF RepositoryInv
<1>2. PICK y : Becomes(l, y) /\ Carries(x, y) BY <1>1, AdmissionFits
<1>3. Carries(look[l], y) BY <1>2 DEF Carries
<1> QED BY <1>1, <1>2, <1>3, OnwardStep

LEMMA SelectsServes ==
  ASSUME RepositoryInv, NEW l \in Lookups, Selects(l)
  PROVE  ServiceStep
<1>1. TypeOK /\ LookupsSound /\ StampsAgree BY DEF RepositoryInv
<1>2. look[l].on = None /\ Active(look[l])
  BY <1>1 DEF Selects, Resumed, LookupsSound, Waiting, Active, Busy
<1>3. Prepared(l, look[l]) /\ Carries(look[l], look[l])
  BY <1>1, <1>2, LookupPrepared DEF Carries
<1>4. UNCHANGED <<state, version>> BY DEF Selects
<1>5. ASSUME Admission(l, [look[l] EXCEPT !.strategy = "optimized"], authorizations)
      PROVE  ServiceStep
  <2>1. PICK b : b = look[l].fellBack OBVIOUS
  <2>2. b \in BOOLEAN BY <1>1, <2>1 DEF TypeOK, Fields
  <2>3. PICK x : x = [look[l] EXCEPT !.strategy = "optimized", !.fellBack = b]
    OBVIOUS
  <2>4. Prepared(l, x) /\ Carries(look[l], x)
    BY <1>3, <2>2, <2>3, StrategyPrepared DEF Strategies
  <2>5. x = [look[l] EXCEPT !.strategy = "optimized"]
    BY <1>1, <2>1, <2>3 DEF TypeOK, Fields
  <2> QED BY <1>2, <1>4, <1>5, <2>4, <2>5, AdmissionServes
<1>6. ASSUME Admission(l, look[l], authorizations) PROVE ServiceStep
  BY <1>2, <1>3, <1>4, <1>6, AdmissionServes
<1>7. ASSUME Becomes(l, Fails(look[l])) PROVE ServiceStep
  BY <1>1, <1>2, <1>4, <1>7, FailStep
<1> QED BY <1>5, <1>6, <1>7 DEF Selects

LEMMA AdmitsServes ==
  ASSUME RepositoryInv, NEW l \in Lookups, Admits(l)
  PROVE  ServiceStep
<1> DEFINE x == look[l]
<1>1. /\ TypeOK /\ LookupsSound /\ StampsAgree /\ SharedWorkIsOwn
      /\ AuthorizationsCurrent /\ CacheCurrent /\ JoinableLoads
      /\ AuthorizedReads
  BY DEF RepositoryInv
<1>2. /\ x.on = None /\ Active(x) /\ Resumed(l, "authorizing") /\ x.outcome = "ok"
  BY DEF Admits, Resumed, Waiting, Active, Busy
<1>3. Prepared(l, x) BY <1>1, <1>2, LookupPrepared
<1>4. UNCHANGED <<state, version>> BY DEF Admits
<1>5. ASSUME Becomes(l, Throws(x, "other")) PROVE ServiceStep
  <2>1. PICK y : y = Throws(x, "other") OBVIOUS
  <2>2. Carries(x, y) BY <1>1, <1>3, <2>1, ThrownFits DEF Answers
  <2> QED BY <1>1, <1>2, <1>4, <1>5, <2>1, <2>2, OnwardStep
<1>6. ASSUME Authorize(l, Readmitted(x),
                       Forget(authorizations, Key(x, x.admission)))
      PROVE  ServiceStep
  <2>1. PICK z : z = Readmitted(x) OBVIOUS
  <2>2. Prepared(l, z) /\ Carries(x, z)
    BY <1>1, <1>2, <2>1, ReadmittedPrepared
  <2>3. PICK known \in SUBSET authorizations : Authorize(l, z, known)
    BY <1>6, <2>1 DEF Forget
  <2>4. PICK y : Becomes(l, y) /\ Carries(z, y)
    BY <1>1, <1>2, <2>2, <2>3, AuthorizeFits
  <2>5. Carries(x, y) BY <2>2, <2>4 DEF Carries
  <2> QED BY <1>1, <1>2, <1>4, <2>4, <2>5, OnwardStep
<1>7. ASSUME x.admission = EpochFor(x.object), Reads(l, x) PROVE ServiceStep
  <2>1. PICK y : Becomes(l, y) /\ (Carries(x, y) \/ Delivers(x, y))
    BY <1>1, <1>2, <1>7, ReadsFits
  <2> QED BY <1>1, <1>2, <1>4, <2>1, OnwardStep, ReturnStep
<1> QED BY <1>5, <1>6, <1>7 DEF Admits

LEMMA LoadResumesServes ==
  ASSUME RepositoryInv, NEW l \in Lookups, LoadResumes(l)
  PROVE  ServiceStep
<1> DEFINE x == look[l]
<1>1. TypeOK /\ LookupsSound /\ StampsAgree BY DEF RepositoryInv
<1>2. /\ x.pc = "loading" /\ x.on = None /\ Active(x) /\ x.outcome # None
      /\ x \in Fields
  BY <1>1 DEF LoadResumes, Resumed, Waiting, Active, Busy, TypeOK
<1>3. Prepared(l, x) BY <1>1, <1>2, LookupPrepared
<1>4. UNCHANGED <<state, version>> BY DEF LoadResumes
<1>5. CASE x.outcome = "ok"
  <2>1. PICK y : y = Returns(x, x.value) OBVIOUS
  <2>2. Becomes(l, y) BY <1>5, <2>1 DEF LoadResumes
  <2>3. Delivers(x, y)
    BY <1>1, <1>2, <1>5, <2>1 DEF LookupsSound, Fresh, Fields, Delivers
  <2> QED BY <1>1, <1>2, <1>4, <2>2, <2>3, ReturnStep
<1>6. CASE x.outcome # "ok"
  <2>1. PICK y : y = Throws(x, x.outcome) OBVIOUS
  <2>2. x.outcome \in Answers BY <1>2 DEF Fields
  <2>3. Carries(x, y) BY <1>1, <1>3, <2>1, <2>2, ThrownFits
  <2>4. Becomes(l, y) BY <1>6, <2>1 DEF LoadResumes
  <2> QED BY <1>1, <1>2, <1>4, <2>3, <2>4, OnwardStep
<1> QED BY <1>5, <1>6

LEMMA UnwindsServes ==
  ASSUME RepositoryInv, NEW l \in Lookups, Unwinds(l)
  PROVE  ServiceStep
<1> DEFINE x == look[l]
           forgotten == Forget(authorizations, Key(x, x.epoch))
<1>1. TypeOK /\ LookupsSound /\ StampsAgree BY DEF RepositoryInv
<1>2. x.on = None /\ Active(x)
  BY <1>1 DEF Unwinds, Resumed, LookupsSound, Waiting, Active, Busy
<1>3. Prepared(l, x) BY <1>1, <1>2, LookupPrepared
<1>4. UNCHANGED <<state, version>> BY DEF Unwinds
<1>5. ASSUME Becomes(l, Fails(x)) PROVE ServiceStep
  BY <1>1, <1>2, <1>4, <1>5, FailStep
<1>6. ASSUME Admission(l, [x EXCEPT !.strategy = "classic", !.fellBack = TRUE],
                       forgotten)
      PROVE  ServiceStep
  <2>1. PICK z : z = [x EXCEPT !.strategy = "classic", !.fellBack = TRUE]
    OBVIOUS
  <2>2. Prepared(l, z) /\ Carries(x, z)
    BY <1>3, <2>1, StrategyPrepared DEF Strategies
  <2>3. PICK known \in SUBSET authorizations : Admission(l, z, known)
    BY <1>6, <2>1 DEF Forget
  <2> QED BY <1>2, <1>4, <2>2, <2>3, AdmissionServes
<1> QED BY <1>5, <1>6 DEF Unwinds

LEMMA AbortServes ==
  ASSUME RepositoryInv, NEW l \in Lookups, Abort(l)
  PROVE  ServiceStep
<1>1. TypeOK BY DEF RepositoryInv
<1>2. look[l] \in Fields /\ Active(look[l]) BY <1>1 DEF Abort, TypeOK, Active
<1>3. PICK y : y = [look[l] EXCEPT !.answer = "canceled"] OBVIOUS
<1>4. y \in Fields BY <1>2, <1>3, UpdateType
<1>5. /\ y.pc = look[l].pc /\ y.object = look[l].object /\ y.answer = "canceled"
  BY <1>2, <1>3, <1>4 DEF Fields
<1>6. Active(y) BY <1>2, <1>5 DEF Active
<1> QED BY <1>1, <1>2, <1>3, <1>5, <1>6, RefuseStep DEF Abort

LEMMA RepliesServe ==
  ASSUME RepositoryInv, NEW l \in Lookups, Replies(l)
  PROVE  ServiceStep
<1> DEFINE z == look[l]
<1>1. TypeOK BY DEF RepositoryInv
<1>2. PICK r \in Answers :
        \/ ProbeAnswers(l, r) \/ AuthorizeAnswers(l, r)
        \/ \E b \in Sizes : LoadAnswers(l, r, b)
  BY DEF Replies
<1>3. z \in Fields /\ Active(z) /\ UNCHANGED <<state, version>>
  BY <1>1, <1>2 DEF ProbeAnswers, AuthorizeAnswers, LoadAnswers, Running, Calls,
                    TypeOK, Active, Busy, Waiting
<1>4. PICK x : x = [z EXCEPT !.outcome = r] OBVIOUS
<1>5. x \in Fields /\ Alike(z, x) /\ x.pc = z.pc /\ x.answer = z.answer
  BY <1>3, <1>4, OutcomeFields
<1>6. Carries(z, x) BY <1>3, <1>5 DEF Carries, Alike, Active
<1>7. Becomes(l, x) \/ \E e \in cache : Becomes(l, [x EXCEPT !.value = e.seen])
  BY <1>2, <1>4 DEF ProbeAnswers, AuthorizeAnswers, LoadAnswers, CacheSnapshot
<1>8. ASSUME NEW e \in cache, Becomes(l, [x EXCEPT !.value = e.seen])
      PROVE  ServiceStep
  <2>1. PICK y : y = [x EXCEPT !.value = e.seen] OBVIOUS
  <2>2. /\ y.pc = x.pc /\ y.object = x.object /\ y.since = x.since
        /\ y.answer = x.answer
    BY <1>5, <2>1 DEF Fields
  <2>3. Carries(z, y) BY <1>6, <2>2 DEF Carries, Active
  <2> QED BY <1>1, <1>3, <1>8, <2>1, <2>3, OnwardStep
<1> QED BY <1>1, <1>3, <1>6, <1>7, <1>8, OnwardStep

LEMMA CallEndsServes ==
  ASSUME RepositoryInv, NEW l \in Lookups, CallEnds(l)
  PROVE  ServiceStep
<1> DEFINE c == look[l]
<1>1. TypeOK /\ LookupsSound BY DEF RepositoryInv
<1>2. /\ c \in Fields /\ c.outcome \in Answers /\ c.value \in Nat
      /\ c.permit \in Permits
  BY <1>1 DEF CallEnds, TypeOK, Fields
<1>3. ASSUME NEW w \in Lookups, look[w].on = l
      PROVE  Seen(look'[w]) = Seen(look[w])
  <2>1. PICK x : x = look[w] OBVIOUS
  <2>2. x \in Fields /\ x.pc \in Waiting
    BY <1>1, <1>3, <2>1, NoneIsNoLookup DEF TypeOK, LookupsSound
  <2>3. PICK v : v = IF x.pc = "loading" THEN c.value ELSE x.value OBVIOUS
  <2>4. PICK q : q = IF x.pc = "authorizing" THEN c.permit ELSE x.permit OBVIOUS
  <2>5. v \in Nat /\ q \in Permits BY <1>2, <2>2, <2>3, <2>4 DEF Fields
  <2>6. look'[w] = Result(x, c.outcome, v, q)
    BY <1>3, <2>1, <2>2, <2>3, <2>4 DEF CallEnds, Fields, Result
  <2>7. PICK y : y = look'[w] OBVIOUS
  <2>8. Alike(x, y) /\ y.pc = x.pc /\ y.answer = x.answer
    BY <1>2, <2>2, <2>5, <2>6, <2>7, ResultFields
  <2>9. Active(x) /\ Active(y) BY <2>2, <2>8 DEF Active, Busy
  <2>10. Seen(y) = Seen(x) BY <2>8, <2>9 DEF Seen, Alike
  <2> QED BY <2>1, <2>7, <2>10
<1>4. \A w \in Lookups : look[w].on # l => look'[w] = look[w]
  BY DEF CallEnds
<1>5. \A w \in Lookups : Seen(look[w])' = Seen(look[w])
  BY <1>3, <1>4 DEF Seen, Active
<1>6. UNCHANGED Views BY <1>5 DEF Views
<1> QED BY <1>6 DEF ServiceStep, Service!MSvars, Views, CallEnds

LEMMA SilentStep ==
  ASSUME UNCHANGED <<state, look, version>>
  PROVE  ServiceStep
<1>1. UNCHANGED Views BY DEF Views, Seen, Active
<1> QED BY <1>1 DEF ServiceStep, Service!MSvars, Views

LEMMA NextServes ==
  ASSUME RepositoryInv, [Next]_vars
  PROVE  ServiceStep
<1>1. TypeOK BY DEF RepositoryInv
<1>2. ASSUME NEW l \in Lookups, Continues(l) PROVE ServiceStep
  BY <1>2, SelectsServes, AdmitsServes, LoadResumesServes, UnwindsServes
     DEF Continues
<1>3. ASSUME NEW o \in Objects, Invalidate(o) PROVE ServiceStep
  <2>1. version' = [u \in Objects |-> IF u \in {o} THEN version[u] + 1 ELSE version[u]]
    BY <1>1, <1>3 DEF Invalidate, TypeOK
  <2> QED BY <1>3, <2>1, SupersedeStep DEF Invalidate
<1>4. ASSUME InvalidateAll PROVE ServiceStep
  <2>1. version' = [u \in Objects |->
                      IF u \in Objects THEN version[u] + 1 ELSE version[u]]
    BY <1>4 DEF InvalidateAll
  <2> QED BY <1>4, <2>1, SupersedeStep DEF InvalidateAll
<1>5. ASSUME Retire PROVE ServiceStep
  <2>1. UNCHANGED Views BY <1>5 DEF Retire, Views, Seen, Active
  <2>2. Service!Close BY <1>5, <2>1 DEF Retire, Service!Close, Views
  <2> QED BY <2>2 DEF ServiceStep, Service!MSNext
<1>6. ASSUME RetirementEnds \/ UNCHANGED vars PROVE ServiceStep
  BY <1>6, SilentStep DEF RetirementEnds, vars
<1> QED BY <1>2, <1>3, <1>4, <1>5, <1>6, GetServes, AbortServes, RepliesServe,
           CallEndsServes DEF Next

LEMMA InitServes == Init => Service!MSInit
<1> SUFFICES ASSUME Init PROVE Service!MSInit
  OBVIOUS
<1>1. PICK o \in Objects : o = CHOOSE u \in Objects : TRUE
  BY RepositoryAssumption
<1>2. \A l \in Lookups : /\ look[l].pc = "idle" /\ look[l].object = o
                         /\ look[l].answer = None
  BY <1>1 DEF Init
<1>3. \A l \in Lookups : Seen(look[l]) = Service!Refused(o)
  BY <1>2 DEF Seen, Active, Busy, Waiting, Service!Refused, None
<1>4. Views = [l \in Lookups |-> Service!Refused(o)] BY <1>3 DEF Views
<1> QED BY <1>4 DEF Service!MSInit, Views, Init

\* Behind its caches, epochs and shared calls the repository is a register for
\* each object: get() never returns what was invalidated before it was called.
THEOREM RepositoryIsARegister == Spec => ImplementsMetadataService
<1>1. RepositoryInv /\ [Next]_vars => [Service!MSNext]_(Service!MSvars)
  BY NextServes DEF ServiceStep
<1> QED BY InitServes, <1>1, RepositoryInvariant, PTL
        DEF Spec, ImplementsMetadataService, Service!MSSpec

(***************************************************************************)
(* Limits                                                                  *)
(***************************************************************************)
Room(S, n) == IsFiniteSet(S) /\ Cardinality(S) <= n

\* How many adapter calls of each kind may be under way
Limit == [probing |-> MaxProbes, authorizing |-> MaxAuthorizations,
          loading |-> MaxLoads]
CallsLimited == \A kind \in Waiting : Room(Calls(kind), Limit[kind])

\* The cache, and the bytes accounted for
CacheLimited ==
  /\ Room(cache, MaxEntries) /\ retainedBytes <= MaxRetainedBytes
  /\ retainedBytes = TotalBytes(cache)
  /\ \A e \in cache : e.bytes <= MaxRetainedBytes

LimitsInv ==
  /\ CallsLimited /\ CacheLimited
  /\ Room(probes, MaxProbes) /\ Room(authorizations, MaxAuthorizations)
  /\ Room(Tracked, MaxObjectEpochs)

LEMMA LimitNumbers ==
  /\ MaxEntries \in Nat /\ MaxRetainedBytes \in Nat /\ Sizes \subseteq Nat
  /\ MaxProbes \in Nat \ {0} /\ MaxAuthorizations \in Nat \ {0}
  /\ MaxObjectEpochs \in Nat \ {0} /\ MaxLoads \in Nat \ {0}
  /\ \A kind \in Waiting : Limit[kind] \in Nat
BY RepositoryAssumption DEF Limit, Waiting

LEMMA SubsetRoom ==
  ASSUME NEW n \in Nat, NEW S, Room(S, n), NEW T, T \subseteq S
  PROVE  Room(T, n)
<1>1. IsFiniteSet(T) /\ Cardinality(T) <= Cardinality(S)
  BY FS_Subset DEF Room
<1>2. Cardinality(T) \in Nat /\ Cardinality(S) \in Nat
  BY <1>1, FS_CardinalityType DEF Room
<1> QED BY <1>1, <1>2 DEF Room

LEMMA EmptyRoom == \A n \in Nat : Room({}, n)
BY FS_EmptySet DEF Room

\* Where one more fits
LEMMA OneMoreFits ==
  ASSUME NEW n \in Nat, NEW S, IsFiniteSet(S), Cardinality(S) < n, NEW e
  PROVE  Room(S \cup {e}, n)
<1>1. /\ IsFiniteSet(S \cup {e})
      /\ Cardinality(S \cup {e}) = IF e \in S THEN Cardinality(S)
                                   ELSE Cardinality(S) + 1
  BY FS_AddElement
<1>2. Cardinality(S) \in Nat BY FS_CardinalityType
<1> QED BY <1>1, <1>2 DEF Room

\* One for another
LEMMA OneForAnother ==
  ASSUME NEW n \in Nat, NEW S, Room(S, n), NEW T, T \subseteq S, T # S, NEW e
  PROVE  Room(T \cup {e}, n)
<1>1. /\ IsFiniteSet(T) /\ Cardinality(T) <= Cardinality(S)
      /\ Cardinality(T) # Cardinality(S)
  BY FS_Subset DEF Room
<1>2. Cardinality(T) \in Nat /\ Cardinality(S) \in Nat
  BY <1>1, FS_CardinalityType DEF Room
<1>3. Cardinality(T) < n BY <1>1, <1>2 DEF Room
<1> QED BY <1>1, <1>3, OneMoreFits

\* MakesRoom lives up to its name.
LEMMA RoomIsMade ==
  ASSUME NEW n \in Nat \ {0}, NEW S, Room(S, n),
         NEW T, MakesRoom(S, n, T), NEW e
  PROVE  Room(T \cup {e}, n)
<1>1. CASE Cardinality(S) < n /\ T = S
  BY <1>1, OneMoreFits DEF Room
<1>2. CASE \E d \in S : T = S \ {d}
  BY <1>2, OneForAnother
<1> QED BY <1>1, <1>2 DEF MakesRoom, SettledOf

(***************************************************************************)
(* Adapter calls                                                           *)
(***************************************************************************)
\* l may become y: a call it begins is within the limit, or under way already.
Allowed(l, y) ==
  \A kind \in Waiting :
    y.on = l /\ y.pc = kind =>
      l \in Calls(kind) \/ Cardinality(Calls(kind)) < Limit[kind]

LEMMA CallsStayLimited ==
  ASSUME TypeOK, CallsLimited, NEW l \in Lookups, NEW y, Allowed(l, y),
         Becomes(l, y)
  PROVE  CallsLimited'
<1> SUFFICES ASSUME NEW kind \in Waiting PROVE Room(Calls(kind)', Limit[kind])
  BY DEF CallsLimited, Limit
<1>1. /\ \A w \in Lookups \ {l} : look'[w] = look[w]
      /\ look'[l] = y
  BY DEF Becomes, TypeOK
<1>2. Room(Calls(kind), Limit[kind]) /\ Limit[kind] \in Nat
  BY LimitNumbers DEF CallsLimited
<1>3. CASE y.on = l /\ y.pc = kind /\ l \notin Calls(kind)
  <2>1. Cardinality(Calls(kind)) < Limit[kind] BY <1>3 DEF Allowed
  <2>2. Calls(kind)' = Calls(kind) \cup {l} BY <1>1, <1>3 DEF Calls
  <2> QED BY <1>2, <2>1, <2>2, OneMoreFits DEF Room
<1>4. CASE ~(y.on = l /\ y.pc = kind /\ l \notin Calls(kind))
  <2>1. Calls(kind)' \subseteq Calls(kind) BY <1>1, <1>4 DEF Calls
  <2> QED BY <1>2, <2>1, SubsetRoom
<1> QED BY <1>3, <1>4

\* What awaits nothing begins nothing.
LEMMA RestAllowed ==
  ASSUME NEW l \in Lookups, NEW y, y.on = None
  PROVE  Allowed(l, y)
BY NoneIsNoLookup DEF Allowed

LEMMA JoinAllowed ==
  ASSUME NEW l \in Lookups, NEW x \in Fields, NEW kind \in Waiting,
         NEW s \in Calls(kind), NEW y, y = Joins(x, s, kind)
  PROVE  Allowed(l, y)
<1>1. y = Await(x, kind, s, None) BY AwaitForms
<1>2. kind \in Busy /\ s \in Lookups \cup {None} BY DEF Busy, Calls
<1>3. y.pc = kind /\ y.on = s BY <1>1, <1>2, AwaitFields
<1> QED BY <1>3 DEF Allowed

LEMMA BeginAllowed ==
  ASSUME NEW l \in Lookups, NEW x \in Fields, NEW kind \in Waiting,
         Cardinality(Calls(kind)) < Limit[kind], NEW y, y = Begins(x, l, kind)
  PROVE  Allowed(l, y) /\ y \in Fields /\ y.pc = kind
<1>1. y = Await(x, kind, l, None) BY AwaitForms
<1>2. kind \in Busy /\ l \in Lookups \cup {None} BY DEF Busy
<1>3. y \in Fields /\ y.pc = kind BY <1>1, <1>2, AwaitFields
<1> QED BY <1>3 DEF Allowed

LEMMA ThrowAllowed ==
  ASSUME NEW l \in Lookups, NEW x \in Fields, NEW r \in Answers,
         NEW y, y = Throws(x, r)
  PROVE  Allowed(l, y)
<1>1. y = Await(x, "thrown", None, r) BY AwaitForms
<1>2. y.on = None BY <1>1, AwaitFields DEF Busy
<1> QED BY <1>2, RestAllowed

LEMMA HitAllowed ==
  ASSUME NEW l \in Lookups, NEW x \in Fields, NEW kind \in Waiting,
         NEW r \in Answers \cup {None}, NEW y, y = Hits(x, kind, r)
  PROVE  Allowed(l, y) /\ y \in Fields /\ y.on = None
<1>1. y = Await(x, kind, None, r) BY AwaitForms
<1>2. kind \in Busy /\ None \in Lookups \cup {None} BY DEF Busy
<1>3. y \in Fields /\ y.on = None BY <1>1, <1>2, AwaitFields
<1> QED BY <1>3, RestAllowed

\* What a lookup may become, and what that does to the authorizations
AdmittedWithin(l) ==
  /\ \E y : Becomes(l, y) /\ Allowed(l, y)
  /\ Room(authorizations', MaxAuthorizations)

LEMMA AuthorizeLimits ==
  ASSUME RepositoryInv, LimitsInv, NEW l \in Lookups, NEW x \in Fields,
         NEW known \in SUBSET authorizations, Authorize(l, x, known)
  PROVE  AdmittedWithin(l)
<1> DEFINE same == {e \in known : e.key = Key(x, x.admission)}
           asked == [principal |-> x.principal, strategy |-> x.strategy,
                     object |-> x.object, at |-> version[x.object]]
<1>1. /\ MaxAuthorizations \in Nat \ {0} /\ Room(known, MaxAuthorizations)
      /\ "authorizing" \in Waiting /\ Limit["authorizing"] = MaxAuthorizations
      /\ Cardinality(Calls("authorizing")) \in Nat
  BY LimitNumbers, SubsetRoom, FS_CardinalityType
     DEF LimitsInv, Waiting, Limit, CallsLimited, Room
<1>2. TypeOK /\ AuthorizationsCurrent BY DEF RepositoryInv
<1>3. asked \in Permits BY <1>2 DEF TypeOK, Fields, Permits
<1>4. ASSUME NEW e \in same,
             Becomes(l, IF e.promise # None THEN Joins(x, e.promise, "authorizing")
                        ELSE [Hits(x, "authorizing", "ok") EXCEPT !.permit = e.permit]),
             authorizations' = known
      PROVE  AdmittedWithin(l)
  <2>1. CASE e.promise # None
    <3>1. e.promise \in Calls("authorizing")
      BY <1>2, <2>1 DEF AuthorizationsCurrent, Running
    <3> QED BY <1>1, <1>4, <2>1, <3>1, JoinAllowed DEF AdmittedWithin
  <2>2. CASE e.promise = None
    <3>1. PICK z : z = Hits(x, "authorizing", "ok") OBVIOUS
    <3>2. z \in Fields /\ z.on = None
      BY <1>1, <3>1, HitAllowed DEF Answers
    <3>3. [z EXCEPT !.permit = e.permit].on = None BY <3>2 DEF Fields
    <3>4. Allowed(l, [z EXCEPT !.permit = e.permit]) BY <3>3, RestAllowed
    <3> QED BY <1>1, <1>4, <2>2, <3>1, <3>4 DEF AdmittedWithin
  <2> QED BY <2>1, <2>2
<1>5. ASSUME Becomes(l, Throws(x, "other")), authorizations' = known
      PROVE  AdmittedWithin(l)
  BY <1>1, <1>5, ThrowAllowed DEF AdmittedWithin, Answers
<1>6. ASSUME ~Full(known, Calls("authorizing"), MaxAuthorizations),
             NEW rest \in SUBSET known, MakesRoom(known, MaxAuthorizations, rest),
             authorizations' = rest \cup
               {[key |-> Key(x, x.admission), promise |-> l, permit |-> asked]},
             Becomes(l, [Begins(x, l, "authorizing") EXCEPT !.permit = asked])
      PROVE  AdmittedWithin(l)
  <2>1. Cardinality(Calls("authorizing")) < MaxAuthorizations
    BY <1>1, <1>6 DEF Full
  <2>2. PICK z : z = Begins(x, l, "authorizing") OBVIOUS
  <2>3. Allowed(l, z) /\ z \in Fields /\ z.pc = "authorizing"
    BY <1>1, <2>1, <2>2, BeginAllowed
  <2>4. PICK y : y = [z EXCEPT !.permit = asked] OBVIOUS
  <2>5. y.pc = "authorizing" BY <2>3, <2>4 DEF Fields
  <2>6. Allowed(l, y) BY <1>1, <2>1, <2>5 DEF Allowed
  <2>7. Room(authorizations', MaxAuthorizations) BY <1>1, <1>6, RoomIsMade
  <2> QED BY <1>6, <2>2, <2>4, <2>6, <2>7 DEF AdmittedWithin
<1> QED BY <1>4, <1>5, <1>6 DEF Authorize

LEMMA AdmissionLimits ==
  ASSUME RepositoryInv, LimitsInv, NEW l \in Lookups, NEW x \in Fields,
         NEW known \in SUBSET authorizations, Admission(l, x, known)
  PROVE  AdmittedWithin(l)
<1>1. CASE state = "retired"
  <2>1. Becomes(l, Throws(x, "other")) /\ authorizations' = known
    BY <1>1 DEF Admission
  <2>2. Room(known, MaxAuthorizations)
    BY LimitNumbers, SubsetRoom DEF LimitsInv
  <2> QED BY <2>1, <2>2, ThrowAllowed DEF AdmittedWithin, Answers
<1>2. CASE state # "retired"
  <2>1. PICK y : y = [x EXCEPT !.admission = x.epoch] OBVIOUS
  <2>2. y \in Fields BY <2>1, UpdateType DEF Fields
  <2>3. PICK z : z = [y EXCEPT !.asOf = x.since] OBVIOUS
  <2>4. z \in Fields BY <2>2, <2>3, UpdateType DEF Fields
  <2>5. z = [x EXCEPT !.admission = x.epoch, !.asOf = x.since] BY <2>1, <2>3
  <2>6. Authorize(l, z, known) BY <1>2, <2>5 DEF Admission
  <2> QED BY <2>4, <2>6, AuthorizeLimits
<1> QED BY <1>1, <1>2

(***************************************************************************)
(* The steps of a lookup                                                   *)
(***************************************************************************)
LEMMA ProbeLimits ==
  ASSUME RepositoryInv, LimitsInv, NEW l \in Lookups, NEW x \in Fields,
         Probe(l, x)
  PROVE  (\E y : Becomes(l, y) /\ Allowed(l, y)) /\ Room(probes', MaxProbes)
<1> DEFINE same == {e \in probes : e.principal = x.principal}
<1>1. /\ MaxProbes \in Nat \ {0} /\ Room(probes, MaxProbes)
      /\ "probing" \in Waiting /\ Limit["probing"] = MaxProbes
      /\ Cardinality(Calls("probing")) \in Nat
  BY LimitNumbers, FS_CardinalityType
     DEF LimitsInv, Waiting, Limit, CallsLimited, Room
<1>2. TypeOK /\ ProbesCurrent BY DEF RepositoryInv
<1>3. ASSUME NEW e \in same, UNCHANGED probes,
             Becomes(l, IF e.promise # None THEN Joins(x, e.promise, "probing")
                        ELSE Hits(x, "probing", e.result))
      PROVE  (\E y : Becomes(l, y) /\ Allowed(l, y)) /\ Room(probes', MaxProbes)
  <2>1. CASE e.promise # None
    <3>1. e.promise \in Calls("probing")
      BY <1>2, <2>1 DEF ProbesCurrent, Running
    <3> QED BY <1>1, <1>3, <2>1, <3>1, JoinAllowed
  <2>2. CASE e.promise = None
    <3>1. e.result \in Answers \cup {None}
      BY <1>2 DEF TypeOK, ProbeEntries, Answers
    <3>2. Allowed(l, Hits(x, "probing", e.result))
      BY <1>1, <3>1, HitAllowed
    <3> QED BY <1>1, <1>3, <2>2, <3>2
  <2> QED BY <2>1, <2>2
<1>4. ASSUME Becomes(l, Fails(x)), UNCHANGED probes
      PROVE  (\E y : Becomes(l, y) /\ Allowed(l, y)) /\ Room(probes', MaxProbes)
  <2>1. Fails(x).on = None BY FailsFields
  <2> QED BY <1>1, <1>4, <2>1, RestAllowed
<1>5. ASSUME ~Full(probes, Calls("probing"), MaxProbes),
             NEW rest \in SUBSET probes, MakesRoom(probes, MaxProbes, rest),
             probes' = rest \cup {[principal |-> x.principal, result |-> None,
                                   promise |-> l, at |-> sweeps]},
             Becomes(l, Begins(x, l, "probing"))
      PROVE  (\E y : Becomes(l, y) /\ Allowed(l, y)) /\ Room(probes', MaxProbes)
  <2>1. Cardinality(Calls("probing")) < MaxProbes
    BY <1>1, <1>5 DEF Full
  <2>2. Allowed(l, Begins(x, l, "probing"))
    BY <1>1, <2>1, BeginAllowed
  <2>3. Room(probes', MaxProbes) BY <1>1, <1>5, RoomIsMade
  <2> QED BY <1>5, <2>2, <2>3
<1> QED BY <1>3, <1>4, <1>5 DEF Probe

\* A step that makes y of l, and touches neither the cache nor the epochs
LEMMA StepWithin ==
  ASSUME TypeOK, LimitsInv, NEW l \in Lookups, NEW y, Becomes(l, y),
         Allowed(l, y), UNCHANGED <<cache, retainedBytes, objectEpochs>>,
         Room(probes', MaxProbes), Room(authorizations', MaxAuthorizations)
  PROVE  LimitsInv'
<1>1. CallsLimited' BY CallsStayLimited DEF LimitsInv
<1>2. CacheLimited' BY DEF LimitsInv, CacheLimited, TotalBytes, BytesOf, Room
<1>3. Room(Tracked, MaxObjectEpochs)' BY DEF LimitsInv, Tracked, Room
<1>4. Room(probes, MaxProbes)' /\ Room(authorizations, MaxAuthorizations)'
  BY DEF Room
<1> QED BY <1>1, <1>2, <1>3, <1>4 DEF LimitsInv

LEMMA GetWithin ==
  ASSUME RepositoryInv, LimitsInv, NEW l \in Lookups, NEW o \in Objects,
         NEW p \in Principals, Get(l, o, p)
  PROVE  LimitsInv'
<1>1. TypeOK BY DEF RepositoryInv
<1>2. PICK x : x = Asked(l, o, p) OBVIOUS
<1>3. x \in Fields BY <1>1, <1>2, AskedFields
<1>4. Room(authorizations', MaxAuthorizations) BY DEF Get, LimitsInv
<1>5. ASSUME Probe(l, x) PROVE LimitsInv'
  BY <1>1, <1>3, <1>4, <1>5, ProbeLimits, StepWithin DEF Get
<1>6. ASSUME Becomes(l, [x EXCEPT !.pc = "selected", !.strategy = Mode[p]]),
             UNCHANGED probes
      PROVE  LimitsInv'
  <2>1. PICK y : y = [x EXCEPT !.pc = "selected", !.strategy = Mode[p]] OBVIOUS
  <2>2. y.pc = "selected" BY <1>3, <2>1 DEF Fields
  <2>3. Allowed(l, y) BY <2>2 DEF Allowed, Waiting
  <2>4. Room(probes', MaxProbes) BY <1>6 DEF LimitsInv
  <2> QED BY <1>1, <1>4, <1>6, <2>1, <2>3, <2>4, StepWithin DEF Get
<1> QED BY <1>2, <1>5, <1>6 DEF Get

LEMMA AbortWithin ==
  ASSUME RepositoryInv, LimitsInv, NEW l \in Lookups, Abort(l)
  PROVE  LimitsInv'
<1>1. TypeOK BY DEF RepositoryInv
<1>2. PICK y : y = [look[l] EXCEPT !.answer = "canceled"] OBVIOUS
<1>3. y.pc = look[l].pc /\ y.on = look[l].on
  BY <1>1, <1>2 DEF TypeOK, Fields
<1>4. Allowed(l, y) BY <1>3 DEF Allowed, Calls
<1>5. Room(probes', MaxProbes) /\ Room(authorizations', MaxAuthorizations)
  BY DEF Abort, LimitsInv
<1> QED BY <1>1, <1>2, <1>4, <1>5, StepWithin DEF Abort

LEMMA SelectsWithin ==
  ASSUME RepositoryInv, LimitsInv, NEW l \in Lookups, Selects(l)
  PROVE  LimitsInv'
<1> DEFINE x == look[l]
<1>1. TypeOK /\ x \in Fields BY DEF RepositoryInv, TypeOK
<1>2. Room(probes', MaxProbes) BY DEF Selects, LimitsInv
<1>3. ASSUME NEW z \in Fields, Admission(l, z, authorizations) PROVE LimitsInv'
  BY <1>1, <1>2, <1>3, AdmissionLimits, StepWithin DEF Selects, AdmittedWithin
<1>4. ASSUME Becomes(l, Fails(x)), UNCHANGED authorizations PROVE LimitsInv'
  <2>1. Fails(x).on = None BY <1>1, FailsFields
  <2>2. Room(authorizations', MaxAuthorizations) BY <1>4 DEF LimitsInv
  <2> QED BY <1>1, <1>2, <1>4, <2>1, <2>2, RestAllowed, StepWithin DEF Selects
<1>5. [x EXCEPT !.strategy = "optimized"] \in Fields
  BY <1>1, UpdateType DEF Strategies
<1> QED BY <1>1, <1>3, <1>4, <1>5 DEF Selects

LEMMA ReadsLimits ==
  ASSUME RepositoryInv, LimitsInv, NEW l \in Lookups, NEW x \in Fields,
         Reads(l, x)
  PROVE  \E y : Becomes(l, y) /\ Allowed(l, y)
<1>1. TypeOK /\ JoinableLoads BY DEF RepositoryInv
<1>2. /\ "loading" \in Waiting /\ Limit["loading"] = MaxLoads
      /\ MaxLoads \in Nat /\ Cardinality(Calls("loading")) \in Nat
  BY LimitNumbers, FS_CardinalityType
     DEF LimitsInv, Waiting, Limit, CallsLimited, Room
<1>3. ASSUME NEW e \in cache, Becomes(l, Returns(x, e.seen))
      PROVE  \E y : Becomes(l, y) /\ Allowed(l, y)
  <2>1. e.seen \in Nat BY <1>1 DEF TypeOK, CacheEntries
  <2>2. Returns(x, e.seen).on = None BY <2>1, ReturnsFields
  <2> QED BY <1>3, <2>2, RestAllowed
<1>4. ASSUME NEW s \in inFlight, Becomes(l, Joins(x, s, "loading"))
      PROVE  \E y : Becomes(l, y) /\ Allowed(l, y)
  <2>1. s \in Calls("loading") BY <1>1 DEF JoinableLoads
  <2> QED BY <1>2, <1>4, <2>1, JoinAllowed
<1>5. ASSUME Becomes(l, Throws(x, "other"))
      PROVE  \E y : Becomes(l, y) /\ Allowed(l, y)
  BY <1>5, ThrowAllowed DEF Answers
<1>6. ASSUME ~LoadsFull,
             Becomes(l, [Begins(x, l, "loading") EXCEPT !.value = version[x.object]])
      PROVE  \E y : Becomes(l, y) /\ Allowed(l, y)
  <2>1. Cardinality(Calls("loading")) < MaxLoads BY <1>2, <1>6 DEF LoadsFull
  <2>2. PICK z : z = Begins(x, l, "loading") OBVIOUS
  <2>3. z \in Fields /\ z.pc = "loading" BY <1>2, <2>1, <2>2, BeginAllowed
  <2>4. PICK y : y = [z EXCEPT !.value = version[x.object]] OBVIOUS
  <2>5. y.pc = "loading" BY <2>3, <2>4 DEF Fields
  <2>6. Allowed(l, y) BY <1>2, <2>1, <2>5 DEF Allowed
  <2> QED BY <1>6, <2>2, <2>4, <2>6
<1> QED BY <1>3, <1>4, <1>5, <1>6 DEF Reads

LEMMA AdmitsWithin ==
  ASSUME RepositoryInv, LimitsInv, NEW l \in Lookups, Admits(l)
  PROVE  LimitsInv'
<1> DEFINE x == look[l]
           known == Forget(authorizations, Key(x, x.admission))
<1>1. TypeOK /\ x \in Fields BY DEF RepositoryInv, TypeOK
<1>2. Room(probes', MaxProbes) BY DEF Admits, LimitsInv
<1>3. ASSUME Becomes(l, Throws(x, "other")), UNCHANGED authorizations
      PROVE  LimitsInv'
  <2>1. Room(authorizations', MaxAuthorizations) BY <1>3 DEF LimitsInv
  <2> QED BY <1>1, <1>2, <1>3, <2>1, ThrowAllowed, StepWithin DEF Admits, Answers
<1>4. ASSUME Authorize(l, Readmitted(x), known) PROVE LimitsInv'
  <2>1. PICK y : y = [x EXCEPT !.admission = EpochFor(x.object)] OBVIOUS
  <2>2. EpochFor(x.object) \in Epochs /\ version[x.object] \in Nat
    BY <1>1 DEF EpochFor, Epochs, TypeOK, Fields
  <2>3. y \in Fields BY <1>1, <2>1, <2>2, UpdateType
  <2>4. PICK z : z = [y EXCEPT !.asOf = version[x.object]] OBVIOUS
  <2>5. z \in Fields BY <2>2, <2>3, <2>4, UpdateType
  <2>6. z = Readmitted(x) BY <2>1, <2>4 DEF Readmitted
  <2>7. known \subseteq authorizations BY DEF Forget
  <2>8. AdmittedWithin(l) BY <1>4, <2>5, <2>6, <2>7, AuthorizeLimits
  <2> QED BY <1>1, <1>2, <2>8, StepWithin DEF Admits, AdmittedWithin
<1>5. ASSUME Reads(l, x), UNCHANGED authorizations PROVE LimitsInv'
  <2>1. Room(authorizations', MaxAuthorizations) BY <1>5 DEF LimitsInv
  <2> QED BY <1>1, <1>2, <1>5, <2>1, ReadsLimits, StepWithin DEF Admits
<1> QED BY <1>3, <1>4, <1>5 DEF Admits

LEMMA LoadResumesWithin ==
  ASSUME RepositoryInv, LimitsInv, NEW l \in Lookups, LoadResumes(l)
  PROVE  LimitsInv'
<1> DEFINE x == look[l]
<1>1. TypeOK /\ x \in Fields BY DEF RepositoryInv, TypeOK
<1>2. Room(probes', MaxProbes) BY DEF LoadResumes, LimitsInv
<1>3. Room(authorizations', MaxAuthorizations)
  BY LimitNumbers, SubsetRoom DEF LoadResumes, LimitsInv, Forget
<1>4. ASSUME Becomes(l, Returns(x, x.value)) PROVE LimitsInv'
  <2>1. x.value \in Nat BY <1>1 DEF Fields
  <2>2. Returns(x, x.value).on = None BY <1>1, <2>1, ReturnsFields
  <2> QED BY <1>1, <1>2, <1>3, <1>4, <2>2, RestAllowed, StepWithin DEF LoadResumes
<1>5. ASSUME Becomes(l, Throws(x, x.outcome)) PROVE LimitsInv'
  <2>1. x.outcome \in Answers
    BY <1>1 DEF LoadResumes, Resumed, Fields
  <2>2. Allowed(l, Throws(x, x.outcome)) BY <1>1, <2>1, ThrowAllowed
  <2> QED BY <1>1, <1>2, <1>3, <1>5, <2>2, StepWithin DEF LoadResumes
<1> QED BY <1>4, <1>5 DEF LoadResumes

LEMMA UnwindsWithin ==
  ASSUME RepositoryInv, LimitsInv, NEW l \in Lookups, Unwinds(l)
  PROVE  LimitsInv'
<1> DEFINE x == look[l]
           forgotten == Forget(authorizations, Key(x, x.epoch))
<1>1. TypeOK /\ x \in Fields BY DEF RepositoryInv, TypeOK
<1>2. forgotten \subseteq authorizations BY DEF Forget
<1>3. ASSUME Becomes(l, Fails(x)), UNCHANGED probes,
             authorizations' \subseteq authorizations
      PROVE  LimitsInv'
  <2>1. Fails(x).on = None BY <1>1, FailsFields
  <2>2. Room(authorizations', MaxAuthorizations) /\ Room(probes', MaxProbes)
    BY <1>3, LimitNumbers, SubsetRoom DEF LimitsInv
  <2> QED BY <1>1, <1>3, <2>1, <2>2, RestAllowed, StepWithin DEF Unwinds
<1>4. ASSUME Remembers(x),
             Admission(l, [x EXCEPT !.strategy = "classic", !.fellBack = TRUE],
                       forgotten)
      PROVE  LimitsInv'
  <2>1. PICK y : y = [x EXCEPT !.strategy = "classic"] OBVIOUS
  <2>2. y \in Fields BY <1>1, <2>1, UpdateType DEF Strategies
  <2>3. PICK z : z = [y EXCEPT !.fellBack = TRUE] OBVIOUS
  <2>4. z \in Fields BY <2>2, <2>3, UpdateType
  <2>5. z = [x EXCEPT !.strategy = "classic", !.fellBack = TRUE] BY <2>1, <2>3
  <2>6. AdmittedWithin(l) BY <1>2, <1>4, <2>4, <2>5, AdmissionLimits
  <2>7. Room(probes, MaxProbes) /\ MaxProbes \in Nat \ {0}
    BY LimitNumbers DEF LimitsInv
  <2>8. Room(probes', MaxProbes)
    <3> DEFINE others == {e \in probes : e.principal # x.principal}
               denial == [principal |-> x.principal, result |-> "denied",
                          promise |-> None, at |-> x.sweep]
    <3>1. CASE UNCHANGED probes BY <2>7, <3>1
    <3>2. CASE others # probes /\ probes' = others \cup {denial}
      BY <2>7, <3>2, OneForAnother
    <3>3. CASE \E rest \in SUBSET probes : /\ MakesRoom(probes, MaxProbes, rest)
                                           /\ probes' = rest \cup {denial}
      <4>1. PICK rest : /\ MakesRoom(probes, MaxProbes, rest)
                        /\ probes' = rest \cup {denial}
        BY <3>3
      <4> HIDE DEF denial
      <4>2. Room(rest \cup {denial}, MaxProbes) BY <2>7, <4>1, RoomIsMade
      <4> QED BY <4>1, <4>2
    <3> QED BY <1>4, <3>1, <3>2, <3>3 DEF Remembers
  <2> QED BY <1>1, <2>6, <2>8, StepWithin DEF Unwinds, AdmittedWithin
<1> QED BY <1>2, <1>3, <1>4 DEF Unwinds

(***************************************************************************)
(* The answers of the adapter                                              *)
(***************************************************************************)
\* An answer begins no call.
LEMMA AnswerAllowed ==
  ASSUME TypeOK, NEW l \in Lookups, NEW y, y.pc = look[l].pc, y.on = look[l].on
  PROVE  Allowed(l, y)
BY DEF Allowed, Calls

\* A table in which the entries of S are replaced by at most one
LEMMA TableAmended ==
  ASSUME NEW n \in Nat, NEW T, Room(T, n), NEW S \in SUBSET T, NEW R, NEW e,
         R \subseteq {e}, S = {} => R = {}
  PROVE  Room((T \ S) \cup R, n)
<1>1. CASE R = {}
  BY <1>1, SubsetRoom
<1>2. CASE R # {}
  <2>1. R = {e} /\ T \ S \subseteq T /\ T \ S # T BY <1>2
  <2> QED BY <2>1, OneForAnother
<1> QED BY <1>1, <1>2

LEMMA ProbeAnswersWithin ==
  ASSUME RepositoryInv, LimitsInv, NEW l \in Lookups, NEW r \in Answers,
         ProbeAnswers(l, r)
  PROVE  LimitsInv'
<1> DEFINE mine == {e \in probes : e.promise = l}
           settled == {[e EXCEPT !.promise = None, !.result = r] :
                         e \in IF r = "other" THEN {} ELSE mine}
           decided == {[principal |-> look[l].principal, result |-> r,
                        promise |-> None, at |-> sweeps]}
<1>1. TypeOK /\ ProbesCurrent BY DEF RepositoryInv
<1>2. PICK y : y = [look[l] EXCEPT !.outcome = r] OBVIOUS
<1>3. y.pc = look[l].pc /\ y.on = look[l].on BY <1>1, <1>2 DEF TypeOK, Fields
<1>4. Allowed(l, y) BY <1>1, <1>3, AnswerAllowed
<1>5. settled \subseteq decided
  <2> SUFFICES ASSUME NEW e \in mine
               PROVE  [e EXCEPT !.promise = None, !.result = r] \in decided
    OBVIOUS
  <2>1. e \in ProbeEntries /\ e.at = sweeps /\ e.principal = look[l].principal
    BY <1>1, NoneIsNoLookup DEF TypeOK, ProbesCurrent
  <2>2. PICK f : f = [e EXCEPT !.promise = None] OBVIOUS
  <2>3. f = [principal |-> e.principal, result |-> e.result, promise |-> None,
             at |-> e.at]
    BY <2>1, <2>2 DEF ProbeEntries
  <2>4. [f EXCEPT !.result = r] = [principal |-> e.principal, result |-> r,
                                   promise |-> None, at |-> e.at]
    BY <2>3
  <2> QED BY <2>1, <2>2, <2>4
<1>6. Room((probes \ mine) \cup settled, MaxProbes)
  <2>1. mine \in SUBSET probes /\ (mine = {} => settled = {}) OBVIOUS
  <2>2. PICK d : decided = {d} OBVIOUS
  <2> HIDE DEF mine, settled, decided
  <2> QED BY <1>5, <2>1, <2>2, LimitNumbers, TableAmended DEF LimitsInv
<1>7. Room(probes', MaxProbes) BY <1>6 DEF ProbeAnswers
<1>8. Room(authorizations', MaxAuthorizations) BY DEF ProbeAnswers, LimitsInv
<1> QED BY <1>1, <1>2, <1>4, <1>7, <1>8, StepWithin DEF ProbeAnswers

LEMMA AuthorizeAnswersWithin ==
  ASSUME RepositoryInv, LimitsInv, NEW l \in Lookups, NEW r \in Answers,
         AuthorizeAnswers(l, r)
  PROVE  LimitsInv'
<1> DEFINE x == look[l]
           mine == {e \in authorizations : e.promise = l}
           valid == /\ r = "ok" /\ state = "active"
                    /\ x.admission = EpochFor(x.object)
           settled == {[e EXCEPT !.promise = None] :
                         e \in IF valid THEN mine ELSE {}}
           granted == {[key |-> Key(x, x.admission), promise |-> None,
                        permit |-> x.permit]}
<1>1. TypeOK /\ AuthorizationsCurrent BY DEF RepositoryInv
<1>2. PICK y : y = [x EXCEPT !.outcome = r] OBVIOUS
<1>3. y.pc = x.pc /\ y.on = x.on BY <1>1, <1>2 DEF TypeOK, Fields
<1>4. Allowed(l, y) BY <1>1, <1>3, AnswerAllowed
<1>5. settled \subseteq granted
  <2> SUFFICES ASSUME NEW e \in mine
               PROVE  [e EXCEPT !.promise = None] \in granted
    OBVIOUS
  <2>1. /\ e \in AuthorizationEntries /\ e.key = Key(x, x.admission)
        /\ e.permit = x.permit
    BY <1>1, NoneIsNoLookup DEF TypeOK, AuthorizationsCurrent
  <2> QED BY <2>1 DEF AuthorizationEntries
<1>6. Room((authorizations \ mine) \cup settled, MaxAuthorizations)
  <2>1. mine \in SUBSET authorizations /\ (mine = {} => settled = {}) OBVIOUS
  <2> HIDE DEF mine, settled
  <2> QED BY <1>5, <2>1, LimitNumbers, TableAmended DEF LimitsInv
<1>7. Room(authorizations', MaxAuthorizations) BY <1>6 DEF AuthorizeAnswers
<1>8. Room(probes', MaxProbes) BY DEF AuthorizeAnswers, LimitsInv
<1> QED BY <1>1, <1>2, <1>4, <1>7, <1>8, StepWithin DEF AuthorizeAnswers

(***************************************************************************)
(* Bytes                                                                   *)
(***************************************************************************)
\* Entries that were admitted to the cache
Fitting(S) ==
  /\ IsFiniteSet(S) /\ S \subseteq CacheEntries
  /\ \A e \in S : e.bytes <= MaxRetainedBytes

LEMMA BytesAreFinite ==
  ASSUME NEW S, Fitting(S)
  PROVE  IsFiniteSet(BytesOf(S)) /\ TotalBytes(S) \in Nat
<1>1. MaxRetainedBytes \in Nat /\ \A e \in S : e.bytes \in Nat
  BY LimitNumbers DEF Fitting, CacheEntries
<1>2. BytesOf(S) \subseteq S \X (1..MaxRetainedBytes)
  BY <1>1 DEF BytesOf, Fitting
<1>3. IsFiniteSet(S \X (1..MaxRetainedBytes))
  <2>1. IsFiniteSet(S) /\ IsFiniteSet(1..MaxRetainedBytes)
    BY <1>1, FS_Interval DEF Fitting
  <2> QED BY <2>1, FS_Product, Zenon
<1>4. IsFiniteSet(BytesOf(S)) BY <1>2, <1>3, FS_Subset
<1> QED BY <1>4, FS_CardinalityType DEF TotalBytes

LEMMA NoBytes == TotalBytes({}) = 0
<1>1. BytesOf({}) = {} BY DEF BytesOf
<1> QED BY <1>1, FS_EmptySet DEF TotalBytes

\* What is evicted gives its bytes back.
LEMMA BytesGivenBack ==
  ASSUME NEW S, Fitting(S), NEW T \in SUBSET S
  PROVE  /\ Fitting(S \ T) /\ TotalBytes(T) \in Nat
         /\ TotalBytes(S \ T) = TotalBytes(S) - TotalBytes(T)
<1>1. Fitting(T) /\ Fitting(S \ T) BY FS_Subset DEF Fitting
<1>2. /\ BytesOf(S \ T) = BytesOf(S) \ BytesOf(T)
      /\ BytesOf(S) \cap BytesOf(T) = BytesOf(T)
  BY DEF BytesOf
<1>3. IsFiniteSet(BytesOf(S)) /\ TotalBytes(T) \in Nat BY <1>1, BytesAreFinite
<1>4. Cardinality(BytesOf(S) \ BytesOf(T))
        = Cardinality(BytesOf(S)) - Cardinality(BytesOf(S) \cap BytesOf(T))
  BY <1>3, FS_Difference, Zenon
<1> QED BY <1>1, <1>2, <1>3, <1>4 DEF TotalBytes

LEMMA UpToSize ==
  ASSUME NEW n \in Nat
  PROVE  IsFiniteSet(1..n) /\ Cardinality(1..n) = n
<1>1. n \in Int /\ 1 \in Int OBVIOUS
<1>2. /\ IsFiniteSet(1..n)
      /\ Cardinality(1..n) = IF 1 > n THEN 0 ELSE n - 1 + 1
  BY <1>1, FS_Interval, Zenon
<1> QED BY <1>2

\* What is cached takes its own.
LEMMA BytesTaken ==
  ASSUME NEW S, Fitting(S), NEW e \in CacheEntries, e \notin S,
         e.bytes <= MaxRetainedBytes
  PROVE  /\ Fitting(S \cup {e})
         /\ TotalBytes(S \cup {e}) = TotalBytes(S) + e.bytes
<1> DEFINE own == {e} \X (1..e.bytes)
<1>1. e.bytes \in Nat BY LimitNumbers DEF CacheEntries
<1>2. Fitting(S \cup {e}) BY FS_AddElement DEF Fitting
<1>3. IsFiniteSet(own) /\ Cardinality(own) = e.bytes
  <2>1. IsFiniteSet(1..e.bytes) /\ Cardinality(1..e.bytes) = e.bytes
    BY <1>1, UpToSize, Zenon
  <2>2. IsFiniteSet({e}) /\ Cardinality({e}) = 1 BY FS_Singleton
  <2>3. /\ IsFiniteSet(own)
        /\ Cardinality(own) = Cardinality({e}) * Cardinality(1..e.bytes)
    BY <2>1, <2>2, FS_Product, Zenon
  <2> HIDE DEF own
  <2> QED BY <1>1, <2>1, <2>2, <2>3
<1>4. BytesOf(S \cup {e}) = BytesOf(S) \cup own BY DEF BytesOf
<1>5. BytesOf(S) \cap own = {} BY DEF BytesOf
<1>6. IsFiniteSet(BytesOf(S)) /\ Cardinality(BytesOf(S)) \in Nat
  BY BytesAreFinite, FS_CardinalityType
<1>7. Cardinality({}) = 0 BY FS_EmptySet
<1> HIDE DEF own
<1>8. Cardinality(BytesOf(S) \cup own)
        = Cardinality(BytesOf(S)) + Cardinality(own) - Cardinality(BytesOf(S) \cap own)
  BY <1>3, <1>6, FS_Union, Zenon
<1>9. Cardinality(BytesOf(S) \cap own) = 0 BY <1>5, <1>7, Zenon
<1>10. Cardinality(BytesOf(S) \cup own) = Cardinality(BytesOf(S)) + e.bytes
  BY <1>1, <1>3, <1>6, <1>8, <1>9
<1> QED BY <1>2, <1>4, <1>10 DEF TotalBytes

LEMMA CacheFits ==
  ASSUME RepositoryInv, LimitsInv
  PROVE  Fitting(cache)
BY DEF RepositoryInv, TypeOK, LimitsInv, CacheLimited, Fitting, Room

\* The entries of S leave the cache.
LEMMA CacheShrinks ==
  ASSUME RepositoryInv, LimitsInv, NEW S \in SUBSET cache,
         cache' = cache \ S, retainedBytes' = retainedBytes - TotalBytes(S)
  PROVE  CacheLimited'
<1>1. /\ Fitting(cache \ S) /\ TotalBytes(S) \in Nat /\ TotalBytes(cache) \in Nat
      /\ TotalBytes(cache \ S) = TotalBytes(cache) - TotalBytes(S)
  BY CacheFits, BytesGivenBack, BytesAreFinite
<1>2. Room(cache', MaxEntries) BY LimitNumbers, SubsetRoom DEF LimitsInv, CacheLimited
<1>3. retainedBytes' = TotalBytes(cache') /\ retainedBytes' <= MaxRetainedBytes
  BY <1>1, LimitNumbers DEF LimitsInv, CacheLimited
<1>4. \A e \in cache' : e.bytes <= MaxRetainedBytes BY <1>1 DEF Fitting
<1> QED BY <1>2, <1>3, <1>4 DEF CacheLimited, Room, TotalBytes, BytesOf

\* Room is made for a new entry, whatever the order of use.
LEMMA CacheGrows ==
  ASSUME RepositoryInv, LimitsInv, NEW e \in CacheEntries, e \notin cache,
         e.bytes <= MaxRetainedBytes, NEW S \in SUBSET cache, Evicts(e.bytes, S),
         cache' = (cache \ S) \cup {e},
         retainedBytes' = (retainedBytes - TotalBytes(S)) + e.bytes
  PROVE  CacheLimited'
<1>1. /\ Fitting(cache \ S) /\ TotalBytes(S) \in Nat /\ TotalBytes(cache) \in Nat
      /\ TotalBytes(cache \ S) = TotalBytes(cache) - TotalBytes(S)
  BY CacheFits, BytesGivenBack, BytesAreFinite
<1>2. /\ Fitting(cache')
      /\ TotalBytes(cache') = TotalBytes(cache \ S) + e.bytes
  BY <1>1, BytesTaken
<1>3. /\ Cardinality(cache \ S) < MaxEntries
      /\ retainedBytes - TotalBytes(S) <= MaxRetainedBytes - e.bytes
  BY DEF Evicts, RoomFor
<1>4. Room(cache', MaxEntries)
  BY <1>1, <1>3, LimitNumbers, OneMoreFits DEF Fitting
<1>5. e.bytes \in Nat BY LimitNumbers DEF CacheEntries
<1>6. retainedBytes' = TotalBytes(cache') /\ retainedBytes' <= MaxRetainedBytes
  BY <1>1, <1>2, <1>3, <1>5, LimitNumbers DEF LimitsInv, CacheLimited
<1> QED BY <1>2, <1>4, <1>6 DEF CacheLimited, Fitting, Room, TotalBytes, BytesOf

LEMMA LoadAnswersWithin ==
  ASSUME RepositoryInv, LimitsInv, NEW l \in Lookups, NEW r \in Answers,
         NEW bytes \in Sizes, LoadAnswers(l, r, bytes)
  PROVE  LimitsInv'
<1> DEFINE x == [look[l] EXCEPT !.outcome = r]
           entry == [object |-> x.object, seen |-> x.value, bytes |-> bytes]
           cached == {e \in cache : e.object = x.object}
<1>1. TypeOK /\ look[l] \in Fields BY DEF RepositoryInv, TypeOK
<1>2. x \in Fields BY <1>1, UpdateType
<1>3. x.pc = look[l].pc /\ x.on = look[l].on BY <1>1 DEF Fields
<1>4. Allowed(l, x) BY <1>1, <1>3, AnswerAllowed
<1>5. CallsLimited'
  <2>1. CASE Becomes(l, x)
    BY <1>1, <1>4, <2>1, CallsStayLimited DEF LimitsInv
  <2>2. ASSUME NEW e \in cached, Becomes(l, [x EXCEPT !.value = e.seen])
        PROVE  CallsLimited'
    <3>1. PICK y : y = [x EXCEPT !.value = e.seen] OBVIOUS
    <3>2. y.pc = x.pc /\ y.on = x.on BY <1>2, <3>1 DEF Fields
    <3>3. Allowed(l, y) BY <1>1, <1>3, <3>2, AnswerAllowed
    <3> QED BY <1>1, <2>2, <3>1, <3>3, CallsStayLimited DEF LimitsInv
  <2> QED BY <2>1, <2>2 DEF LoadAnswers, CacheSnapshot
<1>6. Room(authorizations', MaxAuthorizations)
  <2>1. authorizations' \subseteq authorizations
    BY DEF LoadAnswers, CacheSnapshot, ForgetObjects
  <2> QED BY <2>1, LimitNumbers, SubsetRoom DEF LimitsInv
<1>7. CacheLimited'
  <2>1. CASE UNCHANGED <<cache, retainedBytes>>
    BY <2>1 DEF LimitsInv, CacheLimited, TotalBytes, BytesOf, Room
  <2>2. ASSUME cached = {}, bytes <= MaxRetainedBytes,
               NEW victims \in SUBSET cache, Evicts(bytes, victims),
               cache' = (cache \ victims) \cup {entry},
               retainedBytes' = (retainedBytes - TotalBytes(victims)) + bytes
        PROVE  CacheLimited'
    <3>1. PICK e : e = entry OBVIOUS
    <3>2. e \in CacheEntries /\ e.bytes = bytes /\ e \notin cache
      BY <1>2, <2>2, <3>1 DEF Fields, CacheEntries
    <3> QED BY <2>2, <3>1, <3>2, CacheGrows
  <2>3. \/ UNCHANGED <<cache, retainedBytes>>
        \/ /\ cached = {} /\ ~(bytes > MaxRetainedBytes)
           /\ \E victims \in SUBSET cache :
                /\ Evicts(bytes, victims)
                /\ cache' = (cache \ victims) \cup {entry}
                /\ retainedBytes' = (retainedBytes - TotalBytes(victims)) + bytes
    BY DEF LoadAnswers, CacheSnapshot
  <2>4. ~(bytes > MaxRetainedBytes) => bytes <= MaxRetainedBytes
    BY LimitNumbers
  <2> QED BY <2>1, <2>2, <2>3, <2>4
<1>8. Room(probes, MaxProbes)' /\ Room(Tracked, MaxObjectEpochs)'
  BY DEF LimitsInv, LoadAnswers, Room, Tracked
<1> QED BY <1>5, <1>6, <1>7, <1>8 DEF LimitsInv, Room

LEMMA CallEndsWithin ==
  ASSUME RepositoryInv, LimitsInv, NEW l \in Lookups, CallEnds(l)
  PROVE  LimitsInv'
<1>1. TypeOK BY DEF RepositoryInv
<1>2. ASSUME NEW kind \in Waiting PROVE Room(Calls(kind)', Limit[kind])
  <2>1. Calls(kind)' \subseteq Calls(kind)
    <3> SUFFICES ASSUME NEW w \in Calls(kind)' PROVE w \in Calls(kind)
      OBVIOUS
    <3>1. w \in Lookups /\ look'[w].pc = kind /\ look'[w].on = w BY DEF Calls
    <3>2. CASE look[w].on # l
      BY <3>1, <3>2 DEF CallEnds, Calls
    <3>3. CASE look[w].on = l
      <4>0. look[w] \in Fields BY <1>1, <3>1 DEF TypeOK
      <4>1. PICK y, z, p :
              look'[w] = [look[w] EXCEPT !.on = None, !.outcome = y, !.value = z,
                                         !.permit = p]
        BY <3>1, <3>3 DEF CallEnds
      <4>2. look'[w].on = None BY <4>0, <4>1 DEF Fields
      <4> QED BY <3>1, <4>2, NoneIsNoLookup
    <3> QED BY <3>2, <3>3
  <2> QED BY <2>1, LimitNumbers, SubsetRoom DEF LimitsInv, CallsLimited
<1>3. CallsLimited' BY <1>2 DEF CallsLimited, Limit
<1>4. CacheLimited' /\ Room(Tracked, MaxObjectEpochs)'
      /\ Room(probes, MaxProbes)' /\ Room(authorizations, MaxAuthorizations)'
  BY DEF CallEnds, LimitsInv, CacheLimited, TotalBytes, BytesOf, Room, Tracked
<1> QED BY <1>3, <1>4 DEF LimitsInv

(***************************************************************************)
(* Invalidation, retirement, and the theorem                               *)
(***************************************************************************)
LEMMA InvalidateWithin ==
  ASSUME RepositoryInv, LimitsInv, NEW o \in Objects, Invalidate(o)
  PROVE  LimitsInv'
<1>1. TypeOK BY DEF RepositoryInv
<1>2. CallsLimited' BY DEF Invalidate, LimitsInv, CallsLimited, Calls, Room, Limit
<1>3. CacheLimited' BY CacheShrinks DEF Invalidate
<1>4. Room(probes, MaxProbes)' BY DEF Invalidate, LimitsInv, Room
<1>5. Room(authorizations', MaxAuthorizations)
  <2>1. authorizations' \subseteq authorizations
    BY DEF Invalidate, AdvanceObjectEpoch, Compacted, Advanced, ForgetObjects
  <2> QED BY <2>1, LimitNumbers, SubsetRoom DEF LimitsInv
<1>6. Room(Tracked', MaxObjectEpochs)
  <2>1. MaxObjectEpochs \in Nat /\ Room(Tracked, MaxObjectEpochs)
        /\ Cardinality(Tracked) \in Nat
    BY LimitNumbers, FS_CardinalityType DEF LimitsInv, Room
  <2>2. CASE Compacts(o)
    <3>1. Tracked' = {} BY <2>2 DEF Invalidate, AdvanceObjectEpoch, Compacted, Tracked
    <3> QED BY <2>1, <3>1, EmptyRoom
  <2>3. CASE ~Compacts(o)
    <3>1. Tracked' \subseteq Tracked \cup {o}
      BY <1>1, <2>3 DEF Invalidate, AdvanceObjectEpoch, Advanced, Tracked, TypeOK
    <3>2. CASE o \in Tracked
      BY <2>1, <3>1, <3>2, SubsetRoom
    <3>3. CASE o \notin Tracked
      <4>1. Cardinality(Tracked) < MaxObjectEpochs BY <2>1, <2>3, <3>3 DEF Compacts
      <4>2. Room(Tracked \cup {o}, MaxObjectEpochs)
        BY <2>1, <4>1, OneMoreFits DEF Room
      <4> QED BY <2>1, <3>1, <4>2, SubsetRoom
    <3> QED BY <3>2, <3>3
  <2> QED BY <2>2, <2>3
<1> QED BY <1>2, <1>3, <1>4, <1>5, <1>6 DEF LimitsInv, Room

LEMMA ClearedWithin ==
  ASSUME LimitsInv, Clears, UNCHANGED look
  PROVE  LimitsInv'
<1>1. CallsLimited' BY DEF LimitsInv, CallsLimited, Calls, Room, Limit
<1>2. Room({}, MaxEntries) /\ Room({}, MaxProbes) /\ Room({}, MaxAuthorizations)
      /\ Room({}, MaxObjectEpochs) /\ MaxRetainedBytes >= 0
  BY LimitNumbers, EmptyRoom
<1>3. Tracked' = {} BY DEF Clears, Tracked
<1>4. TotalBytes(cache)' = 0 BY NoBytes DEF Clears, TotalBytes, BytesOf
<1> QED BY <1>1, <1>2, <1>3, <1>4 DEF Clears, LimitsInv, CacheLimited, Room

LEMMA InitWithin == Init => LimitsInv
<1> SUFFICES ASSUME Init PROVE LimitsInv
  OBVIOUS
<1>1. \A kind \in Waiting : Calls(kind) = {}
  BY DEF Init, Calls, Waiting
<1>2. CallsLimited BY <1>1, LimitNumbers, EmptyRoom DEF CallsLimited
<1>3. Room({}, MaxEntries) /\ Room({}, MaxProbes) /\ Room({}, MaxAuthorizations)
      /\ Room({}, MaxObjectEpochs) /\ MaxRetainedBytes >= 0
  BY LimitNumbers, EmptyRoom
<1>4. Tracked = {} BY DEF Init, Tracked
<1> QED BY <1>2, <1>3, <1>4, NoBytes DEF Init, LimitsInv, CacheLimited

LEMMA NextWithin == RepositoryInv /\ LimitsInv /\ [Next]_vars => LimitsInv'
<1> SUFFICES ASSUME RepositoryInv, LimitsInv, [Next]_vars PROVE LimitsInv'
  OBVIOUS
<1>1. ASSUME NEW l \in Lookups, Continues(l) \/ Replies(l) \/ CallEnds(l)
      PROVE  LimitsInv'
  BY <1>1, SelectsWithin, AdmitsWithin, LoadResumesWithin, UnwindsWithin,
     ProbeAnswersWithin, AuthorizeAnswersWithin, LoadAnswersWithin, CallEndsWithin
     DEF Continues, Replies
<1>2. ASSUME InvalidateAll \/ Retire PROVE LimitsInv'
  BY <1>2, ClearedWithin DEF InvalidateAll, Retire
<1>3. ASSUME RetirementEnds \/ UNCHANGED vars PROVE LimitsInv'
  BY <1>3 DEF RetirementEnds, vars, LimitsInv, CallsLimited, CacheLimited, Room,
              Limit, Calls, Tracked, TotalBytes, BytesOf
<1> QED BY <1>1, <1>2, <1>3, GetWithin, AbortWithin, InvalidateWithin DEF Next

\* Neither the caches nor the adapter calls outgrow their limits, not even those
\* that an invalidation has cut off, and the bytes that #cacheSnapshot and
\* #deleteCacheEntry account for are those of the entries.
THEOREM RepositoryIsBounded == Spec => []WithinLimits
<1>1. LimitsInv => WithinLimits
  BY DEF LimitsInv, CacheLimited, CallsLimited, Room, WithinLimits, Limit, Waiting
<1> QED BY InitWithin, NextWithin, <1>1, RepositoryInvariant, PTL DEF Spec
=============================================================================
