------------------------- MODULE MetadataRepository -------------------------
(***************************************************************************)
(* One generation of the metadata repository:                              *)
(* src/metadata/repository-runtime.ts.                                     *)
(*                                                                         *)
(* A lookup asks whether its principal may use the optimized strategy (a   *)
(* probe), whether it may read the object (an authorization), and then     *)
(* reads the cache or loads the object.  Probes, authorizations and loads  *)
(* are shared by whoever asks for the same while they run; invalidations   *)
(* and the retirement cut all of this off at any moment, by epochs.  An    *)
(* action is one run of the JavaScript thread between two awaits.          *)
(*                                                                         *)
(* A "principal" is a capability identity: a principal of the backend with *)
(* a repository mode.  The adapter is the environment.  The maps of the    *)
(* code are sets of records here: which settled entry is the least         *)
(* recently used one is left open, so that every order of use is covered.  *)
(* A descriptor is a version: 1 at first, and each invalidation of its     *)
(* object makes the next one.  A load reads the version of its start.      *)
(***************************************************************************)
EXTENDS Integers, FiniteSets

CONSTANTS
  Lookups,              \* the calls of get() that can be in progress at once
  Objects, Principals,
  Mode,                 \* the repository mode of each principal
  Sizes,                \* the sizes of snapshots, in bytes
  MaxEntries, MaxRetainedBytes, MaxProbes, MaxAuthorizations,
  MaxObjectEpochs, MaxLoads,
  MaxVersion            \* bound: invalidations of one object

None == "none"
Modes == {"auto", "optimizedOnly", "classic", "legacyV3"}
Strategies == {"optimized", "classic", "legacyV3"}

ASSUME RepositoryAssumption ==
  /\ None \notin Lookups \cup Objects \cup Principals
  /\ IsFiniteSet(Lookups) /\ IsFiniteSet(Objects) /\ IsFiniteSet(Principals)
  /\ Objects # {} /\ Principals # {}
  /\ Mode \in [Principals -> Modes] /\ Sizes \subseteq Nat
  /\ {MaxEntries, MaxRetainedBytes, MaxVersion} \subseteq Nat
  /\ {MaxProbes, MaxAuthorizations, MaxObjectEpochs, MaxLoads} \subseteq Nat \ {0}

VARIABLES
  state,                \* "active" or "retired"
  retirement,           \* the promise of retire()
  cache, retainedBytes,
  inFlight,             \* #inFlight: the lookups whose load can be joined
  authorizations, probes,
  globalEpoch, objectEpochs,
  look,                 \* the calls of get(), and the adapter calls they made
  version, sweeps       \* history: invalidations of each object, of the whole
vars == <<state, retirement, cache, retainedBytes, inFlight, authorizations,
          probes, globalEpoch, objectEpochs, look, version, sweeps>>

Epochs == [global : Nat, object : Nat]
Zero == [global |-> 0, object |-> 0]
\* A permission: who was allowed to read what, and the version when it was asked
Permits == [principal : Principals, strategy : Strategies, object : Objects,
            at : Nat]
NoPermit(o, p) ==
  [principal |-> p, strategy |-> "classic", object |-> o, at |-> 0]
Keys == [principal : Principals, strategy : Strategies, object : Objects,
         epoch : Epochs]
CacheEntries == [object : Objects, seen : Nat, bytes : Sizes]
AuthorizationEntries ==
  [key : Keys, promise : Lookups \cup {None}, permit : Permits]
ProbeEntries == [principal : Principals, result : {None, "ok", "denied"},
                 promise : Lookups \cup {None}, at : Nat]

\* "denied" stands for the classifications "unavailable" and "authorization".
Answers == {"ok", "denied", "other"}
Waiting == {"probing", "authorizing", "loading"}
Busy == {"selected", "thrown"} \cup Waiting

Fields ==
  [pc : {"idle", "ended"} \cup Busy,
   object : Objects, principal : Principals, strategy : Strategies,
   fellBack : BOOLEAN,             \* in the classic attempt after a fallback
   epoch : Epochs, admission : Epochs,
   on : Lookups \cup {None},       \* whose adapter call it awaits
   outcome : Answers \cup {None},  \* of that call
   value : Nat,                    \* the version it loads or has read
   answer : {None, "value", "error", "canceled"},  \* what get() answered
   \* history: the version and sweeps when get() was called, the version when
   \* the admission epoch was read, and the permission it reads by
   since : Nat, sweep : Nat, asOf : Nat, permit : Permits]

(***************************************************************************)
(* Epochs and keys                                                         *)
(***************************************************************************)
EpochFor(o) == [global |-> globalEpoch, object |-> objectEpochs[o]]

\* A descriptor load and an authorization are identified alike.
Key(x, e) == [principal |-> x.principal, strategy |-> x.strategy,
              object |-> x.object, epoch |-> e]

Forget(entries, k) == {e \in entries : e.key # k}
ForgetObjects(entries, S) == {e \in entries : e.key.object \notin S}

(***************************************************************************)
(* Adapter calls.  A call belongs to the lookup that made it, which awaits *)
(* it like those that joined it: from the call to its finally().           *)
(***************************************************************************)
Calls(kind) == {l \in Lookups : look[l].pc = kind /\ look[l].on = l}
Running(l, kind) == l \in Calls(kind) /\ look[l].outcome = None
\* #activeOperations
ActiveOperations == UNION {Calls(kind) : kind \in Waiting}

\* A lookup whose await is over
Resumed(l, kind) ==
  look[l].pc = kind /\ look[l].on = None /\ look[l].outcome # None

Begins(x, l, kind) == [x EXCEPT !.pc = kind, !.on = l, !.outcome = None]
Joins(x, s, kind) == [x EXCEPT !.pc = kind, !.on = s, !.outcome = None]
Hits(x, kind, r) == [x EXCEPT !.pc = kind, !.on = None, !.outcome = r]
Throws(x, r) == [x EXCEPT !.pc = "thrown", !.on = None, !.outcome = r]
\* A caller that gave up got its answer already.
Answered(x, a) == IF x.answer = "canceled" THEN "canceled" ELSE a
\* What is over leaves nothing behind but the answer.
Over(x, a) ==
  [x EXCEPT !.pc = "ended", !.on = None, !.outcome = None, !.fellBack = FALSE,
            !.epoch = Zero, !.admission = Zero, !.asOf = 0, !.sweep = 0,
            !.answer = a]
Returns(x, v) == [Over(x, Answered(x, "value")) EXCEPT !.value = v]
Fails(x) ==
  [Over(x, Answered(x, "error"))
     EXCEPT !.strategy = "classic", !.value = 0, !.since = 0,
            !.permit = NoPermit(x.object, x.principal)]

Becomes(l, x) == look' = [look EXCEPT ![l] = x]

(***************************************************************************)
(* #authorize: reuse a decision, join one, or ask the adapter              *)
(***************************************************************************)
SettledOf(entries) == {e \in entries : e.promise = None}

\* The least recently used settled entry makes room in a full map.
MakesRoom(entries, max, after) ==
  \/ Cardinality(entries) < max /\ after = entries
  \/ /\ Cardinality(entries) >= max
     /\ \E e \in SettledOf(entries) : after = entries \ {e}
Full(entries, calls, max) ==
  \/ Cardinality(calls) >= max
  \/ Cardinality(entries) >= max /\ SettledOf(entries) = {}

\* known: #authorizations after what its caller has forgotten
Authorize(l, x, known) ==
  LET same == {e \in known : e.key = Key(x, x.admission)}
      asked == [principal |-> x.principal, strategy |-> x.strategy,
                object |-> x.object, at |-> version[x.object]]
  IN \/ \E e \in same :
          /\ Becomes(l, IF e.promise # None
                        THEN Joins(x, e.promise, "authorizing")
                        ELSE [Hits(x, "authorizing", "ok")
                                EXCEPT !.permit = e.permit])
          /\ authorizations' = known
     \/ /\ same = {} /\ Full(known, Calls("authorizing"), MaxAuthorizations)
        /\ Becomes(l, Throws(x, "other"))
        /\ authorizations' = known
     \/ /\ same = {} /\ ~Full(known, Calls("authorizing"), MaxAuthorizations)
        /\ \E rest \in SUBSET known :
             /\ MakesRoom(known, MaxAuthorizations, rest)
             /\ authorizations' = rest \cup
                  {[key |-> Key(x, x.admission), promise |-> l, permit |-> asked]}
        /\ Becomes(l, [Begins(x, l, "authorizing") EXCEPT !.permit = asked])

\* #getWithStrategy up to its first await
Admission(l, x, known) ==
  IF state = "retired"
  THEN Becomes(l, Throws(x, "other")) /\ authorizations' = known
  ELSE Authorize(l, [x EXCEPT !.admission = x.epoch, !.asOf = x.since], known)

(***************************************************************************)
(* get() and #selectStrategy                                               *)
(***************************************************************************)
Asked(l, o, p) ==
  [look[l] EXCEPT
     !.object = o, !.principal = p, !.strategy = "classic", !.fellBack = FALSE,
     !.epoch = EpochFor(o), !.admission = EpochFor(o), !.on = None,
     !.outcome = None, !.value = 0, !.answer = None, !.since = version[o],
     !.sweep = sweeps, !.asOf = version[o], !.permit = NoPermit(o, p)]

Probe(l, x) ==
  LET same == {e \in probes : e.principal = x.principal}
  IN \/ \E e \in same :
          /\ Becomes(l, IF e.promise # None THEN Joins(x, e.promise, "probing")
                        ELSE Hits(x, "probing", e.result))
          /\ UNCHANGED probes
     \/ /\ same = {} /\ Full(probes, Calls("probing"), MaxProbes)
        /\ Becomes(l, Fails(x))
        /\ UNCHANGED probes
     \/ /\ same = {} /\ ~Full(probes, Calls("probing"), MaxProbes)
        /\ \E rest \in SUBSET probes :
             /\ MakesRoom(probes, MaxProbes, rest)
             /\ probes' = rest \cup {[principal |-> x.principal, result |-> None,
                                      promise |-> l, at |-> sweeps]}
        /\ Becomes(l, Begins(x, l, "probing"))

Get(l, o, p) ==
  /\ state = "active" /\ look[l].pc \in {"idle", "ended"}
  /\ LET x == Asked(l, o, p)
     IN IF Mode[p] \in {"auto", "optimizedOnly"} THEN Probe(l, x)
        ELSE /\ Becomes(l, [x EXCEPT !.pc = "selected", !.strategy = Mode[p]])
             /\ UNCHANGED probes
  /\ UNCHANGED <<state, retirement, cache, retainedBytes, inFlight,
                 authorizations, globalEpoch, objectEpochs, version, sweeps>>

\* The signal of the caller fires: get() rejects, what it started goes on.
Abort(l) ==
  /\ look[l].pc \in Busy /\ look[l].answer = None
  /\ Becomes(l, [look[l] EXCEPT !.answer = "canceled"])
  /\ UNCHANGED <<state, retirement, cache, retainedBytes, inFlight,
                 authorizations, probes, globalEpoch, objectEpochs, version,
                 sweeps>>

Selects(l) ==
  /\ \/ look[l].pc = "selected" /\ Admission(l, look[l], authorizations)
     \/ /\ Resumed(l, "probing")
        /\ LET x == look[l]
           IN CASE x.outcome = "ok" ->
                     Admission(l, [x EXCEPT !.strategy = "optimized"],
                               authorizations)
                [] x.outcome = "denied" /\ Mode[x.principal] = "auto" ->
                     Admission(l, x, authorizations)
                [] OTHER ->
                     Becomes(l, Fails(x)) /\ UNCHANGED authorizations
  /\ UNCHANGED <<state, retirement, cache, retainedBytes, inFlight, probes,
                 globalEpoch, objectEpochs, version, sweeps>>

(***************************************************************************)
(* #getWithStrategy after an authorization                                 *)
(***************************************************************************)
\* (A variant that counts the table instead of the running loads.)
JoinableFull == Cardinality(inFlight) >= MaxLoads
\* Loads count as long as they run, also those that nobody can join any more.
LoadsFull == Cardinality(Calls("loading")) >= MaxLoads

\* The lookup is admitted in the current epoch: it reads, joins or loads.
Reads(l, x) ==
  LET cached == {e \in cache : e.object = x.object}
      same == {s \in inFlight :
                 Key(look[s], look[s].admission) = Key(x, x.admission)}
  IN \/ \E e \in cached :
          /\ Becomes(l, Returns(x, e.seen))
          /\ UNCHANGED inFlight
     \/ /\ cached = {}
        /\ \E s \in same : Becomes(l, Joins(x, s, "loading"))
        /\ UNCHANGED inFlight
     \/ /\ cached = {} /\ same = {} /\ LoadsFull
        /\ Becomes(l, Throws(x, "other"))
        /\ UNCHANGED inFlight
     \/ /\ cached = {} /\ same = {} /\ ~LoadsFull
        /\ Becomes(l, [Begins(x, l, "loading")
                         EXCEPT !.value = version[x.object]])
        /\ inFlight' = inFlight \cup {l}

\* (A variant that asks again in the old epoch.)
ReadmittedAsBefore(x) == x
\* An invalidation came between: ask again, in the epoch that is current now.
Readmitted(x) ==
  [x EXCEPT !.admission = EpochFor(x.object), !.asOf = version[x.object]]

Admits(l) ==
  LET x == look[l]
      now == EpochFor(x.object)
  IN /\ Resumed(l, "authorizing") /\ x.outcome = "ok"
     /\ \/ /\ state = "retired"
           /\ Becomes(l, Throws(x, "other"))
           /\ UNCHANGED <<authorizations, inFlight>>
        \/ /\ state = "active" /\ x.admission # now
           /\ Authorize(l, Readmitted(x),
                        Forget(authorizations, Key(x, x.admission)))
           /\ UNCHANGED inFlight
        \/ /\ state = "active" /\ x.admission = now
           /\ Reads(l, x)
           /\ UNCHANGED authorizations
     /\ UNCHANGED <<state, retirement, cache, retainedBytes, probes, globalEpoch,
                    objectEpochs, version, sweeps>>

\* The load is over: its value is returned, or its failure costs the
\* authorization it was made by.
LoadResumes(l) ==
  LET x == look[l]
  IN /\ Resumed(l, "loading")
     /\ \/ /\ x.outcome = "ok"
           /\ Becomes(l, Returns(x, x.value)) /\ UNCHANGED authorizations
        \/ /\ x.outcome # "ok"
           /\ Becomes(l, Throws(x, x.outcome))
           /\ authorizations' = Forget(authorizations, Key(x, x.admission))
     /\ UNCHANGED <<state, retirement, cache, retainedBytes, inFlight, probes,
                    globalEpoch, objectEpochs, version, sweeps>>

(***************************************************************************)
(* The catch block of #getCanonical                                        *)
(***************************************************************************)
\* (A variant that ignores invalidations.)
MayRememberLate(x) == state = "active"
MayRemember(x) == state = "active" /\ x.epoch = EpochFor(x.object)
\* #rememberOptimizedFallback
Remembers(x) ==
  LET p == x.principal
      others == {e \in probes : e.principal # p}
      denial == [principal |-> p, result |-> "denied", promise |-> None,
                 at |-> x.sweep]
  IN \/ /\ \/ ~MayRemember(x)
           \/ \E e \in probes : e.principal = p /\ e.promise # None
           \/ /\ others = probes /\ Cardinality(probes) >= MaxProbes
              /\ SettledOf(probes) = {}
        /\ UNCHANGED probes
     \/ /\ MayRemember(x)
        /\ \A e \in probes : e.principal = p => e.promise = None
        /\ IF others # probes THEN probes' = others \cup {denial}
           ELSE \E rest \in SUBSET probes :
                  /\ MakesRoom(probes, MaxProbes, rest)
                  /\ probes' = rest \cup {denial}

Unwinds(l) ==
  LET x == look[l]
      forgotten == Forget(authorizations, Key(x, x.epoch))
      fallback == /\ x.strategy = "optimized" /\ Mode[x.principal] = "auto"
                  /\ x.outcome = "denied"
  IN /\ \/ x.pc = "thrown"
        \/ Resumed(l, "authorizing") /\ x.outcome # "ok"
     /\ \/ /\ x.fellBack
           /\ Becomes(l, Fails(x)) /\ UNCHANGED <<authorizations, probes>>
        \/ /\ ~x.fellBack /\ ~fallback
           /\ Becomes(l, Fails(x))
           /\ authorizations' = forgotten /\ UNCHANGED probes
        \/ /\ ~x.fellBack /\ fallback
           /\ Remembers(x)
           /\ Admission(l, [x EXCEPT !.strategy = "classic", !.fellBack = TRUE],
                        forgotten)
     /\ UNCHANGED <<state, retirement, cache, retainedBytes, inFlight,
                    globalEpoch, objectEpochs, version, sweeps>>

(***************************************************************************)
(* What the runtime does with the answers of the adapter                   *)
(***************************************************************************)
ProbeAnswers(l, r) ==
  LET mine == {e \in probes : e.promise = l}
  IN /\ Running(l, "probing")
     /\ Becomes(l, [look[l] EXCEPT !.outcome = r])
     /\ probes' = (probes \ mine) \cup
          {[e EXCEPT !.promise = None, !.result = r] :
             e \in IF r = "other" THEN {} ELSE mine}
     /\ UNCHANGED <<state, retirement, cache, retainedBytes, inFlight,
                    authorizations, globalEpoch, objectEpochs, version, sweeps>>

AuthorizeAnswers(l, r) ==
  LET x == look[l]
      mine == {e \in authorizations : e.promise = l}
      valid == /\ r = "ok" /\ state = "active"
               /\ x.admission = EpochFor(x.object)
  IN /\ Running(l, "authorizing")
     /\ Becomes(l, [x EXCEPT !.outcome = r])
     /\ authorizations' = (authorizations \ mine) \cup
          {[e EXCEPT !.promise = None] : e \in IF valid THEN mine ELSE {}}
     /\ UNCHANGED <<state, retirement, cache, retainedBytes, inFlight, probes,
                    globalEpoch, objectEpochs, version, sweeps>>

\* The bytes of the entries, one by one: their number is the sum of the sizes.
BytesOf(entries) == UNION {{e} \X (1..e.bytes) : e \in entries}
TotalBytes(entries) == Cardinality(BytesOf(entries))

\* #cacheSnapshot evicts the oldest entries until there is room.  Whatever the
\* order of use, the last one evicted had to go.
RoomFor(bytes, entries) ==
  /\ Cardinality(cache \ entries) < MaxEntries
  /\ retainedBytes - TotalBytes(entries) <= MaxRetainedBytes - bytes
Evicts(bytes, victims) ==
  /\ RoomFor(bytes, victims)
  /\ victims = {} \/ \E e \in victims : ~RoomFor(bytes, victims \ {e})

\* #cacheSnapshot: an object that somebody else has cached meanwhile keeps its
\* entry; a snapshot that does not fit costs the authorizations for its object.
CacheSnapshot(l, x, bytes) ==
  LET cached == {e \in cache : e.object = x.object}
      oversize == MaxEntries = 0 \/ bytes > MaxRetainedBytes
  IN \/ /\ \E e \in cached : Becomes(l, [x EXCEPT !.value = e.seen])
        /\ UNCHANGED <<cache, retainedBytes, authorizations>>
     \/ /\ cached = {} /\ oversize
        /\ Becomes(l, x)
        /\ authorizations' = ForgetObjects(authorizations, {x.object})
        /\ UNCHANGED <<cache, retainedBytes>>
     \/ /\ cached = {} /\ ~oversize
        /\ Becomes(l, x)
        /\ \E victims \in SUBSET cache :
             /\ Evicts(bytes, victims)
             /\ cache' = (cache \ victims) \cup
                  {[object |-> x.object, seen |-> x.value, bytes |-> bytes]}
             /\ retainedBytes' = (retainedBytes - TotalBytes(victims)) + bytes
             /\ authorizations' =
                  ForgetObjects(authorizations, {e.object : e \in victims})

\* A malformed snapshot is a failure of the class "other".
LoadAnswers(l, r, bytes) ==
  LET x == [look[l] EXCEPT !.outcome = r]
      stores == /\ r = "ok" /\ state = "active"
                /\ x.admission = EpochFor(x.object)
  IN /\ Running(l, "loading")
     /\ \/ stores /\ CacheSnapshot(l, x, bytes)
        \/ /\ ~stores
           /\ Becomes(l, x)
           /\ UNCHANGED <<cache, retainedBytes, authorizations>>
     /\ UNCHANGED <<state, retirement, inFlight, probes, globalEpoch,
                    objectEpochs, version, sweeps>>

\* The finally() of an adapter call: whoever awaits it is resumed.
CallEnds(l) ==
  /\ look[l].on = l /\ look[l].outcome # None
  /\ look' = [w \in Lookups |->
                IF look[w].on # l THEN look[w]
                ELSE [look[w] EXCEPT
                        !.on = None, !.outcome = look[l].outcome,
                        !.value = IF look[w].pc = "loading" THEN look[l].value ELSE @,
                        !.permit = IF look[w].pc = "authorizing"
                                   THEN look[l].permit ELSE @]]
  /\ inFlight' = inFlight \ {l}
  /\ UNCHANGED <<state, retirement, cache, retainedBytes, authorizations, probes,
                 globalEpoch, objectEpochs, version, sweeps>>

(***************************************************************************)
(* Invalidation and retirement                                             *)
(***************************************************************************)
Tracked == {o \in Objects : objectEpochs[o] # 0}

\* A full table is compacted into the global epoch.
Compacts(o) == o \notin Tracked /\ Cardinality(Tracked) >= MaxObjectEpochs
Compacted == /\ objectEpochs' = [u \in Objects |-> 0]
             /\ authorizations' = {} /\ inFlight' = {}
Advanced(o) == /\ objectEpochs' = [objectEpochs EXCEPT ![o] = @ + 1]
               /\ authorizations' = ForgetObjects(authorizations, {o})
               /\ inFlight' = {s \in inFlight : look[s].object # o}
\* (A variant that compacts without a new global epoch.)
AdvanceLocally(o) ==
  (IF Compacts(o) THEN Compacted ELSE Advanced(o)) /\ UNCHANGED globalEpoch
\* #advanceObjectEpoch
AdvanceObjectEpoch(o) ==
  IF Compacts(o) THEN Compacted /\ globalEpoch' = globalEpoch + 1
  ELSE Advanced(o) /\ UNCHANGED globalEpoch

Invalidate(o) ==
  LET removed == {e \in cache : e.object = o}
  IN /\ version[o] < MaxVersion
     /\ version' = [version EXCEPT ![o] = @ + 1]
     /\ cache' = cache \ removed
     /\ retainedBytes' = retainedBytes - TotalBytes(removed)
     /\ AdvanceObjectEpoch(o)
     /\ UNCHANGED <<state, retirement, probes, look, sweeps>>

\* invalidateAll()
Clears ==
  /\ cache' = {} /\ retainedBytes' = 0 /\ inFlight' = {}
  /\ authorizations' = {} /\ probes' = {}
  /\ objectEpochs' = [u \in Objects |-> 0]
  /\ globalEpoch' = globalEpoch + 1

InvalidateAll ==
  /\ \A o \in Objects : version[o] < MaxVersion
  /\ version' = [o \in Objects |-> version[o] + 1]
  /\ sweeps' = sweeps + 1
  /\ Clears
  /\ UNCHANGED <<state, retirement, look>>

Retire ==
  /\ state = "active"
  /\ state' = "retired" /\ retirement' = "draining"
  /\ Clears
  /\ UNCHANGED <<look, version, sweeps>>

RetirementEnds ==
  /\ retirement = "draining" /\ ActiveOperations = {}
  /\ retirement' = "resolved"
  /\ UNCHANGED <<state, cache, retainedBytes, inFlight, authorizations, probes,
                 globalEpoch, objectEpochs, look, version, sweeps>>

(***************************************************************************)
(* The specification                                                       *)
(***************************************************************************)
Init ==
  /\ state = "active" /\ retirement = None
  /\ cache = {} /\ retainedBytes = 0 /\ inFlight = {}
  /\ authorizations = {} /\ probes = {}
  /\ globalEpoch = 0 /\ objectEpochs = [o \in Objects |-> 0]
  /\ look = LET o == CHOOSE o \in Objects : TRUE
                p == CHOOSE p \in Principals : TRUE
            IN [l \in Lookups |->
                 [pc |-> "idle", object |-> o, principal |-> p,
                  strategy |-> "classic", fellBack |-> FALSE, epoch |-> Zero,
                  admission |-> Zero, on |-> None, outcome |-> None,
                  value |-> 0, answer |-> None, since |-> 0, sweep |-> 0,
                  asOf |-> 0, permit |-> NoPermit(o, p)]]
  /\ version = [o \in Objects |-> 1] /\ sweeps = 0

Continues(l) == Selects(l) \/ Admits(l) \/ LoadResumes(l) \/ Unwinds(l)
Replies(l) ==
  \E r \in Answers :
    \/ ProbeAnswers(l, r) \/ AuthorizeAnswers(l, r)
    \/ \E bytes \in Sizes : LoadAnswers(l, r, bytes)

Next ==
  \/ \E l \in Lookups :
       \/ \E o \in Objects, p \in Principals : Get(l, o, p)
       \/ Abort(l) \/ Continues(l) \/ Replies(l) \/ CallEnds(l)
  \/ \E o \in Objects : Invalidate(o)
  \/ InvalidateAll \/ Retire \/ RetirementEnds

Spec == Init /\ [][Next]_vars
=============================================================================
