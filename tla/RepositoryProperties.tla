------------------------ MODULE RepositoryProperties ------------------------
(***************************************************************************)
(* What makes the metadata repository correct.                             *)
(***************************************************************************)
EXTENDS MetadataRepository

TypeOK ==
  /\ state \in {"active", "retired"}
  /\ retirement \in {None, "draining", "resolved"}
  /\ cache \subseteq CacheEntries  \* retainedBytes: see WithinLimits
  /\ inFlight \subseteq Lookups
  /\ authorizations \subseteq AuthorizationEntries
  /\ probes \subseteq ProbeEntries
  /\ globalEpoch \in Nat /\ objectEpochs \in [Objects -> Nat]
  /\ look \in [Lookups -> Fields]
  /\ version \in [Objects -> Nat] /\ sweeps \in Nat

Active(x) == x.pc \in Busy

(***************************************************************************)
(* Reads                                                                   *)
(***************************************************************************)
\* x may read by the permission q: it was asked for in the name of x's
\* principal, for its object and strategy, and not before an invalidation that
\* preceded x.
ReadsBy(x, q) ==
  /\ q = [principal |-> x.principal, strategy |-> x.strategy,
          object |-> x.object, at |-> q.at]
  /\ q.at >= x.since
Reading(x) ==
  \/ x.pc = "authorizing" /\ x.on = None /\ x.outcome = "ok"
  \/ x.pc = "loading"
  \/ x.pc = "ended" /\ x.answer = "value"

\* "Every read is gated by a separately cached principal authorization"
\* (MetadataRepositoryRuntime): whatever a lookup joined, hit or waited for, it
\* reads by a permission that is its own and no older than itself.
AuthorizedReads ==
  \A l \in Lookups : Reading(look[l]) => ReadsBy(look[l], look[l].permit)

\* What a lookup returns is no older than the lookup.
Fresh(x) ==
  \/ x.pc = "loading" /\ x.on = None /\ x.outcome = "ok"
  \/ x.pc = "ended" /\ x.answer = "value"
  => x.since <= x.value /\ x.value <= version[x.object]

(***************************************************************************)
(* Epochs                                                                  *)
(***************************************************************************)
\* Epochs tell versions apart: what was stamped with an epoch that is current
\* is of the current version, although a compaction forgets epochs.
Dated(o, e, v) ==
  /\ e.global <= globalEpoch
  /\ e.global = globalEpoch => e.object <= objectEpochs[o]
  /\ v <= version[o]
  /\ e = EpochFor(o) => v = version[o]

Stamped(l, x) ==
  /\ x.since <= x.asOf
  /\ Dated(x.object, x.epoch, x.since)
  /\ Dated(x.object, x.admission, x.asOf)
  /\ x.epoch = EpochFor(x.object) => x.sweep = sweeps
  /\ x.on = l /\ x.pc = "authorizing" =>
       x.asOf <= x.permit.at /\ Dated(x.object, x.admission, x.permit.at)
  /\ x.on = l /\ x.pc = "loading" =>
       x.asOf <= x.value /\ Dated(x.object, x.admission, x.value)

\* Two lookups for one object that bear the same stamp mean the same version.
Stamps(x) == {<<x.epoch, x.since>>, <<x.admission, x.asOf>>}
Agree(x, y) ==
  Active(x) /\ Active(y) /\ x.object = y.object =>
    \A s \in Stamps(x), t \in Stamps(y) : s[1] = t[1] => s[2] = t[2]

LookupsSound ==
  \A l \in Lookups :
    /\ Active(look[l]) => Stamped(l, look[l])
    /\ look[l].on # None => look[l].pc \in Waiting
    /\ Fresh(look[l])
StampsAgree == \A l, w \in Lookups : Agree(look[l], look[w])

(***************************************************************************)
(* The tables                                                              *)
(***************************************************************************)
\* "An invalidation during a load prevents stale cache resurrection": whatever
\* is cached was loaded since the last invalidation of its object, for which
\* there is one entry.
CacheCurrent ==
  /\ \A e \in cache : e.seen = version[e.object]
  /\ \A d, e \in cache : d.object = e.object => d = e

\* A settled authorization was asked for by its principal since the last
\* invalidation of its object; a pending one is being asked for.
AuthorizationsCurrent ==
  \A e \in authorizations :
    IF e.promise = None
    THEN /\ e.key.epoch = EpochFor(e.key.object)
         /\ e.permit = [principal |-> e.key.principal, strategy |-> e.key.strategy,
                        object |-> e.key.object, at |-> version[e.key.object]]
    ELSE /\ Running(e.promise, "authorizing")
         /\ e.key = Key(look[e.promise], look[e.promise].admission)
         /\ e.permit = look[e.promise].permit

\* A remembered probe was decided since the last invalidateAll(): no late
\* fallback brings a decision back that the caller has discarded.
ProbesCurrent ==
  \A e \in probes :
    /\ e.at = sweeps
    /\ IF e.promise = None THEN e.result # None
       ELSE Running(e.promise, "probing") /\ look[e.promise].principal = e.principal

\* Nobody waits in vain, or for somebody else's work: the call it awaits is
\* under way, and is what it would ask for itself.
Linked(x, y) ==
  /\ y.on = x.on /\ y.pc = x.pc /\ x.principal = y.principal
  /\ x.pc # "probing" => Key(x, x.admission) = Key(y, y.admission)
  /\ x.pc = "authorizing" => ReadsBy(x, y.permit)
  /\ x.pc = "loading" => x.since <= y.value
SharedWorkIsOwn ==
  \A l \in Lookups : look[l].on # None => Linked(look[l], look[look[l].on])

\* A load can be joined exactly as long as what it reads is current, and there
\* is one such load for each key.
JoinableLoads ==
  /\ inFlight =
       {l \in Calls("loading") : look[l].admission = EpochFor(look[l].object)}
  /\ \A l, w \in Calls("loading") :
       Key(look[l], look[l].admission) = Key(look[w], look[w].admission) => l = w

\* A retired repository holds nothing, whatever answers late: no descriptor, no
\* decision, nothing to join; and its retirement ends only when no adapter call
\* is under way any more.
RetiredHoldsNothing ==
  /\ state = "retired" =>
       cache = {} /\ authorizations = {} /\ probes = {} /\ inFlight = {}
  /\ retirement # None => state = "retired"
  /\ retirement = "resolved" => \A l \in Lookups : look[l].on = None

\* The inductive invariant.
RepositoryInv ==
  /\ TypeOK /\ LookupsSound /\ StampsAgree /\ CacheCurrent
  /\ AuthorizationsCurrent /\ ProbesCurrent /\ SharedWorkIsOwn /\ JoinableLoads
  /\ AuthorizedReads /\ RetiredHoldsNothing

\* The limits hold for what is under way, invalidated or not, as for what is
\* remembered; and the bytes accounted for are those of the entries.
WithinLimits ==
  /\ Cardinality(cache) <= MaxEntries /\ retainedBytes <= MaxRetainedBytes
  /\ retainedBytes = TotalBytes(cache)
  /\ Cardinality(probes) <= MaxProbes
  /\ Cardinality(Calls("probing")) <= MaxProbes
  /\ Cardinality(authorizations) <= MaxAuthorizations
  /\ Cardinality(Calls("authorizing")) <= MaxAuthorizations
  /\ Cardinality(Calls("loading")) <= MaxLoads
  /\ Cardinality(Tracked) <= MaxObjectEpochs

(***************************************************************************)
(* Liveness                                                                *)
(***************************************************************************)
\* The event loop runs what is queued, and the adapter answers each call: its
\* deadlines are the sessions' business, the repository has none.
Fairness ==
  /\ \A l \in Lookups :
       WF_vars(Continues(l)) /\ WF_vars(Replies(l)) /\ WF_vars(CallEnds(l))
  /\ WF_vars(RetirementEnds)

FairSpec == Spec /\ Fairness

\* Every get() comes to its end, whatever it joined and however often it must
\* ask again, and so does every retirement.
EverythingEnds ==
  /\ \A l \in Lookups : Active(look[l]) ~> ~Active(look[l])
  /\ state = "retired" ~> retirement = "resolved"

(***************************************************************************)
(* Refinement                                                              *)
(***************************************************************************)
\* A lookup as its caller sees it
Seen(x) ==
  CASE Active(x) /\ x.answer # "canceled" ->
         [asking |-> TRUE, object |-> x.object, since |-> x.since, got |-> 0]
    [] ~Active(x) /\ x.answer = "value" ->
         [asking |-> FALSE, object |-> x.object, since |-> x.since,
          got |-> x.value]
    [] OTHER ->
         [asking |-> FALSE, object |-> x.object, since |-> 0, got |-> 0]

Service == INSTANCE MetadataService
  WITH open <- state = "active", current <- version,
       reads <- [l \in Lookups |-> Seen(look[l])]

\* Behind its caches, epochs and shared calls the repository is a register for
\* each object: a read never returns what an invalidation has outlived.
ImplementsMetadataService == Service!MSSpec
=============================================================================
