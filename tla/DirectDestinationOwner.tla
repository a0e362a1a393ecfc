----------------------- MODULE DirectDestinationOwner -----------------------
(***************************************************************************)
(* The owner of a destination: its leases, its metadata generations, and   *)
(* the retirement that takes both down, in                                 *)
(* src/destination/direct-destination-owner.ts.                            *)
(*                                                                         *)
(* retire() closes the gate at once and then takes the parts down in an    *)
(* order: the session contexts, the application pool with the leases of    *)
(* callers, and at last the metadata repository with its pool, which the   *)
(* operations under those leases still need.  A part that overruns its own *)
(* deadline is reported, and the retirement goes on without it.            *)
(***************************************************************************)
EXTENDS ApplicationLeases, MetadataGenerations

CONSTANT Workloads      \* the callers there may be, see Init

ASSUME WorkloadsAssumption ==
  \A w \in Workloads :
    /\ w.requests \subseteq Requests /\ w.loads \subseteq Loads
    /\ w.strategies \subseteq BOOLEAN /\ w.refreshes \subseteq RefreshCalls

VARIABLES
  repository,  \* the metadata repository: "open" or "retired"
  retirement,  \* the promise of retire() and how far its body is
  overdue,     \* has the retirement of a part failed?
  callers      \* the requests, loads (and by which strategies) and refreshes
               \* that are made at all
vars == <<pool, records, state, metadataVars, repository, retirement, overdue,
          callers>>
retireVars == <<repository, retirement, overdue, callers>>

Parts == {"contexts", "application", "remaining"}

TypeOK ==
  /\ LeasesTypeOK /\ GenerationsTypeOK
  /\ repository \in {"open", "retired"}
  /\ retirement \in {None, "resolved", "rejected"} \cup Parts
  /\ overdue \in BOOLEAN

\* Callers use leases, metadata, or some of both.
Init ==
  /\ LeasesInit /\ GenerationsInit
  /\ repository = "open" /\ retirement = None /\ overdue = FALSE
  /\ callers \in Workloads

(***************************************************************************)
(* retire()                                                                *)
(***************************************************************************)
\* The tokens go and the refresh is aborted before anybody else runs.
GateCloses == Forgets

Retire ==
  /\ retirement = None
  /\ state' = "retiring" /\ retirement' = "contexts"
  /\ GateCloses
  /\ UNCHANGED <<pool, records, repository, overdue, callers>>

Goes(part, next) ==
  /\ retirement = part /\ retirement' = next
  /\ UNCHANGED callers

\* The contexts are gone: each has given its lease back.
ContextsGone ==
  \A r \in ContextRequests :
    /\ acquiring[r] # "waiting"
    /\ \A g \in Leases : lease[g].of = r => lease[g].st = "released"
MayOverrun(done) ==
  \/ done /\ UNCHANGED overdue
  \/ ~done /\ overdue' = TRUE

\* applicationPool.retire(): no more grants, and closed once all is back
ContextsRetired ==
  /\ Goes("contexts", "application")
  /\ MayOverrun(ContextsGone)
  /\ Drain
  /\ UNCHANGED <<records, state, metadataVars, repository>>

PoolCloses ==
  /\ Close
  /\ UNCHANGED <<records, state, metadataVars, retireVars>>

ApplicationDone == gate = "closed"

ApplicationRetired ==
  /\ Goes("application", "remaining")
  /\ MayOverrun(ApplicationDone)
  /\ repository' = "retired"
  /\ RepositoryClears
  /\ UNCHANGED <<pool, records, state>>

LookingUp == {g \in Leases : operation[g] = "metadata"}

RemainingRetired ==
  /\ retirement = "remaining"
  /\ MayOverrun(LookingUp = {} /\ Loading = {})
  /\ state' = "retired"
  /\ retirement' = IF ~overdue' THEN "resolved" ELSE "rejected"
  /\ UNCHANGED <<pool, records, metadataVars, repository, callers>>

(***************************************************************************)
(* The specification                                                       *)
(***************************************************************************)
Active == state = "active"
Open == repository = "open"

Uses(g) ==
  Start(g) \/ \E reset \in BOOLEAN : Claim(g, reset)
Continues(g) ==
  Proceed(g) \/ SessionEnds(g) \/ AwaitsTail(g) \/ ResetEnds(g) \/ HandsBack(g)

LeaseSteps ==
  /\ \/ \E r \in callers.requests :
           (\E n \in 1..MaxConnections : Acquire(r, n)) \/ Acquired(r)
     \/ PoolGrants \/ PoolDrops
     \/ \E g \in Leases : Uses(g) \/ Continues(g)
  /\ UNCHANGED <<metadataVars, retireVars>>

MetadataSteps ==
  /\ \/ \E n \in Names : callers.loads # {} /\ Changes(n)
     \/ \E l \in callers.loads :
          \/ Open /\ \E k \in Keys, optimized \in callers.strategies : Begins(l, k, optimized)
          \/ LoadSteps(l, Active)
     \/ \E c \in callers.refreshes :
          (\E names \in SUBSET Names : Ask(c, names, Active)) \/ Cancel(c)
     \/ RefreshSteps(Active)
  /\ UNCHANGED <<pool, records, state, retireVars>>

Next ==
  \/ LeaseSteps \/ MetadataSteps
  \/ Retire \/ ContextsRetired \/ PoolCloses \/ ApplicationRetired
  \/ RemainingRetired

Spec == Init /\ [][Next]_vars

(***************************************************************************)
(* Properties                                                              *)
(***************************************************************************)
\* retire() is the end of it: what callers still do under their leases has
\* its metadata until the pool is closed, unless a part has overrun its
\* deadline; a fulfilled retirement left no lease, no operation and no load
\* behind; and no token survives in a gate that has closed, whatever loads
\* come late.
OrderlyRetirement ==
  /\ ~Open /\ ~overdue =>
       held = {} /\ \A g \in Leases : operation[g] = "off"
  /\ retirement = "resolved" => held = {} /\ LookingUp = {} /\ Loading = {}
  /\ ~Active => tokens = <<>>

\* No session of the pool is lost or used by two: whatever the pool has lent
\* is on its way to a caller or stands in one record, a record that has not
\* been handed back has its session, and what is done under a lease ends
\* before the pool gets the session back, for the pool refuses a busy one
\* (#runApplicationOperation, releaseApplication); and all of it has come back
\* when the destination has retired.
LeasesAccounted ==
  /\ TypeOK /\ OrderlyRetirement
  /\ held = {g \in Leases : lease[g].st \in {"granted", "owned", "releaseClaimed"}}
  /\ \A g \in Leases :
       /\ lease[g].st = "granted" => acquiring[lease[g].of] = "waiting"
       /\ operation[g] # "off" => lease[g].st \in {"owned", "releaseClaimed"}
       /\ releasing[g].pc \in {"reset", "handback"} => operation[g] = "off"

\* "A descriptor reloaded while the timestamp call was in flight owns a newer
\* record and must not be invalidated by this stale comparison."
ReloadSurvives ==
  [][\A k \in Keys :
       LET l == cache[k].load
       IN /\ refresh.pc = "answered" /\ refresh'.pc = "fulfilled"
          /\ cache[k] # NoEntry /\ cache'[k] = NoEntry
          /\ \E r \in ToSet(tokens) : r.key = k /\ r.load = l
          => l \in refresh.before]_vars

(***************************************************************************)
(* Liveness                                                                *)
(***************************************************************************)
\* The event loop runs what is queued; sessions answer or time out; callers
\* end by handing back what they hold, and the contexts do so when they are
\* retired.  No part of the retirement needs its deadline.  These steps come
\* to an end, so fairness to all of them together is fairness to each.
Aborts(r) ==
  /\ ~Active /\ r \in ContextRequests
  /\ \E i \in DOMAIN queue : queue[i] = r /\ Drop(i)
  /\ UNCHANGED <<state, records>>
Proceeds ==
  \/ /\ \/ \E r \in Requests : Acquired(r) \/ Aborts(r)
        \/ \E g \in Leases :
             \/ Continues(g)
             \/ \E reset \in BOOLEAN : Claim(g, reset)
     /\ UNCHANGED <<metadataVars, retireVars>>
  \/ /\ (\E l \in Loads : LoadSteps(l, Active)) \/ RefreshSteps(Active)
     /\ UNCHANGED <<pool, records, state, retireVars>>
  \/ /\ ContextsRetired \/ ApplicationRetired \/ RemainingRetired
     /\ UNCHANGED overdue
  \/ PoolCloses
FairSpec == Spec /\ WF_vars(Proceeds)

Unsettled ==
  \/ retirement \in Parts
  \/ \E g \in Leases : lease[g].st = "releaseClaimed"
  \/ \E c \in RefreshCalls : asked[c] = "waiting"
\* The retirement comes to its end by itself, every release ends whatever is
\* done under the lease, and every call for a refresh is answered, also when
\* the refresh it joined is aborted: calls are made a limited number of times,
\* so in the end nothing is left unsettled.
EverythingSettles == Unsettled ~> ~Unsettled
=============================================================================
