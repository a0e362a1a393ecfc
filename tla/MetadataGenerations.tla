------------------------ MODULE MetadataGenerations ------------------------
(***************************************************************************)
(* The generation tokens of optimized metadata and the explicit refresh    *)
(* that compares them with the backend:                                    *)
(* src/destination/direct-destination-owner.ts.                            *)
(*                                                                         *)
(* A load runs for the metadata repository, which is reduced to what the   *)
(* refresh depends on: one cached descriptor for each key, an epoch that   *)
(* each invalidation advances, loads that are shared within an epoch.      *)
(* MetadataRepository has the details.  An object of the backend has a     *)
(* version, and a token stands for the version it was read with; that an   *)
(* object is gone is a change like another.  An action is one run of the   *)
(* JavaScript thread between two awaits; active says whether the owner is. *)
(***************************************************************************)
EXTENDS Naturals, Sequences, FiniteSets, SequencesExt

CONSTANTS
  MaxLoads,            \* bound: calls of #loadMetadata, numbered
  Keys, NameOf,        \* kinds of descriptors of objects, and their names
  OptimizedOnly,       \* the keys without a classic strategy
  MaxEntries,          \* #maxOptimizedGenerationTokens, metadata.maxEntries
  MaxVersion,          \* bound: changes of an object
  MaxRefreshes         \* bound: calls of refreshOptimizedMetadata(), numbered

ASSUME GenerationsAssumption ==
  /\ Keys # {} /\ OptimizedOnly \subseteq Keys
  /\ {MaxEntries, MaxLoads, MaxRefreshes} \subseteq Nat /\ MaxVersion \in Nat \ {0}

VARIABLES
  version,             \* of each object at the backend
  cache, epoch,        \* of the repository, for each key
  load,                \* the loads
  tokens,              \* #optimizedGenerationTokens, in order of insertion
  refresh,             \* #metadataRefreshOperation
  asked                \* what became of each call for a refresh
metadataVars == <<version, cache, epoch, load, tokens, refresh, asked>>

Loads == 1..MaxLoads
RefreshCalls == 1..MaxRefreshes
Names == {NameOf[k] : k \in Keys}
Versions == 0..MaxVersion
\* Records are told apart by the load that made them.
Records == [key : Keys, load : Loads, token : Versions]
NoEntry == [load |-> 0, version |-> 0]
NoLoad(pc) == [pc |-> pc, key |-> CHOOSE k \in Keys : TRUE, optimized |-> TRUE,
               epoch |-> 0, version |-> 0]
NoRefresh == [pc |-> "off", names |-> {}, records |-> {}, before |-> {},
              seen |-> [n \in Names |-> 0]]
Running == {"reading", "read"}

GenerationsTypeOK ==
  /\ version \in [Names -> Versions]
  /\ \A k \in Keys : cache[k] = NoEntry
       \/ cache[k] \in [load : Loads, version : Versions \ {0}]
  /\ epoch \in [Keys -> Nat]
  /\ load \in [Loads ->
       [pc : {"idle", "ended"} \cup Running, key : Keys, optimized : BOOLEAN,
        epoch : Nat, version : Versions]]
  /\ tokens \in Seq(Records)
  /\ refresh \in
       [pc : {"off", "asking", "answered", "fulfilled", "failed"},
        names : SUBSET Names, records : SUBSET Records,
        before : SUBSET Loads,   \* history: the loads over at the admission
        seen : [Names -> Versions]]
  /\ asked \in [RefreshCalls ->
       {"idle", "waiting", "answered", "refused", "failed", "canceled"}]

GenerationsInit ==
  /\ version = [n \in Names |-> 1]
  /\ cache = [k \in Keys |-> NoEntry] /\ epoch = [k \in Keys |-> 0]
  /\ load = [l \in Loads |-> NoLoad("idle")]
  /\ tokens = <<>> /\ refresh = NoRefresh
  /\ asked = [c \in RefreshCalls |-> "idle"]

\* The backend changes an object.
Changes(n) ==
  /\ version[n] < MaxVersion
  /\ version' = [version EXCEPT ![n] = @ + 1]
  /\ UNCHANGED <<cache, epoch, load, tokens, refresh, asked>>

(***************************************************************************)
(* #loadMetadata                                                           *)
(***************************************************************************)
\* The tokens of other keys, in their order: the n-th of the places they have
Without(keys) ==
  LET kept == {i \in DOMAIN tokens : tokens[i].key \notin keys}
      place(n) == CHOOSE i \in kept : Cardinality({j \in kept : j <= i}) = n
  IN [n \in 1..Cardinality(kept) |-> tokens[place(n)]]

\* The repository starts a load of what is not cached and not being loaded
\* by the same strategy in this epoch.  A strategy other than the optimized
\* one drops the token first.
Begins(l, k, optimized) ==
  /\ load[l].pc = "idle" /\ (\A w \in 1..(l - 1) : load[w].pc # "idle")
  /\ cache[k] = NoEntry
  /\ k \in OptimizedOnly => optimized
  /\ ~\E w \in Loads :
        load[w].pc \in Running /\ load[w].key = k
          /\ load[w].optimized = optimized /\ load[w].epoch = epoch[k]
  /\ load' = [load EXCEPT ![l] =
       [pc |-> "reading", key |-> k, optimized |-> optimized,
        epoch |-> epoch[k], version |-> 0]]
  /\ tokens' = IF optimized THEN tokens ELSE Without({k})
  /\ UNCHANGED <<version, cache, epoch, refresh, asked>>

\* The repository session has read the object, or failed.
Reads(l) ==
  LET v == version[NameOf[load[l].key]]
  IN /\ load[l].pc = "reading"
     /\ load' = [load EXCEPT ![l] = [@ EXCEPT !.pc = "read", !.version = v]]
     /\ UNCHANGED <<version, cache, epoch, tokens, refresh, asked>>
Fails(l) ==
  /\ load[l].pc = "reading"
  /\ load' = [load EXCEPT ![l] = NoLoad("ended")]
  /\ UNCHANGED <<version, cache, epoch, tokens, refresh, asked>>

Newest(s, n) == IF Len(s) <= n THEN s ELSE SubSeq(s, Len(s) - n + 1, Len(s))
\* #rememberOptimizedGeneration: the newest record is the last, the oldest
\* make room for it.
RememberGeneration(active, r) ==
  IF ~active \/ MaxEntries = 0 THEN UNCHANGED tokens
  ELSE tokens' = Append(Newest(Without({r.key}), MaxEntries - 1), r)

Cached == {k \in Keys : cache[k] # NoEntry}
\* The continuations of the load and of the repository, with nothing but promise
\* jobs between them: the token is remembered (the sessions of this project
\* give one with each optimized descriptor), and the first descriptor of the
\* epoch that is current is cached, in the place of another if need be.
Returns(l, active) ==
  LET x == load[l]
      stores == MaxEntries > 0 /\ x.epoch = epoch[x.key] /\ cache[x.key] = NoEntry
  IN /\ x.pc = "read"
     /\ load' = [load EXCEPT ![l] = NoLoad("ended")]
     /\ IF x.optimized
        THEN RememberGeneration(active,
               [key |-> x.key, load |-> l, token |-> x.version])
        ELSE UNCHANGED tokens
     /\ IF ~stores THEN UNCHANGED cache
        ELSE \E victims \in SUBSET Cached :
               /\ Cardinality(victims) = IF Cardinality(Cached) < MaxEntries THEN 0 ELSE 1
               /\ cache' = [k \in Keys |->
                    IF k = x.key THEN [load |-> l, version |-> x.version]
                    ELSE IF k \in victims THEN NoEntry ELSE cache[k]]
     /\ UNCHANGED <<version, epoch, refresh, asked>>

(***************************************************************************)
(* refreshOptimizedMetadata                                                *)
(***************************************************************************)
RecordsOf(names) == {r \in ToSet(tokens) : NameOf[r.key] \in names}
Over == {l \in Loads : load[l].pc = "ended"}

\* One refresh runs at a time; the same batch joins it, another is refused.
Ask(c, names, active) ==
  /\ asked[c] = "idle" /\ (\A d \in 1..(c - 1) : asked[d] # "idle")
  /\ names # {}
  /\ \/ /\ ~active \/ (refresh.pc # "off" /\ refresh.names # names)
        /\ asked' = [asked EXCEPT ![c] = "refused"]
        /\ UNCHANGED refresh
     \/ /\ active /\ refresh.pc # "off" /\ refresh.names = names
        /\ asked' = [asked EXCEPT ![c] = "waiting"]
        /\ UNCHANGED refresh
     \/ /\ active /\ refresh.pc = "off"
        /\ asked' = [asked EXCEPT ![c] = "waiting"]
        /\ refresh' = [NoRefresh EXCEPT
             !.pc = "asking", !.names = names, !.records = RecordsOf(names),
             !.before = Over]
  /\ UNCHANGED <<version, cache, epoch, load, tokens>>

\* A caller that cancels leaves the refresh to the others.
Cancel(c) ==
  /\ asked[c] = "waiting"
  /\ asked' = [asked EXCEPT ![c] = "canceled"]
  /\ UNCHANGED <<version, cache, epoch, load, tokens, refresh>>

\* The backend answers the timestamp call; a failure, a malformed batch and
\* the abort by retire() are alike.
TimestampsArrive ==
  /\ refresh.pc = "asking"
  /\ \/ refresh' = [refresh EXCEPT !.pc = "answered",
           !.seen = [n \in Names |-> IF n \in refresh.names THEN version[n] ELSE 0]]
     \/ refresh' = [refresh EXCEPT !.pc = "failed"]
  /\ UNCHANGED <<version, cache, epoch, load, tokens, asked>>

Outdated(r) == r.token # refresh.seen[NameOf[r.key]]
\* (A variant that invalidates by name.)
StaleByName == {r \in refresh.records : Outdated(r)}
\* A record that was replaced since the admission belongs to a newer load.
Stale == {r \in refresh.records : Outdated(r) /\ r \in ToSet(tokens)}

\* #executeMetadataRefresh after its await
Compares(active) ==
  LET gone == {r.key : r \in Stale}
  IN /\ refresh.pc = "answered"
     /\ \/ /\ active
           /\ refresh' = [refresh EXCEPT !.pc = "fulfilled"]
           /\ cache' = [k \in Keys |-> IF k \in gone THEN NoEntry ELSE cache[k]]
           /\ epoch' = [k \in Keys |-> IF k \in gone THEN epoch[k] + 1 ELSE epoch[k]]
           /\ tokens' = Without(gone)
        \/ /\ ~active
           /\ refresh' = [refresh EXCEPT !.pc = "failed"]
           /\ UNCHANGED <<cache, epoch, tokens>>
     /\ UNCHANGED <<version, load, asked>>

\* (A variant that comes to an end only if all goes well.)
EndsIfFulfilled == {"fulfilled"}
Ends == {"fulfilled", "failed"}
\* The finally() of the operation: whoever still waits is answered.
RefreshEnds ==
  /\ refresh.pc \in Ends
  /\ refresh' = NoRefresh
  /\ asked' = [c \in RefreshCalls |->
       IF asked[c] # "waiting" THEN asked[c]
       ELSE IF refresh.pc = "fulfilled" THEN "answered" ELSE "failed"]
  /\ UNCHANGED <<version, cache, epoch, load, tokens>>

(***************************************************************************)
(* retire()                                                                *)
(***************************************************************************)
Forgets == tokens' = <<>> /\ UNCHANGED <<version, cache, epoch, load, refresh, asked>>

\* The repository retires: nothing cached remains, and nothing is cached.
RepositoryClears ==
  /\ cache' = [k \in Keys |-> NoEntry]
  /\ epoch' = [k \in Keys |-> epoch[k] + 1]
  /\ UNCHANGED <<version, load, tokens, refresh, asked>>

Loading == {l \in Loads : load[l].pc \in Running}

LoadSteps(l, active) == Reads(l) \/ Fails(l) \/ Returns(l, active)
RefreshSteps(active) == TimestampsArrive \/ Compares(active) \/ RefreshEnds
=============================================================================
