# open-rfc in TLA+

Formal models of open-rfc, a pure TypeScript client for SAP's RFC protocol.
The models are translated from `src/src/**`; the tests and `docs/` were read
for what the code means to promise.  TLC checks the models on small instances,
and TLAPS proves the safety of most of them for any number of connections,
requests, contexts, transactions, lookups, destinations, owners' callers and clients.

Contents: [the system](#the-system), [what is hard](#what-is-hard),
[modules](#modules), [how to read the models](#how-to-read-the-models), the models
([pool](#the-connection-pool), [contexts](#the-session-contexts),
[transactions](#the-transactions), [repository](#the-metadata-repository),
[retirement](#retirement), [owner](#the-destination-owner),
[transport](#the-transport), [session](#the-cpic-session),
[connection](#the-connection-and-its-session-providers),
[facade](#the-node-rfc-facade), [codecs](#the-codecs)), [runs](#runs),
[proofs](#proofs), [limits](#what-is-not-modelled), [plan](#plan).

## The system

All of it runs on one JavaScript thread: code runs without interruption until
it awaits, returns to the event loop or calls back, so interleaving happens at
awaits and callbacks only.  That is where the models cut the code into actions.

| Component (under `src/`) | State | Operations | What makes it correct |
|---|---|---|---|
| connection pool, `pool/connection-pool-runtime.ts` | physical connections, idle list, creations in flight, queue of requests, leases, one dispatch loop | `acquire`, `release`, calls and `resetActiveLease` under a lease, `retire`, `close`; factory `create`/`validate`/`reset`/`destroy` with deadlines | a lease owns its connection alone; bounded capacity; N leases at once or none, first come first served; no lost wake-up; `close` does not lie |
| session contexts, `lifecycle/session-context-runtime.ts` | entries with nested references, their operation, retirement | `begin`, nested `begin`, `run`, `end`, `retire`; adapter `acquire`/`reset`/`release`, fatal observer | each lease is given back once, never under an operation; retirement leaves nothing behind and ends |
| transactions, `lifecycle/transaction-runtime.ts` | one unit of work: state, outcome, token, lease, quarantines, late release | `begin`, `call`, `commit`, `rollback`, `abort`, `cancel`, `close` | isolation; the reported outcome is true; overdue work keeps its session; no control function after doubt |
| metadata repository, `metadata/repository-runtime.ts` | cache, loads in flight, probes, authorizations, invalidation epochs, retirement | `get`, `invalidate`, `invalidateAll`, `retire`; adapter `probeOptimized`/`authorize`/`load` | nothing loaded before an invalidation is served after it; every read is authorized in its own name; bounded work; every lookup ends |
| configuration generation and destination runtime, `destination/configuration-generation.ts`, `destination/runtime.ts` | lanes of open connections, retirement hooks, the graph of who awaits whose retirement | `open`, `retire`, disposal of late opens | a retirement never awaits itself, even re-entered; it settles; what it reports done is done |
| direct destination owner, `destination/direct-destination-owner.ts` | lease tokens and the tails of their operations, generation tokens of metadata, its parts | acquire, execute, reset, release, load and refresh of metadata, `retire` | no session lost or used by two; parts go down in order; a refresh spares what was reloaded meanwhile |
| NI socket and framing, `transport/ni-socket.ts`, `protocol/ni.ts` | one pending receive, bounded queue of frames, incremental decoder, pause of the stream | `send`, `receive`, `close`, events of the socket | frames in order, once, whole; limits; one end |
| SAProuter and SOCKS5 tunnels, `transport/saprouter-*.ts`, `transport/connectivity-socks5-*.ts` | a handshake over a byte stream | connect, hand-over | what was read past the handshake is not lost; nothing outlives a failure |
| message server, `transport/message-server-resolver.ts`, `compat/message-server-*.ts` | lookup, attempts, failover of a transaction | resolve, open, fail over, dispose | no session lost on failover; one partner per transaction |
| CPIC session, `client/direct-cpic-session.ts` | conversation, logon, exchange in flight, callback rounds, streamed writes | open, logon, invoke, ping, reset, close | an answer belongs to its request; failures tell the truth about what was sent and about the connection |
| classic invocation and codecs, `client/classic-invocation.ts`, `protocol/cpic.ts`, `protocol/classic-rfc.ts`, ... | none between calls | encode, decode | what is decoded is what was encoded, a damaged answer is refused |
| metadata descriptors, `metadata/recursive-metadata.ts`, ... | none between calls | build, index | cycles, components and depths of the type graph |
| node-rfc facade, `compat/node-rfc-*.ts` | clients with their operation tails, a pool with claims to recycle, transaction cycles of a connection | `open`, `call`, `ping`, `resetServerContext`, `acquire`, `release`, `ready`, `closeAll`, `close` | each session has one holder; nothing poisoned is reused; every call ends |

Calls go down from the facade: a client or a facade pool calls the direct
destination owner; that holds a configuration generation, whose metadata
repository and connection pool it uses; a session context and a transaction pin
a lease of that pool through a lease adapter; the pool's factory opens CPIC
sessions, and these speak APPC over the NI socket, possibly through a tunnel or
at an address the message server named.  Retirement travels the same way: owner,
contexts, application pool, repository and its pool.  Back up come settled
promises and fatal notifications, down go abort signals.

## What is hard

`PROJECT.json` lists the hazards at their lines.  They are of few kinds:

* **State read before an await and used after it.**  Dispatching a request
  awaits the validation of its candidates; `begin()` awaits its lease; `open()`
  awaits a lease and a ping; a refresh awaits the backend.  Meanwhile the
  request may expire, the client may close, the runtime may retire.
* **Answers after the deadline.**  Every adapter or factory call has a
  deadline, and a callback that overran it may still deliver a connection, or
  still run on a session.
* **Several ways to give a thing back.**  Up to five paths release the same
  lease.
* **Lost wake-ups, waiting for ever.**  Pumps are coalesced, retirement waits
  for whatever is in flight and may be awaited from inside itself.
* **Lists spliced by hand** from many callbacks, and limits on them.
* **Streams**: bytes arrive in pieces cut anywhere, with the end of one protocol
  and the beginning of the next in one piece.
* **Unknown outcomes**: the answer to a commit, or to a request streamed in
  several records, is lost.

## Modules

| Modules | Contents |
|---|---|
| `ConnectionPool`, `PoolProperties`, `PoolProofs` | the pool: its steps; its properties and the refinement mapping; its theorems |
| `LeaseService` | what the pool promises its callers, with nothing said of how; used again as the pool of `ApplicationLeases` |
| `SessionContext` | the session contexts with their properties |
| `Transaction`, `TransactionProofs` | the transaction coordinators with their properties; theorems |
| `MetadataRepository`, `RepositoryProperties`, `RepositoryProofs` | the metadata repository |
| `MetadataService` | what the repository promises: a register for each object |
| `DestinationRetirement` | retirement of configuration generations and destination runtimes |
| `ApplicationLeases`, `MetadataGenerations`, `DirectDestinationOwner`, `OwnerProofs` | the direct destination owner: its leases, its metadata tokens, and their composition with its retirement; theorems |
| `NiFrames`, `NiSocket`, `RoutedTransport` | the NI decoder; the socket transport over it; the tunnels that hand it a socket |
| `DestinationProofs` | theorems about retirement, and about the transport that destinations are reached by |
| `FrameChannel` | what a transport promises to the session on it; its safety is a theorem of `DestinationProofs` |
| `AppcConversation`, `RfcFailurePolicy`, `CpicSession`, `SessionProofs` | the states of a conversation; what a failure says of its connection; the session; theorems |
| `MessageServerSession`, `RfcConnection` | opening a session over the message server or directly; the connection with its transaction cycles, and the properties of both |
| `PartsProofs` | theorems about the session contexts and about the connection |
| `RfcClient`, `RfcClientPool`, `FacadeProofs` | clients of the node-rfc facade; their pool, and the properties of both; theorems |
| `CpicFields`, `RfcReplies`, `ClassicRecords`, `ClassicInvocation`, `RecursiveMetadata` | pure operators: the field chain, answers and their decoders, classic values, an invocation, the type graph |
| `MC*` with their `.cfg` | instances for TLC; `MCParts` puts two models without shared state side by side, `MCCodecs` is the little state machine that exercises the codecs |

`X` `EXTENDS` `Y` where the code of `X` runs on the state of `Y` (socket on
decoder, tunnel on socket, owner on leases and tokens, facade pool on clients).
`INSTANCE` is used for the refinements: `PoolProperties` instantiates
`LeaseService`, `RepositoryProperties` `MetadataService`, `RoutedTransport`
`FrameChannel`.

## How to read the models

An action is one run of the JavaScript thread: a public call, the continuation
after an await, an event, a timer.  Everything the code does between two awaits
is in one action.  Where continuations follow each other in the same turn of the
promise queue, so that no event can come between them, they are one action or the
model says that nothing else is enabled (`InTurn` in the pool, `Quiet` in the
session).

A *bounded call* (`#bounded`, or the pool's factory calls) is in flight
(`"running"`), may have been told to abort (`"signalled"`), and settles with an
answer or by its deadline; work whose deadline passed goes on outside the
caller's sight.  The environment chooses among answer, failure, deadline and
silence.  Time is only that choice.

Variables and fields named *history* are read by properties and by no guard. A
definition introduced by "(A variant ...)" is a plausible mistake in the code; no
action uses it.  Put in the place of the definition that follows, it must make the
property named in `PROJECT.json` fail.

### The connection pool

A *slot* stands for a place a physical connection may occupy; `conn[s]` is the
connection's state, with `"creating"` for an entry of `#creating`.  `op[s]` is
the factory call in flight there.  `idle`, `creating`, `waiters` and
`candidates` are the code's lists, order included.  `leases` is `#knownLeases`,
a lease being its generation number.  `dpc` is the place of the dispatch loop
(`#dispatch`), which awaits one validation at a time; between its awaits it
holds the thread and no other action is enabled.  `pumpScheduled` and `pumpAgain`
are the queued microtask and `#pumpRequestedWhileDispatching`. `release[s]` is
where the asynchronous `release()` of a slot stands; a slot has one such mark, so a
`release()` that overwrites one that still has to request its pump drops that
wake-up: the model has fewer wake-ups than the code.  Public calls map to
`Acquire`, `Release`, `CallStarts`/`CallEnds`,
`LeaseResetStarts`/`LeaseResetSettles` and `Shutdown(target)`, which is both
`retire()` and `close()`; every settlement of a factory call and every timer is
an action.

Found while modelling, and modelled as the code does it:

* After a failed reset on release the replacement connection is created only
  when the destroy has settled: the pump comes after the await.
* The end of `resetActiveLease` requests no pump, so that a waiter may then
  depend on a later release.  `NoLostWakeup` says so (`MayOversleep`).  The
  run that checks it has no such resets; the theorem covers both.
* A validator that rejects every connection keeps a request without a deadline
  waiting for ever.  In the liveness run validation succeeds or expires.

Left out: monitor counters and diagnostics, an injected clock or scheduler that
fails or fires early, callbacks that call the pool back synchronously, signals
that are aborted before the call.  Two continuations of `release()` that run in
adjacent microtasks are one action.

### The session contexts

A context is a `begin()` without a token.  `ctx` is `entry.state`, extended by
the progress of `begin()` before there is an entry; `refs` counts nested
begins (bounded by `MaxRefs`); `call` and `result` are the bounded call it
awaits; `oper` its operation; `late` an acquire past its deadline; `lease`
and `releases` record what the adapter was told.  The settlement of a bounded
call and the code after its await are separate actions, since `retire()` may
run between them.  `awaits` is what retirement collected to wait for.

A callback that re-enters `retire()` has the effect of a retirement just before
the step.  `#releaseClaimed` is left out on purpose: `LeaseReleasedOnce` is
proved without it, so the flag is a second line of defence only.  The bookkeeping
of `AsyncLocalStorage` and the checks of tokens are left out.

### The transactions

`tx[t]` is a record of the fields of one `TransactionRuntime`; its private
methods are operators from record to record (`EndWithRelease`, `AfterOverdue`,
...), which the actions compose.  Several runtimes share `Sessions` through
their adapters: `free` is an abstract pool, where a released lease is available
again and an evicted session is gone.

`terminal` tells where the terminal operation (commit, rollback, close) is, or
how its promise was settled.  `overdue` is `#operationQuarantine`: work past
its deadline, still running.  `late` is an acquire past its deadline.  Three
fields are not in the code: `luw`, the unit of work in the SAP system, which
executes a control function in time, late or never; `doubt`, set by a business
call of unknown effect; `flawed`, the failure a terminal carries to its end.

Calls the runtime refuses change nothing and are left out.  Once a terminal is
claimed no public call changes anything, so that its settlements and the code
after them are one action.  A broken scheduler counts as a passed deadline; a
classifier answers "recoverable" only for what it may by its contract (a fully
decoded reply), never for such a fault, so two quarantines never meet.
`#releaseClaimed` is left out here too.

### The metadata repository

`look[l]` is one call of `get()` from its start to its answer, with the locals
of `#getCanonical` and `#getWithStrategy`: `epoch` and `admission` are their two
epochs, `fellBack` tells the first attempt from the classic one after a
fallback.  An action is the code between two awaits: `Get` runs to the probe,
`Selects` from the strategy to the authorization, `Admits` from there to the
cache, a joined load or an own one, `LoadResumes` and `Unwinds` to the end.

An adapter call belongs to the lookup that made it, which awaits it like those
that joined it (`on`).  It ends in two steps, as in the code: first its handler
runs (`ProbeAnswers`, `AuthorizeAnswers`, `LoadAnswers` fill the tables), then
its `finally()` gives the place back and resumes all who wait (`CallEnds`);
an invalidation may come between.  `Abort` is the caller's signal: `get()`
rejects, the work goes on for the others and for the cache.

A *principal* is a capability identity together with its repository mode.  A
descriptor is a *version*: each invalidation of the object makes the next one,
and a load reads the version of the moment it starts.  `version`, `sweeps`, and
the fields `since`, `sweep`, `asOf` and `permit` of a lookup are history, but
for the bound `MaxVersion`.  Epochs are what the code has instead, and that they
do the work of versions is what the invariant says.

The tables are sets: which settled entry has been least recently used is left
open, so every order of use is covered.  The retained bytes are the size of the
disjoint union of the entries' bytes.  An eviction of snapshots takes any set of
entries whose last member was needed.  A callback or adapter that re-enters
`retire()` has the effect of a retirement just before the step.  Left out:
counters, diagnostics, the canonical form of keys, the freezing and measuring
of snapshots (a malformed one is an adapter failure), bytes beyond the safe
integers, calls of `get()` that are refused at once.

### Retirement

`DestinationRetirement` has generations, each with a runtime on it (`Layers`).
`RetireCall` is `retire()` from outside, from a hook or from the disposal of a
late connection; the asynchronous context of such a caller is the set of
retirements it runs inside of, and the graph of waits is what
`joinWouldCycle` searches.  Hooks and disposals may await the retirement they
ask for or not.  Calls into both layers may mix, as they do in user code.

`NoCircularWait` holds unless the disposal of a late connection re-enters the
retirement of the *runtime* it was opened through: `#disposeLateConnection`
restores the asynchronous context of the generation only, so that
`DestinationRuntime.retire()` (`runtime.ts:345`) does not recognise the call as
its own and returns the promise that waits for this very disposal.  The run
`late_disposal` shows it, against the test "late disposal may await owning
retirement without deadlocking the drain" (`test/destination-configuration-generation.test.ts:1110`),
which covers a bare generation.  This is the finding `PROJECT.json` lists.

Left out: an open whose `factory.open()` itself awaits `retire()`, and the
runtime's `get()`, which hands a lookup to the repository.

### The destination owner

The owner borrows from its application pool, which is `LeaseService` here, the
abstraction the pool is proved to implement.  A lease token is a record by the
number of the pool's lease; `operation[g]` is the operation whose promise is the
tail `releaseApplication()` awaits.  Session contexts borrow through the same calls
(`ContextRequests`).  `MetadataGenerations` is `#loadMetadata`, the table of
generation tokens in order of insertion, and `refreshOptimizedMetadata` cut at its
await; the repository is reduced to one cached descriptor and one epoch for each
key.  `DirectDestinationOwner` adds `retire()`, which takes the parts down in
order and goes on without a part that overran its deadline (`overdue`).  The order
in which the token table evicts (insertion) and that of the repository (use) are
not related by any property.  Left out: the opening of a raw session and its
binding, the validation of its configuration, the classification of preflight
failures, the adapter of transactions.

### The transport

`NiSocket` has one action for each event of the socket and each call; the
socket is Node's and external: it emits data and end only while it flows, close
once.  Bytes are bytes here, so that a record may be cut anywhere, the length
field included; length fields have `LengthBytes` bytes.  `RoutedTransport` starts
one step earlier: a SAProuter or a SOCKS5 proxy answers on the same stream, the
tunnel parses its reply out of whatever chunks come, pauses the socket, removes
its listeners and hands over what it read too much.  The stream of the model is
what the router answers followed by what the target sends; `WholeReplies` says where
the one ends and the other begins: what a router answers is, read at one go, refused
or used up to its last byte.  How it is cut, and what the tunnel makes of the cuts, is
left open.  Texts of routes, admission of
targets and credentials are left out.

### The CPIC session

`CpicSession` is a conversation from its set-up on.  `calls[c]` is a call of the
public interface with the exchanges it still has to make; `exchange` is the one
that runs (`#busy`).  The request of an invocation may take several records with
asynchronous sends and barriers; the answer may come in fragments, or be a callback
that is answered in turn.  Between the exchange that returns and the caller that
decodes it only promise jobs run (`Quiet`), and there `close()` may come: then a
successful answer is reported as `CM_DEALLOCATED_NORMAL`, although the comment at
`direct-cpic-session.ts:1841` speaks of the peer's deallocation.  Bytes are
reduced to what tells one message from another.  A structure whose name is that of a
table type is looked up in two exchanges (`alias`), the second of which is left
out when the row is cached (`getLegacyStructureDefinition`); the code checks the
logon once, the model before each, which is the same, since only a closed session
loses it.  The admission of a recursive serializer is not modelled in the session.

### The connection and its session providers

`MessageServerSession` is `RFCClient.open()` on the route `"group"` (lookup at the
message server, attempts within a bound, failover as long as no transaction was
ready) or `"direct"`; `RfcConnection` is the connection on it, with its cycles:
one transaction is current, `commit()` and `rollback()` end it, `close()` aborts
the operations and waits for them.  The creation of a direct session is promise
jobs only.  `ready()` redirects once.  Of a transaction (module `Transaction`) only
what its session sees is kept.

Observed: `isTerminal()` is false for a committed or rolled-back transaction until
it is closed, although a comment in `rfc-session-provider.ts` says otherwise; and a
call refused during a failing commit drops `#cycle` before the transaction is over.
Left out: validation of parameters and plans, the projection of metadata, the
bounded loop of `message-server-direct-session-factory.ts`, which is the one of the
provider.

### The node-rfc facade

`running[c]` is the operation of a client and the await it stands at; `queue[c]`
those behind it in `#operationTail`; `mine[c]` its lease, `reusable[c]`
`#leaseReusable`.  `lease[l]` says where a lease of the destination is;
`spoiled` and `touched` are history: a call failed fatally there, a call was made
there since the last reset.  A pool has the calls of `acquire()`, the claims of
released clients that are recycled one after another, the growth of `ready()` and of the low-water mark,
and `closeAll()`.  A behaviour is about a direct client or about a pool.

The owner is reduced to granting leases and taking them back; a `close()` queued
twice is one; how many connections are idle is left open; `releaseApplication` is
one step.  A `close()` waits for a replacement acquire that has no signal, as long
as its timers (30 to 45 s) allow.  Snapshots of arguments, diagnostics and wording
are left out.

### The codecs

These are operators, and `MCCodecs` exercises them: an invocation is captured,
encoded, answered by a partner that is honest, careless or faulty, one record of
the message may be lost, repeated or overtaken, and the answer is decoded.  A
message is its chain of tagged fields.  Of the scalar types one of each way of writing a value is kept (C, N,
X, I, g); the value of a structure is the bytes of its fields; deep values are
opaque.  Of the two geometries of a row one is kept.

Observed: the chain of tags detects any single field that is lost, repeated or
overtaken by one of another tag, and the rule for requested outputs detects the
loss of a name with its value; two adjacent lost records that leave a value
followed by a name keep the chain linked (the comment at `cpic.ts:436`).
`resolveFieldPath` never walks more than one segment.

Left out: the fast serializer, LZ4, decimal and XML conversions, tickets,
scrambling; the table of handlers of callbacks; the budgets of metadata but for
that of rows; the scalar types no recursive codec can write, and the live
snapshot of the policy.

## Runs

State spaces are finite without a bound on the length of behaviours: requests,
loads and calls are made a bounded number of times, nesting is bounded, objects are
invalidated at most `MaxVersion` - 1 times.

| Run | Instance | Shows |
|---|---|---|
| `pool_races` | 2 requests for 1 or 2 of 2 connections in 3 slots; validation on checkout, reset on release, low water 1, cap 0; creations, validations and destroys fail, creations and destroys expire | the inductive invariant (lists, exclusive leases, capacity), `GrantsAllOrNothing`, `NoLostWakeup`, `ShutdownHonest`, `GivenUpForGood` |
| `pool_live` | 3 requests for 1 connection; creations and resets fail, every callback may expire, resets under leases | the refinement of `LeaseService`; every request is settled by wake-ups alone, shutdown ends closed (`PoolSettles`) |
| `parts` | 2 contexts with nesting 2; or a connection on either route, 3 attempts, 3 transactions, 3 callers | contexts: `ContextInv`, `ReusedOnlyWhileOpen`, every call answered; connection: `OnePartner`, `NothingLeft`, everything settles |
| `transactions` | 2 runtimes sharing 2 sessions | `Isolation`, `OutcomeHonest`, every caller answered, quarantines end (`CallsAnswered`) |
| `repository` | 2 lookups, 2 objects, 3 principals with different modes, tables of one entry, in five workloads | `RepositoryInv`, `WithinLimits`, the refinement of `MetadataService`, every lookup and retirement ends |
| `retirement` | 3 destinations whose hooks retire one another, or 2 with an open in flight | `NoCircularWait`, `SettledMeansDone`, `RetirementsSettle` |
| `late_disposal` | 1 destination, disposals that re-enter the runtime | the finding: `LateDisposalIsAnswered` fails |
| `destination_owner` | 2 acquisitions, one by a context, of 2 connections; or up to 3 loads of 2 keys with 2 refreshes | `LeasesAccounted`, `ReloadSurvives`, `EverythingSettles` |
| `transport` | 3 routes, length fields of 2 bytes, payloads of at most 2, a queue of 2 frames or 3 bytes, chunks cut anywhere | `TransportInv`, `BytesAccounted`, the refinement of `FrameChannel`, `CallsSettle` |
| `session` | logon, reset and an invocation or the lookup of a table type as three callers, requests of 3 records, answers of up to 2 fragments, 1 callback, 1 stray record | `InStep`, `TransmissionHonest`, `DispositionHonest`, `CallsSettle` |
| `facade` | a direct client with 4 operations, or a pool of 2 clients and 4 leases | `OneHolder`, `NothingLeftBehind`, `CallsEnd` |
| `codecs` | parameter lists of three functions, documents around the chunk and packet bounds, graphs of 4 types with up to 3 edges or nearly complete | `AnswersHonest`, `RepliesHonest`, `MetadataAgrees` |

Why these bounds.  Two connections and requests of one or two make partial
candidate sets, competition for the second connection, and a queue behind the
head possible; `Slots` has one place more than `MaxConnections`, so exceeding
the limit is possible in the model.  A third request is needed for order behind
the head.  Two contexts let a retirement meet an opening and a running one.  With two
transactions and two sessions a session changes hands while the other is free or
evicted.  Two lookups are what it takes to join and to fill a table of one; a
second object compacts a table of one epoch; a workload limits which kinds of race
are combined, since safety is proved in general.  Three destinations make a cycle
of waits through two others.  Two refreshes let one join, be refused or follow; a third load
replaces a descriptor that a refresh is looking at.  Two-byte lengths can be cut in the middle;
the queue's two limits are met separately.  Three records of a request have an asynchronous send, a
barrier and a last one.  Two clients of one `acquire()`, or of two that compete, with
four leases let each of them replace its lease once.  Documents are as long as the
real `Fragment` (28,000) and `Chunk` (16,384) bounds, one below and one above.
`RequestSymmetry` is used in `pool_races` only, which has no liveness; slots are not
symmetric since the code takes the first.  Deadlock is not checked: in each model
everything may come to its end.

**Fairness.**  Promise jobs and queued reactions run (weak fairness of the
continuations).  Beyond that the models assume what the code can rely on:

* `pool_live`: every factory callback and every call under a lease ends, in
  time or not (each has a deadline), and borrowers release (strong fairness, since a
  call under the lease disables the release).  No acquire timer and no shutdown timer
  is assumed, so what settles a request is the pool's own pump.
* contexts and transactions: deadlines pass when the call has not settled; adapters,
  operations, observers and the SAP system may hang for ever.  `QuarantineEnds`
  assumes as its premise that overdue work settles some day; the code has no other
  way to end it.
* repository: the adapter answers every call: the repository has no deadlines of its
  own, and its adapter calls over sessions which have.
* retirement: hooks, opens and disposals end, unless they await a retirement; then
  they end when it does.
* owner: sessions answer or time out, callers hand back what they hold, and the
  contexts do so when they are retired.  No part needs its deadline.
* transport: timers fire, bytes that were sent arrive while the socket flows, a
  destroyed socket emits `close`, and the session keeps receiving.  Fairness of
  `Data` and `Adopt` is written out with `[]<>` because their `ENABLED` is costly.
* session: a send or receive ends, if need be by its timer.  Nothing is assumed of
  the peer.
* connection and facade: partners answer or the timers of the calls fire.

## Proofs

TLAPS checks every proof to its last leaf.  What it proves holds for every value
of the constants the assumptions allow.  These say what constructors check and what a
process has: limits are natural numbers, positive where zero is refused
(`BoundsAssumption`, `RepositoryAssumption`, `LeasesAssumption`, ...); the sets of
slots, contexts, lookups, clients and requests are finite; flags are Booleans; the
constant `None` is not a value of the sets it is added to; what a router answers and a
target sends is any sequence of bytes (`RoutedTransportAssumption`), divided where
the handshake's own reading of the answer divides it (`WholeReplies`, which restricts
no peer: a stream that is accepted divides at one place, the rest belongs to the target).
An answer that breaks off is one of which not all has arrived when the setup fails, which
it may at any point (`AttemptFails`).  No theorem assumes
fairness or anything about the environment, with one exception noted below.

| Module | Theorems | State |
|---|---|---|
| `PoolProofs` | `PoolInvariant` | `PoolInv`: types, lists, leases, capacity, resets, the locals of the loop |
| | `PoolTypes`, `ExclusiveLeases`, `BoundedCapacity`, `ListsAlwaysAgree` | the parts of it a reader looks for |
| | `GrantsAreAtomic`, `ShutdownsAreHonest`, `NoWakeupIsLost`, `NothingComesBack` | `GrantsAllOrNothing`, `ShutdownHonest`, `NoLostWakeup`, `GivenUpForGood` |
| | `PoolIsALeaseService` | the pool implements `LeaseService` |
| `PartsProofs` | `ContextInvariant`, `LeaseReleasedOnce`, `OperationKeepsLease`, `RetirementReturnsAll`, `NoReuseAfterRetire` | leases are given back once, never under an operation, all before retirement ends, none recycled after it began |
| | `ConnectionInvariant`, `OneServer`, `ConnectionLeavesNothing` | one partner at a time; nothing left by a rejected `open()` or a settled `close()`, retired in order |
| `TransactionProofs` | `TransactionInvariant`, `TransactionsIsolated`, `OutcomesHonest`, `LeaseHandedBackOnce`, `NoHandOverUnderWork`, `NoControlAfterDoubt`, `FulfilledMeansClean`, `RestHoldsNothing`, `EndsAreFinal` | isolation of units of work that share sessions, true outcomes, custody of the lease |
| `RepositoryProofs` | `RepositoryInvariant`, `ReadsAreAuthorized`, `CacheNeverStale`, `RetirementLeavesNothing`, `RepositoryIsBounded` | authorization in one's own name, no invalidated snapshot in the cache, all limits |
| | `RepositoryIsARegister` | the repository implements `MetadataService` |
| `DestinationProofs` | `RetirementInvariant`, `SettledIsDone`, `NothingWaitsForItself` | what a settled retirement has done; no cycle of waits |
| | `TransportInvariant`, `TransportSafe`, `NoByteLost` | the limits of queue and decoder, backpressure, cleaning up; every byte that came in is accounted for, in its place |
| | `TunnelTakesItsOwn`, `RecordsComeInOrder`, `NothingCutOff` | where the router's answer ends; the records of the bytes that came, in order; all of them before an orderly end |
| | `TransportIsAFrameChannel` | the transport implements the safety of `FrameChannel` |
| `SessionProofs` | `SessionInvariant`, `SessionsStayInStep`, `TransmissionIsHonest`, `DispositionsAreHonest` | whose turn it is on the conversation; what a failure says of the transmission and of the connection; the reset and its refresh as one |
| `OwnerProofs` | `OwnerInvariant`, `LeasesAreAccounted`, `ReloadsSurvive` | lent sessions, records and releases agree through retirement; a refresh spares what is newer |
| `FacadeProofs` | `FacadeInvariant`, `EverySessionHasOneHolder`, `NothingIsLeftBehind` | one holder for each session, nothing poisoned is reused |

**The pool.**  `PoolInv` is inductive: `ListsAgree` ties each list the code
splices to the state of its entries, `LoopLocals` the locals of the dispatch loop
to both; without it a candidate list that survived an await could contain a
connection that was destroyed meanwhile.  Three invariants on top of it carry
the rest: `GrantInv` (the loop validates exactly as many candidates as the request
at hand asked for), `EndInv` (what the promise of a shutdown waits for, state
by state), and `WakeInv` (a pool that is asleep has had its pump requested or has
nothing to do).  In the refinement a grant of the loop is the service's grant, and
the step that closes the last connection its `Close`; that the service's bound is
respected needs an injection of active leases into connections.

**Session contexts.**  The lease of a context is held by exactly one of: the call
that acquires it, the entry, the call that releases it (`HeldInCustody`), and what a
retirement has not finished is among what it awaits (`RetirementCovers`).  Each
action touches one context, so a frame lemma reduces a step to it.

**The connection.**  `ConnectionInv` says for each stage of `open()` (`OpeningSound`),
of the lookup and the redirect (`LookupSound`) and of `close()` (`ClosingSound`) what
exists and what is over by then.  `OneServer` needs that the attempt counted last is
the only one whose session may be alive, and that no session is alive while the
message server is asked, which holds because a redirect waits for the session to be
retired.  For `ConnectionLeavesNothing`: a transaction that is not over is the
cycle, or the one `close()` waits for; the cycle is forgotten by a failure of
`ready()` too, so the invariant also says when a transaction has one.  Calls begin only
after `open()` resolved (`CallsSound`), so no call meets a redirect.

**Transactions.**  `FieldsFit` says which combinations of fields of one runtime
occur (before its token, published, decided); `SessionsApart` that no two
runtimes use a session unless one is done with it.  Each private method of the code is
an operator with a lemma of its own, and an action is proved by those of the
methods it composes.

**The repository.**  Epochs tell versions apart (`Dated`, `StampsAgree`): an
entry of the cache whose epoch is current has the current version
(`CacheCurrent`), although epochs are compacted, because compaction raises the base of
them all.  A shared call is shared by lookups that may use its answer
(`SharedWorkIsOwn`).  The refinement has five kinds of step; the linearization point
of a read is in its load, not in its answer.  For the limits, each kind of call is
bounded at the one place it begins, each table where room is made for an entry;
retained bytes are counted as the cardinality of a disjoint union, which needs no
induction.

**Retirement.**  The invariant says who began each task, drain and hook and what each
waits for (`EntryFits`, `WaitsTracked`), and that the graph of these waits is acyclic
in the form "a set each of whose members leads back into it is empty".  An edge is
added only when `joinWouldCycle` did not find the way back, which yields a set that
contains the target with all it leads to and not the source (`SafeEdge`).
`NothingWaitsForItself` assumes that the disposal of a late connection does not re-enter
the runtime (`"runtime" \notin Reentrant`): the finding shows it false otherwise.

**The CPIC session.**  `CpicInv` has two halves.  One holds whatever the peer
sends: an exchange that runs is that of the one waiting call, as far in its records
as the log says, in the state its last record left (`ExchangeFits`); what a settled
call says is so of a past exchange, which no later step changes (`CallFits`); the
exchange after a reset is its refresh because the owner of the session keeps every
other call out (`OwnerFits`); between an exchange and the caller that decodes its
answer the link has no news (`CallsFit`).  The other half holds as long as no stray
record came: for each state of the conversation, the records on the link in both
directions and what the peer is about to do (`TurnFits`).  Neither is inductive
without the first: that a queued record belongs to the exchange that runs needs its
number to be that of the log.  Each action is an operator of the code with a lemma
that takes the session, link and exchange it is applied to, because `#exchange`
fails, sends and receives from the middle of other steps.

**The owner.**  The pool's numbers are bounded since each request is granted once,
so every lease has a record; the state of a record, the operation under it and the
call that releases it fit together (`LeaseSound`); the progress of `retire()`
says what is closed (`RetirementSound`).  For `ReloadsSurvive`: the table has one record
for a key, made by a load that is over, so that a record a refresh took with it which is
still there is as old as the refresh (`RecordsInv`).

**The facade.**  `FacadeInv` says, for each operation at each of its awaits, what its
client holds.  A lent session is held by one of: a client, an operation
of it, a claim to be recycled, a call of `acquire()` (`HeldOnce`).  A step that hands
a session on is proved by exchanging the hands of one client, or of one part of
the pool.  `CleanInv`, for `NothingIsLeftBehind`: only the holder of a session makes it
dirty, and a fatal failure takes it off the client or marks its claim in the same
turn.

**The transport.**  The inductive invariant `TransportIndInv` adds to `TransportInv` and
`BytesAccounted` which fields a setup at each stage has (`InStages`) and that the decoder
counts what it holds: its position is a byte of its first chunk that is not consumed, and
`buffered` is the number of bytes from there on (`DecoderOK`).  The decoder's helpers
are recursive functions over a list of chunks.  `Recursion` shows once that a function
defined by its previous value exists, and then each helper has a lemma that says what
it computes in terms of the bytes behind the chunks: `PeekIs` (the length field is the
number their first bytes spell), `ConsumeIs` (a prefix is cut off and the rest kept),
`PushIs` (the payloads encoded, followed by what is held back, are the bytes there
were, and less than one record is held back).  Inductions go over a least
counterexample (`BoundedInduction`), since the library's rules take operators.  A
handshake only ever takes bytes off the front (`Eats`, `ReplyIs`), so that what it
hands over is exactly what the socket emitted after them.

From bytes to records: `Records` reads a sequence of bytes at one go and is defined by
later values (`RecursionBack`).  `Parsed` adds to `PushIs` that what came out are
records a peer may send and that what is held back `Waits` for more;
`RecordsJoin` that the records of such payloads, encoded, followed by something that
waits are those payloads.  With `BytesAccounted` this is `InOrder`; `ReadsOn` says that
more bytes only add records at the end.  Every step of the transport hands out at most
one record, the first of the queue or of what just came (`TransportMoves`), and an end is
only emitted after every byte was read and with an empty queue, hence `NothingCutOff`.

Where the target's records begin needs the handshakes to be indifferent to cuts:
`Faithful` says that the part of the answer the tunnel has not taken is still an
answer, to the request that is out.  `SapRouterExact` and `SocksExact` show it for a
reply that is read from some prefix: it stays undecided and keeps what is left (`Stands`),
or decides as the whole answer would, with the same byte as the last it took.  The
refinement of `FrameChannel` then maps each step to `Open`, `Deliver`, `Close` or a
stutter (`ChannelStep`), over the fact that what was received begins the target's
records (`Ahead`).

**Model-checked only.**  Liveness and refinement with fairness: the provers know
neither fairness nor `ENABLED`.  So `CallsSettle`, and of `ImplementsFrameChannel` that the next record is
delivered in the end, stay with TLC; its two other parts are `TransportIsAFrameChannel` and
`NothingCutOff`.  The codecs of `MCCodecs`: what they compute is defined by recursion
over lists and graphs.

## What is not modelled

Omissions inside a modelled component are named in its section.  Beyond them:
diagnostics and monitoring, the package's entry points, the rendering of errors and
their redaction; the layout of bytes in headers and gateway records, the fast
serializer, LZ4, decimal, XML, ticket and password encodings, whose correctness is
a matter of test vectors; the parsers of the metadata tables; connection
parameters and route strings.  `PROJECT.json` has the list of components.

Components compose by abstraction, as far as they do: the owner runs over
`LeaseService`, which the pool implements; the session runs over what
`FrameChannel` promises; the connection runs over transactions reduced to what its
session sees.  There is no model of the whole stack.  Other assumptions that all
models share: the JavaScript runtime and its timers work, and promises that settle run
their reactions.

## Plan

1. The opening of a raw session by the owner (binding, validation, preflight), and
   the runtime's `get()`, as actions; a property that relates eviction of generation
   tokens and of cached descriptors.
2. Byte codecs as functions with a reference definition (fast serializer, classic
   xRFC), checked over bounded documents.
