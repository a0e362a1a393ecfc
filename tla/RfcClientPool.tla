--------------------------- MODULE RfcClientPool ---------------------------
(***************************************************************************)
(* The pool of the node-rfc facade, and the properties of the facade:      *)
(* src/compat/node-rfc-pool.ts over node-rfc-client.ts.                    *)
(*                                                                         *)
(* The pool lends the leases of one destination to managed clients.  A     *)
(* client is made for one lease and claimed once; the claims of released   *)
(* clients are recycled one after the other, each after the operations the *)
(* client had admitted.  closeAll() claims what is lent, retires the owner *)
(* and waits for the claims, the recycling and the growth under way.       *)
(***************************************************************************)
EXTENDS RfcClient, Functions

CONSTANTS
  AcquireCalls          \* the calls of acquire(): the clients each would make

\* A client is made by one call of acquire(), and without a pool there are none.
ASSUME PoolAssumption ==
  /\ AcquireCalls \subseteq SUBSET Managed /\ {} \notin AcquireCalls
  /\ \A w \in Workloads :
       /\ w.calls \subseteq AcquireCalls /\ (~w.pooled => w.calls = {})
       /\ \A a, b \in w.calls : a # b => a \cap b = {}
       /\ w.ops \in Nat /\ w.kinds \subseteq Operations /\ w.pooled \in BOOLEAN

VARIABLES
  closed,     \* #closed
  leased,     \* #leased
  acquires,   \* the calls of acquire(): how far they are, the leases they hold
  recycling,  \* the claims behind #recycleTail, its head at work
  growth,     \* #readyTail: the jobs queued, and the one at work
  closing,    \* the body of closeAll()
  closeClaims \* the claims of closeAll() that are still to be given back
poolVars == <<closed, leased, acquires, recycling, growth, closing, closeClaims>>
vars == <<clientVars, poolVars>>

NotAcquiring == [pc |-> "off", leases |-> {}, infos |-> 0]
NotGrowing == [asked |-> 0, jobs |-> 0, pc |-> "idle", leases |-> {}, again |-> FALSE]

Claims == [client : Managed, lease : Leases \cup {None}, last : BOOLEAN]

TypeOK ==
  /\ ClientTypeOK
  /\ closed \in BOOLEAN /\ leased \subseteq Managed
  /\ acquires \in [AcquireCalls -> [leases : SUBSET Leases, infos : 0..MaxConnections,
       pc : {"off", "acquiring", "describing", "undoing", "done"}]]
  /\ recycling \in Seq(Claims)
  /\ growth \in [asked : Nat, jobs : Nat, leases : SUBSET Leases,
                 again : BOOLEAN, pc : {"idle", "acquiring", "returning"}]
  /\ closing \in {"off", "claims", "tails", "retiring", "done"}
  /\ closeClaims \subseteq Claims

Init ==
  /\ ClientInit
  /\ closed = FALSE /\ leased = {} /\ recycling = <<>>
  /\ acquires = [a \in AcquireCalls |-> NotAcquiring]
  /\ growth = NotGrowing
  /\ closing = "off" /\ closeClaims = {}

\* What the pool does leaves the operations of its clients alone.
KeepsClients == UNCHANGED <<use, queue, running, asked>>
KeepsBinding == UNCHANGED <<state, binding>>

\* #ensureOwner makes the owner once; a closed pool makes none.
EnsureOwner == owner' = IF owner = "none" THEN "active" ELSE owner

\* #scheduleLowMaintenance
Maintains == IF closed \/ ~use.low THEN growth ELSE [growth EXCEPT !.jobs = @ + 1]

(***************************************************************************)
(* acquire(n)                                                              *)
(***************************************************************************)
CallGoes(a, pc) == acquires' = [acquires EXCEPT ![a].pc = pc]
KeepsRest == UNCHANGED <<closed, recycling, closing, closeClaims>>

Acquire(a) ==
  /\ a \in use.calls /\ acquires[a].pc = "off"
  /\ \/ ~closed /\ EnsureOwner /\ CallGoes(a, "acquiring")
     \/ closed /\ CallGoes(a, "done") /\ UNCHANGED owner
  /\ UNCHANGED <<lease, spoiled, touched, leased, growth>>
  /\ KeepsClients /\ KeepsBinding /\ KeepsRest

AcquireGranted(a) ==
  /\ acquires[a].pc = "acquiring"
  /\ \/ \E S \in SUBSET Leases :
          /\ Cardinality(S) = Cardinality(a) /\ Grants(S)
          /\ acquires' = [acquires EXCEPT ![a].pc = "describing", ![a].leases = S]
     \/ CallGoes(a, "done") /\ UNCHANGED ownerVars
  /\ UNCHANGED <<leased, growth>>
  /\ KeepsClients /\ KeepsBinding /\ KeepsRest

MayPublish == ~closed

\* The info of each lease is awaited in turn and a client made for it, which
\* nobody knows until the last one: then the call publishes them, or gives up.
AcquireDescribes(a) ==
  LET last == acquires[a].infos + 1 = Cardinality(a)
  IN /\ acquires[a].pc = "describing"
     /\ \/ /\ ~last
           /\ acquires' = [acquires EXCEPT ![a].infos = @ + 1]
           /\ UNCHANGED <<state, binding, leased, growth>>
        \/ /\ last /\ MayPublish
           /\ \E give \in [a -> acquires[a].leases] :
                /\ {give[c] : c \in a} = acquires[a].leases
                /\ mine' = [c \in Clients |-> IF c \in a THEN give[c] ELSE mine[c]]
           /\ hasOwner' = [c \in Clients |-> hasOwner[c] \/ c \in a]
           /\ state' = [c \in Clients |-> IF c \in a THEN "open" ELSE state[c]]
           /\ acquires' = [acquires EXCEPT ![a] = [NotAcquiring EXCEPT !.pc = "done"]]
           /\ leased' = leased \cup a
           /\ growth' = Maintains
           /\ UNCHANGED <<claimed, reusable>>
        \/ /\ CallGoes(a, "undoing")     \* no info, or closed meanwhile
           /\ UNCHANGED <<state, binding, leased, growth>>
  /\ KeepsClients /\ KeepsRest /\ UNCHANGED ownerVars

\* The cleanup of a failed call: every lease goes back, one after another.
AcquireUndoes(a) ==
  /\ acquires[a].pc = "undoing"
  /\ \/ \E l \in acquires[a].leases :
          /\ acquires' = [acquires EXCEPT ![a].leases = @ \ {l}]
          /\ Destroy(l)
     \/ /\ acquires[a].leases = {}
        /\ acquires' = [acquires EXCEPT ![a] = [NotAcquiring EXCEPT !.pc = "done"]]
        /\ UNCHANGED <<lease, spoiled, touched>>
  /\ UNCHANGED <<owner, leased, growth>>
  /\ KeepsClients /\ KeepsBinding /\ KeepsRest

(***************************************************************************)
(* release(clients)                                                        *)
(***************************************************************************)
\* #validateReleaseBatch, then all claims at once, and one recycling job.
Release(S) ==
  /\ S # {} /\ S \subseteq leased
  /\ leased' = leased \ S
  /\ ClaimAll(S)
  /\ \E order \in Bijection(1..Cardinality(S), S) :
       recycling' = recycling \o
         [i \in 1..Cardinality(S) |-> [client |-> order[i], lease |-> mine[order[i]],
                                       last |-> i = Cardinality(S)]]
  /\ UNCHANGED <<closed, acquires, growth, closing, closeClaims, ownerVars>>
  /\ KeepsClients

ReusableAfterTail(c) == reusable[c]

\* #recycleClaim: above the high-water mark the session is let go of.
Recycle ==
  LET claim == Head(recycling)
  IN /\ recycling # <<>>
     /\ \/ claim.lease = None /\ UNCHANGED <<lease, spoiled, touched>>
        \/ /\ claim.lease # None /\ TailIsOver(claim.client)
           /\ \/ Destroy(claim.lease)
              \/ /\ ~closed /\ ReusableAfterTail(claim.client)
                 /\ GiveBack(claim.lease, TRUE, TRUE)
     /\ recycling' = Tail(recycling)
     /\ growth' = IF claim.last THEN Maintains ELSE growth
     /\ UNCHANGED <<closed, leased, acquires, closing, closeClaims, owner>>
     /\ KeepsClients /\ KeepsBinding

(***************************************************************************)
(* ready(n)                                                                *)
(***************************************************************************)
AskReady ==
  /\ use.pooled /\ growth.asked < use.ready
  /\ growth' = [growth EXCEPT !.asked = @ + 1, !.jobs = @ + 1]
  /\ UNCHANGED <<clientVars, leased, acquires>> /\ KeepsRest

\* #growReadyTo, #maintainLow: nothing to do, or all of the sessions are asked
\* for so that the idle ones do not count twice.
GrowthBegins ==
  /\ growth.pc = "idle" /\ growth.jobs > 0
  /\ \/ growth' = [growth EXCEPT !.jobs = @ - 1] /\ UNCHANGED owner
     \/ /\ ~closed /\ EnsureOwner
        /\ growth' = [growth EXCEPT !.jobs = @ - 1, !.pc = "acquiring"]
  /\ UNCHANGED <<lease, spoiled, touched, leased, acquires>>
  /\ KeepsClients /\ KeepsBinding /\ KeepsRest

GrowthGranted ==
  /\ growth.pc = "acquiring"
  /\ \/ \E S \in SUBSET Leases :
          /\ S # {} /\ Grants(S)
          /\ growth' = [growth EXCEPT !.pc = "returning", !.leases = S, !.again = ~closed]
     \/ growth' = [growth EXCEPT !.pc = "idle"] /\ UNCHANGED ownerVars
  /\ UNCHANGED <<leased, acquires>> /\ KeepsClients /\ KeepsBinding /\ KeepsRest

GrowthReturns ==
  /\ growth.pc = "returning"
  /\ \/ \E l \in growth.leases :
          /\ growth' = [growth EXCEPT !.leases = @ \ {l}]
          /\ GiveBack(l, growth.again, FALSE)
     \/ /\ growth.leases = {}
        /\ growth' = [growth EXCEPT !.pc = "idle", !.again = FALSE]
        /\ UNCHANGED <<lease, spoiled, touched>>
  /\ UNCHANGED <<owner, leased, acquires>> /\ KeepsClients /\ KeepsBinding /\ KeepsRest

(***************************************************************************)
(* closeAll()                                                              *)
(***************************************************************************)
CloseAll ==
  /\ use.pooled /\ closing = "off"
  /\ closed' = TRUE /\ leased' = {} /\ closing' = "claims"
  /\ closeClaims' = {[client |-> c, lease |-> mine[c], last |-> FALSE] : c \in leased}
  /\ ClaimAll(leased)
  /\ AskToRetire
  /\ UNCHANGED <<lease, spoiled, touched, acquires, recycling, growth>>
  /\ KeepsClients

CloseReturns ==
  /\ closing = "claims"
  /\ \E claim \in closeClaims :
       /\ closeClaims' = closeClaims \ {claim}
       /\ \/ claim.lease = None /\ UNCHANGED <<lease, spoiled, touched>>
          \/ claim.lease # None /\ TailIsOver(claim.client) /\ Destroy(claim.lease)
  /\ UNCHANGED <<owner, closed, leased, acquires, recycling, growth, closing>>
  /\ KeepsClients /\ KeepsBinding

GrowthIsOver == growth.pc = "idle" /\ growth.jobs = 0
CloseGoesOn ==
  /\ \/ closing = "claims" /\ closeClaims = {} /\ closing' = "tails"
     \/ closing = "tails" /\ recycling = <<>> /\ GrowthIsOver /\ closing' = "retiring"
     \/ closing = "retiring" /\ owner \in {"none", "retired"} /\ closing' = "done"
  /\ UNCHANGED <<clientVars, closed, leased, acquires, recycling, growth, closeClaims>>

(***************************************************************************)
(* The specification                                                       *)
(***************************************************************************)
ClientSteps ==
  /\ UNCHANGED poolVars
  /\ \/ \E c \in IF use.pooled THEN UNION use.calls ELSE {Direct} :
          (\E op \in Operations : Ask(c, op)) \/ Proceeds(c)
     \/ OwnerRetires

PoolProceeds ==
  \/ \E a \in AcquireCalls : AcquireGranted(a) \/ AcquireDescribes(a) \/ AcquireUndoes(a)
  \/ Recycle \/ GrowthBegins \/ GrowthGranted \/ GrowthReturns
  \/ CloseReturns \/ CloseGoesOn

Next ==
  \/ ClientSteps \/ PoolProceeds
  \/ \E a \in AcquireCalls : Acquire(a)
  \/ \E S \in SUBSET leased : Release(S)
  \/ AskReady \/ CloseAll

Spec == Init /\ [][Next]_vars

\* Promise jobs run, the owner answers or its timers do, and so do sessions.
Progress ==
  \/ PoolProceeds
  \/ UNCHANGED poolVars /\ (OwnerRetires \/ \E c \in Clients : Proceeds(c))
FairSpec == Spec /\ WF_vars(Progress)

(***************************************************************************)
(* Properties                                                              *)
(***************************************************************************)
Taken == {"evicting", "describing", "returning", "undoing", "releasing"}

Holders(l) ==
  {<<"client", c>> : c \in {x \in Clients : mine[x] = l}}
  \cup {<<"operation", c>> : c \in {x \in Clients :
          running[x].lease = l /\ running[x].pc \in Taken}}
  \cup {<<"claim", i>> : i \in {x \in DOMAIN recycling : recycling[x].lease = l}}
  \cup {<<"close", claim>> : claim \in {x \in closeClaims : x.lease = l}}
  \cup {<<"acquire", a>> : a \in {x \in AcquireCalls : l \in acquires[x].leases}}
  \cup {<<"ready", l>> : x \in {y \in {growth} : l \in y.leases}}

\* A client that is "closed", "faulted" or was claimed has no connection, and
\* never gets one again that nobody would give back; a direct one at rest has
\* let go of its destination too, and what the pool counts as leased
\* can be claimed, so that no batch of release() stops in the middle.
RestsEmptyHanded ==
  /\ \A c \in Clients :
       /\ claimed[c] \/ state[c] \in {"closed", "faulted"} => mine[c] = None
       /\ ~use.pooled /\ c = Direct /\ state[c] \in {"closed", "faulted"} /\ TailIsOver(c) =>
            owner \in {"none", "retired"} /\ Held = {}
  /\ \A c \in leased : Claimable(c)

\* A session that the destination has lent has exactly one holder in the
\* facade who will give it back, whatever replaces, releases and closings cross
\* each other; a session under an operation has not been given back; and a
\* client that has ended holds none.
OneHolder ==
  /\ TypeOK /\ RestsEmptyHanded
  /\ \A l \in Leases : Cardinality(Holders(l)) = (IF lease[l] = "held" THEN 1 ELSE 0)
  /\ \A c \in Clients : running[c].pc \in {"session", "resetting"} =>
       lease[running[c].lease] = "held"

\* Nothing that a caller left behind reaches the next one: a session that goes
\* back for reuse has neither failed fatally nor kept application context, and
\* between the calls of a stateless client there is none either.
NothingLeftBehind ==
  /\ \A l \in Leases : lease[l] = "reused" => l \notin spoiled \cup touched
  /\ Stateless => \A c \in Clients :
       running[c] = Idle /\ mine[c] # None => mine[c] \notin touched

Settled ==
  /\ \A c \in Clients : TailIsOver(c)
  /\ \A a \in AcquireCalls : acquires[a].pc \in {"off", "done"}
  /\ recycling = <<>> /\ GrowthIsOver
  /\ closing \in {"off", "done"}
\* Every call ends: no operation, acquire(), release(), ready(), close() or
\* closeAll() waits for ever, not even for one another.
CallsEnd == ~Settled ~> Settled
=============================================================================
