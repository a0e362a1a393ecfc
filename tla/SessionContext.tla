--------------------------- MODULE SessionContext ---------------------------
(***************************************************************************)
(* The stateful RFC contexts of one destination generation:                *)
(* src/lifecycle/session-context-runtime.ts.                               *)
(*                                                                         *)
(* A context pins one lease from begin() to its matching end(), to a fatal *)
(* operation, or to the retirement of the generation.  An action is one    *)
(* run of the JavaScript thread: a public call, the settlement of a        *)
(* bounded call, or the code after the await of one.  The settlement and   *)
(* the code after it are separate actions, since other code runs between.  *)
(*                                                                         *)
(* The lease adapter, the borrower's operation and the fatal observer are  *)
(* the environment: they fulfil, reject, or ignore their abort signal until*)
(* the deadline passes.  A callback that re-enters retire() has the effect *)
(* of a retirement just before the step that calls it.                     *)
(***************************************************************************)
EXTENDS Naturals, FiniteSets

CONSTANTS
  Contexts,      \* the calls of begin() without a token
  MaxRefs,       \* bound on the nesting of begin(token)
  Observed       \* is there an onFatal observer?

ASSUME ContextAssumption ==
  MaxRefs \in Nat \ {0} /\ Observed \in BOOLEAN /\ IsFiniteSet(Contexts)

None == "none"

VARIABLES
  gate,          \* #state
  retirement,    \* the promise of retire()
  failures,      \* does #completeRetirement hold a failure?
  awaits,        \* the openings and terminals that retirement waits for
  ctx,           \* entry.state; before there is an entry, begin()'s progress
  refs,          \* entry.references
  call, result,  \* the bounded call a context awaits, and how it stands
  oper,          \* the same for its operation; activeOperation is oper # None
  used,          \* contexts with an operationDone promise
  broken,        \* contexts whose reset or release failed
  late,          \* an acquire that outlived its deadline
  lease,         \* what became of the lease
  releases       \* how often the adapter was told to release it

entryVars == <<ctx, refs, used, broken>>
callVars == <<call, result>>
leaseVars == <<lease, releases>>
retireVars == <<retirement, failures, awaits>>
vars == <<gate, retirement, failures, awaits, ctx, refs, call, result, oper,
          used, broken, late, lease, releases>>

\* "signalled": its abort signal fired, the bounded call is still pending.
Pending == {"running", "signalled"}
Settled == {"ok", "failed", "timedout"}

TypeOK ==
  /\ gate \in {"open", "retiring", "retired"}
  /\ retirement \in {None, "pending", "resolved", "rejected"}
  /\ failures \in BOOLEAN /\ awaits \subseteq Contexts
  /\ ctx \in [Contexts -> {"new", "opening", "refused", "ready", "ending",
                           "retiring", "fatal", "closed"}]
  /\ refs \in [Contexts -> 0..MaxRefs]
  /\ call \in [Contexts -> {None, "acquire", "reset", "release", "notify"}]
  /\ result \in [Contexts -> {None} \cup Pending \cup Settled]
  /\ oper \in [Contexts -> {None} \cup Pending \cup Settled]
  /\ used \subseteq Contexts /\ broken \subseteq Contexts
  /\ late \in [Contexts -> {None, "awaited", "releasing", "done"}]
  /\ lease \in [Contexts -> {None, "held", "reused", "evicted"}]
  /\ releases \in [Contexts -> Nat]

(***************************************************************************)
(* Shared steps                                                            *)
(***************************************************************************)
\* #entries: a fatal context stays there, closed, while its owner is told.
Entries ==
  {c \in Contexts : \/ ctx[c] \in {"ready", "ending", "retiring", "fatal"}
                    \/ ctx[c] = "closed" /\ call[c] = "notify"}
Openings == {c \in Contexts : ctx[c] = "opening"}

\* #bounded with abortOnRetire: in a runtime that is not open the call is
\* made all the same, with its signal already aborted.
StartCall(c, kind) ==
  /\ call' = [call EXCEPT ![c] = kind]
  /\ result' = [result EXCEPT ![c] = IF gate = "open" THEN "running"
                                     ELSE "signalled"]

EndCall(c) ==
  call' = [call EXCEPT ![c] = None] /\ result' = [result EXCEPT ![c] = None]

\* #releaseLease for the contexts in cs, all with the same disposition.  The
\* flag releaseClaimed is left out: see ReleasedOnce.
Release(cs, reusable) ==
  /\ call' = [c \in Contexts |-> IF c \in cs THEN "release" ELSE call[c]]
  /\ result' = [c \in Contexts |-> IF c \in cs THEN "running" ELSE result[c]]
  /\ lease' = [c \in Contexts |-> IF c \notin cs THEN lease[c]
                                  ELSE IF reusable THEN "reused" ELSE "evicted"]
  /\ releases' = [c \in Contexts |-> IF c \in cs THEN releases[c] + 1
                                     ELSE releases[c]]

(***************************************************************************)
(* begin()                                                                 *)
(***************************************************************************)
Begin(c) ==
  /\ gate = "open" /\ ctx[c] = "new"
  /\ ctx' = [ctx EXCEPT ![c] = "opening"]
  /\ StartCall(c, "acquire")
  /\ UNCHANGED <<gate, retireVars, refs, oper, used, broken, late, leaseVars>>

BeginNested(c) ==
  /\ gate = "open" /\ ctx[c] = "ready" /\ oper[c] = None
  /\ refs[c] < MaxRefs
  /\ refs' = [refs EXCEPT ![c] = @ + 1]
  /\ UNCHANGED <<gate, retireVars, ctx, callVars, oper, used, broken, late,
                 leaseVars>>

Publishable == gate = "open"

\* The lease arrived: publish the context, or give the lease back because the
\* runtime is no longer open or resource() threw.
AcquireResumes(c, resourceOk) ==
  /\ ctx[c] = "opening" /\ call[c] = "acquire" /\ result[c] = "ok"
  /\ IF Publishable /\ resourceOk
     THEN /\ ctx' = [ctx EXCEPT ![c] = "ready"]
          /\ refs' = [refs EXCEPT ![c] = 1]
          /\ EndCall(c)
          /\ UNCHANGED leaseVars
     ELSE Release({c}, FALSE) /\ UNCHANGED <<ctx, refs>>
  /\ UNCHANGED <<gate, retireVars, oper, used, broken, late>>

\* begin() rejects: the acquire failed, or the rollback is over.
BeginRejects(c) ==
  /\ ctx[c] = "opening"
  /\ \/ call[c] = "acquire" /\ result[c] \in {"failed", "timedout"}
     \/ call[c] = "release" /\ result[c] \in Settled
  /\ ctx' = [ctx EXCEPT ![c] = "refused"]
  /\ EndCall(c)
  /\ UNCHANGED <<gate, retireVars, refs, oper, used, broken, late, leaseVars>>

(***************************************************************************)
(* run()                                                                   *)
(***************************************************************************)
Run(c) ==
  /\ gate = "open" /\ ctx[c] = "ready" /\ oper[c] = None
  /\ oper' = [oper EXCEPT ![c] = "running"]
  /\ used' = used \cup {c}
  /\ UNCHANGED <<gate, retireVars, ctx, refs, callVars, broken, late,
                 leaseVars>>

\* Does a failure seen after the await still decide the context's fate?
\* (And a variant that does not look again.)
DecidesUnchecked(c) == TRUE
Decides(c) == gate = "open" /\ ctx[c] = "ready"

\* run() after its await.  isFatal is the borrower's; a timeout is fatal.
RunResumes(c, isFatal) ==
  /\ oper[c] \in Settled
  /\ oper[c] = "timedout" => isFatal
  /\ oper' = [oper EXCEPT ![c] = None]
  /\ IF oper[c] # "ok" /\ isFatal /\ Decides(c)
     THEN /\ ctx' = [ctx EXCEPT ![c] = "fatal"]
          /\ refs' = [refs EXCEPT ![c] = 0]
          /\ Release({c}, FALSE)
     ELSE UNCHANGED <<ctx, refs, callVars, leaseVars>>
  /\ UNCHANGED <<gate, retireVars, used, broken, late>>

(***************************************************************************)
(* end()                                                                   *)
(***************************************************************************)
Endable(c) == ctx[c] = "ready" /\ oper[c] = None

End(c) ==
  /\ gate = "open" /\ Endable(c)
  /\ refs' = [refs EXCEPT ![c] = @ - 1]
  /\ IF refs[c] > 1 THEN UNCHANGED <<ctx, callVars>>
     ELSE ctx' = [ctx EXCEPT ![c] = "ending"] /\ StartCall(c, "reset")
  /\ UNCHANGED <<gate, retireVars, oper, used, broken, late, leaseVars>>

\* (A variant that decides from the reset alone.)
ReusableIfReset(c) == result[c] = "ok"
Reusable(c) == result[c] = "ok" /\ gate = "open"

\* #finishEnding after the reset
ResetResumes(c) ==
  /\ ctx[c] = "ending" /\ call[c] = "reset" /\ result[c] \in Settled
  /\ broken' = IF result[c] = "ok" THEN broken ELSE broken \cup {c}
  /\ Release({c}, Reusable(c))
  /\ UNCHANGED <<gate, retireVars, ctx, refs, oper, used, late>>

(***************************************************************************)
(* After a release                                                         *)
(***************************************************************************)
\* What the retirement collects from the terminal of c
Collect(c, failed) == failures' = (failures \/ (c \in awaits /\ failed))

\* #finishEnding and #finishRetiring after the release
CloseResumes(c) ==
  /\ ctx[c] \in {"ending", "retiring"}
  /\ call[c] = "release" /\ result[c] \in Settled
  /\ ctx' = [ctx EXCEPT ![c] = "closed"]
  /\ EndCall(c)
  /\ Collect(c, c \in broken \/ result[c] # "ok")
  /\ UNCHANGED <<gate, retirement, awaits, refs, oper, used, broken, late,
                 leaseVars>>

\* #finishFatal after the release: the observer is told.
FatalResumes(c) ==
  /\ ctx[c] = "fatal" /\ call[c] = "release" /\ result[c] \in Settled
  /\ ctx' = [ctx EXCEPT ![c] = "closed"]
  /\ broken' = IF result[c] = "ok" THEN broken ELSE broken \cup {c}
  /\ IF Observed THEN StartCall(c, "notify") /\ UNCHANGED failures
                 ELSE EndCall(c) /\ Collect(c, result[c] # "ok")
  /\ UNCHANGED <<gate, retirement, awaits, refs, oper, used, late, leaseVars>>

\* #finishFatal after the observer, whose failure does not matter
NotifyResumes(c) ==
  /\ call[c] = "notify" /\ result[c] \in Settled
  /\ EndCall(c)
  /\ Collect(c, c \in broken)
  /\ UNCHANGED <<gate, retirement, awaits, entryVars, oper, late, leaseVars>>

(***************************************************************************)
(* Bounded calls settle                                                    *)
(***************************************************************************)
\* (A variant in which an abort cancels the deadline as well.)
AwaitsOnlyRunning(r) == r = "running"
Awaits(r) == r \in Pending

\* The adapter or the observer answers, or the deadline passes.
CallSettles(c, r) ==
  /\ Awaits(result[c])
  /\ result' = [result EXCEPT ![c] = r]
  /\ lease' = IF call[c] = "acquire" /\ r = "ok"
              THEN [lease EXCEPT ![c] = "held"] ELSE lease
  /\ late' = IF call[c] = "acquire" /\ r = "timedout"
             THEN [late EXCEPT ![c] = "awaited"] ELSE late
  /\ UNCHANGED <<gate, retireVars, entryVars, call, oper, releases>>

OperationSettles(c, r) ==
  /\ Awaits(oper[c])
  /\ oper' = [oper EXCEPT ![c] = r]
  /\ UNCHANGED <<gate, retireVars, entryVars, callVars, late, leaseVars>>

\* An acquire fulfils after its deadline: #cleanupLateAcquire evicts the
\* lease at once.
LateFulfils(c) ==
  /\ late[c] = "awaited"
  /\ late' = [late EXCEPT ![c] = "releasing"]
  /\ lease' = [lease EXCEPT ![c] = "evicted"]
  /\ releases' = [releases EXCEPT ![c] = @ + 1]
  /\ UNCHANGED <<gate, retireVars, entryVars, callVars, oper>>

LateRejects(c) ==
  /\ late[c] = "awaited"
  /\ late' = [late EXCEPT ![c] = "done"]
  /\ UNCHANGED <<gate, retireVars, entryVars, callVars, oper, leaseVars>>

(***************************************************************************)
(* retire() and close()                                                    *)
(***************************************************************************)
Retirable(c) == ctx[c] = "ready"
AwaitedByRetire == Entries \cup Openings

\* The calls whose signal a retirement aborts: an eviction goes on.
Abortable(c) == call[c] # "release" \/ lease[c] = "reused"

\* A context that never ran an operation is evicted in the same turn.
Retire ==
  LET claimed == {c \in Contexts : Retirable(c)}
      Signal(r) == IF r = "running" THEN "signalled" ELSE r
  IN /\ gate = "open"
     /\ gate' = "retiring" /\ retirement' = "pending"
     /\ awaits' = AwaitedByRetire
     /\ ctx' = [c \in Contexts |-> IF c \in claimed THEN "retiring" ELSE ctx[c]]
     /\ refs' = [c \in Contexts |-> IF c \in claimed THEN 0 ELSE refs[c]]
     /\ oper' = [c \in Contexts |-> Signal(oper[c])]
     /\ LET now == claimed \ used
        IN /\ call' = [c \in Contexts |-> IF c \in now THEN "release" ELSE call[c]]
           /\ result' = [c \in Contexts |->
                IF c \in now THEN "running"
                ELSE IF Abortable(c) THEN Signal(result[c]) ELSE result[c]]
           /\ lease' = [c \in Contexts |-> IF c \in now THEN "evicted"
                                           ELSE lease[c]]
           /\ releases' = [c \in Contexts |-> IF c \in now THEN releases[c] + 1
                                              ELSE releases[c]]
     /\ UNCHANGED <<failures, used, broken, late>>

\* (A variant that does not await operationDone.)
RelinquishedAnyway(c) == TRUE
Relinquished(c) == oper[c] = None

\* #finishRetiring after the operation gave the resource up
RetiringResumes(c) ==
  /\ ctx[c] = "retiring" /\ call[c] = None /\ Relinquished(c)
  /\ Release({c}, FALSE)
  /\ UNCHANGED <<gate, retireVars, entryVars, oper, late>>

Converged == awaits \cap (Entries \cup Openings) = {}

\* The bounded release of a late lease settles; whether the retirement still
\* collects its failure depends on the turn it happens in.
LateSettles(c, r) ==
  /\ late[c] = "releasing"
  /\ late' = [late EXCEPT ![c] = "done"]
  /\ failures' \in {failures, failures \/ (Converged /\ gate = "retiring" /\ r # "ok")}
  /\ UNCHANGED <<gate, retirement, awaits, entryVars, callVars, oper, leaseVars>>

\* #completeRetirement
RetireCompletes ==
  /\ gate = "retiring" /\ Converged
  /\ \A c \in Contexts : late[c] # "releasing"
  /\ gate' = "retired"
  /\ retirement' = IF failures THEN "rejected" ELSE "resolved"
  /\ UNCHANGED <<failures, awaits, entryVars, callVars, oper, late, leaseVars>>

(***************************************************************************)
(* The specification                                                       *)
(***************************************************************************)
Init ==
  /\ gate = "open" /\ retirement = None /\ failures = FALSE /\ awaits = {}
  /\ ctx = [c \in Contexts |-> "new"] /\ refs = [c \in Contexts |-> 0]
  /\ call = [c \in Contexts |-> None] /\ result = [c \in Contexts |-> None]
  /\ oper = [c \in Contexts |-> None] /\ used = {} /\ broken = {}
  /\ late = [c \in Contexts |-> None] /\ lease = [c \in Contexts |-> None]
  /\ releases = [c \in Contexts |-> 0]

Asks(c) == Begin(c) \/ BeginNested(c) \/ Run(c) \/ End(c)

Resumes(c) ==
  \/ \E ok \in BOOLEAN : AcquireResumes(c, ok)
  \/ \E isFatal \in BOOLEAN : RunResumes(c, isFatal)
  \/ BeginRejects(c) \/ ResetResumes(c) \/ CloseResumes(c)
  \/ FatalResumes(c) \/ NotifyResumes(c) \/ RetiringResumes(c)

Answers(c) ==
  \/ \E r \in Settled : \/ CallSettles(c, r) \/ OperationSettles(c, r)
                        \/ LateSettles(c, r)
  \/ LateFulfils(c) \/ LateRejects(c)

Next ==
  \/ \E c \in Contexts : Asks(c) \/ Resumes(c) \/ Answers(c)
  \/ Retire \/ RetireCompletes

Spec == Init /\ [][Next]_vars

(***************************************************************************)
(* What makes the session contexts correct.                                *)
(***************************************************************************)
\* "A release call is a once-only ownership transfer"
\* (SessionContextLeaseAdapter): whichever of end(), a fatal operation, a
\* rollback, a late acquire and a retirement race for a lease, the adapter is
\* told to release it at most once, and once exactly if it is given up.
ReleasedOnce ==
  \A c \in Contexts :
    releases[c] = IF lease[c] \in {"reused", "evicted"} THEN 1 ELSE 0

\* An operation owns the resource: as long as it is inside its deadline the
\* lease is neither reset nor released under it, not even by a retirement.
OperationOwnsLease ==
  \A c \in Contexts : oper[c] \in Pending =>
    /\ lease[c] = "held" /\ call[c] = None
    /\ ctx[c] \in {"ready", "retiring"}

\* No lease is lost: one that is held belongs to a begin() about to publish
\* it, to a live context, or to a retirement that still waits for it.
Custody(c) ==
  \/ ctx[c] = "opening" /\ call[c] = "acquire" /\ result[c] = "ok"
  \/ ctx[c] = "ready" /\ call[c] = None
  \/ ctx[c] = "ending" /\ call[c] = "reset"
  \/ ctx[c] = "retiring" /\ call[c] = None
HeldInCustody == \A c \in Contexts : lease[c] = "held" <=> Custody(c)

\* A retired runtime holds nothing: every lease its contexts ever held was
\* given back, and every opening and terminal has ended.
RetiredHoldsNothing ==
  gate = "retired" =>
    /\ \A c \in Contexts : lease[c] # "held"
    /\ Entries = {} /\ Openings = {}

\* A context is open for use exactly as long as some begin() is unmatched.
ReferencesMatch == \A c \in Contexts : (ctx[c] = "ready") <=> (refs[c] > 0)

\* While the runtime is open nothing is retiring; after that nothing is ready,
\* and all that has not ended is waited for.
RetirementCovers ==
  IF gate = "open"
  THEN awaits = {} /\ \A c \in Contexts : ctx[c] # "retiring"
  ELSE /\ \A c \in Contexts : ctx[c] # "ready"
       /\ Entries \cup Openings \subseteq awaits

\* What a context awaits fits its state.
CallsFit ==
  \A c \in Contexts :
    /\ (call[c] = None) <=> (result[c] = None)
    /\ ctx[c] = "opening" => call[c] \in {"acquire", "release"}
    /\ ctx[c] = "ending" => call[c] \in {"reset", "release"}
    /\ ctx[c] = "fatal" => call[c] = "release"
    /\ ctx[c] = "retiring" => call[c] \in {None, "release"}
    /\ ctx[c] = "closed" => call[c] \in {None, "notify"}
    /\ ctx[c] \in {"new", "refused", "ready"} => call[c] = None
    /\ oper[c] # None => ctx[c] \in {"ready", "retiring"} /\ c \in used
                         /\ call[c] = None
    /\ c \in used => ctx[c] \in {"ready", "ending", "retiring", "fatal", "closed"}

\* A late acquire belongs to a begin() that was rejected, or will be.
LateAlone ==
  \A c \in Contexts :
    /\ late[c] # None =>
         \/ ctx[c] = "refused"
         \/ ctx[c] = "opening" /\ call[c] = "acquire" /\ result[c] = "timedout"
    /\ lease[c] = None =>
         \/ ctx[c] \in {"new", "refused"}
         \/ ctx[c] = "opening" /\ call[c] = "acquire" /\ result[c] # "ok"
    /\ late[c] = "awaited" \/ ctx[c] = "new" => lease[c] = None
    /\ ctx[c] = "opening" /\ call[c] = "acquire" /\ result[c] # "timedout"
         => late[c] = None
    /\ ctx[c] = "opening" /\ call[c] = "acquire" /\ result[c] \in Pending
         => lease[c] = None

\* The inductive invariant behind ReleasedOnce, OperationOwnsLease and
\* RetiredHoldsNothing.
ContextInv ==
  /\ TypeOK /\ ReleasedOnce /\ HeldInCustody /\ ReferencesMatch
  /\ RetirementCovers /\ CallsFit /\ LateAlone /\ RetiredHoldsNothing

\* A retired generation is never recycled: a lease is handed back as reusable
\* only while the runtime is open and only after a successful reset.
ReusedOnlyWhileOpen ==
  [][\A c \in Contexts : lease[c] # "reused" /\ lease'[c] = "reused" =>
       /\ gate = "open" /\ call[c] = "reset" /\ result[c] = "ok"]_vars

\* The end of a context is final: it leaves "ready" for one reason only, and
\* never runs an operation again.
Rank(s) == CASE s = "new" -> 0 [] s = "opening" -> 1 [] s = "ready" -> 2
             [] s \in {"ending", "fatal", "retiring"} -> 3
             [] s \in {"closed", "refused"} -> 4
EndIsFinal ==
  [][\A c \in Contexts :
       /\ ctx'[c] # ctx[c] => Rank(ctx'[c]) > Rank(ctx[c])
       /\ oper[c] = None /\ oper'[c] # None => ctx[c] = "ready"]_vars

\* Nothing but deadlines and queued reactions is trusted to happen: neither
\* the adapter nor an operation nor the observer need ever answer, or heed
\* its signal.
Fairness ==
  /\ \A c \in Contexts :
       /\ WF_vars(Resumes(c))
       /\ WF_vars(CallSettles(c, "timedout"))
       /\ WF_vars(OperationSettles(c, "timedout"))
       /\ WF_vars(LateSettles(c, "timedout"))
  /\ WF_vars(RetireCompletes)

FairSpec == Spec /\ Fairness

\* Every begin(), every run() and every end() is answered, and retirement
\* converges, although everything they wait for may hang.
CallsAnswered ==
  /\ gate = "retiring" ~> gate = "retired"
  /\ \A c \in Contexts :
    /\ ctx[c] = "opening" ~> ctx[c] # "opening"
    /\ oper[c] # None ~> oper[c] = None
    /\ ctx[c] \in {"ending", "fatal"} ~> ctx[c] = "closed"
=============================================================================
