---------------------------- MODULE PartsProofs ----------------------------
(***************************************************************************)
(* The parts of MCParts, for every value of the constants: the session     *)
(* contexts, for any number of them, and then the connection with its      *)
(* session, for any number of calls, transactions and attempts.            *)
(***************************************************************************)
EXTENDS SessionContext, RfcConnection, FiniteSetTheorems, TLAPS

(***************************************************************************)
(* The contexts: shared steps                                              *)
(***************************************************************************)
\* #releaseLease for one context
LEMMA ReleaseOne ==
  ASSUME TypeOK, NEW c \in Contexts, NEW reusable \in BOOLEAN,
         Release({c}, reusable)
  PROVE  /\ call' \in [Contexts -> {None, "acquire", "reset", "release", "notify"}]
         /\ result' \in [Contexts -> {None} \cup Pending \cup Settled]
         /\ lease' \in [Contexts -> {None, "held", "reused", "evicted"}]
         /\ releases' \in [Contexts -> Nat]
         /\ call'[c] = "release" /\ result'[c] = "running"
         /\ lease'[c] = IF reusable THEN "reused" ELSE "evicted"
         /\ releases'[c] = releases[c] + 1
         /\ \A d \in Contexts \ {c} :
              /\ call'[d] = call[d] /\ result'[d] = result[d]
              /\ lease'[d] = lease[d] /\ releases'[d] = releases[d]
BY DEF Release, TypeOK, Pending

\* #bounded
LEMMA StartOne ==
  ASSUME TypeOK, NEW c \in Contexts, NEW kind \in {"acquire", "reset", "notify"},
         StartCall(c, kind)
  PROVE  /\ call' \in [Contexts -> {None, "acquire", "reset", "release", "notify"}]
         /\ result' \in [Contexts -> {None} \cup Pending \cup Settled]
         /\ call'[c] = kind /\ result'[c] \in Pending
         /\ \A d \in Contexts \ {c} : call'[d] = call[d] /\ result'[d] = result[d]
BY DEF StartCall, TypeOK, Pending

\* The code after the last await of a call
LEMMA EndOne ==
  ASSUME TypeOK, NEW c \in Contexts, EndCall(c)
  PROVE  /\ call' \in [Contexts -> {None, "acquire", "reset", "release", "notify"}]
         /\ result' \in [Contexts -> {None} \cup Pending \cup Settled]
         /\ call'[c] = None /\ result'[c] = None
         /\ \A d \in Contexts \ {c} : call'[d] = call[d] /\ result'[d] = result[d]
BY DEF EndCall, TypeOK

(***************************************************************************)
(* The contexts: types                                                     *)
(***************************************************************************)
LEMMA TypeStep ==
  ASSUME ContextInv, Next
  PROVE  TypeOK'
<1> USE DEF ContextInv, entryVars, callVars, leaseVars, retireVars
<1>0. TypeOK /\ ReferencesMatch
  OBVIOUS
<1>1. ASSUME NEW c \in Contexts, Asks(c)
      PROVE  TypeOK'
  <2>1. CASE Begin(c)
    BY <1>0, <2>1, StartOne DEF Begin, TypeOK
  <2>2. CASE BeginNested(c)
    <3>1. refs[c] + 1 \in 0..MaxRefs
      BY <1>0, <2>2, ContextAssumption DEF BeginNested, TypeOK
    <3> QED  BY <1>0, <2>2, <3>1 DEF BeginNested, TypeOK
  <2>3. CASE Run(c)
    BY <1>0, <2>3 DEF Run, TypeOK, Pending
  <2>4. CASE End(c)
    <3>1. refs[c] - 1 \in 0..MaxRefs
      BY <1>0, <2>4, ContextAssumption DEF End, Endable, TypeOK, ReferencesMatch
    <3>2. CASE refs[c] > 1
      BY <1>0, <2>4, <3>1, <3>2 DEF End, TypeOK
    <3>3. CASE ~(refs[c] > 1)
      BY <1>0, <2>4, <3>1, <3>3, StartOne DEF End, TypeOK
    <3> QED  BY <3>2, <3>3
  <2> QED  BY <1>1, <2>1, <2>2, <2>3, <2>4 DEF Asks
<1>2. ASSUME NEW c \in Contexts, Resumes(c)
      PROVE  TypeOK'
  <2>1. ASSUME NEW ok \in BOOLEAN, AcquireResumes(c, ok) PROVE TypeOK'
    <3>1. 1 \in 0..MaxRefs
      BY ContextAssumption
    <3>2. CASE Publishable /\ ok
      BY <1>0, <2>1, <3>1, <3>2, EndOne DEF AcquireResumes, TypeOK
    <3>3. CASE ~(Publishable /\ ok)
      BY <1>0, <2>1, <3>3, ReleaseOne DEF AcquireResumes, TypeOK
    <3> QED  BY <3>2, <3>3
  <2>2. ASSUME NEW isFatal \in BOOLEAN, RunResumes(c, isFatal) PROVE TypeOK'
    <3>1. 0 \in 0..MaxRefs
      BY ContextAssumption
    <3>2. CASE oper[c] # "ok" /\ isFatal /\ Decides(c)
      <4>1. Release({c}, FALSE)
        BY <2>2, <3>2 DEF RunResumes
      <4>2. /\ call' \in [Contexts -> {None, "acquire", "reset", "release", "notify"}]
            /\ result' \in [Contexts -> {None} \cup Pending \cup Settled]
            /\ lease' \in [Contexts -> {None, "held", "reused", "evicted"}]
            /\ releases' \in [Contexts -> Nat]
        BY <1>0, <4>1, ReleaseOne
      <4>3. /\ ctx' = [ctx EXCEPT ![c] = "fatal"] /\ refs' = [refs EXCEPT ![c] = 0]
            /\ oper' = [oper EXCEPT ![c] = None]
            /\ UNCHANGED <<gate, retireVars, used, broken, late>>
        BY <2>2, <3>2 DEF RunResumes
      <4> QED  BY <1>0, <3>1, <4>2, <4>3 DEF TypeOK
    <3>3. CASE ~(oper[c] # "ok" /\ isFatal /\ Decides(c))
      BY <1>0, <2>2, <3>3 DEF RunResumes, TypeOK
    <3> QED  BY <3>2, <3>3
  <2>3. CASE BeginRejects(c)
    BY <1>0, <2>3, EndOne DEF BeginRejects, TypeOK
  <2>4. CASE ResetResumes(c)
    BY <1>0, <2>4, ReleaseOne DEF ResetResumes, Reusable, TypeOK
  <2>5. CASE CloseResumes(c)
    BY <1>0, <2>5, EndOne DEF CloseResumes, Collect, TypeOK
  <2>6. CASE FatalResumes(c)
    BY <1>0, <2>6, EndOne, StartOne DEF FatalResumes, Collect, TypeOK
  <2>7. CASE NotifyResumes(c)
    BY <1>0, <2>7, EndOne DEF NotifyResumes, Collect, TypeOK
  <2>8. CASE RetiringResumes(c)
    BY <1>0, <2>8, ReleaseOne DEF RetiringResumes, TypeOK
  <2> QED  BY <1>2, <2>1, <2>2, <2>3, <2>4, <2>5, <2>6, <2>7, <2>8 DEF Resumes
<1>3. ASSUME NEW c \in Contexts, Answers(c)
      PROVE  TypeOK'
  <2>1. ASSUME NEW r \in Settled, CallSettles(c, r) PROVE TypeOK'
    BY <1>0, <2>1 DEF CallSettles, TypeOK
  <2>2. ASSUME NEW r \in Settled, OperationSettles(c, r) PROVE TypeOK'
    BY <1>0, <2>2 DEF OperationSettles, TypeOK
  <2>3. ASSUME NEW r \in Settled, LateSettles(c, r) PROVE TypeOK'
    BY <1>0, <2>3 DEF LateSettles, TypeOK
  <2>4. CASE LateFulfils(c)
    BY <1>0, <2>4 DEF LateFulfils, TypeOK
  <2>5. CASE LateRejects(c)
    BY <1>0, <2>5 DEF LateRejects, TypeOK
  <2> QED  BY <1>3, <2>1, <2>2, <2>3, <2>4, <2>5 DEF Answers
<1>4. CASE Retire
  <2>1. 0 \in 0..MaxRefs
    BY ContextAssumption
  <2> QED  BY <1>0, <1>4, <2>1
           DEF Retire, TypeOK, Pending, AwaitedByRetire, Entries, Openings
<1>5. CASE RetireCompletes
  BY <1>0, <1>5 DEF RetireCompletes, TypeOK
<1> QED  BY <1>1, <1>2, <1>3, <1>4, <1>5 DEF Next

(***************************************************************************)
(* The contexts: one at a time                                             *)
(***************************************************************************)
\* What the invariant says of one context
Local(c) ==
  /\ releases[c] = IF lease[c] \in {"reused", "evicted"} THEN 1 ELSE 0
  /\ lease[c] = "held" <=> Custody(c)
  /\ (ctx[c] = "ready") <=> (refs[c] > 0)
  /\ (call[c] = None) <=> (result[c] = None)
  /\ ctx[c] = "opening" => call[c] \in {"acquire", "release"}
  /\ ctx[c] = "ending" => call[c] \in {"reset", "release"}
  /\ ctx[c] = "fatal" => call[c] = "release"
  /\ ctx[c] = "retiring" => call[c] \in {None, "release"}
  /\ ctx[c] = "closed" => call[c] \in {None, "notify"}
  /\ ctx[c] \in {"new", "refused", "ready"} => call[c] = None
  /\ oper[c] # None => ctx[c] \in {"ready", "retiring"} /\ c \in used
                       /\ call[c] = None
  /\ c \in used => ctx[c] \in {"ready", "ending", "retiring", "fatal", "closed"}
  /\ late[c] # None =>
       \/ ctx[c] = "refused"
       \/ ctx[c] = "opening" /\ call[c] = "acquire" /\ result[c] = "timedout"
  /\ lease[c] = None =>
       \/ ctx[c] \in {"new", "refused"}
       \/ ctx[c] = "opening" /\ call[c] = "acquire" /\ result[c] # "ok"
  /\ late[c] = "awaited" \/ ctx[c] = "new" => lease[c] = None
  /\ ctx[c] = "opening" /\ call[c] = "acquire" /\ result[c] # "timedout"
       => late[c] = None
  /\ ctx[c] = "opening" /\ call[c] = "acquire" /\ result[c] \in Pending
       => lease[c] = None

\* Local is the invariant's share of one context.
LEMMA LocalParts ==
  (\A c \in Contexts : Local(c)) <=>
    ReleasedOnce /\ HeldInCustody /\ ReferencesMatch /\ CallsFit /\ LateAlone
BY DEF Local, ReleasedOnce, HeldInCustody, ReferencesMatch, CallsFit, LateAlone

\* A step of one context leaves the others alone.
Others(c) ==
  \A d \in Contexts \ {c} :
    /\ ctx'[d] = ctx[d] /\ refs'[d] = refs[d] /\ call'[d] = call[d]
    /\ result'[d] = result[d] /\ oper'[d] = oper[d] /\ late'[d] = late[d]
    /\ lease'[d] = lease[d] /\ releases'[d] = releases[d]
    /\ (d \in used' <=> d \in used)

\* What holds of every context still does after a good step of one.
LEMMA LocalFrame ==
  ASSUME NEW c \in Contexts, \A d \in Contexts : Local(d), Others(c), Local(c)'
  PROVE  \A d \in Contexts : Local(d)'
<1>1. ASSUME NEW d \in Contexts \ {c} PROVE Local(d)'
  BY <1>1 DEF Others, Local, Custody
<1> QED  BY <1>1

\* Public calls
LEMMA AsksLocal ==
  ASSUME ContextInv, NEW c \in Contexts, Asks(c)
  PROVE  Local(c)' /\ Others(c)
<1> USE DEF ContextInv, entryVars, callVars, leaseVars, retireVars
<1>0. TypeOK /\ Local(c)
  BY LocalParts
<1>1. CASE Begin(c)
  BY <1>0, <1>1 DEF Begin, StartCall, TypeOK, Local, Custody, Others, Pending, Settled, None
<1>2. CASE BeginNested(c)
  BY <1>0, <1>2, ContextAssumption
  DEF BeginNested, TypeOK, Local, Custody, Others
<1>3. CASE Run(c)
  BY <1>0, <1>3 DEF Run, TypeOK, Local, Custody, Others
<1>4. CASE End(c)
  <2>1. CASE refs[c] > 1
    BY <1>0, <1>4, <2>1, ContextAssumption
    DEF End, Endable, TypeOK, Local, Custody, Others
  <2>2. CASE ~(refs[c] > 1)
    BY <1>0, <1>4, <2>2, ContextAssumption
    DEF End, Endable, StartCall, TypeOK, Local, Custody, Others, None, Pending
  <2> QED  BY <2>1, <2>2
<1> QED  BY <1>1, <1>2, <1>3, <1>4 DEF Asks

\* The code after an await
LEMMA ResumesLocal ==
  ASSUME ContextInv, NEW c \in Contexts, Resumes(c)
  PROVE  Local(c)' /\ Others(c)
<1> USE DEF ContextInv, entryVars, callVars, leaseVars, retireVars
<1>0. TypeOK /\ Local(c)
  BY LocalParts
<1>1. ASSUME Release({c}, FALSE) \/ Release({c}, TRUE)
      PROVE  /\ call'[c] = "release" /\ result'[c] = "running"
             /\ lease'[c] \in {"reused", "evicted"} /\ releases'[c] = releases[c] + 1
             /\ \A d \in Contexts \ {c} :
                  /\ call'[d] = call[d] /\ result'[d] = result[d]
                  /\ lease'[d] = lease[d] /\ releases'[d] = releases[d]
  BY <1>0, <1>1, ReleaseOne
<1>2. ASSUME NEW ok \in BOOLEAN, AcquireResumes(c, ok) PROVE Local(c)' /\ Others(c)
  <2>1. CASE Publishable /\ ok
    BY <1>0, <1>2, <2>1
    DEF AcquireResumes, EndCall, TypeOK, Local, Custody, Others, Pending, None
  <2>2. CASE ~(Publishable /\ ok)
    <3>1. /\ ctx[c] = "opening" /\ call[c] = "acquire" /\ result[c] = "ok"
          /\ Release({c}, FALSE) /\ UNCHANGED <<ctx, refs, oper, used, late>>
      BY <1>2, <2>2 DEF AcquireResumes
    <3> QED  BY <1>0, <1>1, <3>1 DEF TypeOK, Local, Custody, Others, Pending, None
  <2> QED  BY <2>1, <2>2
<1>3. ASSUME NEW isFatal \in BOOLEAN, RunResumes(c, isFatal)
      PROVE  Local(c)' /\ Others(c)
  <2>1. CASE oper[c] # "ok" /\ isFatal /\ Decides(c)
    <3>1. /\ ctx' = [ctx EXCEPT ![c] = "fatal"] /\ refs' = [refs EXCEPT ![c] = 0]
          /\ oper' = [oper EXCEPT ![c] = None] /\ ctx[c] = "ready"
          /\ Release({c}, FALSE) /\ UNCHANGED <<used, late>>
      BY <1>3, <2>1 DEF RunResumes, Decides
    <3> QED  BY <1>0, <1>1, <3>1 DEF TypeOK, Local, Custody, Others, Pending, None
  <2>2. CASE ~(oper[c] # "ok" /\ isFatal /\ Decides(c))
    <3>1. oper' = [oper EXCEPT ![c] = None]
          /\ UNCHANGED <<ctx, refs, callVars, leaseVars, used, late>>
      BY <1>3, <2>2 DEF RunResumes
    <3> QED  BY <1>0, <3>1 DEF TypeOK, Local, Custody, Others
  <2> QED  BY <2>1, <2>2
<1>4. CASE BeginRejects(c)
  BY <1>0, <1>4
  DEF BeginRejects, EndCall, TypeOK, Local, Custody, Others, Pending, Settled, None
<1>5. CASE ResetResumes(c)
  <2>1. Release({c}, FALSE) \/ Release({c}, TRUE)
    <3>1. Release({c}, Reusable(c)) /\ Reusable(c) \in BOOLEAN
      BY <1>5 DEF ResetResumes, Reusable
    <3> QED  BY <3>1
  <2>2. /\ ctx[c] = "ending" /\ call[c] = "reset" /\ result[c] \in Settled
        /\ UNCHANGED <<ctx, refs, oper, used, late>>
    BY <1>5 DEF ResetResumes
  <2>3. /\ call'[c] = "release" /\ result'[c] = "running"
        /\ lease'[c] \in {"reused", "evicted"} /\ releases'[c] = releases[c] + 1
        /\ \A d \in Contexts \ {c} :
             /\ call'[d] = call[d] /\ result'[d] = result[d]
             /\ lease'[d] = lease[d] /\ releases'[d] = releases[d]
    BY <1>1, <2>1
  <2>4. lease[c] = "held" /\ releases[c] = 0 /\ oper[c] = None /\ late[c] = None
    BY <1>0, <2>2 DEF Local, Custody
  <2>5. Others(c)
    BY <2>2, <2>3 DEF Others
  <2>6. Local(c)'
    BY <1>0, <2>2, <2>3, <2>4 DEF Local, Custody, Pending, None
  <2> QED  BY <2>5, <2>6
<1>6. CASE CloseResumes(c)
  BY <1>0, <1>6
  DEF CloseResumes, EndCall, TypeOK, Local, Custody, Others, Pending, Settled, None
<1>7. CASE FatalResumes(c)
  BY <1>0, <1>7
  DEF FatalResumes, StartCall, EndCall, TypeOK, Local, Custody, Others, Pending,
      Settled, None
<1>8. CASE NotifyResumes(c)
  BY <1>0, <1>8
  DEF NotifyResumes, EndCall, TypeOK, Local, Custody, Others, Pending, Settled, None
<1>9. CASE RetiringResumes(c)
  BY <1>0, <1>1, <1>9
  DEF RetiringResumes, Relinquished, TypeOK, Local, Custody, Others, Pending, None
<1> QED  BY <1>2, <1>3, <1>4, <1>5, <1>6, <1>7, <1>8, <1>9 DEF Resumes

\* Bounded calls settle.
LEMMA AnswersLocal ==
  ASSUME ContextInv, NEW c \in Contexts, Answers(c)
  PROVE  Local(c)' /\ Others(c)
<1> USE DEF ContextInv, entryVars, callVars, leaseVars, retireVars
<1>0. TypeOK /\ Local(c)
  BY LocalParts
<1>1. ASSUME NEW r \in Settled, CallSettles(c, r) PROVE Local(c)' /\ Others(c)
  <2>1. result[c] \in Pending
    BY <1>1 DEF CallSettles, Awaits
  <2>2. CASE call[c] = "acquire"
    BY <1>0, <1>1, <2>1, <2>2
    DEF CallSettles, TypeOK, Local, Custody, Others, Pending, Settled, None
  <2>3. CASE call[c] # "acquire"
    BY <1>0, <1>1, <2>1, <2>3
    DEF CallSettles, TypeOK, Local, Custody, Others, Pending, Settled, None
  <2> QED  BY <2>2, <2>3
<1>2. ASSUME NEW r \in Settled, OperationSettles(c, r) PROVE Local(c)' /\ Others(c)
  BY <1>0, <1>2
  DEF OperationSettles, Awaits, TypeOK, Local, Custody, Others, Pending, Settled, None
<1>3. ASSUME NEW r \in Settled, LateSettles(c, r) PROVE Local(c)' /\ Others(c)
  BY <1>0, <1>3 DEF LateSettles, TypeOK, Local, Custody, Others, Pending, None
<1>4. CASE LateFulfils(c)
  BY <1>0, <1>4 DEF LateFulfils, TypeOK, Local, Custody, Others, Pending, None
<1>5. CASE LateRejects(c)
  BY <1>0, <1>5 DEF LateRejects, TypeOK, Local, Custody, Others, Pending, None
<1> QED  BY <1>1, <1>2, <1>3, <1>4, <1>5 DEF Answers

\* A retirement touches every context at once.
LEMMA RetireLocal ==
  ASSUME ContextInv, Retire, NEW c \in Contexts
  PROVE  Local(c)'
<1> USE DEF ContextInv, entryVars, callVars, leaseVars, retireVars
<1>0. TypeOK /\ Local(c)
  BY LocalParts
<1>1. CASE ctx[c] = "ready" /\ c \notin used
  <2>1. /\ ctx'[c] = "retiring" /\ refs'[c] = 0 /\ call'[c] = "release"
        /\ result'[c] = "running" /\ lease'[c] = "evicted"
        /\ releases'[c] = releases[c] + 1 /\ late'[c] = late[c] /\ used' = used
        /\ oper'[c] = IF oper[c] = "running" THEN "signalled" ELSE oper[c]
    BY <1>1 DEF Retire, Retirable
  <2>2. lease[c] = "held" /\ releases[c] = 0 /\ oper[c] = None /\ late[c] = None
    BY <1>0, <1>1 DEF Local, Custody
  <2> QED  BY <1>1, <2>1, <2>2 DEF Local, Custody, Pending, None
<1>2. CASE ctx[c] = "ready" /\ c \in used
  <2>1. /\ ctx'[c] = "retiring" /\ refs'[c] = 0 /\ call'[c] = call[c]
        /\ result'[c] = (IF Abortable(c) /\ result[c] = "running" THEN "signalled"
                         ELSE result[c])
        /\ lease'[c] = lease[c]
        /\ releases'[c] = releases[c] /\ late'[c] = late[c] /\ used' = used
        /\ oper'[c] = (IF oper[c] = "running" THEN "signalled" ELSE oper[c])
    BY <1>2 DEF Retire, Retirable
  <2>2. lease[c] = "held" /\ call[c] = None /\ late[c] = None /\ result[c] = None
    BY <1>0, <1>2 DEF Local, Custody
  <2> QED  BY <1>0, <1>2, <2>1, <2>2 DEF Local, Custody, Pending, None
<1>3. CASE ctx[c] # "ready"
  <2>1. /\ ctx'[c] = ctx[c] /\ refs'[c] = refs[c] /\ call'[c] = call[c]
        /\ result'[c] \in {result[c], "signalled"}
        /\ result'[c] # result[c] => result[c] = "running"
        /\ lease'[c] = lease[c]
        /\ releases'[c] = releases[c] /\ late'[c] = late[c] /\ used' = used
        /\ oper'[c] \in {oper[c], "signalled"}
        /\ oper'[c] # oper[c] => oper[c] = "running"
    BY <1>3 DEF Retire, Retirable
  <2> QED  BY <1>0, <1>3, <2>1 DEF Local, Custody, Pending, None
<1> QED  BY <1>1, <1>2, <1>3

(***************************************************************************)
(* The contexts: the retirement as a whole                                 *)
(***************************************************************************)
Live == Entries \cup Openings

\* In a runtime that is not open a step of a context opens, publishes and
\* revives nothing.
LEMMA StepCovered ==
  ASSUME ContextInv, NEW c \in Contexts, Asks(c) \/ Resumes(c) \/ Answers(c)
  PROVE  /\ gate' = gate /\ awaits' = awaits
         /\ ctx'[c] = "retiring" => ctx[c] = "retiring"
         /\ gate # "open" => /\ ctx'[c] = "ready" => ctx[c] = "ready"
                             /\ c \in Live' => c \in Live
<1> USE DEF ContextInv, entryVars, callVars, leaseVars, retireVars
<1>0. TypeOK /\ Local(c)
  BY LocalParts
<1>1. CASE Asks(c)
  BY <1>0, <1>1 DEF Asks, Begin, BeginNested, Run, End, StartCall, TypeOK
<1>2. CASE Answers(c)
  <2>1. UNCHANGED <<gate, awaits, ctx, call>>
    BY <1>2
    DEF Answers, CallSettles, OperationSettles, LateSettles, LateFulfils, LateRejects
  <2> QED  BY <2>1 DEF Live, Entries, Openings
<1>3. CASE Resumes(c)
  <2>1. gate' = gate /\ awaits' = awaits
    BY <1>3
    DEF Resumes, AcquireResumes, RunResumes, BeginRejects, ResetResumes,
        CloseResumes, FatalResumes, NotifyResumes, RetiringResumes
  <2>2. \/ ctx'[c] = ctx[c] /\ ctx[c] \in {"opening", "ready", "ending", "retiring", "closed"}
           /\ (ctx[c] = "closed" => call[c] = "notify")
        \/ ctx[c] = "opening" /\ ctx'[c] = "ready" /\ gate = "open"
        \/ ctx[c] = "opening" /\ ctx'[c] = "refused"
        \/ ctx[c] = "ready" /\ ctx'[c] = "fatal"
        \/ ctx[c] \in {"ending", "retiring", "fatal"} /\ ctx'[c] = "closed"
    <3>1. ASSUME NEW ok \in BOOLEAN, AcquireResumes(c, ok)
          PROVE  \/ ctx'[c] = ctx[c] /\ ctx[c] = "opening"
                 \/ ctx[c] = "opening" /\ ctx'[c] = "ready" /\ gate = "open"
      BY <1>0, <3>1 DEF AcquireResumes, Publishable, TypeOK
    <3>2. ASSUME NEW isFatal \in BOOLEAN, RunResumes(c, isFatal)
          PROVE  \/ ctx'[c] = ctx[c] /\ ctx[c] \in {"ready", "retiring"}
                 \/ ctx[c] = "ready" /\ ctx'[c] = "fatal"
      <4>1. ctx[c] \in {"ready", "retiring"}
        BY <1>0, <3>2 DEF RunResumes, Local, Settled, None
      <4>2. CASE oper[c] # "ok" /\ isFatal /\ Decides(c)
        BY <1>0, <3>2, <4>2 DEF RunResumes, Decides, TypeOK
      <4>3. CASE ~(oper[c] # "ok" /\ isFatal /\ Decides(c))
        BY <3>2, <4>1, <4>3 DEF RunResumes
      <4> QED  BY <4>2, <4>3
    <3>3. CASE BeginRejects(c)
      BY <1>0, <3>3 DEF BeginRejects, TypeOK
    <3>4. CASE ResetResumes(c) \/ RetiringResumes(c)
      BY <3>4 DEF ResetResumes, RetiringResumes
    <3>5. CASE CloseResumes(c) \/ FatalResumes(c)
      BY <1>0, <3>5 DEF CloseResumes, FatalResumes, TypeOK
    <3>6. CASE NotifyResumes(c)
      <4>1. ctx[c] = "closed"
        BY <1>0, <3>6 DEF NotifyResumes, Local, None, TypeOK
      <4> QED  BY <3>6, <4>1 DEF NotifyResumes
    <3> QED  BY <1>3, <3>1, <3>2, <3>3, <3>4, <3>5, <3>6 DEF Resumes
  <2>3. c \in Live' => c \in Live \/ (ctx[c] = "opening" /\ gate = "open")
    BY <2>2 DEF Live, Entries, Openings
  <2>4. c \in Live' /\ gate # "open" => c \in Live
    BY <2>3
  <2> QED  BY <2>1, <2>2, <2>4
<1> QED  BY <1>1, <1>2, <1>3

\* What holds a lease is an entry or an opening.
LEMMA HeldIsLive ==
  ASSUME NEW c \in Contexts, Local(c), lease[c] = "held"
  PROVE  c \in Live
BY DEF Local, Custody, Live, Entries, Openings

\* The inductive step
LEMMA ContextInvStep ==
  ContextInv /\ [Next]_vars => ContextInv'
<1> SUFFICES ASSUME ContextInv, [Next]_vars PROVE ContextInv'
  OBVIOUS
<1>0. /\ TypeOK /\ RetirementCovers /\ RetiredHoldsNothing
      /\ \A c \in Contexts : Local(c)
  BY LocalParts DEF ContextInv
<1>1. ASSUME NEW c \in Contexts, Asks(c) \/ Resumes(c) \/ Answers(c)
      PROVE  ContextInv'
  <2>1. TypeOK'
    BY <1>1, TypeStep DEF Next
  <2>2. Local(c)' /\ Others(c)
    BY <1>1, AsksLocal, ResumesLocal, AnswersLocal
  <2>3. \A d \in Contexts : Local(d)'
    BY <1>0, <2>2, LocalFrame
  <2>4. /\ gate' = gate /\ awaits' = awaits
        /\ ctx'[c] = "retiring" => ctx[c] = "retiring"
        /\ gate # "open" => /\ ctx'[c] = "ready" => ctx[c] = "ready"
                            /\ c \in Live' => c \in Live
    BY <1>1, StepCovered
  <2>5. \A d \in Contexts \ {c} : ctx'[d] = ctx[d] /\ (d \in Live' <=> d \in Live)
    BY <2>2 DEF Others, Live, Entries, Openings
  <2>6. gate # "open" => Live' \subseteq Live
    BY <2>4, <2>5 DEF Live, Entries, Openings
  <2>7. RetirementCovers'
    <3>1. CASE gate = "open"
      BY <1>0, <2>4, <2>5, <3>1 DEF RetirementCovers
    <3>2. CASE gate # "open"
      <4>1. \A d \in Contexts : ctx'[d] # "ready"
        BY <1>0, <2>4, <2>5, <3>2 DEF RetirementCovers
      <4>2. Live' \subseteq awaits'
        BY <1>0, <2>4, <2>6, <3>2 DEF RetirementCovers, Live
      <4> QED  BY <2>4, <3>2, <4>1, <4>2 DEF RetirementCovers, Live
    <3> QED  BY <3>1, <3>2
  <2>8. RetiredHoldsNothing'
    <3>1. SUFFICES ASSUME gate = "retired" PROVE RetiredHoldsNothing'
      BY <2>4 DEF RetiredHoldsNothing
    <3>2. Live' = {}
      BY <1>0, <2>6, <3>1 DEF RetiredHoldsNothing, Live
    <3>3. \A d \in Contexts : lease'[d] = "held" => d \in Live'
      BY <2>3 DEF Local, Custody, Live, Entries, Openings
    <3> QED  BY <3>2, <3>3 DEF RetiredHoldsNothing, Live
  <2>9. ReleasedOnce' /\ HeldInCustody' /\ ReferencesMatch' /\ CallsFit' /\ LateAlone'
    BY <2>3 DEF Local, Custody, ReleasedOnce, HeldInCustody, ReferencesMatch,
                CallsFit, LateAlone
  <2> QED  BY <2>1, <2>7, <2>8, <2>9 DEF ContextInv
<1>2. CASE Retire
  <2>1. TypeOK'
    BY <1>2, TypeStep DEF Next
  <2>2. \A c \in Contexts : Local(c)'
    BY <1>2, RetireLocal
  <2>3. ReleasedOnce' /\ HeldInCustody' /\ ReferencesMatch' /\ CallsFit' /\ LateAlone'
    BY <2>2 DEF Local, Custody, ReleasedOnce, HeldInCustody, ReferencesMatch,
                CallsFit, LateAlone
  <2>4. /\ gate' = "retiring" /\ awaits' = Live
        /\ \A c \in Contexts : ctx'[c] # "ready"
        /\ \A c \in Contexts : /\ ctx[c] # "ready" => ctx'[c] = ctx[c] /\ call'[c] = call[c]
                               /\ ctx[c] = "ready" => c \in Live
    BY <1>2 DEF Retire, Retirable, AwaitedByRetire, Live, Entries, Openings
  <2>5. Live' \subseteq awaits'
    BY <2>4 DEF Live, Entries, Openings
  <2>6. RetirementCovers' /\ RetiredHoldsNothing'
    BY <2>4, <2>5 DEF RetirementCovers, RetiredHoldsNothing, Live
  <2> QED  BY <2>1, <2>3, <2>6 DEF ContextInv
<1>3. CASE RetireCompletes
  <2>1. TypeOK'
    BY <1>3, TypeStep DEF Next
  <2>2. /\ gate = "retiring" /\ gate' = "retired" /\ awaits \cap Live = {}
        /\ UNCHANGED <<awaits, entryVars, callVars, oper, late, leaseVars>>
    BY <1>3 DEF RetireCompletes, Converged, Live
  <2>3. Live = {} /\ Live' = {}
    BY <1>0, <2>2 DEF RetirementCovers, Live, Entries, Openings, entryVars, callVars
  <2>4. ReleasedOnce' /\ HeldInCustody' /\ ReferencesMatch' /\ CallsFit' /\ LateAlone'
    BY <2>2 DEF ContextInv, ReleasedOnce, HeldInCustody, Custody, ReferencesMatch,
                CallsFit, LateAlone, entryVars, callVars, leaseVars
  <2>5. \A c \in Contexts : lease'[c] # "held"
    BY <1>0, <2>2, <2>3, HeldIsLive DEF leaseVars
  <2>6. RetirementCovers' /\ RetiredHoldsNothing'
    BY <1>0, <2>2, <2>3, <2>5
    DEF RetirementCovers, RetiredHoldsNothing, Live, entryVars
  <2> QED  BY <2>1, <2>4, <2>6 DEF ContextInv
<1>4. CASE UNCHANGED vars
  BY <1>4
  DEF vars, ContextInv, TypeOK, ReleasedOnce, HeldInCustody, Custody,
      ReferencesMatch, RetirementCovers, CallsFit, LateAlone,
      RetiredHoldsNothing, Entries, Openings
<1> QED  BY <1>1, <1>2, <1>3, <1>4 DEF Next

(***************************************************************************)
(* The contexts: the theorems                                              *)
(***************************************************************************)
\* A new runtime satisfies the invariant.
LEMMA ContextInvInit ==
  Init => ContextInv
<1> SUFFICES ASSUME Init PROVE ContextInv
  OBVIOUS
<1>1. TypeOK
  <2>1. 0 \in 0..MaxRefs /\ 0 \in Nat
    BY ContextAssumption
  <2>2. refs \in [Contexts -> 0..MaxRefs] /\ releases \in [Contexts -> Nat]
    BY <2>1 DEF Init
  <2> QED  BY <2>2 DEF Init, TypeOK
<1>2. \A c \in Contexts : Local(c)
  BY DEF Init, Local, Custody, Pending, None
<1>3. RetirementCovers /\ RetiredHoldsNothing
  BY DEF Init, RetirementCovers, RetiredHoldsNothing
<1> QED  BY <1>1, <1>2, <1>3, LocalParts DEF ContextInv

\* The contexts, their leases, their pending calls and the retirement agree
\* in every reachable state.
THEOREM ContextInvariant == Spec => []ContextInv
BY ContextInvInit, ContextInvStep, PTL DEF Spec

\* However end(), a fatal operation, a rollback, a late acquire and a
\* retirement race, the adapter is told once to release a lease.
THEOREM LeaseReleasedOnce == Spec => []ReleasedOnce
<1>1. ContextInv => ReleasedOnce
  BY DEF ContextInv
<1> QED  BY <1>1, ContextInvariant, PTL

\* A lease is neither reset nor released under an operation that is inside
\* its deadline.
THEOREM OperationKeepsLease == Spec => []OperationOwnsLease
<1>1. ContextInv => OperationOwnsLease
  BY DEF ContextInv, OperationOwnsLease, HeldInCustody, Custody, CallsFit, Pending, None
<1> QED  BY <1>1, ContextInvariant, PTL

\* A retired runtime has given every lease back.
THEOREM RetirementReturnsAll == Spec => []RetiredHoldsNothing
<1>1. ContextInv => RetiredHoldsNothing
  BY DEF ContextInv
<1> QED  BY <1>1, ContextInvariant, PTL

\* A lease of a generation that is retiring is never handed back as reusable.
THEOREM NoReuseAfterRetire == Spec => ReusedOnlyWhileOpen
<1> DEFINE Fine == \A c \in Contexts : lease[c] # "reused" /\ lease'[c] = "reused" =>
                     gate = "open" /\ call[c] = "reset" /\ result[c] = "ok"
<1>1. ASSUME ContextInv, [Next]_vars PROVE Fine
  <2> USE DEF ContextInv, entryVars, callVars, leaseVars, retireVars
  <2>1. ASSUME NEW c \in Contexts, Asks(c) \/ Answers(c) PROVE Fine
    BY <1>1, <2>1
    DEF Asks, Begin, BeginNested, Run, End, Answers, CallSettles,
        OperationSettles, LateSettles, LateFulfils, LateRejects, TypeOK
  <2>2. ASSUME NEW c \in Contexts, Release({c}, FALSE) \/ lease' = lease PROVE Fine
    BY <2>2 DEF Release
  <2>3. ASSUME NEW c \in Contexts, ResetResumes(c) PROVE Fine
    BY <2>3 DEF ResetResumes, Release, Reusable
  <2>4. ASSUME NEW c \in Contexts, Resumes(c), ~ResetResumes(c) PROVE Fine
    <3>1. Release({c}, FALSE) \/ lease' = lease
      BY <2>4
      DEF Resumes, AcquireResumes, RunResumes, BeginRejects, CloseResumes,
          FatalResumes, NotifyResumes, RetiringResumes
    <3> QED  BY <2>2, <3>1
  <2>5. CASE Retire \/ RetireCompletes \/ UNCHANGED vars
    BY <2>5 DEF Retire, RetireCompletes, vars
  <2> QED  BY <1>1, <2>1, <2>3, <2>4, <2>5 DEF Next
<1>2. ContextInv /\ [Next]_vars =>
        [\A c \in Contexts : lease[c] # "reused" /\ lease'[c] = "reused" =>
           /\ gate = "open" /\ call[c] = "reset" /\ result[c] = "ok"]_vars
  BY <1>1
<1> HIDE DEF Fine
<1> QED  BY <1>2, ContextInvariant, PTL DEF Spec, ReusedOnlyWhileOpen

(***************************************************************************)
(* The connection: its inductive invariant                                 *)
(***************************************************************************)
Ended(t) == tx[t].phase \in Over
Unbegun(t) == tx[t].session = 0
Alive(s) == session[s] \in {"open", "retiring"}

\* How far open() is, and what it has made by then
OpeningSound ==
  /\ opening = "idle" => attempts = 0
  /\ opening \in {"idle", "provider"} => Current = 0 /\ redirect.at = "none"
  /\ opening \in {"idle", "provider", "ready"} =>
       closing.at = "off" /\ (opening # "ready" => \A s \in Attempts : session[s] = "none")
  /\ opening \in {"ready", "undoTransaction", "undoSession", "done"} => Current # 0
  /\ opening = "ready" => ~aborted /\ (Redirecting \/ tx[1].phase = "opening")
  /\ opening = "undoTransaction" => tx[1].phase = "closing" \/ Ended(1)
  /\ opening \in {"undoSession", "rejected"} => Ended(1) \/ Unbegun(1)
  /\ opening = "rejected" => \A s \in Attempts : ~Alive(s)

\* Who asks the message server, and what is gone by then
LookupSound ==
  /\ lookup.at # "none" <=> opening = "provider" \/ redirect.at = "lookup"
  /\ lookup.at # "none" => attempts # 0 /\ \A s \in Attempts : ~Alive(s)
  /\ redirect.of = 1
  /\ Redirecting => Current # 0 /\ (aborted \/ opening = "ready") /\ opening # "done"
  /\ redirect.at = "transaction" => tx[1].phase = "closing" \/ Ended(1)
  /\ redirect.at \in {"session", "lookup"} => Ended(1)
  /\ redirect.at \in {"transaction", "session"} => attempts < MaxAttempts

\* One session at a time; it goes after what runs on it.
SessionsSound ==
  /\ \A s \in Attempts : Alive(s) => s = Current
  /\ \A t \in Transactions : tx[t].phase = "none" <=> Unbegun(t)
  /\ \A t \in Transactions \ {1} : tx[t].session \in {0, Current}
  /\ \A t \in Transactions : tx[t].session # 0 =>
       /\ session[tx[t].session] = "retiring" => tx[t].phase \in Terminal
       /\ session[tx[t].session] = "retired" => Ended(t)

\* Until open() resolves nothing is called.
CallsSound ==
  /\ aborted => opening # "done"
  /\ opening # "done" =>
       /\ state = "open" /\ cycle = 1 /\ closing.at = "off"
       /\ \A c \in Callers : callers[c].at = "off"
       /\ \A t \in Transactions \ {1} : Unbegun(t)
  /\ \A c \in Callers :
       /\ callers[c].at \in {"waiting", "running"} => callers[c].cycle # 0
       /\ callers[c].at = "metadata" => callers[c].op # "control"

\* What close() has behind it
ClosingSound ==
  /\ \A t \in Transactions : tx[t].phase \notin Terminal \cup {"none"} =>
       t = cycle \/ (closing.at = "transaction" /\ t = closing.cycle)
  /\ opening = "done" => \A t \in Transactions : tx[t].session # 0 /\ tx[t].ready = "failed" =>
       Ended(t) \/ (closing.at = "transaction" /\ t = closing.cycle)
  /\ closing.at # "off" =>
       /\ state # "open" /\ cycle \in {0, closing.cycle}
       /\ \A c \in Callers : callers[c].at = "metadata" => c \in closing.operations
  /\ closing.at \notin {"off", "transaction"} => cycle = 0
  /\ closing.at \in {"session", "over"} => \A c \in Callers : callers[c].at # "metadata"
  /\ closing.at = "over" => session[Current] = "retired"
  /\ opening = "done" /\ session[Current] \in {"retiring", "retired"} =>
       closing.at \in {"session", "over"}

ConnectionInv ==
  /\ ConnectionTypeOK /\ OpeningSound /\ LookupSound /\ SessionsSound /\ CallsSound /\ ClosingSound

(***************************************************************************)
(* The connection: what each step leaves of the invariant                  *)
(***************************************************************************)
TxSet == [session : 0..MaxAttempts, phase : Phases, ready : {"pending", "ok", "failed"}]
CallerSet == [op : {"none", "execute", "metadata", "control"},
              at : {"off", "metadata", "admitted", "waiting", "running", "done"},
              cycle : 0..MaxTransactions]

\* The types, one by one
LEMMA ConnectionTypes ==
  ASSUME ConnectionTypeOK
  PROVE  /\ route \in Routes /\ aborted \in BOOLEAN
         /\ opening \in {"idle", "provider", "ready", "undoTransaction",
                         "undoSession", "rejected", "done"}
         /\ attempts \in 0..MaxAttempts /\ 1 \in Attempts /\ 1 \in Transactions
         /\ lookup \in [at : {"none", "service", "connecting", "over"} \cup Connected,
                        verdict : {"ok", "retryable", "fatal"}]
         /\ session \in [Attempts -> {"none", "open", "retiring", "retired"}]
         /\ tx \in [Transactions -> TxSet] /\ tx[1] \in TxSet
         /\ redirect \in [at : {"none", "transaction", "session", "lookup", "over"},
                          of : Transactions]
         /\ state \in {"open", "failed", "closing", "closed"} /\ cycle \in 0..MaxTransactions
         /\ callers \in [Callers -> CallerSet]
         /\ closing \in [at : {"off", "transaction", "operations", "session", "over"},
                         cycle : 0..MaxTransactions, operations : SUBSET Callers]
BY RoutesAssumption DEF ConnectionTypeOK, SessionTypeOK, TxSet, CallerSet, Attempts, Transactions

\* A transaction changes, and no other one
LEMMA TxChanges ==
  ASSUME tx \in [Transactions -> TxSet], NEW t \in Transactions, NEW r \in TxSet,
         tx' = [tx EXCEPT ![t] = r]
  PROVE  /\ tx' \in [Transactions -> TxSet] /\ tx'[t] = r
         /\ \A u \in Transactions \ {t} : tx'[u] = tx[u]
OBVIOUS

\* The phase of a transaction changes.
LEMMA PhaseChanges ==
  ASSUME tx \in [Transactions -> TxSet], NEW t \in Transactions, NEW p \in Phases,
         tx' = [tx EXCEPT ![t].phase = p]
  PROVE  /\ tx' \in [Transactions -> TxSet] /\ tx'[t].phase = p
         /\ tx'[t].session = tx[t].session /\ tx'[t].ready = tx[t].ready
         /\ \A u \in Transactions \ {t} : tx'[u] = tx[u]
<1> DEFINE r == [tx[t] EXCEPT !.phase = p]
<1>1. tx' = [tx EXCEPT ![t] = r]
  OBVIOUS
<1>2. r \in TxSet /\ r.phase = p /\ r.session = tx[t].session /\ r.ready = tx[t].ready
  BY DEF TxSet
<1> HIDE DEF r
<1> QED
  BY <1>1, <1>2, TxChanges

\* A transaction that fails to be ready
LEMMA ReadyChanges ==
  ASSUME tx \in [Transactions -> TxSet], NEW t \in Transactions,
         tx' = [tx EXCEPT ![t].ready = "failed"]
  PROVE  /\ tx' \in [Transactions -> TxSet] /\ tx'[t].phase = tx[t].phase
         /\ tx'[t].session = tx[t].session
         /\ \A u \in Transactions \ {t} : tx'[u] = tx[u]
<1> DEFINE r == [tx[t] EXCEPT !.ready = "failed"]
<1>1. tx' = [tx EXCEPT ![t] = r]
  OBVIOUS
<1>2. r \in TxSet /\ r.phase = tx[t].phase /\ r.session = tx[t].session
  BY DEF TxSet
<1> HIDE DEF r
<1> QED
  BY <1>1, <1>2, TxChanges

\* A transaction that begins
LEMMA BegunFields ==
  ASSUME NEW s \in Attempts
  PROVE  /\ Begun(s) \in TxSet /\ Begun(s).session = s /\ Begun(s).phase = "opening"
         /\ Begun(s).ready = "pending"
<1> DEFINE x == [NotBegun EXCEPT !.session = s]
<1>1. NotBegun \in TxSet /\ NotBegun.ready = "pending" /\ s \in 0..MaxAttempts
  BY RoutesAssumption DEF NotBegun, TxSet, Phases, Attempts
<1>2. x \in TxSet /\ x.session = s /\ x.ready = "pending"
  BY <1>1 DEF TxSet
<1>3. Begun(s) = [x EXCEPT !.phase = "opening"]
  BY <1>1 DEF Begun, TxSet
<1> HIDE DEF x
<1> QED
  BY <1>2, <1>3 DEF TxSet, Phases

\* A transaction that is closed
LEMMA ClosingFields ==
  ASSUME NEW t \in Transactions, tx \in [Transactions -> TxSet]
  PROVE  /\ ClosingOf(t) \in TxSet /\ ClosingOf(t).session = tx[t].session
         /\ ClosingOf(t).phase = IF tx[t].phase \in {"opening", "active", "calling"}
                                 THEN "closing" ELSE tx[t].phase
<1> DEFINE x == tx[t]
           p == IF x.phase \in {"opening", "active", "calling"} THEN "closing" ELSE x.phase
           r == IF x.ready = "pending" /\ ~Redirecting THEN "failed" ELSE x.ready
           y == [x EXCEPT !.phase = p]
           z == [y EXCEPT !.ready = r]
<1>1. x \in TxSet
  OBVIOUS
<1>2. p \in Phases /\ r \in {"pending", "ok", "failed"}
  BY <1>1 DEF TxSet, Phases
<1>3. ClosingOf(t) = [x EXCEPT !.phase = p, !.ready = r]
  BY DEF ClosingOf
<1> HIDE DEF x, r
<1>4. [x EXCEPT !.phase = p, !.ready = r] = z
  BY <1>1 DEF TxSet
<1>5. y \in TxSet /\ y.session = x.session /\ y.phase = p
  BY <1>1, <1>2 DEF TxSet
<1> HIDE DEF y
<1>6. z \in TxSet /\ z.session = x.session /\ z.phase = p
  BY <1>2, <1>5 DEF TxSet
<1> QED
  BY <1>3, <1>4, <1>6 DEF x

\* A session is told to go.
LEMMA SessionRetires ==
  ASSUME session \in [Attempts -> {"none", "open", "retiring", "retired"}],
         NEW s \in Attempts, RetireSession(s)
  PROVE  /\ session' \in [Attempts -> {"none", "open", "retiring", "retired"}]
         /\ session'[s] = IF session[s] = "open" THEN "retiring" ELSE session[s]
         /\ \A r \in Attempts \ {s} : session'[r] = session[r]
BY DEF RetireSession

(***************************************************************************)
(* open() and the message server                                           *)
(***************************************************************************)
\* RFCClient.open(), up to its first await
LEMMA OpenKeeps ==
  ASSUME ConnectionInv, Open, UNCHANGED connVars
  PROVE  ConnectionInv'
<1>0. ConnectionTypeOK
  BY DEF ConnectionInv
<1>1. /\ opening = "idle" /\ UNCHANGED <<route, aborted, redirect, state, cycle, callers, closing>>
      /\ Current = 0 /\ redirect.at = "none" /\ closing.at = "off" /\ lookup.at = "none"
      /\ \A s \in Attempts : session[s] = "none"
      /\ attempts = 0
  BY DEF ConnectionInv, OpeningSound, LookupSound, Open, connVars
<1>2. /\ state = "open" /\ cycle = 1 /\ redirect.of = 1
      /\ \A c \in Callers : callers[c].at = "off"
      /\ \A t \in Transactions : tx[t].session = 0 /\ tx[t].phase = "none"
  BY <1>0, <1>1, ConnectionTypes
  DEF ConnectionInv, CallsSound, SessionsSound, LookupSound, Unbegun, Current
<1>3. CASE aborted /\ opening' = "rejected" /\ UNCHANGED <<attempts, lookup, session, tx>>
  <2>1. ConnectionTypeOK'
    BY <1>1, <1>3 DEF ConnectionInv, ConnectionTypeOK, SessionTypeOK
  <2>2. OpeningSound' /\ LookupSound'
    BY <1>1, <1>2, <1>3, <1>0, ConnectionTypes
    DEF OpeningSound, LookupSound, Current, Alive, Unbegun, Ended, Redirecting
  <2>3. SessionsSound' /\ CallsSound' /\ ClosingSound'
    BY <1>1, <1>2, <1>3
    DEF SessionsSound, CallsSound, ClosingSound, Current, Alive, Unbegun, Ended, Terminal, Over
  <2> QED
    BY <2>1, <2>2, <2>3 DEF ConnectionInv
<1>4. CASE /\ ~aborted /\ route = "direct" /\ opening' = "ready" /\ attempts' = 1
           /\ session' = [session EXCEPT ![1] = "open"] /\ tx' = [tx EXCEPT ![1] = Begun(1)]
           /\ UNCHANGED lookup
  <2>0. Begun(1) \in TxSet /\ Begun(1).session = 1 /\ Begun(1).phase = "opening"
    BY <1>0, ConnectionTypes, BegunFields
  <2>1. /\ tx' \in [Transactions -> TxSet] /\ tx'[1].session = 1 /\ tx'[1].phase = "opening"
        /\ \A t \in Transactions \ {1} : tx'[t] = tx[t]
    BY <1>0, <1>4, <2>0, ConnectionTypes, TxChanges
  <2>2. /\ session' \in [Attempts -> {"none", "open", "retiring", "retired"}]
        /\ session'[1] = "open" /\ \A s \in Attempts \ {1} : session'[s] = "none"
    BY <1>0, <1>1, <1>4, ConnectionTypes
  <2>3. ConnectionTypeOK'
    BY <1>0, <1>1, <1>4, <2>1, <2>2, ConnectionTypes, RoutesAssumption
    DEF ConnectionTypeOK, SessionTypeOK, TxSet, CallerSet
  <2>4. OpeningSound' /\ LookupSound'
    BY <1>0, <1>1, <1>2, <1>4, <2>1, <2>2, ConnectionTypes
    DEF OpeningSound, LookupSound, Current, Alive, Unbegun, Ended, Redirecting
  <2>5. SessionsSound' /\ CallsSound' /\ ClosingSound'
    BY <1>0, <1>1, <1>2, <1>4, <2>1, <2>2, ConnectionTypes
    DEF SessionsSound, CallsSound, ClosingSound, Current, Alive, Unbegun, Ended, Terminal, Over
  <2> QED
    BY <2>3, <2>4, <2>5 DEF ConnectionInv
<1>5. CASE ~aborted /\ opening' = "provider" /\ StartLookup /\ UNCHANGED <<session, tx>>
  <2>1. /\ attempts' = 1 /\ lookup'.at = "service"
        /\ lookup' \in [at : {"none", "service", "connecting", "over"} \cup Connected,
                        verdict : {"ok", "retryable", "fatal"}]
    BY <1>1, <1>5 DEF StartLookup, NoLookup
  <2>2. ConnectionTypeOK'
    BY <1>0, <1>1, <1>5, <2>1, ConnectionTypes, RoutesAssumption
    DEF ConnectionTypeOK, SessionTypeOK, TxSet, CallerSet
  <2>3. OpeningSound' /\ LookupSound'
    BY <1>0, <1>1, <1>2, <1>5, <2>1, ConnectionTypes
    DEF OpeningSound, LookupSound, Current, Alive, Unbegun, Ended, Redirecting
  <2>4. SessionsSound' /\ CallsSound' /\ ClosingSound'
    BY <1>0, <1>1, <1>2, <1>5, <2>1, ConnectionTypes
    DEF SessionsSound, CallsSound, ClosingSound, Current, Alive, Unbegun, Ended, Terminal, Over
  <2> QED
    BY <2>2, <2>3, <2>4 DEF ConnectionInv
<1> QED
  BY <1>1, <1>3, <1>4, <1>5 DEF Open

\* The caller's signal
LEMMA AbortKeeps ==
  ASSUME ConnectionInv, Abort, UNCHANGED connVars
  PROVE  ConnectionInv'
<1>0. ConnectionTypeOK
  BY DEF ConnectionInv
<1>1. /\ opening \in {"idle", "provider", "ready"} /\ aborted' = TRUE
      /\ UNCHANGED <<route, attempts, lookup, session, redirect, state, cycle, callers, closing>>
      /\ closing.at = "off"
  BY DEF ConnectionInv, OpeningSound, Abort, connVars
<1>2. CASE opening # "ready" /\ UNCHANGED <<opening, tx>>
  <2>1. ConnectionTypeOK'
    BY <1>0, <1>1, <1>2 DEF ConnectionTypeOK, SessionTypeOK
  <2>2. OpeningSound' /\ LookupSound'
    BY <1>1, <1>2
    DEF ConnectionInv, OpeningSound, LookupSound, Current, Alive, Unbegun, Ended, Redirecting
  <2>3. SessionsSound' /\ CallsSound' /\ ClosingSound'
    BY <1>1, <1>2
    DEF ConnectionInv, SessionsSound, CallsSound, ClosingSound, Current, Alive, Unbegun, Ended
  <2> QED
    BY <2>1, <2>2, <2>3 DEF ConnectionInv
<1>3. CASE opening = "ready" /\ opening' = "undoTransaction" /\ tx' = [tx EXCEPT ![1] = ClosingOf(1)]
  <2>1. /\ ClosingOf(1) \in TxSet /\ ClosingOf(1).session = tx[1].session
        /\ ClosingOf(1).phase = IF tx[1].phase = "opening" THEN "closing" ELSE tx[1].phase
    <3>1. tx[1].phase \in {"opening", "closing"} \cup Over
      BY <1>0, <1>3 DEF ConnectionInv, OpeningSound, LookupSound, Redirecting, Ended,
         ConnectionTypeOK, SessionTypeOK
    <3> QED
      BY <1>0, <3>1, ConnectionTypes, ClosingFields DEF Over
  <2>2. /\ tx' \in [Transactions -> TxSet] /\ tx'[1].session = tx[1].session
        /\ tx'[1].phase = IF tx[1].phase = "opening" THEN "closing" ELSE tx[1].phase
        /\ \A t \in Transactions \ {1} : tx'[t] = tx[t]
    BY <1>0, <1>3, <2>1, ConnectionTypes, TxChanges
  <2>3. ConnectionTypeOK'
    BY <1>0, <1>1, <1>3, <2>2, ConnectionTypes
    DEF ConnectionTypeOK, SessionTypeOK, TxSet, CallerSet
  <2>4. OpeningSound' /\ LookupSound'
    BY <1>0, <1>1, <1>3, <2>2, ConnectionTypes
    DEF ConnectionInv, OpeningSound, LookupSound, Current, Alive, Unbegun, Ended, Redirecting, Over
  <2>5. SessionsSound' /\ CallsSound' /\ ClosingSound'
    BY <1>0, <1>1, <1>3, <2>2, ConnectionTypes
    DEF ConnectionInv, SessionsSound, CallsSound, ClosingSound, Current, Alive, Unbegun, Ended,
        Terminal, Over
  <2> QED
    BY <2>3, <2>4, <2>5 DEF ConnectionInv
<1> QED
  BY <1>1, <1>2, <1>3 DEF Abort

\* A step of the lookup
LEMMA LookupKeeps ==
  ASSUME ConnectionInv, LookupGoesOn, UNCHANGED connVars
  PROVE  ConnectionInv'
<1>0. ConnectionTypeOK
  BY DEF ConnectionInv
<1>1. /\ lookup.at # "none" /\ lookup'.at # "none"
      /\ lookup' \in [at : {"none", "service", "connecting", "over"} \cup Connected,
                      verdict : {"ok", "retryable", "fatal"}]
      /\ UNCHANGED <<route, aborted, opening, attempts, session, tx, redirect,
                     state, cycle, callers, closing>>
  <2>1. PICK answer \in {"ok", "retryable", "fatal"} :
          lookup' = [at |-> StageAfter(lookup.at, answer),
                     verdict |-> IF lookup.verdict = "ok" THEN answer ELSE lookup.verdict]
    BY DEF LookupGoesOn
  <2>2. lookup.at \in {"service", "connecting"} \cup Connected
    BY <1>0, ConnectionTypes DEF LookupGoesOn
  <2>3. StageAfter(lookup.at, answer) \in {"service", "connecting", "over"} \cup Connected
    BY <2>2 DEF StageAfter, Connected
  <2> QED
    BY <1>0, <2>1, <2>2, <2>3, ConnectionTypes DEF LookupGoesOn, connVars, Connected
<1>2. ConnectionTypeOK'
  BY <1>0, <1>1 DEF ConnectionTypeOK, SessionTypeOK
<1>3. OpeningSound' /\ LookupSound'
  BY <1>1
  DEF ConnectionInv, OpeningSound, LookupSound, Current, Alive, Unbegun, Ended, Redirecting
<1>4. SessionsSound' /\ CallsSound' /\ ClosingSound'
  BY <1>1
  DEF ConnectionInv, SessionsSound, CallsSound, ClosingSound, Current, Alive, Unbegun, Ended
<1> QED
  BY <1>2, <1>3, <1>4 DEF ConnectionInv

\* The answer of the message server
LEMMA LookedKeeps ==
  ASSUME ConnectionInv, Looked, UNCHANGED connVars
  PROVE  ConnectionInv'
<1>0. ConnectionTypeOK
  BY DEF ConnectionInv
<1>1. /\ lookup.at = "over" /\ redirect.of = 1 /\ attempts # 0
      /\ \A s \in Attempts : ~Alive(s)
      /\ UNCHANGED <<route, aborted, state, cycle, callers, closing>>
      /\ opening = "provider" \/ redirect.at = "lookup"
  BY DEF ConnectionInv, LookupSound, Looked, connVars
<1>2. /\ opening # "done" /\ closing.at = "off" /\ state = "open" /\ cycle = 1
      /\ \A c \in Callers : callers[c].at = "off"
      /\ \A t \in Transactions \ {1} : Unbegun(t)
      /\ opening = "provider" => redirect.at = "none" /\ Unbegun(1)
      /\ redirect.at = "lookup" => Ended(1) /\ (aborted \/ opening = "ready")
  BY <1>1
  DEF ConnectionInv, LookupSound, OpeningSound, CallsSound, Redirecting, Unbegun, Current
<1>3. /\ Redirected \in [at : {"none", "transaction", "session", "lookup", "over"},
                         of : Transactions]
      /\ Redirected.of = 1
      /\ Redirected.at = IF redirect.at = "none" THEN "none" ELSE "over"
      /\ NoLookup \in [at : {"none", "service", "connecting", "over"} \cup Connected,
                       verdict : {"ok", "retryable", "fatal"}]
      /\ NoLookup.at = "none"
  BY <1>0, <1>1, ConnectionTypes DEF Redirected, NoLookup
<1>4. CASE /\ StillWanted
           /\ session' = [session EXCEPT ![attempts] = "open"]
           /\ tx' = [tx EXCEPT ![redirect.of] = Begun(attempts)]
           /\ opening' = IF opening = "provider" THEN "ready" ELSE opening
           /\ redirect' = Redirected /\ lookup' = NoLookup
           /\ UNCHANGED attempts
  <2>1. attempts \in Attempts /\ ~aborted
    BY <1>0, <1>1, <1>4, ConnectionTypes DEF StillWanted, Attempts
  <2>2. /\ tx' \in [Transactions -> TxSet] /\ tx'[1].session = attempts
        /\ tx'[1].phase = "opening" /\ \A t \in Transactions \ {1} : tx'[t] = tx[t]
    BY <1>0, <1>1, <1>4, <2>1, ConnectionTypes, TxChanges, BegunFields
  <2>3. /\ session' \in [Attempts -> {"none", "open", "retiring", "retired"}]
        /\ session'[attempts] = "open" /\ \A s \in Attempts \ {attempts} : session'[s] = session[s]
    BY <1>0, <1>4, <2>1, ConnectionTypes
  <2>4. opening' = "ready"
    BY <1>1, <1>2, <1>4, <2>1
  <2>5. ConnectionTypeOK'
    BY <1>0, <1>1, <1>3, <1>4, <2>2, <2>3, <2>4, ConnectionTypes
    DEF ConnectionTypeOK, SessionTypeOK, TxSet, CallerSet
  <2>6. OpeningSound' /\ LookupSound'
    BY <1>0, <1>1, <1>2, <1>3, <1>4, <2>1, <2>2, <2>3, <2>4, ConnectionTypes
    DEF OpeningSound, LookupSound, Current, Alive, Unbegun, Ended, Redirecting, Attempts
  <2>7. SessionsSound' /\ CallsSound' /\ ClosingSound'
    BY <1>0, <1>1, <1>2, <1>4, <2>1, <2>2, <2>3, <2>4, ConnectionTypes
    DEF ConnectionInv, SessionsSound, CallsSound, ClosingSound, Current, Alive, Unbegun, Ended,
        Terminal, Over, Attempts
  <2> QED
    BY <2>5, <2>6, <2>7 DEF ConnectionInv
<1>5. CASE /\ MayRetry /\ ~aborted /\ StartLookup /\ UNCHANGED <<opening, session, tx, redirect>>
  <2>1. /\ attempts' = attempts + 1 /\ attempts' \in 0..MaxAttempts /\ lookup'.at = "service"
        /\ lookup' \in [at : {"none", "service", "connecting", "over"} \cup Connected,
                        verdict : {"ok", "retryable", "fatal"}]
    BY <1>0, <1>5, ConnectionTypes, RoutesAssumption DEF StartLookup, NoLookup, MayRetry
  <2>2. ConnectionTypeOK'
    BY <1>0, <1>1, <1>5, <2>1 DEF ConnectionTypeOK, SessionTypeOK
  <2>3. OpeningSound' /\ LookupSound'
    BY <1>0, <1>1, <1>2, <1>5, <2>1, ConnectionTypes
    DEF ConnectionInv, OpeningSound, LookupSound, Current, Alive, Unbegun, Ended, Redirecting
  <2>4. SessionsSound' /\ CallsSound' /\ ClosingSound'
    BY <1>1, <1>5
    DEF ConnectionInv, SessionsSound, CallsSound, ClosingSound, Current, Alive, Unbegun, Ended
  <2> QED
    BY <2>2, <2>3, <2>4 DEF ConnectionInv
<1>6. CASE /\ lookup' = NoLookup /\ redirect' = Redirected
           /\ redirect.at = "lookup" /\ ReadyFails(redirect.of) /\ UNCHANGED <<attempts, session>>
  <2>1. /\ tx' \in [Transactions -> TxSet] /\ tx'[1].phase = tx[1].phase
        /\ tx'[1].session = tx[1].session /\ \A u \in Transactions \ {1} : tx'[u] = tx[u]
        /\ opening' = IF opening = "ready" THEN "undoTransaction" ELSE opening
    BY <1>0, <1>1, <1>6, ConnectionTypes, ReadyChanges DEF ReadyFails
  <2>2. ConnectionTypeOK'
    BY <1>0, <1>1, <1>3, <1>6, <2>1, ConnectionTypes
    DEF ConnectionTypeOK, SessionTypeOK, TxSet, CallerSet
  <2>3. OpeningSound' /\ LookupSound'
    BY <1>0, <1>1, <1>2, <1>3, <1>6, <2>1, ConnectionTypes
    DEF ConnectionInv, OpeningSound, LookupSound, Current, Alive, Unbegun, Ended, Redirecting
  <2>4. SessionsSound' /\ CallsSound' /\ ClosingSound'
    BY <1>0, <1>1, <1>2, <1>6, <2>1, ConnectionTypes
    DEF ConnectionInv, SessionsSound, CallsSound, ClosingSound, Current, Alive, Unbegun, Ended
  <2> QED
    BY <2>2, <2>3, <2>4 DEF ConnectionInv
<1>7. CASE /\ lookup' = NoLookup /\ redirect' = Redirected /\ redirect.at # "lookup"
           /\ opening' = "rejected" /\ UNCHANGED <<attempts, session, tx>>
  <2>1. ConnectionTypeOK'
    BY <1>0, <1>1, <1>3, <1>7 DEF ConnectionTypeOK, SessionTypeOK
  <2>2. OpeningSound' /\ LookupSound'
    BY <1>0, <1>1, <1>2, <1>3, <1>7, ConnectionTypes
    DEF ConnectionInv, OpeningSound, LookupSound, Current, Alive, Unbegun, Ended, Redirecting
  <2>3. SessionsSound' /\ CallsSound' /\ ClosingSound'
    BY <1>1, <1>2, <1>7
    DEF ConnectionInv, SessionsSound, CallsSound, ClosingSound, Current, Alive, Unbegun, Ended
  <2> QED
    BY <2>1, <2>2, <2>3 DEF ConnectionInv
<1> QED
  BY <1>1, <1>4, <1>5, <1>6, <1>7 DEF Looked

(***************************************************************************)
(* The connection: its transactions and its sessions                       *)
(***************************************************************************)
\* A transaction is ready, and open() resolves.
LEMMA TransactionReadyKeeps ==
  ASSUME ConnectionInv, NEW t \in Transactions, TransactionReady(t), UNCHANGED connVars
  PROVE  ConnectionInv'
<1>0. ConnectionTypeOK
  BY DEF ConnectionInv
<1>1. /\ tx[t].phase = "opening"
      /\ opening' = IF opening = "ready" THEN "done" ELSE opening
      /\ UNCHANGED <<route, aborted, attempts, lookup, session, redirect,
                     state, cycle, callers, closing>>
  BY DEF TransactionReady, connVars
<1>2. /\ tx' \in [Transactions -> TxSet] /\ tx'[t].phase = "active" /\ tx'[t].ready = "ok"
      /\ tx'[t].session = tx[t].session /\ \A u \in Transactions \ {t} : tx'[u] = tx[u]
  <2> DEFINE x == [tx[t] EXCEPT !.phase = "active"]
             r == [x EXCEPT !.ready = "ok"]
  <2>1. tx' = [tx EXCEPT ![t] = r]
    BY DEF TransactionReady
  <2>2. x \in TxSet /\ x.phase = "active" /\ x.session = tx[t].session
    BY <1>0, ConnectionTypes DEF TxSet, Phases
  <2> HIDE DEF x
  <2>3. r \in TxSet /\ r.phase = "active" /\ r.ready = "ok" /\ r.session = tx[t].session
    BY <2>2 DEF TxSet
  <2> HIDE DEF r
  <2> QED
    BY <1>0, <2>1, <2>3, ConnectionTypes, TxChanges
<1>3. opening # "done" => t = 1 /\ opening = "ready" /\ ~aborted /\ ~Redirecting /\ lookup.at = "none"
  BY <1>0, <1>1, ConnectionTypes
  DEF ConnectionInv, OpeningSound, LookupSound, SessionsSound, CallsSound, Current, Unbegun, Ended,
      Over, Redirecting
<1>4. session[tx[t].session] \notin {"retiring", "retired"} /\ tx[t].session # 0
  BY <1>1 DEF ConnectionInv, SessionsSound, Ended, Unbegun, Over, Terminal
<1>5. ConnectionTypeOK'
  BY <1>0, <1>1, <1>2, ConnectionTypes DEF ConnectionTypeOK, SessionTypeOK, TxSet, CallerSet
<1>6. OpeningSound' /\ LookupSound'
  BY <1>0, <1>1, <1>2, <1>3, ConnectionTypes
  DEF ConnectionInv, OpeningSound, LookupSound, Current, Alive, Unbegun, Ended, Redirecting
<1>7. SessionsSound'
  BY <1>0, <1>1, <1>2, <1>3, <1>4, ConnectionTypes
  DEF ConnectionInv, SessionsSound, Current, Alive, Unbegun, Ended, Terminal, Over
<1>8. CallsSound'
  BY <1>1, <1>3 DEF ConnectionInv, CallsSound
<1>9. ClosingSound'
  BY <1>0, <1>1, <1>2, <1>3, <1>4, ConnectionTypes
  DEF ConnectionInv, CallsSound, ClosingSound, Current, Unbegun, Ended, Terminal, Over
<1> QED
  BY <1>5, <1>6, <1>7, <1>8, <1>9 DEF ConnectionInv

\* A transaction that fails to open looks for another server or fails.
LEMMA TransactionFailsKeeps ==
  ASSUME ConnectionInv, NEW t \in Transactions, TransactionFails(t), UNCHANGED connVars
  PROVE  ConnectionInv'
<1>0. ConnectionTypeOK
  BY DEF ConnectionInv
<1>1. /\ tx[t].phase = "opening"
      /\ UNCHANGED <<route, aborted, attempts, lookup, session, state, cycle, callers, closing>>
  BY DEF TransactionFails, connVars
<1>2. opening # "done" => t = 1 /\ opening = "ready" /\ ~aborted /\ ~Redirecting /\ lookup.at = "none"
  BY <1>0, <1>1, ConnectionTypes
  DEF ConnectionInv, OpeningSound, LookupSound, SessionsSound, CallsSound, Current, Unbegun, Ended,
      Over, Redirecting
<1>3. session[tx[t].session] \notin {"retiring", "retired"} /\ tx[t].session # 0
  BY <1>1 DEF ConnectionInv, SessionsSound, Ended, Unbegun, Over, Terminal
<1>4. CASE /\ Eligible /\ MayRetry /\ ~aborted /\ redirect' = [at |-> "transaction", of |-> t]
           /\ tx' = [tx EXCEPT ![t].phase = "closing"] /\ UNCHANGED opening
  <2>1. t = 1 /\ opening = "ready" /\ Current # 0 /\ attempts < MaxAttempts
    BY <1>2, <1>3, <1>4 DEF Eligible, MayRetry, Current
  <2>2. /\ tx' \in [Transactions -> TxSet] /\ tx'[1].phase = "closing"
        /\ tx'[1].session = tx[1].session /\ \A u \in Transactions \ {1} : tx'[u] = tx[u]
    BY <1>0, <1>4, <2>1, ConnectionTypes, PhaseChanges DEF Phases
  <2>3. ConnectionTypeOK'
    BY <1>0, <1>1, <1>4, <2>2, ConnectionTypes
    DEF ConnectionTypeOK, SessionTypeOK, TxSet, CallerSet
  <2>4. OpeningSound' /\ LookupSound'
    BY <1>0, <1>1, <1>2, <1>4, <2>1, <2>2, ConnectionTypes
    DEF ConnectionInv, OpeningSound, LookupSound, Current, Alive, Unbegun, Ended, Redirecting
  <2>5. SessionsSound'
    BY <1>0, <1>1, <1>3, <1>4, <2>1, <2>2, ConnectionTypes
    DEF ConnectionInv, SessionsSound, Current, Alive, Unbegun, Ended, Terminal, Over
  <2>6. CallsSound' /\ ClosingSound'
    BY <1>0, <1>1, <1>4, <2>1, <2>2, ConnectionTypes
    DEF ConnectionInv, CallsSound, ClosingSound, Current, Unbegun, Ended, Terminal, Over
  <2> QED
    BY <2>3, <2>4, <2>5, <2>6 DEF ConnectionInv
<1>5. CASE /\ tx' = [tx EXCEPT ![t].phase = "failed", ![t].ready = "failed"]
           /\ opening' = IF opening = "ready" THEN "undoTransaction" ELSE opening
           /\ UNCHANGED redirect
  <2>1. /\ tx' \in [Transactions -> TxSet] /\ tx'[t].phase = "failed"
        /\ tx'[t].session = tx[t].session /\ \A u \in Transactions \ {t} : tx'[u] = tx[u]
    <3> DEFINE x == [tx[t] EXCEPT !.phase = "failed"]
               r == [x EXCEPT !.ready = "failed"]
    <3>1. tx' = [tx EXCEPT ![t] = r]
      BY <1>5
    <3>2. x \in TxSet /\ x.phase = "failed" /\ x.session = tx[t].session
      BY <1>0, ConnectionTypes DEF TxSet, Phases
    <3> HIDE DEF x
    <3>3. r \in TxSet /\ r.phase = "failed" /\ r.session = tx[t].session
      BY <3>2 DEF TxSet
    <3> HIDE DEF r
    <3> QED
      BY <1>0, <3>1, <3>3, ConnectionTypes, TxChanges
  <2>2. ConnectionTypeOK'
    BY <1>0, <1>1, <1>5, <2>1, ConnectionTypes
    DEF ConnectionTypeOK, SessionTypeOK, TxSet, CallerSet
  <2>3. OpeningSound' /\ LookupSound'
    BY <1>0, <1>1, <1>2, <1>5, <2>1, ConnectionTypes
    DEF ConnectionInv, OpeningSound, LookupSound, Current, Alive, Unbegun, Ended, Redirecting, Over
  <2>4. SessionsSound'
    BY <1>0, <1>1, <1>3, <2>1, ConnectionTypes
    DEF ConnectionInv, SessionsSound, Current, Alive, Unbegun, Ended, Terminal, Over
  <2>5. CallsSound' /\ ClosingSound'
    BY <1>0, <1>1, <1>2, <1>5, <2>1, ConnectionTypes
    DEF ConnectionInv, CallsSound, ClosingSound, Current, Unbegun, Ended, Terminal, Over
  <2> QED
    BY <2>2, <2>3, <2>4, <2>5 DEF ConnectionInv
<1> QED
  BY <1>4, <1>5 DEF TransactionFails

\* The end of a transaction
LEMMA TransactionEndsKeeps ==
  ASSUME ConnectionInv, NEW t \in Transactions, TransactionEnds(t), UNCHANGED connVars
  PROVE  ConnectionInv'
<1>0. ConnectionTypeOK
  BY DEF ConnectionInv
<1>1. UNCHANGED <<route, aborted, opening, attempts, lookup, session, redirect,
                  state, cycle, callers, closing>>
  BY DEF TransactionEnds, connVars
<1>2. PICK p \in {"closed", "failing", "failed"} :
        /\ tx' = [tx EXCEPT ![t].phase = p]
        /\ \/ tx[t].phase = "ending" /\ p \in {"closed", "failing"}
           \/ tx[t].phase = "failing" /\ p = "failed"
           \/ tx[t].phase = "closing" /\ p = "closed"
  BY DEF TransactionEnds
<1>3. /\ tx' \in [Transactions -> TxSet] /\ tx'[t].phase = p /\ tx'[t].ready = tx[t].ready
      /\ tx'[t].session = tx[t].session /\ \A u \in Transactions \ {t} : tx'[u] = tx[u]
  BY <1>0, <1>2, ConnectionTypes, PhaseChanges DEF Phases
<1>4. ConnectionTypeOK'
  BY <1>0, <1>1, <1>3, ConnectionTypes DEF ConnectionTypeOK, SessionTypeOK, TxSet, CallerSet
<1>5. OpeningSound' /\ LookupSound'
  BY <1>0, <1>1, <1>2, <1>3, ConnectionTypes
  DEF ConnectionInv, OpeningSound, LookupSound, Current, Alive, Unbegun, Ended, Redirecting, Over
<1>6. SessionsSound'
  BY <1>0, <1>1, <1>2, <1>3, ConnectionTypes
  DEF ConnectionInv, SessionsSound, Current, Alive, Unbegun, Ended, Terminal, Over
<1>7. CallsSound' /\ ClosingSound'
  BY <1>0, <1>1, <1>2, <1>3, ConnectionTypes
  DEF ConnectionInv, CallsSound, ClosingSound, Current, Unbegun, Ended, Terminal, Over
<1> QED
  BY <1>4, <1>5, <1>6, <1>7 DEF ConnectionInv

\* A session is retired.
LEMMA SessionRetiredKeeps ==
  ASSUME ConnectionInv, NEW s \in Attempts, SessionRetired(s), UNCHANGED connVars
  PROVE  ConnectionInv'
<1>0. ConnectionTypeOK
  BY DEF ConnectionInv
<1>1. /\ session[s] = "retiring" /\ s = Current
      /\ \A t \in Transactions : tx[t].session = s => Ended(t)
      /\ UNCHANGED <<route, aborted, opening, attempts, lookup, tx, redirect,
                     state, cycle, callers, closing>>
  BY DEF ConnectionInv, SessionsSound, Alive, SessionRetired, Ended, connVars
<1>2. /\ session' \in [Attempts -> {"none", "open", "retiring", "retired"}]
      /\ session'[s] = "retired" /\ \A u \in Attempts \ {s} : session'[u] = session[u]
  BY <1>0, ConnectionTypes DEF SessionRetired
<1>3. ConnectionTypeOK'
  BY <1>0, <1>1, <1>2 DEF ConnectionTypeOK, SessionTypeOK
<1>4. OpeningSound' /\ LookupSound'
  BY <1>0, <1>1, <1>2, ConnectionTypes
  DEF ConnectionInv, OpeningSound, LookupSound, Current, Alive, Unbegun, Ended, Redirecting
<1>5. SessionsSound'
  BY <1>0, <1>1, <1>2, ConnectionTypes
  DEF ConnectionInv, SessionsSound, Current, Alive, Unbegun, Ended, TxSet, Attempts
<1>6. CallsSound' /\ ClosingSound'
  BY <1>0, <1>1, <1>2, ConnectionTypes
  DEF ConnectionInv, CallsSound, ClosingSound, Current, Unbegun, Ended, Attempts
<1> QED
  BY <1>3, <1>4, <1>5, <1>6 DEF ConnectionInv

\* ready() of the wrapper looks for another server.
LEMMA RedirectKeeps ==
  ASSUME ConnectionInv, RedirectGoesOn, UNCHANGED connVars
  PROVE  ConnectionInv'
<1>0. ConnectionTypeOK
  BY DEF ConnectionInv
<1>1. /\ Redirecting /\ redirect.of = 1 /\ Current \in Attempts /\ opening # "done"
      /\ tx[redirect.of].session = Current /\ (aborted \/ opening = "ready")
      /\ UNCHANGED <<route, aborted, state, cycle, callers, closing>>
  <2>1. Redirecting /\ redirect.of = 1 /\ UNCHANGED <<route, aborted, state, cycle, callers, closing>>
    BY DEF ConnectionInv, LookupSound, RedirectGoesOn, Redirecting, connVars
  <2> QED
    BY <1>0, <2>1, ConnectionTypes DEF ConnectionInv, LookupSound, Current, TxSet, Attempts
<1>2. /\ redirect \in [at : {"none", "transaction", "session", "lookup", "over"}, of : Transactions]
      /\ Redirected \in [at : {"none", "transaction", "session", "lookup", "over"},
                         of : Transactions]
      /\ Redirected.of = 1 /\ Redirected.at = "over"
  BY <1>0, <1>1, ConnectionTypes DEF Redirected, Redirecting
<1>3. CASE /\ redirect.at = "transaction" /\ Ended(1)
           /\ redirect' = [redirect EXCEPT !.at = "session"]
           /\ RetireSession(Current) /\ UNCHANGED <<attempts, lookup, tx, opening>>
  <2>1. /\ session' \in [Attempts -> {"none", "open", "retiring", "retired"}]
        /\ session'[Current] = IF session[Current] = "open" THEN "retiring" ELSE session[Current]
        /\ \A r \in Attempts \ {Current} : session'[r] = session[r]
    BY <1>0, <1>1, <1>3, ConnectionTypes, SessionRetires
  <2>2. /\ redirect' \in [at : {"none", "transaction", "session", "lookup", "over"},
                          of : Transactions]
        /\ redirect'.of = 1 /\ redirect'.at = "session"
    BY <1>1, <1>2, <1>3
  <2>3. ConnectionTypeOK'
    BY <1>0, <1>1, <1>3, <2>1, <2>2 DEF ConnectionTypeOK, SessionTypeOK
  <2>4. OpeningSound' /\ LookupSound'
    BY <1>0, <1>1, <1>3, <2>1, <2>2, ConnectionTypes
    DEF ConnectionInv, OpeningSound, LookupSound, Current, Alive, Unbegun, Ended, Redirecting
  <2>5. SessionsSound'
    BY <1>0, <1>1, <1>3, <2>1, ConnectionTypes
    DEF ConnectionInv, SessionsSound, CallsSound, Current, Alive, Unbegun, Ended, Terminal, Over,
        TxSet, Attempts
  <2>6. CallsSound' /\ ClosingSound'
    BY <1>1, <1>3 DEF ConnectionInv, CallsSound, ClosingSound, Current, Unbegun
  <2> QED
    BY <2>3, <2>4, <2>5, <2>6 DEF ConnectionInv
<1>4. CASE /\ redirect.at = "session" /\ HasClosed(Current) /\ ~aborted
           /\ redirect' = [redirect EXCEPT !.at = "lookup"] /\ StartLookup
           /\ UNCHANGED <<session, tx, opening>>
  <2>1. /\ redirect' \in [at : {"none", "transaction", "session", "lookup", "over"},
                          of : Transactions]
        /\ redirect'.of = 1 /\ redirect'.at = "lookup"
    BY <1>1, <1>2, <1>4
  <2>2. /\ attempts' = attempts + 1 /\ attempts' \in 0..MaxAttempts /\ attempts' # 0
        /\ lookup'.at = "service"
        /\ lookup' \in [at : {"none", "service", "connecting", "over"} \cup Connected,
                        verdict : {"ok", "retryable", "fatal"}]
    BY <1>0, <1>4, ConnectionTypes, RoutesAssumption
    DEF ConnectionInv, LookupSound, StartLookup, NoLookup
  <2>3. /\ \A s \in Attempts : ~Alive(s)
        /\ Ended(1) /\ opening = "ready"
    BY <1>0, <1>1, <1>4 DEF ConnectionInv, LookupSound, SessionsSound, HasClosed, Alive
  <2>4. ConnectionTypeOK'
    BY <1>0, <1>1, <1>4, <2>1, <2>2 DEF ConnectionTypeOK, SessionTypeOK
  <2>5. OpeningSound' /\ LookupSound'
    BY <1>0, <1>1, <1>4, <2>1, <2>2, <2>3, ConnectionTypes
    DEF ConnectionInv, OpeningSound, LookupSound, Current, Alive, Unbegun, Ended, Redirecting
  <2>6. SessionsSound' /\ CallsSound' /\ ClosingSound'
    BY <1>1, <1>4
    DEF ConnectionInv, SessionsSound, CallsSound, ClosingSound, Current, Alive, Unbegun, Ended
  <2> QED
    BY <2>4, <2>5, <2>6 DEF ConnectionInv
<1>5. CASE /\ redirect.at = "session" /\ redirect' = Redirected /\ ReadyFails(1)
           /\ UNCHANGED <<attempts, lookup, session>>
  <2>1. /\ tx' \in [Transactions -> TxSet] /\ tx'[1].phase = tx[1].phase
        /\ tx'[1].session = tx[1].session /\ \A u \in Transactions \ {1} : tx'[u] = tx[u]
        /\ opening' = IF opening = "ready" THEN "undoTransaction" ELSE opening
    BY <1>0, <1>1, <1>5, ConnectionTypes, ReadyChanges DEF ReadyFails
  <2>2. ConnectionTypeOK'
    BY <1>0, <1>1, <1>2, <1>5, <2>1, ConnectionTypes
    DEF ConnectionTypeOK, SessionTypeOK, TxSet, CallerSet
  <2>3. OpeningSound' /\ LookupSound'
    BY <1>0, <1>1, <1>2, <1>5, <2>1, ConnectionTypes
    DEF ConnectionInv, OpeningSound, LookupSound, Current, Alive, Unbegun, Ended, Redirecting
  <2>4. SessionsSound' /\ CallsSound' /\ ClosingSound'
    BY <1>0, <1>1, <1>5, <2>1, ConnectionTypes
    DEF ConnectionInv, SessionsSound, CallsSound, ClosingSound, Current, Alive, Unbegun, Ended
  <2> QED
    BY <2>2, <2>3, <2>4 DEF ConnectionInv
<1> QED
  BY <1>1, <1>3, <1>4, <1>5 DEF RedirectGoesOn, Ended

\* open() undoes what it has made.
LEMMA UndoKeeps ==
  ASSUME ConnectionInv, UndoGoesOn, UNCHANGED connVars
  PROVE  ConnectionInv'
<1>0. ConnectionTypeOK
  BY DEF ConnectionInv
<1>1. /\ opening \in {"undoTransaction", "undoSession"} /\ Current \in Attempts
      /\ UNCHANGED <<route, aborted, attempts, lookup, tx, redirect, state, cycle, callers, closing>>
  <2>1. /\ opening \in {"undoTransaction", "undoSession"}
        /\ UNCHANGED <<route, aborted, attempts, lookup, tx, redirect, state, cycle, callers, closing>>
    BY DEF UndoGoesOn, connVars
  <2> QED
    BY <1>0, <2>1, ConnectionTypes DEF ConnectionInv, OpeningSound, Current, TxSet, Attempts
<1>2. CASE Ended(1) /\ opening' = "undoSession" /\ RetireSession(Current)
  <2>1. /\ session' \in [Attempts -> {"none", "open", "retiring", "retired"}]
        /\ session'[Current] = IF session[Current] = "open" THEN "retiring" ELSE session[Current]
        /\ \A r \in Attempts \ {Current} : session'[r] = session[r]
    BY <1>0, <1>1, <1>2, ConnectionTypes, SessionRetires
  <2>2. ConnectionTypeOK'
    BY <1>0, <1>1, <1>2, <2>1 DEF ConnectionTypeOK, SessionTypeOK
  <2>3. OpeningSound' /\ LookupSound'
    BY <1>0, <1>1, <1>2, <2>1, ConnectionTypes
    DEF ConnectionInv, OpeningSound, LookupSound, Current, Alive, Unbegun, Ended, Redirecting
  <2>4. SessionsSound'
    BY <1>0, <1>1, <1>2, <2>1, ConnectionTypes
    DEF ConnectionInv, SessionsSound, CallsSound, Current, Alive, Unbegun, Ended, Terminal, Over,
        TxSet, Attempts
  <2>5. CallsSound' /\ ClosingSound'
    BY <1>1, <1>2 DEF ConnectionInv, CallsSound, ClosingSound, Current, Unbegun
  <2> QED
    BY <2>2, <2>3, <2>4, <2>5 DEF ConnectionInv
<1>3. CASE opening = "undoSession" /\ session[Current] = "retired" /\ opening' = "rejected"
           /\ UNCHANGED session
  <2>1. \A s \in Attempts : ~Alive(s)
    BY <1>3 DEF ConnectionInv, SessionsSound, Alive
  <2>2. ConnectionTypeOK'
    BY <1>0, <1>1, <1>3 DEF ConnectionTypeOK, SessionTypeOK
  <2>3. OpeningSound' /\ LookupSound'
    BY <1>0, <1>1, <1>3, <2>1
    DEF ConnectionInv, OpeningSound, LookupSound, Current, Alive, Unbegun, Ended, Redirecting
  <2>4. SessionsSound' /\ CallsSound' /\ ClosingSound'
    BY <1>1, <1>3
    DEF ConnectionInv, SessionsSound, CallsSound, ClosingSound, Current, Alive, Unbegun, Ended
  <2> QED
    BY <2>2, <2>3, <2>4 DEF ConnectionInv
<1> QED
  BY <1>1, <1>2, <1>3 DEF UndoGoesOn, Ended

\* The steps of the session, with the connection looking on
LEMMA SessionProceedsKeeps ==
  ASSUME ConnectionInv, SessionProceeds, UNCHANGED connVars
  PROVE  ConnectionInv'
BY LookupKeeps, LookedKeeps, RedirectKeeps, UndoKeeps, TransactionReadyKeeps,
   TransactionFailsKeeps, TransactionEndsKeeps, SessionRetiredKeeps DEF SessionProceeds

(***************************************************************************)
(* The connection: its calls                                               *)
(***************************************************************************)
\* Nothing is called before open() resolves; what a call waits for has begun.
LEMMA CalledIsOpen ==
  ASSUME ConnectionInv, NEW c \in Callers, callers[c].at # "off"
  PROVE  /\ opening = "done" /\ ~aborted /\ ~Redirecting /\ lookup.at = "none"
         /\ Current # 0
         /\ callers[c].at \in {"waiting", "running"} => callers[c].cycle \in Transactions
<1>1. opening = "done"
  BY DEF ConnectionInv, CallsSound
<1>2. callers[c].cycle \in 0..MaxTransactions
  BY ConnectionTypes DEF ConnectionInv, CallerSet
<1> QED
  BY <1>1, <1>2, RoutesAssumption DEF ConnectionInv, CallsSound, OpeningSound, LookupSound, Redirecting, Transactions

\* The fields of a call that ends, and of one that goes on
LEMMA CallerFields ==
  ASSUME callers \in [Callers -> CallerSet], NEW c \in Callers
  PROVE  /\ CallerEnds(c) => /\ callers' \in [Callers -> CallerSet] /\ callers'[c].at = "done"
                             /\ \A d \in Callers \ {c} : callers'[d] = callers[d]
         /\ CallerGoes(c, "admitted") =>
              /\ callers' \in [Callers -> CallerSet] /\ callers'[c].at = "admitted"
              /\ \A d \in Callers \ {c} : callers'[d] = callers[d]
         /\ \A at \in {"waiting", "running"}, t \in Transactions :
              callers' = [callers EXCEPT ![c].at = at, ![c].cycle = t] =>
                /\ callers' \in [Callers -> CallerSet]
                /\ callers'[c].at = at /\ callers'[c].cycle = t
                /\ \A d \in Callers \ {c} : callers'[d] = callers[d]
<1>1. ASSUME CallerEnds(c)
      PROVE  /\ callers' \in [Callers -> CallerSet] /\ callers'[c].at = "done"
             /\ \A d \in Callers \ {c} : callers'[d] = callers[d]
  <2> DEFINE r == [NotCalled EXCEPT !.at = "done"]
  <2>1. r \in CallerSet /\ r.at = "done"
    BY RoutesAssumption DEF NotCalled, CallerSet
  <2>2. callers' = [callers EXCEPT ![c] = r]
    BY <1>1 DEF CallerEnds
  <2> HIDE DEF r
  <2> QED
    BY <2>1, <2>2
<1>2. ASSUME CallerGoes(c, "admitted")
      PROVE  /\ callers' \in [Callers -> CallerSet] /\ callers'[c].at = "admitted"
             /\ \A d \in Callers \ {c} : callers'[d] = callers[d]
  <2> DEFINE r == [callers[c] EXCEPT !.at = "admitted"]
  <2>1. r \in CallerSet /\ r.at = "admitted"
    BY DEF CallerSet
  <2>2. callers' = [callers EXCEPT ![c] = r]
    BY <1>2 DEF CallerGoes
  <2> HIDE DEF r
  <2> QED
    BY <2>1, <2>2
<1>3. ASSUME NEW at \in {"waiting", "running"}, NEW t \in Transactions,
             callers' = [callers EXCEPT ![c].at = at, ![c].cycle = t]
      PROVE  /\ callers' \in [Callers -> CallerSet]
             /\ callers'[c].at = at /\ callers'[c].cycle = t
             /\ \A d \in Callers \ {c} : callers'[d] = callers[d]
  <2> DEFINE x == [callers[c] EXCEPT !.at = at]
             r == [x EXCEPT !.cycle = t]
  <2>1. callers' = [callers EXCEPT ![c] = r]
    BY <1>3
  <2>2. x \in CallerSet /\ x.at = at
    BY DEF CallerSet
  <2> HIDE DEF x
  <2>3. r \in CallerSet /\ r.at = at /\ r.cycle = t
    BY <2>2, RoutesAssumption DEF CallerSet, Transactions
  <2> HIDE DEF r
  <2> QED
    BY <2>1, <2>3
<1> QED
  BY <1>1, <1>2, <1>3

\* A step of a call that leaves the transactions alone
LEMMA CallersKeep ==
  ASSUME ConnectionInv, opening = "done", NEW c \in Callers,
         UNCHANGED <<sessionVars, state, cycle, closing>>,
         callers' \in [Callers -> CallerSet],
         \A d \in Callers \ {c} : callers'[d] = callers[d],
         callers'[c].at = "metadata" => callers'[c].op # "control" /\ closing.at = "off",
         callers'[c].at \in {"waiting", "running"} => callers'[c].cycle # 0
  PROVE  ConnectionInv'
<1>0. UNCHANGED <<route, aborted, opening, attempts, lookup, session, tx, redirect>>
  BY DEF sessionVars
<1>1. ConnectionTypeOK'
  BY <1>0 DEF ConnectionInv, ConnectionTypeOK, SessionTypeOK, CallerSet
<1>2. OpeningSound' /\ LookupSound' /\ SessionsSound'
  BY <1>0 DEF ConnectionInv, OpeningSound, LookupSound, SessionsSound, Current, Alive, Unbegun,
     Ended, Redirecting
<1>3. CallsSound'
  BY <1>0 DEF ConnectionInv, CallsSound, Unbegun
<1>4. ClosingSound'
  BY <1>0 DEF ConnectionInv, ClosingSound, Current, Ended
<1> QED
  BY <1>1, <1>2, <1>3, <1>4 DEF ConnectionInv

\* execute(), getMetadata(), commit() or rollback()
LEMMA CallKeeps ==
  ASSUME ConnectionInv, NEW c \in Callers, Call(c)
  PROVE  ConnectionInv'
<1>0. callers \in [Callers -> CallerSet]
  BY ConnectionTypes DEF ConnectionInv
<1>1. opening = "done" /\ closing.at = "off" /\ UNCHANGED <<sessionVars, state, cycle, closing>>
  BY DEF Call, ConnectionInv, ClosingSound
<1>2. PICK op \in {"execute", "metadata", "control"}, at \in {"metadata", "admitted"} :
        /\ op = "control" => at = "admitted"
        /\ callers' = [callers EXCEPT ![c] = [op |-> op, at |-> at, cycle |-> 0]]
  BY DEF Call
<1> DEFINE r == [op |-> op, at |-> at, cycle |-> 0]
<1>3. r \in CallerSet /\ r.at = at /\ r.op = op
  BY RoutesAssumption DEF CallerSet
<1>4. callers' = [callers EXCEPT ![c] = r]
  BY <1>2
<1> HIDE DEF r
<1>5. /\ callers' \in [Callers -> CallerSet] /\ callers'[c] = r
      /\ \A d \in Callers \ {c} : callers'[d] = callers[d]
  BY <1>0, <1>3, <1>4
<1>6. callers'[c].at = "metadata" => callers'[c].op # "control" /\ closing.at = "off"
  BY <1>1, <1>2, <1>3, <1>5
<1>7. callers'[c].at \notin {"waiting", "running"}
  BY <1>3, <1>5
<1> QED
  BY <1>1, <1>5, <1>6, <1>7, CallersKeep

\* The answer of a lookup of metadata
LEMMA MetadataAnsweredKeeps ==
  ASSUME ConnectionInv, NEW c \in Callers, MetadataAnswered(c)
  PROVE  ConnectionInv'
<1>0. callers \in [Callers -> CallerSet]
  BY ConnectionTypes DEF ConnectionInv
<1>1. opening = "done" /\ UNCHANGED <<sessionVars, state, cycle, closing>>
  BY CalledIsOpen DEF MetadataAnswered
<1>2. /\ callers' \in [Callers -> CallerSet] /\ callers'[c].at \in {"done", "admitted"}
      /\ \A d \in Callers \ {c} : callers'[d] = callers[d]
  BY <1>0, CallerFields DEF MetadataAnswered
<1> QED
  BY <1>1, <1>2, CallersKeep

\* A step of a call on a transaction: the transaction may go on, and the cycle
\* is forgotten only when it is over, or was over before it was ready.
LEMMA CycleKeeps ==
  ASSUME ConnectionInv, opening = "done", KeepsSession, UNCHANGED closing,
         NEW c \in Callers, callers' \in [Callers -> CallerSet],
         \A d \in Callers \ {c} : callers'[d] = callers[d],
         callers'[c].at # "metadata",
         callers'[c].at \in {"waiting", "running"} => callers'[c].cycle # 0,
         NEW t \in Transactions, tx' \in [Transactions -> TxSet],
         tx'[t].session = tx[t].session, tx'[t].ready = tx[t].ready,
         \A u \in Transactions \ {t} : tx'[u] = tx[u],
         tx'[t].phase # tx[t].phase =>
           /\ tx[t].phase \in {"active", "calling"}
           /\ tx'[t].phase \in {"active", "calling", "ending", "failing"},
         cycle' = cycle \/ (cycle' = 0 /\ cycle = t /\ (IsTerminal(t) \/ tx[t].ready = "failed")),
         state' = state \/ (state = "open" /\ state' = "failed")
  PROVE  ConnectionInv'
<1>0. UNCHANGED <<route, aborted, opening, attempts, lookup, session, redirect>>
  BY DEF KeepsSession
<1>1. ConnectionTypeOK
  BY DEF ConnectionInv
<1>2. ~Redirecting /\ lookup.at = "none" /\ Current # 0
  BY DEF ConnectionInv, OpeningSound, LookupSound, Redirecting
<1>3. tx'[t].phase = "none" <=> tx[t].phase = "none"
  OBVIOUS
<1>4. ConnectionTypeOK'
  <2>1. cycle' \in 0..MaxTransactions
    BY <1>1, ConnectionTypes, RoutesAssumption
  <2>2. state' \in {"open", "failed", "closing", "closed"}
    BY <1>1, ConnectionTypes
  <2> QED
    BY <1>0, <1>1, <2>1, <2>2 DEF ConnectionTypeOK, SessionTypeOK, TxSet, CallerSet
<1>5. OpeningSound' /\ LookupSound'
  BY <1>0, <1>1, <1>2, ConnectionTypes
  DEF ConnectionInv, OpeningSound, LookupSound, Current, Alive, Unbegun, Ended, Redirecting
<1>6. SessionsSound'
  BY <1>0, <1>1, <1>3, ConnectionTypes
  DEF ConnectionInv, SessionsSound, Current, Alive, Unbegun, Ended, Terminal, Over
<1>7. CallsSound'
  BY <1>0 DEF ConnectionInv, CallsSound
<1>8. ClosingSound'
  <2>1. \A u \in Transactions : tx'[u].phase \notin Terminal \cup {"none"} =>
          u = cycle' \/ (closing.at = "transaction" /\ u = closing.cycle)
    <3>1. \A u \in Transactions : tx'[u].phase \notin Terminal \cup {"none"} =>
            tx[u].phase \notin Terminal \cup {"none"}
      BY <1>3 DEF Terminal, Over
    <3>2. cycle' # cycle => tx[t].phase \in Terminal \cup {"none"} \/
                            (closing.at = "transaction" /\ t = closing.cycle)
      BY DEF ConnectionInv, SessionsSound, ClosingSound, IsTerminal, Ended, Unbegun, Terminal
    <3> QED
      BY <3>1, <3>2 DEF ConnectionInv, ClosingSound
  <2>2. \A u \in Transactions : tx'[u].session # 0 /\ tx'[u].ready = "failed" =>
          tx'[u].phase \in Over \/ (closing.at = "transaction" /\ u = closing.cycle)
    BY DEF ConnectionInv, ClosingSound, Ended, Over
  <2>3. tx'[1].session = tx[1].session
    BY <1>1, ConnectionTypes
  <2> QED
    BY <1>0, <2>1, <2>2, <2>3 DEF ConnectionInv, ClosingSound, Current, Ended
<1> QED
  BY <1>4, <1>5, <1>6, <1>7, <1>8 DEF ConnectionInv

\* The transaction takes a call or refuses it.
LEMMA IssueKeeps ==
  ASSUME ConnectionInv, opening = "done", KeepsSession, UNCHANGED closing,
         NEW c \in Callers, NEW t \in Transactions, Issue(c, t)
  PROVE  ConnectionInv'
<1>0. tx \in [Transactions -> TxSet] /\ callers \in [Callers -> CallerSet]
  BY ConnectionTypes DEF ConnectionInv
<1>1. CASE /\ tx[t].phase = "active"
           /\ tx' = [tx EXCEPT ![t].phase = IF callers[c].op = "execute" THEN "calling" ELSE "ending"]
           /\ callers' = [callers EXCEPT ![c].at = "running", ![c].cycle = t]
           /\ UNCHANGED <<state, cycle>>
  <2>1. PICK p \in {"calling", "ending"} : tx' = [tx EXCEPT ![t].phase = p]
    BY <1>1
  <2>2. /\ tx' \in [Transactions -> TxSet] /\ tx'[t].phase = p
        /\ tx'[t].session = tx[t].session /\ tx'[t].ready = tx[t].ready
        /\ \A u \in Transactions \ {t} : tx'[u] = tx[u]
    BY <1>0, <2>1, PhaseChanges DEF Phases
  <2>3. /\ callers' \in [Callers -> CallerSet] /\ callers'[c].at = "running"
        /\ callers'[c].cycle # 0 /\ \A d \in Callers \ {c} : callers'[d] = callers[d]
    <3>1. t # 0
      BY DEF Transactions
    <3> QED
      BY <1>0, <1>1, <3>1, CallerFields
  <2> QED
    BY <1>1, <2>2, <2>3, CycleKeeps
<1>2. CASE Observe(t) /\ CallerEnds(c) /\ UNCHANGED tx
  <2>1. /\ callers' \in [Callers -> CallerSet] /\ callers'[c].at = "done"
        /\ \A d \in Callers \ {c} : callers'[d] = callers[d]
    BY <1>0, <1>2, CallerFields
  <2>2. /\ cycle' = cycle \/ (cycle' = 0 /\ cycle = t /\ IsTerminal(t))
        /\ state' = state \/ (state = "open" /\ state' = "failed")
    BY <1>2 DEF Observe
  <2> QED
    BY <1>0, <1>2, <2>1, <2>2, CycleKeeps
<1> QED
  BY <1>1, <1>2 DEF Issue

\* #readyCycle and #ensureCycle
LEMMA TakesCycleKeeps ==
  ASSUME ConnectionInv, NEW c \in Callers, TakesCycle(c)
  PROVE  ConnectionInv'
<1>0. ConnectionTypeOK /\ tx \in [Transactions -> TxSet] /\ callers \in [Callers -> CallerSet]
  BY ConnectionTypes DEF ConnectionInv
<1>1. opening = "done" /\ ~aborted /\ Current \in Attempts /\ KeepsSession /\ UNCHANGED closing
  <2>1. opening = "done" /\ ~aborted /\ Current # 0 /\ KeepsSession /\ UNCHANGED closing
    BY CalledIsOpen DEF TakesCycle
  <2> QED
    BY <1>0, <2>1, ConnectionTypes DEF Current, TxSet, Attempts
<1>2. CASE CallerEnds(c) /\ UNCHANGED <<tx, state, cycle>>
  <2>1. /\ callers' \in [Callers -> CallerSet] /\ callers'[c].at = "done"
        /\ \A d \in Callers \ {c} : callers'[d] = callers[d]
    BY <1>0, <1>2, CallerFields
  <2> QED
    BY <1>0, <1>1, <1>2, <2>1, ConnectionTypes, CycleKeeps
<1>3. CASE cycle # 0 /\ Issue(c, cycle)
  BY <1>0, <1>1, <1>3, ConnectionTypes, RoutesAssumption, IssueKeeps DEF Transactions
<1>4. CASE /\ cycle # 0 /\ callers' = [callers EXCEPT ![c].at = "waiting", ![c].cycle = cycle]
           /\ UNCHANGED <<tx, state, cycle>>
  <2>1. cycle \in Transactions
    BY <1>0, <1>4, ConnectionTypes, RoutesAssumption DEF Transactions
  <2>2. /\ callers' \in [Callers -> CallerSet] /\ callers'[c].at = "waiting"
        /\ callers'[c].cycle # 0 /\ \A d \in Callers \ {c} : callers'[d] = callers[d]
    BY <1>0, <1>4, <2>1, CallerFields
  <2> QED
    BY <1>0, <1>1, <1>4, <2>1, <2>2, CycleKeeps
<1>5. ASSUME NEW t \in Transactions, state = "open", cycle = 0, tx[t] = NotBegun,
             tx' = [tx EXCEPT ![t] = Begun(Current)], cycle' = t,
             callers' = [callers EXCEPT ![c].at = "waiting", ![c].cycle = t],
             UNCHANGED state
      PROVE  ConnectionInv'
  <2>0. UNCHANGED <<route, aborted, opening, attempts, lookup, session, redirect, closing>>
    BY <1>1 DEF KeepsSession
  <2>1. t # 1 /\ tx[t].session = 0 /\ t # 0 /\ 0 \notin Transactions
    BY <1>1, <1>5 DEF NotBegun, Current, Attempts, Transactions
  <2>2. /\ tx' \in [Transactions -> TxSet] /\ tx'[t].session = Current
        /\ tx'[t].phase = "opening" /\ tx'[t].ready = "pending"
        /\ \A u \in Transactions \ {t} : tx'[u] = tx[u]
    BY <1>0, <1>1, <1>5, TxChanges, BegunFields
  <2>3. Current' = Current
    BY <1>0, <2>1, <2>2, ConnectionTypes DEF Current
  <2>4. /\ callers' \in [Callers -> CallerSet] /\ callers'[c].at = "waiting"
        /\ callers'[c].cycle # 0 /\ \A d \in Callers \ {c} : callers'[d] = callers[d]
    BY <1>0, <1>5, <2>1, CallerFields
  <2>5. closing.at = "off" /\ session[Current] \notin {"retiring", "retired"}
    BY <1>1, <1>5 DEF ConnectionInv, ClosingSound
  <2>6. ConnectionTypeOK'
    <3>1. cycle' \in 0..MaxTransactions
      BY <1>5, RoutesAssumption DEF Transactions
    <3> QED
      BY <1>0, <1>5, <2>0, <2>2, <2>4, <3>1, ConnectionTypes
      DEF ConnectionTypeOK, SessionTypeOK, TxSet, CallerSet
  <2>7. OpeningSound' /\ LookupSound'
    BY <1>0, <1>1, <2>0, <2>1, <2>2, <2>3, ConnectionTypes
    DEF ConnectionInv, OpeningSound, LookupSound, Alive, Unbegun, Ended, Redirecting
  <2>8. SessionsSound'
    BY <1>0, <1>1, <2>0, <2>1, <2>2, <2>3, <2>5, ConnectionTypes
    DEF ConnectionInv, SessionsSound, Alive, Unbegun, Ended, Terminal, Over, Attempts
  <2>9. CallsSound'
    BY <1>1, <2>0, <2>4 DEF ConnectionInv, CallsSound
  <2>10. ClosingSound'
    BY <1>1, <1>5, <2>0, <2>1, <2>2, <2>3, <2>5
    DEF ConnectionInv, ClosingSound, Ended, Over
  <2> QED
    BY <2>6, <2>7, <2>8, <2>9, <2>10 DEF ConnectionInv
<1> QED
  BY <1>2, <1>3, <1>4, <1>5 DEF TakesCycle

\* The transaction a call waits for is ready, or will never be.
LEMMA CycleSettlesKeeps ==
  ASSUME ConnectionInv, NEW c \in Callers, CycleSettles(c)
  PROVE  ConnectionInv'
<1> DEFINE t == callers[c].cycle
<1>0. tx \in [Transactions -> TxSet] /\ callers \in [Callers -> CallerSet]
  BY ConnectionTypes DEF ConnectionInv
<1>1. opening = "done" /\ t \in Transactions /\ KeepsSession /\ UNCHANGED closing
  BY CalledIsOpen DEF CycleSettles
<1>2. CASE Issue(c, t)
  BY <1>1, <1>2, IssueKeeps
<1>3. CASE /\ tx[t].ready = "failed" /\ CallerEnds(c) /\ UNCHANGED tx
           /\ cycle' = IF cycle = t THEN 0 ELSE cycle
           /\ state' = IF state = "open" THEN "failed" ELSE state
  <2>1. /\ callers' \in [Callers -> CallerSet] /\ callers'[c].at = "done"
        /\ \A d \in Callers \ {c} : callers'[d] = callers[d]
    BY <1>0, <1>3, CallerFields
  <2> HIDE DEF t
  <2> QED
    BY <1>0, <1>1, <1>3, <2>1, CycleKeeps
<1> QED
  BY <1>2, <1>3 DEF CycleSettles

\* The effect of a call is not known.
LEMMA CallLostKeeps ==
  ASSUME ConnectionInv, NEW c \in Callers, CallLost(c)
  PROVE  ConnectionInv'
<1> DEFINE t == callers[c].cycle
<1>0. tx \in [Transactions -> TxSet] /\ callers \in [Callers -> CallerSet]
  BY ConnectionTypes DEF ConnectionInv
<1>1. /\ opening = "done" /\ t \in Transactions /\ KeepsSession
      /\ callers[c].at = "running" /\ t # 0 /\ tx[t].phase = "calling"
      /\ tx' = [tx EXCEPT ![t].phase = "failing"]
      /\ UNCHANGED <<state, cycle, callers, closing>>
  BY CalledIsOpen DEF CallLost, connVars, Transactions
<1> HIDE DEF t
<1>2. /\ tx' \in [Transactions -> TxSet] /\ tx'[t].phase = "failing"
      /\ tx'[t].session = tx[t].session /\ tx'[t].ready = tx[t].ready
      /\ \A u \in Transactions \ {t} : tx'[u] = tx[u]
  BY <1>0, <1>1, PhaseChanges DEF Phases
<1> QED
  BY <1>0, <1>1, <1>2, CycleKeeps DEF t

\* A call or an end of a transaction is answered.
LEMMA AnsweredKeeps ==
  ASSUME ConnectionInv, NEW c \in Callers, Answered(c)
  PROVE  ConnectionInv'
<1> DEFINE t == callers[c].cycle
<1>0. tx \in [Transactions -> TxSet] /\ callers \in [Callers -> CallerSet]
  BY ConnectionTypes DEF ConnectionInv
<1>1. opening = "done" /\ t \in Transactions /\ KeepsSession /\ UNCHANGED closing /\ CallerEnds(c)
  BY CalledIsOpen DEF Answered
<1>2. /\ callers' \in [Callers -> CallerSet] /\ callers'[c].at = "done"
      /\ \A d \in Callers \ {c} : callers'[d] = callers[d]
  BY <1>0, <1>1, CallerFields
<1>3. \/ tx[t].phase = "calling" /\ tx' = [tx EXCEPT ![t].phase = "active"] /\ UNCHANGED <<state, cycle>>
      \/ Observe(t) /\ UNCHANGED tx
      \/ /\ tx[t].phase = "closed" /\ cycle' = IF cycle = t THEN 0 ELSE cycle
         /\ UNCHANGED <<state, tx>>
  BY DEF Answered
<1> HIDE DEF t
<1>4. CASE tx[t].phase = "calling" /\ tx' = [tx EXCEPT ![t].phase = "active"] /\ UNCHANGED <<state, cycle>>
  <2>1. /\ tx' \in [Transactions -> TxSet] /\ tx'[t].phase = "active"
        /\ tx'[t].session = tx[t].session /\ tx'[t].ready = tx[t].ready
        /\ \A u \in Transactions \ {t} : tx'[u] = tx[u]
    BY <1>0, <1>1, <1>4, PhaseChanges DEF Phases
  <2> QED
    BY <1>1, <1>2, <1>4, <2>1, CycleKeeps
<1>5. CASE Observe(t) /\ UNCHANGED tx
  <2>1. /\ cycle' = cycle \/ (cycle' = 0 /\ cycle = t /\ IsTerminal(t))
        /\ state' = state \/ (state = "open" /\ state' = "failed")
    BY <1>5 DEF Observe
  <2> QED
    BY <1>0, <1>1, <1>2, <1>5, <2>1, CycleKeeps
<1>6. CASE /\ tx[t].phase = "closed" /\ cycle' = IF cycle = t THEN 0 ELSE cycle
           /\ UNCHANGED <<state, tx>>
  <2>1. cycle' = cycle \/ (cycle' = 0 /\ cycle = t /\ IsTerminal(t))
    BY <1>6 DEF IsTerminal, Terminal, Over
  <2> QED
    BY <1>0, <1>1, <1>2, <1>6, <2>1, CycleKeeps
<1> QED
  BY <1>3, <1>4, <1>5, <1>6

(***************************************************************************)
(* The connection: close()                                                 *)
(***************************************************************************)
\* RFCConnection.close(), up to its first await
LEMMA CloseKeeps ==
  ASSUME ConnectionInv, Close
  PROVE  ConnectionInv'
<1>0. ConnectionTypeOK /\ tx \in [Transactions -> TxSet] /\ callers \in [Callers -> CallerSet]
  BY ConnectionTypes DEF ConnectionInv
<1>1. /\ opening = "done" /\ closing.at = "off" /\ state' = "closing" /\ Current # 0 /\ ~aborted
      /\ UNCHANGED <<route, aborted, opening, attempts, lookup, session, redirect, cycle, callers>>
  BY DEF ConnectionInv, OpeningSound, CallsSound, Close, KeepsSession
<1>2. /\ closing' \in [at : {"off", "transaction", "operations", "session", "over"},
                       cycle : 0..MaxTransactions, operations : SUBSET Callers]
      /\ closing'.at = "transaction" /\ closing'.cycle = cycle /\ closing'.operations = Operations
  BY <1>0, ConnectionTypes DEF Close, Operations, Active
<1>3. \A c \in Callers : callers[c].at = "metadata" => c \in Operations
  BY DEF ConnectionInv, CallsSound, Operations, Active
<1>4. /\ tx' \in [Transactions -> TxSet]
      /\ \A u \in Transactions :
           /\ tx'[u].session = tx[u].session
           /\ tx'[u].phase = tx[u].phase \/ (u = cycle /\ tx[u].phase \in {"opening", "active", "calling"}
                                                       /\ tx'[u].phase = "closing")
           /\ u # cycle => tx'[u] = tx[u]
  <2>1. CASE cycle = 0
    BY <1>0, <2>1 DEF Close
  <2>2. CASE cycle # 0
    <3>1. cycle \in Transactions
      BY <1>0, <2>2, ConnectionTypes, RoutesAssumption DEF Transactions
    <3> DEFINE r == ClosingOf(cycle)
    <3>2. /\ r \in TxSet /\ r.session = tx[cycle].session
          /\ r.phase = IF tx[cycle].phase \in {"opening", "active", "calling"}
                       THEN "closing" ELSE tx[cycle].phase
      BY <1>0, <3>1, ClosingFields
    <3>3. tx' = [tx EXCEPT ![cycle] = r]
      BY <2>2 DEF Close
    <3> HIDE DEF r
    <3>4. /\ tx' \in [Transactions -> TxSet] /\ tx'[cycle] = r
          /\ \A u \in Transactions \ {cycle} : tx'[u] = tx[u]
      BY <1>0, <3>1, <3>2, <3>3, TxChanges
    <3> QED
      BY <3>2, <3>4
  <2> QED
    BY <2>1, <2>2
<1>5. ConnectionTypeOK'
  BY <1>0, <1>1, <1>2, <1>4, ConnectionTypes DEF ConnectionTypeOK, SessionTypeOK, TxSet, CallerSet
<1>6. OpeningSound' /\ LookupSound'
  BY <1>0, <1>1, <1>4, ConnectionTypes
  DEF ConnectionInv, OpeningSound, LookupSound, Current, Alive, Unbegun, Ended, Redirecting
<1>7. session[Current] \notin {"retiring", "retired"}
  BY <1>1 DEF ConnectionInv, ClosingSound
<1>8. SessionsSound'
  <2>1. \A u \in Transactions : tx[u].session # 0 /\ session[tx[u].session] = "retiring" =>
          tx[u].phase \in Terminal /\ tx'[u].phase = tx[u].phase
    BY <1>4 DEF ConnectionInv, SessionsSound, Terminal, Over
  <2>2. \A u \in Transactions : tx[u].session # 0 /\ session[tx[u].session] = "retired" =>
          Ended(u) /\ tx'[u].phase = tx[u].phase
    BY <1>4 DEF ConnectionInv, SessionsSound, Ended, Over
  <2>3. \A u \in Transactions : tx'[u].phase = "none" <=> tx[u].phase = "none"
    BY <1>4
  <2> QED
    BY <1>0, <1>1, <1>4, <2>1, <2>2, <2>3, ConnectionTypes
    DEF ConnectionInv, SessionsSound, Current, Alive, Unbegun, Ended
<1>9. CallsSound'
  BY <1>1 DEF ConnectionInv, CallsSound
<1>10. ClosingSound'
  <2>1. Current' = Current
    BY <1>0, <1>4, ConnectionTypes DEF Current
  <2>2. \A u \in Transactions : tx'[u].phase \notin Terminal \cup {"none"} => u = cycle
    BY <1>1, <1>4 DEF ConnectionInv, ClosingSound, Terminal, Over
  <2>3. \A u \in Transactions : tx'[u].session # 0 /\ tx'[u].ready = "failed" =>
          tx'[u].phase \in Over \/ u = cycle
    BY <1>1, <1>4 DEF ConnectionInv, ClosingSound, Ended
  <2> QED
    BY <1>1, <1>2, <1>3, <1>7, <2>1, <2>2, <2>3 DEF ClosingSound, Ended
<1> QED
  BY <1>5, <1>6, <1>8, <1>9, <1>10 DEF ConnectionInv

\* finishClose(): the transaction, the operations, the session
LEMMA CloseGoesOnKeeps ==
  ASSUME ConnectionInv, CloseGoesOn
  PROVE  ConnectionInv'
<1>0. ConnectionTypeOK
  BY DEF ConnectionInv
<1>1. /\ closing.at # "off" /\ closing'.at # "off" /\ opening = "done" /\ state # "open"
      /\ Current # 0 /\ ~aborted /\ cycle \in {0, closing.cycle}
      /\ UNCHANGED <<route, aborted, opening, attempts, lookup, tx, redirect, callers>>
      /\ \A t \in Transactions : tx[t].phase = "none" <=> tx[t].session = 0
      /\ 0 \notin Transactions
  BY <1>0, ConnectionTypes
  DEF ConnectionInv, OpeningSound, CallsSound, ClosingSound, SessionsSound, Unbegun, CloseGoesOn,
      Transactions
<1>2. Current \in Attempts
  BY <1>0, <1>1, ConnectionTypes DEF Current, TxSet, Attempts
<1>3. CASE /\ closing.at = "transaction"
           /\ closing.cycle # 0 => tx[closing.cycle].phase \in Over
           /\ closing' = [closing EXCEPT !.at = "operations"]
           /\ cycle' = IF cycle = closing.cycle THEN 0 ELSE cycle
           /\ UNCHANGED <<session, state>>
  <2>1. /\ closing' \in [at : {"off", "transaction", "operations", "session", "over"},
                         cycle : 0..MaxTransactions, operations : SUBSET Callers]
        /\ closing'.at = "operations" /\ closing'.cycle = closing.cycle
        /\ closing'.operations = closing.operations /\ cycle' = 0
    BY <1>0, <1>1, <1>3, ConnectionTypes
  <2>2. ConnectionTypeOK'
    <3>1. 0 \in 0..MaxTransactions
      BY RoutesAssumption
    <3> QED
      BY <1>0, <1>1, <1>3, <2>1, <3>1 DEF ConnectionTypeOK, SessionTypeOK
  <2>3. OpeningSound' /\ LookupSound' /\ SessionsSound' /\ CallsSound'
    BY <1>1, <1>3 DEF ConnectionInv, OpeningSound, LookupSound, SessionsSound, CallsSound, Current,
       Alive, Unbegun, Ended, Redirecting
  <2>4. ClosingSound'
    <3>1. \A t \in Transactions : t = closing.cycle => Ended(t)
      BY <1>1, <1>3 DEF Ended
    <3>2. \A t \in Transactions : tx[t].phase \in Terminal \cup {"none"}
      BY <1>1, <1>3, <3>1 DEF ConnectionInv, ClosingSound, Ended, Terminal
    <3>3. \A t \in Transactions : tx[t].session # 0 /\ tx[t].ready = "failed" => Ended(t)
      BY <1>1, <3>1 DEF ConnectionInv, ClosingSound
    <3> QED
      BY <1>1, <1>3, <2>1, <3>2, <3>3 DEF ConnectionInv, ClosingSound, Current, Ended
  <2> QED
    BY <2>2, <2>3, <2>4 DEF ConnectionInv
<1>4. CASE /\ closing.at = "operations" /\ AdmittedAreOver
           /\ closing' = [closing EXCEPT !.at = "session"]
           /\ RetireSession(Current) /\ UNCHANGED <<cycle, state>>
  <2>1. /\ closing' \in [at : {"off", "transaction", "operations", "session", "over"},
                         cycle : 0..MaxTransactions, operations : SUBSET Callers]
        /\ closing'.at = "session" /\ closing'.cycle = closing.cycle
        /\ closing'.operations = closing.operations
    BY <1>0, <1>4, ConnectionTypes
  <2>2. /\ session' \in [Attempts -> {"none", "open", "retiring", "retired"}]
        /\ session'[Current] = IF session[Current] = "open" THEN "retiring" ELSE session[Current]
        /\ \A r \in Attempts \ {Current} : session'[r] = session[r]
    BY <1>0, <1>2, <1>4, ConnectionTypes, SessionRetires
  <2>3. cycle = 0 /\ \A t \in Transactions : tx[t].session # 0 => tx[t].phase \in Terminal
    BY <1>1, <1>4 DEF ConnectionInv, ClosingSound
  <2>4. \A c \in Callers : callers[c].at # "metadata"
    BY <1>1, <1>4 DEF ConnectionInv, ClosingSound, AdmittedAreOver, Active
  <2>5. ConnectionTypeOK'
    BY <1>0, <1>1, <1>4, <2>1, <2>2 DEF ConnectionTypeOK, SessionTypeOK
  <2>6. OpeningSound' /\ LookupSound'
    BY <1>0, <1>1, <2>1, <2>2, ConnectionTypes
    DEF ConnectionInv, OpeningSound, LookupSound, Current, Alive, Unbegun, Ended, Redirecting
  <2>7. SessionsSound'
    BY <1>0, <1>1, <1>2, <2>2, <2>3, ConnectionTypes
    DEF ConnectionInv, SessionsSound, Current, Alive, Unbegun, Ended, TxSet, Attempts
  <2>8. CallsSound' /\ ClosingSound'
    BY <1>1, <1>4, <2>1, <2>3, <2>4
    DEF ConnectionInv, CallsSound, ClosingSound, Current, Unbegun, Ended, Terminal
  <2> QED
    BY <2>5, <2>6, <2>7, <2>8 DEF ConnectionInv
<1>5. CASE /\ closing.at = "session" /\ session[Current] = "retired"
           /\ closing' = [closing EXCEPT !.at = "over"]
           /\ state' \in {"closed", "failed"} /\ UNCHANGED <<session, cycle>>
  <2>1. /\ closing' \in [at : {"off", "transaction", "operations", "session", "over"},
                         cycle : 0..MaxTransactions, operations : SUBSET Callers]
        /\ closing'.at = "over" /\ closing'.cycle = closing.cycle
        /\ closing'.operations = closing.operations
    BY <1>0, <1>5, ConnectionTypes
  <2>2. ConnectionTypeOK'
    BY <1>0, <1>1, <1>5, <2>1 DEF ConnectionTypeOK, SessionTypeOK
  <2>3. OpeningSound' /\ LookupSound' /\ SessionsSound' /\ CallsSound'
    BY <1>1, <1>5 DEF ConnectionInv, OpeningSound, LookupSound, SessionsSound, CallsSound, Current,
       Alive, Unbegun, Ended, Redirecting
  <2>4. ClosingSound'
    BY <1>1, <1>5, <2>1 DEF ConnectionInv, ClosingSound, Current, Ended
  <2> QED
    BY <2>2, <2>3, <2>4 DEF ConnectionInv
<1> QED
  BY <1>1, <1>3, <1>4, <1>5 DEF CloseGoesOn

(***************************************************************************)
(* The connection: the theorems                                            *)
(***************************************************************************)
\* RFCClient before open()
LEMMA ConnectionBegins ==
  ASSUME ConnectionInit
  PROVE  ConnectionInv
<1>1. /\ tx \in [Transactions -> TxSet]
      /\ \A t \in Transactions : tx[t].session = 0 /\ tx[t].phase = "none"
  BY RoutesAssumption DEF ConnectionInit, SessionInit, NotBegun, TxSet, Phases
<1>2. callers \in [Callers -> CallerSet] /\ \A c \in Callers : callers[c].at = "off"
  BY RoutesAssumption DEF ConnectionInit, NotCalled, CallerSet
<1>3. 1 \in Transactions /\ 1 \in 0..MaxTransactions /\ 0 \in 0..MaxTransactions /\ 0 \in 0..MaxAttempts
  BY RoutesAssumption DEF Transactions
<1>4. /\ closing \in [at : {"off", "transaction", "operations", "session", "over"},
                      cycle : 0..MaxTransactions, operations : SUBSET Callers]
      /\ closing.at = "off"
  BY <1>3 DEF ConnectionInit, NotClosing
<1>5. /\ route \in Routes /\ aborted = FALSE /\ opening = "idle" /\ attempts = 0
      /\ lookup \in [at : {"none", "service", "connecting", "over"} \cup Connected,
                     verdict : {"ok", "retryable", "fatal"}]
      /\ redirect \in [at : {"none", "transaction", "session", "lookup", "over"},
                       of : Transactions]
      /\ lookup.at = "none" /\ redirect.at = "none" /\ redirect.of = 1
      /\ session = [s \in Attempts |-> "none"] /\ state = "open" /\ cycle = 1
  BY <1>3 DEF ConnectionInit, SessionInit, NoLookup, NoRedirect
<1>6. ConnectionTypeOK
  BY <1>1, <1>2, <1>3, <1>4, <1>5 DEF ConnectionTypeOK, SessionTypeOK, TxSet, CallerSet
<1>7. OpeningSound /\ LookupSound
  BY <1>1, <1>3, <1>4, <1>5 DEF OpeningSound, LookupSound, Current, Alive, Unbegun, Redirecting
<1>8. SessionsSound /\ CallsSound /\ ClosingSound
  BY <1>1, <1>2, <1>4, <1>5 DEF SessionsSound, CallsSound, ClosingSound, Alive, Unbegun
<1> QED
  BY <1>6, <1>7, <1>8 DEF ConnectionInv

\* No step of the session, of a call or of close() breaks the invariant.
LEMMA ConnectionKeeps ==
  ASSUME ConnectionInv, [ConnectionNext]_connectionVars
  PROVE  ConnectionInv'
<1>1. CASE Proceeds
  BY <1>1, SessionProceedsKeeps, MetadataAnsweredKeeps, TakesCycleKeeps, CycleSettlesKeeps,
     CallLostKeeps, AnsweredKeeps, CloseGoesOnKeeps DEF Proceeds
<1>2. CASE (Open \/ Abort) /\ UNCHANGED connVars
  BY <1>2, OpenKeeps, AbortKeeps
<1>3. CASE \E c \in Callers : Call(c)
  BY <1>3, CallKeeps
<1>4. CASE Close
  BY <1>4, CloseKeeps
<1>5. CASE UNCHANGED connectionVars
  <2>1. UNCHANGED <<route, aborted, opening, attempts, lookup, session, tx, redirect,
                    state, cycle, callers, closing>>
    BY <1>5 DEF connectionVars, sessionVars, connVars
  <2> QED
    BY <2>1 DEF ConnectionInv, ConnectionTypeOK, SessionTypeOK, OpeningSound, LookupSound,
       SessionsSound, CallsSound, ClosingSound, Current, Alive, Unbegun, Ended, Redirecting
<1> QED
  BY <1>1, <1>2, <1>3, <1>4, <1>5 DEF ConnectionNext

\* The inductive invariant of the connection and its session, whatever the
\* number of calls, of transactions and of attempts
THEOREM ConnectionInvariant == ConnectionSpec => []ConnectionInv
<1>1. ConnectionInit => ConnectionInv
  BY ConnectionBegins
<1>2. ConnectionInv /\ [ConnectionNext]_connectionVars => ConnectionInv'
  BY ConnectionKeeps
<1> QED
  BY <1>1, <1>2, PTL DEF ConnectionSpec

\* There is one partner at a time: at most one session or one transport of the
\* message server is open, and once open() has resolved nothing looks for
\* another server and every unit of work is on the session it has found.
THEOREM OneServer == ConnectionSpec => []OnePartner
<1>1. ConnectionInv => OnePartner
  <2> SUFFICES ASSUME ConnectionInv PROVE OnePartner
    OBVIOUS
  <2> DEFINE alive == {s \in Attempts : session[s] \in {"open", "retiring"}}
  <2>1. alive \subseteq {Current}
    BY DEF ConnectionInv, SessionsSound, Alive
  <2>2. Cardinality(alive) = 0 \/ Cardinality(alive) = 1
    <3>1. alive = {} \/ alive = {Current}
      BY <2>1
    <3>2. Cardinality({}) = 0 /\ Cardinality({Current}) = 1
      BY FS_EmptySet, FS_Singleton
    <3> HIDE DEF alive
    <3> QED
      BY <3>1, <3>2
  <2>3. lookup.at \in Connected => Cardinality(alive) = 0
    <3>1. ASSUME lookup.at \in Connected PROVE alive = {}
      BY <3>1 DEF ConnectionInv, LookupSound, Alive, Connected
    <3> HIDE DEF alive
    <3> QED
      BY <3>1, FS_EmptySet
  <2>4. opening = "done" =>
          /\ ~Redirecting /\ lookup.at = "none"
          /\ \A t \in Transactions \ {1} : tx[t].session \in {0, Current}
    BY DEF ConnectionInv, LookupSound, SessionsSound, Redirecting
  <2> HIDE DEF alive
  <2>5. Cardinality(alive) + (IF lookup.at \in Connected THEN 1 ELSE 0) <= 1
    BY <2>2, <2>3
  <2> QED
    BY <2>4, <2>5 DEF OnePartner, ConnectionInv, alive
<1> QED
  BY <1>1, ConnectionInvariant, PTL

\* When open() has rejected or close() has settled, no session and no unit of
\* work is left; and a session goes after the work and the operations on it.
THEOREM ConnectionLeavesNothing == ConnectionSpec => []NothingLeft
<1>1. ConnectionInv => NothingLeft
  <2> SUFFICES ASSUME ConnectionInv PROVE NothingLeft
    OBVIOUS
  <2>0. /\ \A s \in Attempts : session[s] \in {"none", "open", "retiring", "retired"}
        /\ \A t \in Transactions : tx[t].session \in 0..MaxAttempts /\ tx[t].phase \in Phases
        /\ 0 \notin Attempts /\ 1 \in Transactions
    <3>1. /\ tx \in [Transactions -> TxSet] /\ 1 \in Transactions
          /\ session \in [Attempts -> {"none", "open", "retiring", "retired"}]
      BY ConnectionTypes DEF ConnectionInv
    <3>2. \A t \in Transactions : tx[t].session \in 0..MaxAttempts /\ tx[t].phase \in Phases
      BY <3>1 DEF TxSet
    <3> QED
      BY <3>1, <3>2 DEF Attempts
  <2>1. ASSUME opening = "rejected"
        PROVE  /\ \A s \in Attempts : session[s] \in {"none", "retired"}
               /\ \A t \in Transactions : tx[t].phase \in Over \cup {"none"}
    BY <2>0, <2>1
    DEF ConnectionInv, OpeningSound, SessionsSound, CallsSound, Alive, Unbegun, Ended
  <2>2. ASSUME closing.at = "over"
        PROVE  /\ \A s \in Attempts : session[s] \in {"none", "retired"}
               /\ \A t \in Transactions : tx[t].phase \in Over \cup {"none"}
    <3>1. session[Current] = "retired" /\ opening = "done" /\ Current # 0 /\ cycle = 0
      BY <2>2 DEF ConnectionInv, OpeningSound, CallsSound, ClosingSound
    <3>2. \A s \in Attempts : session[s] \in {"none", "retired"}
      BY <2>0, <3>1 DEF ConnectionInv, SessionsSound, Alive
    <3>3. \A t \in Transactions : tx[t].session # 0 /\ session[tx[t].session] = "retired" => Ended(t)
      BY DEF ConnectionInv, SessionsSound
    <3>4. Ended(1)
      BY <2>0, <3>1, <3>3 DEF Current
    <3>5. \A t \in Transactions \ {1} : tx[t].session = 0 \/ Ended(t)
      BY <3>1, <3>3 DEF ConnectionInv, SessionsSound
    <3> QED
      BY <3>2, <3>4, <3>5 DEF ConnectionInv, SessionsSound, Unbegun, Ended
  <2>3. ASSUME NEW s \in Attempts, session[s] \in {"retiring", "retired"}
        PROVE  /\ \A t \in Transactions : tx[t].session = s => tx[t].phase \in Terminal
               /\ opening = "done" /\ s = Current => \A c \in Callers : callers[c].at # "metadata"
    BY <2>0, <2>3 DEF ConnectionInv, SessionsSound, ClosingSound, Ended, Terminal
  <2> QED
    BY <2>1, <2>2, <2>3 DEF NothingLeft
<1> QED
  BY <1>1, ConnectionInvariant, PTL
=============================================================================
