--------------------------- MODULE SessionProofs ---------------------------
(***************************************************************************)
(* Theorems about the CPIC session, for any calls, requests of any number  *)
(* of records and any answers: the two sides of the conversation stay in   *)
(* step, and what a failure says of the transmission and of the connection *)
(* is so.                                                                  *)
(***************************************************************************)
EXTENDS CpicSession, SequenceTheorems, TLAPS

(***************************************************************************)
(* Types                                                                   *)
(***************************************************************************)
\* What is left of the scripts
Todos == {<<"logon">>, <<"ping">>, <<"reset", "refresh">>, <<"refresh">>, <<"function">>,
          <<"structure">>, <<"alias", "structure">>, <<"invoke">>, <<"structure", "invoke">>,
          <<"recursive", "structure", "invoke">>,
          <<"function", "recursive", "structure", "invoke">>}
FunctionNames == {"AsyncSendData", "SendData", "Receive", "SapSend", "Deallocate"}
Messages == Bodies \cup {None, "success", "unavailable", "callback"}

SessionSet == [state : States, opened : 1..5, closed : BOOLEAN, owner : Calls \cup {None},
               authenticated : BOOLEAN, id : BOOLEAN, cache : SUBSET Lookups]
RecordSet == [function : FunctionNames, rc : {"ok", "error", "deallocated"}, final : BOOLEAN,
              empty : BOOLEAN, known : BOOLEAN, body : Messages, epoch : Nat]
LinkSet == [up : BOOLEAN, inbox : Seq(RecordSet), outbox : Seq(FunctionNames)]
EntrySet == [call : Calls, step : Steps, size : Nat \ {0}, sent : Nat]
AnswerSet == [body : Messages, over : BOOLEAN, since : SUBSET Nat]
OutcomeSet == [disposition : Dispositions \cup {None}, transmission : Transmissions,
               exchange : Nat, reason : {None, "CM_DEALLOCATED_NORMAL"}]
CallRecords == [at : {"new", "next", "waiting", "answered", "decoded", "settled"},
            todo : Todos \cup {<<>>}, id : Nat, answer : AnswerSet \cup {None},
            outcome : OutcomeSet \cup {None}]
PeerSet == [at : {"listening", "collecting", "acknowledging", "serving", "gone", "confused"},
            stray : Nat]

(***************************************************************************)
(* The inductive invariant                                                 *)
(***************************************************************************)
\* The state in which a record leaves the conversation
StateAfter(function) ==
  CASE function = "AsyncSendData" -> "send-continuation"
    [] function = "SendData" -> "send-barrier-pending"
    [] OTHER -> "response-pending"

\* What has been given to the transport of exchange x, and where it stands
ExchangeFits(s, l, x, lg) ==
  /\ x.id = Len(lg) /\ x.id # 0 /\ lg[x.id].size = x.of
  /\ x.index < x.size
  /\ x.callbacks = 0 => x.size = x.of /\ lg[x.id].sent = x.index + 1
  /\ x.callbacks # 0 \/ x.at = "receiving" =>
       lg[x.id].sent = x.of /\ x.transmission = "Complete"
  /\ x.at = "sending" => s.state = StateAfter(Function(x.index, x.size))
  /\ x.at = "acknowledged" =>
       Function(x.index, x.size) = "SendData" /\ s.state = "send-barrier-pending"
  /\ x.at = "receiving" => s.state = "response-pending"
  /\ s.closed => ~l.up
  /\ x.since \subseteq {x.id}
  /\ \A i \in DOMAIN l.inbox : l.inbox[i].epoch = x.id

Answering(call) == call.at \in {"answered", "decoded"}
\* An exchange of the past, and what is said of it
Past(x, lg, id) == id \in 1..Len(lg) /\ (x # None => id # x.id)
Honest(o, entry) ==
  /\ o.transmission = "NotStarted" => entry.sent = 0
  /\ o.transmission = "Partial" => entry.sent > 0
  /\ o.transmission = "Complete" => entry.sent = entry.size

CallFits(call, s, x, lg) ==
  /\ call.at \in {"new", "settled"} <=> call.todo = <<>>
  /\ ~Answering(call) => call.answer = None
  /\ call.at = "next" => Head(call.todo) # "reset"
  /\ call.at = "decoded" => Head(call.todo) \in Applied
  /\ Answering(call) =>
       /\ call.answer \in AnswerSet /\ call.answer.since = {call.id} /\ Past(x, lg, call.id)
       /\ lg[call.id].sent = lg[call.id].size
  /\ call.at = "settled" =>
       /\ call.outcome \in OutcomeSet
       /\ call.outcome.exchange # 0 =>
            Past(x, lg, call.outcome.exchange) /\ Honest(call.outcome, lg[call.outcome.exchange])
       /\ call.outcome.disposition \in {"close", "unknownClose"} => s.closed

CallsFit(s, l, x, cs, lg) ==
  /\ \A c \in Calls : CallFits(cs[c], s, x, lg)
  /\ \A c \in Calls : cs[c].at = "waiting" <=> x # None /\ c = x.call
  /\ x # None => cs[x.call].id = x.id
  \* one answer at a time, of a link without news
  /\ \A c, d \in Calls : Answering(cs[c]) /\ Answering(cs[d]) => c = d
  /\ (\E c \in Calls : Answering(cs[c])) =>
       /\ s.closed => s.state = "closed"
       /\ ~s.closed => l.up /\ l.inbox = <<>>

OwnerFits(s, x, cs, lg) ==
  /\ s.owner # None /\ x # None => x.call = s.owner
  /\ s.owner # None =>
       cs[s.owner].at \notin {"new", "settled"} /\ Head(cs[s.owner].todo) \in {"reset", "refresh"}
  /\ lg # <<>> /\ lg[Len(lg)].step = "reset" /\ cs[lg[Len(lg)].call].at # "settled" =>
       s.owner = lg[Len(lg)].call

LinkFits(s, l, x, cl) ==
  /\ s.closed => ~l.up \/ cl = "deallocating"
  /\ cl = "deallocating" => s.closed /\ x = None
  /\ ~l.up => l.inbox = <<>> /\ l.outbox = <<>>
  /\ s.state = "closed" => s.closed

HasOpened(s) == s.opened > 4
OpeningFits(s, l, x, cs, lg, cl, p) ==
  IF HasOpened(s) THEN ~s.closed /\ x = None => s.state = "ready"
  ELSE /\ x = None /\ lg = <<>> /\ cl = None /\ s.owner = None
       /\ \A c \in Calls : cs[c].at = "new"
       /\ l.inbox = <<>> /\ l.outbox = <<>> /\ p.at = "listening"
       /\ ~s.closed => s.state = <<"new", "new", "initialized", "partner-set">>[s.opened]

SessionOf(s, l, x, cs, lg, cl, p) ==
  /\ x # None => ExchangeFits(s, l, x, lg)
  /\ CallsFit(s, l, x, cs, lg) /\ OwnerFits(s, x, cs, lg)
  /\ LinkFits(s, l, x, cl) /\ OpeningFits(s, l, x, cs, lg, cl, p)

\* The records of a request: asynchronous ones, and one that ends them
AllBut(q, n, F) == \A i \in 1..(Len(q) - n) : q[i] \in F
Request(l, p, last) ==
  /\ l.inbox = <<>> /\ l.outbox # <<>>
  /\ AllBut(l.outbox, 1, {"AsyncSendData"}) /\ l.outbox[Len(l.outbox)] = last
  /\ p.at \in {"listening", "collecting"} /\ (p.at = "listening" => Len(l.outbox) > 1)
Part == {r \in RecordSet : r.rc = "ok" /\ ~r.final /\ r.function \in DataFunctions}
Whole == {r \in RecordSet : r.rc = "ok" /\ r.final /\ r.function \in DataFunctions}
Last == {r \in RecordSet : r.rc \in {"deallocated", "error"}}
\* Whose turn it is, as long as the peer sends what it was asked for
TurnFits(s, l, p) ==
  /\ p.at # "confused"
  /\ l.up =>
       CASE s.state = "closed" ->
              \/ l.outbox = <<"Deallocate">> /\ p.at = "listening"
              \/ l.outbox = <<>> /\ p.at = "gone"
         [] s.state = "send-continuation" ->
              /\ l.inbox = <<>> /\ AllBut(l.outbox, 0, {"AsyncSendData"})
              /\ p.at \in {"listening", "collecting"} /\ (p.at = "listening" => l.outbox # <<>>)
         [] s.state = "send-barrier-pending" ->
              \/ Request(l, p, "SendData")
              \/ l.outbox = <<>> /\ l.inbox = <<>> /\ p.at = "acknowledging"
              \/ l.outbox = <<>> /\ Len(l.inbox) = 1 /\ p.at = "collecting"
         [] s.state = "response-pending" ->
              \/ Request(l, p, "Receive")
              \/ l.outbox = <<"SapSend">> /\ l.inbox = <<>> /\ p.at = "listening"
              \/ l.outbox = <<>> /\ p.at = "serving" /\ AllBut(l.inbox, 0, Part)
              \/ /\ l.outbox = <<>> /\ l.inbox # <<>> /\ AllBut(l.inbox, 1, Part)
                 /\ \/ p.at = "listening" /\ l.inbox[Len(l.inbox)] \in Whole
                    \/ p.at = "gone" /\ l.inbox[Len(l.inbox)] \in Last
         [] OTHER -> l.inbox = <<>> /\ l.outbox = <<>> /\ p.at = "listening"

Typed(s, l, x, cs, lg, cl, p) ==
  /\ s \in SessionSet /\ l \in LinkSet /\ x \in Exchanges \cup {None}
  /\ cs \in [Calls -> CallRecords] /\ lg \in Seq(EntrySet)
  /\ cl \in {None, "deallocating", "done"} /\ p \in PeerSet

Inv(s, l, x, cs, lg, cl, p) ==
  /\ Typed(s, l, x, cs, lg, cl, p) /\ SessionOf(s, l, x, cs, lg, cl, p)
  /\ p.stray = 0 => TurnFits(s, l, p)
CpicInv == Inv(session, link, exchange, calls, log, closing, peer)

(***************************************************************************)
(* Sequences                                                               *)
(***************************************************************************)
\* A record at the end of a queue
LEMMA Queued ==
  ASSUME NEW S, NEW q \in Seq(S), NEW e \in S
  PROVE  /\ Append(q, e) \in Seq(S) /\ Append(q, e) # <<>> /\ Len(Append(q, e)) = Len(q) + 1
         /\ Len(q) \in Nat /\ DOMAIN Append(q, e) = 1..(Len(q) + 1)
         /\ \A i \in 1..Len(q) : Append(q, e)[i] = q[i]
         /\ Append(q, e)[Len(q) + 1] = e
BY AppendProperties, LenProperties, EmptySeq

\* The first record of a queue, and what stays
LEMMA Taken ==
  ASSUME NEW S, NEW q \in Seq(S), q # <<>>
  PROVE  /\ Head(q) \in S /\ Head(q) = q[1] /\ Tail(q) \in Seq(S) /\ Len(q) \in Nat \ {0}
         /\ Len(Tail(q)) = Len(q) - 1 /\ DOMAIN Tail(q) = 1..(Len(q) - 1)
         /\ \A i \in 1..(Len(q) - 1) : Tail(q)[i] = q[i + 1]
         /\ Tail(q) = <<>> <=> Len(q) = 1
<1>1. Tail(q) \in Seq(S) /\ Len(Tail(q)) = Len(q) - 1
  BY HeadTailProperties
<1>2. Len(q) \in Nat \ {0}
  BY EmptySeq
<1>3. \A r \in Seq(S) : r = <<>> <=> Len(r) = 0
  BY EmptySeq
<1>4. Tail(q) = <<>> <=> Len(Tail(q)) = 0
  BY <1>1, <1>3
<1>4a. Len(Tail(q)) = 0 <=> Len(q) = 1
  BY <1>1, <1>2
<1>5. DOMAIN Tail(q) = 1..(Len(q) - 1)
  BY <1>1, LenProperties
<1>6. Head(q) \in S /\ Head(q) = q[1] /\ \A i \in 1..Len(Tail(q)) : Tail(q)[i] = q[i + 1]
  BY HeadTailProperties
<1> QED
  BY <1>1, <1>2, <1>4, <1>4a, <1>5, <1>6

\* Records of one kind, and another one after them
LEMMA QueuedAllBut ==
  ASSUME NEW S, NEW q \in Seq(S), NEW e \in S, NEW F
  PROVE  /\ AllBut(q, 0, F) => AllBut(Append(q, e), 1, F)
         /\ AllBut(q, 0, F) /\ e \in F => AllBut(Append(q, e), 0, F)
<1> DEFINE r == Append(q, e)
<1>1. /\ Len(r) = Len(q) + 1 /\ Len(q) \in Nat /\ r[Len(q) + 1] = e
      /\ \A i \in 1..Len(q) : r[i] = q[i]
  BY Queued
<1> HIDE DEF r
<1>2. AllBut(q, 0, F) => AllBut(r, 1, F)
  BY <1>1 DEF AllBut
<1>3. AllBut(q, 0, F) /\ e \in F => AllBut(r, 0, F)
  BY <1>1 DEF AllBut
<1> QED
  BY <1>2, <1>3 DEF r

\* Records of one kind, without the first
LEMMA TakenAllBut ==
  ASSUME NEW S, NEW q \in Seq(S), q # <<>>, NEW F, NEW n \in Nat
  PROVE  /\ AllBut(q, n, F) => AllBut(Tail(q), n, F)
         /\ AllBut(q, n, F) /\ Len(q) > n => Head(q) \in F
<1> DEFINE r == Tail(q)
<1>1. /\ Len(r) = Len(q) - 1 /\ Len(q) \in Nat \ {0} /\ Head(q) = q[1]
      /\ \A i \in 1..(Len(q) - 1) : r[i] = q[i + 1]
  BY Taken
<1> HIDE DEF r
<1>2. AllBut(q, n, F) => AllBut(r, n, F)
  <2> SUFFICES ASSUME AllBut(q, n, F), NEW i \in 1..(Len(r) - n) PROVE r[i] \in F
    BY DEF AllBut
  <2>1. i \in 1..(Len(q) - 1) /\ i + 1 \in 1..(Len(q) - n)
    BY <1>1
  <2> QED
    BY <2>1, <1>1 DEF AllBut
<1>3. AllBut(q, n, F) /\ Len(q) > n => Head(q) \in F
  BY <1>1 DEF AllBut
<1> QED
  BY <1>2, <1>3 DEF r

(***************************************************************************)
(* The conversation and the failures                                       *)
(***************************************************************************)
\* The functions of a request follow the states of the conversation.
LEMMA FunctionFacts ==
  ASSUME NEW i \in Nat, NEW n \in Nat \ {0}, i < n
  PROVE  /\ Function(i, n) \in FunctionNames \ {"Deallocate"}
         /\ i = 0 => /\ Function(i, n) \in {"SapSend", "AsyncSendData"}
                     /\ Sent("ready", Function(i, n)) = StateAfter(Function(i, n))
         /\ i > 0 => /\ Function(i, n) \in {"AsyncSendData", "SendData", "Receive"}
                     /\ Sent("send-continuation", Function(i, n)) = StateAfter(Function(i, n))
         /\ Function(i, n) \in {"AsyncSendData", "SendData"} => i + 1 < n
         /\ i + 1 < n => Function(i, n) \in {"AsyncSendData", "SendData"}
         /\ StateAfter(Function(i, n)) \in States
<1>1. /\ Function(i, n) \in FunctionNames \ {"Deallocate"}
      /\ i = 0 => Function(i, n) \in {"SapSend", "AsyncSendData"}
      /\ i > 0 => Function(i, n) \in {"AsyncSendData", "SendData", "Receive"}
      /\ Function(i, n) \in {"AsyncSendData", "SendData"} => i + 1 < n
      /\ i + 1 < n => Function(i, n) \in {"AsyncSendData", "SendData"}
  BY ConversationAssumption DEF Function, FunctionNames
<1> DEFINE f == Function(i, n)
<1> HIDE DEF f
<1>2. f \in {"SapSend", "AsyncSendData"} => Sent("ready", f) = StateAfter(f)
  BY DEF Sent, StateAfter
<1>3. f \in {"AsyncSendData", "SendData", "Receive"} => Sent("send-continuation", f) = StateAfter(f)
  BY DEF Sent, StateAfter
<1>4. StateAfter(f) \in States
  BY DEF StateAfter, States
<1> QED
  BY <1>1, <1>2, <1>3, <1>4 DEF f

\* What is caught around an exchange is never reusable.
LEMMA FailureFacts ==
  ASSUME NEW category, NEW origin, NEW phase, NEW transmission \in Transmissions, NEW id \in Nat
  PROVE  LET f == Failure(category, origin, phase, transmission, id) IN
         /\ f \in OutcomeSet /\ f.exchange = id /\ f.transmission = transmission
         /\ f.disposition \in Dispositions
         /\ category \in {"Canceled", "Timeout", "Communication", "MalformedProtocol", "Logon",
                          "AbapMessage", "AbapRuntime"} => f.disposition # "reusable"
         /\ category = "Communication" => f.disposition = "close"
         /\ origin # "sap" /\ transmission = "Complete" => f.disposition # "reusable"
<1> DEFINE g == [category |-> category, origin |-> origin, phase |-> phase,
                 transmission |-> transmission, established |-> session.authenticated]
<1> DEFINE f == [disposition |-> Disposition(g), transmission |-> transmission,
                 exchange |-> id, reason |-> None]
<1>1. Failure(category, origin, phase, transmission, id) = f
  BY DEF Failure
<1>2. Disposition(g) \in Dispositions
  BY DEF Disposition, Dispositions
<1>3. category \in {"Canceled", "Timeout", "Communication", "MalformedProtocol", "Logon",
                    "AbapMessage", "AbapRuntime"} => Disposition(g) # "reusable"
  BY DEF Disposition, Reusable, Local
<1>4. category = "Communication" => Disposition(g) = "close"
  BY DEF Disposition, Reusable, Local, Remote
<1>5. origin # "sap" /\ transmission = "Complete" => Disposition(g) # "reusable"
  BY DEF Disposition, Reusable
<1>6. f \in OutcomeSet
  BY <1>2 DEF OutcomeSet
<1> QED
  BY <1>1, <1>2, <1>3, <1>4, <1>5, <1>6

\* What the catch of #exchange makes of an error
LEMMA CaughtFacts ==
  \A error : Caught(error) \in {"Canceled", "Timeout", "Communication", "MalformedProtocol"}
BY DEF Caught

\* The outcomes that carry no failure
LEMMA OutcomeFacts ==
  /\ Rejection \in OutcomeSet /\ Rejection.exchange = 0 /\ Rejection.disposition = None
  /\ \A id \in Nat :
       /\ Success(id) \in OutcomeSet /\ Success(id).exchange = id
       /\ Success(id).disposition = None /\ Success(id).transmission = "Complete"
BY DEF Rejection, Success, OutcomeSet, Transmissions

\* What remains of a script
LEMMA TodoFacts ==
  ASSUME NEW todo \in Todos
  PROVE  /\ todo # <<>> /\ Head(todo) \in Steps /\ Len(todo) \in Nat
         /\ Len(todo) > 1 => Tail(todo) \in Todos /\ Head(Tail(todo)) # "reset"
         /\ Head(todo) = "reset" => Len(todo) > 1 /\ Head(Tail(todo)) = "refresh"
         /\ Head(todo) # "reset" /\ Len(todo) > 1 =>
              Head(todo) \in {"alias", "function", "recursive", "structure"}
         /\ Head(todo) = "refresh" => Len(todo) = 1
         /\ Len(todo) > 1 /\ Head(Tail(todo)) = "refresh" => Head(todo) = "reset"
<1>1. CASE Len(todo) = 1
  BY <1>1 DEF Todos, Steps
<1>2. CASE todo = <<"reset", "refresh">>
  <2>1. Tail(todo) = <<"refresh">>
    BY <1>2
  <2> QED
    BY <1>2, <2>1 DEF Todos, Steps
<1>3. CASE todo = <<"structure", "invoke">>
  <2>1. Tail(todo) = <<"invoke">>
    BY <1>3
  <2> QED
    BY <1>3, <2>1 DEF Todos, Steps
<1>4. CASE todo = <<"recursive", "structure", "invoke">>
  <2>1. Tail(todo) = <<"structure", "invoke">>
    BY <1>4
  <2> QED
    BY <1>4, <2>1 DEF Todos, Steps
<1>5. CASE todo = <<"function", "recursive", "structure", "invoke">>
  <2>1. Tail(todo) = <<"recursive", "structure", "invoke">>
    BY <1>5
  <2> QED
    BY <1>5, <2>1 DEF Todos, Steps
<1>6. CASE todo = <<"alias", "structure">>
  <2>1. Tail(todo) = <<"structure">>
    BY <1>6
  <2> QED
    BY <1>6, <2>1 DEF Todos, Steps
<1> QED
  BY <1>1, <1>2, <1>3, <1>4, <1>5, <1>6 DEF Todos

\* Every operation starts with a script, never in the middle of a reset.
LEMMA ScriptFacts ==
  /\ \A kind \in {"logon", "ping", "reset", "lookup", "structure", "alias", "call", "invoke"} :
       Script[kind] \in Todos /\ Head(Script[kind]) # "refresh"
BY DEF Script, Todos

(***************************************************************************)
(* The fields of the session, its link, its log and its calls              *)
(***************************************************************************)
\* A call gives up the session it owned.
LEMMA FreedFields ==
  ASSUME NEW s \in SessionSet, NEW c \in Calls
  PROVE  /\ Freed(s, c) \in SessionSet
         /\ Freed(s, c).owner = IF s.owner = c THEN None ELSE s.owner
         /\ Freed(s, c).state = s.state /\ Freed(s, c).opened = s.opened
         /\ Freed(s, c).closed = s.closed /\ Freed(s, c).cache = s.cache
<1>1. PICK o \in Calls \cup {None} : o = IF s.owner = c THEN None ELSE s.owner
  BY DEF SessionSet
<1>2. Freed(s, c) = [s EXCEPT !.owner = o]
  BY <1>1 DEF Freed, SessionSet
<1>3. /\ [s EXCEPT !.owner = o] \in SessionSet /\ [s EXCEPT !.owner = o].owner = o
      /\ \A f \in {"state", "opened", "closed", "cache"} : [s EXCEPT !.owner = o][f] = s[f]
  BY DEF SessionSet
<1> QED
  BY <1>1, <1>2, <1>3

\* #terminateGeneration()
LEMMA TerminatedFields ==
  ASSUME NEW s \in SessionSet
  PROVE  /\ Terminated(s) \in SessionSet /\ Terminated(s).closed
         /\ Terminated(s).owner = s.owner /\ Terminated(s).state = s.state
         /\ Terminated(s).opened = s.opened
<1> DEFINE t == [s EXCEPT !.closed = TRUE, !.id = FALSE, !.cache = {}]
<1>1. /\ t \in SessionSet /\ t.closed /\ t.owner = s.owner /\ t.state = s.state
      /\ t.opened = s.opened
  BY DEF SessionSet
<1>2. Terminated(s) = IF s.closed THEN s ELSE t
  BY DEF Terminated
<1> HIDE DEF t
<1> QED
  BY <1>1, <1>2

\* A link that is cut has nothing on it.
LEMMA LinkFields ==
  ASSUME NEW l \in LinkSet, NEW s
  PROVE  /\ Cut(l) \in LinkSet /\ ~Cut(l).up /\ Cut(l).inbox = <<>> /\ Cut(l).outbox = <<>>
         /\ LinkOf(s, l) = IF s.closed THEN l ELSE Cut(l)
BY EmptySeq DEF Cut, LinkOf, LinkSet

\* The first record of a new exchange
LEMMA LoggedNew ==
  ASSUME log \in Seq(EntrySet), NEW x \in Exchanges, NEW n \in Nat, x.id = Len(log) + 1
  PROVE  /\ Logged(x, n) \in Seq(EntrySet) /\ Len(Logged(x, n)) = x.id
         /\ \A i \in 1..Len(log) : Logged(x, n)[i] = log[i]
         /\ Logged(x, n)[x.id] = [call |-> x.call, step |-> x.step, size |-> x.of, sent |-> n]
<1> DEFINE e == [call |-> x.call, step |-> x.step, size |-> x.of, sent |-> n]
<1>1. e \in EntrySet
  BY DEF EntrySet, Exchanges
<1>2. Len(log) \in Nat
  BY LenProperties
<1>3. Logged(x, n) = Append(log, e)
  BY <1>2 DEF Logged
<1> HIDE DEF e
<1>4. /\ Append(log, e) \in Seq(EntrySet) /\ Len(Append(log, e)) = Len(log) + 1
      /\ \A i \in 1..Len(log) : Append(log, e)[i] = log[i]
      /\ Append(log, e)[Len(log) + 1] = e
  BY <1>1, Queued
<1> QED
  BY <1>3, <1>4 DEF e

\* Another record of the exchange that runs
LEMMA LoggedMore ==
  ASSUME log \in Seq(EntrySet), NEW x \in Exchanges, NEW n \in Nat,
         x.id = Len(log), x.id # 0
  PROVE  /\ Logged(x, n) \in Seq(EntrySet) /\ Len(Logged(x, n)) = Len(log)
         /\ \A i \in 1..Len(log) \ {x.id} : Logged(x, n)[i] = log[i]
         /\ Logged(x, n)[x.id].sent = log[x.id].sent + n
         /\ \A f \in {"call", "step", "size"} : Logged(x, n)[x.id][f] = log[x.id][f]
         /\ n = 0 => Logged(x, n) = log
<1>1. Len(log) \in Nat /\ x.id \in 1..Len(log) /\ log \in [1..Len(log) -> EntrySet]
  BY LenProperties
<1> DEFINE old == log[x.id]
           e == [call |-> old.call, step |-> old.step, size |-> old.size, sent |-> old.sent + n]
<1>2. old \in EntrySet /\ e \in EntrySet /\ [old EXCEPT !.sent = @ + n] = e
  <2>1. old \in EntrySet
    BY <1>1
  <2> HIDE DEF old
  <2>2. e \in EntrySet
    BY <2>1 DEF EntrySet
  <2>3. [old EXCEPT !.sent = @ + n] = e
    BY <2>1 DEF EntrySet
  <2> QED
    BY <2>1, <2>2, <2>3
<1> HIDE DEF e
<1>3. /\ e.sent = old.sent + n /\ (n = 0 => e = old)
      /\ \A f \in {"call", "step", "size"} : e[f] = old[f]
  <2> HIDE DEF old
  <2> QED
    BY <1>2 DEF EntrySet, e
<1>4. Logged(x, n) = [log EXCEPT ![x.id] = e]
  <2>1. ~(x.id > Len(log))
    BY <1>1
  <2>2. Logged(x, n) = [log EXCEPT ![x.id].sent = @ + n]
    BY <2>1 DEF Logged
  <2>3. [log EXCEPT ![x.id].sent = @ + n] = [log EXCEPT ![x.id] = [old EXCEPT !.sent = @ + n]]
    OBVIOUS
  <2> QED
    BY <1>2, <2>2, <2>3
<1>5. /\ [log EXCEPT ![x.id] = e] \in Seq(EntrySet)
      /\ Len([log EXCEPT ![x.id] = e]) = Len(log)
      /\ \A j \in 1..Len(log) : [log EXCEPT ![x.id] = e][j] = IF j = x.id THEN e ELSE log[j]
  BY <1>1, <1>2, ExceptSeq
<1>6. n = 0 => [log EXCEPT ![x.id] = e] = log
  BY <1>1, <1>3
<1> QED
  BY <1>1, <1>3, <1>4, <1>5, <1>6

\* A call that ended
LEMMA SettledFields ==
  ASSUME calls \in [Calls -> CallRecords], NEW c \in Calls, NEW o \in OutcomeSet
  PROVE  /\ Settled(c, o) \in [Calls -> CallRecords]
         /\ \A d \in Calls \ {c} : Settled(c, o)[d] = calls[d]
         /\ Settled(c, o)[c].at = "settled" /\ Settled(c, o)[c].todo = <<>>
         /\ Settled(c, o)[c].answer = None /\ Settled(c, o)[c].outcome = o
<1> DEFINE r == [NewCall EXCEPT !.at = "settled", !.outcome = o]
<1>1. /\ r \in CallRecords /\ r.at = "settled" /\ r.todo = <<>> /\ r.answer = None
      /\ r.outcome = o
  BY DEF NewCall, CallRecords
<1>2. Settled(c, o) = [calls EXCEPT ![c] = r]
  BY DEF Settled
<1> HIDE DEF r
<1> QED
  BY <1>1, <1>2

(***************************************************************************)
(* Calls that go on, and one that ends                                     *)
(***************************************************************************)
\* What is said of a call stays so while sessions close and the log grows.
LEMMA CallStays ==
  ASSUME NEW call, NEW s, NEW x, NEW lg, NEW s2, NEW x2, NEW lg2,
         CallFits(call, s, x, lg), s.closed => s2.closed,
         \A id : Past(x, lg, id) => Past(x2, lg2, id) /\ lg2[id] = lg[id]
  PROVE  CallFits(call, s2, x2, lg2)
<1>1. Answering(call) => /\ call.answer \in AnswerSet /\ call.answer.since = {call.id}
                         /\ Past(x2, lg2, call.id) /\ lg2[call.id].sent = lg2[call.id].size
  BY DEF CallFits
<1>2. call.at = "settled" /\ call.outcome.exchange # 0 =>
        /\ Past(x2, lg2, call.outcome.exchange)
        /\ Honest(call.outcome, lg2[call.outcome.exchange])
  BY DEF CallFits
<1>3. call.at = "settled" => /\ call.outcome \in OutcomeSet
                             /\ call.outcome.disposition \in {"close", "unknownClose"} => s2.closed
  BY DEF CallFits
<1> QED
  BY <1>1, <1>2, <1>3 DEF CallFits

\* What of the state the calls of an invariant state are about
Settles(s, l, x, cs, lg, c, o, s2, l2, x2, cs2, lg2) ==
  /\ s \in SessionSet /\ x \in Exchanges \cup {None} /\ lg \in Seq(EntrySet)
  /\ cs \in [Calls -> CallRecords] /\ o \in OutcomeSet
  /\ cs2 \in [Calls -> CallRecords] /\ \A d \in Calls \ {c} : cs2[d] = cs[d]
  /\ cs2[c].at = "settled" /\ cs2[c].todo = <<>> /\ cs2[c].answer = None /\ cs2[c].outcome = o
  /\ CallsFit(s, l, x, cs, lg) /\ OwnerFits(s, x, cs, lg)
  /\ Len(lg) \in Nat /\ Len(lg2) \in Nat /\ Len(lg) <= Len(lg2)
  /\ \A i \in 1..Len(lg) : lg2[i] = lg[i]
  /\ x2 = None \/ (x2 = x /\ lg2 = lg)
  /\ x # None /\ x2 # None => c # x.call
  /\ x # None /\ x2 = None => c = x.call
  /\ s.closed => s2.closed
  /\ s2.owner = IF s.owner = c THEN None ELSE s.owner
  /\ lg2 = lg \/ lg2[Len(lg2)].call = c
  /\ o.exchange # 0 => Past(x2, lg2, o.exchange) /\ Honest(o, lg2[o.exchange])
  /\ o.disposition \in {"close", "unknownClose"} => s2.closed
  /\ \/ s2.state = s.state /\ s2.closed = s.closed /\ l2 = l
     \/ \A d \in Calls \ {c} : ~Answering(cs[d])

\* A call that ends leaves the others as they were.
LEMMA EndFits ==
  ASSUME NEW s, NEW l, NEW x, NEW cs, NEW lg, NEW c \in Calls, NEW o,
         NEW s2, NEW l2, NEW x2, NEW cs2, NEW lg2,
         Settles(s, l, x, cs, lg, c, o, s2, l2, x2, cs2, lg2)
  PROVE  CallsFit(s2, l2, x2, cs2, lg2) /\ OwnerFits(s2, x2, cs2, lg2)
<1> DEFINE r == cs2[c]
<1>1. /\ r \in CallRecords /\ r.at = "settled" /\ r.todo = <<>> /\ r.answer = None
      /\ r.outcome = o
  BY DEF Settles
<1> HIDE DEF r
<1>3. /\ cs2 \in [Calls -> CallRecords] /\ cs2[c] = r
      /\ \A d \in Calls \ {c} : cs2[d] = cs[d]
  BY DEF Settles, r
<1>4. \A id : Past(x, lg, id) => Past(x2, lg2, id) /\ lg2[id] = lg[id]
  BY DEF Settles, Past
<1>5. \A d \in Calls : CallFits(cs2[d], s2, x2, lg2)
  <2>1. ASSUME NEW d \in Calls \ {c} PROVE CallFits(cs[d], s2, x2, lg2)
    <3>1. CallFits(cs[d], s, x, lg) /\ (s.closed => s2.closed)
      BY DEF Settles, CallsFit
    <3> QED
      BY <1>4, <3>1, CallStays
  <2>2. CallFits(r, s2, x2, lg2)
    BY <1>1 DEF Settles, CallFits, Answering
  <2> QED
    BY <1>3, <2>1, <2>2
<1>6. \A d \in Calls : cs2[d].at = "waiting" <=> x2 # None /\ d = x2.call
  BY <1>1, <1>3 DEF Settles, CallsFit
<1>7. x2 # None => cs2[x2.call].id = x2.id
  <2>1. x2 # None => x2 = x /\ x.call # c /\ x.call \in Calls
    <3>1. x2 # None => x2 = x /\ x \in Exchanges /\ x.call # c
      BY DEF Settles
    <3> QED
      BY <3>1 DEF Exchanges
  <2> QED
    BY <1>3, <2>1 DEF Settles, CallsFit
<1>8. ~Answering(r)
  BY <1>1 DEF Answering
<1>9. \A d, e \in Calls : Answering(cs2[d]) /\ Answering(cs2[e]) => d = e
  BY <1>3, <1>8 DEF Settles, CallsFit
<1>10. (\E d \in Calls : Answering(cs2[d])) =>
         /\ s2.closed => s2.state = "closed"
         /\ ~s2.closed => l2.up /\ l2.inbox = <<>>
  BY <1>3, <1>8 DEF Settles, CallsFit
<1>11. CallsFit(s2, l2, x2, cs2, lg2)
  BY <1>5, <1>6, <1>7, <1>9, <1>10 DEF CallsFit
<1>12. OwnerFits(s2, x2, cs2, lg2)
  <2>1. s2.owner # None /\ x2 # None => x2.call = s2.owner
    BY DEF Settles, OwnerFits
  <2>2. s2.owner # None => /\ cs2[s2.owner].at \notin {"new", "settled"}
                           /\ Head(cs2[s2.owner].todo) \in {"reset", "refresh"}
    <3>1. s2.owner # None => s2.owner = s.owner /\ s.owner \in Calls \ {c}
      BY DEF Settles, SessionSet
    <3>2. s.owner # None => /\ cs[s.owner].at \notin {"new", "settled"}
                            /\ Head(cs[s.owner].todo) \in {"reset", "refresh"}
      BY DEF Settles, OwnerFits
    <3> QED
      BY <1>3, <3>1, <3>2
  <2>3. ASSUME lg2 # <<>>, lg2[Len(lg2)].step = "reset", cs2[lg2[Len(lg2)].call].at # "settled"
        PROVE  s2.owner = lg2[Len(lg2)].call
    <3>1. lg2[Len(lg2)].call # c
      BY <1>1, <1>3, <2>3
    <3>2. lg2 = lg
      BY <3>1 DEF Settles
    <3>3. lg[Len(lg)] \in EntrySet
      BY <2>3, <3>2, EmptySeq, ElementOfSeq DEF Settles
    <3>4. lg[Len(lg)].call \in Calls \ {c}
      BY <3>1, <3>2, <3>3 DEF EntrySet
    <3>5. s.owner = lg[Len(lg)].call
      BY <1>3, <2>3, <3>2, <3>4 DEF Settles, OwnerFits
    <3> QED
      BY <3>2, <3>4, <3>5 DEF Settles
  <2> QED
    BY <2>1, <2>2, <2>3 DEF OwnerFits
<1> QED
  BY <1>11, <1>12

(***************************************************************************)
(* What each step leaves of the invariant, and what it may do              *)
(***************************************************************************)
ResetUnderWay ==
  log # <<>> /\ log[Len(log)].step = "reset" /\ calls[log[Len(log)].call].at # "settled"
\* A new exchange, as far as a reset under way allows it
MayFollow(c, step) == ResetUnderWay => step = "refresh" /\ c = log[Len(log)].call

Sound ==
  /\ session.closed => log' = log
  /\ Len(log') > Len(log) => MayFollow(log'[Len(log')].call, log'[Len(log')].step)
  /\ \A c \in Calls : /\ calls[c].at # "settled" /\ calls'[c].at = "settled"
                      /\ calls'[c].outcome.disposition = "reusable"
       => ~session'.closed
Kept == CpicInv' /\ Sound

\* The outcome of a call that ends
Ending(c, o) ==
  /\ o \in OutcomeSet /\ calls[c].at # "waiting"
  /\ o.exchange # 0 => Past(exchange, log, o.exchange) /\ Honest(o, log[o.exchange])
  /\ o.disposition \in {"close", "unknownClose"} => session'.closed
  /\ o.disposition = "reusable" => ~session'.closed

\* The invariant, part by part
LEMMA InvParts ==
  ASSUME CpicInv
  PROVE  /\ session \in SessionSet /\ link \in LinkSet /\ exchange \in Exchanges \cup {None}
         /\ calls \in [Calls -> CallRecords] /\ log \in Seq(EntrySet) /\ Len(log) \in Nat
         /\ closing \in {None, "deallocating", "done"} /\ peer \in PeerSet
         /\ exchange # None => ExchangeFits(session, link, exchange, log)
         /\ CallsFit(session, link, exchange, calls, log)
         /\ OwnerFits(session, exchange, calls, log) /\ LinkFits(session, link, exchange, closing)
         /\ OpeningFits(session, link, exchange, calls, log, closing, peer)
         /\ peer.stray = 0 => TurnFits(session, link, peer)
BY LenProperties DEF CpicInv, Inv, Typed, SessionOf

\* A call ends without a change of the exchange or the link.
LEMMA SettleKeeps ==
  ASSUME CpicInv, NEW c \in Calls, NEW o, Ending(c, o),
         calls' = Settled(c, o),
         session' \in SessionSet, session'.state = session.state,
         session'.opened = session.opened, session'.closed = session.closed,
         session'.owner = IF session.owner = c THEN None ELSE session.owner,
         UNCHANGED <<link, exchange, log, closing, peer>>, HasOpened(session)
  PROVE  Kept
<1>1. /\ calls' \in [Calls -> CallRecords] /\ \A d \in Calls \ {c} : calls'[d] = calls[d]
      /\ calls'[c].at = "settled" /\ calls'[c].todo = <<>> /\ calls'[c].answer = None
      /\ calls'[c].outcome = o
  BY SettledFields, InvParts DEF Ending
<1>2. Settles(session, link, exchange, calls, log, c, o, session', link, exchange, calls', log)
  <2>1. exchange # None => c # exchange.call
    BY InvParts DEF CallsFit, Ending
  <2> QED
    BY <1>1, <2>1, InvParts DEF Settles, Ending
<1>3. /\ CallsFit(session', link, exchange, calls', log)
      /\ OwnerFits(session', exchange, calls', log)
  BY <1>2, EndFits
<1>4. CpicInv'
  <2>1. exchange' # None => ExchangeFits(session', link', exchange', log')
    BY InvParts DEF ExchangeFits
  <2>2. LinkFits(session', link', exchange', closing')
    BY InvParts DEF LinkFits
  <2>3. OpeningFits(session', link', exchange', calls', log', closing', peer')
    BY InvParts DEF OpeningFits, HasOpened
  <2>4. peer'.stray = 0 => TurnFits(session', link', peer')
    BY InvParts DEF TurnFits
  <2> QED
    BY <1>1, <1>3, <2>1, <2>2, <2>3, <2>4, InvParts DEF CpicInv, Inv, Typed, SessionOf
<1>5. Sound
  BY <1>1, InvParts DEF Sound, Ending
<1> QED
  BY <1>4, <1>5 DEF Kept

\* What an exchange that fails has behind it: it runs, or it is a new one.
Failing(s, l, x, transmission) ==
  /\ s \in SessionSet /\ l \in LinkSet /\ x \in Exchanges /\ transmission \in Transmissions
  /\ HasOpened(s) /\ (session.closed => s.closed)
  /\ s.closed => ~l.up
  /\ ~l.up => l.inbox = <<>> /\ l.outbox = <<>>
  /\ \A c \in Calls : ~Answering(calls[c])
  /\ closing # "deallocating"
  /\ \/ /\ exchange # None /\ x.call = exchange.call /\ s.owner = session.owner
        /\ x.id = Len(log) /\ x.id # 0
        /\ Honest([transmission |-> transmission], log[x.id])
     \/ /\ exchange = None /\ x.id = Len(log) + 1
        /\ s.owner \in {session.owner, x.call} /\ session.owner \in {None, x.call}
        /\ transmission \in {"NotStarted", "Unknown"} /\ ~session.closed
        /\ MayFollow(x.call, x.step)

\* The catch of #exchange
LEMMA ExchangeFailsKeeps ==
  ASSUME CpicInv, NEW s, NEW l, NEW x, NEW error, NEW phase,
         NEW transmission, Failing(s, l, x, transmission),
         ExchangeFails(s, l, x, error, phase, transmission), UNCHANGED <<closing, peer>>
  PROVE  Kept
<1> DEFINE c == x.call
           o == Failure(Caught(error), "ni", phase, transmission, x.id)
<1>1. /\ c \in Calls /\ x.id \in Nat /\ x.of \in Nat \ {0} /\ x.step \in Steps
      /\ s \in SessionSet /\ l \in LinkSet
      /\ x \in Exchanges /\ transmission \in Transmissions
  BY DEF Failing, Exchanges
<1>2. /\ o \in OutcomeSet /\ o.exchange = x.id /\ o.transmission = transmission
      /\ o.disposition # "reusable"
  BY <1>1, FailureFacts, CaughtFacts
<1> HIDE DEF o
<1>3. /\ calls' = Settled(c, o) /\ session' = Freed(Terminated(s), c) /\ link' = LinkOf(s, l)
      /\ exchange' = None /\ log' = Logged(x, 0)
  BY DEF ExchangeFails, o
<1>4. /\ session' \in SessionSet /\ session'.closed /\ session'.opened = s.opened
      /\ session'.state = s.state
      /\ session'.owner = IF s.owner = c THEN None ELSE s.owner
  <2>1. /\ Terminated(s) \in SessionSet /\ Terminated(s).closed
        /\ Terminated(s).owner = s.owner /\ Terminated(s).state = s.state
        /\ Terminated(s).opened = s.opened
    BY <1>1, TerminatedFields
  <2> QED
    BY <1>1, <1>3, <2>1, FreedFields
<1>5. /\ link' \in LinkSet /\ ~link'.up /\ link'.inbox = <<>> /\ link'.outbox = <<>>
  BY <1>1, <1>3, LinkFields DEF Failing
<1>6. /\ log' \in Seq(EntrySet) /\ Len(log') \in Nat /\ Len(log) <= Len(log')
      /\ \A i \in 1..Len(log) : log'[i] = log[i]
      /\ log' = log \/ (log'[Len(log')].call = c /\ log'[Len(log')].step = x.step)
      /\ x.id \in 1..Len(log') /\ Honest(o, log'[x.id])
      /\ exchange # None => log' = log
  <2>1. CASE exchange # None
    <3>1. log' = log
      BY <1>1, <1>3, <2>1, InvParts, LoggedMore DEF Failing
    <3> QED
      BY <1>1, <1>2, <2>1, <3>1, InvParts DEF Failing, Honest
  <2>2. CASE exchange = None
    <3>1. /\ log' \in Seq(EntrySet) /\ Len(log') = x.id
          /\ \A i \in 1..Len(log) : log'[i] = log[i]
          /\ log'[x.id] = [call |-> x.call, step |-> x.step, size |-> x.of, sent |-> 0]
      BY <1>1, <1>3, <2>2, InvParts, LoggedNew DEF Failing
    <3> QED
      BY <1>1, <1>2, <2>2, <3>1, InvParts DEF Failing, Honest
  <2> QED
    BY <2>1, <2>2
<1>7. /\ calls' \in [Calls -> CallRecords] /\ \A d \in Calls \ {c} : calls'[d] = calls[d]
      /\ calls'[c].at = "settled" /\ calls'[c].todo = <<>> /\ calls'[c].answer = None
      /\ calls'[c].outcome = o
  BY <1>1, <1>2, <1>3, SettledFields, InvParts
<1>8. Settles(session, link, exchange, calls, log, c, o, session', link', exchange', calls', log')
  <2>1. session'.owner = IF session.owner = c THEN None ELSE session.owner
    BY <1>4 DEF Failing
  <2>2. Past(exchange', log', o.exchange) /\ Honest(o, log'[o.exchange])
    BY <1>2, <1>3, <1>6 DEF Past
  <2>3. exchange # None => c = exchange.call
    BY DEF Failing
  <2> QED
    BY <1>2, <1>3, <1>4, <1>6, <1>7, <2>1, <2>2, <2>3, InvParts DEF Settles, Failing
<1>9. /\ CallsFit(session', link', exchange', calls', log')
      /\ OwnerFits(session', exchange', calls', log')
  BY <1>1, <1>8, EndFits
<1>10. CpicInv'
  <2>1. LinkFits(session', link', exchange', closing')
    BY <1>4, <1>5 DEF LinkFits, Failing
  <2>2. OpeningFits(session', link', exchange', calls', log', closing', peer')
    BY <1>4 DEF OpeningFits, HasOpened, Failing
  <2>3. peer'.stray = 0 => TurnFits(session', link', peer')
    BY <1>5, InvParts DEF TurnFits
  <2> QED
    BY <1>3, <1>4, <1>5, <1>6, <1>7, <1>9, <2>1, <2>2, <2>3, InvParts
    DEF CpicInv, Inv, Typed, SessionOf
<1>11. Sound
  <2>1. session.closed => log' = log
    BY <1>6 DEF Failing
  <2>2. Len(log') > Len(log) => MayFollow(log'[Len(log')].call, log'[Len(log')].step)
    BY <1>6, InvParts DEF Failing
  <2>3. \A d \in Calls : /\ calls[d].at # "settled" /\ calls'[d].at = "settled"
                         => calls'[d].outcome.disposition # "reusable"
    BY <1>2, <1>7
  <2> QED
    BY <2>1, <2>2, <2>3 DEF Sound
<1> QED
  BY <1>10, <1>11 DEF Kept

\* A failure after the exchange
LEMMA CallFailsKeeps ==
  ASSUME CpicInv, NEW c \in Calls, NEW o \in OutcomeSet, Answering(calls[c]),
         o.exchange = calls[c].id, o.transmission = "Complete",
         o.disposition = "reusable" => session.state # "closed",
         CallFails(c, o), UNCHANGED <<exchange, log, closing, peer>>
  PROVE  Kept
<1>1. /\ HasOpened(session) /\ calls[c].at \in {"answered", "decoded"}
      /\ exchange # None => c # exchange.call
      /\ Past(exchange, log, calls[c].id) /\ log[calls[c].id].sent = log[calls[c].id].size
      /\ session.closed => session.state = "closed"
      /\ \A d \in Calls \ {c} : ~Answering(calls[d])
  BY InvParts DEF OpeningFits, HasOpened, CallsFit, CallFits, Answering
<1>2. Honest(o, log[o.exchange])
  BY <1>1 DEF Honest
<1>3. calls' = Settled(c, o)
  BY DEF CallFails
<1>4. CASE o.disposition = "reusable"
  <2>1. session' = Freed(session, c) /\ link' = link
    BY <1>4 DEF CallFails
  <2>2. /\ session' \in SessionSet /\ session'.state = session.state
        /\ session'.opened = session.opened /\ session'.closed = session.closed
        /\ session'.owner = IF session.owner = c THEN None ELSE session.owner
    BY <2>1, InvParts, FreedFields
  <2>3. Ending(c, o)
    BY <1>1, <1>2, <1>4, <2>2 DEF Ending
  <2> QED
    BY <1>1, <1>3, <2>1, <2>2, <2>3, SettleKeeps
<1>5. CASE o.disposition # "reusable"
  <2>1. session' = Freed(Terminated(session), c) /\ link' = LinkOf(session, link)
    BY <1>5 DEF CallFails
  <2>2. /\ session' \in SessionSet /\ session'.state = session.state
        /\ session'.opened = session.opened /\ session'.closed
        /\ session'.owner = IF session.owner = c THEN None ELSE session.owner
    <3>1. /\ Terminated(session) \in SessionSet /\ Terminated(session).closed
          /\ Terminated(session).owner = session.owner
          /\ Terminated(session).state = session.state
          /\ Terminated(session).opened = session.opened
      BY InvParts, TerminatedFields
    <3> QED
      BY <2>1, <3>1, FreedFields
  <2>3. /\ link' \in LinkSet /\ (session.closed => link' = link)
        /\ ~session.closed => ~link'.up /\ link'.inbox = <<>> /\ link'.outbox = <<>>
    <3>1. /\ Cut(link) \in LinkSet /\ ~Cut(link).up
          /\ Cut(link).inbox = <<>> /\ Cut(link).outbox = <<>>
      BY InvParts, LinkFields
    <3> QED
      BY <2>1, <3>1, InvParts DEF LinkOf
  <2>4. /\ calls' \in [Calls -> CallRecords] /\ \A d \in Calls \ {c} : calls'[d] = calls[d]
        /\ calls'[c].at = "settled" /\ calls'[c].todo = <<>> /\ calls'[c].answer = None
        /\ calls'[c].outcome = o
    BY <1>3, SettledFields, InvParts
  <2>5. Settles(session, link, exchange, calls, log, c, o, session', link', exchange, calls', log)
    <3>1. exchange # None => c # exchange.call
      BY <1>1
    <3>2. o.exchange # 0 => Past(exchange, log, o.exchange) /\ Honest(o, log[o.exchange])
      BY <1>1, <1>2
    <3>3. \A d \in Calls \ {c} : ~Answering(calls[d])
      BY <1>1
    <3>4. /\ session \in SessionSet /\ exchange \in Exchanges \cup {None} /\ log \in Seq(EntrySet)
          /\ calls \in [Calls -> CallRecords] /\ Len(log) \in Nat
          /\ CallsFit(session, link, exchange, calls, log)
          /\ OwnerFits(session, exchange, calls, log)
      BY InvParts
    <3>5. session'.closed /\ Len(log) <= Len(log)
      BY <2>2, <3>4
    <3>6. calls'[c].at = "settled" /\ calls'[c].todo = <<>> /\ calls'[c].answer = None
      BY <2>4
    <3> QED
      BY <2>2, <2>4, <3>1, <3>2, <3>3, <3>4, <3>5, <3>6 DEF Settles
  <2>6. CallsFit(session', link', exchange, calls', log)
        /\ OwnerFits(session', exchange, calls', log)
    BY <2>5, EndFits
  <2>7. CpicInv'
    <3>1. exchange # None => ExchangeFits(session', link', exchange, log)
      <4>1. link'.inbox = link.inbox \/ link'.inbox = <<>>
        BY <2>3
      <4> QED
        BY <2>2, <2>3, <4>1, InvParts DEF ExchangeFits
    <3>2. LinkFits(session', link', exchange, closing)
      BY <2>2, <2>3, InvParts DEF LinkFits
    <3>3. OpeningFits(session', link', exchange, calls', log, closing, peer)
      BY <1>1, <2>2 DEF OpeningFits, HasOpened
    <3>4. peer.stray = 0 => TurnFits(session', link', peer)
      BY <2>2, <2>3, InvParts DEF TurnFits
    <3> QED
      BY <2>2, <2>3, <2>4, <2>6, <3>1, <3>2, <3>3, <3>4, InvParts
      DEF CpicInv, Inv, Typed, SessionOf
  <2>8. Sound
    BY <1>5, <2>4, InvParts DEF Sound
  <2> QED
    BY <2>7, <2>8 DEF Kept
<1> QED
  BY <1>4, <1>5

\* A call goes on with the next exchange of its operation.
LEMMA NextKeeps ==
  ASSUME CpicInv, NEW c \in Calls, NEW todo \in Todos, Head(todo) # "reset",
         calls' = [calls EXCEPT ![c] = [NewCall EXCEPT !.at = "next", !.todo = todo]],
         calls[c].at \notin {"waiting", "settled"},
         session' \in SessionSet, session'.state = session.state,
         session'.opened = session.opened, session'.closed = session.closed,
         session'.owner = session.owner, session.owner = c => Head(todo) = "refresh",
         UNCHANGED <<link, exchange, log, closing, peer>>, HasOpened(session)
  PROVE  Kept
<1> DEFINE r == [NewCall EXCEPT !.at = "next", !.todo = todo]
<1>1. r \in CallRecords /\ r.at = "next" /\ r.todo = todo /\ r.answer = None
  BY DEF NewCall, CallRecords
<1>2. calls' = [calls EXCEPT ![c] = r]
  OBVIOUS
<1> HIDE DEF r
<1>3. /\ calls' \in [Calls -> CallRecords] /\ calls'[c] = r
      /\ \A d \in Calls \ {c} : calls'[d] = calls[d]
  BY <1>1, <1>2, InvParts
<1>4. CallFits(r, session', exchange, log)
  BY <1>1, TodoFacts DEF CallFits, Answering
<1>5. \A d \in Calls : CallFits(calls'[d], session', exchange, log)
  <2>1. ASSUME NEW d \in Calls \ {c} PROVE CallFits(calls[d], session', exchange, log)
    BY InvParts, CallStays DEF CallsFit
  <2> QED
    BY <1>3, <1>4, <2>1
<1>6. CallsFit(session', link, exchange, calls', log)
  <2>1. exchange # None => exchange.call \in Calls \ {c}
    BY InvParts DEF CallsFit, Exchanges
  <2> QED
    BY <1>1, <1>3, <1>5, <2>1, InvParts DEF CallsFit, Answering
<1>7. OwnerFits(session', exchange, calls', log)
  <2>1. session.owner # None => session.owner \in Calls
    BY InvParts DEF SessionSet
  <2>2. ResetUnderWay' => ResetUnderWay
    BY <1>1, <1>3, InvParts, EmptySeq, ElementOfSeq DEF ResetUnderWay, EntrySet
  <2> QED
    BY <1>1, <1>3, <2>1, <2>2, InvParts DEF OwnerFits, ResetUnderWay
<1>8. CpicInv'
  <2>1. exchange # None => ExchangeFits(session', link, exchange, log)
    BY InvParts DEF ExchangeFits
  <2>2. LinkFits(session', link, exchange, closing)
    BY InvParts DEF LinkFits
  <2>3. OpeningFits(session', link, exchange, calls', log, closing, peer)
    BY InvParts DEF OpeningFits, HasOpened
  <2>4. peer.stray = 0 => TurnFits(session', link, peer)
    BY InvParts DEF TurnFits
  <2> QED
    BY <1>3, <1>6, <1>7, <2>1, <2>2, <2>3, <2>4, InvParts DEF CpicInv, Inv, Typed, SessionOf
<1>9. Sound
  BY <1>1, <1>3, InvParts DEF Sound
<1> QED
  BY <1>8, <1>9 DEF Kept

\* After one of its exchanges the operation goes on or returns.
LEMMA AfterKeeps ==
  ASSUME CpicInv, NEW c \in Calls, NEW todo \in Todos, NEW s \in SessionSet, NEW id \in Nat,
         After(c, s, todo, id), calls[c].at \notin {"waiting", "settled"},
         s.state = session.state, s.opened = session.opened, s.closed = session.closed,
         s.owner = session.owner, session.owner = c => Head(todo) \in {"reset", "refresh"},
         id # 0 => Past(exchange, log, id) /\ log[id].sent = log[id].size,
         UNCHANGED <<link, exchange, log, closing, peer>>, HasOpened(session)
  PROVE  Kept
<1>1. CASE Len(todo) > 1
  <2>1. Tail(todo) \in Todos /\ Head(Tail(todo)) # "reset"
    BY <1>1, TodoFacts
  <2>2. session.owner = c => Head(Tail(todo)) = "refresh"
    BY <1>1, TodoFacts
  <2>3. /\ calls' = [calls EXCEPT ![c] = [NewCall EXCEPT !.at = "next", !.todo = Tail(todo)]]
        /\ session' = s
    BY <1>1 DEF After
  <2> QED
    BY <2>1, <2>2, <2>3, NextKeeps
<1>2. CASE ~(Len(todo) > 1)
  <2>1. calls' = Settled(c, Success(id)) /\ session' = Freed(s, c)
    BY <1>2 DEF After
  <2>2. /\ session' \in SessionSet /\ session'.state = session.state
        /\ session'.opened = session.opened /\ session'.closed = session.closed
        /\ session'.owner = IF session.owner = c THEN None ELSE session.owner
    BY <2>1, FreedFields
  <2>3. /\ Success(id) \in OutcomeSet /\ Success(id).exchange = id
        /\ Success(id).disposition = None /\ Success(id).transmission = "Complete"
    BY OutcomeFacts
  <2>4. Ending(c, Success(id))
    BY <2>3, SessionAssumption DEF Ending, Honest, Dispositions
  <2> QED
    BY <2>1, <2>2, <2>4, SettleKeeps
<1> QED
  BY <1>1, <1>2

(***************************************************************************)
(* Sending                                                                 *)
(***************************************************************************)
\* The next record keeps it the client's turn, or hands it over.
LEMMA PostTurn ==
  ASSUME NEW s, NEW l \in LinkSet, NEW p, TurnFits(s, l, p), l.up, NEW f \in FunctionNames,
         \/ s.state = "ready" /\ f \in {"SapSend", "AsyncSendData"}
         \/ s.state = "send-continuation" /\ f \in {"AsyncSendData", "SendData", "Receive"},
         NEW s2, s2.state = StateAfter(f),
         NEW l2, l2.up, l2.inbox = l.inbox, l2.outbox = Append(l.outbox, f)
  PROVE  TurnFits(s2, l2, p)
<1>0. l.outbox \in Seq(FunctionNames)
  BY DEF LinkSet
<1>1. /\ l2.outbox # <<>> /\ Len(l2.outbox) = Len(l.outbox) + 1 /\ Len(l.outbox) \in Nat
      /\ l2.outbox[Len(l2.outbox)] = f
      /\ l.outbox # <<>> => Len(l2.outbox) > 1
      /\ AllBut(l.outbox, 0, {"AsyncSendData"}) => AllBut(l2.outbox, 1, {"AsyncSendData"})
      /\ AllBut(l.outbox, 0, {"AsyncSendData"}) /\ f = "AsyncSendData" =>
           AllBut(l2.outbox, 0, {"AsyncSendData"})
  <2>1. /\ Append(l.outbox, f) # <<>> /\ Len(Append(l.outbox, f)) = Len(l.outbox) + 1
        /\ Len(l.outbox) \in Nat /\ Append(l.outbox, f)[Len(l.outbox) + 1] = f
    BY <1>0, Queued
  <2>2. l.outbox # <<>> => Len(l.outbox) > 0
    BY <1>0, EmptySeq
  <2>3. /\ AllBut(l.outbox, 0, {"AsyncSendData"}) =>
             AllBut(Append(l.outbox, f), 1, {"AsyncSendData"})
        /\ AllBut(l.outbox, 0, {"AsyncSendData"}) /\ f = "AsyncSendData" =>
             AllBut(Append(l.outbox, f), 0, {"AsyncSendData"})
    BY <1>0, QueuedAllBut
  <2> QED
    BY <2>1, <2>2, <2>3
<1>2. CASE s.state = "ready"
  <2>1. l.inbox = <<>> /\ l.outbox = <<>> /\ p.at = "listening"
    BY <1>2 DEF TurnFits
  <2>2. l2.outbox = <<f>>
    BY <2>1
  <2>3. AllBut(l.outbox, 0, {"AsyncSendData"})
    BY <2>1 DEF AllBut
  <2>4. CASE f = "SapSend"
    BY <1>2, <2>1, <2>2, <2>4 DEF TurnFits, StateAfter
  <2>5. CASE f = "AsyncSendData"
    BY <1>1, <1>2, <2>1, <2>3, <2>5 DEF TurnFits, StateAfter
  <2> QED
    BY <1>2, <2>4, <2>5
<1>3. CASE s.state = "send-continuation"
  <2>1. /\ l.inbox = <<>> /\ AllBut(l.outbox, 0, {"AsyncSendData"})
        /\ p.at \in {"listening", "collecting"} /\ (p.at = "listening" => l.outbox # <<>>)
    BY <1>3 DEF TurnFits
  <2>2. CASE f = "AsyncSendData"
    BY <1>1, <2>1, <2>2 DEF TurnFits, StateAfter
  <2>3. CASE f = "SendData"
    BY <1>1, <2>1, <2>3 DEF TurnFits, StateAfter, Request
  <2>4. CASE f = "Receive"
    BY <1>1, <2>1, <2>4 DEF TurnFits, StateAfter, Request
  <2> QED
    BY <1>3, <2>2, <2>3, <2>4
<1> QED
  BY <1>2, <1>3

\* What is behind a record that is given to the transport, of the exchange that
\* runs or the first one of a new exchange.
Posting(s, l, x) ==
  /\ s \in SessionSet /\ l \in LinkSet /\ x \in Exchanges
  /\ HasOpened(s) /\ ~s.closed /\ ~session.closed /\ l.up
  /\ \/ x.index = 0 /\ s.state = "ready"
     \/ x.index > 0 /\ s.state = "send-continuation"
  /\ x.index < x.size /\ x.since \subseteq {x.id}
  /\ \A i \in DOMAIN l.inbox : l.inbox[i].epoch = x.id
  /\ peer.stray = 0 => TurnFits(s, l, peer)
  /\ x.callbacks = 0 => x.size = x.of
PostingMore(s, cs, x) ==
  /\ exchange # None /\ x.call = exchange.call /\ x.of = exchange.of /\ cs = calls
  /\ s.owner = session.owner
  /\ x.id = Len(log) /\ x.id # 0 /\ log[x.id].size = x.of
  /\ x.callbacks = 0 => log[x.id].sent = x.index
  /\ x.callbacks # 0 => log[x.id].sent = x.of /\ x.transmission = "Complete"
  /\ \A c \in Calls : ~Answering(calls[c])
PostingFirst(s, l, cs, x) ==
  /\ exchange = None /\ x.id = Len(log) + 1 /\ x.index = 0 /\ x.callbacks = 0
  /\ l.inbox = <<>>
  /\ s.owner \in {session.owner, x.call} /\ session.owner \in {None, x.call}
  /\ x.step = "reset" => s.owner = x.call
  /\ calls[x.call].at \in {"new", "next"} /\ MayFollow(x.call, x.step)
  /\ cs \in [Calls -> CallRecords] /\ \A d \in Calls \ {x.call} : cs[d] = calls[d]
  /\ cs[x.call].at = "waiting" /\ cs[x.call].todo \in Todos /\ cs[x.call].id = x.id
  /\ cs[x.call].answer = None
  /\ s.owner = x.call => Head(cs[x.call].todo) \in {"reset", "refresh"}

\* A record is given to the transport, or the transport refuses it.
LEMMA PostKeeps ==
  ASSUME CpicInv, NEW s, NEW l, NEW cs, NEW x, Posting(s, l, x),
         PostingMore(s, cs, x) \/ PostingFirst(s, l, cs, x),
         Post(s, l, cs, x), UNCHANGED <<closing, peer>>
  PROVE  Kept
<1> DEFINE c == x.call
           f == Function(x.index, x.size)
           n == IF x.callbacks = 0 THEN 1 ELSE 0
<1>1. /\ s \in SessionSet /\ l \in LinkSet /\ x \in Exchanges /\ c \in Calls /\ x.id \in Nat
      /\ x.index \in Nat /\ x.size \in Nat \ {0} /\ x.of \in Nat \ {0} /\ x.index < x.size
      /\ x.callbacks \in Nat /\ x.step \in Steps /\ n \in {0, 1}
  BY DEF Posting, Exchanges
<1>2. /\ f \in FunctionNames /\ Sent(s.state, f) = StateAfter(f) /\ StateAfter(f) \in States
      /\ \/ s.state = "ready" /\ f \in {"SapSend", "AsyncSendData"}
         \/ s.state = "send-continuation" /\ f \in {"AsyncSendData", "SendData", "Receive"}
  BY <1>1, FunctionFacts DEF Posting
<1>3. /\ session' = [s EXCEPT !.state = StateAfter(f)] /\ calls' = cs
      /\ link' = [l EXCEPT !.outbox = Append(@, f)]
      /\ exchange' = [x EXCEPT !.at = "sending"]
      /\ log' = Logged(x, n)
  BY <1>2 DEF Post, Posting
<1> HIDE DEF f, n
<1>4. /\ session' \in SessionSet /\ session'.state = StateAfter(f) /\ session'.owner = s.owner
      /\ session'.opened = s.opened /\ session'.closed = s.closed
  BY <1>1, <1>2, <1>3 DEF SessionSet
<1>5. /\ link' \in LinkSet /\ link'.up /\ link'.inbox = l.inbox
      /\ link'.outbox = Append(l.outbox, f)
  <2>1. l.outbox \in Seq(FunctionNames) /\ Append(l.outbox, f) \in Seq(FunctionNames)
    BY <1>1, <1>2, Queued DEF LinkSet
  <2> QED
    BY <1>1, <1>3, <2>1 DEF LinkSet, Posting
<1>6. /\ exchange' \in Exchanges /\ exchange' # None /\ exchange'.at = "sending"
      /\ exchange'.call = c /\ exchange'.id = x.id /\ exchange'.of = x.of
      /\ exchange'.size = x.size /\ exchange'.index = x.index
      /\ exchange'.callbacks = x.callbacks /\ exchange'.since = x.since
      /\ exchange'.transmission = x.transmission
  BY <1>1, <1>3, SessionAssumption DEF Exchanges
<1>7. /\ log' \in Seq(EntrySet) /\ Len(log') = x.id /\ x.id # 0 /\ Len(log) \in Nat
      /\ \A i \in 1..Len(log) : i # x.id => log'[i] = log[i]
      /\ log'[x.id].size = x.of
      /\ x.callbacks = 0 => log'[x.id].sent = x.index + 1
      /\ x.callbacks # 0 => log'[x.id].sent = x.of /\ x.transmission = "Complete"
  <2>1. CASE PostingMore(s, cs, x)
    <3>1. x.id = Len(log) /\ x.id # 0 /\ log \in Seq(EntrySet) /\ n \in Nat
      BY <1>1, <2>1, InvParts DEF PostingMore
    <3>2. /\ log' \in Seq(EntrySet) /\ Len(log') = Len(log)
          /\ \A i \in 1..Len(log) \ {x.id} : log'[i] = log[i]
          /\ log'[x.id].sent = log[x.id].sent + n
          /\ log'[x.id].size = log[x.id].size
          /\ log'[x.id].sent \in Nat /\ log[x.id].sent \in Nat
      <4>1. log[x.id] \in EntrySet
        BY <3>1, LenProperties, ElementOfSeq
      <4>2. /\ log' \in Seq(EntrySet) /\ Len(log') = Len(log)
            /\ \A i \in 1..Len(log) \ {x.id} : log'[i] = log[i]
            /\ log'[x.id].sent = log[x.id].sent + n
            /\ \A g \in {"call", "step", "size"} : log'[x.id][g] = log[x.id][g]
        BY <1>1, <1>3, <3>1, LoggedMore
      <4>3. log[x.id].sent \in Nat
        BY <4>1 DEF EntrySet
      <4> QED
        BY <3>1, <4>2, <4>3
    <3> QED
      BY <1>1, <2>1, <3>1, <3>2 DEF PostingMore, n
  <2>2. CASE PostingFirst(s, l, cs, x)
    <3>1. x.id = Len(log) + 1 /\ log \in Seq(EntrySet) /\ n = 1 /\ Len(log) \in Nat
      BY <1>1, <2>2, InvParts DEF PostingFirst, n
    <3>2. /\ log' \in Seq(EntrySet) /\ Len(log') = x.id
          /\ \A i \in 1..Len(log) : log'[i] = log[i]
          /\ log'[x.id] = [call |-> x.call, step |-> x.step, size |-> x.of, sent |-> 1]
      BY <1>1, <1>3, <3>1, LoggedNew
    <3> QED
      BY <1>1, <2>2, <3>1, <3>2 DEF PostingFirst
  <2> QED
    BY <2>1, <2>2
<1>8. ExchangeFits(session', link', exchange', log')
  BY <1>1, <1>4, <1>5, <1>6, <1>7 DEF ExchangeFits, Posting, f
<1>9. \A id : Past(exchange, log, id) => Past(exchange', log', id) /\ log'[id] = log[id]
  <2>1. exchange # None => exchange.id = Len(log)
    BY InvParts DEF ExchangeFits
  <2>2. \/ exchange # None /\ x.id = Len(log)
        \/ exchange = None /\ x.id = Len(log) + 1
    BY DEF PostingMore, PostingFirst
  <2> QED
    BY <1>6, <1>7, <2>1, <2>2 DEF Past
<1>10. calls' \in [Calls -> CallRecords] /\ CallsFit(session', link', exchange', calls', log')
  <2>1. \A d \in Calls \ {c} : CallFits(calls[d], session', exchange', log')
    <3>1. \A d \in Calls : CallFits(calls[d], session, exchange, log)
      BY InvParts DEF CallsFit
    <3>2. session.closed => session'.closed
      BY DEF Posting
    <3> QED
      BY <1>9, <3>1, <3>2, CallStays
  <2>2. CASE PostingMore(s, cs, x)
    <3>1. calls' = calls /\ exchange # None /\ c = exchange.call /\ x.id = Len(log)
      BY <1>3, <2>2 DEF PostingMore
    <3>2. /\ \A d \in Calls : calls[d].at = "waiting" <=> d = c
          /\ calls[c].id = exchange.id /\ exchange.id = Len(log)
      BY <1>1, <3>1, InvParts DEF CallsFit, ExchangeFits
    <3>3. CallFits(calls[c], session', exchange', log')
      <4>1. CallFits(calls[c], session, exchange, log) /\ (session.closed => session'.closed)
        BY <1>1, InvParts DEF CallsFit, Posting
      <4> QED
        BY <1>9, <4>1, CallStays
    <3>4. \A d \in Calls : ~Answering(calls[d])
      BY <2>2 DEF PostingMore
    <3> QED
      BY <1>1, <1>6, <2>1, <3>1, <3>2, <3>3, <3>4, InvParts DEF CallsFit
  <2>3. CASE PostingFirst(s, l, cs, x)
    <3>1. /\ calls' \in [Calls -> CallRecords] /\ \A d \in Calls \ {c} : calls'[d] = calls[d]
          /\ calls'[c].at = "waiting" /\ calls'[c].todo \in Todos /\ calls'[c].id = x.id
          /\ calls'[c].answer = None /\ exchange = None /\ l.inbox = <<>>
      BY <1>3, <2>3 DEF PostingFirst
    <3>2. CallFits(calls'[c], session', exchange', log')
      BY <3>1, TodoFacts DEF CallFits, Answering
    <3>3. \A d \in Calls \ {c} : calls[d].at # "waiting"
      BY <3>1, InvParts DEF CallsFit
    <3>4. \A d \in Calls : CallFits(calls'[d], session', exchange', log')
      BY <2>1, <3>1, <3>2
    <3>5. \A d \in Calls : calls'[d].at = "waiting" <=> exchange' # None /\ d = exchange'.call
      BY <1>6, <3>1, <3>3
    <3>6. ~Answering(calls'[c]) /\ \A d \in Calls : Answering(calls'[d]) => Answering(calls[d])
      BY <3>1 DEF Answering
    <3>7. \A d, e \in Calls : Answering(calls'[d]) /\ Answering(calls'[e]) => d = e
      BY <3>6, InvParts DEF CallsFit
    <3>8. ~session'.closed /\ link'.up /\ link'.inbox = <<>>
      BY <1>4, <1>5, <3>1 DEF Posting
    <3> QED
      BY <1>6, <3>1, <3>4, <3>5, <3>7, <3>8 DEF CallsFit
  <2> QED
    BY <2>2, <2>3
<1>11. OwnerFits(session', exchange', calls', log')
  <2>1. session.owner \in Calls \cup {None}
    BY InvParts DEF SessionSet
  <2>2. CASE PostingMore(s, cs, x)
    <3>1. calls' = calls /\ exchange # None /\ c = exchange.call /\ s.owner = session.owner
      BY <1>3, <2>2 DEF PostingMore
    <3>2. /\ session.owner # None => c = session.owner
          /\ session.owner # None =>
               /\ calls[session.owner].at \notin {"new", "settled"}
               /\ Head(calls[session.owner].todo) \in {"reset", "refresh"}
          /\ ResetUnderWay => session.owner = log[Len(log)].call
      BY <3>1, InvParts DEF OwnerFits, ResetUnderWay
    <3>3. /\ log'[Len(log')].step = log[Len(log)].step
          /\ log'[Len(log')].call = log[Len(log)].call /\ log # <<>>
      <4>1. x.id = Len(log) /\ x.id # 0 /\ log \in Seq(EntrySet) /\ n \in Nat
        BY <1>1, <2>2, InvParts DEF PostingMore
      <4>2. /\ Len(log') = Len(log)
            /\ \A g \in {"call", "step", "size"} : log'[x.id][g] = log[x.id][g]
        BY <1>1, <1>3, <4>1, LoggedMore
      <4>3. log # <<>>
        BY <4>1, EmptySeq
      <4> QED
        BY <4>1, <4>2, <4>3
    <3> QED
      BY <1>4, <1>6, <3>1, <3>2, <3>3 DEF OwnerFits, ResetUnderWay
  <2>3. CASE PostingFirst(s, l, cs, x)
    <3>1. /\ \A d \in Calls \ {c} : calls'[d] = calls[d]
          /\ calls'[c].at = "waiting" /\ s.owner \in {None, c}
          /\ x.step = "reset" => s.owner = c
          /\ s.owner = c => Head(calls'[c].todo) \in {"reset", "refresh"}
      BY <1>3, <2>3 DEF PostingFirst
    <3>2. log'[Len(log')].call = c /\ log'[Len(log')].step = x.step
      <4>1. x.id = Len(log) + 1 /\ log \in Seq(EntrySet) /\ n \in Nat
        BY <1>1, <2>3, InvParts DEF PostingFirst
      <4>2. log'[x.id] = [call |-> x.call, step |-> x.step, size |-> x.of, sent |-> n]
        BY <1>1, <1>3, <4>1, LoggedNew
      <4> QED
        BY <1>7, <4>2
    <3> QED
      BY <1>1, <1>4, <1>6, <3>1, <3>2 DEF OwnerFits
  <2> QED
    BY <2>2, <2>3
<1>12. CpicInv'
  <2>1. LinkFits(session', link', exchange', closing')
    <3>1. StateAfter(f) # "closed" /\ closing # "deallocating"
      BY InvParts DEF StateAfter, LinkFits, Posting
    <3> QED
      BY <1>4, <1>5, <3>1 DEF LinkFits, Posting
  <2>2. OpeningFits(session', link', exchange', calls', log', closing', peer')
    BY <1>4, <1>6 DEF OpeningFits, HasOpened, Posting
  <2>3. peer'.stray = 0 => TurnFits(session', link', peer')
    BY <1>1, <1>2, <1>4, <1>5, PostTurn DEF Posting
  <2> QED
    BY <1>4, <1>5, <1>6, <1>7, <1>8, <1>10, <1>11, <2>1, <2>2, <2>3, InvParts
    DEF CpicInv, Inv, Typed, SessionOf
<1>13. Sound
  <2>1. ~session.closed
    BY DEF Posting
  <2>2. Len(log') > Len(log) => MayFollow(log'[Len(log')].call, log'[Len(log')].step)
    <3>1. CASE PostingMore(s, cs, x)
      BY <1>7, <3>1 DEF PostingMore
    <3>2. CASE PostingFirst(s, l, cs, x)
      <4>1. x.id = Len(log) + 1 /\ log \in Seq(EntrySet) /\ n \in Nat
        BY <1>1, <3>2, InvParts DEF PostingFirst
      <4>2. log'[x.id] = [call |-> x.call, step |-> x.step, size |-> x.of, sent |-> n]
        BY <1>1, <1>3, <4>1, LoggedNew
      <4> QED
        BY <1>7, <3>2, <4>2 DEF PostingFirst
    <3> QED
      BY <3>1, <3>2
  <2>3. \A d \in Calls : calls[d].at # "settled" => calls'[d].at # "settled"
    <3>1. CASE PostingMore(s, cs, x)
      BY <1>3, <3>1 DEF PostingMore
    <3>2. CASE PostingFirst(s, l, cs, x)
      BY <1>3, <3>2 DEF PostingFirst
    <3> QED
      BY <3>1, <3>2
  <2> QED
    BY <2>1, <2>2, <2>3 DEF Sound
<1> QED
  BY <1>12, <1>13 DEF Kept

(***************************************************************************)
(* The exchange that runs                                                  *)
(***************************************************************************)
\* What an event of the socket or a timer finds
LEMMA QuietFacts ==
  ASSUME CpicInv, Quiet
  PROVE  /\ \A c \in Calls : ~Answering(calls[c])
         /\ exchange # None =>
              /\ exchange \in Exchanges /\ exchange.call \in Calls
              /\ HasOpened(session) /\ closing # "deallocating"
              /\ exchange.id = Len(log) /\ exchange.id # 0 /\ log[exchange.id].size = exchange.of
              /\ log[exchange.id] \in EntrySet
              /\ session.closed => ~link.up
              /\ ~link.up => link.inbox = <<>> /\ link.outbox = <<>>
<1>1. \A c \in Calls : ~Answering(calls[c])
  BY DEF Quiet, Answering
<1>2. ASSUME exchange # None PROVE exchange \in Exchanges /\ exchange.call \in Calls
  BY <1>2, InvParts DEF Exchanges
<1>3. ASSUME exchange # None
      PROVE  exchange.id = Len(log) /\ exchange.id # 0 /\ log[exchange.id] \in EntrySet
  <2>1. exchange.id = Len(log) /\ exchange.id # 0
    BY <1>3, InvParts DEF ExchangeFits
  <2> QED
    BY <2>1, InvParts, ElementOfSeq
<1>4. ASSUME exchange # None
      PROVE  /\ HasOpened(session) /\ closing # "deallocating"
             /\ log[exchange.id].size = exchange.of /\ (session.closed => ~link.up)
             /\ ~link.up => link.inbox = <<>> /\ link.outbox = <<>>
  BY <1>4, InvParts DEF ExchangeFits, LinkFits, OpeningFits
<1> QED
  BY <1>1, <1>2, <1>3, <1>4

\* The exchange that runs fails.
LEMMA RunningFails ==
  ASSUME CpicInv, Quiet, exchange # None,
         NEW s \in SessionSet, s.opened = session.opened, s.owner = session.owner,
         session.closed => s.closed,
         NEW l \in LinkSet, s.closed => ~l.up, ~l.up => l.inbox = <<>> /\ l.outbox = <<>>,
         NEW x \in Exchanges, x.call = exchange.call, x.id = exchange.id,
         NEW error, NEW phase, NEW transmission \in Transmissions,
         Honest([transmission |-> transmission], log[x.id]),
         ExchangeFails(s, l, x, error, phase, transmission), UNCHANGED <<closing, peer>>
  PROVE  Kept
<1>1. Failing(s, l, x, transmission)
  BY QuietFacts DEF Failing, HasOpened
<1> QED
  BY <1>1, ExchangeFailsKeeps

\* What may be said of the exchange that runs
LEMMA RunningHonest ==
  ASSUME CpicInv, Quiet, exchange # None
  PROVE  /\ Honest([transmission |-> "Unknown"], log[exchange.id])
         /\ exchange.index # 0 => Honest([transmission |-> "Partial"], log[exchange.id])
         /\ exchange.at = "receiving" =>
              /\ exchange.transmission = "Complete"
              /\ Honest([transmission |-> "Complete"], log[exchange.id])
<1>1. /\ log[exchange.id].sent \in Nat /\ exchange.of \in Nat \ {0} /\ exchange.index \in Nat
      /\ log[exchange.id].size = exchange.of
  BY QuietFacts DEF EntrySet, Exchanges
<1>2. ExchangeFits(session, link, exchange, log)
  BY InvParts
<1>3. exchange.index # 0 => log[exchange.id].sent > 0
  BY <1>1, <1>2 DEF ExchangeFits
<1>4. exchange.at = "receiving" =>
        exchange.transmission = "Complete" /\ log[exchange.id].sent = log[exchange.id].size
  BY <1>1, <1>2 DEF ExchangeFits
<1> QED
  BY <1>3, <1>4 DEF Honest

\* A step that does not end or begin anything
LEMMA StillKeeps ==
  ASSUME CpicInv, Quiet, UNCHANGED <<calls, log>>,
         session' \in SessionSet, session'.owner = session.owner,
         session'.closed = session.closed, link' \in LinkSet,
         exchange' \in Exchanges \cup {None}, exchange' = None <=> exchange = None,
         exchange # None => /\ exchange'.call = exchange.call /\ exchange'.id = exchange.id
                            /\ ExchangeFits(session', link', exchange', log),
         closing' \in {None, "deallocating", "done"}, peer' \in PeerSet,
         LinkFits(session', link', exchange', closing'),
         OpeningFits(session', link', exchange', calls, log, closing', peer'),
         peer'.stray = 0 => TurnFits(session', link', peer')
  PROVE  Kept
<1>1. \A d \in Calls : CallFits(calls[d], session', exchange', log)
  <2>1. \A id : Past(exchange, log, id) => Past(exchange', log, id)
    BY DEF Past
  <2>2. \A d \in Calls : CallFits(calls[d], session, exchange, log)
    BY InvParts DEF CallsFit
  <2>3. session.closed => session'.closed
    OBVIOUS
  <2> QED
    BY <2>1, <2>2, <2>3, CallStays
<1>2. CallsFit(session', link', exchange', calls, log)
  BY <1>1, QuietFacts, InvParts DEF CallsFit
<1>3. OwnerFits(session', exchange', calls, log)
  BY InvParts DEF OwnerFits
<1>4. CpicInv'
  BY <1>2, <1>3, InvParts DEF CpicInv, Inv, Typed, SessionOf
<1>5. Sound
  BY InvParts DEF Sound
<1> QED
  BY <1>4, <1>5 DEF Kept

\* A record was taken by the transport.
LEMMA WrittenKeeps ==
  ASSUME CpicInv, Written
  PROVE  Kept
<1> DEFINE f == Function(exchange.index, exchange.size)
<1>1. /\ exchange # None /\ exchange.at = "sending" /\ Quiet /\ link.up
      /\ UNCHANGED <<closing, peer>>
  BY DEF Written, Running
<1>2. /\ exchange \in Exchanges /\ exchange.call \in Calls /\ HasOpened(session)
      /\ ~session.closed /\ exchange.id = Len(log) /\ exchange.id # 0
      /\ log[exchange.id].size = exchange.of
      /\ \A c \in Calls : ~Answering(calls[c])
  BY <1>1, QuietFacts
<1>3. /\ ExchangeFits(session, link, exchange, log) /\ session.state = StateAfter(f)
      /\ exchange.index < exchange.size
  BY <1>1, InvParts DEF ExchangeFits
<1>4. /\ exchange.index \in Nat /\ exchange.size \in Nat \ {0}
      /\ f \in {"AsyncSendData", "SendData"} <=> exchange.index + 1 < exchange.size
      /\ f \in {"AsyncSendData", "SendData", "Receive", "SapSend"}
  <2>1. exchange.index \in Nat /\ exchange.size \in Nat \ {0}
    BY <1>2 DEF Exchanges
  <2> QED
    BY <1>3, <2>1, FunctionFacts DEF FunctionNames
<1>5. /\ LinkFits(session, link, exchange, closing)
      /\ OpeningFits(session, link, exchange, calls, log, closing, peer)
      /\ peer.stray = 0 => TurnFits(session, link, peer)
  BY InvParts
<1> HIDE DEF f
<1>6. CASE f = "SendData"
  <2>1. /\ exchange' = [exchange EXCEPT !.at = "acknowledged"]
        /\ UNCHANGED <<session, link, calls, log>>
    BY <1>6 DEF Written, f
  <2>2. /\ exchange' \in Exchanges /\ exchange' # None /\ exchange'.at = "acknowledged"
        /\ \A g \in {"call", "id", "of", "size", "index", "callbacks", "since", "transmission"} :
             exchange'[g] = exchange[g]
    BY <1>2, <2>1, SessionAssumption DEF Exchanges
  <2>3. session.state = "send-barrier-pending"
    BY <1>3, <1>6 DEF StateAfter
  <2>4. ExchangeFits(session, link, exchange', log)
    BY <1>3, <1>6, <2>2, <2>3 DEF ExchangeFits, f
  <2>5. /\ LinkFits(session, link, exchange', closing)
        /\ OpeningFits(session, link, exchange', calls, log, closing, peer)
    BY <1>1, <1>2, <1>5, <2>2 DEF LinkFits, OpeningFits
  <2> QED
    BY <1>1, <1>5, <2>1, <2>2, <2>4, <2>5, InvParts, StillKeeps
<1>7. CASE f # "SendData" /\ exchange.index + 1 < exchange.size
  <2> DEFINE x == [exchange EXCEPT !.index = @ + 1]
  <2>1. Post(session, link, calls, x)
    BY <1>7 DEF Written, f
  <2>2. /\ x \in Exchanges /\ x.index = exchange.index + 1
        /\ \A g \in {"call", "id", "of", "size", "callbacks", "since", "transmission"} :
             x[g] = exchange[g]
    BY <1>2 DEF Exchanges
  <2> HIDE DEF x
  <2>3. session.state = "send-continuation"
    BY <1>3, <1>4, <1>7 DEF StateAfter
  <2>4. Posting(session, link, x)
    BY <1>1, <1>2, <1>3, <1>4, <1>5, <1>7, <2>2, <2>3, InvParts DEF Posting, ExchangeFits
  <2>5. PostingMore(session, calls, x)
    BY <1>1, <1>2, <1>3, <2>2 DEF PostingMore, ExchangeFits
  <2> QED
    BY <1>1, <2>1, <2>4, <2>5, PostKeeps
<1>8. CASE f # "SendData" /\ ~(exchange.index + 1 < exchange.size)
  <2>1. /\ exchange' = [exchange EXCEPT !.at = "receiving", !.transmission = "Complete"]
        /\ UNCHANGED <<session, link, calls, log>>
    BY <1>8 DEF Written, f
  <2>2. /\ exchange' \in Exchanges /\ exchange' # None /\ exchange'.at = "receiving"
        /\ exchange'.transmission = "Complete"
        /\ \A g \in {"call", "id", "of", "size", "index", "callbacks", "since"} :
             exchange'[g] = exchange[g]
    <3> DEFINE y == [exchange EXCEPT !.transmission = "Complete"]
    <3>1. /\ y \in Exchanges /\ y.transmission = "Complete"
          /\ \A g \in {"call", "id", "of", "size", "index", "callbacks", "since"} :
               y[g] = exchange[g]
      BY <1>2 DEF Exchanges
    <3>2. exchange' = [y EXCEPT !.at = "receiving"]
      BY <1>2, <2>1 DEF Exchanges
    <3> HIDE DEF y
    <3>3. /\ exchange' \in Exchanges /\ exchange'.at = "receiving"
          /\ exchange'.transmission = "Complete"
          /\ \A g \in {"call", "id", "of", "size", "index", "callbacks", "since"} :
               exchange'[g] = y[g]
      BY <3>1, <3>2 DEF Exchanges
    <3> QED
      BY <3>1, <3>3, SessionAssumption
  <2>3. session.state = "response-pending"
    BY <1>3, <1>4, <1>8 DEF StateAfter
  <2>4. ExchangeFits(session, link, exchange', log)
    BY <1>3, <1>4, <1>8, <2>2, <2>3 DEF ExchangeFits
  <2>5. /\ LinkFits(session, link, exchange', closing)
        /\ OpeningFits(session, link, exchange', calls, log, closing, peer)
    BY <1>1, <1>2, <1>5, <2>2 DEF LinkFits, OpeningFits
  <2> QED
    BY <1>1, <1>5, <2>1, <2>2, <2>4, <2>5, InvParts, StillKeeps
<1> QED
  BY <1>6, <1>7, <1>8

\* The transport does not take a record.
LEMMA SendFailsKeeps ==
  ASSUME CpicInv, SendFails
  PROVE  Kept
<1>1. exchange # None /\ Quiet /\ UNCHANGED <<closing, peer>>
  BY DEF SendFails, Running
<1>2. PICK error \in {"NI_ABORTED", "NI_WRITE_TIMEOUT", "NI_CLOSED"} :
        WriteFails(session, link, exchange, error)
  BY DEF SendFails
<1> DEFINE t == IF exchange.index = 0 THEN "Unknown" ELSE "Partial"
<1>3. ExchangeFails(session, link, exchange, error, "send", t)
  BY <1>2 DEF WriteFails
<1>4. t \in Transmissions /\ Honest([transmission |-> t], log[exchange.id])
  BY <1>1, RunningHonest DEF Transmissions
<1> HIDE DEF t
<1> QED
  BY <1>1, <1>3, <1>4, QuietFacts, InvParts, RunningFails

(***************************************************************************)
(* Receiving                                                               *)
(***************************************************************************)
\* The records of an answer come in turn.
LEMMA AnswerTurn ==
  ASSUME NEW s, NEW l \in LinkSet, NEW p, TurnFits(s, l, p), l.up, l.inbox # <<>>,
         s.state = "response-pending"
  PROVE  /\ l.outbox = <<>>
         /\ \/ p.at = "serving" /\ AllBut(l.inbox, 0, Part)
            \/ /\ AllBut(l.inbox, 1, Part)
               /\ \/ p.at = "listening" /\ l.inbox[Len(l.inbox)] \in Whole
                  \/ p.at = "gone" /\ l.inbox[Len(l.inbox)] \in Last
BY DEF TurnFits, Request

\* The answer is whole: it was the last that the peer sent, which listens again.
LEMMA MessageTurn ==
  ASSUME NEW s, NEW l \in LinkSet, NEW p, TurnFits(s, l, p), l.up, l.inbox # <<>>,
         s.state = "response-pending", Head(l.inbox).rc = "ok", Head(l.inbox).final,
         Tail(l.inbox) = <<>>,
         NEW s2, s2.state = "ready", NEW l2, l2.inbox = <<>>, l2.outbox = l.outbox
  PROVE  TurnFits(s2, l2, p)
<1>1. /\ l.inbox \in Seq(RecordSet) /\ Len(l.inbox) = 1 /\ Head(l.inbox) = l.inbox[1]
  BY Taken DEF LinkSet
<1>2. l.outbox = <<>> /\ p.at = "listening"
  <2>1. ~AllBut(l.inbox, 0, Part)
    BY <1>1 DEF AllBut, Part
  <2>2. l.inbox[Len(l.inbox)] \notin Last
    BY <1>1 DEF Last
  <2> QED
    BY <2>1, <2>2, AnswerTurn
<1> QED
  BY <1>2 DEF TurnFits

\* More is to come.
LEMMA PartTurn ==
  ASSUME NEW s, NEW l \in LinkSet, NEW p, TurnFits(s, l, p), l.up, l.inbox # <<>>,
         s.state = "response-pending", Head(l.inbox).rc = "ok", ~Head(l.inbox).final,
         NEW s2, s2.state = "response-pending",
         NEW l2, l2.inbox = Tail(l.inbox), l2.outbox = l.outbox
  PROVE  TurnFits(s2, l2, p)
<1>1. /\ l.inbox \in Seq(RecordSet) /\ Head(l.inbox) = l.inbox[1]
      /\ Len(l.inbox) \in Nat \ {0} /\ Len(Tail(l.inbox)) = Len(l.inbox) - 1
      /\ \A i \in 1..(Len(l.inbox) - 1) : Tail(l.inbox)[i] = l.inbox[i + 1]
      /\ Tail(l.inbox) = <<>> <=> Len(l.inbox) = 1
  BY Taken DEF LinkSet
<1>2. CASE p.at = "serving" /\ AllBut(l.inbox, 0, Part)
  <2>1. AllBut(Tail(l.inbox), 0, Part)
    BY <1>1, <1>2, TakenAllBut
  <2> QED
    BY <1>2, <2>1, AnswerTurn DEF TurnFits
<1>3. CASE /\ AllBut(l.inbox, 1, Part)
           /\ \/ p.at = "listening" /\ l.inbox[Len(l.inbox)] \in Whole
              \/ p.at = "gone" /\ l.inbox[Len(l.inbox)] \in Last
  <2>1. Len(l.inbox) # 1
    BY <1>1, <1>3 DEF Whole, Last
  <2>2. /\ Tail(l.inbox) # <<>>
        /\ Tail(l.inbox)[Len(Tail(l.inbox))] = l.inbox[Len(l.inbox)]
    BY <1>1, <2>1
  <2>3. AllBut(Tail(l.inbox), 1, Part)
    BY <1>1, <1>3, TakenAllBut
  <2> QED
    BY <1>3, <2>2, <2>3, AnswerTurn DEF TurnFits
<1> QED
  BY <1>2, <1>3, AnswerTurn

\* What the next record of the transport leaves behind
LEMMA InboxFacts ==
  ASSUME CpicInv, exchange # None, link.inbox # <<>>,
         NEW rest, rest = [link EXCEPT !.inbox = Tail(@)]
  PROVE  /\ link.up /\ ~session.closed
         /\ Head(link.inbox) \in RecordSet /\ Head(link.inbox).epoch = exchange.id
         /\ rest \in LinkSet /\ rest.up /\ rest.inbox = Tail(link.inbox)
         /\ rest.outbox = link.outbox
         /\ \A i \in DOMAIN rest.inbox : rest.inbox[i].epoch = exchange.id
<1>1. link \in LinkSet /\ link.inbox \in Seq(RecordSet)
  BY InvParts DEF LinkSet
<1>2. /\ Head(link.inbox) \in RecordSet /\ Head(link.inbox) = link.inbox[1]
      /\ Tail(link.inbox) \in Seq(RecordSet) /\ Len(link.inbox) \in Nat \ {0}
      /\ DOMAIN Tail(link.inbox) = 1..(Len(link.inbox) - 1)
      /\ \A i \in 1..(Len(link.inbox) - 1) : Tail(link.inbox)[i] = link.inbox[i + 1]
  BY <1>1, Taken
<1>3. DOMAIN link.inbox = 1..Len(link.inbox)
  BY <1>1, LenProperties
<1>4. ExchangeFits(session, link, exchange, log) /\ LinkFits(session, link, exchange, closing)
  BY InvParts
<1>5. link.up /\ ~session.closed
  BY <1>4 DEF ExchangeFits, LinkFits
<1>6. \A i \in 1..Len(link.inbox) : link.inbox[i].epoch = exchange.id
  BY <1>3, <1>4 DEF ExchangeFits
<1>7. /\ rest \in LinkSet /\ rest.up = link.up /\ rest.inbox = Tail(link.inbox)
      /\ rest.outbox = link.outbox
  BY <1>1, <1>2 DEF LinkSet
<1> QED
  BY <1>2, <1>5, <1>6, <1>7

\* A barrier or an answer does not come.
LEMMA ReceiveFailsKeeps ==
  ASSUME CpicInv, ReceiveFails
  PROVE  Kept
<1>1. /\ exchange # None /\ Quiet /\ UNCHANGED <<closing, peer>>
      /\ exchange.at \in {"acknowledged", "receiving"}
  BY DEF ReceiveFails, Running
<1>2. PICK error \in {"NI_ABORTED", "NI_RECEIVE_TIMEOUT", "NI_CLOSED"} :
        IF exchange.at = "acknowledged" THEN WriteFails(session, link, exchange, error)
        ELSE ExchangeFails(session, link, exchange, error, "receive", exchange.transmission)
  BY DEF ReceiveFails
<1>3. CASE exchange.at = "acknowledged"
  <2> DEFINE t == IF exchange.index = 0 THEN "Unknown" ELSE "Partial"
  <2>1. ExchangeFails(session, link, exchange, error, "send", t)
    BY <1>2, <1>3 DEF WriteFails
  <2>2. t \in Transmissions /\ Honest([transmission |-> t], log[exchange.id])
    BY <1>1, RunningHonest DEF Transmissions
  <2> HIDE DEF t
  <2> QED
    BY <1>1, <2>1, <2>2, QuietFacts, InvParts, RunningFails
<1>4. CASE exchange.at = "receiving"
  <2>1. ExchangeFails(session, link, exchange, error, "receive", exchange.transmission)
    BY <1>2, <1>4
  <2>2. /\ exchange.transmission \in Transmissions
        /\ Honest([transmission |-> exchange.transmission], log[exchange.id])
    BY <1>1, <1>4, RunningHonest DEF Transmissions
  <2> QED
    BY <1>1, <2>1, <2>2, QuietFacts, InvParts, RunningFails
<1> QED
  BY <1>1, <1>3, <1>4

\* The barrier of a streamed request
LEMMA AcknowledgedKeeps ==
  ASSUME CpicInv, Acknowledged
  PROVE  Kept
<1>1. /\ exchange # None /\ exchange.at = "acknowledged" /\ Quiet /\ link.inbox # <<>>
      /\ UNCHANGED <<closing, peer>>
  BY DEF Acknowledged, Running
<1> DEFINE record == Head(link.inbox)
           rest == [link EXCEPT !.inbox = Tail(@)]
           s == [session EXCEPT !.state = Received(@, record)]
<1>2. /\ link.up /\ ~session.closed /\ rest \in LinkSet /\ rest.up
      /\ rest.inbox = Tail(link.inbox) /\ rest.outbox = link.outbox
      /\ \A i \in DOMAIN rest.inbox : rest.inbox[i].epoch = exchange.id
  BY <1>1, InboxFacts
<1>3. CASE Verdict(session.state, record) = "accepted" /\ record.known
  <2> DEFINE x == [exchange EXCEPT !.index = @ + 1]
  <2>1. Post(s, rest, calls, x)
    BY <1>3 DEF Acknowledged
  <2>2. /\ exchange \in Exchanges /\ exchange.call \in Calls /\ HasOpened(session)
        /\ exchange.id = Len(log) /\ exchange.id # 0 /\ log[exchange.id].size = exchange.of
        /\ \A c \in Calls : ~Answering(calls[c])
    BY <1>1, QuietFacts
  <2>3. /\ ExchangeFits(session, link, exchange, log) /\ session.state = "send-barrier-pending"
        /\ Function(exchange.index, exchange.size) = "SendData"
        /\ exchange.index < exchange.size
    BY <1>1, InvParts DEF ExchangeFits
  <2>4. /\ x \in Exchanges /\ x.index = exchange.index + 1
        /\ \A g \in {"call", "id", "of", "size", "callbacks", "since", "transmission"} :
             x[g] = exchange[g]
    BY <2>2 DEF Exchanges
  <2>5. x.index < x.size /\ x.index > 0
    <3>1. exchange.index \in Nat /\ exchange.size \in Nat \ {0}
      BY <2>2 DEF Exchanges
    <3>2. exchange.index + 1 < exchange.size
      BY <2>3, <3>1, FunctionFacts
    <3> QED
      BY <2>4, <3>1, <3>2
  <2>6. Received(session.state, record) = "send-continuation"
    BY <1>3, <2>3 DEF Received
  <2>7. /\ s \in SessionSet /\ s.state = "send-continuation" /\ s.opened = session.opened
        /\ s.closed = session.closed /\ s.owner = session.owner
    BY <2>6, InvParts DEF SessionSet, States
  <2>8. peer.stray = 0 => TurnFits(s, rest, peer)
    <3> SUFFICES ASSUME peer.stray = 0 PROVE TurnFits(s, rest, peer)
      OBVIOUS
    <3>1. /\ link.outbox = <<>> /\ Len(link.inbox) = 1 /\ peer.at = "collecting"
      BY <1>1, <1>2, <2>3, InvParts DEF TurnFits, Request
    <3>2. Tail(link.inbox) = <<>>
      <4>1. link.inbox \in Seq(RecordSet)
        BY InvParts DEF LinkSet
      <4> QED
        BY <1>1, <3>1, <4>1, Taken
    <3>3. AllBut(rest.outbox, 0, {"AsyncSendData"})
      BY <1>2, <3>1 DEF AllBut
    <3> HIDE DEF s, rest
    <3> QED
      BY <1>2, <2>7, <3>1, <3>2, <3>3 DEF TurnFits
  <2> HIDE DEF x, s, rest
  <2>9. Posting(s, rest, x)
    BY <1>2, <2>2, <2>3, <2>4, <2>5, <2>7, <2>8 DEF Posting, ExchangeFits, HasOpened
  <2>10. PostingMore(s, calls, x)
    BY <1>1, <2>2, <2>3, <2>4, <2>7 DEF PostingMore, ExchangeFits
  <2> QED
    BY <1>1, <2>1, <2>9, <2>10, PostKeeps
<1>4. CASE ~(Verdict(session.state, record) = "accepted" /\ record.known)
  <2> DEFINE t == IF exchange.index = 0 THEN "Unknown" ELSE "Partial"
  <2>1. ExchangeFails(session, rest, exchange, "MALFORMED", "send", t)
    BY <1>4 DEF Acknowledged, WriteFails
  <2>2. t \in Transmissions /\ Honest([transmission |-> t], log[exchange.id])
    BY <1>1, RunningHonest DEF Transmissions
  <2> HIDE DEF t, rest
  <2> QED
    BY <1>1, <1>2, <2>1, <2>2, QuietFacts, InvParts, RunningFails
<1> QED
  BY <1>3, <1>4

\* What may be received where an answer is awaited
LEMMA VerdictFacts ==
  ASSUME NEW record, Verdict("response-pending", record) # "error"
  PROVE  \/ record.rc = "ok" /\ Received("response-pending", record) = "response-pending"
         \/ record.rc = "deallocated" /\ Received("response-pending", record) = "closed"
BY DEF Verdict, Received

\* The decoder after a record
LEMMA PushedFields ==
  ASSUME NEW d \in [parts : Nat, known : BOOLEAN, initialReceive : BOOLEAN],
         NEW record, record.known \in BOOLEAN
  PROVE  Pushed(d, record) \in [parts : Nat, known : BOOLEAN, initialReceive : BOOLEAN]
<1>1. PICK known \in BOOLEAN : known = record.known
  OBVIOUS
<1> DEFINE e == [parts |-> d.parts + 1, known |-> d.known, initialReceive |-> d.initialReceive]
<1>2. /\ e \in [parts : Nat, known : BOOLEAN, initialReceive : BOOLEAN]
      /\ e = [d EXCEPT !.parts = @ + 1]
  OBVIOUS
<1> HIDE DEF e
<1>3. [e EXCEPT !.known = known] \in [parts : Nat, known : BOOLEAN, initialReceive : BOOLEAN]
  BY <1>2
<1>4. [d EXCEPT !.parts = @ + 1, !.known = record.known] = [e EXCEPT !.known = known]
  BY <1>1, <1>2
<1>5. [d EXCEPT !.parts = 0] \in [parts : Nat, known : BOOLEAN, initialReceive : BOOLEAN]
  OBVIOUS
<1> QED
  BY <1>3, <1>4, <1>5 DEF Pushed

\* What a message that is whole leaves behind: the conversation is over with it,
\* or the session is ready and nothing is under way.
Came(s, l, x) ==
  /\ s \in SessionSet /\ s.opened = session.opened /\ s.owner = session.owner
  /\ ~session.closed /\ l \in LinkSet /\ l.inbox = <<>>
  /\ x \in Exchanges /\ x.call = exchange.call /\ x.id = exchange.id /\ x.of = exchange.of
  /\ x.transmission = "Complete" /\ x.since = {x.id}
  /\ \/ s.closed /\ s.state = "closed" /\ ~l.up /\ l.outbox = <<>>
     \/ /\ ~s.closed /\ s.state = "ready" /\ l.up
        /\ peer.stray = 0 => TurnFits(s, l, peer)

\* The handler of a callback replies.
LEMMA CallBackKeeps ==
  ASSUME CpicInv, Quiet, exchange # None, exchange.at = "receiving",
         NEW s, NEW l, NEW x, Came(s, l, x), CallBack(s, l, x), UNCHANGED <<closing, peer>>
  PROVE  Kept
<1>1. /\ s \in SessionSet /\ s.opened = session.opened /\ s.owner = session.owner
      /\ l \in LinkSet /\ (s.closed => ~l.up) /\ (~l.up => l.inbox = <<>> /\ l.outbox = <<>>)
      /\ (session.closed => s.closed)
      /\ x \in Exchanges /\ x.call = exchange.call /\ x.id = exchange.id
      /\ x.transmission = "Complete"
  BY DEF Came
<1>2. "Complete" \in Transmissions /\ Honest([transmission |-> "Complete"], log[x.id])
  BY <1>1, RunningHonest DEF Transmissions
<1>3. CASE ExchangeFails(s, l, x, "MALFORMED", "receive", "Complete")
  BY <1>1, <1>2, <1>3, RunningFails
<1>4. ASSUME NEW n \in Sizes,
             Write(s, l, calls, [x EXCEPT !.size = n, !.index = 0, !.callbacks = @ + 1,
                                          !.decoder = EmptyDecoder(n > 1)])
      PROVE  Kept
  <2> DEFINE d == EmptyDecoder(n > 1)
             x1 == [x EXCEPT !.size = n]
             x2 == [x1 EXCEPT !.index = 0]
             x3 == [x2 EXCEPT !.callbacks = @ + 1]
             y == [x3 EXCEPT !.decoder = d]
  <2>1. n \in Nat \ {0} /\ d \in [parts : Nat, known : BOOLEAN, initialReceive : BOOLEAN]
    BY SessionAssumption DEF EmptyDecoder
  <2> HIDE DEF d
  <2>2. [x EXCEPT !.size = n, !.index = 0, !.callbacks = @ + 1, !.decoder = d] = y
    <3>1. [x EXCEPT !.size = n, !.index = 0] = x2
      BY <1>1 DEF Exchanges
    <3>2. [x EXCEPT !.size = n, !.index = 0, !.callbacks = @ + 1] = x3
      BY <1>1 DEF Exchanges
    <3> QED
      BY <1>1 DEF Exchanges
  <2>3. Write(s, l, calls, y)
    BY <1>4, <2>2 DEF d
  <2>4. /\ y \in Exchanges /\ y.call = x.call /\ y.id = x.id /\ y.transmission = "Complete"
        /\ y.index = 0 /\ y.size = n /\ y.callbacks # 0 /\ y.of = x.of /\ y.since = x.since
    <3> DEFINE Same(a, b) ==
                 /\ a.call = b.call /\ a.id = b.id /\ a.transmission = b.transmission
                 /\ a.of = b.of /\ a.since = b.since
    <3>1. x1 \in Exchanges /\ x1.size = n /\ Same(x1, x)
      BY <1>1, <2>1 DEF Exchanges
    <3> HIDE DEF x1
    <3>2. x2 \in Exchanges /\ x2.size = n /\ x2.index = 0 /\ Same(x2, x1)
      BY <3>1 DEF Exchanges
    <3> HIDE DEF x2
    <3>3. /\ x3 \in Exchanges /\ x3.size = n /\ x3.index = 0 /\ x3.callbacks # 0
          /\ Same(x3, x2)
      BY <3>2 DEF Exchanges
    <3> HIDE DEF x3
    <3>4. /\ y \in Exchanges /\ y.size = n /\ y.index = 0 /\ y.callbacks # 0
          /\ Same(y, x3)
      BY <2>1, <3>3 DEF Exchanges
    <3> QED
      BY <1>1, <3>1, <3>2, <3>3, <3>4
  <2> HIDE DEF y
  <2>5. CASE s.state # "ready"
    <3>1. ExchangeFails(s, l, y, "MALFORMED", "send", "Complete")
      BY <2>3, <2>4, <2>5 DEF Write
    <3> QED
      BY <1>1, <1>2, <2>4, <3>1, RunningFails
  <2>6. CASE s.state = "ready"
    <3>1. Post(s, l, calls, y)
      BY <2>3, <2>6 DEF Write
    <3>2. /\ ~s.closed /\ l.up /\ ~session.closed /\ l.inbox = <<>> /\ x.since = {x.id}
          /\ peer.stray = 0 => TurnFits(s, l, peer)
      BY <2>6 DEF Came
    <3>3. /\ HasOpened(session) /\ exchange.id = Len(log) /\ exchange.id # 0
          /\ log[exchange.id].size = exchange.of
          /\ \A c \in Calls : ~Answering(calls[c])
      BY QuietFacts
    <3>4. log[exchange.id].sent = exchange.of
      BY InvParts DEF ExchangeFits
    <3>5. Posting(s, l, y)
      BY <1>1, <2>1, <2>4, <2>6, <3>2, <3>3, EmptySeq DEF Posting, HasOpened
    <3>6. PostingMore(s, calls, y)
      BY <1>1, <2>4, <3>3, <3>4 DEF PostingMore, Came
    <3> QED
      BY <3>1, <3>5, <3>6, PostKeeps
  <2> QED
    BY <2>5, <2>6
<1> QED
  BY <1>3, <1>4 DEF CallBack

\* The exchange returns, and its caller is to decode the answer.
LEMMA AnsweredKeeps ==
  ASSUME CpicInv, Quiet, exchange # None, exchange.at = "receiving",
         NEW s, NEW l, NEW x, Came(s, l, x), NEW body \in Messages, NEW over \in BOOLEAN,
         session' = s, link' = l, exchange' = None, UNCHANGED <<log, closing, peer>>,
         calls' = [calls EXCEPT ![x.call] = [@ EXCEPT !.at = "answered", !.answer =
                     [body |-> body, over |-> over, since |-> x.since]]]
  PROVE  Kept
<1> DEFINE c == exchange.call
           a == [body |-> body, over |-> over, since |-> x.since]
           r == [calls[c] EXCEPT !.at = "answered", !.answer = a]
<1>1. /\ c \in Calls /\ HasOpened(session) /\ exchange.id = Len(log) /\ exchange.id # 0
      /\ log[exchange.id].size = exchange.of /\ closing # "deallocating"
      /\ \A d \in Calls : ~Answering(calls[d])
  BY QuietFacts
<1>2. /\ calls[c] \in CallRecords /\ calls[c].at = "waiting" /\ calls[c].id = exchange.id
      /\ \A d \in Calls \ {c} : calls[d].at # "waiting"
      /\ CallFits(calls[c], session, exchange, log)
      /\ log[exchange.id].sent = exchange.of
  BY <1>1, InvParts DEF CallsFit, ExchangeFits
<1>3. x.call = c /\ x.since = {exchange.id} /\ x.since \in SUBSET Nat
  BY <1>1, InvParts DEF Came
<1>4. a \in AnswerSet /\ a.since = {exchange.id}
  BY <1>3 DEF AnswerSet
<1>5. calls' = [calls EXCEPT ![c] = r]
  BY <1>1, <1>3, InvParts
<1> HIDE DEF a
<1>6. /\ r \in CallRecords /\ r.at = "answered" /\ r.answer = a /\ r.id = exchange.id
      /\ r.todo = calls[c].todo
  BY <1>2, <1>4 DEF CallRecords
<1> HIDE DEF r
<1>7. /\ calls' \in [Calls -> CallRecords] /\ calls'[c] = r
      /\ \A d \in Calls \ {c} : calls'[d] = calls[d]
  BY <1>1, <1>5, <1>6, InvParts
<1>8. CallFits(r, s, None, log)
  <2>1. r.todo # <<>>
    BY <1>2, <1>6 DEF CallFits
  <2>2. Past(None, log, exchange.id)
    BY <1>1, InvParts DEF Past
  <2> QED
    BY <1>1, <1>2, <1>4, <1>6, <2>1, <2>2 DEF CallFits, Answering
<1>9. \A d \in Calls : CallFits(calls'[d], s, None, log)
  <2>1. ASSUME NEW d \in Calls \ {c} PROVE CallFits(calls[d], s, None, log)
    <3>1. CallFits(calls[d], session, exchange, log) /\ ~session.closed
      BY InvParts DEF CallsFit, Came
    <3>2. \A id : Past(exchange, log, id) => Past(None, log, id)
      BY DEF Past
    <3> QED
      BY <3>1, <3>2, CallStays
  <2> QED
    BY <1>7, <1>8, <2>1
<1>10. CallsFit(s, l, None, calls', log)
  <2>1. \A d \in Calls \ {c} : ~Answering(calls'[d]) /\ calls'[d].at # "waiting"
    BY <1>1, <1>2, <1>7
  <2>2. calls'[c].at # "waiting"
    BY <1>6, <1>7
  <2>3. /\ s.closed => s.state = "closed"
        /\ ~s.closed => l.up /\ l.inbox = <<>>
    BY DEF Came
  <2> QED
    BY <1>9, <2>1, <2>2, <2>3 DEF CallsFit
<1>11. OwnerFits(s, None, calls', log)
  <2>1. session.owner \in Calls \cup {None} /\ s.owner = session.owner
    BY InvParts DEF SessionSet, Came
  <2>2. ResetUnderWay' => ResetUnderWay
    <3>1. log # <<>> => log[Len(log)].call \in Calls
      <4>1. log # <<>> => log[Len(log)] \in EntrySet
        BY InvParts, EmptySeq, ElementOfSeq
      <4> QED
        BY <4>1 DEF EntrySet
    <3> QED
      BY <1>2, <1>7, <3>1 DEF ResetUnderWay
  <2>3. session.owner # None => /\ calls'[session.owner].at \notin {"new", "settled"}
                                /\ Head(calls'[session.owner].todo) \in {"reset", "refresh"}
    BY <1>6, <1>7, <2>1, InvParts DEF OwnerFits
  <2> QED
    BY <2>1, <2>2, <2>3, InvParts DEF OwnerFits, ResetUnderWay
<1>12. CpicInv'
  <2>1. LinkFits(s, l, None, closing)
    BY <1>1 DEF LinkFits, Came
  <2>2. OpeningFits(s, l, None, calls', log, closing, peer)
    BY <1>1 DEF OpeningFits, HasOpened, Came
  <2>3. peer.stray = 0 => TurnFits(s, l, peer)
    BY InvParts DEF TurnFits, Came
  <2> QED
    BY <1>7, <1>10, <1>11, <2>1, <2>2, <2>3, InvParts
    DEF CpicInv, Inv, Typed, SessionOf, Came
<1>13. Sound
  BY <1>6, <1>7, InvParts DEF Sound
<1> QED
  BY <1>12, <1>13 DEF Kept

\* A record of the answer
LEMMA ReceiveKeeps ==
  ASSUME CpicInv, Receive
  PROVE  Kept
<1>1. /\ exchange # None /\ exchange.at = "receiving" /\ Quiet /\ link.inbox # <<>>
      /\ UNCHANGED <<closing, peer>>
  BY DEF Receive, Running
<1> DEFINE record == Head(link.inbox)
           rest == [link EXCEPT !.inbox = Tail(@)]
           s == [session EXCEPT !.state = Received(@, record)]
           x == [exchange EXCEPT !.decoder = Pushed(@, record), !.since = @ \cup {record.epoch}]
           push == Push(exchange.decoder, record)
           verdict == Verdict(session.state, record)
<1>2. /\ link.up /\ ~session.closed /\ rest \in LinkSet /\ rest.up
      /\ rest.inbox = Tail(link.inbox) /\ rest.outbox = link.outbox
      /\ \A i \in DOMAIN rest.inbox : rest.inbox[i].epoch = exchange.id
      /\ record \in RecordSet /\ record.epoch = exchange.id
  BY <1>1, InboxFacts
<1>3. /\ exchange \in Exchanges /\ HasOpened(session) /\ exchange.id = Len(log)
      /\ exchange.id # 0 /\ \A c \in Calls : ~Answering(calls[c])
      /\ closing # "deallocating" /\ exchange.id \in Nat /\ exchange.call \in Calls
  BY <1>1, QuietFacts DEF Exchanges
<1>4. /\ session.state = "response-pending" /\ exchange.since \subseteq {exchange.id}
      /\ exchange.transmission = "Complete" /\ ExchangeFits(session, link, exchange, log)
  BY <1>1, InvParts DEF ExchangeFits
<1>5. /\ s \in SessionSet /\ s.state = Received(session.state, record)
      /\ s.opened = session.opened /\ s.closed = session.closed /\ s.owner = session.owner
  <2>1. Received(session.state, record) \in States
    BY <1>4 DEF Received, States
  <2> QED
    BY <2>1, InvParts DEF SessionSet
<1>6. /\ x \in Exchanges /\ x.since = {exchange.id} /\ x.transmission = "Complete"
      /\ \A g \in {"call", "id", "of", "size", "index", "callbacks", "at"} : x[g] = exchange[g]
  <2>1. exchange.decoder \in [parts : Nat, known : BOOLEAN, initialReceive : BOOLEAN]
    BY <1>3 DEF Exchanges
  <2>2. Pushed(exchange.decoder, record) \in
          [parts : Nat, known : BOOLEAN, initialReceive : BOOLEAN]
    <3>1. record.known \in BOOLEAN
      BY <1>2 DEF RecordSet
    <3> QED
      BY <2>1, <3>1, PushedFields
  <2> DEFINE e == Pushed(exchange.decoder, record)
             since == exchange.since \cup {record.epoch}
             y == [exchange EXCEPT !.decoder = e]
  <2>3. since = {exchange.id} /\ since \in SUBSET Nat
    BY <1>2, <1>3, <1>4
  <2> HIDE DEF e, since
  <2>4. /\ y \in Exchanges
        /\ \A g \in {"call", "id", "of", "size", "index", "callbacks", "at", "transmission",
                     "since"} : y[g] = exchange[g]
    BY <1>3, <2>2 DEF Exchanges, e
  <2>5. x = [y EXCEPT !.since = since]
    BY <1>3 DEF Exchanges, e, since
  <2> HIDE DEF y
  <2>6. /\ [y EXCEPT !.since = since] \in Exchanges
        /\ [y EXCEPT !.since = since].since = since
        /\ \A g \in {"call", "id", "of", "size", "index", "callbacks", "at", "transmission"} :
             [y EXCEPT !.since = since][g] = y[g]
    BY <2>3, <2>4 DEF Exchanges
  <2> HIDE DEF x
  <2> QED
    BY <1>4, <2>3, <2>4, <2>5, <2>6
<1>7. "Complete" \in Transmissions /\ Honest([transmission |-> "Complete"], log[x.id])
  BY <1>1, <1>6, RunningHonest DEF Transmissions
<1>8. \/ \E error : ExchangeFails(s, rest, x, error, "receive", "Complete")
      \/ /\ verdict # "error" /\ push = "message" /\ Message(s, x, record)
      \/ /\ verdict # "error" /\ push \notin {"error", "no-data", "message"}
         /\ session' = s /\ exchange' = x /\ link' = rest /\ UNCHANGED <<calls, log>>
  BY DEF Receive
<1> HIDE DEF s, x, rest
<1>9. ASSUME NEW error, ExchangeFails(s, rest, x, error, "receive", "Complete")
      PROVE  Kept
  BY <1>1, <1>2, <1>5, <1>6, <1>7, <1>9, RunningFails
<1>10. ASSUME verdict # "error", push \notin {"error", "no-data", "message"},
              session' = s, exchange' = x, link' = rest, UNCHANGED <<calls, log>>
       PROVE  Kept
  <2>1. record.rc = "ok" /\ ~record.final /\ s.state = "response-pending"
    <3>1. ~Complete(record)
      BY <1>10 DEF Push
    <3> QED
      BY <1>4, <1>5, <1>10, <3>1, VerdictFacts DEF Complete
  <2>2. ExchangeFits(s, rest, x, log)
    BY <1>1, <1>2, <1>4, <1>5, <1>6, <2>1 DEF ExchangeFits
  <2>3. LinkFits(s, rest, x, closing) /\ OpeningFits(s, rest, x, calls, log, closing, peer)
    BY <1>2, <1>3, <1>5, <2>1, <1>6, SessionAssumption DEF LinkFits, OpeningFits, HasOpened
  <2>4. peer.stray = 0 => TurnFits(s, rest, peer)
    BY <1>1, <1>2, <1>4, <2>1, InvParts, PartTurn
  <2>5. /\ session' \in SessionSet /\ session'.owner = session.owner
        /\ session'.closed = session.closed /\ link' \in LinkSet
        /\ exchange' \in Exchanges /\ exchange' # None /\ exchange'.call = exchange.call
        /\ exchange'.id = exchange.id /\ peer' \in PeerSet
        /\ closing' \in {None, "deallocating", "done"}
    BY <1>1, <1>2, <1>5, <1>6, <1>10, InvParts, SessionAssumption
  <2>6. /\ ExchangeFits(session', link', exchange', log)
        /\ LinkFits(session', link', exchange', closing')
        /\ OpeningFits(session', link', exchange', calls, log, closing', peer')
        /\ peer'.stray = 0 => TurnFits(session', link', peer')
    BY <1>1, <1>10, <2>2, <2>3, <2>4
  <2> QED
    BY <1>1, <1>10, <2>5, <2>6, StillKeeps
<1>11. ASSUME verdict # "error", push = "message", Message(s, x, record)
       PROVE  Kept
  <2> DEFINE over == record.rc = "deallocated"
             done == IF over THEN Terminated(s) ELSE [s EXCEPT !.state = "ready"]
             l == IF over THEN LinkOf(s, rest) ELSE rest
  <2>1. /\ record.rc \in {"ok", "deallocated"}
        /\ record.rc = "ok" => s.state = "response-pending" /\ record.final
        /\ record.rc = "deallocated" => s.state = "closed"
    <3>1. Complete(record)
      BY <1>11 DEF Push
    <3> QED
      BY <1>4, <1>5, <1>11, <3>1, VerdictFacts DEF Complete
  <2>2. \/ ExchangeFails(s, rest, x, "MALFORMED", "receive", "Complete")
        \/ /\ over \/ ~Stale(rest)
           /\ \/ CallBack(done, l, x)
              \/ /\ session' = done /\ link' = l /\ exchange' = None /\ UNCHANGED log
                 /\ calls' = [calls EXCEPT ![x.call] = [@ EXCEPT !.at = "answered", !.answer =
                               [body |-> record.body, over |-> over, since |-> x.since]]]
    <3>1. CASE ~record.known \/ (~over /\ Stale(rest))
      BY <1>11, <3>1 DEF Message, rest
    <3>2. CASE ~(~record.known \/ (~over /\ Stale(rest))) /\ record.body = "callback"
      BY <1>11, <3>2 DEF Message, rest
    <3>3. CASE ~(~record.known \/ (~over /\ Stale(rest))) /\ record.body # "callback"
      BY <1>11, <3>3 DEF Message, rest
    <3> QED
      BY <3>1, <3>2, <3>3
  <2>3. ASSUME over \/ ~Stale(rest)
        PROVE  Came(done, l, x)
    <3>1. CASE over
      <4>1. /\ done = Terminated(s) /\ l = LinkOf(s, rest) /\ s.state = "closed"
        BY <2>1, <3>1
      <4>2. /\ done \in SessionSet /\ done.closed /\ done.owner = s.owner
            /\ done.state = s.state /\ done.opened = s.opened
        BY <1>5, <4>1, TerminatedFields
      <4>3. /\ Cut(rest) \in LinkSet /\ ~Cut(rest).up
            /\ Cut(rest).inbox = <<>> /\ Cut(rest).outbox = <<>>
        BY <1>2, LinkFields
      <4>4. l = Cut(rest)
        BY <1>2, <1>5, <4>1 DEF LinkOf
      <4> HIDE DEF done, l
      <4> QED
        BY <1>2, <1>4, <1>5, <1>6, <4>1, <4>2, <4>3, <4>4 DEF Came
    <3>2. CASE ~over
      <4>1. done = [s EXCEPT !.state = "ready"] /\ l = rest
        BY <3>2
      <4>2. /\ done \in SessionSet /\ done.state = "ready" /\ done.opened = s.opened
            /\ done.owner = s.owner /\ done.closed = s.closed
        BY <1>5, <4>1 DEF SessionSet, States
      <4>3. record.rc = "ok" /\ record.final /\ Tail(link.inbox) = <<>>
        BY <1>2, <2>1, <2>3, <3>2 DEF Stale
      <4> HIDE DEF done, l
      <4>4. peer.stray = 0 => TurnFits(done, l, peer)
        BY <1>1, <1>2, <1>4, <4>1, <4>2, <4>3, InvParts, MessageTurn
      <4> QED
        BY <1>2, <1>4, <1>5, <1>6, <4>1, <4>2, <4>3, <4>4 DEF Came
    <3> QED
      BY <3>1, <3>2
  <2>4. record.body \in Messages /\ over \in BOOLEAN
    BY <1>2 DEF RecordSet
  <2> HIDE DEF over, done, l
  <2>5. CASE ExchangeFails(s, rest, x, "MALFORMED", "receive", "Complete")
    BY <1>9, <2>5
  <2>6. CASE (over \/ ~Stale(rest)) /\ CallBack(done, l, x)
    BY <1>1, <2>3, <2>6, CallBackKeeps
  <2>7. CASE /\ over \/ ~Stale(rest)
             /\ session' = done /\ link' = l /\ exchange' = None /\ UNCHANGED log
             /\ calls' = [calls EXCEPT ![x.call] = [@ EXCEPT !.at = "answered", !.answer =
                           [body |-> record.body, over |-> over, since |-> x.since]]]
    <3>1. Came(done, l, x)
      BY <2>3, <2>7
    <3> HIDE DEF record
    <3> QED
      BY <1>1, <2>4, <2>7, <3>1, AnsweredKeeps
  <2> QED
    BY <2>2, <2>5, <2>6, <2>7
<1> QED
  BY <1>8, <1>9, <1>10, <1>11

(***************************************************************************)
(* Calls that begin an exchange                                            *)
(***************************************************************************)
\* A failure of the client's own before anything was sent is harmless.
LEMMA LocalFacts ==
  ASSUME NEW category \in Local, NEW origin \in {"api", "codec"}, NEW phase
  PROVE  Failure(category, origin, phase, "NotStarted", 0).disposition = "reusable"
BY DEF Failure, Disposition, Reusable

\* A call may take its next step: it is not under way, and the one that resets
\* goes on with the refresh.
Turn(c, todo) ==
  /\ c \in Calls /\ todo \in Todos /\ calls[c].at \in {"new", "next"} /\ HasOpened(session)
  /\ session.owner = c => Head(todo) = "refresh"

\* What such a call finds
LEMMA TurnFacts ==
  ASSUME CpicInv, NEW c, NEW todo, Turn(c, todo)
  PROVE  /\ ~Answering(calls[c]) /\ calls[c].at \notin {"waiting", "settled"}
         /\ session.owner = c => exchange = None
         /\ MayFollow(c, Head(todo)) \/ ~Available(c)
<1>1. ~Answering(calls[c]) /\ calls[c].at \notin {"waiting", "settled"}
  BY DEF Turn, Answering
<1>2. session.owner = c => exchange = None
  BY <1>1, InvParts, SessionAssumption DEF OwnerFits, CallsFit, Turn
<1>3. Available(c) => MayFollow(c, Head(todo))
  <2>1. log # <<>> => log[Len(log)] \in EntrySet
    BY InvParts, EmptySeq, ElementOfSeq
  <2>2. log # <<>> => log[Len(log)].call # None
    BY <2>1, SessionAssumption DEF EntrySet
  <2>3. ResetUnderWay => session.owner = log[Len(log)].call
    BY InvParts DEF ResetUnderWay, OwnerFits
  <2> QED
    BY <2>2, <2>3 DEF Available, MayFollow, ResetUnderWay, Turn
<1> QED
  BY <1>1, <1>2, <1>3

\* An exchange begins, or fails at once.
LEMMA BeginKeeps ==
  ASSUME CpicInv, NEW c \in Calls, NEW todo \in Todos, Turn(c, todo),
         ~session.closed, Available(c), NEW n \in Nat \ {0},
         NEW owned, owned = [session EXCEPT !.owner = IF Head(todo) = "reset" THEN c ELSE @],
         NEW waits, waits = [calls EXCEPT ![c] = [NewCall EXCEPT !.at = "waiting",
                                                     !.todo = todo, !.id = begun + 1]],
         Begin(owned, waits, NewExchange(c, Head(todo), n)), UNCHANGED <<closing, peer>>
  PROVE  Kept
<1> DEFINE x == NewExchange(c, Head(todo), n)
<1>1. /\ x \in Exchanges /\ x.call = c /\ x.step = Head(todo) /\ x.id = Len(log) + 1
      /\ x.of = n /\ x.size = n /\ x.index = 0 /\ x.transmission = "NotStarted"
      /\ x.callbacks = 0 /\ x.since = {}
  <2>1. EmptyDecoder(n > 1) \in [parts : Nat, known : BOOLEAN, initialReceive : BOOLEAN]
    BY DEF EmptyDecoder
  <2>2. Head(todo) \in Steps /\ Len(log) + 1 \in Nat
    BY TodoFacts, InvParts
  <2> QED
    BY <2>1, <2>2 DEF NewExchange, Exchanges, begun
<1> HIDE DEF x
<1>2. /\ owned \in SessionSet /\ owned.state = session.state /\ owned.opened = session.opened
      /\ owned.closed = session.closed
      /\ owned.owner = IF Head(todo) = "reset" THEN c ELSE session.owner
  <2>1. PICK o \in Calls \cup {None} : o = IF Head(todo) = "reset" THEN c ELSE session.owner
    BY InvParts DEF SessionSet
  <2>2. owned = [session EXCEPT !.owner = o]
    BY <2>1, InvParts DEF SessionSet
  <2> QED
    BY <2>1, <2>2, InvParts DEF SessionSet
<1>3. /\ exchange = None /\ session.owner \in {None, c} /\ closing # "deallocating"
      /\ HasOpened(session) /\ session.state = "ready"
      /\ MayFollow(c, Head(todo)) /\ ~Answering(calls[c])
  BY TurnFacts, InvParts DEF Available, LinkFits, OpeningFits, Turn
<1>4. (\E d \in Calls : Answering(calls[d])) => link.up /\ link.inbox = <<>>
  BY InvParts DEF CallsFit
<1>5. CASE ~link.up \/ Stale(link)
  <2>1. PICK error : ExchangeFails(owned, link, x, error, "send", "NotStarted")
    BY <1>5 DEF Begin, x
  <2>2. /\ link \in LinkSet
        /\ ~link.up => link.inbox = <<>> /\ link.outbox = <<>>
        /\ \A d \in Calls : ~Answering(calls[d])
    BY <1>4, <1>5, InvParts DEF LinkFits, Stale
  <2>3. Failing(owned, link, x, "NotStarted")
    BY <1>1, <1>2, <1>3, <2>2 DEF Failing, HasOpened, Transmissions
  <2> QED
    BY <2>1, <2>3, ExchangeFailsKeeps
<1>6. CASE link.up /\ ~Stale(link)
  <2>1. Post(owned, link, waits, x)
    BY <1>2, <1>3, <1>6 DEF Begin, Write, x
  <2>2. link.up /\ link.inbox = <<>> /\ link \in LinkSet
    BY <1>6, InvParts DEF Stale
  <2>3. peer.stray = 0 => TurnFits(owned, link, peer)
    BY <1>2, InvParts DEF TurnFits
  <2>4. Posting(owned, link, x)
    <3>1. DOMAIN link.inbox = {}
      BY <2>2
    <3>2. owned.opened = session.opened /\ HasOpened(owned) /\ ~owned.closed
      BY <1>2, <1>3 DEF HasOpened
    <3> QED
      BY <1>1, <1>2, <1>3, <2>2, <2>3, <3>1, <3>2 DEF Posting
  <2>5. /\ waits \in [Calls -> CallRecords] /\ \A d \in Calls \ {c} : waits[d] = calls[d]
        /\ waits[c].at = "waiting" /\ waits[c].todo = todo /\ waits[c].id = x.id
        /\ waits[c].answer = None
    <3> DEFINE r == [NewCall EXCEPT !.at = "waiting", !.todo = todo, !.id = begun + 1]
    <3>1. begun + 1 \in Nat /\ x.id = begun + 1
      BY <1>1, InvParts DEF begun
    <3>2. /\ r \in CallRecords /\ r.at = "waiting" /\ r.todo = todo /\ r.id = begun + 1
          /\ r.answer = None
      BY <3>1 DEF NewCall, CallRecords
    <3> HIDE DEF r
    <3>3. waits = [calls EXCEPT ![c] = r]
      BY DEF r
    <3> QED
      BY <3>1, <3>2, <3>3, InvParts
  <2>6. PostingFirst(owned, link, waits, x)
    <3>1. owned.owner = c => Head(todo) \in {"reset", "refresh"}
      BY <1>2 DEF Turn
    <3>2. owned.owner \in {session.owner, c} /\ (Head(todo) = "reset" => owned.owner = c)
      BY <1>2
    <3>3. calls[c].at \in {"new", "next"}
      BY DEF Turn
    <3> QED
      BY <1>1, <1>3, <2>2, <2>5, <3>1, <3>2, <3>3 DEF PostingFirst
  <2> QED
    BY <2>1, <2>4, <2>6, PostKeeps
<1> QED
  BY <1>5, <1>6

\* #exchange(), up to its first await
LEMMA ExchangeKeeps ==
  ASSUME CpicInv, NEW c \in Calls, NEW todo \in Todos, Turn(c, todo), Exchange(c, todo),
         UNCHANGED <<closing, peer>>
  PROVE  Kept
<1>1. /\ HasOpened(session) /\ session \in SessionSet /\ calls[c].at # "waiting"
      /\ session.owner = c => exchange = None
  BY TurnFacts, InvParts DEF Turn
<1>2. ASSUME session.closed, calls' = Settled(c, Rejection),
             session' = Freed(session, c), UNCHANGED <<link, exchange, log>>
      PROVE  Kept
  <2>1. Ending(c, Rejection)
    BY <1>1, OutcomeFacts, SessionAssumption DEF Ending, Dispositions
  <2> QED
    BY <1>1, <1>2, <2>1, FreedFields, SettleKeeps
<1>3. ASSUME ~session.closed, ~Available(c),
             calls' = Settled(c, Failure("InvalidState", "api", "send", "NotStarted", 0)),
             UNCHANGED <<session, link, exchange, log>>
      PROVE  Kept
  <2> DEFINE o == Failure("InvalidState", "api", "send", "NotStarted", 0)
  <2>1. o \in OutcomeSet /\ o.exchange = 0 /\ o.disposition = "reusable"
    <3>1. "NotStarted" \in Transmissions /\ "InvalidState" \in Local /\ 0 \in Nat
      BY DEF Transmissions, Local
    <3>2. o \in OutcomeSet /\ o.exchange = 0
      BY <3>1, FailureFacts
    <3>3. o.disposition = "reusable"
      BY <3>1, LocalFacts
    <3> QED
      BY <3>2, <3>3
  <2> HIDE DEF o
  <2>2. Ending(c, o)
    BY <1>1, <1>3, <2>1 DEF Ending
  <2>3. session.owner # c
    BY <1>1, <1>3 DEF Available
  <2> QED
    BY <1>1, <1>3, <2>2, <2>3, SettleKeeps DEF o
<1>4. ASSUME ~session.closed,
             calls' = Settled(c, Failure("Serialization", "codec", "encode", "NotStarted", 0)),
             session' = Freed(session, c), UNCHANGED <<link, exchange, log>>
      PROVE  Kept
  <2> DEFINE o == Failure("Serialization", "codec", "encode", "NotStarted", 0)
  <2>1. o \in OutcomeSet /\ o.exchange = 0 /\ o.disposition = "reusable"
    <3>1. "NotStarted" \in Transmissions /\ "Serialization" \in Local /\ 0 \in Nat
      BY DEF Transmissions, Local
    <3>2. o \in OutcomeSet /\ o.exchange = 0
      BY <3>1, FailureFacts
    <3>3. o.disposition = "reusable"
      BY <3>1, LocalFacts
    <3> QED
      BY <3>2, <3>3
  <2> HIDE DEF o
  <2>2. Ending(c, o)
    BY <1>1, <1>4, <2>1, FreedFields DEF Ending
  <2> QED
    BY <1>1, <1>4, <2>2, FreedFields, SettleKeeps DEF o
<1>5. ASSUME ~session.closed, Available(c), NEW n \in SizesOf(Head(todo)),
             Begin([session EXCEPT !.owner = IF Head(todo) = "reset" THEN c ELSE @],
                   [calls EXCEPT ![c] = [NewCall EXCEPT !.at = "waiting", !.todo = todo,
                                                        !.id = begun + 1]],
                   NewExchange(c, Head(todo), n))
      PROVE  Kept
  <2>1. n \in Nat \ {0}
    BY SessionAssumption DEF SizesOf
  <2> QED
    BY <1>5, <2>1, BeginKeeps
<1> QED
  BY <1>2, <1>3, <1>4, <1>5 DEF Exchange

\* A step of a call
LEMMA StepOfKeeps ==
  ASSUME CpicInv, NEW c \in Calls, NEW todo \in Todos, Turn(c, todo), StepOf(c, todo),
         UNCHANGED <<closing, peer>>
  PROVE  Kept
<1> DEFINE step == Head(todo)
           checked == step \notin {"invoke", "refresh"}
           refused == IF step = "logon" THEN session.authenticated ELSE checked /\ ~LoggedOn
<1>1. /\ HasOpened(session) /\ session \in SessionSet
      /\ calls[c].at \notin {"waiting", "settled"}
  BY TurnFacts, InvParts DEF Turn
<1>2. ASSUME session.owner # c, calls' = Settled(c, Rejection),
             UNCHANGED <<session, link, exchange, log>>
      PROVE  Kept
  <2>1. Ending(c, Rejection)
    BY <1>1, OutcomeFacts, SessionAssumption DEF Ending, Dispositions
  <2> QED
    BY <1>1, <1>2, <2>1, SettleKeeps
<1>3. CASE refused /\ calls' = Settled(c, Rejection) /\ UNCHANGED <<session, link, exchange, log>>
  BY <1>2, <1>3 DEF Turn
<1>4. CASE After(c, session, todo, 0) /\ UNCHANGED <<link, exchange, log>>
  <2>1. session.owner = c => Head(todo) \in {"reset", "refresh"}
    BY DEF Turn
  <2> QED
    BY <1>1, <1>4, <2>1, AfterKeeps
<1>5. CASE /\ step \in Invocations /\ calls' = Settled(c, Rejection)
           /\ UNCHANGED <<session, link, exchange, log>>
  BY <1>2, <1>5 DEF Turn, Invocations
<1>6. CASE Exchange(c, todo)
  BY <1>6, ExchangeKeeps
<1> QED
  BY <1>3, <1>4, <1>5, <1>6 DEF StepOf

\* The handshake has four records.
LEMMA OpenIsOpened == Open <=> HasOpened(session)
BY DEF Open, HasOpened, Handshake

\* A call is made.
LEMMA CallKeeps ==
  ASSUME CpicInv, NEW c \in Calls, Call(c)
  PROVE  Kept
<1>1. PICK kind \in Kinds[c] : StepOf(c, Script[kind])
  BY DEF Call
<1>2. Open /\ calls[c].at = "new" /\ UNCHANGED <<closing, peer>>
  BY DEF Call
<1>3. Script[kind] \in Todos
  BY SessionAssumption, ScriptFacts
<1>4. session.owner # c
  BY <1>2, InvParts, SessionAssumption DEF OwnerFits
<1>5. Turn(c, Script[kind])
  BY <1>2, <1>3, <1>4, OpenIsOpened DEF Turn
<1> QED
  BY <1>1, <1>2, <1>3, <1>5, StepOfKeeps

\* A call goes on.
LEMMA ContinueKeeps ==
  ASSUME CpicInv, NEW c \in Calls, Continue(c)
  PROVE  Kept
<1>1. calls[c].at = "next" /\ StepOf(c, calls[c].todo) /\ UNCHANGED <<closing, peer>>
  BY DEF Continue
<1>2. calls[c].todo \in Todos /\ Head(calls[c].todo) # "reset" /\ HasOpened(session)
  BY <1>1, InvParts DEF CallRecords, CallsFit, CallFits, OpeningFits
<1>3. session.owner = c => Head(calls[c].todo) = "refresh"
  BY <1>2, InvParts, SessionAssumption DEF OwnerFits
<1>4. Turn(c, calls[c].todo)
  BY <1>1, <1>2, <1>3 DEF Turn
<1> QED
  BY <1>1, <1>2, <1>4, StepOfKeeps

(***************************************************************************)
(* What the call makes of the answer                                       *)
(***************************************************************************)
\* What a call that has its answer finds
LEMMA AnsweringFacts ==
  ASSUME CpicInv, NEW c \in Calls, Answering(calls[c])
  PROVE  /\ calls[c].todo \in Todos /\ calls[c].id \in Nat /\ calls[c].id # 0
         /\ calls[c].answer \in AnswerSet
         /\ calls[c].at \notin {"waiting", "settled"} /\ HasOpened(session)
         /\ Past(exchange, log, calls[c].id)
         /\ log[calls[c].id].sent = log[calls[c].id].size
         /\ session.closed <=> session.state = "closed"
         /\ session.owner = c => Head(calls[c].todo) \in {"reset", "refresh"}
         /\ calls[c].at = "decoded" => Head(calls[c].todo) \in Applied
<1>1. /\ CallFits(calls[c], session, exchange, log) /\ calls[c] \in CallRecords
      /\ calls[c].at \in {"answered", "decoded"}
  BY InvParts DEF CallsFit, Answering
<1>2. /\ calls[c].todo \in Todos /\ calls[c].id \in Nat
  BY <1>1 DEF CallFits, CallRecords
<1>3. Past(exchange, log, calls[c].id) /\ calls[c].id # 0
  BY <1>1, InvParts DEF CallFits, Past
<1>4. session.closed <=> session.state = "closed"
  BY InvParts DEF CallsFit, LinkFits
<1>5. session.owner = c => Head(calls[c].todo) \in {"reset", "refresh"}
  BY InvParts, SessionAssumption DEF OwnerFits
<1>6. HasOpened(session)
  BY <1>1, InvParts DEF OpeningFits
<1> QED
  BY <1>1, <1>2, <1>3, <1>4, <1>5, <1>6 DEF CallFits

\* The failure of an answer that is not the one the call hoped for
LEMMA AnswerFails ==
  ASSUME CpicInv, NEW c \in Calls, Answering(calls[c]), NEW category, NEW origin, NEW phase,
         CallFails(c, Failure(category, origin, phase, "Complete", calls[c].id)),
         category \in {"MalformedProtocol", "Logon"} \/ session.state # "closed" \/ origin # "sap",
         UNCHANGED <<exchange, log, closing, peer>>
  PROVE  Kept
<1> DEFINE o == Failure(category, origin, phase, "Complete", calls[c].id)
<1>1. calls[c].id \in Nat /\ "Complete" \in Transmissions
  BY AnsweringFacts DEF Transmissions
<1>2. /\ o \in OutcomeSet /\ o.exchange = calls[c].id /\ o.transmission = "Complete"
      /\ category \in {"MalformedProtocol", "Logon"} => o.disposition # "reusable"
      /\ origin # "sap" => o.disposition # "reusable"
  BY <1>1, FailureFacts
<1>3. CallFails(c, o)
  OBVIOUS
<1> HIDE DEF o
<1>4. o.disposition = "reusable" => session.state # "closed"
  BY <1>2
<1> QED
  BY <1>2, <1>3, <1>4, CallFailsKeeps

\* logonAndPing()
LEMMA LogonAnsweredKeeps ==
  ASSUME CpicInv, NEW c \in Calls, calls[c].at = "answered", Head(calls[c].todo) = "logon",
         LogonAnswered(c), UNCHANGED <<exchange, log, closing, peer>>
  PROVE  Kept
<1>1. Answering(calls[c])
  BY DEF Answering
<1>2. CASE calls[c].answer.body = "success"
  <2> DEFINE o == Success(calls[c].id)
  <2>1. /\ calls' = Settled(c, o) /\ link' = link
        /\ session' = [session EXCEPT !.id = TRUE, !.authenticated = TRUE]
    BY <1>2 DEF LogonAnswered
  <2>2. /\ session' \in SessionSet /\ session'.state = session.state
        /\ session'.opened = session.opened /\ session'.closed = session.closed
        /\ session'.owner = session.owner
    BY <2>1, InvParts DEF SessionSet
  <2>3. session.owner # c /\ HasOpened(session)
    BY <1>1, AnsweringFacts
  <2>4. Ending(c, o)
    BY <1>1, AnsweringFacts, OutcomeFacts, SessionAssumption DEF Ending, Honest, Dispositions
  <2> HIDE DEF o
  <2> QED
    BY <2>1, <2>2, <2>3, <2>4, SettleKeeps
<1>3. CASE calls[c].answer.body # "success"
  <2>1. PICK category \in {"MalformedProtocol", "Logon"} :
          CallFails(c, Failure(category, "sap", "logon", "Complete", calls[c].id))
    BY <1>3 DEF LogonAnswered
  <2> QED
    BY <1>1, <2>1, AnswerFails
<1> QED
  BY <1>2, <1>3

\* An answer without an error is left to be applied.
LEMMA DecodedKeeps ==
  ASSUME CpicInv, NEW c \in Calls, calls[c].at = "answered",
         Head(calls[c].todo) \in Applied,
         calls' = [calls EXCEPT ![c].at = "decoded"],
         UNCHANGED <<session, link, exchange, log, closing, peer>>
  PROVE  Kept
<1> DEFINE r == [calls[c] EXCEPT !.at = "decoded"]
<1>1. calls[c] \in CallRecords /\ CallFits(calls[c], session, exchange, log)
  BY InvParts DEF CallsFit
<1>2. /\ r \in CallRecords /\ r.at = "decoded" /\ r.todo = calls[c].todo
      /\ r.id = calls[c].id /\ r.answer = calls[c].answer
  BY <1>1 DEF CallRecords
<1>3. calls' = [calls EXCEPT ![c] = r]
  BY InvParts
<1> HIDE DEF r
<1>4. /\ calls' \in [Calls -> CallRecords] /\ calls'[c] = r
      /\ \A d \in Calls \ {c} : calls'[d] = calls[d]
  BY <1>2, <1>3, InvParts
<1>5. \A d \in Calls : CallFits(calls'[d], session, exchange, log)
  <2>1. CallFits(r, session, exchange, log)
    BY <1>1, <1>2 DEF CallFits, Answering
  <2> QED
    BY <1>4, <2>1, InvParts DEF CallsFit
<1>6. CallsFit(session, link, exchange, calls', log)
  <2>1. \A d \in Calls : Answering(calls'[d]) <=> Answering(calls[d])
    BY <1>2, <1>4 DEF Answering
  <2>2. \A d \in Calls : calls'[d].at = "waiting" <=> calls[d].at = "waiting"
    BY <1>2, <1>4
  <2>3. exchange # None => exchange.call \in Calls /\ exchange.call # c
    BY InvParts DEF CallsFit, Exchanges
  <2> QED
    BY <1>4, <1>5, <2>1, <2>2, <2>3, InvParts DEF CallsFit
<1>7. OwnerFits(session, exchange, calls', log)
  <2>1. ResetUnderWay' => ResetUnderWay
    <3>1. log # <<>> => log[Len(log)] \in EntrySet
      BY InvParts, EmptySeq, ElementOfSeq
    <3>2. log # <<>> => log[Len(log)].call \in Calls
      BY <3>1 DEF EntrySet
    <3> QED
      BY <1>4, <3>2 DEF ResetUnderWay
  <2>2. session.owner \in Calls \cup {None}
    BY InvParts DEF SessionSet
  <2>3. session.owner # None => /\ calls'[session.owner].at \notin {"new", "settled"}
                                /\ Head(calls'[session.owner].todo) \in {"reset", "refresh"}
    BY <1>2, <1>4, <2>2, InvParts DEF OwnerFits
  <2> QED
    BY <2>1, <2>3, InvParts DEF OwnerFits, ResetUnderWay
<1>8. CpicInv'
  <2>1. OpeningFits(session, link, exchange, calls', log, closing, peer)
    BY InvParts DEF OpeningFits
  <2> QED
    BY <1>4, <1>6, <1>7, <2>1, InvParts DEF CpicInv, Inv, Typed, SessionOf
<1>9. Sound
  BY <1>2, <1>4, InvParts DEF Sound
<1> QED
  BY <1>8, <1>9 DEF Kept

\* #decodeRegularResponse()
LEMMA RegularAnsweredKeeps ==
  ASSUME CpicInv, NEW c \in Calls, calls[c].at = "answered", RegularAnswered(c),
         UNCHANGED <<exchange, log, closing, peer>>
  PROVE  Kept
<1> DEFINE a == calls[c].answer
           id == calls[c].id
           todo == calls[c].todo
           terminal == session.state = "closed"
           origin == IF terminal THEN "appc" ELSE "sap"
           remote == Failure(Remotely[a.body], origin, "envelopeDecode", "Complete", id)
           ended == [Failure("Communication", "appc", "envelopeDecode", "Complete", id)
                     EXCEPT !.reason = "CM_DEALLOCATED_NORMAL"]
<1>1. Answering(calls[c])
  BY DEF Answering
<1>2. /\ todo \in Todos /\ id \in Nat /\ id # 0 /\ calls[c].at \notin {"waiting", "settled"}
      /\ HasOpened(session) /\ Past(exchange, log, id) /\ log[id].sent = log[id].size
      /\ session.closed <=> terminal
      /\ session.owner = c => Head(todo) \in {"reset", "refresh"}
  BY <1>1, AnsweringFacts
<1>3. \/ CallFails(c, Failure("MalformedProtocol", "cpic", "envelopeDecode", "Complete", id))
      \/ CallFails(c, remote)
      \/ After(c, session, todo, id) /\ UNCHANGED link
      \/ terminal /\ calls' = Settled(c, ended) /\ session' = Freed(session, c) /\ UNCHANGED link
      \/ /\ Head(todo) \in Applied
         /\ calls' = [calls EXCEPT ![c].at = "decoded"] /\ UNCHANGED <<session, link>>
  BY DEF RegularAnswered
<1>4. CASE CallFails(c, Failure("MalformedProtocol", "cpic", "envelopeDecode", "Complete", id))
  BY <1>1, <1>4, AnswerFails
<1>5. CASE CallFails(c, remote)
  <2>1. session.state # "closed" \/ origin # "sap"
    OBVIOUS
  <2> HIDE DEF origin
  <2> QED
    BY <1>1, <1>5, <2>1, AnswerFails
<1>6. CASE After(c, session, todo, id) /\ UNCHANGED link
  <2> HIDE DEF todo, id
  <2> QED
    BY <1>2, <1>6, InvParts, AfterKeeps
<1>7. CASE terminal /\ calls' = Settled(c, ended) /\ session' = Freed(session, c)
           /\ UNCHANGED link
  <2> DEFINE o == Failure("Communication", "appc", "envelopeDecode", "Complete", id)
  <2>1. /\ o \in OutcomeSet /\ o.exchange = id /\ o.transmission = "Complete"
        /\ o.disposition = "close"
    <3>1. "Complete" \in Transmissions
      BY DEF Transmissions
    <3> QED
      BY <1>2, <3>1, FailureFacts
  <2>2. ended = [o EXCEPT !.reason = "CM_DEALLOCATED_NORMAL"]
    OBVIOUS
  <2> HIDE DEF o, ended
  <2>3. /\ ended \in OutcomeSet /\ ended.exchange = id /\ ended.transmission = "Complete"
        /\ ended.disposition = "close"
    BY <2>1, <2>2 DEF OutcomeSet
  <2>4. /\ session' \in SessionSet /\ session'.state = session.state
        /\ session'.opened = session.opened /\ session'.closed = session.closed
        /\ session'.owner = IF session.owner = c THEN None ELSE session.owner
    BY <1>7, InvParts, FreedFields
  <2>5. Ending(c, ended)
    BY <1>2, <1>7, <2>3, <2>4 DEF Ending, Honest
  <2> QED
    BY <1>2, <1>7, <2>4, <2>5, SettleKeeps
<1>8. CASE /\ Head(todo) \in Applied
           /\ calls' = [calls EXCEPT ![c].at = "decoded"] /\ UNCHANGED <<session, link>>
  BY <1>8, DecodedKeeps
<1> QED
  BY <1>3, <1>4, <1>5, <1>6, <1>7, <1>8

\* Either of them
LEMMA DecodeKeeps ==
  ASSUME CpicInv, NEW c \in Calls, Decode(c)
  PROVE  Kept
<1>1. calls[c].at = "answered" /\ UNCHANGED <<exchange, log, closing, peer>>
  BY DEF Decode
<1>2. CASE Head(calls[c].todo) = "logon"
  BY <1>1, <1>2, LogonAnsweredKeeps DEF Decode
<1>3. CASE Head(calls[c].todo) # "logon"
  BY <1>1, <1>3, RegularAnsweredKeeps DEF Decode
<1> QED
  BY <1>2, <1>3

\* #decodeApplicationResult()
LEMMA ApplyKeeps ==
  ASSUME CpicInv, NEW c \in Calls, Apply(c)
  PROVE  Kept
<1> DEFINE id == calls[c].id
           todo == calls[c].todo
           filled == [session EXCEPT !.cache = @ \cup (Lookups \cap {Head(todo)})]
           o == [Rejection EXCEPT !.exchange = id, !.transmission = "Complete"]
<1>1. /\ calls[c].at = "decoded" /\ UNCHANGED <<exchange, log, closing, peer>>
      /\ \/ CallFails(c, Failure("MalformedProtocol", "codec", "valueDecode", "Complete", id))
         \/ calls' = Settled(c, o) /\ UNCHANGED <<session, link>>
         \/ After(c, filled, todo, id) /\ UNCHANGED link
  BY DEF Apply
<1>2. Answering(calls[c])
  BY <1>1 DEF Answering
<1>3. /\ todo \in Todos /\ id \in Nat /\ id # 0 /\ calls[c].at \notin {"waiting", "settled"}
      /\ HasOpened(session) /\ Past(exchange, log, id) /\ log[id].sent = log[id].size
      /\ session.owner = c => Head(todo) \in {"reset", "refresh"}
      /\ Head(todo) \in Applied
  BY <1>1, <1>2, AnsweringFacts
<1>4. CASE CallFails(c, Failure("MalformedProtocol", "codec", "valueDecode", "Complete", id))
  BY <1>1, <1>2, <1>4, AnswerFails
<1>5. CASE calls' = Settled(c, o) /\ UNCHANGED <<session, link>>
  <2>1. /\ o \in OutcomeSet /\ o.exchange = id /\ o.transmission = "Complete"
        /\ o.disposition = None
    BY <1>3 DEF Rejection, OutcomeSet, Transmissions
  <2> HIDE DEF o
  <2>2. Ending(c, o)
    BY <1>3, <2>1, SessionAssumption DEF Ending, Honest, Dispositions
  <2>3. session.owner # c
    BY <1>3 DEF Applied, Lookups, Invocations
  <2> QED
    BY <1>1, <1>3, <1>5, <2>2, <2>3, InvParts, SettleKeeps
<1>6. CASE After(c, filled, todo, id) /\ UNCHANGED link
  <2>1. /\ filled \in SessionSet /\ filled.state = session.state
        /\ filled.opened = session.opened /\ filled.closed = session.closed
        /\ filled.owner = session.owner
    <3>1. PICK cache \in SUBSET Lookups : cache = session.cache \cup (Lookups \cap {Head(todo)})
      BY InvParts DEF SessionSet
    <3>2. filled = [session EXCEPT !.cache = cache]
      BY <3>1, InvParts DEF SessionSet
    <3> QED
      BY <3>2, InvParts DEF SessionSet
  <2> HIDE DEF filled, todo, id
  <2> QED
    BY <1>1, <1>3, <1>6, <2>1, AfterKeeps
<1> QED
  BY <1>1, <1>4, <1>5, <1>6

(***************************************************************************)
(* open() and close()                                                      *)
(***************************************************************************)
\* A record of the set-up, with its reply
LEMMA ShakeKeeps ==
  ASSUME CpicInv, Shake
  PROVE  Kept
<1> DEFINE function == Handshake[session.opened]
           sent == IF function = "GwNormalClient" THEN session.state
                   ELSE Sent(session.state, function)
           failed == session' = [session EXCEPT !.closed = TRUE] /\ link' = Cut(link)
<1>0. session \in SessionSet /\ link \in LinkSet
  BY InvParts
<1>1. /\ ~session.closed /\ session.opened \in 1..4 /\ ~HasOpened(session)
      /\ UNCHANGED <<exchange, calls, log, closing, peer>> /\ session \in SessionSet
      /\ link \in LinkSet
  <2>1. session.opened \in 1..5
    BY <1>0 DEF SessionSet
  <2>2. ~Open /\ ~session.closed /\ UNCHANGED <<exchange, calls, log, closing, peer>>
    BY DEF Shake
  <2>3. ~HasOpened(session)
    BY <2>2, OpenIsOpened
  <2>4. session.opened \in 1..4
    BY <2>1, <2>3 DEF HasOpened
  <2> QED
    BY <1>0, <2>2, <2>3, <2>4
<1>2. /\ exchange = None /\ log = <<>> /\ closing = None /\ session.owner = None
      /\ \A c \in Calls : calls[c].at = "new"
      /\ link.inbox = <<>> /\ link.outbox = <<>> /\ peer.at = "listening"
      /\ session.state = <<"new", "new", "initialized", "partner-set">>[session.opened]
  BY <1>1, InvParts DEF OpeningFits
<1>3. \/ /\ function = "SetPartnerLuName" /\ link' = link
         /\ session' = [session EXCEPT !.state = sent, !.opened = @ + 1]
      \/ /\ function = "GwNormalClient" /\ link' = link
         /\ session' = [session EXCEPT !.opened = @ + 1]
      \/ /\ function # "SetPartnerLuName" /\ link' = link
         /\ \E reply : /\ Verdict(sent, reply) = "accepted"
                       /\ session' = [session EXCEPT !.state = Received(sent, reply),
                                                     !.opened = @ + 1]
      \/ failed
  BY DEF Shake
<1>4. \/ session.opened = 1 /\ function = "GwNormalClient" /\ session.state = "new"
      \/ session.opened = 2 /\ function = "Initialize" /\ session.state = "new"
      \/ session.opened = 3 /\ function = "SetPartnerLuName" /\ session.state = "initialized"
      \/ session.opened = 4 /\ function = "Allocate" /\ session.state = "partner-set"
  BY <1>1, <1>2 DEF Handshake
<1>5. /\ \A reply : Verdict("new", reply) # "accepted"
      /\ \A reply : Verdict("initialize-pending", reply) = "accepted" =>
           Received("initialize-pending", reply) = "initialized"
      /\ \A reply : Verdict("allocate-pending", reply) = "accepted" =>
           Received("allocate-pending", reply) = "ready"
  <2>1. \A reply : Verdict("new", reply) # "accepted"
    BY DEF Verdict
  <2>2. \A reply : Verdict("initialize-pending", reply) = "accepted" =>
           Received("initialize-pending", reply) = "initialized"
    BY DEF Received
  <2>3. \A reply : Verdict("allocate-pending", reply) = "accepted" =>
           Received("allocate-pending", reply) = "ready"
    BY DEF Received
  <2> QED
    BY <2>1, <2>2, <2>3
<1>6. /\ session.opened = 1 => sent = "new"
      /\ session.opened = 2 => sent = "initialize-pending"
      /\ session.opened = 3 => sent = "partner-set"
      /\ session.opened = 4 => sent = "allocate-pending"
  BY <1>4 DEF Sent
<1> HIDE DEF sent, function, failed
<1> DEFINE Advance(next) ==
             /\ link' = link /\ session' \in SessionSet /\ session'.state = next
             /\ ~session'.closed /\ session'.opened = session.opened + 1
             /\ session'.owner = session.owner
<1>7. ASSUME NEW next \in States,
             \/ session' = [session EXCEPT !.state = next, !.opened = @ + 1]
             \/ (session' = [session EXCEPT !.opened = @ + 1] /\ session.state = next),
             link' = link
      PROVE  Advance(next)
  <2>1. session.opened + 1 \in 1..5
    BY <1>1
  <2> DEFINE s1 == [session EXCEPT !.opened = @ + 1]
             s2 == [s1 EXCEPT !.state = next]
  <2>2. s1 \in SessionSet /\ ~s1.closed /\ s1.opened = session.opened + 1
        /\ s1.owner = session.owner /\ s1.state = session.state
    BY <1>1, <2>1 DEF SessionSet
  <2>3. [session EXCEPT !.state = next, !.opened = @ + 1] = s2
    BY <1>1 DEF SessionSet
  <2> HIDE DEF s1
  <2>4. s2 \in SessionSet /\ ~s2.closed /\ s2.opened = session.opened + 1
        /\ s2.owner = session.owner /\ s2.state = next
    BY <1>7, <2>2 DEF SessionSet
  <2> HIDE DEF s2
  <2>5. (session' = s1 /\ session.state = next) \/ session' = s2
    BY <1>7, <2>3 DEF s1
  <2> QED
    BY <1>7, <2>2, <2>4, <2>5
<1> HIDE DEF Advance
<1> DEFINE next == <<"new", "initialized", "partner-set", "ready">>[session.opened]
<1>8. Advance(next) \/ failed
  <2>0. {"new", "initialized", "partner-set", "ready"} \subseteq States
    BY DEF States
  <2>1. CASE session.opened = 1
    <3>1. next = "new" /\ sent = "new" /\ session.state = "new" /\ function # "SetPartnerLuName"
      BY <1>4, <1>6, <2>1
    <3> HIDE DEF next
    <3>2. failed \/ (link' = link /\ session' = [session EXCEPT !.opened = @ + 1])
      BY <1>3, <1>5, <3>1
    <3> QED
      BY <1>7, <2>0, <3>1, <3>2
  <2>2. CASE session.opened = 2
    <3>1. next = "initialized" /\ sent = "initialize-pending" /\ function = "Initialize"
      BY <1>4, <1>6, <2>2
    <3> HIDE DEF next
    <3>2. failed \/ (link' = link /\ session' = [session EXCEPT !.state = next, !.opened = @ + 1])
      BY <1>3, <1>5, <3>1
    <3> QED
      BY <1>7, <2>0, <3>1, <3>2
  <2>3. CASE session.opened = 3
    <3>1. next = "partner-set" /\ sent = "partner-set" /\ function = "SetPartnerLuName"
      BY <1>4, <1>6, <2>3
    <3> HIDE DEF next
    <3>2. failed \/ (link' = link /\ session' = [session EXCEPT !.state = next, !.opened = @ + 1])
      BY <1>3, <3>1
    <3> QED
      BY <1>7, <2>0, <3>1, <3>2
  <2>4. CASE session.opened = 4
    <3>1. next = "ready" /\ sent = "allocate-pending" /\ function = "Allocate"
      BY <1>4, <1>6, <2>4
    <3> HIDE DEF next
    <3>2. failed \/ (link' = link /\ session' = [session EXCEPT !.state = next, !.opened = @ + 1])
      BY <1>3, <1>5, <3>1
    <3> QED
      BY <1>7, <2>0, <3>1, <3>2
  <2> QED
    BY <1>1, <2>1, <2>2, <2>3, <2>4
<1>9. /\ \A c \in Calls : CallFits(calls[c], session, exchange, log)
      /\ \A c \in Calls : ~Answering(calls[c])
  BY <1>2, InvParts DEF CallsFit, Answering
<1>10. CASE Advance(next)
  <2>1. /\ next \in States \ {"closed", "send-continuation", "send-barrier-pending",
                              "response-pending"}
        /\ session.opened + 1 \in 1..5
        /\ session.opened # 4 =>
             next = <<"new", "new", "initialized", "partner-set">>[session.opened + 1]
        /\ session.opened = 4 => next = "ready"
    BY <1>1 DEF States
  <2> HIDE DEF next
  <2>2. /\ session' \in SessionSet /\ session'.state = next /\ ~session'.closed
        /\ session'.opened = session.opened + 1 /\ session'.owner = session.owner
        /\ link' = link
    BY <1>10 DEF Advance
  <2>3. \A c \in Calls : CallFits(calls[c], session', exchange, log)
    BY <1>1, <1>9, CallStays
  <2>4. CallsFit(session', link, exchange, calls, log) /\ OwnerFits(session', exchange, calls, log)
    BY <1>2, <1>9, <2>2, <2>3, InvParts DEF CallsFit, OwnerFits
  <2>5. LinkFits(session', link, exchange, closing)
    BY <1>2, <2>1, <2>2, SessionAssumption, InvParts DEF LinkFits
  <2>6. OpeningFits(session', link, exchange, calls, log, closing, peer)
    BY <1>1, <1>2, <2>1, <2>2 DEF OpeningFits, HasOpened
  <2>7. peer.stray = 0 => TurnFits(session', link, peer)
    BY <1>2, <2>1, <2>2 DEF TurnFits
  <2>8. CpicInv'
    BY <1>1, <1>2, <2>2, <2>4, <2>5, <2>6, <2>7, InvParts
    DEF CpicInv, Inv, Typed, SessionOf
  <2>9. Sound
    BY <1>1, InvParts DEF Sound
  <2> QED
    BY <2>8, <2>9 DEF Kept
<1>11. CASE failed
  <2>1. /\ session' \in SessionSet /\ session'.state = session.state /\ session'.closed
        /\ session'.opened = session.opened /\ session'.owner = session.owner
    BY <1>1, <1>11 DEF SessionSet, failed
  <2>2. link' \in LinkSet /\ ~link'.up /\ link'.inbox = <<>> /\ link'.outbox = <<>>
    BY <1>1, <1>11, LinkFields DEF failed
  <2>3. \A c \in Calls : CallFits(calls[c], session', exchange, log)
    BY <1>9, <2>1, CallStays
  <2>4. CallsFit(session', link', exchange, calls, log) /\ OwnerFits(session', exchange, calls, log)
    BY <1>2, <1>9, <2>1, <2>3, InvParts DEF CallsFit, OwnerFits
  <2>5. LinkFits(session', link', exchange, closing)
    BY <1>2, <2>1, <2>2 DEF LinkFits
  <2>6. OpeningFits(session', link', exchange, calls, log, closing, peer)
    BY <1>1, <1>2, <2>1, <2>2 DEF OpeningFits, HasOpened
  <2>7. peer.stray = 0 => TurnFits(session', link', peer)
    BY <1>2, <2>2 DEF TurnFits
  <2>8. CpicInv'
    BY <1>1, <1>2, <2>1, <2>2, <2>4, <2>5, <2>6, <2>7, InvParts
    DEF CpicInv, Inv, Typed, SessionOf
  <2>9. Sound
    BY <1>1, InvParts DEF Sound
  <2> QED
    BY <2>8, <2>9 DEF Kept
<1> QED
  BY <1>8, <1>10, <1>11

\* close(), up to its first await
LEMMA CloseKeeps ==
  ASSUME CpicInv, Close
  PROVE  Kept
<1>1. /\ HasOpened(session) /\ ~session.closed /\ exchange = None /\ session.owner = None
      /\ UNCHANGED <<exchange, calls, log, peer>> /\ session.state = "ready"
      /\ session \in SessionSet /\ link \in LinkSet
  BY OpenIsOpened, InvParts DEF Close, OpeningFits
<1> DEFINE t == Terminated(session)
<1>2. /\ t \in SessionSet /\ t.closed /\ t.owner = session.owner /\ t.state = session.state
      /\ t.opened = session.opened
  BY <1>1, TerminatedFields
<1>3. session' = [t EXCEPT !.state = IF @ = "ready" THEN Sent(@, "Deallocate") ELSE @]
  BY DEF Close
<1> HIDE DEF t
<1>4. Sent("ready", "Deallocate") = "closed"
  BY DEF Sent
<1>5. session' = [t EXCEPT !.state = "closed"]
  BY <1>1, <1>2, <1>3, <1>4 DEF SessionSet
<1>6. /\ session' \in SessionSet /\ session'.closed /\ session'.state = "closed"
      /\ session'.owner = None /\ session'.opened = session.opened
  BY <1>1, <1>2, <1>5 DEF SessionSet, States
<1>7. \/ /\ link.up /\ link' = [link EXCEPT !.outbox = Append(@, "Deallocate")]
         /\ closing' = "deallocating"
      \/ link' = Cut(link) /\ closing' = "done"
  BY DEF Close
<1>8. /\ link' \in LinkSet
      /\ \/ /\ link.up /\ link'.up /\ link'.inbox = link.inbox
            /\ link'.outbox = Append(link.outbox, "Deallocate") /\ closing' = "deallocating"
         \/ /\ ~link'.up /\ link'.inbox = <<>> /\ link'.outbox = <<>> /\ closing' = "done"
  <2>1. CASE link.up /\ link' = [link EXCEPT !.outbox = Append(@, "Deallocate")]
             /\ closing' = "deallocating"
    <3>1. Append(link.outbox, "Deallocate") \in Seq(FunctionNames)
      <4>1. link.outbox \in Seq(FunctionNames) /\ "Deallocate" \in FunctionNames
        BY <1>1 DEF LinkSet, FunctionNames
      <4> QED
        BY <4>1, Queued
    <3> QED
      BY <1>1, <2>1, <3>1 DEF LinkSet
  <2>2. CASE link' = Cut(link) /\ closing' = "done"
    BY <1>1, <2>2, LinkFields
  <2> QED
    BY <1>7, <2>1, <2>2
<1>9. \A c \in Calls : CallFits(calls[c], session', exchange, log)
  BY <1>1, <1>6, InvParts, CallStays DEF CallsFit
<1>10. CallsFit(session', link', exchange, calls, log)
  BY <1>1, <1>6, <1>9, InvParts DEF CallsFit
<1>11. OwnerFits(session', exchange, calls, log)
  BY <1>1, <1>6, InvParts DEF OwnerFits
<1>12. LinkFits(session', link', exchange, closing')
  BY <1>1, <1>6, <1>8 DEF LinkFits
<1>13. OpeningFits(session', link', exchange, calls, log, closing', peer)
  BY <1>1, <1>6 DEF OpeningFits, HasOpened
<1>14. peer.stray = 0 => TurnFits(session', link', peer)
  <2> SUFFICES ASSUME peer.stray = 0, link.up, link'.up,
                      link'.outbox = Append(link.outbox, "Deallocate")
               PROVE  TurnFits(session', link', peer)
    BY <1>6, <1>8, InvParts DEF TurnFits
  <2>1. link.outbox = <<>> /\ peer.at = "listening"
    BY <1>1, InvParts DEF TurnFits
  <2>2. link'.outbox = <<"Deallocate">>
    BY <2>1
  <2> QED
    BY <1>6, <2>1, <2>2 DEF TurnFits
<1>15. CpicInv'
  BY <1>1, <1>6, <1>8, <1>10, <1>11, <1>12, <1>13, <1>14, InvParts
  DEF CpicInv, Inv, Typed, SessionOf
<1>16. Sound
  BY <1>1, InvParts DEF Sound
<1> QED
  BY <1>15, <1>16 DEF Kept

\* The link goes down, or a deallocation is over.
LEMMA CutKeeps ==
  ASSUME CpicInv, Quiet, HasOpened(session), link' = Cut(link),
         UNCHANGED <<session, exchange, calls, log, peer>>,
         closing' = closing \/ closing' = "done"
  PROVE  Kept
<1>1. link' \in LinkSet /\ ~link'.up /\ link'.inbox = <<>> /\ link'.outbox = <<>>
  BY InvParts, LinkFields
<1>2. exchange # None => ExchangeFits(session, link', exchange, log)
  BY <1>1, InvParts DEF ExchangeFits
<1>3. LinkFits(session, link', exchange, closing')
  BY <1>1, InvParts DEF LinkFits
<1>4. OpeningFits(session, link', exchange, calls, log, closing', peer)
  BY InvParts DEF OpeningFits
<1>5. peer.stray = 0 => TurnFits(session, link', peer)
  BY <1>1, InvParts DEF TurnFits
<1> QED
  BY <1>1, <1>2, <1>3, <1>4, <1>5, InvParts, StillKeeps

(***************************************************************************)
(* The partner                                                             *)
(***************************************************************************)
\* An empty queue has no record of another kind.
LEMMA NothingAllBut ==
  ASSUME NEW F
  PROVE  AllBut(<<>>, 0, F)
<1>1. 1..(Len(<<>>) - 0) = {}
  OBVIOUS
<1> QED
  BY <1>1 DEF AllBut

\* The partner takes a record it was meant to get.
LEMMA HearTurn ==
  ASSUME NEW s, NEW l \in LinkSet, NEW p, TurnFits(s, l, p), l.up, l.outbox # <<>>,
         NEW l2, l2.up, l2.inbox = l.inbox, l2.outbox = Tail(l.outbox),
         NEW p2, p2.at = Heard(p.at, Head(l.outbox))
  PROVE  TurnFits(s, l2, p2)
<1>0. l.outbox \in Seq(FunctionNames)
  BY DEF LinkSet
<1>1. /\ Head(l.outbox) = l.outbox[1] /\ Len(l.outbox) \in Nat \ {0}
      /\ Len(l2.outbox) = Len(l.outbox) - 1
      /\ \A i \in 1..(Len(l.outbox) - 1) : l2.outbox[i] = l.outbox[i + 1]
      /\ l2.outbox = <<>> <=> Len(l.outbox) = 1
  BY <1>0, Taken
<1>2. \A n \in {0, 1} :
        AllBut(l.outbox, n, {"AsyncSendData"}) =>
          /\ AllBut(l2.outbox, n, {"AsyncSendData"})
          /\ Len(l.outbox) > n => Head(l.outbox) = "AsyncSendData"
  BY <1>0, TakenAllBut
\* A record of a request that is not its last
<1>3. ASSUME NEW last, Request(l, p, last), Len(l.outbox) > 1
      PROVE  Request(l2, p2, last)
  <2>1. p2.at = "collecting"
    BY <1>2, <1>3 DEF Request, Heard
  <2>2. /\ l2.outbox # <<>> /\ AllBut(l2.outbox, 1, {"AsyncSendData"})
        /\ l2.outbox[Len(l2.outbox)] = last
    BY <1>1, <1>2, <1>3 DEF Request
  <2> QED
    BY <1>3, <2>1, <2>2 DEF Request
<1>4. ASSUME NEW last, Request(l, p, last), Len(l.outbox) = 1
      PROVE  l2.outbox = <<>> /\ Head(l.outbox) = last /\ p.at = "collecting"
  BY <1>1, <1>4 DEF Request
<1>5. CASE s.state = "closed"
  <2>1. l.outbox = <<"Deallocate">> /\ p.at = "listening"
    BY <1>5 DEF TurnFits
  <2>2. l2.outbox = <<>> /\ p2.at = "gone"
    BY <1>1, <2>1 DEF Heard
  <2> QED
    BY <1>5, <2>2 DEF TurnFits
<1>6. CASE s.state = "send-continuation"
  <2>1. /\ l.inbox = <<>> /\ AllBut(l.outbox, 0, {"AsyncSendData"})
        /\ p.at \in {"listening", "collecting"}
    BY <1>6 DEF TurnFits
  <2>2. p2.at = "collecting"
    BY <1>1, <1>2, <2>1 DEF Heard
  <2> QED
    BY <1>2, <1>6, <2>1, <2>2 DEF TurnFits
<1>7. CASE s.state = "send-barrier-pending"
  <2>1. Request(l, p, "SendData")
    BY <1>7 DEF TurnFits
  <2>2. CASE Len(l.outbox) > 1
    <3>1. Request(l2, p2, "SendData")
      BY <1>3, <2>1, <2>2
    <3>2. p2.at = "collecting"
      BY <1>2, <2>1, <2>2 DEF Request, Heard
    <3> QED
      BY <1>7, <3>1, <3>2 DEF TurnFits
  <2>3. CASE Len(l.outbox) = 1
    <3>1. l2.outbox = <<>> /\ p2.at = "acknowledging" /\ l2.inbox = <<>>
      BY <1>4, <2>1, <2>3 DEF Heard, Request
    <3> QED
      BY <1>7, <3>1 DEF TurnFits
  <2> QED
    BY <1>1, <2>2, <2>3
<1>8. CASE s.state = "response-pending"
  <2>1. \/ Request(l, p, "Receive")
        \/ l.outbox = <<"SapSend">> /\ l.inbox = <<>> /\ p.at = "listening"
    BY <1>8 DEF TurnFits
  <2>2. CASE Request(l, p, "Receive") /\ Len(l.outbox) > 1
    <3>1. Request(l2, p2, "Receive")
      BY <1>3, <2>2
    <3>2. p2.at = "collecting"
      BY <1>2, <2>2 DEF Request, Heard
    <3> QED
      BY <1>8, <3>1, <3>2 DEF TurnFits
  <2>3. CASE Request(l, p, "Receive") /\ Len(l.outbox) = 1
    <3>1. l2.outbox = <<>> /\ p2.at = "serving" /\ l2.inbox = <<>>
      BY <1>4, <2>3 DEF Heard, Request
    <3>2. AllBut(l2.inbox, 0, Part)
      BY <3>1, NothingAllBut
    <3> QED
      BY <1>8, <3>1, <3>2 DEF TurnFits
  <2>4. CASE l.outbox = <<"SapSend">> /\ l.inbox = <<>> /\ p.at = "listening"
    <3>1. l2.outbox = <<>> /\ p2.at = "serving" /\ l2.inbox = <<>>
      BY <1>1, <2>4 DEF Heard
    <3>2. AllBut(l2.inbox, 0, Part)
      BY <3>1, NothingAllBut
    <3> QED
      BY <1>8, <3>1, <3>2 DEF TurnFits
  <2> QED
    BY <1>1, <2>1, <2>2, <2>3, <2>4
<1>9. CASE s.state \notin {"closed", "send-continuation", "send-barrier-pending",
                           "response-pending"}
  BY <1>9 DEF TurnFits
<1> QED
  BY <1>5, <1>6, <1>7, <1>8, <1>9

\* The partner takes a record.
LEMMA PeerHearsKeeps ==
  ASSUME CpicInv, PeerHears
  PROVE  Kept
<1>1. /\ Quiet /\ link.outbox # <<>> /\ UNCHANGED <<session, exchange, calls, log, closing>>
      /\ link' = [link EXCEPT !.outbox = Tail(@)]
      /\ peer' = [peer EXCEPT !.at = Heard(@, Head(link.outbox))]
      /\ link \in LinkSet /\ peer \in PeerSet
  BY InvParts DEF PeerHears
<1>2. /\ link' \in LinkSet /\ link'.up = link.up /\ link'.inbox = link.inbox
      /\ link'.outbox = Tail(link.outbox)
  <2>1. link.outbox \in Seq(FunctionNames) /\ Tail(link.outbox) \in Seq(FunctionNames)
    BY <1>1, Taken DEF LinkSet
  <2> QED
    BY <1>1, <2>1 DEF LinkSet
<1>3. /\ peer' \in PeerSet /\ peer'.at = Heard(peer.at, Head(link.outbox))
      /\ peer'.stray = peer.stray
  <2>1. Heard(peer.at, Head(link.outbox)) \in {"listening", "collecting", "acknowledging",
                                               "serving", "gone", "confused"}
    BY DEF Heard
  <2> QED
    BY <1>1, <2>1 DEF PeerSet
<1>4. link.up /\ HasOpened(session)
  BY <1>1, InvParts DEF LinkFits, OpeningFits
<1>5. exchange # None => ExchangeFits(session, link', exchange, log)
  BY <1>2, InvParts DEF ExchangeFits
<1>6. /\ LinkFits(session, link', exchange, closing)
      /\ OpeningFits(session, link', exchange, calls, log, closing, peer')
  BY <1>2, <1>4, InvParts DEF LinkFits, OpeningFits
<1>7. peer'.stray = 0 => TurnFits(session, link', peer')
  BY <1>1, <1>2, <1>3, <1>4, InvParts, HearTurn
<1> QED
  BY <1>1, <1>2, <1>3, <1>5, <1>6, <1>7, InvParts, StillKeeps

\* A record of the peer is queued.
LEMMA QueueKeeps ==
  ASSUME CpicInv, Quiet, HasOpened(session), link.up, NEW r \in RecordSet, r.epoch = begun,
         link' = [link EXCEPT !.inbox = Append(@, r)], peer' \in PeerSet,
         UNCHANGED <<session, exchange, calls, log, closing>>,
         peer'.stray = 0 => TurnFits(session, link', peer')
  PROVE  Kept
<1>1. link.inbox \in Seq(RecordSet) /\ link \in LinkSet
  BY InvParts DEF LinkSet
<1>2. /\ Append(link.inbox, r) \in Seq(RecordSet) /\ Len(link.inbox) \in Nat
      /\ DOMAIN Append(link.inbox, r) = 1..(Len(link.inbox) + 1)
      /\ \A i \in 1..Len(link.inbox) : Append(link.inbox, r)[i] = link.inbox[i]
      /\ Append(link.inbox, r)[Len(link.inbox) + 1] = r
      /\ DOMAIN link.inbox = 1..Len(link.inbox)
  BY <1>1, Queued, LenProperties
<1>3. /\ link' \in LinkSet /\ link'.up = link.up /\ link'.outbox = link.outbox
      /\ link'.inbox = Append(link.inbox, r)
  BY <1>1, <1>2 DEF LinkSet
<1>4. ASSUME exchange # None PROVE ExchangeFits(session, link', exchange, log)
  <2>1. ExchangeFits(session, link, exchange, log)
    BY <1>4, InvParts
  <2>2. r.epoch = exchange.id
    BY <2>1 DEF ExchangeFits, begun
  <2>3. \A i \in DOMAIN link'.inbox : link'.inbox[i].epoch = exchange.id
    <3>1. \A i \in 1..Len(link.inbox) : link.inbox[i].epoch = exchange.id
      BY <1>2, <2>1 DEF ExchangeFits
    <3> QED
      BY <1>2, <1>3, <2>2, <3>1
  <2> QED
    BY <1>3, <2>1, <2>3 DEF ExchangeFits
<1>5. /\ LinkFits(session, link', exchange, closing)
      /\ OpeningFits(session, link', exchange, calls, log, closing, peer')
  BY <1>3, InvParts DEF LinkFits, OpeningFits
<1> QED
  BY <1>3, <1>4, <1>5, InvParts, StillKeeps

\* What the peer sends when it is its turn
LEMMA AppendTurn ==
  ASSUME NEW s, NEW l \in LinkSet, NEW p, TurnFits(s, l, p), l.up, NEW r \in RecordSet,
         NEW l2, l2.up, l2.outbox = l.outbox, l2.inbox = Append(l.inbox, r), NEW p2,
         \/ p.at = "acknowledging" /\ p2.at = "collecting"
         \/ /\ p.at = "serving"
            /\ \/ r \in Part /\ p2.at = "serving"
               \/ r \in Whole /\ p2.at = "listening"
               \/ r \in Last /\ p2.at = "gone"
  PROVE  TurnFits(s, l2, p2)
<1>0. l.inbox \in Seq(RecordSet)
  BY DEF LinkSet
<1>1. /\ l2.inbox # <<>> /\ Len(l2.inbox) = Len(l.inbox) + 1 /\ Len(l.inbox) \in Nat
      /\ l2.inbox[Len(l2.inbox)] = r
  BY <1>0, Queued
<1>2. /\ AllBut(l.inbox, 0, Part) => AllBut(l2.inbox, 1, Part)
      /\ AllBut(l.inbox, 0, Part) /\ r \in Part => AllBut(l2.inbox, 0, Part)
  BY <1>0, QueuedAllBut
<1>3. CASE p.at = "acknowledging" /\ p2.at = "collecting"
  <2>1. s.state = "send-barrier-pending" /\ l.outbox = <<>> /\ l.inbox = <<>>
    BY <1>3 DEF TurnFits, Request
  <2>2. Len(l2.inbox) = 1
    BY <1>1, <2>1
  <2> QED
    BY <1>3, <2>1, <2>2 DEF TurnFits
<1>4. CASE p.at = "serving"
  <2>1. s.state = "response-pending" /\ l.outbox = <<>> /\ AllBut(l.inbox, 0, Part)
    BY <1>4 DEF TurnFits, Request
  <2>2. CASE r \in Part /\ p2.at = "serving"
    BY <1>2, <2>1, <2>2 DEF TurnFits
  <2>3. CASE r \in Whole /\ p2.at = "listening"
    BY <1>1, <1>2, <2>1, <2>3 DEF TurnFits
  <2>4. CASE r \in Last /\ p2.at = "gone"
    BY <1>1, <1>2, <2>1, <2>4 DEF TurnFits
  <2> QED
    BY <1>4, <2>2, <2>3, <2>4
<1> QED
  BY <1>3, <1>4

\* The partner answers when it is its turn.
LEMMA EmitsKeeps ==
  ASSUME CpicInv, NEW r \in RecordSet, NEW at, Emits(r, at), r.epoch = begun,
         \/ peer.at = "acknowledging" /\ at = "collecting"
         \/ /\ peer.at = "serving"
            /\ \/ r \in Part /\ at = "serving"
               \/ r \in Whole /\ at = "listening"
               \/ r \in Last /\ at = "gone"
  PROVE  Kept
<1>1. /\ Quiet /\ link.up /\ link' = [link EXCEPT !.inbox = Append(@, r)]
      /\ peer' = [peer EXCEPT !.at = at]
      /\ UNCHANGED <<session, exchange, calls, log, closing>>
      /\ link \in LinkSet /\ peer \in PeerSet
  BY InvParts DEF Emits
<1>2. peer' \in PeerSet /\ peer'.at = at /\ peer'.stray = peer.stray
  BY <1>1 DEF PeerSet
<1>3. HasOpened(session)
  BY InvParts DEF OpeningFits
<1>4. link'.up /\ link'.outbox = link.outbox /\ link'.inbox = Append(link.inbox, r)
  BY <1>1 DEF LinkSet
<1>5. peer'.stray = 0 => TurnFits(session, link', peer')
  BY <1>1, <1>2, <1>4, InvParts, AppendTurn
<1> QED
  BY <1>1, <1>2, <1>3, <1>5, QueueKeeps

\* The partner acknowledges or answers.
LEMMA PeerSendsKeeps ==
  ASSUME CpicInv, PeerAcknowledges \/ PeerAnswers
  PROVE  Kept
<1>0. /\ "SendData" \in FunctionNames /\ \A f \in DataFunctions : f \in FunctionNames
      /\ "Receive" \in FunctionNames /\ None \in Messages /\ \A b \in Bodies : b \in Messages
      /\ \A b \in {"success", "unavailable", "callback", None} : b \in Messages
      /\ TRUE \in BOOLEAN /\ FALSE \in BOOLEAN
      /\ "ok" \in {"ok", "error", "deallocated"}
      /\ \A rc \in {"deallocated", "error"} : rc \in {"ok", "error", "deallocated"}
  BY DEF FunctionNames, DataFunctions, Messages
<1>1. CASE PeerAcknowledges
  <2> DEFINE r == Record("SendData", "ok", TRUE, None)
  <2>2. peer.at = "acknowledging" /\ Emits(r, "collecting")
    BY <1>1 DEF PeerAcknowledges
  <2>0. r = Record("SendData", "ok", TRUE, None)
    OBVIOUS
  <2> HIDE DEF r
  <2>1. r \in RecordSet /\ r.epoch = begun
    BY <1>0, <2>0, InvParts DEF Record, RecordSet, begun
  <2> QED
    BY <2>1, <2>2, EmitsKeeps
<1>2. CASE PeerAnswers
  <2>0. peer.at = "serving"
    BY <1>2 DEF PeerAnswers
  <2>1. ASSUME NEW r \in Answers, Emits(r, "listening") PROVE Kept
    <3>1. \E f \in DataFunctions, b \in Bodies : r = Record(f, "ok", TRUE, b)
      BY <2>1 DEF Answers, Record
    <3>2. PICK f \in DataFunctions, b \in Bodies : r = Record(f, "ok", TRUE, b)
      BY <3>1
    <3>3. f \in FunctionNames /\ b \in Messages
      BY <1>0
    <3>4. r \in RecordSet /\ r.epoch = begun /\ r.rc = "ok" /\ r.final = TRUE /\ r.function = f
      BY <1>0, <3>2, <3>3, InvParts DEF Record, RecordSet, begun
    <3>5. r \in Whole
      BY <3>4 DEF Whole
    <3> QED
      BY <2>0, <2>1, <3>4, <3>5, EmitsKeeps
  <2>2. ASSUME NEW r \in Parts, Emits(r, "serving") PROVE Kept
    <3>1. PICK f \in DataFunctions : r = Record(f, "ok", FALSE, None)
      BY <2>2 DEF Parts
    <3>2. f \in FunctionNames
      BY <1>0
    <3>3. r \in RecordSet /\ r.epoch = begun /\ r.rc = "ok" /\ r.final = FALSE /\ r.function = f
      BY <1>0, <3>1, <3>2, InvParts DEF Record, RecordSet, begun
    <3>4. r \in Part
      BY <3>3 DEF Part
    <3> QED
      BY <2>0, <2>2, <3>3, <3>4, EmitsKeeps
  <2>3. ASSUME NEW r \in Ends \cup Errors, Emits(r, "gone") PROVE Kept
    <3>1. PICK rc \in {"deallocated", "error"}, b \in {"success", "unavailable", "callback", None} :
            r = Record("Receive", rc, FALSE, b)
      BY <2>3 DEF Ends, Errors
    <3>2. rc \in {"ok", "error", "deallocated"} /\ b \in Messages
      BY <1>0
    <3>3. r \in RecordSet /\ r.epoch = begun /\ r.rc = rc
      BY <1>0, <3>1, <3>2, InvParts DEF Record, RecordSet, begun
    <3>4. r \in Last
      BY <3>1, <3>3 DEF Last
    <3> QED
      BY <2>0, <2>3, <3>3, <3>4, EmitsKeeps
  <2> QED
    BY <1>2, <2>1, <2>2, <2>3 DEF PeerAnswers
<1> QED
  BY <1>1, <1>2

\* The partner sends what nobody asked for.
LEMMA PeerStraysKeeps ==
  ASSUME CpicInv, PeerStrays
  PROVE  Kept
<1>1. PICK r \in Unasked : link' = [link EXCEPT !.inbox = Append(@, r)]
  BY DEF PeerStrays
<1>2. /\ Quiet /\ HasOpened(session) /\ link.up /\ peer' = [peer EXCEPT !.stray = @ + 1]
      /\ UNCHANGED <<session, exchange, calls, log, closing>> /\ peer \in PeerSet
  BY OpenIsOpened, InvParts DEF PeerStrays
<1>3. peer' \in PeerSet /\ peer'.stray # 0
  BY <1>2 DEF PeerSet
<1>4. r \in RecordSet /\ r.epoch = begun
  <2> DEFINE q == Record("SapSend", "ok", TRUE, "success")
  <2>0. /\ "SapSend" \in FunctionNames /\ "success" \in Messages /\ TRUE \in BOOLEAN
        /\ "ok" \in {"ok", "error", "deallocated"} /\ q = Record("SapSend", "ok", TRUE, "success")
    BY DEF FunctionNames, Messages
  <2>2. r = q \/ r = [q EXCEPT !.known = FALSE]
    BY <1>1 DEF Unasked
  <2> HIDE DEF q
  <2>1. q \in RecordSet /\ q.epoch = begun
    BY <2>0, InvParts DEF Record, RecordSet, begun
  <2> QED
    BY <2>1, <2>2 DEF RecordSet
<1> QED
  BY <1>1, <1>2, <1>3, <1>4, QueueKeeps

(***************************************************************************)
(* The theorems                                                            *)
(***************************************************************************)
\* The session that was never opened
LEMMA InitInv == Init => CpicInv
<1> SUFFICES ASSUME Init PROVE CpicInv
  OBVIOUS
<1>1. NewCall \in CallRecords /\ NewCall.at = "new" /\ NewCall.todo = <<>> /\ NewCall.answer = None
  BY DEF NewCall, CallRecords
<1>2. session \in SessionSet
  BY DEF Init, SessionSet, States
<1>3. link \in LinkSet
  BY EmptySeq DEF Init, LinkSet
<1>4. /\ calls \in [Calls -> CallRecords] /\ \A c \in Calls : calls[c] = NewCall
      /\ log \in Seq(EntrySet) /\ peer \in PeerSet
  BY <1>1, EmptySeq DEF Init, PeerSet
<1>5. CallsFit(session, link, exchange, calls, log)
  BY <1>1, <1>4 DEF Init, CallsFit, CallFits, Answering
<1>6. /\ OwnerFits(session, exchange, calls, log) /\ LinkFits(session, link, exchange, closing)
      /\ OpeningFits(session, link, exchange, calls, log, closing, peer)
  BY <1>1, <1>4, SessionAssumption DEF Init, OwnerFits, LinkFits, OpeningFits, HasOpened
<1>7. TurnFits(session, link, peer)
  BY DEF Init, TurnFits
<1> QED
  BY <1>2, <1>3, <1>4, <1>5, <1>6, <1>7 DEF Init, CpicInv, Inv, Typed, SessionOf

\* Every step keeps the invariant.
LEMMA NextKeepsInv ==
  ASSUME CpicInv, Next
  PROVE  Kept
<1>1. ASSUME NEW c \in Calls, Call(c) \/ Continue(c) \/ Decode(c) \/ Apply(c) PROVE Kept
  BY <1>1, CallKeeps, ContinueKeeps, DecodeKeeps, ApplyKeeps
<1>2. CASE Closed
  <2>1. HasOpened(session)
    BY <1>2, InvParts, SessionAssumption DEF OpeningFits, Closed
  <2> QED
    BY <1>2, <2>1, CutKeeps DEF Closed
<1>3. CASE Breaks
  BY <1>3, OpenIsOpened, CutKeeps DEF Breaks
<1> QED
  BY <1>1, <1>2, <1>3, ShakeKeeps, WrittenKeeps, SendFailsKeeps, AcknowledgedKeeps,
     ReceiveFailsKeeps, ReceiveKeeps, CloseKeeps, PeerHearsKeeps, PeerSendsKeeps,
     PeerStraysKeeps DEF Next

\* Whatever calls are made and whatever the transport and the partner do, the
\* exchange, its call, the log, the owner of a reset, the link and the state of the
\* conversation fit together (DirectCpicSession).
THEOREM SessionInvariant == Spec => []CpicInv
<1>1. CpicInv /\ [Next]_vars => CpicInv'
  <2>1. CASE UNCHANGED vars
    BY <2>1 DEF vars, CpicInv
  <2> QED
    BY <2>1, NextKeepsInv DEF Kept
<1> QED
  BY <1>1, InitInv, PTL DEF Spec

\* The invariant says who is in step.
LEMMA InvInStep == CpicInv => InStep
<1> SUFFICES ASSUME CpicInv PROVE InStep
  OBVIOUS
<1>1. SessionInv
  <2>1. session.state \in States /\ session.cache \subseteq Lookups
    BY InvParts DEF SessionSet
  <2>2. exchange # None =>
          /\ calls[exchange.call].at = "waiting" /\ calls[exchange.call].id = exchange.id
          /\ \A c \in Calls \ {exchange.call} : calls[c].at # "waiting"
    BY InvParts DEF CallsFit, Exchanges
  <2>3. /\ session.owner # None =>
             /\ calls[session.owner].at \notin {"new", "settled"}
             /\ Head(calls[session.owner].todo) \in {"reset", "refresh"}
        /\ session.closed => ~link.up \/ closing = "deallocating"
    BY InvParts DEF OwnerFits, LinkFits
  <2>4. Open /\ ~session.closed /\ exchange = None => session.state = "ready"
    BY OpenIsOpened, InvParts DEF OpeningFits
  <2> QED
    BY <2>1, <2>2, <2>3, <2>4 DEF SessionInv
<1>2. AnsweredByItsOwn
  BY InvParts DEF AnsweredByItsOwn, CallsFit, CallFits
<1>3. ASSUME peer.stray = 0 PROVE peer.at # "confused"
  BY <1>3, InvParts DEF TurnFits
<1>4. ASSUME peer.stray = 0, Open, ~session.closed, exchange = None, link.up
      PROVE  peer.at \in {"listening", "gone"} /\ link.inbox = <<>> /\ link.outbox = <<>>
  <2>1. session.state = "ready"
    BY <1>1, <1>4 DEF SessionInv
  <2> QED
    BY <1>4, <2>1, InvParts DEF TurnFits
<1> QED
  BY <1>1, <1>2, <1>3, <1>4 DEF InStep

\* As long as the peer sends what it was asked for, the two sides agree on whose
\* turn it is, a call is answered by what came after its own request had begun,
\* and a session that may be lent again has nothing under way in either direction
\* (#exchange, writeOutgoingAppcDataPlan(), assertNoQueuedFrames()).
THEOREM SessionsStayInStep == Spec => []InStep
BY SessionInvariant, InvInStep, PTL

\* What a failure says of the transmission is so: "NotStarted" only if no record
\* of the request was given to the transport, "Partial" if one was, "Complete" if
\* all were (transmissionState of #exchange and of its catch).
THEOREM TransmissionIsHonest == Spec => []TransmissionHonest
<1>1. CpicInv => TransmissionHonest
  BY InvParts DEF TransmissionHonest, CallsFit, CallFits, Honest
<1> QED
  BY <1>1, SessionInvariant, PTL

\* Once a failure has said that the connection must not be used again, no record
\* of any request is given to the transport; one that says it may be used again
\* leaves the session open; and nothing comes between a reset of the server's
\* context and its refresh (#terminateGeneration(), resetServerContext()).
THEOREM DispositionsAreHonest == Spec => DispositionHonest
<1>1. CpicInv /\ [Next]_vars =>
        /\ [log' # log /\ Len(log') > Len(log) /\ log # <<>> =>
              LET last == log[Len(log)]  new == log'[Len(log')] IN
              last.step = "reset" /\ calls[last.call].at # "settled" =>
                new.step = "refresh" /\ new.call = last.call]_vars
        /\ [/\ (\E c \in Calls : /\ calls[c].at = "settled"
                                 /\ calls[c].outcome.disposition \in {"close", "unknownClose"})
                 => log' = log
            /\ \A c \in Calls : /\ calls[c].at # "settled" /\ calls'[c].at = "settled"
                               /\ calls'[c].outcome.disposition = "reusable"
                 => ~session'.closed]_vars
  <2> SUFFICES ASSUME CpicInv, Next
               PROVE  /\ Len(log') > Len(log) => MayFollow(log'[Len(log')].call,
                                                          log'[Len(log')].step)
                      /\ (\E c \in Calls : /\ calls[c].at = "settled"
                                          /\ calls[c].outcome.disposition
                                               \in {"close", "unknownClose"})
                           => log' = log
                      /\ \A c \in Calls : /\ calls[c].at # "settled" /\ calls'[c].at = "settled"
                                         /\ calls'[c].outcome.disposition = "reusable"
                           => ~session'.closed
    BY DEF MayFollow, ResetUnderWay
  <2>1. Sound
    BY NextKeepsInv DEF Kept
  <2>2. \A c \in Calls : CallFits(calls[c], session, exchange, log)
    BY InvParts DEF CallsFit
  <2>3. (\E c \in Calls : /\ calls[c].at = "settled"
                         /\ calls[c].outcome.disposition \in {"close", "unknownClose"})
          => session.closed
    BY <2>2 DEF CallFits
  <2> QED
    BY <2>1, <2>3 DEF Sound
<1> QED
  BY <1>1, SessionInvariant, PTL DEF Spec, DispositionHonest, ResetIsWhole
=============================================================================
