---------------------------- MODULE CpicSession ----------------------------
(***************************************************************************)
(* One logged-on conversation with an ABAP system                          *)
(* (src/client/direct-cpic-session.ts).  Callers may use the session at    *)
(* the same time; it admits one exchange at a time, and one reset, which   *)
(* is two of them.  Between an exchange that returns and the caller that   *)
(* decodes its answer only promise jobs run: other callers may begin or    *)
(* close the session there, but no event of the socket or a timer comes    *)
(* in between (Quiet).                                                     *)
(***************************************************************************)
EXTENDS AppcConversation, RfcFailurePolicy, Sequences

CONSTANTS
  Calls,          \* calls made on the session
  Kinds,          \* for each call, the operations it may be
  Sizes,          \* the numbers of records a request may take
  Bodies,         \* what an answer may hold
  Callbacks,      \* whether the session has handlers of RFC callbacks
  MaxCallbacks,   \* DEFAULT_MAX_RFC_CALLBACKS_PER_CALL
  MaxStray,       \* records the peer sends that nobody asked for
  MaxQueued       \* records of the peer that wait to be received

Steps == {"logon", "ping", "reset", "refresh", "function", "alias", "recursive", "structure",
          "invoke"}
Exchanges ==
  [call : Calls, step : Steps, id : Nat, of : Nat \ {0}, size : Nat \ {0}, index : Nat,
   at : {"sending", "acknowledged", "receiving"},
   transmission : {"NotStarted", "Complete"}, callbacks : Nat,
   decoder : [parts : Nat, known : BOOLEAN, initialReceive : BOOLEAN],
   since : SUBSET Nat]

ASSUME SessionAssumption ==
  /\ Sizes \subseteq Nat \ {0} /\ Callbacks \in BOOLEAN
  /\ MaxCallbacks \in Nat /\ MaxStray \in Nat
  /\ \A c \in Calls : Kinds[c] \subseteq {"logon", "ping", "reset", "lookup", "structure",
                                          "alias", "call", "invoke"}
  /\ None \notin Calls \cup States \cup Dispositions \cup {"deallocating", "done"}
  /\ None \notin Exchanges

VARIABLES
  session,    \* the fields of DirectCpicSession
  link,       \* its transport: whether it works, the records both ways
  exchange,   \* the exchange that runs, or None; #busy
  calls,      \* the calls and what became of them
  closing,    \* close(): None, "deallocating" or "done"
  log,        \* of the exchanges so far: whose they are and what left of them
  peer        \* external: the partner
vars == <<session, link, exchange, calls, log, closing, peer>>

begun == Len(log)

\* Only the caller's own data makes a request large.
SizesOf(step) == IF step = "invoke" THEN Sizes ELSE {1}

\* The exchanges of an operation.  Those of an invocation that look up
\* metadata may be left out; function and structure lookups are cached.  The name of
\* a table type may be the alias of a structure that is looked up in turn.
Script == [logon |-> <<"logon">>, ping |-> <<"ping">>,
           reset |-> <<"reset", "refresh">>,
           lookup |-> <<"function">>, structure |-> <<"structure">>,
           alias |-> <<"alias", "structure">>,
           call |-> <<"invoke">>,
           invoke |-> <<"function", "recursive", "structure", "invoke">>]
Lookups == {"function", "structure"}
Invocations == {"recursive", "invoke"}     \* what may be called back
Applied == Lookups \cup Invocations \cup {"alias"}     \* what has a result to decode

Handshake == <<"GwNormalClient", "Initialize", "SetPartnerLuName", "Allocate">>

NewCall == [at |-> "new", todo |-> <<>>, id |-> 0, answer |-> None, outcome |-> None]

Init ==
  /\ session = [state |-> "new", opened |-> 1, closed |-> FALSE, owner |-> None,
                authenticated |-> FALSE, id |-> FALSE, cache |-> {}]
  /\ link = [up |-> TRUE, inbox |-> <<>>, outbox |-> <<>>]
  /\ exchange = None /\ closing = None /\ log = <<>>
  /\ calls = [c \in Calls |-> NewCall]
  /\ peer = [at |-> "listening", stray |-> 0]

\* A promise job is pending: no event is handled before it.
Quiet == \A c \in Calls : calls[c].at \notin {"next", "answered", "decoded"}
Open == session.opened > Len(Handshake)

(***************************************************************************)
(* open(): each record of the set-up, and its reply where there is one     *)
(***************************************************************************)
Cut(l) == [l EXCEPT !.up = FALSE, !.inbox = <<>>, !.outbox = <<>>]

SetupReplies(function) == [function : {function, "SapSend"}, rc : {"ok", "error"}]

Shake ==
  LET function == Handshake[session.opened]
      sent == IF function = "GwNormalClient" THEN session.state
              ELSE Sent(session.state, function) IN
  /\ ~Open /\ ~session.closed
  /\ \/ /\ function = "SetPartnerLuName"
        /\ session' = [session EXCEPT !.state = sent, !.opened = @ + 1]
        /\ UNCHANGED link
     \/ /\ function # "SetPartnerLuName"
        /\ \E reply \in SetupReplies(function) :
             IF function = "GwNormalClient"
                /\ reply.function = function /\ reply.rc = "ok"
             THEN session' = [session EXCEPT !.opened = @ + 1] /\ UNCHANGED link
             ELSE IF Verdict(sent, reply) = "accepted"
             THEN /\ session' = [session EXCEPT !.state = Received(sent, reply),
                                                !.opened = @ + 1]
                  /\ UNCHANGED link
             ELSE session' = [session EXCEPT !.closed = TRUE] /\ link' = Cut(link)
     \/ session' = [session EXCEPT !.closed = TRUE] /\ link' = Cut(link)
  /\ UNCHANGED <<exchange, calls, log, closing, peer>>

(***************************************************************************)
(* How a call ends                                                         *)
(***************************************************************************)
\* A call's outcome; a reset gives up the session with it.
Settled(c, outcome) ==
  [calls EXCEPT ![c] = [NewCall EXCEPT !.at = "settled", !.outcome = outcome]]
Freed(s, c) == [s EXCEPT !.owner = IF @ = c THEN None ELSE @]

\* createRfcFailure(); id is the exchange it is about, 0 for none.
Failure(category, origin, phase, transmission, id) ==
  LET f == [category |-> category, origin |-> origin, phase |-> phase,
            transmission |-> transmission, established |-> session.authenticated]
  IN [disposition |-> Disposition(f), transmission |-> transmission,
      exchange |-> id, reason |-> None]
Success(id) == [disposition |-> None, transmission |-> "Complete",
                exchange |-> id, reason |-> None]
\* An Error that carries no failure
Rejection == [disposition |-> None, transmission |-> "NotStarted",
              exchange |-> 0, reason |-> None]

\* #terminateGeneration()
Terminated(s) ==
  IF s.closed THEN s ELSE [s EXCEPT !.closed = TRUE, !.id = FALSE, !.cache = {}]
LinkOf(s, l) == IF s.closed THEN l ELSE Cut(l)

\* n records more of the request of exchange x went out.
Logged(x, n) ==
  LET entry == [call |-> x.call, step |-> x.step, size |-> x.of, sent |-> n] IN
  IF x.id > Len(log) THEN Append(log, entry) ELSE [log EXCEPT ![x.id].sent = @ + n]

\* The catch of #exchange
ExchangeFails(s, l, x, error, phase, transmission) ==
  /\ session' = Freed(Terminated(s), x.call) /\ link' = LinkOf(s, l)
  /\ exchange' = None /\ log' = Logged(x, 0)
  /\ calls' = Settled(x.call, Failure(Caught(error), "ni", phase, transmission, x.id))

(***************************************************************************)
(* Sending                                                                 *)
(***************************************************************************)
\* writeOutgoingAppcDataPlan(): record x.index of the plan
\* (A variant that takes a first record that failed for one that never left.)
WriteFailsUnsent(s, l, x, error) ==
  ExchangeFails(s, l, x, error, "send", IF x.index = 0 THEN "NotStarted" ELSE "Partial")
WriteFails(s, l, x, error) ==
  ExchangeFails(s, l, x, error, "send", IF x.index = 0 THEN "Unknown" ELSE "Partial")
Post(s, l, cs, x) ==
  LET function == Function(x.index, x.size)
      state == Sent(s.state, function)
  IN IF ~l.up THEN WriteFails(s, l, x, "NI_CLOSED")
     ELSE /\ session' = [s EXCEPT !.state = state] /\ calls' = cs
          /\ link' = [l EXCEPT !.outbox = Append(@, function)]
          /\ exchange' = [x EXCEPT !.at = "sending"]
          /\ log' = Logged(x, IF x.callbacks = 0 THEN 1 ELSE 0)

\* assertNoQueuedFrames(): a record that is already here answers nobody.
Stale(l) == l.inbox # <<>>

\* A plan is written from its first record on; #exchange looks for stale records
\* before it.
Write(s, l, cs, x) ==
  IF s.state # "ready" THEN ExchangeFails(s, l, x, "MALFORMED", "send", x.transmission)
  ELSE Post(s, l, cs, x)
Begin(s, cs, x) ==
  IF ~link.up THEN ExchangeFails(s, link, x, "NI_CLOSED", "send", "NotStarted")
  ELSE IF Stale(link)
  THEN ExchangeFails(s, link, x, "NI_PROTOCOL_ERROR", "send", "NotStarted")
  ELSE Write(s, link, cs, x)

\* #assertExchangeAvailable()
Available(c) == exchange = None /\ session.owner \in {None, c}

NewExchange(c, step, n) ==
  [call |-> c, step |-> step, id |-> begun + 1, of |-> n, size |-> n, index |-> 0, at |-> "sending",
   transmission |-> "NotStarted", callbacks |-> 0,
   decoder |-> EmptyDecoder(n > 1), since |-> {}]

\* #exchange(), up to its first await; resetServerContext() becomes the owner.
Exchange(c, todo) ==
  LET waits == [calls EXCEPT ![c] = [NewCall EXCEPT !.at = "waiting", !.todo = todo,
                                                    !.id = begun + 1]]
      owned == [session EXCEPT !.owner = IF Head(todo) = "reset" THEN c ELSE @]
  IN
  \/ /\ session.closed /\ calls' = Settled(c, Rejection)
     /\ session' = Freed(session, c) /\ UNCHANGED <<link, exchange, log>>
  \/ /\ ~session.closed /\ ~Available(c)
     /\ calls' = Settled(c, Failure("InvalidState", "api", "send", "NotStarted", 0))
     /\ UNCHANGED <<session, link, exchange, log>>
  \/ /\ ~session.closed /\ Available(c)    \* #planOutgoingRequest() throws
     /\ Head(todo) \in Invocations
     /\ calls' = Settled(c, Failure("Serialization", "codec", "encode", "NotStarted", 0))
     /\ session' = Freed(session, c) /\ UNCHANGED <<link, exchange, log>>
  \/ /\ ~session.closed /\ Available(c)
     /\ \E n \in SizesOf(Head(todo)) : Begin(owned, waits, NewExchange(c, Head(todo), n))

(***************************************************************************)
(* Steps of a call                                                         *)
(***************************************************************************)
LoggedOn == session.authenticated /\ session.id

\* The step is not needed, or its result is known.
Omitted(todo) ==
  \/ Head(todo) \in Lookups \cap session.cache
  \/ Head(todo) \in {"recursive", "structure"} /\ Len(todo) > 1

\* After a step the call goes on with the next one or returns.
After(c, s, todo, id) ==
  IF Len(todo) > 1
  THEN /\ calls' = [calls EXCEPT ![c] = [NewCall EXCEPT !.at = "next", !.todo = Tail(todo)]]
       /\ session' = s
  ELSE calls' = Settled(c, Success(id)) /\ session' = Freed(s, c)

StepOf(c, todo) ==
  LET step == Head(todo)
      checked == step \notin {"invoke", "refresh"}
      refused == IF step = "logon" THEN session.authenticated ELSE checked /\ ~LoggedOn
  IN
  \/ /\ refused /\ calls' = Settled(c, Rejection)
     /\ UNCHANGED <<session, link, exchange, log>>
  \/ /\ ~refused /\ Omitted(todo) /\ After(c, session, todo, 0)
     /\ UNCHANGED <<link, exchange, log>>
  \/ /\ ~refused /\ step \in Invocations   \* DirectCpicPreWireError
     /\ calls' = Settled(c, Rejection) /\ UNCHANGED <<session, link, exchange, log>>
  \/ ~refused /\ step \notin session.cache /\ Exchange(c, todo)

Call(c) ==
  /\ Open /\ calls[c].at = "new" /\ \E kind \in Kinds[c] : StepOf(c, Script[kind])
  /\ UNCHANGED <<closing, peer>>
Continue(c) ==
  /\ calls[c].at = "next" /\ StepOf(c, calls[c].todo) /\ UNCHANGED <<closing, peer>>

(***************************************************************************)
(* The exchange                                                            *)
(***************************************************************************)
Running(at) == exchange # None /\ exchange.at = at /\ Quiet

\* A record was taken by the transport: its acknowledgement is awaited, or the
\* next one goes, or the answer is awaited.
Written ==
  /\ Running("sending") /\ link.up /\ UNCHANGED <<closing, peer>>
  /\ IF Function(exchange.index, exchange.size) = "SendData"
     THEN exchange' = [exchange EXCEPT !.at = "acknowledged"]
          /\ UNCHANGED <<session, link, calls, log>>
     ELSE IF exchange.index + 1 < exchange.size
     THEN Post(session, link, calls, [exchange EXCEPT !.index = @ + 1])
     ELSE /\ exchange' = [exchange EXCEPT !.at = "receiving", !.transmission = "Complete"]
          /\ UNCHANGED <<session, link, calls, log>>
SendFails ==
  /\ Running("sending") /\ UNCHANGED <<closing, peer>>
  /\ \E error \in {"NI_ABORTED", "NI_WRITE_TIMEOUT", "NI_CLOSED"} :
       WriteFails(session, link, exchange, error)

\* The barrier of a streamed request
Acknowledged ==
  /\ Running("acknowledged") /\ link.inbox # <<>> /\ UNCHANGED <<closing, peer>>
  /\ LET record == Head(link.inbox)
         s == [session EXCEPT !.state = Received(@, record)]
         rest == [link EXCEPT !.inbox = Tail(@)]
     IN IF Verdict(session.state, record) = "accepted" /\ record.known
        THEN Post(s, rest, calls, [exchange EXCEPT !.index = @ + 1])
        ELSE WriteFails(session, rest, exchange, "MALFORMED")
\* (A variant whose barrier is awaited without a timer.)
BarrierWaits ==
  /\ Running("receiving") /\ UNCHANGED <<closing, peer>>
  /\ ExchangeFails(session, link, exchange, "NI_CLOSED", "receive", "Complete")
ReceiveFails ==
  /\ Running("acknowledged") \/ Running("receiving")
  /\ UNCHANGED <<closing, peer>>
  /\ \E error \in {"NI_ABORTED", "NI_RECEIVE_TIMEOUT", "NI_CLOSED"} :
       IF exchange.at = "acknowledged" THEN WriteFails(session, link, exchange, error)
       ELSE ExchangeFails(session, link, exchange, error, "receive", exchange.transmission)

\* The answer is a callback: the handler's reply goes out as a request does.
CallBack(s, l, x) ==
  \/ ExchangeFails(s, l, x, "MALFORMED", "receive", "Complete")
  \/ /\ Head(calls[x.call].todo) \in Invocations /\ Callbacks
     /\ x.callbacks < MaxCallbacks
     /\ \E n \in Sizes :
          Write(s, l, calls, [x EXCEPT !.size = n, !.index = 0,
                               !.callbacks = @ + 1, !.decoder = EmptyDecoder(n > 1)])

\* The message is whole: an ordinary one must be the last thing that came.
Message(s, x, record) ==
  LET over == record.rc = "deallocated"
      rest == [link EXCEPT !.inbox = Tail(@)]
      done == IF over THEN Terminated(s) ELSE [s EXCEPT !.state = "ready"]
      l == IF over THEN LinkOf(s, rest) ELSE rest IN
  IF ~record.known \/ (~over /\ Stale(rest))
  THEN ExchangeFails(s, rest, x, "MALFORMED", "receive", "Complete")
  ELSE IF record.body = "callback" THEN CallBack(done, l, x)
  ELSE /\ session' = done /\ link' = l /\ exchange' = None /\ UNCHANGED log
       /\ calls' = [calls EXCEPT ![x.call] = [@ EXCEPT !.at = "answered", !.answer =
                     [body |-> record.body, over |-> over, since |-> x.since]]]

Receive ==
  /\ Running("receiving") /\ link.inbox # <<>> /\ UNCHANGED <<closing, peer>>
  /\ LET record == Head(link.inbox)
         rest == [link EXCEPT !.inbox = Tail(@)]
         verdict == Verdict(session.state, record)
         push == Push(exchange.decoder, record)
         s == [session EXCEPT !.state = Received(@, record)]
         x == [exchange EXCEPT !.decoder = Pushed(@, record),
                               !.since = @ \cup {record.epoch}]
     IN IF verdict = "error"
        THEN ExchangeFails(s, rest, x, IF record.rc = "error" THEN "RETURN_CODE"
                                       ELSE "MALFORMED", "receive", "Complete")
        ELSE IF push \in {"error", "no-data"}
        THEN ExchangeFails(s, rest, x, IF push = "no-data" THEN "RETURN_CODE"
                                       ELSE "MALFORMED", "receive", "Complete")
        ELSE IF push = "message" THEN Message(s, x, record)
        ELSE session' = s /\ exchange' = x /\ link' = rest /\ UNCHANGED <<calls, log>>

(***************************************************************************)
(* What the call makes of the answer                                       *)
(***************************************************************************)
\* A failure after the exchange; one that ends the session closes it.
CallFails(c, failure) ==
  /\ calls' = Settled(c, failure)
  /\ IF failure.disposition = "reusable"
     THEN session' = Freed(session, c) /\ UNCHANGED link
     ELSE session' = Freed(Terminated(session), c) /\ link' = LinkOf(session, link)

Remotely == [exception |-> "AbapException", unavailable |-> "AbapException",
             message |-> "AbapMessage", runtime |-> "AbapRuntime"]

\* logonAndPing()
LogonAnswered(c) ==
  LET a == calls[c].answer  id == calls[c].id IN
  IF a.body = "success"
  THEN /\ calls' = Settled(c, Success(id)) /\ UNCHANGED link
       /\ session' = [session EXCEPT !.id = TRUE, !.authenticated = TRUE]
  ELSE CallFails(c, Failure(IF a.body = "malformed" THEN "MalformedProtocol" ELSE "Logon",
                            "sap", "logon", "Complete", id))

\* #decodeRegularResponse(): an answer that came with the end of the
\* conversation never leaves the session reusable.  A lookup of recursive
\* metadata that an invocation can do without may be refused.
RegularAnswered(c) ==
  LET a == calls[c].answer  id == calls[c].id  todo == calls[c].todo
      terminal == session.state = "closed"
      remote == Failure(Remotely[a.body], IF terminal THEN "appc" ELSE "sap",
                        "envelopeDecode", "Complete", id)
      ended == [Failure("Communication", "appc", "envelopeDecode", "Complete", id)
                EXCEPT !.reason = "CM_DEALLOCATED_NORMAL"]
  IN
  \/ /\ a.body = "malformed"
     /\ CallFails(c, Failure("MalformedProtocol", "cpic", "envelopeDecode", "Complete", id))
  \/ a.body \in DOMAIN Remotely /\ CallFails(c, remote)
  \/ /\ a.body = "unavailable" /\ Head(todo) = "recursive"
     /\ remote.disposition = "reusable" /\ After(c, session, todo, id) /\ UNCHANGED link
  \/ /\ a.body \in {"success", "values"} /\ terminal
     /\ calls' = Settled(c, ended) /\ session' = Freed(session, c) /\ UNCHANGED link
  \/ /\ a.body \in {"success", "values"} /\ ~terminal
     /\ IF Head(todo) \in Applied
        THEN calls' = [calls EXCEPT ![c].at = "decoded"] /\ UNCHANGED session
        ELSE After(c, session, todo, id)
     /\ UNCHANGED link

Decode(c) ==
  /\ calls[c].at = "answered"
  /\ IF Head(calls[c].todo) = "logon" THEN LogonAnswered(c) ELSE RegularAnswered(c)
  /\ UNCHANGED <<exchange, log, closing, peer>>

\* #decodeApplicationResult(): "values" are those that do not decode; a
\* number that cannot be converted only fails the call.
Apply(c) ==
  LET todo == calls[c].todo  id == calls[c].id IN
  /\ calls[c].at = "decoded" /\ UNCHANGED <<exchange, log, closing, peer>>
  /\ \/ /\ calls[c].answer.body = "values"
        /\ \/ CallFails(c, Failure("MalformedProtocol", "codec", "valueDecode",
                                   "Complete", id))
           \/ calls' = Settled(c, [Rejection EXCEPT !.exchange = id,
                                   !.transmission = "Complete"])
              /\ UNCHANGED <<session, link>>
     \/ /\ calls[c].answer.body = "success" /\ UNCHANGED link
        /\ LET filled == [session EXCEPT !.cache = @ \cup (Lookups \cap {Head(todo)})]
           IN After(c, filled, todo, id)

(***************************************************************************)
(* close()                                                                 *)
(***************************************************************************)
Close ==
  /\ Open /\ ~session.closed /\ exchange = None /\ session.owner = None
  /\ session' = [Terminated(session) EXCEPT
                   !.state = IF @ = "ready" THEN Sent(@, "Deallocate") ELSE @]
  /\ IF session.state = "ready" /\ link.up
     THEN /\ link' = [link EXCEPT !.outbox = Append(@, "Deallocate")]
          /\ closing' = "deallocating"
     ELSE link' = Cut(link) /\ closing' = "done"
  /\ UNCHANGED <<exchange, calls, log, peer>>
Closed ==
  /\ closing = "deallocating" /\ Quiet /\ closing' = "done" /\ link' = Cut(link)
  /\ UNCHANGED <<session, exchange, calls, log, peer>>

(***************************************************************************)
(* The link and the partner (external)                                     *)
(***************************************************************************)
Breaks ==
  /\ Open /\ Quiet /\ link.up /\ link' = Cut(link)
  /\ UNCHANGED <<session, exchange, calls, log, closing, peer>>

\* What the partner makes of a record, as the conversation has it
Heard(at, function) ==
  CASE at = "listening" /\ function = "SapSend" -> "serving"
    [] at \in {"listening", "collecting"} /\ function = "AsyncSendData" -> "collecting"
    [] at = "collecting" /\ function = "SendData" -> "acknowledging"
    [] at = "collecting" /\ function = "Receive" -> "serving"
    [] at = "listening" /\ function = "Deallocate" -> "gone"
    [] at = "gone" -> "gone"
    [] OTHER -> "confused"
PeerHears ==
  /\ Quiet /\ link.outbox # <<>> /\ link' = [link EXCEPT !.outbox = Tail(@)]
  /\ peer' = [peer EXCEPT !.at = Heard(@, Head(link.outbox))]
  /\ UNCHANGED <<session, exchange, calls, log, closing>>

Record(function, rc, final, body) ==
  [function |-> function, rc |-> rc, final |-> final, empty |-> body = None,
   known |-> TRUE, body |-> body, epoch |-> begun]
Answers == {Record(f, "ok", TRUE, b) : f \in DataFunctions, b \in Bodies}
Parts == {Record(f, "ok", FALSE, None) : f \in DataFunctions}
Ends == {Record("Receive", "deallocated", FALSE, b) :
           b \in {"success", "unavailable", "callback", None}}
Errors == {Record("Receive", "error", FALSE, None)}
Unasked == {Record("SapSend", "ok", TRUE, "success"),
            [Record("SapSend", "ok", TRUE, "success") EXCEPT !.known = FALSE]}

Emits(record, at) ==
  /\ Quiet /\ link.up /\ Len(link.inbox) < MaxQueued
  /\ link' = [link EXCEPT !.inbox = Append(@, record)] /\ peer' = [peer EXCEPT !.at = at]
  /\ UNCHANGED <<session, exchange, calls, log, closing>>
PeerAcknowledges ==
  peer.at = "acknowledging" /\ Emits(Record("SendData", "ok", TRUE, None), "collecting")
PeerAnswers ==
  /\ peer.at = "serving"
  /\ \/ \E r \in Answers : Emits(r, "listening")
     \/ \E r \in Parts : Emits(r, "serving")
     \/ \E r \in Ends \cup Errors : Emits(r, "gone")
\* One too many, or one of another conversation
PeerStrays ==
  /\ peer.stray < MaxStray /\ Quiet /\ Open /\ link.up /\ peer.at # "gone"
  /\ Len(link.inbox) < MaxQueued
  /\ \E r \in Unasked :
       link' = [link EXCEPT !.inbox = Append(@, r)]
  /\ peer' = [peer EXCEPT !.stray = @ + 1]
  /\ UNCHANGED <<session, exchange, calls, log, closing>>

Next ==
  \/ Shake
  \/ \E c \in Calls : Call(c) \/ Continue(c) \/ Decode(c) \/ Apply(c)
  \/ Written \/ SendFails \/ Acknowledged \/ ReceiveFails \/ Receive
  \/ Close \/ Closed
  \/ Breaks \/ PeerHears \/ PeerAcknowledges \/ PeerAnswers \/ PeerStrays
Fairness ==
  /\ \A c \in Calls : WF_vars(Continue(c)) /\ WF_vars(Decode(c)) /\ WF_vars(Apply(c))
  /\ WF_vars(Written \/ SendFails) /\ WF_vars(Receive \/ Acknowledged \/ ReceiveFails)
Spec == Init /\ [][Next]_vars /\ Fairness

(***************************************************************************)
(* Properties                                                              *)
(***************************************************************************)
\* The types, and how the fields of the session hang together: the exchange is
\* that of a waiting call, the owner a reset in progress, a closed session has
\* given up its transport, and one that is neither closed nor busy is ready.
SessionInv ==
  /\ session.state \in States /\ session.cache \subseteq Lookups
  /\ exchange # None =>
       /\ calls[exchange.call].at = "waiting" /\ calls[exchange.call].id = exchange.id
       /\ \A c \in Calls \ {exchange.call} : calls[c].at # "waiting"
  /\ session.owner # None =>
       /\ calls[session.owner].at \notin {"new", "settled"}
       /\ Head(calls[session.owner].todo) \in {"reset", "refresh"}
  /\ session.closed => ~link.up \/ closing = "deallocating"
  /\ Open /\ ~session.closed /\ exchange = None => session.state = "ready"

\* What is decoded for a call came after its own request had begun: a record that
\* was there before, late or unasked for, never answers it.
AnsweredByItsOwn ==
  \A c \in Calls : calls[c].answer # None => calls[c].answer.since = {calls[c].id}

\* As long as the peer sends what it was asked for, the two sides agree on whose
\* turn it is: the peer never gets a record it cannot make sense of, and a
\* session that may be lent again has nothing under way in either direction
\* (the records and barriers of a request, callbacks, responseComplete()).
InStep ==
  /\ SessionInv /\ AnsweredByItsOwn
  /\ peer.stray = 0 =>
       /\ peer.at # "confused"
       /\ Open /\ ~session.closed /\ exchange = None /\ link.up =>
            peer.at \in {"listening", "gone"} /\ link.inbox = <<>> /\ link.outbox = <<>>

\* What a failure says of the transmission: "NotStarted" only if no record of the
\* request was given to the transport, "Partial" if the first was and "Complete"
\* if all were.
TransmissionHonest ==
  \A c \in Calls :
    LET o == calls[c].outcome IN
    calls[c].at = "settled" /\ o.exchange # 0 =>
      LET entry == log[o.exchange] IN
      /\ o.transmission = "NotStarted" => entry.sent = 0
      /\ o.transmission = "Partial" => entry.sent > 0
      /\ o.transmission = "Complete" => entry.sent = entry.size

\* Nothing is exchanged between the reset of the server's context and the refresh
\* of the session that belongs to it (resetServerContext()).
ResetIsWhole ==
  [][log' # log /\ Len(log') > Len(log) /\ log # <<>> =>
       LET last == log[Len(log)]  new == log'[Len(log')] IN
       last.step = "reset" /\ calls[last.call].at # "settled" =>
         new.step = "refresh" /\ new.call = last.call]_vars

\* Once a failure has said that the connection must not be used again, no record
\* of any request is given to the transport; a failure that says it may be used
\* again leaves the session open; and what is sent keeps a reset whole.
DispositionHonest ==
  /\ ResetIsWhole
  /\ [][/\ (\E c \in Calls : /\ calls[c].at = "settled"
                             /\ calls[c].outcome.disposition \in {"close", "unknownClose"})
             => log' = log
        /\ \A c \in Calls : /\ calls[c].at # "settled" /\ calls'[c].at = "settled"
                           /\ calls'[c].outcome.disposition = "reusable"
             => ~session'.closed]_vars

\* Every call ends: what is sent and received is bounded by timers.
CallsSettle == \A c \in Calls : calls[c].at # "new" ~> calls[c].at = "settled"
=============================================================================
