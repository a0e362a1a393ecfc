------------------------------ MODULE NiSocket ------------------------------
(***************************************************************************)
(* One NI transport on one TCP socket: src/transport/ni-socket.ts.         *)
(*                                                                         *)
(* The peer's bytes arrive in chunks of any size; records that no receive  *)
(* waits for are queued and the socket is paused until they are taken.     *)
(* Every failure, abort and timeout of a receive or a send is final: it    *)
(* destroys the socket.  The socket is Node's (external): it emits 'data'  *)
(* and 'end' only while it flows, and 'close' once after both sides ended  *)
(* or it was destroyed.  An action is one event or one call, to its end.   *)
(***************************************************************************)
EXTENDS NiFrames, FiniteSets

CONSTANTS
  Sends,            \* the calls of send()
  MaxQueuedFrames, MaxQueuedBytes

ASSUME NiSocketAssumption ==
  MaxQueuedFrames \in Nat \ {0} /\ MaxQueuedBytes \in Nat

Nothing == "none"
TerminalCodes == {"NI_ABORTED", "NI_CONNECTION_CLOSED", "NI_PROTOCOL_ERROR",
                  "NI_RECEIVE_TIMEOUT", "NI_WRITE_TIMEOUT", "NI_WRITE_FAILED"}

VARIABLES
  stream,    \* the bytes the peer sends: its router's, then its own
  socket,    \* the socket, and how much of the stream it emitted
  setup,     \* where the transport's opening stands
  ni,        \* the fields of NiSocketTransport
  received,  \* history: the records that receive() returned
  sends,     \* the promises of send()
  closing    \* the promise of close()
niVars == <<stream, socket, setup, ni, received, sends, closing>>

NoTransport ==
  [state |-> Nothing, error |-> Nothing, pending |-> Nothing, queue |-> <<>>,
   pausedForQueue |-> FALSE, decoder |-> EmptyDecoder]
Opened == [NoTransport EXCEPT !.state = "open"]

NiInit ==
  /\ socket = [state |-> "connecting", paused |-> FALSE, read |-> 0, ended |-> FALSE]
  /\ setup = "connecting" /\ ni = NoTransport /\ received = <<>>
  /\ sends = [s \in Sends |-> "idle"] /\ closing = Nothing

QueuedBytes(queue) == Len(FlattenSeq(queue))

Now == [ni |-> ni, socket |-> socket, received |-> received]
Become(t) == ni' = t.ni /\ socket' = t.socket /\ received' = t.received

Alive == socket.state \in {"up", "ending"}
Destroyed(s) == [s EXCEPT !.state = IF @ = "closed" THEN @ ELSE "destroyed"]

\* What the transport keeps: its first error
\* (A variant that leaves a receive waiting.)
StillWaiting(t, code) ==
  [NoTransport EXCEPT !.state = "closed", !.pending = t.ni.pending,
     !.error = IF t.ni.error = Nothing THEN code ELSE t.ni.error,
     !.pausedForQueue = t.ni.pausedForQueue]
Wiped(t, code) ==
  [NoTransport EXCEPT !.state = "closed",
     !.error = IF t.ni.error = Nothing THEN code ELSE t.ni.error,
     !.pausedForQueue = t.ni.pausedForQueue]
\* #fail
Failed(t, code) ==
  IF t.ni.state = "closed" THEN t
  ELSE [t EXCEPT !.ni = Wiped(t, code), !.socket = Destroyed(@)]

(***************************************************************************)
(* #onData: the first record goes to the receive that waits, the others to *)
(* the queue.                                                              *)
(***************************************************************************)
\* #preflightDecodedFrames
\* (A variant that admits one record more.)
FitsOneMore(t, extra) ==
  /\ Len(t.ni.queue) + Len(extra) <= MaxQueuedFrames + 1
  /\ QueuedBytes(t.ni.queue \o extra) <= MaxQueuedBytes
Fits(t, extra) ==
  /\ Len(t.ni.queue) + Len(extra) <= MaxQueuedFrames
  /\ QueuedBytes(t.ni.queue \o extra) <= MaxQueuedBytes

Queued(t, extra) ==
  [t EXCEPT !.ni.queue = @ \o extra,
            !.ni.pausedForQueue = @ \/ extra # <<>>,
            !.socket.paused = @ \/ (extra # <<>> /\ ~t.ni.pausedForQueue)]

OnData(t, chunk) ==
  LET r == Push(t.ni.decoder, chunk)
      direct == IF t.ni.pending = Nothing THEN 0 ELSE AtMost(1, Len(r.payloads))
      extra == SubSeq(r.payloads, direct + 1, Len(r.payloads))
  IN IF t.ni.state # "open" THEN t
     ELSE IF r.invalid \/ ~Fits(t, extra) THEN Failed(t, "NI_PROTOCOL_ERROR")
     ELSE Queued([t EXCEPT !.ni.decoder = r.decoder,
                           !.ni.pending = IF direct = 1 THEN Nothing ELSE @,
                           !.received = @ \o SubSeq(r.payloads, 1, direct)],
                 extra)

Emits == Alive /\ ~socket.paused /\ ~socket.ended

Sent == stream.router \o stream.target
Unemitted == Len(stream.router) + Len(stream.target) - socket.read
Chunk(n) == SubSeq(Sent, socket.read + 1, socket.read + n)
Reading(n) == [socket EXCEPT !.read = @ + n]

Data(n) ==
  /\ setup = "done" /\ Emits
  /\ Become(OnData([Now EXCEPT !.socket = Reading(n)], Chunk(n)))
  /\ UNCHANGED <<stream, setup, sends, closing>>

\* #onEnd: the peer may end anywhere
EndCode == IF Finished(ni.decoder) THEN "NI_CONNECTION_CLOSED" ELSE "NI_PROTOCOL_ERROR"
End ==
  /\ setup = "done" /\ Emits
  /\ LET t == [Now EXCEPT !.socket.ended = TRUE] IN
     Become(IF ni.state = "open" THEN Failed(t, EndCode) ELSE t)
  /\ UNCHANGED <<stream, setup, sends, closing>>

\* 'error': Node destroys the socket after it
SocketError ==
  /\ setup = "done" /\ Alive
  /\ LET t == Failed(Now, "NI_CONNECTION_CLOSED") IN
     Become([t EXCEPT !.socket = Destroyed(@)])
  /\ UNCHANGED <<stream, setup, sends, closing>>

\* 'close', heard by #onClose and by close()
SocketCloses ==
  /\ \/ socket.state = "destroyed"
     \/ socket.state = "ending" /\ socket.ended
     \/ socket.state = "up" /\ setup = "done"
  /\ LET t == [Now EXCEPT !.socket.state = "closed"] IN
     Become(CASE t.ni.state = "closing" -> [t EXCEPT !.ni.state = "closed"]
              [] t.ni.state = "open" -> Failed(t, "NI_CONNECTION_CLOSED")
              [] OTHER -> t)
  /\ closing' = IF closing = "waiting" THEN "settled" ELSE closing
  /\ UNCHANGED <<stream, setup, sends>>

(***************************************************************************)
(* receive()                                                               *)
(***************************************************************************)
\* #resumeAfterQueue
Resumed(t) ==
  IF t.ni.queue = <<>> /\ t.ni.pausedForQueue
  THEN [t EXCEPT !.ni.pausedForQueue = FALSE, !.socket.paused = FALSE]
  ELSE t

TakeQueued ==
  /\ ni.queue # <<>>
  /\ Become(Resumed([Now EXCEPT !.ni.queue = Tail(@),
                                !.received = Append(@, Head(ni.queue))]))
\* The record is gone when the stream does not resume.
ResumeFails ==
  /\ Len(ni.queue) = 1
  /\ Become(Failed([Now EXCEPT !.ni.queue = <<>>], "NI_CONNECTION_CLOSED"))
Wait ==
  /\ ni.queue = <<>> /\ ni.pending = Nothing
  /\ \E timing \in {"timed", "untimed"} :
       Become([Now EXCEPT !.ni.pending = timing])

Receive ==
  /\ ni.state = "open"
  /\ TakeQueued \/ ResumeFails \/ Wait
  /\ UNCHANGED <<stream, setup, sends, closing>>

\* An abort before or while a receive waits, its timer, a timer that cannot
\* be armed
ReceiveFails ==
  /\ ni.state = "open"
  /\ \/ Become(Failed(Now, "NI_ABORTED"))
     \/ ni.pending = "timed" /\ Become(Failed(Now, "NI_RECEIVE_TIMEOUT"))
     \/ /\ ni.queue = <<>> /\ ni.pending = Nothing
        /\ Become(Failed(Now, "NI_CONNECTION_CLOSED"))
  /\ UNCHANGED <<stream, setup, sends, closing>>

\* The part of ReceiveFails that a running timer promises
ReceiveTimesOut ==
  /\ ni.state = "open" /\ ni.pending = "timed"
  /\ Become(Failed(Now, "NI_RECEIVE_TIMEOUT"))
  /\ UNCHANGED <<stream, setup, sends, closing>>

\* assertNoQueuedFrames(): a record that waits where a request begins
AssertNoQueuedFrames ==
  /\ ni.state = "open" /\ ni.queue # <<>>
  /\ Become(Failed(Now, "NI_PROTOCOL_ERROR"))
  /\ UNCHANGED <<stream, setup, sends, closing>>

(***************************************************************************)
(* send() and close()                                                      *)
(***************************************************************************)
Send(s) ==
  /\ ni.state = "open" /\ sends[s] = "idle"
  /\ sends' = [sends EXCEPT ![s] = "writing"]
  /\ UNCHANGED <<stream, socket, setup, ni, received, closing>>

\* Aborted at once, or the timer or the write throws
SendFails(s) ==
  /\ ni.state = "open" /\ sends[s] = "idle"
  /\ sends' = [sends EXCEPT ![s] = "failed"]
  /\ \E code \in {"NI_ABORTED", "NI_WRITE_FAILED"} : Become(Failed(Now, code))
  /\ UNCHANGED <<stream, setup, closing>>

Written(s) ==
  /\ sends[s] = "writing" /\ Alive
  /\ sends' = [sends EXCEPT ![s] = "written"]
  /\ UNCHANGED <<stream, socket, setup, ni, received, closing>>

\* An abort, the write's error, or its timer
WriteFails(s) ==
  /\ sends[s] = "writing"
  /\ sends' = [sends EXCEPT ![s] = "failed"]
  /\ \E code \in {"NI_ABORTED", "NI_WRITE_FAILED", "NI_WRITE_TIMEOUT"} :
       Become(Failed(Now, code))
  /\ UNCHANGED <<stream, setup, closing>>

Quiet == [Now EXCEPT !.ni = [NoTransport EXCEPT !.state = "closing",
                               !.pausedForQueue = ni.pausedForQueue]]
CloseBegins ==
  /\ ni.state = "open" /\ closing = Nothing
  /\ \/ /\ Become([Quiet EXCEPT !.socket.state = IF @ = "up" THEN "ending" ELSE @])
        /\ closing' = "waiting"
     \* the timer or end() throws
     \/ /\ Become([Quiet EXCEPT !.ni.state = "closed", !.socket = Destroyed(@)])
        /\ closing' = "settled"
  /\ UNCHANGED <<stream, setup, sends>>

CloseTimesOut ==
  /\ closing = "waiting" /\ closing' = "settled"
  /\ Become([Now EXCEPT !.ni.state = "closed", !.socket = Destroyed(@)])
  /\ UNCHANGED <<stream, setup, sends>>

NiNext ==
  \/ \E n \in 1..Unemitted : Data(n)
  \/ End \/ SocketError \/ SocketCloses
  \/ Receive \/ ReceiveFails \/ AssertNoQueuedFrames
  \/ \E s \in Sends : Send(s) \/ SendFails(s) \/ Written(s) \/ WriteFails(s)
  \/ CloseBegins \/ CloseTimesOut
=============================================================================
