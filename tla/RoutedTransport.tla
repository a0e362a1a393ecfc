--------------------------- MODULE RoutedTransport ---------------------------
(***************************************************************************)
(* How a session gets its transport: a socket is connected, tunnelled      *)
(* through a SAProuter (src/transport/saprouter-tunnel.ts) or through the  *)
(* SOCKS5 proxy of SAP Connectivity (connectivity-socks5-tunnel.ts) or     *)
(* neither, and handed to NiSocketTransport (saprouter-ni.ts and           *)
(* connectivity-socks5-ni.ts).  The tunnel reads its replies from the      *)
(* same stream as the records that follow; at the hand-over the socket is  *)
(* paused, the tunnel's listeners are gone and what it read too much       *)
(* travels beside the socket.                                              *)
(***************************************************************************)
EXTENDS NiSocket

CONSTANTS
  Routes,             \* subset of {"direct", "saprouter", "socks5"}
  Replies,            \* for each route, what its router may answer
  Frames,             \* the bytes of the target, after the replies
  MinReply, MaxReply, \* payload bounds of a SAProuter reply
  MaxBufferedBytes    \* of a SOCKS5 handshake

ASSUME RoutedTransportAssumption ==
  /\ Routes \subseteq {"direct", "saprouter", "socks5"}
  /\ \A r \in Routes : Replies[r] \subseteq Seq(Byte)
  /\ Frames \subseteq Seq(Byte)
  /\ {MinReply, MaxReply, MaxBufferedBytes} \subseteq Nat

VARIABLES
  route,
  tunnel,     \* the handshake: its phase, the bytes it keeps, its requests
  aborted     \* the signal of the connect call
transportVars == <<niVars, route, tunnel, aborted>>

\* The acknowledgement of a SAProuter, "NI_PONG" and a zero
Pong == <<78, 73, 95, 80, 79, 78, 71, 0>>

NoTunnel == [phase |-> Nothing, buffered |-> <<>>, requests |-> 0, taken |-> 0]
\* The tunnel of a route as its first request goes out
FirstRequest(r) ==
  [NoTunnel EXCEPT !.requests = 1, !.phase = IF r = "socks5" THEN "method-response" ELSE @]

TransportInit ==
  /\ NiInit
  /\ route \in Routes /\ stream \in [router : Replies[route], target : Frames]
  /\ tunnel = NoTunnel /\ aborted = FALSE

(***************************************************************************)
(* The handshakes.  verdict is Nothing while more bytes are needed.        *)
(***************************************************************************)
\* Accepted(r, size): the first size bytes were the tunnel's
Accepted(t, size) ==
  [t EXCEPT !.verdict = "accepted", !.taken = @ + size,
            !.buffered = SubSeq(@, size + 1, Len(@))]
Rejected(t) == [t EXCEPT !.verdict = "rejected"]

SapRouterReply(t) ==
  LET length == Number(SubSeq(t.buffered, 1, LengthBytes)) IN
  IF Len(t.buffered) < LengthBytes THEN t
  ELSE IF length < MinReply \/ length > MaxReply THEN Rejected(t)
  ELSE IF Len(t.buffered) < LengthBytes + length THEN t
  ELSE IF SubSeq(t.buffered, LengthBytes + 1, LengthBytes + length) = Pong
  THEN Accepted(t, LengthBytes + length)
  ELSE Rejected(t)

\* One answer of the proxy sends the next request.
NextPhase(t, phase) ==
  [t EXCEPT !.phase = phase, !.requests = @ + 1, !.taken = @ + 2,
            !.buffered = SubSeq(@, 3, Len(@))]
MethodReply(t) ==
  IF Len(t.buffered) < 2 THEN t
  ELSE IF SubSeq(t.buffered, 1, 2) # <<5, 128>> THEN Rejected(t)
  ELSE NextPhase(t, "authentication-response")
AuthenticationReply(t) ==
  IF Len(t.buffered) < 2 THEN t
  ELSE IF SubSeq(t.buffered, 1, 2) # <<1, 0>> THEN Rejected(t)
  ELSE NextPhase(t, "connect-response")

\* The length of a CONNECT reply, by its address type; 0 when it has none
ConnectReplyLength(b) ==
  CASE b[4] = 1 -> 10
    [] b[4] = 4 -> 22
    [] b[4] = 3 /\ Len(b) = 4 -> 5
    [] b[4] = 3 /\ Len(b) > 4 /\ b[5] > 0 -> 7 + b[5]
    [] OTHER -> 0
ConnectReply(t) ==
  LET b == t.buffered IN
  IF Len(b) < 4 THEN t
  ELSE IF <<b[1], b[2], b[3]>> # <<5, 0, 0>> \/ ConnectReplyLength(b) = 0
  THEN Rejected(t)
  ELSE IF Len(b) < ConnectReplyLength(b) THEN t
  ELSE Accepted(t, ConnectReplyLength(b))

\* process(): answers that came together are taken together.
SocksReply(t) ==
  LET method == IF t.phase = "method-response" THEN MethodReply(t) ELSE t
      authentication == IF method.phase = "authentication-response"
                           /\ method.verdict = Nothing
                        THEN AuthenticationReply(method) ELSE method
  IN IF authentication.phase = "connect-response" /\ authentication.verdict = Nothing
     THEN ConnectReply(authentication) ELSE authentication

\* Tunnel t with these bytes to read, and what becomes of them
Holding(t, bytes) ==
  [phase |-> t.phase, requests |-> t.requests, taken |-> t.taken,
   buffered |-> bytes, verdict |-> Nothing]
Answered(r, fed) == IF r = "saprouter" THEN SapRouterReply(fed) ELSE SocksReply(fed)

Reply(t, chunk) ==
  LET fed == Holding(t, t.buffered \o chunk) IN
  IF route = "socks5" /\ Len(chunk) > MaxBufferedBytes - Len(t.buffered)
  THEN Rejected(fed)
  ELSE Answered(route, fed)

\* What a router sends before the bytes of its target: answers that, read at
\* one go, are refused or used up.
UsedUp(r, fed) ==
  LET a == Answered(r, fed) IN
  a.verdict = "rejected" \/ (a.verdict = "accepted" /\ a.taken = fed.taken + Len(fed.buffered))
ASSUME WholeReplies ==
  \A r \in Routes : \A b \in Replies[r] :
    IF r = "direct" THEN b = <<>> ELSE UsedUp(r, Holding(FirstRequest(r), b))

(***************************************************************************)
(* Setting up                                                              *)
(***************************************************************************)
SetupFails ==
  setup' = "failed" /\ socket' = Destroyed(socket) /\ tunnel' = NoTunnel

\* connect(): the socket is up and, if it is direct, open for records.
Connected ==
  /\ setup = "connecting" /\ socket' = [socket EXCEPT !.state = "up"]
  /\ IF route = "direct"
     THEN setup' = "done" /\ ni' = Opened /\ UNCHANGED tunnel
     ELSE /\ setup' = "handshake" /\ UNCHANGED ni
          /\ tunnel' = FirstRequest(route)
  /\ UNCHANGED <<stream, received, sends, closing, route, aborted>>

\* An error of the socket, its end or close, the timer, a failed write
AttemptFails ==
  /\ setup \in {"connecting", "handshake"} /\ SetupFails
  /\ UNCHANGED <<stream, ni, received, sends, closing, route, aborted>>

\* The signal: its listener is gone once the tunnel stands.
Abort ==
  /\ setup \in {"connecting", "handshake", "handoff"} /\ ~aborted
  /\ aborted' = TRUE
  /\ IF setup = "handoff" THEN UNCHANGED <<setup, socket, tunnel>> ELSE SetupFails
  /\ UNCHANGED <<stream, ni, received, sends, closing, route>>

\* (A variant that hands over the socket without what was read too much.)
KeptNothing(r) == <<>>
Kept(r) == r.buffered

HandshakeData ==
  /\ setup = "handshake" /\ Emits
  /\ \E n \in 1..Unemitted :
       LET r == Reply(tunnel, Chunk(n)) IN
       IF r.verdict = "rejected"
       THEN setup' = "failed" /\ socket' = Destroyed(Reading(n)) /\ tunnel' = NoTunnel
       ELSE /\ tunnel' = [phase |-> r.phase, requests |-> r.requests,
                          taken |-> r.taken,
                          buffered |-> IF r.verdict = Nothing THEN r.buffered ELSE Kept(r)]
            /\ setup' = IF r.verdict = Nothing THEN setup ELSE "handoff"
            /\ socket' = [Reading(n) EXCEPT !.paused = r.verdict # Nothing]
  /\ UNCHANGED <<stream, ni, received, sends, closing, route, aborted>>

\* While the paused socket has no listener
BreaksUnheard ==
  /\ setup = "handoff" /\ Alive /\ socket' = Destroyed(socket)
  /\ UNCHANGED <<stream, setup, ni, received, sends, closing, route, tunnel, aborted>>

(***************************************************************************)
(* NiSocketTransport.adopt(): the kept bytes first, then the stream.       *)
(***************************************************************************)
Flowing(t) ==
  IF t.ni.pausedForQueue THEN t ELSE [t EXCEPT !.socket.paused = FALSE]

Adopt ==
  /\ setup = "handoff"
  /\ LET t == OnData([Now EXCEPT !.ni = Opened], tunnel.buffered) IN
     IF ~Alive \/ aborted
     THEN SetupFails /\ UNCHANGED <<ni, received>>
     ELSE IF t.ni.state # "open"
     THEN setup' = "failed" /\ tunnel' = NoTunnel /\ Become(t)
     ELSE /\ setup' = "done" /\ tunnel' = [tunnel EXCEPT !.buffered = <<>>]
          /\ Become(Flowing(t))
  /\ UNCHANGED <<stream, sends, closing, route, aborted>>

\* The caller's listeners or the stream fail in the middle of adopt().
AdoptFails ==
  /\ setup = "handoff" /\ SetupFails
  /\ ni' = [NoTransport EXCEPT !.state = "closed", !.error = "NI_CONNECTION_CLOSED"]
  /\ UNCHANGED <<stream, received, sends, closing, route, aborted>>

SetsUp ==
  Connected \/ AttemptFails \/ Abort \/ HandshakeData \/ BreaksUnheard
    \/ Adopt \/ AdoptFails
TransportNext == SetsUp \/ (NiNext /\ UNCHANGED <<route, tunnel, aborted>>)

TransportSpec == TransportInit /\ [][TransportNext]_transportVars
(***************************************************************************)
(* Timers run: of the setup, of a timed receive, of a write, of close().   *)
(* Bytes that were sent arrive while the socket flows, a destroyed socket  *)
(* emits 'close', and the session goes on receiving.                       *)
(***************************************************************************)
\* Weak fairness of Data, and below of Adopt, with what enables each written
\* out: they are costly to evaluate.
BytesFlow ==
  \/ []<>~(setup = "done" /\ Emits /\ Unemitted > 0)
  \/ []<><<setup = "done" /\ socket'.read # socket.read>>_transportVars
Fairness ==
  /\ WF_transportVars(AttemptFails) /\ []<>(setup # "handoff")
  /\ WF_transportVars(ReceiveTimesOut /\ UNCHANGED <<route, tunnel, aborted>>)
  /\ \A s \in Sends : WF_transportVars(WriteFails(s) /\ UNCHANGED <<route, tunnel, aborted>>)
  /\ WF_transportVars(CloseTimesOut /\ UNCHANGED <<route, tunnel, aborted>>)
  /\ BytesFlow
  /\ WF_transportVars(Receive /\ UNCHANGED <<route, tunnel, aborted>>)
TransportFairSpec == TransportSpec /\ Fairness

(***************************************************************************)
(* Properties                                                              *)
(***************************************************************************)
\* The records in a sequence of bytes, read at one go: up to the first one
\* that is not whole or longer than any may be.
Records(bytes) ==
  LET from[i \in 0..Len(bytes)] ==
        LET n == Number(SubSeq(bytes, i + 1, i + LengthBytes))
            next == i + LengthBytes + n
        IN IF i + LengthBytes > Len(bytes) THEN <<>>
           ELSE IF n > MaxPayloadLength \/ next > Len(bytes) THEN <<>>
           ELSE <<SubSeq(bytes, i + LengthBytes + 1, next)>> \o from[next]
  IN from[0]

Sockets ==
  [state : {"connecting", "up", "ending", "destroyed", "closed"},
   paused : BOOLEAN, read : 0..Len(Sent), ended : BOOLEAN]
Transports ==
  [state : {Nothing, "open", "closing", "closed"},
   error : {Nothing} \cup TerminalCodes,
   pending : {Nothing, "timed", "untimed"},
   queue : Chunks, pausedForQueue : BOOLEAN, decoder : Decoders]
Tunnels ==
  [phase : {Nothing, "method-response", "authentication-response",
            "connect-response"},
   buffered : Seq(Byte), requests : Nat, taken : Nat]
TransportTypeOK ==
  /\ stream \in [router : Seq(Byte), target : Seq(Byte)]
  /\ socket \in Sockets /\ ni \in Transports /\ tunnel \in Tunnels
  /\ setup \in {"connecting", "handshake", "handoff", "done", "failed"}
  /\ received \in Chunks
  /\ sends \in [Sends -> {"idle", "writing", "written", "failed"}]
  /\ closing \in {Nothing, "waiting", "settled"}
  /\ route \in Routes /\ aborted \in BOOLEAN

\* What a peer can make the transport keep: whole records within the limits
\* of the queue, less than one record in the decoder, and during a SOCKS5
\* handshake no more than its buffer.
Bounded ==
  /\ Len(ni.queue) <= MaxQueuedFrames /\ QueuedBytes(ni.queue) <= MaxQueuedBytes
  /\ ni.decoder.buffered < LengthBytes + MaxPayloadLength
  /\ route = "socks5" => Len(tunnel.buffered) <= MaxBufferedBytes

\* The stream is held back exactly while records wait, so that the queue does
\* not outgrow its limit and the stream never stalls with an empty queue.
HeldWhileQueued ==
  ni.state = "open" => (socket.paused <=> ni.queue # <<>>)

\* A setup that failed and a transport that is closed have given up their
\* socket, in whatever way they ended, and keep no record and no receive.
NothingLeaks ==
  /\ setup = "failed" \/ ni.state = "closed" => ~Alive /\ socket.state # "connecting"
  /\ ni.state \in {"closing", "closed"} =>
       ni.queue = <<>> /\ ni.pending = Nothing /\ ni.decoder = EmptyDecoder

\* No peer makes the transport keep more than its limits allow, the stream
\* neither overruns them nor stalls, and what has ended keeps nothing.
TransportInv == TransportTypeOK /\ Bounded /\ HeldWhileQueued /\ NothingLeaks

\* Every byte the socket emitted is accounted for, in its place: the tunnel
\* took it, it came out in a record, its record waits in the queue, or it is
\* kept in the decoder or for the hand-over.
Encoded(frames) ==
  FlattenSeq([i \in DOMAIN frames |-> EncodeNiFrame(frames[i])])
BytesAccounted ==
  LET after == SubSeq(Sent, tunnel.taken + 1, socket.read) IN
  /\ setup \in {"handshake", "handoff"} => tunnel.buffered = after
  /\ ni.state = "open" =>
       Encoded(received \o ni.queue) \o Remainder(ni.decoder) = after

Channel == INSTANCE FrameChannel WITH
  records <- Records(stream.target),
  received <- received,
  status <- IF ni.state = Nothing /\ setup # "failed" THEN "setup"
            ELSE IF ni.state = "open" THEN "open" ELSE "closed"
\* A peer that ends its side in an orderly way loses none of its records:
\* all it sent have been handed out when the transport closes over it.
EndAfterDrain ==
  [][socket'.ended /\ ~socket.ended /\ ni.state = "open" =>
       received = Records(SubSeq(Sent, tunnel.taken + 1, socket.read))]_transportVars

\* Whatever the route and however the bytes are cut, the session reads the
\* target's records, in order and whole, the stream never stalls, and an
\* orderly end cuts nothing off.
ImplementsFrameChannel == Channel!Spec /\ EndAfterDrain

\* Whatever the peer does or leaves undone, setting up ends, a timed receive
\* and a send are answered, and so is close().
CallsSettle ==
  /\ <>(setup \in {"done", "failed"})
  /\ ni.pending = "timed" ~> ni.pending = Nothing
  /\ closing = "waiting" ~> closing = "settled"
  /\ \A s \in Sends : sends[s] = "writing" ~> sends[s] \in {"written", "failed"}
=============================================================================
