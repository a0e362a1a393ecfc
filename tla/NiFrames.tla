------------------------------ MODULE NiFrames ------------------------------
(***************************************************************************)
(* NI records: a big-endian length, then the payload (src/protocol/ni.ts). *)
(* The decoder keeps the chunks it was given and a position in the first   *)
(* of them that is not consumed; a record may begin and end anywhere in a  *)
(* chunk, its length field included.  Payloads are sequences of bytes.     *)
(***************************************************************************)
EXTENDS Integers, Sequences, SequencesExt

CONSTANTS
  LengthBytes,      \* NI_LENGTH_BYTES
  MaxPayloadLength,
  CompactAt         \* consumed chunks that are worth dropping (64)

ASSUME NiFramesAssumption ==
  {LengthBytes, CompactAt} \subseteq Nat \ {0} /\ MaxPayloadLength \in Nat

Byte == 0..255

\* Big-endian digits, and the number they spell
Digits(n) ==
  LET upTo[i \in 0..LengthBytes] ==
        IF i = LengthBytes THEN n ELSE upTo[i + 1] \div 256
  IN [i \in 1..LengthBytes |-> upTo[i] % 256]
Number(bytes) ==
  LET upTo[i \in 0..Len(bytes)] ==
        IF i = 0 THEN 0 ELSE upTo[i - 1] * 256 + bytes[i]
  IN upTo[Len(bytes)]

EncodeNiFrame(payload) == Digits(Len(payload)) \o payload

\* head counts the chunks consumed, offset the bytes of the next one
Chunks == Seq(Seq(Byte))
Decoders == [chunks : Chunks, head : Nat, offset : Nat, buffered : Nat]
EmptyDecoder == [chunks |-> <<>>, head |-> 0, offset |-> 0, buffered |-> 0]

Unread(d) == SubSeq(d.chunks, d.head + 1, Len(d.chunks))
\* What is buffered, as bytes
Remainder(d) == SubSeq(FlattenSeq(Unread(d)), d.offset + 1,
                       d.offset + d.buffered)

AtMost(m, n) == IF m < n THEN m ELSE n

\* #peekUInt32BE: the length field, wherever the chunks cut it
Peek(acc, chunk) ==
  LET n == AtMost(LengthBytes - Len(acc.bytes), Len(chunk) - acc.offset) IN
  [bytes |-> acc.bytes \o SubSeq(chunk, acc.offset + 1, acc.offset + n),
   offset |-> 0]
PeekLength(d) ==
  LET after[i \in 0..Len(Unread(d))] ==
        IF i = 0 THEN [bytes |-> <<>>, offset |-> d.offset]
        ELSE Peek(after[i - 1], Unread(d)[i])
  IN Number(after[Len(Unread(d))].bytes)

Compacted(d) ==
  IF d.head = Len(d.chunks) THEN [d EXCEPT !.chunks = <<>>, !.head = 0]
  ELSE IF d.head >= CompactAt /\ d.head * 2 >= Len(d.chunks)
  THEN [d EXCEPT !.chunks = Unread(d), !.head = 0]
  ELSE d

\* (A variant that forgets where it stopped in a chunk.)
AdvanceToChunk(acc, chunk, n) == [acc EXCEPT !.head = @ + 1, !.offset = 0]
Advance(acc, chunk, n) ==
  IF acc.offset + n = Len(chunk)
  THEN [acc EXCEPT !.head = @ + 1, !.offset = 0]
  ELSE [acc EXCEPT !.offset = @ + n]

\* #consume: the first length bytes, and the decoder without them
Take(acc, chunk, length) ==
  LET n == AtMost(length - Len(acc.bytes), Len(chunk) - acc.offset) IN
  IF Len(acc.bytes) = length THEN acc
  ELSE [Advance(acc, chunk, n) EXCEPT
          !.bytes = @ \o SubSeq(chunk, acc.offset + 1, acc.offset + n)]
Consume(d, length) ==
  LET after[i \in 0..Len(Unread(d))] ==
        IF i = 0 THEN [bytes |-> <<>>, head |-> d.head, offset |-> d.offset]
        ELSE Take(after[i - 1], Unread(d)[i], length)
      end == after[Len(Unread(d))]
  IN [bytes |-> end.bytes,
      rest |-> Compacted([d EXCEPT !.head = end.head, !.offset = end.offset,
                                   !.buffered = @ - length])]

(***************************************************************************)
(* push(): the payloads that a chunk completes.  One turn of its loop is   *)
(* taken more often than records can be whole; further turns do nothing.   *)
(***************************************************************************)
Turn(r) ==
  LET length == PeekLength(r.decoder)
      payload == Consume(Consume(r.decoder, LengthBytes).rest, length) IN
  IF r.invalid \/ r.decoder.buffered < LengthBytes THEN r
  ELSE IF length > MaxPayloadLength THEN [r EXCEPT !.invalid = TRUE]
  ELSE IF r.decoder.buffered < LengthBytes + length THEN r
  ELSE [r EXCEPT !.payloads = Append(@, payload.bytes), !.decoder = payload.rest]

Push(d, chunk) ==
  LET fed == IF chunk = <<>> THEN d
             ELSE [d EXCEPT !.chunks = Append(@, chunk),
                            !.buffered = @ + Len(chunk)]
      loop[k \in 0..(fed.buffered + 1)] ==
        IF k = 0 THEN [decoder |-> fed, payloads |-> <<>>, invalid |-> FALSE]
        ELSE Turn(loop[k - 1])
  IN loop[fed.buffered + 1]

\* finish(): the stream may end here
Finished(d) == d.buffered = 0
=============================================================================
