---------------------------- MODULE MCTransport ----------------------------
(***************************************************************************)
(* Instances of RoutedTransport: length fields of two bytes, and routers   *)
(* that accept, refuse or answer nonsense.                                 *)
(***************************************************************************)
EXTENDS RoutedTransport

\* NI_PONG, a refusal, a length out of bounds
SapRouterReplies ==
  {<<0, 8>> \o Pong, <<0, 8, 78, 73, 95, 82, 84, 69, 82, 82>>, <<0, 1>>}
\* Accepted with a bound domain name of one byte; a refused method, refused
\* credentials, a refused target, and a bound domain name without a byte
SocksReplies ==
  {<<5, 128, 1, 0, 5, 0, 0, 3, 1, 120, 1, 187>>, <<5, 255>>, <<5, 128, 1, 1>>,
   <<5, 128, 1, 0, 5, 2, 0, 1>>, <<5, 128, 1, 0, 5, 0, 0, 3, 0>>}

MCReplies == [direct |-> {<<>>}, saprouter |-> SapRouterReplies, socks5 |-> SocksReplies]

\* Three records, one of them empty and one that reads like a length, then
\* the beginning of a fourth; and two whose bytes exceed the queue's limit,
\* before one that is too long.
MCFrames ==
  {<<0, 1, 7, 0, 0, 0, 2, 0, 1, 0>>, <<0, 2, 1, 1, 0, 2, 1, 1, 0, 9>>}
=============================================================================
