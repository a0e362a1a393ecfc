--------------------------- MODULE MCCpicSession ---------------------------
(***************************************************************************)
(* A logon and two calls beside it; a streamed request is an asynchronous  *)
(* record, a barrier and the final record.                                 *)
(***************************************************************************)
EXTENDS CpicSession, TLC

CONSTANTS c1, c2, c3

CallSet == {c1, c2, c3}
KindsOf == (c1 :> {"logon"}) @@ (c2 :> {"reset"}) @@
           (c3 :> {"alias", "invoke"})
=============================================================================
