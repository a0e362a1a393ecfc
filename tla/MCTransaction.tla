--------------------------- MODULE MCTransaction ---------------------------
(***************************************************************************)
(* The transaction coordinators for TLC.  The state space is finite as it  *)
(* stands.  Two runtimes and two sessions let a session change hands while *)
(* another is free; no symmetry, because the run checks liveness too.      *)
(***************************************************************************)
EXTENDS Transaction
=============================================================================
