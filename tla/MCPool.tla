------------------------------- MODULE MCPool -------------------------------
(***************************************************************************)
(* The connection pool for TLC.  Slots has one place more than the pool    *)
(* may use, so that exceeding maxConnections is possible in the model.     *)
(* Requests are interchangeable; slots are not (#startCreation takes the   *)
(* first free one).                                                        *)
(***************************************************************************)
EXTENDS PoolProperties, TLC

RequestSymmetry == Permutations(Requests)
=============================================================================
