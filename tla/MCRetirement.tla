---------------------------- MODULE MCRetirement ----------------------------
(***************************************************************************)
(* Retirements for TLC: three destinations whose hooks retire one another, *)
(* or two of them with an open in flight.                                  *)
(***************************************************************************)
EXTENDS DestinationRetirement

CONSTANT g3

Within ==
  (\A o \in Opens : opening[o].pc = "idle") \/ (\A l \in Layers : State(l, g3) = "active")

MCSpec == Init /\ [][Next /\ Within']_vars /\ WF_vars(Proceed)
=============================================================================
