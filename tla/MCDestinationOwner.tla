------------------------- MODULE MCDestinationOwner -------------------------
(***************************************************************************)
(* The owner of a destination for TLC: callers that use leases, or callers  *)
(* that use metadata.                                                      *)
(***************************************************************************)
EXTENDS DirectDestinationOwner

CONSTANTS r1, c1, fun, graph, f

\* The flat and the recursive descriptor of one function
SameName == [k \in Keys |-> f]
LeasesOrMetadata == {
  [requests |-> {r1, c1}, loads |-> {}, strategies |-> {}, refreshes |-> {}],
  [requests |-> {}, loads |-> Loads, strategies |-> {TRUE}, refreshes |-> {1}],
  [requests |-> {}, loads |-> 1..2, strategies |-> BOOLEAN, refreshes |-> {1}],
  [requests |-> {}, loads |-> {1}, strategies |-> {TRUE},
   refreshes |-> RefreshCalls]}
=============================================================================
