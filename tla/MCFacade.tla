------------------------------ MODULE MCFacade ------------------------------
(* Small instances of the facade for TLC. *)
EXTENDS RfcClientPool
CONSTANTS d, m1, m2
TheManaged == {m1, m2}
TheCalls == {{m1, m2}, {m1}, {m2}}
Pooled == [pooled |-> TRUE, ops |-> 1, kinds |-> {"call"}, calls |-> {},
           ready |-> 0, low |-> FALSE]
TheWorkloads == {
  \* one direct client, whatever it is asked
  [Pooled EXCEPT !.pooled = FALSE, !.ops = 4,
                 !.kinds = {"open", "close", "call", "ping", "reset", "metadata"}],
  \* two clients of one acquire() with a call
  [Pooled EXCEPT !.calls = {{m1, m2}}, !.ready = 1],
  \* two acquire() that compete, with two calls and low water
  [Pooled EXCEPT !.calls = {{m1}, {m2}}, !.low = TRUE]}
=============================================================================
