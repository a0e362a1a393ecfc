---------------------------- MODULE FrameChannel ----------------------------
(***************************************************************************)
(* What a transport promises to the session on it: the records the peer    *)
(* sent, whole, in order and each of them once, for as long as the channel *)
(* is open; and while it is open and the session reads, the next one.      *)
(***************************************************************************)
EXTENDS Naturals, Sequences

VARIABLES
  records,   \* what the peer sent, once and for all
  received,  \* what was handed to the session
  status     \* "setup", "open" or "closed"
vars == <<records, received, status>>

Init == received = <<>> /\ status = "setup"

Open == status = "setup" /\ status' = "open" /\ UNCHANGED <<records, received>>

Deliver ==
  /\ status = "open" /\ Len(received) < Len(records)
  /\ received' = Append(received, records[Len(received) + 1])
  /\ UNCHANGED <<records, status>>

Close == status' = "closed" /\ UNCHANGED <<records, received>>

Next == Open \/ Deliver \/ Close

Spec == Init /\ [][Next]_vars /\ WF_vars(Deliver)
=============================================================================
