-------------------------- MODULE AppcConversation --------------------------
(***************************************************************************)
(* The client's side of an APPC conversation (src/protocol/appc.ts): its   *)
(* state machine, the records a request is cut into, and the decoder that  *)
(* puts an answer together.                                                *)
(***************************************************************************)
EXTENDS Naturals

CONSTANTS
  None,
  AsyncSends,     \* MAX_APPC_ASYNC_SENDS_BEFORE_SYNC
  MaxFragments    \* DEFAULT_MAX_APPC_MESSAGE_FRAGMENTS, of an answer

ASSUME ConversationAssumption ==
  AsyncSends \in Nat \ {0} /\ MaxFragments \in Nat \ {0}

States == {"new", "initialize-pending", "initialized", "tp-set", "partner-set",
           "allocate-pending", "ready", "send-continuation",
           "send-barrier-pending", "response-pending", "closed"}

\* AppcClientSetupStateMachine.sent(): None where it throws
Sent(state, function) ==
  CASE state = "new" /\ function = "Initialize" -> "initialize-pending"
    [] state = "initialized" /\ function = "SetTpName" -> "tp-set"
    [] state \in {"initialized", "tp-set"} /\ function = "SetPartnerLuName" -> "partner-set"
    [] state = "partner-set" /\ function = "Allocate" -> "allocate-pending"
    [] state = "ready" /\ function = "SapSend" -> "response-pending"
    [] state = "ready" /\ function = "Deallocate" -> "closed"
    [] state \in {"ready", "send-continuation"} /\ function = "AsyncSendData"
         -> "send-continuation"
    [] state = "send-continuation" /\ function = "SendData" -> "send-barrier-pending"
    [] state = "send-continuation" /\ function = "Receive" -> "response-pending"
    [] OTHER -> None

DataFunctions == {"SapSend", "Receive"}

\* received(): the peer's record accepted, the conversation over with it, or
\* an error; what an error or an end leaves is closed.
Verdict(state, record) ==
  CASE /\ record.rc = "deallocated" /\ state = "response-pending"
       /\ record.function \in DataFunctions -> "normal-deallocation"
    [] record.rc = "ok" /\ state = "initialize-pending"
       /\ record.function = "Initialize" -> "accepted"
    [] record.rc = "ok" /\ state = "allocate-pending"
       /\ record.function = "Allocate" -> "accepted"
    [] record.rc = "ok" /\ state = "send-barrier-pending"
       /\ record.function = "SendData" -> "accepted"
    [] record.rc = "ok" /\ state = "response-pending"
       /\ record.function \in DataFunctions -> "accepted"
    [] OTHER -> "error"
Received(state, record) ==
  IF Verdict(state, record) # "accepted" THEN "closed"
  ELSE CASE state = "initialize-pending" -> "initialized"
         [] state = "allocate-pending" -> "ready"
         [] state = "send-barrier-pending" -> "send-continuation"
         [] OTHER -> state

\* outgoingFragmentSemantics(): the function of record i (from 0) of n
Function(i, n) ==
  CASE n = 1 -> "SapSend"
    [] n > 1 /\ i = n - 1 -> "Receive"
    [] n > 1 /\ i < n - 1 /\ i >= AsyncSends /\ i % AsyncSends = 0 -> "SendData"
    [] OTHER -> "AsyncSendData"

(***************************************************************************)
(* AppcConversationDecoder.  parts is what is pending of a message, and    *)
(* initialReceive whether F_RECEIVE may begin one.                         *)
(***************************************************************************)
EmptyDecoder(initialReceive) ==
  [parts |-> 0, known |-> TRUE, initialReceive |-> initialReceive]

\* (A variant that takes the first record for the whole message.)
CompleteAtOnce(record) == TRUE
Complete(record) == record.rc = "deallocated" \/ record.final

PushError(d, record) ==
  \/ d.parts + 1 > MaxFragments
  \/ d.parts = 0 /\ record.function = "Receive" /\ ~d.initialReceive
  \/ d.parts > 0 /\ (record.function = "SapSend" \/ record.known # d.known)
NoData(record) == record.rc = "deallocated" /\ record.empty

\* push() and pushTerminalDeallocation(): "message", "more" or what is thrown
Push(d, record) ==
  IF NoData(record) /\ d.parts < MaxFragments THEN "no-data"
  ELSE IF PushError(d, record) THEN "error"
  ELSE IF Complete(record) THEN "message" ELSE "more"
Pushed(d, record) ==
  IF Push(d, record) # "more" THEN [d EXCEPT !.parts = 0]
  ELSE [d EXCEPT !.parts = @ + 1, !.known = record.known]
=============================================================================
