-------------------------- MODULE RfcFailurePolicy --------------------------
(***************************************************************************)
(* What a failed RFC operation says of its connection: the central policy  *)
(* of src/client/rfc-failure.ts.  A failure is described by its category,  *)
(* where it arose, in which phase, how much of the request had left, and   *)
(* whether the session was logged on.                                      *)
(***************************************************************************)
Local == {"InvalidState", "InvalidParameter", "Conversion", "Serialization",
          "Unsupported", "Resource"}
Remote == {"Communication", "Logon", "AbapRuntime", "AbapMessage",
           "Canceled", "Timeout"}
Categories == Local \cup Remote \cup {"AbapException", "MalformedProtocol"}
Transmissions == {"NotStarted", "Partial", "Unknown", "Complete"}
Dispositions == {"reusable", "close", "unknownClose"}

\* (A variant that does not ask where an ABAP exception came from.)
ReusableAnyway(f) ==
  \/ f.category = "AbapException" /\ f.transmission = "Complete" /\ f.established
  \/ f.category \in Local /\ f.transmission = "NotStarted"
Reusable(f) ==
  \/ /\ f.category = "AbapException" /\ f.origin = "sap"
     /\ f.phase = "envelopeDecode" /\ f.transmission = "Complete" /\ f.established
  \/ /\ f.category \in Local /\ f.transmission = "NotStarted"
     /\ f.origin \in {"api", "codec", "pool"} \/ f.phase \in {"metadata", "encode"}

\* resolveRfcFailurePolicy()
Disposition(f) ==
  IF Reusable(f) THEN "reusable"
  ELSE IF f.category \in Remote THEN "close"
  ELSE "unknownClose"

\* The category of an error caught around an exchange: of the transport, by
\* its code, a return code of the peer, or anything else.
Caught(error) ==
  CASE error = "NI_ABORTED" -> "Canceled"
    [] error \in {"NI_RECEIVE_TIMEOUT", "NI_CONNECT_TIMEOUT", "NI_WRITE_TIMEOUT"} -> "Timeout"
    [] error = "RETURN_CODE" -> "Communication"
    [] error \in {"NI_PROTOCOL_ERROR", "MALFORMED"} -> "MalformedProtocol"
    [] OTHER -> "Communication"
=============================================================================
