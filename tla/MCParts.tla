------------------------------ MODULE MCParts ------------------------------
(***************************************************************************)
(* Parts of the system that share no state, side by side for TLC: a        *)
(* behaviour is about one part, and the others stay as they are at first.  *)
(*   "contexts"    two session contexts, so that retirement meets contexts *)
(*                 in different stages; MaxRefs bounds the nesting         *)
(*   "connection"  a connection with its session, on either route          *)
(***************************************************************************)
EXTENDS SessionContext, RfcConnection

TheRoutes == {"direct", "group"}

VARIABLE part          \* what this behaviour is about

Parts == {"contexts", "connection"}

PartsInit ==
  /\ part \in [kind : Parts]
  /\ Init /\ ConnectionInit
  /\ part.kind # "connection" => route = "direct"

PartsNext ==
  \/ part.kind = "contexts" /\ Next /\ UNCHANGED <<part, connectionVars>>
  \/ part.kind = "connection" /\ ConnectionNext /\ UNCHANGED <<part, vars>>

\* The fairness of the parts, told to look only at the part in question
Of(kind, A) == part.kind = kind /\ A
PartsFairness ==
  /\ \A c \in Contexts :
       /\ WF_vars(Of("contexts", Resumes(c)))
       /\ WF_vars(Of("contexts", CallSettles(c, "timedout")))
       /\ WF_vars(Of("contexts", OperationSettles(c, "timedout")))
       /\ WF_vars(Of("contexts", LateSettles(c, "timedout")))
  /\ WF_vars(Of("contexts", RetireCompletes))
  /\ WF_connectionVars(Of("connection", Proceeds))

PartsSpec ==
  /\ PartsInit /\ [][PartsNext]_<<part, vars, connectionVars>>
  /\ PartsFairness
=============================================================================
