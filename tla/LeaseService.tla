---------------------------- MODULE LeaseService ----------------------------
(***************************************************************************)
(* What the connection pool promises to those who call acquire(),          *)
(* release(), retire() and close(), with nothing said of how: requests are *)
(* queued, and granted from the head of the queue, all their leases at     *)
(* once; no more than MaxConnections leases are out; a lease is a number   *)
(* that is never used again; a drained service grants nothing, and it is   *)
(* closed only when every lease has come back.                             *)
(***************************************************************************)
EXTENDS Integers, Sequences, FiniteSets, SequencesExt

CONSTANTS Requests, MaxConnections

VARIABLES
  gate,     \* "open", "draining" or "closed"
  queue,    \* the requests that wait, oldest first
  answer,   \* what became of each request
  wants,    \* how many leases each asked for
  issued,   \* the leases issued so far are 1..issued
  held      \* those that have not come back

lsVars == <<gate, queue, answer, wants, issued, held>>

LSInit ==
  /\ gate = "open" /\ queue = <<>>
  /\ answer = [r \in Requests |-> "new"]
  /\ wants = [r \in Requests |-> 1]
  /\ issued = 0 /\ held = {}

Enqueue(r, n) ==
  /\ gate = "open" /\ answer[r] = "new"
  /\ answer' = [answer EXCEPT ![r] = "waiting"]
  /\ wants' = [wants EXCEPT ![r] = n]
  /\ queue' = Append(queue, r)
  /\ UNCHANGED <<gate, issued, held>>

Refuse(r, n) ==
  /\ answer[r] = "new"
  /\ answer' = [answer EXCEPT ![r] = "rejected"]
  /\ wants' = [wants EXCEPT ![r] = n]
  /\ UNCHANGED <<gate, queue, issued, held>>

\* The request at position i gives up, or is given up.
Drop(i) ==
  /\ answer' = [answer EXCEPT ![queue[i]] = "rejected"]
  /\ queue' = RemoveAt(queue, i)
  /\ UNCHANGED <<gate, wants, issued, held>>

Grant ==
  /\ gate = "open" /\ queue # <<>>
  /\ LET r == Head(queue)
     IN /\ Cardinality(held) + wants[r] <= MaxConnections
        /\ answer' = [answer EXCEPT ![r] = "granted"]
        /\ issued' = issued + wants[r]
        /\ held' = held \cup (issued + 1)..(issued + wants[r])
  /\ queue' = Tail(queue)
  /\ UNCHANGED <<gate, wants>>

GiveBack(g) ==
  /\ held' = held \ {g}
  /\ UNCHANGED <<gate, queue, answer, wants, issued>>

\* The service stops; with nothing left to wait for it is closed at once.
Drain ==
  /\ gate = "open"
  /\ gate' \in {"draining"} \cup (IF held = {} THEN {"closed"} ELSE {})
  /\ answer' = [r \in Requests |->
                  IF answer[r] = "waiting" THEN "rejected" ELSE answer[r]]
  /\ queue' = <<>>
  /\ UNCHANGED <<wants, issued, held>>

Close ==
  /\ gate = "draining" /\ held = {}
  /\ gate' = "closed"
  /\ UNCHANGED <<queue, answer, wants, issued, held>>

LSNext ==
  \/ \E r \in Requests, n \in 1..MaxConnections : Enqueue(r, n) \/ Refuse(r, n)
  \/ \E i \in DOMAIN queue : Drop(i)
  \/ \E g \in held : GiveBack(g)
  \/ Grant \/ Drain \/ Close

LSSpec == LSInit /\ [][LSNext]_lsVars
=============================================================================
