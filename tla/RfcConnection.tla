---------------------------- MODULE RfcConnection ----------------------------
(***************************************************************************)
(* RFCConnection of src/compat/node-rfc-library.ts on the session that     *)
(* RFCClient.open() gave it, and the properties of both.                   *)
(*                                                                         *)
(* One transaction, the "cycle", is current at a time; commit() and        *)
(* rollback() end it and the next call begins another.  execute() and      *)
(* ping() are exclusive and, like getMetadata(), are operations that       *)
(* close() aborts and waits for.  Calls that are refused change nothing    *)
(* and are left out; ping() is an execute() that looks nothing up.         *)
(***************************************************************************)
EXTENDS MessageServerSession

CONSTANT Callers      \* the calls made of the connection, each once

\* Every transaction but the first is begun by a call, after another ended one,
\* so that MaxTransactions is to be Cardinality(Callers) at least.

VARIABLES
  state,      \* #state
  cycle,      \* #cycle, 0 for none
  callers,    \* the calls: what each is, how far it is, the cycle it uses
  closing     \* the body of close(): how far, the cycle and the operations it waits for
connVars == <<state, cycle, callers, closing>>
connectionVars == <<sessionVars, connVars>>

NotCalled == [op |-> "none", at |-> "off", cycle |-> 0]
NotClosing == [at |-> "off", cycle |-> 0, operations |-> {}]

ConnectionTypeOK ==
  /\ SessionTypeOK
  /\ state \in {"open", "failed", "closing", "closed"}
  /\ cycle \in 0..MaxTransactions
  /\ callers \in [Callers -> [op : {"none", "execute", "metadata", "control"},
       at : {"off", "metadata", "admitted", "waiting", "running", "done"},
       cycle : 0..MaxTransactions]]
  /\ closing \in [at : {"off", "transaction", "operations", "session", "over"},
                  cycle : 0..MaxTransactions, operations : SUBSET Callers]

ConnectionInit ==
  /\ SessionInit
  /\ state = "open" /\ cycle = 1 /\ closing = NotClosing
  /\ callers = [c \in Callers |-> NotCalled]

KeepsSession == UNCHANGED <<route, aborted, opening, attempts, lookup, session, redirect>>

Active == {c \in Callers : callers[c].at \notin {"off", "done"}}
Operations == {c \in Active : callers[c].op # "control"}   \* #activeSessionOperations
CallerGoes(c, at) == callers' = [callers EXCEPT ![c].at = at]
CallerEnds(c) == callers' = [callers EXCEPT ![c] = [NotCalled EXCEPT !.at = "done"]]

\* A call that is not refused at once.
Call(c) ==
  /\ opening = "done" /\ state = "open" /\ callers[c].at = "off"
  /\ \E op \in {"execute", "metadata", "control"}, at \in {"metadata", "admitted"} :
       /\ op # "metadata" => \A d \in Active : callers[d].op # "execute"
       /\ op = "metadata" => at = "metadata"
       /\ op = "control" => at = "admitted"
       /\ callers' = [callers EXCEPT ![c] = [op |-> op, at |-> at, cycle |-> 0]]
  /\ UNCHANGED <<sessionVars, state, cycle, closing>>

MetadataAnswered(c) ==
  /\ callers[c].at = "metadata"
  /\ \/ CallerEnds(c)
     \/ callers[c].op = "execute" /\ CallerGoes(c, "admitted")
  /\ UNCHANGED <<sessionVars, state, cycle, closing>>

\* (A variant that takes every failure for the end of the transaction.)
TerminalWhenever(t) == TRUE
IsTerminal(t) == tx[t].phase \in Terminal
\* #observeCycleFailure
Observe(t) ==
  IF IsTerminal(t)
  THEN /\ cycle' = IF cycle = t THEN 0 ELSE cycle
       /\ state' = IF state = "open" THEN "failed" ELSE state
  ELSE UNCHANGED <<cycle, state>>

\* The call, the commit or the rollback on cycle t: its runtime takes it when
\* the transaction is active, and refuses it otherwise.
Issue(c, t) ==
  \/ /\ tx[t].phase = "active"
     /\ tx' = [tx EXCEPT ![t].phase = IF callers[c].op = "execute" THEN "calling" ELSE "ending"]
     /\ callers' = [callers EXCEPT ![c].at = "running", ![c].cycle = t]
     /\ UNCHANGED <<state, cycle>>
  \/ tx[t].phase # "active" /\ Observe(t) /\ CallerEnds(c) /\ UNCHANGED tx

\* #readyCycle, #ensureCycle
TakesCycle(c) ==
  /\ callers[c].at = "admitted"
  /\ \/ state # "open" /\ CallerEnds(c) /\ UNCHANGED <<tx, state, cycle>>
     \/ state = "open" /\ cycle # 0 /\ tx[cycle].ready = "ok" /\ Issue(c, cycle)
     \/ /\ state = "open" /\ cycle # 0 /\ tx[cycle].ready # "ok"
        /\ callers' = [callers EXCEPT ![c].at = "waiting", ![c].cycle = cycle]
        /\ UNCHANGED <<tx, state, cycle>>
     \/ /\ state = "open" /\ cycle = 0
        /\ \E t \in Transactions :
             /\ tx[t] = NotBegun /\ \A u \in 1..(t - 1) : tx[u] # NotBegun
             /\ tx' = [tx EXCEPT ![t] = Begun(Current)]
             /\ cycle' = t
             /\ callers' = [callers EXCEPT ![c].at = "waiting", ![c].cycle = t]
        /\ UNCHANGED state
  /\ KeepsSession /\ UNCHANGED closing

CycleSettles(c) ==
  LET t == callers[c].cycle
  IN /\ callers[c].at = "waiting" /\ tx[t].ready # "pending"
     /\ \/ tx[t].ready = "ok" /\ Issue(c, t)
        \/ /\ tx[t].ready = "failed" /\ CallerEnds(c) /\ UNCHANGED tx
           /\ cycle' = IF cycle = t THEN 0 ELSE cycle
           /\ state' = IF state = "open" THEN "failed" ELSE state
     /\ KeepsSession /\ UNCHANGED closing

\* A call whose effect is not known ends its transaction before it is reported.
CallLost(c) ==
  /\ callers[c].op = "execute" /\ callers[c].at = "running"
  /\ tx[callers[c].cycle].phase = "calling"
  /\ tx' = [tx EXCEPT ![callers[c].cycle].phase = "failing"]
  /\ KeepsSession /\ UNCHANGED connVars

Answered(c) ==
  LET t == callers[c].cycle
  IN /\ callers[c].at = "running" /\ CallerEnds(c)
     /\ \/ /\ callers[c].op = "execute" /\ tx[t].phase = "calling"
           /\ tx' = [tx EXCEPT ![t].phase = "active"] /\ UNCHANGED <<state, cycle>>
        \/ /\ callers[c].op = "execute" /\ tx[t].phase \in Over \cup {"closing"}
           /\ Observe(t) /\ UNCHANGED tx
        \/ /\ callers[c].op = "control" /\ tx[t].phase = "closed"
           /\ cycle' = IF cycle = t THEN 0 ELSE cycle
           /\ UNCHANGED <<state, tx>>
        \/ /\ callers[c].op = "control" /\ tx[t].phase = "failed"
           /\ Observe(t) /\ UNCHANGED tx
     /\ KeepsSession /\ UNCHANGED closing

Close ==
  /\ opening = "done" /\ closing.at = "off"
  /\ state' = "closing"
  /\ closing' = [at |-> "transaction", cycle |-> cycle, operations |-> Operations]
  /\ tx' = IF cycle = 0 THEN tx ELSE [tx EXCEPT ![cycle] = ClosingOf(cycle)]
  /\ KeepsSession /\ UNCHANGED <<cycle, callers>>

\* (A variant that aborts the operations without waiting for them.)
AdmittedAreAborted == TRUE
AdmittedAreOver == closing.operations \cap Active = {}

\* #finishClose
CloseGoesOn ==
  /\ \/ /\ closing.at = "transaction"
        /\ closing.cycle # 0 => tx[closing.cycle].phase \in Over
        /\ closing' = [closing EXCEPT !.at = "operations"]
        /\ cycle' = IF cycle = closing.cycle THEN 0 ELSE cycle
        /\ UNCHANGED <<session, state>>
     \/ /\ closing.at = "operations" /\ AdmittedAreOver
        /\ closing' = [closing EXCEPT !.at = "session"]
        /\ RetireSession(Current) /\ UNCHANGED <<cycle, state>>
     \/ /\ closing.at = "session" /\ session[Current] = "retired"
        /\ closing' = [closing EXCEPT !.at = "over"]
        /\ state' \in {"closed", "failed"} /\ UNCHANGED <<session, cycle>>
  /\ UNCHANGED <<route, aborted, opening, attempts, lookup, tx, redirect, callers>>

(***************************************************************************)
(* The specification                                                       *)
(***************************************************************************)
Proceeds ==
  \/ SessionProceeds /\ UNCHANGED connVars
  \/ \E c \in Callers : \/ MetadataAnswered(c) \/ TakesCycle(c) \/ CycleSettles(c)
                        \/ CallLost(c) \/ Answered(c)
  \/ CloseGoesOn

ConnectionNext ==
  \/ Proceeds
  \/ (Open \/ Abort) /\ UNCHANGED connVars
  \/ \E c \in Callers : Call(c)
  \/ Close

ConnectionSpec == ConnectionInit /\ [][ConnectionNext]_connectionVars
\* Promise jobs run, the partners answer or the timers of the calls fire.
ConnectionFairSpec == ConnectionSpec /\ WF_connectionVars(Proceeds)

(***************************************************************************)
(* Properties                                                              *)
(***************************************************************************)
\* "Resolution completes before directProvider.open, so no direct owner or
\* business-call session exists while Message Server input is still untrusted":
\* nor does one while a redirect looks again, and never are there two of them.
\* Once open() has resolved, the partner is fixed: nothing looks for another
\* server, and no business call is ever replayed on one.
OnePartner ==
  /\ ConnectionTypeOK
  /\ LET alive == {s \in Attempts : session[s] \in {"open", "retiring"}}
     IN Cardinality(alive) + (IF lookup.at \in Connected THEN 1 ELSE 0) <= 1
  /\ opening = "done" =>
       /\ ~Redirecting /\ lookup.at = "none"
       /\ \A t \in Transactions \ {1} : tx[t].session \in {0, Current}

\* When open() has rejected or close() has settled, every session is retired
\* and every transaction is over, whatever the signal, the redirect and the
\* calls did meanwhile; and a session is retired after the unit of work on it is
\* decided, and after the owner operations that were admitted: retirement waits
\* for both, and would not come back from a transaction that nobody closes.
NothingLeft ==
  /\ (opening = "rejected" \/ closing.at = "over") =>
       /\ \A s \in Attempts : session[s] \in {"none", "retired"}
       /\ \A t \in Transactions : tx[t].phase \in Over \cup {"none"}
  /\ \A s \in Attempts : session[s] \in {"retiring", "retired"} =>
       /\ \A t \in Transactions : tx[t].session = s => tx[t].phase \in Terminal
       /\ (opening = "done" /\ s = Current) => \A c \in Callers : callers[c].at # "metadata"

ConnectionSettled ==
  /\ opening \in {"idle", "rejected", "done"} /\ lookup.at = "none"
  /\ ~Redirecting /\ Active = {} /\ closing.at \in {"off", "over"}
\* open(), close() and every call come to an end; so does a lookup that an
\* aborted open() left behind.
ConnectionSettles == ~ConnectionSettled ~> ConnectionSettled
=============================================================================
