------------------------ MODULE MessageServerSession ------------------------
(***************************************************************************)
(* RFCClient.open() up to a transaction that is ready, and the session it  *)
(* opens: src/compat/node-rfc-library.ts over the providers                *)
(* message-server-rfc-session-provider.ts, direct-rfc-session-provider.ts  *)
(* and the resolver src/transport/message-server-resolver.ts.              *)
(*                                                                         *)
(* On the route "group" each attempt asks the message server for an        *)
(* application server and makes a direct session for it.  As long as no    *)
(* transaction was ready, a transaction that fails to open may close its   *)
(* session and try the next server, within the same bound of attempts.  On *)
(* the route "direct" there is one session and no second attempt.          *)
(*                                                                         *)
(* A direct session is made by promise jobs alone: its owner connects when *)
(* a transaction begins.  Of a transaction (module Transaction) only what  *)
(* its session and its connection see is kept, and retiring an owner waits *)
(* for the leases its transactions hold (module DirectDestinationOwner).   *)
(***************************************************************************)
EXTENDS Naturals, FiniteSets

CONSTANTS
  Routes,          \* the kinds of route: "direct", "group"
  MaxAttempts,     \* maxAttempts, 1 or more
  MaxTransactions  \* the units of work that a connection begins, 1 or more

ASSUME RoutesAssumption ==
  MaxAttempts \in Nat \ {0} /\ MaxTransactions \in Nat \ {0}

VARIABLES
  route,     \* of the plan
  aborted,   \* the signal given to open()
  opening,   \* how far open() is
  attempts,  \* the attempts counted
  lookup,    \* the exchange with the message server
  session,   \* the direct session of each attempt
  tx,        \* the transactions; the first is begun by open()
  redirect   \* the transaction whose ready() looks for another server
sessionVars == <<route, aborted, opening, attempts, lookup, session, tx, redirect>>

Attempts == 1..MaxAttempts
Transactions == 1..MaxTransactions

Phases == {"none", "opening", "active", "calling", "ending", "failing",
           "closing", "closed", "failed"}
Over == {"closed", "failed"}
Terminal == Over \cup {"failing"}           \* isTerminal()

NotBegun == [session |-> 0, phase |-> "none", ready |-> "pending"]
NoLookup == [at |-> "none", verdict |-> "ok"]
NoRedirect == [at |-> "none", of |-> 1]
Redirected == IF redirect.at = "none" THEN redirect ELSE [redirect EXCEPT !.at = "over"]
\* The stages in which the transport of the lookup is open.
Connected == {"login", "group", "logout", "closing"}

SessionTypeOK ==
  /\ route \in Routes /\ aborted \in BOOLEAN
  /\ opening \in {"idle", "provider", "ready", "undoTransaction",
                  "undoSession", "rejected", "done"}
  /\ attempts \in 0..MaxAttempts
  /\ lookup \in [at : {"none", "service", "connecting", "over"} \cup Connected,
                 verdict : {"ok", "retryable", "fatal"}]
  /\ session \in [Attempts -> {"none", "open", "retiring", "retired"}]
  /\ tx \in [Transactions -> [session : 0..MaxAttempts, phase : Phases,
                              ready : {"pending", "ok", "failed"}]]
  /\ redirect \in [at : {"none", "transaction", "session", "lookup", "over"},
                   of : Transactions]

SessionInit ==
  /\ route \in Routes /\ aborted = FALSE /\ opening = "idle" /\ attempts = 0
  /\ lookup = NoLookup /\ redirect = NoRedirect
  /\ session = [s \in Attempts |-> "none"]
  /\ tx = [t \in Transactions |-> NotBegun]

Redirecting == redirect.at \notin {"none", "over"}

\* The session that owns what the connection does: `current` of the wrapper.
Current == tx[1].session

Begun(s) == [NotBegun EXCEPT !.session = s, !.phase = "opening"]

\* Closing a transaction: what waits for its ready() is rejected, unless a
\* redirect is about to give it another delegate.
ClosingOf(t) ==
  LET x == tx[t]
  IN [x EXCEPT !.phase = IF @ \in {"opening", "active", "calling"} THEN "closing" ELSE @,
               !.ready = IF @ = "pending" /\ ~Redirecting THEN "failed" ELSE @]
RetireSession(s) ==
  session' = [session EXCEPT ![s] = IF @ = "open" THEN "retiring" ELSE @]

(***************************************************************************)
(* open()                                                                  *)
(***************************************************************************)
StartLookup ==
  attempts' = attempts + 1 /\ lookup' = [NoLookup EXCEPT !.at = "service"]

Open ==
  /\ opening = "idle"
  /\ \/ aborted /\ opening' = "rejected" /\ UNCHANGED <<attempts, lookup, session, tx>>
     \/ /\ ~aborted /\ route = "direct"
        /\ opening' = "ready" /\ attempts' = 1
        /\ session' = [session EXCEPT ![1] = "open"] /\ tx' = [tx EXCEPT ![1] = Begun(1)]
        /\ UNCHANGED lookup
     \/ /\ ~aborted /\ route = "group"
        /\ opening' = "provider" /\ StartLookup /\ UNCHANGED <<session, tx>>
  /\ UNCHANGED <<route, aborted, redirect>>

\* The caller's signal: open() stops waiting and undoes what it has.
Abort ==
  /\ ~aborted /\ opening \in {"idle", "provider", "ready"}
  /\ aborted' = TRUE
  /\ IF opening = "ready"
     THEN opening' = "undoTransaction" /\ tx' = [tx EXCEPT ![1] = ClosingOf(1)]
     ELSE UNCHANGED <<opening, tx>>
  /\ UNCHANGED <<route, attempts, lookup, session, redirect>>

(***************************************************************************)
(* resolveMessageServerRfcGroup: one exchange on one transport, which is   *)
(* logged out and closed whatever happens; the first failure is thrown.    *)
(***************************************************************************)
StageAfter(at, answer) ==
  CASE at = "service" -> IF answer = "ok" THEN "connecting" ELSE "over"
    [] at = "connecting" -> IF answer = "ok" THEN "login" ELSE "over"
    [] at = "login" -> IF answer = "ok" THEN "group" ELSE "closing"
    [] at = "group" -> "logout"
    [] at = "logout" -> "closing"
    [] at = "closing" -> "over"

LookupGoesOn ==
  /\ lookup.at \notin {"none", "over"}
  /\ \E answer \in {"ok", "retryable", "fatal"} :
       /\ lookup.at = "service" => answer # "retryable"
       /\ lookup' = [at |-> StageAfter(lookup.at, answer),
                     verdict |-> IF lookup.verdict = "ok" THEN answer ELSE lookup.verdict]
  /\ UNCHANGED <<route, aborted, opening, attempts, session, tx, redirect>>

\* ready() rejects; open() undoes the session unless the signal made it do so.
ReadyFails(t) ==
  /\ tx' = [tx EXCEPT ![t].ready = "failed"]
  /\ opening' = IF opening = "ready" THEN "undoTransaction" ELSE opening

StillWanted == ~aborted
MayRetry == attempts < MaxAttempts

\* openNext: the server found becomes a direct session, or the next attempt
\* begins, or whoever asked fails.
Looked ==
  /\ lookup.at = "over"
  /\ \/ /\ lookup.verdict = "ok" /\ StillWanted
        /\ session' = [session EXCEPT ![attempts] = "open"]
        /\ tx' = [tx EXCEPT ![redirect.of] = Begun(attempts)]
        /\ opening' = IF opening = "provider" THEN "ready" ELSE opening
        /\ redirect' = Redirected /\ lookup' = NoLookup
        /\ UNCHANGED attempts
     \/ /\ lookup.verdict = "retryable" /\ MayRetry /\ ~aborted
        /\ StartLookup
        /\ UNCHANGED <<opening, session, tx, redirect>>
     \/ /\ lookup.verdict = "retryable" => aborted \/ ~MayRetry
        /\ lookup' = NoLookup /\ redirect' = Redirected
        /\ IF redirect.at = "lookup"
           THEN ReadyFails(redirect.of)
           ELSE opening' = "rejected" /\ UNCHANGED tx
        /\ UNCHANGED <<attempts, session>>
  /\ UNCHANGED <<route, aborted>>

(***************************************************************************)
(* The transactions and the sessions.                                      *)
(***************************************************************************)
TransactionReady(t) ==
  /\ tx[t].phase = "opening"
  /\ tx' = [tx EXCEPT ![t].phase = "active", ![t].ready = "ok"]
  /\ opening' = IF opening = "ready" THEN "done" ELSE opening
  /\ UNCHANGED <<route, aborted, attempts, lookup, session, redirect>>

\* eligibleForFailover: no transaction of this session was ready before.  A
\* ready() redirects once.
Eligible == opening = "ready"

TransactionFails(t) ==
  /\ tx[t].phase = "opening"
  /\ \/ /\ route = "group" /\ Eligible /\ MayRetry /\ ~aborted /\ redirect.at = "none"
        /\ redirect' = [at |-> "transaction", of |-> t]
        /\ tx' = [tx EXCEPT ![t].phase = "closing"]
        /\ UNCHANGED opening
     \/ /\ tx' = [tx EXCEPT ![t].phase = "failed", ![t].ready = "failed"]
        /\ opening' = IF opening = "ready" THEN "undoTransaction" ELSE opening
        /\ UNCHANGED redirect
  /\ UNCHANGED <<route, aborted, attempts, lookup, session>>

\* An end, good or bad, or a teardown: each is bounded by timers.
TransactionEnds(t) ==
  /\ \E p \in CASE tx[t].phase = "ending" -> {"closed", "failing"}
                [] tx[t].phase = "failing" -> {"failed"}
                [] tx[t].phase = "closing" -> {"closed"}
                [] OTHER -> {} :
       tx' = [tx EXCEPT ![t].phase = p]
  /\ UNCHANGED <<route, aborted, opening, attempts, lookup, session, redirect>>

SessionRetired(s) ==
  /\ session[s] = "retiring"
  /\ \A t \in Transactions : tx[t].session = s => tx[t].phase \in Over
  /\ session' = [session EXCEPT ![s] = "retired"]
  /\ UNCHANGED <<route, aborted, opening, attempts, lookup, tx, redirect>>

\* (A variant that asks the session to close and goes on.)
IsClosing(s) == session[s] # "open"
HasClosed(s) == session[s] = "retired"

\* ready() of the wrapper: closeBeforeFailover, then openNext.  A cleanup that
\* failed or a signal ends the redirect.
RedirectGoesOn ==
  LET t == redirect.of
  IN /\ \/ /\ redirect.at = "transaction" /\ tx[t].phase \in Over
           /\ redirect' = [redirect EXCEPT !.at = "session"]
           /\ RetireSession(tx[t].session)
           /\ UNCHANGED <<attempts, lookup, tx, opening>>
        \/ /\ redirect.at = "session" /\ HasClosed(tx[t].session) /\ ~aborted
           /\ redirect' = [redirect EXCEPT !.at = "lookup"] /\ StartLookup
           /\ UNCHANGED <<session, tx, opening>>
        \/ /\ redirect.at = "session" /\ HasClosed(tx[t].session)
           /\ redirect' = Redirected /\ ReadyFails(t)
           /\ UNCHANGED <<attempts, lookup, session>>
     /\ UNCHANGED <<route, aborted>>

\* The catch of open(): the transaction, then the session.
UndoGoesOn ==
  /\ \/ /\ opening = "undoTransaction" /\ tx[1].phase \in Over
        /\ opening' = "undoSession" /\ RetireSession(Current)
     \/ /\ opening = "undoSession" /\ session[Current] = "retired"
        /\ opening' = "rejected" /\ UNCHANGED session
  /\ UNCHANGED <<route, aborted, attempts, lookup, tx, redirect>>

SessionProceeds ==
  \/ LookupGoesOn \/ Looked \/ RedirectGoesOn \/ UndoGoesOn
  \/ \E t \in Transactions : TransactionReady(t) \/ TransactionFails(t) \/ TransactionEnds(t)
  \/ \E s \in Attempts : SessionRetired(s)
=============================================================================
