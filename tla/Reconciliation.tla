---------------------------- MODULE Reconciliation ----------------------------
(***************************************************************************)
(* ReconcileWallet beside the handlers: an auditor reads the stored        *)
(* balance, then sums the ledger, in one READ COMMITTED transaction whose  *)
(* two statements see two different snapshots.                             *)
(***************************************************************************)
EXTENDS WagerService

VARIABLE report  \* the reconciliation in progress: its step and what it has read

reconVars == <<vars, report>>

NoReport == [step |-> "idle", wallet |-> None, stored |-> 0, calculated |-> 0, checked |-> 0]

ReconInit == ServiceInit /\ report = NoReport

\* Credits minus debits of a ledger: SUM(CASE ...) - SUM(CASE ...).
Reconstructed(s) ==
    LET sum[n \in 0..Len(s)] ==
            IF n = 0 THEN 0 ELSE Moved(s[n].dir, sum[n - 1], s[n].amount)
    IN  sum[Len(s)]

\* GetByID, without a lock.
ReadStoredBalance(w) ==
    /\ report.step = "idle"
    /\ wallet[w].open
    /\ report' = [report EXCEPT !.step = "ledger", !.wallet = w, !.stored = wallet[w].balance]
    /\ UNCHANGED vars

ReconstructBalance ==
    /\ report.step = "ledger"
    /\ report' = [report EXCEPT !.step = "done", !.calculated = Reconstructed(ledger[report.wallet]),
                                !.checked = Len(ledger[report.wallet])]
    /\ UNCHANGED vars

ReturnReport ==
    /\ report.step = "done"
    /\ report' = NoReport
    /\ UNCHANGED vars

ReconNext ==
    \/ ServiceNext /\ UNCHANGED report
    \/ \E w \in Wallet : ReadStoredBalance(w)
    \/ ReconstructBalance
    \/ ReturnReport

ReconSpec == ReconInit /\ [][ReconNext]_reconVars

\* "sob uma visao consistente dos dados ... (sem leituras fantasmas)", wager_service.go
\* 1079-1083: a wallet whose books balance in every committed state is never reported as
\* divergent.
NoFalseAlarm == report.step = "done" => report.stored = report.calculated
=============================================================================
