---------------------------- MODULE StaleTxRecovery ----------------------------
(***************************************************************************)
(* pkg/service/stale_tx_recovery_worker.go beside the handlers and the     *)
(* resolver: rounds that end transactions left in PENDING.                 *)
(*                                                                         *)
(* The handlers never commit a PENDING row; the rows are those of a writer *)
(* that stopped half-way, an earlier release or an operator (the tests     *)
(* insert them with SQL).  Left out: the LIMIT 100, the ticker.            *)
(***************************************************************************)
EXTENDS PendingRefResolver

CONSTANTS
    Recoverer,  \* recovery rounds: one per replica of the service
    Leftover    \* the PENDING rows another writer may leave behind

ASSUME RecoveryAssumption ==
    /\ Recoverer \subseteq Agent
    /\ Recoverer \cap (Handler \cup Worker) = {}
    /\ Leftover \subseteq [ext : ExtId, wallet : Wallet, kind : {"BET", "WIN"},
                           amount : Balances, posted : BOOLEAN]

VARIABLE stale  \* per recoverer: the rows its round still has to end

recoveryVars == <<systemVars, stale>>

RecoveryInit ==
    /\ SystemInit
    /\ stale = [b \in Recoverer |-> {}]

Pending(k) == Exists(k) /\ wager[k].status = "PENDING"

-----------------------------------------------------------------------------
(* The other writer.                                                       *)

LeftRow(l) ==
    [wallet |-> l.wallet, kind |-> l.kind, amount |-> l.amount, status |-> "PENDING",
     key |-> None, ref |-> None, resolved |-> None, code |-> None, attempts |-> 0,
     deferred |-> FALSE]

LeftEntry(l, dir) ==
    [tx |-> l.ext, dir |-> dir, amount |-> l.amount, before |-> wallet[l.wallet].balance,
     after |-> Moved(dir, wallet[l.wallet].balance, l.amount)]

\* A row whose status was never finished, with its movement or without.
LeaveBehind(l) ==
    LET dir == IF l.kind = "BET" THEN "DEBIT" ELSE "CREDIT" IN
    /\ wallet[l.wallet].open /\ holder[l.wallet] = None
    /\ ~Exists(l.ext) /\ holder[l.ext] = None
    /\ wager' = [wager EXCEPT ![l.ext] = LeftRow(l)]
    /\ IF l.posted
       THEN /\ Affordable(dir, wallet[l.wallet].balance, l.amount)
            /\ ledger' = [ledger EXCEPT ![l.wallet] = Append(@, LeftEntry(l, dir))]
            /\ wallet' = [wallet EXCEPT ![l.wallet].balance = Moved(dir, @, l.amount),
                                        ![l.wallet].version = @ + 1]
       ELSE UNCHANGED <<ledger, wallet>>
    /\ UNCHANGED <<idem, inbox, outbox, session, control, resolverControl, stale>>

-----------------------------------------------------------------------------
(* RecoverOnce.                                                            *)

Recovering(b) == \E k \in ExtId : holder[k] = b

HasLedger(k) == \E w \in Wallet : \E i \in DOMAIN ledger[w] : ledger[w][i].tx = k

\* Only the rows whose money has moved.
RecoverableIfPosted == {k \in ExtId : Pending(k) /\ holder[k] = None /\ HasLedger(k)}

\* GetStalePending, FOR UPDATE SKIP LOCKED; a round without rows ends here.
Recoverable == {k \in ExtId : Pending(k) /\ holder[k] = None}

\* Any of the rows may be past the 30 seconds.
SelectStale(b) ==
    /\ ~Recovering(b)
    /\ \E rows \in (SUBSET Recoverable) \ {{}} :
          /\ LockRows(b, rows)
          /\ stale' = [stale EXCEPT ![b] = rows]
    /\ UNCHANGED <<tables, work, entries, staged, events, control, resolverControl>>

\* No look at the ledger.
RecoverAsFailed(b, k) == Restage(b, k, "FAILED", "TRANSACTION_TIMEOUT", None)

\* Process if its ledger row exists, Fail otherwise.
Recover(b, k) ==
    IF HasLedger(k) THEN Restage(b, k, "PROCESSED", None, None)
    ELSE Restage(b, k, "FAILED", "TRANSACTION_TIMEOUT", None)

\* Neither end writes an event or a stored answer.
RecoverItem(b) ==
    /\ \E k \in stale[b] :
          /\ Recover(b, k)
          /\ stale' = [stale EXCEPT ![b] = @ \ {k}]
    /\ UNCHANGED <<tables, holder, work, entries, events, control, resolverControl>>

EndRecovery(b) ==
    /\ stale' = [stale EXCEPT ![b] = {}]
    /\ UNCHANGED <<control, resolverControl>>

CommitRecovery(b) ==
    /\ Recovering(b)
    /\ stale[b] = {}
    /\ Commit(b, idem)
    /\ EndRecovery(b)

\* Shutdown, a crash or a failed statement.
AbandonRecovery(b) ==
    /\ Recovering(b)
    /\ Rollback(b)
    /\ EndRecovery(b)

-----------------------------------------------------------------------------
RecovererStep(b) == SelectStale(b) \/ RecoverItem(b) \/ CommitRecovery(b)

RecoveryNext ==
    \/ SystemNext /\ UNCHANGED stale
    \/ \E b \in Recoverer : RecovererStep(b) \/ AbandonRecovery(b)
    \/ \E l \in Leftover : LeaveBehind(l)

RecoverySpec == RecoveryInit /\ [][RecoveryNext]_recoveryVars

\* As for the other rounds: the ticker fires, and crashes stop at some point.
RecoveryFairness ==
    /\ \A b \in Recoverer : WF_recoveryVars(RecovererStep(b))
    /\ <>[][\A b \in Recoverer : AbandonRecovery(b) => RecovererStep(b)]_recoveryVars

LiveRecoverySpec == RecoverySpec /\ Fairness /\ RecoveryFairness
=============================================================================
