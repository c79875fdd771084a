----------------------------- MODULE WagerDomain -----------------------------
(***************************************************************************)
(* The pure part of pkg/domain: the status machine of a wager transaction, *)
(* the direction of a reversal and the arithmetic of a wallet movement.    *)
(* Amounts are centavos, int64 in pkg/money.                               *)
(***************************************************************************)
EXTENDS Money

Kinds == {"OPENING", "BET", "WIN", "LOSS", "REFUND", "ROLLBACK"}
Statuses == {"PENDING", "PENDING_REFERENCE", "PROCESSED", "REJECTED", "FAILED"}
Directions == {"CREDIT", "DEBIT"}

Terminal(status) == status \in {"PROCESSED", "REJECTED", "FAILED"}

\* The target statuses transitionTo accepts from each status.
validTransitions ==
    [s \in Statuses |->
        CASE s = "PENDING"           -> {"PROCESSED", "REJECTED", "FAILED"}
          [] s = "PENDING_REFERENCE" -> {"PENDING", "PROCESSED", "REJECTED", "FAILED"}
          [] OTHER                   -> {}]

\* REFUND and ROLLBACK name another transaction of the same provider.
RequiresReference(kind) == kind \in {"REFUND", "ROLLBACK"}

\* A forgotten case split: every reversal gives money back.
ResolutionAlwaysCredit(kind, originalKind) == "CREDIT"

\* Which way a parked reversal moves the money once its original is known.
ResolutionDirection(kind, originalKind) ==
    IF kind = "REFUND" \/ originalKind = "BET" THEN "CREDIT" ELSE "DEBIT"

\* What a request can carry (Parse never returns MinInt), and what a wallet can hold.
Amounts == -MaxInt..MaxInt
Balances == 0..MaxInt

Movement(dir, balance, amount) ==
    IF dir = "CREDIT" THEN Add(balance, amount) ELSE Sub(balance, amount)

\* The balance after Wallet.Credit or Debit.
Moved(dir, balance, amount) == Movement(dir, balance, amount).amount

\* A debit that does not look at the balance.
MovementErrorBelowZero(dir, balance, amount) == Movement(dir, balance, amount).err

\* The error of Wallet.Credit or Debit.  Only Debit refuses a negative result.
MovementError(dir, balance, amount) ==
    IF Movement(dir, balance, amount).err # "nil" THEN "OVERFLOW"
    ELSE IF dir = "DEBIT" /\ Moved(dir, balance, amount) < 0 THEN "INSUFFICIENT_FUNDS"
    ELSE "nil"

Affordable(dir, balance, amount) == MovementError(dir, balance, amount) = "nil"

\* chk_ledger_balance_math, the arithmetic every ledger row is checked for.
EntryMath(e) ==
    e.after = IF e.dir = "CREDIT" THEN e.before + e.amount ELSE e.before - e.amount
=============================================================================
