-------------------------- MODULE RecoveryInvariants --------------------------
(***************************************************************************)
(* What the recovery of PENDING rows guarantees beside the handlers and    *)
(* the resolver.                                                           *)
(***************************************************************************)
EXTENDS ResolverInvariants, StaleTxRecovery

\* A transaction that ends as a processed money-mover owns one ledger row, and one that ends
\* as rejected or failed owns none: the recovery never fails a transaction whose money has
\* moved, nor finishes one whose money has not (stale_tx_recovery_worker.go 126-148).
RecoveryFollowsTheLedger ==
    \A k \in TxKey : wager[k] # None /\ Terminal(wager[k].status) =>
        LET rows == UNION {{w} \X RowsOf(w, k) : w \in Wallet}
        IN  IF MovedMoney(k) THEN \E r \in rows : rows = {r} ELSE rows = {}

\* No transaction stays PENDING: a replica finds it and ends it, however often rounds crash
\* before that (ARCHITECTURE.md 10.4).
StalePendingSettles == \A k \in ExtId : Pending(k) ~> ~Pending(k)
=============================================================================
