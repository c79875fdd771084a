--------------------------- MODULE MCReconciliation ---------------------------
(***************************************************************************)
(* Instance of the reconciliation for TLC: one wallet, one BET, no keys.   *)
(***************************************************************************)
EXTENDS Reconciliation

CONSTANTS w1, e1, x1, k1

C(kind, amount, ext, key) ==
    [kind |-> kind, channel |-> "HTTP", wallet |-> w1, amount |-> amount, ext |-> ext,
     ref |-> None, key |-> key, hash |-> x1, msg |-> None]

OneBet == {C("OPENING", 2, w1, None), C("BET", 1, e1, k1)}
OneProvider == [k \in ExtId |-> "provider-a"]
=============================================================================
