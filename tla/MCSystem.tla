------------------------------- MODULE MCSystem -------------------------------
(***************************************************************************)
(* Instances of the handlers, the resolver and the recovery for TLC.  A    *)
(* run checks several scenarios: which calls arrive, and how many handlers *)
(* and resolver rounds work on them at the same time.                      *)
(***************************************************************************)
EXTENDS RecoveryInvariants, TLC

CONSTANTS w1, w2, e1, e2, e3, e4, k1, x1, m1, m2, m3, m4, Scenarios

VARIABLE scenario

C(kind, channel, amount, ext, ref, key, msg) ==
    [kind |-> kind, channel |-> channel, wallet |-> w1, amount |-> amount, ext |-> ext,
     ref |-> ref, key |-> key, hash |-> x1, msg |-> msg]

Open(amount) == C("OPENING", "HTTP", amount, w1, None, None, None)

On(w, c) == [c EXCEPT !.wallet = w]

\* A BET sent twice over different channels and two REFUNDs of it, one of them also with a
\* negative amount.
RefundCalls ==
    {Open(1),
     C("BET",      "HTTP", 1, e1, None, k1, None),
     C("BET",      "SQS",  1, e1, None, k1, m1),
     C("REFUND",   "SQS",  1, e2, e1, None, m2),
     C("REFUND",   "SQS",  -1, e2, e1, None, m2),
     C("REFUND",   "SQS",  1, e3, e1, None, m3)}

\* A BET that may spend the WIN before it is rolled back, or be rejected before it is
\* refunded.
RollbackCalls ==
    {Open(0),
     C("WIN",      "SQS",  1, e1, None, None, m1),
     C("BET",      "HTTP", 1, e2, None, k1, None),
     C("ROLLBACK", "SQS",  1, e3, e1, None, m3),
     C("REFUND",   "SQS",  1, e4, e2, None, m4)}

\* A wallet at the limit of int64: a BET over either channel and a REFUND of more than it.
LimitCalls ==
    {Open(MaxInt),
     C("BET",      "HTTP", 1, e1, None, k1, None),
     C("BET",      "SQS",  1, e1, None, None, m1),
     C("BET",      "SQS",  1, e3, None, None, m3),
     C("REFUND",   "SQS",  2, e2, e1, None, m2)}

\* A REFUND whose original never arrives, a BET sent under the same pair, and a ROLLBACK of
\* whichever of the two comes first.
ChainCalls ==
    {Open(1),
     C("BET",      "HTTP", 1, e2, None, k1, None),
     C("REFUND",   "SQS",  1, e2, e1, None, m2),
     C("ROLLBACK", "SQS",  1, e3, e2, None, m3)}

\* A WIN over either channel and two ROLLBACKs of it, sent for another wallet or one of them
\* for its own.
WalletCalls ==
    {Open(0),
     [On(w2, Open(1)) EXCEPT !.ext = w2],
     C("WIN",      "HTTP", 1, e1, None, k1, None),
     C("WIN",      "SQS",  1, e1, None, k1, m1),
     C("ROLLBACK", "SQS",  1, e2, e1, None, m2),
     On(w2, C("ROLLBACK", "SQS", 1, e2, e1, None, m2)),
     On(w2, C("ROLLBACK", "SQS", 1, e3, e1, None, m3))}

\* A BET, the REFUND of it, and the same BET left behind by another writer.
LeftoverCalls ==
    {Open(1),
     C("BET",      "HTTP", 1, e1, None, k1, None),
     C("REFUND",   "SQS",  1, e2, e1, None, m2)}

\* Its money has moved, or has not.
HalfBets == {[ext |-> e1, wallet |-> w1, kind |-> "BET", amount |-> 1, posted |-> p] : p \in BOOLEAN}

Scenario ==
    [refund   |-> [calls |-> RefundCalls,   handlers |-> 1, workers |-> 2],
     rollback |-> [calls |-> RollbackCalls, handlers |-> 2, workers |-> 1],
     limit    |-> [calls |-> LimitCalls,    handlers |-> 1, workers |-> 1],
     chain    |-> [calls |-> ChainCalls,    handlers |-> 1, workers |-> 1],
     wallets  |-> [calls |-> WalletCalls,   handlers |-> 1, workers |-> 2],
     leftover |-> [calls |-> LeftoverCalls, handlers |-> 1, workers |-> 1]]

AllCalls == UNION {Scenario[s].calls : s \in Scenarios}
OneProvider == [k \in ExtId |-> "provider-a"]

Within ==
    /\ \A h \in Handler : call[h] \in Scenario[scenario].calls \cup {None}
    /\ Cardinality({h \in Handler : pc[h] # "idle"}) <= Scenario[scenario].handlers
    /\ Cardinality({a \in Worker : rpc[a] # "idle"}) <= Scenario[scenario].workers
    /\ (\E k \in ExtId : Pending(k)) => scenario = "leftover"

mcVars == <<recoveryVars, scenario>>
MCInit == RecoveryInit /\ scenario \in Scenarios
MCNext == RecoveryNext /\ UNCHANGED scenario /\ Within'
MCSpec == MCInit /\ [][MCNext]_mcVars
LiveMCSpec == MCSpec /\ Fairness /\ RecoveryFairness

SymmetricSystem == Permutations(Handler) \cup Permutations(Worker)
=============================================================================
