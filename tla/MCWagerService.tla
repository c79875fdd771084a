---------------------------- MODULE MCWagerService ----------------------------
(***************************************************************************)
(* Instances of the handlers for TLC.                                      *)
(***************************************************************************)
EXTENDS WagerInvariants, TLC

CONSTANTS w1, w2, e1, e2, e3, e4, k1, k2, k3, x1, x2, x3, m1, m2, m3, h1, h2

Providers == e1 :> "provider-a" @@ e2 :> "provider-a" @@ e3 :> "provider-a"
             @@ e4 :> "provider-b"

C(kind, channel, w, amount, ext, ref, key, hash, msg) ==
    [kind |-> kind, channel |-> channel, wallet |-> w, amount |-> amount, ext |-> ext,
     ref |-> ref, key |-> key, hash |-> hash, msg |-> msg]

Open(w, amount) == C("OPENING", "HTTP", w, amount, w, None, None, x1, None)

\* A BET sent over both channels under one key; a WIN under its pair and another
\* provider's BET, which share a key; a REFUND, a LOSS, and a ROLLBACK of the largest amount.
MixedCalls ==
    {Open(w1, 1),
     C("BET",      "HTTP", w1, 1, e1, None, k1, x1, None),
     C("BET",      "SQS",  w1, 1, e1, None, k1, x2, m1),
     C("WIN",      "HTTP", w1, 1, e1, None, k2, x3, None),
     C("BET",      "HTTP", w1, 1, e4, None, k2, x3, None),
     C("REFUND",   "SQS",  w1, 1, e2, e1, None, x1, m2),
     C("ROLLBACK", "SQS",  w1, MaxInt, e3, e1, k3, x1, m3),
     C("LOSS",     "SQS",  w1, 0, e2, None, k3, x3, m2),
     C("REFUND",   "HTTP", w1, 1, e2, e1, k3, x3, None)}

\* Two REFUNDs of one BET, the BET over both channels, a LOSS over either, and a REFUND
\* over HTTP, which does not implement it.
RefundCalls ==
    {Open(w1, 1),
     C("BET",      "HTTP", w1, 1, e1, None, k1, x1, None),
     C("LOSS",     "SQS",  w1, 0, e1, None, k2, x2, m1),
     C("LOSS",     "HTTP", w1, 1, e4, None, k3, x2, None),
     C("REFUND",   "SQS",  w1, 1, e2, e1, None, x1, m2),
     C("REFUND",   "SQS",  w1, 1, e3, e1, None, x1, m3),
     C("REFUND",   "HTTP", w1, 1, e2, e1, k2, x3, None)}

Symmetric == Permutations(Handler)
=============================================================================
