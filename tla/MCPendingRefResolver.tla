------------------------- MODULE MCPendingRefResolver -------------------------
(***************************************************************************)
(* Two small instances of the handlers and one resolver round for TLC: the *)
(* calls that show where their promises end.                               *)
(***************************************************************************)
EXTENDS ResolverInvariants, TLC

CONSTANTS w1, e1, e2, e3, e4, k1, x1, m2, m3, m4

C(kind, channel, amount, ext, ref, key, msg) ==
    [kind |-> kind, channel |-> channel, wallet |-> w1, amount |-> amount, ext |-> ext,
     ref |-> ref, key |-> key, hash |-> x1, msg |-> msg]

Open(amount) == C("OPENING", "HTTP", amount, w1, None, None, None)

OneProvider == [k \in ExtId |-> "provider-a"]

\* Two BETs of one wallet and a REFUND of each; the second BET resolves its own inline.
TwoBets ==
    {Open(2),
     C("BET",      "HTTP", 1, e1, None, k1, None),
     C("BET",      "SQS",  1, e3, None, None, m3),
     C("REFUND",   "SQS",  1, e2, e1, None, m2),
     C("REFUND",   "SQS",  1, e4, e3, None, m4)}

\* A BET over HTTP and a REFUND of it with a negative amount.
NegativeRefund ==
    {Open(1),
     C("BET",      "HTTP", 1, e1, None, k1, None),
     C("REFUND",   "SQS",  -1, e2, e1, None, m2)}

=============================================================================
