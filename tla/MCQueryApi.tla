------------------------------ MODULE MCQueryApi ------------------------------
(***************************************************************************)
(* Two clients, one of which reads the ledger of a wallet.  In one         *)
(* scenario the provider replaces its key, by way of a period with both,   *)
(* and in the other the ledger grows while it is read.                     *)
(***************************************************************************)
EXTENDS QueryApi

CONSTANTS k1, k2

VARIABLE scenario

KeyChange == <<{k1}, {k1, k2}, {k2}>>

\* The scenarios bound what happens to the clients, never what they do.  The first row has
\* the middle id, so that others come before and after it.
Within ==
    /\ IF scenario = "rotation" THEN Len(rows) <= 1 ELSE epoch = 1
    /\ rows # <<>> => rows[1][2] = 2

mcVars == <<apiVars, scenario>>
MCInit == ApiInit /\ scenario \in {"rotation", "growth"}
MCSpec == MCInit /\ [][ApiNext /\ UNCHANGED scenario /\ Within']_mcVars /\ ApiFairness
=============================================================================
