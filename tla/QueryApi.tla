------------------------------- MODULE QueryApi -------------------------------
(***************************************************************************)
(* The query routes behind the authentication middleware                   *)
(* (pkg/auth/middleware.go, HandleGetLedger of pkg/api/handlers.go): a     *)
(* reader's page is read once its token is accepted, and asked for again   *)
(* with the same cursor and a new token when it is refused.                *)
(***************************************************************************)
EXTENDS KeyCache, LedgerPages

ASSUME QueryAssumption == Reader \subseteq Client

apiVars == <<cacheVars, pageVars>>

QueryTypeOK == CacheTypeOK /\ PagesTypeOK

ApiInit == CacheInit /\ PagesInit

\* A reader that has all pages asks for nothing more; other clients call on.
Request(c) ==
    /\ c \in Reader => ~ReadAll(c)
    /\ Ask(c)
    /\ UNCHANGED pageVars

Authenticate(c) == GetKey(c) /\ UNCHANGED pageVars

\* The handler runs for an accepted request only.
HandleGetLedger(c) ==
    /\ Leave(c)
    /\ IF c \in Reader /\ step[c] = "accepted" THEN GetPage(c) ELSE UNCHANGED pageVars

ApiNext ==
    \/ (Rotate \/ Elapse) /\ UNCHANGED pageVars
    \/ Post /\ UNCHANGED cacheVars
    \/ \E c \in Client : Request(c) \/ Authenticate(c) \/ HandleGetLedger(c)

ApiSpec == ApiInit /\ [][ApiNext]_apiVars

\* Clients come back, a map that was read is stored, an admitted request is served.
ApiFairness ==
    /\ CacheFairness
    /\ \A c \in Client : WF_apiVars(Request(c) \/ (Store(c) /\ UNCHANGED pageVars) \/ HandleGetLedger(c))

LiveApiSpec == ApiSpec /\ ApiFairness

\* A reader gets the last page at some point, whatever rotations, rate-limited refreshes and
\* failed fetches its requests run into, and although the ledger grows while it reads
\* (middleware.go 42-46, handlers.go 271-346).
ReadingEnds == \A r \in Reader : <>ReadAll(r)
=============================================================================
