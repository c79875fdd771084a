-------------------------- MODULE PendingRefResolver --------------------------
(***************************************************************************)
(* pkg/service/pending_ref_resolver.go beside the handlers: rounds of the  *)
(* periodic workers that settle parked reversals (Moment B).  A round is   *)
(* one SQL transaction: two SELECTs that skip locked rows, then one item   *)
(* after the other, then the commit.                                       *)
(*                                                                         *)
(* Time is two environment steps: a parked row passes its 60 minutes (Age) *)
(* and a deferred row reaches its next_attempt_at (BackoffElapsed).        *)
(*                                                                         *)
(* Left out: the LIMIT 100 of each SELECT (all rows fit), the length of    *)
(* the back-off, the ticker.                                               *)
(***************************************************************************)
EXTENDS WagerService

CONSTANTS
    Worker,      \* worker rounds: one per replica of the service
    MaxAttempts  \* deferrals before a parked reversal expires: 10 in the code

ASSUME ResolverAssumption ==
    /\ Worker \cap Handler = {}
    /\ Worker \subseteq Agent
    /\ MaxAttempts \in Nat \ {0}
    /\ None \notin Statuses \cup {"unknown"}

VARIABLES
    rpc,      \* where each worker is in its round
    items,    \* per worker and parked row: what the SELECTs said of its original
    current,  \* the row whose wallet the worker is about to lock or move
    aged      \* rows created more than 60 minutes ago

resolverControl == <<rpc, items, current, aged>>
systemVars == <<vars, resolverControl>>

RoundSteps == {"idle", "expired", "next", "lock", "apply"}

\* "unknown": no original was found; None: the row is not (or no longer) an item.
Sighting == Statuses \cup {"unknown", None}
NoItems == [k \in ExtId |-> None]

SystemInit ==
    /\ ServiceInit
    /\ rpc = [a \in Worker |-> "idle"]
    /\ items = [a \in Worker |-> NoItems]
    /\ current = [a \in Worker |-> None]
    /\ aged = {}

-----------------------------------------------------------------------------
(* GetAllResolvable.                                                       *)

\* Parked rows, locked or not.
SelectablePastLocks(a) == {k \in ExtId : PendingReference(k)}

\* What SKIP LOCKED leaves: parked rows no other session holds.
Selectable(a) == {k \in ExtId : PendingReference(k) /\ holder[k] \in {None, a}}

\* A second SELECT that goes by attempts alone.
ExpiredByAttempts(a) ==
    {k \in Selectable(a) : items[a][k] = None /\ wager[k].attempts >= MaxAttempts}

\* First SELECT: parked rows whose original exists, in any status, and that are due.
Resolvable(a) == {k \in Selectable(a) : Exists(wager[k].ref) /\ ~wager[k].deferred}

\* Second SELECT: parked rows out of time or attempts; the first result wins.
Expired(a) ==
    {k \in Selectable(a) : items[a][k] = None
                           /\ (k \in aged \/ wager[k].attempts >= MaxAttempts)}

LockRows(a, rows) == holder' = [r \in Resource |-> IF r \in rows THEN a ELSE holder[r]]

SelectResolvable(a) ==
    /\ rpc[a] = "idle"
    /\ LockRows(a, Resolvable(a))
    /\ items' = [items EXCEPT ![a] =
                    [k \in ExtId |-> IF k \in Resolvable(a) THEN wager[wager[k].ref].status
                                     ELSE None]]
    /\ rpc' = [rpc EXCEPT ![a] = "expired"]
    /\ UNCHANGED <<tables, work, entries, staged, events, control, current, aged>>

\* A round without rows ends here, with nothing to roll back.
SelectExpired(a) ==
    /\ rpc[a] = "expired"
    /\ LockRows(a, Expired(a))
    /\ items' = [items EXCEPT ![a] =
                    [k \in ExtId |-> IF k \in Expired(a) THEN "unknown" ELSE @[k]]]
    /\ rpc' = [rpc EXCEPT ![a] = IF items'[a] = NoItems THEN "idle" ELSE "next"]
    /\ UNCHANGED <<tables, work, entries, staged, events, control, current, aged>>

-----------------------------------------------------------------------------
(* The items of a round, in the arbitrary order the SELECTs returned them. *)

Done(a, k) == items' = [items EXCEPT ![a][k] = None]

\* No original, or one that was rejected or failed: reject, without locking a wallet.
RejectItem(a) ==
    /\ rpc[a] = "next"
    /\ \E k \in ExtId :
          /\ items[a][k] \in {"unknown", "REJECTED", "FAILED"}
          /\ ResolveSinglePendingRef(a, wager[k].wallet, k,
                IF items[a][k] = "unknown" THEN None ELSE wager[k].ref)
          /\ Done(a, k)
    /\ UNCHANGED <<tables, holder, control, rpc, current, aged>>

\* The original is itself parked: one more attempt, later.  attempts saturates at
\* MaxAttempts, beyond which nothing tells its values apart.
DeferItem(a) ==
    /\ rpc[a] = "next"
    /\ \E k \in ExtId :
          /\ items[a][k] \in {"PENDING", "PENDING_REFERENCE"}
          /\ staged' = [staged EXCEPT ![a][k] =
                [wager[k] EXCEPT !.attempts = IF @ < MaxAttempts THEN @ + 1 ELSE @,
                                 !.deferred = TRUE]]
          /\ Done(a, k)
    /\ UNCHANGED <<tables, holder, work, entries, events, control, rpc, current, aged>>

\* A processed original: the round goes for the wallet of the parked reversal,
StartItem(a) ==
    /\ rpc[a] = "next"
    /\ \E k \in ExtId :
          /\ items[a][k] = "PROCESSED"
          /\ current' = [current EXCEPT ![a] = k]
    /\ rpc' = [rpc EXCEPT ![a] = "lock"]
    /\ UNCHANGED <<storeVars, control, items, aged>>

\* waits for it,
LockItemWallet(a) ==
    /\ rpc[a] = "lock"
    /\ LockWalletRow(a, wager[current[a]].wallet)
    /\ rpc' = [rpc EXCEPT ![a] = "apply"]
    /\ UNCHANGED <<tables, entries, staged, events, control, items, current, aged>>

\* The round applies every reversal without looking for an earlier one.
ApplyItemUnguarded(a) ==
    LET k == current[a] IN
    /\ rpc[a] = "apply"
    /\ ResolveWithoutGuard(a, wager[k].wallet, k, wager[k].ref)
    /\ Done(a, k)
    /\ current' = [current EXCEPT ![a] = None]
    /\ rpc' = [rpc EXCEPT ![a] = "next"]
    /\ UNCHANGED <<tables, holder, control, aged>>

\* What is left of a round.
EndRound(a) ==
    /\ rpc' = [rpc EXCEPT ![a] = "idle"]
    /\ items' = [items EXCEPT ![a] = NoItems]
    /\ current' = [current EXCEPT ![a] = None]
    /\ UNCHANGED <<control, aged>>

\* and resolves the reversal under it.  An overflow is logged and the item skipped.  A
\* statement that fails makes PostgreSQL refuse the rest of the round, its commit included,
\* although the loop goes on.
ApplyItem(a) ==
    LET k == current[a]
        w == wager[k].wallet
        original == wager[k].ref
    IN
    /\ rpc[a] = "apply"
    /\ \/ /\ ResolutionRefused(a, w, k, original)
          /\ Rollback(a)
          /\ EndRound(a)
       \/ /\ \/ ResolveSinglePendingRef(a, w, k, original) /\ UNCHANGED <<tables, holder>>
             \/ ResolutionOverflows(a, w, k, original) /\ UNCHANGED storeVars
          /\ Done(a, k)
          /\ current' = [current EXCEPT ![a] = None]
          /\ rpc' = [rpc EXCEPT ![a] = "next"]
          /\ UNCHANGED <<control, aged>>

\* The rows of the round become visible together.
CommitRound(a) ==
    /\ rpc[a] = "next"
    /\ items[a] = NoItems
    /\ Commit(a, idem)
    /\ EndRound(a)

\* Shutdown, a crash, a failed statement, or PostgreSQL choosing this session as the
\* victim of a deadlock: everything the round did is rolled back.
AbandonRound(a) ==
    /\ rpc[a] # "idle"
    /\ Rollback(a)
    /\ EndRound(a)

-----------------------------------------------------------------------------
(* Time.                                                                   *)

Age(k) ==
    /\ PendingReference(k)
    /\ k \notin aged
    /\ aged' = aged \cup {k}
    /\ UNCHANGED <<vars, rpc, items, current>>

BackoffElapsed(k) ==
    /\ PendingReference(k)
    /\ wager[k].deferred
    /\ holder[k] = None
    /\ wager' = [wager EXCEPT ![k].deferred = FALSE]
    /\ UNCHANGED <<wallet, ledger, idem, inbox, outbox, session, control, resolverControl>>

-----------------------------------------------------------------------------
WorkerStep(a) ==
    \/ SelectResolvable(a)
    \/ SelectExpired(a)
    \/ RejectItem(a)
    \/ DeferItem(a)
    \/ StartItem(a)
    \/ LockItemWallet(a)
    \/ ApplyItem(a)
    \/ CommitRound(a)

SystemNext ==
    \/ ServiceNext /\ UNCHANGED resolverControl
    \/ \E a \in Worker : WorkerStep(a) \/ AbandonRound(a)
    \/ \E k \in ExtId : Age(k) \/ BackoffElapsed(k)

SystemSpec == SystemInit /\ [][SystemNext]_systemVars

-----------------------------------------------------------------------------
(* Waiting.                                                                *)

\* The resources of which session a needs one before it can take its next step.
Wants(a) ==
    IF a \in Worker
    THEN IF rpc[a] = "lock" THEN {wager[current[a]].wallet} ELSE {}
    ELSE CASE pc[a] = "inbox"   -> {call[a].msg} \ inbox
           [] pc[a] = "lock"    -> {call[a].wallet}
           [] pc[a] = "execute" -> IF Unsupported(call[a]) \/ Exists(call[a].ext) THEN {}
                                   ELSE {call[a].ext}
           [] pc[a] = "resolve" -> todo[a]
           [] OTHER             -> {}

\* Every session of S waits for resources that only other sessions of S hold.
Deadlocked(S) ==
    \A a \in S : Wants(a) # {} /\ \A r \in Wants(a) : holder[r] \in S \ {a}

InDeadlock(a) == \E S \in SUBSET (Handler \cup Worker) : a \in S /\ Deadlocked(S)

\* PostgreSQL's deadlock detector aborts a session of the circle.
AbortVictim(a) ==
    /\ InDeadlock(a)
    /\ IF a \in Worker THEN AbandonRound(a) ELSE Abandon(a) /\ UNCHANGED resolverControl

\* A step of some session that is not its end by a crash.
Regular ==
    \/ \E h \in Handler : HandlerStep(h) /\ UNCHANGED resolverControl
    \/ \E a \in Worker : WorkerStep(a)

\* A session dies although no deadlock made PostgreSQL abort it.
Crash ==
    \/ \E h \in Handler : Abandon(h) /\ ~InDeadlock(h)
    \/ \E a \in Worker : AbandonRound(a) /\ ~InDeadlock(a)

\* Goroutines that can run do, row locks are granted in the order they were asked for,
\* the ticker fires, deadlocks are detected, time passes, and crashes stop at some point.
Fairness ==
    /\ \A h \in Handler : SF_systemVars(HandlerStep(h) /\ UNCHANGED resolverControl)
    /\ \A a \in Worker : SF_systemVars(WorkerStep(a))
    /\ \A a \in Worker : WF_systemVars(AbortVictim(a))
    /\ \A k \in ExtId : SF_systemVars(Age(k)) /\ SF_systemVars(BackoffElapsed(k))
    /\ <>[][Crash => Regular]_systemVars

LiveSystemSpec == SystemSpec /\ Fairness
=============================================================================
