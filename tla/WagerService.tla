----------------------------- MODULE WagerService -----------------------------
(***************************************************************************)
(* pkg/service/wager_service.go: the handlers that open wallets and        *)
(* process wagers.  A handler is one goroutine: an HTTP request            *)
(* (OpenWallet, ProcessWager) or a message of the SQS consumer             *)
(* (ProcessWagerWithInbox).  Each SQL statement that other sessions can    *)
(* interleave with is a step; statements that only write private rows are  *)
(* folded into the step before the next such statement.                    *)
(*                                                                         *)
(* Left out: rounds and games, tracing, metrics, logs.                     *)
(***************************************************************************)
EXTENDS WagerStore

CONSTANTS
    Handler,            \* handler goroutines
    Calls,              \* the calls that may arrive, any number of times each
    MaxConflictAttempts \* attempts after unique-key conflicts: 5 in the code

CallRecord ==
    [kind : Kinds, channel : {"HTTP", "SQS"}, wallet : Wallet, amount : Amounts,
     ext : TxKey, ref : ExtId \cup {None}, key : Key \cup {None}, hash : Hash,
     msg : Msg \cup {None}]

\* The consumer always has a message id, HTTP always an Idempotency-Key (400 without it);
\* a reference is looked up under the provider of the call.  Amounts may be negative; of an
\* opening balance only the positive ones matter, any other opens an empty wallet.
WellFormed(c) ==
    IF c.kind = "OPENING"
    THEN /\ c.channel = "HTTP" /\ c.ext = c.wallet /\ c.amount >= 0
         /\ c.key = None /\ c.msg = None /\ c.ref = None
    ELSE /\ c.ext \in ExtId
         /\ c.channel = "SQS" => c.msg # None
         /\ c.channel = "HTTP" => c.msg = None /\ c.key # None
         /\ c.ref # None => ProviderOf[c.ref] = ProviderOf[c.ext]

ASSUME ServiceAssumption ==
    /\ Handler \subseteq Agent
    /\ Calls \subseteq CallRecord
    /\ \A c \in Calls : WellFormed(c)
    /\ None \notin Calls
    /\ MaxConflictAttempts \in Nat \ {0}

VARIABLES
    pc,       \* where the handler is
    call,     \* the call it works on
    attempt,  \* which attempt after unique-key conflicts
    todo,     \* parked reversals its resolution loop still has to look at
    answer    \* what it is about to return

control == <<pc, call, attempt, todo, answer>>
vars == <<storeVars, control>>

Steps == {"idle", "open", "insert", "inbox", "idem", "lock", "execute", "pending",
          "resolve", "commit", "done"}
Success == {"processed", "rejected", "pending", "replay", "opened"}
Answers == Success \cup {"conflict", "forbidden", "exhausted", "error", "none"}

ServiceInit ==
    /\ StoreInit
    /\ pc = [h \in Handler |-> "idle"]
    /\ call = [h \in Handler |-> None]
    /\ attempt = [h \in Handler |-> 0]
    /\ todo = [h \in Handler |-> {}]
    /\ answer = [h \in Handler |-> "none"]

-----------------------------------------------------------------------------
(* Control flow shared by the operations.                                  *)

FirstStep(c) ==
    IF c.kind = "OPENING" THEN "open" ELSE IF c.channel = "SQS" THEN "inbox" ELSE "idem"

Goto(h, step) == pc' = [pc EXCEPT ![h] = step] /\ UNCHANGED <<call, attempt, answer>>

Return(h, result) ==
    /\ pc' = [pc EXCEPT ![h] = "done"]
    /\ answer' = [answer EXCEPT ![h] = result]
    /\ todo' = [todo EXCEPT ![h] = {}]
    /\ UNCHANGED <<call, attempt>>

\* The deferred tx.Rollback on an early return.
Fail(h, result) == Return(h, result) /\ Rollback(h)

\* The loop runs once more than it should.
RetryOnceTooOften(h) ==
    /\ Rollback(h)
    /\ IF attempt[h] <= MaxConflictAttempts
       THEN /\ pc' = [pc EXCEPT ![h] = FirstStep(call[h])]
            /\ attempt' = [attempt EXCEPT ![h] = @ + 1]
            /\ todo' = [todo EXCEPT ![h] = {}]
            /\ UNCHANGED <<call, answer>>
       ELSE Return(h, "exhausted")

\* The loop never counts.
RetryForever(h) ==
    /\ Rollback(h)
    /\ pc' = [pc EXCEPT ![h] = FirstStep(call[h])]
    /\ todo' = [todo EXCEPT ![h] = {}]
    /\ UNCHANGED <<call, attempt, answer>>

\* ErrIdempotencyKeyConflict: roll back and run the whole operation again, up to 5 times.
RetryOrGiveUp(h) ==
    /\ Rollback(h)
    /\ IF attempt[h] < MaxConflictAttempts
       THEN /\ pc' = [pc EXCEPT ![h] = FirstStep(call[h])]
            /\ attempt' = [attempt EXCEPT ![h] = @ + 1]
            /\ todo' = [todo EXCEPT ![h] = {}]
            /\ UNCHANGED <<call, answer>>
       ELSE Return(h, "exhausted")

Forget(h) ==
    /\ pc' = [pc EXCEPT ![h] = "idle"]
    /\ call' = [call EXCEPT ![h] = None]
    /\ attempt' = [attempt EXCEPT ![h] = 0]
    /\ todo' = [todo EXCEPT ![h] = {}]
    /\ answer' = [answer EXCEPT ![h] = "none"]

\* A request or message arrives; providers and the queue may repeat either.
Receive(h) ==
    /\ pc[h] = "idle"
    /\ \E c \in Calls :
          /\ call' = [call EXCEPT ![h] = c]
          /\ pc' = [pc EXCEPT ![h] = FirstStep(c)]
    /\ attempt' = [attempt EXCEPT ![h] = 1]
    /\ UNCHANGED <<storeVars, todo, answer>>

\* The answer reaches the caller (or the consumer deletes the message).
Finish(h) == pc[h] = "done" /\ Forget(h) /\ UNCHANGED storeVars

\* The process dies or the request context expires: PostgreSQL rolls back, nobody answers.
Abandon(h) == pc[h] # "idle" /\ Forget(h) /\ Rollback(h)

-----------------------------------------------------------------------------
(* OpenWallet.                                                             *)

\* GetByPlayerAndCurrency takes no lock.
CheckWallet(h) ==
    /\ pc[h] = "open"
    /\ \/ /\ wallet[call[h].wallet].open
          /\ Fail(h, "conflict")
       \/ /\ ~wallet[call[h].wallet].open
          /\ Goto(h, "insert")
          /\ UNCHANGED <<storeVars, todo>>

OpeningRow(c) ==
    [wallet |-> c.wallet, kind |-> "OPENING", amount |-> c.amount, status |-> "PROCESSED",
     key |-> None, ref |-> None, resolved |-> None, code |-> None, attempts |-> 0,
     deferred |-> FALSE]

OpeningEntry(c) ==
    [tx |-> c.ext, dir |-> "CREDIT", amount |-> c.amount, before |-> 0, after |-> c.amount]

OpeningEvents(c) ==
    {Notice("WagerTransactionProcessed", c.ext),
     [type |-> "WalletBalanceChanged", tx |-> c.ext, wallet |-> c.wallet, dir |-> "CREDIT",
      amount |-> c.amount, before |-> 0, after |-> c.amount, version |-> 1]}

\* The wallet row, and for a positive opening balance its transaction, ledger row and
\* events, all at version 1.  uk_wallets_player_currency refuses the loser of a race.
InsertWallet(h) ==
    LET c == call[h] IN
    /\ pc[h] = "insert"
    /\ \/ wallet[c.wallet].open /\ Fail(h, "error")
       \/ /\ ~wallet[c.wallet].open
          /\ wallet' = [wallet EXCEPT ![c.wallet] =
                           [open |-> TRUE, balance |-> c.amount, version |-> 1]]
          /\ IF c.amount > 0
             THEN /\ wager' = [wager EXCEPT ![c.ext] = OpeningRow(c)]
                  /\ ledger' = [ledger EXCEPT ![c.wallet] = Append(@, OpeningEntry(c))]
                  /\ outbox' = outbox \cup OpeningEvents(c)
             ELSE UNCHANGED <<wager, ledger, outbox>>
          /\ Return(h, "opened")
          /\ UNCHANGED <<idem, inbox, session>>

-----------------------------------------------------------------------------
(* ProcessWager and ProcessWagerWithInbox, up to the wallet lock.          *)

\* inboxRepo.Get, then Insert: a committed record means a replay; another session's
\* uncommitted one makes the insert wait.
ClaimInbox(h) ==
    /\ pc[h] = "inbox"
    /\ \/ call[h].msg \in inbox /\ Fail(h, "replay")
       \/ /\ call[h].msg \notin inbox
          /\ holder[call[h].msg] = None
          /\ Take(h, call[h].msg)
          /\ Goto(h, "idem")
          /\ UNCHANGED <<tables, work, entries, staged, events, todo>>

\* GetByIdempotencyKey returns one arbitrary row (LIMIT 1) of the key.
RowsOfKey(c) == {k \in ExtId : wager[k] # None /\ c.key # None /\ wager[k].key = c.key}
MayBelongToOther(c) == \E k \in RowsOfKey(c) : ProviderOf[k] # ProviderOf[c.ext]
MayBelongToSelf(c) ==
    RowsOfKey(c) = {} \/ \E k \in RowsOfKey(c) : ProviderOf[k] = ProviderOf[c.ext]

Stored(c) == IF c.key = None THEN None ELSE idem[c.key]

\* The check of the payload hash is forgotten: any use of the key replays.
CheckIdempotencyAnyHash(h) ==
    LET c == call[h] IN
    /\ pc[h] = "idem"
    /\ \/ Stored(c) # None /\ Return(h, "replay") /\ Commit(h, idem)
       \/ Stored(c) = None /\ Goto(h, "lock") /\ UNCHANGED <<storeVars, todo>>

\* The idempotency checks made before any lock is taken.  A replay over SQS commits the
\* inbox row it has inserted; over HTTP there is nothing to commit.
CheckIdempotency(h) ==
    LET c == call[h] IN
    /\ pc[h] = "idem"
    /\ \/ MayBelongToOther(c) /\ Fail(h, "forbidden")
       \/ /\ MayBelongToSelf(c)
          /\ Stored(c) # None
          /\ Stored(c).hash # c.hash
          /\ Fail(h, "conflict")
       \/ /\ MayBelongToSelf(c)
          /\ Stored(c) # None
          /\ Stored(c).hash = c.hash
          /\ Return(h, "replay")
          /\ Commit(h, idem)
       \/ /\ MayBelongToSelf(c)
          /\ Stored(c) = None
          /\ Goto(h, "lock")
          /\ UNCHANGED <<storeVars, todo>>

LockWallet(h) ==
    LET w == call[h].wallet IN
    /\ pc[h] = "lock"
    /\ \/ ~wallet[w].open /\ Fail(h, "error")
       \/ /\ wallet[w].open
          /\ LockWalletRow(h, w)
          /\ Goto(h, "execute")
          /\ UNCHANGED <<tables, entries, staged, events, todo>>

-----------------------------------------------------------------------------
(* The operation itself, under the wallet lock.                            *)

\* REFUND and ROLLBACK have no HTTP implementation; LOSS must carry zero.
Unsupported(c) ==
    \/ c.channel = "HTTP" /\ RequiresReference(c.kind)
    \/ c.kind = "LOSS" /\ c.amount # 0

\* A reversal over SQS whose original has not been committed yet.
Parks(c) == RequiresReference(c.kind) /\ ~Exists(c.ref)

\* BET debits; WIN, REFUND and ROLLBACK credit, whatever the original was.
DirectDirection(c) == IF c.kind = "BET" THEN "DEBIT" ELSE "CREDIT"

\* Over HTTP the row is built without the reference of the request.
NewRow(c, status, code) ==
    [wallet |-> c.wallet, kind |-> c.kind, amount |-> c.amount, status |-> status,
     key |-> c.key, ref |-> IF c.channel = "HTTP" THEN None ELSE c.ref, resolved |-> None,
     code |-> code, attempts |-> 0, deferred |-> FALSE]

StageNew(h, row) == staged' = [staged EXCEPT ![h][call[h].ext] = row]

Park(h) ==
    LET c == call[h] IN
    /\ Parks(c)
    /\ StageNew(h, NewRow(c, "PENDING_REFERENCE", None))
    /\ Announce(h, "WagerTransactionPendingReference", c.ext)
    /\ Goto(h, "commit")

Reject(h) ==
    LET c == call[h] IN
    /\ ~Parks(c)
    /\ ~Affordable(DirectDirection(c), work[h][c.wallet].balance, c.amount)
    /\ StageNew(h, NewRow(c, "REJECTED", MovementError(DirectDirection(c),
                                                       work[h][c.wallet].balance, c.amount)))
    /\ Announce(h, "WagerTransactionRejected", c.ext)
    /\ Goto(h, "commit")

\* LOSS moves nothing; resolution of parked reversals follows over SQS only.
Process(h) ==
    LET c == call[h] IN
    /\ ~Parks(c)
    /\ Affordable(DirectDirection(c), work[h][c.wallet].balance, c.amount)
    /\ StageNew(h, NewRow(c, "PROCESSED", None))
    /\ IF c.kind = "LOSS"
       THEN Announce(h, "WagerTransactionProcessed", c.ext)
       ELSE Move(h, c.wallet, c.ext, DirectDirection(c), c.amount)
    /\ Goto(h, IF c.channel = "SQS" THEN "pending" ELSE "commit")

\* A movement with a negative amount: its ledger row is refused, and before that, for a
\* credit larger than the balance, the wallet row.  The operation fails with the statement.
Refused(h) ==
    LET c == call[h] IN
    /\ ~Parks(c)
    /\ ~Postable(c.amount)
    /\ Affordable(DirectDirection(c), work[h][c.wallet].balance, c.amount)
Overdrawn(h) ==
    LET c == call[h] IN
    /\ Refused(h)
    /\ Moved(DirectDirection(c), work[h][c.wallet].balance, c.amount) < 0

\* The insert of the transaction row without its unique key.
ExecuteTwice(h) ==
    /\ pc[h] = "execute"
    /\ \/ Unsupported(call[h]) /\ Fail(h, "error")
       \/ /\ ~Unsupported(call[h])
          /\ Take(h, call[h].ext)
          /\ Park(h) \/ Reject(h) \/ Process(h)
          /\ UNCHANGED <<tables, todo>>

\* Everything from the reference lookup to the insert of the transaction row, which
\* waits for another session's uncommitted row and conflicts with a committed one.
Execute(h) ==
    LET c == call[h] IN
    /\ pc[h] = "execute"
    /\ \/ /\ Unsupported(c) \/ Overdrawn(h)
          /\ Fail(h, "error")
       \/ /\ ~Unsupported(c) /\ ~Overdrawn(h)
          /\ Exists(c.ext)
          /\ RetryOrGiveUp(h)
       \/ /\ ~Unsupported(c)
          /\ ~Exists(c.ext)
          /\ holder[c.ext] = None
          /\ Refused(h)
          /\ Fail(h, "error")
       \/ /\ ~Unsupported(c)
          /\ ~Exists(c.ext)
          /\ holder[c.ext] = None
          /\ Take(h, c.ext)
          /\ Park(h) \/ Reject(h) \/ Process(h)
          /\ UNCHANGED <<tables, todo>>

-----------------------------------------------------------------------------
(* resolvePendingRefs: parked reversals of the transaction just processed. *)

\* The rows GetPendingByExternalReference finds.
PendingOf(ext) == {k \in ExtId : PendingReference(k) /\ wager[k].ref = ext}

QueryPending(h) ==
    /\ pc[h] = "pending"
    /\ todo' = [todo EXCEPT ![h] = PendingOf(call[h].ext)]
    /\ Goto(h, IF PendingOf(call[h].ext) = {} THEN "commit" ELSE "resolve")
    /\ UNCHANGED storeVars

Restage(a, k, status, code, original) ==
    staged' = [staged EXCEPT ![a][k] =
        [Seen(a, k) EXCEPT !.status = status, !.code = code, !.resolved = original]]

\* The rejection whose event is not written.
RejectPendingSilently(a, k, code) ==
    /\ Restage(a, k, "REJECTED", code, None)
    /\ UNCHANGED <<work, entries, events>>

RejectPending(a, k, code) ==
    /\ Restage(a, k, "REJECTED", code, None)
    /\ Announce(a, "WagerTransactionRejected", k)

Reversed(kind) == IF kind = "ROLLBACK" THEN "ALREADY_ROLLED_BACK" ELSE "ALREADY_REFUNDED"

\* The guard against a second reversal is left out.
ResolveWithoutGuard(a, w, k, original) ==
    /\ Restage(a, k, "PROCESSED", None, original)
    /\ Move(a, w, k, ResolutionDirection(Seen(a, k).kind, Seen(a, original).kind), Seen(a, k).amount)

\* The money moves but the parked row is not updated.
ResolveWithoutUpdate(a, w, k, original) ==
    IF original = None THEN RejectPending(a, k, "REFERENCE_NOT_FOUND")
    ELSE /\ Move(a, w, k, ResolutionDirection(Seen(a, k).kind, Seen(a, original).kind),
                  Seen(a, k).amount)
         /\ UNCHANGED staged

\* resolveSinglePendingRef: reversal k against its original, money moving on wallet w.
\* It runs in a handler (Moment A) and in the periodic worker (Moment B).
ResolveSinglePendingRef(a, w, k, original) ==
    LET p == Seen(a, k)
        dir == ResolutionDirection(p.kind, Seen(a, original).kind)
    IN
    CASE original = None
           -> RejectPending(a, k, "REFERENCE_NOT_FOUND")
      [] Seen(a, original).status \in {"REJECTED", "FAILED"}
           -> RejectPending(a, k, "ORIGINAL_TRANSACTION_FAILED")
      [] HasProcessedReversal(a, original, p.kind)
           -> RejectPending(a, k, Reversed(p.kind))
      [] MovementError(dir, work[a][w].balance, p.amount) = "INSUFFICIENT_FUNDS"
           -> RejectPending(a, k, "INSUFFICIENT_FUNDS_FOR_ROLLBACK")
      [] OTHER
           -> /\ Affordable(dir, work[a][w].balance, p.amount)
              /\ Restage(a, k, "PROCESSED", None, original)
              /\ Move(a, w, k, dir, p.amount)

\* The resolution gets as far as the wallet,
Reaches(a, k, original) ==
    /\ original # None
    /\ Seen(a, original).status \notin {"REJECTED", "FAILED"}
    /\ ~HasProcessedReversal(a, original, Seen(a, k).kind)

ResolutionError(a, w, k, original) ==
    MovementError(ResolutionDirection(Seen(a, k).kind, Seen(a, original).kind),
                  work[a][w].balance, Seen(a, k).amount)

\* whose balance would leave int64,
ResolutionOverflows(a, w, k, original) ==
    Reaches(a, k, original) /\ ResolutionError(a, w, k, original) = "OVERFLOW"

\* or as far as the ledger row, which the CHECK refuses.
ResolutionRefused(a, w, k, original) ==
    /\ Reaches(a, k, original)
    /\ ResolutionError(a, w, k, original) = "nil"
    /\ ~Postable(Seen(a, k).amount)

\* The next row of the FOR UPDATE result: drop it if another session has settled it
\* meanwhile, resolve it otherwise.
ResolveRow(h, k) ==
    /\ todo' = [todo EXCEPT ![h] = @ \ {k}]
    /\ Goto(h, IF todo[h] = {k} THEN "commit" ELSE "resolve")
    /\ IF PendingReference(k)
       THEN /\ Take(h, k)
            /\ ResolveSinglePendingRef(h, call[h].wallet, k, call[h].ext)
            /\ UNCHANGED tables
       ELSE UNCHANGED storeVars

\* A row is waited for until nobody has it locked; if resolving it fails, so does the call.
ResolvePending(h) ==
    /\ pc[h] = "resolve"
    /\ \E k \in todo[h] :
          /\ holder[k] = None
          /\ \/ /\ PendingReference(k)
                /\ \/ ResolutionOverflows(h, call[h].wallet, k, call[h].ext)
                   \/ ResolutionRefused(h, call[h].wallet, k, call[h].ext)
                /\ Fail(h, "error")
             \/ ResolveRow(h, k)

-----------------------------------------------------------------------------
(* The end of the operation.                                               *)

Result(status) ==
    CASE status = "PENDING_REFERENCE" -> "pending"
      [] status = "REJECTED"          -> "rejected"
      [] OTHER                        -> "processed"

\* A parked reversal leaves an answer too.
RememberParked(h) ==
    LET c == call[h] IN
    IF c.key = None THEN idem
    ELSE [idem EXCEPT ![c.key] =
             [hash |-> c.hash, tx |-> c.ext, status |-> staged[h][c.ext].status,
              balance |-> work[h][c.wallet].balance]]

\* The record a replay will answer from.  A parked reversal leaves none.
Remember(h) ==
    LET c == call[h] IN
    IF c.key = None \/ staged[h][c.ext].status = "PENDING_REFERENCE" THEN idem
    ELSE [idem EXCEPT ![c.key] =
             [hash |-> c.hash, tx |-> c.ext, status |-> staged[h][c.ext].status,
              balance |-> work[h][c.wallet].balance]]

\* The idempotency record is written over another request's.
CommitOverwriting(h) ==
    /\ pc[h] = "commit"
    /\ Return(h, Result(staged[h][call[h].ext].status))
    /\ Commit(h, Remember(h))

\* Commit that forgets the idempotency record.
CommitForgetful(h) ==
    /\ pc[h] = "commit"
    /\ Return(h, Result(staged[h][call[h].ext].status))
    /\ Commit(h, idem)

\* The insert of the idempotency record, which conflicts with one committed since the
\* check, and the commit.
CommitWager(h) ==
    LET c == call[h] IN
    /\ pc[h] = "commit"
    /\ \/ /\ Stored(c) # None
          /\ staged[h][c.ext].status # "PENDING_REFERENCE"
          /\ RetryOrGiveUp(h)
       \/ /\ Stored(c) = None \/ staged[h][c.ext].status = "PENDING_REFERENCE"
          /\ Return(h, Result(staged[h][c.ext].status))
          /\ Commit(h, Remember(h))

-----------------------------------------------------------------------------
HandlerStep(h) ==
    \/ CheckWallet(h)
    \/ InsertWallet(h)
    \/ ClaimInbox(h)
    \/ CheckIdempotency(h)
    \/ LockWallet(h)
    \/ Execute(h)
    \/ QueryPending(h)
    \/ ResolvePending(h)
    \/ CommitWager(h)
    \/ Finish(h)

ServiceNext == \E h \in Handler : Receive(h) \/ HandlerStep(h) \/ Abandon(h)

ServiceSpec == ServiceInit /\ [][ServiceNext]_vars
=============================================================================
