# Verification of the wager service

TLA+ modules, TLC configurations and TLAPS proofs about the Go service in this
repository: wallets, wagers from game providers over HTTP and SQS, a
transactional outbox, and workers that settle what arrived out of order.

## 1. The system

| Part | Code | State it keeps | Operations |
|---|---|---|---|
| Domain | `pkg/domain` | none (values) | status machine of a transaction, debit and credit, direction of a reversal |
| Store | `pkg/repository`, `migrations` | PostgreSQL: wallets, wager_transactions, wallet_ledger_entries, idempotency_records, inbox_messages, outbox_events | one SQL statement each; row locks, unique keys, READ COMMITTED |
| Wager service | `pkg/service/wager_service.go`, `pkg/api/handlers.go` | only what a running handler holds | OpenWallet, ProcessWager (HTTP), ProcessWagerWithInbox (SQS), inline resolution of parked reversals ("Momento A"), queries, ReconcileWallet |
| Pending reference resolver | `pending_ref_resolver.go` | none between rounds | a round every 10 s in one SQL transaction ("Momento B") |
| Outbox relayer | `outbox_relayer.go`, `outbox_repo.go` | leases and retry counts in outbox_events | claim a batch, publish, mark published or failed |
| SQS consumer | `pkg/messaging/sqs_consumer.go` | map of messages in flight, stop flags | poll, one goroutine per message, delete, stop |
| Stale transaction recovery | `stale_tx_recovery_worker.go` | none between rounds | a round every 30 s in one SQL transaction: rows left PENDING become PROCESSED or FAILED |
| Ledger pages | `ledger_repo.go`, `HandleGetLedger` | the cursor the reader holds | one keyset page per request |
| Authentication | `pkg/auth` | cached signing keys, time of the last refresh | look a key up, refresh the cache |
| Money | `pkg/money` | none | parse, format, checked int64 arithmetic |
| Wiring | `cmd`, `pkg/config`, `pkg/metrics`, `module.go` files | - | start and stop order |

How they interact: handlers, resolver rounds, recovery rounds, ledger readers and
relayer statements meet only in PostgreSQL. HTTP requests reach a handler through
the authentication middleware, whose cache all requests of a process share. The
consumer calls ProcessWagerWithInbox and deletes the message on
the strength of its result. A handler's commit inserts outbox rows; the relayer
reads them later. Several replicas of the whole process run against one
database and one queue.

What is hard: two sessions between check and insert (wallet, idempotency key,
inbox, pair); locks taken in different orders by handlers and rounds; a retry of
the whole operation after a unique-key conflict; redelivery after a crash between
commit and answer; a reversal racing its original; leases that run out under a
working relayer; shutdown against goroutines being started; a cache refreshed by
whichever request finds it lacking; pages of a table that grows between them;
arithmetic whose overflow test is itself int64 arithmetic. `PROJECT.json` lists
the hazards at their lines.

What makes each part correct:

- *service*: balances are exactly what the ledger says, each transaction moves
  money at most once, answers and outbox say what is committed, settled rows
  never change, calls end;
- *resolver*: a row is worked on by one session, a kind of reversal is applied
  once to an original among parked ones, the direction is right, nothing stays
  parked;
- *recovery*: a PENDING row ends as its ledger says, and it does end;
- *ledger pages*: no row twice, none left out but those stamped behind the cursor,
  and a reader comes to the end;
- *authentication*: a verdict fits the keys published while the request ran, and
  the cache follows every rotation;
- *money*: a result is exact or an error; what is written reads back;
- *relayer*: published means accepted by SQS, no early giving up, every event is
  settled;
- *consumer*: deleted means applied, a clean stop leaves nothing running, every
  message leaves the queue.

## 2. Modules

| Module | Models | Composes |
|---|---|---|
| `Money` | `pkg/money` over a word width | |
| `WagerDomain` | pure part of `pkg/domain` | extends `Money` |
| `WagerStore` | tables and sessions | extends `WagerDomain` |
| `WagerService` | the three operations and Momento A | extends `WagerStore` |
| `WagerBook` | the abstract book the service promises | |
| `WagerInvariants` | what the tables promise; the mapping to `WagerBook` | extends `WagerService`, instantiates `WagerBook` |
| `PendingRefResolver` | rounds of workers beside the handlers | extends `WagerService` |
| `ResolverInvariants` | what the two guarantee together | extends both of the above |
| `StaleTxRecovery` | recovery rounds beside handlers and resolver | extends `PendingRefResolver` |
| `RecoveryInvariants` | what the three guarantee together | extends both of the above |
| `Reconciliation` | ReconcileWallet beside the handlers | extends `WagerService` |
| `OutboxRelayer` | relayers, leases, SQS as the receiver | |
| `SQSConsumer` | consumer, FIFO queue, dead-letter queue | |
| `KeyCache` | the cache of signing keys | |
| `LedgerPages` | keyset pages of a growing ledger | |
| `QueryApi` | a reader's pages behind authentication | extends the two above |
| `MoneyProofs` | theorems about `Money` | |
| `WagerServiceProofs`, `SettlementProofs` | theorems about `WagerService`: types and books, then settlement and the refinement of `WagerBook` | the second extends the first |
| `RoundProofs` | the same of handlers and resolver rounds together, then with recovery rounds and rows left behind | extends `SettlementProofs`, `RecoveryInvariants` |
| `ReversalProofs` | what handlers and rounds promise together about refunds and rollbacks | extends `RoundProofs` |
| `QueryProofs` | theorems about `KeyCache`, `LedgerPages` and the routes | extends `QueryApi` |
| `OutboxRelayerProofs`, `SQSConsumerProofs` | theorems about the modules they are named after | |
| `MC*` | instances for TLC | |

### Money

An amount is an integer in `MinInt..MaxInt`; every int64 expression of the source,
those inside the overflow tests included, goes through `Wrapped`. `Parse` works
on the structure of a text (sign, numerals, dots, length of the fraction), since
its branches depend on nothing else; `FormattedAmount` yields such a structure.
The tests of `Parse` stand in the order of the source: a foreign digit is an
overflow error and not an invalid amount, because `unicode.IsDigit` lets it pass
and `strconv.ParseInt` does not, and an exponent after the dot is an invalid amount
and not one of too many decimals. An overflow in `WagerService` and
`PendingRefResolver` is the error path of the code: a handler fails and rolls
back, a round skips the item.

### Store

An *agent* is a database session. What it writes stays in `work` (its copies of
locked wallets), `entries`, `staged` and `events` until `Commit` makes all of it
visible in one step; `Rollback` drops it. `holder` is one map for row locks and
for unique keys with an uncommitted row: a second session waits while the
resource is held, then sees either a committed row (conflict) or none. A
transaction row is named by its (provider, external id) pair, the opening
transaction by its wallet, so uniqueness of the pair is not assumed: a step that
would insert a second row of a pair would overwrite the first, which
`SettledForGood` forbids.

### Service

`pc` is where a handler is; each step ends before the next SQL statement another
session can interleave with.

| Action | Code |
|---|---|
| `Receive` | a call arrives, any number of times |
| `CheckWallet`, `InsertWallet` | OpenWallet: unlocked check; inserts and commit |
| `ClaimInbox` | inbox Get and Insert |
| `CheckIdempotency` | the checks made before the lock: other provider, hash, replay |
| `LockWallet` | SELECT ... FOR UPDATE |
| `Execute` | validation, insert of the row (waits, conflicts), parking, rejection or movement, outbox rows |
| `QueryPending`, `ResolvePending` | resolvePendingRefs, one parked row at a time |
| `CommitWager` | idempotency record (conflict: `RetryOrGiveUp`) and commit |
| `Finish`, `Abandon` | the answer is delivered; or the process dies or the context expires, at any step |

The insert of the idempotency record and the commit are one step: nothing
happens between them, and a session that waits for the uncommitted key is one
whose `CommitWager` comes later.

Two steps are coarser than a statement. `CheckIdempotency` reads the transaction of
the key and the stored answer together; a commit between the two would let the test
for another provider miss a row whose answer is then replayed, which no property here
is about. `Execute` looks for the original and inserts the row together; an original
that commits between the two leaves the reversal parked, as one that commits right
after the step does.

### Resolver

`SelectResolvable` and `SelectExpired` are two steps, since each SELECT has its
own snapshot. `StartItem`, `LockItemWallet` and `ApplyItem` split an item at the
wait for its wallet; the order of items is arbitrary. A failed statement aborts
the PostgreSQL transaction although the loop continues, hence the round as a
whole (`AbandonRound`). `Age` and `BackoffElapsed` are the two effects of time on
a parked row.

### Recovery

No operation of the application commits a PENDING row. `LeaveBehind` is the
writer that does, as the repository's tests do with SQL: an earlier release
or an operator; its row may or may not have its ledger row.
`SelectStale` is `FOR UPDATE SKIP LOCKED`, `RecoverItem` looks at the ledger and
ends one row, `CommitRecovery` and `AbandonRecovery` end the round. Neither end
writes an event, as in the code; the outbox properties are stated in runs
without leftover rows. A handler that meets a PENDING row of its own pair, and a
reversal of a PENDING original, are the actions of `WagerService` unchanged.

### The abstract book

`WagerBook` has no sessions, locks, messages or attempts. A wallet is opened
once; a settlement appends movements to journals, and each transaction goes from
absent or waiting to posted, noted or refused, moving money in exactly the step
that posts it. A key is answered once, with a transaction settled in that same
step. The mapping (`Book` in `WagerInvariants`) reads committed tables only: the
journal is the ledger, `Fate` collapses status and kind. `ImplementsBook`
therefore says that what handlers, retries, conflicts, inline resolution and
rounds do over many steps is visible as atomic settlements and nothing else.

### Relayer, consumer, reconciliation

Claims, publishes and marks are separate steps, as the code has no transaction
around them; a publish that reports an error may have been accepted. In the
consumer, a goroutine is identified by message and receive count (the receipt
handle); `CheckReleased` and `DeleteMessage` are two steps because the mutex is
released between them. `ProcessMessage` is one step with the effect the service
modules justify: at most one application per message. The auditor of
`Reconciliation` reads balance and ledger in two steps.

### Key cache and pages

A fetched key map is represented by the number of the published set it was built
from, so "older" has a meaning the code does not record. `Lookup`, `Refresh` and
`LookupAgain` each take the lock; `Fetch` and `Store` happen under the write lock
`Refresh` took, as the HTTP call does. `age` is the part of the clock the code
looks at: under 2 seconds, up to an hour, longer. A failed fetch leaves `age` as
it was. `since` is a history variable.

A ledger row is its stamp and its random id. `Post` commits a row whose stamp may
lie up to `Skew` rows behind, as `created_at` is taken by the replica before the
commit. `GetByWalletID` orders, cuts one row beyond the limit and derives the
cursor as the code does. `QueryApi` lets a page be read only after `getKey` has
accepted the request's token; a refused reader comes back with a new token and
the same cursor.

## 3. Runs

| Run | Instance | Shows |
|---|---|---|
| `service_core` | 2 handlers, 1 wallet, 4 pairs of 2 providers, 3 keys, 3 message ids, 9 calls | books, exactly one posting, complete outbox, stored answers, inbox, durable answers, readable amounts, kept history, refinement of `WagerBook` |
| `system_core` | handlers and resolver rounds in four scenarios: `refund` (1 handler, 2 rounds; a BET over both channels and two REFUNDs of it), `rollback` (2 handlers, 1 round; a WIN that may be spent before its ROLLBACK, a BET that may be rejected before its REFUND), `limit` (1 handler, 1 round; a wallet at the largest balance), `wallets` (1 handler, 2 rounds; a WIN over both channels and two ROLLBACKs of it, sent for another wallet or one of them for its own) | types including non-negative balances that fit, books, outbox, ownership of rows, one resolution per kind, direction, settled rows, refinement of `WagerBook` |
| `system_live` | 1 handler, 1 resolver round, 1 recovery round with fairness in two scenarios: `chain` (reversals of reversals), `leftover` (a BET left PENDING with or without its movement, a request for the same pair and a REFUND of it) | the recovery follows the ledger; parked reversals and PENDING rows settle, calls end |
| `relayer` | 2 relayers, 2 events, failures final after 2 claims | nothing lost, nothing given up early, overlap only after expiry, everything settled |
| `consumer` | 1 consumer with restarts, 2 messages of a group, one malformed, 2 receives | nothing deleted unapplied, quiet stop, every message leaves |
| `queries` | 2 clients, one of them a reader, with fairness in two scenarios: `rotation` (the provider replaces its key by way of a period with both), `growth` (the ledger grows up to 3 rows) | verdicts of their time, no step back of the cache, rotations followed, pages that neither overlap nor skip, reading ends |

Six runs expect a violation, because a document or comment promises more than
the code does (the findings in `PROJECT.json` quote the lines):

| Run | Promise | What the code does |
|---|---|---|
| `double_reversal` | HasProcessedReversal prevents double reversal | only for parked reversals; two REFUNDs that come after the BET are both credited |
| `duplicate_pair` | a pair taken under another key is a 409 | five attempts, then an internal error |
| `resolver_deadlock` | no risk of deadlocks | a round and a handler can wait for each other; PostgreSQL aborts one |
| `consumer_order` | strict order per player | a goroutine per message |
| `stuck_reversal` | no message stays in PENDING_REFERENCE for ever | a reversal with a negative amount is parked; once its original is committed every round fails at the ledger's CHECK, is rolled back whole, and neither counts an attempt nor expires the row |
| `reconciliation` | a consistent view of balance and ledger | two snapshots under READ COMMITTED |

### Bounds

Every bound is a CONSTANT or a set given in an MC module. Calls may be repeated
without limit; what is bounded is the set of different calls. `MCSystem` and
`MCQueryApi` check several scenarios in one run: a scenario bounds which calls
arrive and how many sessions are busy, never what a session does. Attempts are 1
or 2 instead of 5: one retry reaches every state a later one reaches, and the
exhausted outcome is reachable in each run with 2. `MaxAttempts`, `MaxRetries`
and `MaxReceive` are 1 or 2 instead of 10, 5 and 5, and each run reaches the limit.
The code counts the claims of an event without a limit; `CountCap` is where the model
stops counting. It is 3, one more than `MaxRetries`, so that claims lost to crashes
take a count past the limit and not only up to it; `RelayerTypeCorrect` and the other
theorems hold for every cap that is not below the limit.

Amounts of 0, 1 and 2 make both outcomes of the balance test possible; the
scenario `refund` and `stuck_reversal` add a REFUND of -1, which the parser and
wager_transactions accept and the ledger's CHECK refuses. `MaxInt` is 255 instead
of 2^63 - 1: large enough for two whole units with centavos, and the scenario
`limit` opens a wallet with it, so that the REFUND of
more than the BET took overflows, inline and in a round. What the operators of `Money` do
at every width is proved, not checked.

`MaxRow` 3 with page sizes 1 and 2 gives pages that are short, full, and full
with and without a successor. `Skew` 2 lets a row appear behind any cursor, and
the first row has the middle one of three ids so that ties fall on either side.
Three key sets ({k1}, {k1, k2}, {k2}) are the usual overlap rotation, in which a
token's key is known, unknown for now, or withdrawn.

One wallet is enough for lock conflicts between handlers and rounds, since the
wallet is the resource they fight for. The scenario `wallets` of `system_core` has
two, for the reversals that name a transaction of another wallet: a handler settles
them on the wallet it holds, the original's, two rounds on their own, at the same
time. The proofs ask for no number of wallets. Symmetry is over handlers and over
workers only, in runs without liveness.

### Fairness

`system_live` and `stuck_reversal`: strong fairness for the steps of a handler and
of a worker, because PostgreSQL queues waiting sessions and a lock that becomes
free over and over is eventually granted; weak fairness for the abort of a
deadlock victim; strong fairness for the passing of time on a parked row; and
crashes stop at some point. That last part is written
`<>[][Crash => Regular]_vars`: a step that ends a session may coincide with a
regular one, and only steps that are nothing but a crash are excluded in the end.
Without it a process that dies in every round settles nothing. The recovery needs
weak fairness only, since its rows are locked by nobody for ever. Requests need
not arrive and nobody need leave a row behind: `Receive` and `LeaveBehind` have no
fairness. `ParkedReversalSettles` leaves out two kinds of history, a negative
reversal among the parked ones, which takes the companions of its rounds down
with it (`stuck_reversal` shows it), and a reversal whose credit no longer fits
the balance.

`relayer`: weak fairness of the loops and of time, finitely many crashes and lost
marks. It turns deadlock checking off: when every event is settled and due,
nothing is left to do. `consumer`: weak fairness of the queue, the goroutines, the
loop and the restart, and finitely many shutdowns. `queries`: weak fairness of the
clock, of the clients and of whoever holds an answer; strong fairness for getting
the lock (a waiting writer blocks new readers of a Go RWMutex) and for the
provider, which may fail any number of times but not for ever.

## 4. Proofs

`WagerServiceProofs` proves `ServiceSpec => []TypeOK`. Types alone are not
inductive: `CommitWager` reads the row `Execute` staged, `ResolvePending` the
wallet `LockWallet` locked. `Control` says, per value of `pc`, what call the
handler has, which row it has staged and which wallet it holds, and
`TypeInv == TypeOK /\ Control` is inductive.

Its second part proves `BooksBalance` and `PrivateBooksBalance`. Neither is
inductive alone: a commit replaces a wallet by a session's copy, so the copy must
continue the committed ledger; a copy can be trusted only while the lock keeps
others from committing. `BooksInv == TypeInv /\ BooksBalance /\
PrivateBooksBalance` is inductive. The argument per step: `LockWallet` copies
balanced books and no entries; a movement appends an entry that starts where the
chain ended and raises balance and version with it (`BooksAppend`); `Commit`
replaces wallet and ledger together for the wallets held and touches no others;
`InsertWallet` starts a chain (`BooksOpened`).

`SettlementProofs` proves what the service promises about a transaction:
`ExactlyOnePosting`, `OutboxTellsTheTables`, `StoredAnswersHold`, `InboxMeansDone`,
`AnswersAreDurable`, `SettledForGood`, `HistoryIsKept` and `ImplementsBook`. Its
invariant has three parts, kept apart so that the first can be used for any kind of
session.

- `StoreInv` is about tables and sessions. A row a session has written and not
  committed is locked by it and replaces nothing settled (`Owned`); that row and the
  ledger rows of the session fit each other and the committed ledger (`Postings`: a
  row that moved money has one ledger row, here or there, any other row none).
- `Complete` holds besides, as long as nobody but the service writes transactions: no
  committed row is still PENDING (`NoneHalfway`), and the events of a session tell
  exactly what its commit would change (`Told`). It is apart because rows left behind
  by another writer, and the recovery, which writes no events, break it.
  `ExactlyOnePosting` and `OutboxTellsTheTables` speak of committed tables only and
  are not inductive: a commit makes them true or false according to what the
  session did in private.
- `Flow` is about handlers. After `Execute` a handler has staged the row of its
  call, under its key, and nobody has committed one of that pair; since `ClaimInbox`
  it holds its message; and a handler that has answered has answered what the tables
  say (`Durable`).

`StoreStep(a)` lists the six things a step of session `a` may do to the store: nothing,
take locks, settle or put off one row (`Settles`), open a wallet, commit, roll back.
`StoreStepKeeps` shows that each keeps `StoreInv`, whoever takes it, and
`StoreStepCompletes` that it keeps `Complete`. What is left per
action of `WagerService` is one lemma, that the action is `Orderly`: it is a
`StoreStep` and its handler's part of `Flow` holds afterwards. `Kept` is what every
`StoreStep` does to committed rows, answers and messages: it is the step of
`SettledForGood`, and it is why what a handler has answered stays so.

The refinement is read off the same list. `BookStep` shows that a commit is `Settle`
of `WagerBook`, a wallet's creation is `Open`, and everything else leaves the mapped
variables alone. A commit may settle any number of transactions, its own and the
reversals it resolved inline; that each of them goes from absent or waiting to
its fate and is posted in this very step follows from `Owned` and `Postings`.

`RoundProofs` adds the rounds, for any number of workers beside any number of
handlers, over `SystemSpec`: `SystemTypeOK`, `RoundOwnsItsItems`, and again
`BooksBalance`, `ExactlyOnePosting`, `OutboxTellsTheTables`, `SettledForGood` and
`ImplementsBook`. `Round` is what a worker relies on between its steps: the rows it
picked are parked, locked by it and not yet settled by it; an original it saw refused
is refused still; the wallet it is about to move it has locked. Each action of a round
is shown to be a `StoreStep` under `Round`. Without `Round` it would not be one: a
round works on rows it read some steps ago, and `Settles` asks that the row is
unsettled now.

Its last part is about `RecoverySpec`, the same system with any number of recoveries
and a writer that leaves PENDING rows behind, with their movement or without:
`RecoveryFollowsTheLedger`, `BooksBalance`, `AnswersAreDurable`, `SettledForGood` and
`HistoryIsKept`. Two steps are not `StoreStep`s. `LeaveBehind` adds a row, and perhaps
its ledger row, under no lock; it disturbs nobody because nobody holds that pair or
that wallet at that moment. `RecoverItem` ends a row without posting it: a movement it
would owe was posted before, by another writer. `RecoveryRound` says that the row is
still PENDING and locked when that happens; `Posted`, which lets a PENDING row have its
ledger row or not, says that the look at the ledger tells which; `LeftoversMove`
that a row left behind is one of money, for a LOSS would have no ledger row either way.
Selecting, committing and giving up are `StoreStep`s like those of the rounds.

`ReversalProofs` proves `OneResolutionPerKind` and `ReversalOpposesOriginal` over
`SystemSpec`, for any number of wallets and with reversals that name a transaction of
another one. Neither is inductive: both are about committed rows, and what is committed
was decided earlier, in private, by a session that could not see what others had
decided. `ResolutionInv` therefore says the same three things (`Fits`) of the committed
tables and of what every session sees with its own rows on top (`View`): a settled
reversal names a processed original (`Grounded`), settled reversals of one original on
one wallet differ in kind (`Distinct`), and every ledger row has the direction its
transaction calls for (`Directed`). A commit turns a view into the tables, so it is
the other sessions that have to be looked at: their views change under them
(`SessionFits`), and they may have settled a reversal of the same original.
`SessionsExclude` shows that they have not, on the same wallet, from `Guarded`: a
session that settles a reversal of a committed original holds the wallet of that
reversal; a handler that settles one on the original's wallet has inserted the original
itself, and nobody else sees that row yet. Two sessions cannot hold one wallet, and two
cannot have inserted one row. `Resolving` and `Sighted` are what the two callers of
`resolveSinglePendingRef` rely on, that the original is processed: the handler because
it did it in this transaction, the round because it read so once and a processed row
is final. Each action is shown to settle a reversal only so (`Justified`). With the
wallets left out of `Distinct` the invariant is false, and so is the property
(section 5).

`OutboxRelayerProofs` proves the four safety properties of the relayer and
`TypeOK`. The invariant adds `Hand`, what a relayer may rely on: the retry counts
it carries include its own claim and are not ahead of the rows, a publish it saw
accepted is in SQS, and an event in its hands is pending and leased unless its lease
has run out. The last part makes a new claim disjoint from every other relayer's hands, and makes a
late mark the only way to touch a row that is already final.

`SQSConsumerProofs` proves `TypeOK`, `NothingIsLost` and `CleanStopIsQuiet`. The
invariant adds that a goroutine which got as far as deleting has seen its message
applied (`DeletesOnlyApplied`), and that a consumer whose poll loop has ended has
no delivery left to start (`LoopLeavesNothing`); without the second, a clean Stop
could be followed by a goroutine of a batch fetched before it.

`AmountsAlwaysReadBack` joins the two layers: what `TypeOK` says of every amount in
the tables and in the outbox, and `ParseInvertsFormat` of `MoneyProofs`.

`MoneyProofs` proves, for every width, that `Add` and `Sub` are exact or report an
overflow, and exactly when there is one: the tests are made of int64 expressions,
so each proof shows first that these do not wrap where they decide. It proves that
`Parse` reads a text of digits with at most two decimals as its value when the amount
without its sign is at most `MaxInt`, and refuses it otherwise (`ParseIsExact`), and
that `Parse` inverts `FormattedAmount` for every amount but the smallest one. That one
fits and has a text, but `Parse` refuses it: it looks at the amount before the sign.

`QueryProofs` proves `CacheNeverGoesBack` and `VerdictsAreOfTheirTime` over
`CacheSpec`, for any clients, keys and rotations, and that the routes of `QueryApi`
take no other step of the cache (`RoutesUseTheCache`). The invariant says that a fetch
in flight belongs to the holder of the write lock and read a set at least as new
as the cached one, that a request's `since` is never ahead of the cache, and that
a first lookup that found its key did so in a set between the two.

Its second part proves `QueryTypeOK`, `PagesMoveForward` and `PagesSkipOnlyLateRows`
over `ApiSpec`, for any readers, page sizes, clocks and lengths of the ledger. First
it shows that every set of rows can be put in order: the place of a row is the number
of rows before it, and counting makes that a bijection, with no induction. So a page
is a prefix of the rows beyond its cursor (`APageIsAPrefix`). The invariant `PageOK`
then relates a page to all earlier ones, not to the one before it: its rows lie
behind every earlier cursor, its own cursor is its last row, and a row that was
committed when it was read follows that cursor, which is why no page is empty.
Commits in between add rows and disturb none of this; what a late stamp puts behind
a cursor is what `PagesSkipOnlyLateRows` allows to be missed.

The theorems about the service hold for any sets of handlers, wallets, pairs,
keys and calls. Their assumptions are `StoreAssumption` (kinds of values are disjoint) and
`ServiceAssumption` (handlers are sessions, calls are well formed), `RowAssumption`
(`None` is no row); for the rounds, `ResolverAssumption` (workers are sessions and
no handlers; `None` is no status); for the recovery, `RecoveryAssumption` (recoveries
are sessions of their own; what is left behind is a BET or a WIN of an amount a wallet
can hold). TLC evaluates all five on runs. Those about relayer and consumer assume
`RelayerAssumption` and `ConsumerAssumption`: positive limits and batch sizes,
and a `None` that is no consumer. `MoneyAssumption` is that the largest int64 is a
natural number, `KeyCacheAssumption` that the provider publishes a sequence of
non-empty key sets, `LedgerPagesAssumption` that page sizes are positive.

Model-checked only: the auditor, and all liveness, that of the recovery and of the
queries included. Liveness and ENABLED are outside what the prover does; sums over a
ledger (`Reconstructed`) are recursive over data and stay with TLC.

## 5. Noted, not run

Differences between text and code that were met on the way and are modelled as
the code has them, without a run of their own:

- ARCHITECTURE.md lists ledger pages as descending; the query is ascending.
- A 2-second limit is stated for key refreshes; a failed refresh does not count,
  and a key rotated in within 2 seconds of a refresh is refused.
- ARCHITECTURE.md 8.1 describes inline resolution for both channels; it runs for
  messages of SQS only. It also says a stored replay answers a unique-key
  conflict; the code runs the operation again.
- The recovery compares with the clock of the process, not of the database, and
  ends rows without an outbox event.
- A REFUND that arrives after an original which is still PENDING is credited.
- A reversal may name a transaction of another wallet. The handler that processes
  that transaction settles it on the wallet it has locked, the original's
  (`resolvePendingRefs` hands its own wallet down); a round settles it on the wallet of
  the reversal. `ExactlyOnePosting` therefore promises one ledger row, not in which
  wallet, and the guard against a second reversal, which reads without a lock of its
  own, protects only reversals of one wallet: two rounds that hold the wallets of two
  ROLLBACKs of one WIN settle both, and the money is taken from either.
  `OneResolutionPerKind` is therefore stated of reversals of one wallet; without that
  condition the scenario `wallets` refutes it.
- The hash of a payload covers the text of its amount, so "10" and "10.00" under
  one key are a conflict.

## 6. Not modelled

Signatures, claims and roles of tokens; canonical JSON and SHA-256 (payloads are
compared by hash values); currencies; the base64 text of cursors; queries of one
row; wording of answers and logs; metrics; dependency injection, configuration and
the order in which lifecycle hooks stop the components.

## 7. Plan

Instances: two originals and two players under one provider; an expired reversal
whose original exists; order of a wallet's events in the outbox against their
versions; the shutdown order of the lifecycle hooks, once a property of it is found
that the components' own models do not already have.

Theorems: the two properties about reversals over `RecoverySpec`, where a writer that
does not take part in the locking leaves rows and movements behind. `Grounded` is too
strong there: a REFUND is settled although its original is still PENDING (section 5).
