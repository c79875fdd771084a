------------------------------ MODULE WagerStore ------------------------------
(***************************************************************************)
(* The PostgreSQL tables of the service and the SQL transactions over      *)
(* them (pkg/repository, migrations/).  An agent is a database session: a  *)
(* request handler or a round of a background worker.  What a session      *)
(* writes stays private until Commit, under READ COMMITTED; row locks and  *)
(* the unique keys of uncommitted rows are resources with one holder.      *)
(*                                                                         *)
(* A transaction row is named by its (provider, external id) pair, which   *)
(* uk_wager_tx_provider_external keeps unique; the OPENING transaction has *)
(* no such pair and is named by its wallet.  Left out: timestamps, UUIDs,  *)
(* rounds, games and the wording of the stored answers.                    *)
(***************************************************************************)
EXTENDS WagerDomain, Sequences, FiniteSets

CONSTANTS
    Wallet,      \* wallets, one per (player, currency)
    ExtId,       \* (provider, external id) pairs
    ProviderOf,  \* the provider of each pair
    Key,         \* idempotency keys
    Hash,        \* payload hashes
    Msg,         \* inbox message ids
    Agent,       \* database sessions
    None         \* SQL NULL, "no row", "nobody"

ASSUME StoreAssumption ==
    /\ None \notin Wallet \cup ExtId \cup Key \cup Hash \cup Msg \cup Agent
    /\ Wallet \cap ExtId = {}
    /\ Wallet \cap Msg = {}
    /\ ExtId \cap Msg = {}

VARIABLES
    wallet,   \* wallets
    wager,    \* wager_transactions
    ledger,   \* wallet_ledger_entries, per wallet in insertion order
    idem,     \* idempotency_records
    inbox,    \* inbox_messages
    outbox,   \* outbox_events ever inserted
    holder,   \* who holds a row lock or an uncommitted unique key
    work,     \* per session: its copy of the wallets it locked
    entries,  \* per session: ledger rows it inserted
    staged,   \* per session: transaction rows it inserted or updated
    events    \* per session: outbox rows it inserted

tables == <<wallet, wager, ledger, idem, inbox, outbox>>
session == <<holder, work, entries, staged, events>>
storeVars == <<tables, session>>

TxKey == ExtId \cup Wallet
Resource == Wallet \cup ExtId \cup Msg

WalletRow == [open : BOOLEAN, balance : Balances, version : Nat]
\* The ledger has a CHECK (amount >= 0), wager_transactions has none.
EntryRow == [tx : TxKey, dir : Directions, amount : Balances, before : Balances,
             after : Balances]
FailureCodes == {"INSUFFICIENT_FUNDS", "REFERENCE_NOT_FOUND", "ORIGINAL_TRANSACTION_FAILED",
                 "ALREADY_REFUNDED", "ALREADY_ROLLED_BACK", "INSUFFICIENT_FUNDS_FOR_ROLLBACK",
                 "OVERFLOW", "TRANSACTION_TIMEOUT"}
WagerRow == [wallet : Wallet, kind : Kinds, amount : Amounts, status : Statuses,
             key : Key \cup {None}, ref : ExtId \cup {None}, resolved : ExtId \cup {None},
             code : FailureCodes \cup {None}, attempts : Nat, deferred : BOOLEAN]
IdemRow == [hash : Hash, tx : ExtId, status : Statuses, balance : Balances]
StatusEventTypes == {"WagerTransactionProcessed", "WagerTransactionRejected",
                     "WagerTransactionPendingReference"}
StatusEvent == [type : StatusEventTypes, tx : TxKey]
BalanceEvent == [type : {"WalletBalanceChanged"}, tx : TxKey, wallet : Wallet,
                 dir : Directions, amount : Balances, before : Balances, after : Balances,
                 version : Nat]
Event == StatusEvent \cup BalanceEvent

\* NULL is not a row of any table.
ASSUME RowAssumption == None \notin WagerRow \cup IdemRow

ClosedWallet == [open |-> FALSE, balance |-> 0, version |-> 0]

StoreInit ==
    /\ wallet = [w \in Wallet |-> ClosedWallet]
    /\ wager = [k \in TxKey |-> None]
    /\ ledger = [w \in Wallet |-> <<>>]
    /\ idem = [k \in Key |-> None]
    /\ inbox = {}
    /\ outbox = {}
    /\ holder = [r \in Resource |-> None]
    /\ work = [a \in Agent |-> [w \in Wallet |-> ClosedWallet]]
    /\ entries = [a \in Agent |-> [w \in Wallet |-> <<>>]]
    /\ staged = [a \in Agent |-> [k \in TxKey |-> None]]
    /\ events = [a \in Agent |-> {}]

-----------------------------------------------------------------------------
(* Reading.                                                                *)

\* A row as session a sees it: its own uncommitted version, else the committed one.
Seen(a, k) == IF staged[a][k] # None THEN staged[a][k] ELSE wager[k]

\* GetByProviderAndExternalID and GetByKey outside the session's own writes.
Exists(k) == k # None /\ wager[k] # None

PendingReference(k) == Exists(k) /\ wager[k].status = "PENDING_REFERENCE"

\* HasProcessedReversal looks for a reversal of the same kind only.
HasProcessedReversal(a, original, kind) ==
    \E k \in ExtId : /\ Seen(a, k) # None
                     /\ Seen(a, k).resolved = original
                     /\ Seen(a, k).kind = kind
                     /\ Seen(a, k).status = "PROCESSED"

-----------------------------------------------------------------------------
(* Writing inside a session.                                               *)

Take(a, r) == holder' = [holder EXCEPT ![r] = a]

\* FOR UPDATE that forgets to wait for the other session.
LockWalletRowNoWait(a, w) ==
    /\ work' = [work EXCEPT ![a][w] = wallet[w]]
    /\ Take(a, w)

\* SELECT ... FOR UPDATE: waits for the row, then reads its committed version; a row
\* the session already holds it reads as it left it.
LockWalletRow(a, w) ==
    /\ holder[w] \in {None, a}
    /\ work' = [work EXCEPT ![a][w] = IF holder[w] = a THEN @ ELSE wallet[w]]
    /\ Take(a, w)

\* UpdateBalance matches the row only at the version before this movement.
VersionMatches(a, w) == wallet[w].version + Len(entries[a][w]) = work[a][w].version

NewEntry(a, w, k, dir, amount) ==
    [tx |-> k, dir |-> dir, amount |-> amount, before |-> work[a][w].balance,
     after |-> Moved(dir, work[a][w].balance, amount)]

BalanceChanged(a, w, k, dir, amount) ==
    [type |-> "WalletBalanceChanged", tx |-> k, wallet |-> w, dir |-> dir, amount |-> amount,
     before |-> work[a][w].balance, after |-> Moved(dir, work[a][w].balance, amount),
     version |-> work[a][w].version + 1]

Notice(type, k) == [type |-> type, tx |-> k]

\* What the CHECK of the ledger accepts.
Postable(amount) == amount >= 0

\* The movement whose WalletBalanceChanged event is not written.
MoveWithoutEvent(a, w, k, dir, amount) ==
    /\ VersionMatches(a, w)
    /\ work' = [work EXCEPT ![a][w].balance = Moved(dir, @, amount), ![a][w].version = @ + 1]
    /\ entries' = [entries EXCEPT ![a][w] = Append(@, NewEntry(a, w, k, dir, amount))]
    /\ events' = [events EXCEPT ![a] = @ \cup {Notice("WagerTransactionProcessed", k)}]

\* The movement that keeps the wallet's version.
MoveSameVersion(a, w, k, dir, amount) ==
    /\ work' = [work EXCEPT ![a][w].balance = Moved(dir, @, amount)]
    /\ entries' = [entries EXCEPT ![a][w] = Append(@, NewEntry(a, w, k, dir, amount))]
    /\ events' = [events EXCEPT ![a] = @ \cup {Notice("WagerTransactionProcessed", k),
                                               BalanceChanged(a, w, k, dir, amount)}]

\* Wallet.Debit or Credit, UpdateBalance, the ledger row and the two outbox rows.
Move(a, w, k, dir, amount) ==
    /\ Postable(amount)
    /\ VersionMatches(a, w)
    /\ work' = [work EXCEPT ![a][w].balance = Moved(dir, @, amount), ![a][w].version = @ + 1]
    /\ entries' = [entries EXCEPT ![a][w] = Append(@, NewEntry(a, w, k, dir, amount))]
    /\ events' = [events EXCEPT ![a] = @ \cup {Notice("WagerTransactionProcessed", k),
                                               BalanceChanged(a, w, k, dir, amount)}]

\* A status change that moves no money, with its outbox row.
Announce(a, type, k) ==
    /\ events' = [events EXCEPT ![a] = @ \cup {Notice(type, k)}]
    /\ UNCHANGED <<work, entries>>

-----------------------------------------------------------------------------
(* Ending a session's transaction.                                         *)

\* Locks and private rows of session a vanish.
EndSession(a) ==
    /\ holder' = [r \in Resource |-> IF holder[r] = a THEN None ELSE holder[r]]
    /\ work' = [work EXCEPT ![a] = [w \in Wallet |-> ClosedWallet]]
    /\ entries' = [entries EXCEPT ![a] = [w \in Wallet |-> <<>>]]
    /\ staged' = [staged EXCEPT ![a] = [k \in TxKey |-> None]]
    /\ events' = [events EXCEPT ![a] = {}]

Rollback(a) == EndSession(a) /\ UNCHANGED tables

\* The rows of session a become visible together; idemRows is the new value of the
\* idempotency table.  A held message id is the uncommitted inbox row.
Commit(a, idemRows) ==
    /\ wallet' = [w \in Wallet |-> IF holder[w] = a THEN work[a][w] ELSE wallet[w]]
    /\ ledger' = [w \in Wallet |-> ledger[w] \o entries[a][w]]
    /\ wager' = [k \in TxKey |-> Seen(a, k)]
    /\ inbox' = inbox \cup {m \in Msg : holder[m] = a}
    /\ outbox' = outbox \cup events[a]
    /\ idem' = idemRows
    /\ EndSession(a)
=============================================================================
