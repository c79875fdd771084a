---------------------------- MODULE SettlementProofs ----------------------------
(***************************************************************************)
(* How a transaction is settled, for every number of handlers, wallets,    *)
(* transactions and calls: once, with one ledger row, with its events in   *)
(* the outbox and its answer under its key, and for good.                  *)
(*                                                                         *)
(* StoreInv is what the tables and the sessions look like whoever works on *)
(* them; StoreStep lists what a step may do to them, and StoreStepKeeps    *)
(* shows that StoreInv survives all of it.  Flow is what a handler may     *)
(* rely on at each of its steps.  One lemma per action shows that the      *)
(* action is Orderly: that it is a StoreStep and keeps its own part of     *)
(* Flow.  The last part reads StoreStep as the steps of WagerBook.         *)
(***************************************************************************)
EXTENDS WagerServiceProofs

\* The rows that have a ledger row of their own.
Moves(row) == row.status = "PROCESSED" /\ row.kind # "LOSS"

\* new is old, moved along validTransitions.
Follows(old, new) ==
    /\ new.status = old.status \/ new.status \in validTransitions[old.status]
    /\ Terminal(old.status) => new = old
    /\ [new EXCEPT !.status = old.status, !.code = old.code, !.resolved = old.resolved,
                   !.attempts = old.attempts, !.deferred = old.deferred] = old

\* In the ledgers L transaction k has no row, or one, of this amount, and no other.
NoRow(L, k) == \A w \in Wallet : \A i \in 1..Len(L[w]) : L[w][i].tx # k

OneRow(L, k, amount) ==
    \E w \in Wallet : \E i \in 1..Len(L[w]) :
        /\ L[w][i].tx = k /\ L[w][i].amount = amount
        /\ \A v \in Wallet : \A j \in 1..Len(L[v]) : L[v][j].tx = k => v = w /\ j = i

\* A row a session has written and not committed is locked by it, and what it replaces is
\* not settled.
Owned ==
    \A a \in Agent, k \in TxKey : staged[a][k] # None =>
        /\ k \in ExtId /\ holder[k] = a
        /\ staged[a][k].status # "PENDING"
        /\ wager[k] # None => ~Terminal(wager[k].status) /\ Follows(wager[k], staged[a][k])

\* The transaction that opens a wallet comes with the wallet.
OpenedFirst == \A w \in Wallet : wager[w] # None => wallet[w].open

\* A transaction is about a wallet that exists.
OnOpenWallets ==
    \A k \in TxKey :
        /\ wager[k] # None => wallet[wager[k].wallet].open
        /\ \A a \in Agent : staged[a][k] # None => wallet[staged[a][k].wallet].open

Parked(row) == row # None /\ row.status = "PENDING_REFERENCE"

\* Only refunds and rollbacks wait for another transaction.
ParkedAreReversals ==
    \A k \in TxKey :
        /\ Parked(wager[k]) => k \in ExtId /\ RequiresReference(wager[k].kind)
        /\ \A a \in Agent : Parked(staged[a][k]) => RequiresReference(staged[a][k].kind)

\* The service inserts a row and settles or parks it in one database transaction, so nobody
\* ever reads one that is neither, unless another writer leaves it behind.
NoneHalfway == \A k \in TxKey : wager[k] # None => wager[k].status # "PENDING"

\* What the ledger says of a committed row.  One still PENDING may have its row or not: only
\* another writer leaves those behind (StaleTxRecovery).
Posted(k) ==
    CASE wager[k] = None -> NoRow(ledger, k)
      [] wager[k] # None /\ wager[k].status = "PENDING" ->
            NoRow(ledger, k) \/ OneRow(ledger, k, wager[k].amount)
      [] wager[k] # None /\ Moves(wager[k]) -> OneRow(ledger, k, wager[k].amount)
      [] OTHER -> NoRow(ledger, k)

\* What a session's ledger rows and the ledger say of a row it is about to commit.
PrivatePosted(a, k) ==
    CASE staged[a][k] = None -> NoRow(entries[a], k)
      [] staged[a][k] # None /\ Moves(staged[a][k]) ->
            \/ OneRow(entries[a], k, staged[a][k].amount) /\ NoRow(ledger, k)
            \/ NoRow(entries[a], k) /\ OneRow(ledger, k, staged[a][k].amount)
      [] OTHER -> NoRow(entries[a], k) /\ NoRow(ledger, k)

Postings == \A k \in TxKey : Posted(k) /\ \A a \in Agent : PrivatePosted(a, k)

\* The event of the i-th row of wallet w, and the three things an event can be about.
RowEvent(w, s, i) ==
    [type |-> "WalletBalanceChanged", tx |-> s[i].tx, wallet |-> w, dir |-> s[i].dir,
     amount |-> s[i].amount, before |-> s[i].before, after |-> s[i].after,
     version |-> IF s[1].tx = w THEN i ELSE i + 1]

AboutRow(e, L, M) ==
    \E w \in Wallet : \E i \in (Len(L[w]) + 1)..Len(M[w]) : e = RowEvent(w, M[w], i)
AboutStatus(e, T) ==
    \E k \in TxKey : /\ T[k] # None
                     /\ \/ T[k].status = "PROCESSED" /\ e = Notice("WagerTransactionProcessed", k)
                        \/ T[k].status = "REJECTED" /\ e = Notice("WagerTransactionRejected", k)
AboutParking(e, T) ==
    \E k \in TxKey : /\ T[k] # None /\ RequiresReference(T[k].kind)
                     /\ e = Notice("WagerTransactionPendingReference", k)

\* The events E tell what leads from the ledgers L to the ledgers M and to the rows T:
\* something about each new ledger row and each settled row, and nothing else.
Tells(E, L, M, T) ==
    /\ \A e \in E : AboutRow(e, L, M) \/ AboutStatus(e, T) \/ AboutParking(e, T)
    /\ \A w \in Wallet : \A i \in (Len(L[w]) + 1)..Len(M[w]) : RowEvent(w, M[w], i) \in E
    /\ \A k \in TxKey : T[k] # None =>
          /\ T[k].status = "PROCESSED" => Notice("WagerTransactionProcessed", k) \in E
          /\ T[k].status = "REJECTED" => Notice("WagerTransactionRejected", k) \in E

\* The outbox tells the tables; the events of a session tell what it would commit.
NoLedger == [w \in Wallet |-> <<>>]
Extended(a) == [w \in Wallet |-> ledger[w] \o entries[a][w]]

Told ==
    /\ Tells(outbox, NoLedger, ledger, wager)
    /\ \A k \in TxKey : Parked(wager[k]) => Notice("WagerTransactionPendingReference", k) \in outbox
    /\ \A a \in Agent :
          /\ Tells(events[a], ledger, Extended(a), staged[a])
          /\ \A k \in TxKey : Parked(staged[a][k]) =>
                Notice("WagerTransactionPendingReference", k) \in events[a] \cup outbox

\* The invariant of the store.
RowsInv == Owned /\ OpenedFirst /\ OnOpenWallets /\ ParkedAreReversals
StoreInv == StoreBooks /\ RowsInv /\ Postings

\* What holds besides, as long as nobody but the service writes transactions.
Complete == NoneHalfway /\ Told

\* The steps of a handler that has claimed its message.
AfterInbox == {"idem", "lock"} \cup AfterLock

\* AnswersAreDurable for one handler; a replay over HTTP is one of a stored answer.
Durable(h) ==
    LET c == call[h] IN
    CASE answer[h] = "processed" \/ answer[h] = "rejected"
           -> /\ wager[c.ext] # None
              /\ wager[c.ext].status = IF answer[h] = "processed" THEN "PROCESSED" ELSE "REJECTED"
              /\ c.key # None => idem[c.key] # None /\ idem[c.key].tx = c.ext
      [] answer[h] = "pending" -> wager[c.ext] # None
      [] answer[h] = "replay"
           -> IF c.channel = "SQS" THEN c.msg \in inbox
              ELSE c.key # None /\ idem[c.key] # None /\ idem[c.key].hash = c.hash
      [] answer[h] = "opened" -> wallet[c.wallet].open
      [] OTHER -> TRUE

\* What a handler relies on: once executed, its row is written, under the key of its call,
\* and nobody else has committed one; since it claimed its message it holds it; and what it
\* has answered is so.
HandlerFlow(h) ==
    LET c == call[h] IN
    /\ pc[h] \in AfterExecute =>
          /\ wager[c.ext] = None
          /\ staged[h][c.ext] # None
          /\ staged[h][c.ext].key = c.key
          /\ staged[h][c.ext].status \in {"PROCESSED", "REJECTED", "PENDING_REFERENCE"}
    /\ pc[h] \in AfterInbox /\ c.channel = "SQS" => holder[c.msg] = h
    /\ pc[h] = "done" => Durable(h)

\* A message is held by the handler that has claimed it, for as long as its session lasts.
MessageLocks ==
    \A a \in Agent, m \in Msg :
        holder[m] = a => a \in Handler /\ pc[a] \in AfterInbox /\ call[a].msg = m

Flow == MessageLocks /\ \A h \in Handler : HandlerFlow(h)

\* The inductive invariant of the service.
ServiceInv == TypeInv /\ StoreInv /\ StoredAnswersHold /\ InboxMeansDone /\ Flow

-----------------------------------------------------------------------------
(* Rows of a transaction in the ledger.                                    *)

Ledgers == [Wallet -> Seq(EntryRow)]

\* Sequences: a concatenation, an append and the positions in them.
LEMMA ConcatAt ==
    ASSUME NEW s \in Seq(EntryRow), NEW t \in Seq(EntryRow), NEW m, m = s \o t
    PROVE  /\ m \in Seq(EntryRow)
           /\ Len(m) = Len(s) + Len(t) /\ Len(s) \in Nat /\ Len(t) \in Nat
           /\ \A i \in 1..Len(s) : m[i] = s[i]
           /\ \A i \in 1..Len(t) : m[Len(s) + i] = t[i]
           /\ \A i \in (Len(s) + 1)..Len(m) :
                 i - Len(s) \in 1..Len(t) /\ m[i] = t[i - Len(s)]
OBVIOUS

LEMMA AppendAt ==
    ASSUME NEW s \in Seq(EntryRow), NEW e \in EntryRow
    PROVE  /\ Append(s, e) \in Seq(EntryRow)
           /\ Len(Append(s, e)) = Len(s) + 1 /\ Len(s) \in Nat
           /\ \A i \in 1..Len(s) : Append(s, e)[i] = s[i]
           /\ Append(s, e)[Len(s) + 1] = e
OBVIOUS

LEMMA Positions ==
    ASSUME NEW m \in Nat, NEW n \in Nat
    PROVE  /\ \A i \in 1..m : i \in 1..(m + n)
           /\ \A i \in 1..n : m + i \in 1..(m + n)
           /\ \A i \in 1..(m + n) : i \in 1..m \/ i \in (m + 1)..(m + n)
OBVIOUS

\* The rows of a transaction in ledgers that grow by those of a session, or by one row.
LEMMA ConcatRows ==
    ASSUME NEW L \in Ledgers, NEW E \in Ledgers, NEW M,
           \A w \in Wallet : M[w] = L[w] \o E[w], NEW k, NEW amount
    PROVE  /\ NoRow(L, k) /\ NoRow(E, k) => NoRow(M, k)
           /\ OneRow(L, k, amount) /\ NoRow(E, k) => OneRow(M, k, amount)
           /\ NoRow(L, k) /\ OneRow(E, k, amount) => OneRow(M, k, amount)
<1>1. ASSUME NEW w \in Wallet
      PROVE  /\ Len(M[w]) = Len(L[w]) + Len(E[w]) /\ Len(L[w]) \in Nat /\ Len(E[w]) \in Nat
             /\ \A i \in 1..Len(L[w]) : M[w][i] = L[w][i]
             /\ \A i \in 1..Len(E[w]) : M[w][Len(L[w]) + i] = E[w][i]
             /\ \A i \in (Len(L[w]) + 1)..Len(M[w]) :
                   i - Len(L[w]) \in 1..Len(E[w]) /\ M[w][i] = E[w][i - Len(L[w])]
  <2> DEFINE s == L[w]
             t == E[w]
             m == M[w]
  <2>1. s \in Seq(EntryRow) /\ t \in Seq(EntryRow) /\ m = s \o t
    BY DEF Ledgers
  <2> HIDE DEF s, t, m
  <2>2. /\ Len(m) = Len(s) + Len(t) /\ Len(s) \in Nat /\ Len(t) \in Nat
        /\ \A i \in 1..Len(s) : m[i] = s[i]
        /\ \A i \in 1..Len(t) : m[Len(s) + i] = t[i]
        /\ \A i \in (Len(s) + 1)..Len(m) :
              i - Len(s) \in 1..Len(t) /\ m[i] = t[i - Len(s)]
    BY <2>1, ConcatAt
  <2> QED
    BY <2>2 DEF s, t, m
<1>2. ASSUME NEW w \in Wallet, NEW i \in 1..Len(M[w])
      PROVE  i \in 1..Len(L[w]) \/ i \in (Len(L[w]) + 1)..Len(M[w])
  BY <1>1
<1>3. ASSUME NoRow(E, k), NEW w \in Wallet, NEW i \in 1..Len(M[w]), M[w][i].tx = k
      PROVE  i \in 1..Len(L[w]) /\ L[w][i].tx = k
  BY <1>1, <1>2, <1>3 DEF NoRow
<1>4. ASSUME NoRow(L, k), NEW w \in Wallet, NEW i \in 1..Len(M[w]), M[w][i].tx = k
      PROVE  i - Len(L[w]) \in 1..Len(E[w]) /\ E[w][i - Len(L[w])].tx = k
  BY <1>1, <1>2, <1>4 DEF NoRow
<1>5. NoRow(L, k) /\ NoRow(E, k) => NoRow(M, k)
  BY <1>3 DEF NoRow
<1>6. ASSUME OneRow(L, k, amount), NoRow(E, k) PROVE OneRow(M, k, amount)
  <2>0. PICK w \in Wallet : \E i \in 1..Len(L[w]) :
            /\ L[w][i].tx = k /\ L[w][i].amount = amount
            /\ \A v \in Wallet : \A j \in 1..Len(L[v]) : L[v][j].tx = k => v = w /\ j = i
    BY <1>6 DEF OneRow
  <2>1. PICK i \in 1..Len(L[w]) :
            /\ L[w][i].tx = k /\ L[w][i].amount = amount
            /\ \A v \in Wallet : \A j \in 1..Len(L[v]) : L[v][j].tx = k => v = w /\ j = i
    BY <2>0
  <2>2. M[w][i] = L[w][i]
    BY <1>1
  <2>4. i \in 1..Len(M[w])
    <3>1. Len(M[w]) = Len(L[w]) + Len(E[w]) /\ Len(L[w]) \in Nat /\ Len(E[w]) \in Nat
      BY <1>1
    <3> QED
      BY <3>1, Positions
  <2>3. \A v \in Wallet : \A j \in 1..Len(M[v]) : M[v][j].tx = k => v = w /\ j = i
    BY <1>3, <1>6, <2>1
  <2> QED
    BY <2>1, <2>2, <2>3, <2>4 DEF OneRow
<1>7. ASSUME NoRow(L, k), OneRow(E, k, amount) PROVE OneRow(M, k, amount)
  <2>0. PICK w \in Wallet : \E i \in 1..Len(E[w]) :
            /\ E[w][i].tx = k /\ E[w][i].amount = amount
            /\ \A v \in Wallet : \A j \in 1..Len(E[v]) : E[v][j].tx = k => v = w /\ j = i
    BY <1>7 DEF OneRow
  <2>1. PICK i \in 1..Len(E[w]) :
            /\ E[w][i].tx = k /\ E[w][i].amount = amount
            /\ \A v \in Wallet : \A j \in 1..Len(E[v]) : E[v][j].tx = k => v = w /\ j = i
    BY <2>0
  <2>2. M[w][Len(L[w]) + i] = E[w][i]
    BY <1>1
  <2>4. Len(L[w]) + i \in 1..Len(M[w])
    <3>1. Len(M[w]) = Len(L[w]) + Len(E[w]) /\ Len(L[w]) \in Nat /\ Len(E[w]) \in Nat
      BY <1>1
    <3> QED
      BY <3>1, Positions
  <2>3. ASSUME NEW v \in Wallet, NEW j \in 1..Len(M[v]), M[v][j].tx = k
        PROVE  v = w /\ j = Len(L[w]) + i
    <3>1. v = w /\ j - Len(L[v]) = i
      BY <1>4, <1>7, <2>1, <2>3
    <3>2. Len(L[w]) \in Nat
      BY <1>1
    <3> QED
      BY <3>1, <3>2
  <2> QED
    BY <2>1, <2>2, <2>3, <2>4 DEF OneRow
<1> QED
  BY <1>5, <1>6, <1>7

LEMMA AppendRows ==
    ASSUME NEW L \in Ledgers, NEW w \in Wallet, NEW e \in EntryRow, NEW M,
           \A v \in Wallet : M[v] = IF v = w THEN Append(L[w], e) ELSE L[v], NEW k, NEW amount
    PROVE  /\ e.tx # k /\ NoRow(L, k) => NoRow(M, k)
           /\ e.tx # k /\ OneRow(L, k, amount) => OneRow(M, k, amount)
           /\ e.tx = k /\ NoRow(L, k) => OneRow(M, k, e.amount)
<1>1. /\ Len(M[w]) = Len(L[w]) + 1 /\ Len(L[w]) \in Nat /\ M[w][Len(L[w]) + 1] = e
      /\ \A i \in 1..Len(L[w]) : M[w][i] = L[w][i]
      /\ \A v \in Wallet : v # w => M[v] = L[v]
  <2>1. L[w] \in Seq(EntryRow) /\ M[w] = Append(L[w], e)
    BY DEF Ledgers
  <2> QED
    BY <2>1, AppendAt
<1>2. ASSUME NEW v \in Wallet, NEW i \in 1..Len(M[v]), M[v][i].tx = k
      PROVE  \/ i \in 1..Len(L[v]) /\ L[v][i].tx = k
             \/ v = w /\ i = Len(L[w]) + 1 /\ e.tx = k
  BY <1>1, <1>2
<1>3. e.tx # k /\ NoRow(L, k) => NoRow(M, k)
  BY <1>2 DEF NoRow
<1>4. ASSUME e.tx # k, OneRow(L, k, amount) PROVE OneRow(M, k, amount)
  <2>0. PICK u \in Wallet : \E i \in 1..Len(L[u]) :
            /\ L[u][i].tx = k /\ L[u][i].amount = amount
            /\ \A v \in Wallet : \A j \in 1..Len(L[v]) : L[v][j].tx = k => v = u /\ j = i
    BY <1>4 DEF OneRow
  <2>1. PICK i \in 1..Len(L[u]) :
            /\ L[u][i].tx = k /\ L[u][i].amount = amount
            /\ \A v \in Wallet : \A j \in 1..Len(L[v]) : L[v][j].tx = k => v = u /\ j = i
    BY <2>0
  <2>2. i \in 1..Len(M[u]) /\ M[u][i] = L[u][i]
    BY <1>1
  <2>3. \A v \in Wallet : \A j \in 1..Len(M[v]) : M[v][j].tx = k => v = u /\ j = i
    BY <1>2, <1>4, <2>1
  <2> QED
    BY <2>1, <2>2, <2>3 DEF OneRow
<1>5. ASSUME e.tx = k, NoRow(L, k) PROVE OneRow(M, k, e.amount)
  <2>1. Len(L[w]) + 1 \in 1..Len(M[w]) /\ M[w][Len(L[w]) + 1] = e
    BY <1>1
  <2>2. \A v \in Wallet : \A j \in 1..Len(M[v]) : M[v][j].tx = k => v = w /\ j = Len(L[w]) + 1
    BY <1>2, <1>5 DEF NoRow
  <2> QED
    BY <1>5, <2>1, <2>2 DEF OneRow
<1> QED
  BY <1>3, <1>4, <1>5

LEMMA NoRowsAtAll ==
    ASSUME NEW L, \A w \in Wallet : L[w] = <<>>, NEW k
    PROVE  NoRow(L, k)
BY DEF NoRow

-----------------------------------------------------------------------------
(* What a step of session a may do to the store.                           *)

\* It takes locks (and reads what they protect), without writing anything.
Grabs(a) ==
    /\ UNCHANGED <<tables, entries, staged, events>>
    /\ \A r \in Resource : holder'[r] = holder[r] \/ (holder[r] = None /\ holder'[r] = a)

NoticeFor(status) ==
    CASE status = "PROCESSED" -> "WagerTransactionProcessed"
      [] status = "REJECTED"  -> "WagerTransactionRejected"
      [] OTHER                -> "WagerTransactionPendingReference"

\* It settles row k: inserts it or resolves it, posting it or announcing why not, or only
\* puts off a parked one.
MovesFor(a, k, row) ==
    \E w \in Wallet : \E dir \in Directions :
        /\ holder[w] = a
        /\ Affordable(dir, work[a][w].balance, row.amount)
        /\ Move(a, w, k, dir, row.amount)

Settles(a, k, row) ==
    /\ UNCHANGED tables
    /\ staged[a][k] = None
    /\ holder[k] \in {None, a}
    /\ Take(a, k)
    /\ staged' = [staged EXCEPT ![a][k] = row]
    /\ row.status # "PENDING"
    /\ Parked(row) => RequiresReference(row.kind)
    /\ wallet[row.wallet].open
    /\ wager[k] # None => Parked(wager[k]) /\ Follows(wager[k], row)
    /\ \/ Moves(row) /\ MovesFor(a, k, row)
       \/ /\ ~Moves(row)
          /\ row.status \in {"PROCESSED", "REJECTED", "PENDING_REFERENCE"}
          /\ Announce(a, NoticeFor(row.status), k)
       \/ /\ Parked(row) /\ Parked(wager[k])
          /\ UNCHANGED <<work, entries, events>>

\* It opens a wallet, in one database transaction of its own.
Opens(c) ==
    /\ c.kind = "OPENING" /\ ~wallet[c.wallet].open
    /\ wallet' = [wallet EXCEPT ![c.wallet] =
                     [open |-> TRUE, balance |-> c.amount, version |-> 1]]
    /\ IF c.amount > 0
       THEN /\ wager' = [wager EXCEPT ![c.ext] = OpeningRow(c)]
            /\ ledger' = [ledger EXCEPT ![c.wallet] = Append(@, OpeningEntry(c))]
            /\ outbox' = outbox \cup OpeningEvents(c)
       ELSE UNCHANGED <<wager, ledger, outbox>>
    /\ UNCHANGED <<idem, inbox, session>>

\* The answers a commit stores: for keys that had none, each about the row it commits.
Remembers(a, rows) ==
    \A key \in Key : rows[key] # idem[key] =>
        LET k == rows[key].tx
        IN  /\ idem[key] = None /\ rows[key] # None
            /\ k \in TxKey /\ wager[k] = None /\ staged[a][k] # None
            /\ staged[a][k].key = key
            /\ staged[a][k].status = rows[key].status
            /\ Terminal(rows[key].status)

StoreStep(a) ==
    \/ UNCHANGED storeVars
    \/ Rollback(a)
    \/ \E rows \in [Key -> IdemRow \cup {None}] : Commit(a, rows) /\ Remembers(a, rows)
    \/ Grabs(a)
    \/ \E k \in ExtId : \E row \in WagerRow : Settles(a, k, row)
    \/ \E c \in Calls : Opens(c)

-----------------------------------------------------------------------------
(* Rows and who may change them.                                           *)

\* The sessions a step of session a does not concern.
Apart(a) ==
    \A b \in Agent \ {a} :
        /\ staged'[b] = staged[b] /\ entries'[b] = entries[b] /\ events'[b] = events[b]
        /\ \A r \in Resource : holder'[r] = b <=> holder[r] = b

LEMMA EndApart ==
    ASSUME StoreTypeOK, NEW a \in Agent, EndSession(a)
    PROVE  /\ Apart(a)
           /\ \A k \in TxKey : staged'[a][k] = None
           /\ \A w \in Wallet : entries'[a][w] = <<>>
           /\ events'[a] = {}
           /\ \A r \in Resource : holder'[r] # a
BY StoreAssumption DEF StoreTypeOK, EndSession, Apart

LEMMA GrabsApart ==
    ASSUME StoreTypeOK, NEW a \in Agent, Grabs(a)
    PROVE  Apart(a) /\ \A r \in Resource : holder[r] = a => holder'[r] = a
BY StoreAssumption DEF StoreTypeOK, Grabs, Apart

LEMMA StagedRow ==
    ASSUME StoreTypeOK, NEW a \in Agent, NEW k \in TxKey, NEW row,
           staged' = [staged EXCEPT ![a][k] = row]
    PROVE  /\ \A b \in Agent \ {a} : staged'[b] = staged[b]
           /\ staged'[a][k] = row
           /\ \A j \in TxKey \ {k} : staged'[a][j] = staged[a][j]
<1>1. staged' = [staged EXCEPT ![a] = [staged[a] EXCEPT ![k] = row]]
  OBVIOUS
<1> QED
  BY <1>1 DEF StoreTypeOK

LEMMA SettlesApart ==
    ASSUME StoreTypeOK, NEW a \in Agent, NEW k \in ExtId, NEW row \in WagerRow, Settles(a, k, row)
    PROVE  /\ Apart(a)
           /\ staged'[a][k] = row /\ row # None
           /\ \A j \in TxKey \ {k} : staged'[a][j] = staged[a][j]
           /\ holder'[k] = a
           /\ \A r \in Resource : holder[r] = a => holder'[r] = a
<1>1. k \in TxKey /\ k \in Resource /\ row # None
  BY Resources, RowAssumption DEF TxKey
<1>2. staged' = [staged EXCEPT ![a][k] = row] /\ holder[k] \in {None, a} /\ Take(a, k)
  BY DEF Settles
<1>3. /\ \A b \in Agent \ {a} : staged'[b] = staged[b]
      /\ staged'[a][k] = row
      /\ \A j \in TxKey \ {k} : staged'[a][j] = staged[a][j]
  BY <1>1, <1>2, StagedRow
<1>4. \A b \in Agent \ {a} : entries'[b] = entries[b] /\ events'[b] = events[b]
  BY DEF Settles, MovesFor, Move, Announce, StoreTypeOK
<1>5. /\ holder'[k] = a
      /\ \A r \in Resource : holder[r] = a => holder'[r] = a
      /\ \A b \in Agent \ {a} : \A r \in Resource : holder'[r] = b <=> holder[r] = b
  BY <1>1, <1>2, StoreAssumption DEF Take, StoreTypeOK
<1> QED
  BY <1>1, <1>3, <1>4, <1>5 DEF Apart

\* What the two versions of a row have in common.
LEMMA FollowsKeeps ==
    ASSUME NEW old \in WagerRow, NEW new \in WagerRow, Follows(old, new)
    PROVE  /\ new.kind = old.kind /\ new.amount = old.amount /\ new.wallet = old.wallet
           /\ new.key = old.key /\ new.ref = old.ref
BY DEF Follows, WagerRow

LEMMA FollowsItself ==
    ASSUME NEW old \in WagerRow
    PROVE  Follows(old, old)
BY DEF Follows, WagerRow

LEMMA OpensWallet ==
    ASSUME StoreTypeOK, OpenedFirst, NEW c \in Calls, Opens(c)
    PROVE  /\ c.wallet \in Wallet /\ c.ext = c.wallet /\ c.wallet \in TxKey
           /\ c.amount \in Balances
           /\ wager[c.wallet] = None
           /\ wallet'[c.wallet].open
           /\ \A w \in Wallet \ {c.wallet} : wallet'[w] = wallet[w]
           /\ \A k \in TxKey : \/ wager'[k] = wager[k]
                               \/ k = c.wallet /\ wager'[k] = OpeningRow(c)
BY CallFields DEF Opens, OpenedFirst, StoreTypeOK, TxKey

\* The only ways a transaction row changes.
LEMMA RowChanges ==
    ASSUME StoreTypeOK, OpenedFirst, NEW a \in Agent, StoreStep(a), NEW k \in TxKey
    PROVE  \/ wager'[k] = wager[k]
           \/ staged[a][k] # None /\ wager'[k] = staged[a][k]
           \/ \E c \in Calls : k = c.wallet /\ wager[k] = None /\ wager'[k] = OpeningRow(c)
<1>1. CASE \/ UNCHANGED storeVars \/ Rollback(a) \/ Grabs(a)
           \/ \E j \in ExtId : \E row \in WagerRow : Settles(a, j, row)
  BY <1>1 DEF storeVars, tables, Rollback, Grabs, Settles
<1>2. ASSUME NEW rows, Commit(a, rows)
      PROVE  \/ wager'[k] = wager[k]
             \/ staged[a][k] # None /\ wager'[k] = staged[a][k]
  BY <1>2 DEF Commit, Seen
<1>3. ASSUME NEW c \in Calls, Opens(c)
      PROVE  wager'[k] = wager[k] \/ (k = c.wallet /\ wager[k] = None /\ wager'[k] = OpeningRow(c))
  BY <1>3, OpensWallet
<1> QED
  BY <1>1, <1>2, <1>3 DEF StoreStep

\* What the tables never lose.
Kept ==
    /\ \A k \in TxKey : wager[k] # None => wager'[k] # None /\ Follows(wager[k], wager'[k])
    /\ \A w \in Wallet : wallet[w].open => wallet'[w].open
    /\ \A key \in Key : idem[key] # None => idem'[key] = idem[key]
    /\ inbox \subseteq inbox'

LEMMA StepKeeps ==
    ASSUME StoreBooks, RowsInv, NEW a \in Agent, StoreStep(a)
    PROVE  Kept
<1>1. StoreTypeOK /\ Owned /\ OpenedFirst
  BY DEF StoreBooks, RowsInv
<1>2. ASSUME NEW k \in TxKey, wager[k] # None
      PROVE  wager'[k] # None /\ Follows(wager[k], wager'[k])
  <2>1. wager[k] \in WagerRow
    BY <1>1, <1>2 DEF StoreTypeOK
  <2>2. wager'[k] = wager[k] \/ (staged[a][k] # None /\ wager'[k] = staged[a][k])
    BY <1>1, <1>2, RowChanges
  <2> QED
    BY <1>1, <1>2, <2>1, <2>2, FollowsItself DEF Owned
<1>3. ASSUME NEW w \in Wallet, wallet[w].open PROVE wallet'[w].open
  <2>1. holder[w] = a => work[a][w].open
    BY PrivatePart DEF StoreBooks, PrivateBooks
  <2>2. ASSUME NEW rows, Commit(a, rows) PROVE wallet'[w].open
    BY <1>3, <2>1, <2>2 DEF Commit
  <2>3. ASSUME NEW c \in Calls, Opens(c) PROVE wallet'[w].open
    BY <1>1, <1>3, <2>3, OpensWallet
  <2>4. CASE UNCHANGED wallet
    BY <1>3, <2>4
  <2> QED
    BY <2>2, <2>3, <2>4 DEF StoreStep, storeVars, tables, Rollback, Grabs, Settles
<1>4. /\ \A key \in Key : idem[key] # None => idem'[key] = idem[key]
      /\ inbox \subseteq inbox'
  <2>1. ASSUME NEW rows, Commit(a, rows), Remembers(a, rows)
        PROVE  /\ \A key \in Key : idem[key] # None => idem'[key] = idem[key]
               /\ inbox \subseteq inbox'
    BY <2>1 DEF Commit, Remembers
  <2>2. CASE UNCHANGED <<idem, inbox>>
    BY <2>2
  <2> QED
    BY <2>1, <2>2 DEF StoreStep, storeVars, tables, Rollback, Grabs, Settles, Opens
<1> QED
  BY <1>2, <1>3, <1>4 DEF Kept

LEMMA OwnedKept ==
    ASSUME StoreTypeOK, RowsInv, NEW a \in Agent, StoreStep(a)
    PROVE  Owned'
<1>1. Owned /\ OpenedFirst
  BY DEF RowsInv
<1> SUFFICES ASSUME NEW b \in Agent, NEW k \in TxKey, staged'[b][k] # None
             PROVE  /\ k \in ExtId /\ holder'[k] = b
                    /\ staged'[b][k].status # "PENDING"
                    /\ wager'[k] # None =>
                          ~Terminal(wager'[k].status) /\ Follows(wager'[k], staged'[b][k])
  BY DEF Owned
<1>2. ASSUME Apart(a), b # a PROVE /\ staged'[b] = staged[b] /\ k \in ExtId /\ holder[k] = b
                                  /\ holder'[k] = b /\ staged[a][k] = None
  <2>1. staged[b][k] # None /\ k \in ExtId /\ holder[k] = b /\ k \in Resource
    BY <1>1, <1>2, Resources DEF Apart, Owned
  <2> QED
    BY <1>1, <1>2, <2>1 DEF Apart, Owned
<1>3. ASSUME k \in ExtId, staged[a][k] = None PROVE wager'[k] = wager[k]
  <2>1. k \notin Wallet
    BY <1>3, StoreAssumption
  <2> QED
    BY <1>1, <1>3, <2>1, RowChanges, CallFields
<1>4. CASE Apart(a) /\ b # a
  BY <1>1, <1>2, <1>3, <1>4 DEF Owned
<1>5. CASE EndSession(a)
  <2>1. Apart(a) /\ b # a
    BY <1>5, EndApart
  <2> QED
    BY <1>4, <2>1
<1>6. CASE UNCHANGED <<wager, holder, staged>>
  BY <1>1, <1>6 DEF Owned
<1>7. CASE Grabs(a)
  <2>1. /\ Apart(a) /\ UNCHANGED <<wager, staged>>
        /\ \A r \in Resource : holder[r] = a => holder'[r] = a
    BY <1>7, GrabsApart DEF Grabs, tables
  <2>2. CASE b = a
    BY <1>1, <2>1, <2>2, Resources DEF Owned
  <2> QED
    BY <1>4, <2>1, <2>2
<1>8. ASSUME NEW j \in ExtId, NEW row \in WagerRow, Settles(a, j, row)
      PROVE  /\ k \in ExtId /\ holder'[k] = b
             /\ staged'[b][k].status # "PENDING"
             /\ wager'[k] # None =>
                   ~Terminal(wager'[k].status) /\ Follows(wager'[k], staged'[b][k])
  <2>1. /\ Apart(a) /\ staged'[a][j] = row /\ row # None
        /\ \A i \in TxKey \ {j} : staged'[a][i] = staged[a][i]
        /\ holder'[j] = a
        /\ \A r \in Resource : holder[r] = a => holder'[r] = a
    BY <1>8, SettlesApart
  <2>2. /\ row.status # "PENDING" /\ wager' = wager
        /\ wager[j] # None => ~Terminal(wager[j].status) /\ Follows(wager[j], row)
    BY <1>8 DEF Settles, Parked, Terminal, tables
  <2>3. CASE b = a /\ k = j
    BY <2>1, <2>2, <2>3
  <2>4. CASE b = a /\ k # j
    BY <1>1, <2>1, <2>2, <2>4, Resources DEF Owned
  <2> QED
    BY <1>4, <2>1, <2>3, <2>4
<1>9. ASSUME NEW c \in Calls, Opens(c)
      PROVE  /\ k \in ExtId /\ holder'[k] = b
             /\ staged'[b][k].status # "PENDING"
             /\ wager'[k] # None =>
                   ~Terminal(wager'[k].status) /\ Follows(wager'[k], staged'[b][k])
  <2>1. UNCHANGED <<staged, holder>>
    BY <1>9 DEF Opens, session
  <2>2. k \in ExtId /\ k \notin Wallet
    BY <1>1, <2>1, StoreAssumption DEF Owned
  <2>3. wager'[k] = wager[k]
    BY <1>1, <1>9, <2>2, OpensWallet
  <2> QED
    BY <1>1, <2>1, <2>3 DEF Owned
<1> QED
  BY <1>5, <1>6, <1>7, <1>8, <1>9
     DEF StoreStep, storeVars, tables, session, Rollback, Commit

LEMMA OpenedFirstKept ==
    ASSUME StoreBooks, RowsInv, NEW a \in Agent, StoreStep(a)
    PROVE  OpenedFirst'
<1>1. StoreTypeOK /\ Owned /\ OpenedFirst
  BY DEF StoreBooks, RowsInv
<1> SUFFICES ASSUME NEW w \in Wallet, wager'[w] # None
             PROVE  wallet'[w].open
  BY DEF OpenedFirst
<1>2. Kept
  BY StepKeeps
<1>3. staged[a][w] = None /\ w \in TxKey
  BY <1>1, StoreAssumption DEF Owned, TxKey
<1>4. CASE wager[w] # None
  BY <1>1, <1>2, <1>4 DEF Kept, OpenedFirst
<1>5. CASE wager[w] = None
  <2>1. PICK c \in Calls : Opens(c)
    BY <1>1, <1>3, <1>5 DEF StoreStep, storeVars, tables, Rollback, Grabs, Settles, Commit, Seen
  <2>2. w = c.wallet
    BY <1>1, <1>3, <1>5, <2>1, OpensWallet
  <2> QED
    BY <1>1, <2>1, <2>2, OpensWallet
<1> QED
  BY <1>4, <1>5

LEMMA OnOpenWalletsKept ==
    ASSUME StoreBooks, RowsInv, NEW a \in Agent, StoreStep(a)
    PROVE  OnOpenWallets'
<1>1. /\ StoreTypeOK /\ Owned /\ OpenedFirst /\ Kept
      /\ \A k \in TxKey :
            /\ wager[k] # None => wallet[wager[k].wallet].open /\ wager[k].wallet \in Wallet
            /\ \A b \in Agent : staged[b][k] # None =>
                  wallet[staged[b][k].wallet].open /\ staged[b][k].wallet \in Wallet
  BY StepKeeps DEF StoreBooks, RowsInv, OnOpenWallets, StoreTypeOK, WagerRow
<1>2. \A w \in Wallet : wallet[w].open => wallet'[w].open
  BY <1>1 DEF Kept
<1>3. ASSUME NEW k \in TxKey, wager'[k] # None PROVE wallet'[wager'[k].wallet].open
  <2>1. CASE wager'[k] = wager[k]
    BY <1>1, <1>2, <1>3, <2>1
  <2>2. CASE staged[a][k] # None /\ wager'[k] = staged[a][k]
    BY <1>1, <1>2, <2>2
  <2>3. CASE wager[k] = None /\ \E c \in Calls : k = c.wallet /\ wager'[k] = OpeningRow(c)
    <3>1. PICK c \in Calls : k = c.wallet /\ wager'[k] = OpeningRow(c)
      BY <2>3
    <3>2. wager'[k].wallet = k /\ k \in Wallet
      BY <3>1, CallFields DEF OpeningRow
    <3> QED
      BY <1>3, <3>2, OpenedFirstKept DEF OpenedFirst
  <2> QED
    BY <1>1, <2>1, <2>2, <2>3, RowChanges
<1>4. ASSUME NEW k \in TxKey, NEW b \in Agent, staged'[b][k] # None
      PROVE  wallet'[staged'[b][k].wallet].open
  <2>1. CASE staged'[b][k] = staged[b][k]
    BY <1>1, <1>2, <1>4, <2>1
  <2>2. CASE EndSession(a)
    BY <1>1, <1>4, <2>1, <2>2, EndApart DEF Apart
  <2>3. ASSUME NEW j \in ExtId, NEW row \in WagerRow, Settles(a, j, row)
        PROVE  wallet'[staged'[b][k].wallet].open
    <3>1. wallet[row.wallet].open /\ row.wallet \in Wallet
      BY <2>3 DEF Settles, WagerRow
    <3>2. staged'[b][k] = staged[b][k] \/ staged'[b][k] = row
      BY <1>1, <2>3, SettlesApart DEF Apart
    <3> QED
      BY <1>2, <2>1, <3>1, <3>2
  <2>4. CASE UNCHANGED staged
    BY <2>1, <2>4
  <2> QED
    BY <2>2, <2>3, <2>4 DEF StoreStep, storeVars, session, Rollback, Commit, Grabs, Opens
<1> QED
  BY <1>3, <1>4 DEF OnOpenWallets

LEMMA OpeningRowIsFinal ==
    ASSUME NEW c
    PROVE  OpeningRow(c) # None => ~Parked(OpeningRow(c)) /\ OpeningRow(c).status # "PENDING"
BY DEF OpeningRow, Parked

LEMMA ParkedKept ==
    ASSUME StoreTypeOK, RowsInv, NEW a \in Agent, StoreStep(a)
    PROVE  ParkedAreReversals'
<1>1. Owned /\ OpenedFirst /\ ParkedAreReversals
  BY DEF RowsInv
<1>2. ASSUME NEW k \in TxKey, Parked(wager'[k])
      PROVE  k \in ExtId /\ RequiresReference(wager'[k].kind)
  <2>1. CASE wager'[k] = wager[k]
    BY <1>1, <1>2, <2>1 DEF ParkedAreReversals
  <2>2. CASE staged[a][k] # None /\ wager'[k] = staged[a][k]
    BY <1>1, <1>2, <2>2 DEF ParkedAreReversals, Owned
  <2>3. CASE \E c \in Calls : wager'[k] = OpeningRow(c)
    BY <1>2, <2>3, OpeningRowIsFinal DEF Parked
  <2> QED
    BY <1>1, <2>1, <2>2, <2>3, RowChanges
<1>3. ASSUME NEW b \in Agent, NEW k \in TxKey, Parked(staged'[b][k])
      PROVE  RequiresReference(staged'[b][k].kind)
  <2>1. CASE staged'[b][k] = staged[b][k]
    BY <1>1, <1>3, <2>1 DEF ParkedAreReversals
  <2>2. CASE EndSession(a)
    BY <1>1, <1>3, <2>1, <2>2, EndApart DEF Apart, Parked
  <2>3. ASSUME NEW j \in ExtId, NEW row \in WagerRow, Settles(a, j, row)
        PROVE  RequiresReference(staged'[b][k].kind)
    <3>1. /\ Apart(a) /\ staged'[a][j] = row
          /\ \A i \in TxKey \ {j} : staged'[a][i] = staged[a][i]
      BY <2>3, SettlesApart
    <3>2. CASE b = a /\ k = j
      BY <1>3, <2>3, <3>1, <3>2 DEF Settles
    <3> QED
      BY <2>1, <3>1, <3>2 DEF Apart
  <2> QED
    BY <2>1, <2>2, <2>3
       DEF StoreStep, storeVars, session, Rollback, Commit, Grabs, Opens
<1> QED
  BY <1>2, <1>3 DEF ParkedAreReversals

LEMMA NoneHalfwayKept ==
    ASSUME StoreTypeOK, RowsInv, NoneHalfway, NEW a \in Agent, StoreStep(a)
    PROVE  NoneHalfway'
<1> SUFFICES ASSUME NEW k \in TxKey, wager'[k] # None PROVE wager'[k].status # "PENDING"
  BY DEF NoneHalfway
<1>1. Owned /\ OpenedFirst
  BY DEF RowsInv
<1>2. CASE wager'[k] = wager[k]
  BY <1>2 DEF NoneHalfway
<1>3. CASE staged[a][k] # None /\ wager'[k] = staged[a][k]
  BY <1>1, <1>3 DEF Owned
<1>4. CASE \E c \in Calls : wager'[k] = OpeningRow(c)
  BY <1>4, OpeningRowIsFinal
<1> QED
  BY <1>1, <1>2, <1>3, <1>4, RowChanges

LEMMA RowsKept ==
    ASSUME StoreBooks, RowsInv, NEW a \in Agent, StoreStep(a)
    PROVE  RowsInv'
BY OwnedKept, OpenedFirstKept, OnOpenWalletsKept, ParkedKept DEF RowsInv, StoreBooks

-----------------------------------------------------------------------------
(* Postings.                                                               *)

LEMMA LedgerTypes ==
    ASSUME StoreTypeOK
    PROVE  ledger \in Ledgers /\ \A a \in Agent : entries[a] \in Ledgers
BY DEF StoreTypeOK, Ledgers

LEMMA EntryType ==
    ASSUME StoreTypeOK, NEW a \in Agent, NEW w \in Wallet, NEW k \in TxKey,
           NEW dir \in Directions, NEW amount \in Amounts, Postable(amount),
           Affordable(dir, work[a][w].balance, amount)
    PROVE  NewEntry(a, w, k, dir, amount) \in EntryRow
<1>1. amount \in Balances
  BY MoneyAssumption DEF Postable, Amounts, Balances
<1>2. work[a][w].balance \in Balances
  BY DEF StoreTypeOK, WalletRow
<1>3. Moved(dir, work[a][w].balance, amount) \in Balances
  BY <1>1, <1>2, MovedType
<1> QED
  BY <1>1, <1>2, <1>3 DEF NewEntry, EntryRow

\* Nothing has been posted for a transaction that is parked or not there.
LEMMA ParkedHasNoRow ==
    ASSUME Postings, NEW k \in TxKey, wager[k] # None => Parked(wager[k])
    PROVE  NoRow(ledger, k)
BY DEF Postings, Posted, Parked, Moves

LEMMA CommitPostings ==
    ASSUME StoreTypeOK, RowsInv, Postings, NEW a \in Agent, NEW rows, Commit(a, rows)
    PROVE  Postings'
<1>1. Owned /\ EndSession(a)
  BY DEF RowsInv, Commit
<1>2. /\ Apart(a)
      /\ \A k \in TxKey : staged'[a][k] = None
      /\ \A w \in Wallet : entries'[a][w] = <<>>
  BY <1>1, EndApart
<1>3. ledger \in Ledgers /\ entries[a] \in Ledgers
  BY LedgerTypes
<1>4. /\ \A w \in Wallet : ledger'[w] = ledger[w] \o entries[a][w]
      /\ \A k \in TxKey : wager'[k] = IF staged[a][k] # None THEN staged[a][k] ELSE wager[k]
  BY DEF Commit, Seen
<1>5. ASSUME NEW k \in TxKey PROVE Posted(k) /\ \A b \in Agent : PrivatePosted(b, k)
  BY DEF Postings
<1>6. ASSUME NEW k \in TxKey PROVE PrivatePosted(a, k)'
  BY <1>2, NoRowsAtAll DEF PrivatePosted
<1>7. ASSUME NEW k \in TxKey, NEW amount
      PROVE  /\ NoRow(ledger, k) /\ NoRow(entries[a], k) => NoRow(ledger', k)
             /\ OneRow(ledger, k, amount) /\ NoRow(entries[a], k) => OneRow(ledger', k, amount)
             /\ NoRow(ledger, k) /\ OneRow(entries[a], k, amount) => OneRow(ledger', k, amount)
  BY <1>3, <1>4, ConcatRows
<1>8. ASSUME NEW k \in TxKey, staged[a][k] = None
      PROVE  Posted(k)' /\ \A b \in Agent \ {a} : PrivatePosted(b, k)'
  <2>1. NoRow(entries[a], k) /\ wager'[k] = wager[k]
    BY <1>4, <1>5, <1>8 DEF PrivatePosted
  <2>2. Posted(k)'
    BY <1>5, <1>7, <2>1 DEF Posted
  <2>3. ASSUME NEW b \in Agent \ {a} PROVE PrivatePosted(b, k)'
    BY <1>2, <1>5, <1>7, <2>1 DEF PrivatePosted, Apart
  <2> QED
    BY <2>2, <2>3
<1>9. ASSUME NEW k \in TxKey, staged[a][k] # None
      PROVE  Posted(k)' /\ \A b \in Agent \ {a} : PrivatePosted(b, k)'
  <2>1. wager'[k] = staged[a][k] /\ staged[a][k].status # "PENDING" /\ holder[k] = a
    BY <1>1, <1>4, <1>9 DEF Owned
  <2>2. Posted(k)'
    BY <1>5, <1>7, <1>9, <2>1 DEF Posted, PrivatePosted
  <2>3. ASSUME NEW b \in Agent \ {a} PROVE PrivatePosted(b, k)'
    <3>1. staged[b][k] = None
      BY <1>1, <2>1 DEF Owned
    <3> QED
      BY <1>2, <1>5, <3>1 DEF PrivatePosted, Apart
  <2> QED
    BY <2>2, <2>3
<1> QED
  BY <1>6, <1>8, <1>9 DEF Postings

LEMMA SettlesPostings ==
    ASSUME StoreTypeOK, RowsInv, Postings, NEW a \in Agent, NEW k \in ExtId,
           NEW row \in WagerRow, Settles(a, k, row)
    PROVE  Postings'
<1>1. /\ Apart(a) /\ staged'[a][k] = row /\ row # None
      /\ \A j \in TxKey \ {k} : staged'[a][j] = staged[a][j]
  BY SettlesApart
<1>2. /\ k \in TxKey /\ UNCHANGED <<ledger, wager>> /\ staged[a][k] = None
      /\ NoRow(ledger, k) /\ NoRow(entries[a], k)
  BY ParkedHasNoRow DEF Settles, tables, TxKey, Postings, PrivatePosted
<1>3. ASSUME NEW j \in TxKey PROVE Posted(j)'
  BY <1>2 DEF Postings, Posted
<1>4. ASSUME NEW b \in Agent \ {a}, NEW j \in TxKey PROVE PrivatePosted(b, j)'
  BY <1>1, <1>2 DEF Postings, PrivatePosted, Apart
<1>5. ASSUME NEW j \in TxKey PROVE PrivatePosted(a, j)'
  <2>1. PrivatePosted(a, j)
    BY DEF Postings
  <2>2. CASE Moves(row) /\ MovesFor(a, k, row)
    <3>1. PICK w \in Wallet, dir \in Directions :
              Affordable(dir, work[a][w].balance, row.amount) /\ Move(a, w, k, dir, row.amount)
      BY <2>2 DEF MovesFor
    <3> DEFINE e == NewEntry(a, w, k, dir, row.amount)
    <3>2. e \in EntryRow /\ e.tx = k /\ e.amount = row.amount
      <4>1. row.amount \in Amounts /\ Postable(row.amount)
        BY <3>1 DEF WagerRow, Move
      <4> QED
        BY <1>2, <3>1, <4>1, EntryType DEF NewEntry
    <3>3. \A v \in Wallet :
              entries'[a][v] = IF v = w THEN Append(entries[a][w], e) ELSE entries[a][v]
      BY <3>1 DEF Move, StoreTypeOK
    <3> HIDE DEF e
    <3>4. entries[a] \in Ledgers
      BY LedgerTypes
    <3>5. /\ e.tx # j /\ NoRow(entries[a], j) => NoRow(entries'[a], j)
          /\ \A n : e.tx # j /\ OneRow(entries[a], j, n) => OneRow(entries'[a], j, n)
          /\ e.tx = j /\ NoRow(entries[a], j) => OneRow(entries'[a], j, e.amount)
      BY <3>2, <3>3, <3>4, AppendRows
    <3>6. CASE j = k
      BY <1>1, <1>2, <2>2, <3>2, <3>5, <3>6 DEF PrivatePosted
    <3>7. CASE j # k
      BY <1>1, <1>2, <2>1, <3>2, <3>5, <3>7 DEF PrivatePosted
    <3> QED
      BY <3>6, <3>7
  <2>3. CASE ~Moves(row) /\ UNCHANGED entries
    <3>1. CASE j = k
      BY <1>1, <1>2, <2>3, <3>1 DEF PrivatePosted
    <3>2. CASE j # k
      BY <1>1, <1>2, <2>1, <2>3, <3>2 DEF PrivatePosted
    <3> QED
      BY <3>1, <3>2
  <2> QED
    BY <2>2, <2>3 DEF Settles, Announce, Parked, Moves
<1> QED
  BY <1>3, <1>4, <1>5 DEF Postings

LEMMA OpensPostings ==
    ASSUME StoreTypeOK, RowsInv, Postings, NEW c \in Calls, Opens(c)
    PROVE  Postings'
<1> DEFINE w == c.wallet
           e == OpeningEntry(c)
<1>1. w \in Wallet /\ w \in TxKey /\ c.ext = w /\ c.amount \in Balances /\ wager[w] = None
  BY OpensWallet DEF RowsInv
<1>2. UNCHANGED <<staged, entries>> /\ \A b \in Agent : staged[b][w] = None
  BY <1>1, StoreAssumption DEF Opens, session, RowsInv, Owned
<1>3. CASE c.amount > 0
  <2>1. /\ \A v \in Wallet : ledger'[v] = IF v = w THEN Append(ledger[w], e) ELSE ledger[v]
        /\ \A k \in TxKey : wager'[k] = IF k = w THEN OpeningRow(c) ELSE wager[k]
    <3> DEFINE row == OpeningRow(c)
               longer == Append(ledger[w], e)
    <3>1. wager' = [wager EXCEPT ![w] = row] /\ ledger' = [ledger EXCEPT ![w] = longer]
      BY <1>1, <1>3 DEF Opens, StoreTypeOK
    <3> HIDE DEF row, longer
    <3>2. /\ \A v \in Wallet : ledger'[v] = IF v = w THEN longer ELSE ledger[v]
          /\ \A k \in TxKey : wager'[k] = IF k = w THEN row ELSE wager[k]
      BY <1>1, <3>1 DEF StoreTypeOK
    <3> QED
      BY <3>2 DEF row, longer
  <2>2. e \in EntryRow /\ e.tx = w /\ e.amount = c.amount
    BY <1>1, OpeningTypes DEF Opens, OpeningEntry
  <2>3. /\ OpeningRow(c) \in WagerRow /\ OpeningRow(c) # None /\ OpeningRow(c).amount = c.amount
        /\ Moves(OpeningRow(c))
    BY OpeningTypes, RowAssumption DEF Opens, OpeningRow, Moves
  <2> HIDE DEF e, w
  <2>4. ledger \in Ledgers
    BY LedgerTypes
  <2>5. ASSUME NEW k \in TxKey
        PROVE  /\ k # w /\ NoRow(ledger, k) => NoRow(ledger', k)
               /\ \A n : k # w /\ OneRow(ledger, k, n) => OneRow(ledger', k, n)
               /\ k = w /\ NoRow(ledger, k) => OneRow(ledger', k, c.amount)
    BY <1>1, <2>1, <2>2, <2>4, AppendRows
  <2>6. ASSUME NEW k \in TxKey, k # w PROVE Posted(k)' /\ \A b \in Agent : PrivatePosted(b, k)'
    BY <1>2, <2>1, <2>5, <2>6 DEF Postings, Posted, PrivatePosted
  <2>7. Posted(w)' /\ \A b \in Agent : PrivatePosted(b, w)'
    <3>1. NoRow(ledger, w)
      BY <1>1 DEF Postings, Posted
    <3>2. Posted(w)'
      <4>1. OneRow(ledger', w, wager'[w].amount) /\ wager'[w] = OpeningRow(c)
        BY <1>1, <2>1, <2>3, <2>5, <3>1
      <4> QED
        BY <2>3, <4>1 DEF Posted, Moves
    <3>3. \A b \in Agent : PrivatePosted(b, w)'
      BY <1>1, <1>2 DEF Postings, PrivatePosted
    <3> QED
      BY <3>2, <3>3
  <2> QED
    BY <2>6, <2>7 DEF Postings
<1>4. CASE ~(c.amount > 0)
  BY <1>2, <1>4 DEF Opens, Postings, Posted, PrivatePosted
<1> QED
  BY <1>3, <1>4

LEMMA PostingsKept ==
    ASSUME StoreTypeOK, RowsInv, Postings, NEW a \in Agent, StoreStep(a)
    PROVE  Postings'
<1>1. CASE UNCHANGED storeVars \/ Grabs(a)
  BY <1>1 DEF storeVars, tables, session, Grabs, Postings, Posted, PrivatePosted
<1>2. CASE Rollback(a)
  <2>1. /\ Apart(a) /\ UNCHANGED <<wager, ledger>>
        /\ \A k \in TxKey : staged'[a][k] = None
        /\ \A w \in Wallet : entries'[a][w] = <<>>
    BY <1>2, EndApart DEF Rollback, tables
  <2>2. ASSUME NEW k \in TxKey PROVE Posted(k)'
    BY <2>1 DEF Postings, Posted
  <2>3. ASSUME NEW k \in TxKey, NEW b \in Agent PROVE PrivatePosted(b, k)'
    <3>1. CASE b = a
      BY <2>1, <3>1, NoRowsAtAll DEF PrivatePosted
    <3>2. CASE b # a
      BY <2>1, <3>2 DEF Postings, PrivatePosted, Apart
    <3> QED
      BY <3>1, <3>2
  <2> QED
    BY <2>2, <2>3 DEF Postings
<1> QED
  BY <1>1, <1>2, CommitPostings, SettlesPostings, OpensPostings DEF StoreStep

-----------------------------------------------------------------------------
(* Events.                                                                 *)

\* M continues L.
Continues(L, M) ==
    \A w \in Wallet : /\ Len(L[w]) \in Nat /\ Len(M[w]) \in Nat /\ Len(L[w]) <= Len(M[w])
                      /\ \A i \in 1..Len(L[w]) : M[w][i] = L[w][i]

LEMMA ContinuedEvent ==
    ASSUME NEW L, NEW M, Continues(L, M), NEW w \in Wallet, NEW i \in 1..Len(L[w])
    PROVE  i \in 1..Len(M[w]) /\ RowEvent(w, M[w], i) = RowEvent(w, L[w], i)
<1>1. /\ Len(L[w]) \in Nat /\ Len(M[w]) \in Nat /\ Len(L[w]) <= Len(M[w])
      /\ \A j \in 1..Len(L[w]) : M[w][j] = L[w][j]
  BY DEF Continues
<1> DEFINE m == Len(L[w])
           n == Len(M[w])
<1>2. i \in 1..m /\ m \in Nat /\ n \in Nat /\ m <= n
  BY <1>1
<1> HIDE DEF m, n
<1>3. 1 \in 1..m /\ i \in 1..n
  BY <1>2
<1>4. M[w][1] = L[w][1] /\ M[w][i] = L[w][i]
  BY <1>1, <1>3 DEF m
<1> QED
  BY <1>3, <1>4 DEF RowEvent, n

LEMMA SplitRange ==
    ASSUME NEW k \in Nat, NEW m \in Nat, NEW n \in Nat, k <= m, m <= n
    PROVE  \A i : i \in (k + 1)..n <=> i \in (k + 1)..m \/ i \in (m + 1)..n
OBVIOUS

\* Two stories told one after the other.
LEMMA TellsBoth ==
    ASSUME NEW K, NEW L, NEW M, Continues(K, L), Continues(L, M), NEW T, NEW S, NEW U,
           \A k \in TxKey : U[k] = IF S[k] # None THEN S[k] ELSE T[k],
           \A k \in TxKey : S[k] # None /\ T[k] # None =>
               T[k].status \notin {"PROCESSED", "REJECTED"} /\ S[k].kind = T[k].kind,
           NEW E, NEW F, Tells(E, K, L, T), Tells(F, L, M, S)
    PROVE  Tells(E \cup F, K, M, U)
<1>1. ASSUME NEW w \in Wallet, NEW i
      PROVE  i \in (Len(K[w]) + 1)..Len(M[w])
                <=> i \in (Len(K[w]) + 1)..Len(L[w]) \/ i \in (Len(L[w]) + 1)..Len(M[w])
  <2>1. /\ Len(K[w]) \in Nat /\ Len(L[w]) \in Nat /\ Len(M[w]) \in Nat
        /\ Len(K[w]) <= Len(L[w]) /\ Len(L[w]) <= Len(M[w])
    BY DEF Continues
  <2> QED
    BY <2>1, SplitRange
<1>2. ASSUME NEW w \in Wallet, NEW i \in (Len(K[w]) + 1)..Len(L[w])
      PROVE  RowEvent(w, M[w], i) = RowEvent(w, L[w], i)
  <2>1. Len(K[w]) \in Nat /\ Len(L[w]) \in Nat
    BY DEF Continues
  <2>2. i \in 1..Len(L[w])
    BY <2>1
  <2> QED
    BY <2>2, ContinuedEvent
<1>3. ASSUME NEW e, AboutRow(e, K, L) \/ AboutRow(e, L, M) PROVE AboutRow(e, K, M)
  BY <1>1, <1>2, <1>3 DEF AboutRow
<1>4. ASSUME NEW e, AboutStatus(e, T) \/ AboutStatus(e, S) PROVE AboutStatus(e, U)
  BY <1>4 DEF AboutStatus
<1>5. ASSUME NEW e, AboutParking(e, T) \/ AboutParking(e, S) PROVE AboutParking(e, U)
  BY <1>5 DEF AboutParking
<1>6. ASSUME NEW e \in E \cup F
      PROVE  AboutRow(e, K, M) \/ AboutStatus(e, U) \/ AboutParking(e, U)
  BY <1>3, <1>4, <1>5 DEF Tells
<1>7. ASSUME NEW w \in Wallet, NEW i \in (Len(K[w]) + 1)..Len(M[w])
      PROVE  RowEvent(w, M[w], i) \in E \cup F
  BY <1>1, <1>2 DEF Tells
<1>8. ASSUME NEW k \in TxKey, U[k] # None
      PROVE  /\ U[k].status = "PROCESSED" => Notice("WagerTransactionProcessed", k) \in E \cup F
             /\ U[k].status = "REJECTED" => Notice("WagerTransactionRejected", k) \in E \cup F
  BY <1>8 DEF Tells
<1> QED
  BY <1>6, <1>7, <1>8 DEF Tells

\* Rows elsewhere do not change what a session has told.
LEMMA TellsSame ==
    ASSUME NEW K, NEW L, NEW K2, NEW L2, NEW T, NEW T2, NEW E, Tells(E, K, L, T),
           \A w \in Wallet : \/ /\ K[w] = L[w] /\ K2[w] = L2[w]
                                /\ Len(K[w]) \in Nat /\ Len(K2[w]) \in Nat
                             \/ K2[w] = K[w] /\ L2[w] = L[w],
           \A k \in TxKey : T2[k] = T[k]
    PROVE  Tells(E, K2, L2, T2)
<1>1. ASSUME NEW w \in Wallet, NEW i
      PROVE  /\ i \in (Len(K[w]) + 1)..Len(L[w]) <=> i \in (Len(K2[w]) + 1)..Len(L2[w])
             /\ i \in (Len(K[w]) + 1)..Len(L[w]) =>
                   RowEvent(w, L2[w], i) = RowEvent(w, L[w], i)
  <2>1. CASE /\ K[w] = L[w] /\ K2[w] = L2[w] /\ Len(K[w]) \in Nat /\ Len(K2[w]) \in Nat
    BY <2>1
  <2>2. CASE K2[w] = K[w] /\ L2[w] = L[w]
    BY <2>2
  <2> QED
    BY <2>1, <2>2
<1>2. ASSUME NEW e \in E PROVE AboutRow(e, K2, L2) \/ AboutStatus(e, T2) \/ AboutParking(e, T2)
  <2>1. AboutRow(e, K, L) => AboutRow(e, K2, L2)
    BY <1>1 DEF AboutRow
  <2>2. AboutStatus(e, T) => AboutStatus(e, T2)
    BY DEF AboutStatus
  <2>3. AboutParking(e, T) => AboutParking(e, T2)
    BY DEF AboutParking
  <2> QED
    BY <2>1, <2>2, <2>3 DEF Tells
<1>3. ASSUME NEW w \in Wallet, NEW i \in (Len(K2[w]) + 1)..Len(L2[w])
      PROVE  RowEvent(w, L2[w], i) \in E
  BY <1>1 DEF Tells
<1>4. \A k \in TxKey : T2[k] # None =>
          /\ T2[k].status = "PROCESSED" => Notice("WagerTransactionProcessed", k) \in E
          /\ T2[k].status = "REJECTED" => Notice("WagerTransactionRejected", k) \in E
  BY DEF Tells
<1> QED
  BY <1>2, <1>3, <1>4 DEF Tells

\* A session with nothing written has nothing to tell.
LEMMA NothingToTell ==
    ASSUME NEW L, NEW M, \A w \in Wallet : M[w] = L[w] /\ Len(L[w]) \in Nat,
           NEW T, \A k \in TxKey : T[k] = None
    PROVE  Tells({}, L, M, T)
<1>1. \A w \in Wallet : (Len(L[w]) + 1)..Len(M[w]) = {}
  OBVIOUS
<1> QED
  BY <1>1 DEF Tells

LEMMA ExtendedLedgers ==
    ASSUME StoreTypeOK, NEW a \in Agent
    PROVE  /\ Continues(NoLedger, ledger) /\ Continues(ledger, Extended(a))
           /\ Extended(a) \in Ledgers
           /\ \A w \in Wallet : /\ Len(ledger[w]) \in Nat
                                /\ entries[a][w] = <<>> => Extended(a)[w] = ledger[w]
<1>1. ASSUME NEW w \in Wallet
      PROVE  /\ Extended(a)[w] \in Seq(EntryRow) /\ Len(NoLedger[w]) = 0
             /\ Len(ledger[w]) \in Nat /\ Len(Extended(a)[w]) \in Nat
             /\ Len(ledger[w]) <= Len(Extended(a)[w])
             /\ \A i \in 1..Len(ledger[w]) : Extended(a)[w][i] = ledger[w][i]
             /\ entries[a][w] = <<>> => Extended(a)[w] = ledger[w]
  <2> DEFINE s == ledger[w]
             t == entries[a][w]
             m == Extended(a)[w]
  <2>1. s \in Seq(EntryRow) /\ t \in Seq(EntryRow) /\ m = s \o t
    BY DEF StoreTypeOK, Extended
  <2>2. Len(NoLedger[w]) = 0
    BY DEF NoLedger
  <2> HIDE DEF s, t, m
  <2>3. /\ m \in Seq(EntryRow)
        /\ Len(m) = Len(s) + Len(t) /\ Len(s) \in Nat /\ Len(t) \in Nat
        /\ \A i \in 1..Len(s) : m[i] = s[i]
    BY <2>1, ConcatAt
  <2>4. t = <<>> => m = s
    BY <2>1, ConcatEmpty
  <2>5. Len(m) \in Nat /\ Len(s) <= Len(m)
    BY <2>3
  <2> QED
    BY <2>2, <2>3, <2>4, <2>5 DEF s, t, m
<1>2. Continues(ledger, Extended(a))
  BY <1>1 DEF Continues
<1>3. Continues(NoLedger, ledger)
  BY <1>1 DEF Continues
<1>4. Extended(a) \in Ledgers
  BY <1>1 DEF Ledgers, Extended
<1> QED
  BY <1>1, <1>2, <1>3, <1>4

\* Rows that reach the ledger are not those of another session's wallets.
LEMMA OthersTold ==
    ASSUME StoreBooks, StoreTypeOK', Told, NEW b \in Agent,
           staged'[b] = staged[b], entries'[b] = entries[b], events'[b] = events[b],
           \A w \in Wallet : ledger'[w] = ledger[w] \/ holder[w] # b \/ ~wallet[w].open
    PROVE  Tells(events'[b], ledger', Extended(b)', staged'[b])
<1>1. Tells(events[b], ledger, Extended(b), staged[b])
  BY DEF Told
<1>2. ASSUME NEW w \in Wallet
      PROVE  \/ /\ ledger[w] = Extended(b)[w] /\ ledger'[w] = Extended(b)'[w]
                /\ Len(ledger[w]) \in Nat /\ Len(ledger'[w]) \in Nat
             \/ ledger'[w] = ledger[w] /\ Extended(b)'[w] = Extended(b)[w]
  <2>1. CASE ledger'[w] = ledger[w]
    BY <2>1 DEF Extended
  <2>2. CASE ledger'[w] # ledger[w]
    <3>1. entries[b][w] = <<>>
      BY <2>2, PrivatePart, ClosedWalletIsFree DEF StoreBooks, PrivateBooks
    <3>2. StoreTypeOK /\ entries'[b][w] = <<>>
      BY <3>1 DEF StoreBooks
    <3>3. ledger[w] = Extended(b)[w] /\ Len(ledger[w]) \in Nat
      BY <3>1, <3>2, ExtendedLedgers
    <3>4. ledger'[w] \in Seq(EntryRow) /\ Extended(b)'[w] = ledger'[w] \o entries'[b][w]
      BY DEF StoreTypeOK, Extended
    <3>5. ledger'[w] = Extended(b)'[w] /\ Len(ledger'[w]) \in Nat
      BY <3>2, <3>4, ConcatEmpty
    <3> QED
      BY <3>3, <3>5
  <2> QED
    BY <2>1, <2>2
<1> DEFINE K == ledger
           L == Extended(b)
           K2 == ledger'
           L2 == Extended(b)'
           T == staged[b]
           E == events[b]
<1>3. /\ Tells(E, K, L, T)
      /\ \A w \in Wallet : \/ /\ K[w] = L[w] /\ K2[w] = L2[w]
                              /\ Len(K[w]) \in Nat /\ Len(K2[w]) \in Nat
                           \/ K2[w] = K[w] /\ L2[w] = L[w]
  BY <1>1, <1>2
<1> HIDE DEF K, L, K2, L2, T, E
<1>4. Tells(E, K2, L2, T)
  BY <1>3, TellsSame
<1> QED
  BY <1>4 DEF K2, L2, T, E

LEMMA EndTold ==
    ASSUME StoreTypeOK, StoreTypeOK', NEW a \in Agent, EndSession(a)
    PROVE  /\ Tells(events'[a], ledger', Extended(a)', staged'[a])
           /\ \A k \in TxKey : ~Parked(staged'[a][k])
<1>1. /\ \A k \in TxKey : staged'[a][k] = None
      /\ \A w \in Wallet : entries'[a][w] = <<>>
      /\ events'[a] = {}
  BY EndApart
<1>2. ASSUME NEW w \in Wallet PROVE Extended(a)'[w] = ledger'[w] /\ Len(ledger'[w]) \in Nat
  <2>1. ledger'[w] \in Seq(EntryRow) /\ Extended(a)'[w] = ledger'[w] \o <<>>
    BY <1>1 DEF StoreTypeOK, Extended
  <2> QED
    BY <2>1, ConcatEmpty
<1> DEFINE L == ledger'
           M == Extended(a)'
           T == staged'[a]
<1>3. (\A w \in Wallet : M[w] = L[w] /\ Len(L[w]) \in Nat) /\ \A k \in TxKey : T[k] = None
  BY <1>1, <1>2
<1> HIDE DEF L, M, T
<1>4. Tells({}, L, M, T)
  BY <1>3, NothingToTell
<1> QED
  BY <1>1, <1>4 DEF L, M, T, Parked

LEMMA RollbackTold ==
    ASSUME StoreBooks, StoreTypeOK', Told, NEW a \in Agent, Rollback(a)
    PROVE  Told'
<1>1. EndSession(a) /\ UNCHANGED <<wager, ledger, outbox>> /\ StoreTypeOK
  BY DEF Rollback, tables, StoreBooks
<1>2. Apart(a)
  BY <1>1, EndApart
<1>3. Tells(outbox', NoLedger, ledger', wager')
  BY <1>1 DEF Told
<1>4. \A k \in TxKey :
          Parked(wager'[k]) => Notice("WagerTransactionPendingReference", k) \in outbox'
  BY <1>1 DEF Told, Parked
<1>5. ASSUME NEW b \in Agent
      PROVE  /\ Tells(events'[b], ledger', Extended(b)', staged'[b])
             /\ \A k \in TxKey : Parked(staged'[b][k]) =>
                   Notice("WagerTransactionPendingReference", k) \in events'[b] \cup outbox'
  <2>1. CASE b = a
    BY <1>1, <2>1, EndTold
  <2>2. CASE b # a
    <3>1. staged'[b] = staged[b] /\ entries'[b] = entries[b] /\ events'[b] = events[b]
      BY <1>2, <2>2 DEF Apart
    <3>2. Tells(events'[b], ledger', Extended(b)', staged'[b])
      BY <1>1, <3>1, OthersTold
    <3> QED
      BY <1>1, <3>1, <3>2 DEF Told, Parked
  <2> QED
    BY <2>1, <2>2
<1> QED
  BY <1>3, <1>4, <1>5 DEF Told, Parked

LEMMA CommitTold ==
    ASSUME StoreBooks, StoreTypeOK', RowsInv, Told, NEW a \in Agent, NEW rows, Commit(a, rows)
    PROVE  Told'
<1>1. EndSession(a) /\ StoreTypeOK /\ outbox' = outbox \cup events[a] /\ ledger' = Extended(a)
  BY DEF Commit, StoreBooks, Extended
<1>2. Apart(a)
  BY <1>1, EndApart
<1>3. \A k \in TxKey : wager'[k] = IF staged[a][k] # None THEN staged[a][k] ELSE wager[k]
  BY DEF Commit, Seen
<1>4. ASSUME NEW k \in TxKey, staged[a][k] # None, wager[k] # None
      PROVE  /\ wager[k].status \notin {"PROCESSED", "REJECTED"}
             /\ staged[a][k].kind = wager[k].kind
  <2>1. ~Terminal(wager[k].status) /\ Follows(wager[k], staged[a][k])
    BY <1>4 DEF RowsInv, Owned
  <2>2. wager[k] \in WagerRow /\ staged[a][k] \in WagerRow
    BY <1>1, <1>4 DEF StoreTypeOK
  <2> QED
    BY <2>1, <2>2, FollowsKeeps DEF Terminal
<1>5. Tells(outbox', NoLedger, ledger', wager')
  <2> DEFINE K == NoLedger
             L == ledger
             M == Extended(a)
             T == wager
             S == staged[a]
             U == wager'
             E == outbox
             F == events[a]
  <2>1. Tells(E, K, L, T) /\ Tells(F, L, M, S)
    BY DEF Told
  <2>2. Continues(K, L) /\ Continues(L, M)
    BY <1>1, ExtendedLedgers
  <2>3. /\ \A k \in TxKey : U[k] = IF S[k] # None THEN S[k] ELSE T[k]
        /\ \A k \in TxKey : S[k] # None /\ T[k] # None =>
               T[k].status \notin {"PROCESSED", "REJECTED"} /\ S[k].kind = T[k].kind
    BY <1>3, <1>4
  <2> HIDE DEF K, L, M, T, S, U, E, F
  <2>4. Tells(E \cup F, K, M, U)
    BY <2>1, <2>2, <2>3, TellsBoth
  <2> QED
    BY <1>1, <2>4 DEF E, F, K, M, U
<1>6. ASSUME NEW k \in TxKey, Parked(wager'[k])
      PROVE  Notice("WagerTransactionPendingReference", k) \in outbox'
  BY <1>1, <1>3, <1>6 DEF Told, Parked
<1>7. ASSUME NEW b \in Agent
      PROVE  /\ Tells(events'[b], ledger', Extended(b)', staged'[b])
             /\ \A k \in TxKey : Parked(staged'[b][k]) =>
                   Notice("WagerTransactionPendingReference", k) \in events'[b] \cup outbox'
  <2>1. CASE b = a
    BY <1>1, <2>1, EndTold
  <2>2. CASE b # a
    <3>1. staged'[b] = staged[b] /\ entries'[b] = entries[b] /\ events'[b] = events[b]
      BY <1>2, <2>2 DEF Apart
    <3>2. ASSUME NEW w \in Wallet PROVE ledger'[w] = ledger[w] \/ holder[w] = a
      <4>1. holder[w] # a => entries[a][w] = <<>>
        BY PrivatePart DEF StoreBooks, PrivateBooks
      <4>2. entries[a][w] = <<>> => ledger'[w] = ledger[w]
        BY <1>1, ExtendedLedgers
      <4> QED
        BY <4>1, <4>2
    <3>3. \A w \in Wallet : ledger'[w] = ledger[w] \/ holder[w] # b
      BY <2>2, <3>2
    <3>4. Tells(events'[b], ledger', Extended(b)', staged'[b])
      BY <3>1, <3>3, OthersTold
    <3> QED
      BY <1>1, <3>1, <3>4 DEF Told, Parked
  <2> QED
    BY <2>1, <2>2
<1> QED
  BY <1>5, <1>6, <1>7 DEF Told, Parked

\* The event of the row appended last.
LEMMA LastRowEvent ==
    ASSUME NEW w \in Wallet, NEW s \in Seq(EntryRow), NEW e \in EntryRow, NEW m, m = Append(s, e)
    PROVE  /\ (Len(s) + 1)..Len(m) = {Len(s) + 1}
           /\ e.tx # w => RowEvent(w, m, Len(s) + 1) =
                 [type |-> "WalletBalanceChanged", tx |-> e.tx, wallet |-> w, dir |-> e.dir,
                  amount |-> e.amount, before |-> e.before, after |-> e.after,
                  version |-> VersionAfter(s, w) + 1]
           /\ e.tx = w /\ s = <<>> => RowEvent(w, m, Len(s) + 1) =
                 [type |-> "WalletBalanceChanged", tx |-> e.tx, wallet |-> w, dir |-> e.dir,
                  amount |-> e.amount, before |-> e.before, after |-> e.after, version |-> 1]
<1>1. /\ Len(m) = Len(s) + 1 /\ Len(s) \in Nat /\ m[Len(s) + 1] = e
      /\ \A i \in 1..Len(s) : m[i] = s[i]
  BY AppendAt
<1>2. s = <<>> <=> Len(s) = 0
  OBVIOUS
<1>3. (Len(s) + 1)..Len(m) = {Len(s) + 1}
  BY <1>1
<1>4. CASE s = <<>>
  <2>1. m[1] = e /\ Len(s) + 1 = 1 /\ VersionAfter(s, w) = 1
    BY <1>1, <1>2, <1>4 DEF VersionAfter
  <2> QED
    BY <1>1, <1>3, <1>4, <2>1 DEF RowEvent
<1>5. CASE s # <<>>
  <2>1. m[1] = s[1]
    BY <1>1, <1>2, <1>5
  <2>2. (IF m[1].tx = w THEN Len(s) + 1 ELSE Len(s) + 1 + 1) = VersionAfter(s, w) + 1
    BY <1>1, <1>5, <2>1 DEF VersionAfter
  <2> QED
    BY <1>1, <1>3, <1>5, <2>2 DEF RowEvent
<1> QED
  BY <1>4, <1>5

\* The same story and one ledger row more.
LEMMA TellsRow ==
    ASSUME NEW L \in Ledgers, NEW w \in Wallet, NEW e \in EntryRow, NEW M,
           \A v \in Wallet : M[v] = IF v = w THEN Append(L[w], e) ELSE L[v],
           NEW k \in TxKey, NEW S, \A j \in TxKey : j # k => S[j] = None,
           S[k] # None, S[k].status = "PROCESSED", NEW event, NEW F,
           event = RowEvent(w, M[w], Len(L[w]) + 1),
           F = {Notice("WagerTransactionProcessed", k), event}
    PROVE  Continues(L, M) /\ Tells(F, L, M, S)
<1>1. L[w] \in Seq(EntryRow) /\ M[w] = Append(L[w], e)
  BY DEF Ledgers
<1>2. /\ (Len(L[w]) + 1)..Len(M[w]) = {Len(L[w]) + 1}
      /\ Len(M[w]) = Len(L[w]) + 1 /\ \A i \in 1..Len(L[w]) : M[w][i] = L[w][i]
  BY <1>1, LastRowEvent, AppendAt
<1>3. ASSUME NEW v \in Wallet, v # w
      PROVE  M[v] = L[v] /\ Len(L[v]) \in Nat /\ (Len(L[v]) + 1)..Len(M[v]) = {}
  <2>1. M[v] = L[v] /\ L[v] \in Seq(EntryRow)
    BY <1>3 DEF Ledgers
  <2> QED
    BY <2>1
<1>4. Len(L[w]) \in Nat
  BY <1>1
<1>5. Continues(L, M)
  BY <1>2, <1>3, <1>4 DEF Continues
<1>6. AboutRow(event, L, M)
  BY <1>2 DEF AboutRow
<1>7. AboutStatus(Notice("WagerTransactionProcessed", k), S)
  BY DEF AboutStatus
<1>8. \A v \in Wallet : \A i \in (Len(L[v]) + 1)..Len(M[v]) : RowEvent(v, M[v], i) = event
  BY <1>2, <1>3
<1> QED
  BY <1>5, <1>6, <1>7, <1>8 DEF Tells

LEMMA TellsNotice ==
    ASSUME NEW L \in Ledgers, NEW k \in TxKey, NEW S, \A j \in TxKey : j # k => S[j] = None,
           S[k] # None, S[k].status \in {"PROCESSED", "REJECTED", "PENDING_REFERENCE"},
           S[k].status = "PENDING_REFERENCE" => RequiresReference(S[k].kind)
    PROVE  /\ Continues(L, L)
           /\ Tells({Notice(NoticeFor(S[k].status), k)}, L, L, S)
<1>1. ASSUME NEW v \in Wallet PROVE Len(L[v]) \in Nat /\ (Len(L[v]) + 1)..Len(L[v]) = {}
  <2>1. L[v] \in Seq(EntryRow)
    BY DEF Ledgers
  <2> QED
    BY <2>1
<1>2. Continues(L, L)
  BY <1>1 DEF Continues
<1>3. \/ AboutStatus(Notice(NoticeFor(S[k].status), k), S)
      \/ AboutParking(Notice(NoticeFor(S[k].status), k), S)
  BY DEF AboutStatus, AboutParking, NoticeFor
<1>4. /\ S[k].status = "PROCESSED" => NoticeFor(S[k].status) = "WagerTransactionProcessed"
      /\ S[k].status = "REJECTED" => NoticeFor(S[k].status) = "WagerTransactionRejected"
  BY DEF NoticeFor
<1> QED
  BY <1>1, <1>2, <1>3, <1>4 DEF Tells

\* What session a itself tells after it has settled k.
LEMMA SettlerTold ==
    ASSUME StoreBooks, RowsInv, Told, NEW a \in Agent, NEW k \in ExtId,
           NEW row \in WagerRow, Settles(a, k, row)
    PROVE  /\ Tells(events'[a], ledger', Extended(a)', staged'[a])
           /\ events[a] \subseteq events'[a]
           /\ Parked(row) =>
                 Notice("WagerTransactionPendingReference", k) \in events'[a] \cup outbox
<1> DEFINE S == [j \in TxKey |-> IF j = k THEN row ELSE None]
           L == Extended(a)
           M == Extended(a)'
           E == events[a]
           T == staged[a]
           U == staged'[a]
<1>1. /\ StoreTypeOK /\ k \in TxKey /\ row # None /\ staged[a][k] = None /\ ledger' = ledger
      /\ outbox' = outbox
  BY RowAssumption DEF StoreBooks, Settles, tables, TxKey
<1>2. /\ staged'[a][k] = row
      /\ \A j \in TxKey \ {k} : staged'[a][j] = staged[a][j]
  BY <1>1, SettlesApart
<1>3. /\ \A j \in TxKey : U[j] = IF S[j] # None THEN S[j] ELSE T[j]
      /\ \A j \in TxKey : S[j] # None => T[j] = None
      /\ S[k] = row /\ \A j \in TxKey : j # k => S[j] = None
  BY <1>1, <1>2
<1>4. Tells(E, ledger, L, T)
  BY DEF Told
<1>5. Continues(ledger, L) /\ L \in Ledgers
  BY <1>1, ExtendedLedgers
<1>6. M = [w \in Wallet |-> ledger[w] \o entries'[a][w]]
  BY <1>1 DEF Extended
<1>7. CASE Moves(row) /\ MovesFor(a, k, row)
  <2>1. PICK w \in Wallet, dir \in Directions :
            /\ holder[w] = a
            /\ Affordable(dir, work[a][w].balance, row.amount) /\ Move(a, w, k, dir, row.amount)
    BY <1>7 DEF MovesFor
  <2> DEFINE e == NewEntry(a, w, k, dir, row.amount)
             event == BalanceChanged(a, w, k, dir, row.amount)
  <2>2. e \in EntryRow /\ e.tx = k /\ e.tx # w
    <3>1. row.amount \in Amounts /\ Postable(row.amount)
      BY <2>1 DEF WagerRow, Move
    <3> QED
      BY <1>1, <2>1, <3>1, EntryType, StoreAssumption DEF NewEntry
  <2>3. /\ events'[a] = E \cup {Notice("WagerTransactionProcessed", k), event}
        /\ \A v \in Wallet :
              entries'[a][v] = IF v = w THEN Append(entries[a][w], e) ELSE entries[a][v]
    BY <1>1, <2>1 DEF Move, StoreTypeOK
  <2>4. work[a][w].version = VersionAfter(L[w], w)
    <3>1. work[a][w].open /\ Books(w, work[a][w], ledger[w] \o entries[a][w])
      BY <2>1, PrivatePart DEF StoreBooks, PrivateBooks
    <3>2. L[w] = ledger[w] \o entries[a][w]
      BY DEF Extended
    <3> QED
      BY <3>1, <3>2 DEF Books
  <2>5. event = [type |-> "WalletBalanceChanged", tx |-> e.tx, wallet |-> w, dir |-> e.dir,
                 amount |-> e.amount, before |-> e.before, after |-> e.after,
                 version |-> VersionAfter(L[w], w) + 1]
    BY <2>4 DEF BalanceChanged, NewEntry
  <2> HIDE DEF e, event
  <2>6. \A v \in Wallet : M[v] = IF v = w THEN Append(L[w], e) ELSE L[v]
    <3>1. ledger[w] \o Append(entries[a][w], e) = Append(ledger[w] \o entries[a][w], e)
      BY <1>1, <2>2, ConcatAppend DEF StoreTypeOK
    <3> QED
      BY <1>6, <2>3, <3>1 DEF Extended
  <2> HIDE DEF S, L, M, E, T, U
  <2>7. event = RowEvent(w, M[w], Len(L[w]) + 1)
    <3>1. L[w] \in Seq(EntryRow) /\ M[w] = Append(L[w], e)
      BY <1>5, <2>6 DEF Ledgers
    <3>2. RowEvent(w, M[w], Len(L[w]) + 1) =
             [type |-> "WalletBalanceChanged", tx |-> e.tx, wallet |-> w, dir |-> e.dir,
              amount |-> e.amount, before |-> e.before, after |-> e.after,
              version |-> VersionAfter(L[w], w) + 1]
      BY <2>2, <3>1, LastRowEvent
    <3> QED
      BY <2>5, <3>2
  <2> DEFINE F == {Notice("WagerTransactionProcessed", k), event}
  <2>8. Continues(L, M) /\ Tells(F, L, M, S)
    <3>1. S[k] # None /\ S[k].status = "PROCESSED" /\ \A j \in TxKey : j # k => S[j] = None
      BY <1>1, <1>3, <1>7 DEF Moves
    <3>2. L \in Ledgers /\ k \in TxKey /\ e \in EntryRow
      BY <1>1, <1>5, <2>2
    <3>3. F = {Notice("WagerTransactionProcessed", k), event}
      OBVIOUS
    <3> HIDE DEF F
    <3> QED
      BY <2>6, <2>7, <3>1, <3>2, <3>3, TellsRow
  <2> HIDE DEF F
  <2>9. Tells(E \cup F, ledger, M, U)
    BY <1>3, <1>4, <1>5, <2>8, TellsBoth
  <2>10. ~Parked(row)
    BY <1>7 DEF Moves, Parked
  <2> QED
    BY <1>1, <2>3, <2>9, <2>10 DEF F, E, M, U
<1>8. CASE /\ ~Moves(row)
           /\ row.status \in {"PROCESSED", "REJECTED", "PENDING_REFERENCE"}
           /\ Announce(a, NoticeFor(row.status), k)
  <2> DEFINE F == {Notice(NoticeFor(row.status), k)}
  <2>1. events'[a] = E \cup F /\ M = L
    BY <1>1, <1>6, <1>8 DEF Announce, StoreTypeOK, Extended
  <2>2. row.status = "PENDING_REFERENCE" => RequiresReference(row.kind)
    BY <1>1 DEF Settles, Parked
  <2> HIDE DEF S, L, M, E, T, U
  <2>3. Continues(L, L) /\ Tells(F, L, L, S)
    BY <1>1, <1>3, <1>5, <1>8, <2>2, TellsNotice
  <2>4. Parked(row) => Notice("WagerTransactionPendingReference", k) \in F
    BY DEF Parked, NoticeFor
  <2> HIDE DEF F
  <2>5. Tells(E \cup F, ledger, L, U)
    BY <1>3, <1>4, <1>5, <2>3, TellsBoth
  <2> QED
    BY <1>1, <2>1, <2>4, <2>5 DEF E, M, U
<1>9. CASE Parked(row) /\ Parked(wager[k]) /\ UNCHANGED <<work, entries, events>>
  <2>1. events'[a] = E /\ M = L
    BY <1>1, <1>6, <1>9 DEF Extended
  <2>2. Notice("WagerTransactionPendingReference", k) \in outbox
    BY <1>1, <1>9 DEF Told
  <2>3. U[k].status = "PENDING_REFERENCE" /\ U[k] # None
    BY <1>1, <1>2, <1>9 DEF Parked
  <2>4. Tells(E, ledger, L, U)
    <3>1. ASSUME NEW e, AboutStatus(e, T) PROVE AboutStatus(e, U)
      BY <1>1, <1>2, <3>1 DEF AboutStatus
    <3>2. ASSUME NEW e, AboutParking(e, T) PROVE AboutParking(e, U)
      BY <1>1, <1>2, <3>2 DEF AboutParking
    <3>3. ASSUME NEW j \in TxKey, U[j] # None
          PROVE  /\ U[j].status = "PROCESSED" => Notice("WagerTransactionProcessed", j) \in E
                 /\ U[j].status = "REJECTED" => Notice("WagerTransactionRejected", j) \in E
      BY <1>2, <1>4, <2>3, <3>3 DEF Tells
    <3> HIDE DEF L, E, T, U
    <3> QED
      BY <1>4, <3>1, <3>2, <3>3 DEF Tells
  <2> QED
    BY <1>1, <2>1, <2>2, <2>4
<1> QED
  BY <1>7, <1>8, <1>9 DEF Settles

LEMMA SettlesTold ==
    ASSUME StoreBooks, StoreTypeOK', RowsInv, Told, NEW a \in Agent, NEW k \in ExtId,
           NEW row \in WagerRow, Settles(a, k, row)
    PROVE  Told'
<1>1. StoreTypeOK /\ UNCHANGED <<wager, ledger, outbox>>
  BY DEF StoreBooks, Settles, tables
<1>2. /\ Apart(a) /\ staged'[a][k] = row
      /\ \A j \in TxKey \ {k} : staged'[a][j] = staged[a][j]
  BY <1>1, SettlesApart
<1>3. Tells(outbox', NoLedger, ledger', wager')
  BY <1>1 DEF Told
<1>4. \A j \in TxKey :
          Parked(wager'[j]) => Notice("WagerTransactionPendingReference", j) \in outbox'
  BY <1>1 DEF Told
<1>5. ASSUME NEW b \in Agent
      PROVE  /\ Tells(events'[b], ledger', Extended(b)', staged'[b])
             /\ \A j \in TxKey : Parked(staged'[b][j]) =>
                   Notice("WagerTransactionPendingReference", j) \in events'[b] \cup outbox'
  <2>1. CASE b = a
    <3>1. /\ Tells(events'[a], ledger', Extended(a)', staged'[a])
          /\ events[a] \subseteq events'[a]
          /\ Parked(row) => Notice("WagerTransactionPendingReference", k) \in events'[a] \cup outbox
      BY SettlerTold
    <3>2. ASSUME NEW j \in TxKey, Parked(staged'[a][j])
          PROVE  Notice("WagerTransactionPendingReference", j) \in events'[a] \cup outbox'
      BY <1>1, <1>2, <3>1, <3>2 DEF Told
    <3> QED
      BY <2>1, <3>1, <3>2
  <2>2. CASE b # a
    <3>1. staged'[b] = staged[b] /\ entries'[b] = entries[b] /\ events'[b] = events[b]
      BY <1>2, <2>2 DEF Apart
    <3>2. Tells(events'[b], ledger', Extended(b)', staged'[b])
      BY <1>1, <3>1, OthersTold
    <3> QED
      BY <1>1, <3>1, <3>2 DEF Told
  <2> QED
    BY <2>1, <2>2
<1> QED
  BY <1>3, <1>4, <1>5 DEF Told, Parked

LEMMA OpensTold ==
    ASSUME StoreBooks, StoreTypeOK', RowsInv, Told, NEW a \in Agent, NEW c \in Calls, Opens(c)
    PROVE  Told'
<1> DEFINE w == c.wallet
           e == OpeningEntry(c)
<1>1. /\ w \in Wallet /\ w \in TxKey /\ c.ext = w /\ c.amount \in Balances /\ wager[w] = None
      /\ StoreTypeOK /\ ~wallet[w].open
  BY OpensWallet DEF RowsInv, Opens, StoreBooks
<1>2. ledger[w] = <<>> /\ UNCHANGED <<staged, entries, events>>
  BY <1>1, ClosedWalletIsFree DEF Opens, session
<1>3. outbox \subseteq outbox'
  BY DEF Opens
<1>4. /\ Tells(outbox', NoLedger, ledger', wager')
      /\ \A v \in Wallet : v = w \/ ledger'[v] = ledger[v]
  <2>1. CASE c.amount > 0
    <3>1. /\ \A v \in Wallet : ledger'[v] = IF v = w THEN Append(ledger[w], e) ELSE ledger[v]
          /\ \A k \in TxKey : wager'[k] = IF k = w THEN OpeningRow(c) ELSE wager[k]
          /\ outbox' = outbox \cup OpeningEvents(c)
      <4> DEFINE row == OpeningRow(c)
                 longer == Append(ledger[w], e)
                 tale == OpeningEvents(c)
      <4>1. /\ wager' = [wager EXCEPT ![w] = row] /\ ledger' = [ledger EXCEPT ![w] = longer]
            /\ outbox' = outbox \cup tale
        BY <1>1, <2>1 DEF Opens, StoreTypeOK
      <4> HIDE DEF row, longer, tale
      <4>2. /\ \A v \in Wallet : ledger'[v] = IF v = w THEN longer ELSE ledger[v]
            /\ \A k \in TxKey : wager'[k] = IF k = w THEN row ELSE wager[k]
        BY <1>1, <4>1 DEF StoreTypeOK
      <4> QED
        BY <4>1, <4>2 DEF row, longer, tale
    <3>2. e \in EntryRow /\ e.tx = w
      BY <1>1, OpeningTypes DEF Opens, OpeningEntry
    <3>3. OpeningRow(c) # None /\ OpeningRow(c).status = "PROCESSED"
      BY OpeningTypes, RowAssumption DEF Opens, OpeningRow
    <3> DEFINE L == ledger
               M == ledger'
               S == [k \in TxKey |-> IF k = w THEN OpeningRow(c) ELSE None]
               T == wager
               U == wager'
               E == outbox
               event == [type |-> "WalletBalanceChanged", tx |-> c.ext, wallet |-> w,
                         dir |-> "CREDIT", amount |-> c.amount, before |-> 0,
                         after |-> c.amount, version |-> 1]
               F == {Notice("WagerTransactionProcessed", w), event}
    <3>4. OpeningEvents(c) = F
      BY <1>1 DEF OpeningEvents
    <3>5. event = [type |-> "WalletBalanceChanged", tx |-> e.tx, wallet |-> w, dir |-> e.dir,
                   amount |-> e.amount, before |-> e.before, after |-> e.after, version |-> 1]
      BY <1>1 DEF OpeningEntry
    <3>6. /\ \A k \in TxKey : U[k] = IF S[k] # None THEN S[k] ELSE T[k]
          /\ \A k \in TxKey : S[k] # None => T[k] = None
          /\ S[w] # None /\ S[w].status = "PROCESSED" /\ \A k \in TxKey : k # w => S[k] = None
      BY <1>1, <3>1, <3>3
    <3>7. /\ Tells(E, NoLedger, L, T) /\ Continues(NoLedger, L)
          /\ L \in Ledgers /\ L[w] \in Seq(EntryRow)
      BY <1>1, <1>2, ExtendedLedgers, LedgerTypes DEF Told
    <3>8. (\A v \in Wallet : M[v] = IF v = w THEN Append(L[w], e) ELSE L[v]) /\ L[w] = <<>>
      BY <1>2, <3>1
    <3> HIDE DEF w, e, event, L, M, S, T, U, E
    <3>9. event = RowEvent(w, M[w], Len(L[w]) + 1)
      <4>1. M[w] = Append(L[w], e)
        BY <1>1, <3>8
      <4>2. RowEvent(w, M[w], Len(L[w]) + 1) =
               [type |-> "WalletBalanceChanged", tx |-> e.tx, wallet |-> w, dir |-> e.dir,
                amount |-> e.amount, before |-> e.before, after |-> e.after, version |-> 1]
        BY <1>1, <3>2, <3>7, <3>8, <4>1, LastRowEvent
      <4> QED
        BY <3>5, <4>2
    <3>10. S[w] # None /\ S[w].status = "PROCESSED" /\ \A k \in TxKey : k # w => S[k] = None
      BY <3>6
    <3>11. L \in Ledgers /\ w \in Wallet /\ w \in TxKey /\ e \in EntryRow
      BY <1>1, <3>2, <3>7
    <3>12. F = {Notice("WagerTransactionProcessed", w), event}
      OBVIOUS
    <3>13. \A v \in Wallet : M[v] = IF v = w THEN Append(L[w], e) ELSE L[v]
      BY <3>8
    <3> HIDE DEF F
    <3>14. Continues(L, M) /\ Tells(F, L, M, S)
      BY <3>9, <3>10, <3>11, <3>12, <3>13, TellsRow
    <3>15. Tells(E \cup F, NoLedger, M, U)
      BY <3>6, <3>7, <3>14, TellsBoth
    <3> QED
      BY <3>1, <3>4, <3>15 DEF E, M, U
  <2>2. CASE ~(c.amount > 0)
    BY <2>2 DEF Opens, Told
  <2> QED
    BY <2>1, <2>2
<1>5. ASSUME NEW k \in TxKey, Parked(wager'[k])
      PROVE  Notice("WagerTransactionPendingReference", k) \in outbox'
  <2>1. wager'[k] = wager[k] \/ wager'[k] = OpeningRow(c)
    BY <1>1, OpensWallet DEF RowsInv
  <2> QED
    BY <1>3, <1>5, <2>1, OpeningRowIsFinal DEF Told, Parked
<1>6. ASSUME NEW b \in Agent
      PROVE  /\ Tells(events'[b], ledger', Extended(b)', staged'[b])
             /\ \A j \in TxKey : Parked(staged'[b][j]) =>
                   Notice("WagerTransactionPendingReference", j) \in events'[b] \cup outbox'
  <2>1. Tells(events'[b], ledger', Extended(b)', staged'[b])
    <3>1. \A v \in Wallet : ledger'[v] = ledger[v] \/ ~wallet[v].open
      BY <1>1, <1>4
    <3> QED
      BY <1>2, <3>1, OthersTold
  <2> QED
    BY <1>2, <1>3, <2>1 DEF Told
<1> QED
  BY <1>4, <1>5, <1>6 DEF Told, Parked

LEMMA ToldKept ==
    ASSUME StoreBooks, StoreTypeOK', RowsInv, Told, NEW a \in Agent, StoreStep(a)
    PROVE  Told'
<1>1. CASE UNCHANGED storeVars \/ Grabs(a)
  BY <1>1 DEF storeVars, tables, session, Grabs, Told, Extended
<1> QED
  BY <1>1, RollbackTold, CommitTold, SettlesTold, OpensTold DEF StoreStep

-----------------------------------------------------------------------------
(* The store, whatever kind of session takes the step.                     *)

LEMMA StoreStepKeeps ==
    ASSUME StoreInv, StoreBooks', NEW a \in Agent, StoreStep(a)
    PROVE  StoreInv' /\ Kept
<1>1. StoreBooks /\ RowsInv /\ Postings /\ StoreTypeOK /\ StoreTypeOK'
  BY DEF StoreInv, StoreBooks
<1>2. RowsInv' /\ Kept /\ Postings'
  BY <1>1, RowsKept, StepKeeps, PostingsKept
<1> QED
  BY <1>2 DEF StoreInv

LEMMA StoreStepCompletes ==
    ASSUME StoreInv, Complete, StoreTypeOK', NEW a \in Agent, StoreStep(a)
    PROVE  Complete'
BY NoneHalfwayKept, ToldKept DEF StoreInv, StoreBooks, Complete

LEMMA StepApart ==
    ASSUME StoreTypeOK, NEW a \in Agent, StoreStep(a)
    PROVE  Apart(a)
<1>1. CASE UNCHANGED session
  BY <1>1 DEF session, Apart
<1>2. CASE EndSession(a)
  BY <1>2, EndApart
<1> QED
  BY <1>1, <1>2, GrabsApart, SettlesApart
     DEF StoreStep, storeVars, Rollback, Commit, Opens

\* A settled row is what it was.
LEMMA SettledStays ==
    ASSUME StoreTypeOK, Kept, NEW k \in TxKey, wager[k] # None, Terminal(wager[k].status)
    PROVE  wager'[k] = wager[k]
BY DEF Kept, Follows

LEMMA AnswersKept ==
    ASSUME StoreTypeOK, Kept, StoredAnswersHold, NEW a \in Agent, StoreStep(a)
    PROVE  StoredAnswersHold'
<1> SUFFICES ASSUME NEW key \in Key, idem'[key] # None
             PROVE  LET k == idem'[key].tx
                    IN  /\ wager'[k] # None
                        /\ wager'[k].key = key
                        /\ wager'[k].status = idem'[key].status
                        /\ Terminal(wager'[k].status)
  BY DEF StoredAnswersHold
<1>1. CASE idem'[key] = idem[key]
  <2> DEFINE k == idem[key].tx
  <2>1. /\ wager[k] # None /\ wager[k].key = key /\ wager[k].status = idem[key].status
        /\ Terminal(wager[k].status)
    BY <1>1 DEF StoredAnswersHold
  <2>2. k \in TxKey
    BY <1>1 DEF StoreTypeOK, IdemRow, TxKey
  <2>3. wager'[k] = wager[k]
    BY <2>1, <2>2, SettledStays
  <2> QED
    BY <1>1, <2>1, <2>3
<1>2. CASE idem'[key] # idem[key]
  <2>1. PICK rows \in [Key -> IdemRow \cup {None}] : Commit(a, rows) /\ Remembers(a, rows)
    BY <1>2 DEF StoreStep, storeVars, tables, Rollback, Grabs, Settles, Opens
  <2>2. idem' = rows
    BY <2>1 DEF Commit
  <2> DEFINE k == rows[key].tx
  <2>3. /\ k \in TxKey /\ staged[a][k] # None /\ staged[a][k].key = key
        /\ staged[a][k].status = rows[key].status /\ Terminal(rows[key].status)
    BY <1>2, <2>1, <2>2 DEF Remembers
  <2>4. wager'[k] = staged[a][k]
    BY <2>1, <2>3 DEF Commit, Seen
  <2> QED
    BY <2>2, <2>3, <2>4
<1> QED
  BY <1>1, <1>2

\* The effect of a message that is recorded stays.
LEMMA InboxKept ==
    ASSUME StoreTypeOK, Kept, InboxMeansDone,
           \A m \in inbox' \ inbox : \E c \in Calls :
               /\ c.msg = m
               /\ \/ wager'[c.ext] # None
                  \/ Stored(c)' # None /\ Stored(c)'.hash = c.hash
    PROVE  InboxMeansDone'
<1> SUFFICES ASSUME NEW m \in inbox
             PROVE  \E c \in Calls : /\ c.msg = m
                                     /\ \/ wager'[c.ext] # None
                                        \/ Stored(c)' # None /\ Stored(c)'.hash = c.hash
  BY DEF InboxMeansDone
<1>1. PICK c \in Calls : /\ c.msg = m
                         /\ \/ wager[c.ext] # None
                            \/ Stored(c) # None /\ Stored(c).hash = c.hash
  BY DEF InboxMeansDone
<1>2. c.ext \in TxKey /\ c.key \in Key \cup {None}
  BY CallFields
<1>3. wager[c.ext] # None => wager'[c.ext] # None
  BY <1>2 DEF Kept
<1>4. Stored(c) # None => Stored(c)' = Stored(c)
  BY <1>2 DEF Kept, Stored
<1> QED
  BY <1>1, <1>3, <1>4

\* What an answer says stays true.
LEMMA DurableKept ==
    ASSUME TypeOK, Kept, NEW g \in Handler, call[g] \in Calls, Durable(g),
           call'[g] = call[g], answer'[g] = answer[g]
    PROVE  Durable(g)'
<1> DEFINE c == call[g]
<1>1. c.ext \in TxKey /\ c.key \in Key \cup {None} /\ c.wallet \in Wallet /\ StoreTypeOK
  BY CallFields DEF TypeOK
<1>2. wager[c.ext] # None => wager'[c.ext] # None
  BY <1>1 DEF Kept
<1>3. wager[c.ext] # None /\ Terminal(wager[c.ext].status) => wager'[c.ext] = wager[c.ext]
  BY <1>1, SettledStays
<1>4. c.key # None => (idem[c.key] # None => idem'[c.key] = idem[c.key])
  BY <1>1 DEF Kept
<1>5. wallet[c.wallet].open => wallet'[c.wallet].open
  BY <1>1 DEF Kept
<1>6. inbox \subseteq inbox'
  BY DEF Kept
<1> QED
  BY <1>2, <1>3, <1>4, <1>5, <1>6 DEF Durable, Terminal

\* A step of session a leaves the other handlers where they are.
SameControl(g) == pc'[g] = pc[g] /\ call'[g] = call[g] /\ answer'[g] = answer[g]

LEMMA FlowOfOthers ==
    ASSUME TypeInv, RowsInv, Kept, NEW a \in Agent, StoreStep(a),
           NEW g \in Handler, g # a, HandlerFlow(g), SameControl(g)
    PROVE  HandlerFlow(g)'
<1> DEFINE c == call[g]
<1>1. StoreTypeOK /\ TypeOK /\ Owned /\ OpenedFirst /\ Apart(a) /\ g \in Agent
  BY HandlersAreAgents, StepApart DEF TypeInv, TypeOK, RowsInv
<1>2. HandlerControl(g)
  BY DEF TypeInv, Control
<1>3. /\ staged'[g] = staged[g] /\ \A r \in Resource : holder'[r] = g <=> holder[r] = g
      /\ pc'[g] = pc[g] /\ call'[g] = c /\ answer'[g] = answer[g]
  BY <1>1 DEF Apart, SameControl
<1>4. ASSUME pc[g] \in AfterExecute
      PROVE  /\ wager'[c.ext] = None /\ staged[g][c.ext] # None /\ staged[g][c.ext].key = c.key
             /\ staged[g][c.ext].status \in {"PROCESSED", "REJECTED", "PENDING_REFERENCE"}
  <2>1. /\ wager[c.ext] = None /\ staged[g][c.ext] # None /\ staged[g][c.ext].key = c.key
        /\ staged[g][c.ext].status \in {"PROCESSED", "REJECTED", "PENDING_REFERENCE"}
    BY <1>4 DEF HandlerFlow
  <2>2. c \in Calls /\ c.ext \in ExtId /\ c.ext \in TxKey /\ c.ext \notin Wallet
    BY <1>2, <1>4, CallFields, StoreAssumption DEF HandlerControl, AfterExecute, Wagering, TxKey
  <2>3. staged[a][c.ext] = None
    BY <1>1, <2>1, <2>2 DEF Owned
  <2>4. \A d \in Calls : c.ext # d.wallet
    BY <2>2, CallFields
  <2>5. wager'[c.ext] = wager[c.ext]
    BY <1>1, <2>2, <2>3, <2>4, RowChanges
  <2> QED
    BY <2>1, <2>5
<1>5. ASSUME pc[g] \in AfterInbox, c.channel = "SQS" PROVE holder'[c.msg] = g
  <2>1. c \in Calls /\ c.kind # "OPENING"
    BY <1>2, <1>5 DEF HandlerControl, AfterInbox, AfterLock, Wagering
  <2>2. c.msg \in Resource
    BY <1>5, <2>1, CallFields, Resources
  <2>3. holder[c.msg] = g
    BY <1>5 DEF HandlerFlow
  <2> QED
    BY <1>3, <2>2, <2>3
<1>6. ASSUME pc[g] = "done" PROVE Durable(g)'
  <2>1. Durable(g) /\ c \in Calls
    BY <1>2, <1>6 DEF HandlerFlow, HandlerControl
  <2> QED
    BY <1>1, <1>3, <2>1, DurableKept
<1> QED
  BY <1>3, <1>4, <1>5, <1>6 DEF HandlerFlow

LEMMA MessageLocksKept ==
    ASSUME StoreTypeOK, MessageLocks, NEW a \in Agent, Apart(a),
           \A g \in Handler \ {a} : SameControl(g),
           \A m \in Msg : holder'[m] = a =>
               a \in Handler /\ pc'[a] \in AfterInbox /\ call'[a].msg = m
    PROVE  MessageLocks'
<1> SUFFICES ASSUME NEW b \in Agent, NEW m \in Msg, holder'[m] = b
             PROVE  b \in Handler /\ pc'[b] \in AfterInbox /\ call'[b].msg = m
  BY DEF MessageLocks
<1>1. CASE b = a
  BY <1>1
<1>2. CASE b # a
  <2>1. holder[m] = b
    BY <1>2, Resources DEF Apart
  <2> QED
    BY <1>2, <2>1 DEF MessageLocks, SameControl
<1> QED
  BY <1>1, <1>2

-----------------------------------------------------------------------------
(* The steps of a handler.                                                 *)

\* What a step of handler h must show, the rest follows.
Orderly(h) ==
    /\ StoreStep(h)
    /\ HandlerFlow(h)'
    /\ \A g \in Handler \ {h} : SameControl(g)
    /\ \A m \in Msg : holder'[m] = h => pc'[h] \in AfterInbox /\ call'[h].msg = m
    /\ \A m \in inbox' \ inbox : \E c \in Calls :
          /\ c.msg = m
          /\ \/ wager'[c.ext] # None
             \/ Stored(c)' # None /\ Stored(c)'.hash = c.hash

LEMMA OrderlyKeeps ==
    ASSUME ServiceInv, TypeInv', StoreBooks', NEW h \in Handler, Orderly(h)
    PROVE  ServiceInv' /\ Kept
<1>1. /\ h \in Agent /\ StoreStep(h) /\ StoreInv /\ StoreBooks /\ TypeInv /\ Flow
      /\ RowsInv /\ StoreTypeOK
  BY HandlersAreAgents DEF Orderly, ServiceInv, StoreInv, StoreBooks, RowsInv
<1>2. StoreInv' /\ Kept /\ Apart(h)
  BY <1>1, StoreStepKeeps, StepApart
<1>3. StoredAnswersHold' /\ InboxMeansDone'
  BY <1>1, <1>2, AnswersKept, InboxKept DEF Orderly, ServiceInv
<1>4. MessageLocks'
  BY <1>1, <1>2, MessageLocksKept DEF Orderly, Flow
<1>5. ASSUME NEW g \in Handler PROVE HandlerFlow(g)'
  BY <1>1, <1>2, FlowOfOthers DEF Orderly, Flow
<1> QED
  BY <1>2, <1>3, <1>4, <1>5 DEF ServiceInv, Flow

\* The facts the lemmas about the actions start from.
LEMMA HandlerFacts ==
    ASSUME ServiceInv, NEW h \in Handler
    PROVE  /\ h \in Agent /\ h # None /\ StoreTypeOK /\ StoreBooks /\ RowsInv
           /\ HandlerControl(h) /\ HandlerFlow(h)
           /\ pc[h] # "idle" => call[h] \in Calls
           /\ pc[h] \in Wagering => call[h].kind # "OPENING"
           /\ pc[h] \in AfterLock => holder[call[h].wallet] = h
           /\ \A m \in Msg : holder[m] = h => pc[h] \in AfterInbox /\ call[h].msg = m
BY HandlersAreAgents DEF ServiceInv, StoreInv, StoreBooks, RowsInv, TypeInv, TypeOK, Control,
   HandlerControl, Flow, MessageLocks

LEMMA ReturnFacts ==
    ASSUME ServiceInv, NEW h \in Handler, NEW result, Return(h, result)
    PROVE  /\ pc'[h] = "done" /\ call'[h] = call[h] /\ answer'[h] = result
           /\ \A g \in Handler \ {h} : SameControl(g)
BY DEF ServiceInv, TypeInv, TypeOK, Return, SameControl

LEMMA FailOrderly ==
    ASSUME ServiceInv, NEW h \in Handler, NEW result, Fail(h, result),
           \/ result \in {"conflict", "forbidden", "exhausted", "error"}
           \/ result = "replay" /\ call[h].channel = "SQS" /\ call[h].msg \in inbox
    PROVE  Orderly(h)
<1>1. Return(h, result) /\ Rollback(h) /\ EndSession(h) /\ UNCHANGED tables
  BY DEF Fail, Rollback
<1>2. /\ pc'[h] = "done" /\ call'[h] = call[h] /\ answer'[h] = result
      /\ \A g \in Handler \ {h} : SameControl(g)
  BY <1>1, ReturnFacts
<1>3. \A m \in Msg : holder'[m] # h
  BY <1>1, HandlerFacts, EndApart, Resources
<1>4. HandlerFlow(h)'
  <2>1. Durable(h)'
    BY <1>1, <1>2 DEF Durable, tables
  <2> QED
    BY <1>2, <2>1 DEF HandlerFlow, AfterExecute, AfterInbox, AfterLock
<1>5. StoreStep(h) /\ inbox' = inbox
  BY <1>1 DEF StoreStep, tables
<1> QED
  BY <1>2, <1>3, <1>4, <1>5 DEF Orderly

LEMMA RetryOrderly ==
    ASSUME ServiceInv, NEW h \in Handler, pc[h] # "idle", RetryOrGiveUp(h)
    PROVE  Orderly(h)
<1> DEFINE c == call[h]
<1>1. Rollback(h) /\ EndSession(h) /\ UNCHANGED tables
  BY DEF RetryOrGiveUp, Rollback
<1>2. CASE attempt[h] < MaxConflictAttempts
  <2>1. /\ pc'[h] = FirstStep(c) /\ call'[h] = c
        /\ \A g \in Handler \ {h} : SameControl(g)
    BY <1>2 DEF RetryOrGiveUp, ServiceInv, TypeInv, TypeOK, SameControl
  <2>2. \A m \in Msg : holder'[m] # h
    BY <1>1, HandlerFacts, EndApart, Resources
  <2>3. HandlerFlow(h)'
    BY <2>1 DEF FirstStep, HandlerFlow, AfterExecute, AfterInbox, AfterLock
  <2>4. StoreStep(h) /\ inbox' = inbox
    BY <1>1 DEF StoreStep, tables
  <2> QED
    BY <2>1, <2>2, <2>3, <2>4 DEF Orderly
<1>3. CASE ~(attempt[h] < MaxConflictAttempts)
  BY <1>1, <1>3, FailOrderly DEF RetryOrGiveUp, Fail
<1> QED
  BY <1>2, <1>3

\* On to the next statement of the operation, with the message it has claimed.
LEMMA GotoOrderly ==
    ASSUME ServiceInv, NEW h \in Handler, pc[h] \in AfterInbox,
           NEW step \in AfterInbox, Goto(h, step), StoreStep(h), inbox' = inbox,
           \A m \in Msg : holder'[m] = holder[m],
           step \in AfterExecute =>
               /\ wager'[call[h].ext] = None
               /\ staged'[h][call[h].ext] # None
               /\ staged'[h][call[h].ext].key = call[h].key
               /\ staged'[h][call[h].ext].status \in {"PROCESSED", "REJECTED", "PENDING_REFERENCE"}
    PROVE  Orderly(h)
<1> DEFINE c == call[h]
<1>1. /\ pc'[h] = step /\ call'[h] = c
      /\ \A g \in Handler \ {h} : SameControl(g)
  BY DEF Goto, ServiceInv, TypeInv, TypeOK, SameControl
<1>2. c \in Calls /\ c.kind # "OPENING" /\ HandlerFlow(h)
  BY HandlerFacts DEF AfterInbox, AfterLock, Wagering
<1>3. c.channel = "SQS" => holder[c.msg] = h /\ c.msg \in Msg
  BY <1>2, CallFields DEF HandlerFlow
<1>4. step # "done"
  BY DEF AfterInbox, AfterLock
<1>5. HandlerFlow(h)'
  BY <1>1, <1>3, <1>4 DEF HandlerFlow
<1>6. \A m \in Msg : holder'[m] = h => pc'[h] \in AfterInbox /\ call'[h].msg = m
  BY <1>1, HandlerFacts
<1> QED
  BY <1>1, <1>5, <1>6 DEF Orderly

LEMMA CheckWalletOrderly ==
    ASSUME ServiceInv, NEW h \in Handler, CheckWallet(h)
    PROVE  Orderly(h)
<1>1. CASE Fail(h, "conflict")
  BY <1>1, FailOrderly
<1>2. CASE Goto(h, "insert") /\ UNCHANGED <<storeVars, todo>>
  <2>1. /\ pc'[h] = "insert" /\ call'[h] = call[h]
        /\ \A g \in Handler \ {h} : SameControl(g)
    BY <1>2 DEF Goto, ServiceInv, TypeInv, TypeOK, SameControl
  <2>2. \A m \in Msg : holder[m] # h
    BY HandlerFacts DEF CheckWallet, AfterInbox, AfterLock
  <2> QED
    BY <1>2, <2>1, <2>2 DEF Orderly, StoreStep, storeVars, tables, session, HandlerFlow,
                            AfterExecute, AfterInbox, AfterLock
<1> QED
  BY <1>1, <1>2 DEF CheckWallet

LEMMA InsertWalletOrderly ==
    ASSUME ServiceInv, NEW h \in Handler, InsertWallet(h)
    PROVE  Orderly(h)
<1> DEFINE c == call[h]
<1>1. /\ pc[h] = "insert" /\ c \in Calls /\ c.kind = "OPENING" /\ c.wallet \in Wallet
      /\ StoreTypeOK /\ OpenedFirst
  BY HandlerFacts, CallFields DEF InsertWallet, HandlerControl, RowsInv
<1>2. CASE Fail(h, "error")
  BY <1>2, FailOrderly
<1>3. CASE ~Fail(h, "error")
  <2>1. Opens(c) /\ Return(h, "opened")
    BY <1>1, <1>3 DEF InsertWallet, Opens
  <2>2. /\ pc'[h] = "done" /\ call'[h] = c /\ answer'[h] = "opened"
        /\ \A g \in Handler \ {h} : SameControl(g)
    BY <2>1, ReturnFacts
  <2>3. wallet'[c.wallet].open
    BY <1>1, <2>1, OpensWallet
  <2>4. HandlerFlow(h)'
    BY <2>2, <2>3 DEF HandlerFlow, Durable, AfterExecute, AfterInbox, AfterLock
  <2>5. \A m \in Msg : holder'[m] # h
    BY <1>1, <2>1, HandlerFacts DEF Opens, session, AfterInbox, AfterLock
  <2>6. StoreStep(h) /\ inbox' = inbox
    BY <1>1, <2>1 DEF StoreStep, Opens
  <2> QED
    BY <2>2, <2>4, <2>5, <2>6 DEF Orderly
<1> QED
  BY <1>2, <1>3

LEMMA ClaimInboxOrderly ==
    ASSUME ServiceInv, NEW h \in Handler, ClaimInbox(h)
    PROVE  Orderly(h)
<1> DEFINE c == call[h]
<1>1. /\ pc[h] = "inbox" /\ c \in Calls /\ c.channel = "SQS" /\ c.msg \in Msg /\ c.msg \in Resource
      /\ StoreTypeOK /\ h \in Agent /\ h # None
  BY HandlerFacts, CallFields, Resources DEF ClaimInbox, HandlerControl, Wagering
<1>2. CASE c.msg \in inbox /\ Fail(h, "replay")
  BY <1>1, <1>2, FailOrderly
<1>3. CASE /\ holder[c.msg] = None /\ Take(h, c.msg) /\ Goto(h, "idem")
           /\ UNCHANGED <<tables, work, entries, staged, events, todo>>
  <2>1. /\ pc'[h] = "idem" /\ call'[h] = c
        /\ \A g \in Handler \ {h} : SameControl(g)
    BY <1>3 DEF Goto, ServiceInv, TypeInv, TypeOK, SameControl
  <2>2. \A r \in Resource : holder'[r] = IF r = c.msg THEN h ELSE holder[r]
    BY <1>1, <1>3 DEF Take, StoreTypeOK
  <2>3. Grabs(h)
    BY <1>3, <2>2 DEF Grabs
  <2>4. \A m \in Msg : holder[m] # h
    BY <1>1, HandlerFacts DEF AfterInbox, AfterLock
  <2>5. HandlerFlow(h)'
    BY <1>1, <2>1, <2>2 DEF HandlerFlow, AfterExecute
  <2>6. \A m \in Msg : holder'[m] = h => pc'[h] \in AfterInbox /\ call'[h].msg = m
    BY <2>1, <2>2, <2>4, Resources DEF AfterInbox
  <2> QED
    BY <1>3, <2>1, <2>3, <2>5, <2>6 DEF Orderly, StoreStep, tables
<1> QED
  BY <1>2, <1>3 DEF ClaimInbox

\* A commit records the message that the handler has claimed, and no other.
LEMMA CommitOrderly ==
    ASSUME ServiceInv, NEW h \in Handler, pc[h] \in AfterInbox, NEW result, Return(h, result),
           NEW rows \in [Key -> IdemRow \cup {None}], Commit(h, rows), Remembers(h, rows),
           Durable(h)',
           \/ wager'[call[h].ext] # None
           \/ Stored(call[h])' # None /\ Stored(call[h])'.hash = call[h].hash
    PROVE  Orderly(h)
<1> DEFINE c == call[h]
<1>1. EndSession(h) /\ inbox' = inbox \cup {m \in Msg : holder[m] = h} /\ StoreStep(h)
  BY DEF Commit, StoreStep
<1>2. /\ pc'[h] = "done" /\ call'[h] = call[h]
      /\ \A g \in Handler \ {h} : SameControl(g)
  BY ReturnFacts
<1>3. \A m \in Msg : holder'[m] # h
  BY <1>1, HandlerFacts, EndApart, Resources
<1>4. HandlerFlow(h)'
  BY <1>2 DEF HandlerFlow, AfterExecute, AfterInbox, AfterLock
<1>5. c \in Calls /\ \A m \in inbox' \ inbox : c.msg = m
  BY <1>1, HandlerFacts DEF AfterInbox, AfterLock
<1> QED
  BY <1>1, <1>2, <1>3, <1>4, <1>5 DEF Orderly

LEMMA CheckIdempotencyOrderly ==
    ASSUME ServiceInv, NEW h \in Handler, CheckIdempotency(h)
    PROVE  Orderly(h)
<1> DEFINE c == call[h]
<1>1. /\ pc[h] = "idem" /\ pc[h] \in AfterInbox /\ c \in Calls /\ c.kind # "OPENING"
      /\ StoreTypeOK /\ h \in Agent /\ HandlerFlow(h) /\ c.key \in Key \cup {None}
      /\ c.channel \in {"HTTP", "SQS"}
  BY HandlerFacts, CallFields DEF CheckIdempotency, Wagering, AfterInbox
<1>2. CASE Fail(h, "forbidden") \/ Fail(h, "conflict")
  BY <1>2, FailOrderly
<1>3. CASE /\ Stored(c) # None /\ Stored(c).hash = c.hash
           /\ Return(h, "replay") /\ Commit(h, idem)
  <2>1. c.key # None /\ idem[c.key] # None /\ idem[c.key].hash = c.hash /\ idem' = idem
    BY <1>3 DEF Stored, Commit
  <2>2. c.channel = "SQS" => c.msg \in inbox'
    BY <1>1, <1>3, CallFields DEF HandlerFlow, Commit
  <2>3. call'[h] = c /\ answer'[h] = "replay"
    BY <1>3, ReturnFacts
  <2>4. Durable(h)'
    BY <2>1, <2>2, <2>3 DEF Durable
  <2>5. Remembers(h, idem) /\ idem \in [Key -> IdemRow \cup {None}]
    BY <1>1 DEF Remembers, StoreTypeOK
  <2>6. Stored(c)' # None /\ Stored(c)'.hash = c.hash
    BY <1>3, <2>1, <2>3 DEF Stored
  <2> QED
    BY <1>1, <1>3, <2>4, <2>5, <2>6, CommitOrderly
<1>4. CASE Goto(h, "lock") /\ UNCHANGED <<storeVars, todo>>
  <2>1. StoreStep(h) /\ inbox' = inbox /\ holder' = holder
    BY <1>4 DEF StoreStep, storeVars, tables, session
  <2> QED
    BY <1>1, <1>4, <2>1, GotoOrderly DEF AfterInbox, AfterExecute
<1> QED
  BY <1>2, <1>3, <1>4 DEF CheckIdempotency

LEMMA LockWalletOrderly ==
    ASSUME ServiceInv, NEW h \in Handler, LockWallet(h)
    PROVE  Orderly(h)
<1> DEFINE w == call[h].wallet
<1>1. /\ pc[h] \in AfterInbox /\ w \in Wallet /\ w \in Resource /\ StoreTypeOK /\ h \in Agent
  BY HandlerFacts, CallFields, Resources DEF LockWallet, Wagering, AfterInbox
<1>2. CASE Fail(h, "error")
  BY <1>2, FailOrderly
<1>3. CASE /\ LockWalletRow(h, w) /\ Goto(h, "execute")
           /\ UNCHANGED <<tables, entries, staged, events, todo>>
  <2>1. \A r \in Resource : holder'[r] = IF r = w THEN h ELSE holder[r]
    BY <1>1, <1>3 DEF LockWalletRow, Take, StoreTypeOK
  <2>2. Grabs(h)
    BY <1>1, <1>3, <2>1 DEF Grabs, LockWalletRow
  <2>3. \A m \in Msg : holder'[m] = holder[m]
    BY <1>1, <2>1, StoreAssumption, Resources
  <2>4. StoreStep(h) /\ inbox' = inbox
    BY <1>3, <2>2 DEF StoreStep, tables
  <2> QED
    BY <1>1, <1>3, <2>3, <2>4, GotoOrderly DEF AfterInbox, AfterLock, AfterExecute
<1> QED
  BY <1>2, <1>3 DEF LockWallet

LEMMA ExecuteSettles ==
    ASSUME ServiceInv, NEW h \in Handler, pc[h] = "execute",
           ~Exists(call[h].ext), holder[call[h].ext] = None, Take(h, call[h].ext),
           Park(h) \/ Reject(h) \/ Process(h), UNCHANGED tables
    PROVE  \E row \in WagerRow :
               /\ Settles(h, call[h].ext, row)
               /\ row.key = call[h].key
               /\ row.status \in {"PROCESSED", "REJECTED", "PENDING_REFERENCE"}
<1> DEFINE c == call[h]
           k == call[h].ext
<1>1. /\ c \in Calls /\ k \in ExtId /\ k \in TxKey /\ c.wallet \in Wallet /\ h \in Agent
      /\ k # None /\ holder[c.wallet] = h /\ c.kind # "OPENING" /\ Owned /\ h # None
  BY HandlerFacts, CallFields, StoreAssumption DEF Wagering, AfterLock, RowsInv, TxKey
<1>2. wager[k] = None /\ staged[h][k] = None
  BY <1>1 DEF Exists, Owned
<1>0. wallet[c.wallet].open
  BY <1>1, HandlerFacts, PrivatePart DEF StoreBooks, PrivateBooks
<1>3. CASE Park(h)
  <2> DEFINE row == NewRow(c, "PENDING_REFERENCE", None)
  <2>1. /\ row \in WagerRow /\ row.key = c.key /\ row.status = "PENDING_REFERENCE"
        /\ row.kind = c.kind /\ row.wallet = c.wallet
    BY <1>1, NewRowType DEF Statuses, NewRow
  <2>2. /\ staged' = [staged EXCEPT ![h][k] = row]
        /\ Announce(h, "WagerTransactionPendingReference", k) /\ RequiresReference(c.kind)
    BY <1>3 DEF Park, StageNew, Parks
  <2> HIDE DEF row
  <2>3. Settles(h, k, row)
    BY <1>0, <1>1, <1>2, <2>1, <2>2 DEF Settles, Moves, NoticeFor
  <2> QED
    BY <2>1, <2>3
<1>4. CASE Reject(h)
  <2> DEFINE code == MovementError(DirectDirection(c), work[h][c.wallet].balance, c.amount)
             row == NewRow(c, "REJECTED", code)
  <2>1. code \in FailureCodes
    BY <1>4 DEF Reject, Affordable, MovementError, FailureCodes
  <2>2. row \in WagerRow /\ row.key = c.key /\ row.status = "REJECTED" /\ row.wallet = c.wallet
    BY <1>1, <2>1, NewRowType DEF Statuses, NewRow
  <2>3. /\ staged' = [staged EXCEPT ![h][k] = row]
        /\ Announce(h, "WagerTransactionRejected", k)
    BY <1>4 DEF Reject, StageNew
  <2> HIDE DEF row
  <2>4. Settles(h, k, row)
    BY <1>0, <1>1, <1>2, <2>2, <2>3 DEF Settles, Moves, NoticeFor, Parked
  <2> QED
    BY <2>2, <2>4
<1>5. CASE Process(h)
  <2> DEFINE row == NewRow(c, "PROCESSED", None)
  <2>1. /\ row \in WagerRow /\ row.key = c.key /\ row.status = "PROCESSED" /\ row.kind = c.kind
        /\ row.amount = c.amount /\ row.wallet = c.wallet
    BY <1>1, NewRowType DEF Statuses, NewRow
  <2>2. /\ staged' = [staged EXCEPT ![h][k] = row]
        /\ Affordable(DirectDirection(c), work[h][c.wallet].balance, c.amount)
        /\ IF c.kind = "LOSS" THEN Announce(h, "WagerTransactionProcessed", k)
           ELSE Move(h, c.wallet, k, DirectDirection(c), c.amount)
    BY <1>5 DEF Process, StageNew
  <2>3. DirectDirection(c) \in Directions
    BY DEF DirectDirection, Directions
  <2> HIDE DEF row
  <2>4. \/ Moves(row) /\ MovesFor(h, k, row)
        \/ ~Moves(row) /\ Announce(h, NoticeFor(row.status), k)
    BY <1>1, <2>1, <2>2, <2>3 DEF Moves, MovesFor, NoticeFor
  <2>5. Settles(h, k, row)
    BY <1>0, <1>1, <1>2, <2>1, <2>2, <2>4 DEF Settles, Parked
  <2> QED
    BY <2>1, <2>5
<1> QED
  BY <1>3, <1>4, <1>5

LEMMA ExecuteOrderly ==
    ASSUME ServiceInv, NEW h \in Handler, Execute(h)
    PROVE  Orderly(h)
<1> DEFINE c == call[h]
           k == call[h].ext
<1>1. /\ pc[h] = "execute" /\ c \in Calls /\ k \in ExtId /\ k \in TxKey /\ StoreTypeOK
      /\ h \in Agent /\ k \notin Msg /\ k \in Resource /\ k # None
  BY HandlerFacts, CallFields, Resources, StoreAssumption DEF Execute, Wagering, TxKey
<1>2. CASE Fail(h, "error") \/ RetryOrGiveUp(h)
  BY <1>1, <1>2, FailOrderly, RetryOrderly
<1>3. CASE /\ ~Exists(k) /\ holder[k] = None /\ Take(h, k)
           /\ Park(h) \/ Reject(h) \/ Process(h)
           /\ UNCHANGED <<tables, todo>>
  <2>1. PICK row \in WagerRow :
            /\ Settles(h, k, row) /\ row.key = c.key
            /\ row.status \in {"PROCESSED", "REJECTED", "PENDING_REFERENCE"}
    BY <1>1, <1>3, ExecuteSettles
  <2>2. StoreStep(h) /\ inbox' = inbox
    BY <1>1, <1>3, <2>1 DEF StoreStep, tables
  <2>3. staged'[h][k] = row /\ row # None
    BY <1>1, <2>1, SettlesApart
  <2>4. wager'[k] = None
    BY <1>1, <1>3 DEF Exists, tables
  <2>5. \A m \in Msg : holder'[m] = holder[m]
    BY <1>1, <1>3, Resources DEF Take, StoreTypeOK
  <2>6. PICK step \in AfterInbox : Goto(h, step)
    BY <1>3 DEF Park, Reject, Process, AfterInbox, AfterLock
  <2> QED
    BY <1>1, <2>1, <2>2, <2>3, <2>4, <2>5, <2>6, GotoOrderly DEF AfterInbox, AfterLock
<1> QED
  BY <1>2, <1>3 DEF Execute

\* The facts about a handler past Execute.
LEMMA ExecutedFacts ==
    ASSUME ServiceInv, NEW h \in Handler, pc[h] \in AfterExecute
    PROVE  /\ call[h].ext \in ExtId /\ call[h].ext \in TxKey /\ wager[call[h].ext] = None
           /\ staged[h][call[h].ext] # None
           /\ staged[h][call[h].ext].key = call[h].key
           /\ staged[h][call[h].ext].status \in {"PROCESSED", "REJECTED", "PENDING_REFERENCE"}
           /\ call[h] \in Calls /\ call[h].kind # "OPENING" /\ call[h].wallet \in Wallet
           /\ holder[call[h].wallet] = h
           /\ pc[h] \in AfterInbox
<1>1. HandlerFlow(h) /\ pc[h] \in Wagering /\ pc[h] \in AfterLock /\ pc[h] \in AfterInbox
  BY HandlerFacts DEF AfterExecute, Wagering, AfterInbox, AfterLock
<1>2. call[h] \in Calls /\ call[h].kind # "OPENING" /\ holder[call[h].wallet] = h
  BY <1>1, HandlerFacts DEF AfterExecute
<1> QED
  BY <1>1, <1>2, CallFields DEF HandlerFlow, TxKey

LEMMA QueryPendingOrderly ==
    ASSUME ServiceInv, NEW h \in Handler, QueryPending(h)
    PROVE  Orderly(h)
<1>1. pc[h] \in AfterExecute /\ UNCHANGED storeVars
  BY DEF QueryPending, AfterExecute
<1>2. StoreStep(h) /\ UNCHANGED <<inbox, holder, wager, staged>>
  BY <1>1 DEF StoreStep, storeVars, tables, session
<1>3. PICK step \in AfterInbox : Goto(h, step)
  BY DEF QueryPending, AfterInbox, AfterLock
<1> QED
  BY <1>1, <1>2, <1>3, ExecutedFacts, GotoOrderly

\* A parked reversal and what a resolution makes of it.
LEMMA ParkedFacts ==
    ASSUME StoreTypeOK, RowsInv, NEW k \in ExtId, PendingReference(k)
    PROVE  /\ k \in TxKey /\ wager[k] \in WagerRow /\ wager[k] # None
           /\ wager[k].status = "PENDING_REFERENCE"
           /\ wager[k].kind \in {"REFUND", "ROLLBACK"} /\ wager[k].amount \in Amounts
           /\ wager[k].wallet \in Wallet /\ wager[k].ref \in ExtId \cup {None}
BY DEF PendingReference, Exists, StoreTypeOK, TxKey, WagerRow, RowsInv, ParkedAreReversals, Parked,
       RequiresReference

\* The row a resolution writes back.
Resolved(old, status, code, original) ==
    [old EXCEPT !.status = status, !.code = code, !.resolved = original]

LEMMA ResolvedRow ==
    ASSUME NEW old \in WagerRow, old.status = "PENDING_REFERENCE",
           NEW status, status \in {"PROCESSED", "REJECTED"},
           NEW code, code \in FailureCodes \cup {None},
           NEW original, original \in ExtId \cup {None},
           NEW row, row = Resolved(old, status, code, original)
    PROVE  /\ row \in WagerRow /\ row.status = status /\ row.kind = old.kind
           /\ row.amount = old.amount /\ row.wallet = old.wallet
           /\ ~Terminal(old.status) /\ Follows(old, row)
<1>1. /\ row \in WagerRow /\ row.status = status /\ row.kind = old.kind
      /\ row.amount = old.amount /\ row.wallet = old.wallet
  BY DEF Resolved, WagerRow, Statuses
<1>2. status \in validTransitions[old.status]
  BY DEF validTransitions, Statuses
<1>3. [row EXCEPT !.status = old.status, !.code = old.code, !.resolved = old.resolved,
                  !.attempts = old.attempts, !.deferred = old.deferred] = old
  BY DEF Resolved, WagerRow
<1>4. ~Terminal(old.status)
  BY DEF Terminal
<1> QED
  BY <1>1, <1>2, <1>3, <1>4 DEF Follows

LEMMA RejectionSettles ==
    ASSUME StoreTypeOK, RowsInv, NEW a \in Agent, NEW k \in ExtId, PendingReference(k),
           staged[a][k] = None, holder[k] \in {None, a}, Take(a, k), UNCHANGED tables,
           NEW code \in FailureCodes, RejectPending(a, k, code)
    PROVE  \E row \in WagerRow : Settles(a, k, row)
<1> DEFINE old == wager[k]
           row == Resolved(old, "REJECTED", code, None)
<1>1. /\ old \in WagerRow /\ old.status = "PENDING_REFERENCE" /\ old # None
      /\ wallet[old.wallet].open
  BY ParkedFacts DEF RowsInv, OnOpenWallets
<1>3. /\ staged' = [staged EXCEPT ![a][k] = row]
      /\ Announce(a, "WagerTransactionRejected", k)
  BY DEF RejectPending, Restage, Seen, Resolved
<1>5. row = Resolved(old, "REJECTED", code, None)
  OBVIOUS
<1>6. old = wager[k]
  OBVIOUS
<1> HIDE DEF row, old
<1>2. /\ row \in WagerRow /\ row.status = "REJECTED" /\ ~Terminal(old.status) /\ Follows(old, row)
      /\ row.wallet = old.wallet
  BY <1>1, <1>5, ResolvedRow
<1>4. Settles(a, k, row)
  BY <1>1, <1>2, <1>3, <1>6 DEF Settles, Moves, Parked, NoticeFor
<1> QED
  BY <1>2, <1>4

LEMMA ReversalSettles ==
    ASSUME StoreTypeOK, RowsInv, NEW a \in Agent, NEW k \in ExtId, PendingReference(k),
           staged[a][k] = None, holder[k] \in {None, a}, Take(a, k), UNCHANGED tables,
           NEW w \in Wallet, holder[w] = a, NEW dir \in Directions,
           NEW original \in ExtId \cup {None},
           Affordable(dir, work[a][w].balance, Seen(a, k).amount),
           Restage(a, k, "PROCESSED", None, original), Move(a, w, k, dir, Seen(a, k).amount)
    PROVE  \E row \in WagerRow : Settles(a, k, row)
<1> DEFINE old == wager[k]
           row == Resolved(old, "PROCESSED", None, original)
<1>1. /\ old \in WagerRow /\ old.status = "PENDING_REFERENCE" /\ old # None
      /\ old.kind \in {"REFUND", "ROLLBACK"} /\ wallet[old.wallet].open
  BY ParkedFacts DEF RowsInv, OnOpenWallets
<1>3. staged' = [staged EXCEPT ![a][k] = row] /\ Seen(a, k) = old
  BY DEF Restage, Seen, Resolved
<1>5. row = Resolved(old, "PROCESSED", None, original)
  OBVIOUS
<1>6. old = wager[k]
  OBVIOUS
<1> HIDE DEF row, old
<1>2. /\ row \in WagerRow /\ row.status = "PROCESSED" /\ row.kind = old.kind
      /\ row.amount = old.amount /\ row.wallet = old.wallet
      /\ ~Terminal(old.status) /\ Follows(old, row)
  BY <1>1, <1>5, ResolvedRow
<1>4. Moves(row) /\ MovesFor(a, k, row)
  BY <1>1, <1>2, <1>3 DEF Moves, MovesFor
<1>7. Settles(a, k, row)
  BY <1>1, <1>2, <1>3, <1>4, <1>6 DEF Settles, Parked
<1> QED
  BY <1>2, <1>7

LEMMA ResolutionSettles ==
    ASSUME StoreTypeOK, RowsInv, NEW a \in Agent, NEW k \in ExtId, PendingReference(k),
           staged[a][k] = None, holder[k] \in {None, a}, Take(a, k), UNCHANGED tables,
           NEW w \in Wallet, holder[w] = a, NEW original \in ExtId \cup {None},
           ResolveSinglePendingRef(a, w, k, original)
    PROVE  \E row \in WagerRow : Settles(a, k, row)
<1>1. CASE \E code \in FailureCodes : RejectPending(a, k, code)
  BY <1>1, RejectionSettles
<1>2. ASSUME NEW dir \in Directions,
             Affordable(dir, work[a][w].balance, Seen(a, k).amount),
             Restage(a, k, "PROCESSED", None, original), Move(a, w, k, dir, Seen(a, k).amount)
      PROVE  \E row \in WagerRow : Settles(a, k, row)
  BY <1>2, ReversalSettles
<1> QED
  BY <1>1, <1>2, ResolutionCases

LEMMA ResolvePendingOrderly ==
    ASSUME ServiceInv, NEW h \in Handler, ResolvePending(h)
    PROVE  Orderly(h)
<1> DEFINE c == call[h]
<1>1. /\ pc[h] \in AfterExecute /\ h \in Agent /\ h # None /\ StoreTypeOK /\ RowsInv /\ Owned
      /\ todo[h] \subseteq ExtId
  BY HandlerFacts DEF ResolvePending, AfterExecute, RowsInv, ServiceInv, TypeInv, TypeOK
<1>2. PICK k \in todo[h] : holder[k] = None /\ (Fail(h, "error") \/ ResolveRow(h, k))
  BY DEF ResolvePending
<1>3. k \in ExtId /\ k \in TxKey /\ staged[h][k] = None
  BY <1>1, <1>2 DEF Owned, TxKey
<1>4. CASE Fail(h, "error")
  BY <1>4, FailOrderly
<1>5. PICK step \in AfterInbox : ResolveRow(h, k) => Goto(h, step)
  BY DEF ResolveRow, AfterInbox, AfterLock
<1>6. /\ c.ext \in ExtId /\ wager[c.ext] = None /\ staged[h][c.ext] # None
      /\ staged[h][c.ext].key = c.key /\ c.wallet \in Wallet /\ holder[c.wallet] = h
      /\ staged[h][c.ext].status \in {"PROCESSED", "REJECTED", "PENDING_REFERENCE"}
      /\ pc[h] \in AfterInbox /\ c.ext \in TxKey
  BY <1>1, ExecutedFacts
<1>7. CASE ResolveRow(h, k) /\ ~PendingReference(k)
  <2>1. UNCHANGED storeVars
    BY <1>7 DEF ResolveRow
  <2>2. StoreStep(h) /\ UNCHANGED <<inbox, holder, wager, staged>>
    BY <2>1 DEF StoreStep, storeVars, tables, session
  <2> QED
    BY <1>5, <1>6, <1>7, <2>2, GotoOrderly
<1>8. CASE ResolveRow(h, k) /\ PendingReference(k)
  <2>1. Take(h, k) /\ ResolveSinglePendingRef(h, c.wallet, k, c.ext) /\ UNCHANGED tables
    BY <1>8 DEF ResolveRow
  <2>2. PICK row \in WagerRow : Settles(h, k, row)
    BY <1>1, <1>2, <1>3, <1>6, <1>8, <2>1, ResolutionSettles
  <2>3. StoreStep(h) /\ inbox' = inbox /\ wager' = wager
    BY <1>3, <2>1, <2>2 DEF StoreStep, tables
  <2>4. staged'[h][c.ext] = staged[h][c.ext]
    <3>1. c.ext # k
      BY <1>3, <1>6
    <3> QED
      BY <1>1, <1>3, <1>6, <2>2, <3>1, SettlesApart
  <2>5. \A m \in Msg : holder'[m] = holder[m]
    BY <1>1, <1>3, <2>1, StoreAssumption, Resources DEF Take, StoreTypeOK
  <2> QED
    BY <1>5, <1>6, <1>8, <2>3, <2>4, <2>5, GotoOrderly
<1> QED
  BY <1>2, <1>4, <1>7, <1>8

LEMMA CommitWagerOrderly ==
    ASSUME ServiceInv, NEW h \in Handler, CommitWager(h)
    PROVE  Orderly(h)
<1> DEFINE c == call[h]
           row == staged[h][c.ext]
           rows == Remember(h)
<1>1. /\ pc[h] \in AfterExecute /\ pc[h] # "idle" /\ h \in Agent /\ StoreTypeOK
  BY HandlerFacts DEF CommitWager, AfterExecute
<1>2. /\ c.ext \in ExtId /\ c.ext \in TxKey /\ wager[c.ext] = None /\ row # None /\ row \in WagerRow
      /\ row.key = c.key /\ row.status \in {"PROCESSED", "REJECTED", "PENDING_REFERENCE"}
      /\ c \in Calls /\ c.kind # "OPENING" /\ pc[h] \in AfterInbox /\ c.key \in Key \cup {None}
  BY <1>1, ExecutedFacts, CallFields DEF StoreTypeOK
<1>3. CASE RetryOrGiveUp(h)
  BY <1>1, <1>3, RetryOrderly
<1>4. CASE /\ Stored(c) = None \/ row.status = "PENDING_REFERENCE"
           /\ Return(h, Result(row.status))
           /\ Commit(h, rows)
  <2>1. rows \in [Key -> IdemRow \cup {None}]
    BY <1>1, <1>2, RememberType
  <2>2. wager'[c.ext] = row /\ idem' = rows
    BY <1>2, <1>4 DEF Commit, Seen
  <2>3. c.key # None /\ row.status # "PENDING_REFERENCE" =>
            /\ idem[c.key] = None
            /\ \A key \in Key \ {c.key} : rows[key] = idem[key]
            /\ rows[c.key] # None /\ rows[c.key].tx = c.ext
            /\ rows[c.key].status = row.status /\ rows[c.key].hash = c.hash
    <3> SUFFICES ASSUME c.key # None, row.status # "PENDING_REFERENCE"
                 PROVE  /\ idem[c.key] = None
                        /\ \A key \in Key \ {c.key} : rows[key] = idem[key]
                        /\ rows[c.key] # None /\ rows[c.key].tx = c.ext
                        /\ rows[c.key].status = row.status /\ rows[c.key].hash = c.hash
      OBVIOUS
    <3> DEFINE record == [hash |-> c.hash, tx |-> c.ext, status |-> row.status,
                          balance |-> work[h][c.wallet].balance]
    <3>1. rows = [idem EXCEPT ![c.key] = record]
      BY DEF Remember
    <3>2. idem[c.key] = None /\ c.key \in Key
      BY <1>2, <1>4 DEF Stored
    <3>3. record.tx = c.ext /\ record.status = row.status /\ record.hash = c.hash
      OBVIOUS
    <3> HIDE DEF record, rows
    <3>4. rows[c.key] = record /\ \A key \in Key \ {c.key} : rows[key] = idem[key]
      BY <1>1, <3>1, <3>2 DEF StoreTypeOK
    <3>5. record # None
      <4>1. record \in IdemRow
        <5>1. c.hash \in Hash /\ c.wallet \in Wallet
          BY <1>2, CallFields
        <5>2. work[h][c.wallet].balance \in Balances /\ row.status \in Statuses
          BY <1>1, <1>2, <5>1 DEF StoreTypeOK, WalletRow, WagerRow
        <5> QED
          BY <1>2, <5>1, <5>2 DEF IdemRow, record
      <4> QED
        BY <4>1, RowAssumption
    <3> QED
      BY <3>2, <3>3, <3>4, <3>5
  <2>4. c.key = None \/ row.status = "PENDING_REFERENCE" => rows = idem
    BY DEF Remember
  <2>5. call'[h] = c /\ answer'[h] = Result(row.status)
    BY <1>4, ReturnFacts
  <2> HIDE DEF rows
  <2>6. Remembers(h, rows)
    BY <1>2, <2>3, <2>4 DEF Remembers, Terminal
  <2>7. Durable(h)'
    <3> HIDE DEF row, c
    <3>1. CASE row.status = "PENDING_REFERENCE"
      BY <1>2, <2>2, <2>5, <3>1 DEF Durable, Result, c
    <3>2. CASE row.status = "PROCESSED"
      BY <1>2, <2>2, <2>3, <2>5, <3>2 DEF Durable, Result, c
    <3>3. CASE row.status = "REJECTED"
      BY <1>2, <2>2, <2>3, <2>5, <3>3 DEF Durable, Result, c
    <3> QED
      BY <1>2, <3>1, <3>2, <3>3
  <2> QED
    BY <1>2, <1>4, <2>1, <2>2, <2>6, <2>7, CommitOrderly
<1> QED
  BY <1>3, <1>4 DEF CommitWager

LEMMA FinishOrderly ==
    ASSUME ServiceInv, NEW h \in Handler, Finish(h)
    PROVE  Orderly(h)
<1>1. UNCHANGED storeVars /\ pc[h] = "done"
  BY DEF Finish
<1>2. pc'[h] = "idle" /\ \A g \in Handler \ {h} : SameControl(g)
  BY DEF Finish, Forget, ServiceInv, TypeInv, TypeOK, SameControl
<1>3. HandlerFlow(h)'
  BY <1>2 DEF HandlerFlow, AfterExecute, AfterInbox, AfterLock
<1>4. \A m \in Msg : holder'[m] # h
  BY <1>1, HandlerFacts DEF storeVars, session, AfterInbox, AfterLock
<1>5. inbox' = inbox /\ StoreStep(h)
  BY <1>1 DEF storeVars, tables, StoreStep
<1> QED
  BY <1>2, <1>3, <1>4, <1>5 DEF Orderly

LEMMA ReceiveOrderly ==
    ASSUME ServiceInv, NEW h \in Handler, Receive(h)
    PROVE  Orderly(h)
<1>1. UNCHANGED storeVars /\ pc[h] = "idle"
  BY DEF Receive
<1>2. PICK c \in Calls : pc' = [pc EXCEPT ![h] = FirstStep(c)] /\ call' = [call EXCEPT ![h] = c]
  BY DEF Receive
<1>3. /\ pc'[h] \in {"open", "inbox", "idem"} /\ call'[h] = c
      /\ (pc'[h] = "idem" => c.channel # "SQS")
      /\ \A g \in Handler \ {h} : SameControl(g)
  BY <1>2 DEF Receive, FirstStep, ServiceInv, TypeInv, TypeOK, SameControl
<1>4. HandlerFlow(h)'
  BY <1>3 DEF HandlerFlow, AfterExecute, AfterInbox, AfterLock
<1>5. \A m \in Msg : holder'[m] # h
  BY <1>1, HandlerFacts DEF storeVars, session, AfterInbox, AfterLock
<1>6. inbox' = inbox /\ StoreStep(h)
  BY <1>1 DEF storeVars, tables, StoreStep
<1> QED
  BY <1>3, <1>4, <1>5, <1>6 DEF Orderly

LEMMA AbandonOrderly ==
    ASSUME ServiceInv, NEW h \in Handler, Abandon(h)
    PROVE  Orderly(h)
<1>1. Rollback(h) /\ EndSession(h) /\ UNCHANGED tables
  BY DEF Abandon, Rollback
<1>2. pc'[h] = "idle" /\ \A g \in Handler \ {h} : SameControl(g)
  BY DEF Abandon, Forget, ServiceInv, TypeInv, TypeOK, SameControl
<1>3. HandlerFlow(h)'
  BY <1>2 DEF HandlerFlow, AfterExecute, AfterInbox, AfterLock
<1>4. \A m \in Msg : holder'[m] # h
  BY <1>1, HandlerFacts, EndApart, Resources
<1>5. StoreStep(h) /\ inbox' = inbox
  BY <1>1 DEF StoreStep, tables
<1> QED
  BY <1>2, <1>3, <1>4, <1>5 DEF Orderly

LEMMA HandlerOrderly ==
    ASSUME ServiceInv, NEW h \in Handler, Receive(h) \/ HandlerStep(h) \/ Abandon(h)
    PROVE  Orderly(h)
BY CheckWalletOrderly, InsertWalletOrderly, ClaimInboxOrderly, CheckIdempotencyOrderly,
   LockWalletOrderly, ExecuteOrderly, QueryPendingOrderly, ResolvePendingOrderly,
   CommitWagerOrderly, FinishOrderly, ReceiveOrderly, AbandonOrderly DEF HandlerStep

-----------------------------------------------------------------------------
(* The invariant.                                                          *)

LEMMA InitServiceInv == ServiceInit => ServiceInv /\ Complete
<1> SUFFICES ASSUME ServiceInit PROVE ServiceInv /\ Complete
  OBVIOUS
<1>1. TypeInv /\ StoreBooks
  BY InitBooks, BooksOfTheStore DEF BooksInv
<1>2. /\ \A k \in TxKey : wager[k] = None
      /\ \A w \in Wallet : wallet[w] = ClosedWallet /\ ledger[w] = <<>>
      /\ \A key \in Key : idem[key] = None
      /\ inbox = {} /\ outbox = {}
      /\ \A r \in Resource : holder[r] = None
      /\ \A a \in Agent : /\ events[a] = {}
                          /\ \A w \in Wallet : entries[a][w] = <<>>
                          /\ \A k \in TxKey : staged[a][k] = None
      /\ \A h \in Handler : pc[h] = "idle"
  BY DEF ServiceInit, StoreInit
<1>3. RowsInv /\ NoneHalfway
  BY <1>2, StoreAssumption DEF RowsInv, Owned, OpenedFirst, OnOpenWallets, ParkedAreReversals,
                               Parked, NoneHalfway, TxKey
<1>4. Postings
  <2>1. \A k \in TxKey : NoRow(ledger, k)
    BY <1>2 DEF NoRow
  <2>2. \A a \in Agent : \A k \in TxKey : NoRow(entries[a], k)
    BY <1>2 DEF NoRow
  <2> QED
    BY <1>2, <2>1, <2>2 DEF Postings, Posted, PrivatePosted
<1>5. Told
  <2>1. Tells(outbox, NoLedger, ledger, wager)
    BY <1>2, NothingToTell DEF NoLedger
  <2>2. ASSUME NEW a \in Agent PROVE Tells(events[a], ledger, Extended(a), staged[a])
    <3>0. <<>> \o <<>> = <<>> /\ Len(<<>>) \in Nat
      OBVIOUS
    <3>1. \A w \in Wallet : Extended(a)[w] = ledger[w] /\ Len(ledger[w]) \in Nat
      BY <1>2, <3>0 DEF Extended
    <3>2. events[a] = {} /\ \A k \in TxKey : staged[a][k] = None
      BY <1>2
    <3> QED
      BY <3>1, <3>2, NothingToTell
  <2> QED
    BY <1>2, <2>1, <2>2 DEF Told, Parked
<1>6. StoredAnswersHold /\ InboxMeansDone
  BY <1>2 DEF StoredAnswersHold, InboxMeansDone
<1>7. Flow
  BY <1>2, StoreAssumption, Resources
     DEF Flow, MessageLocks, HandlerFlow, AfterExecute, AfterInbox, AfterLock
<1> QED
  BY <1>1, <1>3, <1>4, <1>5, <1>6, <1>7 DEF ServiceInv, StoreInv, Complete

LEMMA StepServiceInv ==
    ASSUME ServiceInv, [ServiceNext]_vars
    PROVE  /\ ServiceInv' /\ Kept
           /\ UNCHANGED storeVars \/ \E h \in Handler : StoreStep(h)
<1>1. BooksInv
  BY BooksOfTheStore DEF ServiceInv, StoreInv, StoreBooks, BooksInv
<1>2. TypeInv' /\ StoreBooks'
  <2>1. BooksInv'
    BY <1>1, StepBooks
  <2> QED
    BY <2>1, BooksOfTheStore DEF BooksInv, StoreBooks, TypeInv, TypeOK
<1>3. ASSUME NEW h \in Handler, Receive(h) \/ HandlerStep(h) \/ Abandon(h)
      PROVE  ServiceInv' /\ Kept /\ \E g \in Handler : StoreStep(g)
  BY <1>2, <1>3, HandlerOrderly, OrderlyKeeps DEF Orderly
<1>4. CASE UNCHANGED vars
  <2>1. Kept
    BY <1>4, FollowsItself
       DEF vars, storeVars, tables, Kept, ServiceInv, StoreInv, StoreBooks, StoreTypeOK
  <2>2. StoredAnswersHold' /\ InboxMeansDone' /\ MessageLocks'
    BY <1>4 DEF vars, storeVars, tables, session, control, ServiceInv, StoredAnswersHold,
                InboxMeansDone, Stored, Flow, MessageLocks
  <2>3. ASSUME NEW h \in Handler PROVE HandlerFlow(h)'
    BY <1>4 DEF vars, storeVars, tables, session, control, ServiceInv, Flow, HandlerFlow, Durable
  <2>4. RowsInv'
    BY <1>4 DEF vars, storeVars, tables, session, ServiceInv, StoreInv, RowsInv, Owned,
                OpenedFirst, OnOpenWallets, ParkedAreReversals, Parked
  <2>5. Postings'
    BY <1>4 DEF vars, storeVars, tables, session, ServiceInv, StoreInv, Postings, Posted,
                PrivatePosted
  <2> QED
    BY <1>2, <1>4, <2>1, <2>2, <2>3, <2>4, <2>5
       DEF ServiceInv, StoreInv, RowsInv, Flow, vars
<1> QED
  BY <1>3, <1>4 DEF ServiceNext, vars

LEMMA CompleteStutters ==
    ASSUME Complete, UNCHANGED storeVars
    PROVE  Complete'
<1>1. NoneHalfway'
  BY DEF storeVars, tables, Complete, NoneHalfway
<1>2. Told'
  BY DEF storeVars, tables, session, Complete, Told, Extended, Parked
<1> QED
  BY <1>1, <1>2 DEF Complete

LEMMA StepComplete ==
    ASSUME ServiceInv, Complete, [ServiceNext]_vars
    PROVE  Complete'
<1>1. StoreInv /\ StoreTypeOK' /\ (UNCHANGED storeVars \/ \E h \in Handler : StoreStep(h))
  BY StepServiceInv DEF ServiceInv, StoreInv, StoreBooks
<1> QED
  BY <1>1, HandlersAreAgents, StoreStepCompletes, CompleteStutters

-----------------------------------------------------------------------------
(* What follows from it.                                                   *)

LEMMA PostingsMeanOne == StoreInv /\ Complete => ExactlyOnePosting
<1> SUFFICES ASSUME StoreInv, Complete, NEW k \in TxKey
             PROVE  IF MovedMoney(k)
                    THEN \E w \in Wallet : \E i \in RowsOf(w, k) :
                             /\ ledger[w][i].amount = wager[k].amount
                             /\ RowsOf(w, k) = {i}
                             /\ \A v \in Wallet \ {w} : RowsOf(v, k) = {}
                    ELSE \A w \in Wallet : RowsOf(w, k) = {}
  BY DEF ExactlyOnePosting
<1>1. Posted(k) /\ (wager[k] # None => wager[k].status # "PENDING")
  BY DEF StoreInv, Postings, Complete, NoneHalfway
<1>2. CASE MovedMoney(k)
  <2>1. OneRow(ledger, k, wager[k].amount)
    BY <1>1, <1>2 DEF MovedMoney, Posted, Moves
  <2>2. PICK w \in Wallet : \E i \in 1..Len(ledger[w]) :
            /\ ledger[w][i].tx = k /\ ledger[w][i].amount = wager[k].amount
            /\ \A v \in Wallet : \A j \in 1..Len(ledger[v]) :
                  ledger[v][j].tx = k => v = w /\ j = i
    BY <2>1 DEF OneRow
  <2>3. PICK i \in 1..Len(ledger[w]) :
            /\ ledger[w][i].tx = k /\ ledger[w][i].amount = wager[k].amount
            /\ \A v \in Wallet : \A j \in 1..Len(ledger[v]) :
                  ledger[v][j].tx = k => v = w /\ j = i
    BY <2>2
  <2>4. RowsOf(w, k) = {i} /\ \A v \in Wallet \ {w} : RowsOf(v, k) = {}
    BY <2>3 DEF RowsOf
  <2> QED
    BY <1>2, <2>3, <2>4
<1>3. CASE ~MovedMoney(k)
  <2>1. NoRow(ledger, k)
    BY <1>1, <1>3 DEF MovedMoney, Posted, Moves
  <2> QED
    BY <1>3, <2>1 DEF NoRow, RowsOf
<1> QED
  BY <1>2, <1>3

LEMMA ToldMeansTables == StoreInv /\ Complete => OutboxTellsTheTables
<1> SUFFICES ASSUME StoreInv, Complete PROVE OutboxTellsTheTables
  OBVIOUS
<1>1. /\ Tells(outbox, NoLedger, ledger, wager) /\ outbox \subseteq Event /\ StoreTypeOK
      /\ \A k \in TxKey : Parked(wager[k]) =>
            Notice("WagerTransactionPendingReference", k) \in outbox
  BY DEF StoreInv, Complete, Told, StoreBooks, StoreTypeOK
<1>2. ASSUME NEW w \in Wallet
      PROVE  /\ (Len(NoLedger[w]) + 1)..Len(ledger[w]) = 1..Len(ledger[w])
             /\ \A i \in 1..Len(ledger[w]) : RowEvent(w, ledger[w], i) = EventOfEntry(w, i)
  <2>1. NoLedger[w] = <<>> /\ Len(<<>>) = 0
    BY DEF NoLedger
  <2> QED
    BY <2>1 DEF RowEvent, EventOfEntry
<1>3. ASSUME NEW e \in outbox
      PROVE  \/ e \in BalanceEventsDue /\ e.type = "WalletBalanceChanged"
             \/ e \in StatusEventsDue /\ e.type # "WagerTransactionPendingReference"
             \/ /\ e.type = "WagerTransactionPendingReference"
                /\ wager[e.tx] # None /\ RequiresReference(wager[e.tx].kind)
  <2>1. CASE AboutRow(e, NoLedger, ledger)
    <3>1. PICK w \in Wallet : \E i \in (Len(NoLedger[w]) + 1)..Len(ledger[w]) :
              e = RowEvent(w, ledger[w], i)
      BY <2>1 DEF AboutRow
    <3>2. PICK i \in 1..Len(ledger[w]) : e = RowEvent(w, ledger[w], i)
      BY <1>2, <3>1
    <3>3. e = EventOfEntry(w, i)
      BY <1>2, <3>2
    <3>4. e.type = "WalletBalanceChanged"
      BY <3>2 DEF RowEvent
    <3> QED
      BY <3>3, <3>4 DEF BalanceEventsDue
  <2>2. CASE AboutStatus(e, wager)
    BY <2>2 DEF AboutStatus, StatusEventsDue, Notice
  <2>3. CASE AboutParking(e, wager)
    BY <2>3 DEF AboutParking, Notice
  <2> QED
    BY <1>1, <2>1, <2>2, <2>3 DEF Tells
<1>4. ASSUME NEW e \in BalanceEventsDue
      PROVE  e \in outbox /\ e.type = "WalletBalanceChanged"
  <2>1. PICK w \in Wallet : \E i \in 1..Len(ledger[w]) : e = EventOfEntry(w, i)
    BY DEF BalanceEventsDue
  <2>2. PICK i \in 1..Len(ledger[w]) : e = EventOfEntry(w, i)
    BY <2>1
  <2>3. e = RowEvent(w, ledger[w], i)
    BY <1>2, <2>2
  <2>4. i \in (Len(NoLedger[w]) + 1)..Len(ledger[w])
    BY <1>2, <2>2
  <2>5. e \in outbox
    BY <1>1, <2>3, <2>4 DEF Tells
  <2> QED
    BY <2>3, <2>5 DEF RowEvent
<1>5. ASSUME NEW e \in StatusEventsDue
      PROVE  e \in outbox /\ e.type # "WagerTransactionPendingReference"
  <2>1. PICK k \in TxKey : /\ wager[k] # None
                           /\ \/ /\ wager[k].status = "PROCESSED"
                                 /\ e = Notice("WagerTransactionProcessed", k)
                              \/ /\ wager[k].status = "REJECTED"
                                 /\ e = Notice("WagerTransactionRejected", k)
    BY DEF StatusEventsDue
  <2>2. e \in outbox
    BY <1>1, <2>1 DEF Tells
  <2> QED
    BY <2>1, <2>2 DEF Notice
<1>6. outbox \ ParkingNotices = BalanceEventsDue \cup StatusEventsDue
  BY <1>3, <1>4, <1>5 DEF ParkingNotices
<1>7. \A k \in ExtId : PendingReference(k) =>
          Notice("WagerTransactionPendingReference", k) \in outbox
  BY <1>1 DEF PendingReference, Exists, Parked, TxKey
<1>8. \A e \in ParkingNotices : wager[e.tx] # None /\ RequiresReference(wager[e.tx].kind)
  <2>1. ASSUME NEW e \in ParkingNotices
        PROVE  wager[e.tx] # None /\ RequiresReference(wager[e.tx].kind)
    <3>1. e \in outbox /\ e.type = "WagerTransactionPendingReference"
      BY DEF ParkingNotices
    <3>2. e \notin BalanceEventsDue
      BY <1>4, <3>1
    <3> QED
      BY <1>3, <3>1, <3>2
  <2> QED
    BY <2>1
<1> QED
  BY <1>6, <1>7, <1>8 DEF OutboxTellsTheTables

LEMMA FlowMeansDurable == ServiceInv => AnswersAreDurable
<1> SUFFICES ASSUME ServiceInv, NEW h \in Handler, pc[h] = "done"
             PROVE  LET c == call[h] IN
                    CASE answer[h] = "processed" \/ answer[h] = "rejected"
                           -> /\ wager[c.ext] # None
                              /\ Result(wager[c.ext].status) = answer[h]
                              /\ c.key # None => idem[c.key] # None /\ idem[c.key].tx = c.ext
                      [] answer[h] = "pending" -> wager[c.ext] # None
                      [] answer[h] = "replay"
                           -> IF c.channel = "SQS" THEN c.msg \in inbox
                              ELSE idem[c.key] # None /\ idem[c.key].hash = c.hash
                      [] answer[h] = "opened" -> wallet[c.wallet].open
                      [] OTHER -> TRUE
  BY DEF AnswersAreDurable
<1>1. Durable(h)
  BY DEF ServiceInv, Flow, HandlerFlow
<1> QED
  BY <1>1 DEF Durable, Result

\* The first rows of an extended ledger are the ledger.
LEMMA ConcatPrefix ==
    ASSUME NEW s \in Seq(EntryRow), NEW t \in Seq(EntryRow)
    PROVE  /\ SubSeq(s \o t, 1, Len(s)) = s
           /\ Len(s \o t) = Len(s) + Len(t) /\ Len(s) \in Nat /\ Len(t) \in Nat
OBVIOUS

\* What a step does to the ledger of a wallet that exists.
Grows(w) ==
    \E added \in Seq(EntryRow) :
        /\ ledger'[w] = ledger[w] \o added
        /\ wallet[w].open => wallet'[w].version = wallet[w].version + Len(added)

LEMMA LedgerStays ==
    ASSUME StoreTypeOK, NEW w \in Wallet, ledger'[w] = ledger[w],
           wallet[w].open => wallet'[w] = wallet[w]
    PROVE  Grows(w)
<1> DEFINE none == <<>>
<1>1. ledger[w] \in Seq(EntryRow) /\ wallet[w].version \in Nat
  BY DEF StoreTypeOK, WalletRow
<1>2. /\ none \in Seq(EntryRow) /\ ledger[w] \o none = ledger[w]
      /\ wallet[w].version + Len(none) = wallet[w].version
  BY <1>1
<1> HIDE DEF none
<1>3. /\ ledger'[w] = ledger[w] \o none
      /\ wallet[w].open => wallet'[w].version = wallet[w].version + Len(none)
  BY <1>2
<1> QED
  BY <1>2, <1>3 DEF Grows

LEMMA LedgerExtended ==
    ASSUME StoreTypeOK, NEW w \in Wallet, NEW e \in EntryRow,
           ledger'[w] = Append(ledger[w], e),
           wallet[w].open => wallet'[w].version = wallet[w].version + 1
    PROVE  Grows(w)
<1>1. ledger[w] \in Seq(EntryRow)
  BY DEF StoreTypeOK
<1>2. <<e>> \in Seq(EntryRow) /\ Append(ledger[w], e) = ledger[w] \o <<e>> /\ Len(<<e>>) = 1
  BY <1>1
<1> DEFINE added == <<e>>
<1>3. /\ added \in Seq(EntryRow)
      /\ ledger'[w] = ledger[w] \o added
      /\ wallet[w].open => wallet'[w].version = wallet[w].version + Len(added)
  BY <1>2
<1> HIDE DEF added
<1> QED
  BY <1>3 DEF Grows

LEMMA LedgerGrows ==
    ASSUME StoreBooks, NEW a \in Agent, StoreStep(a), NEW w \in Wallet
    PROVE  Grows(w)
<1>1. /\ StoreTypeOK /\ PrivateBooks(a, w)
      /\ ledger[w] \in Seq(EntryRow) /\ entries[a][w] \in Seq(EntryRow)
      /\ wallet[w].version \in Nat
  BY PrivatePart DEF StoreBooks, StoreTypeOK, WalletRow
<1>2. ledger'[w] = ledger[w] /\ (wallet[w].open => wallet'[w] = wallet[w]) => Grows(w)
  BY <1>1, LedgerStays
<1>3. ASSUME NEW rows, Commit(a, rows)
      PROVE  Grows(w)
  <2>1. /\ ledger'[w] = ledger[w] \o entries[a][w]
        /\ wallet'[w] = IF holder[w] = a THEN work[a][w] ELSE wallet[w]
    BY <1>3 DEF Commit
  <2>2. CASE holder[w] = a
    BY <1>1, <2>1, <2>2 DEF PrivateBooks, VersionMatches, Grows
  <2>3. CASE holder[w] # a
    <3>1. entries[a][w] = <<>>
      BY <1>1, <2>3 DEF PrivateBooks
    <3>2. ledger'[w] = ledger[w] /\ wallet'[w] = wallet[w]
      BY <1>1, <2>1, <2>3, <3>1
    <3> QED
      BY <1>2, <3>2
  <2> QED
    BY <2>2, <2>3
<1>4. ASSUME NEW c \in Calls, Opens(c)
      PROVE  Grows(w)
  <2>1. CASE c.wallet = w /\ c.amount > 0
    <3> DEFINE e == OpeningEntry(c)
    <3>1. e \in EntryRow
      BY <1>4, OpeningTypes DEF e, Opens
    <3>2. ledger'[w] = Append(ledger[w], e) /\ ~wallet[w].open
      BY <1>1, <1>4, <2>1 DEF Opens, StoreTypeOK
    <3> HIDE DEF e
    <3> QED
      BY <1>1, <3>1, <3>2, LedgerExtended
  <2>2. CASE ~(c.wallet = w /\ c.amount > 0)
    <3>1. ledger'[w] = ledger[w]
      BY <1>1, <1>4, <2>2 DEF Opens, StoreTypeOK
    <3>2. wallet[w].open => wallet'[w] = wallet[w]
      BY <1>1, <1>4 DEF Opens, StoreTypeOK
    <3> QED
      BY <1>2, <3>1, <3>2
  <2> QED
    BY <2>1, <2>2
<1>5. CASE UNCHANGED <<wallet, ledger>>
  BY <1>2, <1>5
<1> QED
  BY <1>3, <1>4, <1>5 DEF StoreStep, storeVars, tables, Rollback, Grabs, Settles

-----------------------------------------------------------------------------
(* The theorems.                                                           *)

LEMMA ServiceInvHolds == ServiceSpec => []ServiceInv
<1>1. ServiceInv /\ [ServiceNext]_vars => ServiceInv'
  BY StepServiceInv
<1> QED
  BY <1>1, InitServiceInv, PTL DEF ServiceSpec

LEMMA CompleteHolds == ServiceSpec => []Complete
<1>1. ServiceInv /\ Complete /\ [ServiceNext]_vars => Complete'
  BY StepComplete
<1> QED
  BY <1>1, InitServiceInv, ServiceInvHolds, PTL DEF ServiceSpec

\* A processed transaction, LOSS aside, owns exactly one ledger row of its own amount, and
\* no other transaction owns any, however many handlers retry, are redelivered or die, and
\* whichever of them resolves a parked reversal (wager_service.go 253-462, 785-937).
THEOREM TransactionsArePostedOnce == ServiceSpec => []ExactlyOnePosting
<1>1. ServiceInv /\ Complete => ExactlyOnePosting
  BY PostingsMeanOne DEF ServiceInv
<1> QED
  BY <1>1, ServiceInvHolds, CompleteHolds, PTL

\* The outbox holds the event of every ledger row and of every settled transaction, and
\* nothing else but the notices of reversals that are or were parked (outbox_repo.go 28-60).
THEOREM OutboxAlwaysTellsTheTables == ServiceSpec => []OutboxTellsTheTables
<1>1. ServiceInv /\ Complete => OutboxTellsTheTables
  BY ToldMeansTables DEF ServiceInv
<1> QED
  BY <1>1, ServiceInvHolds, CompleteHolds, PTL

\* The stored answer of a key is about a settled transaction sent under that key and gives
\* the status its row still has (idempotency_repo.go 27-77, wager_service.go 430-445).
THEOREM StoredAnswersAlwaysHold == ServiceSpec => []StoredAnswersHold
<1>1. ServiceInv => StoredAnswersHold
  BY DEF ServiceInv
<1> QED
  BY <1>1, ServiceInvHolds, PTL

\* A message is in the inbox only with its effect, so deleting it loses nothing
\* (wager_service.go 478-547, sqs_consumer.go 314-320).
THEOREM InboxAlwaysMeansDone == ServiceSpec => []InboxMeansDone
<1>1. ServiceInv => InboxMeansDone
  BY DEF ServiceInv
<1> QED
  BY <1>1, ServiceInvHolds, PTL

\* An answer is given only for what is committed, and stays true until it is delivered.
THEOREM AnswersAreAlwaysDurable == ServiceSpec => []AnswersAreDurable
<1>1. ServiceInv => AnswersAreDurable
  BY FlowMeansDurable
<1> QED
  BY <1>1, ServiceInvHolds, PTL

\* SettledForGood, one step of it.
RowsFollow ==
    \A k \in TxKey : wager[k] # None =>
          /\ wager'[k] # None
          /\ wager'[k].status = wager[k].status
             \/ wager'[k].status \in validTransitions[wager[k].status]
          /\ Terminal(wager[k].status) => wager'[k] = wager[k]
          /\ [wager'[k] EXCEPT !.status = wager[k].status, !.code = wager[k].code,
                               !.resolved = wager[k].resolved, !.attempts = wager[k].attempts,
                               !.deferred = wager[k].deferred] = wager[k]

\* A transaction row changes only along validTransitions and a settled one never
\* (wager_transaction.go 45-60).
THEOREM SettlementsAreFinal == ServiceSpec => SettledForGood
<1>1. ServiceInv /\ [ServiceNext]_vars => [RowsFollow]_vars
  BY StepServiceInv DEF Kept, Follows, RowsFollow
<1> QED
  BY <1>1, ServiceInvHolds, PTL DEF ServiceSpec, SettledForGood, RowsFollow

\* HistoryIsKept, one step of it.
HistoryGrows ==
    /\ \A w \in Wallet :
          /\ Len(ledger[w]) <= Len(ledger'[w])
          /\ SubSeq(ledger'[w], 1, Len(ledger[w])) = ledger[w]
          /\ wallet[w].open => wallet'[w].version - wallet[w].version
                                  = Len(ledger'[w]) - Len(ledger[w])
    /\ \A key \in Key : idem[key] # None => idem'[key] = idem[key]

LEMMA GrowthIsHistory ==
    ASSUME StoreTypeOK, Kept, \A w \in Wallet : Grows(w)
    PROVE  HistoryGrows
<1>1. ASSUME NEW w \in Wallet
      PROVE  /\ Len(ledger[w]) <= Len(ledger'[w])
             /\ SubSeq(ledger'[w], 1, Len(ledger[w])) = ledger[w]
             /\ wallet[w].open => wallet'[w].version - wallet[w].version
                                     = Len(ledger'[w]) - Len(ledger[w])
  <2> DEFINE s == ledger[w]
  <2>1. PICK added \in Seq(EntryRow) :
            /\ ledger'[w] = s \o added
            /\ wallet[w].open => wallet'[w].version = wallet[w].version + Len(added)
    BY DEF Grows
  <2>2. s \in Seq(EntryRow) /\ wallet[w].version \in Nat
    BY DEF StoreTypeOK, WalletRow
  <2> HIDE DEF s
  <2>3. /\ SubSeq(s \o added, 1, Len(s)) = s
        /\ Len(s \o added) = Len(s) + Len(added) /\ Len(s) \in Nat /\ Len(added) \in Nat
    BY <2>2, ConcatPrefix
  <2>4. /\ Len(s) <= Len(ledger'[w])
        /\ SubSeq(ledger'[w], 1, Len(s)) = s
        /\ wallet[w].open => wallet'[w].version - wallet[w].version
                                = Len(ledger'[w]) - Len(s)
    BY <2>1, <2>2, <2>3
  <2> QED
    BY <2>4 DEF s
<1> QED
  BY <1>1 DEF HistoryGrows, Kept

\* The ledger only grows, a wallet's version counts what it grows by, and no stored answer
\* is replaced (wallet_repo.go 114-140, ledger_repo.go 27-51, idempotency_repo.go 50-77).
THEOREM HistoryIsAlwaysKept == ServiceSpec => HistoryIsKept
<1>1. ASSUME ServiceInv, [ServiceNext]_vars PROVE [HistoryGrows]_vars
  <2>1. StoreBooks /\ StoreTypeOK
    BY <1>1 DEF ServiceInv, StoreInv, StoreBooks
  <2>2. Kept /\ (UNCHANGED storeVars \/ \E h \in Handler : StoreStep(h))
    BY <1>1, StepServiceInv
  <2>3. ASSUME NEW w \in Wallet PROVE Grows(w)
    <3>1. CASE UNCHANGED storeVars
      BY <2>1, <3>1, LedgerStays DEF storeVars, tables
    <3>2. ASSUME NEW h \in Handler, StoreStep(h) PROVE Grows(w)
      BY <2>1, <3>2, HandlersAreAgents, LedgerGrows
    <3> QED
      BY <2>2, <3>1, <3>2
  <2> QED
    BY <2>1, <2>2, <2>3, GrowthIsHistory
<1> QED
  BY <1>1, ServiceInvHolds, PTL DEF ServiceSpec, HistoryIsKept, HistoryGrows

-----------------------------------------------------------------------------
(* The service implements the book.                                        *)

\* The committed rows of a ledger stay where they are.
LEMMA LedgerPrefix ==
    ASSUME StoreBooks, NEW a \in Agent, StoreStep(a), NEW w \in Wallet
    PROVE  /\ Len(ledger[w]) \in Nat /\ Len(ledger'[w]) \in Nat
           /\ Len(ledger[w]) <= Len(ledger'[w])
           /\ SubSeq(ledger'[w], 1, Len(ledger[w])) = ledger[w]
           /\ \A i \in 1..Len(ledger[w]) : i \in 1..Len(ledger'[w]) /\ ledger'[w][i] = ledger[w][i]
<1> DEFINE s == ledger[w]
<1>1. PICK added \in Seq(EntryRow) : ledger'[w] = s \o added
  BY LedgerGrows DEF Grows
<1>2. s \in Seq(EntryRow)
  BY DEF StoreBooks, StoreTypeOK
<1> HIDE DEF s
<1> DEFINE t == s \o added
<1>3. /\ SubSeq(t, 1, Len(s)) = s
      /\ Len(t) = Len(s) + Len(added) /\ Len(s) \in Nat /\ Len(added) \in Nat
      /\ \A i \in 1..Len(s) : t[i] = s[i]
  BY <1>2, ConcatPrefix, ConcatAt
<1>4. ledger'[w] = t
  BY <1>1
<1> HIDE DEF t
<1>5. /\ Len(s) \in Nat /\ Len(t) \in Nat /\ Len(s) <= Len(t)
      /\ \A i \in 1..Len(s) : i \in 1..Len(t)
  BY <1>3
<1> QED
  BY <1>3, <1>4, <1>5 DEF s

\* A chained ledger is a journal of the book.
LEMMA ChainRuns ==
    ASSUME NEW s \in Seq(EntryRow), Chained(s)
    PROVE  Book!Runs(s)
<1> SUFFICES ASSUME NEW i \in 1..Len(s)
             PROVE  /\ s[i].before = IF i = 1 THEN 0 ELSE s[i - 1].after
                    /\ s[i].after = Book!Result(s[i])
                    /\ s[i].after >= 0
  BY DEF Book!Runs
<1>1. s[i] \in EntryRow
  OBVIOUS
<1>2. s[i].after >= 0
  BY <1>1 DEF EntryRow, Balances
<1>3. s[i].after = Book!Result(s[i])
  BY DEF Chained, EntryMath, Book!Result
<1>4. CASE i = 1
  <2>1. s # <<>>
    OBVIOUS
  <2> QED
    BY <1>2, <1>3, <1>4, <2>1 DEF Chained
<1>5. CASE i # 1
  <2>1. i \in 2..Len(s)
    BY <1>5
  <2> QED
    BY <1>2, <1>3, <1>5, <2>1 DEF Chained
<1> QED
  BY <1>4, <1>5

\* What every step may do to a journal, and to all of them together.
LEMMA BookPosts ==
    ASSUME StoreBooks, StoreBooks', NEW a \in Agent, StoreStep(a), NEW w \in Wallet
    PROVE  Book!Posts(w)
<1>1. /\ Len(ledger[w]) <= Len(ledger'[w])
      /\ SubSeq(ledger'[w], 1, Len(ledger[w])) = ledger[w]
      /\ Len(ledger[w]) \in Nat /\ Len(ledger'[w]) \in Nat
  BY LedgerPrefix
<1>2. ledger'[w] \in Seq(EntryRow) /\ Chained(ledger'[w])
  BY DEF StoreBooks, StoreTypeOK, BooksBalance, Books
<1>3. Book!Runs(ledger'[w])
  BY <1>2, ChainRuns
<1>4. wallet'[w].balance = IF ledger'[w] = <<>> THEN 0 ELSE ledger'[w][Len(ledger'[w])].after
  BY DEF StoreBooks, BooksBalance, Books, LastBalance
<1>5. Len(ledger'[w]) >= Len(ledger[w])
  BY <1>1
<1> QED
  BY <1>1, <1>3, <1>4, <1>5 DEF Book!Posts

LEMMA PostedFate ==
    ASSUME NEW k \in TxKey
    PROVE  Fate(k) = "posted" <=> MovedMoney(k)
BY DEF Fate, MovedMoney, Terminal

LEMMA BookPostsEach ==
    ASSUME StoreInv, StoreInv', Complete, Complete', NEW a \in Agent, StoreStep(a)
    PROVE  Book!PostsEach
<1>1. StoreBooks /\ StoreTypeOK'
  BY DEF StoreInv, StoreBooks
<1>2. \A k \in TxKey : IF MovedMoney(k) THEN OneRow(ledger, k, wager[k].amount)
                       ELSE NoRow(ledger, k)
  BY DEF StoreInv, Postings, Posted, Complete, NoneHalfway, MovedMoney, Moves
<1>3. \A k \in TxKey : IF MovedMoney(k)' THEN OneRow(ledger', k, wager'[k].amount)
                       ELSE NoRow(ledger', k)
  BY DEF StoreInv, Postings, Posted, Complete, NoneHalfway, MovedMoney, Moves
<1>4. ASSUME NEW w \in Wallet
      PROVE  /\ Len(ledger[w]) \in Nat /\ Len(ledger'[w]) \in Nat
             /\ \A i \in 1..Len(ledger[w]) :
                   i \in 1..Len(ledger'[w]) /\ ledger'[w][i] = ledger[w][i]
  BY <1>1, LedgerPrefix
<1>5. ASSUME NEW w \in Wallet, NEW i \in (Len(ledger[w]) + 1)..Len(ledger'[w])
      PROVE  \E k \in TxKey : k = ledger'[w][i].tx /\ MovedMoney(k)' /\ ~MovedMoney(k)
  <2>1. i \in 1..Len(ledger'[w]) /\ i \notin 1..Len(ledger[w])
    BY <1>4, <1>5
  <2>2. PICK k \in TxKey : k = ledger'[w][i].tx
    <3>1. ledger'[w] \in Seq(EntryRow)
      BY <1>1 DEF StoreTypeOK
    <3>2. ledger'[w][i] \in EntryRow
      BY <2>1, <3>1
    <3> QED
      BY <3>2 DEF EntryRow
  <2>3. ~NoRow(ledger', k)
    BY <2>1, <2>2 DEF NoRow
  <2>4. OneRow(ledger', k, wager'[k].amount) /\ MovedMoney(k)'
    BY <1>3, <2>3
  <2>5. ASSUME MovedMoney(k) PROVE FALSE
    <3>1. OneRow(ledger, k, wager[k].amount)
      BY <1>2, <2>5
    <3>2. PICK v \in Wallet : \E j \in 1..Len(ledger[v]) : ledger[v][j].tx = k
      BY <3>1 DEF OneRow
    <3>3. PICK j \in 1..Len(ledger[v]) : ledger[v][j].tx = k
      BY <3>2
    <3>4. j \in 1..Len(ledger'[v]) /\ ledger'[v][j].tx = k
      BY <1>4, <3>3
    <3>5. v = w /\ j = i
      BY <2>1, <2>2, <2>4, <3>4 DEF OneRow
    <3> QED
      BY <2>1, <3>3, <3>5
  <2> QED
    BY <2>2, <2>4, <2>5
<1>6. ASSUME NEW t \in TxKey, MovedMoney(t)', ~MovedMoney(t)
      PROVE  \E w \in Wallet : \E i \in (Len(ledger[w]) + 1)..Len(ledger'[w]) :
                /\ ledger'[w][i].tx = t
                /\ \A v \in Wallet : \A j \in (Len(ledger[v]) + 1)..Len(ledger'[v]) :
                      ledger'[v][j].tx = t => v = w /\ j = i
  <2>1. OneRow(ledger', t, wager'[t].amount) /\ NoRow(ledger, t)
    BY <1>2, <1>3, <1>6
  <2>2. PICK w \in Wallet : \E i \in 1..Len(ledger'[w]) :
            /\ ledger'[w][i].tx = t
            /\ \A v \in Wallet : \A j \in 1..Len(ledger'[v]) :
                  ledger'[v][j].tx = t => v = w /\ j = i
    BY <2>1 DEF OneRow
  <2>3. PICK i \in 1..Len(ledger'[w]) :
            /\ ledger'[w][i].tx = t
            /\ \A v \in Wallet : \A j \in 1..Len(ledger'[v]) :
                  ledger'[v][j].tx = t => v = w /\ j = i
    BY <2>2
  <2>4. i \notin 1..Len(ledger[w])
    BY <1>4, <2>1, <2>3 DEF NoRow
  <2>5. i \in (Len(ledger[w]) + 1)..Len(ledger'[w])
    BY <1>4, <2>3, <2>4
  <2>6. \A v \in Wallet : \A j \in (Len(ledger[v]) + 1)..Len(ledger'[v]) : j \in 1..Len(ledger'[v])
    BY <1>4
  <2> QED
    BY <2>3, <2>5, <2>6
<1>7. \A t \in TxKey : Fate(t) = "posted" <=> MovedMoney(t)
  BY PostedFate
<1>8. \A t \in TxKey : Fate(t)' = "posted" <=> MovedMoney(t)'
  BY DEF Fate, MovedMoney, Terminal
<1>9. \A t \in TxKey : Book!Becomes(t, "posted") <=> ~MovedMoney(t) /\ MovedMoney(t)'
  BY <1>7, <1>8 DEF Book!Becomes
<1>10. \A w \in Wallet : \A i \in Book!Added(w) : Book!Becomes(ledger'[w][i].tx, "posted")
  BY <1>5, <1>9 DEF Book!Added
<1>11. ASSUME NEW t \in TxKey, Book!Becomes(t, "posted")
       PROVE  \E w \in Wallet : \E i \in Book!Added(w) :
                 /\ ledger'[w][i].tx = t
                 /\ \A v \in Wallet : \A j \in Book!Added(v) :
                       ledger'[v][j].tx = t => v = w /\ j = i
  BY <1>6, <1>9, <1>11 DEF Book!Added
<1> QED
  BY <1>10, <1>11 DEF Book!PostsEach

LEMMA FateOf ==
    ASSUME NEW k \in TxKey
    PROVE  /\ wager[k] = None => Fate(k) = "absent"
           /\ wager[k] # None /\ ~Terminal(wager[k].status) => Fate(k) = "waiting"
BY DEF Fate, MovedMoney, Terminal

\* What becomes of a transaction whose row a session commits.
LEMMA CommittedFate ==
    ASSUME StoreTypeOK, RowsInv, Complete, NEW a \in Agent, NEW t \in TxKey,
           staged[a][t] # None, wager'[t] = staged[a][t]
    PROVE  \/ Fate(t)' = Fate(t)
           \/ Fate(t) = "absent" /\ Fate(t)' \in Book!Fate \ {"absent"}
           \/ Fate(t) = "waiting" /\ Fate(t)' \in {"posted", "refused"}
<1> DEFINE old == wager[t]
           new == staged[a][t]
<1>1. /\ new \in WagerRow /\ new # None /\ new.status # "PENDING" /\ new.status \in Statuses
      /\ old # None => /\ old \in WagerRow /\ ~Terminal(old.status) /\ Follows(old, new)
                       /\ old.status # "PENDING" /\ old.status \in Statuses
                       /\ Parked(old) => RequiresReference(old.kind)
  BY DEF RowsInv, Owned, Complete, NoneHalfway, ParkedAreReversals, StoreTypeOK, WagerRow
<1>2. Fate(t)' = IF ~Terminal(new.status) THEN "waiting"
                 ELSE IF new.status = "PROCESSED"
                      THEN IF new.kind # "LOSS" THEN "posted" ELSE "noted"
                      ELSE "refused"
  BY <1>1 DEF Fate, MovedMoney, Terminal
<1>3. CASE old = None
  <2>1. Fate(t) = "absent"
    BY <1>3, FateOf
  <2>2. Fate(t)' \in Book!Fate \ {"absent"}
    BY <1>2 DEF Book!Fate
  <2> QED
    BY <2>1, <2>2
<1>4. CASE old # None
  <2>1. old.status = "PENDING_REFERENCE" /\ Fate(t) = "waiting"
    <3>1. Fate(t) = "waiting"
      BY <1>1, <1>4, FateOf
    <3> QED
      BY <1>1, <1>4, <3>1 DEF Terminal, Statuses
  <2>2. new.kind # "LOSS"
    BY <1>1, <1>4, <2>1, FollowsKeeps DEF Parked, RequiresReference
  <2> QED
    BY <1>2, <2>1, <2>2
<1> QED
  BY <1>3, <1>4

\* A commit is a settlement in the book, creating a wallet opens one.
LEMMA BookSettles ==
    ASSUME StoreInv, StoreInv', Complete, Complete', NEW a \in Agent, NEW rows \in [Key -> IdemRow \cup {None}],
           Commit(a, rows), Remembers(a, rows)
    PROVE  Book!Settle
<1>1. /\ StoreBooks /\ StoreBooks' /\ StoreTypeOK /\ StoreTypeOK' /\ RowsInv /\ StoreStep(a)
  BY DEF StoreInv, StoreBooks, RowsInv, StoreStep
<1>2. ASSUME NEW w \in Wallet
      PROVE  /\ wallet'[w].open <=> wallet[w].open
             /\ wallet[w].open \/ ledger'[w] = ledger[w]
  <2>1. /\ PrivateBooks(a, w) /\ ledger[w] \in Seq(EntryRow)
        /\ wallet'[w] = IF holder[w] = a THEN work[a][w] ELSE wallet[w]
        /\ ledger'[w] = ledger[w] \o entries[a][w]
    BY <1>1, PrivatePart DEF StoreBooks, StoreTypeOK, Commit
  <2>2. CASE holder[w] = a
    BY <2>1, <2>2 DEF PrivateBooks
  <2>3. CASE holder[w] # a
    <3>1. entries[a][w] = <<>> /\ ledger[w] \o <<>> = ledger[w]
      BY <2>1, <2>3 DEF PrivateBooks
    <3> QED
      BY <2>1, <2>3, <3>1
  <2> QED
    BY <2>2, <2>3
<1>3. {w \in Wallet : wallet'[w].open} = {w \in Wallet : wallet[w].open}
  BY <1>2
<1>4. ASSUME NEW w \in Wallet
      PROVE  Book!Posts(w) /\ (wallet[w].open \/ Book!Added(w) = {})
  <2>1. Book!Posts(w) /\ Len(ledger[w]) \in Nat
    BY <1>1, BookPosts, LedgerPrefix
  <2>2. CASE ledger'[w] = ledger[w]
    BY <2>1, <2>2 DEF Book!Added
  <2> QED
    BY <1>2, <2>1, <2>2
<1>5. Book!PostsEach
  BY <1>1, BookPostsEach
<1>6. ASSUME NEW t \in TxKey
      PROVE  \/ Fate(t)' = Fate(t)
             \/ Fate(t) = "absent" /\ Fate(t)' \in Book!Fate \ {"absent"}
             \/ Fate(t) = "waiting" /\ Fate(t)' \in {"posted", "refused"}
  <2>1. CASE staged[a][t] = None
    <3>1. wager'[t] = wager[t]
      BY <2>1 DEF Commit, Seen
    <3> QED
      BY <3>1 DEF Fate, MovedMoney
  <2>2. CASE staged[a][t] # None
    <3>1. wager'[t] = staged[a][t]
      BY <2>2 DEF Commit, Seen
    <3> QED
      BY <1>1, <2>2, <3>1, CommittedFate
  <2> QED
    BY <2>1, <2>2
<1>7. ASSUME NEW key \in Key, idem'[key] # idem[key]
      PROVE  /\ idem[key] = None /\ idem'[key] # None
             /\ idem'[key].tx \in TxKey
             /\ Fate(idem'[key].tx) = "absent"
  <2>1. idem' = rows
    BY DEF Commit
  <2> QED
    BY <1>7, <2>1, FateOf DEF Remembers
<1>8. ASSUME NEW key \in Key, idem'[key] # idem[key], NEW t \in TxKey, t = idem'[key].tx
      PROVE  Fate(t)' \in Book!Settled
  <2>1. idem' = rows /\ wager'[t] = Seen(a, t)
    BY DEF Commit
  <2>2. /\ staged[a][t] # None /\ staged[a][t].status = rows[key].status
        /\ Terminal(rows[key].status)
    BY <1>8, <2>1 DEF Remembers
  <2>3. wager'[t] # None /\ Terminal(wager'[t].status)
    BY <2>1, <2>2 DEF Seen
  <2> QED
    BY <2>3 DEF Fate, MovedMoney, Terminal, Book!Settled
<1> QED
  BY <1>3, <1>4, <1>5, <1>6, <1>7, <1>8 DEF Book!Settle

LEMMA BookOpens ==
    ASSUME StoreInv, StoreInv', Complete, Complete', NEW a \in Agent, NEW c \in Calls, Opens(c)
    PROVE  Book!Open(c.wallet)
<1> DEFINE w == c.wallet
<1>1. /\ StoreBooks /\ StoreBooks' /\ StoreTypeOK /\ StoreTypeOK' /\ OpenedFirst /\ StoreStep(a)
  BY DEF StoreInv, RowsInv, StoreBooks, StoreStep
<1>2. /\ w \in Wallet /\ w \in TxKey /\ ~wallet[w].open /\ wallet'[w].open /\ wager[w] = None
      /\ \A v \in Wallet \ {w} : wallet'[v] = wallet[v] /\ ledger'[v] = ledger[v]
      /\ \A k \in TxKey : \/ wager'[k] = wager[k]
                          \/ k = w /\ wager'[k] = OpeningRow(c)
      /\ idem' = idem
  <2>1. /\ w \in Wallet /\ w \in TxKey /\ wallet'[w].open /\ wager[w] = None
        /\ \A v \in Wallet \ {w} : wallet'[v] = wallet[v]
        /\ \A k \in TxKey : wager'[k] = wager[k] \/ (k = w /\ wager'[k] = OpeningRow(c))
    BY <1>1, OpensWallet
  <2>2. ~wallet[w].open /\ idem' = idem
    BY DEF Opens
  <2>3. \A v \in Wallet \ {w} : ledger'[v] = ledger[v]
    BY <1>1, <2>1 DEF Opens, StoreTypeOK
  <2> QED
    BY <2>1, <2>2, <2>3
<1>3. {v \in Wallet : wallet'[v].open} = {v \in Wallet : wallet[v].open} \cup {w}
  BY <1>2
<1>4. Book!Posts(w) /\ Book!PostsEach
  BY <1>1, <1>2, BookPosts, BookPostsEach
<1>5. ASSUME NEW t \in TxKey, Fate(t)' # Fate(t)
      PROVE  t = w /\ Fate(t)' = "posted"
  <2>1. wager'[t] # wager[t]
    BY <1>5 DEF Fate, MovedMoney
  <2>2. t = w /\ wager'[t] = OpeningRow(c)
    BY <1>2, <2>1
  <2>3. OpeningRow(c) # None
    BY OpeningTypes, RowAssumption DEF Opens
  <2> QED
    BY <2>2, <2>3 DEF OpeningRow, Fate, MovedMoney, Terminal
<1>6. \A v \in Wallet \ {w} : ledger'[v] = ledger[v] /\ wallet'[v].balance = wallet[v].balance
  BY <1>2
<1>7. w \notin {v \in Wallet : wallet[v].open}
  BY <1>2
<1>8. [key \in Key |-> IF idem'[key] = None THEN None ELSE idem'[key].tx]
          = [key \in Key |-> IF idem[key] = None THEN None ELSE idem[key].tx]
  BY <1>2
<1> QED
  BY <1>2, <1>3, <1>4, <1>5, <1>6, <1>7, <1>8 DEF Book!Open, Book!Becomes

\* Every step on the store is a step of the book, or none.
LEMMA BookStep ==
    ASSUME StoreInv, StoreInv', Complete, Complete', NEW a \in Agent, StoreStep(a)
    PROVE  [Book!Next]_(Book!vars)
<1>1. ASSUME NEW rows \in [Key -> IdemRow \cup {None}], Commit(a, rows), Remembers(a, rows)
      PROVE  Book!Next
  BY <1>1, BookSettles DEF Book!Next
<1>2. ASSUME NEW c \in Calls, Opens(c) PROVE Book!Next
  BY <1>2, BookOpens, CallFields DEF Book!Next
<1>3. CASE UNCHANGED tables
  BY <1>3 DEF tables, Book!vars, Fate, MovedMoney
<1> QED
  BY <1>1, <1>2, <1>3 DEF StoreStep, storeVars, Rollback, Grabs, Settles

LEMMA BookInit == StoreInit => Book!Init
<1> SUFFICES ASSUME StoreInit PROVE Book!Init
  OBVIOUS
<1>1. \A k \in TxKey : Fate(k) = "absent"
  BY FateOf DEF StoreInit
<1> QED
  BY <1>1 DEF StoreInit, Book!Init, ClosedWallet

\* Seen through its tables, the service is the book: whatever happens in the handlers, the
\* tables change only by opening a wallet or by settling transactions for good, each posted
\* once and in the step that settles it (wager_service.go 95-232, 253-462, 478-744).
THEOREM ServiceImplementsBook == ServiceSpec => ImplementsBook
<1>1. ServiceInit => Book!Init
  BY BookInit DEF ServiceInit
<1>2. ServiceInv /\ ServiceInv' /\ Complete /\ Complete' /\ [ServiceNext]_vars
          => [Book!Next]_(Book!vars)
  <2> SUFFICES ASSUME ServiceInv, ServiceInv', Complete, Complete', [ServiceNext]_vars
               PROVE  [Book!Next]_(Book!vars)
    OBVIOUS
  <2>1. StoreInv /\ StoreInv'
    BY DEF ServiceInv
  <2>2. CASE UNCHANGED storeVars
    BY <2>2 DEF storeVars, tables, Book!vars, Fate, MovedMoney
  <2>3. CASE \E h \in Handler : StoreStep(h)
    BY <2>1, <2>3, HandlersAreAgents, BookStep
  <2> QED
    BY <2>2, <2>3, StepServiceInv
<1> QED
  BY <1>1, <1>2, ServiceInvHolds, CompleteHolds, PTL
     DEF ServiceSpec, ImplementsBook, Book!Spec
=============================================================================
