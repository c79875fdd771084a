--------------------------- MODULE WagerInvariants ---------------------------
(***************************************************************************)
(* What the tables promise, whatever sessions write them: the properties   *)
(* checked on the handlers alone and on the handlers with the background   *)
(* resolver.                                                               *)
(***************************************************************************)
EXTENDS WagerService

StoreTypeOK ==
    /\ wallet \in [Wallet -> WalletRow]
    /\ wager \in [TxKey -> WagerRow \cup {None}]
    /\ ledger \in [Wallet -> Seq(EntryRow)]
    /\ idem \in [Key -> IdemRow \cup {None}]
    /\ inbox \subseteq Msg
    /\ outbox \subseteq Event
    /\ holder \in [Resource -> Agent \cup {None}]
    /\ work \in [Agent -> [Wallet -> WalletRow]]
    /\ entries \in [Agent -> [Wallet -> Seq(EntryRow)]]
    /\ staged \in [Agent -> [TxKey -> WagerRow \cup {None}]]
    /\ events \in [Agent -> SUBSET Event]

\* Types of every variable; staged and committed rows have the shapes of the schema.
TypeOK ==
    /\ StoreTypeOK
    /\ pc \in [Handler -> Steps]
    /\ call \in [Handler -> Calls \cup {None}]
    /\ attempt \in [Handler -> 0..MaxConflictAttempts]
    /\ todo \in [Handler -> SUBSET ExtId]
    /\ answer \in [Handler -> Answers]

-----------------------------------------------------------------------------
(* The books.                                                              *)

\* Each row does its own arithmetic and starts where the row before it ended.
Chained(s) ==
    /\ \A i \in 1..Len(s) : EntryMath(s[i])
    /\ s # <<>> => s[1].before = 0
    /\ \A i \in 2..Len(s) : s[i].before = s[i - 1].after

LastBalance(s) == IF s = <<>> THEN 0 ELSE s[Len(s)].after

\* The opening row leaves the version at 1, every later row adds one.
VersionAfter(s, w) == IF s # <<>> /\ s[1].tx = w THEN Len(s) ELSE Len(s) + 1

Books(w, row, s) ==
    /\ Chained(s)
    /\ row.balance = LastBalance(s)
    /\ IF row.open THEN row.version = VersionAfter(s, w) ELSE s = <<>> /\ row.version = 0

\* The stored balance of every wallet is the end of an unbroken chain of ledger rows that
\* starts at zero, and its version counts them: no lost update, no row without its
\* movement, whatever handlers interleave (wager_service.go 371-428, wallet_repo.go 114-140).
BooksBalance == \A w \in Wallet : Books(w, wallet[w], ledger[w])

\* The same of what a session has done to a wallet it holds but has not committed; the
\* version test of UpdateBalance therefore never fails.
PrivateBooksBalance ==
    \A a \in Agent, w \in Wallet :
        IF holder[w] = a
        THEN /\ wallet[w].open /\ work[a][w].open
             /\ Books(w, work[a][w], ledger[w] \o entries[a][w])
             /\ VersionMatches(a, w)
        ELSE entries[a][w] = <<>>

\* The rows transaction k owns in the ledger of w.
RowsOf(w, k) == {i \in 1..Len(ledger[w]) : ledger[w][i].tx = k}

MovedMoney(k) == wager[k] # None /\ wager[k].status = "PROCESSED" /\ wager[k].kind # "LOSS"

\* A processed transaction, LOSS aside, owns exactly one ledger row of its own amount; a
\* rejected or parked one owns none.  Redeliveries, retries after unique-key conflicts and
\* crashes between commit and answer never apply a transaction twice or halfway.
ExactlyOnePosting ==
    \A k \in TxKey :
        IF MovedMoney(k)
        THEN \E w \in Wallet : \E i \in RowsOf(w, k) :
                 /\ ledger[w][i].amount = wager[k].amount
                 /\ RowsOf(w, k) = {i}
                 /\ \A v \in Wallet \ {w} : RowsOf(v, k) = {}
        ELSE \A w \in Wallet : RowsOf(w, k) = {}

-----------------------------------------------------------------------------
(* The outbox.                                                             *)

\* The WalletBalanceChanged event owed for row i of the ledger of w.
EventOfEntry(w, i) ==
    LET e == ledger[w][i]
    IN  [type |-> "WalletBalanceChanged", tx |-> e.tx, wallet |-> w, dir |-> e.dir,
         amount |-> e.amount, before |-> e.before, after |-> e.after,
         version |-> IF ledger[w][1].tx = w THEN i ELSE i + 1]

BalanceEventsDue == UNION {{EventOfEntry(w, i) : i \in 1..Len(ledger[w])} : w \in Wallet}

StatusEventsDue ==
    {Notice("WagerTransactionProcessed", k) :
        k \in {t \in TxKey : wager[t] # None /\ wager[t].status = "PROCESSED"}}
    \cup {Notice("WagerTransactionRejected", k) :
        k \in {t \in TxKey : wager[t] # None /\ wager[t].status = "REJECTED"}}

ParkingNotices == {e \in outbox : e.type = "WagerTransactionPendingReference"}

\* The outbox tells the committed story, no more and no less: one WalletBalanceChanged per
\* ledger row, with consecutive versions per wallet, one event per settled transaction, one
\* notice per transaction that is or was parked (ARCHITECTURE.md 6.1).
OutboxTellsTheTables ==
    /\ outbox \ ParkingNotices = BalanceEventsDue \cup StatusEventsDue
    /\ \A k \in ExtId :
          PendingReference(k) => Notice("WagerTransactionPendingReference", k) \in outbox
    /\ \A e \in ParkingNotices : wager[e.tx] # None /\ RequiresReference(wager[e.tx].kind)

-----------------------------------------------------------------------------
(* Idempotency and acknowledgements.                                       *)

\* The stored answer of a key is about a settled transaction that was sent under that key,
\* and it gives the status the row still has.
StoredAnswersHold ==
    \A key \in Key : idem[key] # None =>
        LET k == idem[key].tx
        IN  /\ wager[k] # None
            /\ wager[k].key = key
            /\ wager[k].status = idem[key].status
            /\ Terminal(wager[k].status)

\* A message is recorded in the inbox only together with its effect: some call carrying
\* that id has its transaction row, or the stored answer of the same payload.  The
\* consumer deletes a message on the strength of this row (sqs_consumer.go 314-320).
InboxMeansDone ==
    \A m \in inbox : \E c \in Calls :
        /\ c.msg = m
        /\ \/ wager[c.ext] # None
           \/ Stored(c) # None /\ Stored(c).hash = c.hash

\* What a handler is about to answer is already committed: a success has its row, and
\* unless it was parked its stored answer; a replay has a stored answer for the very same
\* payload or an inbox row.  A crash before the answer leaves nothing to undo.
AnswersAreDurable ==
    \A h \in Handler : pc[h] = "done" =>
        LET c == call[h] IN
        CASE answer[h] = "processed" \/ answer[h] = "rejected"
               -> /\ wager[c.ext] # None
                  /\ Result(wager[c.ext].status) = answer[h]
                  /\ c.key # None => idem[c.key] # None /\ idem[c.key].tx = c.ext
          [] answer[h] = "pending" -> wager[c.ext] # None
          [] answer[h] = "replay"
               -> IF c.channel = "SQS" THEN c.msg \in inbox
                  ELSE idem[c.key] # None /\ idem[c.key].hash = c.hash
          [] answer[h] = "opened" -> wallet[c.wallet].open
          [] OTHER -> TRUE

-----------------------------------------------------------------------------
(* Steps.                                                                  *)

\* A transaction row changes only along validTransitions, keeps its wallet, kind, amount,
\* key and reference, and never disappears; a settled row never changes.
SettledForGood ==
    [][\A k \in TxKey : wager[k] # None =>
          /\ wager'[k] # None
          /\ wager'[k].status = wager[k].status
             \/ wager'[k].status \in validTransitions[wager[k].status]
          /\ Terminal(wager[k].status) => wager'[k] = wager[k]
          /\ [wager'[k] EXCEPT !.status = wager[k].status, !.code = wager[k].code,
                               !.resolved = wager[k].resolved, !.attempts = wager[k].attempts,
                               !.deferred = wager[k].deferred] = wager[k]]_vars

\* The ledger only grows at its end, a wallet moves exactly when its ledger does, and the
\* answer stored for a key is never replaced.
HistoryIsKept ==
    [][/\ \A w \in Wallet :
             /\ Len(ledger[w]) <= Len(ledger'[w])
             /\ SubSeq(ledger'[w], 1, Len(ledger[w])) = ledger[w]
             /\ wallet[w].open => wallet'[w].version - wallet[w].version
                                     = Len(ledger'[w]) - Len(ledger[w])
       /\ \A key \in Key : idem[key] # None => idem'[key] = idem[key]]_vars

-----------------------------------------------------------------------------
(* The amounts in answers and events are texts.                            *)

ReadsBack(u) == Parse(FormattedAmount(u)) = Ok(u)

\* Whatever amount the tables and the outbox come to hold, up to the largest, its text
\* reads back as that amount (FormattedAmount in answers, pages and events; Parse).
AmountsReadBack ==
    /\ \A w \in Wallet : ReadsBack(wallet[w].balance)
    /\ \A k \in TxKey : wager[k] # None => ReadsBack(wager[k].amount)
    /\ \A e \in outbox : e.type = "WalletBalanceChanged" =>
          ReadsBack(e.amount) /\ ReadsBack(e.before) /\ ReadsBack(e.after)

-----------------------------------------------------------------------------
(* The service as a book.                                                  *)

Fate(k) ==
    CASE wager[k] = None                               -> "absent"
      [] wager[k] # None /\ ~Terminal(wager[k].status) -> "waiting"
      [] MovedMoney(k)                                 -> "posted"
      [] wager[k] # None /\ wager[k].status = "PROCESSED" /\ ~MovedMoney(k) -> "noted"
      [] OTHER                                         -> "refused"

Book == INSTANCE WagerBook WITH
    Tx <- TxKey,
    Opening <- [w \in Wallet |-> w],
    open <- {w \in Wallet : wallet[w].open},
    balance <- [w \in Wallet |-> wallet[w].balance],
    journal <- ledger,
    status <- [k \in TxKey |-> Fate(k)],
    answered <- [key \in Key |-> IF idem[key] = None THEN None ELSE idem[key].tx]

\* Seen through its tables, the service is that book: handlers, retries, parked reversals
\* and background rounds show as atomic settlements, each transaction posted once and
\* in the step that settles it, each key answered once.
ImplementsBook == Book!Spec

-----------------------------------------------------------------------------
(* What documents and comments say beyond that; the code does otherwise.   *)

\* "Previne dupla reversao conforme Secao 7 do desafio", wager_transaction_repo.go 431-433:
\* at most one processed REFUND, and one processed ROLLBACK, of the same transaction.
OneReversalPerOriginal ==
    \A j, k \in ExtId :
        /\ j # k
        /\ MovedMoney(j) /\ wager[j].ref # None
        /\ MovedMoney(k) /\ wager[k].ref = wager[j].ref
        => wager[j].kind # wager[k].kind

\* "(providerId, externalTransactionId) duplicado sob outra chave" is a 409 Conflict,
\* ARCHITECTURE.md 4: a request whose pair is taken under another key, and whose own key
\* is unused, is answered "conflict".
DuplicatePairIsAConflict ==
    \A h \in Handler : pc[h] = "done" =>
        LET c == call[h]
        IN  c.channel = "HTTP" /\ answer[h] # "error" /\ wager[c.ext] # None
            /\ c.kind # "OPENING" /\ RowsOfKey(c) = {}
            => answer[h] = "conflict"
=============================================================================
