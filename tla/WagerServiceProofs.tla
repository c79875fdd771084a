-------------------------- MODULE WagerServiceProofs --------------------------
(***************************************************************************)
(* Proofs about the handlers, for every number of them, of wallets, of     *)
(* transactions and of calls: types first, then the books of the wallets.  *)
(***************************************************************************)
EXTENDS WagerInvariants, MoneyProofs

-----------------------------------------------------------------------------
(* Types of the store's operations.                                        *)

LEMMA Numbers ==
    /\ 0 \in Balances /\ Balances \subseteq Nat /\ Balances \subseteq Amounts
    /\ Amounts \subseteq Int
    /\ \A n \in Amounts : n >= 0 => n \in Balances
BY MoneyAssumption DEF Balances, Amounts

\* A movement that is accepted is exact and leaves a balance a wallet can hold.
LEMMA MovedType ==
    ASSUME NEW dir \in Directions, NEW balance \in Balances, NEW amount \in Balances,
           Affordable(dir, balance, amount)
    PROVE  /\ Moved(dir, balance, amount) \in Balances
           /\ Moved(dir, balance, amount)
                 = IF dir = "CREDIT" THEN balance + amount ELSE balance - amount
<1>1. MaxInt \in Nat /\ balance \in 0..MaxInt /\ amount \in 0..MaxInt
  BY MoneyAssumption DEF Balances
<1>2. balance \in Int64 /\ amount \in Int64
  BY <1>1 DEF Int64, MinInt
<1>3. Movement(dir, balance, amount).err = "nil"
  BY DEF Affordable, MovementError
<1>4. CASE dir = "CREDIT"
  <2>1. Add(balance, amount) = Ok(balance + amount) /\ balance + amount \in Int64
    BY <1>2, <1>3, <1>4, AddIsExact DEF Movement, Failed
  <2>2. Moved(dir, balance, amount) = balance + amount
    BY <1>4, <2>1 DEF Moved, Movement, Ok
  <2> QED
    BY <1>1, <1>4, <2>1, <2>2 DEF Int64, Balances
<1>5. CASE dir = "DEBIT"
  <2>1. Sub(balance, amount) = Ok(balance - amount) /\ balance - amount \in Int64
    BY <1>2, <1>3, <1>5, SubIsExact DEF Movement, Failed
  <2>2. Moved(dir, balance, amount) = balance - amount
    BY <1>5, <2>1 DEF Moved, Movement, Ok
  <2>3. ~(balance - amount < 0)
    BY <1>5, <2>2 DEF Affordable, MovementError
  <2> QED
    BY <1>1, <1>5, <2>2, <2>3 DEF Balances
<1> QED
  BY <1>4, <1>5 DEF Directions

LEMMA SeenType ==
    ASSUME StoreTypeOK, NEW a \in Agent, NEW k \in TxKey
    PROVE  Seen(a, k) \in WagerRow \cup {None}
BY DEF StoreTypeOK, Seen

LEMMA EndSessionType ==
    ASSUME StoreTypeOK, NEW a \in Agent, EndSession(a)
    PROVE  /\ holder' \in [Resource -> Agent \cup {None}]
           /\ work' \in [Agent -> [Wallet -> WalletRow]]
           /\ entries' \in [Agent -> [Wallet -> Seq(EntryRow)]]
           /\ staged' \in [Agent -> [TxKey -> WagerRow \cup {None}]]
           /\ events' \in [Agent -> SUBSET Event]
<1>1. ClosedWallet \in WalletRow
  BY Numbers DEF ClosedWallet, WalletRow
<1>2. <<>> \in Seq(EntryRow)
  OBVIOUS
<1> QED
  BY <1>1, <1>2 DEF StoreTypeOK, EndSession

LEMMA RollbackType ==
    ASSUME StoreTypeOK, NEW a \in Agent, Rollback(a)
    PROVE  StoreTypeOK'
<1>1. EndSession(a) /\ UNCHANGED tables
  BY DEF Rollback
<1> QED
  BY <1>1, EndSessionType DEF StoreTypeOK, tables

LEMMA CommitType ==
    ASSUME StoreTypeOK, NEW a \in Agent, NEW rows \in [Key -> IdemRow \cup {None}],
           Commit(a, rows)
    PROVE  StoreTypeOK'
<1>1. EndSession(a)
  BY DEF Commit
<1>2. wallet' \in [Wallet -> WalletRow]
  BY DEF Commit, StoreTypeOK
<1>3. wager' \in [TxKey -> WagerRow \cup {None}]
  BY SeenType DEF Commit
<1>4. ledger' \in [Wallet -> Seq(EntryRow)]
  BY DEF Commit, StoreTypeOK
<1>5. inbox' \subseteq Msg /\ outbox' \subseteq Event /\ idem' \in [Key -> IdemRow \cup {None}]
  BY DEF Commit, StoreTypeOK
<1> QED
  BY <1>1, <1>2, <1>3, <1>4, <1>5, EndSessionType DEF StoreTypeOK

LEMMA TakeType ==
    ASSUME StoreTypeOK, NEW a \in Agent, NEW r \in Resource, Take(a, r)
    PROVE  holder' \in [Resource -> Agent \cup {None}]
BY DEF StoreTypeOK, Take

LEMMA NoticeType ==
    ASSUME NEW type \in StatusEventTypes, NEW k \in TxKey
    PROVE  Notice(type, k) \in Event
BY DEF Notice, Event, StatusEvent

LEMMA AnnounceType ==
    ASSUME StoreTypeOK, NEW a \in Agent, NEW type \in StatusEventTypes, NEW k \in TxKey,
           Announce(a, type, k)
    PROVE  /\ work' \in [Agent -> [Wallet -> WalletRow]]
           /\ entries' \in [Agent -> [Wallet -> Seq(EntryRow)]]
           /\ events' \in [Agent -> SUBSET Event]
BY NoticeType DEF StoreTypeOK, Announce

LEMMA RowUpdateType ==
    ASSUME NEW row \in WalletRow, NEW b \in Balances, NEW v \in Nat
    PROVE  [row EXCEPT !.balance = b, !.version = v] \in WalletRow
BY DEF WalletRow

LEMMA MoveType ==
    ASSUME StoreTypeOK, NEW a \in Agent, NEW w \in Wallet, NEW k \in TxKey,
           NEW dir \in Directions, NEW amount \in Amounts,
           Affordable(dir, work[a][w].balance, amount), Move(a, w, k, dir, amount)
    PROVE  /\ work' \in [Agent -> [Wallet -> WalletRow]]
           /\ entries' \in [Agent -> [Wallet -> Seq(EntryRow)]]
           /\ events' \in [Agent -> SUBSET Event]
<1> DEFINE row == work[a][w]
<1>1. row \in WalletRow /\ amount \in Balances
  BY MoneyAssumption DEF StoreTypeOK, Move, Postable, Amounts, Balances
<1>2. row.balance \in Balances /\ row.version \in Nat
  BY <1>1 DEF WalletRow
<1>3. Moved(dir, row.balance, amount) \in Balances
  BY <1>1, <1>2, MovedType
<1>4. [row EXCEPT !.balance = Moved(dir, @, amount), !.version = @ + 1] \in WalletRow
  <2> DEFINE b == Moved(dir, row.balance, amount)
             v == row.version + 1
  <2>1. b \in Balances /\ v \in Nat
    BY <1>2, <1>3
  <2> HIDE DEF row, b, v
  <2>2. [row EXCEPT !.balance = b, !.version = v] \in WalletRow
    BY <1>1, <2>1, RowUpdateType
  <2> QED
    BY <2>2 DEF b, v
<1>5. work' = [work EXCEPT ![a] = [work[a] EXCEPT
                  ![w] = [row EXCEPT !.balance = Moved(dir, @, amount), !.version = @ + 1]]]
  BY DEF Move, StoreTypeOK
<1>6. work' \in [Agent -> [Wallet -> WalletRow]]
  BY <1>4, <1>5 DEF StoreTypeOK
<1>7. NewEntry(a, w, k, dir, amount) \in EntryRow
  BY <1>1, <1>2, <1>3 DEF NewEntry, EntryRow
<1>8. entries' \in [Agent -> [Wallet -> Seq(EntryRow)]]
  BY <1>7 DEF StoreTypeOK, Move
<1>9. BalanceChanged(a, w, k, dir, amount) \in Event
  BY <1>1, <1>2, <1>3 DEF BalanceChanged, Event, BalanceEvent
<1>10. Notice("WagerTransactionProcessed", k) \in Event
  BY NoticeType DEF StatusEventTypes
<1>11. events' \in [Agent -> SUBSET Event]
  BY <1>9, <1>10 DEF StoreTypeOK, Move
<1> QED
  BY <1>6, <1>8, <1>11

-----------------------------------------------------------------------------
(* The inductive invariant: types, and what the place of a handler says of *)
(* its call, of the row it has staged and of the wallet it holds.          *)

Wagering == {"inbox", "idem", "lock", "execute", "pending", "resolve", "commit"}
AfterLock == {"execute", "pending", "resolve", "commit"}
AfterExecute == {"pending", "resolve", "commit"}

HandlerControl(h) ==
    /\ pc[h] # "idle" => call[h] \in Calls
    /\ pc[h] \in {"open", "insert"} => call[h].kind = "OPENING"
    /\ pc[h] \in Wagering => call[h].kind # "OPENING"
    /\ pc[h] = "inbox" => call[h].channel = "SQS"
    /\ pc[h] \in AfterLock => holder[call[h].wallet] = h
    /\ pc[h] \in AfterExecute => staged[h][call[h].ext] \in WagerRow

Control == \A h \in Handler : HandlerControl(h)

TypeInv == TypeOK /\ Control

\* A step of handler h leaves every other handler where it is, with its rows and locks.
OthersKept(h) ==
    \A g \in Handler \ {h} :
        /\ pc'[g] = pc[g] /\ call'[g] = call[g] /\ staged'[g] = staged[g]
        /\ \A r \in Resource : holder[r] = g => holder'[r] = g

LEMMA CallFields ==
    ASSUME NEW c \in Calls
    PROVE  /\ c.kind \in Kinds /\ c.channel \in {"HTTP", "SQS"} /\ c.wallet \in Wallet
           /\ c.amount \in Amounts /\ c.ext \in TxKey /\ c.ref \in ExtId \cup {None}
           /\ c.key \in Key \cup {None} /\ c.hash \in Hash
           /\ c.kind # "OPENING" => c.ext \in ExtId
           /\ c.kind # "OPENING" /\ c.channel = "SQS" => c.msg \in Msg
           /\ c.kind = "OPENING" => c.ext = c.wallet /\ c.amount \in Balances
BY ServiceAssumption, Numbers DEF CallRecord, WellFormed

LEMMA Resources == Wallet \subseteq Resource /\ ExtId \subseteq Resource /\ Msg \subseteq Resource
BY DEF Resource

LEMMA HandlersAreAgents ==
    ASSUME NEW h \in Handler
    PROVE  h \in Agent /\ h # None
BY StoreAssumption, ServiceAssumption

\* The control of the other handlers survives a step that keeps them.
LEMMA ControlKept ==
    ASSUME TypeInv, NEW h \in Handler, OthersKept(h), HandlerControl(h)'
    PROVE  Control'
<1> SUFFICES ASSUME NEW g \in Handler, g # h
             PROVE  HandlerControl(g)'
  BY DEF Control
<1>1. HandlerControl(g)
  BY DEF TypeInv, Control
<1>2. /\ pc'[g] = pc[g] /\ call'[g] = call[g] /\ staged'[g] = staged[g]
      /\ \A r \in Resource : holder[r] = g => holder'[r] = g
  BY DEF OthersKept
<1>3. pc[g] \in AfterLock => call[g].wallet \in Resource
  BY <1>1, CallFields, Resources DEF HandlerControl, AfterLock
<1> QED
  BY <1>1, <1>2, <1>3 DEF HandlerControl

LEMMA FirstStepType ==
    ASSUME NEW c \in Calls
    PROVE  /\ FirstStep(c) \in {"open", "inbox", "idem"}
           /\ FirstStep(c) = "open" <=> c.kind = "OPENING"
           /\ FirstStep(c) = "inbox" => c.channel = "SQS"
BY DEF FirstStep

LEMMA RollbackKeepsOthers ==
    ASSUME TypeInv, NEW h \in Handler, EndSession(h)
    PROVE  \A g \in Handler \ {h} :
               /\ staged'[g] = staged[g]
               /\ \A r \in Resource : holder[r] = g => holder'[r] = g
BY HandlersAreAgents DEF TypeInv, TypeOK, StoreTypeOK, EndSession

LEMMA ReturnType ==
    ASSUME TypeInv, NEW h \in Handler, NEW result \in Answers, Return(h, result), pc[h] # "idle"
    PROVE  /\ pc' \in [Handler -> Steps] /\ call' \in [Handler -> Calls \cup {None}]
           /\ attempt' \in [Handler -> 0..MaxConflictAttempts]
           /\ todo' \in [Handler -> SUBSET ExtId] /\ answer' \in [Handler -> Answers]
           /\ HandlerControl(h)'
           /\ \A g \in Handler \ {h} : pc'[g] = pc[g] /\ call'[g] = call[g]
<1>1. pc'[h] = "done" /\ call'[h] \in Calls
  BY DEF Return, TypeInv, TypeOK, Control, HandlerControl
<1>2. HandlerControl(h)'
  BY <1>1 DEF HandlerControl, Wagering, AfterLock, AfterExecute
<1> QED
  BY <1>2 DEF Return, TypeInv, TypeOK, Steps

LEMMA FailKeeps ==
    ASSUME TypeInv, NEW h \in Handler, NEW result \in Answers, Fail(h, result), pc[h] # "idle"
    PROVE  TypeInv'
<1>1. Return(h, result) /\ Rollback(h) /\ EndSession(h)
  BY DEF Fail, Rollback
<1>2. StoreTypeOK'
  BY <1>1, RollbackType, HandlersAreAgents DEF TypeInv, TypeOK
<1>3. OthersKept(h)
  BY <1>1, ReturnType, RollbackKeepsOthers DEF OthersKept
<1>4. HandlerControl(h)'
  BY <1>1, ReturnType
<1> QED
  BY <1>1, <1>2, <1>3, <1>4, ReturnType, ControlKept DEF TypeInv, TypeOK

LEMMA RetryKeeps ==
    ASSUME TypeInv, NEW h \in Handler, RetryOrGiveUp(h), pc[h] # "idle"
    PROVE  TypeInv'
<1>1. Rollback(h) /\ EndSession(h)
  BY DEF RetryOrGiveUp, Rollback
<1>2. CASE attempt[h] < MaxConflictAttempts
  <2>1. /\ pc' = [pc EXCEPT ![h] = FirstStep(call[h])]
        /\ attempt' = [attempt EXCEPT ![h] = attempt[h] + 1]
        /\ todo' = [todo EXCEPT ![h] = {}]
        /\ UNCHANGED <<call, answer>>
    BY <1>2 DEF RetryOrGiveUp
  <2>2. call[h] \in Calls /\ call'[h] = call[h] /\ pc'[h] = FirstStep(call[h])
    BY <2>1 DEF TypeInv, TypeOK, Control, HandlerControl
  <2>3. HandlerControl(h)'
    BY <2>2, FirstStepType DEF HandlerControl, Wagering, AfterLock, AfterExecute
  <2>4. StoreTypeOK'
    BY <1>1, RollbackType, HandlersAreAgents DEF TypeInv, TypeOK
  <2>5. OthersKept(h)
    BY <1>1, <2>1, RollbackKeepsOthers DEF OthersKept, TypeInv, TypeOK
  <2>6. attempt' \in [Handler -> 0..MaxConflictAttempts]
    BY <1>2, <2>1, ServiceAssumption DEF TypeInv, TypeOK
  <2>7. pc' \in [Handler -> Steps]
    BY <2>1, <2>2, FirstStepType DEF TypeInv, TypeOK, Steps
  <2> QED
    BY <2>1, <2>3, <2>4, <2>5, <2>6, <2>7, ControlKept DEF TypeInv, TypeOK
<1>3. CASE ~(attempt[h] < MaxConflictAttempts)
  BY <1>1, <1>3, FailKeeps DEF RetryOrGiveUp, Fail, Answers
<1> QED
  BY <1>2, <1>3

-----------------------------------------------------------------------------
(* One lemma per action: it keeps TypeInv.                                 *)

\* Moving on without touching the tables or the session.
LEMMA GotoType ==
    ASSUME TypeInv, NEW h \in Handler, NEW step \in Steps, Goto(h, step)
    PROVE  /\ pc' \in [Handler -> Steps] /\ call' \in [Handler -> Calls \cup {None}]
           /\ attempt' \in [Handler -> 0..MaxConflictAttempts] /\ answer' \in [Handler -> Answers]
           /\ pc'[h] = step /\ call'[h] = call[h]
           /\ \A g \in Handler \ {h} : pc'[g] = pc[g] /\ call'[g] = call[g]
BY DEF TypeInv, TypeOK, Goto

LEMMA ReceiveKeeps ==
    ASSUME TypeInv, NEW h \in Handler, Receive(h)
    PROVE  TypeInv'
<1>1. PICK c \in Calls : /\ call' = [call EXCEPT ![h] = c]
                         /\ pc' = [pc EXCEPT ![h] = FirstStep(c)]
  BY DEF Receive
<1>2. StoreTypeOK'
  BY DEF Receive, TypeInv, TypeOK, StoreTypeOK, storeVars, tables, session
<1>3. pc'[h] = FirstStep(c) /\ call'[h] = c
  BY <1>1 DEF TypeInv, TypeOK
<1>4. HandlerControl(h)'
  BY <1>3, FirstStepType DEF HandlerControl, Wagering, AfterLock, AfterExecute
<1>5. OthersKept(h)
  BY <1>1 DEF OthersKept, Receive, storeVars, session, TypeInv, TypeOK
<1>6. attempt' \in [Handler -> 0..MaxConflictAttempts]
  BY ServiceAssumption DEF Receive, TypeInv, TypeOK
<1>7. pc' \in [Handler -> Steps] /\ call' \in [Handler -> Calls \cup {None}]
  BY <1>1, FirstStepType DEF TypeInv, TypeOK, Steps
<1>8. todo' \in [Handler -> SUBSET ExtId] /\ answer' \in [Handler -> Answers]
  BY DEF Receive, TypeInv, TypeOK
<1> QED
  BY <1>2, <1>4, <1>5, <1>6, <1>7, <1>8, ControlKept DEF TypeInv, TypeOK

LEMMA ForgetType ==
    ASSUME TypeInv, NEW h \in Handler, Forget(h)
    PROVE  /\ pc' \in [Handler -> Steps] /\ call' \in [Handler -> Calls \cup {None}]
           /\ attempt' \in [Handler -> 0..MaxConflictAttempts]
           /\ todo' \in [Handler -> SUBSET ExtId] /\ answer' \in [Handler -> Answers]
           /\ HandlerControl(h)'
           /\ \A g \in Handler \ {h} : pc'[g] = pc[g] /\ call'[g] = call[g]
<1>1. pc'[h] = "idle"
  BY DEF Forget, TypeInv, TypeOK
<1>2. HandlerControl(h)'
  BY <1>1 DEF HandlerControl, Wagering, AfterLock, AfterExecute
<1>3. attempt' \in [Handler -> 0..MaxConflictAttempts]
  BY ServiceAssumption DEF Forget, TypeInv, TypeOK
<1> QED
  BY <1>2, <1>3 DEF Forget, TypeInv, TypeOK, Steps, Answers

LEMMA FinishKeeps ==
    ASSUME TypeInv, NEW h \in Handler, Finish(h)
    PROVE  TypeInv'
<1>1. Forget(h) /\ UNCHANGED storeVars
  BY DEF Finish
<1>2. StoreTypeOK'
  BY <1>1 DEF TypeInv, TypeOK, StoreTypeOK, storeVars, tables, session
<1>3. OthersKept(h)
  BY <1>1, ForgetType DEF OthersKept, storeVars, session
<1> QED
  BY <1>1, <1>2, <1>3, ForgetType, ControlKept DEF TypeInv, TypeOK

LEMMA AbandonKeeps ==
    ASSUME TypeInv, NEW h \in Handler, Abandon(h)
    PROVE  TypeInv'
<1>1. Forget(h) /\ Rollback(h) /\ EndSession(h)
  BY DEF Abandon, Rollback
<1>2. StoreTypeOK'
  BY <1>1, RollbackType, HandlersAreAgents DEF TypeInv, TypeOK
<1>3. OthersKept(h)
  BY <1>1, ForgetType, RollbackKeepsOthers DEF OthersKept
<1> QED
  BY <1>1, <1>2, <1>3, ForgetType, ControlKept DEF TypeInv, TypeOK

LEMMA CheckWalletKeeps ==
    ASSUME TypeInv, NEW h \in Handler, CheckWallet(h)
    PROVE  TypeInv'
<1>1. pc[h] = "open" /\ call[h].kind = "OPENING" /\ call[h] \in Calls
  BY DEF CheckWallet, TypeInv, Control, HandlerControl
<1>2. CASE Fail(h, "conflict")
  BY <1>1, <1>2, FailKeeps DEF Answers
<1>3. CASE Goto(h, "insert") /\ UNCHANGED <<storeVars, todo>>
  <2>1. StoreTypeOK'
    BY <1>3 DEF TypeInv, TypeOK, StoreTypeOK, storeVars, tables, session
  <2>2. pc'[h] = "insert" /\ call'[h] = call[h]
    BY <1>3, GotoType DEF Steps
  <2>3. HandlerControl(h)'
    BY <1>1, <2>2 DEF HandlerControl, Wagering, AfterLock, AfterExecute
  <2>4. OthersKept(h)
    BY <1>3, GotoType DEF Steps, OthersKept, storeVars, session
  <2> QED
    BY <1>3, <2>1, <2>3, <2>4, GotoType, ControlKept DEF TypeInv, TypeOK, Steps
<1> QED
  BY <1>2, <1>3 DEF CheckWallet

LEMMA OpeningTypes ==
    ASSUME NEW c \in Calls, c.kind = "OPENING"
    PROVE  /\ [open |-> TRUE, balance |-> c.amount, version |-> 1] \in WalletRow
           /\ OpeningRow(c) \in WagerRow
           /\ OpeningEntry(c) \in EntryRow
           /\ OpeningEvents(c) \subseteq Event
<1>1. c.wallet \in Wallet /\ c.amount \in Balances /\ c.ext \in TxKey
  BY CallFields
<1>2. Notice("WagerTransactionProcessed", c.ext) \in Event
  BY <1>1, NoticeType DEF StatusEventTypes
<1>3. OpeningEntry(c) \in EntryRow
  BY <1>1, Numbers DEF OpeningEntry, EntryRow, Directions
<1>4. OpeningRow(c) \in WagerRow
  BY <1>1, Numbers DEF OpeningRow, WagerRow, Kinds, Statuses
<1>5. OpeningEvents(c) \subseteq Event
  BY <1>1, <1>2, Numbers DEF OpeningEvents, Event, BalanceEvent, Directions
<1>6. [open |-> TRUE, balance |-> c.amount, version |-> 1] \in WalletRow
  BY <1>1 DEF WalletRow
<1> QED
  BY <1>3, <1>4, <1>5, <1>6

LEMMA InsertWalletKeeps ==
    ASSUME TypeInv, NEW h \in Handler, InsertWallet(h)
    PROVE  TypeInv'
<1> DEFINE c == call[h]
<1>1. pc[h] = "insert" /\ c.kind = "OPENING" /\ c \in Calls
  BY DEF InsertWallet, TypeInv, Control, HandlerControl
<1>2. CASE Fail(h, "error")
  BY <1>1, <1>2, FailKeeps DEF Answers
<1>3. CASE ~Fail(h, "error")
  <2>1. /\ wallet' = [wallet EXCEPT ![c.wallet] =
                         [open |-> TRUE, balance |-> c.amount, version |-> 1]]
        /\ \/ /\ wager' = [wager EXCEPT ![c.ext] = OpeningRow(c)]
              /\ ledger' = [ledger EXCEPT ![c.wallet] = Append(ledger[c.wallet], OpeningEntry(c))]
              /\ outbox' = outbox \cup OpeningEvents(c)
           \/ UNCHANGED <<wager, ledger, outbox>>
        /\ Return(h, "opened")
        /\ UNCHANGED <<idem, inbox, session>>
    BY <1>3, CallFields, <1>1 DEF InsertWallet, TypeInv, TypeOK, StoreTypeOK
  <2>2. StoreTypeOK'
    <3>1. wallet' \in [Wallet -> WalletRow]
      BY <1>1, <2>1, OpeningTypes DEF TypeInv, TypeOK, StoreTypeOK
    <3>2. wager' \in [TxKey -> WagerRow \cup {None}]
      BY <1>1, <2>1, OpeningTypes DEF TypeInv, TypeOK, StoreTypeOK
    <3>3. ledger' \in [Wallet -> Seq(EntryRow)]
      <4> DEFINE longer == Append(ledger[c.wallet], OpeningEntry(c))
      <4>1. ledger \in [Wallet -> Seq(EntryRow)] /\ c.wallet \in Wallet
        BY <1>1, CallFields DEF TypeInv, TypeOK, StoreTypeOK
      <4>2. ledger[c.wallet] \in Seq(EntryRow) /\ OpeningEntry(c) \in EntryRow
        BY <1>1, <4>1, OpeningTypes
      <4>3. longer \in Seq(EntryRow)
        BY <4>2
      <4>4. ledger' = [ledger EXCEPT ![c.wallet] = longer] \/ ledger' = ledger
        BY <2>1
      <4> HIDE DEF longer
      <4> QED
        BY <4>1, <4>3, <4>4
    <3>4. outbox' \subseteq Event
      BY <1>1, <2>1, OpeningTypes DEF TypeInv, TypeOK, StoreTypeOK
    <3> QED
      BY <2>1, <3>1, <3>2, <3>3, <3>4 DEF TypeInv, TypeOK, StoreTypeOK, session
  <2>3. OthersKept(h)
    BY <1>1, <2>1, ReturnType DEF OthersKept, Answers, session, Success
  <2> QED
    BY <1>1, <2>1, <2>2, <2>3, ReturnType, ControlKept DEF TypeInv, TypeOK, Answers, Success
<1> QED
  BY <1>2, <1>3

LEMMA TakeKeepsOthers ==
    ASSUME TypeInv, NEW h \in Handler, NEW r \in Resource, holder[r] \in {None, h}, Take(h, r)
    PROVE  /\ \A g \in Handler \ {h} : \A x \in Resource : holder[x] = g => holder'[x] = g
           /\ \A x \in Resource : holder[x] = h => holder'[x] = h
           /\ holder'[r] = h
BY HandlersAreAgents DEF TypeInv, TypeOK, StoreTypeOK, Take

LEMMA ClaimInboxKeeps ==
    ASSUME TypeInv, NEW h \in Handler, ClaimInbox(h)
    PROVE  TypeInv'
<1> DEFINE c == call[h]
<1>1. /\ pc[h] = "inbox" /\ c \in Calls /\ c.kind # "OPENING" /\ c.channel = "SQS"
      /\ c.msg \in Msg /\ c.msg \in Resource
  BY CallFields, Resources DEF ClaimInbox, TypeInv, Control, HandlerControl, Wagering
<1>2. CASE Fail(h, "replay")
  BY <1>1, <1>2, FailKeeps DEF Answers, Success
<1>3. CASE ~Fail(h, "replay")
  <2>1. /\ holder[c.msg] = None /\ Take(h, c.msg) /\ Goto(h, "idem")
        /\ UNCHANGED <<tables, work, entries, staged, events, todo>>
    BY <1>3 DEF ClaimInbox
  <2>2. StoreTypeOK'
    BY <1>1, <2>1, TakeType, HandlersAreAgents DEF TypeInv, TypeOK, StoreTypeOK, tables
  <2>3. pc'[h] = "idem" /\ call'[h] = c
    BY <2>1, GotoType DEF Steps
  <2>4. HandlerControl(h)'
    BY <1>1, <2>3 DEF HandlerControl, Wagering, AfterLock, AfterExecute
  <2>5. OthersKept(h)
    BY <1>1, <2>1, GotoType, TakeKeepsOthers DEF OthersKept, Steps
  <2> QED
    BY <2>1, <2>2, <2>4, <2>5, GotoType, ControlKept DEF TypeInv, TypeOK, Steps
<1> QED
  BY <1>2, <1>3

LEMMA HandlerCommitKeeps ==
    ASSUME TypeInv, NEW h \in Handler, NEW result \in Answers, Return(h, result), pc[h] # "idle",
           NEW rows \in [Key -> IdemRow \cup {None}], Commit(h, rows)
    PROVE  TypeInv'
<1>1. StoreTypeOK'
  BY CommitType, HandlersAreAgents DEF TypeInv, TypeOK
<1>2. EndSession(h)
  BY DEF Commit
<1>3. OthersKept(h)
  BY <1>2, ReturnType, RollbackKeepsOthers DEF OthersKept
<1> QED
  BY <1>1, <1>3, ReturnType, ControlKept DEF TypeInv, TypeOK

LEMMA CheckIdempotencyKeeps ==
    ASSUME TypeInv, NEW h \in Handler, CheckIdempotency(h)
    PROVE  TypeInv'
<1> DEFINE c == call[h]
<1>1. pc[h] = "idem" /\ c \in Calls /\ c.kind # "OPENING"
  BY DEF CheckIdempotency, TypeInv, Control, HandlerControl, Wagering
<1>2. CASE Fail(h, "forbidden") \/ Fail(h, "conflict")
  BY <1>1, <1>2, FailKeeps DEF Answers
<1>3. CASE Return(h, "replay") /\ Commit(h, idem)
  BY <1>1, <1>3, HandlerCommitKeeps DEF Answers, Success, TypeInv, TypeOK, StoreTypeOK
<1>4. CASE Goto(h, "lock") /\ UNCHANGED <<storeVars, todo>>
  <2>1. StoreTypeOK'
    BY <1>4 DEF TypeInv, TypeOK, StoreTypeOK, storeVars, tables, session
  <2>2. pc'[h] = "lock" /\ call'[h] = c
    BY <1>4, GotoType DEF Steps
  <2>3. HandlerControl(h)'
    BY <1>1, <2>2 DEF HandlerControl, Wagering, AfterLock, AfterExecute
  <2>4. OthersKept(h)
    BY <1>4, GotoType DEF Steps, OthersKept, storeVars, session
  <2> QED
    BY <1>4, <2>1, <2>3, <2>4, GotoType, ControlKept DEF TypeInv, TypeOK, Steps
<1> QED
  BY <1>2, <1>3, <1>4 DEF CheckIdempotency

LEMMA LockWalletRowType ==
    ASSUME StoreTypeOK, NEW a \in Agent, NEW w \in Wallet, LockWalletRow(a, w)
    PROVE  work' \in [Agent -> [Wallet -> WalletRow]] /\ holder' \in [Resource -> Agent \cup {None}]
<1>1. work' = [work EXCEPT ![a] = [work[a] EXCEPT
                 ![w] = IF holder[w] = a THEN work[a][w] ELSE wallet[w]]]
  BY DEF LockWalletRow, StoreTypeOK
<1>2. work' \in [Agent -> [Wallet -> WalletRow]]
  BY <1>1 DEF StoreTypeOK
<1> QED
  BY <1>2, TakeType, Resources DEF LockWalletRow

LEMMA LockWalletKeeps ==
    ASSUME TypeInv, NEW h \in Handler, LockWallet(h)
    PROVE  TypeInv'
<1> DEFINE c == call[h]
<1>1. /\ pc[h] = "lock" /\ c \in Calls /\ c.kind # "OPENING"
      /\ c.wallet \in Wallet /\ c.wallet \in Resource
  BY CallFields, Resources DEF LockWallet, TypeInv, Control, HandlerControl, Wagering
<1>2. CASE Fail(h, "error")
  BY <1>1, <1>2, FailKeeps DEF Answers
<1>3. CASE ~Fail(h, "error")
  <2>1. /\ LockWalletRow(h, c.wallet) /\ Goto(h, "execute")
        /\ UNCHANGED <<tables, entries, staged, events, todo>>
    BY <1>3 DEF LockWallet
  <2>2. holder[c.wallet] \in {None, h} /\ Take(h, c.wallet)
    BY <2>1 DEF LockWalletRow
  <2>3. StoreTypeOK'
    BY <1>1, <2>1, LockWalletRowType, HandlersAreAgents DEF TypeInv, TypeOK, StoreTypeOK, tables
  <2>4. pc'[h] = "execute" /\ call'[h] = c
    BY <2>1, GotoType DEF Steps
  <2>5. holder'[c.wallet] = h
    BY <1>1, <2>2, TakeKeepsOthers
  <2>6. HandlerControl(h)'
    BY <1>1, <2>4, <2>5 DEF HandlerControl, Wagering, AfterLock, AfterExecute
  <2>7. OthersKept(h)
    BY <1>1, <2>1, <2>2, GotoType, TakeKeepsOthers DEF OthersKept, Steps
  <2> QED
    BY <2>1, <2>3, <2>6, <2>7, GotoType, ControlKept DEF TypeInv, TypeOK, Steps
<1> QED
  BY <1>2, <1>3

LEMMA NewRowType ==
    ASSUME NEW c \in Calls, NEW status \in Statuses, NEW code \in FailureCodes \cup {None}
    PROVE  NewRow(c, status, code) \in WagerRow
BY CallFields DEF NewRow, WagerRow

LEMMA StageType ==
    ASSUME StoreTypeOK, NEW a \in Agent, NEW k \in TxKey, NEW row \in WagerRow,
           staged' = [staged EXCEPT ![a][k] = row]
    PROVE  /\ staged' \in [Agent -> [TxKey -> WagerRow \cup {None}]]
           /\ staged'[a][k] = row
           /\ \A x \in TxKey : staged[a][x] \in WagerRow => staged'[a][x] \in WagerRow
           /\ \A b \in Agent \ {a} : staged'[b] = staged[b]
<1>1. staged' = [staged EXCEPT ![a] = [staged[a] EXCEPT ![k] = row]]
  OBVIOUS
<1> QED
  BY <1>1 DEF StoreTypeOK

\* What the three outcomes of Execute have in common.
LEMMA OutcomeKeeps ==
    ASSUME TypeInv, NEW h \in Handler, pc[h] = "execute", call[h].ext \in ExtId,
           holder[call[h].ext] = None, Take(h, call[h].ext), UNCHANGED <<tables, todo>>,
           NEW row \in WagerRow, StageNew(h, row),
           NEW step \in {"pending", "commit"}, Goto(h, step),
           work' \in [Agent -> [Wallet -> WalletRow]],
           entries' \in [Agent -> [Wallet -> Seq(EntryRow)]],
           events' \in [Agent -> SUBSET Event]
    PROVE  TypeInv'
<1> DEFINE c == call[h]
<1>1. /\ c \in Calls /\ c.kind # "OPENING" /\ holder[c.wallet] = h
      /\ c.wallet \in Resource /\ c.ext \in Resource /\ c.ext \in TxKey /\ h \in Agent
      /\ c.ext \in ExtId
  BY CallFields, Resources, HandlersAreAgents
     DEF TypeInv, Control, HandlerControl, Wagering, AfterLock, TxKey
<1>2. /\ staged' \in [Agent -> [TxKey -> WagerRow \cup {None}]]
      /\ staged'[h][c.ext] \in WagerRow
      /\ \A b \in Agent \ {h} : staged'[b] = staged[b]
  <2>1. staged' = [staged EXCEPT ![h][c.ext] = row] /\ StoreTypeOK
    BY DEF StageNew, TypeInv, TypeOK
  <2>2. c.ext \in TxKey /\ h \in Agent
    BY <1>1
  <2> DEFINE k == c.ext
  <2> HIDE DEF k
  <2>3. staged' = [staged EXCEPT ![h][k] = row] /\ k \in TxKey
    BY <2>1, <2>2 DEF k
  <2>4. /\ staged' \in [Agent -> [TxKey -> WagerRow \cup {None}]]
        /\ staged'[h][k] = row
        /\ \A b \in Agent \ {h} : staged'[b] = staged[b]
    <3>1. staged' = [staged EXCEPT ![h] = [staged[h] EXCEPT ![k] = row]]
      BY <2>3
    <3> QED
      BY <2>1, <2>2, <2>3, <3>1 DEF StoreTypeOK
  <2> QED
    BY <2>4 DEF k
<1>3. StoreTypeOK'
  BY <1>1, <1>2, TakeType DEF TypeInv, TypeOK, StoreTypeOK, tables
<1>4. pc'[h] \in {"pending", "commit"} /\ call'[h] = c
  BY GotoType DEF Steps
<1>5. holder'[c.wallet] = h
  BY <1>1, TakeKeepsOthers
<1>6. HandlerControl(h)'
  BY <1>1, <1>2, <1>4, <1>5 DEF HandlerControl, Wagering, AfterLock, AfterExecute
<1>7. OthersKept(h)
  BY <1>1, <1>2, GotoType, TakeKeepsOthers, HandlersAreAgents DEF OthersKept, Steps
<1>8. step \in Steps
  BY DEF Steps
<1>9. todo' \in [Handler -> SUBSET ExtId]
  BY DEF TypeInv, TypeOK
<1> QED
  BY <1>3, <1>6, <1>7, <1>8, <1>9, GotoType, ControlKept DEF TypeInv, TypeOK

LEMMA ExecuteKeeps ==
    ASSUME TypeInv, NEW h \in Handler, Execute(h)
    PROVE  TypeInv'
<1> DEFINE c == call[h]
<1>1. /\ pc[h] = "execute" /\ c \in Calls /\ c.ext \in ExtId /\ c.ext \in TxKey
      /\ c.wallet \in Wallet /\ c.amount \in Amounts /\ h \in Agent /\ StoreTypeOK
  BY CallFields, HandlersAreAgents
     DEF Execute, TypeInv, TypeOK, Control, HandlerControl, Wagering, TxKey
<1>2. CASE Fail(h, "error")
  BY <1>1, <1>2, FailKeeps DEF Answers
<1>3. CASE RetryOrGiveUp(h)
  BY <1>1, <1>3, RetryKeeps
<1>4. CASE /\ holder[c.ext] = None /\ Take(h, c.ext)
           /\ Park(h) \/ Reject(h) \/ Process(h)
           /\ UNCHANGED <<tables, todo>>
  <2>1. CASE Park(h)
    <3> DEFINE row == NewRow(c, "PENDING_REFERENCE", None)
    <3>1. row \in WagerRow
      BY <1>1, NewRowType DEF Statuses
    <3>2. StageNew(h, row) /\ Goto(h, "commit")
      BY <2>1 DEF Park
    <3>3. /\ work' \in [Agent -> [Wallet -> WalletRow]]
          /\ entries' \in [Agent -> [Wallet -> Seq(EntryRow)]]
          /\ events' \in [Agent -> SUBSET Event]
      BY <1>1, <2>1, AnnounceType DEF Park, StatusEventTypes
    <3> HIDE DEF row
    <3> QED
      BY <1>1, <1>4, <3>1, <3>2, <3>3, OutcomeKeeps
  <2>2. CASE Reject(h)
    <3> DEFINE code == MovementError(DirectDirection(c), work[h][c.wallet].balance, c.amount)
               row == NewRow(c, "REJECTED", code)
    <3>0. code \in FailureCodes
      BY <2>2 DEF Reject, Affordable, MovementError, FailureCodes
    <3>1. row \in WagerRow
      BY <1>1, <3>0, NewRowType DEF Statuses
    <3>2. StageNew(h, row) /\ Goto(h, "commit")
      BY <2>2 DEF Reject
    <3>3. /\ work' \in [Agent -> [Wallet -> WalletRow]]
          /\ entries' \in [Agent -> [Wallet -> Seq(EntryRow)]]
          /\ events' \in [Agent -> SUBSET Event]
      BY <1>1, <2>2, AnnounceType DEF Reject, StatusEventTypes
    <3> HIDE DEF row
    <3> QED
      BY <1>1, <1>4, <3>1, <3>2, <3>3, OutcomeKeeps
  <2>3. CASE Process(h)
    <3> DEFINE row == NewRow(c, "PROCESSED", None)
               step == IF c.channel = "SQS" THEN "pending" ELSE "commit"
    <3>1. row \in WagerRow /\ step \in {"pending", "commit"}
      BY <1>1, NewRowType DEF Statuses
    <3>2. StageNew(h, row) /\ Goto(h, step)
      BY <2>3 DEF Process
    <3>3. DirectDirection(c) \in Directions
      BY DEF DirectDirection, Directions
    <3>4. /\ work' \in [Agent -> [Wallet -> WalletRow]]
          /\ entries' \in [Agent -> [Wallet -> Seq(EntryRow)]]
          /\ events' \in [Agent -> SUBSET Event]
      BY <1>1, <2>3, <3>3, AnnounceType, MoveType DEF Process, StatusEventTypes
    <3> HIDE DEF row, step
    <3> QED
      BY <1>1, <1>4, <3>1, <3>2, <3>4, OutcomeKeeps
  <2> QED
    BY <1>4, <2>1, <2>2, <2>3
<1> QED
  BY <1>2, <1>3, <1>4 DEF Execute

LEMMA QueryPendingKeeps ==
    ASSUME TypeInv, NEW h \in Handler, QueryPending(h)
    PROVE  TypeInv'
<1> DEFINE c == call[h]
           step == IF PendingOf(c.ext) = {} THEN "commit" ELSE "resolve"
<1>1. /\ pc[h] = "pending" /\ c \in Calls /\ c.kind # "OPENING"
      /\ holder[c.wallet] = h /\ staged[h][c.ext] \in WagerRow
  BY DEF QueryPending, TypeInv, Control, HandlerControl, Wagering, AfterLock, AfterExecute
<1>2. step \in {"commit", "resolve"} /\ step \in Steps
  BY DEF Steps
<1>3. Goto(h, step) /\ UNCHANGED storeVars
  BY DEF QueryPending
<1> HIDE DEF step
<1>4. StoreTypeOK'
  BY <1>3 DEF TypeInv, TypeOK, StoreTypeOK, storeVars, tables, session
<1>5. pc'[h] = step /\ call'[h] = c
  BY <1>2, <1>3, GotoType
<1>6. HandlerControl(h)'
  BY <1>1, <1>2, <1>3, <1>5
     DEF HandlerControl, Wagering, AfterLock, AfterExecute, storeVars, session
<1>7. OthersKept(h)
  BY <1>2, <1>3, GotoType DEF OthersKept, storeVars, session
<1>8. todo' \in [Handler -> SUBSET ExtId]
  BY DEF QueryPending, PendingOf, TypeInv, TypeOK
<1> QED
  BY <1>2, <1>3, <1>4, <1>6, <1>7, <1>8, GotoType, ControlKept DEF TypeInv, TypeOK

\* The two outcomes of a resolution.
LEMMA ResolutionCases ==
    ASSUME NEW a, NEW w, NEW k, NEW original, ResolveSinglePendingRef(a, w, k, original)
    PROVE  \/ \E code \in FailureCodes : RejectPending(a, k, code)
           \/ \E dir \in Directions :
                 /\ Affordable(dir, work[a][w].balance, Seen(a, k).amount)
                 /\ Restage(a, k, "PROCESSED", None, original)
                 /\ Move(a, w, k, dir, Seen(a, k).amount)
<1> DEFINE dir == ResolutionDirection(Seen(a, k).kind, Seen(a, original).kind)
<1>1. dir \in Directions
  BY DEF ResolutionDirection, Directions
<1>2. \/ RejectPending(a, k, "REFERENCE_NOT_FOUND")
      \/ RejectPending(a, k, "ORIGINAL_TRANSACTION_FAILED")
      \/ RejectPending(a, k, Reversed(Seen(a, k).kind))
      \/ RejectPending(a, k, "INSUFFICIENT_FUNDS_FOR_ROLLBACK")
      \/ /\ Affordable(dir, work[a][w].balance, Seen(a, k).amount)
         /\ Restage(a, k, "PROCESSED", None, original)
         /\ Move(a, w, k, dir, Seen(a, k).amount)
  BY DEF ResolveSinglePendingRef
<1>3. Reversed(Seen(a, k).kind) \in FailureCodes
  BY DEF Reversed, FailureCodes
<1> HIDE DEF dir
<1> QED
  BY <1>1, <1>2, <1>3 DEF FailureCodes

LEMMA RestageType ==
    ASSUME StoreTypeOK, NEW a \in Agent, NEW k \in ExtId, Seen(a, k) \in WagerRow,
           NEW status \in Statuses, NEW code \in FailureCodes \cup {None},
           NEW original \in ExtId \cup {None}, Restage(a, k, status, code, original)
    PROVE  \E row \in WagerRow : staged' = [staged EXCEPT ![a][k] = row]
<1> DEFINE row == [Seen(a, k) EXCEPT !.status = status, !.code = code, !.resolved = original]
<1>1. row \in WagerRow
  BY DEF WagerRow
<1> QED
  BY <1>1 DEF Restage

LEMMA ResolveType ==
    ASSUME StoreTypeOK, NEW a \in Agent, NEW w \in Wallet, NEW k \in ExtId,
           Seen(a, k) \in WagerRow, NEW original \in ExtId \cup {None},
           ResolveSinglePendingRef(a, w, k, original)
    PROVE  /\ work' \in [Agent -> [Wallet -> WalletRow]]
           /\ entries' \in [Agent -> [Wallet -> Seq(EntryRow)]]
           /\ events' \in [Agent -> SUBSET Event]
           /\ \E row \in WagerRow : staged' = [staged EXCEPT ![a][k] = row]
<1>1. k \in TxKey /\ Seen(a, k).amount \in Amounts
  BY DEF TxKey, WagerRow
<1>2. CASE \E code \in FailureCodes : RejectPending(a, k, code)
  <2>1. PICK code \in FailureCodes : RejectPending(a, k, code)
    BY <1>2
  <2>2. Restage(a, k, "REJECTED", code, None) /\ Announce(a, "WagerTransactionRejected", k)
    BY <2>1 DEF RejectPending
  <2> QED
    BY <1>1, <2>2, RestageType, AnnounceType DEF Statuses, StatusEventTypes
<1>3. CASE \E dir \in Directions :
               /\ Affordable(dir, work[a][w].balance, Seen(a, k).amount)
               /\ Restage(a, k, "PROCESSED", None, original)
               /\ Move(a, w, k, dir, Seen(a, k).amount)
  BY <1>1, <1>3, RestageType, MoveType DEF Statuses
<1> QED
  BY <1>2, <1>3, ResolutionCases

LEMMA ResolveRowKeeps ==
    ASSUME TypeInv, NEW h \in Handler, pc[h] = "resolve",
           NEW k \in todo[h], holder[k] = None, ResolveRow(h, k)
    PROVE  TypeInv'
<1> DEFINE c == call[h]
<1>1. /\ pc[h] = "resolve" /\ c \in Calls /\ c.kind # "OPENING" /\ c.ext \in ExtId
      /\ holder[c.wallet] = h /\ staged[h][c.ext] \in WagerRow /\ h \in Agent
      /\ c.wallet \in Wallet /\ c.wallet \in Resource /\ c.ext \in TxKey
  BY CallFields, HandlersAreAgents, Resources
     DEF TypeInv, Control, HandlerControl, Wagering, AfterLock, AfterExecute, TxKey
<1>2. /\ todo' = [todo EXCEPT ![h] = todo[h] \ {k}]
      /\ Goto(h, IF todo[h] = {k} THEN "commit" ELSE "resolve")
      /\ IF PendingReference(k)
         THEN /\ Take(h, k)
              /\ ResolveSinglePendingRef(h, call[h].wallet, k, call[h].ext)
              /\ UNCHANGED tables
         ELSE UNCHANGED storeVars
  BY DEF ResolveRow, TypeInv, TypeOK
<1>3. k \in ExtId /\ k \in TxKey /\ k \in Resource
  BY Resources DEF TypeInv, TypeOK, TxKey
<1> DEFINE step == IF todo[h] = {k} THEN "commit" ELSE "resolve"
<1>4. step \in {"commit", "resolve"} /\ step \in Steps /\ Goto(h, step)
  BY <1>2 DEF Steps
<1> HIDE DEF step
<1>5. pc'[h] = step /\ call'[h] = c
  BY <1>4, GotoType
<1>6. todo' \in [Handler -> SUBSET ExtId]
  BY <1>2 DEF TypeInv, TypeOK
<1>7. CASE PendingReference(k)
  <2>1. Take(h, k) /\ ResolveSinglePendingRef(h, c.wallet, k, c.ext) /\ UNCHANGED tables
    BY <1>2, <1>7
  <2>2. Seen(h, k) \in WagerRow
    BY <1>1, <1>3, <1>7 DEF PendingReference, Exists, Seen, TypeInv, TypeOK, StoreTypeOK
  <2>3. StoreTypeOK
    BY DEF TypeInv, TypeOK
  <2>4. /\ work' \in [Agent -> [Wallet -> WalletRow]]
        /\ entries' \in [Agent -> [Wallet -> Seq(EntryRow)]]
        /\ events' \in [Agent -> SUBSET Event]
        /\ \E row \in WagerRow : staged' = [staged EXCEPT ![h][k] = row]
    BY <1>1, <1>3, <2>1, <2>2, <2>3, ResolveType
  <2>5. /\ staged' \in [Agent -> [TxKey -> WagerRow \cup {None}]]
        /\ \A x \in TxKey : staged[h][x] \in WagerRow => staged'[h][x] \in WagerRow
        /\ \A b \in Agent \ {h} : staged'[b] = staged[b]
    BY <1>1, <1>3, <2>3, <2>4, StageType
  <2>6. StoreTypeOK'
    BY <1>1, <1>3, <2>1, <2>3, <2>4, <2>5, TakeType DEF StoreTypeOK, tables
  <2>7. holder'[c.wallet] = h
    BY <1>1, <1>2, <1>3, <2>1, TakeKeepsOthers
  <2>8. HandlerControl(h)'
    BY <1>1, <1>4, <1>5, <2>5, <2>7 DEF HandlerControl, Wagering, AfterLock, AfterExecute
  <2>9. OthersKept(h)
    BY <1>2, <1>3, <1>4, <2>1, <2>5, GotoType, TakeKeepsOthers, HandlersAreAgents DEF OthersKept
  <2> QED
    BY <1>4, <1>6, <2>6, <2>8, <2>9, GotoType, ControlKept DEF TypeInv, TypeOK
<1>8. CASE ~PendingReference(k)
  <2>1. UNCHANGED storeVars
    BY <1>2, <1>8
  <2>2. StoreTypeOK'
    BY <2>1 DEF TypeInv, TypeOK, StoreTypeOK, storeVars, tables, session
  <2>3. HandlerControl(h)'
    BY <1>1, <1>4, <1>5, <2>1
       DEF HandlerControl, Wagering, AfterLock, AfterExecute, storeVars, session
  <2>4. OthersKept(h)
    BY <1>4, <2>1, GotoType DEF OthersKept, storeVars, session
  <2> QED
    BY <1>4, <1>6, <2>2, <2>3, <2>4, GotoType, ControlKept DEF TypeInv, TypeOK
<1> QED
  BY <1>7, <1>8

LEMMA ResolvePendingKeeps ==
    ASSUME TypeInv, NEW h \in Handler, ResolvePending(h)
    PROVE  TypeInv'
<1>1. PICK k \in todo[h] : holder[k] = None /\ (Fail(h, "error") \/ ResolveRow(h, k))
  BY DEF ResolvePending
<1>2. pc[h] = "resolve"
  BY DEF ResolvePending
<1>3. CASE Fail(h, "error")
  BY <1>2, <1>3, FailKeeps DEF Answers, Success
<1>4. CASE ResolveRow(h, k)
  BY <1>1, <1>2, <1>4, ResolveRowKeeps
<1> QED
  BY <1>1, <1>3, <1>4

LEMMA RememberType ==
    ASSUME StoreTypeOK, NEW h \in Handler, call[h] \in Calls, call[h].kind # "OPENING",
           staged[h][call[h].ext] \in WagerRow
    PROVE  Remember(h) \in [Key -> IdemRow \cup {None}]
<1> DEFINE c == call[h]
           record == [hash |-> c.hash, tx |-> c.ext, status |-> staged[h][c.ext].status,
                      balance |-> work[h][c.wallet].balance]
<1>1. c.hash \in Hash /\ c.ext \in ExtId /\ c.wallet \in Wallet /\ h \in Agent
  BY CallFields, HandlersAreAgents
<1>2. staged[h][c.ext].status \in Statuses /\ work[h][c.wallet].balance \in Balances
  BY <1>1 DEF StoreTypeOK, WagerRow, WalletRow
<1>3. record \in IdemRow
  BY <1>1, <1>2 DEF IdemRow
<1>4. Remember(h) = idem \/ Remember(h) = [idem EXCEPT ![c.key] = record]
  BY DEF Remember
<1> HIDE DEF record
<1> QED
  BY <1>3, <1>4 DEF StoreTypeOK

LEMMA CommitWagerKeeps ==
    ASSUME TypeInv, NEW h \in Handler, CommitWager(h)
    PROVE  TypeInv'
<1> DEFINE c == call[h]
           result == Result(staged[h][c.ext].status)
<1>1. /\ pc[h] = "commit" /\ c \in Calls /\ c.kind # "OPENING"
      /\ staged[h][c.ext] \in WagerRow
  BY DEF CommitWager, TypeInv, Control, HandlerControl, Wagering, AfterExecute
<1>2. CASE RetryOrGiveUp(h)
  BY <1>1, <1>2, RetryKeeps
<1>3. CASE Return(h, result) /\ Commit(h, Remember(h))
  <2>1. result \in Answers
    BY DEF Result, Answers, Success
  <2>2. Remember(h) \in [Key -> IdemRow \cup {None}]
    BY <1>1, RememberType DEF TypeInv, TypeOK
  <2> HIDE DEF result
  <2> QED
    BY <1>1, <1>3, <2>1, <2>2, HandlerCommitKeeps
<1> QED
  BY <1>2, <1>3 DEF CommitWager

-----------------------------------------------------------------------------
(* Type correctness.                                                       *)

LEMMA InitTypeInv == ServiceInit => TypeInv
<1> SUFFICES ASSUME ServiceInit PROVE TypeInv
  OBVIOUS
<1>1. ClosedWallet \in WalletRow
  BY Numbers DEF ClosedWallet, WalletRow
<1>2. <<>> \in Seq(EntryRow)
  OBVIOUS
<1>3. StoreTypeOK
  BY <1>1, <1>2 DEF ServiceInit, StoreInit, StoreTypeOK
<1>4. Control
  BY DEF ServiceInit, Control, HandlerControl, Wagering, AfterLock, AfterExecute
<1>5. attempt \in [Handler -> 0..MaxConflictAttempts]
  BY ServiceAssumption DEF ServiceInit
<1> QED
  BY <1>3, <1>4, <1>5 DEF ServiceInit, TypeInv, TypeOK, Steps, Answers

LEMMA StepTypeInv == TypeInv /\ [ServiceNext]_vars => TypeInv'
<1> SUFFICES ASSUME TypeInv, [ServiceNext]_vars PROVE TypeInv'
  OBVIOUS
<1>1. CASE UNCHANGED vars
  BY <1>1 DEF vars, storeVars, tables, session, control, TypeInv, TypeOK, StoreTypeOK, Control,
              HandlerControl
<1>2. ASSUME NEW h \in Handler, Receive(h) PROVE TypeInv'
  BY <1>2, ReceiveKeeps
<1>3. ASSUME NEW h \in Handler, HandlerStep(h) PROVE TypeInv'
  BY <1>3, CheckWalletKeeps, InsertWalletKeeps, ClaimInboxKeeps, CheckIdempotencyKeeps,
     LockWalletKeeps, ExecuteKeeps, QueryPendingKeeps, ResolvePendingKeeps, CommitWagerKeeps,
     FinishKeeps DEF HandlerStep
<1>4. ASSUME NEW h \in Handler, Abandon(h) PROVE TypeInv'
  BY <1>4, AbandonKeeps
<1> QED
  BY <1>1, <1>2, <1>3, <1>4 DEF ServiceNext

\* Whatever the handlers, calls, wallets and keys are, every table, private row and local
\* variable of the handlers keeps its type: no balance becomes negative, no attempt count
\* exceeds its limit, no replay answer has an unknown status (wager_service.go 202-830).
THEOREM TypeCorrect == ServiceSpec => []TypeOK
<1>1. TypeInv => TypeOK
  BY DEF TypeInv
<1> QED
  BY <1>1, InitTypeInv, StepTypeInv, PTL DEF ServiceSpec

LEMMA AmountsRead ==
    ASSUME NEW u \in Amounts
    PROVE  ReadsBack(u)
<1>1. u \in Int64 /\ u # MinInt
  BY MoneyAssumption DEF Amounts, Int64, MinInt
<1> QED
  BY <1>1, ParseInvertsFormat DEF ReadsBack

\* Every amount in the tables and in the events of the outbox can be read back from its
\* text, whatever the calls and the width of the integers: none is ever the one int64
\* that Parse refuses (money.go 68-221).
THEOREM AmountsAlwaysReadBack == ServiceSpec => []AmountsReadBack
<1>1. TypeOK => AmountsReadBack
  <2> SUFFICES ASSUME TypeOK PROVE AmountsReadBack
    OBVIOUS
  <2>1. ASSUME NEW w \in Wallet PROVE ReadsBack(wallet[w].balance)
    BY Numbers, AmountsRead DEF TypeOK, StoreTypeOK, WalletRow
  <2>2. ASSUME NEW k \in TxKey, wager[k] # None PROVE ReadsBack(wager[k].amount)
    BY <2>2, AmountsRead DEF TypeOK, StoreTypeOK, WagerRow
  <2>3. ASSUME NEW e \in outbox, e.type = "WalletBalanceChanged"
        PROVE  ReadsBack(e.amount) /\ ReadsBack(e.before) /\ ReadsBack(e.after)
    <3>1. e \in BalanceEvent
      BY <2>3 DEF TypeOK, StoreTypeOK, Event, StatusEvent, StatusEventTypes
    <3>2. e.amount \in Amounts /\ e.before \in Amounts /\ e.after \in Amounts
      BY <3>1, Numbers DEF BalanceEvent
    <3> QED
      BY <3>2, AmountsRead
  <2> QED
    BY <2>1, <2>2, <2>3 DEF AmountsReadBack
<1> QED
  BY <1>1, TypeCorrect, PTL

-----------------------------------------------------------------------------
(* The books of the wallets.                                               *)
(*                                                                         *)
(* BooksBalance alone is not inductive: a commit publishes what a session  *)
(* did in private.  PrivateBooksBalance says that this extends the         *)
(* committed books of a wallet the session holds; TypeInv says that a      *)
(* handler that moves money holds the wallet.                              *)

BooksInv == TypeInv /\ BooksBalance /\ PrivateBooksBalance

\* The part of it that says nothing of handlers: the lemmas about the store's operations
\* need no more, whatever kind of session performs them.
StoreBooks == StoreTypeOK /\ BooksBalance /\ PrivateBooksBalance

LEMMA BooksOfTheStore == BooksInv => StoreBooks
BY DEF BooksInv, StoreBooks, TypeInv, TypeOK

\* PrivateBooksBalance for one session and one wallet.
PrivateBooks(a, w) ==
    IF holder[w] = a
    THEN /\ wallet[w].open /\ work[a][w].open
         /\ Books(w, work[a][w], ledger[w] \o entries[a][w])
         /\ VersionMatches(a, w)
    ELSE entries[a][w] = <<>>

LEMMA PrivatePart == PrivateBooksBalance <=> \A a \in Agent, w \in Wallet : PrivateBooks(a, w)
BY DEF PrivateBooksBalance, PrivateBooks

-----------------------------------------------------------------------------
(* Sequences of ledger rows.                                               *)

LEMMA ConcatEmpty ==
    ASSUME NEW s \in Seq(EntryRow)
    PROVE  s \o <<>> = s
OBVIOUS

LEMMA ConcatAppend ==
    ASSUME NEW s \in Seq(EntryRow), NEW t \in Seq(EntryRow), NEW e \in EntryRow
    PROVE  s \o Append(t, e) = Append(s \o t, e)
OBVIOUS

\* A row that starts where the wallet stands, and is not the opening row, keeps the books.
LEMMA BooksAppend ==
    ASSUME NEW w \in Wallet, NEW row \in WalletRow, row.open,
           NEW s \in Seq(EntryRow), Books(w, row, s),
           NEW e \in EntryRow, e.tx # w, EntryMath(e), e.before = row.balance,
           NEW next \in WalletRow, next.open, next.balance = e.after,
           next.version = row.version + 1
    PROVE  Books(w, next, Append(s, e))
<1> DEFINE t == Append(s, e)
<1>1. /\ Len(t) = Len(s) + 1 /\ Len(s) \in Nat /\ t # <<>>
      /\ t[Len(s) + 1] = e
      /\ \A i \in 1..Len(s) : t[i] = s[i]
  OBVIOUS
<1>2. s = <<>> <=> Len(s) = 0
  OBVIOUS
<1>3. Chained(s) /\ row.balance = LastBalance(s) /\ row.version = VersionAfter(s, w)
  BY DEF Books
<1> HIDE DEF t
<1>4. LastBalance(t) = e.after
  BY <1>1 DEF LastBalance
<1>5. Chained(t)
  <2>1. \A i \in 1..Len(t) : EntryMath(t[i])
    BY <1>1, <1>3 DEF Chained
  <2>2. t[1].before = 0
    BY <1>1, <1>2, <1>3 DEF Chained, LastBalance
  <2>3. ASSUME NEW i \in 2..Len(t) PROVE t[i].before = t[i - 1].after
    <3>1. CASE i = Len(s) + 1
      <4>1. Len(s) >= 1 /\ s # <<>> /\ t[i] = e /\ t[i - 1] = s[Len(s)]
        BY <1>1, <1>2, <3>1
      <4> QED
        BY <1>3, <4>1 DEF LastBalance
    <3>2. CASE i # Len(s) + 1
      <4>1. i \in 2..Len(s) /\ i - 1 \in 1..Len(s) /\ i \in 1..Len(s)
        BY <1>1, <3>2
      <4> QED
        BY <1>1, <1>3, <4>1 DEF Chained
    <3> QED
      BY <3>1, <3>2
  <2> QED
    BY <2>1, <2>2, <2>3 DEF Chained
<1>6. VersionAfter(t, w) = row.version + 1
  <2>1. CASE s = <<>>
    BY <1>1, <1>2, <1>3, <2>1 DEF VersionAfter
  <2>2. CASE s # <<>>
    BY <1>1, <1>2, <1>3, <2>2 DEF VersionAfter
  <2> QED
    BY <2>1, <2>2
<1> QED
  BY <1>1, <1>4, <1>5, <1>6 DEF Books, t

\* The books of a wallet that has just been opened.
LEMMA BooksOpened ==
    ASSUME NEW w \in Wallet, NEW e \in EntryRow, NEW amount \in Balances, e.tx = w, e.dir = "CREDIT",
           e.amount = amount, e.before = 0, e.after = amount
    PROVE  LET row == [open |-> TRUE, balance |-> amount, version |-> 1]
           IN  /\ Books(w, row, Append(<<>>, e))
               /\ amount = 0 => Books(w, row, <<>>)
<1> DEFINE s == Append(<<>>, e)
<1>1. Len(s) = 1 /\ s[1] = e /\ s # <<>>
  OBVIOUS
<1> HIDE DEF s
<1>2. Chained(s) /\ LastBalance(s) = amount /\ VersionAfter(s, w) = 1
  BY <1>1, Numbers DEF Chained, LastBalance, VersionAfter, EntryMath
<1>3. Chained(<<>>) /\ LastBalance(<<>>) = 0 /\ VersionAfter(<<>>, w) = 1
  BY DEF Chained, LastBalance, VersionAfter
<1> QED
  BY <1>2, <1>3 DEF Books, s

-----------------------------------------------------------------------------
(* What the operations of the store do to the books.                       *)

\* Steps that leave tables, copies and wallet locks alone.
LEMMA BooksUntouched ==
    ASSUME StoreBooks, UNCHANGED <<wallet, ledger, work, entries>>,
           \A w \in Wallet : holder'[w] = holder[w]
    PROVE  BooksBalance' /\ PrivateBooksBalance'
BY DEF StoreBooks, BooksBalance, PrivateBooksBalance, VersionMatches

LEMMA RollbackBooks ==
    ASSUME StoreBooks, NEW h \in Agent, Rollback(h)
    PROVE  BooksBalance' /\ PrivateBooksBalance'
<1>1. h \in Agent /\ h # None /\ StoreTypeOK
  BY StoreAssumption DEF StoreBooks
<1>2. EndSession(h) /\ UNCHANGED <<wallet, ledger>>
  BY DEF Rollback, tables
<1>3. BooksBalance'
  BY <1>2 DEF StoreBooks, BooksBalance
<1>4. ASSUME NEW a \in Agent, NEW w \in Wallet PROVE PrivateBooks(a, w)'
  <2>1. PrivateBooks(a, w)
    BY PrivatePart DEF StoreBooks
  <2>2. w \in Resource
    BY Resources
  <2>3. CASE a = h
    <3>1. holder'[w] # h /\ entries'[h][w] = <<>>
      BY <1>1, <1>2, <2>2 DEF EndSession, StoreTypeOK
    <3> QED
      BY <2>3, <3>1 DEF PrivateBooks
  <2>4. CASE a # h
    <3>1. /\ holder'[w] = a <=> holder[w] = a
          /\ work'[a] = work[a] /\ entries'[a] = entries[a]
      BY <1>1, <1>2, <2>2, <2>4, StoreAssumption DEF EndSession, StoreTypeOK
    <3> QED
      BY <1>2, <2>1, <3>1 DEF PrivateBooks, VersionMatches
  <2> QED
    BY <2>3, <2>4
<1>5. PrivateBooksBalance'
  BY <1>4 DEF PrivateBooksBalance, PrivateBooks
<1> QED
  BY <1>3, <1>5

LEMMA CommitBooks ==
    ASSUME StoreBooks, NEW h \in Agent, NEW rows, Commit(h, rows)
    PROVE  BooksBalance' /\ PrivateBooksBalance'
<1>1. h \in Agent /\ h # None /\ StoreTypeOK
  BY StoreAssumption DEF StoreBooks
<1>2. EndSession(h)
  BY DEF Commit
<1>3. ASSUME NEW w \in Wallet
      PROVE  /\ holder[w] = h => /\ wallet'[w] = work[h][w]
                                 /\ ledger'[w] = ledger[w] \o entries[h][w]
             /\ holder[w] # h => wallet'[w] = wallet[w] /\ ledger'[w] = ledger[w]
  <2>1. holder[w] # h => entries[h][w] = <<>>
    BY <1>1, PrivatePart DEF StoreBooks, PrivateBooks
  <2>2. ledger[w] \o <<>> = ledger[w]
    BY <1>1, ConcatEmpty DEF StoreTypeOK
  <2> QED
    BY <2>1, <2>2 DEF Commit
<1>4. ASSUME NEW w \in Wallet PROVE Books(w, wallet'[w], ledger'[w])
  <2>1. holder[w] = h => Books(w, work[h][w], ledger[w] \o entries[h][w])
    BY <1>1, PrivatePart DEF StoreBooks, PrivateBooks
  <2> QED
    BY <1>3, <2>1 DEF StoreBooks, BooksBalance
<1>5. BooksBalance'
  BY <1>4 DEF BooksBalance
<1>6. ASSUME NEW a \in Agent, NEW w \in Wallet PROVE PrivateBooks(a, w)'
  <2>1. PrivateBooks(a, w)
    BY PrivatePart DEF StoreBooks
  <2>2. w \in Resource
    BY Resources
  <2>3. CASE a = h
    <3>1. holder'[w] # h /\ entries'[h][w] = <<>>
      BY <1>1, <1>2, <2>2 DEF EndSession, StoreTypeOK
    <3> QED
      BY <2>3, <3>1 DEF PrivateBooks
  <2>4. CASE a # h
    <3>1. /\ holder'[w] = a <=> holder[w] = a
          /\ work'[a] = work[a] /\ entries'[a] = entries[a]
      BY <1>1, <1>2, <2>2, <2>4, StoreAssumption DEF EndSession, StoreTypeOK
    <3>2. CASE holder[w] = a
      BY <1>3, <2>1, <2>4, <3>1, <3>2 DEF PrivateBooks, VersionMatches
    <3>3. CASE holder[w] # a
      BY <2>1, <3>1, <3>3 DEF PrivateBooks
    <3> QED
      BY <3>2, <3>3
  <2> QED
    BY <2>3, <2>4
<1>7. PrivateBooksBalance'
  BY <1>6 DEF PrivateBooksBalance, PrivateBooks
<1> QED
  BY <1>5, <1>7

LEMMA LockBooks ==
    ASSUME StoreBooks, NEW h \in Agent, NEW w \in Wallet, wallet[w].open,
           LockWalletRow(h, w), UNCHANGED <<wallet, ledger, entries>>
    PROVE  BooksBalance' /\ PrivateBooksBalance'
<1>1. h \in Agent /\ h # None /\ StoreTypeOK /\ w \in Resource
  BY StoreAssumption, Resources DEF StoreBooks
<1>2. BooksBalance'
  BY DEF StoreBooks, BooksBalance
<1>3. ASSUME NEW a \in Agent, NEW v \in Wallet PROVE PrivateBooks(a, v)'
  <2>1. PrivateBooks(a, v) /\ v \in Resource
    BY PrivatePart, Resources DEF StoreBooks
  <2>2. CASE v # w
    <3>1. holder'[v] = holder[v] /\ work'[a][v] = work[a][v]
      BY <1>1, <2>1, <2>2 DEF LockWalletRow, Take, StoreTypeOK
    <3> QED
      BY <2>1, <3>1 DEF PrivateBooks, VersionMatches
  <2>3. CASE v = w /\ a # h
    <3>1. holder[w] # a /\ holder'[w] # a
      BY <1>1, <2>3, StoreAssumption DEF LockWalletRow, Take, StoreTypeOK
    <3> QED
      BY <2>1, <2>3, <3>1 DEF PrivateBooks
  <2>4. CASE v = w /\ a = h /\ holder[w] = h
    <3>1. holder'[w] = h /\ work'[h][w] = work[h][w]
      BY <1>1, <2>4 DEF LockWalletRow, Take, StoreTypeOK
    <3> QED
      BY <2>1, <2>4, <3>1 DEF PrivateBooks, VersionMatches
  <2>5. CASE v = w /\ a = h /\ holder[w] # h
    <3>1. holder'[w] = h /\ work'[h][w] = wallet[w]
      BY <1>1, <2>5 DEF LockWalletRow, Take, StoreTypeOK
    <3>2. entries[h][w] = <<>> /\ ledger[w] \o entries[h][w] = ledger[w]
      BY <1>1, <2>1, <2>5, ConcatEmpty DEF PrivateBooks, StoreTypeOK
    <3>3. Books(w, wallet[w], ledger[w])
      BY DEF StoreBooks, BooksBalance
    <3>4. wallet[w].version + Len(entries[h][w]) = wallet[w].version
      BY <1>1, <3>2 DEF StoreTypeOK, WalletRow
    <3> QED
      BY <2>5, <3>1, <3>2, <3>3, <3>4 DEF PrivateBooks, VersionMatches
  <2> QED
    BY <2>2, <2>3, <2>4, <2>5
<1>4. PrivateBooksBalance'
  BY <1>3 DEF PrivateBooksBalance, PrivateBooks
<1> QED
  BY <1>2, <1>4

LEMMA MoveBooks ==
    ASSUME StoreBooks, NEW h \in Agent, NEW w \in Wallet, holder[w] = h, NEW k \in ExtId,
           NEW dir \in Directions, NEW amount \in Amounts,
           Affordable(dir, work[h][w].balance, amount), Move(h, w, k, dir, amount),
           UNCHANGED <<wallet, ledger>>, \A v \in Wallet : holder'[v] = holder[v]
    PROVE  BooksBalance' /\ PrivateBooksBalance'
<1> DEFINE row == work[h][w]
           entry == NewEntry(h, w, k, dir, amount)
           after == Moved(dir, work[h][w].balance, amount)
<1>1. h \in Agent /\ StoreTypeOK /\ k # w /\ k \in TxKey /\ amount \in Balances
  BY StoreAssumption, MoneyAssumption
     DEF StoreBooks, TxKey, Move, Postable, Amounts, Balances
<1>2. row \in WalletRow /\ row.balance \in Balances /\ row.version \in Nat
  BY <1>1 DEF StoreTypeOK, WalletRow
<1>3. /\ entry \in EntryRow /\ entry.tx # w /\ EntryMath(entry) /\ entry.before = row.balance
      /\ entry.after = after /\ after \in Balances
  BY <1>1, <1>2, MovedType DEF NewEntry, EntryRow, EntryMath
<1>4. /\ wallet[w].open /\ row.open /\ Books(w, row, ledger[w] \o entries[h][w])
      /\ VersionMatches(h, w)
  BY <1>1, PrivatePart DEF StoreBooks, PrivateBooks
<1>5. /\ work'[h][w] \in WalletRow /\ work'[h][w].open
      /\ work'[h][w].balance = after /\ work'[h][w].version = row.version + 1
  <2>1. work'[h][w] \in WalletRow
    BY <1>1, MoveType
  <2>2. /\ work'[h][w].open = row.open /\ work'[h][w].balance = after
        /\ work'[h][w].version = row.version + 1
    BY <1>1, <1>2 DEF Move, StoreTypeOK, WalletRow
  <2> QED
    BY <1>4, <2>1, <2>2
<1>6. entries'[h][w] = Append(entries[h][w], entry)
  BY <1>1 DEF Move, StoreTypeOK
<1>7. \A a \in Agent, v \in Wallet :
          a # h \/ v # w => work'[a][v] = work[a][v] /\ entries'[a][v] = entries[a][v]
  BY <1>1 DEF Move, StoreTypeOK
<1>8. ledger[w] \in Seq(EntryRow) /\ entries[h][w] \in Seq(EntryRow)
  BY <1>1 DEF StoreTypeOK
<1> HIDE DEF row, entry, after
<1>9. Books(w, work'[h][w], ledger[w] \o entries'[h][w])
  <2>1. ledger[w] \o entries'[h][w] = Append(ledger[w] \o entries[h][w], entry)
    BY <1>3, <1>6, <1>8, ConcatAppend
  <2>2. ledger[w] \o entries[h][w] \in Seq(EntryRow)
    BY <1>8
  <2> DEFINE s == ledger[w] \o entries[h][w]
             next == work'[h][w]
  <2>3. Books(w, row, s) /\ s \in Seq(EntryRow) /\ row.open /\ row \in WalletRow
    BY <1>2, <1>4, <2>2
  <2>4. /\ next \in WalletRow /\ next.open /\ next.balance = entry.after
        /\ next.version = row.version + 1
    BY <1>3, <1>5
  <2> HIDE DEF s, next
  <2>5. Books(w, next, Append(s, entry))
    BY <1>3, <2>3, <2>4, BooksAppend
  <2> QED
    BY <2>1, <2>5 DEF s, next
<1>10. wallet[w].version + Len(entries'[h][w]) = work'[h][w].version
  <2>1. Len(entries'[h][w]) = Len(entries[h][w]) + 1 /\ Len(entries[h][w]) \in Nat
    BY <1>6, <1>8
  <2>2. wallet[w].version \in Nat
    BY <1>1 DEF StoreTypeOK, WalletRow
  <2>3. wallet[w].version + Len(entries[h][w]) = row.version
    BY <1>4 DEF VersionMatches, row
  <2> QED
    BY <1>2, <1>5, <2>1, <2>2, <2>3
<1>11. ASSUME NEW a \in Agent, NEW v \in Wallet PROVE PrivateBooks(a, v)'
  <2>1. PrivateBooks(a, v)
    BY PrivatePart DEF StoreBooks
  <2>2. CASE a = h /\ v = w
    BY <1>4, <1>5, <1>9, <1>10, <2>2 DEF PrivateBooks, VersionMatches
  <2>3. CASE a # h \/ v # w
    BY <1>7, <2>1, <2>3 DEF PrivateBooks, VersionMatches
  <2> QED
    BY <2>2, <2>3
<1>12. BooksBalance'
  BY DEF StoreBooks, BooksBalance
<1>13. PrivateBooksBalance'
  BY <1>11 DEF PrivateBooksBalance, PrivateBooks
<1> QED
  BY <1>12, <1>13

\* Nobody holds a wallet that does not exist, and its ledger is empty.
LEMMA ClosedWalletIsFree ==
    ASSUME StoreBooks, NEW w \in Wallet, ~wallet[w].open
    PROVE  /\ ledger[w] = <<>>
           /\ \A a \in Agent : holder[w] # a /\ entries[a][w] = <<>>
<1>1. \A a \in Agent : PrivateBooks(a, w)
  BY PrivatePart DEF StoreBooks
<1>2. Books(w, wallet[w], ledger[w])
  BY DEF StoreBooks, BooksBalance
<1> QED
  BY <1>1, <1>2 DEF PrivateBooks, Books

-----------------------------------------------------------------------------
(* One lemma per action that can disturb the books.                        *)

LEMMA RetryBooks ==
    ASSUME BooksInv, NEW h \in Handler, RetryOrGiveUp(h)
    PROVE  BooksBalance' /\ PrivateBooksBalance'
BY BooksOfTheStore, HandlersAreAgents, RollbackBooks DEF RetryOrGiveUp

LEMMA InsertWalletBooks ==
    ASSUME BooksInv, NEW h \in Handler, InsertWallet(h)
    PROVE  BooksBalance' /\ PrivateBooksBalance'
<1> DEFINE c == call[h]
           w == c.wallet
           opened == [open |-> TRUE, balance |-> c.amount, version |-> 1]
           e == OpeningEntry(c)
<1>1. /\ pc[h] = "insert" /\ c \in Calls /\ c.kind = "OPENING" /\ StoreTypeOK
      /\ w \in Wallet /\ c.amount \in Balances /\ c.ext = w
  BY CallFields DEF InsertWallet, BooksInv, TypeInv, TypeOK, Control, HandlerControl
<1>2. CASE Fail(h, "error")
  BY <1>2, BooksOfTheStore, HandlersAreAgents, RollbackBooks DEF Fail
<1>3. CASE ~Fail(h, "error")
  <2>1. ~wallet[w].open /\ UNCHANGED session
    BY <1>3 DEF InsertWallet
  <2>2. wallet' = [wallet EXCEPT ![w] = opened]
    BY <1>3 DEF InsertWallet
  <2>3. \/ c.amount > 0 /\ ledger' = [ledger EXCEPT ![w] = Append(ledger[w], e)]
        \/ ~(c.amount > 0) /\ ledger' = ledger
    BY <1>1, <1>3 DEF InsertWallet, StoreTypeOK
  <2>4. ledger[w] = <<>> /\ \A a \in Agent : holder[w] # a /\ entries[a][w] = <<>>
    BY <1>1, <2>1, BooksOfTheStore, ClosedWalletIsFree
  <2>5. Books(w, opened, ledger'[w])
    <3>1. e \in EntryRow
      BY <1>1, OpeningTypes
    <3>2. e.tx = w /\ e.dir = "CREDIT" /\ e.amount = c.amount /\ e.before = 0 /\ e.after = c.amount
      BY <1>1 DEF OpeningEntry
    <3>3. /\ Books(w, opened, Append(<<>>, e))
          /\ c.amount = 0 => Books(w, opened, <<>>)
      BY <1>1, <3>1, <3>2, BooksOpened
    <3>4. ledger'[w] = Append(<<>>, e) \/ (c.amount = 0 /\ ledger'[w] = <<>>)
      <4>1. c.amount \in Nat
        BY <1>1, Numbers
      <4> QED
        BY <1>1, <2>3, <2>4, <4>1 DEF StoreTypeOK
    <3> QED
      BY <3>3, <3>4
  <2>6. wallet'[w] = opened /\ \A v \in Wallet \ {w} : wallet'[v] = wallet[v] /\ ledger'[v] = ledger[v]
    BY <1>1, <2>2, <2>3 DEF StoreTypeOK
  <2> HIDE DEF w, opened, e
  <2>7. BooksBalance'
    BY <1>1, <2>5, <2>6 DEF BooksInv, BooksBalance
  <2>8. ASSUME NEW a \in Agent, NEW v \in Wallet PROVE PrivateBooks(a, v)'
    <3>1. PrivateBooks(a, v)
      BY PrivatePart DEF BooksInv
    <3>2. holder' = holder /\ work' = work /\ entries' = entries
      BY <2>1 DEF session
    <3>3. CASE v = w
      BY <2>4, <3>2, <3>3 DEF PrivateBooks
    <3>4. CASE v # w
      BY <2>6, <3>1, <3>2, <3>4 DEF PrivateBooks, VersionMatches
    <3> QED
      BY <3>3, <3>4
  <2>9. PrivateBooksBalance'
    BY <2>8 DEF PrivateBooksBalance, PrivateBooks
  <2> QED
    BY <2>7, <2>9
<1> QED
  BY <1>2, <1>3

\* Locking a message id or a transaction row locks no wallet.
LEMMA TakeOther ==
    ASSUME StoreTypeOK, NEW a \in Agent, NEW r \in ExtId \cup Msg, Take(a, r)
    PROVE  \A w \in Wallet : holder'[w] = holder[w]
BY StoreAssumption, Resources DEF StoreTypeOK, Take

LEMMA ExecuteBooks ==
    ASSUME BooksInv, NEW h \in Handler, Execute(h)
    PROVE  BooksBalance' /\ PrivateBooksBalance'
<1> DEFINE c == call[h]
<1>1. /\ pc[h] = "execute" /\ c \in Calls /\ c.ext \in ExtId /\ holder[c.wallet] = h
      /\ c.wallet \in Wallet /\ c.amount \in Amounts /\ h \in Agent /\ StoreTypeOK
  BY CallFields, HandlersAreAgents
     DEF Execute, BooksInv, TypeInv, TypeOK, Control, HandlerControl, Wagering, AfterLock
<1>2. CASE Fail(h, "error") \/ RetryOrGiveUp(h)
  BY <1>2, BooksOfTheStore, HandlersAreAgents, RollbackBooks, RetryBooks DEF Fail
<1>3. CASE /\ Take(h, c.ext)
           /\ Park(h) \/ Reject(h) \/ Process(h)
           /\ UNCHANGED <<tables, todo>>
  <2>1. (\A w \in Wallet : holder'[w] = holder[w]) /\ UNCHANGED <<wallet, ledger>>
    BY <1>1, <1>3, TakeOther DEF tables
  <2>2. CASE Park(h) \/ Reject(h) \/ (Process(h) /\ c.kind = "LOSS")
    <3>1. UNCHANGED <<work, entries>>
      BY <2>2 DEF Park, Reject, Process, Announce
    <3> QED
      BY <2>1, <3>1, BooksOfTheStore, BooksUntouched
  <2>3. CASE Process(h) /\ c.kind # "LOSS"
    <3>1. DirectDirection(c) \in Directions
      BY DEF DirectDirection, Directions
    <3>2. /\ Affordable(DirectDirection(c), work[h][c.wallet].balance, c.amount)
          /\ Move(h, c.wallet, c.ext, DirectDirection(c), c.amount)
      BY <2>3 DEF Process
    <3> QED
      BY <1>1, <2>1, <3>1, <3>2, BooksOfTheStore, HandlersAreAgents, MoveBooks
  <2> QED
    BY <1>3, <2>2, <2>3
<1> QED
  BY <1>2, <1>3 DEF Execute

LEMMA ResolvePendingBooks ==
    ASSUME BooksInv, NEW h \in Handler, ResolvePending(h)
    PROVE  BooksBalance' /\ PrivateBooksBalance'
<1> DEFINE c == call[h]
<1>1. /\ pc[h] = "resolve" /\ c \in Calls /\ c.ext \in ExtId /\ holder[c.wallet] = h
      /\ c.wallet \in Wallet /\ h \in Agent /\ StoreTypeOK /\ todo[h] \subseteq ExtId
  BY CallFields, HandlersAreAgents
     DEF ResolvePending, BooksInv, TypeInv, TypeOK, Control, HandlerControl, Wagering, AfterLock
<1>2. PICK k \in todo[h] : Fail(h, "error") \/ ResolveRow(h, k)
  BY DEF ResolvePending
<1>3. k \in ExtId /\ k \in TxKey
  BY <1>1 DEF TxKey
<1>4. CASE Fail(h, "error")
  BY <1>4, BooksOfTheStore, HandlersAreAgents, RollbackBooks DEF Fail
<1>5. CASE ResolveRow(h, k) /\ ~PendingReference(k)
  BY <1>5, BooksOfTheStore, BooksUntouched DEF ResolveRow, storeVars, tables, session
<1>6. CASE ResolveRow(h, k) /\ PendingReference(k)
  <2>0. /\ Take(h, k)
        /\ ResolveSinglePendingRef(h, c.wallet, k, c.ext)
        /\ UNCHANGED tables
    BY <1>6 DEF ResolveRow
  <2>1. (\A w \in Wallet : holder'[w] = holder[w]) /\ UNCHANGED <<wallet, ledger>>
    BY <1>1, <1>3, <2>0, TakeOther DEF tables
  <2>2. Seen(h, k) \in WagerRow
    BY <1>1, <1>3, <1>6 DEF PendingReference, Exists, Seen, StoreTypeOK
  <2>3. Seen(h, k).amount \in Amounts
    BY <2>2 DEF WagerRow
  <2>4. \/ \E code \in FailureCodes : RejectPending(h, k, code)
        \/ \E dir \in Directions :
              /\ Affordable(dir, work[h][c.wallet].balance, Seen(h, k).amount)
              /\ Move(h, c.wallet, k, dir, Seen(h, k).amount)
    BY <2>0, ResolutionCases
  <2>5. CASE \E code \in FailureCodes : RejectPending(h, k, code)
    BY <2>1, <2>5, BooksOfTheStore, BooksUntouched DEF RejectPending, Announce
  <2>6. CASE \E dir \in Directions :
                /\ Affordable(dir, work[h][c.wallet].balance, Seen(h, k).amount)
                /\ Move(h, c.wallet, k, dir, Seen(h, k).amount)
    BY <1>1, <1>3, <2>1, <2>3, <2>6, BooksOfTheStore, HandlersAreAgents, MoveBooks
  <2> QED
    BY <2>4, <2>5, <2>6
<1> QED
  BY <1>2, <1>4, <1>5, <1>6

LEMMA HandlerStepBooks ==
    ASSUME BooksInv, NEW h \in Handler, HandlerStep(h)
    PROVE  BooksBalance' /\ PrivateBooksBalance'
<1>1. CASE CheckWallet(h)
  BY <1>1, BooksOfTheStore, HandlersAreAgents, RollbackBooks, BooksUntouched
     DEF CheckWallet, Fail, storeVars, tables, session
<1>2. CASE InsertWallet(h)
  BY <1>2, InsertWalletBooks
<1>3. CASE ClaimInbox(h)
  <2>1. call[h].msg \in Msg /\ h \in Agent /\ StoreTypeOK
    BY <1>3, CallFields, HandlersAreAgents
       DEF ClaimInbox, BooksInv, TypeInv, TypeOK, Control, HandlerControl, Wagering
  <2>2. CASE Fail(h, "replay")
    BY <2>2, BooksOfTheStore, HandlersAreAgents, RollbackBooks DEF Fail
  <2>3. CASE ~Fail(h, "replay")
    <3>1. Take(h, call[h].msg) /\ UNCHANGED <<wallet, ledger, work, entries>>
      BY <1>3, <2>3 DEF ClaimInbox, tables
    <3> QED
      BY <2>1, <3>1, TakeOther, BooksOfTheStore, BooksUntouched
  <2> QED
    BY <2>2, <2>3
<1>4. CASE CheckIdempotency(h)
  <2>1. \/ Rollback(h)
        \/ Commit(h, idem)
        \/ UNCHANGED storeVars
    BY <1>4 DEF CheckIdempotency, Fail
  <2> QED
    BY <2>1, BooksOfTheStore, HandlersAreAgents, RollbackBooks, CommitBooks, BooksUntouched
       DEF storeVars, tables, session
<1>5. CASE LockWallet(h)
  <2>1. call[h].wallet \in Wallet
    BY <1>5, CallFields DEF LockWallet, BooksInv, TypeInv, Control, HandlerControl
  <2>2. \/ Rollback(h)
        \/ /\ wallet[call[h].wallet].open /\ LockWalletRow(h, call[h].wallet)
           /\ UNCHANGED <<wallet, ledger, entries>>
    BY <1>5 DEF LockWallet, Fail, tables
  <2> QED
    BY <2>1, <2>2, BooksOfTheStore, HandlersAreAgents, RollbackBooks, LockBooks
<1>6. CASE Execute(h)
  BY <1>6, ExecuteBooks
<1>7. CASE QueryPending(h)
  BY <1>7, BooksOfTheStore, BooksUntouched DEF QueryPending, storeVars, tables, session
<1>8. CASE ResolvePending(h)
  BY <1>8, ResolvePendingBooks
<1>9. CASE CommitWager(h)
  BY <1>9, RetryBooks, BooksOfTheStore, HandlersAreAgents, CommitBooks DEF CommitWager
<1>10. CASE Finish(h)
  BY <1>10, BooksOfTheStore, BooksUntouched DEF Finish, storeVars, tables, session
<1> QED
  BY <1>1, <1>2, <1>3, <1>4, <1>5, <1>6, <1>7, <1>8, <1>9, <1>10 DEF HandlerStep

-----------------------------------------------------------------------------
(* The theorems.                                                           *)

LEMMA InitBooks == ServiceInit => BooksInv
<1> SUFFICES ASSUME ServiceInit PROVE BooksInv
  OBVIOUS
<1>1. \A a \in Agent, w \in Wallet : holder[w] # a /\ entries[a][w] = <<>>
  BY StoreAssumption, Resources DEF ServiceInit, StoreInit
<1>2. \A w \in Wallet : wallet[w] = ClosedWallet /\ ledger[w] = <<>>
  BY DEF ServiceInit, StoreInit
<1>3. \A w \in Wallet : Books(w, ClosedWallet, <<>>)
  BY DEF Books, Chained, LastBalance, ClosedWallet
<1>4. BooksBalance
  BY <1>2, <1>3 DEF BooksBalance
<1>5. PrivateBooksBalance
  BY <1>1 DEF PrivateBooksBalance
<1> QED
  BY <1>4, <1>5, InitTypeInv DEF BooksInv

LEMMA StepBooks == BooksInv /\ [ServiceNext]_vars => BooksInv'
<1> SUFFICES ASSUME BooksInv, [ServiceNext]_vars PROVE BooksInv'
  OBVIOUS
<1>1. TypeInv'
  BY StepTypeInv DEF BooksInv
<1>2. BooksBalance' /\ PrivateBooksBalance'
  <2>1. CASE UNCHANGED vars
    BY <2>1, BooksOfTheStore, BooksUntouched DEF vars, storeVars, tables, session
  <2>2. ASSUME NEW h \in Handler, Receive(h) PROVE BooksBalance' /\ PrivateBooksBalance'
    BY <2>2, BooksOfTheStore, BooksUntouched DEF Receive, storeVars, tables, session
  <2>3. ASSUME NEW h \in Handler, HandlerStep(h) PROVE BooksBalance' /\ PrivateBooksBalance'
    BY <2>3, HandlerStepBooks
  <2>4. ASSUME NEW h \in Handler, Abandon(h) PROVE BooksBalance' /\ PrivateBooksBalance'
    BY <2>4, BooksOfTheStore, HandlersAreAgents, RollbackBooks DEF Abandon
  <2> QED
    BY <2>1, <2>2, <2>3, <2>4 DEF ServiceNext
<1> QED
  BY <1>1, <1>2 DEF BooksInv

\* Whatever the handlers, calls and wallets are, and wherever handlers die, the stored
\* balance of every wallet is the end of an unbroken chain of ledger rows that starts at
\* zero, and its version counts them (wager_service.go 253-462, wallet_repo.go 114-140).
THEOREM BooksAlwaysBalance == ServiceSpec => []BooksBalance
<1>1. BooksInv => BooksBalance
  BY DEF BooksInv
<1> QED
  BY <1>1, InitBooks, StepBooks, PTL DEF ServiceSpec

\* The copy a handler works on extends the committed books of a wallet it has locked, so
\* the version test of UpdateBalance never fails: no caller ever meets
\* ErrOptimisticLockFailed (wallet_repo.go 114-140).
THEOREM PrivateBooksAlwaysBalance == ServiceSpec => []PrivateBooksBalance
<1>1. BooksInv => PrivateBooksBalance
  BY DEF BooksInv
<1> QED
  BY <1>1, InitBooks, StepBooks, PTL DEF ServiceSpec
=============================================================================
