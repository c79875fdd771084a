----------------------------- MODULE RoundProofs -----------------------------
(***************************************************************************)
(* What holds when the rounds of the background workers work beside the    *)
(* handlers, for any number of each: first the pending-reference resolver, *)
(* then also the recovery of PENDING rows.                                 *)
(*                                                                         *)
(* A round of the resolver changes the store only in the ways              *)
(* SettlementProofs knows (StoreStep), so the invariant of the handlers    *)
(* survives it.  What is to be shown is that each action of the round is   *)
(* such a step: that the row it settles is still parked and still locked   *)
(* by it.  That is Round.  A round of the recovery ends rows without       *)
(* moving their money; RecoveryRound says that they are still PENDING and  *)
(* locked, and Postings that the ledger tells which way to end them.       *)
(***************************************************************************)
EXTENDS RecoveryInvariants, SettlementProofs

\* The transaction a parked one is about was refused.
OriginalRefused(k) ==
    LET original == wager[k].ref
    IN  Exists(original) /\ wager[original].status \in {"REJECTED", "FAILED"}

\* The rows a round works on are parked, locked by it and not yet settled by it; of an
\* original it saw refused that is still so; and a wallet it moves it has locked.
Round(a) ==
    /\ rpc[a] = "idle" => \A k \in ExtId : items[a][k] = None
    /\ rpc[a] \in {"idle", "expired"} => \A k \in ExtId : staged[a][k] = None
    /\ \A k \in ExtId : items[a][k] # None =>
          /\ holder[k] = a /\ PendingReference(k) /\ staged[a][k] = None
          /\ items[a][k] \in {"REJECTED", "FAILED"} => OriginalRefused(k)
    /\ rpc[a] \in {"lock", "apply"} =>
          current[a] \in ExtId /\ items[a][current[a]] = "PROCESSED"
    /\ rpc[a] = "apply" => holder[wager[current[a]].wallet] = a

\* The types of what the rounds add to the service.
RoundTypes ==
    /\ rpc \in [Worker -> RoundSteps]
    /\ items \in [Worker -> [ExtId -> Sighting]]
    /\ current \in [Worker -> ExtId \cup {None}]
    /\ aged \subseteq ExtId

\* The inductive invariant of handlers and rounds together.
SystemInv == ServiceInv /\ RoundTypes /\ \A a \in Worker : Round(a)

-----------------------------------------------------------------------------
(* What a step leaves to the rounds it is not about.                       *)

\* A round keeps its rows when nobody else touches its locks, its parked rows, its private
\* rows, or any settled row.
LEMMA RoundKept ==
    ASSUME StoreTypeOK, NEW b \in Worker, Round(b),
           rpc'[b] = rpc[b], items'[b] = items[b], current'[b] = current[b],
           staged'[b] = staged[b],
           \A r \in Resource : holder[r] = b => holder'[r] = b,
           \A k \in ExtId : holder[k] = b /\ PendingReference(k) => wager'[k] = wager[k],
           \A k \in ExtId : Exists(k) /\ Terminal(wager[k].status) => wager'[k] = wager[k]
    PROVE  Round(b)'
<1>1. ASSUME NEW k \in ExtId, items[b][k] # None
      PROVE  /\ holder'[k] = b /\ PendingReference(k)' /\ wager'[k] = wager[k]
             /\ items[b][k] \in {"REJECTED", "FAILED"} => OriginalRefused(k)'
  <2>1. holder[k] = b /\ PendingReference(k) /\ k \in Resource /\ k \in TxKey
    BY <1>1, Resources DEF Round, TxKey
  <2>2. holder'[k] = b /\ wager'[k] = wager[k]
    BY <2>1
  <2>3. ASSUME items[b][k] \in {"REJECTED", "FAILED"} PROVE OriginalRefused(k)'
    <3> DEFINE original == wager[k].ref
    <3>1. Exists(original) /\ wager[original].status \in {"REJECTED", "FAILED"}
      BY <1>1, <2>3 DEF Round, OriginalRefused
    <3>2. wager[k] \in WagerRow
      BY <2>1 DEF PendingReference, Exists, StoreTypeOK
    <3>3. original \in ExtId
      BY <3>1, <3>2 DEF Exists, WagerRow
    <3>4. wager'[original] = wager[original]
      BY <3>1, <3>3 DEF Terminal
    <3> QED
      BY <2>2, <3>1, <3>4 DEF OriginalRefused, Exists
  <2> QED
    BY <2>1, <2>2, <2>3 DEF PendingReference, Exists
<1>2. ASSUME rpc[b] = "apply" PROVE holder'[wager'[current[b]].wallet] = b
  <2> DEFINE k == current[b]
  <2>1. k \in ExtId /\ items[b][k] = "PROCESSED" /\ holder[wager[k].wallet] = b
    BY <1>2 DEF Round
  <2>2. "PROCESSED" # None
    BY ResolverAssumption DEF Statuses
  <2>3. wager'[k] = wager[k] /\ PendingReference(k)
    BY <1>1, <2>1, <2>2 DEF Round
  <2>4. wager[k].wallet \in Resource
    BY <2>1, <2>3, Resources DEF PendingReference, Exists, StoreTypeOK, TxKey, WagerRow
  <2> QED
    BY <2>1, <2>3, <2>4
<1> QED
  BY <1>1, <1>2 DEF Round

LEMMA WorkersAreAgents ==
    ASSUME NEW a \in Worker
    PROVE  a \in Agent /\ a # None /\ a \notin Handler
BY StoreAssumption, ResolverAssumption

LEMMA SessionsAreAgents == Handler \cup Worker \subseteq Agent
BY HandlersAreAgents, WorkersAreAgents

LEMMA RoundOfOthers ==
    ASSUME StoreTypeOK, RowsInv, Kept, NEW a \in Agent, StoreStep(a),
           NEW b \in Worker, b # a, Round(b),
           rpc'[b] = rpc[b], items'[b] = items[b], current'[b] = current[b]
    PROVE  Round(b)'
<1>1. /\ b \in Agent /\ Owned /\ OpenedFirst /\ Apart(a)
  BY WorkersAreAgents, StepApart DEF RowsInv
<1>2. /\ staged'[b] = staged[b]
      /\ \A r \in Resource : holder[r] = b => holder'[r] = b
  BY <1>1 DEF Apart
<1>3. ASSUME NEW k \in ExtId, holder[k] = b, PendingReference(k)
      PROVE  wager'[k] = wager[k]
  <2>1. k \in TxKey /\ wager[k] # None
    BY <1>3 DEF TxKey, PendingReference, Exists
  <2>2. staged[a][k] = None
    BY <1>1, <1>3, <2>1 DEF Owned
  <2> QED
    BY <1>1, <2>1, <2>2, RowChanges
<1>4. ASSUME NEW k \in ExtId, Exists(k), Terminal(wager[k].status)
      PROVE  wager'[k] = wager[k]
  BY <1>4, SettledStays DEF Exists, TxKey
<1> QED
  BY <1>2, <1>3, <1>4, RoundKept

-----------------------------------------------------------------------------
(* What a step leaves to the handlers.                                     *)

LEMMA ControlApart ==
    ASSUME TypeInv, NEW a \in Agent, Apart(a), UNCHANGED control,
           \A h \in Handler : h # a
    PROVE  Control'
<1> SUFFICES ASSUME NEW g \in Handler PROVE HandlerControl(g)'
  BY DEF Control
<1>1. /\ HandlerControl(g) /\ g \in Agent
      /\ staged'[g] = staged[g]
      /\ \A r \in Resource : holder'[r] = g <=> holder[r] = g
      /\ pc'[g] = pc[g] /\ call'[g] = call[g]
  BY HandlersAreAgents DEF TypeInv, Control, Apart, control
<1>2. call[g] \in Calls => call[g].wallet \in Resource
  BY CallFields, Resources
<1> QED
  BY <1>1, <1>2 DEF HandlerControl, AfterLock, AfterExecute

\* What a session that is no handler's leaves to the handlers.
LEMMA SessionKeeps ==
    ASSUME ServiceInv, NEW a \in Agent, a \notin Handler, StoreStep(a), StoreBooks',
           UNCHANGED <<control, inbox>>, \A m \in Msg : holder'[m] # a
    PROVE  ServiceInv' /\ Kept
<1>1. /\ StoreInv /\ TypeInv /\ Flow /\ RowsInv /\ StoreTypeOK /\ TypeOK
      /\ UNCHANGED control /\ inbox' = inbox
  BY DEF ServiceInv, StoreInv, StoreBooks, TypeInv
<1>2. StoreInv' /\ Kept /\ Apart(a)
  BY <1>1, StoreStepKeeps, StepApart
<1>3. StoredAnswersHold' /\ InboxMeansDone'
  BY <1>1, <1>2, AnswersKept, InboxKept DEF ServiceInv
<1>4. \A g \in Handler : SameControl(g)
  BY <1>1 DEF SameControl, control
<1>5. MessageLocks'
  BY <1>1, <1>2, <1>4, MessageLocksKept DEF Flow
<1>6. ASSUME NEW g \in Handler PROVE HandlerFlow(g)'
  BY <1>1, <1>2, <1>4, FlowOfOthers DEF Flow
<1>7. TypeInv'
  <2>1. Control'
    BY <1>1, <1>2, ControlApart
  <2> QED
    BY <1>1, <2>1 DEF TypeInv, TypeOK, StoreBooks, control
<1> QED
  BY <1>2, <1>3, <1>5, <1>6, <1>7 DEF ServiceInv, Flow

\* What a step of round a must show, the rest follows.
RoundOrderly(a) ==
    /\ StoreStep(a) /\ StoreBooks'
    /\ UNCHANGED <<control, inbox>>
    /\ \A m \in Msg : holder'[m] # a
    /\ Round(a)' /\ RoundTypes'
    /\ \A b \in Worker \ {a} :
          rpc'[b] = rpc[b] /\ items'[b] = items[b] /\ current'[b] = current[b]

LEMMA RoundOrderlyKeeps ==
    ASSUME SystemInv, NEW a \in Worker, RoundOrderly(a)
    PROVE  SystemInv' /\ Kept
<1>1. /\ a \in Agent /\ a \notin Handler /\ ServiceInv /\ StoreTypeOK /\ RowsInv
  BY WorkersAreAgents DEF SystemInv, ServiceInv, StoreInv, StoreBooks
<1>2. ServiceInv' /\ Kept
  BY <1>1, SessionKeeps DEF RoundOrderly
<1>3. ASSUME NEW b \in Worker PROVE Round(b)'
  BY <1>1, <1>2, RoundOfOthers DEF RoundOrderly, SystemInv
<1> QED
  BY <1>2, <1>3 DEF RoundOrderly, SystemInv

-----------------------------------------------------------------------------
(* The books under the steps of a round.                                   *)

LEMMA RollbackKeepsBooks ==
    ASSUME StoreBooks, NEW a \in Agent, Rollback(a)
    PROVE  StoreBooks'
BY RollbackBooks, RollbackType DEF StoreBooks

LEMMA CommitKeepsBooks ==
    ASSUME StoreBooks, NEW a \in Agent, Commit(a, idem)
    PROVE  StoreBooks'
<1>1. idem \in [Key -> IdemRow \cup {None}]
  BY DEF StoreBooks, StoreTypeOK
<1> QED
  BY <1>1, CommitBooks, CommitType DEF StoreBooks

LEMMA StaysBooks ==
    ASSUME StoreBooks, UNCHANGED <<tables, work, entries>>,
           \A w \in Wallet : holder'[w] = holder[w],
           holder' \in [Resource -> Agent \cup {None}],
           staged' \in [Agent -> [TxKey -> WagerRow \cup {None}]],
           events' \in [Agent -> SUBSET Event]
    PROVE  StoreBooks'
<1>1. BooksBalance' /\ PrivateBooksBalance'
  BY BooksUntouched DEF tables
<1> QED
  BY <1>1 DEF StoreBooks, StoreTypeOK, tables

LEMMA SettlesKeepsBooks ==
    ASSUME StoreBooks, NEW a \in Agent, NEW k \in ExtId, NEW row \in WagerRow, Settles(a, k, row)
    PROVE  StoreBooks'
<1>1. StoreTypeOK /\ k \in TxKey /\ k \in Resource /\ Take(a, k) /\ UNCHANGED tables
  BY Resources DEF StoreBooks, TxKey, Settles
<1>2. /\ holder' \in [Resource -> Agent \cup {None}]
      /\ \A w \in Wallet : holder'[w] = holder[w]
  BY <1>1, TakeType, TakeOther
<1>3. staged' \in [Agent -> [TxKey -> WagerRow \cup {None}]]
  <2>1. staged' = [staged EXCEPT ![a][k] = row]
    BY DEF Settles
  <2> QED
    BY <1>1, <2>1, StageType
<1>4. CASE MovesFor(a, k, row)
  <2>1. PICK w \in Wallet, dir \in Directions :
            /\ holder[w] = a
            /\ Affordable(dir, work[a][w].balance, row.amount)
            /\ Move(a, w, k, dir, row.amount)
    BY <1>4 DEF MovesFor
  <2>2. row.amount \in Amounts
    BY DEF WagerRow
  <2>3. /\ work' \in [Agent -> [Wallet -> WalletRow]]
        /\ entries' \in [Agent -> [Wallet -> Seq(EntryRow)]]
        /\ events' \in [Agent -> SUBSET Event]
    BY <1>1, <2>1, <2>2, MoveType
  <2>4. BooksBalance' /\ PrivateBooksBalance'
    BY <1>1, <1>2, <2>1, <2>2, MoveBooks DEF tables
  <2> QED
    BY <1>1, <1>2, <1>3, <2>3, <2>4 DEF StoreBooks, StoreTypeOK, tables
<1>5. CASE Announce(a, NoticeFor(row.status), k)
  <2>1. NoticeFor(row.status) \in StatusEventTypes
    BY DEF NoticeFor, StatusEventTypes
  <2>2. events' \in [Agent -> SUBSET Event] /\ UNCHANGED <<work, entries>>
    BY <1>1, <1>5, <2>1, AnnounceType DEF Announce
  <2> QED
    BY <1>1, <1>2, <1>3, <2>2, StaysBooks
<1>6. CASE UNCHANGED <<work, entries, events>>
  BY <1>1, <1>2, <1>3, <1>6, StaysBooks DEF StoreTypeOK
<1> QED
  BY <1>4, <1>5, <1>6 DEF Settles

-----------------------------------------------------------------------------
(* The steps of a round.                                                   *)

\* The facts the lemmas about the actions start from.
LEMMA RoundFacts ==
    ASSUME SystemInv, NEW a \in Worker
    PROVE  /\ a \in Agent /\ a # None /\ StoreTypeOK /\ StoreBooks /\ RowsInv /\ Owned
           /\ Round(a) /\ RoundTypes
           /\ \A m \in Msg : holder[m] # a
BY WorkersAreAgents
   DEF SystemInv, ServiceInv, StoreInv, StoreBooks, RowsInv, Flow, MessageLocks

LEMMA ItemFacts ==
    ASSUME SystemInv, NEW a \in Worker, NEW k \in ExtId, items[a][k] # None
    PROVE  /\ holder[k] = a /\ PendingReference(k) /\ staged[a][k] = None
           /\ wager[k] \in WagerRow /\ wager[k].wallet \in Wallet
           /\ wager[k].ref \in ExtId \cup {None}
           /\ wallet[wager[k].wallet].open
           /\ Seen(a, k) = wager[k]
<1>1. holder[k] = a /\ PendingReference(k) /\ staged[a][k] = None
  BY RoundFacts DEF Round
<1>2. k \in TxKey /\ StoreTypeOK /\ RowsInv
  BY RoundFacts DEF TxKey
<1> QED
  BY <1>1, <1>2, ParkedFacts DEF RowsInv, OnOpenWallets, Seen

LEMMA RowsGrabbed ==
    ASSUME StoreBooks, NEW a \in Agent, \A m \in Msg : holder[m] # a,
           NEW rows \in SUBSET ExtId,
           \A k \in rows : holder[k] \in {None, a}, LockRows(a, rows),
           UNCHANGED <<tables, work, entries, staged, events>>
    PROVE  /\ StoreStep(a) /\ StoreBooks' /\ inbox' = inbox
           /\ \A m \in Msg : holder'[m] # a
           /\ \A k \in ExtId : holder'[k] = IF k \in rows THEN a ELSE holder[k]
<1>1. StoreTypeOK
  BY DEF StoreBooks
<1>2. \A r \in Resource : holder'[r] = IF r \in rows THEN a ELSE holder[r]
  BY DEF LockRows
<1>3. Grabs(a)
  BY <1>2 DEF Grabs
<1>4. holder' \in [Resource -> Agent \cup {None}]
  BY <1>1 DEF LockRows, StoreTypeOK
<1>5. \A w \in Wallet : w \in Resource /\ w \notin rows
  BY Resources, StoreAssumption
<1>6. \A m \in Msg : m \in Resource /\ m \notin rows
  BY Resources, StoreAssumption
<1>7. StoreBooks'
  BY <1>1, <1>2, <1>4, <1>5, StaysBooks DEF StoreBooks, StoreTypeOK
<1> QED
  BY <1>1, <1>2, <1>3, <1>6, <1>7, Resources DEF StoreStep, tables

LEMMA SelectResolvableOrderly ==
    ASSUME SystemInv, NEW a \in Worker, SelectResolvable(a)
    PROVE  RoundOrderly(a)
<1> DEFINE rows == Resolvable(a)
<1>1. /\ a \in Agent /\ StoreTypeOK /\ Round(a) /\ RoundTypes /\ rpc[a] = "idle"
  BY RoundFacts DEF SelectResolvable
<1>2. rows \in SUBSET ExtId /\ \A k \in rows : holder[k] \in {None, a} /\ PendingReference(k)
  BY DEF Resolvable, Selectable
<1>3. /\ LockRows(a, rows)
      /\ UNCHANGED <<tables, work, entries, staged, events, control, current, aged>>
  BY DEF SelectResolvable
<1>4. /\ items' = [items EXCEPT ![a] = [k \in ExtId |->
                      IF k \in rows THEN wager[wager[k].ref].status ELSE None]]
      /\ rpc' = [rpc EXCEPT ![a] = "expired"]
  BY DEF SelectResolvable
<1>5. ASSUME NEW k \in rows
      PROVE  Exists(wager[k].ref) /\ wager[wager[k].ref].status \in Sighting
  <2>1. Exists(wager[k].ref) /\ PendingReference(k) /\ k \in ExtId
    BY DEF Resolvable, Selectable
  <2>2. wager[k].ref \in ExtId
    BY <1>1, <2>1 DEF PendingReference, Exists, StoreTypeOK, WagerRow, TxKey
  <2>3. wager[wager[k].ref] \in WagerRow
    BY <1>1, <2>1, <2>2 DEF Exists, StoreTypeOK, TxKey
  <2> QED
    BY <2>1, <2>3 DEF WagerRow, Sighting
<1> HIDE DEF rows
<1>6. /\ StoreStep(a) /\ StoreBooks' /\ inbox' = inbox
      /\ \A m \in Msg : holder'[m] # a
      /\ \A k \in ExtId : holder'[k] = IF k \in rows THEN a ELSE holder[k]
  BY <1>2, <1>3, RoundFacts, RowsGrabbed
<1>7. /\ items'[a] = [k \in ExtId |-> IF k \in rows THEN wager[wager[k].ref].status ELSE None]
      /\ rpc'[a] = "expired"
      /\ \A b \in Worker \ {a} : rpc'[b] = rpc[b] /\ items'[b] = items[b]
  BY <1>1, <1>4 DEF RoundTypes
<1>8. RoundTypes'
  <2>1. items'[a] \in [ExtId -> Sighting]
    BY <1>5, <1>7 DEF Sighting
  <2> QED
    BY <1>1, <1>3, <1>4, <1>7, <2>1 DEF RoundTypes, RoundSteps
<1>9. Round(a)'
  <2>1. \A k \in ExtId : staged'[a][k] = None
    BY <1>1, <1>3 DEF Round
  <2>2. ASSUME NEW k \in ExtId, items'[a][k] # None
        PROVE  /\ holder'[k] = a /\ PendingReference(k)'
               /\ items'[a][k] \in {"REJECTED", "FAILED"} => OriginalRefused(k)'
    <3>1. k \in rows /\ items'[a][k] = wager[wager[k].ref].status /\ wager' = wager
      BY <1>3, <1>7, <2>2 DEF tables
    <3> QED
      BY <1>2, <1>5, <1>6, <3>1 DEF PendingReference, Exists, OriginalRefused
  <2> QED
    BY <1>7, <2>1, <2>2 DEF Round
<1> QED
  BY <1>3, <1>6, <1>7, <1>8, <1>9 DEF RoundOrderly

LEMMA SelectExpiredOrderly ==
    ASSUME SystemInv, NEW a \in Worker, SelectExpired(a)
    PROVE  RoundOrderly(a)
<1> DEFINE rows == Expired(a)
           step == IF items'[a] = NoItems THEN "idle" ELSE "next"
<1>1. /\ a \in Agent /\ StoreTypeOK /\ Round(a) /\ RoundTypes /\ rpc[a] = "expired"
  BY RoundFacts DEF SelectExpired
<1>2. rows \in SUBSET ExtId /\ \A k \in rows : holder[k] \in {None, a} /\ PendingReference(k)
  BY DEF Expired, Selectable
<1>3. /\ LockRows(a, rows)
      /\ UNCHANGED <<tables, work, entries, staged, events, control, current, aged>>
  BY DEF SelectExpired
<1>4. /\ items' = [items EXCEPT ![a] =
                      [k \in ExtId |-> IF k \in rows THEN "unknown" ELSE items[a][k]]]
      /\ rpc' = [rpc EXCEPT ![a] = step]
  BY DEF SelectExpired
<1>5. step \in {"idle", "next"} /\ (step = "idle" => items'[a] = NoItems)
  OBVIOUS
<1> HIDE DEF rows, step
<1>6. /\ StoreStep(a) /\ StoreBooks' /\ inbox' = inbox
      /\ \A m \in Msg : holder'[m] # a
      /\ \A k \in ExtId : holder'[k] = IF k \in rows THEN a ELSE holder[k]
  BY <1>2, <1>3, RoundFacts, RowsGrabbed
<1>7. /\ items'[a] = [k \in ExtId |-> IF k \in rows THEN "unknown" ELSE items[a][k]]
      /\ rpc'[a] = step
      /\ \A b \in Worker \ {a} : rpc'[b] = rpc[b] /\ items'[b] = items[b]
  BY <1>1, <1>4 DEF RoundTypes
<1>8. RoundTypes'
  <2>1. items'[a] \in [ExtId -> Sighting]
    BY <1>1, <1>7 DEF Sighting, RoundTypes
  <2> QED
    BY <1>1, <1>3, <1>4, <1>5, <1>7, <2>1 DEF RoundTypes, RoundSteps
<1>9. Round(a)'
  <2>1. \A k \in ExtId : staged'[a][k] = None
    BY <1>1, <1>3 DEF Round
  <2>2. ASSUME NEW k \in ExtId, items'[a][k] # None
        PROVE  /\ holder'[k] = a /\ PendingReference(k)'
               /\ items'[a][k] \in {"REJECTED", "FAILED"} => OriginalRefused(k)'
    <3>1. wager' = wager
      BY <1>3 DEF tables
    <3>2. CASE k \in rows
      BY <1>2, <1>6, <1>7, <3>1, <3>2 DEF PendingReference, Exists
    <3>3. CASE k \notin rows
      BY <1>1, <1>6, <1>7, <2>2, <3>1, <3>3 DEF Round, PendingReference, Exists, OriginalRefused
    <3> QED
      BY <3>2, <3>3
  <2>3. rpc'[a] = "idle" => \A k \in ExtId : items'[a][k] = None
    BY <1>5, <1>7 DEF NoItems
  <2> QED
    BY <1>5, <1>7, <2>1, <2>2, <2>3 DEF Round
<1> QED
  BY <1>3, <1>6, <1>7, <1>8, <1>9 DEF RoundOrderly

\* An item that is done leaves the others as they were.
LEMMA DoneItem ==
    ASSUME RoundTypes, NEW a \in Worker, NEW k \in ExtId, Done(a, k)
    PROVE  /\ items' \in [Worker -> [ExtId -> Sighting]]
           /\ items'[a][k] = None
           /\ \A j \in ExtId \ {k} : items'[a][j] = items[a][j]
           /\ \A b \in Worker \ {a} : items'[b] = items[b]
<1>1. items' = [items EXCEPT ![a] = [items[a] EXCEPT ![k] = None]]
  BY DEF Done
<1>2. items[a] \in [ExtId -> Sighting]
  BY DEF RoundTypes
<1>3. [items[a] EXCEPT ![k] = None] \in [ExtId -> Sighting]
  BY <1>2 DEF Sighting
<1> QED
  BY <1>1, <1>2, <1>3 DEF RoundTypes

LEMMA ItemSettled ==
    ASSUME SystemInv, NEW a \in Worker, NEW k \in ExtId, items[a][k] # None,
           NEW row \in WagerRow, Settles(a, k, row), Done(a, k),
           UNCHANGED <<holder, control, aged>>,
           rpc' \in [Worker -> RoundSteps], rpc'[a] = "next",
           current' \in [Worker -> ExtId \cup {None}],
           \A b \in Worker \ {a} : rpc'[b] = rpc[b] /\ current'[b] = current[b]
    PROVE  RoundOrderly(a)
<1>1. /\ a \in Agent /\ StoreTypeOK /\ StoreBooks /\ Round(a) /\ RoundTypes
      /\ \A m \in Msg : holder[m] # a
  BY RoundFacts
<1>2. /\ \A j \in TxKey \ {k} : staged'[a][j] = staged[a][j]
      /\ UNCHANGED tables
  BY <1>1, SettlesApart DEF Settles
<1>3. /\ items' \in [Worker -> [ExtId -> Sighting]]
      /\ items'[a][k] = None
      /\ \A j \in ExtId \ {k} : items'[a][j] = items[a][j]
      /\ \A b \in Worker \ {a} : items'[b] = items[b]
  BY <1>1, DoneItem
<1>4. Round(a)'
  <2>1. ASSUME NEW j \in ExtId, items'[a][j] # None
        PROVE  /\ holder'[j] = a /\ PendingReference(j)' /\ staged'[a][j] = None
               /\ items'[a][j] \in {"REJECTED", "FAILED"} => OriginalRefused(j)'
    <3>1. j # k /\ items[a][j] # None /\ items'[a][j] = items[a][j] /\ j \in TxKey
      BY <1>3, <2>1 DEF TxKey
    <3>2. staged'[a][j] = staged[a][j] /\ wager' = wager
      BY <1>2, <3>1 DEF tables
    <3> QED
      BY <1>1, <3>1, <3>2 DEF Round, PendingReference, Exists, OriginalRefused
  <2> QED
    BY <2>1 DEF Round
<1>5. StoreStep(a) /\ StoreBooks'
  BY <1>1, SettlesKeepsBooks DEF StoreStep
<1>6. RoundTypes'
  BY <1>1, <1>3 DEF RoundTypes
<1> QED
  BY <1>1, <1>2, <1>3, <1>4, <1>5, <1>6 DEF RoundOrderly, tables

\* An original that is unknown or was refused gets the reversal rejected.
LEMMA RefusedIsRejected ==
    ASSUME SystemInv, NEW a \in Worker, NEW k \in ExtId,
           items[a][k] \in {"unknown", "REJECTED", "FAILED"},
           ResolveSinglePendingRef(a, wager[k].wallet, k,
               IF items[a][k] = "unknown" THEN None ELSE wager[k].ref)
    PROVE  \E code \in FailureCodes : RejectPending(a, k, code)
<1>1. items[a][k] # None
  BY ResolverAssumption DEF Statuses
<1>2. CASE items[a][k] = "unknown"
  <2>1. RejectPending(a, k, "REFERENCE_NOT_FOUND")
        \/ RejectPending(a, k, "ORIGINAL_TRANSACTION_FAILED")
        \/ RejectPending(a, k, Reversed(Seen(a, k).kind))
        \/ RejectPending(a, k, "INSUFFICIENT_FUNDS_FOR_ROLLBACK")
    BY <1>2 DEF ResolveSinglePendingRef
  <2> QED
    BY <2>1 DEF FailureCodes, Reversed
<1>3. CASE items[a][k] \in {"REJECTED", "FAILED"}
  <2> DEFINE original == wager[k].ref
  <2>1. Exists(original) /\ wager[original].status \in {"REJECTED", "FAILED"}
    BY <1>1, <1>3, RoundFacts DEF Round, OriginalRefused
  <2>2. original \in TxKey
    BY <1>1, <2>1, ItemFacts DEF Exists, TxKey
  <2>3. Seen(a, original) = wager[original]
    BY <2>1, <2>2, RoundFacts DEF Owned, Terminal, Seen, Exists
  <2>4. RejectPending(a, k, "REFERENCE_NOT_FOUND")
        \/ RejectPending(a, k, "ORIGINAL_TRANSACTION_FAILED")
        \/ RejectPending(a, k, Reversed(Seen(a, k).kind))
        \/ RejectPending(a, k, "INSUFFICIENT_FUNDS_FOR_ROLLBACK")
    BY <1>3, <2>1, <2>3 DEF ResolveSinglePendingRef
  <2> QED
    BY <2>4 DEF FailureCodes, Reversed
<1> QED
  BY <1>2, <1>3

LEMMA LockHeld ==
    ASSUME StoreTypeOK, NEW a \in Agent, NEW r \in Resource, holder[r] = a, UNCHANGED holder
    PROVE  Take(a, r)
BY DEF StoreTypeOK, Take

LEMMA RejectItemOrderly ==
    ASSUME SystemInv, NEW a \in Worker, RejectItem(a)
    PROVE  RoundOrderly(a)
<1>1. PICK k \in ExtId :
          /\ items[a][k] \in {"unknown", "REJECTED", "FAILED"}
          /\ ResolveSinglePendingRef(a, wager[k].wallet, k,
                IF items[a][k] = "unknown" THEN None ELSE wager[k].ref)
          /\ Done(a, k)
  BY DEF RejectItem
<1>2. rpc[a] = "next" /\ UNCHANGED <<tables, holder, control, rpc, current, aged>>
  BY DEF RejectItem
<1>3. items[a][k] # None /\ a \in Agent /\ StoreTypeOK /\ RowsInv /\ RoundTypes /\ k \in Resource
  BY <1>1, ResolverAssumption, RoundFacts, Resources DEF Statuses
<1>4. holder[k] = a /\ PendingReference(k) /\ staged[a][k] = None
  BY <1>3, ItemFacts
<1>5. PICK code \in FailureCodes : RejectPending(a, k, code)
  BY <1>1, RefusedIsRejected
<1>6. Take(a, k)
  BY <1>2, <1>3, <1>4, LockHeld
<1>7. PICK row \in WagerRow : Settles(a, k, row)
  BY <1>2, <1>3, <1>4, <1>5, <1>6, RejectionSettles
<1> QED
  BY <1>1, <1>2, <1>3, <1>7, ItemSettled DEF RoundTypes

\* A parked row put off stays what it is.
Deferred(old) ==
    [old EXCEPT !.attempts = IF @ < MaxAttempts THEN @ + 1 ELSE @, !.deferred = TRUE]

LEMMA DeferredRow ==
    ASSUME NEW old \in WagerRow, old.status = "PENDING_REFERENCE",
           NEW row, row = Deferred(old)
    PROVE  /\ row \in WagerRow /\ row.status = old.status /\ row.kind = old.kind
           /\ row.wallet = old.wallet
           /\ ~Terminal(old.status) /\ Follows(old, row)
<1> DEFINE n == IF old.attempts < MaxAttempts THEN old.attempts + 1 ELSE old.attempts
<1>0. n \in Nat
  <2>1. old.attempts \in Nat
    BY DEF WagerRow
  <2> QED
    BY <2>1
<1>3. row = [old EXCEPT !.attempts = n, !.deferred = TRUE]
  BY DEF Deferred
<1> HIDE DEF n
<1>1. row \in WagerRow /\ row.status = old.status /\ row.kind = old.kind /\ row.wallet = old.wallet
  BY <1>0, <1>3 DEF WagerRow
<1>2. [row EXCEPT !.status = old.status, !.code = old.code, !.resolved = old.resolved,
                  !.attempts = old.attempts, !.deferred = old.deferred] = old
  BY <1>3 DEF WagerRow
<1> QED
  BY <1>1, <1>2 DEF Follows, Terminal

LEMMA DeferItemOrderly ==
    ASSUME SystemInv, NEW a \in Worker, DeferItem(a)
    PROVE  RoundOrderly(a)
<1>1. PICK k \in ExtId :
          /\ items[a][k] \in {"PENDING", "PENDING_REFERENCE"}
          /\ staged' = [staged EXCEPT ![a][k] = Deferred(wager[k])]
          /\ Done(a, k)
  BY DEF DeferItem, Deferred
<1>2. /\ rpc[a] = "next"
      /\ UNCHANGED <<tables, holder, work, entries, events, control, rpc, current, aged>>
  BY DEF DeferItem
<1>3. items[a][k] # None /\ a \in Agent /\ StoreTypeOK /\ RowsInv /\ RoundTypes /\ k \in Resource
  BY <1>1, ResolverAssumption, RoundFacts, Resources DEF Statuses
<1>4. holder[k] = a /\ PendingReference(k) /\ staged[a][k] = None
  BY <1>3, ItemFacts
<1>5. /\ wager[k] \in WagerRow /\ wager[k] # None /\ wager[k].status = "PENDING_REFERENCE"
      /\ wager[k].kind \in {"REFUND", "ROLLBACK"} /\ wallet[wager[k].wallet].open
  BY <1>3, <1>4, ParkedFacts, ItemFacts
<1> DEFINE row == Deferred(wager[k])
<1>6. row = Deferred(wager[k])
  OBVIOUS
<1> HIDE DEF row
<1>7. /\ row \in WagerRow /\ row.status = "PENDING_REFERENCE" /\ row.kind = wager[k].kind
      /\ row.wallet = wager[k].wallet
      /\ ~Terminal(wager[k].status) /\ Follows(wager[k], row)
  BY <1>5, <1>6, DeferredRow
<1>8. Take(a, k)
  BY <1>2, <1>3, <1>4, LockHeld
<1>9. row # None
  BY <1>7, RowAssumption
<1>10. Settles(a, k, row)
  BY <1>1, <1>2, <1>4, <1>5, <1>6, <1>7, <1>8, <1>9 DEF Settles, Parked, RequiresReference
<1> QED
  BY <1>1, <1>2, <1>3, <1>7, <1>10, ItemSettled DEF RoundTypes

LEMMA StartItemOrderly ==
    ASSUME SystemInv, NEW a \in Worker, StartItem(a)
    PROVE  RoundOrderly(a)
<1>1. PICK k \in ExtId : items[a][k] = "PROCESSED" /\ current' = [current EXCEPT ![a] = k]
  BY DEF StartItem
<1>2. /\ rpc[a] = "next" /\ rpc' = [rpc EXCEPT ![a] = "lock"]
      /\ UNCHANGED <<storeVars, control, items, aged>>
  BY DEF StartItem
<1>3. /\ StoreBooks /\ Round(a) /\ RoundTypes /\ \A m \in Msg : holder[m] # a
  BY RoundFacts
<1>4. UNCHANGED <<tables, holder, work, entries, staged, events>>
  BY <1>2 DEF storeVars, session
<1>5. StoreBooks'
  BY <1>3, <1>4, StaysBooks DEF StoreBooks, StoreTypeOK
<1>6. /\ current'[a] = k /\ rpc'[a] = "lock"
      /\ \A b \in Worker \ {a} : rpc'[b] = rpc[b] /\ current'[b] = current[b]
  BY <1>1, <1>2, <1>3 DEF RoundTypes
<1>7. RoundTypes'
  BY <1>1, <1>2, <1>3 DEF RoundTypes, RoundSteps
<1>8. Round(a)'
  BY <1>1, <1>2, <1>3, <1>4, <1>6 DEF Round, PendingReference, Exists, OriginalRefused, tables
<1> QED
  BY <1>2, <1>3, <1>4, <1>5, <1>6, <1>7, <1>8 DEF RoundOrderly, StoreStep, tables

LEMMA CurrentFacts ==
    ASSUME SystemInv, NEW a \in Worker, rpc[a] \in {"lock", "apply"}
    PROVE  /\ current[a] \in ExtId /\ items[a][current[a]] # None
           /\ rpc[a] = "apply" => holder[wager[current[a]].wallet] = a
BY RoundFacts, ResolverAssumption DEF Round, Statuses

LEMMA LockItemWalletOrderly ==
    ASSUME SystemInv, NEW a \in Worker, LockItemWallet(a)
    PROVE  RoundOrderly(a)
<1> DEFINE w == wager[current[a]].wallet
<1>1. /\ rpc[a] = "lock" /\ LockWalletRow(a, w) /\ rpc' = [rpc EXCEPT ![a] = "apply"]
      /\ UNCHANGED <<tables, entries, staged, events, control, items, current, aged>>
  BY DEF LockItemWallet
<1>2. /\ a \in Agent /\ StoreTypeOK /\ StoreBooks /\ Round(a) /\ RoundTypes
      /\ \A m \in Msg : holder[m] # a
  BY RoundFacts
<1>3. w \in Wallet /\ wallet[w].open /\ w \in Resource
  BY <1>1, CurrentFacts, ItemFacts, Resources
<1>4. w = wager'[current'[a]].wallet
  BY <1>1 DEF tables
<1> HIDE DEF w
<1>5. /\ holder[w] \in {None, a} /\ holder'[w] = a
      /\ \A r \in Resource \ {w} : holder'[r] = holder[r]
  BY <1>1, <1>2, <1>3 DEF LockWalletRow, Take, StoreTypeOK
<1>6. StoreStep(a)
  BY <1>1, <1>5 DEF StoreStep, Grabs
<1>7. StoreBooks'
  <2>1. BooksBalance' /\ PrivateBooksBalance'
    BY <1>1, <1>2, <1>3, LockBooks DEF tables
  <2>2. work' \in [Agent -> [Wallet -> WalletRow]] /\ holder' \in [Resource -> Agent \cup {None}]
    BY <1>1, <1>2, <1>3, LockWalletRowType
  <2> QED
    BY <1>1, <1>2, <2>1, <2>2 DEF StoreBooks, StoreTypeOK, tables
<1>8. \A m \in Msg : holder'[m] # a
  BY <1>2, <1>3, <1>5, Resources, StoreAssumption
<1>9. rpc'[a] = "apply" /\ \A b \in Worker \ {a} : rpc'[b] = rpc[b]
  BY <1>1, <1>2 DEF RoundTypes
<1>10. Round(a)'
  <2>1. \A k \in ExtId : holder[k] = a => holder'[k] = a
    BY <1>5, Resources
  <2> QED
    BY <1>1, <1>2, <1>4, <1>5, <1>9, <2>1
       DEF Round, PendingReference, Exists, OriginalRefused, tables
<1>11. RoundTypes'
  BY <1>1, <1>2 DEF RoundTypes, RoundSteps
<1> QED
  BY <1>1, <1>6, <1>7, <1>8, <1>9, <1>10, <1>11 DEF RoundOrderly, tables

\* The end of a round, whatever it is.
LEMMA RoundEnds ==
    ASSUME SystemInv, NEW a \in Worker, EndRound(a), EndSession(a), inbox' = inbox,
           StoreStep(a), StoreBooks'
    PROVE  RoundOrderly(a)
<1>1. a \in Agent /\ StoreTypeOK /\ RoundTypes
  BY RoundFacts
<1>2. /\ \A k \in TxKey : staged'[a][k] = None
      /\ \A r \in Resource : holder'[r] # a
  BY <1>1, EndApart
<1>3. /\ rpc'[a] = "idle" /\ items'[a] = NoItems
      /\ \A b \in Worker \ {a} :
            rpc'[b] = rpc[b] /\ items'[b] = items[b] /\ current'[b] = current[b]
  BY <1>1 DEF EndRound, RoundTypes
<1>4. Round(a)'
  BY <1>2, <1>3 DEF Round, NoItems, TxKey
<1>5. RoundTypes'
  <2>1. NoItems \in [ExtId -> Sighting]
    BY DEF NoItems, Sighting
  <2> QED
    BY <1>1, <2>1 DEF EndRound, RoundTypes, RoundSteps
<1> QED
  BY <1>2, <1>3, <1>4, <1>5, Resources DEF RoundOrderly, EndRound

LEMMA RoundRollsBack ==
    ASSUME SystemInv, NEW a \in Worker, Rollback(a), EndRound(a)
    PROVE  RoundOrderly(a)
<1>1. StoreBooks' /\ StoreStep(a) /\ EndSession(a) /\ inbox' = inbox
  BY RoundFacts, RollbackKeepsBooks DEF StoreStep, Rollback, tables
<1> QED
  BY <1>1, RoundEnds

LEMMA CommitRoundOrderly ==
    ASSUME SystemInv, NEW a \in Worker, CommitRound(a)
    PROVE  RoundOrderly(a)
<1>1. /\ a \in Agent /\ StoreBooks /\ StoreTypeOK /\ \A m \in Msg : holder[m] # a
  BY RoundFacts
<1>2. Commit(a, idem) /\ EndRound(a) /\ EndSession(a)
  BY DEF CommitRound, Commit
<1>3. StoreStep(a)
  <2>1. idem \in [Key -> IdemRow \cup {None}]
    BY <1>1 DEF StoreTypeOK
  <2>2. Remembers(a, idem)
    BY DEF Remembers
  <2> QED
    BY <1>2, <2>1, <2>2 DEF StoreStep
<1>4. inbox' = inbox
  BY <1>1, <1>2 DEF Commit
<1> QED
  BY <1>1, <1>2, <1>3, <1>4, CommitKeepsBooks, RoundEnds

LEMMA ApplyItemOrderly ==
    ASSUME SystemInv, NEW a \in Worker, ApplyItem(a)
    PROVE  RoundOrderly(a)
<1> DEFINE k == current[a]
           w == wager[k].wallet
           original == wager[k].ref
<1>1. /\ a \in Agent /\ StoreTypeOK /\ StoreBooks /\ RowsInv /\ Round(a) /\ RoundTypes
      /\ \A m \in Msg : holder[m] # a
  BY RoundFacts
<1>2. /\ rpc[a] = "apply" /\ k \in ExtId /\ items[a][k] # None /\ holder[w] = a
  BY CurrentFacts DEF ApplyItem
<1>3. /\ holder[k] = a /\ PendingReference(k) /\ staged[a][k] = None
      /\ w \in Wallet /\ original \in ExtId \cup {None} /\ k \in Resource
  BY <1>2, ItemFacts, Resources
<1>4. CASE Rollback(a) /\ EndRound(a)
  BY <1>4, RoundRollsBack
<1>5. CASE /\ \/ ResolveSinglePendingRef(a, w, k, original) /\ UNCHANGED <<tables, holder>>
              \/ UNCHANGED storeVars
           /\ Done(a, k)
           /\ current' = [current EXCEPT ![a] = None]
           /\ rpc' = [rpc EXCEPT ![a] = "next"]
           /\ UNCHANGED <<control, aged>>
  <2> HIDE DEF k, w, original
  <2>1. /\ rpc' \in [Worker -> RoundSteps] /\ rpc'[a] = "next"
        /\ current' \in [Worker -> ExtId \cup {None}]
        /\ \A b \in Worker \ {a} : rpc'[b] = rpc[b] /\ current'[b] = current[b]
    BY <1>1, <1>5 DEF RoundTypes, RoundSteps
  <2>2. CASE ResolveSinglePendingRef(a, w, k, original) /\ UNCHANGED <<tables, holder>>
    <3>1. Take(a, k)
      BY <1>1, <1>3, <2>2, LockHeld
    <3>2. PICK row \in WagerRow : Settles(a, k, row)
      BY <1>1, <1>2, <1>3, <2>2, <3>1, ResolutionSettles
    <3> QED
      BY <1>2, <1>5, <2>1, <2>2, <3>2, ItemSettled
  <2>3. CASE UNCHANGED storeVars
    <3>1. UNCHANGED <<tables, holder, work, entries, staged, events>>
      BY <2>3 DEF storeVars, session
    <3>2. StoreBooks'
      BY <1>1, <3>1, StaysBooks DEF StoreBooks, StoreTypeOK
    <3>3. /\ items' \in [Worker -> [ExtId -> Sighting]]
          /\ items'[a][k] = None
          /\ \A j \in ExtId \ {k} : items'[a][j] = items[a][j]
          /\ \A b \in Worker \ {a} : items'[b] = items[b]
      BY <1>1, <1>2, <1>5, DoneItem
    <3>4. Round(a)'
      BY <1>1, <2>1, <3>1, <3>3 DEF Round, PendingReference, Exists, OriginalRefused, tables
    <3>5. RoundTypes'
      BY <1>1, <1>5, <2>1, <3>3 DEF RoundTypes
    <3> QED
      BY <1>1, <1>5, <2>1, <2>3, <3>1, <3>2, <3>3, <3>4, <3>5 DEF RoundOrderly, StoreStep, tables
  <2> QED
    BY <1>5, <2>2, <2>3
<1> QED
  BY <1>4, <1>5 DEF ApplyItem

LEMMA WorkerOrderly ==
    ASSUME SystemInv, NEW a \in Worker, WorkerStep(a) \/ AbandonRound(a)
    PROVE  RoundOrderly(a)
<1>1. CASE AbandonRound(a)
  BY <1>1, RoundRollsBack DEF AbandonRound
<1>2. CASE WorkerStep(a)
  BY <1>2, SelectResolvableOrderly, SelectExpiredOrderly, RejectItemOrderly, DeferItemOrderly,
     StartItemOrderly, LockItemWalletOrderly, ApplyItemOrderly, CommitRoundOrderly DEF WorkerStep
<1> QED
  BY <1>1, <1>2

-----------------------------------------------------------------------------
(* Time.                                                                   *)

\* The events owed do not depend on when a parked row is due.
LEMMA TellsAlike ==
    ASSUME NEW E, NEW L, NEW M, NEW T, NEW T2, Tells(E, L, M, T),
           \A k \in TxKey : /\ T2[k] = None <=> T[k] = None
                            /\ T2[k].status = T[k].status /\ T2[k].kind = T[k].kind
    PROVE  Tells(E, L, M, T2)
<1>1. ASSUME NEW e \in E PROVE AboutRow(e, L, M) \/ AboutStatus(e, T2) \/ AboutParking(e, T2)
  <2>1. AboutStatus(e, T) => AboutStatus(e, T2)
    BY DEF AboutStatus
  <2>2. AboutParking(e, T) => AboutParking(e, T2)
    BY DEF AboutParking
  <2> QED
    BY <2>1, <2>2 DEF Tells
<1>2. \A k \in TxKey : T2[k] # None =>
          /\ T2[k].status = "PROCESSED" => Notice("WagerTransactionProcessed", k) \in E
          /\ T2[k].status = "REJECTED" => Notice("WagerTransactionRejected", k) \in E
  BY DEF Tells
<1> QED
  BY <1>1, <1>2 DEF Tells

\* Only a field nobody else looks at changes, in a row nobody has locked.
LEMMA BackoffChanges ==
    ASSUME SystemInv, NEW k \in ExtId, BackoffElapsed(k)
    PROVE  /\ wager' \in [TxKey -> WagerRow \cup {None}]
           /\ \A j \in TxKey \ {k} : wager'[j] = wager[j]
           /\ Follows(wager[k], wager'[k])
           /\ holder[k] = None
           /\ PendingReference(k)
           /\ \A j \in TxKey : /\ wager'[j] = None <=> wager[j] = None
                               /\ wager'[j].status = wager[j].status
                               /\ wager'[j].kind = wager[j].kind
                               /\ wager'[j].amount = wager[j].amount
                               /\ wager'[j].wallet = wager[j].wallet
<1>1. StoreTypeOK /\ RowsInv
  BY DEF SystemInv, ServiceInv, StoreInv, StoreBooks
<1>2. /\ PendingReference(k) /\ holder[k] = None
      /\ wager' = [wager EXCEPT ![k] = [wager[k] EXCEPT !.deferred = FALSE]]
  BY DEF BackoffElapsed
<1>3. /\ k \in TxKey /\ wager[k] \in WagerRow /\ wager[k] # None
      /\ wager[k].status = "PENDING_REFERENCE"
  BY <1>1, <1>2, ParkedFacts
<1> DEFINE old == wager[k]
           row == [old EXCEPT !.deferred = FALSE]
<1>4. old = wager[k] /\ row = [old EXCEPT !.deferred = FALSE] /\ old \in WagerRow
      /\ wager' = [wager EXCEPT ![k] = row]
  BY <1>2, <1>3
<1> HIDE DEF old, row
<1>5. row \in WagerRow /\ row # None
  BY <1>4, RowAssumption DEF WagerRow
<1>6. /\ row.status = old.status /\ row.kind = old.kind /\ row.amount = old.amount
      /\ row.wallet = old.wallet
      /\ [row EXCEPT !.status = old.status, !.code = old.code, !.resolved = old.resolved,
                     !.attempts = old.attempts, !.deferred = old.deferred] = old
  BY <1>4 DEF WagerRow
<1>7. Follows(old, row)
  BY <1>3, <1>4, <1>6 DEF Follows, Terminal
<1> QED
  BY <1>1, <1>2, <1>3, <1>4, <1>5, <1>6, <1>7 DEF StoreTypeOK

LEMMA BackoffKeeps ==
    ASSUME SystemInv, NEW k \in ExtId, BackoffElapsed(k)
    PROVE  SystemInv' /\ Kept
<1>1. /\ StoreTypeOK /\ StoreBooks /\ RowsInv /\ Postings /\ TypeInv /\ TypeOK /\ Flow
      /\ StoredAnswersHold /\ InboxMeansDone
  BY DEF SystemInv, ServiceInv, StoreInv, StoreBooks, TypeInv
<1>2. /\ wager' \in [TxKey -> WagerRow \cup {None}]
      /\ \A j \in TxKey \ {k} : wager'[j] = wager[j]
      /\ Follows(wager[k], wager'[k])
      /\ holder[k] = None
      /\ PendingReference(k)
      /\ \A j \in TxKey : /\ wager'[j] = None <=> wager[j] = None
                          /\ wager'[j].status = wager[j].status
                          /\ wager'[j].kind = wager[j].kind
                          /\ wager'[j].amount = wager[j].amount
                          /\ wager'[j].wallet = wager[j].wallet
  BY BackoffChanges
<1>3. /\ UNCHANGED <<wallet, ledger, idem, inbox, outbox, session, control, resolverControl>>
      /\ k \in TxKey
  BY DEF BackoffElapsed, TxKey
<1>4. Kept
  <2>1. \A j \in TxKey : wager[j] # None => wager'[j] # None /\ Follows(wager[j], wager'[j])
    BY <1>1, <1>2, FollowsItself DEF StoreTypeOK
  <2> QED
    BY <1>3, <2>1 DEF Kept
<1>5. StoreBooks'
  <2>1. BooksBalance' /\ PrivateBooksBalance'
    BY <1>1, <1>3, BooksUntouched DEF session
  <2> QED
    BY <1>1, <1>2, <1>3, <2>1 DEF StoreBooks, StoreTypeOK, session
<1>6. RowsInv'
  <2>1. ASSUME NEW a \in Agent, NEW j \in TxKey, staged[a][j] # None PROVE wager'[j] = wager[j]
    BY <1>1, <1>2, <2>1, StoreAssumption DEF RowsInv, Owned
  <2>2. Owned'
    BY <1>1, <1>3, <2>1 DEF RowsInv, Owned, session
  <2>3. OpenedFirst' /\ OnOpenWallets'
    BY <1>1, <1>2, <1>3, StoreAssumption
       DEF RowsInv, OpenedFirst, OnOpenWallets, session, TxKey
  <2>4. ParkedAreReversals'
    BY <1>1, <1>2, <1>3 DEF RowsInv, ParkedAreReversals, Parked, session
  <2> QED
    BY <2>2, <2>3, <2>4 DEF RowsInv
<1>7. Postings'
  <2>1. ASSUME NEW j \in TxKey, NEW a \in Agent PROVE PrivatePosted(a, j)'
    BY <1>1, <1>3 DEF Postings, PrivatePosted, session
  <2>2. ASSUME NEW j \in TxKey PROVE Posted(j)'
    <3>1. Posted(j)
      BY <1>1 DEF Postings
    <3> QED
      BY <1>2, <1>3, <3>1 DEF Posted, Moves
  <2> QED
    BY <2>1, <2>2 DEF Postings
<1>8. StoredAnswersHold'
  <2> SUFFICES ASSUME NEW key \in Key, idem[key] # None
               PROVE  LET j == idem[key].tx
                      IN  /\ wager'[j] # None /\ wager'[j].key = key
                          /\ wager'[j].status = idem[key].status /\ Terminal(wager'[j].status)
    BY <1>3 DEF StoredAnswersHold
  <2> DEFINE j == idem[key].tx
  <2>1. /\ wager[j] # None /\ wager[j].key = key /\ wager[j].status = idem[key].status
        /\ Terminal(wager[j].status)
    BY <1>1 DEF StoredAnswersHold
  <2>2. j \in TxKey
    BY <1>1 DEF StoreTypeOK, IdemRow, TxKey
  <2>3. wager'[j] = wager[j]
    BY <1>1, <1>4, <2>1, <2>2, SettledStays
  <2> QED
    BY <2>1, <2>3
<1>9. InboxMeansDone'
  BY <1>1, <1>3, <1>4, InboxKept
<1>10. Flow'
  <2>1. MessageLocks'
    BY <1>1, <1>3 DEF Flow, MessageLocks, session, control
  <2>2. ASSUME NEW g \in Handler PROVE HandlerFlow(g)'
    <3> DEFINE c == call[g]
    <3>1. /\ HandlerControl(g) /\ HandlerFlow(g)
          /\ pc'[g] = pc[g] /\ call'[g] = c /\ answer'[g] = answer[g]
          /\ staged' = staged /\ holder' = holder
      BY <1>1, <1>3 DEF TypeInv, Control, Flow, control, session
    <3>2. c \in Calls => c.ext \in TxKey
      BY CallFields
    <3>3. pc[g] = "done" => Durable(g)'
      BY <1>1, <1>4, <3>1, DurableKept DEF HandlerControl, HandlerFlow
    <3> QED
      BY <1>2, <3>1, <3>2, <3>3 DEF HandlerFlow, HandlerControl, AfterExecute
  <2> QED
    BY <2>1, <2>2 DEF Flow
<1>11. TypeInv'
  <2>1. Control'
    BY <1>1, <1>3 DEF TypeInv, Control, HandlerControl, session, control
  <2> QED
    BY <1>1, <1>3, <1>5, <2>1 DEF TypeInv, TypeOK, StoreBooks, control
<1>12. ASSUME NEW b \in Worker PROVE Round(b)'
  <2>1. /\ rpc' = rpc /\ items' = items /\ current' = current /\ staged' = staged
        /\ holder' = holder /\ b # None /\ Round(b)
    BY <1>3, WorkersAreAgents DEF resolverControl, session, SystemInv
  <2>2. \A j \in ExtId : holder[j] = b /\ PendingReference(j) => wager'[j] = wager[j]
    BY <1>2, <2>1 DEF TxKey
  <2>3. \A j \in ExtId : Exists(j) /\ Terminal(wager[j].status) => wager'[j] = wager[j]
    BY <1>1, <1>4, SettledStays DEF Exists, TxKey
  <2> QED
    BY <1>1, <2>1, <2>2, <2>3, RoundKept
<1>13. RoundTypes'
  BY <1>3 DEF SystemInv, RoundTypes, resolverControl
<1> QED
  BY <1>4, <1>5, <1>6, <1>7, <1>8, <1>9, <1>10, <1>11, <1>12, <1>13
     DEF SystemInv, ServiceInv, StoreInv

LEMMA BackoffCompletes ==
    ASSUME SystemInv, Complete, NEW k \in ExtId, BackoffElapsed(k)
    PROVE  Complete'
<1>1. Told /\ NoneHalfway
  BY DEF Complete
<1>2. \A j \in TxKey : /\ wager'[j] = None <=> wager[j] = None
                       /\ wager'[j].status = wager[j].status
                       /\ wager'[j].kind = wager[j].kind
  BY BackoffChanges
<1>3. UNCHANGED <<wallet, ledger, idem, inbox, outbox, session>>
  BY DEF BackoffElapsed
<1>4. Told'
  <2>1. Tells(outbox, NoLedger, ledger, wager')
    BY <1>1, <1>2, TellsAlike DEF Told
  <2>2. \A a \in Agent : Extended(a)' = Extended(a)
    BY <1>3 DEF Extended, session
  <2>3. \A j \in TxKey : Parked(wager'[j]) => Parked(wager[j])
    BY <1>2 DEF Parked
  <2> QED
    BY <1>1, <1>3, <2>1, <2>2, <2>3 DEF Told, NoLedger, session
<1>5. NoneHalfway'
  BY <1>1, <1>2 DEF NoneHalfway
<1> QED
  BY <1>4, <1>5 DEF Complete

-----------------------------------------------------------------------------
(* The invariant.                                                          *)

LEMMA InitSystemInv == SystemInit => SystemInv /\ Complete
<1> SUFFICES ASSUME SystemInit PROVE SystemInv /\ Complete
  OBVIOUS
<1>1. ServiceInv /\ Complete
  BY InitServiceInv DEF SystemInit
<1>2. RoundTypes
  BY DEF SystemInit, RoundTypes, RoundSteps, NoItems, Sighting
<1>3. ASSUME NEW a \in Worker PROVE Round(a)
  <2>1. rpc[a] = "idle" /\ \A k \in ExtId : items[a][k] = None /\ staged[a][k] = None
    BY WorkersAreAgents DEF SystemInit, NoItems, ServiceInit, StoreInit, TxKey
  <2> QED
    BY <2>1 DEF Round
<1> QED
  BY <1>1, <1>2, <1>3 DEF SystemInv

\* A step of a handler, or of nobody, leaves every round where it is.
LEMMA HandlersLeaveRounds ==
    ASSUME SystemInv, [ServiceNext]_vars,
           UNCHANGED <<rpc, items, current>>, aged' \subseteq ExtId
    PROVE  /\ SystemInv' /\ Kept
           /\ UNCHANGED storeVars \/ \E h \in Handler : StoreStep(h)
<1>1. /\ ServiceInv /\ RoundTypes /\ StoreTypeOK /\ RowsInv
  BY DEF SystemInv, ServiceInv, StoreInv, StoreBooks
<1>2. ServiceInv' /\ Kept /\ (UNCHANGED storeVars \/ \E h \in Handler : StoreStep(h))
  BY <1>1, StepServiceInv
<1>3. ASSUME NEW b \in Worker PROVE Round(b)'
  <2>1. Round(b) /\ b \notin Handler
    BY WorkersAreAgents DEF SystemInv
  <2>2. CASE UNCHANGED storeVars
    BY <1>1, <2>1, <2>2, RoundKept DEF storeVars, tables, session
  <2>3. ASSUME NEW h \in Handler, StoreStep(h) PROVE Round(b)'
    BY <1>1, <1>2, <2>1, <2>3, HandlersAreAgents, RoundOfOthers
  <2> QED
    BY <1>2, <2>2, <2>3
<1>4. RoundTypes'
  BY <1>1 DEF RoundTypes
<1> QED
  BY <1>2, <1>3, <1>4 DEF SystemInv

LEMMA StepSystemInv ==
    ASSUME SystemInv, [SystemNext]_systemVars
    PROVE  /\ SystemInv' /\ Kept
           /\ \/ UNCHANGED storeVars
              \/ \E a \in Handler \cup Worker : StoreStep(a)
              \/ \E k \in ExtId : BackoffElapsed(k)
<1>1. CASE ServiceNext /\ UNCHANGED resolverControl
  <2>1. UNCHANGED <<rpc, items, current>> /\ aged' \subseteq ExtId
    BY <1>1 DEF resolverControl, SystemInv, RoundTypes
  <2> QED
    BY <1>1, <2>1, HandlersLeaveRounds
<1>2. ASSUME NEW a \in Worker, WorkerStep(a) \/ AbandonRound(a)
      PROVE  SystemInv' /\ Kept /\ \E b \in Worker : StoreStep(b)
  BY <1>2, WorkerOrderly, RoundOrderlyKeeps DEF RoundOrderly
<1>3. ASSUME NEW k \in ExtId, Age(k) PROVE SystemInv' /\ Kept /\ UNCHANGED storeVars
  <2>1. UNCHANGED vars /\ UNCHANGED <<rpc, items, current>> /\ aged' \subseteq ExtId
    BY <1>3 DEF Age, SystemInv, RoundTypes
  <2> QED
    BY <2>1, HandlersLeaveRounds DEF vars
<1>4. CASE \E k \in ExtId : BackoffElapsed(k)
  BY <1>4, BackoffKeeps
<1>5. CASE UNCHANGED systemVars
  <2>1. UNCHANGED vars /\ UNCHANGED <<rpc, items, current>> /\ aged' \subseteq ExtId
    BY <1>5 DEF systemVars, resolverControl, SystemInv, RoundTypes
  <2> QED
    BY <2>1, HandlersLeaveRounds DEF vars
<1> QED
  BY <1>1, <1>2, <1>3, <1>4, <1>5 DEF SystemNext

LEMMA SystemInvHolds == SystemSpec => []SystemInv
<1>1. SystemInv /\ [SystemNext]_systemVars => SystemInv'
  BY StepSystemInv
<1> QED
  BY <1>1, InitSystemInv, PTL DEF SystemSpec

LEMMA SystemCompleteHolds == SystemSpec => []Complete
<1>1. SystemInv /\ Complete /\ [SystemNext]_systemVars => Complete'
  <2> SUFFICES ASSUME SystemInv, Complete, [SystemNext]_systemVars PROVE Complete'
    OBVIOUS
  <2>1. StoreInv /\ StoreTypeOK'
    BY StepSystemInv DEF SystemInv, ServiceInv, StoreInv, StoreBooks
  <2> QED
    BY <2>1, StepSystemInv, SessionsAreAgents, StoreStepCompletes, CompleteStutters,
       BackoffCompletes
<1> QED
  BY <1>1, InitSystemInv, SystemInvHolds, PTL DEF SystemSpec

-----------------------------------------------------------------------------
(* The theorems.                                                           *)

\* Every variable of the handlers and of the rounds keeps its type.
THEOREM SystemTypeCorrect == SystemSpec => []SystemTypeOK
<1>1. SystemInv => SystemTypeOK
  BY DEF SystemInv, ServiceInv, TypeInv, RoundTypes, SystemTypeOK
<1> QED
  BY <1>1, SystemInvHolds, PTL

\* The in-memory copy a round works on is never stale: the row is locked and still parked,
\* however many rounds and handlers compete for it (pending_ref_resolver.go 140-194).
THEOREM RoundsOwnTheirItems == SystemSpec => []RoundOwnsItsItems
<1>1. SystemInv => RoundOwnsItsItems
  BY DEF SystemInv, Round, RoundOwnsItsItems
<1> QED
  BY <1>1, SystemInvHolds, PTL

\* The books balance when rounds move money too (wager_service.go 785-937).
THEOREM SystemBooksBalance == SystemSpec => []BooksBalance
<1>1. SystemInv => BooksBalance
  BY DEF SystemInv, ServiceInv, StoreInv, StoreBooks
<1> QED
  BY <1>1, SystemInvHolds, PTL

\* Whoever resolves a parked reversal, a handler or a round, it moves its money once; a
\* rejected or parked transaction moves none.
THEOREM SystemPostsOnce == SystemSpec => []ExactlyOnePosting
<1>1. SystemInv /\ Complete => ExactlyOnePosting
  BY PostingsMeanOne DEF SystemInv, ServiceInv
<1> QED
  BY <1>1, SystemInvHolds, SystemCompleteHolds, PTL

\* The events of the rounds are those of their settlements too (outbox_repo.go 28-60).
THEOREM SystemOutboxTellsTheTables == SystemSpec => []OutboxTellsTheTables
<1>1. SystemInv /\ Complete => OutboxTellsTheTables
  BY ToldMeansTables DEF SystemInv, ServiceInv
<1> QED
  BY <1>1, SystemInvHolds, SystemCompleteHolds, PTL

\* No round and no handler changes a settled transaction (wager_transaction.go 45-60).
THEOREM SystemSettlementsAreFinal == SystemSpec => SettledForGood
<1>1. SystemInv /\ [SystemNext]_systemVars => [RowsFollow]_vars
  BY StepSystemInv DEF Kept, Follows, RowsFollow
<1> QED
  BY <1>1, SystemInvHolds, PTL DEF SystemSpec, SettledForGood, RowsFollow

\* With the rounds beside them the handlers still implement the book: a round shows as one
\* settlement, when it commits (pending_ref_resolver.go 83-203).
THEOREM SystemImplementsBook == SystemSpec => ImplementsBook
<1>1. SystemInit => Book!Init
  BY BookInit DEF SystemInit, ServiceInit
<1>2. SystemInv /\ SystemInv' /\ Complete /\ Complete' /\ [SystemNext]_systemVars
          => [Book!Next]_(Book!vars)
  <2> SUFFICES ASSUME SystemInv, SystemInv', Complete, Complete', [SystemNext]_systemVars
               PROVE  [Book!Next]_(Book!vars)
    OBVIOUS
  <2>1. StoreInv /\ StoreInv'
    BY DEF SystemInv, ServiceInv
  <2>2. CASE UNCHANGED storeVars
    BY <2>2 DEF storeVars, tables, Book!vars, Fate, MovedMoney
  <2>3. CASE \E a \in Handler \cup Worker : StoreStep(a)
    BY <2>1, <2>3, SessionsAreAgents, BookStep
  <2>4. ASSUME NEW k \in ExtId, BackoffElapsed(k) PROVE UNCHANGED Book!vars
    <3>1. \A j \in TxKey : Fate(j)' = Fate(j)
      BY <2>4, BackoffChanges DEF Fate, MovedMoney
    <3>2. UNCHANGED <<wallet, ledger, idem>>
      BY <2>4 DEF BackoffElapsed
    <3> QED
      BY <3>1, <3>2 DEF Book!vars
  <2> QED
    BY <2>2, <2>3, <2>4, StepSystemInv
<1> QED
  BY <1>1, <1>2, SystemInvHolds, SystemCompleteHolds, PTL
     DEF SystemSpec, ImplementsBook, Book!Spec

-----------------------------------------------------------------------------
(* The recovery of PENDING rows.                                           *)

\* The rows a recovery still has to end are PENDING, locked by it and not yet rewritten.
RecoveryRound(b) ==
    \A k \in stale[b] : holder[k] = b /\ Pending(k) /\ staged[b][k] = None

RecoveryTypes == stale \in [Recoverer -> SUBSET ExtId]

\* What is left PENDING is about money, so its ledger row, or the lack of one, tells whether
\* it was done.
LeftoversMove == \A k \in ExtId : Pending(k) => wager[k].kind \in {"BET", "WIN"}

\* The inductive invariant of handlers, rounds, recoveries and the other writer.
RecoveryInv ==
    SystemInv /\ RecoveryTypes /\ LeftoversMove /\ \A b \in Recoverer : RecoveryRound(b)

LEMMA RecoverersAreAgents ==
    ASSUME NEW b \in Recoverer
    PROVE  b \in Agent /\ b # None /\ b \notin Handler /\ b \notin Worker
BY StoreAssumption, RecoveryAssumption

\* The facts the lemmas about the actions start from.
LEMMA RecoveryFacts ==
    ASSUME RecoveryInv, NEW b \in Recoverer
    PROVE  /\ b \in Agent /\ b # None /\ b \notin Handler /\ b \notin Worker
           /\ StoreTypeOK /\ StoreBooks /\ RowsInv /\ Owned /\ Postings /\ ServiceInv
           /\ RecoveryRound(b) /\ stale[b] \subseteq ExtId
           /\ \A m \in Msg : holder[m] # b
BY RecoverersAreAgents
   DEF RecoveryInv, RecoveryTypes, SystemInv, ServiceInv, StoreInv, StoreBooks, RowsInv, Flow,
       MessageLocks

\* No session of the service leaves a row PENDING.
LEMMA PendingIsOld ==
    ASSUME StoreTypeOK, RowsInv, NEW a \in Agent, StoreStep(a), NEW k \in ExtId, Pending(k)'
    PROVE  Pending(k) /\ wager'[k] = wager[k]
<1>1. k \in TxKey /\ k \notin Wallet /\ OpenedFirst
  BY StoreAssumption DEF TxKey, RowsInv
<1>2. ASSUME staged[a][k] # None PROVE staged[a][k].status # "PENDING"
  BY <1>1, <1>2 DEF RowsInv, Owned
<1>3. \A c \in Calls : k # c.wallet
  BY <1>1, CallFields
<1>4. wager'[k] = wager[k] \/ (staged[a][k] # None /\ wager'[k] = staged[a][k])
  BY <1>1, <1>3, RowChanges
<1> QED
  BY <1>2, <1>4 DEF Pending, Exists

LEMMA RecoveriesOfOthers ==
    ASSUME RecoveryInv, NEW a \in Agent, StoreStep(a),
           NEW b \in Recoverer, b # a, stale'[b] = stale[b]
    PROVE  RecoveryRound(b)'
<1>1. /\ b \in Agent /\ b # None /\ StoreTypeOK /\ RowsInv /\ Owned /\ OpenedFirst
      /\ RecoveryRound(b) /\ stale[b] \subseteq ExtId /\ Apart(a)
  BY RecoveryFacts, StepApart DEF RowsInv
<1> SUFFICES ASSUME NEW k \in stale[b]
             PROVE  holder'[k] = b /\ Pending(k)' /\ staged'[b][k] = None
  BY DEF RecoveryRound
<1>2. /\ k \in ExtId /\ k \in TxKey /\ k \in Resource
      /\ holder[k] = b /\ Pending(k) /\ staged[b][k] = None
  BY <1>1, Resources DEF RecoveryRound, TxKey
<1>3. holder'[k] = b /\ staged'[b][k] = None
  BY <1>1, <1>2 DEF Apart
<1>4. staged[a][k] = None
  BY <1>1, <1>2 DEF Owned
<1>5. wager'[k] = wager[k]
  BY <1>1, <1>2, <1>4, RowChanges DEF Pending, Exists
<1> QED
  BY <1>2, <1>3, <1>5 DEF Pending, Exists

\* A step of recovery b that changes the store as the sessions of the service do.
RecoveryOrderly(b) ==
    /\ StoreStep(b) /\ StoreBooks'
    /\ UNCHANGED <<control, resolverControl, inbox>>
    /\ \A m \in Msg : holder'[m] # b
    /\ RecoveryRound(b)' /\ RecoveryTypes'
    /\ \A c \in Recoverer \ {b} : stale'[c] = stale[c]

LEMMA RecoveryOrderlyKeeps ==
    ASSUME RecoveryInv, NEW b \in Recoverer, RecoveryOrderly(b)
    PROVE  RecoveryInv' /\ Kept /\ \A w \in Wallet : Grows(w)
<1>1. /\ b \in Agent /\ b \notin Handler /\ b \notin Worker /\ StoreTypeOK /\ RowsInv
      /\ ServiceInv /\ StoreBooks /\ StoreStep(b)
  BY RecoveryFacts DEF RecoveryOrderly
<1>2. ServiceInv' /\ Kept
  BY <1>1, SessionKeeps DEF RecoveryOrderly
<1>3. RoundTypes' /\ rpc' = rpc /\ items' = items /\ current' = current
  BY DEF RecoveryOrderly, RecoveryInv, SystemInv, RoundTypes, resolverControl
<1>4. ASSUME NEW a \in Worker PROVE Round(a)'
  BY <1>1, <1>2, <1>3, RoundOfOthers DEF RecoveryInv, SystemInv
<1>5. ASSUME NEW c \in Recoverer PROVE RecoveryRound(c)'
  BY <1>1, RecoveriesOfOthers DEF RecoveryOrderly
<1>6. LeftoversMove'
  BY <1>1, PendingIsOld DEF RecoveryInv, LeftoversMove
<1>7. \A w \in Wallet : Grows(w)
  BY <1>1, LedgerGrows
<1> QED
  BY <1>2, <1>3, <1>4, <1>5, <1>6, <1>7 DEF RecoveryOrderly, RecoveryInv, SystemInv

LEMMA SelectStaleOrderly ==
    ASSUME RecoveryInv, NEW b \in Recoverer, SelectStale(b)
    PROVE  RecoveryOrderly(b)
<1>1. /\ b \in Agent /\ b # None /\ StoreTypeOK /\ StoreBooks /\ Owned
      /\ \A m \in Msg : holder[m] # b
  BY RecoveryFacts
<1>2. UNCHANGED <<tables, work, entries, staged, events, control, resolverControl>>
  BY DEF SelectStale
<1>3. PICK rows \in SUBSET Recoverable :
          LockRows(b, rows) /\ stale' = [stale EXCEPT ![b] = rows]
  BY DEF SelectStale
<1>4. /\ rows \in SUBSET ExtId
      /\ \A k \in rows : Pending(k) /\ holder[k] = None
  BY DEF Recoverable
<1>5. /\ StoreStep(b) /\ StoreBooks' /\ inbox' = inbox
      /\ \A m \in Msg : holder'[m] # b
      /\ \A k \in ExtId : holder'[k] = IF k \in rows THEN b ELSE holder[k]
  BY <1>1, <1>2, <1>3, <1>4, RowsGrabbed
<1>6. /\ stale'[b] = rows /\ RecoveryTypes'
      /\ \A c \in Recoverer \ {b} : stale'[c] = stale[c]
  BY <1>3, <1>4 DEF RecoveryInv, RecoveryTypes
<1>7. RecoveryRound(b)'
  <2> SUFFICES ASSUME NEW k \in rows
               PROVE  holder'[k] = b /\ Pending(k)' /\ staged'[b][k] = None
    BY <1>6 DEF RecoveryRound
  <2>1. k \in ExtId /\ k \in TxKey /\ Pending(k) /\ holder[k] = None
    BY <1>4 DEF TxKey
  <2>2. staged[b][k] = None
    BY <1>1, <2>1 DEF Owned
  <2> QED
    BY <1>2, <1>5, <2>1, <2>2 DEF Pending, Exists, tables
<1> QED
  BY <1>2, <1>5, <1>6, <1>7 DEF RecoveryOrderly

\* The end of a recovery, whatever it is.
LEMMA RecoveryEnds ==
    ASSUME RecoveryInv, NEW b \in Recoverer, EndRecovery(b), EndSession(b), inbox' = inbox,
           StoreStep(b), StoreBooks'
    PROVE  RecoveryOrderly(b)
<1>1. b \in Agent /\ StoreTypeOK /\ RecoveryTypes
  BY RecoveryFacts DEF RecoveryInv
<1>2. \A r \in Resource : holder'[r] # b
  BY <1>1, EndApart
<1>3. /\ stale'[b] = {} /\ RecoveryTypes'
      /\ \A c \in Recoverer \ {b} : stale'[c] = stale[c]
  BY <1>1 DEF EndRecovery, RecoveryTypes
<1> QED
  BY <1>2, <1>3, Resources DEF RecoveryOrderly, RecoveryRound, EndRecovery

LEMMA CommitRecoveryOrderly ==
    ASSUME RecoveryInv, NEW b \in Recoverer, CommitRecovery(b)
    PROVE  RecoveryOrderly(b)
<1>1. /\ b \in Agent /\ StoreBooks /\ StoreTypeOK /\ \A m \in Msg : holder[m] # b
  BY RecoveryFacts
<1>2. Commit(b, idem) /\ EndRecovery(b) /\ EndSession(b)
  BY DEF CommitRecovery, Commit
<1>3. StoreStep(b)
  <2>1. idem \in [Key -> IdemRow \cup {None}]
    BY <1>1 DEF StoreTypeOK
  <2>2. Remembers(b, idem)
    BY DEF Remembers
  <2> QED
    BY <1>2, <2>1, <2>2 DEF StoreStep
<1>4. inbox' = inbox
  BY <1>1, <1>2 DEF Commit
<1> QED
  BY <1>1, <1>2, <1>3, <1>4, CommitKeepsBooks, RecoveryEnds

LEMMA AbandonRecoveryOrderly ==
    ASSUME RecoveryInv, NEW b \in Recoverer, AbandonRecovery(b)
    PROVE  RecoveryOrderly(b)
<1>1. Rollback(b) /\ EndRecovery(b)
  BY DEF AbandonRecovery
<1>2. StoreBooks' /\ StoreStep(b) /\ EndSession(b) /\ inbox' = inbox
  BY <1>1, RecoveryFacts, RollbackKeepsBooks DEF StoreStep, Rollback, tables
<1> QED
  BY <1>1, <1>2, RecoveryEnds

-----------------------------------------------------------------------------
(* The end of a PENDING row: it is rewritten as the ledger says.           *)

\* The row a recovery writes back.
LEMMA EndedRow ==
    ASSUME NEW old \in WagerRow, old.status = "PENDING", old.kind \in {"BET", "WIN"},
           NEW status, status \in {"PROCESSED", "FAILED"},
           NEW code, code \in FailureCodes \cup {None},
           NEW row, row = Resolved(old, status, code, None)
    PROVE  /\ row \in WagerRow /\ row # None /\ row.status = status
           /\ row.amount = old.amount /\ row.wallet = old.wallet
           /\ Moves(row) <=> status = "PROCESSED"
           /\ ~Terminal(old.status) /\ Follows(old, row)
<1>1. /\ row \in WagerRow /\ row.status = status /\ row.kind = old.kind
      /\ row.amount = old.amount /\ row.wallet = old.wallet
  BY DEF Resolved, WagerRow, Statuses
<1>2. status \in validTransitions[old.status]
  BY DEF validTransitions, Statuses
<1>3. [row EXCEPT !.status = old.status, !.code = old.code, !.resolved = old.resolved,
                  !.attempts = old.attempts, !.deferred = old.deferred] = old
  BY DEF Resolved, WagerRow
<1>4. ~Terminal(old.status)
  BY DEF Terminal
<1> QED
  BY <1>1, <1>2, <1>3, <1>4, RowAssumption DEF Follows, Moves

\* What RecoverItem does to the row it ends.
Ends(b, k, row) ==
    /\ row \in WagerRow /\ row # None /\ row.status \in {"PROCESSED", "FAILED"}
    /\ row.wallet = wager[k].wallet
    /\ ~Terminal(wager[k].status) /\ Follows(wager[k], row)
    /\ IF Moves(row) THEN OneRow(ledger, k, row.amount) ELSE NoRow(ledger, k)
    /\ staged' = [staged EXCEPT ![b][k] = row]

LEMMA RecoverItemEnds ==
    ASSUME RecoveryInv, NEW b \in Recoverer, NEW k \in stale[b], Recover(b, k)
    PROVE  \E row : Ends(b, k, row)
<1>1. /\ b \in Agent /\ StoreTypeOK /\ Postings /\ k \in ExtId /\ k \in TxKey
      /\ Pending(k) /\ staged[b][k] = None
  BY RecoveryFacts DEF RecoveryRound, TxKey
<1> DEFINE old == wager[k]
           status == IF HasLedger(k) THEN "PROCESSED" ELSE "FAILED"
           code == IF HasLedger(k) THEN None ELSE "TRANSACTION_TIMEOUT"
           row == Resolved(old, status, code, None)
<1>2. /\ old = wager[k] /\ old \in WagerRow /\ old # None /\ old.status = "PENDING"
      /\ old.kind \in {"BET", "WIN"}
  BY <1>1 DEF Pending, Exists, StoreTypeOK, RecoveryInv, LeftoversMove
<1>3. /\ status \in {"PROCESSED", "FAILED"} /\ code \in FailureCodes \cup {None}
      /\ status = "PROCESSED" <=> HasLedger(k)
      /\ row = Resolved(old, status, code, None)
  BY DEF FailureCodes
<1>4. staged' = [staged EXCEPT ![b][k] = row]
  BY <1>1 DEF Recover, Restage, Seen, Resolved
<1>5. NoRow(ledger, k) \/ OneRow(ledger, k, old.amount)
  BY <1>1, <1>2 DEF Postings, Posted
<1>6. HasLedger(k) <=> ~NoRow(ledger, k)
  <2>1. \A w \in Wallet : ledger[w] \in Seq(EntryRow)
    BY <1>1 DEF StoreTypeOK
  <2>2. \A w \in Wallet : DOMAIN ledger[w] = 1..Len(ledger[w])
    BY <2>1
  <2> QED
    BY <2>2 DEF HasLedger, NoRow
<1> HIDE DEF old, status, code, row
<1>7. /\ row \in WagerRow /\ row # None /\ row.status = status
      /\ row.amount = old.amount /\ row.wallet = old.wallet
      /\ Moves(row) <=> status = "PROCESSED"
      /\ ~Terminal(old.status) /\ Follows(old, row)
  BY <1>2, <1>3, EndedRow
<1>8. IF Moves(row) THEN OneRow(ledger, k, row.amount) ELSE NoRow(ledger, k)
  BY <1>3, <1>5, <1>6, <1>7
<1>9. Ends(b, k, row)
  BY <1>2, <1>3, <1>4, <1>7, <1>8 DEF Ends
<1> QED
  BY <1>9

LEMMA EndsApart ==
    ASSUME StoreTypeOK, NEW b \in Agent, NEW k \in TxKey, NEW row, Ends(b, k, row),
           UNCHANGED <<tables, holder, work, entries, events>>
    PROVE  /\ Apart(b)
           /\ staged' \in [Agent -> [TxKey -> WagerRow \cup {None}]]
           /\ staged'[b][k] = row
           /\ \A j \in TxKey \ {k} : staged'[b][j] = staged[b][j]
<1>0. row \in WagerRow
  BY DEF Ends
<1>1. staged' = [staged EXCEPT ![b][k] = row]
  BY DEF Ends
<1>2. /\ staged'[b][k] = row
      /\ \A j \in TxKey \ {k} : staged'[b][j] = staged[b][j]
      /\ \A a \in Agent \ {b} : staged'[a] = staged[a]
  BY <1>1 DEF StoreTypeOK
<1>3. staged' \in [Agent -> [TxKey -> WagerRow \cup {None}]]
  BY <1>0, <1>1, StageType
<1> QED
  BY <1>2, <1>3 DEF Apart

LEMMA EndsKeepsRows ==
    ASSUME StoreTypeOK, RowsInv, Postings, NEW b \in Agent, NEW k \in ExtId,
           holder[k] = b, Pending(k), staged[b][k] = None,
           NEW row, Ends(b, k, row),
           UNCHANGED <<tables, holder, work, entries, events>>
    PROVE  RowsInv' /\ Postings'
<1>1. /\ k \in TxKey /\ Owned /\ OpenedFirst /\ OnOpenWallets /\ ParkedAreReversals
      /\ UNCHANGED <<wallet, wager, ledger, holder, entries>>
  BY DEF TxKey, RowsInv, tables
<1>2. /\ Apart(b) /\ staged'[b][k] = row
      /\ \A j \in TxKey \ {k} : staged'[b][j] = staged[b][j]
  BY <1>1, EndsApart
<1>3. ASSUME NEW a \in Agent, NEW j \in TxKey, ~(a = b /\ j = k)
      PROVE  staged'[a][j] = staged[a][j]
  BY <1>2, <1>3 DEF Apart
<1>4. /\ row.status \in {"PROCESSED", "FAILED"} /\ row.wallet = wager[k].wallet /\ row # None
      /\ ~Terminal(wager[k].status) /\ Follows(wager[k], row)
      /\ IF Moves(row) THEN OneRow(ledger, k, row.amount) ELSE NoRow(ledger, k)
  BY DEF Ends
<1>5. Owned'
  <2> SUFFICES ASSUME NEW a \in Agent, NEW j \in TxKey, staged'[a][j] # None
               PROVE  /\ j \in ExtId /\ holder[j] = a /\ staged'[a][j].status # "PENDING"
                      /\ wager[j] # None => /\ ~Terminal(wager[j].status)
                                            /\ Follows(wager[j], staged'[a][j])
    BY <1>1 DEF Owned
  <2>1. CASE a = b /\ j = k
    BY <1>2, <1>4, <2>1
  <2>2. CASE ~(a = b /\ j = k)
    BY <1>1, <1>3, <2>2 DEF Owned
  <2> QED
    BY <2>1, <2>2
<1>6. OpenedFirst'
  BY <1>1 DEF OpenedFirst
<1>7. OnOpenWallets'
  <2>1. wallet[wager[k].wallet].open
    BY <1>1 DEF OnOpenWallets, Pending, Exists
  <2>2. ASSUME NEW a \in Agent, NEW j \in TxKey, staged'[a][j] # None
        PROVE  wallet[staged'[a][j].wallet].open
    <3>1. CASE a = b /\ j = k
      BY <1>2, <1>4, <2>1, <3>1
    <3>2. CASE ~(a = b /\ j = k)
      BY <1>1, <1>3, <2>2, <3>2 DEF OnOpenWallets
    <3> QED
      BY <3>1, <3>2
  <2> QED
    BY <1>1, <2>2 DEF OnOpenWallets
<1>8. ParkedAreReversals'
  <2>1. ~Parked(row)
    BY <1>4 DEF Parked
  <2>2. ASSUME NEW a \in Agent, NEW j \in TxKey, Parked(staged'[a][j])
        PROVE  RequiresReference(staged'[a][j].kind)
    BY <1>1, <1>2, <1>3, <2>1, <2>2 DEF ParkedAreReversals
  <2> QED
    BY <1>1, <2>2 DEF ParkedAreReversals, Parked
<1>9. ASSUME NEW j \in TxKey PROVE Posted(j)'
  BY <1>1 DEF Postings, Posted
<1>10. ASSUME NEW j \in TxKey, NEW a \in Agent PROVE PrivatePosted(a, j)'
  <2>1. PrivatePosted(a, j)
    BY DEF Postings
  <2>2. CASE a = b /\ j = k
    <3>1. NoRow(entries[b], k)
      BY <2>1, <2>2 DEF PrivatePosted
    <3> QED
      BY <1>1, <1>2, <1>4, <2>2, <3>1 DEF PrivatePosted
  <2>3. CASE ~(a = b /\ j = k)
    BY <1>1, <1>3, <2>1, <2>3 DEF PrivatePosted
  <2> QED
    BY <2>2, <2>3
<1> QED
  BY <1>5, <1>6, <1>7, <1>8, <1>9, <1>10 DEF RowsInv, Postings

LEMMA RecoverItemKeeps ==
    ASSUME RecoveryInv, NEW b \in Recoverer, RecoverItem(b)
    PROVE  RecoveryInv' /\ Kept /\ \A w \in Wallet : Grows(w)
<1>1. /\ b \in Agent /\ b # None /\ b \notin Handler /\ b \notin Worker
      /\ StoreTypeOK /\ StoreBooks /\ RowsInv /\ Postings /\ ServiceInv
      /\ RecoveryRound(b) /\ stale[b] \subseteq ExtId
      /\ TypeInv /\ TypeOK /\ Flow /\ StoredAnswersHold /\ InboxMeansDone
  BY RecoveryFacts DEF ServiceInv, TypeInv
<1>2. PICK k \in stale[b] : Recover(b, k) /\ stale' = [stale EXCEPT ![b] = @ \ {k}]
  BY DEF RecoverItem
<1>3. UNCHANGED <<tables, holder, work, entries, events, control, resolverControl>>
  BY DEF RecoverItem
<1>4. /\ k \in ExtId /\ k \in TxKey
      /\ holder[k] = b /\ Pending(k) /\ staged[b][k] = None
  BY <1>1 DEF RecoveryRound, TxKey
<1>5. PICK row : Ends(b, k, row)
  BY <1>2, RecoverItemEnds
<1>6. /\ Apart(b)
      /\ staged' \in [Agent -> [TxKey -> WagerRow \cup {None}]]
      /\ \A j \in TxKey \ {k} : staged'[b][j] = staged[b][j]
  BY <1>1, <1>3, <1>4, <1>5, EndsApart
<1>7. StoreBooks'
  BY <1>1, <1>3, <1>6, StaysBooks DEF StoreTypeOK
<1>8. RowsInv' /\ Postings'
  BY <1>1, <1>3, <1>4, <1>5, EndsKeepsRows
<1>9. Kept
  BY <1>1, <1>3, FollowsItself DEF Kept, tables, StoreTypeOK
<1>10. \A w \in Wallet : Grows(w)
  BY <1>1, <1>3, LedgerStays DEF tables
<1>11. StoredAnswersHold' /\ InboxMeansDone' /\ MessageLocks'
  BY <1>1, <1>3 DEF tables, control, StoredAnswersHold, InboxMeansDone, Stored, Flow, MessageLocks
<1>12. ASSUME NEW g \in Handler PROVE HandlerFlow(g)'
  <2>1. HandlerFlow(g) /\ staged'[g] = staged[g]
    BY <1>1, <1>6, HandlersAreAgents DEF Flow, Apart
  <2> QED
    BY <1>3, <2>1 DEF tables, control, HandlerFlow, Durable
<1>13. TypeInv'
  <2>1. Control'
    BY <1>1, <1>3, <1>6, ControlApart
  <2> QED
    BY <1>1, <1>3, <1>7, <2>1 DEF TypeInv, TypeOK, StoreBooks, control
<1>14. ASSUME NEW a \in Worker PROVE Round(a)'
  <2>1. /\ Round(a) /\ a \in Agent /\ a # b
        /\ rpc' = rpc /\ items' = items /\ current' = current
    BY <1>1, <1>3, WorkersAreAgents DEF RecoveryInv, SystemInv, resolverControl
  <2>2. staged'[a] = staged[a]
    BY <1>6, <2>1 DEF Apart
  <2> QED
    BY <1>1, <1>3, <2>1, <2>2, RoundKept DEF tables
<1>15. RoundTypes'
  BY <1>3 DEF RecoveryInv, SystemInv, RoundTypes, resolverControl
<1>16. /\ RecoveryTypes' /\ stale'[b] = stale[b] \ {k}
       /\ \A c \in Recoverer \ {b} : stale'[c] = stale[c]
  BY <1>1, <1>2 DEF RecoveryInv, RecoveryTypes
<1>17. ASSUME NEW c \in Recoverer PROVE RecoveryRound(c)'
  <2> SUFFICES ASSUME NEW j \in stale'[c]
               PROVE  holder'[j] = c /\ Pending(j)' /\ staged'[c][j] = None
    BY DEF RecoveryRound
  <2>1. j \in stale[c] /\ (c = b => j # k)
    BY <1>16
  <2>2. /\ j \in TxKey /\ holder[j] = c /\ Pending(j) /\ staged[c][j] = None /\ c \in Agent
    BY <2>1, RecoveryFacts DEF RecoveryRound, TxKey
  <2>3. staged'[c][j] = staged[c][j]
    BY <1>6, <2>1, <2>2 DEF Apart
  <2> QED
    BY <1>3, <2>2, <2>3 DEF tables, Pending, Exists
<1>18. LeftoversMove'
  BY <1>3 DEF RecoveryInv, LeftoversMove, tables, Pending, Exists
<1> QED
  BY <1>7, <1>8, <1>9, <1>10, <1>11, <1>12, <1>13, <1>14, <1>15, <1>16, <1>17, <1>18
     DEF RecoveryInv, SystemInv, ServiceInv, StoreInv, Flow

-----------------------------------------------------------------------------
(* The other writer.                                                       *)

LEMMA LeftoverFields ==
    ASSUME NEW l \in Leftover
    PROVE  /\ l.ext \in ExtId /\ l.ext \in TxKey /\ l.ext \in Resource /\ l.ext \notin Wallet
           /\ l.wallet \in Wallet /\ l.wallet \in Resource /\ l.kind \in {"BET", "WIN"}
           /\ l.amount \in Balances /\ l.amount \in Amounts
           /\ LeftRow(l) \in WagerRow /\ LeftRow(l) # None
<1>1. /\ l.ext \in ExtId /\ l.wallet \in Wallet /\ l.kind \in {"BET", "WIN"}
      /\ l.amount \in Balances
  BY RecoveryAssumption
<1>2. l.amount \in Amounts
  BY <1>1, Numbers
<1>3. LeftRow(l) \in WagerRow
  BY <1>1, <1>2 DEF LeftRow, WagerRow, Kinds, Statuses
<1> QED
  BY <1>1, <1>2, <1>3, Resources, StoreAssumption, RowAssumption DEF TxKey

\* What a posted leftover does to its wallet.
Posts(l, e, next) ==
    /\ e \in EntryRow /\ e.tx = l.ext /\ e.amount = l.amount /\ EntryMath(e)
    /\ e.before = wallet[l.wallet].balance
    /\ next \in WalletRow /\ next.open /\ next.balance = e.after
    /\ next.version = wallet[l.wallet].version + 1
    /\ ledger' = [ledger EXCEPT ![l.wallet] = Append(@, e)]
    /\ wallet' = [wallet EXCEPT ![l.wallet] = next]

LEMMA LeftoverPosts ==
    ASSUME StoreTypeOK, NEW l \in Leftover, LeaveBehind(l)
    PROVE  \/ UNCHANGED <<wallet, ledger>>
           \/ \E e, next : Posts(l, e, next)
<1>1. CASE ~l.posted
  BY <1>1 DEF LeaveBehind
<1>2. CASE l.posted
  <2> DEFINE w == l.wallet
             old == wallet[w]
             dir == IF l.kind = "BET" THEN "DEBIT" ELSE "CREDIT"
             after == Moved(dir, old.balance, l.amount)
             e == LeftEntry(l, dir)
             next == [old EXCEPT !.balance = after, !.version = old.version + 1]
  <2>1. /\ Affordable(dir, old.balance, l.amount)
        /\ ledger' = [ledger EXCEPT ![w] = Append(@, e)]
        /\ wallet' = [wallet EXCEPT ![w].balance = Moved(dir, @, l.amount),
                                    ![w].version = @ + 1]
    BY <1>2 DEF LeaveBehind
  <2>2. w \in Wallet /\ l.ext \in TxKey /\ l.amount \in Balances /\ dir \in Directions
    BY LeftoverFields DEF Directions
  <2>3. /\ old \in WalletRow /\ old.balance \in Balances /\ old.version \in Nat /\ old.open
    BY <2>2 DEF StoreTypeOK, WalletRow, LeaveBehind
  <2>4. /\ after \in Balances
        /\ after = IF dir = "CREDIT" THEN old.balance + l.amount ELSE old.balance - l.amount
    BY <2>1, <2>2, <2>3, MovedType
  <2>5. wallet' = [wallet EXCEPT ![w] = next]
    BY <2>1, <2>2, <2>3 DEF StoreTypeOK, WalletRow
  <2>6. e = [tx |-> l.ext, dir |-> dir, amount |-> l.amount, before |-> old.balance,
             after |-> after]
    BY DEF LeftEntry
  <2>7. old.version + 1 \in Nat
    BY <2>3
  <2>8. e \in EntryRow /\ e.tx = l.ext /\ e.amount = l.amount /\ e.before = old.balance
    BY <2>2, <2>3, <2>4, <2>6 DEF EntryRow
  <2>9. EntryMath(e) /\ e.after = after
    BY <2>4, <2>6 DEF EntryMath
  <2>10. /\ next \in WalletRow /\ next.open /\ next.balance = after
         /\ next.version = old.version + 1
    BY <2>3, <2>4, <2>7 DEF WalletRow
  <2> HIDE DEF e, next, after, dir
  <2>11. Posts(l, e, next)
    BY <2>1, <2>5, <2>8, <2>9, <2>10 DEF Posts
  <2> QED
    BY <2>11
<1> QED
  BY <1>1, <1>2

\* What every leftover leaves alone.
LEMMA LeftoverFacts ==
    ASSUME RecoveryInv, NEW l \in Leftover, LeaveBehind(l)
    PROVE  /\ StoreTypeOK /\ StoreBooks /\ RowsInv /\ Postings /\ ServiceInv
           /\ holder[l.wallet] = None /\ holder[l.ext] = None
           /\ wallet[l.wallet].open /\ wager[l.ext] = None
           /\ \A a \in Agent : staged[a][l.ext] = None
           /\ wager' \in [TxKey -> WagerRow \cup {None}]
           /\ wager'[l.ext] = LeftRow(l)
           /\ \A k \in TxKey \ {l.ext} : wager'[k] = wager[k]
           /\ UNCHANGED <<idem, inbox, outbox, session, control, resolverControl, stale>>
<1>1. /\ StoreTypeOK /\ StoreBooks /\ RowsInv /\ Owned /\ Postings /\ ServiceInv
  BY DEF RecoveryInv, SystemInv, ServiceInv, StoreInv, StoreBooks, RowsInv
<1>2. /\ holder[l.wallet] = None /\ holder[l.ext] = None
      /\ wallet[l.wallet].open /\ wager[l.ext] = None
      /\ wager' = [wager EXCEPT ![l.ext] = LeftRow(l)]
      /\ UNCHANGED <<idem, inbox, outbox, session, control, resolverControl, stale>>
  BY LeftoverFields, StoreAssumption DEF LeaveBehind, Exists
<1>3. l.ext \in TxKey /\ LeftRow(l) \in WagerRow
  BY LeftoverFields
<1>4. \A a \in Agent : staged[a][l.ext] = None
  BY <1>1, <1>2, <1>3, StoreAssumption DEF Owned
<1> QED
  BY <1>1, <1>2, <1>3, <1>4 DEF StoreTypeOK

LEMMA LeftoverBooks ==
    ASSUME RecoveryInv, NEW l \in Leftover, LeaveBehind(l)
    PROVE  StoreBooks' /\ \A w \in Wallet : Grows(w)
<1>1. /\ StoreTypeOK /\ StoreBooks /\ l.wallet \in Wallet /\ l.wallet # l.ext
      /\ holder[l.wallet] = None /\ wallet[l.wallet].open
      /\ wager' \in [TxKey -> WagerRow \cup {None}]
      /\ UNCHANGED <<idem, inbox, outbox, session>>
  BY LeftoverFields, LeftoverFacts
<1>2. CASE UNCHANGED <<wallet, ledger>>
  <2>1. BooksBalance' /\ PrivateBooksBalance'
    BY <1>1, <1>2, BooksUntouched DEF session
  <2>2. StoreTypeOK'
    BY <1>1, <1>2 DEF StoreTypeOK, session
  <2> QED
    BY <1>1, <1>2, <2>1, <2>2, LedgerStays DEF StoreBooks
<1>3. ASSUME NEW e, NEW next, Posts(l, e, next)
      PROVE  StoreBooks' /\ \A w \in Wallet : Grows(w)
  <2> DEFINE u == l.wallet
             s == ledger[u]
             row == wallet[u]
  <2>1. /\ e \in EntryRow /\ e.tx # u /\ EntryMath(e) /\ e.before = row.balance
        /\ next \in WalletRow /\ next.open /\ next.balance = e.after
        /\ next.version = row.version + 1
        /\ ledger' = [ledger EXCEPT ![u] = Append(s, e)]
        /\ wallet' = [wallet EXCEPT ![u] = next]
    BY <1>1, <1>3 DEF Posts
  <2>2. u \in Wallet /\ s \in Seq(EntryRow) /\ row \in WalletRow /\ row.open /\ Books(u, row, s)
    BY <1>1 DEF StoreTypeOK, StoreBooks, BooksBalance
  <2>3. /\ ledger'[u] = Append(s, e) /\ wallet'[u] = next
        /\ \A w \in Wallet \ {u} : ledger'[w] = ledger[w] /\ wallet'[w] = wallet[w]
    BY <1>1, <2>1 DEF StoreTypeOK
  <2>4. s = ledger[u] /\ row = wallet[u]
    OBVIOUS
  <2> HIDE DEF s, row, u
  <2>5. Books(u, next, Append(s, e)) /\ Append(s, e) \in Seq(EntryRow)
    BY <2>1, <2>2, BooksAppend
  <2>6. StoreTypeOK'
    BY <1>1, <2>1, <2>2, <2>5 DEF StoreTypeOK, session
  <2>7. BooksBalance'
    BY <1>1, <2>3, <2>5 DEF StoreBooks, BooksBalance
  <2>8. ASSUME NEW a \in Agent, NEW w \in Wallet PROVE PrivateBooks(a, w)'
    <3>1. PrivateBooks(a, w) /\ holder' = holder /\ work' = work /\ entries' = entries
      BY <1>1, PrivatePart DEF StoreBooks, session
    <3>2. CASE w = u
      <4>1. holder[w] # a
        BY <1>1, <3>2, StoreAssumption DEF u
      <4> QED
        BY <3>1, <4>1 DEF PrivateBooks
    <3>3. CASE w # u
      BY <2>3, <3>1, <3>3 DEF PrivateBooks, VersionMatches
    <3> QED
      BY <3>2, <3>3
  <2>9. PrivateBooksBalance'
    BY <2>8 DEF PrivateBooksBalance, PrivateBooks
  <2>10. ASSUME NEW w \in Wallet PROVE Grows(w)
    <3>1. CASE w = u
      BY <1>1, <2>1, <2>3, <2>4, <3>1, LedgerExtended
    <3>2. CASE w # u
      BY <1>1, <2>3, <3>2, LedgerStays
    <3> QED
      BY <3>1, <3>2
  <2> QED
    BY <2>6, <2>7, <2>9, <2>10 DEF StoreBooks
<1> QED
  BY <1>1, <1>2, <1>3, LeftoverPosts

LEMMA LeftoverRows ==
    ASSUME RecoveryInv, NEW l \in Leftover, LeaveBehind(l)
    PROVE  RowsInv' /\ Kept
<1>1. /\ StoreTypeOK /\ Owned /\ OpenedFirst /\ OnOpenWallets /\ ParkedAreReversals
      /\ l.ext \in ExtId /\ l.ext \in TxKey /\ l.ext \notin Wallet
      /\ wager[l.ext] = None /\ wager'[l.ext] = LeftRow(l)
      /\ \A a \in Agent : staged[a][l.ext] = None
      /\ \A k \in TxKey \ {l.ext} : wager'[k] = wager[k]
      /\ UNCHANGED <<idem, inbox, session>>
  BY LeftoverFields, LeftoverFacts DEF RowsInv
<1>2. /\ LeftRow(l).status = "PENDING" /\ LeftRow(l).wallet = l.wallet
      /\ wallet[l.wallet].open /\ l.wallet \in Wallet
  BY LeftoverFields, LeftoverFacts DEF LeftRow
<1>3. \A w \in Wallet : wallet[w].open => wallet'[w].open
  <2>1. ASSUME NEW e, NEW next, Posts(l, e, next), NEW w \in Wallet, wallet[w].open
        PROVE  wallet'[w].open
    BY <1>1, <1>2, <2>1 DEF Posts, StoreTypeOK
  <2> QED
    BY <1>1, <2>1, LeftoverPosts
<1>4. UNCHANGED <<holder, staged>>
  BY <1>1 DEF session
<1>5. Owned'
  <2> SUFFICES ASSUME NEW a \in Agent, NEW k \in TxKey, staged[a][k] # None
               PROVE  /\ k \in ExtId /\ holder[k] = a /\ staged[a][k].status # "PENDING"
                      /\ wager'[k] # None => /\ ~Terminal(wager'[k].status)
                                             /\ Follows(wager'[k], staged[a][k])
    BY <1>4 DEF Owned
  <2>1. k # l.ext
    BY <1>1
  <2> QED
    BY <1>1, <2>1 DEF Owned
<1>6. OpenedFirst'
  <2> SUFFICES ASSUME NEW w \in Wallet, wager'[w] # None PROVE wallet'[w].open
    BY DEF OpenedFirst
  <2>1. w \in TxKey /\ w # l.ext
    BY <1>1 DEF TxKey
  <2> QED
    BY <1>1, <1>3, <2>1 DEF OpenedFirst
<1>7. OnOpenWallets'
  <2>1. ASSUME NEW k \in TxKey, wager'[k] # None PROVE wallet'[wager'[k].wallet].open
    <3>1. CASE k = l.ext
      BY <1>1, <1>2, <1>3, <3>1
    <3>2. CASE k # l.ext
      <4>1. /\ wager'[k] = wager[k] /\ wallet[wager[k].wallet].open
            /\ wager[k].wallet \in Wallet
        BY <1>1, <2>1, <3>2 DEF OnOpenWallets, StoreTypeOK, WagerRow
      <4> QED
        BY <1>3, <4>1
    <3> QED
      BY <3>1, <3>2
  <2>2. ASSUME NEW a \in Agent, NEW k \in TxKey, staged[a][k] # None
        PROVE  wallet'[staged[a][k].wallet].open
    <3>1. wallet[staged[a][k].wallet].open /\ staged[a][k].wallet \in Wallet
      BY <1>1, <2>2 DEF OnOpenWallets, StoreTypeOK, WagerRow
    <3> QED
      BY <1>3, <3>1
  <2> QED
    BY <1>4, <2>1, <2>2 DEF OnOpenWallets
<1>8. ParkedAreReversals'
  <2>1. ASSUME NEW k \in TxKey, Parked(wager'[k])
        PROVE  k \in ExtId /\ RequiresReference(wager'[k].kind)
    <3>1. k # l.ext
      BY <1>1, <1>2, <2>1 DEF Parked
    <3> QED
      BY <1>1, <2>1, <3>1 DEF ParkedAreReversals
  <2> QED
    BY <1>1, <1>4, <2>1 DEF ParkedAreReversals, Parked
<1>9. Kept
  <2>1. ASSUME NEW k \in TxKey, wager[k] # None PROVE wager'[k] # None /\ Follows(wager[k], wager'[k])
    <3>1. wager'[k] = wager[k] /\ wager[k] \in WagerRow
      BY <1>1, <2>1 DEF StoreTypeOK
    <3> QED
      BY <2>1, <3>1, FollowsItself
  <2> QED
    BY <1>1, <1>3, <2>1 DEF Kept
<1> QED
  BY <1>5, <1>6, <1>7, <1>8, <1>9 DEF RowsInv

LEMMA LeftoverPostings ==
    ASSUME RecoveryInv, NEW l \in Leftover, LeaveBehind(l)
    PROVE  Postings'
<1>1. /\ StoreTypeOK /\ Postings /\ l.ext \in TxKey /\ l.wallet \in Wallet
      /\ wager[l.ext] = None /\ wager'[l.ext] = LeftRow(l) /\ LeftRow(l) # None
      /\ \A a \in Agent : staged[a][l.ext] = None
      /\ \A k \in TxKey \ {l.ext} : wager'[k] = wager[k]
      /\ UNCHANGED <<staged, entries>>
  BY LeftoverFields, LeftoverFacts DEF session
<1>2. LeftRow(l).status = "PENDING" /\ LeftRow(l).amount = l.amount
  BY DEF LeftRow
<1>3. /\ \A k \in TxKey, amount \in Amounts :
            k # l.ext => /\ NoRow(ledger, k) => NoRow(ledger', k)
                         /\ OneRow(ledger, k, amount) => OneRow(ledger', k, amount)
      /\ NoRow(ledger, l.ext) => NoRow(ledger', l.ext) \/ OneRow(ledger', l.ext, l.amount)
  <2>1. CASE UNCHANGED ledger
    BY <2>1
  <2>2. ASSUME NEW e, NEW next, Posts(l, e, next)
        PROVE  /\ \A k \in TxKey, amount \in Amounts :
                     k # l.ext => /\ NoRow(ledger, k) => NoRow(ledger', k)
                                  /\ OneRow(ledger, k, amount) => OneRow(ledger', k, amount)
               /\ NoRow(ledger, l.ext) => OneRow(ledger', l.ext, l.amount)
    <3>1. /\ e \in EntryRow /\ e.tx = l.ext /\ e.amount = l.amount
          /\ ledger' = [ledger EXCEPT ![l.wallet] = Append(@, e)]
      BY <2>2 DEF Posts
    <3>2. ledger \in Ledgers
      BY <1>1 DEF StoreTypeOK, Ledgers
    <3>3. \A v \in Wallet :
              ledger'[v] = IF v = l.wallet THEN Append(ledger[l.wallet], e) ELSE ledger[v]
      BY <1>1, <3>1, <3>2 DEF Ledgers
    <3> DEFINE M == ledger'
               w == l.wallet
    <3>4. \A v \in Wallet : M[v] = IF v = w THEN Append(ledger[w], e) ELSE ledger[v]
      BY <3>3
    <3>5. w \in Wallet
      BY <1>1
    <3> HIDE DEF M, w
    <3>6. ASSUME NEW k, NEW amount
          PROVE  /\ e.tx # k /\ NoRow(ledger, k) => NoRow(M, k)
                 /\ e.tx # k /\ OneRow(ledger, k, amount) => OneRow(M, k, amount)
                 /\ e.tx = k /\ NoRow(ledger, k) => OneRow(M, k, e.amount)
      BY <3>1, <3>2, <3>4, <3>5, AppendRows
    <3> QED
      BY <3>1, <3>6 DEF M
  <2>3. UNCHANGED ledger \/ \E e, next : Posts(l, e, next)
    BY <1>1, LeftoverPosts
  <2> QED
    BY <2>1, <2>2, <2>3
<1>4. ASSUME NEW k \in TxKey PROVE Posted(k)'
  <2>1. Posted(k)
    BY <1>1 DEF Postings
  <2>2. CASE k = l.ext
    <3>1. NoRow(ledger, k)
      BY <1>1, <2>1, <2>2 DEF Posted
    <3>2. NoRow(ledger', k) \/ OneRow(ledger', k, wager'[k].amount)
      BY <1>1, <1>2, <1>3, <2>2, <3>1
    <3>3. wager'[k] # None /\ wager'[k].status = "PENDING"
      BY <1>1, <1>2, <2>2
    <3> QED
      BY <3>2, <3>3 DEF Posted, Moves
  <2>3. CASE k # l.ext
    <3>1. wager'[k] = wager[k] /\ (wager[k] # None => wager[k].amount \in Amounts)
      BY <1>1, <2>3 DEF StoreTypeOK, WagerRow
    <3>2. NoRow(ledger, k) => NoRow(ledger', k)
      BY <1>3, <2>3, Numbers
    <3> QED
      BY <1>3, <2>1, <2>3, <3>1, <3>2 DEF Posted
  <2> QED
    BY <2>2, <2>3
<1>5. ASSUME NEW k \in TxKey, NEW a \in Agent PROVE PrivatePosted(a, k)'
  <2>1. PrivatePosted(a, k) /\ staged' = staged /\ entries' = entries
    BY <1>1 DEF Postings
  <2>2. CASE staged[a][k] = None
    BY <2>1, <2>2 DEF PrivatePosted
  <2>3. CASE staged[a][k] # None
    <3>1. k # l.ext /\ staged[a][k].amount \in Amounts
      BY <1>1, <2>3 DEF StoreTypeOK, WagerRow
    <3>2. NoRow(ledger, k) => NoRow(ledger', k)
      BY <1>3, <3>1
    <3> QED
      BY <1>3, <2>1, <2>3, <3>1, <3>2 DEF PrivatePosted
  <2> QED
    BY <2>2, <2>3
<1> QED
  BY <1>4, <1>5 DEF Postings

LEMMA LeaveBehindKeeps ==
    ASSUME RecoveryInv, NEW l \in Leftover, LeaveBehind(l)
    PROVE  RecoveryInv' /\ Kept /\ \A w \in Wallet : Grows(w)
<1>1. /\ StoreTypeOK /\ RowsInv /\ TypeInv /\ TypeOK /\ Flow
      /\ StoredAnswersHold /\ InboxMeansDone
  BY DEF RecoveryInv, SystemInv, ServiceInv, StoreInv, StoreBooks, TypeInv
<1>2. /\ l.ext \in ExtId /\ l.ext \in TxKey /\ holder[l.ext] = None /\ wager[l.ext] = None
      /\ wager'[l.ext] = LeftRow(l) /\ LeftRow(l) # None
      /\ \A a \in Agent : staged[a][l.ext] = None
      /\ \A k \in TxKey \ {l.ext} : wager'[k] = wager[k]
  BY LeftoverFields, LeftoverFacts
<1>3. /\ UNCHANGED <<idem, inbox, outbox, holder, work, entries, staged, events>>
      /\ UNCHANGED <<control, resolverControl, stale>>
  BY LeftoverFacts DEF session
<1>4. /\ StoreBooks' /\ RowsInv' /\ Postings' /\ Kept
      /\ \A w \in Wallet : Grows(w)
  BY LeftoverBooks, LeftoverRows, LeftoverPostings
<1>5. StoredAnswersHold'
  <2> SUFFICES ASSUME NEW key \in Key, idem[key] # None
               PROVE  LET j == idem[key].tx
                      IN  /\ wager'[j] # None /\ wager'[j].key = key
                          /\ wager'[j].status = idem[key].status /\ Terminal(wager'[j].status)
    BY <1>3 DEF StoredAnswersHold
  <2> DEFINE j == idem[key].tx
  <2>1. /\ wager[j] # None /\ wager[j].key = key /\ wager[j].status = idem[key].status
        /\ Terminal(wager[j].status)
    BY <1>1 DEF StoredAnswersHold
  <2>2. j \in TxKey
    BY <1>1 DEF StoreTypeOK, IdemRow, TxKey
  <2>3. wager'[j] = wager[j]
    BY <1>2, <2>1, <2>2
  <2> QED
    BY <2>1, <2>3
<1>6. InboxMeansDone'
  BY <1>1, <1>3, <1>4, InboxKept
<1>7. Flow'
  <2>1. MessageLocks'
    BY <1>1, <1>3 DEF Flow, MessageLocks, control
  <2>2. ASSUME NEW g \in Handler PROVE HandlerFlow(g)'
    <3> DEFINE c == call[g]
    <3>1. /\ HandlerControl(g) /\ HandlerFlow(g) /\ g \in Agent
          /\ pc'[g] = pc[g] /\ call'[g] = c /\ answer'[g] = answer[g]
      BY <1>1, <1>3, HandlersAreAgents DEF TypeInv, Control, Flow, control
    <3>2. ASSUME pc[g] \in AfterExecute PROVE wager'[c.ext] = None
      <4>1. c.ext \in TxKey /\ wager[c.ext] = None /\ staged[g][c.ext] # None
        BY <3>1, <3>2, CallFields DEF HandlerFlow, HandlerControl, AfterExecute
      <4> QED
        BY <1>2, <3>1, <4>1
    <3>3. pc[g] = "done" => Durable(g)'
      BY <1>1, <1>4, <3>1, DurableKept DEF HandlerControl, HandlerFlow
    <3> QED
      BY <1>3, <3>1, <3>2, <3>3 DEF HandlerFlow
  <2> QED
    BY <2>1, <2>2 DEF Flow
<1>8. TypeInv'
  <2>1. Control'
    BY <1>1, <1>3 DEF TypeInv, Control, HandlerControl, control
  <2> QED
    BY <1>1, <1>3, <1>4, <2>1 DEF TypeInv, TypeOK, StoreBooks, control
<1>9. ASSUME NEW a \in Worker PROVE Round(a)'
  <2>1. /\ rpc' = rpc /\ items' = items /\ current' = current /\ Round(a)
    BY <1>3 DEF resolverControl, RecoveryInv, SystemInv
  <2>2. \A k \in ExtId : wager[k] # None => wager'[k] = wager[k]
    BY <1>2 DEF TxKey
  <2> QED
    BY <1>1, <1>3, <2>1, <2>2, RoundKept DEF PendingReference, Exists
<1>10. RoundTypes'
  BY <1>3 DEF RecoveryInv, SystemInv, RoundTypes, resolverControl
<1>11. RecoveryTypes' /\ LeftoversMove'
  <2>1. LeftRow(l).kind \in {"BET", "WIN"}
    BY LeftoverFields DEF LeftRow
  <2>2. ASSUME NEW k \in ExtId, Pending(k)' PROVE wager'[k].kind \in {"BET", "WIN"}
    BY <1>2, <2>1, <2>2 DEF Pending, Exists, RecoveryInv, LeftoversMove, TxKey
  <2> QED
    BY <1>3, <2>2 DEF RecoveryInv, RecoveryTypes, LeftoversMove
<1>12. ASSUME NEW b \in Recoverer PROVE RecoveryRound(b)'
  <2>1. RecoveryRound(b) /\ stale[b] \subseteq ExtId
    BY RecoveryFacts
  <2>2. \A k \in stale[b] : Pending(k) => Pending(k)'
    BY <1>2, <2>1 DEF Pending, Exists, TxKey
  <2> QED
    BY <1>3, <2>1, <2>2 DEF RecoveryRound
<1> QED
  BY <1>4, <1>5, <1>6, <1>7, <1>8, <1>9, <1>10, <1>11, <1>12
     DEF RecoveryInv, SystemInv, ServiceInv, StoreInv

-----------------------------------------------------------------------------
(* The invariant of the recovery.                                          *)

LEMMA InitRecoveryInv == RecoveryInit => RecoveryInv
<1> SUFFICES ASSUME RecoveryInit PROVE RecoveryInv
  OBVIOUS
<1>1. SystemInv /\ SystemInit /\ stale = [b \in Recoverer |-> {}]
  BY InitSystemInv DEF RecoveryInit
<1>2. LeftoversMove
  BY <1>1 DEF SystemInit, ServiceInit, StoreInit, LeftoversMove, Pending, Exists, TxKey
<1> QED
  BY <1>1, <1>2 DEF RecoveryInv, RecoveryTypes, RecoveryRound

\* What the recovery adds survives the steps of everybody else.
LEMMA OthersLeaveRecoveries ==
    ASSUME RecoveryInv, [SystemNext]_systemVars, UNCHANGED stale
    PROVE  RecoveryInv' /\ Kept /\ \A w \in Wallet : Grows(w)
<1>1. /\ SystemInv /\ StoreTypeOK /\ StoreBooks /\ RowsInv
  BY DEF RecoveryInv, SystemInv, ServiceInv, StoreInv, StoreBooks
<1>2. /\ SystemInv' /\ Kept
      /\ \/ UNCHANGED storeVars
         \/ \E a \in Handler \cup Worker : StoreStep(a)
         \/ \E k \in ExtId : BackoffElapsed(k)
  BY <1>1, StepSystemInv
<1>3. RecoveryTypes'
  BY DEF RecoveryInv, RecoveryTypes
<1>4. CASE UNCHANGED storeVars
  <2>1. UNCHANGED <<wallet, wager, ledger, holder, staged>>
    BY <1>4 DEF storeVars, tables, session
  <2>2. LeftoversMove' /\ \A b \in Recoverer : RecoveryRound(b)'
    BY <2>1 DEF RecoveryInv, LeftoversMove, RecoveryRound, Pending, Exists
  <2> QED
    BY <1>1, <1>2, <1>3, <2>1, <2>2, LedgerStays DEF RecoveryInv
<1>5. ASSUME NEW a \in Handler \cup Worker, StoreStep(a)
      PROVE  RecoveryInv' /\ Kept /\ \A w \in Wallet : Grows(w)
  <2>1. a \in Agent
    BY SessionsAreAgents
  <2>2. LeftoversMove'
    BY <1>1, <1>5, <2>1, PendingIsOld DEF RecoveryInv, LeftoversMove
  <2>3. ASSUME NEW b \in Recoverer PROVE RecoveryRound(b)'
    BY <1>5, <2>1, RecoverersAreAgents, RecoveriesOfOthers
  <2>4. \A w \in Wallet : Grows(w)
    BY <1>1, <1>5, <2>1, LedgerGrows
  <2> QED
    BY <1>2, <1>3, <2>2, <2>3, <2>4 DEF RecoveryInv
<1>6. ASSUME NEW k \in ExtId, BackoffElapsed(k)
      PROVE  RecoveryInv' /\ Kept /\ \A w \in Wallet : Grows(w)
  <2>1. UNCHANGED <<wallet, ledger, holder, staged>>
    BY <1>6 DEF BackoffElapsed, session
  <2>2. \A j \in TxKey : /\ wager'[j] = None <=> wager[j] = None
                         /\ wager'[j].status = wager[j].status
                         /\ wager'[j].kind = wager[j].kind
    BY <1>1, <1>6, BackoffChanges
  <2>3. \A j \in ExtId : Pending(j)' <=> Pending(j)
    BY <2>2 DEF Pending, Exists, TxKey
  <2>4. LeftoversMove'
    BY <2>2, <2>3 DEF RecoveryInv, LeftoversMove, TxKey
  <2>5. ASSUME NEW b \in Recoverer PROVE RecoveryRound(b)'
    <3>1. RecoveryRound(b) /\ stale[b] \subseteq ExtId
      BY RecoveryFacts
    <3> QED
      BY <2>1, <2>3, <3>1 DEF RecoveryRound
  <2> QED
    BY <1>1, <1>2, <1>3, <2>1, <2>4, <2>5, LedgerStays DEF RecoveryInv
<1> QED
  BY <1>2, <1>4, <1>5, <1>6

LEMMA StepRecoveryInv ==
    ASSUME RecoveryInv, [RecoveryNext]_recoveryVars
    PROVE  RecoveryInv' /\ Kept /\ \A w \in Wallet : Grows(w)
<1>1. CASE SystemNext /\ UNCHANGED stale
  BY <1>1, OthersLeaveRecoveries
<1>2. CASE UNCHANGED recoveryVars
  BY <1>2, OthersLeaveRecoveries DEF recoveryVars
<1>3. ASSUME NEW b \in Recoverer, RecovererStep(b) \/ AbandonRecovery(b)
      PROVE  RecoveryInv' /\ Kept /\ \A w \in Wallet : Grows(w)
  <2>1. CASE RecoverItem(b)
    BY <2>1, RecoverItemKeeps
  <2>2. CASE SelectStale(b) \/ CommitRecovery(b) \/ AbandonRecovery(b)
    BY <2>2, SelectStaleOrderly, CommitRecoveryOrderly, AbandonRecoveryOrderly,
       RecoveryOrderlyKeeps
  <2> QED
    BY <1>3, <2>1, <2>2 DEF RecovererStep
<1>4. ASSUME NEW l \in Leftover, LeaveBehind(l)
      PROVE  RecoveryInv' /\ Kept /\ \A w \in Wallet : Grows(w)
  BY <1>4, LeaveBehindKeeps
<1> QED
  BY <1>1, <1>2, <1>3, <1>4 DEF RecoveryNext

LEMMA RecoveryInvHolds == RecoverySpec => []RecoveryInv
<1>1. RecoveryInv /\ [RecoveryNext]_recoveryVars => RecoveryInv'
  BY StepRecoveryInv
<1> QED
  BY <1>1, InitRecoveryInv, PTL DEF RecoverySpec

\* The ledger rows of a settled transaction, when the recovery may be what settled it.
LEMMA PostingsFollow == StoreInv => RecoveryFollowsTheLedger
<1> SUFFICES ASSUME StoreInv, NEW k \in TxKey, wager[k] # None, Terminal(wager[k].status)
             PROVE  LET rows == UNION {{w} \X RowsOf(w, k) : w \in Wallet}
                    IN  IF MovedMoney(k) THEN \E r \in rows : rows = {r} ELSE rows = {}
  BY DEF RecoveryFollowsTheLedger
<1> DEFINE rows == UNION {{w} \X RowsOf(w, k) : w \in Wallet}
<1>1. Posted(k) /\ wager[k].status # "PENDING"
  BY DEF StoreInv, Postings, Terminal
<1>2. CASE MovedMoney(k)
  <2>1. OneRow(ledger, k, wager[k].amount)
    BY <1>1, <1>2 DEF MovedMoney, Posted, Moves
  <2>2. PICK w \in Wallet : \E i \in 1..Len(ledger[w]) :
            /\ ledger[w][i].tx = k
            /\ \A v \in Wallet : \A j \in 1..Len(ledger[v]) :
                  ledger[v][j].tx = k => v = w /\ j = i
    BY <2>1 DEF OneRow
  <2>3. PICK i \in 1..Len(ledger[w]) :
            /\ ledger[w][i].tx = k
            /\ \A v \in Wallet : \A j \in 1..Len(ledger[v]) :
                  ledger[v][j].tx = k => v = w /\ j = i
    BY <2>2
  <2>4. <<w, i>> \in rows
    BY <2>3 DEF RowsOf
  <2>5. ASSUME NEW r \in rows PROVE r = <<w, i>>
    BY <2>3 DEF RowsOf
  <2>6. rows = {<<w, i>>}
    BY <2>4, <2>5
  <2> QED
    BY <1>2, <2>4, <2>6
<1>3. CASE ~MovedMoney(k)
  <2>1. NoRow(ledger, k)
    BY <1>1, <1>3 DEF MovedMoney, Posted, Moves
  <2> QED
    BY <1>3, <2>1 DEF NoRow, RowsOf
<1> QED
  BY <1>2, <1>3

\* The recovery never fails a transaction whose money has moved nor finishes one whose money
\* has not, whatever rows it finds, whoever works beside it and wherever it dies
\* (stale_tx_recovery_worker.go 126-148).
THEOREM RecoveryAlwaysFollowsTheLedger == RecoverySpec => []RecoveryFollowsTheLedger
<1>1. RecoveryInv => RecoveryFollowsTheLedger
  BY PostingsFollow DEF RecoveryInv, SystemInv, ServiceInv
<1> QED
  BY <1>1, RecoveryInvHolds, PTL

\* Rows somebody left half-way do not unbalance the books, nor does their recovery.
THEOREM RecoveryBooksBalance == RecoverySpec => []BooksBalance
<1>1. RecoveryInv => BooksBalance
  BY DEF RecoveryInv, SystemInv, ServiceInv, StoreInv, StoreBooks
<1> QED
  BY <1>1, RecoveryInvHolds, PTL

\* What a handler answered stays true when rounds and recoveries end other transactions
\* beside it (wager_service.go 253-462, stale_tx_recovery_worker.go 93-160).
THEOREM RecoveryAnswersAreDurable == RecoverySpec => []AnswersAreDurable
<1>1. RecoveryInv => AnswersAreDurable
  BY FlowMeansDurable DEF RecoveryInv, SystemInv
<1> QED
  BY <1>1, RecoveryInvHolds, PTL

\* The recovery ends only what is not settled: a transaction a handler or a round settled
\* stays as it is (wager_transaction.go 45-60).
THEOREM RecoverySettlementsAreFinal == RecoverySpec => SettledForGood
<1>1. RecoveryInv /\ [RecoveryNext]_recoveryVars => [RowsFollow]_vars
  BY StepRecoveryInv DEF Kept, Follows, RowsFollow
<1> QED
  BY <1>1, RecoveryInvHolds, PTL DEF RecoverySpec, SettledForGood, RowsFollow

\* Nobody, the recovery included, rewrites the ledger or a stored answer
\* (wallet_repo.go 114-140, ledger_repo.go 27-51, idempotency_repo.go 50-77).
THEOREM RecoveryHistoryIsKept == RecoverySpec => HistoryIsKept
<1>1. RecoveryInv => StoreTypeOK
  BY DEF RecoveryInv, SystemInv, ServiceInv, StoreInv, StoreBooks
<1>2. RecoveryInv /\ [RecoveryNext]_recoveryVars => [HistoryGrows]_vars
  BY <1>1, StepRecoveryInv, GrowthIsHistory
<1> QED
  BY <1>2, RecoveryInvHolds, PTL DEF RecoverySpec, HistoryIsKept, HistoryGrows
=============================================================================
