---------------------------- MODULE ReversalProofs ----------------------------
(***************************************************************************)
(* Refunds and rollbacks, for any number of handlers, rounds, wallets and  *)
(* transactions: of one kind at most one of a wallet reverses an original, *)
(* and it moves the money the other way than the original did.             *)
(*                                                                         *)
(* Two sessions may settle two reversals of one original at once, each     *)
(* blind to what the other has not committed.  What keeps them apart is    *)
(* Guarded: either the session holds the wallet of its reversal, or it     *)
(* inserts the original itself, and nobody else sees that one yet.         *)
(*                                                                         *)
(* Fits says what rows and ledgers look like together; it is shown of the  *)
(* tables and of what each session sees of them with its own rows on top.  *)
(* A commit turns the second into the first.                               *)
(***************************************************************************)
EXTENDS RoundProofs

\* A reversal that has been settled against its original.
Reverses(row) == row # None /\ row.resolved # None

\* The transaction rows as session a sees them.
View(a) == [k \in TxKey |-> Seen(a, k)]

\* The direction in which a processed row of T moved its wallet.
DirOf(T, k) ==
    IF T[k].resolved = None THEN DirectDirection(T[k])
    ELSE ResolutionDirection(T[k].kind, T[T[k].ref].kind)

\* A settled reversal names a processed original.
Grounded(T) ==
    \A k \in TxKey : Reverses(T[k]) =>
        /\ T[k].status = "PROCESSED" /\ RequiresReference(T[k].kind)
        /\ T[k].ref \in ExtId /\ T[k].resolved = T[k].ref
        /\ T[T[k].ref] # None /\ T[T[k].ref].status = "PROCESSED"

\* Settled reversals of one original, on one wallet, are of different kinds.
Distinct(T) ==
    \A j, k \in ExtId :
        /\ j # k /\ Reverses(T[j]) /\ Reverses(T[k])
        /\ T[k].resolved = T[j].resolved /\ T[k].wallet = T[j].wallet
        => T[j].kind # T[k].kind

\* Every ledger row is of a processed transaction, in its direction.
Directed(L, T) ==
    \A w \in Wallet : \A i \in 1..Len(L[w]) :
        LET k == L[w][i].tx
        IN  T[k] # None /\ T[k].status = "PROCESSED" /\ L[w][i].dir = DirOf(T, k)

Fits(L, T) == Grounded(T) /\ Distinct(T) /\ Directed(L, T)

\* A session that settles a reversal of a committed original holds the reversal's wallet.
Guarded(a) ==
    \A k \in TxKey : Reverses(staged[a][k]) /\ wager[staged[a][k].ref] # None
                        => holder[staged[a][k].wallet] = a

ReversalInv ==
    /\ Fits(ledger, wager)
    /\ \A a \in Agent : Fits(entries[a], View(a)) /\ Guarded(a)

\* A handler resolves reversals of the transaction it has just processed (Moment A).
Resolving(h) ==
    /\ pc[h] \in {"pending", "resolve"} => staged[h][call[h].ext].status = "PROCESSED"
    /\ pc[h] # "resolve" => todo[h] = {}
    /\ \A k \in todo[h] : wager[k] # None /\ wager[k].ref = call[h].ext

\* What a round saw processed stays so (Moment B).
Sighted(a) ==
    \A k \in ExtId : items[a][k] = "PROCESSED" =>
        LET original == wager[k].ref
        IN  Exists(original) /\ wager[original].status = "PROCESSED"

\* The inductive invariant, beside SystemInv.
ResolutionInv ==
    /\ ReversalInv
    /\ \A h \in Handler : Resolving(h)
    /\ \A a \in Worker : Sighted(a)

-----------------------------------------------------------------------------
(* Rows that change around a reversal.                                     *)

\* T2 comes after T: no row disappears or changes its kind, a processed one is final.
Extends(T, T2) ==
    \A k \in TxKey : T[k] # None =>
        /\ T2[k] # None /\ T2[k].kind = T[k].kind
        /\ T[k].status = "PROCESSED" => T2[k] = T[k]

LEMMA RowIsTyped ==
    ASSUME NEW L \in Ledgers, NEW w \in Wallet, NEW i \in 1..Len(L[w])
    PROVE  L[w] \in Seq(EntryRow) /\ L[w][i] \in EntryRow
<1>1. L[w] \in Seq(EntryRow)
  BY DEF Ledgers
<1> QED
  BY <1>1

\* Directions are final.
LEMMA DirectionStays ==
    ASSUME NEW L \in Ledgers, NEW T, NEW T2, Grounded(T), Directed(L, T), Extends(T, T2)
    PROVE  Directed(L, T2)
<1> SUFFICES ASSUME NEW w \in Wallet, NEW i \in 1..Len(L[w]), NEW k, k = L[w][i].tx
             PROVE  T2[k] # None /\ T2[k].status = "PROCESSED" /\ L[w][i].dir = DirOf(T2, k)
  BY DEF Directed
<1>1. k \in TxKey
  BY RowIsTyped DEF EntryRow
<1>2. T[k] # None /\ T[k].status = "PROCESSED" /\ L[w][i].dir = DirOf(T, k)
  BY DEF Directed
<1>3. T2[k] = T[k]
  BY <1>1, <1>2 DEF Extends
<1>4. CASE T[k].resolved = None
  BY <1>2, <1>3, <1>4 DEF DirOf
<1>5. CASE T[k].resolved # None
  <2>1. T[k].ref \in TxKey /\ T[T[k].ref] # None
    BY <1>1, <1>2, <1>5 DEF Grounded, Reverses, TxKey
  <2>2. T2[T[k].ref].kind = T[T[k].ref].kind
    BY <2>1 DEF Extends
  <2> QED
    BY <1>2, <1>3, <1>5, <2>2 DEF DirOf
<1> QED
  BY <1>4, <1>5

\* As long as no reversal is settled, all of it is final.
LEMMA FitsStays ==
    ASSUME NEW L \in Ledgers, NEW T, NEW T2, Fits(L, T), Extends(T, T2),
           \A k \in TxKey : Reverses(T2[k]) => T2[k] = T[k]
    PROVE  Fits(L, T2)
<1>1. Grounded(T2)
  <2> SUFFICES ASSUME NEW k \in TxKey, Reverses(T2[k])
               PROVE  /\ T2[k].status = "PROCESSED" /\ RequiresReference(T2[k].kind)
                      /\ T2[k].ref \in ExtId /\ T2[k].resolved = T2[k].ref
                      /\ T2[T2[k].ref] # None /\ T2[T2[k].ref].status = "PROCESSED"
    BY DEF Grounded
  <2>1. T2[k] = T[k]
    OBVIOUS
  <2>2. /\ T[k].status = "PROCESSED" /\ RequiresReference(T[k].kind)
        /\ T[k].ref \in ExtId /\ T[k].resolved = T[k].ref
        /\ T[T[k].ref] # None /\ T[T[k].ref].status = "PROCESSED"
    BY <2>1 DEF Fits, Grounded
  <2>3. T2[T[k].ref] = T[T[k].ref]
    BY <2>2 DEF Extends, TxKey
  <2> QED
    BY <2>1, <2>2, <2>3
<1>2. Distinct(T2)
  <2>1. \A k \in ExtId : Reverses(T2[k]) => T2[k] = T[k]
    BY DEF TxKey
  <2> QED
    BY <2>1 DEF Fits, Distinct
<1>3. Directed(L, T2)
  BY DirectionStays DEF Fits
<1> QED
  BY <1>1, <1>2, <1>3 DEF Fits

LEMMA KeptExtends ==
    ASSUME StoreTypeOK, StoreTypeOK', Kept
    PROVE  Extends(wager, wager')
<1> SUFFICES ASSUME NEW k \in TxKey, wager[k] # None
             PROVE  /\ wager'[k] # None /\ wager'[k].kind = wager[k].kind
                    /\ wager[k].status = "PROCESSED" => wager'[k] = wager[k]
  BY DEF Extends
<1>1. wager'[k] # None /\ Follows(wager[k], wager'[k])
  BY DEF Kept
<1>2. wager[k] \in WagerRow /\ wager'[k] \in WagerRow
  BY <1>1 DEF StoreTypeOK
<1> QED
  BY <1>1, <1>2, FollowsKeeps DEF Follows, Terminal

\* What a session sees with its own rows on top comes after the tables,
LEMMA ViewExtends ==
    ASSUME StoreTypeOK, Owned, NEW a \in Agent
    PROVE  Extends(wager, View(a))
<1> SUFFICES ASSUME NEW k \in TxKey, wager[k] # None
             PROVE  /\ Seen(a, k) # None /\ Seen(a, k).kind = wager[k].kind
                    /\ wager[k].status = "PROCESSED" => Seen(a, k) = wager[k]
  BY DEF Extends, View
<1>1. CASE staged[a][k] = None
  BY <1>1 DEF Seen
<1>2. CASE staged[a][k] # None
  <2>1. ~Terminal(wager[k].status) /\ Follows(wager[k], staged[a][k])
    BY <1>2 DEF Owned
  <2>2. wager[k] \in WagerRow /\ staged[a][k] \in WagerRow
    BY <1>2 DEF StoreTypeOK
  <2> QED
    BY <1>2, <2>1, <2>2, FollowsKeeps DEF Seen, Terminal
<1> QED
  BY <1>1, <1>2

\* and after what it saw before, when only others write.
LEMMA ViewStays ==
    ASSUME NEW a \in Agent, staged'[a] = staged[a], Extends(wager, wager')
    PROVE  Extends(View(a), View(a)')
BY DEF Extends, View, Seen

\* A session whose own rows stay sees the tables change under them: what it has done still
\* fits, unless the change settles a reversal that one of its own should have excluded.
LEMMA SessionFits ==
    ASSUME StoreTypeOK, StoreTypeOK', Owned', Kept, Grounded(wager)', Distinct(wager)',
           NEW b \in Agent, Fits(entries[b], View(b)), Guarded(b),
           staged'[b] = staged[b], entries'[b] = entries[b],
           \A r \in Resource : holder[r] = b => holder'[r] = b,
           \A k \in TxKey : staged[b][k] # None => wager'[k] = wager[k],
           \A j, k \in ExtId :
               /\ Reverses(wager'[k]) /\ wager'[k] # wager[k] /\ Reverses(staged[b][j])
               /\ wager'[k].resolved = staged[b][j].resolved
               => wager'[k].wallet # staged[b][j].wallet
    PROVE  (Fits(entries[b], View(b)) /\ Guarded(b))'
<1> DEFINE T == View(b)
<1>1. PICK T2 : T2 = View(b)'
  OBVIOUS
<1>2. /\ \A k \in TxKey : T[k] = Seen(b, k)
      /\ \A k \in TxKey : T2[k] = IF staged[b][k] # None THEN staged[b][k] ELSE wager'[k]
  BY <1>1 DEF View, Seen
<1>3. Extends(T, T2)
  BY <1>1, KeptExtends, ViewStays
<1>4. Grounded(T) /\ Distinct(T) /\ Directed(entries[b], T)
  BY DEF Fits
<1>5. \A k \in TxKey : staged[b][k] # None => T[k] = staged[b][k] /\ T2[k] = staged[b][k]
  BY <1>2 DEF Seen
<1>6. \A k \in TxKey : staged[b][k] = None => T[k] = wager[k] /\ T2[k] = wager'[k]
  BY <1>2 DEF Seen
<1> HIDE DEF T
<1>7. Grounded(T2)
  <2> SUFFICES ASSUME NEW k \in TxKey, Reverses(T2[k])
               PROVE  /\ T2[k].status = "PROCESSED" /\ RequiresReference(T2[k].kind)
                      /\ T2[k].ref \in ExtId /\ T2[k].resolved = T2[k].ref
                      /\ T2[T2[k].ref] # None /\ T2[T2[k].ref].status = "PROCESSED"
    BY DEF Grounded
  <2>1. CASE staged[b][k] # None
    <3>1. T2[k] = T[k]
      BY <1>5, <2>1
    <3>2. /\ T[k].status = "PROCESSED" /\ RequiresReference(T[k].kind)
          /\ T[k].ref \in ExtId /\ T[k].resolved = T[k].ref
          /\ T[T[k].ref] # None /\ T[T[k].ref].status = "PROCESSED"
      BY <1>4, <3>1 DEF Grounded
    <3>3. T2[T[k].ref] = T[T[k].ref]
      BY <1>3, <3>2 DEF Extends, TxKey
    <3> QED
      BY <3>1, <3>2, <3>3
  <2>2. CASE staged[b][k] = None
    <3>1. T2[k] = wager'[k]
      BY <1>6, <2>2
    <3>2. /\ wager'[k].status = "PROCESSED" /\ RequiresReference(wager'[k].kind)
          /\ wager'[k].ref \in ExtId /\ wager'[k].resolved = wager'[k].ref
          /\ wager'[wager'[k].ref] # None /\ wager'[wager'[k].ref].status = "PROCESSED"
      BY <3>1 DEF Grounded
    <3>3. wager'[k].ref \in TxKey
      BY <3>2 DEF TxKey
    <3>4. staged[b][wager'[k].ref] = None
      BY <3>2, <3>3 DEF Owned, Terminal
    <3>5. T2[wager'[k].ref] = wager'[wager'[k].ref]
      BY <1>6, <3>3, <3>4
    <3> QED
      BY <3>1, <3>2, <3>5
  <2> QED
    BY <2>1, <2>2
<1>8. ASSUME NEW j \in ExtId, NEW k \in ExtId, Reverses(T2[j]), Reverses(T2[k]),
             staged[b][j] # None, staged[b][k] = None,
             T2[k].resolved = T2[j].resolved, T2[k].wallet = T2[j].wallet
      PROVE  T2[j].kind # T2[k].kind
  <2>1. /\ j \in TxKey /\ k \in TxKey /\ j # k
        /\ T2[j] = staged[b][j] /\ T[j] = staged[b][j] /\ T2[k] = wager'[k] /\ T[k] = wager[k]
    BY <1>5, <1>6, <1>8 DEF TxKey
  <2>2. wager'[k] = wager[k]
    BY <1>8, <2>1
  <2> QED
    BY <1>4, <1>8, <2>1, <2>2 DEF Distinct
<1>9. Distinct(T2)
  <2> SUFFICES ASSUME NEW j \in ExtId, NEW k \in ExtId, j # k, Reverses(T2[j]), Reverses(T2[k]),
                      T2[k].resolved = T2[j].resolved, T2[k].wallet = T2[j].wallet
               PROVE  T2[j].kind # T2[k].kind
    BY DEF Distinct
  <2>0. j \in TxKey /\ k \in TxKey
    BY DEF TxKey
  <2>1. CASE staged[b][j] # None /\ staged[b][k] # None
    BY <1>4, <1>5, <2>0, <2>1 DEF Distinct
  <2>2. CASE staged[b][j] = None /\ staged[b][k] = None
    BY <1>6, <2>0, <2>2 DEF Distinct
  <2>3. CASE staged[b][j] # None /\ staged[b][k] = None
    BY <1>8, <2>3
  <2>4. CASE staged[b][j] = None /\ staged[b][k] # None
    BY <1>8, <2>4
  <2> QED
    BY <2>1, <2>2, <2>3, <2>4
<1>10. Directed(entries[b], T2)
  BY <1>3, <1>4, LedgerTypes, DirectionStays
<1>11. Fits(entries[b], View(b))'
  BY <1>1, <1>7, <1>9, <1>10 DEF Fits
<1>12. Guarded(b)'
  <2> SUFFICES ASSUME NEW k \in TxKey, Reverses(staged[b][k]), wager'[staged[b][k].ref] # None
               PROVE  holder'[staged[b][k].wallet] = b
    BY DEF Guarded
  <2> DEFINE original == staged[b][k].ref
  <2>1. T[k] = staged[b][k] /\ staged[b][k] \in WagerRow
    BY <1>5 DEF Reverses, StoreTypeOK
  <2>2. original \in ExtId /\ original \in TxKey /\ T[original] # None
    BY <1>4, <2>1 DEF Grounded, TxKey
  <2>3. wager[original] # None
    <3>1. CASE staged[b][original] = None
      BY <1>6, <2>2, <3>1
    <3>2. CASE staged[b][original] # None
      BY <2>2, <3>2
    <3> QED
      BY <3>1, <3>2
  <2>4. holder[staged[b][k].wallet] = b /\ staged[b][k].wallet \in Resource
    BY <2>1, <2>3, Resources DEF Guarded, WagerRow
  <2> QED
    BY <2>4
<1> QED
  BY <1>11, <1>12

\* A settled reversal that a session has not committed.
LEMMA StagedReversal ==
    ASSUME NEW a \in Agent, Grounded(View(a)), NEW k \in TxKey, Reverses(staged[a][k])
    PROVE  LET original == staged[a][k].ref
           IN  /\ staged[a][k].resolved = original /\ original \in ExtId /\ original \in TxKey
               /\ Seen(a, original) # None /\ Seen(a, original).status = "PROCESSED"
<1> DEFINE T == View(a)
<1>1. \A j \in TxKey : T[j] = Seen(a, j)
  BY DEF View
<1>2. T[k] = staged[a][k]
  BY <1>1 DEF Seen, Reverses
<1> HIDE DEF T
<1>3. /\ T[k].ref \in ExtId /\ T[k].resolved = T[k].ref
      /\ T[T[k].ref] # None /\ T[T[k].ref].status = "PROCESSED"
  BY <1>2 DEF T, Grounded
<1> QED
  BY <1>1, <1>2, <1>3 DEF TxKey

\* No two sessions settle reversals of one original on one wallet.
LEMMA SessionsExclude ==
    ASSUME Owned, NEW a \in Agent, NEW b \in Agent, a # b,
           Grounded(View(a)), Grounded(View(b)), Guarded(a), Guarded(b),
           NEW j \in TxKey, NEW k \in TxKey, Reverses(staged[a][k]), Reverses(staged[b][j]),
           staged[a][k].resolved = staged[b][j].resolved
    PROVE  staged[a][k].wallet # staged[b][j].wallet
<1> DEFINE original == staged[a][k].ref
<1>2. /\ original \in TxKey /\ staged[b][j].ref = original
      /\ Seen(a, original) # None /\ Seen(b, original) # None
  BY StagedReversal
<1>3. CASE wager[original] # None
  <2>1. holder[staged[a][k].wallet] = a /\ holder[staged[b][j].wallet] = b
    BY <1>2, <1>3 DEF Guarded
  <2> QED
    BY <2>1
<1>4. CASE wager[original] = None
  BY <1>2, <1>4 DEF Seen, Owned
<1> QED
  BY <1>3, <1>4

-----------------------------------------------------------------------------
(* The steps of a session.                                                 *)

LEMMA CommitFits ==
    ASSUME StoreTypeOK, Owned, NEW a \in Agent, NEW rows, Commit(a, rows),
           Fits(ledger, wager), Fits(entries[a], View(a))
    PROVE  Fits(ledger, wager)'
<1>1. PICK T : T = View(a)
  OBVIOUS
<1>2. wager' = T /\ \A w \in Wallet : ledger'[w] = ledger[w] \o entries[a][w]
  BY <1>1 DEF Commit, View
<1>3. Fits(entries[a], T)
  BY <1>1
<1>4. Directed(ledger, T)
  BY <1>1, ViewExtends, LedgerTypes, DirectionStays DEF Fits
<1>5. ASSUME NEW w \in Wallet, NEW i \in 1..Len(ledger'[w]), NEW k, k = ledger'[w][i].tx
      PROVE  T[k] # None /\ T[k].status = "PROCESSED" /\ ledger'[w][i].dir = DirOf(T, k)
  <2> DEFINE s == ledger[w]
             t == entries[a][w]
             m == ledger'[w]
  <2>1. s \in Seq(EntryRow) /\ t \in Seq(EntryRow) /\ m = s \o t
    BY <1>2 DEF StoreTypeOK
  <2>2. /\ \A j \in 1..Len(s) :
              LET x == s[j].tx
              IN  T[x] # None /\ T[x].status = "PROCESSED" /\ s[j].dir = DirOf(T, x)
        /\ \A j \in 1..Len(t) :
              LET x == t[j].tx
              IN  T[x] # None /\ T[x].status = "PROCESSED" /\ t[j].dir = DirOf(T, x)
    BY <1>3, <1>4 DEF Fits, Directed
  <2>3. i \in 1..Len(m) /\ k = m[i].tx
    BY <1>5
  <2> HIDE DEF s, t, m
  <2>4. /\ Len(m) = Len(s) + Len(t) /\ Len(s) \in Nat /\ Len(t) \in Nat
        /\ \A j \in 1..Len(s) : m[j] = s[j]
        /\ \A j \in (Len(s) + 1)..Len(m) : j - Len(s) \in 1..Len(t) /\ m[j] = t[j - Len(s)]
    BY <2>1, ConcatAt
  <2>5. i \in 1..Len(s) \/ i \in (Len(s) + 1)..Len(m)
    BY <2>3, <2>4
  <2>6. T[k] # None /\ T[k].status = "PROCESSED" /\ m[i].dir = DirOf(T, k)
    BY <2>2, <2>3, <2>4, <2>5
  <2> QED
    BY <2>6 DEF m
<1>6. Directed(ledger', T)
  BY <1>5 DEF Directed
<1> QED
  BY <1>2, <1>3, <1>6 DEF Fits

LEMMA OpensFits ==
    ASSUME StoreTypeOK, StoreTypeOK', OpenedFirst, Kept, NEW c \in Calls, Opens(c),
           Fits(ledger, wager)
    PROVE  Fits(ledger, wager)'
<1> DEFINE w == c.wallet
           e == OpeningEntry(c)
<1>1. /\ w \in Wallet /\ w \in TxKey /\ c.ext = w /\ c.amount \in Balances /\ c \in Calls
      /\ \A k \in TxKey : wager'[k] = wager[k] \/ (k = w /\ wager'[k] = OpeningRow(c))
  BY OpensWallet
<1>2. ~Reverses(OpeningRow(c))
  BY DEF Reverses, OpeningRow
<1>3. Extends(wager, wager')
  BY KeptExtends
<1>4. Fits(ledger, wager')
  BY <1>1, <1>2, <1>3, LedgerTypes, FitsStays
<1>5. CASE ledger' = ledger
  BY <1>4, <1>5
<1>6. CASE c.amount > 0
  <2> DEFINE s == ledger[w]
             m == Append(s, e)
  <2>1. /\ wager' = [wager EXCEPT ![w] = OpeningRow(c)]
        /\ ledger' = [ledger EXCEPT ![w] = Append(ledger[w], e)]
    BY <1>1, <1>6 DEF Opens
  <2>2. e \in EntryRow /\ OpeningRow(c) \in WagerRow
    BY <1>1, <1>6, OpeningTypes DEF Opens
  <2>3. wager'[w] = OpeningRow(c) /\ OpeningRow(c) # None
    BY <1>1, <2>1, <2>2, RowAssumption DEF StoreTypeOK
  <2>4. e.tx = w /\ wager'[w].status = "PROCESSED" /\ e.dir = DirOf(wager', w)
    BY <1>1, <2>3 DEF OpeningEntry, OpeningRow, DirOf, DirectDirection
  <2>5. s \in Seq(EntryRow) /\ ledger'[w] = m /\ \A v \in Wallet \ {w} : ledger'[v] = ledger[v]
    BY <1>1, <2>1 DEF StoreTypeOK
  <2> HIDE DEF e
  <2>6. /\ Len(m) = Len(s) + 1 /\ Len(s) \in Nat
        /\ \A i \in 1..Len(s) : m[i] = s[i]
        /\ m[Len(s) + 1] = e
    BY <2>2, <2>5, AppendAt
  <2>7. ASSUME NEW v \in Wallet, NEW i \in 1..Len(ledger'[v])
        PROVE  \/ i \in 1..Len(ledger[v]) /\ ledger'[v][i] = ledger[v][i]
               \/ ledger'[v][i] = e
    <3>1. CASE v # w
      BY <2>5, <3>1
    <3>2. CASE v = w
      <4> HIDE DEF m, s
      <4>1. i \in 1..Len(m) /\ ledger'[v] = m
        BY <2>5, <3>2
      <4>2. i \in 1..Len(s) \/ i = Len(s) + 1
        BY <2>6, <4>1
      <4>3. (i \in 1..Len(s) /\ m[i] = s[i]) \/ m[i] = e
        BY <2>6, <4>2
      <4> QED
        BY <3>2, <4>1, <4>3 DEF s
    <3> QED
      BY <3>1, <3>2
  <2>8. Directed(ledger', wager')
    BY <1>4, <2>3, <2>4, <2>7 DEF Fits, Directed
  <2> QED
    BY <1>4, <2>8 DEF Fits
<1> QED
  BY <1>5, <1>6 DEF Opens

\* Whatever a session does, the tables fit.
LEMMA TablesFit ==
    ASSUME StoreTypeOK, StoreTypeOK', RowsInv, Kept, NEW a \in Agent, StoreStep(a), ReversalInv
    PROVE  Fits(ledger, wager)'
<1>1. Owned /\ OpenedFirst /\ Fits(ledger, wager) /\ Fits(entries[a], View(a))
  BY DEF RowsInv, ReversalInv
<1>2. CASE UNCHANGED <<ledger, wager>>
  BY <1>1, <1>2
<1>3. ASSUME NEW rows, Commit(a, rows) PROVE Fits(ledger, wager)'
  BY <1>1, <1>3, CommitFits
<1>4. ASSUME NEW c \in Calls, Opens(c) PROVE Fits(ledger, wager)'
  BY <1>1, <1>4, OpensFits
<1> QED
  BY <1>2, <1>3, <1>4 DEF StoreStep, storeVars, tables, Rollback, Grabs, Settles

\* A session that ends sees the tables alone.
LEMMA EndFits ==
    ASSUME StoreTypeOK, StoreTypeOK', NEW a \in Agent, EndSession(a), Fits(ledger, wager)'
    PROVE  (Fits(entries[a], View(a)) /\ Guarded(a))'
<1>1. /\ \A k \in TxKey : staged'[a][k] = None
      /\ \A w \in Wallet : entries'[a][w] = <<>>
  BY EndApart
<1>2. PICK T : T = View(a)'
  OBVIOUS
<1>3. T = [k \in TxKey |-> wager'[k]]
  BY <1>1, <1>2 DEF View, Seen
<1>4. T = wager'
  BY <1>3 DEF StoreTypeOK
<1>5. Directed(entries'[a], T)
  BY <1>1 DEF Directed
<1>6. Fits(entries'[a], T)
  BY <1>4, <1>5 DEF Fits
<1>7. Guarded(a)'
  BY <1>1 DEF Guarded, Reverses
<1> QED
  BY <1>2, <1>6, <1>7

-----------------------------------------------------------------------------
(* Settling a row.                                                         *)

\* The direction in which session a moves a wallet for a row it settles.
OwnDirection(a, row) ==
    IF row.resolved = None THEN DirectDirection(row)
    ELSE ResolutionDirection(row.kind, Seen(a, row.ref).kind)

\* What the code has checked when session a settles a reversal against its original: that
\* one is processed, no reversal of this kind is, and a reversal of a committed original
\* has its own wallet locked.
Excludes(a, row) ==
    /\ row.status = "PROCESSED" /\ RequiresReference(row.kind)
    /\ row.ref \in ExtId /\ row.resolved = row.ref
    /\ Seen(a, row.ref) # None /\ Seen(a, row.ref).status = "PROCESSED"
    /\ wager[row.ref] # None => holder[row.wallet] = a
    /\ ~HasProcessedReversal(a, row.ref, row.kind)

\* The rows that session a adds to its ledger are all of transaction k, in its direction.
AddsFor(a, k, row) ==
    \A w \in Wallet : \A i \in 1..Len(entries'[a][w]) :
        \/ i \in 1..Len(entries[a][w]) /\ entries'[a][w][i] = entries[a][w][i]
        \/ /\ entries'[a][w][i].tx = k
           /\ row.status = "PROCESSED" /\ entries'[a][w][i].dir = OwnDirection(a, row)

\* A step of session a settles reversals only so.
Justified(a) ==
    \A k \in ExtId : staged[a][k] = None /\ staged'[a][k] # None =>
        /\ Reverses(staged'[a][k]) => Excludes(a, staged'[a][k])
        /\ AddsFor(a, k, staged'[a][k])

\* Steps that settle nothing.
LEMMA NothingSettled ==
    ASSUME NEW a \in Agent, \A k \in ExtId : staged'[a][k] # None => staged[a][k] # None
    PROVE  Justified(a)
BY DEF Justified

LEMMA SettlesFits ==
    ASSUME StoreTypeOK, StoreTypeOK', Owned, NEW a \in Agent, NEW k \in ExtId,
           NEW row \in WagerRow, Settles(a, k, row), Justified(a),
           Fits(entries[a], View(a)), Guarded(a)
    PROVE  (Fits(entries[a], View(a)) /\ Guarded(a))'
<1>1. /\ k \in TxKey /\ staged[a][k] = None /\ wager' = wager
      /\ staged'[a][k] = row /\ row # None
      /\ \A j \in TxKey \ {k} : staged'[a][j] = staged[a][j]
      /\ \A r \in Resource : holder[r] = a => holder'[r] = a
      /\ wager[k] # None => Parked(wager[k]) /\ Follows(wager[k], row)
  <2>1. /\ k \in TxKey /\ staged[a][k] = None /\ wager' = wager
        /\ wager[k] # None => Parked(wager[k]) /\ Follows(wager[k], row)
    BY DEF Settles, TxKey, tables
  <2> QED
    BY <2>1, SettlesApart
<1>2. /\ Reverses(row) => Excludes(a, row)
      /\ AddsFor(a, k, row)
  BY <1>1 DEF Justified
<1>3. PICK T : T = View(a)
  OBVIOUS
<1>4. PICK T2 : T2 = View(a)'
  OBVIOUS
<1>5. /\ \A j \in TxKey : T[j] = Seen(a, j)
      /\ T[k] = wager[k] /\ T2[k] = row
      /\ \A j \in TxKey \ {k} : T2[j] = T[j]
  BY <1>1, <1>3, <1>4 DEF View, Seen
<1>6. Grounded(T) /\ Distinct(T) /\ Directed(entries[a], T)
  BY <1>3 DEF Fits
<1>7. Extends(T, T2)
  <2>1. wager[k] # None => /\ wager[k] \in WagerRow /\ row.kind = wager[k].kind
                           /\ wager[k].status # "PROCESSED"
    BY <1>1, FollowsKeeps DEF StoreTypeOK, Parked
  <2>2. ASSUME NEW j \in TxKey, T[j] # None
        PROVE  /\ T2[j] # None /\ T2[j].kind = T[j].kind
               /\ T[j].status = "PROCESSED" => T2[j] = T[j]
    BY <1>1, <1>5, <2>1, <2>2
  <2> QED
    BY <2>2 DEF Extends
<1>8. ASSUME NEW j \in TxKey, T[j] # None, T[j].status = "PROCESSED" PROVE T2[j] = T[j]
  BY <1>7, <1>8 DEF Extends
<1>9. Grounded(T2)
  <2> SUFFICES ASSUME NEW j \in TxKey, Reverses(T2[j])
               PROVE  /\ T2[j].status = "PROCESSED" /\ RequiresReference(T2[j].kind)
                      /\ T2[j].ref \in ExtId /\ T2[j].resolved = T2[j].ref
                      /\ T2[T2[j].ref] # None /\ T2[T2[j].ref].status = "PROCESSED"
    BY DEF Grounded
  <2>1. /\ T2[j].status = "PROCESSED" /\ RequiresReference(T2[j].kind)
        /\ T2[j].ref \in ExtId /\ T2[j].resolved = T2[j].ref
        /\ T[T2[j].ref] # None /\ T[T2[j].ref].status = "PROCESSED"
    <3>1. CASE j = k
      BY <1>2, <1>5, <3>1 DEF Excludes, TxKey
    <3>2. CASE j # k
      BY <1>5, <1>6, <3>2 DEF Grounded
    <3> QED
      BY <3>1, <3>2
  <2>2. T2[T2[j].ref] = T[T2[j].ref]
    BY <1>8, <2>1 DEF TxKey
  <2> QED
    BY <2>1, <2>2
<1>10. ASSUME NEW j \in ExtId, j # k, Reverses(T2[j]), Reverses(row),
              T2[j].resolved = row.resolved
       PROVE  T2[j].kind # row.kind
  <2>1. j \in TxKey /\ T2[j] = T[j] /\ T[j] = Seen(a, j)
    BY <1>5, <1>10 DEF TxKey
  <2>2. Seen(a, j) # None /\ Seen(a, j).status = "PROCESSED" /\ Seen(a, j).resolved = row.ref
    BY <1>2, <1>6, <1>10, <2>1 DEF Grounded, Reverses, Excludes
  <2> QED
    BY <1>2, <1>10, <2>1, <2>2 DEF Excludes, HasProcessedReversal
<1>11. Distinct(T2)
  <2> SUFFICES ASSUME NEW i \in ExtId, NEW j \in ExtId, i # j, Reverses(T2[i]), Reverses(T2[j]),
                      T2[j].resolved = T2[i].resolved, T2[j].wallet = T2[i].wallet
               PROVE  T2[i].kind # T2[j].kind
    BY DEF Distinct
  <2>1. CASE i # k /\ j # k
    <3>1. T2[i] = T[i] /\ T2[j] = T[j]
      BY <1>5, <2>1 DEF TxKey
    <3> QED
      BY <1>6, <3>1 DEF Distinct
  <2>2. CASE i = k
    BY <1>5, <1>10, <2>2
  <2>3. CASE j = k
    BY <1>5, <1>10, <2>3
  <2> QED
    BY <2>1, <2>2, <2>3
<1>12. Directed(entries[a], T2)
  BY <1>6, <1>7, LedgerTypes, DirectionStays
<1>13. row.status = "PROCESSED" => DirOf(T2, k) = OwnDirection(a, row)
  <2>1. CASE row.resolved = None
    BY <1>5, <2>1 DEF DirOf, OwnDirection
  <2>2. CASE row.resolved # None
    <3>1. row.ref \in TxKey /\ T[row.ref] # None /\ T[row.ref] = Seen(a, row.ref)
      BY <1>1, <1>2, <1>5, <2>2 DEF Reverses, Excludes, TxKey
    <3>2. T2[row.ref].kind = Seen(a, row.ref).kind
      BY <1>7, <3>1 DEF Extends
    <3> QED
      BY <1>5, <2>2, <3>2 DEF DirOf, OwnDirection
  <2> QED
    BY <2>1, <2>2
<1>14. Directed(entries'[a], T2)
  <2> SUFFICES ASSUME NEW w \in Wallet, NEW i \in 1..Len(entries'[a][w]),
                      NEW x, x = entries'[a][w][i].tx
               PROVE  /\ T2[x] # None /\ T2[x].status = "PROCESSED"
                      /\ entries'[a][w][i].dir = DirOf(T2, x)
    BY DEF Directed
  <2>1. CASE i \in 1..Len(entries[a][w]) /\ entries'[a][w][i] = entries[a][w][i]
    BY <1>12, <2>1 DEF Directed
  <2>2. CASE x = k /\ row.status = "PROCESSED" /\ entries'[a][w][i].dir = OwnDirection(a, row)
    BY <1>1, <1>5, <1>13, <2>2
  <2> QED
    BY <1>2, <2>1, <2>2 DEF AddsFor
<1>15. Guarded(a)'
  <2> SUFFICES ASSUME NEW j \in TxKey, Reverses(staged'[a][j]),
                      wager'[staged'[a][j].ref] # None
               PROVE  holder'[staged'[a][j].wallet] = a
    BY DEF Guarded
  <2>1. CASE j = k
    BY <1>1, <1>2, <2>1, Resources DEF Excludes, WagerRow
  <2>2. CASE j # k
    <3>1. staged'[a][j] = staged[a][j] /\ staged[a][j] \in WagerRow
      BY <1>1, <2>2 DEF StoreTypeOK, Reverses
    <3> QED
      BY <1>1, <3>1, Resources DEF Guarded, WagerRow
  <2> QED
    BY <2>1, <2>2
<1>16. Fits(entries'[a], T2)
  BY <1>9, <1>11, <1>14 DEF Fits
<1> QED
  BY <1>4, <1>15, <1>16

\* The session that takes a step, when it writes nothing that others do not see at once.
LEMMA StillFits ==
    ASSUME StoreTypeOK, StoreTypeOK', RowsInv, RowsInv', Kept, NEW a \in Agent,
           \/ UNCHANGED storeVars
           \/ Grabs(a)
           \/ \E c \in Calls : Opens(c),
           Fits(ledger, wager)', Fits(entries[a], View(a)), Guarded(a)
    PROVE  (Fits(entries[a], View(a)) /\ Guarded(a))'
<1>1. Owned /\ Owned' /\ OpenedFirst
  BY DEF RowsInv
<1>2. UNCHANGED <<entries, staged>>
  BY DEF storeVars, session, Grabs, Opens
<1>3. \A r \in Resource : holder[r] = a => holder'[r] = a
  BY GrabsApart DEF storeVars, session, Opens
<1>4. ASSUME NEW k \in ExtId PROVE wager'[k] = wager[k]
  <2>1. k \in TxKey /\ k \notin Wallet
    BY StoreAssumption DEF TxKey
  <2>2. ASSUME NEW c \in Calls, Opens(c) PROVE wager'[k] = wager[k]
    BY <1>1, <2>1, <2>2, OpensWallet
  <2> QED
    BY <2>2 DEF storeVars, tables, Grabs
<1>5. \A k \in TxKey : staged[a][k] # None => wager'[k] = wager[k]
  BY <1>1, <1>4 DEF Owned
<1> QED
  BY <1>1, <1>2, <1>3, <1>4, <1>5, SessionFits DEF Fits

\* And the others.
LEMMA OthersFit ==
    ASSUME StoreTypeOK, StoreTypeOK', RowsInv, RowsInv', Kept, NEW a \in Agent, StoreStep(a),
           ReversalInv, Fits(ledger, wager)', NEW b \in Agent, b # a
    PROVE  (Fits(entries[b], View(b)) /\ Guarded(b))'
<1>1. /\ Owned /\ Owned' /\ OpenedFirst /\ Apart(a)
      /\ Fits(entries[a], View(a)) /\ Guarded(a) /\ Fits(entries[b], View(b)) /\ Guarded(b)
  BY StepApart DEF RowsInv, ReversalInv
<1>2. /\ staged'[b] = staged[b] /\ entries'[b] = entries[b]
      /\ \A r \in Resource : holder[r] = b => holder'[r] = b
  BY <1>1 DEF Apart
<1>3. ASSUME NEW k \in ExtId
      PROVE  /\ k \in TxKey
             /\ wager'[k] = wager[k] \/ (staged[a][k] # None /\ wager'[k] = staged[a][k])
  <2>1. k \in TxKey /\ k \notin Wallet
    BY StoreAssumption DEF TxKey
  <2>2. \A c \in Calls : k # c.wallet
    BY <2>1, CallFields
  <2> QED
    BY <1>1, <2>1, <2>2, RowChanges
<1>4. ASSUME NEW k \in TxKey, staged[b][k] # None PROVE wager'[k] = wager[k]
  <2>1. k \in ExtId /\ staged[a][k] = None
    BY <1>1, <1>4 DEF Owned
  <2> QED
    BY <1>3, <2>1
<1>5. ASSUME NEW j \in ExtId, NEW k \in ExtId,
             Reverses(wager'[k]), wager'[k] # wager[k], Reverses(staged[b][j]),
             wager'[k].resolved = staged[b][j].resolved
      PROVE  wager'[k].wallet # staged[b][j].wallet
  <2>1. j \in TxKey /\ k \in TxKey /\ wager'[k] = staged[a][k]
    BY <1>3, <1>5
  <2> QED
    BY <1>1, <1>5, <2>1, SessionsExclude DEF Fits
<1>6. \A j, k \in ExtId :
          /\ Reverses(wager'[k]) /\ wager'[k] # wager[k] /\ Reverses(staged[b][j])
          /\ wager'[k].resolved = staged[b][j].resolved
          => wager'[k].wallet # staged[b][j].wallet
  BY <1>5
<1> QED
  BY <1>1, <1>2, <1>4, <1>6, SessionFits DEF Fits

\* A step of any session, as long as it settles reversals only so.
LEMMA StepReversals ==
    ASSUME StoreTypeOK, StoreTypeOK', RowsInv, RowsInv', Kept, ReversalInv,
           NEW a \in Agent, StoreStep(a), Justified(a)
    PROVE  ReversalInv'
<1>1. Fits(ledger, wager)'
  BY TablesFit
<1>2. /\ Owned /\ Fits(entries[a], View(a)) /\ Guarded(a)
  BY DEF RowsInv, ReversalInv
<1>3. (Fits(entries[a], View(a)) /\ Guarded(a))'
  <2>1. CASE \/ UNCHANGED storeVars
             \/ Grabs(a)
             \/ \E c \in Calls : Opens(c)
    BY <1>1, <1>2, <2>1, StillFits
  <2>2. CASE EndSession(a)
    BY <1>1, <2>2, EndFits
  <2>3. ASSUME NEW k \in ExtId, NEW row \in WagerRow, Settles(a, k, row)
        PROVE  (Fits(entries[a], View(a)) /\ Guarded(a))'
    BY <1>2, <2>3, SettlesFits
  <2> QED
    BY <2>1, <2>2, <2>3 DEF StoreStep, Rollback, Commit
<1>4. \A b \in Agent : (Fits(entries[b], View(b)) /\ Guarded(b))'
  BY <1>1, <1>3, OthersFit
<1> QED
  BY <1>1, <1>4 DEF ReversalInv

\* A deferred row becomes due: it is no settled reversal, before or after.
LEMMA BackoffReversals ==
    ASSUME SystemInv, SystemInv', Kept, ReversalInv, NEW k \in ExtId, BackoffElapsed(k)
    PROVE  ReversalInv'
<1>1. /\ StoreTypeOK /\ StoreTypeOK' /\ Owned /\ Owned'
  BY DEF SystemInv, ServiceInv, StoreInv, StoreBooks, RowsInv
<1>2. /\ k \in TxKey /\ holder[k] = None /\ PendingReference(k)
      /\ \A j \in TxKey \ {k} : wager'[j] = wager[j]
      /\ UNCHANGED <<ledger, entries, staged, holder>>
  BY BackoffChanges DEF BackoffElapsed, session, TxKey
<1>3. wager'[k] # None /\ wager'[k].resolved = wager[k].resolved
  <2>1. wager' = [wager EXCEPT ![k] = [wager[k] EXCEPT !.deferred = FALSE]]
    BY DEF BackoffElapsed
  <2>2. wager[k] \in WagerRow /\ wager[k] # None
    BY <1>1, <1>2 DEF PendingReference, Exists, StoreTypeOK
  <2>3. wager'[k] = [wager[k] EXCEPT !.deferred = FALSE]
    BY <1>1, <1>2, <2>1 DEF StoreTypeOK
  <2>4. wager'[k] # None
    BY <2>2 DEF Kept, TxKey
  <2> QED
    BY <2>2, <2>3, <2>4 DEF WagerRow
<1>4. Fits(ledger, wager) /\ \A a \in Agent : Fits(entries[a], View(a)) /\ Guarded(a)
  BY DEF ReversalInv
<1>5. ~Reverses(wager'[k])
  <2>1. ~Reverses(wager[k])
    BY <1>2, <1>4 DEF Fits, Grounded, PendingReference
  <2> QED
    BY <1>2, <1>3, <2>1 DEF Reverses, PendingReference, Exists
<1>6. \A j \in TxKey : Reverses(wager'[j]) => wager'[j] = wager[j]
  BY <1>2, <1>5
<1>7. Fits(ledger, wager)'
  BY <1>1, <1>2, <1>4, <1>6, KeptExtends, LedgerTypes, FitsStays
<1>8. ASSUME NEW a \in Agent PROVE (Fits(entries[a], View(a)) /\ Guarded(a))'
  <2>1. staged[a][k] = None
    BY <1>1, <1>2, StoreAssumption DEF Owned
  <2>2. \A j \in TxKey : staged[a][j] # None => wager'[j] = wager[j]
    BY <1>2, <2>1
  <2>3. \A i, j \in ExtId :
            /\ Reverses(wager'[j]) /\ wager'[j] # wager[j] /\ Reverses(staged[a][i])
            /\ wager'[j].resolved = staged[a][i].resolved
            => wager'[j].wallet # staged[a][i].wallet
    BY <1>6 DEF TxKey
  <2>4. Grounded(wager)' /\ Distinct(wager)' /\ Fits(entries[a], View(a)) /\ Guarded(a)
    BY <1>4, <1>7 DEF Fits
  <2> QED
    BY <1>1, <1>2, <2>2, <2>3, <2>4, SessionFits
<1> QED
  BY <1>7, <1>8 DEF ReversalInv

-----------------------------------------------------------------------------
(* What the code checks before it settles a row.                           *)

LEMMA AddsNothing ==
    ASSUME UNCHANGED entries, NEW a, NEW k, NEW row
    PROVE  AddsFor(a, k, row)
BY DEF AddsFor

LEMMA AddsItsRow ==
    ASSUME StoreTypeOK, NEW a \in Agent, NEW w \in Wallet, NEW k \in TxKey,
           NEW dir \in Directions, NEW amount \in Amounts,
           Affordable(dir, work[a][w].balance, amount), Move(a, w, k, dir, amount),
           NEW row, row.status = "PROCESSED", dir = OwnDirection(a, row)
    PROVE  AddsFor(a, k, row)
<1> DEFINE e == NewEntry(a, w, k, dir, amount)
           s == entries[a][w]
           m == Append(s, e)
<1>1. e \in EntryRow /\ e.tx = k /\ e.dir = dir
  BY EntryType DEF Move, NewEntry
<1>2. /\ s \in Seq(EntryRow)
      /\ \A v \in Wallet : entries'[a][v] = IF v = w THEN m ELSE entries[a][v]
  BY DEF Move, StoreTypeOK
<1> HIDE DEF e
<1>3. /\ Len(m) = Len(s) + 1 /\ Len(s) \in Nat
      /\ \A i \in 1..Len(s) : m[i] = s[i]
      /\ m[Len(s) + 1] = e
  BY <1>1, <1>2, AppendAt
<1> HIDE DEF m
<1>4. \A i \in 1..Len(m) : (i \in 1..Len(s) /\ m[i] = s[i]) \/ m[i] = e
  <2> HIDE DEF s
  <2>1. \A i \in 1..Len(m) : i \in 1..Len(s) \/ i = Len(s) + 1
    BY <1>3
  <2> QED
    BY <1>3, <2>1
<1>5. ASSUME NEW v \in Wallet, NEW i \in 1..Len(entries'[a][v])
      PROVE  \/ i \in 1..Len(entries[a][v]) /\ entries'[a][v][i] = entries[a][v][i]
             \/ entries'[a][v][i] = e
  BY <1>2, <1>4
<1> QED
  BY <1>1, <1>5 DEF AddsFor

LEMMA StagedJustified ==
    ASSUME StoreTypeOK, NEW a \in Agent, NEW k \in ExtId, NEW row,
           staged' = [staged EXCEPT ![a][k] = row],
           Reverses(row) => Excludes(a, row), AddsFor(a, k, row)
    PROVE  Justified(a)
<1>1. k \in TxKey
  BY DEF TxKey
<1>2. staged'[a][k] = row /\ \A j \in TxKey \ {k} : staged'[a][j] = staged[a][j]
  <2>1. staged' = [staged EXCEPT ![a] = [staged[a] EXCEPT ![k] = row]]
    OBVIOUS
  <2> QED
    BY <1>1, <2>1 DEF StoreTypeOK
<1>3. ASSUME NEW j \in ExtId, staged[a][j] = None, staged'[a][j] # None PROVE j = k
  BY <1>2, <1>3 DEF TxKey
<1> QED
  BY <1>2, <1>3 DEF Justified

LEMMA RejectionJustified ==
    ASSUME StoreTypeOK, RowsInv, NEW a \in Agent, NEW k \in ExtId, PendingReference(k),
           staged[a][k] = None, NEW code \in FailureCodes, RejectPending(a, k, code)
    PROVE  Justified(a)
<1> DEFINE row == Resolved(wager[k], "REJECTED", code, None)
<1>1. row.resolved = None
  BY ParkedFacts DEF Resolved, WagerRow
<1>2. staged' = [staged EXCEPT ![a][k] = row] /\ UNCHANGED entries
  BY DEF RejectPending, Restage, Seen, Resolved, Announce
<1> HIDE DEF row
<1> QED
  BY <1>1, <1>2, AddsNothing, StagedJustified DEF Reverses

\* Either moment: the original is processed, and it is on the session's own account or the
\* session holds the wallet of the reversal (wager_service.go 785-937).
LEMMA ResolutionJustified ==
    ASSUME StoreTypeOK, RowsInv, NEW a \in Agent, NEW k \in ExtId, PendingReference(k),
           staged[a][k] = None, NEW w \in Wallet, NEW original \in ExtId,
           ResolveSinglePendingRef(a, w, k, original), wager[k].ref = original,
           Seen(a, original) # None, Seen(a, original).status = "PROCESSED",
           wager[original] # None => holder[wager[k].wallet] = a
    PROVE  Justified(a)
<1> DEFINE old == wager[k]
           dir == ResolutionDirection(Seen(a, k).kind, Seen(a, original).kind)
           row == Resolved(old, "PROCESSED", None, original)
<1>0. original # None
  BY StoreAssumption
<1>1. /\ k \in TxKey /\ old \in WagerRow /\ old.amount \in Amounts /\ Seen(a, k) = old
      /\ RequiresReference(old.kind)
  BY ParkedFacts DEF Seen, RequiresReference
<1>2. /\ row.status = "PROCESSED" /\ row.resolved = original /\ row.kind = old.kind
      /\ row.ref = old.ref /\ row.wallet = old.wallet
  BY <1>1 DEF Resolved, WagerRow
<1>3. dir \in Directions /\ dir = OwnDirection(a, row)
  BY <1>0, <1>1, <1>2 DEF ResolutionDirection, Directions, OwnDirection
<1>4. CASE \E code \in FailureCodes : RejectPending(a, k, code)
  BY <1>4, RejectionJustified
<1>5. CASE /\ ~HasProcessedReversal(a, original, old.kind)
           /\ Affordable(dir, work[a][w].balance, old.amount)
           /\ Restage(a, k, "PROCESSED", None, original)
           /\ Move(a, w, k, dir, old.amount)
  <2>1. staged' = [staged EXCEPT ![a][k] = row]
    BY <1>1, <1>5 DEF Restage, Resolved
  <2> HIDE DEF dir, row
  <2>2. AddsFor(a, k, row)
    BY <1>1, <1>2, <1>3, <1>5, AddsItsRow
  <2>3. Excludes(a, row)
    BY <1>1, <1>2, <1>5 DEF Excludes
  <2> QED
    BY <2>1, <2>2, <2>3, StagedJustified
<1>6. \/ RejectPending(a, k, "ORIGINAL_TRANSACTION_FAILED")
      \/ RejectPending(a, k, Reversed(old.kind))
      \/ RejectPending(a, k, "INSUFFICIENT_FUNDS_FOR_ROLLBACK")
      \/ /\ ~HasProcessedReversal(a, original, old.kind)
         /\ Affordable(dir, work[a][w].balance, old.amount)
         /\ Restage(a, k, "PROCESSED", None, original)
         /\ Move(a, w, k, dir, old.amount)
  BY <1>0, <1>1 DEF ResolveSinglePendingRef
<1> QED
  BY <1>4, <1>5, <1>6 DEF FailureCodes, Reversed

-----------------------------------------------------------------------------
(* The steps of a handler.                                                 *)

\* What a handler resolves stays so while others work.
LEMMA ResolvingStays ==
    ASSUME StoreTypeOK, StoreTypeOK', Kept, NEW g \in Handler, todo[g] \subseteq ExtId,
           pc'[g] = pc[g], call'[g] = call[g], todo'[g] = todo[g], staged'[g] = staged[g],
           Resolving(g)
    PROVE  Resolving(g)'
<1>1. ASSUME NEW k \in todo[g]
      PROVE  wager'[k] # None /\ wager'[k].ref = call[g].ext
  <2>1. k \in TxKey /\ wager[k] # None /\ wager[k].ref = call[g].ext
    BY DEF Resolving, TxKey
  <2>2. wager'[k] # None /\ Follows(wager[k], wager'[k])
    BY <2>1 DEF Kept
  <2> QED
    BY <2>1, <2>2, FollowsKeeps DEF StoreTypeOK
<1> QED
  BY <1>1 DEF Resolving

\* What a step of handler h must show here.
Reversing(h) ==
    /\ Justified(h) /\ Resolving(h)'
    /\ \A g \in Handler \ {h} : pc'[g] = pc[g] /\ call'[g] = call[g] /\ todo'[g] = todo[g]

\* A handler that is not resolving has nothing to do.
LEMMA NotResolving ==
    ASSUME NEW h, pc'[h] \notin {"pending", "resolve"}, todo'[h] = {}
    PROVE  Resolving(h)'
BY DEF Resolving

LEMMA EndJustified ==
    ASSUME StoreTypeOK, NEW a \in Agent, EndSession(a)
    PROVE  Justified(a)
BY EndApart, NothingSettled DEF TxKey

LEMMA ReturnReversing ==
    ASSUME ServiceInv, NEW h \in Handler, NEW result, Return(h, result), Justified(h)
    PROVE  Reversing(h)
<1>1. /\ pc'[h] = "done" /\ todo'[h] = {}
      /\ \A g \in Handler \ {h} : pc'[g] = pc[g] /\ call'[g] = call[g] /\ todo'[g] = todo[g]
  BY DEF ServiceInv, TypeInv, TypeOK, Return
<1> QED
  BY <1>1, NotResolving DEF Reversing

LEMMA FailReversing ==
    ASSUME ServiceInv, NEW h \in Handler, NEW result, Fail(h, result)
    PROVE  Reversing(h)
BY HandlerFacts, EndJustified, ReturnReversing DEF Fail, Rollback

LEMMA RetryReversing ==
    ASSUME ServiceInv, NEW h \in Handler, RetryOrGiveUp(h)
    PROVE  Reversing(h)
<1>1. Justified(h)
  BY HandlerFacts, EndJustified DEF RetryOrGiveUp, Rollback
<1>2. CASE attempt[h] < MaxConflictAttempts
  <2>1. /\ pc'[h] = FirstStep(call[h]) /\ todo'[h] = {}
        /\ \A g \in Handler \ {h} : pc'[g] = pc[g] /\ call'[g] = call[g] /\ todo'[g] = todo[g]
    BY <1>2 DEF RetryOrGiveUp, ServiceInv, TypeInv, TypeOK
  <2>2. pc'[h] \notin {"pending", "resolve"}
    BY <2>1 DEF FirstStep
  <2> QED
    BY <1>1, <2>1, <2>2, NotResolving DEF Reversing
<1>3. CASE ~(attempt[h] < MaxConflictAttempts)
  BY <1>1, <1>3, ReturnReversing DEF RetryOrGiveUp
<1> QED
  BY <1>2, <1>3

LEMMA GotoReversing ==
    ASSUME ServiceInv, NEW h \in Handler, Resolving(h), pc[h] # "resolve",
           NEW step, step # "resolve", Goto(h, step), UNCHANGED todo, Justified(h),
           step = "pending" => staged'[h][call[h].ext].status = "PROCESSED"
    PROVE  Reversing(h)
<1>1. /\ pc'[h] = step /\ call' = call /\ todo' = todo
      /\ \A g \in Handler \ {h} : pc'[g] = pc[g]
  BY DEF Goto, ServiceInv, TypeInv, TypeOK
<1>2. todo[h] = {}
  BY DEF Resolving
<1> QED
  BY <1>1, <1>2 DEF Resolving, Reversing

\* A handler that has nothing settled yet, or leaves it as it is.
LEMMA UntouchedJustified ==
    ASSUME NEW a \in Agent, UNCHANGED staged
    PROVE  Justified(a)
BY NothingSettled

LEMMA OpeningReversing ==
    ASSUME ServiceInv, NEW h \in Handler, Resolving(h), CheckWallet(h) \/ InsertWallet(h)
    PROVE  Reversing(h)
<1>1. h \in Agent /\ pc[h] # "resolve"
  BY HandlerFacts DEF CheckWallet, InsertWallet
<1>2. CASE Goto(h, "insert") /\ UNCHANGED <<storeVars, todo>>
  BY <1>1, <1>2, UntouchedJustified, GotoReversing DEF storeVars, session
<1>3. CASE Return(h, "opened") /\ UNCHANGED session
  BY <1>1, <1>3, UntouchedJustified, ReturnReversing DEF session
<1> QED
  BY <1>2, <1>3, FailReversing DEF CheckWallet, InsertWallet

LEMMA ClaimReversing ==
    ASSUME ServiceInv, NEW h \in Handler, Resolving(h),
           ClaimInbox(h) \/ CheckIdempotency(h) \/ LockWallet(h)
    PROVE  Reversing(h)
<1>1. h \in Agent /\ pc[h] # "resolve" /\ StoreTypeOK
  BY HandlerFacts DEF ClaimInbox, CheckIdempotency, LockWallet
<1>2. ASSUME NEW step \in {"idem", "lock", "execute"}, Goto(h, step), UNCHANGED <<staged, todo>>
      PROVE  Reversing(h)
  BY <1>1, <1>2, UntouchedJustified, GotoReversing
<1>3. CASE Return(h, "replay") /\ Commit(h, idem)
  BY <1>1, <1>3, EndJustified, ReturnReversing DEF Commit
<1> QED
  BY <1>2, <1>3, FailReversing
     DEF ClaimInbox, CheckIdempotency, LockWallet, storeVars, session

\* The row of the call itself settles no reversal: a parked or rejected one is none, and a
\* processed one has not been settled against an original.
LEMMA NewRowReversing ==
    ASSUME ServiceInv, NEW h \in Handler, Resolving(h), pc[h] = "execute",
           Park(h) \/ Reject(h) \/ Process(h), UNCHANGED todo
    PROVE  Reversing(h)
<1> DEFINE c == call[h]
           k == call[h].ext
<1>1. /\ h \in Agent /\ StoreTypeOK /\ c \in Calls /\ k \in ExtId /\ k \in TxKey
      /\ c.wallet \in Wallet /\ c.amount \in Amounts
  BY HandlerFacts, CallFields DEF Wagering, TxKey
<1>2. ASSUME NEW status, NEW code, NEW step, step # "resolve",
             StageNew(h, NewRow(c, status, code)), Goto(h, step),
             step = "pending" => status = "PROCESSED",
             \A row : row = NewRow(c, status, code) => AddsFor(h, k, row)
      PROVE  Reversing(h)
  <2>1. PICK row : row = NewRow(c, status, code)
    OBVIOUS
  <2>2. row.resolved = None /\ row.status = status
    BY <2>1 DEF NewRow
  <2>3. staged' = [staged EXCEPT ![h][k] = row] /\ AddsFor(h, k, row)
    BY <1>2, <2>1 DEF StageNew
  <2>4. Justified(h)
    BY <1>1, <2>2, <2>3, StagedJustified DEF Reverses
  <2>5. staged'[h][k] = row
    BY <1>1, <2>3 DEF StoreTypeOK
  <2> QED
    BY <1>2, <2>2, <2>4, <2>5, GotoReversing
<1>3. CASE Park(h)
  BY <1>2, <1>3, AddsNothing DEF Park, Announce
<1>4. CASE Reject(h)
  BY <1>2, <1>4, AddsNothing DEF Reject, Announce
<1>5. CASE Process(h)
  <2> DEFINE dir == DirectDirection(c)
  <2>1. dir \in Directions
    BY DEF DirectDirection, Directions
  <2>2. ASSUME NEW row, row = NewRow(c, "PROCESSED", None)
        PROVE  AddsFor(h, k, row)
    <3>1. row.status = "PROCESSED" /\ dir = OwnDirection(h, row)
      BY <2>2 DEF NewRow, OwnDirection, DirectDirection
    <3>2. CASE c.kind = "LOSS"
      BY <1>5, <3>2, AddsNothing DEF Process, Announce
    <3>3. CASE c.kind # "LOSS"
      <4>1. /\ Affordable(dir, work[h][c.wallet].balance, c.amount)
            /\ Move(h, c.wallet, k, dir, c.amount)
        BY <1>5, <3>3 DEF Process
      <4> HIDE DEF dir
      <4> QED
        BY <1>1, <2>1, <3>1, <4>1, AddsItsRow
    <3> QED
      BY <3>2, <3>3
  <2>3. PICK step : Goto(h, step) /\ step \in {"pending", "commit"}
    BY <1>5 DEF Process
  <2>4. StageNew(h, NewRow(c, "PROCESSED", None))
    BY <1>5 DEF Process
  <2> QED
    BY <1>2, <2>2, <2>3, <2>4
<1> QED
  BY <1>3, <1>4, <1>5

LEMMA ExecuteReversing ==
    ASSUME ServiceInv, NEW h \in Handler, Resolving(h), Execute(h)
    PROVE  Reversing(h)
<1>1. CASE Fail(h, "error") \/ RetryOrGiveUp(h)
  BY <1>1, FailReversing, RetryReversing
<1>2. CASE (Park(h) \/ Reject(h) \/ Process(h)) /\ UNCHANGED todo
  BY <1>2, NewRowReversing DEF Execute
<1> QED
  BY <1>1, <1>2 DEF Execute

LEMMA QueryPendingReversing ==
    ASSUME ServiceInv, NEW h \in Handler, Resolving(h), QueryPending(h)
    PROVE  Reversing(h)
<1> DEFINE rows == PendingOf(call[h].ext)
<1>1. /\ h \in Agent /\ pc[h] = "pending" /\ UNCHANGED <<wager, staged>>
      /\ todo' = [todo EXCEPT ![h] = rows]
      /\ Goto(h, IF rows = {} THEN "commit" ELSE "resolve")
  BY HandlerFacts DEF QueryPending, storeVars, tables, session
<1>2. \A k \in rows : wager[k] # None /\ wager[k].ref = call[h].ext
  BY DEF PendingOf, PendingReference, Exists
<1> HIDE DEF rows
<1>3. /\ todo'[h] = rows /\ call' = call
      /\ pc'[h] = (IF rows = {} THEN "commit" ELSE "resolve")
      /\ \A g \in Handler \ {h} : pc'[g] = pc[g] /\ todo'[g] = todo[g]
  BY <1>1 DEF Goto, ServiceInv, TypeInv, TypeOK
<1>4. staged[h][call[h].ext].status = "PROCESSED"
  BY <1>1 DEF Resolving
<1>5. Resolving(h)'
  BY <1>1, <1>2, <1>3, <1>4 DEF Resolving
<1> QED
  BY <1>1, <1>3, <1>5, UntouchedJustified DEF Reversing

LEMMA ResolvePendingReversing ==
    ASSUME ServiceInv, NEW h \in Handler, Resolving(h), ResolvePending(h)
    PROVE  Reversing(h)
<1> DEFINE c == call[h]
<1>1. /\ pc[h] = "resolve" /\ pc[h] \in AfterExecute /\ h \in Agent /\ StoreTypeOK
      /\ RowsInv /\ Owned /\ todo[h] \subseteq ExtId
  BY HandlerFacts DEF ResolvePending, AfterExecute, RowsInv, ServiceInv, TypeInv, TypeOK
<1>2. PICK k \in todo[h] : holder[k] = None /\ (Fail(h, "error") \/ ResolveRow(h, k))
  BY DEF ResolvePending
<1>3. CASE Fail(h, "error")
  BY <1>3, FailReversing
<1>4. CASE ResolveRow(h, k)
  <2>1. /\ k \in ExtId /\ k \in TxKey /\ staged[h][k] = None /\ wager[k].ref = c.ext
        /\ c.ext \in ExtId /\ c.ext \in TxKey /\ c.wallet \in Wallet
        /\ wager[c.ext] = None /\ staged[h][c.ext] # None
        /\ staged[h][c.ext].status = "PROCESSED" /\ c.ext # k
    <3>1. k \in ExtId /\ k \in TxKey /\ staged[h][k] = None
      BY <1>1, <1>2, HandlersAreAgents, StoreAssumption DEF Owned, TxKey
    <3>2. /\ c.ext \in ExtId /\ c.ext \in TxKey /\ c.wallet \in Wallet
          /\ wager[c.ext] = None /\ staged[h][c.ext] # None
      BY <1>1, ExecutedFacts
    <3> QED
      BY <1>1, <1>2, <3>1, <3>2 DEF Resolving
  <2>2. wager' = wager /\ staged'[h][c.ext] = staged[h][c.ext] /\ Justified(h)
    <3>1. CASE ~PendingReference(k)
      BY <1>1, <1>4, <3>1, UntouchedJustified DEF ResolveRow, storeVars, tables, session
    <3>2. CASE PendingReference(k)
      <4>1. ResolveSinglePendingRef(h, c.wallet, k, c.ext) /\ UNCHANGED tables
        BY <1>4, <3>2 DEF ResolveRow
      <4>2. Seen(h, c.ext) # None /\ Seen(h, c.ext).status = "PROCESSED"
        BY <2>1 DEF Seen
      <4>3. Justified(h)
        BY <1>1, <2>1, <3>2, <4>1, <4>2, ResolutionJustified
      <4>4. PICK row : staged' = [staged EXCEPT ![h][k] = row]
        <5>1. \/ \E code : RejectPending(h, k, code)
              \/ Restage(h, k, "PROCESSED", None, c.ext)
          BY <4>1 DEF ResolveSinglePendingRef
        <5> QED
          BY <5>1 DEF RejectPending, Restage
      <4>5. staged'[h][c.ext] = staged[h][c.ext]
        BY <1>1, <2>1, <4>4, StagedRow
      <4> QED
        BY <4>1, <4>3, <4>5 DEF tables
    <3> QED
      BY <3>1, <3>2
  <2>3. /\ todo' = [todo EXCEPT ![h] = todo[h] \ {k}]
        /\ Goto(h, IF todo[h] = {k} THEN "commit" ELSE "resolve")
    BY <1>4 DEF ResolveRow
  <2>4. /\ todo'[h] = todo[h] \ {k} /\ call' = call
        /\ pc'[h] = (IF todo[h] = {k} THEN "commit" ELSE "resolve")
        /\ \A g \in Handler \ {h} : pc'[g] = pc[g] /\ todo'[g] = todo[g]
    BY <2>3 DEF Goto, ServiceInv, TypeInv, TypeOK
  <2>5. \A j \in todo[h] : wager[j] # None /\ wager[j].ref = c.ext
    BY DEF Resolving
  <2>6. Resolving(h)'
    BY <2>1, <2>2, <2>4, <2>5 DEF Resolving
  <2> QED
    BY <2>2, <2>4, <2>6 DEF Reversing
<1> QED
  BY <1>2, <1>3, <1>4

LEMMA EndReversing ==
    ASSUME ServiceInv, NEW h \in Handler, Resolving(h),
           CommitWager(h) \/ Finish(h) \/ Receive(h) \/ Abandon(h)
    PROVE  Reversing(h)
<1>1. h \in Agent /\ StoreTypeOK
  BY HandlerFacts
<1>2. CASE CommitWager(h)
  <2>1. ASSUME NEW result, Return(h, result), Commit(h, Remember(h)) PROVE Reversing(h)
    BY <1>1, <2>1, EndJustified, ReturnReversing DEF Commit
  <2> QED
    BY <1>2, <2>1, RetryReversing DEF CommitWager
<1>3. CASE Finish(h) \/ Abandon(h)
  <2>1. Justified(h)
    BY <1>1, <1>3, EndJustified, UntouchedJustified
       DEF Finish, Abandon, Rollback, storeVars, session
  <2>2. /\ pc'[h] = "idle" /\ todo'[h] = {}
        /\ \A g \in Handler \ {h} : pc'[g] = pc[g] /\ call'[g] = call[g] /\ todo'[g] = todo[g]
    BY <1>3 DEF Finish, Abandon, Forget, ServiceInv, TypeInv, TypeOK
  <2> QED
    BY <2>1, <2>2, NotResolving DEF Reversing
<1>4. CASE Receive(h)
  <2>1. Justified(h) /\ pc[h] = "idle" /\ todo' = todo
    BY <1>1, <1>4, UntouchedJustified DEF Receive, storeVars, session
  <2>2. /\ pc'[h] \notin {"pending", "resolve"}
        /\ \A g \in Handler \ {h} : pc'[g] = pc[g] /\ call'[g] = call[g]
    BY <1>4 DEF Receive, FirstStep, ServiceInv, TypeInv, TypeOK
  <2>3. todo'[h] = {}
    BY <2>1 DEF Resolving
  <2> QED
    BY <2>1, <2>2, <2>3, NotResolving DEF Reversing
<1> QED
  BY <1>2, <1>3, <1>4

LEMMA HandlerReversing ==
    ASSUME ServiceInv, NEW h \in Handler, Resolving(h),
           Receive(h) \/ HandlerStep(h) \/ Abandon(h)
    PROVE  Reversing(h)
BY OpeningReversing, ClaimReversing, ExecuteReversing, QueryPendingReversing,
   ResolvePendingReversing, EndReversing DEF HandlerStep

-----------------------------------------------------------------------------
(* The steps of a round.                                                   *)

\* The original a round saw processed still is, under whatever step.
LEMMA SightedStays ==
    ASSUME SystemInv, SystemInv', Kept, NEW a \in Worker, Sighted(a),
           \A k \in ExtId : items'[a][k] = "PROCESSED" => items[a][k] = "PROCESSED"
    PROVE  Sighted(a)'
<1> SUFFICES ASSUME NEW k \in ExtId, items'[a][k] = "PROCESSED"
             PROVE  /\ wager'[k].ref # None /\ wager'[wager'[k].ref] # None
                    /\ wager'[wager'[k].ref].status = "PROCESSED"
  BY DEF Sighted, Exists
<1> DEFINE original == wager[k].ref
<1>1. items[a][k] = "PROCESSED" /\ items[a][k] # None
  BY ResolverAssumption DEF Statuses
<1>2. Exists(original) /\ wager[original].status = "PROCESSED"
  BY <1>1 DEF Sighted
<1>3. PendingReference(k) /\ wager[k] \in WagerRow /\ original \in ExtId \cup {None}
  BY <1>1, ItemFacts
<1>4. k \in TxKey /\ original \in TxKey /\ wager[k] # None
  BY <1>2, <1>3 DEF Exists, PendingReference, TxKey
<1>5. StoreTypeOK /\ StoreTypeOK'
  BY DEF SystemInv, ServiceInv, StoreInv, StoreBooks
<1>6. wager'[k].ref = original
  <2>1. wager'[k] # None /\ Follows(wager[k], wager'[k])
    BY <1>4 DEF Kept
  <2> QED
    BY <1>3, <1>4, <1>5, <2>1, FollowsKeeps DEF StoreTypeOK
<1>7. wager'[original] = wager[original]
  BY <1>2, <1>4, <1>5, SettledStays DEF Exists, Terminal
<1> QED
  BY <1>2, <1>6, <1>7 DEF Exists

\* What a step of round a must show here.
Watching(a) ==
    /\ Justified(a)
    /\ Sighted(a)' \/ \A k \in ExtId : items'[a][k] = "PROCESSED" => items[a][k] = "PROCESSED"

LEMMA SelectionWatching ==
    ASSUME SystemInv, NEW a \in Worker, SelectResolvable(a) \/ SelectExpired(a)
    PROVE  Watching(a)
<1>1. a \in Agent /\ RoundTypes /\ UNCHANGED <<staged, tables>>
  BY RoundFacts DEF SelectResolvable, SelectExpired
<1>2. CASE SelectResolvable(a)
  <2>1. ASSUME NEW k \in ExtId, items'[a][k] = "PROCESSED"
        PROVE  Exists(wager[k].ref) /\ wager[wager[k].ref].status = "PROCESSED"
    <3>1. items'[a][k] = IF k \in Resolvable(a) THEN wager[wager[k].ref].status ELSE None
      BY <1>1, <1>2 DEF SelectResolvable, RoundTypes
    <3>2. k \in Resolvable(a)
      BY <2>1, <3>1, ResolverAssumption DEF Statuses
    <3> QED
      BY <2>1, <3>1, <3>2 DEF Resolvable
  <2>2. wager' = wager
    BY <1>1 DEF tables
  <2>3. Sighted(a)'
    BY <2>1, <2>2 DEF Sighted, Exists
  <2> QED
    BY <1>1, <2>3, UntouchedJustified DEF Watching
<1>3. CASE SelectExpired(a)
  <2>1. \A k \in ExtId : items'[a][k] = IF k \in Expired(a) THEN "unknown" ELSE items[a][k]
    BY <1>1, <1>3 DEF SelectExpired, RoundTypes
  <2> QED
    BY <1>1, <2>1, UntouchedJustified DEF Watching
<1> QED
  BY <1>2, <1>3

LEMMA DoneWatching ==
    ASSUME SystemInv, NEW a \in Worker, NEW k \in ExtId, Done(a, k), Justified(a)
    PROVE  Watching(a)
<1>1. items'[a][k] = None /\ \A j \in ExtId \ {k} : items'[a][j] = items[a][j]
  BY RoundFacts, DoneItem
<1> QED
  BY <1>1, ResolverAssumption DEF Watching, Statuses

LEMMA EndWatching ==
    ASSUME SystemInv, NEW a \in Worker, EndRound(a), EndSession(a)
    PROVE  Watching(a)
<1>1. a \in Agent /\ StoreTypeOK /\ RoundTypes
  BY RoundFacts
<1>2. \A k \in ExtId : items'[a][k] = None
  BY <1>1 DEF EndRound, RoundTypes, NoItems
<1> QED
  BY <1>1, <1>2, EndJustified, ResolverAssumption DEF Watching, Statuses

LEMMA RejectItemWatching ==
    ASSUME SystemInv, NEW a \in Worker, RejectItem(a)
    PROVE  Watching(a)
<1>1. PICK k \in ExtId :
          /\ items[a][k] \in {"unknown", "REJECTED", "FAILED"}
          /\ ResolveSinglePendingRef(a, wager[k].wallet, k,
                IF items[a][k] = "unknown" THEN None ELSE wager[k].ref)
          /\ Done(a, k)
  BY DEF RejectItem
<1>2. items[a][k] # None /\ a \in Agent /\ StoreTypeOK /\ RowsInv
  BY <1>1, ResolverAssumption, RoundFacts DEF Statuses
<1>3. PendingReference(k) /\ staged[a][k] = None
  BY <1>2, ItemFacts
<1>4. PICK code \in FailureCodes : RejectPending(a, k, code)
  BY <1>1, RefusedIsRejected
<1>5. Justified(a)
  BY <1>2, <1>3, <1>4, RejectionJustified
<1> QED
  BY <1>1, <1>5, DoneWatching

LEMMA DeferItemWatching ==
    ASSUME SystemInv, Grounded(wager), NEW a \in Worker, DeferItem(a)
    PROVE  Watching(a)
<1>1. PICK k \in ExtId :
          /\ items[a][k] \in {"PENDING", "PENDING_REFERENCE"}
          /\ staged' = [staged EXCEPT ![a][k] = Deferred(wager[k])]
          /\ Done(a, k)
  BY DEF DeferItem, Deferred
<1>2. items[a][k] # None /\ a \in Agent /\ StoreTypeOK /\ k \in TxKey /\ UNCHANGED entries
  BY <1>1, ResolverAssumption, RoundFacts DEF Statuses, DeferItem, TxKey
<1>3. PendingReference(k) /\ wager[k] \in WagerRow
  BY <1>2, ItemFacts
<1>4. wager[k].resolved = None
  BY <1>2, <1>3 DEF Grounded, Reverses, PendingReference, Exists
<1> DEFINE row == Deferred(wager[k])
<1>5. row.resolved = None
  BY <1>3, <1>4 DEF Deferred, WagerRow
<1>6. staged' = [staged EXCEPT ![a][k] = row]
  BY <1>1
<1> HIDE DEF row
<1>7. Justified(a)
  BY <1>2, <1>5, <1>6, AddsNothing, StagedJustified DEF Reverses
<1> QED
  BY <1>1, <1>7, DoneWatching

LEMMA ApplyItemWatching ==
    ASSUME SystemInv, NEW a \in Worker, Sighted(a), ApplyItem(a)
    PROVE  Watching(a)
<1> DEFINE k == current[a]
           w == wager[k].wallet
           original == wager[k].ref
<1>1. a \in Agent /\ StoreTypeOK /\ RowsInv /\ Owned /\ Round(a)
  BY RoundFacts
<1>2. /\ rpc[a] = "apply" /\ k \in ExtId /\ items[a][k] # None /\ holder[w] = a
      /\ items[a][k] = "PROCESSED"
  BY <1>1, CurrentFacts DEF ApplyItem, Round
<1>3. /\ PendingReference(k) /\ staged[a][k] = None
      /\ w \in Wallet /\ original \in ExtId \cup {None}
  BY <1>2, ItemFacts
<1>4. Exists(original) /\ wager[original].status = "PROCESSED"
  BY <1>2 DEF Sighted
<1>5. original \in ExtId /\ original \in TxKey
  BY <1>3, <1>4 DEF Exists, TxKey
<1>6. staged[a][original] = None
  BY <1>1, <1>4, <1>5 DEF Owned, Terminal, Exists
<1>7. Seen(a, original) # None /\ Seen(a, original).status = "PROCESSED"
  BY <1>4, <1>6 DEF Seen, Exists
<1>8. CASE Rollback(a) /\ EndRound(a)
  BY <1>8, EndWatching DEF Rollback
<1>9. CASE /\ ResolveSinglePendingRef(a, w, k, original) \/ UNCHANGED storeVars
           /\ Done(a, k)
  <2>1. CASE ResolveSinglePendingRef(a, w, k, original)
    <3> HIDE DEF k
    <3>1. Justified(a)
      BY <1>1, <1>2, <1>3, <1>5, <1>7, <2>1, ResolutionJustified
    <3> QED
      BY <1>2, <1>9, <3>1, DoneWatching
  <2>2. CASE UNCHANGED storeVars
    BY <1>1, <1>2, <1>9, <2>2, UntouchedJustified, DoneWatching DEF storeVars, session
  <2> QED
    BY <1>9, <2>1, <2>2
<1> QED
  BY <1>8, <1>9 DEF ApplyItem

LEMMA WorkerWatching ==
    ASSUME SystemInv, Grounded(wager), NEW a \in Worker, Sighted(a),
           WorkerStep(a) \/ AbandonRound(a)
    PROVE  Watching(a)
<1>1. CASE StartItem(a) \/ LockItemWallet(a)
  <2>1. UNCHANGED <<staged, items>>
    BY <1>1 DEF StartItem, LockItemWallet, storeVars, session
  <2> QED
    BY <2>1, RoundFacts, UntouchedJustified DEF Watching
<1>2. CASE CommitRound(a) \/ AbandonRound(a)
  BY <1>2, EndWatching DEF CommitRound, AbandonRound, Commit, Rollback
<1> QED
  BY <1>1, <1>2, SelectionWatching, RejectItemWatching, DeferItemWatching, ApplyItemWatching
     DEF WorkerStep

-----------------------------------------------------------------------------
(* The invariant.                                                          *)

LEMMA InitResolutionInv == SystemInit => ResolutionInv
<1> SUFFICES ASSUME SystemInit PROVE ResolutionInv
  OBVIOUS
<1>1. /\ wager = [k \in TxKey |-> None] /\ ledger = [w \in Wallet |-> <<>>]
      /\ entries = [a \in Agent |-> [w \in Wallet |-> <<>>]]
      /\ staged = [a \in Agent |-> [k \in TxKey |-> None]]
  BY DEF SystemInit, ServiceInit, StoreInit
<1>2. ASSUME NEW T, \A k \in TxKey : T[k] = None,
             NEW L, \A w \in Wallet : L[w] = <<>>
      PROVE  Fits(L, T)
  BY <1>2 DEF Fits, Grounded, Distinct, Directed, Reverses, TxKey
<1>3. Fits(ledger, wager)
  BY <1>1, <1>2
<1>4. ASSUME NEW a \in Agent PROVE Fits(entries[a], View(a)) /\ Guarded(a)
  <2>1. \A k \in TxKey : View(a)[k] = None
    BY <1>1 DEF View, Seen
  <2>2. \A w \in Wallet : entries[a][w] = <<>>
    BY <1>1
  <2> QED
    BY <1>1, <1>2, <2>1, <2>2 DEF Guarded, Reverses
<1>5. ASSUME NEW h \in Handler PROVE Resolving(h)
  BY DEF SystemInit, ServiceInit, Resolving
<1>6. ASSUME NEW a \in Worker PROVE Sighted(a)
  BY ResolverAssumption DEF SystemInit, NoItems, Sighted, Statuses
<1> QED
  BY <1>3, <1>4, <1>5, <1>6 DEF ResolutionInv, ReversalInv

LEMMA OthersResolve ==
    ASSUME SystemInv, SystemInv', Kept, NEW a \in Agent, StoreStep(a),
           NEW g \in Handler, g # a, Resolving(g),
           pc'[g] = pc[g], call'[g] = call[g], todo'[g] = todo[g]
    PROVE  Resolving(g)'
<1>1. StoreTypeOK /\ StoreTypeOK' /\ g \in Agent /\ todo[g] \subseteq ExtId
  BY HandlersAreAgents
     DEF SystemInv, ServiceInv, StoreInv, StoreBooks, TypeInv, TypeOK
<1>2. staged'[g] = staged[g]
  BY <1>1, StepApart DEF Apart
<1> QED
  BY <1>1, <1>2, ResolvingStays

LEMMA StepResolutionInv ==
    ASSUME SystemInv, ResolutionInv, [SystemNext]_systemVars
    PROVE  ResolutionInv'
<1>1. SystemInv' /\ Kept
  BY StepSystemInv
<1>2. /\ StoreTypeOK /\ StoreTypeOK' /\ RowsInv /\ RowsInv' /\ ServiceInv
      /\ ReversalInv /\ Grounded(wager)
  BY <1>1 DEF SystemInv, ServiceInv, StoreInv, StoreBooks, ResolutionInv, ReversalInv, Fits
<1>3. ASSUME NEW h \in Handler, Receive(h) \/ HandlerStep(h) \/ Abandon(h),
             UNCHANGED resolverControl
      PROVE  ResolutionInv'
  <2>1. Resolving(h) /\ h \in Agent
    BY HandlersAreAgents DEF ResolutionInv
  <2>2. StoreStep(h) /\ Reversing(h)
    BY <1>2, <1>3, <2>1, HandlerOrderly, HandlerReversing DEF Orderly
  <2>3. ReversalInv'
    BY <1>1, <1>2, <2>1, <2>2, StepReversals DEF Reversing
  <2>4. ASSUME NEW g \in Handler PROVE Resolving(g)'
    BY <1>1, <2>1, <2>2, OthersResolve DEF Reversing, ResolutionInv
  <2>5. ASSUME NEW a \in Worker PROVE Sighted(a)'
    BY <1>1, <1>3, SightedStays DEF ResolutionInv, resolverControl
  <2> QED
    BY <2>3, <2>4, <2>5 DEF ResolutionInv
<1>4. ASSUME NEW a \in Worker, WorkerStep(a) \/ AbandonRound(a)
      PROVE  ResolutionInv'
  <2>1. /\ RoundOrderly(a) /\ Watching(a) /\ a \in Agent /\ a \notin Handler
    BY <1>2, <1>4, WorkerOrderly, WorkerWatching, WorkersAreAgents DEF ResolutionInv
  <2>2. ReversalInv'
    BY <1>1, <1>2, <2>1, StepReversals DEF RoundOrderly, Watching
  <2>3. ASSUME NEW g \in Handler PROVE Resolving(g)'
    BY <1>1, <2>1, OthersResolve DEF RoundOrderly, ResolutionInv, control
  <2>4. ASSUME NEW b \in Worker PROVE Sighted(b)'
    <3>1. CASE b = a
      BY <1>1, <2>1, <3>1, SightedStays DEF Watching, ResolutionInv
    <3>2. CASE b # a
      BY <1>1, <2>1, <3>2, SightedStays DEF RoundOrderly, ResolutionInv
    <3> QED
      BY <3>1, <3>2
  <2> QED
    BY <2>2, <2>3, <2>4 DEF ResolutionInv
<1>5. ASSUME NEW k \in ExtId, BackoffElapsed(k) PROVE ResolutionInv'
  <2>1. UNCHANGED <<control, resolverControl, session>>
    BY <1>5 DEF BackoffElapsed
  <2>2. ReversalInv'
    BY <1>1, <1>2, <1>5, BackoffReversals
  <2>3. ASSUME NEW g \in Handler PROVE Resolving(g)'
    <3>1. todo[g] \subseteq ExtId
      BY DEF SystemInv, ServiceInv, TypeInv, TypeOK
    <3> QED
      BY <1>1, <1>2, <2>1, <3>1, ResolvingStays DEF ResolutionInv, control, session
  <2>4. ASSUME NEW b \in Worker PROVE Sighted(b)'
    BY <1>1, <2>1, SightedStays DEF ResolutionInv, resolverControl
  <2> QED
    BY <2>2, <2>3, <2>4 DEF ResolutionInv
<1>6. CASE UNCHANGED <<vars, items>>
  <2>1. UNCHANGED <<wager, ledger, holder, entries, staged, pc, call, todo, items>>
    BY <1>6 DEF vars, storeVars, tables, session, control
  <2>2. ReversalInv'
    <3>1. Fits(ledger, wager)'
      BY <1>2, <2>1 DEF ReversalInv, Fits, Grounded, Distinct, Directed
    <3>2. ASSUME NEW b \in Agent PROVE (Fits(entries[b], View(b)) /\ Guarded(b))'
      <4>1. PICK T : T = View(b)'
        OBVIOUS
      <4>2. T = View(b)
        BY <2>1, <4>1 DEF View, Seen
      <4>3. Fits(entries'[b], T) /\ Guarded(b)'
        BY <1>2, <2>1, <4>2 DEF ReversalInv, Guarded
      <4> QED
        BY <4>1, <4>3 DEF Fits
    <3> QED
      BY <3>1, <3>2 DEF ReversalInv
  <2>3. ASSUME NEW g \in Handler PROVE Resolving(g)'
    BY <2>1 DEF ResolutionInv, Resolving
  <2>4. ASSUME NEW b \in Worker PROVE Sighted(b)'
    BY <2>1 DEF ResolutionInv, Sighted, Exists
  <2> QED
    BY <2>2, <2>3, <2>4 DEF ResolutionInv
<1> QED
  BY <1>3, <1>4, <1>5, <1>6 DEF SystemNext, ServiceNext, Age, systemVars, resolverControl

LEMMA ResolutionInvHolds == SystemSpec => []ResolutionInv
<1>1. SystemInv /\ ResolutionInv /\ [SystemNext]_systemVars => ResolutionInv'
  BY StepResolutionInv
<1> QED
  BY <1>1, InitResolutionInv, SystemInvHolds, PTL DEF SystemSpec

-----------------------------------------------------------------------------
(* The theorems.                                                           *)

\* However handlers and rounds interleave, two reversals of one kind for one wallet never
\* both settle against one original: the lookup that guards against it reads a row it has
\* not locked, and it is the wallet that orders the two (wager_service.go 908-927).
THEOREM ReversalsResolveOnce == SystemSpec => []OneResolutionPerKind
<1>1. ResolutionInv => OneResolutionPerKind
  <2> SUFFICES ASSUME ResolutionInv, NEW j \in ExtId, NEW k \in ExtId, j # k,
                      wager[j] # None, wager[j].resolved # None,
                      wager[k] # None, wager[k].resolved = wager[j].resolved,
                      wager[k].wallet = wager[j].wallet
               PROVE  wager[j].kind # wager[k].kind
    BY DEF OneResolutionPerKind
  <2> QED
    BY DEF ResolutionInv, ReversalInv, Fits, Distinct, Reverses
<1> QED
  BY <1>1, ResolutionInvHolds, PTL

\* A reversal is settled only against the processed transaction it names, and its money
\* goes back the way that one's came, on whichever wallet of the two it is moved
\* (matrix of ARCHITECTURE.md 8.2, wager_service.go 929-961).
THEOREM ReversalsOpposeTheirOriginals == SystemSpec => []ReversalOpposesOriginal
<1>1. ASSUME SystemInv, Complete, ResolutionInv, NEW k \in ExtId,
             wager[k] # None, wager[k].resolved # None
      PROVE  LET p == wager[k]
                 original == wager[p.ref]
             IN  /\ p.resolved = p.ref
                 /\ p.status = "PROCESSED" /\ original # None /\ original.status = "PROCESSED"
                 /\ original.kind = "BET" \/ (original.kind = "WIN" /\ p.kind = "ROLLBACK") =>
                       \E v, w \in Wallet : \E i \in RowsOf(v, k), j \in RowsOf(w, p.ref) :
                           ledger[v][i].dir # ledger[w][j].dir
  <2> DEFINE p == wager[k]
             original == wager[p.ref]
  <2>1. Grounded(wager) /\ Directed(ledger, wager) /\ ExactlyOnePosting
    BY <1>1, PostingsMeanOne DEF ResolutionInv, ReversalInv, Fits, SystemInv, ServiceInv
  <2>2. /\ k \in TxKey /\ p.status = "PROCESSED" /\ RequiresReference(p.kind)
        /\ p.ref \in ExtId /\ p.ref \in TxKey /\ p.resolved = p.ref
        /\ original # None /\ original.status = "PROCESSED"
    BY <1>1, <2>1 DEF Grounded, Reverses, TxKey
  <2>3. ASSUME original.kind = "BET" \/ (original.kind = "WIN" /\ p.kind = "ROLLBACK")
        PROVE  \E v, w \in Wallet : \E i \in RowsOf(v, k), j \in RowsOf(w, p.ref) :
                   ledger[v][i].dir # ledger[w][j].dir
    <3>1. MovedMoney(k) /\ MovedMoney(p.ref)
      BY <1>1, <2>2, <2>3 DEF MovedMoney, RequiresReference
    <3>2. PICK v \in Wallet : \E i \in RowsOf(v, k) : TRUE
      BY <2>1, <2>2, <3>1 DEF ExactlyOnePosting
    <3>3. PICK w \in Wallet : \E j \in RowsOf(w, p.ref) : TRUE
      BY <2>1, <2>2, <3>1 DEF ExactlyOnePosting
    <3>4. PICK i \in RowsOf(v, k), j \in RowsOf(w, p.ref) : TRUE
      BY <3>2, <3>3
    <3>5. ledger[v][i].dir = DirOf(wager, k) /\ ledger[w][j].dir = DirOf(wager, p.ref)
      BY <2>1, <3>4 DEF Directed, RowsOf
    <3>6. original.resolved = None
      BY <2>1, <2>2, <2>3 DEF Grounded, Reverses, RequiresReference
    <3>7. DirOf(wager, k) # DirOf(wager, p.ref)
      BY <1>1, <2>2, <2>3, <3>6
         DEF DirOf, DirectDirection, ResolutionDirection, RequiresReference
    <3> QED
      BY <3>4, <3>5, <3>7
  <2> QED
    BY <2>2, <2>3
<1>2. SystemInv /\ Complete /\ ResolutionInv => ReversalOpposesOriginal
  BY <1>1 DEF ReversalOpposesOriginal
<1> QED
  BY <1>2, SystemInvHolds, SystemCompleteHolds, ResolutionInvHolds, PTL
=============================================================================
