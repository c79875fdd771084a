----------------------------- MODULE QueryProofs ------------------------------
(***************************************************************************)
(* Proofs about the query routes: the key cache, for every number of       *)
(* clients and every history of the identity provider, and the ledger      *)
(* pages, for all readers, page sizes, clocks and lengths of the ledger.   *)
(***************************************************************************)
EXTENDS QueryApi, Integers, FiniteSetTheorems, TLAPS

-----------------------------------------------------------------------------
(* The key cache.                                                          *)

\* What a request that holds the write lock, or has finished its first lookup, relies on.
\* Nobody else can store a map while it fetches, so its answer is never older than the
\* cache; and what the first lookup said of its key was said of a set at least as new as
\* the one the request came upon.
Looked(c) ==
    IF found[c] THEN \E e \in since[c]..cached : kid[c] \in KeysOf(e)
    ELSE \E e \in since[c]..cached : kid[c] \notin KeysOf(e)

RequestOK(c) ==
    /\ since[c] <= cached
    /\ step[c] = "store" => cached <= answer[c]
    /\ step[c] \in {"refresh", "fetch"} => Looked(c)

CacheInv ==
    /\ CacheTypeOK
    /\ \A c \in Client : RequestOK(c)
    /\ VerdictsAreOfTheirTime

LEMMA InitCacheInv == CacheInit => CacheInv
<1> SUFFICES ASSUME CacheInit PROVE CacheInv
  OBVIOUS
<1>1. Len(Rotation) \in Nat /\ DOMAIN Rotation = 1..Len(Rotation) /\ Len(Rotation) # 0
      /\ Rotation[1] \subseteq KeyId
  BY KeyCacheAssumption
<1>2. CacheTypeOK
  BY <1>1 DEF CacheInit, CacheTypeOK, Epochs, Age, Step, Verdict
<1> QED
  BY <1>2 DEF CacheInit, CacheInv, RequestOK, VerdictsAreOfTheirTime, Verdict

-----------------------------------------------------------------------------
LEMMA RotateKeeps == CacheInv /\ Rotate => CacheInv' /\ cached' >= cached
<1> SUFFICES ASSUME CacheInv, Rotate PROVE CacheInv' /\ cached' >= cached
  OBVIOUS
<1>1. Len(Rotation) \in Nat /\ Epochs = 1..Len(Rotation)
  BY KeyCacheAssumption DEF Epochs
<1>2. CacheTypeOK'
  BY <1>1 DEF CacheInv, Rotate, CacheTypeOK
<1>3. cached \in Int
  BY <1>1 DEF CacheInv, CacheTypeOK
<1> QED
  BY <1>2, <1>3 DEF CacheInv, Rotate, RequestOK, Looked, VerdictsAreOfTheirTime, KeysOf

LEMMA ElapseKeeps == CacheInv /\ Elapse => CacheInv' /\ cached' >= cached
<1> SUFFICES ASSUME CacheInv, Elapse PROVE CacheInv' /\ cached' >= cached
  OBVIOUS
<1>1. cached \in Int
  BY KeyCacheAssumption DEF CacheInv, CacheTypeOK, Epochs
<1> QED
  BY <1>1 DEF CacheInv, Elapse, CacheTypeOK, RequestOK, Looked, VerdictsAreOfTheirTime, KeysOf,
              Age

LEMMA Epochal ==
    ASSUME CacheInv
    PROVE  /\ epoch \in Nat /\ cached \in Nat /\ cached <= epoch
           /\ \A d \in Client : since[d] \in Nat /\ answer[d] \in Nat
BY KeyCacheAssumption DEF CacheInv, CacheTypeOK, Epochs

LEMMA AskKeeps ==
    ASSUME CacheInv, NEW c \in Client, Ask(c)
    PROVE  CacheInv' /\ cached' >= cached
<1>1. CacheTypeOK'
  BY Epochal, KeyCacheAssumption DEF CacheInv, CacheTypeOK, Ask, Step, Verdict
<1>2. ASSUME NEW d \in Client PROVE RequestOK(d)'
  BY Epochal DEF CacheInv, CacheTypeOK, Ask, RequestOK, Looked, KeysOf, Step, Verdict
<1>3. VerdictsAreOfTheirTime'
  BY Epochal DEF CacheInv, CacheTypeOK, Ask, RequestOK, Looked, VerdictsAreOfTheirTime,
                 KeysOf, Verdict
<1> QED
  BY <1>1, <1>2, <1>3, Epochal DEF CacheInv, Ask

LEMMA LookupKeeps ==
    ASSUME CacheInv, NEW c \in Client, Lookup(c)
    PROVE  CacheInv' /\ cached' >= cached
<1>1. CacheTypeOK'
  BY Epochal, KeyCacheAssumption DEF CacheInv, CacheTypeOK, Lookup, Step, Verdict
<1>2. ASSUME NEW d \in Client PROVE RequestOK(d)'
  <2>1. CASE d = c
    <3>1. found'[c] = (kid[c] \in KeysOf(cached))
      BY DEF CacheInv, CacheTypeOK, Lookup
    <3>2. cached \in since[c]..cached
      BY Epochal DEF CacheInv, RequestOK
    <3>3. IF found'[c] THEN \E e \in since[c]..cached : kid[c] \in KeysOf(e)
          ELSE \E e \in since[c]..cached : kid[c] \notin KeysOf(e)
      BY <3>1, <3>2
    <3>4. Looked(c)'
      BY <3>3 DEF Lookup, Looked, KeysOf
    <3> QED
      BY <2>1, <3>4 DEF CacheInv, CacheTypeOK, Lookup, RequestOK, Step, Verdict
  <2>2. CASE d # c
    BY <2>2 DEF CacheInv, CacheTypeOK, Lookup, RequestOK, Looked, KeysOf
  <2> QED
    BY <2>1, <2>2
<1>3. VerdictsAreOfTheirTime'
  BY Epochal DEF CacheInv, CacheTypeOK, Lookup, RequestOK, Looked, VerdictsAreOfTheirTime,
                 KeysOf, Verdict
<1> QED
  BY <1>1, <1>2, <1>3, Epochal DEF CacheInv, Lookup

LEMMA LookupAgainKeeps ==
    ASSUME CacheInv, NEW c \in Client, LookupAgain(c)
    PROVE  CacheInv' /\ cached' >= cached
<1>1. CacheTypeOK'
  BY Epochal, KeyCacheAssumption DEF CacheInv, CacheTypeOK, LookupAgain, Step, Verdict
<1>2. ASSUME NEW d \in Client PROVE RequestOK(d)'
  BY Epochal DEF CacheInv, CacheTypeOK, LookupAgain, RequestOK, Looked, KeysOf, Step, Verdict
<1>3. VerdictsAreOfTheirTime'
  BY Epochal DEF CacheInv, CacheTypeOK, LookupAgain, RequestOK, Looked, VerdictsAreOfTheirTime,
                 KeysOf, Verdict
<1> QED
  BY <1>1, <1>2, <1>3, Epochal DEF CacheInv, LookupAgain

LEMMA RefreshKeeps ==
    ASSUME CacheInv, NEW c \in Client, Refresh(c)
    PROVE  CacheInv' /\ cached' >= cached
<1>1. CacheTypeOK'
  BY Epochal, KeyCacheAssumption DEF CacheInv, CacheTypeOK, Refresh, Step, Verdict
<1>2. ASSUME NEW d \in Client PROVE RequestOK(d)'
  BY Epochal DEF CacheInv, CacheTypeOK, Refresh, RequestOK, Looked, KeysOf, Step, Verdict
<1>3. VerdictsAreOfTheirTime'
  BY Epochal DEF CacheInv, CacheTypeOK, Refresh, RequestOK, Looked, VerdictsAreOfTheirTime,
                 KeysOf, Verdict
<1> QED
  BY <1>1, <1>2, <1>3, Epochal DEF CacheInv, Refresh

LEMMA FetchKeeps ==
    ASSUME CacheInv, NEW c \in Client, Fetch(c)
    PROVE  CacheInv' /\ cached' >= cached
<1>1. CacheTypeOK'
  BY Epochal, KeyCacheAssumption DEF CacheInv, CacheTypeOK, Fetch, Step, Verdict
<1>2. ASSUME NEW d \in Client PROVE RequestOK(d)'
  BY Epochal DEF CacheInv, CacheTypeOK, Fetch, RequestOK, Looked, KeysOf, Step, Verdict
<1>3. VerdictsAreOfTheirTime'
  BY Epochal DEF CacheInv, CacheTypeOK, Fetch, RequestOK, Looked, VerdictsAreOfTheirTime,
                 KeysOf, Verdict
<1> QED
  BY <1>1, <1>2, <1>3, Epochal DEF CacheInv, Fetch

LEMMA FetchFailsKeeps ==
    ASSUME CacheInv, NEW c \in Client, FetchFails(c)
    PROVE  CacheInv' /\ cached' >= cached
<1>1. CacheTypeOK'
  BY Epochal, KeyCacheAssumption DEF CacheInv, CacheTypeOK, FetchFails, Step, Verdict
<1>2. ASSUME NEW d \in Client PROVE RequestOK(d)'
  BY Epochal DEF CacheInv, CacheTypeOK, FetchFails, RequestOK, Looked, KeysOf, Step, Verdict
<1>3. VerdictsAreOfTheirTime'
  BY Epochal DEF CacheInv, CacheTypeOK, FetchFails, RequestOK, Looked, VerdictsAreOfTheirTime,
                 KeysOf, Verdict
<1> QED
  BY <1>1, <1>2, <1>3, Epochal DEF CacheInv, FetchFails

LEMMA StoreKeeps ==
    ASSUME CacheInv, NEW c \in Client, Store(c)
    PROVE  CacheInv' /\ cached' >= cached
<1>1. CacheTypeOK'
  BY Epochal, KeyCacheAssumption DEF CacheInv, CacheTypeOK, Store, Step, Verdict, Epochs, Age
<1>2. ASSUME NEW d \in Client PROVE RequestOK(d)'
  BY Epochal DEF CacheInv, CacheTypeOK, Store, RequestOK, Looked, KeysOf, Step, Verdict
<1>3. VerdictsAreOfTheirTime'
  BY Epochal DEF CacheInv, CacheTypeOK, Store, RequestOK, Looked, VerdictsAreOfTheirTime,
                 KeysOf, Verdict
<1>4. cached' >= cached
  BY Epochal DEF CacheInv, CacheTypeOK, RequestOK, Store
<1> QED
  BY <1>1, <1>2, <1>3, <1>4 DEF CacheInv

LEMMA LeaveKeeps ==
    ASSUME CacheInv, NEW c \in Client, Leave(c)
    PROVE  CacheInv' /\ cached' >= cached
<1>1. CacheTypeOK'
  <2>1. Rotation[epoch] \subseteq KeyId
    BY KeyCacheAssumption DEF CacheInv, CacheTypeOK, Epochs
  <2>2. kid' \in [Client -> KeyId]
    BY <2>1 DEF CacheInv, CacheTypeOK, Leave
  <2>3. since' \in [Client -> 0..epoch]
    BY Epochal DEF CacheInv, CacheTypeOK, Leave
  <2>4. step' \in [Client -> Step]
    BY DEF CacheInv, CacheTypeOK, Leave, Step
  <2>5. ASSUME NEW d \in Client, step'[d] \in {"fetch", "store"} PROVE writer' = d
    BY <2>5 DEF CacheInv, CacheTypeOK, Leave, Step
  <2> QED
    BY <2>2, <2>3, <2>4, <2>5 DEF CacheInv, CacheTypeOK, Leave
<1>2. ASSUME NEW d \in Client PROVE RequestOK(d)'
  BY Epochal DEF CacheInv, CacheTypeOK, Leave, RequestOK, Looked, KeysOf, Step, Verdict
<1>3. VerdictsAreOfTheirTime'
  BY Epochal DEF CacheInv, CacheTypeOK, Leave, RequestOK, Looked, VerdictsAreOfTheirTime,
                 KeysOf, Verdict
<1> QED
  BY <1>1, <1>2, <1>3, Epochal DEF CacheInv, Leave

-----------------------------------------------------------------------------
LEMMA StepCacheInv ==
    CacheInv /\ [CacheNext]_cacheVars => CacheInv' /\ cached' >= cached
<1> SUFFICES ASSUME CacheInv, [CacheNext]_cacheVars PROVE CacheInv' /\ cached' >= cached
  OBVIOUS
<1>1. CASE UNCHANGED cacheVars
  BY <1>1, Epochal DEF cacheVars, CacheInv, CacheTypeOK, RequestOK, Looked,
                       VerdictsAreOfTheirTime, KeysOf
<1>2. CASE Rotate \/ Elapse
  BY <1>2, RotateKeeps, ElapseKeeps
<1>3. ASSUME NEW c \in Client, Ask(c) \/ GetKey(c) \/ Leave(c)
      PROVE  CacheInv' /\ cached' >= cached
  BY <1>3, AskKeeps, LookupKeeps, LookupAgainKeeps, RefreshKeeps, FetchKeeps, FetchFailsKeeps,
     StoreKeeps, LeaveKeeps DEF GetKey, TakeLock
<1> QED
  BY <1>1, <1>2, <1>3 DEF CacheNext

\* Whatever the clients, the keys and the provider's history are, the cached set is never
\* replaced by an older one (validator.go 178-223).
THEOREM CacheMovesForward == CacheSpec => CacheNeverGoesBack
<1>1. CacheInv /\ [CacheNext]_cacheVars => [cached' >= cached]_cacheVars
  BY StepCacheInv
<1>2. CacheInv /\ [CacheNext]_cacheVars => CacheInv'
  BY StepCacheInv
<1> QED
  BY <1>1, <1>2, InitCacheInv, PTL DEF CacheSpec, CacheNeverGoesBack

\* and every verdict on a token is that of a key set between the last refresh before the
\* request and the verdict (validator.go 149-175).
THEOREM VerdictsStayTimely == CacheSpec => []VerdictsAreOfTheirTime
<1>1. CacheInv => VerdictsAreOfTheirTime
  BY DEF CacheInv
<1>2. CacheInv /\ [CacheNext]_cacheVars => CacheInv'
  BY StepCacheInv
<1> QED
  BY <1>1, <1>2, InitCacheInv, PTL DEF CacheSpec

-----------------------------------------------------------------------------
(* The order of the rows.                                                  *)

LEMMA RowsAreOrdered ==
    ASSUME NEW r \in Row, NEW s \in Row
    PROVE  /\ r # NoCursor
           /\ ~Before(r, r)
           /\ r # s => Before(r, s) \/ Before(s, r)
           /\ \A t \in Row : Before(r, s) /\ Before(s, t) => Before(r, t)
<1>1. /\ r = <<r[1], r[2]>> /\ r[1] \in Nat /\ r[2] \in Nat
      /\ s = <<s[1], s[2]>> /\ s[1] \in Nat /\ s[2] \in Nat
  BY LedgerPagesAssumption DEF Row
<1>2. \A t \in Row : t[1] \in Nat /\ t[2] \in Nat
  BY LedgerPagesAssumption DEF Row
<1>3. r # NoCursor
  BY <1>1 DEF NoCursor
<1>4. r # s => r[1] # s[1] \/ r[2] # s[2]
  BY <1>1
<1> QED
  BY <1>1, <1>2, <1>3, <1>4 DEF Before

LEMMA RowSetsAreFinite ==
    ASSUME NEW S \in SUBSET Row
    PROVE  IsFiniteSet(S) /\ Cardinality(S) \in Nat
<1>1. IsFiniteSet(1..MaxRow)
  BY FS_Interval, LedgerPagesAssumption
<1>2. IsFiniteSet(Row)
  BY <1>1, FS_Product DEF Row
<1> QED
  BY <1>2, FS_Subset, FS_CardinalityType

\* Every set of rows has an order: the place of a row is the number of those before it.
LEMMA RowsCanBeOrdered ==
    ASSUME NEW S \in SUBSET Row
    PROVE  \E s \in [1..Cardinality(S) -> S] :
               \A i, j \in DOMAIN s : i < j => Before(s[i], s[j])
<1> DEFINE Earlier(r) == {q \in S : Before(q, r)}
           N == Cardinality(S)
           place == [r \in S |-> Cardinality(Earlier(r)) + 1]
           inOrder == [i \in 1..N |-> CHOOSE r \in S : place[r] = i]
<1>1. IsFiniteSet(S) /\ N \in Nat
  BY RowSetsAreFinite
<1>2. ASSUME NEW r \in S
      PROVE  /\ IsFiniteSet(Earlier(r)) /\ Cardinality(Earlier(r)) = place[r] - 1
             /\ place[r] \in 1..N
  <2>1. Earlier(r) \in SUBSET S /\ Earlier(r) \in SUBSET Row
    OBVIOUS
  <2>2. r \in Row /\ ~Before(r, r)
    BY RowsAreOrdered
  <2>3. Earlier(r) # S
    BY <2>2
  <2>4. IsFiniteSet(Earlier(r)) /\ Cardinality(Earlier(r)) \in Nat
    BY <2>1, RowSetsAreFinite
  <2>5. Cardinality(Earlier(r)) <= N /\ (N = Cardinality(Earlier(r)) => S = Earlier(r))
    BY <1>1, <2>1, FS_Subset
  <2> QED
    BY <1>1, <2>3, <2>4, <2>5
<1>3. ASSUME NEW q \in S, NEW r \in S, Before(q, r)
      PROVE  place[q] < place[r]
  <2>1. Earlier(q) \in SUBSET Earlier(r)
    BY <1>3, RowsAreOrdered
  <2>2. q \in Earlier(r) /\ q \notin Earlier(q)
    BY <1>3, RowsAreOrdered
  <2>3. /\ Cardinality(Earlier(q)) <= Cardinality(Earlier(r))
        /\ Cardinality(Earlier(r)) = Cardinality(Earlier(q)) => Earlier(r) = Earlier(q)
    BY <2>1, <1>2, FS_Subset
  <2> QED
    <3> HIDE DEF place
    <3>1. Cardinality(Earlier(q)) = place[q] - 1 /\ place[q] \in 1..N
      BY <1>2
    <3>2. Cardinality(Earlier(r)) = place[r] - 1 /\ place[r] \in 1..N
      BY <1>2
    <3> QED
      BY <1>1, <2>2, <2>3, <3>1, <3>2
<1> HIDE DEF place
<1>4. place \in [S -> 1..N]
  <2>1. place = [r \in S |-> place[r]]
    BY DEF place
  <2> QED
    BY <1>2, <2>1
<1>5. \A q, r \in S : place[q] = place[r] => q = r
  <2> SUFFICES ASSUME NEW q \in S, NEW r \in S, q # r PROVE place[q] # place[r]
    OBVIOUS
  <2>1. Before(q, r) \/ Before(r, q)
    BY RowsAreOrdered
  <2>2. place[q] \in Nat /\ place[r] \in Nat
    BY <1>1, <1>4
  <2>3. CASE Before(q, r)
    BY <1>3, <2>2, <2>3
  <2>4. CASE Before(r, q)
    BY <1>3, <2>2, <2>4
  <2> QED
    BY <2>1, <2>3, <2>4
<1>6. place \in Injection(S, 1..N)
  BY <1>4, <1>5 DEF Injection, IsInjective
<1>7. IsFiniteSet(1..N) /\ Cardinality(1..N) = N
  BY <1>1, FS_Interval
<1>8. place \in Surjection(S, 1..N)
  BY <1>6, <1>7, FS_Injection
<1>9. \A i \in 1..N : \E r \in S : place[r] = i
  BY <1>8 DEF Surjection
<1>10. \A i \in 1..N : inOrder[i] \in S /\ place[inOrder[i]] = i
  BY <1>9
<1> HIDE DEF place
<1>11. ASSUME NEW i \in 1..N, NEW j \in 1..N, i < j
       PROVE  Before(inOrder[i], inOrder[j])
  <2> DEFINE r == inOrder[i]
             q == inOrder[j]
  <2>1. r \in S /\ q \in S /\ place[r] = i /\ place[q] = j
    BY <1>10
  <2> HIDE DEF r, q
  <2>2. r # q
    BY <2>1, <1>11
  <2>3. ~Before(q, r)
    <3> SUFFICES ASSUME Before(q, r) PROVE FALSE
      OBVIOUS
    <3>1. j < i
      BY <1>3, <2>1
    <3> QED
      BY <3>1, <1>11
  <2>4. Before(r, q)
    BY <2>1, <2>2, <2>3, RowsAreOrdered
  <2> QED
    BY <2>4 DEF r, q
<1>12. inOrder \in [1..N -> S]
  BY <1>10
<1>13. DOMAIN inOrder = 1..N
  OBVIOUS
<1> HIDE DEF inOrder, N
<1> QED
  BY <1>11, <1>12, <1>13 DEF N

LEMMA OrderedIsComplete ==
    ASSUME NEW S \in SUBSET Row
    PROVE  /\ Ordered(S) \in [1..Cardinality(S) -> S]
           /\ \A i, j \in 1..Cardinality(S) : i < j => Before(Ordered(S)[i], Ordered(S)[j])
           /\ \A r \in S : \E i \in 1..Cardinality(S) : Ordered(S)[i] = r
<1> DEFINE N == Cardinality(S)
           s == Ordered(S)
<1>1. IsFiniteSet(S) /\ N \in Nat
  BY RowSetsAreFinite
<1>2. s \in [1..N -> S] /\ \A i, j \in DOMAIN s : i < j => Before(s[i], s[j])
  BY RowsCanBeOrdered DEF Ordered
<1> HIDE DEF s
<1>3. \A i, j \in 1..N : i < j => Before(s[i], s[j])
  BY <1>2
<1>4. ASSUME NEW i \in 1..N, NEW j \in 1..N, i < j PROVE s[i] # s[j]
  <2>1. s[i] \in Row /\ Before(s[i], s[j])
    BY <1>2, <1>3, <1>4
  <2> QED
    BY <2>1, RowsAreOrdered
<1>5. s \in Injection(1..N, S)
  BY <1>1, <1>2, <1>4 DEF Injection, IsInjective
<1>6. IsFiniteSet(1..N) /\ Cardinality(1..N) = N
  BY <1>1, FS_Interval
<1>7. s \in Surjection(1..N, S)
  BY <1>1, <1>5, <1>6, FS_Injection
<1> QED
  BY <1>2, <1>3, <1>7 DEF Surjection, s

-----------------------------------------------------------------------------
\* The rows a request with that cursor asks for.
Beyond(cursor) == {r \in ToSet(rows) : cursor = NoCursor \/ Before(cursor, r)}

LEMMA BeyondAreRows ==
    ASSUME rows \in BoundedSeq(Row, MaxRow), NEW cursor
    PROVE  /\ Len(rows) \in 0..MaxRow /\ rows \in [1..Len(rows) -> Row]
           /\ Beyond(cursor) \in SUBSET Row
           /\ Cardinality(Beyond(cursor)) \in 0..MaxRow
<1>1. PICK m \in 0..MaxRow : rows \in [1..m -> Row]
  BY DEF BoundedSeq, SeqOf
<1>2. m \in Nat /\ MaxRow \in Nat
  BY LedgerPagesAssumption
<1>3. Len(rows) = m
  BY <1>1, <1>2
<1>4. ToSet(rows) \in SUBSET Row
  BY <1>1 DEF ToSet
<1>5. Cardinality(ToSet(rows)) <= m
  <2>1. rows \in Surjection(1..m, ToSet(rows))
    BY <1>1 DEF Surjection, ToSet
  <2>2. IsFiniteSet(1..m) /\ Cardinality(1..m) = m
    BY <1>2, FS_Interval
  <2> QED
    BY <2>1, <2>2, FS_Surjection
<1>6. Beyond(cursor) \in SUBSET ToSet(rows)
  BY DEF Beyond
<1>7. Cardinality(Beyond(cursor)) <= Cardinality(ToSet(rows))
  BY <1>4, <1>6, RowSetsAreFinite, FS_Subset
<1>8. Cardinality(Beyond(cursor)) \in Nat /\ Cardinality(ToSet(rows)) \in Nat
  BY <1>4, <1>6, RowSetsAreFinite
<1> QED
  BY <1>1, <1>2, <1>3, <1>4, <1>5, <1>6, <1>7, <1>8

LEMMA UpToIsAPrefix ==
    ASSUME NEW S, NEW N \in Nat, NEW s \in [1..N -> S], NEW n \in Nat
    PROVE  /\ UpTo(n, s) = [i \in 1..(IF n < N THEN n ELSE N) |-> s[i]]
           /\ Len(UpTo(n, s)) = IF n < N THEN n ELSE N
<1>1. s \in Seq(S) /\ Len(s) = N
  OBVIOUS
<1> QED
  BY <1>1 DEF UpTo

\* What one page holds: rows beyond the cursor, in order, and all of them up to its own
\* cursor, which is there when rows follow it.
LEMMA APageIsAPrefix ==
    ASSUME rows \in BoundedSeq(Row, MaxRow), NEW cursor, NEW limit \in Nat \ {0}
    PROVE  LET page == GetByWalletID(cursor, limit)
               shown == page.rows
           IN  /\ page \in Page
               /\ page.upto = Len(rows)
               /\ Len(shown) \in Nat /\ shown \in [1..Len(shown) -> Beyond(cursor)]
               /\ \A i, j \in 1..Len(shown) : i < j => Before(shown[i], shown[j])
               /\ page.next # NoCursor =>
                     /\ Len(shown) > 0 /\ page.next = shown[Len(shown)]
                     /\ \E r \in Beyond(cursor) : Before(page.next, r)
               /\ \A r \in Beyond(cursor) :
                     r \in ToSet(shown) \/ (page.next # NoCursor /\ Before(page.next, r))
<1> DEFINE S == Beyond(cursor)
           N == Cardinality(S)
           s == Ordered(S)
           entries == UpTo(limit + 1, s)
           page == GetByWalletID(cursor, limit)
           k == IF limit < N THEN limit ELSE N
<1>1. /\ S \in SUBSET Row /\ N \in 0..MaxRow /\ N \in Nat /\ MaxRow \in Nat
      /\ limit \in Nat /\ limit > 0
  BY BeyondAreRows, LedgerPagesAssumption
<1>2. /\ s \in [1..N -> S]
      /\ \A i, j \in 1..N : i < j => Before(s[i], s[j])
      /\ \A r \in S : \E i \in 1..N : s[i] = r
  BY <1>1, OrderedIsComplete
<1>3. AfterCursor(cursor) = s
  BY DEF AfterCursor, Beyond
<1> HIDE DEF s, S, N
<1>0. limit + 1 \in Nat
  BY <1>1
<1>4. /\ entries = [i \in 1..(IF limit + 1 < N THEN limit + 1 ELSE N) |-> s[i]]
      /\ Len(entries) = IF limit + 1 < N THEN limit + 1 ELSE N
  BY <1>0, <1>1, <1>2, UpToIsAPrefix
<1>5. UpTo(limit, entries) = [i \in 1..k |-> s[i]]
  <2> DEFINE m == IF limit + 1 < N THEN limit + 1 ELSE N
  <2>1. m \in Nat /\ limit \in Nat /\ entries \in [1..m -> S]
    BY <1>0, <1>1, <1>2, <1>4
  <2> HIDE DEF m, entries
  <2>2. /\ UpTo(limit, entries) = [i \in 1..(IF limit < m THEN limit ELSE m) |-> entries[i]]
        /\ Len(UpTo(limit, entries)) = IF limit < m THEN limit ELSE m
    BY <2>1, UpToIsAPrefix
  <2>3. (IF limit < m THEN limit ELSE m) = k
    BY <1>1 DEF m
  <2>4. \A i \in 1..k : entries[i] = s[i]
    BY <1>1, <1>4 DEF m
  <2> QED
    BY <2>2, <2>3, <2>4
<1>6. /\ page.rows = [i \in 1..k |-> s[i]]
      /\ page.next = IF N > limit THEN s[limit] ELSE NoCursor
      /\ page.upto = Len(rows)
      /\ page = [rows |-> page.rows, next |-> page.next, upto |-> page.upto]
  BY <1>1, <1>3, <1>4, <1>5 DEF GetByWalletID
<1> HIDE DEF page, entries
<1>7. k \in Nat /\ k <= N /\ k <= MaxRow /\ Len(page.rows) = k /\ page.rows \in [1..k -> S]
  BY <1>1, <1>2, <1>6
<1>8. page \in Page
  <2>1. page.rows \in BoundedSeq(Row, MaxRow)
    BY <1>1, <1>7 DEF BoundedSeq, SeqOf
  <2>2. page.next \in Row \cup {NoCursor}
    BY <1>1, <1>2, <1>6
  <2>3. page.upto \in 0..MaxRow
    BY <1>6, BeyondAreRows
  <2> QED
    BY <1>6, <2>1, <2>2, <2>3 DEF Page
<1>9. \A i, j \in 1..k : i < j => Before(page.rows[i], page.rows[j])
  BY <1>1, <1>2, <1>6
<1>10. CASE N > limit
  <2>1. k = limit /\ page.next = s[limit] /\ page.next = page.rows[k] /\ k > 0
    BY <1>1, <1>6, <1>10
  <2>2. s[limit] \in Row /\ s[limit] # NoCursor
    BY <1>1, <1>2, <1>10, RowsAreOrdered
  <2>3. s[limit + 1] \in S /\ Before(page.next, s[limit + 1])
    <3>1. limit \in 1..N /\ limit + 1 \in 1..N /\ limit < limit + 1
      BY <1>1, <1>10
    <3>2. s[limit + 1] \in S /\ Before(s[limit], s[limit + 1])
      BY <1>2, <3>1
    <3> QED
      BY <2>1, <3>2
  <2>4. ASSUME NEW r \in S PROVE r \in ToSet(page.rows) \/ Before(page.next, r)
    <3>1. PICK i \in 1..N : s[i] = r
      BY <1>2
    <3>2. CASE i <= limit
      BY <1>1, <1>6, <2>1, <3>1, <3>2 DEF ToSet
    <3>3. CASE i > limit
      <4>1. limit \in 1..N /\ limit < i
        BY <1>1, <1>10, <3>3
      <4>2. Before(s[limit], s[i])
        BY <1>2, <4>1
      <4> QED
        BY <2>1, <3>1, <4>2
    <3> QED
      BY <1>1, <3>2, <3>3
  <2> QED
    BY <1>6, <1>7, <1>8, <1>9, <2>1, <2>2, <2>3, <2>4 DEF S, page
<1>11. CASE ~(N > limit)
  <2>1. k = N /\ page.next = NoCursor
    BY <1>1, <1>6, <1>11
  <2>2. \A r \in S : r \in ToSet(page.rows)
    BY <1>2, <1>6, <2>1 DEF ToSet
  <2> QED
    BY <1>6, <1>7, <1>8, <1>9, <2>1, <2>2 DEF S, page
<1> QED
  BY <1>10, <1>11

-----------------------------------------------------------------------------
\* Page n of reader r: a prefix of what its cursor asks for, behind all earlier cursors; its
\* own cursor is its last row, and rows that were there when it was read follow that.
PageOK(r, n) ==
    LET page == pages[r][n]
    IN  /\ page.upto <= Len(rows)
        /\ n > 1 => page.rows # <<>>
        /\ \A i, j \in DOMAIN page.rows : i < j => Before(page.rows[i], page.rows[j])
        /\ page.next # NoCursor =>
              /\ page.rows # <<>>
              /\ page.next = Last(page.rows)
              /\ \E k \in 1..page.upto : Before(page.next, rows[k])
        /\ \A m \in 1..(n - 1) :
              /\ pages[r][m].next # NoCursor
              /\ \A i \in DOMAIN page.rows : Before(pages[r][m].next, page.rows[i])

\* What PagesSkipOnlyLateRows says of row k and that page.
Accounted(r, n, k) ==
    \/ rows[k] \in Read(r, n)
    \/ \E m \in 1..(n - 1) : k > pages[r][m].upto /\ ~Before(pages[r][m].next, rows[k])
    \/ pages[r][n].next # NoCursor /\ Before(pages[r][n].next, rows[k])

PagesInv ==
    /\ rows \in BoundedSeq(Row, MaxRow)
    /\ pages \in [Reader -> Seq(Page)]
    /\ \A r \in Reader : \A n \in DOMAIN pages[r] :
          PageOK(r, n) /\ \A k \in 1..pages[r][n].upto : Accounted(r, n, k)

LEMMA InitPagesInv == PagesInit => PagesInv
<1> SUFFICES ASSUME PagesInit PROVE PagesInv
  OBVIOUS
<1>1. rows \in [1..0 -> Row] /\ 0 \in 0..MaxRow
  BY LedgerPagesAssumption DEF PagesInit
<1>2. rows \in BoundedSeq(Row, MaxRow)
  BY <1>1 DEF BoundedSeq, SeqOf
<1>3. \A r \in Reader : pages[r] = <<>>
  BY DEF PagesInit
<1> QED
  BY <1>2, <1>3 DEF PagesInit, PagesInv

LEMMA PagesInvImplies ==
    PagesInv => PagesTypeOK /\ PagesMoveForward /\ PagesSkipOnlyLateRows
<1> SUFFICES ASSUME PagesInv PROVE PagesTypeOK /\ PagesMoveForward /\ PagesSkipOnlyLateRows
  OBVIOUS
<1>1. PagesTypeOK
  BY DEF PagesInv, PagesTypeOK
<1>2. PagesSkipOnlyLateRows
  BY DEF PagesInv, Accounted, PagesSkipOnlyLateRows
<1>3. PagesMoveForward
  <2> SUFFICES ASSUME NEW r \in Reader, NEW m \in DOMAIN pages[r], NEW n \in DOMAIN pages[r],
                      NEW i \in DOMAIN pages[r][m].rows, NEW j \in DOMAIN pages[r][n].rows,
                      m < n \/ (m = n /\ i < j)
               PROVE  Before(pages[r][m].rows[i], pages[r][n].rows[j])
    BY DEF PagesInv, PageOK, PagesMoveForward
  <2> DEFINE p == pages[r][m].rows
             q == pages[r][n].rows
             c == pages[r][m].next
  <2>1. PageOK(r, m) /\ PageOK(r, n) /\ pages[r] \in Seq(Page) /\ m \in Nat /\ n \in Nat
    BY DEF PagesInv
  <2>2. CASE m = n
    BY <2>1, <2>2 DEF PageOK
  <2>3. CASE m < n
    <3>1. m \in 1..(n - 1)
      BY <2>1, <2>3
    <3>2. c # NoCursor /\ Before(c, q[j])
      BY <2>1, <3>1 DEF PageOK
    <3>3. c = p[Len(p)] /\ \A a, b \in DOMAIN p : a < b => Before(p[a], p[b])
      BY <2>1, <3>2 DEF PageOK, Last
    <3>4. /\ DOMAIN p = 1..Len(p) /\ Len(p) \in Nat
          /\ p[i] \in Row /\ p[Len(p)] \in Row /\ q[j] \in Row
      <4>1. pages[r][m] \in Page /\ pages[r][n] \in Page
        BY <2>1
      <4>2. p \in BoundedSeq(Row, MaxRow) /\ q \in BoundedSeq(Row, MaxRow)
        BY <4>1 DEF Page
      <4>3. PICK a \in 0..MaxRow : p \in [1..a -> Row]
        BY <4>2 DEF BoundedSeq, SeqOf
      <4>4. PICK b \in 0..MaxRow : q \in [1..b -> Row]
        BY <4>2 DEF BoundedSeq, SeqOf
      <4>5. a \in Nat /\ b \in Nat
        BY LedgerPagesAssumption
      <4> QED
        BY <4>3, <4>4, <4>5
    <3>5. i < Len(p) \/ i = Len(p)
      BY <3>4
    <3>6. i < Len(p) => Before(p[i], p[Len(p)])
      BY <3>3, <3>4
    <3> QED
      BY <3>2, <3>3, <3>4, <3>5, <3>6, RowsAreOrdered
  <2> QED
    BY <2>2, <2>3
<1> QED
  BY <1>1, <1>2, <1>3

LEMMA PostKeeps == PagesInv /\ Post => PagesInv'
<1> SUFFICES ASSUME PagesInv, Post PROVE PagesInv'
  OBVIOUS
<1>1. PICK late \in 0..Skew, id \in 1..MaxRow :
         late <= Len(rows) /\ rows' = Append(rows, <<Len(rows) + 1 - late, id>>)
  BY DEF Post
<1>2. Len(rows) \in 0..MaxRow /\ rows \in [1..Len(rows) -> Row] /\ Len(rows) < MaxRow
  BY BeyondAreRows DEF PagesInv, Post
<1>3. Skew \in Nat /\ MaxRow \in Nat /\ Len(rows) \in Nat
  BY <1>2, LedgerPagesAssumption
<1>4. <<Len(rows) + 1 - late, id>> \in Row
  BY <1>1, <1>2, <1>3 DEF Row
<1>5. rows' \in [1..(Len(rows) + 1) -> Row] /\ Len(rows)' = Len(rows) + 1
      /\ \A k \in 1..Len(rows) : rows'[k] = rows[k]
  <2> DEFINE row == <<Len(rows) + 1 - late, id>>
  <2>1. row \in Row /\ rows \in Seq(Row) /\ rows' = Append(rows, row)
    BY <1>1, <1>2, <1>3, <1>4
  <2> HIDE DEF row
  <2>2. rows' \in Seq(Row) /\ Len(rows') = Len(rows) + 1
    BY <2>1
  <2>3. \A k \in 1..Len(rows) : rows'[k] = rows[k]
    BY <2>1
  <2>4. rows' \in [1..Len(rows') -> Row]
    BY <2>2
  <2> QED
    BY <2>2, <2>3, <2>4
<1>6. (rows \in BoundedSeq(Row, MaxRow))'
  BY <1>2, <1>3, <1>5 DEF BoundedSeq, SeqOf
<1>7. pages' = pages
  BY DEF Post
<1>8. ASSUME NEW r \in Reader, NEW n \in DOMAIN pages[r]
      PROVE  (PageOK(r, n) /\ \A k \in 1..pages[r][n].upto : Accounted(r, n, k))'
  <2>1. pages[r][n].upto \in 0..Len(rows)
    <3>1. PageOK(r, n) /\ pages[r][n] \in Page
      BY DEF PagesInv
    <3> QED
      BY <1>3, <3>1 DEF PageOK, Page
  <2>2. \A k \in 1..pages[r][n].upto : rows'[k] = rows[k]
    BY <1>3, <1>5, <2>1
  <2>3. PageOK(r, n)'
    BY <1>3, <1>5, <1>7, <2>1, <2>2 DEF PagesInv, PageOK
  <2>4. ASSUME NEW k \in 1..pages[r][n].upto PROVE Accounted(r, n, k)'
    <3>1. Accounted(r, n, k) /\ rows'[k] = rows[k]
      BY <2>2 DEF PagesInv
    <3> QED
      BY <1>7, <3>1 DEF Accounted, Read
  <2> QED
    BY <1>7, <2>3, <2>4
<1> QED
  BY <1>6, <1>7, <1>8 DEF PagesInv

LEMMA PagesShape ==
    ASSUME PagesInv, NEW r \in Reader
    PROVE  /\ pages[r] \in Seq(Page) /\ Len(pages[r]) \in Nat
           /\ DOMAIN pages[r] = 1..Len(pages[r])
           /\ \A n \in 1..Len(pages[r]) :
                 /\ pages[r][n] \in Page /\ pages[r][n].upto \in Nat
                 /\ PageOK(r, n) /\ \A k \in 1..pages[r][n].upto : Accounted(r, n, k)
<1>1. pages[r] \in Seq(Page)
  BY DEF PagesInv
<1>2. \A p \in Page : p.upto \in Nat
  BY LedgerPagesAssumption DEF Page
<1>3. Len(pages[r]) \in Nat /\ DOMAIN pages[r] = 1..Len(pages[r])
  BY <1>1
<1>4. \A n \in 1..Len(pages[r]) : pages[r][n] \in Page
  BY <1>1
<1> QED
  BY <1>1, <1>2, <1>3, <1>4 DEF PagesInv

LEMMA GetPageKeeps ==
    ASSUME PagesInv, NEW c \in Reader, GetPage(c)
    PROVE  PagesInv'
<1>0. PICK N \in Nat : N = Len(pages[c])
  BY PagesShape
<1> DEFINE old == pages[c]
           cursor == IF old = <<>> THEN NoCursor ELSE Last(old).next
<1>1. PICK limit \in Limit :
         pages' = [pages EXCEPT ![c] = Append(@, GetByWalletID(cursor, limit))]
  BY DEF GetPage
<1> DEFINE page == GetByWalletID(cursor, limit)
           shown == page.rows
<1>2. rows' = rows /\ rows \in BoundedSeq(Row, MaxRow)
  BY DEF GetPage, PagesInv
<1>3. /\ page \in Page
      /\ page.upto = Len(rows)
      /\ Len(shown) \in Nat /\ shown \in [1..Len(shown) -> Beyond(cursor)]
      /\ \A i, j \in 1..Len(shown) : i < j => Before(shown[i], shown[j])
      /\ page.next # NoCursor =>
            /\ Len(shown) > 0 /\ page.next = shown[Len(shown)]
            /\ \E r \in Beyond(cursor) : Before(page.next, r)
      /\ \A r \in Beyond(cursor) :
            r \in ToSet(shown) \/ (page.next # NoCursor /\ Before(page.next, r))
  <2>1. limit \in Nat \ {0}
    BY LedgerPagesAssumption
  <2> HIDE DEF cursor
  <2> QED
    BY <1>2, <2>1, APageIsAPrefix
<1>4. Len(rows) \in Nat /\ rows \in [1..Len(rows) -> Row] /\ Beyond(cursor) \in SUBSET Row
  <2> HIDE DEF cursor
  <2> QED
    BY <1>2, BeyondAreRows
<1>5. /\ old \in Seq(Page) /\ Len(old) = N /\ DOMAIN old = 1..N
      /\ \A n \in 1..N : old[n] \in Page /\ old[n].upto \in Nat /\ PageOK(c, n)
  BY <1>0, PagesShape
<1>6. N > 0 => cursor = old[N].next /\ cursor # NoCursor /\ cursor \in Row
  <2>1. N > 0 => old # <<>> /\ N \in DOMAIN old /\ old[N] \in Page
    BY <1>5
  <2>2. N > 0 => cursor = old[N].next /\ cursor # NoCursor
    BY <1>0, <2>1 DEF GetPage, ReadAll, Last
  <2> QED
    BY <2>1, <2>2 DEF Page
<1>7. N = 0 => cursor = NoCursor
  BY <1>5
<1> HIDE DEF page, cursor
<1>8. /\ pages' \in [Reader -> Seq(Page)]
      /\ \A r \in Reader \ {c} : pages'[r] = pages[r]
      /\ DOMAIN pages'[c] = 1..(N + 1)
      /\ \A m \in 1..N : pages'[c][m] = old[m]
      /\ pages'[c][N + 1] = page
  <2>1. pages \in [Reader -> Seq(Page)]
    BY DEF PagesInv
  <2>2. pages' = [pages EXCEPT ![c] = Append(old, page)]
    BY <1>1 DEF page
  <2>3. /\ Append(old, page) \in Seq(Page)
        /\ DOMAIN Append(old, page) = 1..(N + 1)
        /\ \A m \in 1..N : Append(old, page)[m] = old[m]
        /\ Append(old, page)[N + 1] = page
    BY <1>3, <1>5
  <2>4. pages'[c] = Append(old, page)
    BY <2>1, <2>2
  <2> QED
    BY <2>1, <2>2, <2>3, <2>4
<1>9. ASSUME NEW r \in Reader, NEW n \in DOMAIN pages[r]
      PROVE  (PageOK(r, n) /\ \A k \in 1..pages[r][n].upto : Accounted(r, n, k))'
  <2>1. n \in Nat /\ n > 0 /\ \A m \in 1..n : pages'[r][m] = pages[r][m]
    <3>1. n \in 1..Len(pages[r]) /\ Len(pages[r]) \in Nat
      BY PagesShape
    <3>2. CASE r = c
      <4>1. n \in 1..N
        BY <1>0, <3>1, <3>2
      <4>2. \A m \in 1..n : m \in 1..N
        BY <4>1
      <4> QED
        BY <1>8, <3>2, <4>1, <4>2
    <3>3. CASE r # c
      BY <1>8, <3>1, <3>3
    <3> QED
      BY <3>2, <3>3
  <2>2. pages'[r][n] = pages[r][n] /\ \A m \in 1..(n - 1) : pages'[r][m] = pages[r][m]
    BY <2>1
  <2>3. PageOK(r, n) /\ \A k \in 1..pages[r][n].upto : Accounted(r, n, k)
    BY DEF PagesInv
  <2>4. PageOK(r, n)'
    BY <1>2, <2>2, <2>3 DEF PageOK
  <2>5. Read(r, n)' = Read(r, n)
    BY <2>1 DEF Read
  <2>6. \A k \in 1..pages[r][n].upto : Accounted(r, n, k)'
    BY <1>2, <2>2, <2>3, <2>5 DEF Accounted
  <2> QED
    BY <2>2, <2>4, <2>6
<1>10. PageOK(c, N + 1)'
  <2>1. page.upto <= Len(rows)
    BY <1>3, <1>4
  <2>2. N + 1 > 1 => shown # <<>>
    <3> SUFFICES ASSUME N > 0 PROVE shown # <<>>
      BY <1>5
    <3>1. PageOK(c, N) /\ old[N].upto \in Nat
      BY <1>5
    <3>2. PICK k \in 1..old[N].upto : Before(cursor, rows[k])
      BY <1>6, <3>1 DEF PageOK
    <3>3. rows[k] \in Beyond(cursor)
      BY <1>4, <3>1, <3>2 DEF PageOK, Beyond, ToSet
    <3>4. CASE rows[k] \in ToSet(shown)
      BY <3>4 DEF ToSet
    <3>5. CASE page.next # NoCursor
      BY <1>3, <3>5
    <3> QED
      BY <1>3, <3>3, <3>4, <3>5
  <2>3. \A i, j \in DOMAIN shown : i < j => Before(shown[i], shown[j])
    BY <1>3
  <2>4. page.next # NoCursor =>
           /\ shown # <<>> /\ page.next = Last(shown)
           /\ \E k \in 1..page.upto : Before(page.next, rows[k])
    <3> SUFFICES ASSUME page.next # NoCursor
                 PROVE  /\ shown # <<>> /\ page.next = Last(shown)
                        /\ \E k \in 1..page.upto : Before(page.next, rows[k])
      OBVIOUS
    <3>1. PICK r \in Beyond(cursor) : Before(page.next, r)
      BY <1>3
    <3>2. \E k \in 1..Len(rows) : r = rows[k]
      BY <1>4, <3>1 DEF Beyond, ToSet
    <3> QED
      BY <1>3, <3>1, <3>2 DEF Last
  <2>5. ASSUME NEW m \in 1..N
        PROVE  /\ old[m].next # NoCursor
               /\ \A i \in DOMAIN shown : Before(old[m].next, shown[i])
    <3>1. N > 0 /\ m \in Nat /\ m <= N
      BY <1>5
    <3>2. \A i \in DOMAIN shown : shown[i] \in Row /\ Before(cursor, shown[i])
      BY <1>3, <1>4, <1>6, <3>1 DEF Beyond
    <3>3. CASE m = N
      BY <1>6, <3>1, <3>2, <3>3
    <3>4. CASE m < N
      <4>1. m \in 1..(N - 1) /\ N \in DOMAIN old /\ old[N] \in Page /\ old[m] \in Page
        BY <1>5, <3>1, <3>4
      <4>2. PageOK(c, N)
        BY <1>5, <3>1
      <4>3. /\ old[m].next # NoCursor
            /\ \A i \in DOMAIN old[N].rows : Before(old[m].next, old[N].rows[i])
        BY <4>1, <4>2 DEF PageOK
      <4>4. old[N].rows # <<>> /\ cursor = Last(old[N].rows)
        BY <1>6, <3>1, <4>2 DEF PageOK
      <4>5. PICK a \in 0..MaxRow : old[N].rows \in [1..a -> Row]
        BY <4>1 DEF Page, BoundedSeq, SeqOf
      <4>6. Len(old[N].rows) \in DOMAIN old[N].rows
        BY <4>4, <4>5, LedgerPagesAssumption
      <4>7. Before(old[m].next, cursor)
        BY <4>3, <4>4, <4>6 DEF Last
      <4>8. old[m].next \in Row /\ cursor \in Row
        BY <1>6, <3>1, <4>1, <4>3 DEF Page
      <4> QED
        BY <3>2, <4>3, <4>7, <4>8, RowsAreOrdered
    <3> QED
      BY <3>1, <3>3, <3>4
  <2>6. (N + 1) - 1 = N
    BY <1>5
  <2> QED
    BY <1>2, <1>8, <2>1, <2>2, <2>3, <2>4, <2>5, <2>6 DEF PageOK
<1>11. ASSUME NEW k \in 1..Len(rows) PROVE Accounted(c, N + 1, k)'
  <2>1. rows[k] \in Row /\ rows[k] \in ToSet(rows)
    BY <1>4 DEF ToSet
  <2>2. ToSet(shown) \subseteq Read(c, N + 1)' /\ Read(c, N) \subseteq Read(c, N + 1)'
    BY <1>5, <1>8 DEF Read
  <2>3. (N + 1) - 1 = N
    BY <1>5
  <2>4. CASE rows[k] \in Beyond(cursor)
    BY <1>2, <1>3, <1>8, <2>2, <2>4 DEF Accounted
  <2>5. CASE rows[k] \notin Beyond(cursor)
    <3>1. N > 0 /\ ~Before(cursor, rows[k])
      BY <1>5, <1>7, <2>1, <2>5 DEF Beyond
    <3>2. N \in 1..N /\ old[N] \in Page /\ old[N].upto \in Nat
      BY <1>5, <3>1
    <3>3. CASE k > old[N].upto
      BY <1>2, <1>6, <1>8, <2>3, <3>1, <3>2, <3>3 DEF Accounted
    <3>4. CASE k <= old[N].upto
      <4>1. Accounted(c, N, k)
        BY <1>0, <3>2, <3>4, PagesShape
      <4>2. CASE rows[k] \in Read(c, N)
        BY <1>2, <2>2, <4>2 DEF Accounted
      <4>3. CASE \E m \in 1..(N - 1) : k > old[m].upto /\ ~Before(old[m].next, rows[k])
        <5>1. PICK m \in 1..(N - 1) : k > old[m].upto /\ ~Before(old[m].next, rows[k])
          BY <4>3
        <5>2. m \in 1..N
          BY <1>5, <5>1
        <5> QED
          BY <1>2, <1>8, <2>3, <5>1, <5>2 DEF Accounted
      <4> QED
        BY <1>6, <3>1, <4>1, <4>2, <4>3 DEF Accounted
    <3> QED
      BY <3>2, <3>3, <3>4
  <2> QED
    BY <2>4, <2>5
<1>12. \A k \in 1..page.upto : Accounted(c, N + 1, k)'
  BY <1>3, <1>11
<1>13. ASSUME NEW r \in Reader, NEW n \in DOMAIN pages'[r]
       PROVE  (PageOK(r, n) /\ \A k \in 1..pages[r][n].upto : Accounted(r, n, k))'
  <2>1. CASE r = c /\ n = N + 1
    BY <1>8, <1>10, <1>12, <2>1
  <2>2. CASE ~(r = c /\ n = N + 1)
    <3>1. n \in DOMAIN pages[r]
      BY <1>5, <1>8, <2>2
    <3> QED
      BY <1>9, <3>1
  <2> QED
    BY <2>1, <2>2
<1> QED
  BY <1>2, <1>8, <1>13 DEF PagesInv

-----------------------------------------------------------------------------
(* The routes.                                                             *)

QueryInv == CacheInv /\ PagesInv

\* Behind the middleware, a step is one of the cache, one of the pages, or both at once.
LEMMA ApiSteps ==
    ASSUME [ApiNext]_apiVars
    PROVE  /\ [CacheNext]_cacheVars
           /\ Post \/ (\E c \in Reader : GetPage(c)) \/ UNCHANGED pageVars
<1>1. CASE UNCHANGED apiVars
  BY <1>1 DEF apiVars
<1>2. CASE ApiNext
  BY <1>2 DEF ApiNext, CacheNext, Request, Authenticate, HandleGetLedger
<1> QED
  BY <1>1, <1>2

LEMMA InitQueryInv == ApiInit => QueryInv
BY InitCacheInv, InitPagesInv DEF ApiInit, QueryInv

LEMMA StepQueryInv == QueryInv /\ [ApiNext]_apiVars => QueryInv'
<1> SUFFICES ASSUME QueryInv, [ApiNext]_apiVars PROVE QueryInv'
  OBVIOUS
<1>1. CacheInv'
  BY ApiSteps, StepCacheInv DEF QueryInv
<1>2. PagesInv'
  <2>1. CASE UNCHANGED pageVars
    BY <2>1 DEF QueryInv, PagesInv, PageOK, Accounted, Read, pageVars
  <2>2. CASE Post
    BY <2>2, PostKeeps DEF QueryInv
  <2>3. CASE \E c \in Reader : GetPage(c)
    BY <2>3, GetPageKeeps DEF QueryInv
  <2> QED
    BY <2>1, <2>2, <2>3, ApiSteps
<1> QED
  BY <1>1, <1>2 DEF QueryInv

\* What a handler does with an accepted request, and the readers that stop asking, take no
\* step the cache does not know: the theorems about the cache hold of the routes as well
\* (middleware.go 42-46).
THEOREM RoutesUseTheCache == ApiSpec => CacheSpec
<1>1. ApiInit => CacheInit
  BY DEF ApiInit
<1>2. [ApiNext]_apiVars => [CacheNext]_cacheVars
  BY ApiSteps
<1> QED
  BY <1>1, <1>2, PTL DEF ApiSpec, CacheSpec

LEMMA QueryInvariant == ApiSpec => []QueryInv
BY InitQueryInv, StepQueryInv, PTL DEF ApiSpec

\* The cache, the requests, the ledger and the pages keep their types (validator.go 56-65,
\* ledger_repo.go 16-21).
THEOREM QueryTypeCorrect == ApiSpec => []QueryTypeOK
<1>1. QueryInv => QueryTypeOK
  BY PagesInvImplies DEF QueryInv, CacheInv, QueryTypeOK
<1> QED
  BY <1>1, QueryInvariant, PTL

\* For every page size and every order in which rows are stamped and committed: no row
\* twice, never backwards, no empty page behind a cursor (ledger_repo.go 91-109, 147-156).
THEOREM PagesAlwaysMoveForward == ApiSpec => []PagesMoveForward
<1>1. QueryInv => PagesMoveForward
  BY PagesInvImplies DEF QueryInv
<1> QED
  BY <1>1, QueryInvariant, PTL

\* and a reader misses a committed row only if its stamp put it behind a cursor that the
\* reader already held when the row was committed (ledger_repo.go 147-156).
THEOREM PagesAlwaysSkipOnlyLateRows == ApiSpec => []PagesSkipOnlyLateRows
<1>1. QueryInv => PagesSkipOnlyLateRows
  BY PagesInvImplies DEF QueryInv
<1> QED
  BY <1>1, QueryInvariant, PTL
=============================================================================
