------------------------------ MODULE LedgerPages ------------------------------
(***************************************************************************)
(* GET /wallets/{walletId}/ledger: the keyset pages of                     *)
(* pkg/repository/ledger_repo.go for readers of one wallet while its       *)
(* ledger grows.                                                           *)
(*                                                                         *)
(* Rows of one wallet commit one after the other, but each is stamped by   *)
(* the clock of the replica that wrote it and ties are broken by a random  *)
(* id.  Left out: the base64 text of the cursor, the JSON of the rows.     *)
(***************************************************************************)
EXTENDS Naturals, FiniteSets, SequencesExt

CONSTANTS
    Reader,   \* clients that read the ledger from its start
    Limit,    \* the page sizes they ask for
    MaxRow,   \* bound: ledger rows of the wallet
    Skew      \* bound: by how many rows a clock may be behind

ASSUME LedgerPagesAssumption ==
    /\ Limit \subseteq Nat \ {0}
    /\ MaxRow \in Nat \ {0} /\ Skew \in Nat

VARIABLES
    rows,   \* the committed rows, in commit order: created_at and id
    pages   \* per reader: the pages it has got

pageVars == <<rows, pages>>

NoCursor == <<>>

Row == (1..MaxRow) \X (1..MaxRow)

\* A page with the number of rows committed when it was read (history).
Page == [rows : BoundedSeq(Row, MaxRow), next : Row \cup {NoCursor}, upto : 0..MaxRow]

PagesTypeOK ==
    /\ rows \in BoundedSeq(Row, MaxRow)
    /\ DOMAIN pages = Reader
    /\ \A r \in Reader : \A i \in DOMAIN pages[r] : pages[r][i] \in Page

PagesInit == rows = <<>> /\ pages = [r \in Reader |-> <<>>]

-----------------------------------------------------------------------------
\* Another movement of the wallet commits.
Post ==
    /\ Len(rows) < MaxRow
    /\ \E late \in 0..Skew, id \in 1..MaxRow :
          /\ late <= Len(rows)
          /\ \A i \in DOMAIN rows : rows[i][2] # id
          /\ rows' = Append(rows, <<Len(rows) + 1 - late, id>>)
    /\ UNCHANGED pages

Before(r, s) == r[1] < s[1] \/ (r[1] = s[1] /\ r[2] < s[2])

\* The sequence of a set of rows in their order.
Ordered(S) ==
    CHOOSE s \in [1..Cardinality(S) -> S] : \A i, j \in DOMAIN s : i < j => Before(s[i], s[j])

AfterCursor(cursor) == Ordered({r \in ToSet(rows) : cursor = NoCursor \/ Before(cursor, r)})

UpTo(n, s) == SubSeq(s, 1, IF n < Len(s) THEN n ELSE Len(s))

\* A cursor after every full page.
GetByWalletIDFull(cursor, limit) ==
    LET entries == UpTo(limit, AfterCursor(cursor))
    IN  [rows |-> entries,
         next |-> IF Len(entries) = limit THEN entries[limit] ELSE NoCursor,
         upto |-> Len(rows)]

\* The cursor of the row that tells there is more.
GetByWalletIDSkipping(cursor, limit) ==
    LET entries == UpTo(limit + 1, AfterCursor(cursor))
    IN  [rows |-> UpTo(limit, entries),
         next |-> IF Len(entries) > limit THEN entries[limit + 1] ELSE NoCursor,
         upto |-> Len(rows)]

\* One row more than asked for tells whether there is a next page.
GetByWalletID(cursor, limit) ==
    LET entries == UpTo(limit + 1, AfterCursor(cursor))
    IN  [rows |-> UpTo(limit, entries),
         next |-> IF Len(entries) > limit THEN entries[limit] ELSE NoCursor,
         upto |-> Len(rows)]

ReadAll(r) == pages[r] # <<>> /\ Last(pages[r]).next = NoCursor

\* The reader follows nextCursor until there is none, and may change the limit on the way.
GetPage(r) ==
    /\ ~ReadAll(r)
    /\ \E limit \in Limit :
          LET cursor == IF pages[r] = <<>> THEN NoCursor ELSE Last(pages[r]).next
          IN  pages' = [pages EXCEPT ![r] = Append(@, GetByWalletID(cursor, limit))]
    /\ UNCHANGED rows

-----------------------------------------------------------------------------
\* The rows of the first n pages.
Read(r, n) == UNION {ToSet(pages[r][m].rows) : m \in 1..n}

\* No row is shown twice, rows never run backwards from one page to the next, whatever
\* commits between the requests, and a cursor never leads to an empty page
\* (ledger_repo.go 91-109, 147-156; query_endpoints_test.go 90).
PagesMoveForward ==
    \A r \in Reader : \A m, n \in DOMAIN pages[r] :
        /\ \A i \in DOMAIN pages[r][m].rows, j \in DOMAIN pages[r][n].rows :
              m < n \/ (m = n /\ i < j) => Before(pages[r][m].rows[i], pages[r][n].rows[j])
        /\ n > 1 => pages[r][n].rows # <<>>

\* Every page completes the ledger up to its last row as it was committed then: a row that
\* was there is shown by that page or an earlier one, unless its stamp put it behind a
\* cursor the reader already held when it was committed (ledger_repo.go 147-156).
PagesSkipOnlyLateRows ==
    \A r \in Reader : \A n \in DOMAIN pages[r] :
        LET page == pages[r][n]
            late(k) == \E m \in 1..(n - 1) :
                          /\ k > pages[r][m].upto
                          /\ ~Before(pages[r][m].next, rows[k])
        IN  \A k \in 1..page.upto :
                \/ rows[k] \in Read(r, n)
                \/ late(k)
                \/ page.next # NoCursor /\ Before(page.next, rows[k])
=============================================================================
