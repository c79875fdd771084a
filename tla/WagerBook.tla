------------------------------ MODULE WagerBook ------------------------------
(***************************************************************************)
(* What the wager service promises, without sessions, locks or messages:   *)
(* a book of wallets in which transactions are settled atomically.  A      *)
(* settlement may concern several transactions, since the one that arrives *)
(* settles the reversals that were waiting for it.                         *)
(***************************************************************************)
EXTENDS Integers, Sequences

CONSTANTS
    Wallet, Tx, Key,
    Opening,  \* the transaction that opens each wallet
    None

VARIABLES
    open,     \* the wallets that exist
    balance,  \* what each of them holds
    journal,  \* per wallet: its movements in order, each [tx, dir, amount, before, after]
    status,   \* what has become of each transaction
    answered  \* the transaction a key's request was answered with

vars == <<open, balance, journal, status, answered>>

\* "posted" moved money and "noted" did not; a "waiting" transaction may still do either.
Fate == {"absent", "waiting", "posted", "noted", "refused"}
Settled == {"posted", "noted", "refused"}

Init ==
    /\ open = {}
    /\ balance = [w \in Wallet |-> 0]
    /\ journal = [w \in Wallet |-> <<>>]
    /\ status = [t \in Tx |-> "absent"]
    /\ answered = [k \in Key |-> None]

-----------------------------------------------------------------------------
\* The places in the journal of wallet w that a step fills.
Added(w) == (Len(journal[w]) + 1)..Len(journal'[w])
Becomes(t, fate) == status[t] # fate /\ status'[t] = fate

Result(m) == IF m.dir = "CREDIT" THEN m.before + m.amount ELSE m.before - m.amount

\* Every movement starts where the one before it ended, and ends at zero or above.
Runs(s) ==
    \A i \in 1..Len(s) : /\ s[i].before = IF i = 1 THEN 0 ELSE s[i - 1].after
                         /\ s[i].after = Result(s[i])
                         /\ s[i].after >= 0

\* A journal only grows, and the balance is where it ends.
Posts(w) ==
    /\ Len(journal'[w]) >= Len(journal[w])
    /\ SubSeq(journal'[w], 1, Len(journal[w])) = journal[w]
    /\ Runs(journal'[w])
    /\ balance'[w] = IF journal'[w] = <<>> THEN 0 ELSE journal'[w][Len(journal'[w])].after

\* A transaction moves money in the very step that posts it, once and on one wallet.
PostsEach ==
    /\ \A w \in Wallet : \A i \in Added(w) : Becomes(journal'[w][i].tx, "posted")
    /\ \A t \in Tx : Becomes(t, "posted") =>
          \E w \in Wallet : \E i \in Added(w) :
              /\ journal'[w][i].tx = t
              /\ \A v \in Wallet : \A j \in Added(v) : journal'[v][j].tx = t => v = w /\ j = i

Open(w) ==
    /\ w \notin open
    /\ open' = open \cup {w}
    /\ \A v \in Wallet \ {w} : journal'[v] = journal[v] /\ balance'[v] = balance[v]
    /\ Posts(w)
    /\ PostsEach
    /\ \A t \in Tx : status'[t] # status[t] => t = Opening[w] /\ Becomes(t, "posted")
    /\ UNCHANGED answered

\* What has been settled stays, and a key is answered with a transaction settled for good
\* in the step that settles it, and never again.
Settle ==
    /\ UNCHANGED open
    /\ \A w \in Wallet : Posts(w) /\ (w \in open \/ Added(w) = {})
    /\ PostsEach
    /\ \A t \in Tx : \/ status'[t] = status[t]
                     \/ status[t] = "absent" /\ status'[t] \in Fate \ {"absent"}
                     \/ status[t] = "waiting" /\ status'[t] \in {"posted", "refused"}
    /\ \A k \in Key : answered'[k] # answered[k] =>
          /\ answered[k] = None
          /\ answered'[k] \in Tx
          /\ status[answered'[k]] = "absent"
          /\ status'[answered'[k]] \in Settled

Next == (\E w \in Wallet : Open(w)) \/ Settle

Spec == Init /\ [][Next]_vars
=============================================================================
