-------------------------- MODULE ResolverInvariants --------------------------
(***************************************************************************)
(* What the handlers and the periodic workers guarantee together, beyond   *)
(* the properties of WagerInvariants.                                      *)
(***************************************************************************)
EXTENDS WagerInvariants, PendingRefResolver

\* Types of every variable of the composed system.
SystemTypeOK ==
    /\ TypeOK
    /\ rpc \in [Worker -> RoundSteps]
    /\ items \in [Worker -> [ExtId -> Sighting]]
    /\ current \in [Worker -> ExtId \cup {None}]
    /\ aged \subseteq ExtId

\* While a round works on a row nobody else can settle it: the worker holds its lock and
\* it is still parked.  The in-memory copy the round works on is therefore never stale
\* (pending_ref_resolver.go 140-194; FOR UPDATE OF p SKIP LOCKED).
RoundOwnsItsItems ==
    \A a \in Worker, k \in ExtId :
        items[a][k] # None => holder[k] = a /\ PendingReference(k)

\* Two parked reversals of one kind, sent for one wallet, never both reverse the same
\* original, whichever of the two moments settles them: the guard of
\* resolveSinglePendingRef (908-927) reads the other one without locking it, so it is the
\* wallet they share that orders them.
OneResolutionPerKind ==
    \A j, k \in ExtId :
        /\ j # k
        /\ wager[j] # None /\ wager[j].resolved # None
        /\ wager[k] # None /\ wager[k].resolved = wager[j].resolved
        /\ wager[k].wallet = wager[j].wallet
        => wager[j].kind # wager[k].kind

\* A reversal settled against an original names the one it was sent for, that original was
\* processed, and its money moves the other way than that one's did: a
\* ROLLBACK of a WIN takes money back (matrix of ARCHITECTURE.md 8.2).  The two rows may be
\* on two wallets: a handler moves the wallet of the original, a round that of the reversal.
ReversalOpposesOriginal ==
    \A k \in ExtId : wager[k] # None /\ wager[k].resolved # None =>
        LET p == wager[k]
            original == wager[p.ref]
        IN  /\ p.resolved = p.ref
            /\ p.status = "PROCESSED" /\ original # None /\ original.status = "PROCESSED"
            /\ original.kind = "BET" \/ (original.kind = "WIN" /\ p.kind = "ROLLBACK") =>
                  \E v, w \in Wallet : \E i \in RowsOf(v, k), j \in RowsOf(w, p.ref) :
                      ledger[v][i].dir # ledger[w][j].dir

-----------------------------------------------------------------------------
(* Waiting and progress.                                                   *)

\* "sem bloqueios mutuos e sem risco de deadlocks (40P01)", ARCHITECTURE.md 8.1, and the
\* comment of GetAllResolvable: the sessions never wait for each other in a circle.
NoDeadlock == \A S \in SUBSET (Handler \cup Worker) : S # {} => ~Deadlocked(S)

\* No reversal stays parked for ever: its original arrives, or it expires, however often
\* handlers and rounds crash before that, unless it no longer fits its wallet or a
\* reversal whose amount the ledger cannot hold is parked too
\* (pending_ref_resolver.go 140-200).
ParkedReversalSettles ==
    \A k \in ExtId :
        PendingReference(k) ~>
            \/ ~PendingReference(k)
            \/ ~Affordable("CREDIT", wallet[wager[k].wallet].balance, wager[k].amount)
            \/ \E j \in ExtId : PendingReference(j) /\ ~Postable(wager[j].amount)

\* "Para garantir que nenhuma mensagem permaneca indefinidamente em PENDING_REFERENCE",
\* ARCHITECTURE.md 8.3: the same without the exception.
NothingStaysParked == \A k \in ExtId : PendingReference(k) ~> ~PendingReference(k)

\* Every call ends: an answer, or a rollback when the handler dies.  Unique-key conflicts
\* are retried a bounded number of times, and no lock is waited for without end.
EveryCallEnds == \A h \in Handler : pc[h] # "idle" ~> pc[h] = "idle"
=============================================================================
