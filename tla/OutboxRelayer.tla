---------------------------- MODULE OutboxRelayer ----------------------------
(***************************************************************************)
(* pkg/service/outbox_relayer.go and the statements of                     *)
(* pkg/repository/outbox_repo.go: relayers, one per replica, claim batches *)
(* of pending outbox rows under a lease, publish them to SQS and mark them.*)
(* Claim, MarkPublished and MarkFailed are statements of their own: there  *)
(* is no transaction around a batch.                                       *)
(*                                                                         *)
(* An event is its place in the created_at order.  Left out: payloads, the *)
(* length of leases and back-offs, GetLag.                                 *)
(***************************************************************************)
EXTENDS Integers, FiniteSets, Sequences

CONSTANTS
    Relayer,     \* relayers running at the same time
    MaxEvent,    \* events 1..MaxEvent are inserted
    BatchSize,   \* rows per claim: 50 in the code
    MaxRetries,  \* claims after which a failed publish is final: 5 in the code
    CountCap     \* bound on retry_count, which the code increases without a limit

ASSUME RelayerAssumption ==
    /\ MaxEvent \in Nat
    /\ BatchSize \in Nat \ {0}
    /\ MaxRetries \in Nat \ {0}
    /\ CountCap \in Nat /\ CountCap >= MaxRetries

VARIABLES
    row,       \* outbox_events
    batch,     \* per relayer: claimed events it has still to publish, with the retry
               \* count the claim returned
    sending,   \* per relayer: the publish whose outcome it has still to record
    queue,     \* events SQS accepted, in the order it first accepted them
    overtaken  \* events whose lease ran out before their relayer was through with them

vars == <<row, batch, sending, queue, overtaken>>

Event == 1..MaxEvent
OutboxStatuses == {"PENDING", "PUBLISHED", "FAILED"}
Absent == [inserted |-> FALSE, status |-> "PENDING", retries |-> 0, due |-> TRUE, leased |-> FALSE]
EmptyBatch == [e \in {} |-> 0]
Idle == [event |-> 0, retries |-> 0, sent |-> FALSE]

Init ==
    /\ row = [e \in Event |-> Absent]
    /\ batch = [r \in Relayer |-> EmptyBatch]
    /\ sending = [r \in Relayer |-> Idle]
    /\ queue = <<>>
    /\ overtaken = {}

\* Relayer r still has event e in its hands.
Holds(r, e) == e \in DOMAIN batch[r] \/ sending[r].event = e

Queued(e) == \E i \in 1..Len(queue) : queue[i] = e

-----------------------------------------------------------------------------
\* A handler's commit makes a row visible; created_at was taken before the commit, so
\* rows need not appear in that order.
Insert(e) ==
    /\ ~row[e].inserted
    /\ row' = [row EXCEPT ![e].inserted = TRUE]
    /\ UNCHANGED <<batch, sending, queue, overtaken>>

\* The WHERE clause of ClaimPending without the lease.
ClaimableAnyLease(e) == row[e].inserted /\ row[e].status = "PENDING" /\ row[e].due

\* A lease that holds until somebody gives it back: a crash keeps it for ever.
ClaimableNeverAgain(e) ==
    ClaimableAnyLease(e) /\ ~row[e].leased /\ e \notin overtaken

\* The WHERE clause of ClaimPending.
Claimable(e) ==
    row[e].inserted /\ row[e].status = "PENDING" /\ row[e].due /\ ~row[e].leased

\* The oldest claimable rows, BatchSize at most.
Claimed ==
    {e \in Event : Claimable(e) /\ Cardinality({f \in 1..(e - 1) : Claimable(f)}) < BatchSize}

\* The claim counts as a try: retry_count + 1, up to the bound of the model.
NextRetry(n) == IF n < CountCap THEN n + 1 ELSE n

\* The count of the row the SELECT found.
ReturnedFromSelect(n) == n

\* RETURNING gives the count of the updated row, not the one the SELECT found.
Returned(n) == NextRetry(n)

Claim(r) ==
    /\ batch[r] = EmptyBatch /\ sending[r] = Idle
    /\ Claimed # {}
    /\ row' = [e \in Event |-> IF e \in Claimed
                               THEN [row[e] EXCEPT !.leased = TRUE, !.retries = NextRetry(@)]
                               ELSE row[e]]
    /\ batch' = [batch EXCEPT ![r] = [e \in Claimed |-> Returned(row[e].retries)]]
    /\ UNCHANGED <<sending, queue, overtaken>>

\* SendMessage for one event of the batch, in whatever order RETURNING gave.  An error
\* may hide a message SQS accepted.
Publish(r) ==
    /\ sending[r] = Idle
    /\ \E e \in DOMAIN batch[r], accepted, reported \in BOOLEAN :
          /\ reported => accepted
          /\ queue' = IF accepted /\ ~Queued(e) THEN Append(queue, e) ELSE queue
          /\ sending' = [sending EXCEPT ![r] =
                            [event |-> e, retries |-> batch[r][e], sent |-> reported]]
          /\ batch' = [batch EXCEPT ![r] = [f \in DOMAIN @ \ {e} |-> @[f]]]
    /\ UNCHANGED <<row, overtaken>>

\* Publish errors are taken for success.
MarkPublishedAnyway(r) ==
    /\ sending[r] # Idle
    /\ row' = [row EXCEPT ![sending[r].event].status = "PUBLISHED",
                          ![sending[r].event].leased = FALSE]
    /\ sending' = [sending EXCEPT ![r] = Idle]
    /\ UNCHANGED <<batch, queue, overtaken>>

\* MarkPublished looks at nothing but the id.
MarkPublished(r) ==
    /\ sending[r] # Idle /\ sending[r].sent
    /\ row' = [row EXCEPT ![sending[r].event].status = "PUBLISHED",
                          ![sending[r].event].leased = FALSE]
    /\ sending' = [sending EXCEPT ![r] = Idle]
    /\ UNCHANGED <<batch, queue, overtaken>>

\* A non-final failure writes the status back to PENDING.
MarkFailedReopening(r) ==
    LET s == sending[r] IN
    /\ s # Idle /\ ~s.sent
    /\ row' = [row EXCEPT ![s.event].status = IF s.retries >= MaxRetries THEN "FAILED"
                                              ELSE "PENDING",
                          ![s.event].due = FALSE,
                          ![s.event].leased = FALSE]
    /\ sending' = [sending EXCEPT ![r] = Idle]
    /\ UNCHANGED <<batch, queue, overtaken>>

\* Final one claim too early.
MarkFailedEarly(r) ==
    LET s == sending[r] IN
    /\ s # Idle /\ ~s.sent
    /\ row' = [row EXCEPT ![s.event].status = IF s.retries + 1 >= MaxRetries THEN "FAILED" ELSE @,
                          ![s.event].due = FALSE,
                          ![s.event].leased = FALSE]
    /\ sending' = [sending EXCEPT ![r] = Idle]
    /\ UNCHANGED <<batch, queue, overtaken>>

\* MarkFailed: final when the claim's retry count has reached MaxRetries, else back-off;
\* it too looks at nothing but the id.
MarkFailed(r) ==
    LET s == sending[r] IN
    /\ s # Idle /\ ~s.sent
    /\ row' = [row EXCEPT ![s.event].status = IF s.retries >= MaxRetries THEN "FAILED" ELSE @,
                          ![s.event].due = FALSE,
                          ![s.event].leased = FALSE]
    /\ sending' = [sending EXCEPT ![r] = Idle]
    /\ UNCHANGED <<batch, queue, overtaken>>

\* The statement that records the outcome fails; the error is logged and dropped.
MarkLost(r) ==
    /\ sending[r] # Idle
    /\ sending' = [sending EXCEPT ![r] = Idle]
    /\ UNCHANGED <<row, batch, queue, overtaken>>

\* The process dies, or its 10 s for the batch are over.
Crash(r) ==
    /\ batch[r] # EmptyBatch \/ sending[r] # Idle
    /\ batch' = [batch EXCEPT ![r] = EmptyBatch]
    /\ sending' = [sending EXCEPT ![r] = Idle]
    /\ UNCHANGED <<row, queue, overtaken>>

\* locked_until passes, perhaps under a relayer still at work.
LeaseExpires(e) ==
    /\ row[e].leased
    /\ row' = [row EXCEPT ![e].leased = FALSE]
    /\ overtaken' = overtaken \cup {e}
    /\ UNCHANGED <<batch, sending, queue>>

\* next_attempt_at passes.
BecomesDue(e) ==
    /\ ~row[e].due
    /\ row' = [row EXCEPT ![e].due = TRUE]
    /\ UNCHANGED <<batch, sending, queue, overtaken>>

RelayerStep(r) == Claim(r) \/ Publish(r) \/ MarkPublished(r) \/ MarkFailed(r)

Next ==
    \/ \E r \in Relayer : RelayerStep(r) \/ MarkLost(r) \/ Crash(r)
    \/ \E e \in Event : Insert(e) \/ LeaseExpires(e) \/ BecomesDue(e)

Spec == Init /\ [][Next]_vars

\* The ticker fires and time passes for ever; crashes and lost updates stop at some point.
Fairness ==
    /\ \A r \in Relayer : WF_vars(RelayerStep(r))
    /\ \A e \in Event : WF_vars(LeaseExpires(e)) /\ WF_vars(BecomesDue(e))
    /\ <>[][\A r \in Relayer : MarkLost(r) \/ Crash(r) => RelayerStep(r)]_vars

LiveSpec == Spec /\ Fairness

-----------------------------------------------------------------------------
\* Types, and the shape of what a relayer carries: every event of a batch and the one being
\* sent with a count that includes this claim and is not ahead of the row, whoever claimed
\* it since (outbox_repo.go 82-88; the back-off and isFinal are computed from that count).
TypeOK ==
    /\ row \in [Event -> [inserted : BOOLEAN, status : OutboxStatuses, retries : Nat,
                          due : BOOLEAN, leased : BOOLEAN]]
    /\ sending \in [Relayer -> [event : 0..MaxEvent, retries : Nat, sent : BOOLEAN]]
    /\ \A r \in Relayer :
          /\ DOMAIN batch[r] \subseteq Event
          /\ \A e \in DOMAIN batch[r] : batch[r][e] \in 1..row[e].retries
          /\ sending[r] # Idle => sending[r].retries \in 1..row[sending[r].event].retries
    /\ queue \in Seq(Event)
    /\ overtaken \subseteq Event

\* No event is lost: a row says PUBLISHED only if SQS accepted the event, whatever crashed
\* or timed out between the two (outbox_relayer.go 156-165).
PublishedWasSent ==
    \A e \in Event : row[e].status = "PUBLISHED" => Queued(e)

\* No event is given up before its MaxRetries claims (outbox_relayer.go 180).
GivenUpLate == \A e \in Event : row[e].status = "FAILED" => row[e].retries >= MaxRetries

\* Two relayers have the same event in hand only if a lease on it has run out: concurrent
\* claims never overlap by themselves (ARCHITECTURE.md 6.3), slow relayers may.
ClaimsOverlapOnlyAfterExpiry ==
    \A r, s \in Relayer, e \in Event :
        r # s /\ Holds(r, e) /\ Holds(s, e) => e \in overtaken

\* A published or failed row never becomes pending again, and it swaps its final status
\* only when a relayer that lost its lease reports late.
FinalStatusHolds ==
    [][\A e \in Event : row[e].status # "PENDING" =>
          /\ row'[e].status # "PENDING"
          /\ row'[e].status # row[e].status => e \in overtaken]_vars

\* Every inserted event is eventually published or given up, also when the relayer that
\* claimed it died (ARCHITECTURE.md 6.4).
EveryEventIsSettled ==
    \A e \in Event : row[e].inserted ~> row[e].status # "PENDING"
=============================================================================
