------------------------- MODULE OutboxRelayerProofs -------------------------
(***************************************************************************)
(* Theorems about OutboxRelayer, for any number of relayers and events and *)
(* any batch size: no event is marked published that SQS has not accepted, *)
(* none is given up early, and hands overlap only where a lease ran out.   *)
(***************************************************************************)
EXTENDS OutboxRelayer, TLAPS

Row == [inserted : BOOLEAN, status : OutboxStatuses, retries : Nat,
        due : BOOLEAN, leased : BOOLEAN]
Sending == [event : 0..MaxEvent, retries : Nat, sent : BOOLEAN]

\* What relayer r may rely on while it works: the counts it carries are those of the rows
\* or older, a reported publish reached SQS, and an event in its hands is pending and
\* leased unless its lease has run out.
Hand(r) ==
    /\ \A e \in DOMAIN batch[r] :
          e \in Event /\ batch[r][e] \in 1..row[e].retries
    /\ sending[r] # Idle =>
          /\ sending[r].event \in Event
          /\ sending[r].event \notin DOMAIN batch[r]
          /\ sending[r].retries \in 1..row[sending[r].event].retries
          /\ sending[r].sent => Queued(sending[r].event)
    /\ \A e \in Event :
          Holds(r, e) => (row[e].leased /\ row[e].status = "PENDING") \/ e \in overtaken

Types ==
    /\ row \in [Event -> Row]
    /\ batch = [r \in Relayer |-> batch[r]]
    /\ sending \in [Relayer -> Sending]
    /\ queue \in Seq(Event)
    /\ overtaken \subseteq Event

\* The inductive invariant.
Inv ==
    /\ Types
    /\ \A r \in Relayer : Hand(r)
    /\ PublishedWasSent
    /\ GivenUpLate
    /\ ClaimsOverlapOnlyAfterExpiry

-----------------------------------------------------------------------------
(* Lemmas.                                                                 *)

LEMMA IdleHoldsNothing ==
    ASSUME NEW r, sending[r] = Idle, NEW e \in Event
    PROVE  sending[r].event # e
BY RelayerAssumption DEF Idle, Event

LEMMA QueuedStays ==
    ASSUME Types, NEW e \in Event, NEW x \in Event, Queued(e),
           queue' = queue \/ queue' = Append(queue, x)
    PROVE  Queued(e)'
<1>1. PICK i \in 1..Len(queue) : queue[i] = e
  BY DEF Queued
<1>2. i \in 1..Len(queue') /\ queue'[i] = e
  BY <1>1 DEF Types
<1> QED
  BY <1>2 DEF Queued

LEMMA AppendedIsQueued ==
    ASSUME Types, NEW e \in Event, queue' = Append(queue, e)
    PROVE  Queued(e)'
<1>1. Len(queue) + 1 \in 1..Len(queue') /\ queue'[Len(queue) + 1] = e
  BY DEF Types
<1> QED
  BY <1>1 DEF Queued

LEMMA RowFields ==
    ASSUME Types, NEW e \in Event
    PROVE  /\ row[e] \in Row /\ row[e].retries \in Nat
           /\ row[e].status \in OutboxStatuses /\ row[e].leased \in BOOLEAN
BY DEF Types, Row

-----------------------------------------------------------------------------
(* Steps that touch one row and no relayer: Insert, LeaseExpires,          *)
(* BecomesDue.                                                             *)

LEMMA RowStepKeeps ==
    ASSUME Inv, NEW e \in Event, Insert(e) \/ LeaseExpires(e) \/ BecomesDue(e)
    PROVE  Inv'
<1>1. /\ UNCHANGED <<batch, sending, queue>>
      /\ overtaken \subseteq overtaken' /\ overtaken' \subseteq Event
      /\ row' \in [Event -> Row]
      /\ \A f \in Event : row'[f].status = row[f].status /\ row'[f].retries = row[f].retries
      /\ \A f \in Event : row'[f].leased = row[f].leased \/ f \in overtaken'
  <2>1. row \in [Event -> Row] /\ overtaken \subseteq Event
    BY DEF Inv, Types
  <2>2. CASE Insert(e)
    BY <2>1, <2>2 DEF Row, Insert
  <2>3. CASE LeaseExpires(e)
    <3>1. row' = [row EXCEPT ![e].leased = FALSE] /\ overtaken' = overtaken \cup {e}
          /\ UNCHANGED <<batch, sending, queue>>
      BY <2>3 DEF LeaseExpires
    <3>2. [row[e] EXCEPT !.leased = FALSE] \in Row
      BY <2>1 DEF Row
    <3>3. row' = [row EXCEPT ![e] = [row[e] EXCEPT !.leased = FALSE]]
      BY <3>1
    <3>4. \A f \in Event \ {e} : row'[f] = row[f]
      BY <2>1, <3>3
    <3>5. row'[e].status = row[e].status /\ row'[e].retries = row[e].retries
      BY <2>1, <3>3 DEF Row
    <3> QED
      BY <2>1, <3>1, <3>2, <3>3, <3>4, <3>5
  <2>4. CASE BecomesDue(e)
    BY <2>1, <2>4 DEF Row, BecomesDue
  <2> QED
    BY <2>2, <2>3, <2>4
<1>2. Types'
  BY <1>1 DEF Inv, Types
<1>3. ASSUME NEW r \in Relayer PROVE Hand(r)'
  BY <1>1 DEF Inv, Hand, Holds, Queued
<1>4. PublishedWasSent' /\ GivenUpLate' /\ ClaimsOverlapOnlyAfterExpiry'
  BY <1>1 DEF Inv, PublishedWasSent, GivenUpLate, ClaimsOverlapOnlyAfterExpiry, Holds, Queued
<1> QED
  BY <1>2, <1>3, <1>4 DEF Inv

-----------------------------------------------------------------------------
(* Steps of a relayer.                                                     *)

\* Relayer r claims: nobody else holds a row it takes, unless a lease on it ran out.
LEMMA ClaimKeeps ==
    ASSUME Inv, NEW r \in Relayer, Claim(r)
    PROVE  Inv'
<1>1. Types /\ sending[r] = Idle /\ batch[r] = EmptyBatch
  BY DEF Inv, Claim
<1>2. /\ UNCHANGED <<sending, queue, overtaken>>
      /\ \A s \in Relayer \ {r} : batch'[s] = batch[s]
      /\ batch'[r] = [e \in Claimed |-> NextRetry(row[e].retries)]
      /\ batch' = [s \in Relayer |-> batch'[s]]
  BY <1>1 DEF Claim, Types, Returned
<1>3. \A e \in Event : row[e].retries \in Nat /\ NextRetry(row[e].retries) \in Nat \ {0}
                       /\ row[e].retries <= NextRetry(row[e].retries)
  BY <1>1, RowFields, RelayerAssumption DEF NextRetry
<1>4. \A e \in Claimed : e \in Event /\ row[e].status = "PENDING" /\ ~row[e].leased
  BY DEF Claimed, Claimable
<1>5. row' \in [Event -> Row]
  <2>1. ASSUME NEW e \in Event
        PROVE  [row[e] EXCEPT !.leased = TRUE, !.retries = NextRetry(@)] \in Row
    <3> DEFINE n == NextRetry(row[e].retries)
    <3>1. row[e] \in Row /\ n \in Nat
      BY <1>1, <1>3, RowFields
    <3> HIDE DEF n
    <3>2. [row[e] EXCEPT !.leased = TRUE, !.retries = n] \in Row
      BY <3>1 DEF Row
    <3> QED
      BY <3>2 DEF n
  <2> QED
    BY <1>1, <2>1, RowFields DEF Claim
<1>6. \A e \in Event :
         /\ row'[e].status = row[e].status
         /\ e \in Claimed => row'[e].leased /\ row'[e].retries = NextRetry(row[e].retries)
         /\ e \notin Claimed => row'[e] = row[e]
  BY <1>1, RowFields DEF Claim, Row
<1>7. Types'
  BY <1>1, <1>2, <1>5 DEF Types
<1>8. Hand(r)'
  <2>1. \A e \in Event : Holds(r, e)' => e \in Claimed
    BY <1>1, <1>2, IdleHoldsNothing DEF Holds
  <2>2. \A e \in DOMAIN batch'[r] :
           e \in Event /\ batch'[r][e] \in 1..row'[e].retries
    BY <1>2, <1>3, <1>4, <1>6
  <2> QED
    BY <1>1, <1>2, <1>4, <1>6, <2>1, <2>2 DEF Hand
<1>9. ASSUME NEW s \in Relayer \ {r} PROVE Hand(s)'
  <2>1. Hand(s) /\ batch'[s] = batch[s] /\ sending'[s] = sending[s]
    BY <1>2 DEF Inv
  <2>2. \A e \in Event : row[e].retries <= row'[e].retries /\ row'[e].retries \in Nat
    BY <1>3, <1>6
  <2>3. \A e \in Event : row[e].leased /\ row[e].status = "PENDING"
                            => row'[e].leased /\ row'[e].status = "PENDING"
    BY <1>4, <1>6
  <2>4. sending[s] \in Sending
    BY <1>1 DEF Types
  <2> QED
    BY <1>2, <1>3, <2>1, <2>2, <2>3, <2>4 DEF Hand, Holds, Queued, Sending
<1>10. PublishedWasSent' /\ GivenUpLate'
  <2>1. \A e \in Event : row'[e].status # "PENDING" => row'[e] = row[e]
    BY <1>4, <1>6
  <2> QED
    BY <1>2, <2>1 DEF Inv, PublishedWasSent, GivenUpLate, Queued
<1>11. ClaimsOverlapOnlyAfterExpiry'
  <2>1. ASSUME NEW s \in Relayer \ {r}, NEW e \in Event, Holds(r, e)', Holds(s, e)'
        PROVE  e \in overtaken
    <3>1. e \in Claimed
      BY <1>1, <1>2, <2>1, IdleHoldsNothing DEF Holds
    <3>2. Holds(s, e) /\ Hand(s)
      BY <1>2, <2>1 DEF Holds, Inv
    <3> QED
      BY <1>4, <3>1, <3>2 DEF Hand
  <2>2. ASSUME NEW s \in Relayer \ {r}, NEW t \in Relayer \ {r}, NEW e \in Event, s # t,
               Holds(s, e)', Holds(t, e)'
        PROVE  e \in overtaken
    BY <1>2, <2>2 DEF Holds, Inv, ClaimsOverlapOnlyAfterExpiry
  <2> QED
    BY <1>2, <2>1, <2>2 DEF ClaimsOverlapOnlyAfterExpiry
<1> QED
  BY <1>7, <1>8, <1>9, <1>10, <1>11 DEF Inv

LEMMA PublishKeeps ==
    ASSUME Inv, NEW r \in Relayer, Publish(r)
    PROVE  Inv'
<1>1. PICK e \in DOMAIN batch[r], accepted \in BOOLEAN, reported \in BOOLEAN :
         /\ reported => accepted
         /\ queue' = IF accepted /\ ~Queued(e) THEN Append(queue, e) ELSE queue
         /\ sending' = [sending EXCEPT ![r] =
                           [event |-> e, retries |-> batch[r][e], sent |-> reported]]
         /\ batch' = [batch EXCEPT ![r] = [f \in DOMAIN batch[r] \ {e} |-> batch[r][f]]]
  BY DEF Publish, Inv, Types
<1>2. Types /\ Hand(r) /\ sending[r] = Idle /\ UNCHANGED <<row, overtaken>>
  BY DEF Inv, Publish
<1>3. e \in Event /\ batch[r][e] \in 1..row[e].retries
  BY <1>2 DEF Hand
<1>4. /\ sending'[r] = [event |-> e, retries |-> batch[r][e], sent |-> reported]
      /\ sending' \in [Relayer -> Sending]
  BY <1>1, <1>2, <1>3 DEF Types, Sending, Event
<1>5. /\ batch'[r] = [f \in DOMAIN batch[r] \ {e} |-> batch[r][f]]
      /\ batch' = [s \in Relayer |-> batch'[s]]
  BY <1>1, <1>2 DEF Types
<1>6. \A s \in Relayer \ {r} : batch'[s] = batch[s] /\ sending'[s] = sending[s]
  BY <1>1, <1>2 DEF Types
<1>7. \A f \in Event : Queued(f) => Queued(f)'
  BY <1>1, <1>2, <1>3, QueuedStays
<1>8. accepted => Queued(e)'
  BY <1>1, <1>2, <1>3, <1>7, AppendedIsQueued
<1>9. Types'
  BY <1>1, <1>2, <1>3, <1>4, <1>5 DEF Types
<1>10. \A f \in Event, s \in Relayer : Holds(s, f)' => Holds(s, f)
  BY <1>3, <1>4, <1>5, <1>6 DEF Holds
<1>11. Hand(r)'
  <2>1. e \notin DOMAIN batch'[r] /\ \A f \in DOMAIN batch'[r] :
           f \in Event /\ batch'[r][f] \in 1..row'[f].retries
    BY <1>2, <1>5 DEF Hand
  <2>2. \A f \in Event :
           Holds(r, f)' => (row'[f].leased /\ row'[f].status = "PENDING") \/ f \in overtaken'
    BY <1>2, <1>10 DEF Hand
  <2>3. sending'[r].sent => Queued(e)'
    BY <1>1, <1>4, <1>8
  <2> QED
    BY <1>2, <1>3, <1>4, <2>1, <2>2, <2>3 DEF Hand
<1>12. ASSUME NEW s \in Relayer \ {r} PROVE Hand(s)'
  BY <1>2, <1>6, <1>7, <1>10 DEF Hand, Inv
<1>13. PublishedWasSent' /\ GivenUpLate' /\ ClaimsOverlapOnlyAfterExpiry'
  BY <1>2, <1>7, <1>10 DEF Inv, PublishedWasSent, GivenUpLate, ClaimsOverlapOnlyAfterExpiry
<1> QED
  BY <1>9, <1>11, <1>12, <1>13 DEF Inv

\* Relayer r lets go of the event it was sending, and perhaps of its batch, having touched
\* at most that event's row.
LEMMA LettingGoKeeps ==
    ASSUME Inv, NEW r \in Relayer,
           sending' = [sending EXCEPT ![r] = Idle],
           \/ batch' = batch
           \/ batch' = [batch EXCEPT ![r] = EmptyBatch],
           queue' = queue, overtaken' = overtaken, row' \in [Event -> Row],
           \A e \in Event : \/ row'[e] = row[e]
                            \/ /\ e = sending[r].event
                               /\ sending[r] # Idle
                               /\ row'[e].retries = row[e].retries,
           PublishedWasSent', GivenUpLate'
    PROVE  Inv'
<1>1. Types /\ Hand(r)
  BY DEF Inv
<1>2. /\ sending'[r] = Idle /\ sending' \in [Relayer -> Sending]
      /\ \A s \in Relayer \ {r} : sending'[s] = sending[s] /\ batch'[s] = batch[s]
      /\ batch' = [s \in Relayer |-> batch'[s]]
      /\ batch'[r] = batch[r] \/ batch'[r] = EmptyBatch
  BY <1>1, RelayerAssumption DEF Types, Idle, Sending
<1>3. Types'
  BY <1>1, <1>2 DEF Types
<1>4. \A e \in Event : row'[e].retries = row[e].retries
  OBVIOUS
<1>5. \A s \in Relayer, e \in Event : Holds(s, e)' => Holds(s, e)
  <2>1. ASSUME NEW e \in Event, Holds(r, e)' PROVE Holds(r, e)
    BY <1>2, <2>1, IdleHoldsNothing DEF Holds, EmptyBatch, Idle, Event
  <2> QED
    BY <1>2, <2>1 DEF Holds
<1>6. ClaimsOverlapOnlyAfterExpiry'
  BY <1>5 DEF Inv, ClaimsOverlapOnlyAfterExpiry
<1>7. ASSUME NEW s \in Relayer, NEW e \in Event, Holds(s, e)'
      PROVE  (row'[e].leased /\ row'[e].status = "PENDING") \/ e \in overtaken'
  <2>1. Holds(s, e)
    BY <1>5, <1>7
  <2>2. CASE row'[e] = row[e]
    BY <2>1, <2>2 DEF Inv, Hand
  <2>3. CASE e = sending[r].event /\ sending[r] # Idle
    <3>1. s # r
      BY <1>1, <1>2, <1>7, <2>3 DEF Hand, Holds, EmptyBatch, Idle, Event
    <3>2. Holds(r, e)
      BY <2>3 DEF Holds
    <3> QED
      BY <2>1, <3>1, <3>2 DEF Inv, ClaimsOverlapOnlyAfterExpiry
  <2> QED
    BY <2>2, <2>3
<1>8. ASSUME NEW s \in Relayer PROVE Hand(s)'
  <2>1. Hand(s)
    BY DEF Inv
  <2>2. \A e \in DOMAIN batch'[s] :
           e \in Event /\ batch'[s][e] \in 1..row'[e].retries
    BY <1>2, <1>4, <2>1 DEF Hand, EmptyBatch
  <2>3. CASE s = r
    BY <1>2, <1>7, <2>2, <2>3 DEF Hand
  <2>4. CASE s # r
    BY <1>2, <1>4, <1>7, <2>1, <2>2, <2>4 DEF Hand, Queued
  <2> QED
    BY <2>3, <2>4
<1> QED
  BY <1>3, <1>6, <1>8 DEF Inv

LEMMA MarkPublishedKeeps ==
    ASSUME Inv, NEW r \in Relayer, MarkPublished(r)
    PROVE  Inv'
<1> DEFINE e == sending[r].event
           done == [row[e] EXCEPT !.status = "PUBLISHED", !.leased = FALSE]
<1>1. Types /\ sending[r] # Idle /\ e \in Event /\ Queued(e)
  BY DEF Inv, Hand, MarkPublished
<1>2. row[e] \in Row /\ done \in Row /\ done.retries = row[e].retries
      /\ done.status = "PUBLISHED"
  BY <1>1, RowFields DEF Row, OutboxStatuses
<1>3. row' = [row EXCEPT ![e] = done]
  BY <1>1 DEF MarkPublished, Types
<1> HIDE DEF done
<1>4. /\ row' \in [Event -> Row] /\ row'[e] = done
      /\ \A f \in Event \ {e} : row'[f] = row[f]
  BY <1>1, <1>2, <1>3 DEF Types
<1>5. PublishedWasSent'
  BY <1>1, <1>4 DEF PublishedWasSent, Inv, MarkPublished, Queued
<1>6. GivenUpLate'
  BY <1>2, <1>4 DEF GivenUpLate, Inv
<1> QED
  BY <1>1, <1>2, <1>4, <1>5, <1>6, LettingGoKeeps DEF MarkPublished

LEMMA MarkFailedKeeps ==
    ASSUME Inv, NEW r \in Relayer, MarkFailed(r)
    PROVE  Inv'
<1> DEFINE e == sending[r].event
           status == IF sending[r].retries >= MaxRetries THEN "FAILED" ELSE row[e].status
           marked == [row[e] EXCEPT !.status = status, !.due = FALSE, !.leased = FALSE]
<1>1. /\ Types /\ sending[r] # Idle /\ e \in Event /\ sending[r].retries <= row[e].retries
      /\ sending[r].retries \in Nat
  BY DEF Inv, Types, Hand, MarkFailed, Sending
<1>2. row[e] \in Row /\ row[e].retries \in Nat /\ status \in OutboxStatuses
  BY <1>1, RowFields DEF OutboxStatuses
<1>3. row' = [row EXCEPT ![e] = marked]
  BY <1>1 DEF MarkFailed, Types
<1>4. status # row[e].status => status = "FAILED" /\ row[e].retries >= MaxRetries
  BY <1>1, <1>2, RelayerAssumption
<1> HIDE DEF status
<1>5. marked \in Row /\ marked.retries = row[e].retries /\ marked.status = status
  BY <1>2 DEF Row
<1> HIDE DEF marked
<1>6. /\ row' \in [Event -> Row] /\ row'[e] = marked
      /\ \A f \in Event \ {e} : row'[f] = row[f]
  BY <1>1, <1>3, <1>5 DEF Types
<1>7. PublishedWasSent'
  BY <1>4, <1>5, <1>6 DEF PublishedWasSent, Inv, MarkFailed, Queued
<1>8. GivenUpLate'
  BY <1>4, <1>5, <1>6 DEF GivenUpLate, Inv
<1>9. /\ sending' = [sending EXCEPT ![r] = Idle]
      /\ UNCHANGED <<batch, queue, overtaken>>
  BY DEF MarkFailed
<1> QED
  BY <1>1, <1>5, <1>6, <1>7, <1>8, <1>9, LettingGoKeeps

LEMMA MarkLostOrCrashKeeps ==
    ASSUME Inv, NEW r \in Relayer, MarkLost(r) \/ Crash(r)
    PROVE  Inv'
<1>1. UNCHANGED <<row, queue, overtaken>> /\ row' \in [Event -> Row]
  BY DEF MarkLost, Crash, Inv, Types
<1>2. PublishedWasSent' /\ GivenUpLate'
  BY <1>1 DEF Inv, PublishedWasSent, GivenUpLate, Queued
<1> QED
  BY <1>1, <1>2, LettingGoKeeps DEF MarkLost, Crash

-----------------------------------------------------------------------------
(* The invariant and what follows from it.                                 *)

LEMMA InitInv == Init => Inv
<1> SUFFICES ASSUME Init PROVE Inv
  OBVIOUS
<1>1. Types
  BY RelayerAssumption DEF Init, Types, Row, Sending, Absent, Idle, OutboxStatuses
<1>2. \A r \in Relayer : batch[r] = EmptyBatch /\ sending[r] = Idle
  BY DEF Init
<1>3. \A r \in Relayer, e \in Event : ~Holds(r, e)
  BY <1>2, IdleHoldsNothing DEF Holds, EmptyBatch
<1>4. \A e \in Event : row[e].status = "PENDING"
  BY DEF Init, Absent
<1> QED
  BY <1>1, <1>2, <1>3, <1>4
     DEF Inv, Hand, EmptyBatch, PublishedWasSent, GivenUpLate, ClaimsOverlapOnlyAfterExpiry

LEMMA StepInv == Inv /\ [Next]_vars => Inv'
<1> SUFFICES ASSUME Inv, [Next]_vars PROVE Inv'
  OBVIOUS
<1>1. CASE UNCHANGED vars
  BY <1>1 DEF vars, Inv, Types, Hand, Holds, Queued, PublishedWasSent, GivenUpLate,
              ClaimsOverlapOnlyAfterExpiry
<1>2. ASSUME NEW r \in Relayer, RelayerStep(r) PROVE Inv'
  BY <1>2, ClaimKeeps, PublishKeeps, MarkPublishedKeeps, MarkFailedKeeps DEF RelayerStep
<1>3. ASSUME NEW r \in Relayer, MarkLost(r) \/ Crash(r) PROVE Inv'
  BY <1>3, MarkLostOrCrashKeeps
<1>4. ASSUME NEW e \in Event, Insert(e) \/ LeaseExpires(e) \/ BecomesDue(e) PROVE Inv'
  BY <1>4, RowStepKeeps
<1> QED
  BY <1>1, <1>2, <1>3, <1>4 DEF Next

LEMMA InvHolds == Spec => []Inv
BY InitInv, StepInv, PTL DEF Spec

\* In every reachable state rows, batches, publishes under way and the queue have their
\* types, whatever the number of relayers and events (outbox_repo.go 62-170).
THEOREM RelayerTypeCorrect == Spec => []TypeOK
<1>1. Inv => TypeOK
  BY DEF Inv, Types, TypeOK, Hand, Row, Sending
<1> QED
  BY <1>1, InvHolds, PTL

\* A row marked PUBLISHED was accepted by SQS, however relayers crash, lose marks or
\* overtake one another (outbox_relayer.go 156-165).
THEOREM NoEventIsLost == Spec => []PublishedWasSent
<1>1. Inv => PublishedWasSent
  BY DEF Inv
<1> QED
  BY <1>1, InvHolds, PTL

\* A row is FAILED only after MaxRetries claims, although a relayer decides on the count
\* its claim returned (outbox_relayer.go 180).
THEOREM NoEventIsGivenUpEarly == Spec => []GivenUpLate
<1>1. Inv => GivenUpLate
  BY DEF Inv
<1> QED
  BY <1>1, InvHolds, PTL

\* Two relayers have one event in hand only if a lease on it has run out
\* (outbox_repo.go 71-95, FOR UPDATE SKIP LOCKED and locked_until).
THEOREM HandsOverlapOnlyAfterExpiry == Spec => []ClaimsOverlapOnlyAfterExpiry
<1>1. Inv => ClaimsOverlapOnlyAfterExpiry
  BY DEF Inv
<1> QED
  BY <1>1, InvHolds, PTL

\* A final status is never taken back, and it is exchanged for the other one only by a
\* relayer that has lost its lease (MarkPublished and MarkFailed look at the id only).
THEOREM FinalStatusIsKept == Spec => FinalStatusHolds
<1> DEFINE Kept == \A e \in Event : row[e].status # "PENDING" =>
                       /\ row'[e].status # "PENDING"
                       /\ row'[e].status # row[e].status => e \in overtaken
<1>1. ASSUME Inv, Next PROVE Kept
  <2>1. Types
    BY <1>1 DEF Inv
  <2>2. ASSUME NEW r \in Relayer, Claim(r) PROVE Kept
    BY <2>1, <2>2, RowFields DEF Claim, Claimed, Claimable, Row
  <2>3. ASSUME NEW r \in Relayer, MarkPublished(r) \/ MarkFailed(r) PROVE Kept
    <3>1. sending[r].event \in Event /\ Hand(r)
      BY <1>1, <2>3 DEF Inv, Hand, MarkPublished, MarkFailed
    <3>2. row[sending[r].event].status # "PENDING" => sending[r].event \in overtaken
      BY <3>1 DEF Hand, Holds
    <3>3. \A e \in Event \ {sending[r].event} : row'[e] = row[e]
      BY <2>1, <2>3, <3>1 DEF MarkPublished, MarkFailed, Types
    <3>4. row'[sending[r].event].status \in {"PUBLISHED", "FAILED", row[sending[r].event].status}
      BY <2>1, <2>3, <3>1, RowFields DEF MarkPublished, MarkFailed, Types, Row
    <3> QED
      BY <3>2, <3>3, <3>4
  <2>4. ASSUME NEW r \in Relayer, Publish(r) \/ MarkLost(r) \/ Crash(r) PROVE Kept
    BY <2>4 DEF Publish, MarkLost, Crash
  <2>5. ASSUME NEW e \in Event, Insert(e) \/ LeaseExpires(e) \/ BecomesDue(e) PROVE Kept
    BY <2>1, <2>5, RowFields DEF Insert, LeaseExpires, BecomesDue, Row, Types
  <2> QED
    BY <1>1, <2>2, <2>3, <2>4, <2>5 DEF Next, RelayerStep
<1>2. [Inv /\ Next]_vars => [Kept]_vars
  BY <1>1
<1> QED
  BY <1>2, InvHolds, PTL DEF Spec, FinalStatusHolds
=============================================================================
