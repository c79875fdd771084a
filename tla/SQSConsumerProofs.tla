-------------------------- MODULE SQSConsumerProofs --------------------------
(***************************************************************************)
(* Theorems about SQSConsumer, for any number of consumers, messages and   *)
(* receives: nothing leaves the queue unapplied, and a Stop that returned  *)
(* cleanly left nothing behind.                                            *)
(***************************************************************************)
EXTENDS SQSConsumer, TLAPS

\* A goroutine that has got as far as deleting its message has seen it applied.
DeletesOnlyApplied ==
    \A d \in Delivery : flight[d].step \in {"check", "delete"} => IsApplied(d[1])

\* Once the poll loop has ended, no goroutine is going to be started.
LoopLeavesNothing == \A c \in Consumer : life[c] = "draining" => fetched[c] = {}

\* The inductive invariant.
Inv ==
    /\ TypeOK
    /\ NothingIsLost
    /\ CleanStopIsQuiet
    /\ DeletesOnlyApplied
    /\ LoopLeavesNothing

-----------------------------------------------------------------------------
(* Lemmas.                                                                 *)

LEMMA DeliveryParts ==
    ASSUME NEW d \in Delivery
    PROVE  d[1] \in Message /\ d[2] \in 1..MaxReceive
BY DEF Delivery

LEMMA AppliedStays ==
    ASSUME TypeOK, NEW m \in Message, NEW x \in Message, IsApplied(m),
           applied' = applied \/ applied' = Append(applied, x)
    PROVE  IsApplied(m)'
<1>1. PICK i \in 1..Len(applied) : applied[i] = m
  BY DEF IsApplied
<1>2. i \in 1..Len(applied') /\ applied'[i] = m
  BY <1>1 DEF TypeOK
<1> QED
  BY <1>2 DEF IsApplied

LEMMA AppendedIsApplied ==
    ASSUME TypeOK, NEW m \in Message, applied' = Append(applied, m)
    PROVE  IsApplied(m)'
<1>1. Len(applied) + 1 \in 1..Len(applied') /\ applied'[Len(applied) + 1] = m
  BY DEF TypeOK
<1> QED
  BY <1>1 DEF IsApplied

-----------------------------------------------------------------------------
(* The queue.                                                              *)

\* Steps of the queue touch no consumer; none of them deletes a message.
LEMMA QueueStepKeeps ==
    ASSUME Inv, NEW m \in Message, QueueStep(m)
    PROVE  Inv'
<1>1. /\ UNCHANGED <<fetched, flight, applied, life>>
      /\ queue' \in [Message -> QueueRow]
      /\ \A l \in Message : queue'[l].at = "deleted" => queue[l].at = "deleted"
  <2>1. queue \in [Message -> QueueRow] /\ queue[m] \in QueueRow
    BY DEF Inv, TypeOK
  <2>2. CASE Send(m) \/ Redrive(m)
    <3>1. PICK at \in {"queue", "dlq"} :
             queue' = [queue EXCEPT ![m] = [queue[m] EXCEPT !.at = at]]
      BY <2>2 DEF Send, Redrive
    <3>2. [queue[m] EXCEPT !.at = at] \in QueueRow /\ [queue[m] EXCEPT !.at = at].at = at
      BY <2>1 DEF QueueRow, Places
    <3>3. queue'[m].at = at /\ \A l \in Message \ {m} : queue'[l] = queue[l]
      BY <2>1, <3>1, <3>2
    <3> QED
      BY <2>1, <2>2, <3>1, <3>2, <3>3 DEF Send, Redrive
  <2>3. CASE VisibilityExpires(m)
    <3>1. queue' = [queue EXCEPT ![m] = [queue[m] EXCEPT !.visible = TRUE]]
      BY <2>3 DEF VisibilityExpires
    <3>2. /\ [queue[m] EXCEPT !.visible = TRUE] \in QueueRow
          /\ [queue[m] EXCEPT !.visible = TRUE].at = queue[m].at
      BY <2>1 DEF QueueRow
    <3>3. \A l \in Message : queue'[l].at = queue[l].at
      BY <2>1, <3>1, <3>2
    <3> QED
      BY <2>1, <2>3, <3>1, <3>2, <3>3 DEF VisibilityExpires
  <2> QED
    BY <2>2, <2>3 DEF QueueStep
<1>2. TypeOK'
  BY <1>1 DEF Inv, TypeOK
<1> QED
  BY <1>1, <1>2
     DEF Inv, NothingIsLost, CleanStopIsQuiet, DeletesOnlyApplied, LoopLeavesNothing, IsApplied,
         InFlight

-----------------------------------------------------------------------------
(* The poll loop.                                                          *)

LEMMA PollKeeps ==
    ASSUME Inv, NEW c \in Consumer, Poll(c)
    PROVE  Inv'
<1>1. PICK batch \in SUBSET Message :
         /\ Deliverable(batch)
         /\ queue' = [m \in Message |->
                         IF m \in batch
                         THEN [queue[m] EXCEPT !.visible = FALSE, !.receives = @ + 1]
                         ELSE queue[m]]
         /\ fetched' = [fetched EXCEPT ![c] = {<<m, queue[m].receives + 1>> : m \in batch}]
  BY DEF Poll
<1>2. life[c] = "running" /\ UNCHANGED <<flight, applied, life>> /\ TypeOK
  BY DEF Poll, Inv
<1>3. \A m \in Message : queue[m] \in QueueRow /\ queue[m].receives \in 0..MaxReceive
  BY <1>2 DEF TypeOK, QueueRow
<1>4. ASSUME NEW m \in batch PROVE queue[m].receives + 1 \in 1..MaxReceive
  <2>1. queue[m].receives < MaxReceive /\ queue[m].receives \in 0..MaxReceive
    BY <1>1, <1>3 DEF Deliverable
  <2> QED
    BY <2>1, ConsumerAssumption
<1>5. queue' \in [Message -> QueueRow]
  <2>1. ASSUME NEW m \in batch
        PROVE  [queue[m] EXCEPT !.visible = FALSE, !.receives = @ + 1] \in QueueRow
    <3> DEFINE n == queue[m].receives + 1
    <3>1. n \in 0..MaxReceive /\ queue[m] \in QueueRow
      BY <1>3, <1>4
    <3> HIDE DEF n
    <3>2. [queue[m] EXCEPT !.visible = FALSE, !.receives = n] \in QueueRow
      BY <3>1 DEF QueueRow
    <3> QED
      BY <3>2 DEF n
  <2> QED
    BY <1>1, <1>3, <2>1
<1>6. \A m \in Message : queue'[m].at = queue[m].at
  <2>1. ASSUME NEW m \in batch PROVE queue'[m].at = queue[m].at
    <3>1. queue[m] \in QueueRow /\ m \in Message
      BY <1>3
    <3>2. queue'[m] = [queue[m] EXCEPT !.visible = FALSE, !.receives = @ + 1]
      BY <1>1, <3>1
    <3> QED
      BY <3>1, <3>2 DEF QueueRow
  <2> QED
    BY <1>1, <2>1
<1>7. fetched' \in [Consumer -> SUBSET Delivery]
  BY <1>1, <1>2, <1>4 DEF TypeOK, Delivery
<1>8. \A b \in Consumer \ {c} : fetched'[b] = fetched[b]
  BY <1>1, <1>2 DEF TypeOK
<1>9. TypeOK'
  BY <1>2, <1>5, <1>7 DEF TypeOK
<1> QED
  BY <1>2, <1>6, <1>8, <1>9
     DEF Inv, NothingIsLost, CleanStopIsQuiet, DeletesOnlyApplied, LoopLeavesNothing, IsApplied,
         InFlight

LEMMA StartGoroutineKeeps ==
    ASSUME Inv, NEW c \in Consumer, StartGoroutine(c)
    PROVE  Inv'
<1>1. PICK d \in fetched[c] :
         /\ flight' = [flight EXCEPT ![d] = [by |-> c, step |-> "process", released |-> FALSE]]
         /\ fetched' = [fetched EXCEPT ![c] = fetched[c] \ {d}]
  BY DEF StartGoroutine, Inv, TypeOK
<1>2. UNCHANGED <<queue, applied, life>> /\ TypeOK /\ d \in Delivery
  BY DEF StartGoroutine, Inv, TypeOK
<1>3. life[c] \notin {"draining", "stopped"}
  BY DEF Inv, CleanStopIsQuiet, LoopLeavesNothing
<1>4. /\ flight'[d] = [by |-> c, step |-> "process", released |-> FALSE]
      /\ \A x \in Delivery \ {d} : flight'[x] = flight[x]
      /\ \A b \in Consumer \ {c} : fetched'[b] = fetched[b]
  BY <1>1, <1>2 DEF TypeOK
<1>5. TypeOK'
  <2>1. [by |-> c, step |-> "process", released |-> FALSE] \in FlightRow
    BY DEF FlightRow, GoroutineSteps
  <2> QED
    BY <1>1, <1>2, <2>1 DEF TypeOK
<1>6. CleanStopIsQuiet'
  BY <1>2, <1>3, <1>4 DEF Inv, CleanStopIsQuiet, InFlight
<1>7. DeletesOnlyApplied'
  BY <1>2, <1>4 DEF Inv, DeletesOnlyApplied, IsApplied
<1>8. NothingIsLost' /\ LoopLeavesNothing'
  BY <1>2, <1>3, <1>4 DEF Inv, NothingIsLost, LoopLeavesNothing, IsApplied
<1> QED
  BY <1>5, <1>6, <1>7, <1>8 DEF Inv

-----------------------------------------------------------------------------
(* Goroutines.                                                             *)

\* A goroutine's own step starts no other one and wakes none that is over.
LEMMA StepType ==
    ASSUME TypeOK, NEW d \in Delivery, NEW step \in GoroutineSteps, Step(d, step)
    PROVE  /\ flight' \in [Delivery -> FlightRow]
           /\ flight'[d].step = step /\ flight'[d].by = flight[d].by
           /\ \A x \in Delivery \ {d} : flight'[x] = flight[x]
<1>1. flight[d] \in FlightRow /\ flight \in [Delivery -> FlightRow]
  BY DEF TypeOK, FlightRow
<1> DEFINE moved == [flight[d] EXCEPT !.step = step]
<1>2. moved \in FlightRow /\ moved.step = step /\ moved.by = flight[d].by
  BY <1>1 DEF FlightRow
<1>3. flight' = [flight EXCEPT ![d] = moved]
  BY <1>1 DEF Step
<1> HIDE DEF moved
<1> QED
  BY <1>1, <1>2, <1>3

LEMMA QuietStays ==
    ASSUME Inv, NEW d \in Delivery, NEW step \in GoroutineSteps, Step(d, step),
           flight[d].step # "over", UNCHANGED <<fetched, life>>
    PROVE  CleanStopIsQuiet' /\ LoopLeavesNothing'
BY StepType DEF Inv, CleanStopIsQuiet, LoopLeavesNothing, InFlight

LEMMA ProcessMessageKeeps ==
    ASSUME Inv, NEW d \in Delivery, ProcessMessage(d)
    PROVE  Inv'
<1>1. TypeOK /\ flight[d].step = "process" /\ UNCHANGED <<queue, fetched, life>>
      /\ d[1] \in Message
  BY DeliveryParts DEF Inv, ProcessMessage
<1>2. PICK step \in {"check", "over"} : Step(d, step) /\ (step = "check" => IsApplied(d[1])')
  <2>1. CASE /\ applied' = IF IsApplied(d[1]) THEN applied ELSE Append(applied, d[1])
             /\ Step(d, "check")
    <3>1. IsApplied(d[1])'
      BY <1>1, <2>1, AppliedStays, AppendedIsApplied
    <3> QED
      BY <2>1, <3>1
  <2>2. CASE Step(d, "over")
    BY <2>2
  <2> QED
    BY <2>1, <2>2 DEF ProcessMessage
<1>3. applied' = applied \/ applied' = Append(applied, d[1])
  BY DEF ProcessMessage
<1>4. \A m \in Message : IsApplied(m) => IsApplied(m)'
  BY <1>1, <1>3, AppliedStays
<1>5. step \in GoroutineSteps
  BY DEF GoroutineSteps
<1>6. TypeOK'
  BY <1>1, <1>2, <1>3, <1>5, StepType DEF TypeOK
<1>7. CleanStopIsQuiet' /\ LoopLeavesNothing'
  BY <1>1, <1>2, <1>5, QuietStays
<1>8. DeletesOnlyApplied'
  BY <1>1, <1>2, <1>4, <1>5, StepType, DeliveryParts DEF Inv, DeletesOnlyApplied
<1>9. NothingIsLost'
  BY <1>1, <1>4 DEF Inv, NothingIsLost
<1> QED
  BY <1>6, <1>7, <1>8, <1>9 DEF Inv

LEMMA CheckReleasedKeeps ==
    ASSUME Inv, NEW d \in Delivery, CheckReleased(d)
    PROVE  Inv'
<1>1. /\ TypeOK /\ flight[d].step = "check" /\ IsApplied(d[1])
      /\ UNCHANGED <<queue, fetched, applied, life>>
  BY DEF Inv, CheckReleased, DeletesOnlyApplied
<1>2. PICK step \in {"over", "delete"} : Step(d, step)
  BY DEF CheckReleased
<1>3. step \in GoroutineSteps
  BY DEF GoroutineSteps
<1>4. TypeOK'
  BY <1>1, <1>2, <1>3, StepType DEF TypeOK
<1>5. CleanStopIsQuiet' /\ LoopLeavesNothing'
  BY <1>1, <1>2, <1>3, QuietStays
<1>6. DeletesOnlyApplied' /\ NothingIsLost'
  BY <1>1, <1>2, <1>3, StepType DEF Inv, DeletesOnlyApplied, NothingIsLost, IsApplied
<1> QED
  BY <1>4, <1>5, <1>6 DEF Inv

LEMMA DeleteMessageKeeps ==
    ASSUME Inv, NEW d \in Delivery, DeleteMessage(d)
    PROVE  Inv'
<1>1. /\ TypeOK /\ flight[d].step = "delete" /\ IsApplied(d[1]) /\ d[1] \in Message
      /\ Step(d, "over") /\ "over" \in GoroutineSteps
      /\ UNCHANGED <<fetched, applied, life>>
  BY DeliveryParts DEF Inv, DeleteMessage, DeletesOnlyApplied, GoroutineSteps
<1>2. /\ queue' \in [Message -> QueueRow]
      /\ \A m \in Message : m # d[1] => queue'[m] = queue[m]
  BY <1>1 DEF DeleteMessage, TypeOK, QueueRow, Places
<1>3. TypeOK'
  BY <1>1, <1>2, StepType DEF TypeOK
<1>4. CleanStopIsQuiet' /\ LoopLeavesNothing'
  BY <1>1, QuietStays
<1>5. DeletesOnlyApplied'
  BY <1>1, StepType DEF Inv, DeletesOnlyApplied, IsApplied
<1>6. NothingIsLost'
  BY <1>1, <1>2 DEF Inv, NothingIsLost, IsApplied
<1> QED
  BY <1>3, <1>4, <1>5, <1>6 DEF Inv

-----------------------------------------------------------------------------
(* The life of a consumer.                                                 *)

\* Stop, the end of the poll loop, the return of Stop and the restart only move `life`.
LEMMA LifeStepKeeps ==
    ASSUME Inv, NEW c \in Consumer,
           Stop(c) \/ PollLoopEnds(c) \/ StopReturns(c) \/ Restart(c)
    PROVE  Inv'
<1>1. /\ TypeOK /\ UNCHANGED <<queue, fetched, flight, applied>>
      /\ \A b \in Consumer \ {c} : life'[b] = life[b]
      /\ life' \in [Consumer -> Lives]
  BY DEF Inv, TypeOK, Stop, PollLoopEnds, StopReturns, Restart, Lives
<1>2. /\ life'[c] = "draining" => fetched[c] = {}
      /\ life'[c] = "stopped" => fetched[c] = {} /\ InFlight(c) = {}
  BY DEF Inv, TypeOK, Stop, PollLoopEnds, StopReturns, Restart, LoopLeavesNothing
<1>3. TypeOK'
  BY <1>1 DEF TypeOK
<1>4. CleanStopIsQuiet' /\ LoopLeavesNothing'
  BY <1>1, <1>2 DEF Inv, CleanStopIsQuiet, LoopLeavesNothing, InFlight
<1> QED
  BY <1>1, <1>3, <1>4 DEF Inv, NothingIsLost, DeletesOnlyApplied, IsApplied

LEMMA StopTimesOutKeeps ==
    ASSUME Inv, NEW c \in Consumer, StopTimesOut(c)
    PROVE  Inv'
<1>1. TypeOK /\ UNCHANGED <<fetched, applied>>
  BY DEF Inv, StopTimesOut
<1>2. /\ flight' \in [Delivery -> FlightRow]
      /\ \A d \in Delivery : flight'[d].step = flight[d].step /\ flight'[d].by = flight[d].by
  BY <1>1 DEF StopTimesOut, TypeOK, FlightRow
<1>3. /\ queue' \in [Message -> QueueRow]
      /\ \A m \in Message : queue'[m].at = queue[m].at
  BY <1>1 DEF StopTimesOut, TypeOK, QueueRow
<1>4. /\ life' \in [Consumer -> Lives] /\ life'[c] = "timed out"
      /\ \A b \in Consumer \ {c} : life'[b] = life[b]
  BY <1>1 DEF StopTimesOut, TypeOK, Lives
<1>5. TypeOK'
  BY <1>1, <1>2, <1>3, <1>4 DEF TypeOK
<1>6. CleanStopIsQuiet' /\ LoopLeavesNothing'
  <2>1. \A b \in Consumer : InFlight(b)' = InFlight(b)
    BY <1>2 DEF InFlight
  <2> QED
    BY <1>1, <1>4, <2>1 DEF Inv, CleanStopIsQuiet, LoopLeavesNothing
<1>7. NothingIsLost' /\ DeletesOnlyApplied'
  BY <1>1, <1>2, <1>3 DEF Inv, NothingIsLost, DeletesOnlyApplied, IsApplied
<1> QED
  BY <1>5, <1>6, <1>7 DEF Inv

LEMMA ExitKeeps ==
    ASSUME Inv, NEW c \in Consumer, Exit(c)
    PROVE  Inv'
<1>1. TypeOK /\ UNCHANGED <<queue, applied>>
  BY DEF Inv, Exit
<1>2. /\ flight' \in [Delivery -> FlightRow]
      /\ \A d \in Delivery : /\ flight'[d].by = flight[d].by
                             /\ flight'[d].step \in {"over", flight[d].step}
  BY <1>1 DEF Exit, TypeOK, FlightRow, GoroutineSteps
<1>3. /\ life' \in [Consumer -> Lives] /\ life'[c] = "down"
      /\ fetched' \in [Consumer -> SUBSET Delivery]
      /\ \A b \in Consumer \ {c} : life'[b] = life[b] /\ fetched'[b] = fetched[b]
  BY <1>1 DEF Exit, TypeOK, Lives
<1>4. TypeOK'
  BY <1>1, <1>2, <1>3 DEF TypeOK
<1>5. CleanStopIsQuiet' /\ LoopLeavesNothing'
  BY <1>2, <1>3 DEF Inv, CleanStopIsQuiet, LoopLeavesNothing, InFlight
<1>6. NothingIsLost' /\ DeletesOnlyApplied'
  BY <1>1, <1>2 DEF Inv, NothingIsLost, DeletesOnlyApplied, IsApplied
<1> QED
  BY <1>4, <1>5, <1>6 DEF Inv

-----------------------------------------------------------------------------
(* The invariant and what follows from it.                                 *)

LEMMA InitInv == Init => Inv
<1> SUFFICES ASSUME Init PROVE Inv
  OBVIOUS
<1>1. TypeOK
  <2>1. [at |-> "unsent", visible |-> TRUE, receives |-> 0] \in QueueRow
    BY ConsumerAssumption DEF QueueRow, Places
  <2>2. NoGoroutine \in FlightRow
    BY DEF NoGoroutine, FlightRow, GoroutineSteps
  <2>3. <<>> \in Seq(Message) /\ "running" \in Lives
    BY DEF Lives
  <2> QED
    BY <2>1, <2>2, <2>3 DEF Init, TypeOK
<1> QED
  BY <1>1 DEF Init, Inv, NothingIsLost, CleanStopIsQuiet, DeletesOnlyApplied, LoopLeavesNothing,
              NoGoroutine

LEMMA StepInv == Inv /\ [Next]_vars => Inv'
<1> SUFFICES ASSUME Inv, [Next]_vars PROVE Inv'
  OBVIOUS
<1>1. CASE UNCHANGED vars
  BY <1>1 DEF vars, Inv, TypeOK, NothingIsLost, CleanStopIsQuiet, DeletesOnlyApplied,
              LoopLeavesNothing, IsApplied, InFlight
<1>2. ASSUME NEW m \in Message, QueueStep(m) PROVE Inv'
  BY <1>2, QueueStepKeeps
<1>3. ASSUME NEW d \in Delivery, Goroutine(d) PROVE Inv'
  BY <1>3, ProcessMessageKeeps, CheckReleasedKeeps, DeleteMessageKeeps DEF Goroutine
<1>4. ASSUME NEW c \in Consumer, ConsumerStep(c) PROVE Inv'
  BY <1>4, PollKeeps, StartGoroutineKeeps, LifeStepKeeps DEF ConsumerStep
<1>5. ASSUME NEW c \in Consumer, Stop(c) \/ StopTimesOut(c) \/ Exit(c) \/ Restart(c) PROVE Inv'
  BY <1>5, LifeStepKeeps, StopTimesOutKeeps, ExitKeeps
<1> QED
  BY <1>1, <1>2, <1>3, <1>4, <1>5 DEF Next

LEMMA InvHolds == Spec => []Inv
BY InitInv, StepInv, PTL DEF Spec

\* Every message has one place, at most MaxReceive receives, and every goroutine belongs to
\* one receive of it, however often consumers stop and restart (sqs_consumer.go 199-300).
THEOREM ConsumerTypeCorrect == Spec => []TypeOK
<1>1. Inv => TypeOK
  BY DEF Inv
<1> QED
  BY <1>1, InvHolds, PTL

\* A message is deleted only after its effect is committed, whatever crashes, shutdowns,
\* redeliveries and errors come between (sqs_consumer.go 305-345).
THEOREM DeletedWasApplied == Spec => []NothingIsLost
<1>1. Inv => NothingIsLost
  BY DEF Inv
<1> QED
  BY <1>1, InvHolds, PTL

\* When Stop has returned without a time-out, the consumer has no goroutine running and
\* none it is going to start (sqs_consumer.go 126-157).
THEOREM StopIsQuiet == Spec => []CleanStopIsQuiet
<1>1. Inv => CleanStopIsQuiet
  BY DEF Inv
<1> QED
  BY <1>1, InvHolds, PTL
=============================================================================
