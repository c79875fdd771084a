----------------------------- MODULE SQSConsumer -----------------------------
(***************************************************************************)
(* pkg/messaging/sqs_consumer.go: replicas of the consumer of the FIFO     *)
(* queue of wager requests.  A poll loop fetches batches and starts one    *)
(* goroutine per message; the goroutine runs ProcessWagerWithInbox and     *)
(* deletes the message unless that failed.  Stop waits for the loop and    *)
(* the goroutines, or makes what is in flight visible again.               *)
(*                                                                         *)
(* The queue is external: FIFO per message group, visibility timeouts, a   *)
(* dead-letter queue after MaxReceive receives.  ProcessWagerWithInbox is  *)
(* one step here, with the effect WagerService gives it: it applies a      *)
(* message at most once.  Left out: envelopes, metrics, polling pauses.    *)
(***************************************************************************)
EXTENDS Integers, FiniteSets, Sequences

CONSTANTS
    Consumer,    \* replicas
    MaxMessage,  \* messages 1..MaxMessage are sent, in this order
    GroupOf,     \* the message group of each (the player)
    Poison,      \* messages whose envelope or amount does not parse
    BatchSize,   \* messages per fetch: 10 in the code
    MaxReceive,  \* maxReceiveCount of the redrive policy: 5 in the code
    None

ASSUME ConsumerAssumption ==
    /\ MaxMessage \in Nat
    /\ BatchSize \in Nat \ {0}
    /\ MaxReceive \in Nat \ {0}
    /\ Poison \subseteq 1..MaxMessage
    /\ None \notin Consumer

VARIABLES
    queue,    \* per message: where it is, whether it is visible, receives so far
    fetched,  \* per consumer: deliveries of its batch it has not started yet
    flight,   \* per delivery, a message and its receive count: its goroutine
    applied,  \* messages whose effect is committed, in commit order
    life      \* per consumer: running or on its way down

vars == <<queue, fetched, flight, applied, life>>

Message == 1..MaxMessage
Delivery == Message \X (1..MaxReceive)
Places == {"unsent", "queue", "deleted", "dlq"}
GoroutineSteps == {"none", "process", "check", "delete", "over"}
Lives == {"running", "stopping", "draining", "stopped", "timed out", "down"}

QueueRow == [at : Places, visible : BOOLEAN, receives : 0..MaxReceive]
FlightRow == [by : Consumer \cup {None}, step : GoroutineSteps, released : BOOLEAN]

NoGoroutine == [by |-> None, step |-> "none", released |-> FALSE]

Init ==
    /\ queue = [m \in Message |-> [at |-> "unsent", visible |-> TRUE, receives |-> 0]]
    /\ fetched = [c \in Consumer |-> {}]
    /\ flight = [d \in Delivery |-> NoGoroutine]
    /\ applied = <<>>
    /\ life = [c \in Consumer |-> "running"]

IsApplied(m) == \E i \in 1..Len(applied) : applied[i] = m
InFlight(c) == {d \in Delivery : flight[d].by = c /\ flight[d].step # "over"}

-----------------------------------------------------------------------------
(* The queue.                                                              *)

Send(m) ==
    /\ queue[m].at = "unsent"
    /\ \A l \in 1..(m - 1) : queue[l].at # "unsent"
    /\ queue' = [queue EXCEPT ![m].at = "queue"]
    /\ UNCHANGED <<fetched, flight, applied, life>>

VisibilityExpires(m) ==
    /\ queue[m].at = "queue" /\ ~queue[m].visible
    /\ queue' = [queue EXCEPT ![m].visible = TRUE]
    /\ UNCHANGED <<fetched, flight, applied, life>>

\* No redrive policy: nothing ever moves.
RedriveNothing(m) == queue[m].at = "dlq" /\ UNCHANGED vars

\* The redrive policy the provisioner gives the queue.
Redrive(m) ==
    /\ queue[m].at = "queue" /\ queue[m].visible /\ queue[m].receives = MaxReceive
    /\ queue' = [queue EXCEPT ![m].at = "dlq"]
    /\ UNCHANGED <<fetched, flight, applied, life>>

\* The queue without a limit on receives.
DeliverableForEver(batch) ==
    /\ batch # {} /\ Cardinality(batch) <= BatchSize
    /\ \A m \in batch : queue[m].at = "queue" /\ queue[m].visible

\* A batch the queue may return: per group, the oldest messages, none of them in flight.
Deliverable(batch) ==
    /\ batch # {} /\ Cardinality(batch) <= BatchSize
    /\ \A m \in batch :
          /\ queue[m].at = "queue" /\ queue[m].visible /\ queue[m].receives < MaxReceive
          /\ \A l \in 1..(m - 1) : GroupOf[l] = GroupOf[m] /\ queue[l].at = "queue" => l \in batch

-----------------------------------------------------------------------------
(* The poll loop.                                                          *)

Poll(c) ==
    /\ life[c] = "running" /\ fetched[c] = {}
    /\ \E batch \in SUBSET Message :
          /\ Deliverable(batch)
          /\ queue' = [m \in Message |->
                          IF m \in batch
                          THEN [queue[m] EXCEPT !.visible = FALSE, !.receives = @ + 1]
                          ELSE queue[m]]
          /\ fetched' = [fetched EXCEPT ![c] = {<<m, queue[m].receives + 1>> : m \in batch}]
    /\ UNCHANGED <<flight, applied, life>>

\* The loop starts the whole batch in order, also when Stop has been called meanwhile.
StartGoroutine(c) ==
    /\ life[c] # "down"
    /\ \E d \in fetched[c] :
          /\ \A other \in fetched[c] : d[1] <= other[1]
          /\ flight' = [flight EXCEPT ![d] = [by |-> c, step |-> "process", released |-> FALSE]]
          /\ fetched' = [fetched EXCEPT ![c] = @ \ {d}]
    /\ UNCHANGED <<queue, applied, life>>

-----------------------------------------------------------------------------
(* One goroutine, for delivery d.                                          *)

Step(d, step) == flight' = [flight EXCEPT ![d].step = step]

\* Every failed call deletes the message as well.
ProcessMessageAndForget(d) ==
    /\ flight[d].step = "process"
    /\ Step(d, "check")
    /\ \/ applied' = IF d[1] \in Poison \/ IsApplied(d[1]) THEN applied ELSE Append(applied, d[1])
       \/ UNCHANGED applied
    /\ UNCHANGED <<queue, fetched, life>>

\* ProcessWagerWithInbox: applied, a replay of what was applied, or an error that leaves
\* the message in the queue.  A message that does not parse only errs.
ProcessMessage(d) ==
    /\ flight[d].step = "process"
    /\ \/ /\ d[1] \notin Poison
          /\ applied' = IF IsApplied(d[1]) THEN applied ELSE Append(applied, d[1])
          /\ Step(d, "check")
       \/ /\ Step(d, "over")
          /\ UNCHANGED applied
    /\ UNCHANGED <<queue, fetched, life>>

\* deleteFromQueue leaves a message alone whose visibility Stop has given back,
CheckReleased(d) ==
    /\ flight[d].step = "check"
    /\ Step(d, IF flight[d].released THEN "over" ELSE "delete")
    /\ UNCHANGED <<queue, fetched, applied, life>>

\* and otherwise calls DeleteMessage outside the lock.  The call may fail; SQS may ignore a
\* receipt handle that a later receive has replaced.
DeleteMessage(d) ==
    /\ flight[d].step = "delete"
    /\ Step(d, "over")
    /\ \/ queue[d[1]].at = "queue" /\ queue' = [queue EXCEPT ![d[1]].at = "deleted"]
       \/ UNCHANGED queue
    /\ UNCHANGED <<fetched, applied, life>>

-----------------------------------------------------------------------------
(* Stop and the end of the process.                                        *)

Stop(c) ==
    /\ life[c] = "running"
    /\ life' = [life EXCEPT ![c] = "stopping"]
    /\ UNCHANGED <<queue, fetched, flight, applied>>

\* Stop that does not wait for the poll loop.
PollLoopEndsEarly(c) ==
    /\ life[c] = "stopping"
    /\ life' = [life EXCEPT ![c] = "draining"]
    /\ UNCHANGED <<queue, fetched, flight, applied>>

\* The poll loop sees the stop between two batches and closes doneCh.
PollLoopEnds(c) ==
    /\ life[c] = "stopping" /\ fetched[c] = {}
    /\ life' = [life EXCEPT ![c] = "draining"]
    /\ UNCHANGED <<queue, fetched, flight, applied>>

StopReturns(c) ==
    /\ life[c] = "draining" /\ InFlight(c) = {}
    /\ life' = [life EXCEPT ![c] = "stopped"]
    /\ UNCHANGED <<queue, fetched, flight, applied>>

\* releaseInFlightToZero when the shutdown deadline passes, before or after the poll loop
\* ended: what is in flight at this moment becomes visible.
StopTimesOut(c) ==
    /\ life[c] \in {"stopping", "draining"}
    /\ flight' = [d \in Delivery |-> IF d \in InFlight(c)
                                     THEN [flight[d] EXCEPT !.released = TRUE] ELSE flight[d]]
    /\ queue' = [m \in Message |->
                    IF <<m, queue[m].receives>> \in InFlight(c) /\ queue[m].at = "queue"
                    THEN [queue[m] EXCEPT !.visible = TRUE] ELSE queue[m]]
    /\ life' = [life EXCEPT ![c] = "timed out"]
    /\ UNCHANGED <<fetched, applied>>

\* The process ends: after Stop, or in a crash.  Its goroutines end with it.
Exit(c) ==
    /\ life[c] # "down"
    /\ life' = [life EXCEPT ![c] = "down"]
    /\ fetched' = [fetched EXCEPT ![c] = {}]
    /\ flight' = [d \in Delivery |-> IF flight[d].by = c THEN [flight[d] EXCEPT !.step = "over"]
                                     ELSE flight[d]]
    /\ UNCHANGED <<queue, applied>>

Restart(c) ==
    /\ life[c] = "down"
    /\ life' = [life EXCEPT ![c] = "running"]
    /\ UNCHANGED <<queue, fetched, flight, applied>>

-----------------------------------------------------------------------------
Goroutine(d) == ProcessMessage(d) \/ CheckReleased(d) \/ DeleteMessage(d)
ConsumerStep(c) == Poll(c) \/ StartGoroutine(c) \/ PollLoopEnds(c) \/ StopReturns(c)
QueueStep(m) == Send(m) \/ VisibilityExpires(m) \/ Redrive(m)

Next ==
    \/ \E m \in Message : QueueStep(m)
    \/ \E d \in Delivery : Goroutine(d)
    \/ \E c \in Consumer : ConsumerStep(c) \/ Stop(c) \/ StopTimesOut(c) \/ Exit(c) \/ Restart(c)

Spec == Init /\ [][Next]_vars

\* Loops and goroutines run, time passes, a process that ended is started again, and
\* shutdowns stop at some point.
Fairness ==
    /\ \A m \in Message : WF_vars(QueueStep(m))
    /\ \A d \in Delivery : WF_vars(Goroutine(d))
    /\ \A c \in Consumer : WF_vars(ConsumerStep(c)) /\ WF_vars(Restart(c))
    /\ \A c \in Consumer : WF_vars(Exit(c) /\ life[c] # "running")
    /\ <>[][~\E c \in Consumer : Stop(c) \/ (Exit(c) /\ life[c] = "running")]_vars

LiveSpec == Spec /\ Fairness

-----------------------------------------------------------------------------
\* Types.
TypeOK ==
    /\ queue \in [Message -> QueueRow]
    /\ fetched \in [Consumer -> SUBSET Delivery]
    /\ flight \in [Delivery -> FlightRow]
    /\ applied \in Seq(Message)
    /\ life \in [Consumer -> Lives]

\* A message leaves the queue only after its effect is committed, or into the dead-letter
\* queue: no crash, shutdown or error loses one (sqs_consumer.go 305-345).
NothingIsLost == \A m \in Message : queue[m].at = "deleted" => IsApplied(m)

\* When Stop returns nil nothing of this consumer runs any more or is still going to: the
\* pools it used may be closed (sqs_consumer.go 126-157).
CleanStopIsQuiet ==
    \A c \in Consumer : life[c] = "stopped" => fetched[c] = {} /\ InFlight(c) = {}

\* Every message sent is deleted or ends in the dead-letter queue, if shutdowns end.
EveryMessageLeaves ==
    \A m \in Message : queue[m].at = "queue" ~> queue[m].at \in {"deleted", "dlq"}

\* "garantindo preservacao estrita de ordem sequencial por jogador/carteira",
\* ARCHITECTURE.md 7.2: the messages of a group take effect in the order they were sent.
GroupOrderIsKept ==
    \A i, j \in 1..Len(applied) :
        i < j /\ GroupOf[applied[i]] = GroupOf[applied[j]] => applied[i] < applied[j]
=============================================================================
