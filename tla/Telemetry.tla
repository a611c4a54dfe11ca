------------------------------- MODULE Telemetry -------------------------------
(***************************************************************************)
(* The telemetry queue (runtime/telemetry/events.py): any thread emits, a  *)
(* full queue drops its oldest event for the new one, and the telemetry-   *)
(* worker thread, once started, logs what it gets.  put_nowait and         *)
(* get_nowait are atomic, the three calls of an emit() together are not.   *)
(* At this commit the hardening library (module Recovery) emits, and only  *)
(* the tests start the worker.                                             *)
(*                                                                         *)
(* An event is the pair of its thread and its number in that thread.       *)
(***************************************************************************)
EXTENDS Naturals, Sequences

CONSTANTS Threads,   \* threads that emit
          MaxSize,   \* maxsize of the queue
          MaxEvents  \* bound on the events of a thread

\* The queue holds 1000 events.
ASSUME TelemetryConstants == MaxSize \in Nat \ {0} /\ MaxEvents \in Nat

VARIABLES
    queue,     \* _queue
    emitting,  \* where each thread is inside emit()
    emitted,   \* events each thread has emitted
    logged,    \* number of the last event of each thread the worker got
    dropped,   \* dropped_count
    drainer    \* the telemetry-worker thread

vars == <<queue, emitting, emitted, logged, dropped, drainer>>

Events == Threads \X (1..MaxEvents)

TypeOK ==
    /\ queue \in Seq(Events) /\ Len(queue) <= MaxSize
    /\ emitting \in [Threads -> {"no", "put", "full", "took"}]
    /\ emitted \in [Threads -> 0..MaxEvents] /\ logged \in [Threads -> 0..MaxEvents]
    /\ dropped \in Nat /\ drainer \in {"new", "running", "stopping", "ended"}

Init ==
    /\ queue = <<>> /\ emitting = [t \in Threads |-> "no"]
    /\ emitted = [t \in Threads |-> 0] /\ logged = [t \in Threads |-> 0]
    /\ dropped = 0 /\ drainer = "new"

-----------------------------------------------------------------------------

Event(t) == <<t, emitted[t]>>

Emit(t) ==
    /\ emitting[t] = "no" /\ emitted[t] < MaxEvents
    /\ emitting' = [emitting EXCEPT ![t] = "put"]
    /\ emitted' = [emitted EXCEPT ![t] = @ + 1]
    /\ UNCHANGED <<queue, logged, dropped, drainer>>

\* put_nowait
Put(t) ==
    /\ emitting[t] = "put"
    /\ \/ /\ Len(queue) < MaxSize /\ queue' = Append(queue, Event(t))
          /\ emitting' = [emitting EXCEPT ![t] = "no"]
       \/ Len(queue) = MaxSize /\ UNCHANGED queue /\ emitting' = [emitting EXCEPT ![t] = "full"]
    /\ UNCHANGED <<logged, dropped, drainer, emitted>>

\* get_nowait of the oldest; if the queue was drained meanwhile it raises, and
\* the new event is given up.
MakeRoom(t) ==
    /\ emitting[t] = "full"
    /\ \/ /\ queue # <<>> /\ queue' = Tail(queue)
          /\ emitting' = [emitting EXCEPT ![t] = "took"]
       \/ queue = <<>> /\ UNCHANGED queue /\ emitting' = [emitting EXCEPT ![t] = "no"]
    /\ UNCHANGED <<logged, dropped, drainer, emitted>>

\* Mutant: the new event is put in front of the rest.
RefillFront(t) ==
    /\ emitting[t] = "took" /\ emitting' = [emitting EXCEPT ![t] = "no"]
    /\ \/ /\ Len(queue) < MaxSize /\ queue' = <<Event(t)>> \o queue
          /\ dropped' = dropped + 1
       \/ Len(queue) = MaxSize /\ UNCHANGED <<queue, dropped>>
    /\ UNCHANGED <<logged, drainer, emitted>>

\* The second put_nowait; if another thread took the room both events are gone
\* and nothing is counted.
Refill(t) ==
    /\ emitting[t] = "took" /\ emitting' = [emitting EXCEPT ![t] = "no"]
    /\ \/ /\ Len(queue) < MaxSize /\ queue' = Append(queue, Event(t))
          /\ dropped' = dropped + 1
       \/ Len(queue) = MaxSize /\ UNCHANGED <<queue, dropped>>
    /\ UNCHANGED <<logged, drainer, emitted>>

\* _worker: one get.  An event that cannot be logged is gone all the same.
Drain ==
    /\ drainer \in {"running", "stopping"} /\ queue # <<>>
    /\ queue' = Tail(queue)
    /\ logged' = [logged EXCEPT ![Head(queue)[1]] = Head(queue)[2]]
    /\ UNCHANGED <<dropped, drainer, emitting, emitted>>

\* start(): the thread object can be started once; while it lives, only the
\* stop event is cleared.  On an ended thread start() raises.
StartDrainer ==
    /\ drainer \in {"new", "stopping"} /\ drainer' = "running"
    /\ UNCHANGED <<queue, logged, dropped, emitting, emitted>>

\* stop() sets the event, which the thread sees before its next get.
StopDrainer ==
    /\ drainer = "running" /\ drainer' = "stopping"
    /\ UNCHANGED <<queue, logged, dropped, emitting, emitted>>

DrainerEnds ==
    /\ drainer = "stopping" /\ drainer' = "ended"
    /\ UNCHANGED <<queue, logged, dropped, emitting, emitted>>

Next ==
    \/ \E t \in Threads : Emit(t) \/ Put(t) \/ MakeRoom(t) \/ Refill(t)
    \/ Drain \/ StartDrainer \/ StopDrainer \/ DrainerEnds

Spec == Init /\ [][Next]_vars
-----------------------------------------------------------------------------

Fifo(t) == INSTANCE LossyFifo WITH sent <- emitted[t], got <- logged[t]

\* What reaches the log of one thread's events comes in the order it was emitted,
\* though a full queue drops its oldest while others put and the worker gets
\* (telemetry/events.py:27-52).
TelemetryInOrder ==
    /\ \A t \in Threads : Fifo(t)!Init
    /\ [][\A t \in Threads : [Fifo(t)!Next]_<<emitted[t], logged[t]>>]_vars
=============================================================================
