--------------------------- MODULE HardeningProofs ---------------------------
(***************************************************************************)
(* Proofs about the hardening library and the telemetry queue it emits     *)
(* into.                                                                   *)
(*                                                                         *)
(* Telemetry: each thread's events go through a lossy fifo, for any        *)
(* threads and any size of the queue.  Ordered is the strengthening: the   *)
(* queue holds a thread's events in order, all newer than what is logged,  *)
(* and, while the thread is inside emit(), older than the event in hand,   *)
(* so that dropping the oldest and appending keep it.                      *)
(*                                                                         *)
(* Recovery: what an unlocked policy can grant, for any threads and any    *)
(* limits.  The two bounds count threads: those that have passed the       *)
(* question and not yet recorded their failure, and those whose recorded   *)
(* failure the policy still counts and which have not been answered.       *)
(***************************************************************************)
EXTENDS Telemetry, Recovery, SequenceTheorems, FiniteSetTheorems, TLAPS

Ordered ==
    /\ \A t \in Threads : logged[t] <= emitted[t]
    /\ \A t \in Threads : emitting[t] # "no" => logged[t] < emitted[t]
    /\ \A i \in 1..Len(queue) :
           /\ logged[queue[i][1]] < queue[i][2] /\ queue[i][2] <= emitted[queue[i][1]]
           /\ emitting[queue[i][1]] # "no" => queue[i][2] < emitted[queue[i][1]]
    /\ \A i, j \in 1..Len(queue) :
           i < j /\ queue[i][1] = queue[j][1] => queue[i][2] < queue[j][2]

\* The oldest event leaves the queue: what is left is as it was, one place earlier.
LEMMA TailOf ==
    ASSUME TypeOK, queue # <<>>
    PROVE  /\ Tail(queue) \in Seq(Events) /\ Len(Tail(queue)) = Len(queue) - 1
           /\ \A i \in 1..Len(Tail(queue)) : Tail(queue)[i] = queue[i + 1]
           /\ Len(queue) \in Nat \ {0} /\ Head(queue) = queue[1] /\ queue[1] \in Events
           /\ \A i \in 1..Len(queue) : queue[i] \in Events
BY HeadTailProperties, ElementOfSeq DEF TypeOK

\* An appended event is the newest of its thread.
LEMMA AppendStep ==
    ASSUME TypeOK, Ordered, NEW t \in Threads, emitting[t] # "no", Len(queue) < MaxSize,
           queue' = Append(queue, Event(t)), emitting' = [emitting EXCEPT ![t] = "no"],
           UNCHANGED <<emitted, logged>>
    PROVE  /\ queue' \in Seq(Events) /\ Len(queue') <= MaxSize
           /\ Ordered'
<1> USE TelemetryConstants
<1>1. Event(t) \in Events /\ Event(t)[1] = t /\ Event(t)[2] = emitted[t]
  BY DEF Event, Events, TypeOK, Ordered
<1>2. /\ queue' \in Seq(Events) /\ Len(queue') = Len(queue) + 1 /\ Len(queue) \in Nat
      /\ \A i \in 1..Len(queue) : queue'[i] = queue[i] /\ queue[i] \in Events
      /\ queue'[Len(queue) + 1] = Event(t)
  BY <1>1, ElementOfSeq DEF TypeOK
<1>3. \A i \in 1..Len(queue) : queue[i][1] \in Threads /\ queue[i][2] \in Nat
  BY <1>2 DEF Events
<1>4. \A i \in 1..Len(queue') :
           /\ logged'[queue'[i][1]] < queue'[i][2] /\ queue'[i][2] <= emitted'[queue'[i][1]]
           /\ emitting'[queue'[i][1]] # "no" => queue'[i][2] < emitted'[queue'[i][1]]
  BY <1>1, <1>2, <1>3 DEF Ordered, TypeOK
<1>5. \A i, j \in 1..Len(queue') :
           i < j /\ queue'[i][1] = queue'[j][1] => queue'[i][2] < queue'[j][2]
  BY SMTT(30), <1>1, <1>2, <1>3 DEF Ordered, TypeOK
<1>6. Len(queue') <= MaxSize
  BY <1>2
<1>7. \A u \in Threads : /\ logged'[u] <= emitted'[u]
                         /\ emitting'[u] # "no" => logged'[u] < emitted'[u]
  BY DEF Ordered, TypeOK
<1> QED
  BY <1>2, <1>4, <1>5, <1>6, <1>7 DEF Ordered

\* The types and the order are kept by every step.
LEMMA OrderedStep == ASSUME TypeOK, Ordered, [Next]_vars PROVE TypeOK' /\ Ordered'
<1> USE TelemetryConstants
<1>1. CASE UNCHANGED vars
  BY <1>1 DEF vars, TypeOK, Ordered
<1>2. CASE StartDrainer \/ StopDrainer \/ DrainerEnds
  BY <1>2 DEF StartDrainer, StopDrainer, DrainerEnds, TypeOK, Ordered
<1>3. ASSUME NEW t \in Threads, Emit(t) PROVE TypeOK' /\ Ordered'
  <2>1. \A i \in 1..Len(queue) : queue[i][1] \in Threads /\ queue[i][2] \in Nat
    BY SMTT(30), ElementOfSeq DEF TypeOK, Events
  <2> QED
    BY SMTT(30), <1>3, <2>1 DEF Emit, TypeOK, Ordered
<1>4. ASSUME NEW t \in Threads, Put(t) \/ Refill(t) PROVE TypeOK' /\ Ordered'
  <2>1. CASE Len(queue) = MaxSize
    <3>1. \A i \in 1..Len(queue) : queue[i][1] \in Threads /\ queue[i][2] \in Nat
      BY SMTT(30), ElementOfSeq DEF TypeOK, Events
    <3>2. /\ UNCHANGED <<queue, emitted, logged, dropped, drainer>> /\ emitting[t] # "no"
          /\ \E e \in {"no", "full"} : emitting' = [emitting EXCEPT ![t] = e]
      BY <1>4, <2>1 DEF Put, Refill
    <3> QED
      BY <3>1, <3>2 DEF TypeOK, Ordered
  <2>2. CASE Len(queue) # MaxSize
    <3>1. /\ emitting[t] # "no" /\ Len(queue) < MaxSize /\ queue' = Append(queue, Event(t))
          /\ emitting' = [emitting EXCEPT ![t] = "no"] /\ UNCHANGED <<emitted, logged, drainer>>
          /\ dropped' \in Nat
      BY <1>4, <2>2 DEF Put, Refill, TypeOK
    <3> QED
      BY <3>1, AppendStep DEF TypeOK
  <2> QED
    BY <2>1, <2>2
<1>5. ASSUME NEW t \in Threads, MakeRoom(t) PROVE TypeOK' /\ Ordered'
  <2>1. CASE queue = <<>>
    BY <1>5, <2>1 DEF MakeRoom, TypeOK, Ordered
  <2>2. CASE queue # <<>>
    <3>1. queue' = Tail(queue) /\ emitting' = [emitting EXCEPT ![t] = "took"] /\ emitting[t] = "full"
          /\ UNCHANGED <<logged, dropped, drainer, emitted>>
      BY <1>5, <2>2 DEF MakeRoom
    <3>2. \A i \in 1..Len(queue) : queue[i][1] \in Threads /\ queue[i][2] \in Nat
      BY <2>2, TailOf DEF Events
    <3> QED
      BY <2>2, <3>1, <3>2, TailOf DEF TypeOK, Ordered
  <2> QED
    BY <2>1, <2>2
<1>6. CASE Drain
  <2>1. queue # <<>> /\ queue' = Tail(queue) /\ UNCHANGED <<dropped, drainer, emitting, emitted>>
        /\ logged' = [logged EXCEPT ![Head(queue)[1]] = Head(queue)[2]]
    BY <1>6 DEF Drain
  <2>2. \A i \in 1..Len(queue) : queue[i][1] \in Threads /\ queue[i][2] \in 1..MaxEvents
    BY <2>1, TailOf DEF Events
  <2>3. logged' \in [Threads -> 0..MaxEvents]
    BY <2>1, <2>2, TailOf DEF TypeOK
  <2>4. TypeOK'
    BY <2>1, <2>3, TailOf DEF TypeOK
  <2>5. Ordered'
    <3>1. /\ Len(queue') = Len(queue) - 1 /\ Len(queue) \in Nat \ {0}
          /\ \A i \in 1..Len(queue') : queue'[i] = queue[i + 1] /\ i + 1 \in 1..Len(queue)
          /\ logged' = [logged EXCEPT ![queue[1][1]] = queue[1][2]]
      <4>1. /\ Len(Tail(queue)) = Len(queue) - 1 /\ Len(queue) \in Nat \ {0}
            /\ \A i \in 1..Len(Tail(queue)) : Tail(queue)[i] = queue[i + 1]
            /\ Head(queue) = queue[1]
        BY <2>1, TailOf
      <4>2. \A i \in 1..Len(queue) - 1 : i + 1 \in 1..Len(queue)
        BY <4>1
      <4> QED
        BY <2>1, <4>1, <4>2
    <3>2. \A u \in Threads : /\ logged'[u] <= emitted[u]
                             /\ emitting[u] # "no" => logged'[u] < emitted[u]
      BY <2>2, <3>1 DEF TypeOK, Ordered
    <3>3. \A i \in 2..Len(queue) :
             /\ logged'[queue[i][1]] < queue[i][2] /\ queue[i][2] <= emitted[queue[i][1]]
             /\ emitting[queue[i][1]] # "no" => queue[i][2] < emitted[queue[i][1]]
      BY <2>2, <3>1 DEF TypeOK, Ordered
    <3>4. \A i, j \in 1..Len(queue') :
             i < j /\ queue'[i][1] = queue'[j][1] => queue'[i][2] < queue'[j][2]
      BY SMTT(30), <3>1 DEF Ordered
    <3>5. \A i \in 1..Len(queue') : i + 1 \in 2..Len(queue)
      BY <3>1
    <3> QED
      BY <2>1, <3>1, <3>2, <3>3, <3>4, <3>5 DEF Ordered
  <2> QED
    BY <2>4, <2>5
<1> QED
  BY <1>1, <1>2, <1>3, <1>4, <1>5, <1>6 DEF Next

\* What the queue gives a thread: its events are logged in order, some never
\* (runtime/telemetry/events.py:27-52).
THEOREM TelemetryIsOrdered == Spec => TelemetryInOrder
<1>1. Init => TypeOK /\ Ordered
  BY TelemetryConstants DEF Init, TypeOK, Ordered
<1>2. TypeOK /\ Ordered /\ [Next]_vars => (TypeOK /\ Ordered)'
  BY OrderedStep
<1>3. Init => \A t \in Threads : Fifo(t)!Init
  BY DEF Init, Fifo!Init
<1>4. TypeOK /\ Ordered /\ [Next]_vars
        => [\A t \in Threads : [Fifo(t)!Next]_<<emitted[t], logged[t]>>]_vars
  <2> SUFFICES ASSUME TypeOK, Ordered, Next, NEW t \in Threads
               PROVE  [Fifo(t)!Next]_<<emitted[t], logged[t]>>
    OBVIOUS
  <2>1. ASSUME NEW u \in Threads, Emit(u) PROVE [Fifo(t)!Next]_<<emitted[t], logged[t]>>
    BY <2>1 DEF Emit, TypeOK, Fifo!Next, Fifo!Send
  <2>2. CASE Drain
    <3>1. /\ queue # <<>> /\ UNCHANGED emitted
          /\ logged' = [logged EXCEPT ![queue[1][1]] = queue[1][2]]
      BY <2>2, TailOf DEF Drain
    <3>2. /\ queue[1][1] \in Threads /\ queue[1][2] \in Nat
          /\ logged[queue[1][1]] < queue[1][2] /\ queue[1][2] <= emitted[queue[1][1]]
      BY <3>1, TailOf DEF Ordered, Events
    <3> QED
      BY <3>1, <3>2 DEF TypeOK, Fifo!Next, Fifo!Handle
  <2>3. CASE UNCHANGED <<emitted, logged>>
    BY <2>3
  <2> QED
    BY <2>1, <2>2, <2>3 DEF Next, Put, MakeRoom, Refill, StartDrainer, StopDrainer, DrainerEnds
<1> QED
  BY <1>1, <1>2, <1>3, <1>4, PTL DEF Spec, TelemetryInOrder

-----------------------------------------------------------------------------
(* Recovery *)

\* Threads that were told to restart s and have not recorded the failure yet.
Recording(s) == {t \in Observers : pc[t] = "record" /\ on[t] = s}

\* Threads whose failure of s is counted and that may still be granted a restart.
Pending(s) ==
    {t \in Observers : counted[t] /\ on[t] = s /\ pc[t] \in {"backoff", "decide"}}

\* Every thread that passed the question will add one retry.
RetryBudget ==
    \A s \in Subsystems :
        retries[s] + Cardinality(Recording(s)) <= MaxRetries - 1 + Cardinality(Observers)

\* Every restart granted, and every one that may still be, has a counted retry.
GrantBudget ==
    \A s \in Subsystems : granted[s] + Cardinality(Pending(s)) <= retries[s]

\* The facts about cardinalities the budgets rest on.
LEMMA Counting ==
    ASSUME NEW S, NEW T, IsFiniteSet(T)
    PROVE  /\ S \subseteq T => /\ IsFiniteSet(S) /\ Cardinality(S) \in Nat
                               /\ Cardinality(S) <= Cardinality(T)
           /\ \A x : x \notin T => Cardinality(T \cup {x}) = Cardinality(T) + 1
           /\ \A x \in T : Cardinality(T \ {x}) = Cardinality(T) - 1
<1>1. Cardinality(T) \in Nat
  BY FS_CardinalityType
<1>2. S \subseteq T => IsFiniteSet(S) /\ Cardinality(S) \in Nat /\ Cardinality(S) <= Cardinality(T)
  BY FS_Subset, FS_CardinalityType
<1>3. ASSUME NEW x, x \notin T PROVE Cardinality(T \cup {x}) = Cardinality(T) + 1
  BY <1>3, FS_AddElement
<1>4. ASSUME NEW x \in T PROVE Cardinality(T \ {x}) = Cardinality(T) - 1
  BY <1>4, FS_RemoveElement
<1> QED
  BY <1>2, <1>3, <1>4

LEMMA ObserversCounted ==
    /\ IsFiniteSet(Observers) /\ Cardinality(Observers) \in Nat
    /\ \A s : IsFiniteSet(Recording(s)) /\ Cardinality(Recording(s)) \in Nat
    /\ \A s : IsFiniteSet(Pending(s)) /\ Cardinality(Pending(s)) \in Nat
<1>1. \A s : Recording(s) \subseteq Observers /\ Pending(s) \subseteq Observers
  BY DEF Recording, Pending
<1>2. IsFiniteSet(Observers)
  BY RecoveryConstants
<1> QED
  BY <1>1, <1>2, FS_Subset, FS_CardinalityType

\* The types are kept by every step.
LEMMA RecoveryTypeStep ==
    ASSUME RecoveryTypeOK, [RecoveryNext]_recoveryVars PROVE RecoveryTypeOK'
<1> USE RecoveryConstants DEF RecoveryTypeOK, policyVars
<1>1. CASE UNCHANGED recoveryVars
  BY <1>1 DEF recoveryVars
<1>2. ASSUME NEW t \in Observers, ObserveFault(t) PROVE RecoveryTypeOK'
  <2>1. PICK s \in Subsystems, flagged \in BOOLEAN, cause \in {"critical", "transient", "other"} :
             Call(t, s, Classify(flagged, cause))
    BY <1>2 DEF ObserveFault
  <2>2. Classify(flagged, cause) \in {"recover", "shutdown", "check"}
    BY DEF Classify
  <2> QED
    BY <1>2, <2>1, <2>2 DEF ObserveFault, Call
<1>3. ASSUME NEW t \in Observers, RecoverySuccess(t) PROVE RecoveryTypeOK'
  BY <1>3 DEF RecoverySuccess, Call
<1>4. ASSUME NEW t \in Observers,
             Recover(t) \/ Shutdown(t) \/ Escalate(t) \/ ReportRestart(t) \/ CheckPolicy(t)
      PROVE  RecoveryTypeOK'
  BY <1>4 DEF Recover, Shutdown, Escalate, ReportRestart, CheckPolicy, Step
<1>5. ASSUME NEW t \in Observers, RecordFailure(t) PROVE RecoveryTypeOK'
  BY <1>5 DEF RecordFailure, Step
<1>6. ASSUME NEW t \in Observers, NextBackoff(t) PROVE RecoveryTypeOK'
  BY <1>6 DEF NextBackoff, Step
<1>7. ASSUME NEW t \in Observers, Decide(t) PROVE RecoveryTypeOK'
  BY <1>7 DEF Decide, Step
<1>8. ASSUME NEW t \in Observers, RunHandler(t) PROVE RecoveryTypeOK'
  BY <1>8 DEF RunHandler, Step
<1>9. ASSUME NEW t \in Observers, ResetPolicy(t) PROVE RecoveryTypeOK'
  <2>1. counted' \in [Observers -> BOOLEAN]
    BY Zenon, <1>9 DEF ResetPolicy
  <2> QED
    BY <1>9, <2>1 DEF ResetPolicy, Step
<1> QED
  BY <1>1, <1>2, <1>3, <1>4, <1>5, <1>6, <1>7, <1>8, <1>9 DEF RecoveryNext

\* Only CheckPolicy adds to the threads about to record, and it asks first; a
\* recorded failure moves one of them over to the retries.
LEMMA RetryBudgetStep ==
    ASSUME RecoveryTypeOK, RetryBudget, [RecoveryNext]_recoveryVars PROVE RetryBudget'
<1> USE RecoveryConstants DEF policyVars
<1> SUFFICES ASSUME NEW s \in Subsystems
             PROVE  retries'[s] + Cardinality(Recording(s)') <= MaxRetries - 1 + Cardinality(Observers)
  BY DEF RetryBudget
<1> USE DEF RecoveryTypeOK
<1>a. /\ retries[s] \in Nat /\ retries'[s] \in Nat /\ MaxRetries \in Nat \ {0}
      /\ retries[s] + Cardinality(Recording(s)) <= MaxRetries - 1 + Cardinality(Observers)
      /\ Recording(s)' \subseteq Observers
      /\ IsFiniteSet(Recording(s)) /\ Cardinality(Recording(s)) \in Nat
      /\ Cardinality(Recording(s)') \in Nat /\ Cardinality(Observers) \in Nat
      /\ Cardinality(Recording(s)') <= Cardinality(Observers)
  <2>1. Recording(s)' \subseteq Observers
    BY DEF Recording
  <2>2. Cardinality(Recording(s)') \in Nat /\ Cardinality(Recording(s)') <= Cardinality(Observers)
    BY <2>1, Counting
  <2>3. retries'[s] \in Nat /\ retries[s] \in Nat
    BY RecoveryTypeStep
  <2> QED
    BY <2>1, <2>2, <2>3, ObserversCounted DEF RetryBudget
<1>b. ASSUME Recording(s)' \subseteq Recording(s), retries'[s] <= retries[s]
      PROVE  retries'[s] + Cardinality(Recording(s)') <= MaxRetries - 1 + Cardinality(Observers)
  <2>1. Cardinality(Recording(s)') <= Cardinality(Recording(s))
    BY <1>a, <1>b, Counting
  <2> QED
    BY <1>a, <1>b, <2>1
<1>1. CASE UNCHANGED recoveryVars
  BY <1>1, <1>b, <1>a DEF recoveryVars, Recording
<1>2. ASSUME NEW t \in Observers, CheckPolicy(t)
      PROVE  retries'[s] + Cardinality(Recording(s)') <= MaxRetries - 1 + Cardinality(Observers)
  <2>1. CASE on[t] = s /\ ~ShouldEscalate(s)
    <3>1. retries'[s] = retries[s] /\ retries[s] < MaxRetries
      BY <1>2, <2>1, <1>a DEF CheckPolicy, ShouldEscalate
    <3> QED
      BY <3>1, <1>a
  <2>2. CASE ~(on[t] = s /\ ~ShouldEscalate(s))
    <3>1. Recording(s)' \subseteq Recording(s) /\ retries'[s] = retries[s]
      BY <1>2, <2>2 DEF CheckPolicy, Step, Recording
    <3> QED
      BY <3>1, <1>a, <1>b
  <2> QED
    BY <2>1, <2>2
<1>3. ASSUME NEW t \in Observers, RecordFailure(t)
      PROVE  retries'[s] + Cardinality(Recording(s)') <= MaxRetries - 1 + Cardinality(Observers)
  <2>1. CASE on[t] = s
    <3>1. t \in Recording(s) /\ Recording(s)' = Recording(s) \ {t} /\ retries'[s] = retries[s] + 1
      BY <1>3, <2>1 DEF RecordFailure, Step, Recording
    <3>2. Cardinality(Recording(s)') = Cardinality(Recording(s)) - 1
      BY <3>1, <1>a, Counting
    <3> QED
      BY <3>1, <3>2, <1>a
  <2>2. CASE on[t] # s
    <3>1. Recording(s)' \subseteq Recording(s) /\ retries'[s] = retries[s]
      BY <1>3, <2>2 DEF RecordFailure, Step, Recording
    <3> QED
      BY <3>1, <1>a, <1>b
  <2> QED
    BY <2>1, <2>2
<1>4. ASSUME NEW t \in Observers, ResetPolicy(t)
      PROVE  Recording(s)' \subseteq Recording(s) /\ retries'[s] <= retries[s]
  BY <1>4 DEF ResetPolicy, Step, Recording
<1>5. ASSUME NEW t \in Observers,
             Recover(t) \/ Shutdown(t) \/ Escalate(t) \/ ReportRestart(t) \/ NextBackoff(t)
             \/ Decide(t) \/ RunHandler(t)
      PROVE  Recording(s)' \subseteq Recording(s) /\ retries'[s] <= retries[s]
  BY <1>5 DEF Recover, Shutdown, Escalate, ReportRestart, NextBackoff, Decide, RunHandler,
              Step, Recording
<1>6. ASSUME NEW t \in Observers, ObserveFault(t) \/ RecoverySuccess(t)
      PROVE  Recording(s)' \subseteq Recording(s) /\ retries'[s] <= retries[s]
  <2>1. PICK r \in Subsystems, to \in {"recover", "shutdown", "check", "reset"} :
             Call(t, r, to) /\ retries' = retries
    BY <1>6 DEF ObserveFault, RecoverySuccess, Classify
  <2> QED
    BY <2>1 DEF Call, Recording
<1> QED
  BY <1>1, <1>2, <1>3, <1>4, <1>5, <1>6, <1>b DEF RecoveryNext

\* A recorded failure is counted when it becomes pending; a granted one leaves
\* the pending threads; a success forgets them all.
LEMMA GrantBudgetStep ==
    ASSUME RecoveryTypeOK, GrantBudget, [RecoveryNext]_recoveryVars PROVE GrantBudget'
<1> USE RecoveryConstants DEF policyVars, RecoveryTypeOK
<1> SUFFICES ASSUME NEW s \in Subsystems
             PROVE  granted'[s] + Cardinality(Pending(s)') <= retries'[s]
  BY DEF GrantBudget
<1>a. /\ retries[s] \in Nat /\ granted[s] \in Nat
      /\ granted[s] + Cardinality(Pending(s)) <= retries[s]
      /\ IsFiniteSet(Pending(s)) /\ Cardinality(Pending(s)) \in Nat
  BY ObserversCounted DEF GrantBudget
<1>b. ASSUME Pending(s)' \subseteq Pending(s), UNCHANGED <<retries, granted>>
      PROVE  granted'[s] + Cardinality(Pending(s)') <= retries'[s]
  <2>1. Cardinality(Pending(s)') \in Nat /\ Cardinality(Pending(s)') <= Cardinality(Pending(s))
    BY <1>a, <1>b, Counting
  <2> QED
    BY <1>a, <1>b, <2>1
<1>1. CASE UNCHANGED recoveryVars
  BY <1>1, <1>b DEF recoveryVars, Pending
<1>2. ASSUME NEW t \in Observers, RecordFailure(t)
      PROVE  granted'[s] + Cardinality(Pending(s)') <= retries'[s]
  <2>1. CASE on[t] = s
    <3>1. /\ t \notin Pending(s) /\ Pending(s)' = Pending(s) \cup {t}
          /\ retries'[s] = retries[s] + 1 /\ granted' = granted
      BY <1>2, <2>1 DEF RecordFailure, Step, Pending
    <3>2. Cardinality(Pending(s)') = Cardinality(Pending(s)) + 1
      BY <3>1, <1>a, Counting
    <3> QED
      BY <3>1, <3>2, <1>a
  <2>2. CASE on[t] # s
    <3>1. Pending(s)' = Pending(s) /\ retries'[s] = retries[s] /\ granted' = granted
      BY <1>2, <2>2 DEF RecordFailure, Step, Pending
    <3> QED
      BY <3>1, <1>a
  <2> QED
    BY <2>1, <2>2
<1>3. ASSUME NEW t \in Observers, Decide(t)
      PROVE  granted'[s] + Cardinality(Pending(s)') <= retries'[s]
  <2>1. CASE granted' = granted
    <3>1. Pending(s)' \subseteq Pending(s) /\ retries' = retries
      BY <1>3 DEF Decide, Step, Pending
    <3> QED
      BY <2>1, <3>1, <1>b
  <2>2. CASE granted' # granted
    <3>1. /\ counted[t] /\ pc[t] = "decide" /\ pc' = [pc EXCEPT ![t] = "handler"]
          /\ UNCHANGED <<on, counted, retries>>
          /\ granted' = [granted EXCEPT ![on[t]] = @ + 1]
      BY <1>3, <2>2 DEF Decide, Step
    <3>2. CASE on[t] = s
      <4>1. t \in Pending(s) /\ Pending(s)' = Pending(s) \ {t} /\ granted'[s] = granted[s] + 1
        BY <3>1, <3>2 DEF Pending
      <4>2. Cardinality(Pending(s)') = Cardinality(Pending(s)) - 1
        BY <4>1, <1>a, Counting
      <4> QED
        BY <3>1, <4>1, <4>2, <1>a
    <3>3. CASE on[t] # s
      <4>1. Pending(s)' = Pending(s) /\ granted'[s] = granted[s]
        BY <3>1, <3>3 DEF Pending
      <4> QED
        BY <3>1, <4>1, <1>a
    <3> QED
      BY <3>2, <3>3
  <2> QED
    BY <2>1, <2>2
<1>4. ASSUME NEW t \in Observers, ResetPolicy(t)
      PROVE  granted'[s] + Cardinality(Pending(s)') <= retries'[s]
  <2>1. CASE on[t] = s
    <3>1. Pending(s)' = {}
      BY <1>4, <2>1 DEF ResetPolicy, Step, Pending
    <3>2. retries'[s] = 0 /\ granted'[s] = 0
      BY <1>4, <2>1 DEF ResetPolicy
    <3> QED
      BY <3>1, <3>2, FS_EmptySet
  <2>2. CASE on[t] # s
    <3>1. Pending(s)' = Pending(s)
      BY <1>4, <2>2 DEF ResetPolicy, Step, Pending
    <3>2. retries'[s] = retries[s] /\ granted'[s] = granted[s]
      BY <1>4, <2>2 DEF ResetPolicy
    <3> QED
      BY <3>1, <3>2, <1>a
  <2> QED
    BY <2>1, <2>2
<1>5. ASSUME NEW t \in Observers,
             Recover(t) \/ Shutdown(t) \/ Escalate(t) \/ ReportRestart(t) \/ CheckPolicy(t)
             \/ NextBackoff(t) \/ RunHandler(t)
      PROVE  Pending(s)' \subseteq Pending(s) /\ UNCHANGED <<retries, granted>>
  BY <1>5 DEF Recover, Shutdown, Escalate, ReportRestart, CheckPolicy, NextBackoff, RunHandler,
              Step, Pending
<1>6. ASSUME NEW t \in Observers, ObserveFault(t) \/ RecoverySuccess(t)
      PROVE  Pending(s)' \subseteq Pending(s) /\ UNCHANGED <<retries, granted>>
  <2>1. PICK r \in Subsystems, to \in {"recover", "shutdown", "check", "reset"} :
             /\ Call(t, r, to) /\ UNCHANGED <<retries, granted>>
             /\ counted' = counted \/ counted' = [counted EXCEPT ![t] = FALSE]
    BY <1>6 DEF ObserveFault, RecoverySuccess, Classify
  <2> QED
    BY <2>1 DEF Call, Pending
<1> QED
  BY <1>1, <1>2, <1>3, <1>4, <1>5, <1>6, <1>b DEF RecoveryNext

\* A grant is decided while the policy has not given up, for a thread whose own
\* failure is among the counted ones.
LEMMA GrantedStep ==
    ASSUME RecoveryTypeOK, GrantBudget, RestartsBounded, [RecoveryNext]_recoveryVars
    PROVE  RestartsBounded'
<1> USE RecoveryConstants DEF policyVars, RecoveryTypeOK
<1> SUFFICES ASSUME NEW s \in Subsystems PROVE granted'[s] < MaxRetries
  BY DEF RestartsBounded
<1>a. granted[s] < MaxRetries /\ granted[s] \in Nat /\ MaxRetries \in Nat \ {0}
  BY DEF RestartsBounded
<1>1. CASE granted' = granted
  BY <1>1, <1>a
<1>2. ASSUME NEW t \in Observers, Decide(t), granted' # granted PROVE granted'[s] < MaxRetries
  <2>1. /\ counted[t] /\ pc[t] = "decide" /\ ~ShouldEscalate(on[t])
        /\ granted' = [granted EXCEPT ![on[t]] = @ + 1]
    BY <1>2 DEF Decide, Step
  <2>2. CASE on[t] = s
    <3>1. t \in Pending(s)
      BY <2>1, <2>2 DEF Pending
    <3>2. Cardinality(Pending(s)) \in Nat \ {0}
      BY <3>1, ObserversCounted, FS_EmptySet
    <3>3. granted[s] + Cardinality(Pending(s)) <= retries[s] /\ retries[s] < MaxRetries /\ retries[s] \in Nat
      BY <2>1, <2>2 DEF GrantBudget, ShouldEscalate
    <3> QED
      BY <1>a, <2>1, <2>2, <3>2, <3>3
  <2>3. CASE on[t] # s
    BY <1>a, <2>1, <2>3
  <2> QED
    BY <2>2, <2>3
<1>3. ASSUME NEW t \in Observers, ResetPolicy(t) PROVE granted'[s] < MaxRetries
  BY <1>3, <1>a DEF ResetPolicy
<1>4. ASSUME NEW t \in Observers,
             \/ Recover(t) \/ Shutdown(t) \/ Escalate(t) \/ ReportRestart(t) \/ CheckPolicy(t)
             \/ NextBackoff(t) \/ RunHandler(t) \/ RecordFailure(t)
             \/ ObserveFault(t) \/ RecoverySuccess(t)
      PROVE  granted' = granted
  BY <1>4 DEF Recover, Shutdown, Escalate, ReportRestart, CheckPolicy, NextBackoff, RunHandler,
              RecordFailure, ObserveFault, RecoverySuccess
<1> QED
  BY <1>1, <1>2, <1>3, <1>4 DEF RecoveryNext, recoveryVars

\* The parts of the inductive invariant together.
LEMMA RecoveryInvariant ==
    RecoverySpec => [](RecoveryTypeOK /\ RetryBudget /\ GrantBudget /\ RestartsBounded)
<1>1. RecoveryInit => RecoveryTypeOK /\ RetryBudget /\ GrantBudget /\ RestartsBounded
  <2> SUFFICES ASSUME RecoveryInit
               PROVE  RecoveryTypeOK /\ RetryBudget /\ GrantBudget /\ RestartsBounded
    OBVIOUS
  <2> USE RecoveryConstants
  <2>1. RecoveryTypeOK /\ RestartsBounded
    BY DEF RecoveryInit, RecoveryTypeOK, RestartsBounded
  <2>2. \A s \in Subsystems : Recording(s) = {} /\ Pending(s) = {}
    BY DEF RecoveryInit, Recording, Pending
  <2>3. Cardinality(Observers) \in Nat /\ Cardinality({}) = 0
    BY ObserversCounted, FS_EmptySet
  <2>4. \A s \in Subsystems : /\ Cardinality(Recording(s)) = 0 /\ Cardinality(Pending(s)) = 0
                              /\ retries[s] = 0 /\ granted[s] = 0
    BY <2>2, <2>3 DEF RecoveryInit
  <2>5. RetryBudget
    BY <2>3, <2>4 DEF RetryBudget
  <2>6. GrantBudget
    BY <2>4 DEF GrantBudget
  <2> QED
    BY <2>1, <2>5, <2>6
<1>2. RecoveryTypeOK /\ RetryBudget /\ GrantBudget /\ RestartsBounded /\ [RecoveryNext]_recoveryVars
        => (RecoveryTypeOK /\ RetryBudget /\ GrantBudget /\ RestartsBounded)'
  BY RecoveryTypeStep, RetryBudgetStep, GrantBudgetStep, GrantedStep
<1> QED
  BY <1>1, <1>2, PTL DEF RecoverySpec

\* Threads that pass should_escalate() together overshoot max_retries by less
\* than their number (recovery_coordinator.py:109, restart_manager.py:103).
THEOREM RetriesOvershootIsBounded == RecoverySpec => []RetriesBounded
<1>1. RecoveryTypeOK /\ RetryBudget => RetriesBounded
  <2> SUFFICES ASSUME RecoveryTypeOK, RetryBudget, NEW s \in Subsystems
               PROVE  retries[s] <= MaxRetries - 1 + Cardinality(Observers)
    BY DEF RetriesBounded
  <2>1. /\ retries[s] \in Nat /\ Cardinality(Recording(s)) \in Nat
        /\ Cardinality(Observers) \in Nat /\ MaxRetries \in Nat
        /\ retries[s] + Cardinality(Recording(s)) <= MaxRetries - 1 + Cardinality(Observers)
    BY RecoveryConstants, ObserversCounted DEF RetryBudget, RecoveryTypeOK
  <2> QED
    BY <2>1
<1> QED
  BY <1>1, RecoveryInvariant, PTL

\* Fewer than max_retries restarts are granted for the failures counted since
\* the last success, though policy and manager hold no lock
\* (recovery_policy.py:70-76, restart_manager.py:137-138).
THEOREM RestartsAreBounded == RecoverySpec => []RestartsBounded
BY RecoveryInvariant, PTL
=============================================================================
