------------------------ MODULE WorkerSupervisorProofs ------------------------
(***************************************************************************)
(* Proofs about WorkerSupervisor for any set of worker slots and any       *)
(* restart limits.  The argument: the failure count never exceeds 3 because *)
(* step 3 resets it, so the last two recovery steps are never chosen; and  *)
(* without hangs every restart in the window was preceded by a failure     *)
(* counted since that reset.                                               *)
(***************************************************************************)
EXTENDS WorkerSupervisor, TLAPS

\* The first three recovery steps of RecoveryPolicy.STEPS.
LEMMA FirstSteps ==
    /\ Len(STEPS) = 5
    /\ STEPS[1] = "worker_restart"
    /\ STEPS[2] = "provider_reload"
    /\ STEPS[3] = "runtime_restart"
BY DEF STEPS

\* record_failure() outside a backoff yields one of the first three steps.
LEMMA NextStep ==
    ASSUME IndInv, pc = "check"
    PROVE  RecordFailure = failures + 1 /\ RecordFailure \in 1..3
BY FirstSteps DEF IndInv, TypeOK, RecordFailure

\* record_restart() counts one restart or leaves a full window.
LEMMA RecordRestartBound ==
    ASSUME TypeOK
    PROVE  RecordRestart \in Nat /\ RecordRestart <= recent + 1
BY ConstantsOK DEF TypeOK, RecordRestart

\* _spawn_worker() called for a worker that is not alive, or for the tracked one:
\* whatever is alive afterwards is the new worker or was told to exit.
LEMMA SpawnSafe ==
    ASSUME TypeOK, OneWorker, NEW previous,
           previous = worker \/ (previous = None /\ (worker = None \/ ~Alive(worker))),
           Spawn(previous)
    PROVE  /\ worker' \in Workers
           /\ wstate' \in [Workers -> Running \cup {"dead"}]
           /\ signalled' \subseteq Workers
           /\ fresh' \in BOOLEAN
           /\ OneWorker'
<1> USE ConstantsOK DEF TypeOK, OneWorker
<1>1. PICK w \in Workers :
         /\ wstate[w] = "dead"
         /\ worker' = w
         /\ wstate' = [wstate EXCEPT ![w] = "starting"]
         /\ signalled' = Terminate(previous)
         /\ fresh' = TRUE
  BY DEF Spawn
<1>2. /\ worker' \in Workers
      /\ wstate' \in [Workers -> Running \cup {"dead"}]
      /\ fresh' \in BOOLEAN
  BY <1>1 DEF Running
<1>3. signalled' \subseteq Workers
  BY <1>1 DEF Alive, Terminate, Running
<1>4. ASSUME NEW v \in Workers, Alive(v)', v # w
      PROVE  v \in signalled'
  <2>1. Alive(v)
    BY <1>1, <1>4 DEF Alive
  <2>2. v = worker \/ v \in signalled
    BY <2>1
  <2> QED
    BY <2>1, <2>2, <1>1, <1>4 DEF Terminate
<1> QED
  BY <1>1, <1>2, <1>3, <1>4

\* A spawn that raises leaves the caller's reference, or none to a process that
\* is gone.
LEMMA SpawnRaisesSafe ==
    ASSUME TypeOK, OneWorker, NEW left,
           left = worker \/ (left = None /\ (worker = None \/ ~Alive(worker))),
           SpawnRaises(left)
    PROVE  /\ worker' = left /\ worker' \in Workers \cup {None}
           /\ signalled' \subseteq Workers
           /\ UNCHANGED <<wstate, fresh>>
           /\ OneWorker'
BY DEF TypeOK, OneWorker, SpawnRaises, Terminate, Alive

\* The inductive invariant is preserved by the steps of the monitor thread.
LEMMA MonitorStep ==
    ASSUME IndInv, Monitor
    PROVE  IndInv'
<1> USE ConstantsOK DEF IndInv, TypeOK, ResetByThirdStep, WindowWithinFailures,
        StepIsFailures, policyVars
<1>1. ASSUME MonitorSeesExit PROVE IndInv'
  <2>1. RecordFailure = failures + 1 /\ RecordFailure \in 1..3
    BY <1>1, NextStep DEF MonitorSeesExit
  <2>2. STEPS[RecordFailure] # "fatal"
    BY <2>1, FirstSteps
  <2>3. /\ pc' = "backoff" /\ step' = failures + 1 /\ failures' = failures + 1
        /\ UNCHANGED <<degraded, stopping, signalled>>
        /\ UNCHANGED <<worker, wstate, fresh, recent, limit, lost, hangs, supAlive>>
    BY <1>1, <2>1, <2>2 DEF MonitorSeesExit
  <2>4. TypeOK' /\ ResetByThirdStep' /\ WindowWithinFailures' /\ StepIsFailures'
    BY <2>1, <2>3, <1>1 DEF MonitorSeesExit
  <2>5. OneWorker' /\ BackoffWorkerGone'
    BY <1>1, <2>3 DEF MonitorSeesExit, Exited, OneWorker, BackoffWorkerGone, Alive
  <2> QED
    BY <2>3, <2>4, <2>5
<1>2. ASSUME BackoffEnds PROVE IndInv'
  <2>1. pc = "backoff" /\ pc' = "check" /\ UNCHANGED <<step, supAlive>>
    BY <1>2 DEF BackoffEnds
  <2>2. CASE step \in {1, 2}
    <3>1. HandleWorkerExit
      BY <1>2, <2>2, FirstSteps DEF BackoffEnds
    <3>2. RecordRestart \in Nat /\ RecordRestart <= recent + 1
      BY RecordRestartBound
    <3>3. worker = None \/ ~Alive(worker)
      BY <2>1 DEF BackoffWorkerGone
    <3>4. CASE CanRestart
      <4>1. /\ recent' = RecordRestart /\ lost' \in {lost, "unspawned"}
            /\ Spawn(None) \/ SpawnRaises(None)
            /\ UNCHANGED <<failures, limit, hangs, degraded, stopping>>
        BY <3>1, <3>4 DEF HandleWorkerExit
      <4>2. /\ worker' \in Workers \cup {None}
            /\ wstate' \in [Workers -> Running \cup {"dead"}]
            /\ signalled' \subseteq Workers
            /\ fresh' \in BOOLEAN
            /\ OneWorker'
        BY <3>3, <4>1, SpawnSafe, SpawnRaisesSafe
      <4> QED
        BY <2>1, <2>2, <3>2, <4>1, <4>2 DEF BackoffWorkerGone
    <3>5. CASE ~CanRestart
      BY <2>1, <2>2, <3>1, <3>3, <3>5
         DEF HandleWorkerExit, OneWorker, Alive, BackoffWorkerGone
    <3> QED
      BY <3>4, <3>5
  <2>3. CASE step = 3
    <3>1. ActionRuntimeRestart
      BY <1>2, <2>3, FirstSteps DEF BackoffEnds
    <3>2. Spawn(worker) \/ SpawnRaises(worker)
      BY <3>1 DEF ActionRuntimeRestart
    <3>3. /\ worker' \in Workers \cup {None}
          /\ wstate' \in [Workers -> Running \cup {"dead"}]
          /\ signalled' \subseteq Workers
          /\ fresh' \in BOOLEAN
          /\ OneWorker'
      BY <3>2, SpawnSafe, SpawnRaisesSafe
    <3>4. hangs' \in BOOLEAN
      BY <3>1, Zenon DEF ActionRuntimeRestart
    <3>5. /\ failures' = 0 /\ recent' = 0 /\ limit' = DefaultMaxRestarts
          /\ UNCHANGED <<lost, degraded, stopping>>
      BY <3>1 DEF ActionRuntimeRestart
    <3> QED
      BY <2>1, <2>3, <3>3, <3>4, <3>5 DEF BackoffWorkerGone
  <2> QED
    BY <2>1, <2>2, <2>3
<1>3. ASSUME MonitorSeesStale PROVE IndInv'
  BY <1>3 DEF MonitorSeesStale, OneWorker, Alive, BackoffWorkerGone
<1>4. ASSUME TerminationWaited PROVE IndInv'
  <2>1. /\ worker' \in Workers \cup {None}
        /\ wstate' \in [Workers -> Running \cup {"dead"}]
        /\ signalled' \subseteq Workers
        /\ fresh' \in BOOLEAN
        /\ OneWorker'
    BY <1>4, SpawnSafe, SpawnRaisesSafe DEF TerminationWaited
  <2>2. RecordRestart \in Nat
    BY RecordRestartBound
  <2> QED
    BY <1>4, <2>1, <2>2 DEF TerminationWaited, BackoffWorkerGone
<1>5. ASSUME MonitorReturns PROVE IndInv'
  BY <1>5 DEF MonitorReturns, OneWorker, Alive, BackoffWorkerGone
<1> QED
  BY <1>1, <1>2, <1>3, <1>4, <1>5 DEF Monitor

\* The inductive invariant is preserved by everything else: stop(), the end of the
\* supervisor, the passage of time and the workers.
LEMMA OtherStep ==
    ASSUME IndInv,
           \/ Stop \/ SupervisorEnds \/ WindowSlides \/ HeartbeatAges
           \/ \E w \in Workers : WorkerStep(w)
           \/ UNCHANGED vars
    PROVE  IndInv'
<1> USE ConstantsOK DEF IndInv, TypeOK, ResetByThirdStep, WindowWithinFailures,
        StepIsFailures, BackoffWorkerGone, OneWorker, Alive, Running,
        policyVars, monitorVars, vars
<1>1. ASSUME Stop PROVE IndInv'
  BY <1>1 DEF Stop, DoStop, Terminate
<1>2. ASSUME SupervisorEnds PROVE IndInv'
  BY <1>2 DEF SupervisorEnds
<1>3. ASSUME WindowSlides PROVE IndInv'
  BY <1>3 DEF WindowSlides
<1>4. ASSUME HeartbeatAges PROVE IndInv'
  BY <1>4 DEF HeartbeatAges
<1>5. ASSUME NEW w \in Workers, Connect(w) PROVE IndInv'
  BY <1>5 DEF Connect, Becomes
<1>6. ASSUME NEW w \in Workers, Crash(w) PROVE IndInv'
  BY <1>6 DEF Crash, Becomes
<1>7. ASSUME NEW w \in Workers, Hang(w) PROVE IndInv'
  BY <1>7 DEF Hang, Becomes
<1>8. ASSUME NEW w \in Workers, DieOfSignal(w) PROVE IndInv'
  BY <1>8 DEF DieOfSignal, Becomes
<1>9. ASSUME NEW w \in Workers, ExitWithoutSupervisor(w) PROVE IndInv'
  BY <1>9 DEF ExitWithoutSupervisor, Becomes
<1>10. ASSUME NEW w \in Workers, Heartbeat(w) PROVE IndInv'
  BY <1>10 DEF Heartbeat
<1>11. ASSUME UNCHANGED vars PROVE IndInv'
  BY <1>11
<1> QED
  BY <1>1, <1>2, <1>3, <1>4, <1>5, <1>6, <1>7, <1>8, <1>9, <1>10, <1>11
     DEF WorkerStep

\* After start() the inductive invariant holds.
LEMMA InitInd == Init => IndInv
<1> SUFFICES ASSUME Init PROVE IndInv
  OBVIOUS
<1> USE ConstantsOK DEF Init
<1>1. step \in 0..5 /\ failures \in 0..5 /\ recent \in Nat
  BY SMT
<1>2. fresh \in BOOLEAN /\ stopping \in BOOLEAN /\ degraded \in BOOLEAN
      /\ lost \in {"no", "throttled", "unspawned"} /\ hangs \in BOOLEAN /\ supAlive \in BOOLEAN
  BY Zenon
<1>3. worker \in Workers \cup {None} /\ wstate \in [Workers -> Running \cup {"dead"}]
  BY DEF Running
<1>4. signalled \subseteq Workers /\ pc \in {"check", "backoff", "terminating", "done"}
      /\ limit \in Limits \cup {DefaultMaxRestarts}
  OBVIOUS
<1>5. TypeOK
  BY <1>1, <1>2, <1>3, <1>4 DEF TypeOK
<1>6. OneWorker
  BY DEF OneWorker, Alive, Running
<1>7. ResetByThirdStep
  BY SMT DEF ResetByThirdStep
<1>8. WindowWithinFailures /\ StepIsFailures /\ BackoffWorkerGone
      /\ (pc # "backoff" => failures <= 2)
  BY DEF WindowWithinFailures, StepIsFailures, BackoffWorkerGone
<1> QED
  BY <1>5, <1>6, <1>7, <1>8 DEF IndInv

\* The inductive invariant holds throughout.
THEOREM Invariance == Spec => []IndInv
<1>1. IndInv /\ [Next]_vars => IndInv'
  BY MonitorStep, OtherStep DEF Next
<1> QED
  BY InitInd, <1>1, PTL DEF Spec

\* Type correctness of the supervisor.
THEOREM TypeCorrect == Spec => []TypeOK
<1>1. IndInv => TypeOK
  BY DEF IndInv
<1> QED
  BY Invariance, <1>1, PTL

\* However the monitor, stop() and the workers interleave, a live worker is the
\* tracked one or has been told to exit.
THEOREM SingleWorker == Spec => []OneWorker
<1>1. IndInv => OneWorker
  BY DEF IndInv
<1> QED
  BY Invariance, <1>1, PTL

\* For any limits, can_restart() refuses a crashed worker before its limit is
\* reached only after heartbeat restarts have entered the window.
THEOREM CrashesAreRestarted == Spec => []ThrottleNeedsHangs
<1>1. IndInv => ThrottleNeedsHangs
  BY ConstantsOK DEF IndInv, TypeOK, ThrottleNeedsHangs, WindowWithinFailures,
     StepIsFailures, CanRestart
<1> QED
  BY Invariance, <1>1, PTL
===============================================================================
