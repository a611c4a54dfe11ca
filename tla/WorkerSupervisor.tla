--------------------------- MODULE WorkerSupervisor ---------------------------
(***************************************************************************)
(* The Python supervisor (runtime/supervisor/supervisor.py) with its two   *)
(* policies (runtime/supervisor/restart_policy.py), and the life of the    *)
(* worker processes it spawns (runtime/worker/worker_process.py): crashes, *)
(* hangs, the IPC connection and what a worker does when the supervisor is *)
(* gone.                                                                   *)
(*                                                                         *)
(* The monitor thread sleeps inside its loop body, first in the backoff    *)
(* and again while it waits for a terminated worker, so each of these is a *)
(* point where stop(), called by the WebSocket or the main thread, and the *)
(* workers interleave.                                                     *)
(***************************************************************************)
EXTENDS Naturals, Sequences

CONSTANTS Workers,            \* process slots; a dead one can be used again
          Limits,             \* values given to --max-restarts
          DefaultMaxRestarts, \* default of RestartPolicy(max_restarts)
          None

ASSUME ConstantsOK ==
    /\ None \notin Workers
    /\ Limits \subseteq Nat
    /\ DefaultMaxRestarts \in Nat

VARIABLES
    worker,     \* _worker_proc
    wstate,     \* wstate[w]: what process w is doing
    signalled,  \* live processes that were sent SIGTERM or SIGKILL
    fresh,      \* the last heartbeat is younger than heartbeat_timeout_s
    pc,         \* where the monitor thread is
    step,       \* the recovery step chosen before the backoff
    failures,   \* RecoveryPolicy.failures
    recent,     \* RestartPolicy: restarts in the window, capped at the limit
    limit,      \* RestartPolicy.max_restarts of the current policy object
    stopping,   \* _stop_event
    degraded,   \* _degraded
    lost,       \* history: why there is no worker any more
    hangs,      \* history: a stale heartbeat has used up part of the window
    supAlive    \* the supervisor process

policyVars == <<failures, recent, limit>>
monitorVars == <<pc, step, policyVars, degraded, lost, hangs>>
vars == <<worker, wstate, signalled, fresh, monitorVars, stopping, supAlive>>

STEPS == <<"worker_restart", "provider_reload", "runtime_restart",
           "degraded_mode", "fatal">>

Running == {"starting", "connected", "detached", "hung"}

Alive(w) == wstate[w] \in Running

TypeOK ==
    /\ worker \in Workers \cup {None}
    /\ wstate \in [Workers -> Running \cup {"dead"}]
    /\ signalled \subseteq Workers
    /\ fresh \in BOOLEAN
    /\ pc \in {"check", "backoff", "terminating", "done"}
    /\ step \in 0..5
    /\ failures \in 0..5
    /\ recent \in Nat
    /\ limit \in Limits \cup {DefaultMaxRestarts}
    /\ stopping \in BOOLEAN
    /\ degraded \in BOOLEAN
    /\ lost \in {"no", "throttled", "unspawned"}
    /\ hangs \in BOOLEAN
    /\ supAlive \in BOOLEAN

\* start() has spawned the first worker and the monitor thread.
Init ==
    /\ worker \in Workers
    /\ wstate = [w \in Workers |-> IF w = worker THEN "starting" ELSE "dead"]
    /\ signalled = {}
    /\ fresh = TRUE
    /\ pc = "check"
    /\ step = 0
    /\ failures = 0
    /\ recent = 0
    /\ limit \in Limits
    /\ stopping = FALSE
    /\ degraded = FALSE
    /\ lost = "no"
    /\ hangs = FALSE
    /\ supAlive = TRUE

------------------------------------------------------------------------------
(* Policies *)

\* RecoveryPolicy.record_failure() and current_step(), as an index of STEPS.
RecordFailure == IF failures < Len(STEPS) THEN failures + 1 ELSE failures

\* RestartPolicy.record_restart() and can_restart(); old entries leave the
\* window by WindowSlides.
RecordRestart == IF recent < limit THEN recent + 1 ELSE recent

CanRestart == recent < limit

WindowSlides ==
    /\ supAlive
    /\ recent > 0
    /\ recent' = recent - 1
    /\ UNCHANGED <<worker, wstate, signalled, fresh, pc, step, failures, limit,
                   degraded, lost, hangs, stopping, supAlive>>

------------------------------------------------------------------------------
(* The monitor thread *)

\* terminate() of a process that may be gone.
Terminate(w) ==
    IF w = None \/ ~Alive(w) THEN signalled ELSE signalled \cup {w}

\* _spawn_worker(): terminate what is there, start a fresh process and count it
\* as having just sent a heartbeat.
Spawn(previous) ==
    \E w \in Workers :
        /\ wstate[w] = "dead"
        /\ worker' = w
        /\ wstate' = [wstate EXCEPT ![w] = "starting"]
        /\ signalled' = Terminate(previous)
        /\ fresh' = TRUE

\* Popen raises, and the monitor loop logs the exception: _worker_proc and the
\* heartbeat stay as the caller left them.
SpawnRaises(left) ==
    /\ worker' = left
    /\ signalled' = Terminate(left)
    /\ UNCHANGED <<wstate, fresh>>

\* stop(): the flag is set and the current worker terminated.
DoStop ==
    /\ stopping' = TRUE
    /\ signalled' = Terminate(worker)

\* Mutant: poll() is not asked.
ExitedUnchecked == worker # None

\* poll() returned an exit code.
Exited == worker # None /\ ~Alive(worker)

\* The worker has exited: choose the step and sleep through the backoff, or shut
\* down at once when the step is fatal.
MonitorSeesExit ==
    /\ supAlive /\ ~stopping
    /\ pc = "check"
    /\ Exited
    /\ failures' = RecordFailure
    /\ step' = RecordFailure
    /\ IF STEPS[RecordFailure] = "fatal"
       THEN pc' = "done" /\ degraded' = TRUE /\ DoStop
       ELSE pc' = "backoff" /\ UNCHANGED <<degraded, stopping, signalled>>
    /\ UNCHANGED <<worker, wstate, fresh, recent, limit, lost, hangs, supAlive>>

\* Mutant: the restart is recorded but no worker is spawned.
HandleWorkerExitForgets ==
    /\ worker' = None
    /\ recent' = RecordRestart
    /\ UNCHANGED <<wstate, signalled, fresh, failures, limit, lost, hangs,
                   degraded, stopping>>

\* _handle_worker_exit(), shared by the steps worker_restart and provider_reload:
\* the reference is dropped first, so a refused restart and a Popen that raises
\* both leave no worker, and a monitor with nothing to look at.
HandleWorkerExit ==
    /\ \/ /\ CanRestart
          /\ recent' = RecordRestart
          /\ \/ Spawn(None) /\ UNCHANGED lost
             \/ SpawnRaises(None) /\ lost' = "unspawned"
       \/ /\ ~CanRestart
          /\ worker' = None
          /\ lost' = "throttled"
          /\ UNCHANGED <<wstate, signalled, fresh, recent>>
    /\ UNCHANGED <<failures, limit, hangs, degraded, stopping>>

\* Mutant: the restart window is kept.
ActionRuntimeRestartKeepsWindow ==
    /\ failures' = 0
    /\ limit' = DefaultMaxRestarts
    /\ Spawn(worker)
    /\ UNCHANGED <<recent, hangs, lost, degraded, stopping>>

\* Both policies start over; the new RestartPolicy has the default limit.  If the
\* spawn fails the dead worker is still tracked, and its exit seen again.
ActionRuntimeRestart ==
    /\ failures' = 0
    /\ recent' = 0
    /\ limit' = DefaultMaxRestarts
    /\ hangs' = FALSE
    /\ Spawn(worker) \/ SpawnRaises(worker)
    /\ UNCHANGED <<lost, degraded, stopping>>

ActionDegradedMode ==
    /\ degraded' = TRUE
    /\ stopping' = TRUE
    /\ UNCHANGED <<worker, wstate, signalled, fresh, policyVars, lost, hangs>>

\* The backoff is over.  Whether stop() was called meanwhile is not looked at.
BackoffEnds ==
    /\ supAlive
    /\ pc = "backoff"
    /\ pc' = "check"
    /\ CASE STEPS[step] \in {"worker_restart", "provider_reload"} -> HandleWorkerExit
         [] STEPS[step] = "runtime_restart" -> ActionRuntimeRestart
         [] STEPS[step] = "degraded_mode" -> ActionDegradedMode
    /\ UNCHANGED <<step, supAlive>>

\* Mutant: a hung worker is left alone once the restart budget is used up.
MonitorSeesStaleThrottled ==
    /\ supAlive /\ ~stopping
    /\ pc = "check"
    /\ worker # None /\ Alive(worker)
    /\ ~fresh
    /\ CanRestart
    /\ signalled' = signalled \cup {worker}
    /\ pc' = "terminating"
    /\ UNCHANGED <<worker, wstate, fresh, step, policyVars, degraded, lost,
                   hangs, stopping, supAlive>>

\* The heartbeat is stale: _restart_worker() terminates the worker and waits.
MonitorSeesStale ==
    /\ supAlive /\ ~stopping
    /\ pc = "check"
    /\ worker # None /\ Alive(worker)
    /\ ~fresh
    /\ signalled' = signalled \cup {worker}
    /\ pc' = "terminating"
    /\ UNCHANGED <<worker, wstate, fresh, step, policyVars, degraded, lost,
                   hangs, stopping, supAlive>>

\* It has exited, or 5 s are over and it is killed: record and spawn, without
\* asking the policy.  If the spawn fails the old worker is still tracked.
TerminationWaited ==
    /\ supAlive
    /\ pc = "terminating"
    /\ recent' = RecordRestart
    /\ hangs' = TRUE
    /\ Spawn(worker) \/ SpawnRaises(worker)
    /\ pc' = "check"
    /\ UNCHANGED <<step, failures, limit, degraded, lost, stopping, supAlive>>

MonitorReturns ==
    /\ supAlive /\ stopping
    /\ pc = "check"
    /\ pc' = "done"
    /\ UNCHANGED <<worker, wstate, signalled, fresh, step, policyVars, degraded,
                   lost, hangs, stopping, supAlive>>

Monitor ==
    \/ MonitorSeesExit \/ BackoffEnds \/ MonitorSeesStale
    \/ TerminationWaited \/ MonitorReturns

------------------------------------------------------------------------------
(* Other threads of the supervisor, and its end *)

\* stop() on a "shutdown" message or at the end of stdin.
Stop ==
    /\ supAlive
    /\ DoStop
    /\ UNCHANGED <<worker, wstate, fresh, monitorVars, supAlive>>

\* The supervisor process ends, after stop() or on a signal, at any point.
SupervisorEnds ==
    /\ supAlive
    /\ supAlive' = FALSE
    /\ UNCHANGED <<worker, wstate, signalled, fresh, monitorVars, stopping>>

------------------------------------------------------------------------------
(* Worker processes *)

Becomes(w, state) ==
    /\ wstate' = [wstate EXCEPT ![w] = state]
    /\ signalled' = IF state = "dead" THEN signalled \ {w} ELSE signalled
    /\ UNCHANGED <<worker, monitorVars, stopping, supAlive>>

\* The IPC connection is made, or given up after 5 s.
Connect(w) ==
    /\ wstate[w] = "starting"
    /\ Becomes(w, IF supAlive THEN "connected" ELSE "detached")
    /\ UNCHANGED fresh

Crash(w) ==
    /\ Alive(w)
    /\ Becomes(w, "dead")
    /\ UNCHANGED fresh

Hang(w) ==
    /\ wstate[w] = "connected"
    /\ Becomes(w, "hung")
    /\ UNCHANGED fresh

\* SIGTERM or SIGKILL takes effect; workers install no handler.
DieOfSignal(w) ==
    /\ Alive(w)
    /\ w \in signalled
    /\ Becomes(w, "dead")
    /\ UNCHANGED fresh

\* Mutant: a failing heartbeat does not end the worker.
ExitWithoutSupervisorMissing(w) == FALSE

\* The supervisor is gone.  The heartbeat thread of a connected worker cannot
\* send and calls os._exit(1); a detached one fails when it writes its status to
\* the broken stdout pipe.
ExitWithoutSupervisor(w) ==
    /\ ~supAlive
    /\ wstate[w] \in {"connected", "detached"}
    /\ Becomes(w, "dead")
    /\ UNCHANGED fresh

Heartbeat(w) ==
    /\ supAlive
    /\ wstate[w] = "connected"
    /\ ~fresh
    /\ fresh' = TRUE
    /\ UNCHANGED <<worker, wstate, signalled, monitorVars, stopping, supAlive>>

\* 12 s without a heartbeat; a connected worker sends one every 5 s.
HeartbeatAges ==
    /\ supAlive
    /\ fresh
    /\ worker # None => wstate[worker] # "connected"
    /\ fresh' = FALSE
    /\ UNCHANGED <<worker, wstate, signalled, monitorVars, stopping, supAlive>>

WorkerStep(w) ==
    \/ Connect(w) \/ Crash(w) \/ Hang(w) \/ DieOfSignal(w)
    \/ ExitWithoutSupervisor(w) \/ Heartbeat(w)

Next ==
    \/ Monitor
    \/ Stop \/ SupervisorEnds \/ WindowSlides \/ HeartbeatAges
    \/ \E w \in Workers : WorkerStep(w)

Spec == Init /\ [][Next]_vars

\* The monitor thread runs, time passes, a started worker connects or gives up,
\* signals are delivered and an abandoned worker comes to its next heartbeat.
\* Crashes, hangs, stop() and the end of the supervisor may never happen.
Fairness ==
    /\ WF_vars(Monitor)
    /\ WF_vars(HeartbeatAges)
    /\ \A w \in Workers :
        /\ WF_vars(Connect(w))
        /\ WF_vars(DieOfSignal(w))
        /\ WF_vars(ExitWithoutSupervisor(w))

FairSpec == Spec /\ Fairness

------------------------------------------------------------------------------
(* Properties *)

\* There is never a second worker the supervisor has lost: every live worker is
\* the current one or has been told to exit, so two workers never hold the
\* microphone for good.
OneWorker == \A w \in Workers : Alive(w) => w = worker \/ w \in signalled

\* Crashes alone never trip the restart policy below its limit: while no restart
\* in the window was due to a hang, the crash that is the step-th since the counts
\* were reset is answered with a restart as long as step does not exceed the
\* limit in force, and with a limit of 2 or more the policy refuses none.
ThrottleNeedsHangs ==
    ~hangs /\ pc = "backoff" /\ step < 3 /\ step <= limit => CanRestart

\* runtime_restart resets the failure count, so the last two steps of the list are
\* never chosen.
ResetByThirdStep == failures <= 3 /\ ~degraded

\* What ThrottleNeedsHangs rests on: without hangs the window holds no more
\* restarts than the recovery policy has counted failures.
WindowWithinFailures ==
    ~hangs => IF pc = "backoff" THEN recent < failures ELSE recent <= failures

\* The step being waited for is the one of the current failure count.
StepIsFailures == pc = "backoff" => step = failures /\ failures \in 1..3

\* Nothing replaces or revives the exited worker during the backoff.
BackoffWorkerGone == pc = "backoff" => worker \in Workers /\ ~Alive(worker)

IndInv ==
    /\ TypeOK /\ OneWorker /\ ResetByThirdStep
    /\ WindowWithinFailures /\ StepIsFailures /\ BackoffWorkerGone
    /\ pc # "backoff" => failures <= 2

\* A worker that exited is replaced while the supervisor runs, except in the two
\* cases that end with no worker for good: the policy refused the restart, or the
\* process could not be spawned after _handle_worker_exit() had let go of the old
\* one.  A spawn that fails in runtime_restart or after a hang is made up for.
CrashRecovered ==
    (worker # None /\ ~Alive(worker)) ~>
        \/ worker # None /\ Alive(worker)
        \/ worker = None /\ lost \in {"throttled", "unspawned"}
        \/ stopping \/ ~supAlive

\* A hung worker is found by its missing heartbeats and does not survive.
HangEnds ==
    \A w \in Workers :
        wstate[w] = "hung" ~> (wstate[w] # "hung" \/ stopping \/ ~supAlive)

\* Workers do not outlive the supervisor, whenever it ends: also not one that was
\* spawned after stop(), or that had not connected yet.  Only a hung process can.
NoZombieWorker ==
    ~supAlive ~> \A w \in Workers : wstate[w] \in {"dead", "hung"}
===============================================================================
