------------------------------- MODULE Recovery -------------------------------
(***************************************************************************)
(* The hardening library (runtime/hardening).  RecoveryCoordinator         *)
(* classifies a fault and recovers, restarts, escalates or shuts down;     *)
(* RestartManager keeps one RecoveryPolicy per subsystem.  Nothing in      *)
(* either holds a lock, so every call on shared state is a step of its     *)
(* own, of any thread that observes faults.  Only the tests call the       *)
(* library at this commit: which threads do, and when they report success, *)
(* is left open.                                                           *)
(*                                                                         *)
(* Times are left out: the delay request_restart returns is used by nobody *)
(* here, and matters for the policy only when it has reached its ceiling.  *)
(* The escalation log is only reported, and the events the library emits   *)
(* are those of module Telemetry.  The Python it runs on is 3.10           *)
(* (platform_manifest.json), where threads change at calls and loops only: *)
(* `_retries += 1` is one step.                                            *)
(***************************************************************************)
EXTENDS Naturals, FiniteSets

CONSTANTS Observers,   \* threads that observe faults
          Subsystems,  \* MANAGED_SUBSYSTEMS
          Handled,     \* those with a registered restart handler
          MaxRetries,  \* max_retries
          Ceiling,     \* the retry at which the backoff reaches its maximum
          Threshold,   \* escalation_threshold
          MaxCalls     \* bound on the calls of the coordinator

\* The policies have 5 or 3 retries, ceilings at the 7th, 7th, 5th and 5th one
\* and thresholds of 3 or 2.
ASSUME RecoveryConstants ==
    /\ IsFiniteSet(Observers) /\ Observers # {} /\ Handled \subseteq Subsystems
    /\ {MaxRetries, Ceiling, Threshold} \subseteq Nat \ {0} /\ MaxCalls \in Nat

VARIABLES
    pc, on,       \* what each thread does, and for which subsystem
    retries,      \* _retries of each policy
    atMax,        \* _at_max_count
    restarts,     \* restart_count
    calls,        \* bound: calls so far
    counted,      \* history: the policy still counts the failure this thread recorded
    granted       \* history: restarts granted for failures the policy counts

policyVars == <<retries, atMax, restarts, counted, granted>>
recoveryVars == <<pc, on, policyVars, calls>>

RecoveryTypeOK ==
    /\ pc \in [Observers -> {"idle", "recover", "shutdown", "check", "escalate", "record",
                           "backoff", "decide", "handler", "report", "reset"}]
    /\ on \in [Observers -> Subsystems]
    /\ retries \in [Subsystems -> Nat] /\ atMax \in [Subsystems -> Nat]
    /\ restarts \in [Subsystems -> Nat]
    /\ calls \in 0..MaxCalls
    /\ counted \in [Observers -> BOOLEAN] /\ granted \in [Subsystems -> Nat]

RecoveryInit ==
    \* on[t] is an argument: it means nothing before the first call.
    /\ pc = [t \in Observers |-> "idle"] /\ on \in [Observers -> Subsystems]
    /\ retries = [s \in Subsystems |-> 0] /\ atMax = [s \in Subsystems |-> 0]
    /\ restarts = [s \in Subsystems |-> 0]
    /\ calls = 0
    /\ counted = [t \in Observers |-> FALSE] /\ granted = [s \in Subsystems |-> 0]

-----------------------------------------------------------------------------
\* The policy and the restart manager.

\* Mutant: should_escalate gives up one retry late.
ShouldEscalateLate(s) == retries[s] > MaxRetries \/ atMax[s] >= Threshold

ShouldEscalate(s) == retries[s] >= MaxRetries \/ atMax[s] >= Threshold

\* A thread moves from one place in its call to the next.
Step(t, from, to) ==
    /\ pc[t] = from /\ pc' = [pc EXCEPT ![t] = to]
    /\ UNCHANGED <<on, calls>>

\* record_failure
RecordFailure(t) ==
    /\ Step(t, "record", "backoff")
    /\ retries' = [retries EXCEPT ![on[t]] = @ + 1] /\ counted' = [counted EXCEPT ![t] = TRUE]
    /\ UNCHANGED <<atMax, restarts, granted>>

\* next_backoff
NextBackoff(t) ==
    /\ Step(t, "backoff", "decide")
    /\ atMax' = [atMax EXCEPT ![on[t]] = IF retries[on[t]] >= Ceiling THEN @ + 1 ELSE @]
    /\ UNCHANGED <<retries, restarts, counted, granted>>

\* The rest of request_restart up to the handler, which is called unless the
\* policy has given up with this failure.
Decide(t) ==
    /\ \/ /\ ~ShouldEscalate(on[t]) /\ on[t] \in Handled /\ Step(t, "decide", "handler")
          /\ granted' = [granted EXCEPT ![on[t]] = IF counted[t] THEN @ + 1 ELSE @]
       \/ /\ ShouldEscalate(on[t]) \/ on[t] \notin Handled
          /\ Step(t, "decide", "report") /\ UNCHANGED granted
    /\ UNCHANGED <<retries, atMax, restarts, counted>>

\* The handler returns or raises.
RunHandler(t) ==
    /\ Step(t, "handler", "report")
    /\ \/ restarts' = [restarts EXCEPT ![on[t]] = @ + 1]
       \/ UNCHANGED restarts
    /\ UNCHANGED <<retries, atMax, counted, granted>>

-----------------------------------------------------------------------------
\* The coordinator.

\* classify: the caller's flags come first, then the exception's class or the
\* watchdog's reason; anything unknown is recoverable.
Classify(flagged, cause) ==
    IF flagged THEN "recover"
    ELSE [critical |-> "shutdown", transient |-> "recover", other |-> "check"][cause]

Call(t, s, to) ==
    /\ pc[t] = "idle" /\ calls < MaxCalls /\ calls' = calls + 1
    /\ pc' = [pc EXCEPT ![t] = to] /\ on' = [on EXCEPT ![t] = s]

\* observe_fault and observe_watchdog_event
ObserveFault(t) ==
    /\ \E s \in Subsystems, flagged \in BOOLEAN, cause \in {"critical", "transient", "other"} :
           Call(t, s, Classify(flagged, cause))
    /\ counted' = [counted EXCEPT ![t] = FALSE]
    /\ UNCHANGED <<retries, atMax, restarts, granted>>

\* _do_recover, _do_shutdown and _do_escalate change nothing here; the shutdown
\* callback is the caller's.
Recover(t) == Step(t, "recover", "idle") /\ UNCHANGED policyVars
Shutdown(t) == Step(t, "shutdown", "idle") /\ UNCHANGED policyVars
Escalate(t) == Step(t, "escalate", "idle") /\ UNCHANGED policyVars

\* Mutant: the coordinator leaves the question to the restart manager.
CheckPolicySkipped(t) == Step(t, "check", "record") /\ UNCHANGED policyVars

\* should_escalate, asked before the failure is recorded
CheckPolicy(t) ==
    /\ Step(t, "check", IF ShouldEscalate(on[t]) THEN "escalate" ELSE "record")
    /\ UNCHANGED policyVars

\* The end of _do_restart: RESTART is reported whether or not a handler ran.
ReportRestart(t) == Step(t, "report", "idle") /\ UNCHANGED policyVars

\* record_recovery_success
RecoverySuccess(t) ==
    /\ \E s \in Subsystems : Call(t, s, "reset")
    /\ UNCHANGED policyVars

ResetPolicy(t) ==
    /\ Step(t, "reset", "idle")
    /\ retries' = [retries EXCEPT ![on[t]] = 0] /\ atMax' = [atMax EXCEPT ![on[t]] = 0]
    /\ granted' = [granted EXCEPT ![on[t]] = 0]
    /\ counted' = [u \in Observers |-> counted[u] /\ on[u] # on[t]]
    /\ UNCHANGED restarts

RecoveryNext ==
    \/ \E t \in Observers :
          \/ ObserveFault(t) \/ Recover(t) \/ Shutdown(t) \/ CheckPolicy(t) \/ Escalate(t)
          \/ RecordFailure(t) \/ NextBackoff(t) \/ Decide(t) \/ RunHandler(t) \/ ReportRestart(t)
          \/ RecoverySuccess(t) \/ ResetPolicy(t)

RecoverySpec == RecoveryInit /\ [][RecoveryNext]_recoveryVars
-----------------------------------------------------------------------------

\* The policy is asked before the failure is recorded and nothing is locked in
\* between, yet threads that pass the question together overshoot max_retries
\* by less than their number (recovery_coordinator.py:109, restart_manager.py:103).
RetriesBounded ==
    \A s \in Subsystems : retries[s] <= MaxRetries - 1 + Cardinality(Observers)

\* However many threads report failures, fewer than max_retries restarts are
\* granted for the failures counted since the last success
\* (recovery_policy.py:70-76, restart_manager.py:137-138).
RestartsBounded == \A s \in Subsystems : granted[s] < MaxRetries
=============================================================================
