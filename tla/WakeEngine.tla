----------------------------- MODULE WakeEngine -----------------------------
(* The listening core of the worker process: the AudioWorker thread, which    *)
(* decodes audio and runs WakeEngine._on_hypothesis on its own stack, and the *)
(* RuntimeWatchdog thread, which resets the recogniser when it thinks the     *)
(* worker is dead, hung or behind.  Both threads reset the same SherpaProvider*)
(* stream, the same speech state and the same two SubsystemLifecycle machines,*)
(* and nothing in the code locks them (runtime/kernel/orchestrator.py,        *)
(* runtime/audio/worker.py, runtime/asr/streaming.py,                         *)
(* runtime/asr/providers/sherpa.py, runtime/kernel/lifecycle.py,              *)
(* runtime/supervisor/watchdog.py).                                           *)
(*                                                                            *)
(* Decode streams are numbered in the order they are created.  A text is      *)
(* abstracted to the stream it was decoded from and to whether it carries the *)
(* wake phrase; the confidence that fires a wake is abstracted to the streams *)
(* whose phrase is evidence for it.                                           *)
EXTENDS Integers, Sequences

CONSTANTS
    MaxGen,     \* bound: generations a behaviour goes through
    MaxRetries, \* RecoveryPolicy.max_retries (8 in watchdog.py)
    Configures  \* values of detection_paused the SDK sends

ASSUME MaxGenAssumption == MaxGen \in Nat \ {0}
ASSUME MaxRetriesAssumption == MaxRetries \in Nat \ {0}
ASSUME ConfiguresAssumption == Configures \subseteq BOOLEAN

VARIABLES
    pc,          \* where each thread is
    move,        \* the state-machine move each resetting thread is at
    reason,      \* why the watchdog is resetting
    fsm,         \* the ASR and VAD SubsystemLifecycle states
    gen,         \* SherpaProvider._generation_id
    stream,      \* SherpaProvider._stream, by its number
    spoken,      \* AudioWorker._has_spoken_in_generation
    peak,        \* stream of AudioWorker._peak_hypothesis, 0: no phrase in it
    heard,       \* the worker's local result: its stream, 0: no phrase in it
    from,        \* the stream that result was read from
    label,       \* the worker's local gen_id
    window,      \* streams whose phrase is in the HypothesisBuffer
    smooth,      \* streams behind an EMA above the threshold, {}: below it
    lastSeen,    \* WakeEngine._last_seen_generation
    lastTrigger, \* WakeEngine._last_trigger_generation
    cooling,     \* CooldownGate: a wake less than COOLDOWN_SECONDS ago
    pauseAsked,  \* the last configure{detection_paused} the worker received
    retries,     \* RecoveryPolicy._retries
    escalated,   \* RuntimeWatchdog._escalated
    backoff,     \* now < RuntimeWatchdog._next_allowed_reset
    answers      \* history: how many wakes each stream's phrase was evidence for

threadVars == <<pc, move, reason, fsm>>
asrVars == <<gen, stream, spoken, peak>>
resultVars == <<heard, from, label>>
engineVars == <<window, smooth, lastSeen, lastTrigger, cooling, answers>>
policyVars == <<retries, escalated, backoff>>
vars == <<threadVars, asrVars, resultVars, engineVars, policyVars, pauseAsked>>

Threads == {"worker", "watchdog"}
Streams == 1 .. MaxGen
None == "none"
Fsms == {"asr", "vad"}

(* Phases of a stream reset.  "generation" and "stream" are the two writes of *)
(* SherpaProvider.reset; "test", "check" and "write" the three accesses to    *)
(* SubsystemLifecycle.state a guarded transition makes; "clear" is            *)
(* AudioWorker.reset_state.                                                   *)
ResetPhases == {"generation", "stream", "test", "check", "write", "clear"}
WorkerPcs == {"idle", "track", "label", "engine", "dead"} \cup ResetPhases
WatchdogPcs == {"idle", "queue"} \cup ResetPhases

(* VALID_SUBSYSTEM_TRANSITIONS, for the states a running worker goes through. *)
SubStates == {"ACTIVE", "FAULTED", "RECOVERING"}
VALID_SUBSYSTEM_TRANSITIONS ==
    {<<"ACTIVE", "FAULTED">>, <<"FAULTED", "RECOVERING">>,
     <<"RECOVERING", "ACTIVE">>, <<"RECOVERING", "FAULTED">>}

\* Mutant: the VAD machine is brought back twice, the ASR machine never.
MovesVadTwice == << [fsm |-> "asr", src |-> "ACTIVE", dst |-> "FAULTED"],
                    [fsm |-> "asr", src |-> "FAULTED", dst |-> "RECOVERING"],
                    [fsm |-> "vad", src |-> "ACTIVE", dst |-> "FAULTED"],
                    [fsm |-> "vad", src |-> "FAULTED", dst |-> "RECOVERING"],
                    [fsm |-> "vad", src |-> "RECOVERING", dst |-> "ACTIVE"],
                    [fsm |-> "vad", src |-> "RECOVERING", dst |-> "ACTIVE"] >>

(* The guarded transitions of _reset_stream and of _do_stream_reset, in       *)
(* order: recover() of the ASR machine, recover() of the VAD machine, and,    *)
(* after reset_state, both back to ACTIVE.                                    *)
Moves == << [fsm |-> "asr", src |-> "ACTIVE", dst |-> "FAULTED"],
            [fsm |-> "asr", src |-> "FAULTED", dst |-> "RECOVERING"],
            [fsm |-> "vad", src |-> "ACTIVE", dst |-> "FAULTED"],
            [fsm |-> "vad", src |-> "FAULTED", dst |-> "RECOVERING"],
            [fsm |-> "asr", src |-> "RECOVERING", dst |-> "ACTIVE"],
            [fsm |-> "vad", src |-> "RECOVERING", dst |-> "ACTIVE"] >>
LastRecover == 4
LastMove == 6

Resetting(t) == pc[t] \in ResetPhases

(* A reset may start only while the bound on generations leaves room for it   *)
(* and for the one the other thread is about to count.                        *)
At(t, phase) == IF pc[t] = phase THEN 1 ELSE 0
Room == gen + At("worker", "generation") + At("watchdog", "generation") < MaxGen

Init ==
    /\ pc = [t \in Threads |-> "idle"]
    /\ move = [t \in Threads |-> 1]
    /\ reason = None
    /\ fsm = [f \in Fsms |-> "ACTIVE"]
    /\ gen = 1 /\ stream = 1
    /\ spoken = FALSE /\ peak = 0
    /\ heard = 0 /\ from = 0 /\ label = 0
    /\ window = {} /\ smooth = {}
    /\ lastSeen = -1 /\ lastTrigger = -1
    /\ cooling = FALSE /\ pauseAsked = FALSE
    /\ retries = 0 /\ escalated = FALSE /\ backoff = FALSE
    /\ answers = [s \in Streams |-> 0]

-----------------------------------------------------------------------------
(* The reset both threads run. *)

Goto(t, phase) == pc' = [pc EXCEPT ![t] = phase]

\* Mutant: only a recovery counts as a new generation.
CountGenerationOfRecovery(t) ==
    /\ pc[t] = "generation"
    /\ gen' = IF t = "watchdog" THEN gen + 1 ELSE gen
    /\ Goto(t, "stream")
    /\ UNCHANGED <<move, reason, fsm, stream, spoken, peak, resultVars,
                   engineVars, policyVars, pauseAsked>>

(* SherpaProvider.reset counts the generation first ... *)
CountGeneration(t) ==
    /\ pc[t] = "generation"
    /\ gen' = gen + 1
    /\ Goto(t, "stream")
    /\ UNCHANGED <<move, reason, fsm, stream, spoken, peak, resultVars,
                   engineVars, policyVars, pauseAsked>>

(* ... and then installs a fresh decode stream. *)
CreateStream(t) ==
    /\ pc[t] = "stream"
    /\ stream' = stream + 1
    /\ Goto(t, "test")
    /\ UNCHANGED <<move, reason, fsm, gen, spoken, peak, resultVars, engineVars,
                   policyVars, pauseAsked>>

(* Where a thread is once a reset has returned to its caller, and once the    *)
(* ValueError of an illegal transition has left it: it ends the worker's      *)
(* thread, and the watchdog logs it and goes on with its next check.          *)
NextCheck == IF reason = "queue_overflow" THEN "idle" ELSE "queue"
Returned(t) == IF t = "worker" THEN "idle" ELSE NextCheck
Raised(t) == IF t = "worker" THEN "dead" ELSE NextCheck

(* The locals of a reset end with it. *)
Leave(t, where) ==
    /\ Goto(t, where)
    /\ move' = [move EXCEPT ![t] = 1]
    /\ reason' = IF t = "watchdog" THEN None ELSE reason

(* After its move k a thread takes the next one; reset_state comes between    *)
(* the recover() calls and the way back to ACTIVE.  A watchdog reset that     *)
(* returns clears the backoff policy: none of its reasons is CRITICAL.        *)
Advance(t) ==
    IF move[t] = LastMove
      THEN /\ Leave(t, Returned(t))
           /\ retries' = IF t = "watchdog" THEN 0 ELSE retries
           /\ escalated' = IF t = "watchdog" THEN FALSE ELSE escalated
           /\ UNCHANGED backoff
      ELSE /\ Goto(t, IF move[t] = LastRecover THEN "clear" ELSE "test")
           /\ move' = [move EXCEPT ![t] = @ + 1]
           /\ UNCHANGED <<reason, policyVars>>

(* `if state == src:` *)
TestState(t) ==
    LET m == Moves[move[t]] IN
    /\ pc[t] = "test"
    /\ IF fsm[m.fsm] = m.src
         THEN Goto(t, "check") /\ UNCHANGED <<move, reason, policyVars>>
         ELSE Advance(t)
    /\ UNCHANGED <<fsm, asrVars, resultVars, engineVars, pauseAsked>>

(* transition() reads the state again and raises on an illegal step ... *)
CheckTransition(t) ==
    LET m == Moves[move[t]] IN
    /\ pc[t] = "check"
    /\ IF \/ fsm[m.fsm] = m.dst
          \/ <<fsm[m.fsm], m.dst>> \in VALID_SUBSYSTEM_TRANSITIONS
         THEN Goto(t, "write") /\ UNCHANGED <<move, reason>>
         ELSE Leave(t, Raised(t))
    /\ UNCHANGED <<fsm, asrVars, resultVars, engineVars,
                   policyVars, pauseAsked>>

(* ... and writes the new one. *)
WriteState(t) ==
    LET m == Moves[move[t]] IN
    /\ pc[t] = "write"
    /\ fsm' = [fsm EXCEPT ![m.fsm] = m.dst]
    /\ Advance(t)
    /\ UNCHANGED <<asrVars, resultVars, engineVars, pauseAsked>>

(* AudioWorker.reset_state *)
ResetState(t) ==
    /\ pc[t] = "clear"
    /\ spoken' = FALSE
    /\ peak' = 0
    /\ Goto(t, "test")
    /\ UNCHANGED <<move, reason, fsm, gen, stream, resultVars, engineVars,
                   policyVars, pauseAsked>>

ResetStep(t) ==
    \/ CountGeneration(t) \/ CreateStream(t)
    \/ TestState(t) \/ CheckTransition(t) \/ WriteState(t)
    \/ ResetState(t)

-----------------------------------------------------------------------------
(* The AudioWorker thread. *)

(* A chunk that starts speech and decodes to no text yet. *)
SpeechStarts ==
    /\ pc["worker"] = "idle"
    /\ spoken' = TRUE
    /\ UNCHANGED <<threadVars, gen, stream, peak, resultVars, engineVars,
                   policyVars, pauseAsked>>

(* The silence timeout after speech, RESET_COOLDOWN_SECONDS after the last    *)
(* reset, forces a stream reset.                                              *)
InactivityReset ==
    /\ pc["worker"] = "idle"
    /\ spoken
    /\ Room
    /\ Goto("worker", "generation")
    /\ UNCHANGED <<move, reason, fsm, asrVars, resultVars, engineVars,
                   policyVars, pauseAsked>>

(* A chunk decodes to a non-empty text of the current stream, with or without *)
(* the phrase in it.                                                          *)
ReadResult(phrase) ==
    /\ pc["worker"] = "idle"
    /\ heard' = IF phrase THEN stream ELSE 0
    /\ from' = stream
    /\ Goto("worker", "track")
    /\ UNCHANGED <<move, reason, fsm, asrVars, label, engineVars, policyVars,
                   pauseAsked>>

(* The longest text so far becomes the peak. *)
TrackPeak(longer) ==
    /\ pc["worker"] = "track"
    /\ peak' = IF longer THEN heard ELSE peak
    /\ Goto("worker", "label")
    /\ UNCHANGED <<move, reason, fsm, gen, stream, spoken, resultVars,
                   engineVars, policyVars, pauseAsked>>

(* gen_id = self._provider.generation_id *)
ReadGeneration ==
    /\ pc["worker"] = "label"
    /\ label' = gen
    /\ Goto("worker", "engine")
    /\ UNCHANGED <<move, reason, fsm, asrVars, heard, from, engineVars,
                   policyVars, pauseAsked>>

(* What _on_hypothesis works with: the buffer after the push of the text and, *)
(* if it is longer, of the peak, less what has left the time window; and the  *)
(* average, forgotten when the generation is new.                             *)
Pushed(kept, usePeak) ==
    (kept \cup {heard} \cup (IF usePeak THEN {peak} ELSE {})) \ {0}
Remembered == IF label = lastSeen THEN smooth ELSE {}
Smoothed(w, high) == IF high THEN w \cup Remembered ELSE {}
Confident(w, high, escape) ==
    Smoothed(w, high) # {} \/ (escape /\ w # {})
Evidence(w, high) == w \cup Smoothed(w, high)

(* Below the threshold; or above it, and suppressed by the generation gate or *)
(* by the cooldown.                                                           *)
Declined(w, high, escape) ==
    /\ Confident(w, high, escape) => label = lastTrigger \/ cooling
    /\ window' = w
    /\ smooth' = Smoothed(w, high)
    /\ Goto("worker", "idle")
    /\ UNCHANGED <<lastTrigger, cooling, answers>>

\* Mutant: the buffer is not cleared.
FireKeepsWindow(w, high, escape) ==
    /\ Confident(w, high, escape)
    /\ label # lastTrigger
    /\ ~cooling
    /\ Room
    /\ lastTrigger' = label
    /\ cooling' = TRUE
    /\ window' = w
    /\ smooth' = {}
    /\ answers' = [s \in Streams |->
                     IF s \in Evidence(w, high) THEN answers[s] + 1
                                                ELSE answers[s]]
    /\ Goto("worker", "generation")

\* Mutant: mark_triggered() is not called.
FireUnmarked(w, high, escape) ==
    /\ Confident(w, high, escape)
    /\ label # lastTrigger
    /\ ~cooling
    /\ Room
    /\ lastTrigger' = label
    /\ cooling' = cooling
    /\ window' = {}
    /\ smooth' = {}
    /\ answers' = [s \in Streams |->
                     IF s \in Evidence(w, high) THEN answers[s] + 1
                                                ELSE answers[s]]
    /\ Goto("worker", "generation")

(* The wake: both gates are closed behind it, the buffer and the average are  *)
(* cleared, and the worker goes on to reset the stream.                       *)
Fire(w, high, escape) ==
    /\ Confident(w, high, escape)
    /\ label # lastTrigger
    /\ ~cooling
    /\ Room
    /\ lastTrigger' = label
    /\ cooling' = TRUE
    /\ window' = {}
    /\ smooth' = {}
    /\ answers' = [s \in Streams |->
                     IF s \in Evidence(w, high) THEN answers[s] + 1
                                                ELSE answers[s]]
    /\ Goto("worker", "generation")

(* WakeEngine._on_hypothesis.  Its pause gate tests _detection_paused, which  *)
(* nothing sets: it is FALSE for ever and guards nothing here.                *)
OnHypothesis(kept, usePeak, high, escape) ==
    LET w == Pushed(kept, usePeak) IN
    /\ pc["worker"] = "engine"
    /\ lastSeen' = label
    /\ heard' = 0 /\ from' = 0 /\ label' = 0  \* the worker's locals end
    /\ \/ Declined(w, high, escape)
       \/ Fire(w, high, escape)
    /\ UNCHANGED <<move, reason, fsm, asrVars, policyVars, pauseAsked>>

(* CooldownGate: COOLDOWN_SECONDS have passed. *)
CooldownOver ==
    /\ cooling
    /\ cooling' = FALSE
    /\ UNCHANGED <<threadVars, asrVars, resultVars, window, smooth, lastSeen,
                   lastTrigger, answers, policyVars, pauseAsked>>

(* The SDK's pause() and resume() arrive as CONFIGURE{detection_paused}; the  *)
(* worker's receiver acts on `command: load_profile` only.                    *)
ReceiveConfigure(paused) ==
    /\ pauseAsked # paused
    /\ pauseAsked' = paused
    /\ UNCHANGED <<threadVars, asrVars, resultVars, engineVars, policyVars>>

-----------------------------------------------------------------------------
(* The watchdog thread: _check_worker, then _check_queue, then a sleep. *)

(* What a check may find: the thread dead, its heartbeat stale while a chunk  *)
(* is in processing, or the unbounded queue above the threshold.              *)
Finds(r) ==
    CASE r = "worker_dead" -> pc["watchdog"] = "idle" /\ pc["worker"] = "dead"
      [] r = "worker_hang" -> pc["watchdog"] = "idle"
                              /\ pc["worker"] \notin {"idle", "dead"}
      [] r = "queue_overflow" -> pc["watchdog"] = "queue"
Reasons == {"worker_dead", "worker_hang", "queue_overflow"}

HeldBack == escalated \/ backoff

(* Nothing wrong, or the backoff gate suppresses the reset. *)
CheckPasses ==
    /\ pc["watchdog"] \in {"idle", "queue"}
    /\ Finds("worker_dead") => HeldBack \/ ~Room
    /\ Goto("watchdog", IF pc["watchdog"] = "idle" THEN "queue" ELSE "idle")
    /\ UNCHANGED <<move, reason, fsm, asrVars, resultVars, engineVars,
                   policyVars, pauseAsked>>

(* _recover_stream: the failure is counted before the reset is tried, and the *)
(* policy may escalate instead.                                               *)
RecoverStream(r) ==
    /\ Finds(r)
    /\ ~HeldBack
    /\ Room
    /\ reason' = r
    /\ retries' = retries + 1
    /\ backoff' = TRUE
    /\ \/ /\ retries + 1 >= MaxRetries
          /\ escalated' = TRUE
          /\ Goto("watchdog", IF r = "queue_overflow" THEN "idle" ELSE "queue")
       \/ /\ retries + 1 < MaxRetries
          /\ escalated' = escalated
          /\ Goto("watchdog", "generation")
    /\ UNCHANGED <<move, fsm, asrVars, resultVars, engineVars, pauseAsked>>

BackoffOver ==
    /\ backoff
    /\ backoff' = FALSE
    /\ UNCHANGED <<threadVars, asrVars, resultVars, engineVars, retries,
                   escalated, pauseAsked>>

-----------------------------------------------------------------------------
Worker ==
    \/ SpeechStarts \/ InactivityReset
    \/ \E b \in BOOLEAN : ReadResult(b) \/ TrackPeak(b)
    \/ ReadGeneration
    \/ \E kept \in SUBSET window, usePeak, high, escape \in BOOLEAN :
            OnHypothesis(kept, usePeak, high, escape)
    \/ ResetStep("worker")

Watchdog ==
    \/ CheckPasses
    \/ \E r \in Reasons : RecoverStream(r)
    \/ ResetStep("watchdog")

Clock == CooldownOver \/ BackoffOver

Next ==
    \/ Worker
    \/ Watchdog
    \/ Clock
    \/ \E b \in Configures : ReceiveConfigure(b)

Spec == Init /\ [][Next]_vars

-----------------------------------------------------------------------------
(* The types of the variables, and the bounds the guards keep. *)
TypeOK ==
    /\ pc \in [Threads -> WorkerPcs \cup WatchdogPcs]
    /\ pc["worker"] \in WorkerPcs /\ pc["watchdog"] \in WatchdogPcs
    /\ move \in [Threads -> 1 .. LastMove]
    /\ reason \in Reasons \cup {None}
    /\ fsm \in [Fsms -> SubStates]
    /\ gen \in 1 .. MaxGen /\ stream \in Streams
    /\ spoken \in BOOLEAN
    /\ peak \in 0 .. MaxGen /\ heard \in 0 .. MaxGen /\ from \in 0 .. MaxGen
    /\ label \in 0 .. MaxGen
    /\ window \subseteq Streams /\ smooth \subseteq Streams
    /\ lastSeen \in -1 .. MaxGen /\ lastTrigger \in -1 .. MaxGen
    /\ cooling \in BOOLEAN /\ pauseAsked \in BOOLEAN
    /\ retries \in 0 .. MaxRetries /\ escalated \in BOOLEAN
    /\ backoff \in BOOLEAN
    /\ answers \in [Streams -> Nat]

(* However the resets of the two threads interleave, the phrase decoded from  *)
(* one stream is evidence for at most one wake: it cannot fire again from the *)
(* buffer, from the peak or from the average once it has fired                *)
(* (orchestrator.py:380-435).                                                 *)
OneWakePerStream == \A s \in Streams : answers[s] <= 1

(* The generation gate never swallows a new utterance: a hypothesis reaches   *)
(* it with a generation later than the last one that fired                    *)
(* (orchestrator.py:392).                                                     *)
NewUtteranceNotSuppressed == pc["worker"] = "engine" => lastTrigger < label

(* While neither thread is in a reset, the machines are ACTIVE, unless an     *)
(* illegal transition was raised (streaming.py:233-238, worker.py:440-446).   *)
ActiveAfterReset ==
    (~Resetting("worker") /\ ~Resetting("watchdog") /\ pc["worker"] # "dead"
        /\ retries = 0)
    => \A f \in Fsms : fsm[f] = "ACTIVE"

(* The two threads together implement the abstract gate: a stream is an       *)
(* utterance, and every wake answers streams that no wake answered before,    *)
(* with the cooldown between wakes (orchestrator.py:380-435).                 *)
Gate == INSTANCE WakeGate WITH Utterances <- Streams, current <- stream
ImplementsGate == Gate!Spec

(* sherpa.py:74 - a hypothesis belongs to the generation of its stream.       *)
HypothesisOfItsGeneration == pc["worker"] = "engine" => label = from

(* fault_classifier.py:61 - a watchdog reset that returns after it found the  *)
(* worker dead leaves a worker that runs.                                     *)
DeadWorkerRecovered ==
    [][(Resetting("watchdog") /\ reason = "worker_dead"
           /\ pc'["watchdog"] = "queue" /\ retries' = 0)
       => pc'["worker"] # "dead"]_vars

(* orchestrator.py:124 - while detection is paused no wake fires.             *)
PauseStopsWakes == [][pauseAsked => answers' = answers]_vars
=============================================================================
