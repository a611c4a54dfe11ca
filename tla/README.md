# AVA-Listener: TLA+ models, checks and proofs

AVA-Listener is an always-on wake-phrase listener: an application embeds a Node
SDK, the SDK starts a Python supervisor, the supervisor starts a Python worker
that owns the microphone and the speech recogniser, and wake events travel back
to the application over a WebSocket. This directory models the parts of that
chain where order, failure and concurrency decide whether it works, checks them
with TLC and proves the main safety properties with TLAPS.

Line references are relative to `src/`.

## 1. Inventory

| Component | State it keeps | Operations | Hard behaviour | What makes it correct |
|---|---|---|---|---|
| SDK lifecycle, `node/lifecycle.js`, `node/state_machine.js`, `node/process_manager.js`, `node/protocol/handshake.js` | 12-state machine, current transport, tracked supervisor process, state to restore | `start`, `stop`, `restart`, `pause`, `resume`, `destroy`, profile/phrase/parameter requests | every `await` lets other calls, timers, socket and process events in; old processes report late | an active SDK has a connection; a stopped SDK leaves no supervisor; every call settles; no exception escapes a timer |
| SDK transport, `node/transport.js` | socket, reconnect attempts, own offline queue | `connect`, `send`, `close`, reconnect timer | a dial or a timer outlives the call that began it | recovery ends; the state machine is told of every loss |
| Supervisor, `runtime/supervisor/supervisor.py`, `restart_policy.py` | tracked worker, failure count, restart window, stop flag | monitor loop, spawn, restart, escalation, `stop`, request handlers | the monitor sleeps in the middle of its decisions | one worker at a time; a crash is answered; nobody outlives the supervisor |
| Worker process, `runtime/worker/worker_process.py` | IPC connection, engine | connect, heartbeats, receive commands, exit | crash and hang at any moment; supervisor vanishes | ends when the supervisor is gone; obeys commands |
| WebSocket server, `runtime/transport/websocket_server.py` | client set, pending acknowledgements, offline queue, retry task | `broadcast`, retry loop, connection handler, ACK | coroutines interleave at sends that suspend; connections die during sends | an event of the guaranteed class is not forgotten before it is received |
| Wake engine, `runtime/kernel/orchestrator.py` | hypothesis window, smoothed confidence, generation gate, cooldown | `_on_hypothesis`, `load_profile`, `update_config` | runs on the audio thread while another thread resets what it reads | one phrase, one wake; a new phrase is not swallowed |
| Audio worker, `runtime/audio/worker.py`, and VAD, `runtime/vad/` | VAD hysteresis, pre-roll, trailing pad, silence count, peak hypothesis, spoken flag | chunk loop, stream reset | text and generation are read at different moments; counters at their limits; the watchdog resets them between two steps | every decode belongs to its stream; speech is fed whole and once; a silent stream is reset |
| ASR coordinator, `runtime/asr/streaming.py`, `providers/sherpa.py` | decode stream, generation | start, reset, shutdown | reset is called from two threads without a lock | a reset leaves a working stream and ACTIVE machines |
| Watchdog, `runtime/supervisor/watchdog.py`, `runtime/hardening/recovery_policy.py`, `fault_classifier.py` | retries, backoff, escalation flag | liveness and queue checks, stream recovery | resets behind the worker's back | a recovery it reports is one |
| Subsystem machines, `runtime/kernel/lifecycle.py` | state of ASR, VAD and runtime | `transition`, `recover`, `fault`, `shutdown` | check-then-act without a lock | back in ACTIVE after a reset |
| Bootstrap lock, `node/bootstrap_lock.js` | lock file | acquire, release, stale removal | several processes, one file | one owner |
| Runtime manager, `node/runtime_manager.js` | runtime directory, bootstrap state | verify, install, roll back, fall back | crash during an install, two processes | a runtime that was verified is not taken away; `start()` ends |
| Model manager, `node/model_manager.js` | model files, checksum file, list of installed models | verify, download, retry | not under the lock; files are rewritten from stale reads | what is trusted was verified |
| IPC, `runtime/ipc/` | one client socket | framed JSON send and receive | several messages in one `recv()`, a worker replaced | order; the reader never stops |
| Phrase registry and matcher, `runtime/matcher/` | phrases, variants, index | load, match | reload during matching | a match belongs to one profile |
| Telemetry, `runtime/telemetry/` | bounded queue | emit, drain | drop-oldest races the drain | what is logged is in order |
| Profiles, `runtime/config/` | layered configuration | load, validate, reload | partial failure | a failed load changes nothing |
| Hardening library, `runtime/hardening/` | restart and recovery records | classify, restart, escalate, report success | threads without a lock | retry budget respected |

Interactions: SDK and supervisor share a WebSocket (commands one way, events and
acknowledgements the other) and a parent/child process relation; supervisor and
worker share a TCP connection (commands, heartbeats, events) and a process
relation; inside the worker the audio thread and the watchdog thread share the
decode stream, the speech state and two state machines, and the audio thread
shares the phrase registry with the thread that receives commands. SDK processes
of one user share a cache directory with the lock, the Python runtime and the
models.

`PROJECT.json` lists every component with its status, and under `hazards` the
places in the code that tests hardly reach, each with the properties that cover
it.

## 2. Modules

| Module | Models | Role |
|---|---|---|
| `SdkLifecycle` | SDK lifecycle, process manager, connecting side of the transport | component |
| `MCSdkLifecycle` | adds two history variables (the state an outage interrupted, the transports a later `start()` replaced) and symmetry | TLC and proofs |
| `SdkLifecycleProofs` | | proofs |
| `Bootstrap` | lock file, Python runtime and its installation, seen from several SDK processes | component |
| `ModelCache` | model files and their metadata, seen from several SDK processes | component, follows `Bootstrap` in `start()` |
| `MCStartup` | `Bootstrap` and `ModelCache` side by side: they share no file, so a behaviour runs one of them | TLC |
| `StartupProofs` | | proofs about `Bootstrap` and `ModelCache` |
| `WorkerSupervisor` | monitor thread, policies, worker processes | component |
| `MCWorkerSupervisor` | adds a count of the worker exits seen | TLC |
| `WorkerSupervisorProofs` | | proofs |
| `WsDelivery` | WebSocket server and the receiving side of the SDK transport | composition of the two ends |
| `WsDeliveryProofs` | | proofs |
| `LossyFifo` | what an ordered channel that may lose messages promises | abstract specification |
| `PhraseMatcher` | registry, variant index, matcher, loading of a profile | component |
| `ControlPath` | SDK requests and commands, supervisor's handlers, IPC channel, worker entry point | composition with `PhraseMatcher`; implements `LossyFifo` twice |
| `MCControlPath` | three profiles for TLC | TLC |
| `ControlPathProofs` | | proofs, refinement included |
| `WakeGate` | what the listening core promises its user | abstract specification |
| `WakeEngine` | audio thread, engine, ASR stream, subsystem machines and watchdog thread together | composition, implements `WakeGate` |
| `WakeEngineProofs` | | proofs, refinement included |
| `AudioChunks` | capture queue, VAD stages, hysteresis, pre-roll, pad, silence limit, watchdog's resets | component |
| `AudioChunksProofs` | | proofs |
| `Recovery` | recovery coordinator, restart manager, recovery policies | component |
| `Telemetry` | bounded event queue and its thread | component, implements `LossyFifo` per thread |
| `MCHardening` | `Recovery` and `Telemetry` side by side: they share no state | TLC |
| `HardeningProofs` | | proofs about `Recovery` and `Telemetry`, refinement included |

Operators whose comment begins with "Mutant:" are not part of any specification.
Each is a plausible defect of a definition that follows it and serves to show
that the property named for it in `PROJECT.json` notices that defect.

### SdkLifecycle

Node runs one callback at a time, so an action is all the code between two
awaits. A `start()` call makes at most one supervisor process and one transport,
so the three share a name `s`; `startPc[s]` is the await the call is at, `sup[s]`
the process, `link[s]` the socket. `stop()`, `restart()` and `destroy()` are the
calls `k` with `stopPc[k]`. `fsm`, `proc`, `transport`, `attempts` and `prev` are
the fields of the same or similar name in the code. A transition that
`TRANSITIONS` does not list throws; where that happens outside any `try` (a timer or a socket
handler) the model sets `crashed`, which is what Node does by default. Since
`EventEmitter` handlers run synchronously, the handlers of 'recovering',
'reconnected' and 'failed' belong to the socket action that emits them.
`SerialCaller` distinguishes an application that awaits each call before the
next from one that does not, and nothing more: it may call `start()` again after one that
was rejected (`TRANSITIONS` allows FAILED to STARTING), and the transport and the process
the failed call left behind (`node/lifecycle.js:269-275`) are still there when it does.

`ProcessManager` listens to the child's `close` event only. A process that cannot be spawned
reports that through `error`, which nobody listens to: an uncaught exception (`SpawnFails`).
A process that starts and then neither prints its port nor exits is the state `booting`;
the promise of `spawnSupervisor()` has no timeout, so nothing is assumed of it.

### WorkerSupervisor

The monitor thread has a control point at each place it sleeps or waits: the loop
head (`check`), the backoff before a restart, the wait for a terminated worker.
`stop()` comes from another thread at any of them. Process slots are reused once
dead, so finitely many slots stand for any number of restarts. Time appears only
as "the last heartbeat is recent" (`fresh`) and "the restart window has slid"
(`WindowSlides`). A runtime restart rebuilds the restart policy with the default
of its constructor, hence the two limits; `Limits` are the values of `--max-restarts`, of which
the command line accepts any.

`Popen` may raise (`SpawnRaises`); the monitor loop logs it and goes on
(`supervisor.py:371-373`). What that leaves depends on the caller: `_handle_worker_exit()` has set
`_worker_proc` to `None` before, so there is no worker and no further attempt, while
`_action_runtime_restart()` and `_restart_worker()` leave the dead process in place, and the
next round of the loop sees it exited. `lost` remembers which of the two ways to end
without a worker was taken. The request handlers of `_on_ws_receive` are
in `ControlPath`.

### Bootstrap and ModelCache

`start()` begins in a directory it shares with every other SDK process of the
user. Each file-system call is a step, because another process can move between
any two: creating the lock with `wx`, `stat` of a lock that exists, `unlink` of one
that is older than ten minutes, deleting it on release. `boot[p]` is where process
`p` is; a runtime is the set of parts below the runtime root, and a part that is being
overwritten is missing until it is written. A crash leaves the files as they are.

The code decides whether a runtime is good by running it, and takes every error for a "no":
a `python` that could not be spawned, a status other than 0, an exception
(`runtime_manager.js:307`, `:322`, `:327`). `Verdicts` therefore allows a "no" of a good
runtime at any time; a "yes" takes one. `python`, `curl`, `powershell`, `unzip` and `tar` run
under `execSync` or `spawnSync` without a timeout, so at each of those places the process may
come to a halt, lock and all (`SubprocessHangs`).

`trouble` records the worst that has happened so far: a lock file has grown old, the one
condition under which two processes can be inside; or a process has taken a working runtime
that others use for a broken one, and installs over it.

`ModelCache` is the phase after the lock is released. A file has a content
(`good`, `bad`, `absent`) and a version, which stands for size and modification time: the
key of a cached checksum. Verdicts and hashes that a process has read are kept
in `task` and `seen` while the others rewrite files and metadata; a rewrite is opened (file
truncated) and then written, and a crash between the two leaves a file that does not parse.

### PhraseMatcher and ControlPath

`load_profile` reads the file, clears the registry, adds its entries and rebuilds the
index under the registry's lock; `best_match()` reads the active phrases under the same
lock and the index, under a lock of its own, up to three times afterwards. `during` collects the profiles in force while a match
runs. A text is the set of variants that occur in it and of phrases it resembles; scores
are open. An entry that does not convert fails before the registry is touched, so
the old profile stays.

`ControlPath` puts the calls of the SDK in front: a WebSocket to the supervisor, its
handlers, the IPC socket to the worker, the receiving thread of the worker. Of several messages in one
`recv()` the first is handled and the rest are discarded (`protocol.py:22`), in both directions.
The socket of a dead worker remains the supervisor's until a `send` fails. `lost`
becomes true at each event after which the last `loadProfile()` may not be in force;
`ProfileLostOnlyBy` says that the list is complete. Requests have timers; the timer of
a request that outlives the transport throws.

### WsDelivery

One asyncio loop: a coroutine gives way only where `ws.send` suspends, which the
model lets happen at any send. Messages are the guaranteed and the retry class; a
connection is used once. The client set is copied into `iter` when an
iteration begins and compared at every resumption: a change raises
`RuntimeError`, which ends a connection handler in its `finally`, and ends the
retry task for good. `cleared` remembers what `offline_queue.clear()` removed.
The SDK end receives a message and acknowledges it in the same callback; both
directions can be lost with the connection. Clients whose send failed are discarded when the iteration
over the clients has ended, once per message (`GoOn`, `Run`), not at each send that resumes.

### WakeEngine and WakeGate

Python switches threads between any two accesses, so a reset is modelled access
by access: the generation count, the new stream, and the test, check and write
that each guarded transition of a state machine makes. `ResetPhases` lists them,
`Moves` the six transitions in order. A chunk of the audio thread is four steps:
read the result, track the peak, label it with the generation, run
`_on_hypothesis`. The last is a single action: of the state it touches, the watchdog
writes only what the worker has already read into locals.

A text is reduced to the stream it was decoded from and to whether it holds the
phrase; confidence is reduced to the set of streams whose phrase raised it, so
the numbers of the scorer (any of which may or may not pass the threshold) are a
nondeterministic choice. The engine's actual `detection_paused` flag never becomes
true in the worker, as no code path there sets it; `pauseAsked` records what the
SDK asked for.

`WakeGate` knows only utterances, wakes and the cooldown: a wake answers at least
one utterance not answered before, and wakes are a cooldown apart. `ImplementsGate`
maps utterances to decode streams and the current utterance to the current
stream.

### AudioChunks

Chunks are numbered, and the worker's path for one chunk has a control point
wherever the watchdog can come between: detector, silence limit, feed, decode. `stream`
is what the current decode stream was fed, `said[c]` how often chunk `c` was fed as speech
and `onset` where the utterance began. What the detectors decide is open. `refused` remembers
that the 15 s cooldown declined the reset at the limit: it is tried at that count only
(`audio/worker.py:309`).

A reset from outside is three steps, stream, detector, speech state; `recover()` between the
last two may raise (`kernel/lifecycle.py:50`), which the watchdog's handler swallows
and the worker's thread does not survive. `torn` remembers that the stream was replaced under
speech whose state was not reset: while the reset is under way, and after one that raised, until
the next reset or the next onset. When it raises is left open here; `WakeEngine` has the races.

`buffer` is the detector's `_audio_buffer`. `HybridVAD` creates it in `reset_state()`, which its
constructor calls only if the Silero model is there (`vad/pipeline.py:54-61`). Without the
model the first chunk that is not digital silence raises an AttributeError
(`vad/pipeline.py:118`) and ends the worker thread, unless a reset of the watchdog came first.

### Recovery and Telemetry

Neither part of the hardening library holds a lock, so each call on shared state is
a step of any thread. `granted` counts the restarts since the policy was last reset, `counted`
marks threads whose failure the policy still counts. `Telemetry` splits `emit()`
into its three queue calls; an event is a thread and a number, and `TelemetryInOrder`
says that for each thread the path from `emit()` to the log implements `LossyFifo`.
In this repository only single-threaded tests call `RecoveryCoordinator`, and callers that
ask `request_restart` directly, around `observe_fault`, are not modelled.

## 3. Runs

| Run | Properties | What it shows |
|---|---|---|
| `sdk_concurrent` | `TypeOK`, `ActiveHasTransport`, `TrackedSupervisorIsCurrent`, `ConnectedWhenActive`, `ReconnectNeverUnpauses` | two `start()` calls and a `stop()`, `restart()` or `destroy()` overlapping at will with outages, process exits and failing spawns |
| `sdk_serial` | `UncaughtOnlyFromLeftovers`, `RecoveryEnds`, `StartSettles` | an application that awaits its calls and may retry a rejected `start()`: the two ways an exception escapes; under fair timers and sockets every outage ends, and every `start()` settles unless its supervisor boots for ever |
| `startup` | `MutualExclusion`, `AdoptedRuntimeWorks`, `TrustedSumsAreTrue`, `DoneMeansIntact`, `BootstrapEnds`, `PhaseEnds` | two processes bootstrap in one cache directory and may crash or hang anywhere: while no lock file has grown old one of them installs at a time, and a verified runtime stays usable unless it is itself taken for broken; every `start()` gets past the bootstrap or fails unless it hangs in a subprocess. Two processes verify and download models without a lock: no checksum that would be trusted is wrong, the phase returns only with intact models, and it ends |
| `supervisor` | `OneWorker`, `ThrottleNeedsHangs`, `CrashRecovered`, `HangEnds`, `NoZombieWorker` | workers crash and hang at any moment, spawns fail, `stop()` arrives at any moment, `--max-restarts 1`; under a fair monitor failures are answered except for the two ways to end without a worker, and no worker outlives the supervisor unless it hangs |
| `supervisor_ladder` | `EscalatesAsDocumented` (violated) | three steps of the documented ladder, then step 1 again (`runtime/supervisor/supervisor.py:406`) |
| `delivery` | `LostOnlyByClear`, `HeldOnce`, `NothingStranded`, `PendingSettles` | where a message can be while broadcasts, retries, ACKs, connections and suspended sends interleave; while the retry task lives nothing stays pending for ever |
| `control` | `WholeProfile`, `MatchFromProfileInForce`, `ProfileLostOnlyBy`, `ChannelInOrder`, `RequestSettles`, `StreamDrained` | profiles are loaded through SDK, supervisor, IPC and worker while the audio thread matches, connections break and workers die: matches come from whole profiles in force, the ways to lose a `loadProfile()` are those listed, IPC is a lossy fifo both ways, requests settle, commands are read |
| `wake` | `OneWakePerStream`, `NewUtteranceNotSuppressed`, `ActiveAfterReset`, `ImplementsGate` | two threads resetting the same stream at every interleaving of their accesses, pause requests at any time; they implement the abstract gate |
| `audio` | `UtteranceFedWhole`, `SpeechFedOnce`, `SilentStreamIsReset` | speech and silence in every order, the watchdog between any two steps, resets that raise half way: an utterance reaches the recogniser without a gap from its first chunk on, no chunk of it twice, and a stream that heard speech is reset by the documented number of silent chunks unless the cooldown refused |
| `audio_silence` | `ResetOnlyAfterSilence` (violated) | the reset comes at a limit of the code's own, before the documented one (`runtime/audio/worker.py:304`) |
| `hardening` | `RetriesBounded`, `RestartsBounded`, `TelemetryInOrder` | three threads report faults and successes without a lock: retries overshoot by less than the number of threads, and restarts stay below `max_retries`; two threads emit into a full queue while it is drained, stopped and started: each thread's events are logged in order |
| `wake_dead` | `DeadWorkerRecovered` (violated) | two racing resets raise `ValueError` in the worker thread; the watchdog resets the stream, reports a recovery, and the thread stays dead (`runtime/supervisor/watchdog.py:162`) |

Types: the type invariant of `SdkLifecycle`, `WorkerSupervisor`, `WakeEngine`, `Bootstrap`,
`ModelCache`, `Recovery`, `Telemetry` and `AudioChunks` is proved; elsewhere it documents the
state.

### Counterexample configurations

Ten more configurations check one formula each that the repository states or
implies, or a reader would expect, and that its code violates; TLC prints the behaviour. They are kept for the reader
of the code, beside the runs.

| Configuration | Module | Formula | What happens |
|---|---|---|---|
| `sdk_restore.cfg` | `MCSdkLifecycle` | `RunningRestored` | an outage that needs two dials stores RECOVERING as the state to restore; a running listener comes back as READY and no longer detects (`node/lifecycle.js:195`) |
| `sdk_orphan.cfg` | `MCSdkLifecycle` | `StopLeavesNoSupervisor` | the late close event of an earlier supervisor clears the reference to the current one, and `stop()` leaves it running (`node/process_manager.js:75`) |
| `sdk_uncaught.cfg` | `MCSdkLifecycle` | `UncaughtOnlyFromSpawn` | a `start()` is rejected after it connected, the awaiting caller retries, the new transport replaces the old one, `stop()` closes only the new one; when the old one fails, its handler asks for `transport.attempt` of null or for a transition that throws (`node/lifecycle.js:191`) |
| `bootstrap_doubt.cfg` | `Bootstrap` | `AdoptedRuntimeUntouched` | one failing `python --version` makes a second process unpack over the runtime the first one runs (`node/runtime_manager.js:307`, `node/lifecycle.js:108-121`) |
| `ws_retrier.cfg` | `WsDelivery` | `RetriedUntilAck` | a client set that changes during a suspended retry ends the retry task (`runtime/transport/websocket_server.py:150`) |
| `ws_kept.cfg` | `WsDelivery` | `GuaranteedKept` | flushed messages are not tracked, then cleared; if that connection fails they are gone (`runtime/transport/websocket_server.py:48`) |
| `wake_label.cfg` | `WakeEngine` | `HypothesisOfItsGeneration` | a reset between reading the text and reading the generation labels an old text with the new generation (`runtime/audio/worker.py:396`) |
| `wake_pause.cfg` | `WakeEngine` | `PauseStopsWakes` | the worker ignores `configure{detection_paused}` (`runtime/worker/worker_process.py:54`) |
| `audio_fallback.cfg` | `AudioChunks` | `DetectorNeverEndsWorker` | "Falling back to WebRTC-only." (`runtime/vad/pipeline.py:60`): without the model the first chunk of sound ends the worker thread (`runtime/vad/pipeline.py:118`) |
| `control_validate.cfg` | `MCControlPath` | `AnswersAreTaken` | the supervisor answers `validateProfile()` with the envelope's correlation id, the SDK waits for the payload's: the answer is never taken (`runtime/supervisor/supervisor.py:277`, `node/lifecycle.js:369`) |

### Further disagreements between code and documentation

These follow from the models, or were met while writing them, and have no configuration of
their own.

SDK and start-up:

- Exceptions nobody catches: `UncaughtOnlyFromLeftovers` lists them all. A supervisor that cannot
  be spawned (`node/process_manager.js:47`), and a socket event of a transport that a failed
  `start()` left and the next one replaced, can hit a caller that awaits every call. With
  `SerialCaller = FALSE` a `stop()` during the readiness wait of `start()` also leaves the 15 s
  timer to dereference a null transport (`node/lifecycle.js:241`). The timers of
  `validateProfile()` and of the diagnostics requests do the same after a `stop()`
  (`node/lifecycle.js:363`, `:464`); `RequestSettles` counts that as an end.
- `start()` waits for ever for a supervisor that neither prints its port nor exits; only the
  steps after that have timeouts (`node/process_manager.js:14-78`, exempted in `StartSettles`).
- The action `Destroy`: on an active listener the `stop()` inside `destroy()` has moved
  to STOPPING by the time DESTROYED is asked for, which `TRANSITIONS` refuses; the call
  throws and event listeners are not removed (`node/lifecycle.js:343`).
- "Bootstrap locking prevents: concurrent startup installs, ... model corruption"
  (`docs/implementation/STARTUP_FLOW.md:40`): two processes can remove a stale lock one after
  the other, the second removing the fresh lock of the first (`node/bootstrap_lock.js:34`), hence
  `trouble # "age"` in `MutualExclusion`; a lock that vanishes before its `statSync` makes `start()` fail
  (`node/bootstrap_lock.js:29`); models are handled after the lock is released.
- `ReconnectNeverUnpauses` speaks of the 'reconnected' handler. With three overlapping
  `start()` calls another path un-pauses: the late 'ready' listener of an earlier call finds
  RECOVERING, an outage of a PAUSED listener, and takes it to RUNNING
  (`node/lifecycle.js:258`).
- A bootstrap state file torn by a crash makes every later start fail
  (`node/runtime_manager.js:150`), as does a torn `installed_models.json` for every
  download (`node/model_manager.js:382`). The Python to run is resolved again
  after the lock is released (`node/process_manager.js:31`).

Supervisor, commands and profiles:

- The recovery ladder of `runtime/supervisor/restart_policy.py:37-42` ("4 -> degraded mode",
  "5 -> fatal failure") ends at its third step, which resets the failure count
  (`runtime/supervisor/supervisor.py:406`): run `supervisor_ladder`.
- With `--max-restarts 1` the second crash in the window is refused, as
  `scripts/test_supervisor_recovery.py:105-111` expects ("Restart throttled by policy"); with the
  default the third step replaces the policy before crashes alone can use it up, and only
  hangs, whose restarts are recorded and never refused, bring the throttle on.
  `ThrottleNeedsHangs` says both. After a throttled restart, or a `Popen` that raises in
  `_handle_worker_exit()`, the supervisor runs on without a worker and never tries again.
- "`loadProfile()` now safely processes the update dynamically at runtime"
  (`README.md:669`): `ProfileLostOnlyBy` lists how it gets lost. `getEffectiveConfig()`
  answers with the profile the supervisor was started with
  (`runtime/supervisor/supervisor.py:223`).
- Of the phrase and configuration methods in `README.md:922-936` the worker handles
  none but `loadProfile()`; `getPhrases()` and `getManifest()` are never answered.
- A disabled phrase is still reported when one of its variants is heard: the index holds
  the variants of every phrase (`runtime/matcher/evaluator.py:246`).
- The validator reports a `phraseId` that parent and child share as a duplicate
  (`runtime/config/profile_validator.py:47`), although the child's list replaces the
  parent's (`runtime/config/profile_loader.py:91`).

Audio, recovery and telemetry:

- "Stream resets only after SILENCE_RESET_FRAMES consecutive silent chunks"
  (`runtime/audio/worker.py:68`, again in `:202`), which is 30 (`runtime/config/defaults.py:32`).
  The worker imports the setting and never reads it: the limits are 18 and, while the text
  holds a partial token, 25 (`runtime/audio/worker.py:304`). Run `audio_silence`. The reset is tried once, at the exact count;
  when the cooldown refuses it, nothing tries again before somebody speaks.
- "Every chunk from the queue reaches accept_waveform() — no drops" and "VAD only gates
  on_hypothesis()" (`runtime/audio/worker.py:66-67`, again in `:200-201`): silence before an
  utterance beyond the pre-roll and after the pad is not fed. `SpeechFedOnce` speaks of
  speech: a pad chunk that is also in the pre-roll of the next utterance is fed twice.
- Without the Silero model the worker thread dies at the first sound (`audio_fallback.cfg`). If a
  reset of the watchdog has created the buffer before, chunks that WebRTC passes pile up in it
  until one is dropped (`runtime/vad/pipeline.py:142`, `:154`).
- `_get_threshold` ignores the phrase it is given (`runtime/kernel/orchestrator.py:51`).
- A policy with `max_retries = n` grants n - 1 restarts; RESTART is reported when no
  handler ran, and the backoff delay that `request_restart` returns is ignored
  (`runtime/hardening/recovery_coordinator.py:160`). With the shipped policies the
  retries run out before the escalation threshold is reached.
- An event can be lost without being counted: `dropped_count` is raised only when the second
  `put_nowait` succeeds (`runtime/telemetry/events.py:48`). The telemetry thread cannot be
  started again after `stop()`.

### Bounds

- *SDK.* Two `start()` calls are the least for which one call's process,
  transport or timer can disturb another's; the proofs cover any number. One stop,
  restart or destroy lies between them (two in `sdk_orphan.cfg`). `MaxAttempts` stands for
  the length of `RECONNECT_DELAYS`: 2 in `sdk_concurrent` and `sdk_restore.cfg`, the least with
  a second 'recovering' event in one outage, and 1 elsewhere.
- *Bootstrap.* Two processes, a runtime of two parts (so that an installation
  can be half done), two sources besides the fallbacks, so that one can fail and the next be
  tried (one in `bootstrap_doubt.cfg`). Processes restart without bound.
- *Models.* Two clients, one model, two of the three attempts, six versions: each
  client can replace the file twice with a new version, and restart. A download takes a version
  that neither the file nor an entry or a verification under way mentions (`Unused`); six are
  so many that there always is one. The name of the temporary file, made of the time in
  milliseconds (`node/model_manager.js:152`), is taken to be unique.
- *Bootstrap and models in one run.* `MCStartup` lets a behaviour take the steps of one of the two
  modules only, with the other at rest in an initial state: nothing is lost, since they share no variable.
- *Supervisor.* Three process slots: the tracked worker, one that was signalled
  and has not died, and a free one to spawn. Slots are reused, so failures are
  unbounded. `--max-restarts` is 1, and the default of the constructor is cut from 5 to 3: enough that both the throttle
  and its replacement by the runtime restart are reached. The proofs allow any limits.
  `supervisor_ladder` uses 5 for both, the shipped values, so that a throttle does not
  keep the ladder from going on.
- *Delivery.* One message of each class and two connections: one that fails and
  one that replaces or overlaps it. One retry reaches both sides of the retry limit.
- *Control path.* Three profiles: the one at start-up, with a disabled phrase; one
  that gives a variant of it to another phrase; one that does not convert. Two commands and
  two events are the least that can share a `recv()` or overtake each other. One request.
- *Listening core.* `MaxGen` bounds the generations. Three are a wake, a racing
  reset and a following utterance; `wake_dead` needs the fourth. A reset does not
  begin when the bound leaves no room for it (`Room`). `MaxRetries` is 2 instead of
  8: enough to count, escalate, and clear.
- *Audio.* 2 frames of speech and of silence, pre-roll 3, pad 1, limits 4 and 5, documented
  limit 6 keep the order of the settings 3, 8, 5, 2, 18, 25 and 30; ten chunks hold two utterances with a limit
  reached between them.
- *Recovery and telemetry* share no state and stand side by side in `MCHardening`.
- *Recovery.* Three threads, so that two can overshoot while the third reports success; one
  subsystem with a handler and one without; limits of 2; six calls.
- *Telemetry.* Two threads, a queue of two, four events each: both can find the
  queue full at once.

### Deadlock

`CHECK_DEADLOCK FALSE` stands wherever the system really may stop: an application that has made
all its calls, processes that have ended, a supervisor that has stopped with its workers, a
server whose connections are used up, and where the bound on chunks, calls, commands or events is
used up. The listening core never stops and is checked for deadlock.

### Fairness

Only what the runtime guarantees is fair. SDK: continuations of awaits that settle, the close
event of a supervisor that has exited, reconnect and readiness timers, a dial that opens or fails,
the steps of a stop. Nothing is assumed of a supervisor that is booting: it may listen, exit, fail to spawn
or do nothing for ever. Bootstrap and models: a process in the phase goes on, and the clock of one
that waits for the lock does; a process that hangs in a subprocess takes no further step.
Supervisor: the monitor thread, the ageing of a
heartbeat, a process that connects, dies of a signal, or notices a failing send.
Delivery: scheduled tasks, the retry timer, a suspended send (it ends when the
buffer drains or the connection fails), and delivery on an open connection. Control path:
request timers, the supervisor's and the worker's receiving threads, a load under way. Calls
of the application, crashes, hangs, lost connections, ageing lock files and the choice of
what is said have no fairness.

## 4. Proofs

Each `*Proofs` module proves its invariants for every value of the constants that
the component's `ASSUME`s allow: any number of calls, processes, messages,
connections, profiles, chunks or generations. The assumptions say that markers such as `None` are
not members of the sets they stand apart from and that bounds are natural numbers. Two go
further: `RecoveryConstants` wants finitely many threads, and at least one, to count them; `AudioConstants`
has the order of the settings, that the
pre-roll is long enough for the frames that decide on speech, that the pad ends before
the silence limit, and that the limits do not exceed `SILENCE_RESET_FRAMES`.

- **SdkLifecycleProofs.** `IndInv` adds to the three safety invariants that a call
  which has not yet spawned has no process (`StartOrder`) and that a transport
  waiting to dial has budget left (`ReconnectBudget`). Without the first, a spawn
  could reuse a process already told to exit; without the second the count of
  attempts leaves its type. Where an uncaught exception can come from needs three more facts:
  a socket that is alive belongs to the current transport or to one that a later `start()`
  replaced (`LeftoversKnown`); a machine that has ended has no transport (`EndedHasNone`);
  and, for a caller that awaits its calls, a `start()` whose timers run has one
  (`TimersHaveTransport`). Then the close of a current transport only asks for transitions
  the machine allows, and the spawn and the replaced transports are all that is left.
  `OutageKnown` says what the current transport would restore: the state the outage
  interrupted, or RECOVERING, which the handler takes for READY. Results, for every caller
  and any number of calls: `TypeCorrect`,
  `TransportSafety`, `SupervisorSafety`, `ActiveIsConnected`, `ReconnectionKeepsPause`,
  `UncaughtExceptions`.
- **StartupProofs.** Bootstrap: `Owned`: until a lock file has aged, whoever is in the locked section
  owns the file, and nobody is about to unlink one. `Adoption`: before any trouble, while somebody has adopted
  the cached runtime it passes its verification, its state is not `failed`, and nobody is in an
  installation; the state is what keeps a later process from rolling the runtime back. The
  trouble that ends it is an aged lock or a good runtime that is taken for broken while in
  use, which a verification may do at any time. Results: `LockExcludes`, `AdoptedRuntimeStays`. Models, for any number of processes and
  models: `SumsTrue` extends the truth of the checksums to what a client has hashed and not
  written, and to what is written and not filled; an entry outlives its file, so it is true of
  every version but the present one vacuously, and a download never takes a version that is
  still mentioned. `VerdictsHold` says that a verdict, once reached, stays right: files
  are replaced only by a rename, and only good content is renamed. `PhaseOrder` ties the
  tasks of a client to its phase, so that "done" means that every model has a verdict.
  Results: `TrustedChecksumsAreTrue`, `ModelsStayIntact`.
- **WorkerSupervisorProofs.** `OneWorker` needs that the worker whose exit started a
  backoff is gone (`BackoffWorkerGone`). `ThrottleNeedsHangs` needs that without
  hangs the window holds no more restarts than failures were counted
  (`WindowWithinFailures`), that the step being waited for is the one of the failure count
  (`StepIsFailures`), and that the third step resets that count (`ResetByThirdStep`), also
  where a `Popen` raises on the way. Results, for any restart limits: `TypeCorrect`,
  `SingleWorker`, `CrashesAreRestarted`.
- **WsDeliveryProofs.** The three properties are mutually inductive together with
  `Bookkeeping` (what is held was accepted; what is acknowledged was received).
  Results: `OnlyClearLoses`, `QueuesDisjoint`, `NoStranding`.
- **ControlPathProofs.** `Registered` ties registry and index to the profile installed at every
  step of a load; `Matching` says that what a match has read belongs to a profile of
  `during`; `DownOrder` and `UpOrder` that the messages on a stream are numbered upwards and
  newer than the last one handled, which gives the refinement of `LossyFifo`. `UnderWay` follows
  the last `loadProfile()` along its way: as long as it is not lost it is the last profile on the
  WebSocket, or the last on the IPC stream, or the one being loaded, or the one installed.
  Results: `ProfileIsWhole`, `MatchIsFromProfileInForce`, `ProfileIsLostOnlyBy`,
  `ChannelIsOrdered`.
- **WakeEngineProofs.** `OneWakePerStream` is far from inductive: evidence for a
  wake sits in the peak, the local result, the window and the smoothed
  confidence, and a wake has to remove all of it although the other thread may be
  anywhere in a reset. `IndInv` adds that evidence comes from streams that exist
  (`EvidenceExists`), that no evidence remains of an answered stream
  (`AnsweredIsGone`), that the generation count and the stream number differ by the
  resets under way (`Counts`), and that the last trigger lies in the past
  (`TriggerInThePast`). Every thread step is a lemma, split by the phase of the reset. Results: `TypeCorrect`,
  `AtMostOneWake`, `GateLetsNewUtterancesPass` and `ImplementsWakeGate`, the
  refinement of `WakeGate`: initial states map to initial states, the write of a
  new stream is `NewUtterance`, a fired wake is `Wake`, and the rest are
  `CooldownOver` or stutters. For the state machines `Unfinished` says that one which is not
  ACTIVE has a resetting thread that has not passed the move that takes it on (`DueBy`),
  unless a transition was raised and no reset has succeeded since (`Excused`); a recovery
  counts its failure first (`CountedReset`) and starts at the first move, so it covers
  whatever was left behind. Result: `MachinesActiveAfterReset`.
- **AudioChunksProofs.** `Silence` relates the silence count to the pad and to the limit at each
  control point; `Held` says that before an onset the end of the pre-roll is exactly the run
  of chunks taken for speech, and after it nothing is missing from the stream unless a reset
  from outside has replaced it under the speech (`torn`); `Once` that what the
  pre-roll holds has not been fed as speech. Results: `UtteranceIsWhole`, `SpeechIsFedOnce`,
  `LimitIsMet`.
- **HardeningProofs.** Telemetry: `Ordered`, the queue holds each thread's events in order,
  newer than what is logged and older than the event in hand. Result: `TelemetryIsOrdered`.
  Recovery: a counter alone is not inductive, since threads between the question to the
  policy and the recorded failure will still raise it. `RetryBudget` adds them to the retries
  (`Recording`), `GrantBudget` adds to the restarts the counted failures that may still be
  granted one (`Pending`); both are statements about cardinalities of sets of threads. Results:
  `RetriesOvershootIsBounded`, `RestartsAreBounded`.

Every invariant, every action property and every refinement of the passing runs is a theorem. Only model-checked
are the liveness properties (`RecoveryEnds`, `StartSettles`, `BootstrapEnds`, `PhaseEnds`,
`CrashRecovered`, `HangEnds`, `NoZombieWorker`, `PendingSettles`, `RequestSettles`,
`StreamDrained`), since the prover handles neither fairness nor `ENABLED`.

## 5. Not modelled

- Scores of the matcher and the VAD: floating-point arithmetic of libraries and a
  neural network. Their results are choices.
- The candidate telemetry of `_on_hypothesis`, logging, debugging, benchmarks, release
  tooling, and the re-exporting packages: no state the behaviour depends on.
- `_check_vad` of the watchdog: its two conditions exclude each other, so it
  never recovers anything.
- Code without a caller: adding, enabling, disabling and updating single phrases in the
  registry, `update_config` of the engine, `verify_models` and `remove_corrupted` of the
  model manager (tests only). `RuntimeStateMachine` and `runtime_state.json` are only logged.
- An IPC message split over two `recv()` calls: the messages are far smaller than a segment.
- Inheritance and migration of profiles (string and file handling; their
  outcome is modelled), batching of best-effort events and the SDK's own offline queue (neither
  promises delivery), opening the microphone and loading the recogniser (library calls).

## 6. Plan

1. `WsDelivery` extended by batching and by the SDK's offline queue, and an
   abstract delivery specification it implements.
2. `ProfileLoader`: layers, migration and the validator's verdict against the
   loader's.
3. `Bootstrap` and `ModelCache` composed, with the Python that is resolved again at spawn.
