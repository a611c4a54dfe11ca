----------------------------- MODULE SdkLifecycle -----------------------------
(***************************************************************************)
(* The Node side of AVA-Listener: the SDK state machine                    *)
(* (node/state_machine.js), the start / stop / restart / destroy sequences *)
(* of node/lifecycle.js, the reconnecting WebSocket client                 *)
(* (node/transport.js) and the owner of the supervisor process             *)
(* (node/process_manager.js).                                              *)
(*                                                                         *)
(* Node is single threaded, so one action is one run of the event loop     *)
(* between two awaits: everything the code does there is in the action,    *)
(* and every await is a point where other calls, timers, socket events and *)
(* process events interleave.                                              *)
(*                                                                         *)
(* A start() call creates at most one supervisor process and at most one   *)
(* Transport object, so a call, its process and its transport share one    *)
(* name, a member of Starts.                                               *)
(***************************************************************************)
EXTENDS Naturals

CONSTANTS Starts,       \* start() calls; also their supervisors, transports
          Stops,        \* stop(), restart() and destroy() calls
          MaxAttempts,  \* RECONNECT_DELAYS.length
          SerialCaller, \* TRUE: the application awaits each call before it
                        \* makes the next, also after a call that rejected
          None

ASSUME ConstantsOK ==
    /\ None \notin Starts
    /\ MaxAttempts \in Nat \ {0}
    /\ SerialCaller \in BOOLEAN

VARIABLES
    fsm,         \* StateMachine.state
    startPc,     \* startPc[s]: the await at which call s of start() is
    startPaused, \* startPaused[s]: opts.startPaused, captured by s's closures
    listenOn,    \* listenOn[s]: the transport that call s listens to
    sup,         \* sup[s]: the supervisor process spawned by s
    proc,        \* ProcessManager.proc
    asked,       \* supervisors processManager.stop() has told to exit
    transport,   \* Lifecycle.transport
    link,        \* link[s]: the socket of the transport created by s
    attempts,    \* attempts[s]: _reconnectAttempts
    prev,        \* prev[s]: _previousState
    stopPc,      \* stopPc[k]: the await at which call k of stop() is
    stopOn,      \* stopOn[k]: the process whose close event k waits for
    stopKind,    \* stopKind[k]: the API call that k is part of
    crashed      \* an exception nobody catches ended the Node process

startVars == <<startPc, startPaused, listenOn>>
procVars  == <<sup, proc, asked>>
linkVars  == <<transport, link, attempts, prev>>
stopVars  == <<stopPc, stopOn, stopKind>>
vars == <<fsm, startVars, procVars, linkVars, stopVars, crashed>>

------------------------------------------------------------------------------
(* node/state_machine.js *)

STATES == {"UNINITIALIZED", "STARTING", "INSTALLING", "CONNECTING", "READY",
           "RUNNING", "PAUSED", "RECOVERING", "FAILED", "STOPPING", "STOPPED",
           "DESTROYED"}

TRANSITIONS ==
    [UNINITIALIZED |-> {"STARTING"},
     STARTING      |-> {"INSTALLING", "FAILED"},
     INSTALLING    |-> {"CONNECTING", "FAILED"},
     CONNECTING    |-> {"READY", "FAILED"},
     READY         |-> {"RUNNING", "RECOVERING", "STOPPING", "FAILED"},
     RUNNING       |-> {"PAUSED", "RECOVERING", "STOPPING", "FAILED"},
     PAUSED        |-> {"RUNNING", "RECOVERING", "STOPPING", "FAILED"},
     RECOVERING    |-> {"READY", "RUNNING", "PAUSED", "FAILED", "STOPPING"},
     FAILED        |-> {"STARTING", "STOPPING", "DESTROYED"},
     STOPPING      |-> {"STOPPED"},
     STOPPED       |-> {"STARTING", "DESTROYED"},
     DESTROYED     |-> {}]

\* transition(to) returns from state f; otherwise it throws.
Allowed(f, to) == f = to \/ to \in TRANSITIONS[f]

ActiveStates == {"READY", "RUNNING", "PAUSED"}

------------------------------------------------------------------------------
StartPcs == {"idle", "validate", "install", "spawn", "connect", "handshake",
             "waitReady", "hung", "done"}
StopPcs  == {"idle", "waiting", "starting", "done"}
Settled  == {"idle", "hung", "done"}

TypeOK ==
    /\ fsm \in STATES
    /\ startPc \in [Starts -> StartPcs]
    /\ startPaused \in [Starts -> BOOLEAN]
    /\ listenOn \in [Starts -> Starts \cup {None}]
    /\ sup \in [Starts -> {"none", "booting", "listening", "exited", "reaped"}]
    /\ proc \in Starts \cup {None}
    /\ asked \subseteq Starts
    /\ transport \in Starts \cup {None}
    /\ link \in [Starts -> {"none", "dialing", "open", "backoff", "lost",
                            "closed"}]
    /\ attempts \in [Starts -> 0..MaxAttempts]
    /\ prev \in [Starts -> STATES \cup {None}]
    /\ stopPc \in [Stops -> StopPcs]
    /\ stopOn \in [Stops -> Starts \cup {None}]
    /\ stopKind \in [Stops -> {"none", "stop", "restart", "destroy"}]
    /\ crashed \in BOOLEAN

Init ==
    /\ fsm = "UNINITIALIZED"
    /\ startPc = [s \in Starts |-> "idle"]
    /\ startPaused = [s \in Starts |-> FALSE]
    /\ listenOn = [s \in Starts |-> None]
    /\ sup = [s \in Starts |-> "none"]
    /\ proc = None
    /\ asked = {}
    /\ transport = None
    /\ link = [s \in Starts |-> "none"]
    /\ attempts = [s \in Starts |-> 0]
    /\ prev = [s \in Starts |-> None]
    /\ stopPc = [k \in Stops |-> "idle"]
    /\ stopOn = [k \in Stops |-> None]
    /\ stopKind = [k \in Stops |-> "none"]
    /\ crashed = FALSE

Alive(s) == sup[s] \in {"booting", "listening"}

\* Messages of supervisor s can still arrive: its socket is open, and what was
\* in flight when it exited has been read by the time its close event is seen.
Speaks(s) == link[s] = "open" /\ sup[s] # "reaped"

\* No API call is in flight.
Idle == /\ \A s \in Starts : startPc[s] \in Settled
        /\ \A k \in Stops : stopPc[k] \in {"idle", "done"}

------------------------------------------------------------------------------
(* Lifecycle.start() *)

\* The catch block around start(), entered in state f.  It moves to FAILED when
\* that is legal; otherwise transition() throws out of the catch block itself.
\* The transport and the supervisor are left as they are.
AfterCatch(f) == IF Allowed(f, "FAILED") THEN "FAILED" ELSE f

Reject(s) ==
    /\ startPc' = [startPc EXCEPT ![s] = "done"]
    /\ fsm' = AfterCatch(fsm)

\* A listener or timer dereferences Lifecycle.transport, which may be null by
\* then.  In a timer the TypeError is uncaught.
TimerRejects(s) ==
    IF transport = None
    THEN /\ crashed' = TRUE
         /\ UNCHANGED <<fsm, startPc>>
    ELSE /\ Reject(s)
         /\ UNCHANGED crashed

\* From the call to the first await: bootstrap lock and runtime verification,
\* all synchronous.  Without a profile the next await is already in INSTALLING.
BeginStart(s) ==
    /\ startPc[s] = "idle"
    /\ Allowed(fsm, "STARTING")
    /\ \E paused \in BOOLEAN : startPaused' = [startPaused EXCEPT ![s] = paused]
    /\ \/ fsm' = "FAILED" /\ startPc' = [startPc EXCEPT ![s] = "done"]
          /\ UNCHANGED listenOn
       \/ fsm' = "STARTING" /\ startPc' = [startPc EXCEPT ![s] = "validate"]
          /\ listenOn' = [listenOn EXCEPT ![s] =
                IF transport # None /\ link[transport] = "open"
                THEN transport ELSE None]
       \/ fsm' = "INSTALLING" /\ startPc' = [startPc EXCEPT ![s] = "install"]
          /\ UNCHANGED listenOn

StartCall(s) ==
    /\ SerialCaller => Idle
    /\ BeginStart(s)
    /\ UNCHANGED <<procVars, linkVars, stopVars, crashed>>

\* validateProfile() resolves, whatever its verdict: the result is ignored.
ValidateDone(s) ==
    /\ startPc[s] = "validate"
    /\ IF listenOn[s] = None
       THEN TRUE ELSE Speaks(listenOn[s])
    /\ IF listenOn[s] # None /\ transport = None
       THEN startPc' = [startPc EXCEPT ![s] = "hung"] /\ UNCHANGED fsm
       ELSE IF Allowed(fsm, "INSTALLING")
       THEN fsm' = "INSTALLING" /\ startPc' = [startPc EXCEPT ![s] = "install"]
       ELSE Reject(s)
    /\ UNCHANGED <<startPaused, listenOn, procVars, linkVars, stopVars, crashed>>

\* validateProfile() rejects: the interpreter cannot be run, or no answer came
\* over the connection within 5 s.
ValidateFail(s) ==
    /\ startPc[s] = "validate"
    /\ IF listenOn[s] = None
       THEN Reject(s) /\ UNCHANGED crashed
       ELSE TimerRejects(s)
    /\ UNCHANGED <<startPaused, listenOn, procVars, linkVars, stopVars>>

InstallFail(s) ==
    /\ startPc[s] = "install"
    /\ Reject(s)
    /\ UNCHANGED <<startPaused, listenOn, procVars, linkVars, stopVars, crashed>>

\* Models are in place; spawnSupervisor() starts the process, or rejects when
\* one is still tracked.  The state machine is not consulted here.
InstallDone(s) ==
    /\ startPc[s] = "install"
    /\ IF proc # None
       THEN Reject(s) /\ UNCHANGED procVars
       ELSE /\ proc' = s
            /\ sup' = [sup EXCEPT ![s] = "booting"]
            /\ startPc' = [startPc EXCEPT ![s] = "spawn"]
            /\ UNCHANGED <<fsm, asked>>
    /\ UNCHANGED <<startPaused, listenOn, linkVars, stopVars, crashed>>

\* spawn() has no executable to run, or no handle left: the child's 'error' event
\* comes in the same turn of the event loop, and nobody listens to it.
SpawnFails(s) ==
    /\ startPc[s] = "install"
    /\ proc = None
    /\ crashed' = TRUE
    /\ UNCHANGED <<fsm, startVars, procVars, linkVars, stopVars>>

\* The supervisor prints its port: start() resumes and dials.
SupervisorListening(s) ==
    /\ sup[s] = "booting"
    /\ sup' = [sup EXCEPT ![s] = "listening"]
    /\ IF Allowed(fsm, "CONNECTING")
       THEN /\ fsm' = "CONNECTING"
            /\ transport' = s
            /\ link' = [link EXCEPT ![s] = "dialing"]
            /\ startPc' = [startPc EXCEPT ![s] = "connect"]
       ELSE /\ Reject(s)
            /\ UNCHANGED <<transport, link>>
    /\ UNCHANGED <<startPaused, listenOn, proc, asked, attempts, prev, stopVars,
                   crashed>>

HandshakeAck(s) ==
    /\ startPc[s] = "handshake"
    /\ Speaks(s)
    /\ IF transport = None
       THEN Reject(s) /\ UNCHANGED listenOn
       ELSE /\ startPc' = [startPc EXCEPT ![s] = "waitReady"]
            /\ listenOn' = [listenOn EXCEPT ![s] = transport]
            /\ UNCHANGED fsm
    /\ UNCHANGED <<startPaused, procVars, linkVars, stopVars, crashed>>

\* Rejected by the server, version mismatch, or 15 s without an answer.
HandshakeFail(s) ==
    /\ startPc[s] = "handshake"
    /\ Reject(s)
    /\ UNCHANGED <<startPaused, listenOn, procVars, linkVars, stopVars, crashed>>

\* status "ready" arrives on the transport call s listens to.
RuntimeReady(s) ==
    /\ startPc[s] = "waitReady"
    /\ Speaks(listenOn[s])
    /\ IF transport = None
       THEN startPc' = [startPc EXCEPT ![s] = "hung"] /\ UNCHANGED fsm
       ELSE IF Allowed(fsm, "READY")
       THEN /\ fsm' = IF startPaused[s] THEN "READY" ELSE "RUNNING"
            /\ startPc' = [startPc EXCEPT ![s] = "done"]
       ELSE Reject(s)
    /\ UNCHANGED <<startPaused, listenOn, procVars, linkVars, stopVars, crashed>>

\* Mutant: the wait for readiness has no timeout.
ReadyTimeoutMissing(s) == FALSE

\* 15 s without the ready status.
ReadyTimeout(s) ==
    /\ startPc[s] = "waitReady"
    /\ TimerRejects(s)
    /\ UNCHANGED <<startPaused, listenOn, procVars, linkVars, stopVars>>

------------------------------------------------------------------------------
(* The supervisor process, seen from ProcessManager *)

SupervisorExits(s) ==
    /\ Alive(s)
    /\ sup' = [sup EXCEPT ![s] = "exited"]
    /\ UNCHANGED <<fsm, startVars, proc, asked, linkVars, stopVars, crashed>>

\* Mutant: the close handler does not clear proc.
ProcAfterCloseKept == proc

\* The close handler clears proc, whichever process proc names by then.
ProcAfterClose == None

\* The close event.
SupervisorClosed(s) ==
    /\ sup[s] = "exited"
    /\ sup' = [sup EXCEPT ![s] = "reaped"]
    /\ proc' = ProcAfterClose
    /\ IF startPc[s] = "spawn" THEN Reject(s) ELSE UNCHANGED <<fsm, startPc>>
    /\ UNCHANGED <<startPaused, listenOn, asked, linkVars, stopVars, crashed>>

------------------------------------------------------------------------------
(* Transport: connect(), its socket handlers and _scheduleReconnect() *)

\* Mutant: one attempt too many.
ExhaustedLate(s) == attempts[s] > MaxAttempts

\* _scheduleReconnect() gives up.
Exhausted(s) == attempts[s] >= MaxAttempts

\* Mutant: only a running listener goes to RECOVERING.
OnRecoveringRunningOnly(f) == IF f = "RUNNING" THEN "RECOVERING" ELSE f

\* The 'recovering' handler in state f.
OnRecovering(f) == IF f \in ActiveStates THEN "RECOVERING" ELSE f

\* Mutant: a reconnect also resumes a paused listener.
OnReconnectedUnpause(s) ==
    IF prev[transport] \in {"RUNNING", "PAUSED"} /\ ~startPaused[s]
    THEN "RUNNING" ELSE "READY"

\* Mutant: only a running listener leaves RECOVERING.
OnReconnectedOnlyRunning(s) ==
    IF prev[transport] = "RUNNING" /\ ~startPaused[s] THEN "RUNNING" ELSE fsm

\* The 'reconnected' handler of transport s in state RECOVERING.  The state to
\* restore is read from the current transport.
OnReconnected(s) ==
    IF prev[transport] = "RUNNING" /\ ~startPaused[s] THEN "RUNNING" ELSE "READY"

\* The close event of s's socket on a transport that was not closed by us, with
\* the lifecycle handlers it calls.  starting: the same event-loop turn ends in
\* the catch block of start().
OnSocketClose(s, starting) ==
    IF Exhausted(s)
    THEN /\ link' = [link EXCEPT ![s] = "lost"]
         /\ IF Allowed(fsm, "FAILED")
            THEN fsm' = "FAILED" /\ UNCHANGED crashed
            ELSE crashed' = TRUE /\ UNCHANGED fsm
         /\ UNCHANGED <<transport, attempts, prev>>
    ELSE IF transport = None
    THEN /\ crashed' = TRUE
         /\ UNCHANGED <<fsm, linkVars>>
    ELSE /\ link' = [link EXCEPT ![s] = "backoff"]
         /\ prev' = [prev EXCEPT ![transport] = fsm]
         /\ fsm' = IF starting THEN AfterCatch(OnRecovering(fsm))
                   ELSE OnRecovering(fsm)
         /\ UNCHANGED <<transport, attempts, crashed>>

SocketLost(s) ==
    /\ link[s] = "open"
    /\ OnSocketClose(s, FALSE)
    /\ UNCHANGED <<startVars, procVars, stopVars>>

\* The backoff delay is over: _reconnectAttempts++ and connect() again.
ReconnectTimer(s) ==
    /\ link[s] = "backoff"
    /\ link' = [link EXCEPT ![s] = "dialing"]
    /\ attempts' = [attempts EXCEPT ![s] = @ + 1]
    /\ UNCHANGED <<fsm, startVars, procVars, transport, prev, stopVars, crashed>>

\* The socket opens.  First time: start() resumes and sends the handshake.
\* Later: the 'reconnected' handler, whose TypeError (transport null) is caught.
DialOpens(s) ==
    /\ link[s] = "dialing"
    /\ sup[s] = "listening"
    /\ link' = [link EXCEPT ![s] = "open"]
    /\ attempts' = [attempts EXCEPT ![s] = 0]
    /\ IF startPc[s] = "connect"
       THEN startPc' = [startPc EXCEPT ![s] = "handshake"] /\ UNCHANGED fsm
       ELSE /\ fsm' = IF transport = None \/ fsm # "RECOVERING"
                      THEN fsm ELSE OnReconnected(s)
            /\ UNCHANGED startPc
    /\ UNCHANGED <<startPaused, listenOn, procVars, transport, prev, stopVars,
                   crashed>>

\* The dial fails: error, then close.  On the first dial start() rejects too,
\* while the transport goes on reconnecting.
DialFails(s) ==
    /\ link[s] = "dialing"
    /\ OnSocketClose(s, startPc[s] = "connect")
    /\ startPc' = IF startPc[s] = "connect"
                  THEN [startPc EXCEPT ![s] = "done"] ELSE startPc
    /\ UNCHANGED <<startPaused, listenOn, procVars, stopVars>>

\* Transport.close() aborted the first dial of s: its error event rejects.
DialAborted(s) ==
    /\ link[s] = "closed"
    /\ startPc[s] = "connect"
    /\ Reject(s)
    /\ UNCHANGED <<startPaused, listenOn, procVars, linkVars, stopVars, crashed>>

------------------------------------------------------------------------------
(* pause(), resume(), stop(), restart(), destroy() *)

Pause ==
    /\ SerialCaller => Idle
    /\ fsm = "RUNNING"
    /\ fsm' = "PAUSED"
    /\ UNCHANGED <<startVars, procVars, linkVars, stopVars, crashed>>

Resume ==
    /\ SerialCaller => Idle
    /\ fsm \in {"READY", "PAUSED"}
    /\ fsm' = "RUNNING"
    /\ UNCHANGED <<startVars, procVars, linkVars, stopVars, crashed>>

\* Mutant: stop() drops the transport without closing it.
LinksAfterCloseForgotten == link

\* Transport.close() on the current transport: no handler acts any more.
LinksAfterClose ==
    [s \in Starts |-> IF s = transport THEN "closed" ELSE link[s]]

\* Mutant: stop() does not enter STOPPING.
BeginStopSilent(k) ==
    /\ fsm \notin {"STOPPED", "DESTROYED"}
    /\ Allowed(fsm, "STOPPING")
    /\ link' = LinksAfterClose
    /\ transport' = None
    /\ proc' = None
    /\ asked' = IF proc = None THEN asked ELSE asked \cup {proc}
    /\ stopPc' = [stopPc EXCEPT ![k] = "waiting"]
    /\ stopOn' = [stopOn EXCEPT ![k] = proc]
    /\ UNCHANGED <<fsm, startVars, sup, attempts, prev, crashed>>

\* stop() up to its await: STOPPING, Transport.close(), and
\* ProcessManager.stop(), which forgets the process and waits for its close.
BeginStop(k) ==
    /\ fsm \notin {"STOPPED", "DESTROYED"}
    /\ Allowed(fsm, "STOPPING")
    /\ fsm' = "STOPPING"
    /\ link' = LinksAfterClose
    /\ transport' = None
    /\ proc' = None
    /\ asked' = IF proc = None THEN asked ELSE asked \cup {proc}
    /\ stopPc' = [stopPc EXCEPT ![k] = "waiting"]
    /\ stopOn' = [stopOn EXCEPT ![k] = proc]
    /\ UNCHANGED <<startVars, sup, attempts, prev, crashed>>

StopCall(k) ==
    /\ SerialCaller => Idle
    /\ stopPc[k] = "idle"
    /\ stopKind' = [stopKind EXCEPT ![k] = "stop"]
    /\ BeginStop(k)

\* restart(): a stop() that returns at once leaves only the start() to do.
RestartCall(k) ==
    /\ SerialCaller => Idle
    /\ stopPc[k] = "idle"
    /\ fsm # "DESTROYED"
    /\ stopKind' = [stopKind EXCEPT ![k] = "restart"]
    /\ \/ BeginStop(k)
       \/ /\ fsm = "STOPPED"
          /\ stopPc' = [stopPc EXCEPT ![k] = "starting"]
          /\ UNCHANGED <<fsm, startVars, procVars, linkVars, stopOn, crashed>>

\* stop() resumes: STOPPED when legal; otherwise transition() throws and a
\* restart() gives up.
FinishStop(k) ==
    /\ fsm' = IF Allowed(fsm, "STOPPED") THEN "STOPPED" ELSE fsm
    /\ stopPc' = [stopPc EXCEPT ![k] =
            IF stopKind[k] = "restart" /\ Allowed(fsm, "STOPPED")
            THEN "starting" ELSE "done"]

StopResolved(k) ==
    /\ stopPc[k] = "waiting"
    /\ IF stopOn[k] = None THEN TRUE ELSE sup[stopOn[k]] = "reaped"
    /\ FinishStop(k)
    /\ UNCHANGED <<startVars, procVars, linkVars, stopOn, stopKind, crashed>>

\* The 3 s timer: SIGTERM, and stop() goes on without waiting for the exit.
StopTimeout(k) ==
    /\ stopPc[k] = "waiting"
    /\ stopOn[k] # None
    /\ sup[stopOn[k]] # "reaped"
    /\ FinishStop(k)
    /\ UNCHANGED <<startVars, procVars, linkVars, stopOn, stopKind, crashed>>

RestartStarts(k) ==
    /\ stopPc[k] = "starting"
    /\ stopPc' = [stopPc EXCEPT ![k] = "done"]
    /\ \/ \E s \in Starts : BeginStart(s)
       \/ ~Allowed(fsm, "STARTING") /\ UNCHANGED <<fsm, startVars>>
    /\ UNCHANGED <<procVars, linkVars, stopOn, stopKind, crashed>>

\* destroy(): stop() runs to its await, then DESTROYED is requested.  Out of
\* STOPPING that throws, so only an instance stop() returned from at once gets
\* there.
Destroy(k) ==
    /\ SerialCaller => Idle
    /\ stopPc[k] = "idle"
    /\ stopKind' = [stopKind EXCEPT ![k] = "destroy"]
    /\ \/ BeginStop(k)
       \/ /\ fsm \in {"STOPPED", "DESTROYED"}
          /\ fsm' = "DESTROYED"
          /\ stopPc' = [stopPc EXCEPT ![k] = "done"]
          /\ UNCHANGED <<startVars, procVars, linkVars, stopOn, crashed>>

------------------------------------------------------------------------------
StartStep(s) ==
    \/ ValidateDone(s) \/ ValidateFail(s)
    \/ InstallDone(s) \/ InstallFail(s) \/ SpawnFails(s)
    \/ HandshakeAck(s) \/ HandshakeFail(s)
    \/ RuntimeReady(s) \/ ReadyTimeout(s)
    \/ DialAborted(s)

ProcessStep(s) ==
    SupervisorListening(s) \/ SupervisorExits(s) \/ SupervisorClosed(s)

TransportStep(s) ==
    SocketLost(s) \/ ReconnectTimer(s) \/ DialOpens(s) \/ DialFails(s)

StopStep(k) == StopResolved(k) \/ StopTimeout(k) \/ RestartStarts(k)

ApiCall ==
    \/ \E s \in Starts : StartCall(s)
    \/ \E k \in Stops : StopCall(k) \/ RestartCall(k) \/ Destroy(k)
    \/ Pause \/ Resume

Next ==
    /\ ~crashed
    /\ \/ ApiCall
       \/ \E s \in Starts : StartStep(s) \/ ProcessStep(s) \/ TransportStep(s)
       \/ \E k \in Stops : StopStep(k)

\* Node runs every pending callback: awaited work settles or times out, timers
\* fire, a dial succeeds or fails and the close event of an exited process is
\* delivered.  Nothing is assumed of the application, nor that sockets drop or
\* supervisors exit, nor that a supervisor comes up: it may boot for ever.
Fairness ==
    /\ \A s \in Starts :
        /\ WF_vars(~crashed /\ StartStep(s))
        /\ WF_vars(~crashed /\ SupervisorClosed(s))
        /\ WF_vars(~crashed /\ ReconnectTimer(s))
        /\ WF_vars(~crashed /\ (DialOpens(s) \/ DialFails(s)))
    /\ \A k \in Stops : WF_vars(~crashed /\ StopStep(k))

Spec == Init /\ [][Next]_vars

FairSpec == Spec /\ Fairness

------------------------------------------------------------------------------
(* Properties *)

\* While the SDK is operational or recovering, Lifecycle.transport is not null,
\* whatever calls, timeouts and socket events interleave: the phrase and config
\* APIs dereference it right after _requireActive().
ActiveHasTransport ==
    fsm \in ActiveStates \cup {"RECOVERING"} => transport # None

\* The process ProcessManager tracks is one it has spawned, whose close event is
\* still to come, and that no stop() has told to exit: spawnSupervisor() never
\* refuses on account of a process that is gone, and stop() never waits on one.
TrackedSupervisorIsCurrent ==
    proc # None => /\ sup[proc] \in {"booting", "listening", "exited"}
                   /\ proc \notin asked

\* A call that has not spawned yet has no process, and only a spawned process is
\* ever told to exit: what makes TrackedSupervisorIsCurrent inductive.  A call that
\* waits for readiness has a transport to listen to.
StartOrder ==
    \A s \in Starts :
        /\ startPc[s] = "waitReady" => listenOn[s] # None
        /\ startPc[s] \in {"idle", "validate", "install"} => sup[s] = "none"
        /\ sup[s] = "none" => s \notin asked

\* A transport waiting to reconnect has attempts left, so that it never makes
\* more than MaxAttempts in a row: what makes TypeOK inductive.
ReconnectBudget ==
    \A s \in Starts : link[s] = "backoff" => attempts[s] < MaxAttempts

\* READY, RUNNING and PAUSED mean that there is a connection: that of the current
\* transport, or that of one a failed start() left behind, whose events drive the
\* same state machine (lifecycle.js:184-218).
ConnectedWhenActive ==
    fsm \in ActiveStates =>
        transport # None /\ \E s \in Starts : link[s] = "open"

\* The inductive invariant behind the safety theorems.
IndInv ==
    /\ TypeOK /\ ReconnectBudget /\ StartOrder
    /\ ActiveHasTransport /\ TrackedSupervisorIsCurrent /\ ConnectedWhenActive

\* Once stop() is over, every supervisor process still alive has been told to
\* exit.
StopLeavesNoSupervisor ==
    fsm = "STOPPED" /\ Idle => \A s \in Starts : Alive(s) => s \in asked

\* An outage ends: the reconnect attempts succeed or their budget runs out.
RecoveryEnds == fsm = "RECOVERING" ~> (fsm # "RECOVERING" \/ crashed)

\* Every start() settles: no await in it is left without a way to end, but the one
\* for the port of a supervisor that neither prints it nor exits, which has no
\* timeout (process_manager.js:14-78).
StartSettles ==
    \A s \in Starts :
        startPc[s] # "idle" ~> (\/ startPc[s] = "done"
                                \/ startPc[s] = "spawn" /\ sup[s] = "booting"
                                \/ crashed)
===============================================================================
