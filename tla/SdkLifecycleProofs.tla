-------------------------- MODULE SdkLifecycleProofs --------------------------
(***************************************************************************)
(* Safety of the SDK lifecycle for any number of start() and stop() calls  *)
(* and any reconnect budget.                                               *)
(*                                                                         *)
(* For any caller: type correctness, the safety invariants that the run    *)
(* sdk_concurrent checks on two calls, that a reconnection never resumes a *)
(* paused listener, and where an uncaught exception can come from.         *)
(*                                                                         *)
(* The last one rests on two facts about the sockets that are alive: each  *)
(* is the current transport's or one a later start() replaced, and there   *)
(* is no current transport while the machine is in a state that does not   *)
(* allow FAILED.  For a caller that awaits each call it also needs that    *)
(* no stop() takes the transport away under a start().                     *)
(***************************************************************************)
EXTENDS MCSdkLifecycle, TLAPS

\* A socket close event keeps the transport records and the state well typed.
LEMMA SocketCloseTyped ==
    ASSUME TypeOK, ReconnectBudget, NEW s \in Starts, NEW starting \in BOOLEAN,
           OnSocketClose(s, starting)
    PROVE  /\ fsm' \in STATES
           /\ crashed' \in BOOLEAN
           /\ transport' = transport
           /\ link' \in [Starts -> {"none", "dialing", "open", "backoff", "lost",
                                    "closed"}]
           /\ attempts' = attempts
           /\ prev' \in [Starts -> STATES \cup {None}]
           /\ ReconnectBudget'
<1> USE ConstantsOK DEF TypeOK, OnSocketClose, linkVars
<1>1. CASE Exhausted(s)
  BY <1>1 DEF STATES, ReconnectBudget
<1>2. CASE ~Exhausted(s) /\ transport = None
  BY <1>2 DEF ReconnectBudget
<1>3. CASE ~Exhausted(s) /\ transport # None
  <2>1. attempts[s] < MaxAttempts
    BY <1>3 DEF Exhausted
  <2>2. /\ link' = [link EXCEPT ![s] = "backoff"]
        /\ prev' = [prev EXCEPT ![transport] = fsm]
        /\ UNCHANGED <<transport, attempts, crashed>>
    BY <1>3
  <2>3. fsm' \in STATES
    BY <1>3 DEF AfterCatch, OnRecovering, STATES
  <2> QED
    BY <1>3, <2>1, <2>2, <2>3 DEF ReconnectBudget
<1> QED
  BY <1>1, <1>2, <1>3

\* Types, with the bound on reconnect attempts they need, are preserved by every
\* step.
LEMMA TypeStep ==
    ASSUME TypeOK, ReconnectBudget, [Next]_vars
    PROVE  TypeOK' /\ ReconnectBudget'
<1> DEFINE Typed == TypeOK /\ ReconnectBudget
<1> USE ConstantsOK DEF TypeOK, ReconnectBudget, STATES, StartPcs, StopPcs,
        vars, startVars, procVars, linkVars, stopVars
<1>1. CASE UNCHANGED vars
  BY <1>1
<1>2. ASSUME NEW s \in Starts, StartCall(s) PROVE Typed'
  BY <1>2 DEF StartCall, BeginStart
<1>3. ASSUME NEW s \in Starts, ValidateDone(s) PROVE Typed'
  BY <1>3 DEF ValidateDone, Reject, AfterCatch
<1>4. ASSUME NEW s \in Starts, ValidateFail(s) PROVE Typed'
  BY <1>4 DEF ValidateFail, Reject, TimerRejects, AfterCatch
<1>5. ASSUME NEW s \in Starts, InstallDone(s) PROVE Typed'
  BY <1>5 DEF InstallDone, Reject, AfterCatch
<1>6. ASSUME NEW s \in Starts, InstallFail(s) PROVE Typed'
  BY <1>6 DEF InstallFail, Reject, AfterCatch
<1>27. ASSUME NEW s \in Starts, SpawnFails(s) PROVE Typed'
  BY <1>27 DEF SpawnFails
<1>7. ASSUME NEW s \in Starts, HandshakeAck(s) PROVE Typed'
  BY <1>7 DEF HandshakeAck, Reject, AfterCatch
<1>8. ASSUME NEW s \in Starts, HandshakeFail(s) PROVE Typed'
  BY <1>8 DEF HandshakeFail, Reject, AfterCatch
<1>9. ASSUME NEW s \in Starts, RuntimeReady(s) PROVE Typed'
  BY <1>9 DEF RuntimeReady, Reject, AfterCatch
<1>10. ASSUME NEW s \in Starts, ReadyTimeout(s) PROVE Typed'
  BY <1>10 DEF ReadyTimeout, Reject, TimerRejects, AfterCatch
<1>11. ASSUME NEW s \in Starts, DialAborted(s) PROVE Typed'
  BY <1>11 DEF DialAborted, Reject, AfterCatch
<1>12. ASSUME NEW s \in Starts, SupervisorListening(s) PROVE Typed'
  BY <1>12 DEF SupervisorListening, Reject, AfterCatch
<1>13. ASSUME NEW s \in Starts, SupervisorExits(s) PROVE Typed'
  BY <1>13 DEF SupervisorExits, Alive
<1>14. ASSUME NEW s \in Starts, SupervisorClosed(s) PROVE Typed'
  BY <1>14 DEF SupervisorClosed, Reject, AfterCatch, ProcAfterClose
<1>15. ASSUME NEW s \in Starts, SocketLost(s) PROVE Typed'
  BY <1>15, SocketCloseTyped DEF SocketLost
<1>16. ASSUME NEW s \in Starts, ReconnectTimer(s) PROVE Typed'
  BY <1>16 DEF ReconnectTimer
<1>17. ASSUME NEW s \in Starts, DialOpens(s) PROVE Typed'
  BY <1>17 DEF DialOpens, OnReconnected
<1>18. ASSUME NEW s \in Starts, DialFails(s) PROVE Typed'
  BY <1>18, SocketCloseTyped DEF DialFails
<1>19. ASSUME NEW k \in Stops, StopCall(k) PROVE Typed'
  BY <1>19 DEF StopCall, BeginStop, LinksAfterClose
<1>20. ASSUME NEW k \in Stops, RestartCall(k) PROVE Typed'
  BY <1>20 DEF RestartCall, BeginStop, LinksAfterClose
<1>21. ASSUME NEW k \in Stops, Destroy(k) PROVE Typed'
  BY <1>21 DEF Destroy, BeginStop, LinksAfterClose
<1>22. ASSUME NEW k \in Stops, StopResolved(k) PROVE Typed'
  BY <1>22 DEF StopResolved, FinishStop
<1>23. ASSUME NEW k \in Stops, StopTimeout(k) PROVE Typed'
  BY <1>23 DEF StopTimeout, FinishStop
<1>24. ASSUME NEW k \in Stops, RestartStarts(k) PROVE Typed'
  BY <1>24 DEF RestartStarts, BeginStart
<1>25. ASSUME Pause PROVE Typed'
  BY <1>25 DEF Pause
<1>26. ASSUME Resume PROVE Typed'
  BY <1>26 DEF Resume
<1> QED
  BY <1>1, <1>2, <1>3, <1>4, <1>5, <1>6, <1>7, <1>8, <1>9, <1>10,
     <1>11, <1>12, <1>13, <1>14, <1>15, <1>16, <1>17, <1>18, <1>19, <1>20,
     <1>21, <1>22, <1>23, <1>24, <1>25, <1>26, <1>27
     DEF Next, ApiCall, StartStep, ProcessStep, TransportStep, StopStep

\* The safety part of the inductive invariant is preserved by every step.
LEMMA SafetyStep ==
    ASSUME IndInv, [Next]_vars
    PROVE  /\ StartOrder' /\ ActiveHasTransport' /\ TrackedSupervisorIsCurrent'
           /\ ConnectedWhenActive'
<1> DEFINE Safe == /\ StartOrder /\ ActiveHasTransport /\ TrackedSupervisorIsCurrent
                   /\ ConnectedWhenActive
<1> USE ConstantsOK DEF IndInv, TypeOK, StartOrder, ActiveHasTransport,
        TrackedSupervisorIsCurrent, ConnectedWhenActive, ActiveStates,
        vars, startVars, procVars, linkVars, stopVars
<1>1. CASE UNCHANGED vars
  BY <1>1
<1>2. ASSUME NEW s \in Starts, StartCall(s) PROVE Safe'
  BY <1>2 DEF StartCall, BeginStart
<1>3. ASSUME NEW s \in Starts, ValidateDone(s) PROVE Safe'
  BY <1>3 DEF ValidateDone, Reject, AfterCatch
<1>4. ASSUME NEW s \in Starts, ValidateFail(s) PROVE Safe'
  BY <1>4 DEF ValidateFail, Reject, TimerRejects, AfterCatch
<1>5. ASSUME NEW s \in Starts, InstallDone(s) PROVE Safe'
  BY <1>5 DEF InstallDone, Reject, AfterCatch
<1>6. ASSUME NEW s \in Starts, InstallFail(s) PROVE Safe'
  BY <1>6 DEF InstallFail, Reject, AfterCatch
<1>27. ASSUME NEW s \in Starts, SpawnFails(s) PROVE Safe'
  BY <1>27 DEF SpawnFails
<1>7. ASSUME NEW s \in Starts, HandshakeAck(s) PROVE Safe'
  BY <1>7 DEF HandshakeAck, Reject, AfterCatch
<1>8. ASSUME NEW s \in Starts, HandshakeFail(s) PROVE Safe'
  BY <1>8 DEF HandshakeFail, Reject, AfterCatch
<1>9. ASSUME NEW s \in Starts, RuntimeReady(s) PROVE Safe'
  BY <1>9 DEF RuntimeReady, Speaks, Reject, AfterCatch
<1>10. ASSUME NEW s \in Starts, ReadyTimeout(s) PROVE Safe'
  BY <1>10 DEF ReadyTimeout, Reject, TimerRejects, AfterCatch
<1>11. ASSUME NEW s \in Starts, DialAborted(s) PROVE Safe'
  BY <1>11 DEF DialAborted, Reject, AfterCatch
<1>12. ASSUME NEW s \in Starts, SupervisorListening(s) PROVE Safe'
  BY <1>12 DEF SupervisorListening, Reject, AfterCatch
<1>13. ASSUME NEW s \in Starts, SupervisorExits(s) PROVE Safe'
  BY <1>13 DEF SupervisorExits, Alive
<1>14. ASSUME NEW s \in Starts, SupervisorClosed(s) PROVE Safe'
  BY <1>14 DEF SupervisorClosed, Reject, AfterCatch, ProcAfterClose
<1>15. ASSUME NEW s \in Starts, SocketLost(s) PROVE Safe'
  <2>1. /\ transport' = transport /\ UNCHANGED <<startPc, listenOn, sup, proc, asked>>
        /\ fsm' = fsm \/ fsm' \in {"FAILED", "RECOVERING"}
    BY <1>15 DEF SocketLost, OnSocketClose, OnRecovering
  <2>2. fsm' = "RECOVERING" => fsm \in ActiveStates \cup {"RECOVERING"}
    BY <1>15 DEF SocketLost, OnSocketClose, OnRecovering
  <2>3. fsm \notin ActiveStates => ConnectedWhenActive'
    BY <2>1
  <2>4. fsm \in ActiveStates => fsm' \notin ActiveStates
    <3>1. \A f \in ActiveStates : Allowed(f, "FAILED")
      BY DEF Allowed, TRANSITIONS
    <3> QED
      BY <1>15, <3>1 DEF SocketLost, OnSocketClose, OnRecovering
  <2> QED
    BY <2>1, <2>2, <2>3, <2>4
<1>16. ASSUME NEW s \in Starts, ReconnectTimer(s) PROVE Safe'
  BY <1>16 DEF ReconnectTimer
<1>17. ASSUME NEW s \in Starts, DialOpens(s) PROVE Safe'
  BY <1>17 DEF DialOpens, OnReconnected
<1>18. ASSUME NEW s \in Starts, DialFails(s) PROVE Safe'
  BY <1>18 DEF DialFails, OnSocketClose, OnRecovering, AfterCatch, Exhausted
<1>19. ASSUME NEW k \in Stops, StopCall(k) PROVE Safe'
  BY <1>19 DEF StopCall, BeginStop, LinksAfterClose
<1>20. ASSUME NEW k \in Stops, RestartCall(k) PROVE Safe'
  BY <1>20 DEF RestartCall, BeginStop, LinksAfterClose
<1>21. ASSUME NEW k \in Stops, Destroy(k) PROVE Safe'
  BY <1>21 DEF Destroy, BeginStop, LinksAfterClose
<1>22. ASSUME NEW k \in Stops, StopResolved(k) PROVE Safe'
  BY <1>22 DEF StopResolved, FinishStop
<1>23. ASSUME NEW k \in Stops, StopTimeout(k) PROVE Safe'
  BY <1>23 DEF StopTimeout, FinishStop
<1>24. ASSUME NEW k \in Stops, RestartStarts(k) PROVE Safe'
  BY <1>24 DEF RestartStarts, BeginStart
<1>25. ASSUME Pause PROVE Safe'
  BY <1>25 DEF Pause
<1>26. ASSUME Resume PROVE Safe'
  BY <1>26 DEF Resume
<1> QED
  BY <1>1, <1>2, <1>3, <1>4, <1>5, <1>6, <1>7, <1>8, <1>9, <1>10,
     <1>11, <1>12, <1>13, <1>14, <1>15, <1>16, <1>17, <1>18, <1>19, <1>20,
     <1>21, <1>22, <1>23, <1>24, <1>25, <1>26, <1>27
     DEF Next, ApiCall, StartStep, ProcessStep, TransportStep, StopStep

\* The initial state satisfies the inductive invariant.
LEMMA InitInd == Init => IndInv
<1> SUFFICES ASSUME Init PROVE IndInv
  OBVIOUS
<1> USE ConstantsOK DEF Init
<1>1. /\ fsm \in STATES
      /\ startPc \in [Starts -> StartPcs]
      /\ stopPc \in [Stops -> StopPcs]
  BY DEF STATES, StartPcs, StopPcs
<1>2. attempts \in [Starts -> 0..MaxAttempts]
  BY SMT
<1>5. startPaused \in [Starts -> BOOLEAN] /\ crashed \in BOOLEAN
  BY Zenon
<1>6. TypeOK
  BY <1>1, <1>2, <1>5 DEF TypeOK
<1>3. ReconnectBudget /\ StartOrder
  BY DEF ReconnectBudget, StartOrder
<1>4. ActiveHasTransport /\ TrackedSupervisorIsCurrent
  BY DEF ActiveHasTransport, TrackedSupervisorIsCurrent, ActiveStates
<1>7. ConnectedWhenActive
  BY DEF ConnectedWhenActive, ActiveStates
<1> QED
  BY <1>3, <1>4, <1>6, <1>7 DEF IndInv

\* The inductive invariant holds throughout.
THEOREM Invariance == Spec => []IndInv
<1>1. IndInv /\ [Next]_vars => IndInv'
  BY TypeStep, SafetyStep DEF IndInv
<1> QED
  BY InitInd, <1>1, PTL DEF Spec

\* Type correctness of the SDK lifecycle; in particular no transport of
\* node/transport.js ever makes more than MaxAttempts reconnect attempts in a row.
THEOREM TypeCorrect == Spec => []TypeOK
<1>1. IndInv => TypeOK
  BY DEF IndInv
<1> QED
  BY Invariance, <1>1, PTL

\* An operational or recovering SDK has a transport, for every interleaving of
\* start(), stop(), restart(), destroy() and the events of node/lifecycle.js.
THEOREM TransportSafety == Spec => []ActiveHasTransport
<1>1. IndInv => ActiveHasTransport
  BY DEF IndInv
<1> QED
  BY Invariance, <1>1, PTL

\* ProcessManager.proc never names a process that is gone or that stop() has
\* already told to exit.
THEOREM SupervisorSafety == Spec => []TrackedSupervisorIsCurrent
<1>1. IndInv => TrackedSupervisorIsCurrent
  BY DEF IndInv
<1> QED
  BY Invariance, <1>1, PTL

\* READY, RUNNING and PAUSED mean that a transport of this SDK is connected, its
\* own or that of a start() that failed earlier (lifecycle.js:184-276).
THEOREM ActiveIsConnected == Spec => []ConnectedWhenActive
<1>1. IndInv => ConnectedWhenActive
  BY DEF IndInv
<1> QED
  BY Invariance, <1>1, PTL

------------------------------------------------------------------------------
(* Reconnections, for any caller *)

\* What the current transport restores is the state the outage interrupted, or
\* RECOVERING, which the handler takes for READY.
OutageKnown == fsm = "RECOVERING" => prev[transport] \in {outage, "RECOVERING"}

\* A close event that starts an outage notes the state it interrupts.
LEMMA CloseNotesState ==
    ASSUME IndInv, OutageKnown, NEW s \in Starts, NEW starting \in BOOLEAN,
           OnSocketClose(s, starting),
           outage' = IF fsm # "RECOVERING" /\ fsm' = "RECOVERING" THEN fsm ELSE outage
    PROVE  OutageKnown'
<1> USE ConstantsOK DEF IndInv, TypeOK, OutageKnown, linkVars
<1>1. CASE Exhausted(s)
  BY <1>1 DEF OnSocketClose
<1>2. CASE ~Exhausted(s) /\ transport = None
  BY <1>2 DEF OnSocketClose
<1>3. CASE ~Exhausted(s) /\ transport # None
  <2>1. transport \in Starts /\ transport' = transport /\ prev' = [prev EXCEPT ![transport] = fsm]
    BY <1>3 DEF OnSocketClose
  <2> QED
    BY <2>1
<1> QED
  BY <1>1, <1>2, <1>3

LEMMA OutageStep ==
    ASSUME IndInv, OutageKnown, [MCNext]_mcVars
    PROVE  /\ OutageKnown'
           /\ (\E s \in Starts : link[s] = "dialing" /\ link'[s] = "open")
                /\ fsm = "RECOVERING" /\ fsm' = "RUNNING"
              => outage = "RUNNING"
<1> DEFINE Good ==
        /\ OutageKnown'
        /\ (\E s \in Starts : link[s] = "dialing" /\ link'[s] = "open")
             /\ fsm = "RECOVERING" /\ fsm' = "RUNNING"
           => outage = "RUNNING"
<1>1. CASE UNCHANGED mcVars
  BY <1>1 DEF mcVars, vars, linkVars, OutageKnown
<1>a. ASSUME outage' = IF fsm # "RECOVERING" /\ fsm' = "RECOVERING" THEN fsm ELSE outage,
             UNCHANGED <<transport, prev, link>>, fsm' = "RECOVERING" => fsm = "RECOVERING"
      PROVE  Good
  BY <1>a DEF OutageKnown
<1>b. ASSUME outage' = IF fsm # "RECOVERING" /\ fsm' = "RECOVERING" THEN fsm ELSE outage,
             fsm' \notin {"RECOVERING", "RUNNING"}
      PROVE  Good
  BY <1>b DEF OutageKnown
<1>2. CASE MCNext
  <2>0. outage' = IF fsm # "RECOVERING" /\ fsm' = "RECOVERING" THEN fsm ELSE outage
    BY <1>2 DEF MCNext
  <2> USE ConstantsOK DEF startVars, procVars, linkVars, stopVars, AfterCatch
  <2>1. ASSUME NEW s \in Starts,
               \/ ValidateDone(s) \/ ValidateFail(s) \/ InstallDone(s) \/ InstallFail(s)
               \/ SpawnFails(s)
               \/ HandshakeAck(s) \/ HandshakeFail(s) \/ RuntimeReady(s) \/ ReadyTimeout(s)
               \/ DialAborted(s)
        PROVE  Good
    <3>1. UNCHANGED <<transport, prev, link>> /\ (fsm' = "RECOVERING" => fsm = "RECOVERING")
      BY <2>1 DEF ValidateDone, ValidateFail, InstallDone, InstallFail, SpawnFails, HandshakeAck,
         HandshakeFail, RuntimeReady, ReadyTimeout, DialAborted, Reject, TimerRejects
    <3> QED
      BY <1>a, <2>0, <3>1
  <2>2. ASSUME NEW s \in Starts,
               StartCall(s) \/ SupervisorExits(s) \/ SupervisorClosed(s)
        PROVE  Good
    <3>1. UNCHANGED <<transport, prev, link>> /\ (fsm' = "RECOVERING" => fsm = "RECOVERING")
      BY <2>2 DEF StartCall, BeginStart, SupervisorExits, SupervisorClosed, Reject
    <3> QED
      BY <1>a, <2>0, <3>1
  <2>3. ASSUME NEW s \in Starts, SupervisorListening(s) PROVE Good
    BY <2>3, <1>a, <1>b, <2>0 DEF SupervisorListening, Reject
  <2>4. ASSUME NEW s \in Starts, SocketLost(s) PROVE Good
    <3>1. OnSocketClose(s, FALSE)
      BY <2>4 DEF SocketLost
    <3>2. OutageKnown'
      BY <2>0, <3>1, CloseNotesState
    <3>3. fsm' = fsm \/ fsm' \in {"FAILED", "RECOVERING"}
      BY <3>1 DEF OnSocketClose, OnRecovering
    <3> QED
      BY <3>2, <3>3
  <2>5. ASSUME NEW s \in Starts, DialFails(s) PROVE Good
    <3>1. OnSocketClose(s, startPc[s] = "connect") /\ (startPc[s] = "connect") \in BOOLEAN
      BY <2>5 DEF DialFails
    <3>2. OutageKnown'
      BY <2>0, <3>1, CloseNotesState
    <3>3. fsm' = fsm \/ fsm' \in {"FAILED", "RECOVERING"}
      BY <3>1 DEF OnSocketClose, OnRecovering
    <3> QED
      BY <3>2, <3>3
  <2>6. ASSUME NEW s \in Starts, ReconnectTimer(s) PROVE Good
    BY <2>6, <2>0 DEF ReconnectTimer, OutageKnown
  <2>7. ASSUME NEW s \in Starts, DialOpens(s) PROVE Good
    <3>1. UNCHANGED <<transport, prev>>
      BY <2>7 DEF DialOpens
    <3>2. fsm' = fsm \/ (fsm = "RECOVERING" /\ fsm' = OnReconnected(s))
      BY <2>7 DEF DialOpens
    <3> QED
      BY <2>0, <3>1, <3>2 DEF OnReconnected, OutageKnown
  <2>8. ASSUME NEW k \in Stops, StopCall(k) \/ RestartCall(k) \/ Destroy(k) PROVE Good
    <3>1. \/ fsm' \notin {"RECOVERING", "RUNNING"}
          \/ UNCHANGED <<fsm, transport, prev, link>>
      BY <2>8 DEF StopCall, RestartCall, Destroy, BeginStop
    <3> QED
      BY <1>a, <1>b, <2>0, <3>1
  <2>9. ASSUME NEW k \in Stops, StopResolved(k) \/ StopTimeout(k) \/ RestartStarts(k) PROVE Good
    <3>1. UNCHANGED <<transport, prev, link>> /\ (fsm' = "RECOVERING" => fsm = "RECOVERING")
      BY <2>9 DEF StopResolved, StopTimeout, RestartStarts, FinishStop, BeginStart
    <3> QED
      BY <1>a, <2>0, <3>1
  <2>10. CASE Pause \/ Resume
    BY <2>10, <1>a, <2>0 DEF Pause, Resume
  <2> QED
    BY <1>2, <2>1, <2>2, <2>3, <2>4, <2>5, <2>6, <2>7, <2>8, <2>9, <2>10
       DEF MCNext, Next, ApiCall, StartStep, ProcessStep, TransportStep, StopStep
<1> QED
  BY <1>1, <1>2

\* A reconnection never resumes a paused listener, for any caller: a socket that
\* opens brings RUNNING back only if RUNNING was what the outage interrupted
\* (lifecycle.js:191-215).
THEOREM ReconnectionKeepsPause == MCSpec => ReconnectNeverUnpauses
<1>1. MCInit => IndInv /\ OutageKnown
  BY InitInd DEF MCInit, Init, OutageKnown
<1>2. IndInv /\ OutageKnown /\ [MCNext]_mcVars => (IndInv /\ OutageKnown)'
  <2>1. [MCNext]_mcVars => [Next]_vars
    BY DEF MCNext, mcVars
  <2> QED
    BY <2>1, OutageStep, TypeStep, SafetyStep DEF IndInv
<1>3. IndInv /\ OutageKnown /\ [MCNext]_mcVars
        => [(\E s \in Starts : link[s] = "dialing" /\ link'[s] = "open")
              /\ fsm = "RECOVERING" /\ fsm' = "RUNNING"
            => outage = "RUNNING"]_mcVars
  BY OutageStep
<1> QED
  BY <1>1, <1>2, <1>3, PTL DEF MCSpec, ReconnectNeverUnpauses

------------------------------------------------------------------------------
(* Uncaught exceptions *)

Connectable == {"dialing", "open", "backoff"}
Ended == {"UNINITIALIZED", "STOPPING", "STOPPED", "DESTROYED"}

\* A socket or a reconnect timer belongs to the current transport or to one that
\* a later start() replaced.
LeftoversKnown == \A s \in Starts : link[s] \in Connectable => s = transport \/ s \in replaced

\* The states that do not allow FAILED have no current transport.
EndedHasNone == fsm \in Ended => transport = None

\* If the caller awaits its calls, a start() with a timer that dereferences the
\* transport has one.
TimersHaveTransport ==
    SerialCaller =>
        \A s \in Starts :
            startPc[s] = "waitReady" \/ (startPc[s] = "validate" /\ listenOn[s] # None)
                => transport # None

\* The transitions the argument uses (node/state_machine.js).
LEMMA Moves ==
    /\ \A f \in STATES \ Ended : Allowed(f, "FAILED")
    /\ \A f \in STATES : Allowed(f, "STOPPED") => f \in Ended
BY DEF Allowed, TRANSITIONS, STATES, Ended

\* stop(), restart() and destroy() close the current transport.
LEMMA BeginStopKeeps ==
    ASSUME TypeOK, LeftoversKnown, NEW k \in Stops, BeginStop(k), replaced' = replaced,
           SerialCaller => Idle
    PROVE  LeftoversKnown' /\ EndedHasNone' /\ TimersHaveTransport'
<1>1. transport' = None /\ UNCHANGED <<startPc, listenOn>>
  BY DEF BeginStop, startVars
<1>2. \A s \in Starts : link'[s] \in Connectable => link[s] \in Connectable /\ s # transport
  BY DEF BeginStop, LinksAfterClose, TypeOK, Connectable
<1>3. SerialCaller => \A s \in Starts : startPc'[s] \notin {"validate", "waitReady"}
  BY <1>1 DEF Idle, Settled
<1> QED
  BY <1>1, <1>2, <1>3 DEF LeftoversKnown, EndedHasNone, TimersHaveTransport

\* The three facts are kept by every step.
LEMMA LinkStep ==
    ASSUME IndInv, LeftoversKnown, EndedHasNone, TimersHaveTransport, [MCNext]_mcVars
    PROVE  LeftoversKnown' /\ EndedHasNone' /\ TimersHaveTransport'
<1> DEFINE Good == LeftoversKnown' /\ EndedHasNone' /\ TimersHaveTransport'
           Waits(s) == startPc[s] = "waitReady" \/ (startPc[s] = "validate" /\ listenOn[s] # None)
           Kept == /\ transport' = transport
                   /\ \A s \in Starts : link'[s] \in Connectable => link[s] \in Connectable
                   /\ fsm' \in Ended => fsm \in Ended
                   /\ \A s \in Starts : Waits(s)' => Waits(s) \/ transport # None
<1>a. ASSUME Kept, replaced' = replaced PROVE Good
  BY <1>a DEF LeftoversKnown, EndedHasNone, TimersHaveTransport
<1>1. CASE UNCHANGED mcVars
  BY <1>1, <1>a DEF mcVars, vars, startVars, linkVars
<1>2. CASE MCNext
  <2>0. replaced' = IF transport # None /\ transport' \notin {transport, None}
                    THEN replaced \cup {transport} ELSE replaced
    BY <1>2 DEF MCNext
  <2>a. ASSUME Kept PROVE Good
    BY <2>a, <1>a, <2>0
  <2>b. ASSUME UNCHANGED <<startPc, listenOn, transport, link>>, fsm' \in Ended => fsm \in Ended
        PROVE  Good
    BY <2>a, <2>b
  <2> USE ConstantsOK, Moves DEF IndInv, TypeOK, Ended, Connectable, startVars, procVars, linkVars, stopVars, AfterCatch
  <2>1. ASSUME NEW s \in Starts, StartCall(s) PROVE Good
    <3>1. Kept
      BY <2>1 DEF StartCall, BeginStart
    <3> QED
      BY <3>1, <2>a
  <2>2. ASSUME NEW s \in Starts,
               \/ ValidateDone(s) \/ ValidateFail(s) \/ InstallDone(s) \/ InstallFail(s)
               \/ SpawnFails(s) \/ HandshakeFail(s)
        PROVE  Good
    <3>1. Kept
      BY <2>2 DEF ValidateDone, ValidateFail, InstallDone, InstallFail, SpawnFails, HandshakeFail,
                  Reject, TimerRejects
    <3> QED
      BY <3>1, <2>a
  <2>3. ASSUME NEW s \in Starts,
               HandshakeAck(s) \/ RuntimeReady(s) \/ ReadyTimeout(s) \/ DialAborted(s)
        PROVE  Good
    <3>1. Kept
      BY <2>3 DEF HandshakeAck, RuntimeReady, ReadyTimeout, DialAborted, Reject, TimerRejects
    <3> QED
      BY <3>1, <2>a
  <2>4. ASSUME NEW s \in Starts, SupervisorListening(s) PROVE Good
    <3>1. CASE Allowed(fsm, "CONNECTING")
      <4>1. /\ fsm' = "CONNECTING" /\ transport' = s /\ link' = [link EXCEPT ![s] = "dialing"]
        BY <2>4, <3>1 DEF SupervisorListening
      <4>2. \A t \in Starts : link'[t] \in Connectable => t = s \/ link[t] \in Connectable
        BY <4>1
      <4>3. \A t \in Starts \ {s} : t = transport \/ t \in replaced => t \in replaced'
        BY <2>0, <4>1
      <4>4. LeftoversKnown'
        BY <4>1, <4>2, <4>3 DEF LeftoversKnown
      <4> QED
        BY <4>1, <4>4 DEF EndedHasNone, TimersHaveTransport
    <3>2. CASE ~Allowed(fsm, "CONNECTING")
      <4>1. Kept
        BY <2>4, <3>2 DEF SupervisorListening, Reject
      <4> QED
        BY <4>1, <2>a
    <3> QED
      BY <3>1, <3>2
  <2>5. ASSUME NEW s \in Starts, SupervisorExits(s) \/ SupervisorClosed(s) PROVE Good
    <3>1. Kept
      BY <2>5 DEF SupervisorExits, SupervisorClosed, Reject
    <3> QED
      BY <3>1, <2>a
  <2>6. ASSUME NEW s \in Starts, SocketLost(s) \/ DialFails(s) PROVE Good
    <3>1. \E b \in BOOLEAN : OnSocketClose(s, b)
      BY <2>6 DEF SocketLost, DialFails
    <3>2. /\ transport' = transport /\ (fsm' \in Ended => fsm \in Ended)
          /\ link' = link \/ \E l \in {"lost", "backoff"} : link' = [link EXCEPT ![s] = l]
      BY <3>1 DEF OnSocketClose, OnRecovering
    <3>3. link[s] \in Connectable
      BY <2>6 DEF SocketLost, DialFails
    <3>4. \A t \in Starts : Waits(t)' => Waits(t)
      BY <2>6 DEF SocketLost, DialFails
    <3>5. Kept
      BY <3>2, <3>3, <3>4
    <3> QED
      BY <3>5, <2>a
  <2>7. ASSUME NEW s \in Starts, ReconnectTimer(s) \/ DialOpens(s) PROVE Good
    <3>1. Kept
      BY <2>7 DEF ReconnectTimer, DialOpens, OnReconnected
    <3> QED
      BY <3>1, <2>a
  <2>8. ASSUME NEW k \in Stops, StopCall(k) \/ RestartCall(k) \/ Destroy(k) PROVE Good
    <3>1. CASE BeginStop(k)
      <4>1. transport' = None
        BY <3>1 DEF BeginStop
      <4>2. replaced' = replaced /\ (SerialCaller => Idle)
        BY <2>0, <2>8, <4>1 DEF StopCall, RestartCall, Destroy
      <4> QED
        BY <3>1, <4>2, BeginStopKeeps
    <3>2. CASE ~BeginStop(k)
      BY <2>8, <3>2, <2>b DEF StopCall, RestartCall, Destroy
    <3> QED
      BY <3>1, <3>2
  <2>9. ASSUME NEW k \in Stops, StopResolved(k) \/ StopTimeout(k) PROVE Good
    BY <2>9, <2>b DEF StopResolved, StopTimeout, FinishStop
  <2>10. ASSUME NEW k \in Stops, RestartStarts(k) PROVE Good
    <3>1. Kept
      BY <2>10 DEF RestartStarts, BeginStart
    <3> QED
      BY <3>1, <2>a
  <2>11. CASE Pause \/ Resume
    BY <2>11, <2>b DEF Pause, Resume
  <2> QED
    BY <1>2, <2>1, <2>2, <2>3, <2>4, <2>5, <2>6, <2>7, <2>8, <2>9, <2>10, <2>11
       DEF MCNext, Next, ApiCall, StartStep, ProcessStep, TransportStep, StopStep
<1> QED
  BY <1>1, <1>2

\* The close event of a socket throws only on a transport that was replaced.
LEMMA CloseThrows ==
    ASSUME IndInv, LeftoversKnown, EndedHasNone, NEW s \in Starts, NEW starting \in BOOLEAN,
           OnSocketClose(s, starting), link[s] \in {"open", "dialing"}, ~crashed, crashed'
    PROVE  s \in replaced \ {transport}
<1>1. transport = None \/ ~Allowed(fsm, "FAILED")
  BY DEF OnSocketClose
<1>2. transport = None
  BY <1>1, Moves DEF EndedHasNone, IndInv, TypeOK
<1> QED
  BY <1>2, ConstantsOK DEF LeftoversKnown, Connectable

\* Where an uncaught exception can come from: a supervisor that could not be
\* spawned, a transport that a failed start() left behind and a later one replaced,
\* and, only for a caller that does not await each call, a timer of a start() whose
\* transport a stop() has taken away (lifecycle.js:184-276, transport.js:60-170,
\* process_manager.js:14-78).
THEOREM UncaughtExceptions == MCSpec => UncaughtOnlyFromLeftovers
<1> DEFINE Inv == IndInv /\ LeftoversKnown /\ EndedHasNone /\ TimersHaveTransport
           Known == \E s \in Starts :
                       \/ SpawnFails(s)
                       \/ s \in replaced \ {transport} /\ (SocketLost(s) \/ DialFails(s))
                       \/ ~SerialCaller /\ transport = None /\ (ValidateFail(s) \/ ReadyTimeout(s))
<1>1. MCInit => Inv
  BY InitInd DEF MCInit, Init, LeftoversKnown, EndedHasNone, TimersHaveTransport, Connectable
<1>2. Inv /\ [MCNext]_mcVars => Inv'
  <2>1. [MCNext]_mcVars => [Next]_vars
    BY DEF MCNext, mcVars
  <2> QED
    BY <2>1, LinkStep, TypeStep, SafetyStep DEF IndInv
<1>3. Inv /\ [MCNext]_mcVars => [~crashed /\ crashed' => Known]_mcVars
  <2> SUFFICES ASSUME Inv, MCNext, ~crashed, crashed' PROVE Known
    BY DEF mcVars
  <2> USE DEF startVars, procVars, linkVars, stopVars
  <2>1. ASSUME NEW s \in Starts, ValidateFail(s) \/ ReadyTimeout(s) PROVE Known
    <3>1. transport = None /\ (startPc[s] = "waitReady" \/ (startPc[s] = "validate" /\ listenOn[s] # None))
      BY <2>1 DEF ValidateFail, ReadyTimeout, TimerRejects
    <3>2. ~SerialCaller
      BY <3>1 DEF TimersHaveTransport
    <3> QED
      BY <2>1, <3>1, <3>2
  <2>2. ASSUME NEW s \in Starts, SocketLost(s) \/ DialFails(s) PROVE Known
    <3>1. link[s] \in {"open", "dialing"} /\ \E b \in BOOLEAN : OnSocketClose(s, b)
      BY <2>2 DEF SocketLost, DialFails
    <3> QED
      BY <2>2, <3>1, CloseThrows
  <2>3. ASSUME NEW s \in Starts,
               \/ StartCall(s) \/ ValidateDone(s) \/ InstallDone(s) \/ InstallFail(s)
               \/ HandshakeAck(s) \/ HandshakeFail(s) \/ RuntimeReady(s) \/ DialAborted(s)
               \/ ProcessStep(s) \/ ReconnectTimer(s) \/ DialOpens(s)
        PROVE  FALSE
    BY <2>3 DEF StartCall, ValidateDone, InstallDone, InstallFail, HandshakeAck, HandshakeFail,
       RuntimeReady, DialAborted, ProcessStep, SupervisorListening, SupervisorExits,
       SupervisorClosed, ReconnectTimer, DialOpens
  <2>4. ASSUME NEW k \in Stops, StopCall(k) \/ RestartCall(k) \/ Destroy(k) \/ StopStep(k)
        PROVE  FALSE
    BY <2>4 DEF StopCall, RestartCall, Destroy, StopStep, BeginStop, StopResolved, StopTimeout,
       RestartStarts
  <2>5. ~Pause /\ ~Resume
    BY DEF Pause, Resume
  <2> QED
    BY <2>1, <2>2, <2>3, <2>4, <2>5 DEF MCNext, Next, ApiCall, StartStep, TransportStep
<1> QED
  BY <1>1, <1>2, <1>3, PTL DEF MCSpec, UncaughtOnlyFromLeftovers
===============================================================================
