---------------------------- MODULE MCSdkLifecycle ----------------------------
(* SdkLifecycle with two history variables: the state an outage interrupted,  *)
(* and the transports a later start() has replaced.                           *)
EXTENDS SdkLifecycle, TLC

VARIABLES
    outage,   \* the state in which RECOVERING was last entered
    replaced  \* transports left open by a failed start() when the next one dialed

mcVars == <<vars, outage, replaced>>

MCInit == Init /\ outage = None /\ replaced = {}

MCNext ==
    /\ Next
    /\ outage' = IF fsm # "RECOVERING" /\ fsm' = "RECOVERING" THEN fsm ELSE outage
    /\ replaced' = IF transport # None /\ transport' \notin {transport, None}
                   THEN replaced \cup {transport} ELSE replaced

MCSpec == MCInit /\ [][MCNext]_mcVars

MCFairSpec == MCSpec /\ Fairness

Symmetry == Permutations(Starts) \cup Permutations(Stops)

\* A reconnection resumes detection only if detection was running when the
\* connection was lost: the 'reconnected' handler never un-pauses, whichever
\* transport's handler it is (lifecycle.js:201-214).
ReconnectNeverUnpauses ==
    [][(\E s \in Starts : link[s] = "dialing" /\ link'[s] = "open")
         /\ fsm = "RECOVERING" /\ fsm' = "RUNNING"
       => outage = "RUNNING"]_mcVars

\* An exception that nobody catches is the 'error' event of a process that could
\* not be spawned (process_manager.js:47), or a socket event of a transport that
\* a failed start() left connected and a later start() replaced, so that stop()
\* does not close it (lifecycle.js:181, 269-275, 314-320), or, if calls overlap, a
\* timer of a start() whose transport a stop() took away (lifecycle.js:240-243).
UncaughtOnlyFromLeftovers ==
    [][~crashed /\ crashed' =>
         \E s \in Starts :
            \/ SpawnFails(s)
            \/ s \in replaced \ {transport} /\ (SocketLost(s) \/ DialFails(s))
            \/ ~SerialCaller /\ transport = None /\ (ValidateFail(s) \/ ReadyTimeout(s))]_mcVars

\* The same without leftovers: does not hold even if every call is awaited.
UncaughtOnlyFromSpawn == [][~crashed /\ crashed' => \E s \in Starts : SpawnFails(s)]_mcVars

\* A reconnection that ends an outage of a RUNNING listener brings it back to
\* RUNNING.
RunningRestored ==
    [][fsm = "RECOVERING" /\ fsm' \in ActiveStates /\ outage = "RUNNING"
         /\ (\A s \in Starts : ~startPaused[s])
       => fsm' = "RUNNING"]_mcVars
===============================================================================
