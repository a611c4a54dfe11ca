-------------------------- MODULE MCWorkerSupervisor --------------------------
(* WorkerSupervisor with a history variable: the worker exits seen so far.    *)
EXTENDS WorkerSupervisor

VARIABLE exits  \* worker exits the monitor has seen, up to the length of STEPS

mcVars == <<vars, exits>>

MCInit == Init /\ exits = 0

MCNext ==
    /\ Next
    /\ exits' = IF MonitorSeesExit /\ exits < Len(STEPS) THEN exits + 1 ELSE exits

MCSpec == MCInit /\ [][MCNext]_mcVars

\* The escalation restart_policy.py:37-42 announces for successive failures: the
\* k-th worker exit is answered with step k, degraded mode the fourth time and
\* a fatal failure the fifth.
EscalatesAsDocumented == pc = "backoff" => STEPS[step] = STEPS[exits]
===============================================================================
