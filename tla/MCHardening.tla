------------------------------ MODULE MCHardening ------------------------------
(* The hardening library and the telemetry queue share no state, so a         *)
(* behaviour runs one of the two: the states add up instead of multiplying.   *)
EXTENDS Recovery, Telemetry

VARIABLE side  \* the module whose steps the behaviour takes

MCInit ==
    /\ RecoveryInit /\ Init
    /\ side \in {"recovery", "telemetry"}

MCNext ==
    /\ \/ side = "recovery" /\ RecoveryNext /\ UNCHANGED vars
       \/ side = "telemetry" /\ Next /\ UNCHANGED recoveryVars
    /\ UNCHANGED side

MCSpec == MCInit /\ [][MCNext]_<<recoveryVars, vars, side>>
===============================================================================
