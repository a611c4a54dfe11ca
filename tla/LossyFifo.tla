------------------------------- MODULE LossyFifo -------------------------------
(***************************************************************************)
(* What the IPC channel between supervisor and worker promises: messages   *)
(* are handled in the order they were sent, some never.                    *)
(***************************************************************************)
EXTENDS Naturals

VARIABLES sent,  \* messages sent so far
          got    \* the last one handled

Init == sent = 0 /\ got = 0

Send == sent' = sent + 1 /\ UNCHANGED got
Handle == got' \in (got + 1)..sent /\ UNCHANGED sent

Next == Send \/ Handle

Spec == Init /\ [][Next]_<<sent, got>>
=============================================================================
