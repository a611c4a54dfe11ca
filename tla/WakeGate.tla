------------------------------ MODULE WakeGate ------------------------------
(* What the listening core promises its user: utterances begin one after the  *)
(* other, a wake answers at least one utterance that no wake has answered     *)
(* before, and two wakes are never closer than the cooldown.                  *)
EXTENDS Naturals

CONSTANT Utterances  \* 1 .. a bound

VARIABLES
    current,   \* the last utterance begun
    answers,   \* how many wakes each utterance has been answered by
    cooling    \* less than the cooldown since the last wake

vars == <<current, answers, cooling>>

Init ==
    /\ current = 1
    /\ answers = [u \in Utterances |-> 0]
    /\ cooling = FALSE

NewUtterance ==
    /\ current + 1 \in Utterances
    /\ current' = current + 1
    /\ UNCHANGED <<answers, cooling>>

Unanswered == {u \in Utterances : u <= current /\ answers[u] = 0}

Wake ==
    /\ ~cooling
    /\ \E E \in (SUBSET Unanswered) \ {{}} :
          answers' = [u \in Utterances |-> IF u \in E THEN 1 ELSE answers[u]]
    /\ cooling' = TRUE
    /\ UNCHANGED current

CooldownOver ==
    /\ cooling
    /\ cooling' = FALSE
    /\ UNCHANGED <<current, answers>>

Next == NewUtterance \/ Wake \/ CooldownOver

Spec == Init /\ [][Next]_vars
=============================================================================
