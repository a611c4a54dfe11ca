------------------------------- MODULE MCStartup -------------------------------
(* The bootstrap and the model cache share no file, so a behaviour runs one   *)
(* of the two, with the other at rest in one of its initial states: the       *)
(* states add up instead of multiplying.                                      *)
EXTENDS Bootstrap, ModelCache

VARIABLE side  \* the module whose steps the behaviour takes

mcVars == <<vars, modelVars, side>>

MCInit ==
    /\ Init /\ ModelInit
    /\ \/ /\ side = "bootstrap"
          /\ sums = {} /\ ~validated /\ \A m \in Models : file[m].content = "absent"
       \/ /\ side = "models"
          /\ root = {} /\ bootState = "completed"

MCNext ==
    /\ \/ side = "bootstrap" /\ Next /\ UNCHANGED modelVars
       \/ side = "models" /\ ModelNext /\ UNCHANGED vars
    /\ UNCHANGED side

MCFairness ==
    /\ \A p \in Procs : /\ WF_mcVars(side = "bootstrap" /\ Step(p) /\ UNCHANGED <<modelVars, side>>)
                        /\ WF_mcVars(side = "bootstrap" /\ Waited(p) /\ UNCHANGED <<modelVars, side>>)
    /\ \A p \in Clients : WF_mcVars(side = "models" /\ ModelStep(p) /\ UNCHANGED <<vars, side>>)

MCSpec == MCInit /\ [][MCNext]_mcVars /\ MCFairness
================================================================================
