------------------------------- MODULE Bootstrap -------------------------------
(***************************************************************************)
(* The first half of Lifecycle.start() (node/lifecycle.js:78-142): several *)
(* SDK processes of one user share a cache directory, take the lock file   *)
(* in it (node/bootstrap_lock.js), and verify or install the Python        *)
(* runtime (node/runtime_manager.js).                                      *)
(*                                                                         *)
(* Each call of the file system is a step; between two of them the other   *)
(* processes move.  A runtime directory is the set of the parts of an      *)
(* installation that are in it; a part that is being overwritten is not.   *)
(* What the code runs as a subprocess (python, curl, unzip) may fail on    *)
(* good files, and may not return: nothing there has a timeout.            *)
(*                                                                         *)
(* What follows the release of the lock, the verification and download of  *)
(* the models, is the state "models" here and module ModelCache.           *)
(***************************************************************************)
EXTENDS Naturals, FiniteSets

CONSTANTS Procs,    \* SDK processes
          Parts,    \* the parts of a runtime installation
          Needed,   \* the parts verify_python_exec exercises
          Sources,  \* number of configured runtime sources
          None

ASSUME BootstrapConstants ==
    /\ None \notin Parts /\ None \notin {"cached", "failed"}
    /\ None \notin [owner : Procs, old : BOOLEAN]
    /\ Needed \subseteq Parts
    /\ Sources \in Nat

VARIABLES
    lock,       \* the lock file: who wrote it, and is it over ten minutes old
    trouble,    \* history: the worst that has happened, "age" (a lock file has
                \* outlived its ten minutes), "doubt" (a working runtime in use
                \* was taken for a broken one) or "none" of these
    acquired,   \* BootstrapLock.acquired
    waited,     \* the 30 s of acquire(30000) are over
    root,       \* the parts of a runtime below runtimeRoot
    bootState,  \* status in metadata/bootstrap_state.json; "completed" is no file, too
    boot,       \* boot[p]: where process p is
    source,     \* sources install_runtime has tried
    todo,       \* parts of the archive still to extract
    part,       \* the part being written
    via         \* the Python the bootstrap of p has settled on

lockVars == <<lock, trouble, acquired, waited>>
runtimeVars == <<root, bootState>>
installVars == <<source, todo, part>>
vars == <<lockVars, runtimeVars, boot, installVars, via>>

Acquiring == {"create", "stat", "unlink"}
Section == {"state", "repair", "saveState", "savingState", "verify",
            "install", "extract", "write", "reverify", "fallback", "release",
            "giveUp", "hung"}
\* execSync and spawnSync without a timeout
InSubprocess == {"verify", "install", "extract", "write", "reverify", "fallback"}
Outside == {"off", "failed", "models", "up"}

\* The Python found below runtimeRoot can import what the listener needs.
Passes == Needed \subseteq root

\* verify_runtime and verify_python_exec: any error, of the subprocess or of the
\* files, is a "no".
Verdicts == IF Passes THEN {TRUE, FALSE} ELSE {FALSE}

TypeOK ==
    /\ lock \in {None} \cup [owner : Procs, old : BOOLEAN]
    /\ trouble \in {"none", "doubt", "age"}
    /\ acquired \in [Procs -> BOOLEAN] /\ waited \in [Procs -> BOOLEAN]
    /\ root \subseteq Parts
    /\ bootState \in {"failed", "completed", "torn"}
    /\ boot \in [Procs -> Acquiring \cup Section \cup Outside]
    /\ source \in [Procs -> 0..Sources]
    /\ todo \in [Procs -> SUBSET Parts]
    /\ part \in [Procs -> Parts \cup {None}]
    /\ via \in [Procs -> {None, "cached", "external"}]

\* A cache as an earlier run may have left it: any part of a runtime, a lock
\* file nobody owns any more is covered by Crash.
Init ==
    /\ lock = None /\ trouble = "none"
    /\ acquired = [p \in Procs |-> FALSE] /\ waited = [p \in Procs |-> FALSE]
    /\ root \in SUBSET Parts
    /\ bootState \in {"failed", "completed"}
    /\ boot = [p \in Procs |-> "off"]
    /\ source = [p \in Procs |-> 0] /\ todo = [p \in Procs |-> {}]
    /\ part = [p \in Procs |-> None] /\ via = [p \in Procs |-> None]

Go(p, from, to) == boot[p] = from /\ boot' = [boot EXCEPT ![p] = to]

-----------------------------------------------------------------------------
(* BootstrapLock                                                            *)

\* start() reaches acquire(30000)
Call(p) ==
    /\ boot[p] \in {"off", "failed"}
    /\ boot' = [boot EXCEPT ![p] = "create"]
    /\ via' = [via EXCEPT ![p] = None]
    /\ UNCHANGED <<lockVars, runtimeVars, installVars>>

\* Any lock file, its owner dead or busy with a long install, gets old.
LockAges ==
    /\ lock # None /\ ~lock.old
    /\ lock' = [lock EXCEPT !.old = TRUE]
    /\ trouble' = "age"
    /\ UNCHANGED <<acquired, waited, runtimeVars, boot, installVars, via>>

Waited(p) ==
    /\ boot[p] \in Acquiring /\ ~waited[p]
    /\ waited' = [waited EXCEPT ![p] = TRUE]
    /\ UNCHANGED <<lock, trouble, acquired, runtimeVars, boot, installVars, via>>

\* Mutant: the lock file is written without the 'wx' flag.
CreateLockOverwrites(p) ==
    /\ Go(p, "create", "state")
    /\ lock' = [owner |-> p, old |-> FALSE]
    /\ acquired' = [acquired EXCEPT ![p] = TRUE]
    /\ waited' = [waited EXCEPT ![p] = FALSE]
    /\ UNCHANGED <<trouble, runtimeVars, installVars, via>>

\* Mutant: acquire() does not look at its timeout.
CreateLockPatient(p) ==
    /\ \/ /\ lock = None /\ Go(p, "create", "state")
          /\ lock' = [owner |-> p, old |-> FALSE]
          /\ acquired' = [acquired EXCEPT ![p] = TRUE]
          /\ waited' = [waited EXCEPT ![p] = FALSE]
       \/ lock # None /\ Go(p, "create", "stat") /\ UNCHANGED <<lock, acquired, waited>>
    /\ UNCHANGED <<trouble, runtimeVars, installVars, via>>

\* writeFileSync(lockPath, ..., {flag: 'wx'}); EEXIST goes to the catch block,
\* which gives up first if the time is over.
CreateLock(p) ==
    /\ \/ /\ lock = None /\ Go(p, "create", "state")
          /\ lock' = [owner |-> p, old |-> FALSE]
          /\ acquired' = [acquired EXCEPT ![p] = TRUE]
          /\ waited' = [waited EXCEPT ![p] = FALSE]
       \/ /\ lock # None /\ Go(p, "create", IF waited[p] THEN "failed" ELSE "stat")
          /\ waited' = [waited EXCEPT ![p] = FALSE]
          /\ UNCHANGED <<lock, acquired>>
    /\ UNCHANGED <<trouble, runtimeVars, installVars, via>>

\* statSync is not guarded: it throws if the lock was released meanwhile.
StatLock(p) ==
    /\ \/ /\ lock = None /\ Go(p, "stat", "failed")
          /\ waited' = [waited EXCEPT ![p] = FALSE]
       \/ /\ lock # None /\ Go(p, "stat", IF lock.old THEN "unlink" ELSE "create")
          /\ UNCHANGED waited
    /\ UNCHANGED <<lock, trouble, acquired, runtimeVars, installVars, via>>

\* unlinkSync removes whatever is at the path by now.
UnlinkStale(p) ==
    /\ Go(p, "unlink", "create")
    /\ lock' = None
    /\ UNCHANGED <<trouble, acquired, waited, runtimeVars, installVars, via>>

\* The finally block.  release() unlinks the path, whoever wrote the file.
ReleaseLock(p) ==
    /\ Go(p, "release", "models") \/ Go(p, "giveUp", "failed")
    /\ lock' = IF acquired[p] THEN None ELSE lock
    /\ acquired' = [acquired EXCEPT ![p] = FALSE]
    /\ source' = [source EXCEPT ![p] = 0]
    /\ UNCHANGED <<trouble, waited, runtimeVars, todo, part, via>>

-----------------------------------------------------------------------------
(* The runtime, under the lock                                              *)

\* "failed" stands for a failure after a step that can_resume_bootstrap cannot
\* repeat.  A state file that was cut short does not parse: start() fails.
ReadState(p) ==
    /\ Go(p, "state", CASE bootState = "failed" -> "repair"
                        [] bootState = "torn"   -> "giveUp"
                        [] OTHER                -> "verify")
    /\ UNCHANGED <<lockVars, runtimeVars, installVars, via>>

\* Mutant: a rollback does not record that it was done.
RollbackUnsaved(p) ==
    /\ Go(p, "repair", "verify") /\ root' = {}
    /\ UNCHANGED <<lockVars, bootState, installVars, via>>

Rollback(p) ==
    /\ \/ Go(p, "repair", "saveState") /\ root' = {} /\ UNCHANGED bootState
       \/ Go(p, "saveState", "savingState") /\ bootState' = "torn" /\ UNCHANGED root
       \/ Go(p, "savingState", "verify") /\ bootState' = "completed" /\ UNCHANGED root
    /\ UNCHANGED <<lockVars, installVars, via>>

VerifyRuntime(p) ==
    /\ \E yes \in Verdicts :
         /\ Go(p, "verify", IF yes THEN "release" ELSE "install")
         /\ via' = [via EXCEPT ![p] = IF yes THEN "cached" ELSE None]
         /\ trouble' = IF trouble = "none" /\ ~yes /\ Passes /\ \E q \in Procs : via[q] = "cached"
                       THEN "doubt" ELSE trouble
    /\ UNCHANGED <<lock, acquired, waited, runtimeVars, installVars>>

\* install_runtime: the next source cannot be resolved or downloaded, or its
\* archive, whatever it holds, is unpacked; after the last one it returns false.
TrySource(p) ==
    /\ source[p] < Sources
    /\ source' = [source EXCEPT ![p] = @ + 1]
    /\ \/ Go(p, "install", "install") /\ UNCHANGED todo
       \/ /\ Go(p, "install", "extract")
          /\ \E archive \in SUBSET Parts : todo' = [todo EXCEPT ![p] = archive]
    /\ UNCHANGED <<lockVars, runtimeVars, part, via>>

\* loadRuntimeSources, before the first source: no such file is "none left", one
\* that does not parse or a platform it does not support is thrown to start().
SourcesUnreadable(p) ==
    /\ source[p] = 0 /\ Go(p, "install", "giveUp")
    /\ UNCHANGED <<lockVars, runtimeVars, installVars, via>>

SourcesExhausted(p) ==
    /\ source[p] = Sources
    /\ Go(p, "install", "fallback")
    /\ UNCHANGED <<lockVars, runtimeVars, installVars, via>>

\* unzip -o, tar -x and cpSync overwrite file by file.
ExtractOpen(p) ==
    /\ Go(p, "extract", "write")
    /\ \E x \in todo[p] :
         /\ root' = root \ {x}
         /\ part' = [part EXCEPT ![p] = x]
         /\ todo' = [todo EXCEPT ![p] = @ \ {x}]
    /\ UNCHANGED <<lockVars, bootState, source, via>>

ExtractWrite(p) ==
    /\ Go(p, "write", "extract")
    /\ root' = root \cup {part[p]}
    /\ part' = [part EXCEPT ![p] = None]
    /\ UNCHANGED <<lockVars, bootState, source, todo, via>>

\* A failing extraction throws, which install_runtime takes as "try the next".
ExtractFails(p) ==
    /\ Go(p, "extract", "install") \/ Go(p, "write", "install")
    /\ todo' = [todo EXCEPT ![p] = {}] /\ part' = [part EXCEPT ![p] = None]
    /\ UNCHANGED <<lockVars, runtimeVars, source, via>>

ExtractDone(p) ==
    /\ todo[p] = {} /\ Go(p, "extract", "reverify")
    /\ UNCHANGED <<lockVars, runtimeVars, installVars, via>>

VerifyInstalled(p) ==
    /\ \E yes \in Verdicts :
         /\ Go(p, "reverify", IF yes THEN "release" ELSE "fallback")
         /\ via' = [via EXCEPT ![p] = IF yes THEN "cached" ELSE None]
    /\ UNCHANGED <<lockVars, runtimeVars, installVars>>

\* get_python_exec: cached, else venv or system, each verified in its turn; none
\* at all is an error.
Fallback(p) ==
    /\ \E yes \in Verdicts, other \in BOOLEAN :
         /\ Go(p, "fallback", IF yes \/ other THEN "release" ELSE "giveUp")
         /\ via' = [via EXCEPT ![p] = CASE yes -> "cached"
                                        [] other /\ ~yes -> "external"
                                        [] OTHER -> None]
    /\ UNCHANGED <<lockVars, runtimeVars, installVars>>

\* The subprocess the process waits for in execSync or spawnSync does not return.
SubprocessHangs(p) ==
    /\ boot[p] \in InSubprocess
    /\ boot' = [boot EXCEPT ![p] = "hung"]
    /\ UNCHANGED <<lockVars, runtimeVars, installVars, via>>

\* The models are verified or downloaded and the supervisor is spawned, or
\* start() fails.
LeaveModels(p) ==
    /\ Go(p, "models", "up") \/ Go(p, "models", "failed")
    /\ UNCHANGED <<lockVars, runtimeVars, installVars, via>>

Step(p) ==
    \/ CreateLock(p) \/ StatLock(p) \/ UnlinkStale(p) \/ ReleaseLock(p)
    \/ ReadState(p) \/ Rollback(p) \/ VerifyRuntime(p) \/ TrySource(p)
    \/ SourcesUnreadable(p) \/ SourcesExhausted(p) \/ ExtractOpen(p) \/ ExtractWrite(p)
    \/ ExtractFails(p) \/ ExtractDone(p) \/ VerifyInstalled(p) \/ Fallback(p)
    \/ LeaveModels(p)

\* The process ends; the files stay as they are.
Crash(p) ==
    /\ boot[p] # "off"
    /\ boot' = [boot EXCEPT ![p] = "off"]
    /\ acquired' = [acquired EXCEPT ![p] = FALSE]
    /\ waited' = [waited EXCEPT ![p] = FALSE]
    /\ source' = [source EXCEPT ![p] = 0] /\ todo' = [todo EXCEPT ![p] = {}]
    /\ part' = [part EXCEPT ![p] = None] /\ via' = [via EXCEPT ![p] = None]
    /\ UNCHANGED <<lock, trouble, runtimeVars>>

Next == LockAges \/ \E p \in Procs : Call(p) \/ Waited(p) \/ Step(p)
                                   \/ SubprocessHangs(p) \/ Crash(p)

Spec == Init /\ [][Next]_vars

\* A process that has called start() runs on, unless a subprocess hangs, and its
\* clock does; nobody has to call, to crash or to grow old.
Fairness == \A p \in Procs : WF_vars(Step(p)) /\ WF_vars(Waited(p))

FairSpec == Spec /\ Fairness
-----------------------------------------------------------------------------

\* While no lock file has outlived its ten minutes, one process at a time is
\* between acquire() and release(), and the lock file is its own: a release
\* never removes the lock of somebody else (lifecycle.js:88-142).
MutualExclusion ==
    trouble # "age" => \A p \in Procs : boot[p] \in Section =>
                 /\ lock # None /\ lock.owner = p
                 /\ \A q \in Procs \ {p} : boot[q] \notin Section

\* A cached runtime that a process verified under the lock goes on working for
\* as long as the process uses it, whatever other processes install or roll
\* back, unless a lock file outlived its ten minutes or a process found the very
\* runtime broken, say because python could not be started, and installs over it
\* (lifecycle.js:107-141, runtime_manager.js:304-330).
AdoptedRuntimeWorks ==
    trouble = "none" => \A p \in Procs : via[p] = "cached" => Passes

\* The same without the second excuse, which does not hold: one failing
\* "python --version" makes a process unpack over the Python that others run.
AdoptedRuntimeUntouched ==
    trouble # "age" => \A p \in Procs : via[p] = "cached" => Passes

\* Every start() gets past the bootstrap or fails, whoever holds the lock, hangs
\* with it or left it behind (unless its process ends or hangs in a subprocess
\* of its own): the wait for the lock, the sources and the fallbacks all run out
\* (bootstrap_lock.js:27, runtime_manager.js:81).
BootstrapEnds ==
    \A p \in Procs : boot[p] = "create" ~> boot[p] \in {"models", "failed", "off", "hung"}
=============================================================================
