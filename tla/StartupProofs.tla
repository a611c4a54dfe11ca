----------------------------- MODULE StartupProofs -----------------------------
(***************************************************************************)
(* Proofs about the two halves of Lifecycle.start() that several SDK       *)
(* processes run against one cache directory: the bootstrap under its lock *)
(* (module Bootstrap) and the model files without one (module ModelCache), *)
(* for any number of processes, parts of a runtime, sources and models.    *)
(*                                                                         *)
(* MutualExclusion is not inductive.  Owned adds that only a process that  *)
(* has seen an old lock file is about to unlink one.  AdoptedRuntimeWorks  *)
(* needs the lock (Owned) and Adoption: while somebody works with the      *)
(* cached runtime, nobody is in the part of the section that changes it,   *)
(* because two things lead there: a failed state file, which cannot be met *)
(* any more, and a verification that fails on a runtime that is good and   *)
(* in use, which is the "doubt" that the property excludes.                *)
(*                                                                         *)
(* TrustedSumsAreTrue has to hold of the checksums still in the hands of a *)
(* process as well (SumsTrue), and DoneMeansIntact needs that a verdict,   *)
(* once reached, stays true of the file (VerdictsHold): nobody replaces a  *)
(* model but by one it has verified.                                       *)
(***************************************************************************)
EXTENDS Bootstrap, ModelCache, WellFoundedInduction, TLAPS

\* What is written to is a part of the archive (TypeOK alone allows None).
Writing == \A p \in Procs : boot[p] = "write" => part[p] \in Parts

Owned ==
    /\ lock # None /\ lock.old => trouble = "age"
    /\ \A p \in Procs : boot[p] = "unlink" => trouble = "age"
    /\ trouble # "age" => \A p \in Procs : boot[p] \in Section => lock # None /\ lock.owner = p

Settled == {"verify", "install", "extract", "write", "reverify", "fallback", "release"}
Changing == {"install", "extract", "write"}

Adoption ==
    trouble = "none" =>
        /\ \A p \in Procs : via[p] = "cached" => Passes /\ bootState # "failed"
        /\ \A p \in Procs : boot[p] = "repair" => bootState = "failed"
        /\ \A p \in Procs : boot[p] \in Settled => bootState # "failed"
        /\ \A p, q \in Procs : boot[p] \in Changing => via[q] # "cached"

\* The runtime-side actions, which a process takes under the lock.
Work(p) ==
    \/ ReadState(p) \/ Rollback(p) \/ VerifyRuntime(p) \/ TrySource(p)
    \/ SourcesUnreadable(p) \/ SourcesExhausted(p) \/ ExtractOpen(p) \/ ExtractWrite(p)
    \/ ExtractFails(p) \/ ExtractDone(p) \/ VerifyInstalled(p) \/ Fallback(p)

-----------------------------------------------------------------------------

\* Every action leaves each variable in its range: node/bootstrap_lock.js and
\* node/runtime_manager.js.
LEMMA TypeStep == ASSUME TypeOK, Writing, [Next]_vars PROVE TypeOK' /\ Writing'
<1> USE BootstrapConstants DEF Acquiring, Section, Outside, Writing
<1>1. CASE UNCHANGED vars
  BY <1>1 DEF TypeOK, vars, lockVars, runtimeVars, installVars
<1>2. CASE LockAges
  <2>1. lock \in [owner : Procs, old : BOOLEAN]
    BY <1>2 DEF TypeOK, LockAges
  <2>2. lock' \in [owner : Procs, old : BOOLEAN]
    BY <1>2, <2>1 DEF LockAges
  <2> QED
    BY <1>2, <2>2 DEF TypeOK, LockAges, runtimeVars, installVars
<1>3. ASSUME NEW p \in Procs, Call(p) PROVE TypeOK' /\ Writing'
  BY <1>3 DEF TypeOK, Call, lockVars, runtimeVars, installVars
<1>4. ASSUME NEW p \in Procs, Waited(p) PROVE TypeOK' /\ Writing'
  BY <1>4 DEF TypeOK, Waited, runtimeVars, installVars
<1>5. ASSUME NEW p \in Procs, Crash(p) PROVE TypeOK' /\ Writing'
  BY <1>5 DEF TypeOK, Crash, runtimeVars
<1>6. ASSUME NEW p \in Procs, CreateLock(p) PROVE TypeOK' /\ Writing'
  <2>1. [owner |-> p, old |-> FALSE] \in [owner : Procs, old : BOOLEAN]
    OBVIOUS
  <2>2. /\ lock' \in {None} \cup [owner : Procs, old : BOOLEAN]
        /\ acquired' \in [Procs -> BOOLEAN] /\ waited' \in [Procs -> BOOLEAN]
    BY <1>6, <2>1 DEF TypeOK, CreateLock
  <2>3. \E to \in {"state", "failed", "stat"} : boot' = [boot EXCEPT ![p] = to]
    BY <1>6 DEF CreateLock, Go
  <2> QED
    BY <1>6, <2>2, <2>3 DEF TypeOK, CreateLock, runtimeVars, installVars
<1>13. ASSUME NEW p \in Procs, StatLock(p) \/ UnlinkStale(p) \/ ReleaseLock(p)
       PROVE TypeOK' /\ Writing'
  <2>1. CASE StatLock(p)
    BY <2>1 DEF TypeOK, StatLock, Go, runtimeVars, installVars
  <2>2. CASE UnlinkStale(p)
    BY <2>2 DEF TypeOK, UnlinkStale, Go, runtimeVars, installVars
  <2>3. CASE ReleaseLock(p)
    BY <2>3 DEF TypeOK, ReleaseLock, Go, runtimeVars, installVars
  <2> QED
    BY <1>13, <2>1, <2>2, <2>3
<1>7. ASSUME NEW p \in Procs, ReadState(p) \/ Rollback(p) \/ VerifyRuntime(p)
      PROVE TypeOK' /\ Writing'
  BY <1>7 DEF TypeOK, ReadState, Rollback, VerifyRuntime, Go, lockVars, runtimeVars, installVars
<1>8. ASSUME NEW p \in Procs, TrySource(p) PROVE TypeOK' /\ Writing'
  <2>1. source[p] + 1 \in 0..Sources
    BY <1>8 DEF TypeOK, TrySource
  <2>2. todo' \in [Procs -> SUBSET Parts]
    BY <1>8 DEF TypeOK, TrySource
  <2> QED
    BY <1>8, <2>1, <2>2 DEF TypeOK, TrySource, Go, lockVars, runtimeVars
<1>9. ASSUME NEW p \in Procs, SourcesUnreadable(p) \/ SourcesExhausted(p) \/ ExtractDone(p)
      PROVE TypeOK' /\ Writing'
  BY <1>9 DEF TypeOK, SourcesUnreadable, SourcesExhausted, ExtractDone, Go, lockVars,
              runtimeVars, installVars
<1>10. ASSUME NEW p \in Procs, ExtractOpen(p) PROVE TypeOK' /\ Writing'
  BY <1>10 DEF TypeOK, ExtractOpen, Go, lockVars
<1>11. ASSUME NEW p \in Procs, ExtractWrite(p) PROVE TypeOK' /\ Writing'
  BY <1>11 DEF TypeOK, ExtractWrite, Go, lockVars
<1>12. ASSUME NEW p \in Procs, ExtractFails(p) \/ VerifyInstalled(p) \/ Fallback(p) \/ LeaveModels(p)
                             \/ SubprocessHangs(p)
       PROVE TypeOK' /\ Writing'
  BY <1>12 DEF TypeOK, ExtractFails, VerifyInstalled, Fallback, LeaveModels, SubprocessHangs, Go,
               lockVars, runtimeVars, installVars
<1> QED
  BY <1>1, <1>2, <1>3, <1>4, <1>5, <1>6, <1>7, <1>8, <1>9, <1>10, <1>11, <1>12,
     <1>13 DEF Next, Step

\* A step of the work under the lock leaves the lock alone and starts and ends
\* in the section.
LEMMA WorkUnderLock ==
    ASSUME TypeOK, NEW p \in Procs, Work(p)
    PROVE  /\ UNCHANGED lock
           /\ trouble' = "age" <=> trouble = "age"
           /\ trouble' = "none" => trouble = "none"
           /\ boot[p] \in Section /\ boot'[p] \in Section
           /\ \A q \in Procs \ {p} : boot'[q] = boot[q]
BY DEF TypeOK, Work, Section, ReadState, Rollback, VerifyRuntime, TrySource, SourcesUnreadable,
       SourcesExhausted, ExtractOpen, ExtractWrite, ExtractFails, ExtractDone, VerifyInstalled,
       Fallback, Go, lockVars

\* Ownership of the lock file is kept by every step: only CreateLock makes a
\* file, only ReleaseLock and UnlinkStale remove one.
LEMMA OwnedStep == ASSUME TypeOK, Owned, [Next]_vars PROVE Owned'
<1> USE BootstrapConstants DEF Owned
<1>1. CASE UNCHANGED vars
  BY <1>1 DEF vars, lockVars
<1>2. CASE LockAges
  BY <1>2 DEF LockAges
<1>3. ASSUME NEW p \in Procs,
              Call(p) \/ Waited(p) \/ Crash(p) \/ LeaveModels(p) \/ SubprocessHangs(p)
      PROVE   Owned'
  BY <1>3 DEF TypeOK, Call, Waited, Crash, LeaveModels, SubprocessHangs, InSubprocess, Go, Section,
              lockVars
<1>4. ASSUME NEW p \in Procs, CreateLock(p) PROVE Owned'
  <2>1. CASE lock # None
    BY <1>4, <2>1 DEF TypeOK, CreateLock, Go, Section
  <2>2. CASE lock = None
    <3>1. /\ lock' = [owner |-> p, old |-> FALSE] /\ trouble' = trouble
          /\ boot' = [boot EXCEPT ![p] = "state"]
      BY <1>4, <2>2 DEF CreateLock, Go
    <3>2. trouble # "age" => \A q \in Procs : boot[q] \notin Section
      BY <2>2
    <3>3. [owner |-> p, old |-> FALSE] \in [owner : Procs, old : BOOLEAN]
      OBVIOUS
    <3>4. lock' # None
      BY <3>1, <3>3
    <3>5. lock'.owner = p /\ ~lock'.old
      BY <3>1
    <3> QED
      BY <3>1, <3>2, <3>4, <3>5 DEF TypeOK, Section
  <2> QED
    BY <2>1, <2>2
<1>5. ASSUME NEW p \in Procs, StatLock(p) \/ UnlinkStale(p) PROVE Owned'
  BY <1>5 DEF TypeOK, StatLock, UnlinkStale, Go, Section, lockVars
<1>6. ASSUME NEW p \in Procs, ReleaseLock(p) PROVE Owned'
  BY <1>6 DEF TypeOK, ReleaseLock, Go, Section
<1>7. ASSUME NEW p \in Procs, Work(p) PROVE Owned'
  BY <1>7, WorkUnderLock DEF Section
<1> QED
  BY <1>1, <1>2, <1>3, <1>4, <1>5, <1>6, <1>7 DEF Next, Step, Work

\* Under a lock that did not age, a process in the section is alone there.
LEMMA Alone ==
    ASSUME Owned, trouble # "age", NEW p \in Procs, NEW q \in Procs,
           boot[p] \in Section, boot[q] \in Section
    PROVE  p = q
BY DEF Owned

\* Adoption is kept by the work under the lock, whose process is alone.
LEMMA AdoptionWork ==
    ASSUME TypeOK, Owned, Adoption, NEW p \in Procs, Work(p) PROVE Adoption'
<1> SUFFICES ASSUME trouble' = "none" PROVE Adoption'
  BY DEF Adoption
<1>1. trouble = "none" /\ \A q \in Procs \ {p} : boot[q] \notin Section /\ boot'[q] = boot[q]
  BY WorkUnderLock, Alone
<1>2. \A q \in Procs \ {p} : boot'[q] # "repair" /\ boot'[q] \notin Settled
  BY <1>1 DEF Section, Settled
<1> USE BootstrapConstants, <1>1, <1>2 DEF Adoption, Settled, Changing, Go, Verdicts, Passes
<1>3. CASE ReadState(p)
  BY <1>3 DEF TypeOK, ReadState, runtimeVars
<1>4. CASE Rollback(p)
  BY <1>4 DEF TypeOK, Rollback
<1>5. CASE VerifyRuntime(p)
  <2>1. PICK yes \in Verdicts :
           /\ boot[p] = "verify" /\ boot' = [boot EXCEPT ![p] = IF yes THEN "release" ELSE "install"]
           /\ via' = [via EXCEPT ![p] = IF yes THEN "cached" ELSE None]
           /\ trouble' = IF trouble = "none" /\ ~yes /\ Passes /\ \E q \in Procs : via[q] = "cached"
                         THEN "doubt" ELSE trouble
           /\ UNCHANGED <<root, bootState>>
    BY <1>5 DEF VerifyRuntime, runtimeVars
  <2>2. yes => Passes
    OBVIOUS
  <2>3. ~yes => \A q \in Procs : via[q] # "cached"
    BY <2>1
  <2> QED
    BY <2>1, <2>2, <2>3 DEF TypeOK
<1>6. CASE TrySource(p) \/ SourcesUnreadable(p) \/ SourcesExhausted(p)
  BY <1>6 DEF TypeOK, TrySource, SourcesUnreadable, SourcesExhausted, runtimeVars
<1>7. CASE ExtractOpen(p) \/ ExtractWrite(p)
  BY <1>7 DEF TypeOK, ExtractOpen, ExtractWrite
<1>8. CASE ExtractFails(p) \/ ExtractDone(p)
  BY <1>8 DEF TypeOK, ExtractFails, ExtractDone, runtimeVars
<1>9. CASE VerifyInstalled(p) \/ Fallback(p)
  <2>1. /\ boot[p] \in {"reverify", "fallback"} /\ UNCHANGED <<root, bootState>>
        /\ \E to \in {"release", "fallback", "giveUp"} : boot' = [boot EXCEPT ![p] = to]
        /\ \E v \in {"cached", "external", None} :
              via' = [via EXCEPT ![p] = v] /\ (v = "cached" => Passes)
    BY <1>9 DEF VerifyInstalled, Fallback, runtimeVars
  <2> QED
    BY <2>1 DEF TypeOK
<1> QED
  BY <1>3, <1>4, <1>5, <1>6, <1>7, <1>8, <1>9 DEF Work

\* No other step touches the runtime or brings a process into the work.
LEMMA AdoptionStep == ASSUME TypeOK, Owned, Adoption, [Next]_vars PROVE Adoption'
<1> USE BootstrapConstants DEF Adoption, Settled, Changing, Passes
<1>1. CASE UNCHANGED vars
  BY <1>1 DEF vars, lockVars, runtimeVars
<1>2. CASE LockAges
  BY <1>2 DEF LockAges
<1>3. ASSUME NEW p \in Procs, Call(p) PROVE Adoption'
  BY <1>3 DEF TypeOK, Call, lockVars, runtimeVars
<1>4. ASSUME NEW p \in Procs, Crash(p) PROVE Adoption'
  BY <1>4 DEF TypeOK, Crash, runtimeVars
<1>5. ASSUME NEW p \in Procs, Waited(p) \/ LeaveModels(p) \/ SubprocessHangs(p)
      PROVE Adoption'
  BY <1>5 DEF TypeOK, Waited, LeaveModels, SubprocessHangs, Go, lockVars, runtimeVars
<1>6. ASSUME NEW p \in Procs, CreateLock(p) \/ StatLock(p) \/ UnlinkStale(p) \/ ReleaseLock(p)
      PROVE Adoption'
  BY <1>6 DEF TypeOK, CreateLock, StatLock, UnlinkStale, ReleaseLock, Go, lockVars, runtimeVars
<1>7. ASSUME NEW p \in Procs, Work(p) PROVE Adoption'
  BY <1>7, AdoptionWork
<1> QED
  BY <1>1, <1>2, <1>3, <1>4, <1>5, <1>6, <1>7 DEF Next, Step, Work

IndInv == TypeOK /\ Writing /\ Owned /\ Adoption

\* The inductive invariant holds in every reachable state.
THEOREM Inductive == Spec => []IndInv
<1>1. Init => IndInv
  <2> SUFFICES ASSUME Init PROVE IndInv
    OBVIOUS
  <2> USE BootstrapConstants DEF Init
  <2>1. TypeOK
    <3>1. boot \in [Procs -> Acquiring \cup Section \cup Outside]
      BY DEF Outside
    <3>2. source \in [Procs -> 0..Sources]
      OBVIOUS
    <3>3. bootState \in {"failed", "completed", "torn"} /\ root \subseteq Parts
      OBVIOUS
    <3>4. /\ todo \in [Procs -> SUBSET Parts] /\ part \in [Procs -> Parts \cup {None}]
          /\ via \in [Procs -> {None, "cached", "external"}]
      OBVIOUS
    <3>5. acquired \in [Procs -> BOOLEAN] /\ waited \in [Procs -> BOOLEAN]
      OBVIOUS
    <3> QED
      BY <3>1, <3>2, <3>3, <3>4, <3>5 DEF TypeOK
  <2>2. Writing /\ Owned
    BY DEF Writing, Owned, Section
  <2>3. Adoption
    BY DEF Adoption, Settled, Changing
  <2> QED
    BY <2>1, <2>2, <2>3 DEF IndInv
<1>2. IndInv /\ [Next]_vars => IndInv'
  BY TypeStep, OwnedStep, AdoptionStep DEF IndInv
<1> QED
  BY <1>1, <1>2, PTL DEF Spec

\* One process at a time between acquire() and release(), as long as no lock
\* file has outlived its ten minutes (node/bootstrap_lock.js:17-56).
THEOREM LockExcludes == Spec => []MutualExclusion
<1>1. IndInv => MutualExclusion
  BY Alone DEF IndInv, Owned, MutualExclusion
<1> QED
  BY <1>1, Inductive, PTL

\* A runtime that was verified and adopted is not taken away by the rollback or
\* the installation of another process, as long as no verification calls it
\* broken that is not: the only way to lose it is a wrong "no" while it is in
\* use, or an aged lock (node/lifecycle.js:107-141, runtime_manager.js:304-330).
THEOREM AdoptedRuntimeStays == Spec => []AdoptedRuntimeWorks
<1>1. IndInv => AdoptedRuntimeWorks
  BY DEF IndInv, Adoption, AdoptedRuntimeWorks
<1> QED
  BY <1>1, Inductive, PTL

-----------------------------------------------------------------------------
(* The model files *)

\* e, if a verification would trust it, is the checksum of the file that is there.
SumTrue(e) ==
    e.full /\ e.version = file[e.model].version /\ file[e.model].content # "absent"
        => e.content = file[e.model].content

Intact(m) == file[m].content = "good"
Fetching == {"fetch", "check", "rename", "note", "list", "files"}

\* Nor is a checksum false that a process is about to write, or to compute from
\* what it hashed.
SumsTrue ==
    /\ \A e \in sums : SumTrue(e)
    /\ \A p \in Clients : write[p].to = "sums" => \A e \in write[p].value : SumTrue(e)
    /\ \A p \in Clients, m \in Models : task[p][m] = "hashed" =>
           /\ seen[p][m].version = file[m].version /\ file[m].content # "absent"
                => seen[p][m].content = file[m].content
           /\ seen[p][m].content = "good" => Intact(m)

\* What a process has found or made intact stays so.
VerdictsHold ==
    /\ \A p \in Clients, m \in Models : task[p][m] = "ok" => Intact(m)
    /\ \A p \in Clients : at[p] = "rename" => temp[p] = "good"
    /\ \A p \in Clients : at[p] \in {"note", "list", "files"} => Intact(Current(p))

\* Downloads begin once every model has a verdict, and end when none is missing.
PhaseOrder ==
    \A p \in Clients :
        /\ at[p] \in Fetching \cup {"done"} => \A m \in Models : task[p][m] \in {"ok", "missing"}
        /\ at[p] \in Fetching => Missing(p) # {}
        /\ at[p] = "done" => Missing(p) = {}

-----------------------------------------------------------------------------

\* The model being downloaded, the first missing one, exists.
LEMMA CurrentIsMissing ==
    ASSUME NEW p \in Clients, Missing(p) # {}
    PROVE  Current(p) \in Missing(p) /\ Current(p) \in Models
<1>1. Missing(p) \subseteq Models /\ Models \subseteq Nat
  BY ModelConstants DEF Missing, Models
<1>2. PICK m \in Missing(p) : \A n \in Missing(p) : ~(<<n, m>> \in OpToRel(<, Nat))
  BY Zenon, <1>1, WFMin, NatLessThanWellFounded
<1>3. \A n \in Missing(p) : m <= n
  <2> SUFFICES ASSUME NEW n \in Missing(p) PROVE m <= n
    OBVIOUS
  <2>1. m \in Nat /\ n \in Nat
    BY <1>1
  <2>2. ~(n < m)
    BY Zenon, <1>2, <2>1 DEF OpToRel
  <2> QED
    BY <2>1, <2>2
<1>4. Current(p) \in Missing(p)
  BY <1>3 DEF Current
<1> QED
  BY <1>1, <1>4

\* The first missing model depends on p's verdicts only.
LEMMA CurrentKept ==
    ASSUME NEW p, task'[p] = task[p] PROVE Missing(p)' = Missing(p) /\ Current(p)' = Current(p)
BY DEF Missing, Current

LEMMA PutTyped ==
    ASSUME NEW es \in SUBSET Sum, NEW e \in Sum PROVE Put(es, e) \in SUBSET Sum
BY DEF Put

\* The types are kept by every step (node/model_manager.js).
LEMMA ModelTypeStep ==
    ASSUME ModelTypeOK, PhaseOrder, [ModelNext]_modelVars PROVE ModelTypeOK'
<1> USE ModelConstants DEF ModelTypeOK, fileVars, Proceed, Rewrite
<1>a. \A es \in SUBSET Sum : [to |-> "sums", open |-> FALSE, value |-> es] \in Write
  BY DEF Write
<1>1. CASE UNCHANGED modelVars
  BY <1>1 DEF modelVars
<1>2. ASSUME NEW p \in Clients, WriteTruncates(p) \/ WriteFills(p) PROVE ModelTypeOK'
  <2>1. listed' \in BOOLEAN
    BY Zenon, <1>2 DEF WriteTruncates, WriteFills
  <2>2. NoWrite \in Write
    BY DEF NoWrite, Write
  <2>3. [write[p] EXCEPT !.open = TRUE] \in Write
    BY DEF Write
  <2>4. write' \in [Clients -> Write]
    BY <1>2, <2>2, <2>3 DEF WriteTruncates, WriteFills
  <2>5. sums' \subseteq Sum
    BY <1>2 DEF WriteTruncates, WriteFills, Write
  <2> QED
    BY <1>2, <2>1, <2>4, <2>5 DEF WriteTruncates, WriteFills
<1>3. ASSUME NEW p \in Clients, ValidateUrls(p) \/ AllVerified(p) PROVE ModelTypeOK'
  BY <1>3 DEF ValidateUrls, AllVerified
<1>4. ASSUME NEW p \in Clients, NEW m \in Models, VerifyStat(p, m) PROVE ModelTypeOK'
  <2>1. file[m].version \in Versions /\ file[m].content \in Contents
    BY DEF File
  <2>2. seen' \in [Clients -> [Models -> File]]
    <3>1. seen[p][m] \in File
      OBVIOUS
    <3>2. [seen[p][m] EXCEPT !.version = file[m].version] \in File
      BY <2>1, <3>1 DEF File
    <3> QED
      BY <1>4, <3>2 DEF VerifyStat
  <2>3. task' \in [Clients -> [Models -> {"todo", "hashing", "hashed", "ok", "missing"}]]
    <3>1. \E v \in {"missing", "hashing", "ok"} : task' = [task EXCEPT ![p][m] = v]
      BY <1>4, <2>1 DEF VerifyStat
    <3> QED
      BY <3>1
  <2> QED
    BY <1>4, <2>2, <2>3 DEF VerifyStat
<1>5. ASSUME NEW p \in Clients, NEW m \in Models, VerifyHash(p, m) PROVE ModelTypeOK'
  <2>1. file[m].content \in Contents
    BY DEF File
  <2>2. seen' \in [Clients -> [Models -> File]]
    <3>1. seen[p][m] \in File
      OBVIOUS
    <3>2. [seen[p][m] EXCEPT !.content = file[m].content] \in File
      BY <2>1, <3>1 DEF File
    <3> QED
      BY <1>5, <3>2 DEF VerifyHash
  <2> QED
    BY <1>5, <2>2 DEF VerifyHash
<1>6. ASSUME NEW p \in Clients, NEW m \in Models, VerifyDone(p, m) PROVE ModelTypeOK'
  <2>1. [model |-> m, version |-> seen[p][m].version, full |-> TRUE,
         content |-> seen[p][m].content] \in Sum
    BY DEF Sum, File
  <2>2. write' \in [Clients -> Write]
    BY <1>6, <1>a, <2>1, PutTyped DEF VerifyDone
  <2> QED
    BY <1>6, <2>2 DEF VerifyDone
<1>7. ASSUME NEW p \in Clients, NEW from, Fails(p, from) PROVE ModelTypeOK'
  <2>1. attempt' \in [Clients -> 1..Attempts]
    <3>1. attempt[p] \in 1..Attempts
      OBVIOUS
    <3>2. \A n \in 1..Attempts : n # Attempts => n + 1 \in 1..Attempts
      OBVIOUS
    <3> QED
      BY <1>7, <3>2 DEF Fails
  <2> QED
    BY <1>7, <2>1 DEF Fails, Contents
<1>8. ASSUME NEW p \in Clients, Fetch(p) PROVE ModelTypeOK'
  <2>1. CASE Fails(p, "fetch")
    BY <1>7, <2>1
  <2>2. CASE ~Fails(p, "fetch")
    <3>1. {"good", "bad"} \subseteq Contents
      BY DEF Contents
    <3>2. PICK c \in Contents : temp' = [temp EXCEPT ![p] = c]
      BY <1>8, <2>2, <3>1 DEF Fetch
    <3>3. temp' \in [Clients -> Contents]
      BY <3>2
    <3> QED
      BY <1>8, <2>2, <3>3 DEF Fetch
  <2> QED
    BY <2>1, <2>2
<1>9. ASSUME NEW p \in Clients, CheckDownload(p) PROVE ModelTypeOK'
  BY <1>7, <1>9 DEF CheckDownload
<1>10. ASSUME NEW p \in Clients, Rename(p), ~Fails(p, "rename") PROVE ModelTypeOK'
  <2>1. PICK m \in Models, v \in Versions :
             file' = [file EXCEPT ![m] = [content |-> temp[p], version |-> v]]
    <3>1. Missing(p) # {}
      BY <1>10 DEF Rename, PhaseOrder, Fetching
    <3>2. \E v \in Versions : v = CHOOSE x \in Unused(Current(p)) : TRUE
      BY <1>10 DEF Rename, Unused
    <3>3. Current(p) \in Models
      BY <3>1, CurrentIsMissing
    <3> QED
      BY <1>10, <3>2, <3>3 DEF Rename
  <2>2. file' \in [Models -> File]
    BY <2>1 DEF File
  <2> QED
    BY <1>10, <2>2 DEF Rename, Contents
<1>11. ASSUME NEW p \in Clients, NoteChecksum(p) PROVE ModelTypeOK'
  <2>1. Current(p) \in Models
    BY <1>11, CurrentIsMissing DEF NoteChecksum, PhaseOrder, Fetching
  <2>2. [model |-> Current(p), version |-> file[Current(p)].version, full |-> FALSE,
         content |-> "good"] \in Sum
    BY <2>1 DEF Sum, File, Contents
  <2>3. write' \in [Clients -> Write]
    BY <1>11, <1>a, <2>2, PutTyped DEF NoteChecksum
  <2> QED
    BY <1>11, <2>3 DEF NoteChecksum
<1>12. ASSUME NEW p \in Clients, ListModel(p) PROVE ModelTypeOK'
  <2>1. [to |-> "list", open |-> FALSE, value |-> {}] \in Write
    BY DEF Write
  <2> QED
    BY <1>7, <1>12, <2>1 DEF ListModel
<1>13. ASSUME NEW p \in Clients, ListChecksum(p) PROVE ModelTypeOK'
  <2>1. Current(p) \in Models
    BY <1>13, CurrentIsMissing DEF ListChecksum, PhaseOrder, Fetching
  <2> QED
    BY <1>13, <1>a, <2>1 DEF ListChecksum
<1>14. ASSUME NEW p \in Clients, Begin(p) \/ ModelCrash(p) PROVE ModelTypeOK'
  <2>1. AllTodo \in [Models -> {"todo", "hashing", "hashed", "ok", "missing"}]
        /\ NoneSeen \in [Models -> File]
    BY DEF AllTodo, NoneSeen, File, Contents
  <2> QED
    <3>1. NoWrite \in Write /\ 1 \in 1..Attempts /\ "absent" \in Contents
      BY DEF NoWrite, Write, Contents
    <3>2. PICK to \in {"idle", "urls"} : Reset(p, to)
      BY <1>14 DEF Begin, ModelCrash
    <3> QED
      BY <2>1, <3>1, <3>2 DEF Reset
<1> QED
  BY <1>1, <1>2, <1>3, <1>4, <1>5, <1>6, <1>7, <1>8, <1>9, <1>10, <1>11, <1>12, <1>13, <1>14
     DEF ModelNext, ModelStep, Rename

\* A process that downloads has a missing model, and what is listed last leaves
\* none (model_manager.js:147-172).
LEMMA PhaseOrderStep ==
    ASSUME ModelTypeOK, PhaseOrder, [ModelNext]_modelVars PROVE PhaseOrder'
<1> USE ModelConstants DEF ModelTypeOK, fileVars, Proceed, Rewrite
<1> SUFFICES ASSUME NEW q \in Clients
             PROVE  /\ at'[q] \in Fetching \cup {"done"}
                         => \A m \in Models : task'[q][m] \in {"ok", "missing"}
                    /\ at'[q] \in Fetching => Missing(q)' # {}
                    /\ at'[q] = "done" => Missing(q)' = {}
  BY DEF PhaseOrder
<1> DEFINE P == /\ at'[q] \in Fetching \cup {"done"}
                     => \A m \in Models : task'[q][m] \in {"ok", "missing"}
                /\ at'[q] \in Fetching => Missing(q)' # {}
                /\ at'[q] = "done" => Missing(q)' = {}
<1>a. CASE at'[q] = at[q] /\ task'[q] = task[q]
  BY <1>a, CurrentKept DEF PhaseOrder
<1>b. ASSUME task'[q] = task[q], at[q] \in Fetching, at'[q] \in Fetching \cup {"failed"} PROVE P
  BY <1>b, CurrentKept DEF PhaseOrder, Fetching
<1>1. CASE UNCHANGED modelVars
  BY <1>1, <1>a DEF modelVars
<1>2. ASSUME NEW p \in Clients, WriteTruncates(p) \/ WriteFills(p) PROVE P
  BY <1>2, <1>a DEF WriteTruncates, WriteFills
<1>3. ASSUME NEW p \in Clients, ValidateUrls(p) PROVE P
  BY <1>3, <1>a DEF ValidateUrls, Fetching
<1>4. ASSUME NEW p \in Clients, AllVerified(p) PROVE P
  <2>1. CASE p = q
    <3>1. Missing(q)' = Missing(q)
      BY <1>4, CurrentKept DEF AllVerified
    <3> QED
      BY <1>4, <2>1, <3>1 DEF AllVerified, Fetching
  <2>2. CASE p # q
    BY <1>4, <2>2, <1>a DEF AllVerified
  <2> QED
    BY <2>1, <2>2
<1>5. ASSUME NEW p \in Clients, NEW m \in Models,
             VerifyStat(p, m) \/ VerifyHash(p, m) \/ VerifyDone(p, m)
      PROVE  P
  <2>1. CASE p = q
    BY <1>5, <2>1 DEF VerifyStat, VerifyHash, VerifyDone, Fetching
  <2>2. CASE p # q
    BY <1>5, <2>2, <1>a DEF VerifyStat, VerifyHash, VerifyDone
  <2> QED
    BY <2>1, <2>2
<1>6. ASSUME NEW p \in Clients, NEW from \in Fetching, Fails(p, from) PROVE P
  BY <1>6, <1>a, <1>b DEF Fails, Fetching
<1>7. ASSUME NEW p \in Clients, Fetch(p) PROVE P
  BY <1>6, <1>7, <1>a, <1>b DEF Fetch, Fetching
<1>8. ASSUME NEW p \in Clients, CheckDownload(p) PROVE P
  BY <1>6, <1>8, <1>a, <1>b DEF CheckDownload, Fetching
<1>9. ASSUME NEW p \in Clients, Rename(p) PROVE P
  BY <1>6, <1>9, <1>a, <1>b DEF Rename, Fetching
<1>10. ASSUME NEW p \in Clients, NoteChecksum(p) PROVE P
  BY <1>10, <1>a, <1>b DEF NoteChecksum, Fetching
<1>11. ASSUME NEW p \in Clients, ListModel(p) PROVE P
  BY <1>6, <1>11, <1>a, <1>b DEF ListModel, Fetching
<1>12. ASSUME NEW p \in Clients, ListChecksum(p) PROVE P
  <2>1. CASE p = q
    <3>1. Current(q) \in Missing(q) /\ \A m \in Models : task[q][m] \in {"ok", "missing"}
      BY <1>12, <2>1, CurrentIsMissing DEF ListChecksum, PhaseOrder, Fetching
    <3>2. Missing(q)' = Missing(q) \ {Current(q)}
      BY <1>12, <2>1, <3>1 DEF ListChecksum, Missing
    <3> QED
      BY <1>12, <2>1, <3>1, <3>2 DEF ListChecksum, Fetching
  <2>2. CASE p # q
    BY <1>12, <2>2, <1>a DEF ListChecksum
  <2> QED
    BY <2>1, <2>2
<1>13. ASSUME NEW p \in Clients, Begin(p) \/ ModelCrash(p) PROVE P
  BY <1>13, <1>a DEF Begin, ModelCrash, Reset, Fetching
<1> QED
  BY <1>1, <1>2, <1>3, <1>4, <1>5, <1>7, <1>8, <1>9, <1>10, <1>11, <1>12, <1>13
     DEF ModelNext, ModelStep

\* What is trusted stays trusted while the files do.
LEMMA SumTrueKept ==
    ASSUME file' = file PROVE \A e : SumTrue(e) => SumTrue(e)'
BY DEF SumTrue

\* No step but a rename changes a model file, and a rename installs what was
\* verified, under a version nothing else names (model_manager.js:85-109).
LEMMA RenameOnly ==
    ASSUME ModelTypeOK, PhaseOrder, VerdictsHold, [ModelNext]_modelVars, file' # file
    PROVE  \E p \in Clients, m \in Models :
             \E v \in Unused(m) :
               /\ m = Current(p) /\ at[p] = "rename" /\ at' = [at EXCEPT ![p] = "note"]
               /\ file' = [file EXCEPT ![m] = [content |-> "good", version |-> v]]
               /\ temp' = [temp EXCEPT ![p] = "absent"]
               /\ UNCHANGED <<sums, task, seen, write>>
<1>1. PICK p \in Clients : Rename(p) /\ ~Fails(p, "rename")
  <2>1. ASSUME NEW p, NEW from, Fails(p, from) PROVE FALSE
    BY <2>1 DEF Fails, fileVars
  <2>2. ASSUME NEW p, WriteTruncates(p) \/ WriteFills(p) \/ ValidateUrls(p) \/ AllVerified(p)
        PROVE FALSE
    BY <2>2 DEF WriteTruncates, WriteFills, ValidateUrls, AllVerified, fileVars
  <2>3. ASSUME NEW p, NEW m, VerifyStat(p, m) \/ VerifyHash(p, m) \/ VerifyDone(p, m) PROVE FALSE
    BY <2>3 DEF VerifyStat, VerifyHash, VerifyDone, fileVars
  <2>4. ASSUME NEW p, Fetch(p) \/ CheckDownload(p) PROVE FALSE
    BY <2>1, <2>4 DEF Fetch, CheckDownload, fileVars
  <2>5. ASSUME NEW p, NoteChecksum(p) \/ ListModel(p) \/ ListChecksum(p) PROVE FALSE
    BY <2>1, <2>5 DEF NoteChecksum, ListModel, ListChecksum, fileVars
  <2>6. ASSUME NEW p, Begin(p) \/ ModelCrash(p) PROVE FALSE
    BY <2>6 DEF Begin, ModelCrash, Reset, fileVars
  <2>7. ~UNCHANGED modelVars
    BY DEF modelVars, fileVars
  <2> QED
    BY <2>1, <2>2, <2>3, <2>4, <2>5, <2>6, <2>7 DEF ModelNext, ModelStep
<1>2. at[p] = "rename" /\ temp[p] = "good" /\ Missing(p) # {}
  BY <1>1 DEF Rename, Proceed, VerdictsHold, PhaseOrder, Fetching
<1>3. Current(p) \in Models
  BY <1>2, CurrentIsMissing
<1>4. (CHOOSE v \in Unused(Current(p)) : TRUE) \in Unused(Current(p))
  BY <1>1 DEF Rename
<1> QED
  BY <1>1, <1>2, <1>3, <1>4 DEF Rename, Proceed

\* The checksums in the cache, on their way there and in a process's hands are
\* those of the versions they name (model_manager.js:119-145).
LEMMA SumsTrueStep ==
    ASSUME ModelTypeOK, PhaseOrder, VerdictsHold, SumsTrue, [ModelNext]_modelVars
    PROVE  SumsTrue'
<1> USE DEF fileVars, Proceed, Rewrite
<1> DEFINE Hash(p, m) ==
        /\ seen[p][m].version = file[m].version /\ file[m].content # "absent"
             => seen[p][m].content = file[m].content
        /\ seen[p][m].content = "good" => Intact(m)
<1>a. \A p \in Clients, m \in Models : task[p][m] = "hashed" => Hash(p, m)
  BY DEF SumsTrue
<1>1. CASE file' # file
  <2>1. PICK p \in Clients, m \in Models : \E v \in Unused(m) :
           /\ file' = [file EXCEPT ![m] = [content |-> "good", version |-> v]]
           /\ UNCHANGED <<sums, task, seen, write>>
    BY <1>1, RenameOnly
  <2>2. PICK v \in Unused(m) : file' = [file EXCEPT ![m] = [content |-> "good", version |-> v]]
    BY <2>1
  <2>3. ASSUME NEW e \in Sum, SumTrue(e), e.model = m => e.version # v PROVE SumTrue(e)'
    BY <2>2, <2>3 DEF SumTrue, ModelTypeOK, Sum
  <2>4. \A e \in sums : SumTrue(e)'
    BY <2>2, <2>3 DEF SumsTrue, Unused, ModelTypeOK
  <2>5. \A q \in Clients : write[q].to = "sums" => \A e \in write[q].value : SumTrue(e)'
    <3> SUFFICES ASSUME NEW q \in Clients, write[q].to = "sums", NEW e \in write[q].value
                 PROVE  SumTrue(e)'
      OBVIOUS
    <3>1. e \in Sum
      BY DEF ModelTypeOK, Write
    <3>2. SumTrue(e) /\ (e.model = m => e.version # v)
      BY <2>2 DEF SumsTrue, Unused
    <3> QED
      BY <2>3, <3>1, <3>2
  <2>6. \A q \in Clients, n \in Models : task[q][n] = "hashed" => Hash(q, n)'
    BY <2>1, <2>2, <1>a DEF Unused, ModelTypeOK, Intact
  <2> QED
    BY <2>1, <2>4, <2>5, <2>6 DEF SumsTrue
<1>b. CASE file' = file
  <2>a. \A e : SumTrue(e) => SumTrue(e)'
    BY <1>b, SumTrueKept
  <2> DEFINE Same == \A q \in Clients, n \in Models :
                        task'[q][n] = "hashed" => task[q][n] = "hashed" /\ seen'[q][n] = seen[q][n]
  <2>b. ASSUME Same PROVE \A q \in Clients, n \in Models : task'[q][n] = "hashed" => Hash(q, n)'
    BY <1>a, <1>b, <2>b DEF Intact
  <2>c. ASSUME NEW p \in Clients, NEW es, Rewrite(p, "sums", es), UNCHANGED sums, Same,
               \A e \in es : SumTrue(e)
        PROVE  SumsTrue'
    <3>1. \A q \in Clients : write'[q].to = "sums" => \A e \in write'[q].value : SumTrue(e)'
      BY <2>a, <2>c DEF SumsTrue, ModelTypeOK, Write
    <3> QED
      BY <2>a, <2>b, <2>c, <3>1 DEF SumsTrue
  <2>d. ASSUME UNCHANGED <<sums, write>>, Same PROVE SumsTrue'
    BY <2>a, <2>b, <2>d DEF SumsTrue
  <2>1. CASE UNCHANGED modelVars
    BY <2>1, <2>d DEF modelVars
  <2>2. ASSUME NEW p \in Clients, WriteTruncates(p) PROVE SumsTrue'
    <3>1. \A e \in sums' : SumTrue(e)'
      BY <2>2, <2>a DEF WriteTruncates, SumsTrue
    <3>2. \A q \in Clients : write'[q].to = write[q].to /\ write'[q].value = write[q].value
      BY <2>2 DEF WriteTruncates, ModelTypeOK, Write
    <3> QED
      BY <2>2, <2>a, <2>b, <3>1, <3>2 DEF WriteTruncates, SumsTrue
  <2>3. ASSUME NEW p \in Clients, WriteFills(p) PROVE SumsTrue'
    <3>1. \A e \in sums' : SumTrue(e)'
      BY <2>3, <2>a DEF WriteFills, SumsTrue
    <3>2. \A q \in Clients : write'[q] = write[q] \/ write'[q].to = "none"
      BY <2>3 DEF WriteFills, ModelTypeOK, NoWrite
    <3> QED
      BY <2>3, <2>a, <2>b, <3>1, <3>2 DEF WriteFills, SumsTrue
  <2>4. ASSUME NEW p \in Clients, NEW m \in Models, VerifyStat(p, m) PROVE SumsTrue'
    <3>1. \E v \in {"missing", "hashing", "ok"} : task' = [task EXCEPT ![p][m] = v]
      BY <2>4 DEF VerifyStat
    <3>2. Same
      BY <2>4, <3>1 DEF VerifyStat, ModelTypeOK
    <3> QED
      BY <2>4, <2>d, <3>2 DEF VerifyStat
  <2>5. ASSUME NEW p \in Clients, NEW m \in Models, VerifyHash(p, m) PROVE SumsTrue'
    <3>1. \A q \in Clients, n \in Models : task'[q][n] = "hashed" => Hash(q, n)'
      <4>1. seen'[p][m].content = file'[m].content
        BY <2>5, <1>b DEF VerifyHash, ModelTypeOK, File
      <4>2. ASSUME NEW q \in Clients, NEW n \in Models, task'[q][n] = "hashed", ~(q = p /\ n = m)
            PROVE  task[q][n] = "hashed" /\ seen'[q][n] = seen[q][n]
        BY <2>5, <4>2 DEF VerifyHash, ModelTypeOK
      <4> QED
        BY <4>1, <4>2, <1>a, <1>b DEF Intact
    <3> QED
      BY <2>5, <2>a, <3>1 DEF VerifyHash, SumsTrue
  <2>6. ASSUME NEW p \in Clients, NEW m \in Models, VerifyDone(p, m) PROVE SumsTrue'
    <3> DEFINE s == [model |-> m, version |-> seen[p][m].version, full |-> TRUE,
                     content |-> seen[p][m].content]
    <3>1. SumTrue(s)
      BY <2>6, <1>a DEF VerifyDone, SumTrue
    <3>2. \A e \in Put(sums, s) : SumTrue(e)
      BY <3>1 DEF Put, SumsTrue
    <3>3. \E v \in {"missing", "ok"} : task' = [task EXCEPT ![p][m] = v]
      BY <2>6 DEF VerifyDone
    <3>4. Same
      BY <2>6, <3>3 DEF VerifyDone, ModelTypeOK
    <3> QED
      BY <2>6, <2>c, <3>2, <3>4 DEF VerifyDone
  <2>7. ASSUME NEW p \in Clients, NoteChecksum(p) PROVE SumsTrue'
    <3> DEFINE s == [model |-> Current(p), version |-> file[Current(p)].version,
                     full |-> FALSE, content |-> "good"]
    <3>1. \A e \in Put(sums, s) : SumTrue(e)
      BY DEF Put, SumsTrue, SumTrue
    <3> QED
      BY <2>7, <2>c, <3>1 DEF NoteChecksum
  <2>8. ASSUME NEW p \in Clients, ListChecksum(p) PROVE SumsTrue'
    <3>1. Same
      BY <2>8 DEF ListChecksum, ModelTypeOK
    <3> QED
      BY <2>8, <2>c, <3>1 DEF ListChecksum, SumsTrue
  <2>9. ASSUME NEW p \in Clients, ListModel(p) PROVE SumsTrue'
    <3>1. CASE Fails(p, "list")
      BY <2>d, <3>1 DEF Fails
    <3>2. CASE ~Fails(p, "list")
      <4>1. \A q \in Clients : write'[q] = write[q] \/ write'[q].to = "list"
        BY <2>9, <3>2 DEF ListModel, ModelTypeOK
      <4> QED
        BY <2>9, <2>a, <2>b, <3>2, <4>1 DEF ListModel, SumsTrue
    <3> QED
      BY <3>1, <3>2
  <2>10. ASSUME NEW p \in Clients, NEW to, Reset(p, to) PROVE SumsTrue'
    <3>1. \A q \in Clients : write'[q] = write[q] \/ write'[q].to = "none"
      BY <2>10 DEF Reset, ModelTypeOK, NoWrite
    <3>2. Same
      BY <2>10 DEF Reset, ModelTypeOK, AllTodo
    <3> QED
      BY <2>10, <2>a, <2>b, <3>1, <3>2 DEF Reset, SumsTrue
  <2>11. ASSUME NEW p \in Clients,
                ValidateUrls(p) \/ AllVerified(p) \/ Fetch(p) \/ CheckDownload(p) \/ Rename(p)
         PROVE  SumsTrue'
    BY <2>11, <2>d DEF ValidateUrls, AllVerified, Fetch, CheckDownload, Rename, Fails
  <2> QED
    BY <2>1, <2>2, <2>3, <2>4, <2>5, <2>6, <2>7, <2>8, <2>9, <2>10, <2>11
       DEF ModelNext, ModelStep, Begin, ModelCrash
<1> QED
  BY <1>1, <1>b

\* A model found or made intact stays so: files only ever become intact
\* (model_manager.js:85-109, 174-192).
LEMMA VerdictsHoldStep ==
    ASSUME ModelTypeOK, PhaseOrder, VerdictsHold, SumsTrue, [ModelNext]_modelVars
    PROVE  VerdictsHold'
<1> USE DEF fileVars, Proceed, Rewrite
<1>a. \A m \in Models : Intact(m) => Intact(m)'
  <2>1. CASE file' # file
    <3>1. \E m \in Models, v \in Versions :
             file' = [file EXCEPT ![m] = [content |-> "good", version |-> v]]
      BY <2>1, RenameOnly DEF Unused
    <3> QED
      BY <3>1 DEF ModelTypeOK, Intact
  <2> QED
    BY <2>1 DEF Intact
<1> DEFINE Ok(q) == \A m \in Models : task'[q][m] = "ok" => Intact(m)'
           Ren(q) == at'[q] = "rename" => temp'[q] = "good"
           Made(q) == at'[q] \in {"note", "list", "files"} => Intact(Current(q))'
<1> SUFFICES ASSUME NEW q \in Clients PROVE Ok(q) /\ Ren(q) /\ Made(q)
  BY DEF VerdictsHold
<1>b. ASSUME task'[q] = task[q] PROVE Ok(q)
  BY <1>a, <1>b DEF VerdictsHold
<1>c. ASSUME task'[q] = task[q], at[q] \in {"note", "list", "files"} PROVE Made(q)
  <2>1. Intact(Current(q)) /\ Current(q) \in Models
    BY <1>c, CurrentIsMissing DEF VerdictsHold, PhaseOrder, Fetching
  <2>2. Intact(Current(q))'
    <3>1. Current(q)' = Current(q)
      BY <1>c, CurrentKept
    <3> QED
      BY <1>a, <2>1, <3>1 DEF Intact
  <2> QED
    BY <2>2
<1>d. ASSUME task'[q] = task[q], at'[q] = at[q], temp'[q] = temp[q]
      PROVE  Ok(q) /\ Ren(q) /\ Made(q)
  BY <1>b, <1>c, <1>d DEF VerdictsHold
<1>e. ASSUME task'[q] = task[q], at'[q] \notin {"rename", "note", "list", "files"}
      PROVE  Ok(q) /\ Ren(q) /\ Made(q)
  BY <1>b, <1>e
<1>1. CASE UNCHANGED modelVars
  BY <1>1, <1>d DEF modelVars
<1>2. ASSUME NEW p \in Clients, WriteTruncates(p) \/ WriteFills(p) \/ ValidateUrls(p) \/ AllVerified(p)
      PROVE  Ok(q) /\ Ren(q) /\ Made(q)
  BY <1>2, <1>d, <1>e DEF WriteTruncates, WriteFills, ValidateUrls, AllVerified, ModelTypeOK
<1>3. ASSUME NEW p \in Clients, NEW m \in Models, VerifyStat(p, m)
      PROVE  Ok(q) /\ Ren(q) /\ Made(q)
  <2>1. CASE p = q
    <3>1. task'[q][m] = "ok" => Intact(m)
      <4> DEFINE hits == {e \in sums : e.model = m /\ e.full /\ e.version = file[m].version}
      <4>1. task'[q][m] = CASE file[m].content = "absent"              -> "missing"
                            [] file[m].content # "absent" /\ hits = {} -> "hashing"
                            [] OTHER -> IF \E e \in hits : e.content = "good"
                                        THEN "ok" ELSE "missing"
        BY <1>3, <2>1 DEF VerifyStat, ModelTypeOK
      <4>2. task'[q][m] = "ok" => file[m].content # "absent" /\ \E e \in hits : e.content = "good"
        BY <4>1
      <4> QED
        BY <4>2 DEF SumsTrue, SumTrue, Intact
    <3>2. \A n \in Models \ {m} : task'[q][n] = task[q][n]
      BY <1>3, <2>1 DEF VerifyStat, ModelTypeOK
    <3>3. at'[q] = "verify"
      BY <1>3, <2>1 DEF VerifyStat, ModelTypeOK
    <3> QED
      BY <1>a, <3>1, <3>2, <3>3 DEF VerdictsHold
  <2>2. CASE p # q
    BY <1>3, <2>2, <1>d DEF VerifyStat, ModelTypeOK
  <2> QED
    BY <2>1, <2>2
<1>4. ASSUME NEW p \in Clients, NEW m \in Models, VerifyHash(p, m) \/ VerifyDone(p, m)
      PROVE  Ok(q) /\ Ren(q) /\ Made(q)
  <2>1. CASE p = q
    <3>1. task'[q][m] = "ok" => Intact(m)
      BY <1>4, <2>1 DEF VerifyHash, VerifyDone, ModelTypeOK, SumsTrue
    <3>2. \A n \in Models \ {m} : task'[q][n] = task[q][n]
      BY <1>4, <2>1 DEF VerifyHash, VerifyDone, ModelTypeOK
    <3>3. at'[q] = "verify"
      BY <1>4, <2>1 DEF VerifyHash, VerifyDone, ModelTypeOK
    <3> QED
      BY <1>a, <3>1, <3>2, <3>3 DEF VerdictsHold
  <2>2. CASE p # q
    BY <1>4, <2>2, <1>d DEF VerifyHash, VerifyDone, ModelTypeOK
  <2> QED
    BY <2>1, <2>2
<1>5. ASSUME NEW p \in Clients, NEW from, Fails(p, from) PROVE Ok(q) /\ Ren(q) /\ Made(q)
  BY <1>5, <1>d, <1>e DEF Fails, ModelTypeOK
<1>6. ASSUME NEW p \in Clients, Fetch(p) PROVE Ok(q) /\ Ren(q) /\ Made(q)
  BY <1>5, <1>6, <1>d, <1>e DEF Fetch, ModelTypeOK
<1>7. ASSUME NEW p \in Clients, CheckDownload(p) PROVE Ok(q) /\ Ren(q) /\ Made(q)
  BY <1>5, <1>7, <1>b, <1>d DEF CheckDownload, ModelTypeOK
<1>8. ASSUME NEW p \in Clients, Rename(p), ~Fails(p, "rename") PROVE Ok(q) /\ Ren(q) /\ Made(q)
  <2>1. task'[q] = task[q]
    BY <1>8 DEF Rename
  <2>2. CASE p = q
    <3>1. at'[q] = "note" /\ temp[q] = "good" /\ Missing(q) # {}
      BY <1>8, <2>2 DEF Rename, ModelTypeOK, VerdictsHold, PhaseOrder, Fetching
    <3>2. Current(q) \in Models /\ Current(q)' = Current(q)
      BY <2>1, <3>1, CurrentIsMissing, CurrentKept
    <3>3. file'[Current(q)].content = "good"
      BY <1>8, <2>2, <3>1, <3>2 DEF Rename, ModelTypeOK
    <3> QED
      BY <1>b, <2>1, <3>1, <3>2, <3>3 DEF Intact
  <2>3. CASE p # q
    BY <1>8, <2>3, <1>d DEF Rename, ModelTypeOK
  <2> QED
    BY <2>2, <2>3
<1>9. ASSUME NEW p \in Clients, NoteChecksum(p) PROVE Ok(q) /\ Ren(q) /\ Made(q)
  BY <1>9, <1>b, <1>c, <1>d DEF NoteChecksum, ModelTypeOK
<1>10. ASSUME NEW p \in Clients, ListModel(p) PROVE Ok(q) /\ Ren(q) /\ Made(q)
  BY <1>5, <1>10, <1>b, <1>c, <1>d DEF ListModel, ModelTypeOK
<1>11. ASSUME NEW p \in Clients, ListChecksum(p) PROVE Ok(q) /\ Ren(q) /\ Made(q)
  <2>1. CASE p = q
    <3>1. at[q] = "files" /\ at'[q] \in {"done", "fetch"} /\ Missing(q) # {}
      BY <1>11, <2>1 DEF ListChecksum, ModelTypeOK, PhaseOrder, Fetching
    <3>2. Intact(Current(q)) /\ Current(q) \in Models
      BY <3>1, CurrentIsMissing DEF VerdictsHold
    <3>3. \A n \in Models \ {Current(q)} : task'[q][n] = task[q][n]
      BY <1>11, <2>1, <3>2 DEF ListChecksum, ModelTypeOK
    <3> QED
      BY <1>a, <3>1, <3>2, <3>3 DEF VerdictsHold
  <2>2. CASE p # q
    BY <1>11, <2>2, <1>d DEF ListChecksum, ModelTypeOK
  <2> QED
    BY <2>1, <2>2
<1>12. ASSUME NEW p \in Clients, Begin(p) \/ ModelCrash(p) PROVE Ok(q) /\ Ren(q) /\ Made(q)
  <2>1. CASE p = q
    BY <1>12, <2>1 DEF Begin, ModelCrash, Reset, AllTodo, ModelTypeOK
  <2>2. CASE p # q
    BY <1>12, <2>2, <1>d DEF Begin, ModelCrash, Reset, ModelTypeOK
  <2> QED
    BY <2>1, <2>2
<1> QED
  BY <1>1, <1>2, <1>3, <1>4, <1>5, <1>6, <1>7, <1>8, <1>9, <1>10, <1>11, <1>12
     DEF ModelNext, ModelStep, Rename

\* The parts of the inductive invariant together.
LEMMA ModelInvariant ==
    ModelSpec => [](ModelTypeOK /\ PhaseOrder /\ VerdictsHold /\ SumsTrue)
<1>1. ModelInit => ModelTypeOK /\ PhaseOrder /\ VerdictsHold /\ SumsTrue
  <2> SUFFICES ASSUME ModelInit PROVE ModelTypeOK /\ PhaseOrder /\ VerdictsHold /\ SumsTrue
    OBVIOUS
  <2> USE ModelConstants
  <2>1. ModelTypeOK
    <3>1. file \in [Models -> File]
      BY DEF ModelInit, File, Contents
    <3>2. sums \subseteq Sum
      <4>1. PICK M \in SUBSET Models :
               sums = {[model |-> m, version |-> 0, full |-> TRUE, content |-> "good"] : m \in M}
        BY DEF ModelInit
      <4>2. \A m \in M : [model |-> m, version |-> 0, full |-> TRUE, content |-> "good"] \in Sum
        BY DEF Sum, Contents
      <4> QED
        BY <4>1, <4>2
    <3>3. /\ AllTodo \in [Models -> {"todo", "hashing", "hashed", "ok", "missing"}]
          /\ NoneSeen \in [Models -> File] /\ NoWrite \in Write
          /\ 1 \in 1..Attempts /\ "absent" \in Contents
      BY DEF AllTodo, NoneSeen, NoWrite, Write, File, Contents
    <3> QED
      BY <3>1, <3>2, <3>3 DEF ModelInit, ModelTypeOK
  <2>2. PhaseOrder /\ VerdictsHold
    BY DEF ModelInit, PhaseOrder, VerdictsHold, Fetching, AllTodo
  <2>3. SumsTrue
    BY DEF ModelInit, SumsTrue, SumTrue, NoWrite, AllTodo, Models
  <2> QED
    BY <2>1, <2>2, <2>3
<1>2. ModelTypeOK /\ PhaseOrder /\ VerdictsHold /\ SumsTrue /\ [ModelNext]_modelVars
        => (ModelTypeOK /\ PhaseOrder /\ VerdictsHold /\ SumsTrue)'
  BY ModelTypeStep, PhaseOrderStep, VerdictsHoldStep, SumsTrueStep
<1> QED
  BY <1>1, <1>2, PTL DEF ModelSpec

\* A cached checksum that a verification would trust is the checksum of the
\* file that is there, whatever other processes hash, download and rewrite
\* meanwhile (model_manager.js:119-145, 194-203).
THEOREM TrustedChecksumsAreTrue == ModelSpec => []TrustedSumsAreTrue
<1>1. SumsTrue => TrustedSumsAreTrue
  BY DEF SumsTrue, SumTrue, TrustedSumsAreTrue
<1> QED
  BY <1>1, ModelInvariant, PTL

\* In a process whose verifyOrDownload() has returned, every model is intact and
\* stays so (lifecycle.js:155).
THEOREM ModelsStayIntact == ModelSpec => []DoneMeansIntact
<1>1. ModelTypeOK /\ PhaseOrder /\ VerdictsHold => DoneMeansIntact
  BY DEF ModelTypeOK, PhaseOrder, VerdictsHold, DoneMeansIntact, Missing, Intact
<1> QED
  BY <1>1, ModelInvariant, PTL
=============================================================================
