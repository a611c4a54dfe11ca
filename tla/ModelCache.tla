------------------------------ MODULE ModelCache ------------------------------
(***************************************************************************)
(* The model files of the shared cache (node/model_manager.js): each SDK   *)
(* process verifies them against the manifest, trusting a checksum cache,  *)
(* and downloads what is missing.  This phase of Lifecycle.start() comes   *)
(* after the bootstrap lock is released (node/lifecycle.js:142-155), so    *)
(* the files are read and rewritten by several processes at once.          *)
(*                                                                         *)
(* Models are numbered in the order of the manifest.  A version stands for *)
(* the size and modification time of a file; two downloads never share one *)
(* (temp names carry Date.now(), taken to differ as well).                 *)
(***************************************************************************)
EXTENDS Naturals, FiniteSets

CONSTANTS Clients,   \* the processes
          NModels,   \* models in the manifest
          Attempts,  \* retry_download(modelEntry, 3)
          Versions   \* bound: a download needs one that is not in use

ASSUME ModelConstants ==
    /\ NModels \in Nat /\ Attempts \in Nat \ {0}
    /\ {0, 1} \subseteq Versions

Models == 1..NModels

VARIABLES
    file,       \* file[m]: what is at models/<m>, and its version
    sums,       \* checksums.json: the cache section, {} when it does not parse
    listed,     \* installed_models.json parses
    validated,  \* manifest_hash.json holds the hash of the manifest
    at,         \* at[p]: where process p is in the phase
    task,       \* task[p][m]: p's verdict on model m
    seen,       \* seen[p][m]: version stat()ed and content hashed by p
    temp,       \* content of the temp file p is downloading to
    attempt,    \* attempts made at the current model
    write       \* the synchronous rewrite of a metadata file p is in, if any

fileVars == <<file, sums, listed, validated>>
modelVars == <<fileVars, at, task, seen, temp, attempt, write>>

Contents == {"absent", "good", "bad"}
File == [content : Contents, version : Versions]
\* sums holds records [model, version, full, content]: full says that the key
\* starts with the manifest's hash and not with "unknown".
Sum == [model : Models, version : Versions, full : BOOLEAN, content : Contents]
Write == [to : {"none", "sums", "list"}, open : BOOLEAN, value : SUBSET Sum]
NoWrite == [to |-> "none", open |-> FALSE, value |-> {}]
AllTodo == [m \in Models |-> "todo"]
NoneSeen == [m \in Models |-> [version |-> 0, content |-> "absent"]]

\* What earlier runs leave: intact, missing or damaged models, and checksums of
\* versions that were intact.
ModelInit ==
    /\ file \in [Models -> {[content |-> "absent", version |-> 0],
                            [content |-> "good", version |-> 0],
                            [content |-> "bad", version |-> 1]}]
    /\ \E M \in SUBSET Models :
         sums = {[model |-> m, version |-> 0, full |-> TRUE, content |-> "good"] : m \in M}
    /\ listed = TRUE /\ validated \in BOOLEAN
    /\ at = [p \in Clients |-> "idle"] /\ task = [p \in Clients |-> AllTodo]
    /\ seen = [p \in Clients |-> NoneSeen]
    /\ temp = [p \in Clients |-> "absent"] /\ attempt = [p \in Clients |-> 1]
    /\ write = [p \in Clients |-> NoWrite]

Put(entries, e) == {x \in entries : x.model # e.model} \cup {e}

\* A process in a synchronous read-modify-write does nothing else meanwhile.
Busy(p) == write[p] # NoWrite
Missing(p) == {m \in Models : task[p][m] = "missing"}
Current(p) == CHOOSE m \in Missing(p) : \A n \in Missing(p) : m <= n
Proceed(p, from, to) == at[p] = from /\ ~Busy(p) /\ at' = [at EXCEPT ![p] = to]

\* The versions no file, checksum or process knows of.
Unused(m) ==
    {v \in Versions :
        /\ v # file[m].version
        /\ \A e \in sums : e.model = m => e.version # v
        /\ \A q \in Clients :
             /\ seen[q][m].version # v
             /\ write[q].to = "sums" =>
                  \A e \in write[q].value : e.model = m => e.version # v}

\* writeFileSync truncates the file and then fills it.
Rewrite(p, to, value) ==
    write' = [write EXCEPT ![p] = [to |-> to, open |-> FALSE, value |-> value]]

WriteTruncates(p) ==
    /\ Busy(p) /\ ~write[p].open
    /\ sums' = IF write[p].to = "sums" THEN {} ELSE sums
    /\ listed' = (listed /\ write[p].to # "list")
    /\ write' = [write EXCEPT ![p].open = TRUE]
    /\ UNCHANGED <<file, validated, at, task, seen, temp, attempt>>

WriteFills(p) ==
    /\ write[p].open
    /\ sums' = IF write[p].to = "sums" THEN write[p].value ELSE sums
    /\ listed' = (listed \/ write[p].to = "list")
    /\ write' = [write EXCEPT ![p] = NoWrite]
    /\ UNCHANGED <<file, validated, at, task, seen, temp, attempt>>

\* validate_manifest_urls: every URL answers HEAD, or the cached manifest hash
\* says that they did.
ValidateUrls(p) ==
    /\ \/ Proceed(p, "urls", "verify") /\ validated' = TRUE
       \/ ~validated /\ Proceed(p, "urls", "failed") /\ UNCHANGED validated
    /\ UNCHANGED <<file, sums, listed, task, seen, temp, attempt, write>>

\* verify_model up to the await: no file, a cached hash under the same key, or
\* the file has to be hashed.
VerifyStat(p, m) ==
    /\ task[p][m] = "todo" /\ Proceed(p, "verify", "verify")
    /\ LET f == file[m]
           hits == {e \in sums : e.model = m /\ e.full /\ e.version = f.version}
       IN  /\ task' = [task EXCEPT ![p][m] =
                 CASE f.content = "absent"              -> "missing"
                   [] f.content # "absent" /\ hits = {} -> "hashing"
                   [] OTHER -> IF \E e \in hits : e.content = "good"
                               THEN "ok" ELSE "missing"]
           /\ seen' = [seen EXCEPT ![p][m].version = f.version]
    /\ UNCHANGED <<fileVars, temp, attempt, write>>

\* compute_sha256 opens the file later than it was stat()ed.
VerifyHash(p, m) ==
    /\ task[p][m] = "hashing" /\ Proceed(p, "verify", "verify")
    /\ task' = [task EXCEPT ![p][m] = "hashed"]
    /\ seen' = [seen EXCEPT ![p][m].content = file[m].content]
    /\ UNCHANGED <<fileVars, temp, attempt, write>>

\* Mutant: the key is made after the file was hashed.
VerifyDoneStatsLate(p, m) ==
    /\ task[p][m] = "hashed" /\ Proceed(p, "verify", "verify")
    /\ Rewrite(p, "sums", Put(sums, [model |-> m, version |-> file[m].version,
                                     full |-> TRUE, content |-> seen[p][m].content]))
    /\ task' = [task EXCEPT ![p][m] =
                  IF seen[p][m].content = "good" THEN "ok" ELSE "missing"]
    /\ UNCHANGED <<fileVars, seen, temp, attempt>>

\* verify_model after the await
VerifyDone(p, m) ==
    /\ task[p][m] = "hashed" /\ Proceed(p, "verify", "verify")
    /\ Rewrite(p, "sums", Put(sums, [model |-> m, version |-> seen[p][m].version,
                                     full |-> TRUE, content |-> seen[p][m].content]))
    /\ task' = [task EXCEPT ![p][m] =
                  IF seen[p][m].content = "good" THEN "ok" ELSE "missing"]
    /\ UNCHANGED <<fileVars, seen, temp, attempt>>

AllVerified(p) ==
    /\ \A m \in Models : task[p][m] \in {"ok", "missing"}
    /\ Proceed(p, "verify", IF Missing(p) = {} THEN "done" ELSE "fetch")
    /\ UNCHANGED <<fileVars, task, seen, temp, attempt, write>>

\* Mutant: attempts are not counted.
FailsForever(p, from) ==
    /\ Proceed(p, from, "fetch")
    /\ temp' = [temp EXCEPT ![p] = "absent"]
    /\ UNCHANGED <<fileVars, task, seen, attempt, write>>

\* retry_download: the third failure is thrown, the others are retried.
Fails(p, from) ==
    /\ Proceed(p, from, IF attempt[p] = Attempts THEN "failed" ELSE "fetch")
    /\ attempt' = [attempt EXCEPT ![p] = IF @ = Attempts THEN @ ELSE @ + 1]
    /\ temp' = [temp EXCEPT ![p] = "absent"]
    /\ UNCHANGED <<fileVars, task, seen, write>>

\* download_model: the body arrives, perhaps damaged, or the fetch throws.
Fetch(p) ==
    \/ /\ Proceed(p, "fetch", "check")
       /\ \E c \in {"good", "bad"} : temp' = [temp EXCEPT ![p] = c]
       /\ UNCHANGED <<fileVars, task, seen, attempt, write>>
    \/ Fails(p, "fetch")

\* Mutant: the download is not verified.
CheckDownloadSkipped(p) ==
    /\ Proceed(p, "check", "rename")
    /\ UNCHANGED <<fileVars, task, seen, temp, attempt, write>>

\* verify_download, then renameSync, which throws if the target is in use.
CheckDownload(p) ==
    \/ /\ temp[p] = "good" /\ Proceed(p, "check", "rename")
       /\ UNCHANGED <<fileVars, task, seen, temp, attempt, write>>
    \/ temp[p] = "bad" /\ Fails(p, "check")

Rename(p) ==
    \/ /\ Proceed(p, "rename", "note")
       /\ LET m == Current(p) IN
            /\ Unused(m) # {}
            /\ file' = [file EXCEPT ![m] = [content |-> temp[p],
                                            version |-> CHOOSE v \in Unused(m) : TRUE]]
       /\ temp' = [temp EXCEPT ![p] = "absent"]
       /\ UNCHANGED <<sums, listed, validated, task, seen, attempt, write>>
    \/ Fails(p, "rename")

\* The checksum of what the rename brought, under a key no verification uses.
NoteChecksum(p) ==
    /\ Proceed(p, "note", "list")
    /\ LET m == Current(p) IN
         Rewrite(p, "sums", Put(sums, [model |-> m, version |-> file[m].version,
                                       full |-> FALSE, content |-> "good"]))
    /\ UNCHANGED <<fileVars, task, seen, temp, attempt>>

\* save_model_metadata: load_installed_models does not guard its JSON.parse,
\* so a file that was cut short fails the attempt.  (What the list holds is left
\* out: nothing reads it.)
ListModel(p) ==
    \/ /\ listed /\ Proceed(p, "list", "files")
       /\ Rewrite(p, "list", {})
       /\ UNCHANGED <<fileVars, task, seen, temp, attempt>>
    \/ ~listed /\ Fails(p, "list")

\* The files section of checksums.json is rewritten with the cache section
\* beside it; the model is done.
ListChecksum(p) ==
    /\ Proceed(p, "files", IF Missing(p) = {Current(p)} THEN "done" ELSE "fetch")
    /\ Rewrite(p, "sums", sums)
    /\ task' = [task EXCEPT ![p][Current(p)] = "ok"]
    /\ attempt' = [attempt EXCEPT ![p] = 1]
    /\ UNCHANGED <<fileVars, seen, temp>>

ModelStep(p) ==
    \/ WriteTruncates(p) \/ WriteFills(p) \/ ValidateUrls(p) \/ AllVerified(p)
    \/ \E m \in Models : VerifyStat(p, m) \/ VerifyHash(p, m) \/ VerifyDone(p, m)
    \/ Fetch(p) \/ CheckDownload(p) \/ Rename(p) \/ NoteChecksum(p)
    \/ ListModel(p) \/ ListChecksum(p)

\* start() gets here (again), or the process ends: what it knew is gone.
Reset(p, to) ==
    /\ at' = [at EXCEPT ![p] = to]
    /\ task' = [task EXCEPT ![p] = AllTodo] /\ seen' = [seen EXCEPT ![p] = NoneSeen]
    /\ temp' = [temp EXCEPT ![p] = "absent"] /\ attempt' = [attempt EXCEPT ![p] = 1]
    /\ write' = [write EXCEPT ![p] = NoWrite]
    /\ UNCHANGED fileVars

Begin(p) == at[p] \in {"idle", "failed"} /\ Reset(p, "urls")
ModelCrash(p) == at[p] # "idle" /\ Reset(p, "idle")

ModelNext == \E p \in Clients : Begin(p) \/ ModelStep(p) \/ ModelCrash(p)

ModelSpec == ModelInit /\ [][ModelNext]_modelVars

\* A process in the phase runs on; nobody has to begin or to crash.
ModelFairSpec == ModelSpec /\ \A p \in Clients : WF_modelVars(ModelStep(p))

ModelTypeOK ==
    /\ file \in [Models -> File]
    /\ sums \subseteq Sum /\ listed \in BOOLEAN /\ validated \in BOOLEAN
    /\ at \in [Clients -> {"idle", "urls", "verify", "fetch", "check", "rename",
                           "note", "list", "files", "done", "failed"}]
    /\ task \in [Clients -> [Models -> {"todo", "hashing", "hashed", "ok", "missing"}]]
    /\ seen \in [Clients -> [Models -> File]]
    /\ temp \in [Clients -> Contents] /\ attempt \in [Clients -> 1..Attempts]
    /\ write \in [Clients -> Write]

\* A checksum that a verification would trust, because its key names the
\* version of the file that is there, is that file's: no interleaving of
\* downloads, hashes and rewrites of checksums.json makes a damaged model pass
\* or an intact one fail (model_manager.js:119-145, 194-203).
TrustedSumsAreTrue ==
    \A e \in sums :
        LET f == file[e.model] IN
        e.full /\ e.version = f.version /\ f.content # "absent" => e.content = f.content

\* When verifyOrDownload() has returned in a process, every model file is
\* intact and stays so, whatever the other processes still do (lifecycle.js:155).
DoneMeansIntact ==
    \A p \in Clients : at[p] = "done" => \A m \in Models : file[m].content = "good"

\* verifyOrDownload() returns or throws, whatever the network does (unless the
\* process ends): retries run out.
PhaseEnds ==
    \A p \in Clients : at[p] = "urls" ~> at[p] \in {"done", "failed", "idle"}
=============================================================================
