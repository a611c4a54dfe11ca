------------------------------ MODULE ControlPath ------------------------------
(***************************************************************************)
(* How a call on the SDK reaches the wake phrases, and how an answer comes *)
(* back: the request and command methods of node/lifecycle.js, the         *)
(* supervisor's WebSocket and IPC handlers                                 *)
(* (runtime/supervisor/supervisor.py), the IPC channel (runtime/ipc) and   *)
(* the worker's entry point (runtime/worker/worker_process.py), composed   *)
(* with PhraseMatcher.  Connections break and workers die at any moment.   *)
(*                                                                         *)
(* A message on the IPC stream is small: a recv() returns whole messages,  *)
(* one or more.  Delivery of events to the SDK is module WsDelivery, the   *)
(* restart policy WorkerSupervisor, the SDK's states SdkLifecycle.         *)
(***************************************************************************)
EXTENDS PhraseMatcher

CONSTANTS Startup,      \* the profile start() was given
          Loadable,     \* the profiles the application switches to
          Requests,     \* calls that wait for an answer
          Kind,         \* Kind[r]: which one
          MaxCommands,  \* bound on commands the supervisor forwards
          MaxEvents     \* bound on messages the worker sends

ASSUME ControlConstants ==
    /\ Loadable \subseteq Profiles /\ Startup \in Profiles /\ Outcome[Startup] = "ok"
    /\ "other" \notin Profiles /\ Requests \cap (Profiles \cup {"other"}) = {}
    /\ Kind \in [Requests -> {"validate", "config", "health", "phrases"}]
    /\ MaxCommands \in Nat /\ MaxEvents \in Nat

VARIABLES
    link,     \* "up", "down" (recovering), "gone": stop() dropped the transport
    req,      \* req[r]: what the caller of request r sees
    toSup,    \* WebSocket messages on their way to the supervisor
    toSdk,    \* requests whose answer is on its way to the SDK
    sock,     \* IPCServer._client_sock: "none", the current worker's, or "stale"
    down, sent, got,     \* IPC to the worker; commands sent, last one handled
    up, upSent, upGot,   \* IPC to the supervisor, likewise
    worker,   \* the worker process
    wanted,   \* Lifecycle.profilePath
    lost      \* history: something has undone the last loadProfile(), perhaps

sdkVars == <<link, req, toSup, toSdk, wanted>>
ipcVars == <<sock, down, sent, got, up, upSent, upGot>>
vars == <<sdkVars, ipcVars, worker, lost, phraseVars>>

Commands == Loadable \cup {"other"}

TypeOK ==
    /\ PhraseTypeOK
    /\ link \in {"up", "down", "gone"}
    /\ req \in [Requests -> {"new", "waiting", "answered", "rejected", "thrown"}]
    /\ toSup \in Seq(Commands \cup Requests) /\ toSdk \in Seq(Requests)
    /\ sock \in {"none", "worker", "stale"}
    /\ down \in Seq([n : 1..MaxCommands, command : Commands])
    /\ up \in Seq(1..MaxEvents)
    /\ {sent, got} \subseteq 0..MaxCommands /\ {upSent, upGot} \subseteq 0..MaxEvents
    /\ worker \in {"dead", "starting", "loading", "live", "deaf"}
    /\ wanted \in Profiles
    /\ lost \in BOOLEAN

Init ==
    /\ link = "up" /\ req = [r \in Requests |-> "new"]
    /\ toSup = <<>> /\ toSdk = <<>> /\ wanted = Startup
    /\ sock = "none" /\ down = <<>> /\ up = <<>>
    /\ sent = 0 /\ got = 0 /\ upSent = 0 /\ upGot = 0
    /\ worker = "starting" /\ lost = FALSE
    /\ PhraseInit

-----------------------------------------------------------------------------
(* The SDK                                                                  *)

\* Commands that count against the bound are those not forwarded yet, too.
Pending == Len(SelectSeq(toSup, LAMBDA x : x \in Commands))

\* loadProfile; updateConfig, resetParameters and the phrase methods are
\* "other".  _requireActive throws unless the connection is there.
Command(c) ==
    /\ link = "up" /\ sent + Pending < MaxCommands
    /\ toSup' = Append(toSup, c)
    /\ wanted' = IF c \in Profiles THEN c ELSE wanted
    /\ lost' = (lost /\ c \notin Profiles)
    /\ UNCHANGED <<link, req, toSdk, ipcVars, worker, phraseVars>>

\* _diagnosticsRequest and validateProfile; without a connection the first
\* rejects and the second runs the validator itself.
Request(r) ==
    /\ req[r] = "new"
    /\ \/ /\ link = "up" /\ req' = [req EXCEPT ![r] = "waiting"]
          /\ toSup' = Append(toSup, r)
       \/ /\ link # "up" /\ UNCHANGED toSup
          /\ req' = [req EXCEPT ![r] = IF Kind[r] = "validate" THEN "answered"
                                       ELSE "rejected"]
    /\ UNCHANGED <<link, toSdk, wanted, ipcVars, worker, lost, phraseVars>>

\* Mutant: stop() cancels the timer and leaves the promise open.
RequestTimerCancelled(r) ==
    /\ req[r] = "waiting" /\ link # "gone"
    /\ req' = [req EXCEPT ![r] = "rejected"]
    /\ UNCHANGED <<link, toSup, toSdk, wanted, ipcVars, worker, lost, phraseVars>>

\* The timer of a request removes its listener from this.transport, which
\* stop() has set to null: a TypeError, and the promise never settles.
RequestTimer(r) ==
    /\ req[r] = "waiting"
    /\ req' = [req EXCEPT ![r] = IF link = "gone" THEN "thrown" ELSE "rejected"]
    /\ UNCHANGED <<link, toSup, toSdk, wanted, ipcVars, worker, lost, phraseVars>>

\* The supervisor echoes the correlation id of the envelope.  It is the one the
\* listener waits for in a diagnostics request; validateProfile puts its own
\* into the payload only.
EchoIsAwaited(r) == Kind[r] # "validate"

AnswerArrives ==
    /\ toSdk # <<>> /\ toSdk' = Tail(toSdk)
    /\ LET r == Head(toSdk) IN
         req' = IF req[r] = "waiting" /\ EchoIsAwaited(r)
                THEN [req EXCEPT ![r] = "answered"] ELSE req
    /\ UNCHANGED <<link, toSup, wanted, ipcVars, worker, lost, phraseVars>>

\* configure and the requests are fire-and-forget: what is under way is gone.
LinkLost ==
    /\ link = "up" /\ link' = "down"
    /\ toSup' = <<>> /\ toSdk' = <<>>
    /\ lost' = TRUE
    /\ UNCHANGED <<req, wanted, ipcVars, worker, phraseVars>>

LinkBack ==
    /\ link = "down" /\ link' = "up"
    /\ UNCHANGED <<req, toSup, toSdk, wanted, ipcVars, worker, lost, phraseVars>>

-----------------------------------------------------------------------------
(* The supervisor                                                           *)

\* IPCServer.send to a worker that is gone, or before one was accepted, fails,
\* which nobody looks at.
Forward(c) ==
    /\ sent' = sent + 1
    /\ down' = IF sock = "worker"
               THEN Append(down, [n |-> sent + 1, command |-> c]) ELSE down
    /\ lost' = (lost \/ sock # "worker")
    /\ UNCHANGED <<got, toSdk>>

\* Types other than effective_config, metrics and health are not answered, and
\* effective_config is not if the startup profile no longer loads.
Answer(r) ==
    /\ \/ Kind[r] # "phrases" /\ toSdk' = Append(toSdk, r)
       \/ Kind[r] \in {"phrases", "config"} /\ UNCHANGED toSdk
    /\ UNCHANGED <<sent, down, got, lost>>

\* _on_ws_receive
Handle ==
    /\ toSup # <<>> /\ toSup' = Tail(toSup)
    /\ \/ Head(toSup) \in Commands /\ Forward(Head(toSup))
       \/ Head(toSup) \in Requests /\ Answer(Head(toSup))
    /\ UNCHANGED <<link, req, wanted, sock, up, upSent, upGot, worker, phraseVars>>

\* _spawn_worker, after a crash or a restart: the command line is the one the
\* supervisor was started with.
Spawn ==
    /\ worker = "dead" /\ link # "gone" /\ worker' = "starting"
    /\ PhraseReset
    /\ UNCHANGED <<sdkVars, ipcVars, lost>>

\* _accept_loop, once the connection before is at its end
Accept ==
    /\ worker \in {"loading", "live"} /\ sock # "worker" /\ sock' = "worker"
    /\ UNCHANGED <<sdkVars, down, sent, got, up, upSent, upGot, worker, lost, phraseVars>>

\* recv_json gives the first message of what one recv() returned and drops the
\* others.
FirstOf(queue, k) == SubSeq(queue, k + 1, Len(queue))

\* Mutant: the last message of the buffer is taken, the others wait.
SupervisorReceivesLast ==
    /\ sock = "worker" /\ up # <<>>
    /\ upGot' = up[Len(up)] /\ up' = SubSeq(up, 1, Len(up) - 1)
    /\ UNCHANGED <<sdkVars, sock, down, sent, got, upSent, worker, lost, phraseVars>>

SupervisorReceives ==
    /\ sock = "worker" /\ up # <<>>
    /\ \E k \in 1..Len(up) : up' = FirstOf(up, k)
    /\ upGot' = Head(up)
    /\ UNCHANGED <<sdkVars, sock, down, sent, got, upSent, worker, lost, phraseVars>>

-----------------------------------------------------------------------------
(* The worker                                                               *)

\* IPCClient.connect within five seconds, or the worker goes on without.
Connect ==
    /\ worker = "starting" /\ worker' \in {"loading", "deaf"}
    /\ lost' = (lost \/ worker' = "deaf")
    /\ Begin(Startup)
    /\ UNCHANGED <<sdkVars, ipcVars>>

\* The engine has its profile; start_receiving.
Receiving ==
    /\ worker = "loading" /\ loadPc = "idle" /\ worker' = "live"
    /\ UNCHANGED <<sdkVars, ipcVars, lost, phraseVars>>

\* Mutant: load_profile runs on a thread of its own and a command that comes
\* meanwhile is refused.
WorkerReceivesBusy ==
    /\ worker = "live" /\ down # <<>>
    /\ got' = Head(down).n /\ down' = Tail(down)
    /\ IF Head(down).command \in Profiles /\ loadPc = "idle"
       THEN /\ Begin(Head(down).command)
            /\ lost' = (lost \/ Outcome[Head(down).command] # "ok")
       ELSE UNCHANGED <<phraseVars, lost>>
    /\ UNCHANGED <<sdkVars, sock, sent, up, upSent, upGot, worker>>

\* _recv_loop and _on_ipc_receive: load_profile runs on this thread, so nothing
\* is received meanwhile; every other command is ignored.
WorkerReceives ==
    /\ worker = "live" /\ loadPc = "idle" /\ down # <<>>
    /\ got' = Head(down).n
    /\ \E k \in 1..Len(down) :
         /\ down' = FirstOf(down, k)
         /\ lost' = (lost \/ k > 1 \/ (/\ Head(down).command \in Profiles
                                       /\ Outcome[Head(down).command] # "ok"))
    /\ \/ Head(down).command \in Profiles /\ Begin(Head(down).command)
       \/ Head(down).command = "other" /\ UNCHANGED phraseVars
    /\ UNCHANGED <<sdkVars, sock, sent, up, upSent, upGot, worker>>

\* Heartbeats, status and wake events, from several threads of the worker; a
\* deaf worker writes them to stdout.
Emit ==
    /\ worker \in {"loading", "live"} /\ upSent < MaxEvents
    /\ upSent' = upSent + 1 /\ up' = Append(up, upSent + 1)
    /\ UNCHANGED <<sdkVars, sock, down, sent, got, upGot, worker, lost, phraseVars>>

\* The worker ends; what was on its connection is lost with it.
Die ==
    /\ worker # "dead" /\ worker' = "dead"
    /\ sock' = IF sock = "worker" THEN "stale" ELSE sock
    /\ down' = <<>> /\ up' = <<>>
    /\ lost' = TRUE
    /\ PhraseReset
    /\ UNCHANGED <<sdkVars, sent, got, upSent, upGot>>

\* stop(): 'shutdown', close(), transport = null; the supervisor ends its worker.
Stop ==
    /\ link # "gone" /\ link' = "gone"
    /\ toSup' = <<>> /\ toSdk' = <<>> /\ down' = <<>> /\ up' = <<>>
    /\ worker' = "dead" /\ sock' = "none"
    /\ lost' = TRUE
    /\ PhraseReset
    /\ UNCHANGED <<req, wanted, sent, got, upSent, upGot>>

PhraseStep ==
    /\ worker \in {"loading", "live", "deaf"}
    /\ LoadStep \/ MatchStep \/ (worker # "loading" /\ \E t \in Texts : Hear(t))
    /\ UNCHANGED <<sdkVars, ipcVars, worker, lost>>

Next ==
    \/ \E c \in Commands : Command(c)
    \/ \E r \in Requests : Request(r) \/ RequestTimer(r)
    \/ AnswerArrives \/ LinkLost \/ LinkBack \/ Handle \/ Spawn \/ Accept
    \/ SupervisorReceives \/ Connect \/ Receiving \/ WorkerReceives \/ Emit
    \/ Die \/ Stop \/ PhraseStep

Spec == Init /\ [][Next]_vars

LoadProceeds == LoadStep /\ UNCHANGED <<sdkVars, ipcVars, worker, lost>>

\* Timers fire, the supervisor's and the worker's threads run; nobody has to
\* call, speak, crash or reconnect.
Fairness ==
    /\ \A r \in Requests : WF_vars(RequestTimer(r))
    /\ WF_vars(Receiving) /\ WF_vars(WorkerReceives) /\ WF_vars(LoadProceeds)

FairSpec == Spec /\ Fairness

-----------------------------------------------------------------------------

Quiet ==
    /\ worker = "live" /\ loadPc = "idle" /\ down = <<>>
    /\ \A i \in DOMAIN toSup : toSup[i] \notin Profiles

\* When every command has arrived, the worker listens for the profile of the
\* last loadProfile(), unless since that call the connection to the supervisor
\* broke, the worker was not there or was replaced, another command came in
\* the same recv(), or the profile is not valid: these are all the ways to lose
\* one (supervisor.py:293, ipc/protocol.py:22, worker_process.py:50).
ProfileLostOnlyBy == Quiet /\ installed # wanted => lost

\* In both directions the channel handles messages in the order they were sent,
\* across crashes and restarts of the worker: a profile or a status that was
\* overtaken never comes after the later one (ipc/channel.py, ipc/protocol.py).
DownFifo == INSTANCE LossyFifo WITH sent <- sent, got <- got
UpFifo == INSTANCE LossyFifo WITH sent <- upSent, got <- upGot
ChannelInOrder == DownFifo!Spec /\ UpFifo!Spec

\* Every request is answered, rejected or, when stop() dropped the transport
\* under it, ends in the TypeError of its timer (lifecycle.js:357-485).
RequestSettles ==
    \A r \in Requests : req[r] = "waiting" ~> req[r] \in {"answered", "rejected", "thrown"}

\* A live worker goes on emptying the stream of commands until it dies: no
\* profile, valid or not, stops its receiving thread.
StreamDrained ==
    worker = "live" /\ down # <<>> ~> down = <<>> \/ worker # "live"

\* An answer that reaches a request still waiting for it settles the request.
AnswersAreTaken ==
    [][\A r \in Requests : toSdk # <<>> /\ toSdk' = Tail(toSdk) /\ link' = "up"
          /\ Head(toSdk) = r /\ req[r] = "waiting" => req'[r] = "answered"]_vars
=============================================================================
