------------------------------ MODULE WsDelivery ------------------------------
(***************************************************************************)
(* Delivery of the critical events ("wake", "fatal_error", "speech_start", *)
(* ...) from the supervisor's WebSocket server                             *)
(* (runtime/transport/websocket_server.py) to the SDK's Transport          *)
(* (node/transport.js): pending acknowledgements and their retry loop, the *)
(* queue for the time without a client and its flush when one connects.    *)
(*                                                                         *)
(* The server is one asyncio loop.  A coroutine gives way to others only   *)
(* where ws.send() really suspends, which it does when the connection's    *)
(* write buffer is full; everything between two such points is one action. *)
(* The client set may change meanwhile, and the iteration over it then     *)
(* raises RuntimeError.                                                    *)
(***************************************************************************)
EXTENDS Naturals, FiniteSets

CONSTANTS Guaranteed,   \* messages of the class GUARANTEED
          Retry,        \* messages of the class RETRY
          Conns,        \* WebSocket connections, one after the other
          MaxRetries,   \* 3: retries of a RETRY message
          Retrier,      \* the task running _retry_loop
          None

Msgs == Guaranteed \cup Retry
Loops == Conns \cup {Retrier}

ASSUME ConstantsOK ==
    /\ Guaranteed \cap Retry = {}
    /\ None \notin Msgs
    /\ Retrier \notin Conns
    /\ MaxRetries \in Nat

VARIABLES
    accepted,   \* messages broadcast() was called with
    pending,    \* pending_acks
    retries,    \* retries[m]: the entry "retries" of pending_acks
    offline,    \* offline_queue
    cleared,    \* history: messages offline_queue.clear() has removed
    clients,    \* self.clients
    handler,    \* handler[c]: where _handler of connection c is
    conn,       \* conn[c]: the connection itself
    cur,        \* cur[a]: the message in whose sending loop a is suspended
    iter,       \* iter[a]: the clients when that sending began
    left,       \* left[a]: those of them it has not written to yet
    todo,       \* todo[a]: what loop a has still to send after that
    retryLoop,  \* the _retry_loop task runs, or an exception has ended it
    tasks,      \* messages whose first send is scheduled (create_task)
    wire,       \* wire[c]: messages on their way to the client
    acks,       \* acks[c]: acknowledgements on their way to the server
    received    \* messages the SDK has received

queueVars == <<accepted, pending, retries, offline, cleared>>
loopVars  == <<cur, iter, left, todo, retryLoop>>
vars == <<queueVars, clients, handler, conn, loopVars, tasks, wire, acks, received>>

TypeOK ==
    /\ accepted \subseteq Msgs
    /\ pending \subseteq Msgs
    /\ retries \in [Msgs -> 0..MaxRetries]
    /\ offline \subseteq Msgs
    /\ cleared \subseteq Msgs
    /\ clients \subseteq Conns
    /\ handler \in [Conns -> {"none", "flushing", "reading", "ended"}]
    /\ conn \in [Conns -> {"unused", "open", "closed"}]
    /\ cur \in [Loops -> Msgs \cup {None}]
    /\ iter \in [Loops -> SUBSET Conns]
    /\ left \in [Loops -> SUBSET Conns]
    /\ todo \in [Loops -> SUBSET Msgs]
    /\ retryLoop \in {"running", "dead"}
    /\ tasks \subseteq Msgs
    /\ wire \in [Conns -> SUBSET Msgs]
    /\ acks \in [Conns -> SUBSET Msgs]
    /\ received \subseteq Msgs

Init ==
    /\ accepted = {}
    /\ pending = {}
    /\ retries = [m \in Msgs |-> 0]
    /\ offline = {}
    /\ cleared = {}
    /\ clients = {}
    /\ handler = [c \in Conns |-> "none"]
    /\ conn = [c \in Conns |-> "unused"]
    /\ cur = [a \in Loops |-> None]
    /\ iter = [a \in Loops |-> {}]
    /\ left = [a \in Loops |-> {}]
    /\ todo = [a \in Loops |-> {}]
    /\ retryLoop = "running"
    /\ tasks = {}
    /\ wire = [c \in Conns |-> {}]
    /\ acks = [c \in Conns |-> {}]
    /\ received = {}

------------------------------------------------------------------------------
(* Sending *)

\* Messages ms written to the connections in to; a closed one swallows them.
Written(w, ms, to) ==
    [c \in Conns |-> IF c \in to /\ conn'[c] = "open" THEN w[c] \cup ms ELSE w[c]]

\* The closed ones of cs that _send_to_clients() may discard when it has sent to all:
\* of those it has tried, surely the ones the server has closed itself.
Discards(cs, tried) ==
    {gone \in SUBSET {c \in cs : conn'[c] # "open"} :
        \A c \in tried : handler[c] = "ended" => c \in gone}

\* A send to one of these connections suspends; on one the server has closed it
\* raises at once.
CanSuspend(to) == \E c \in to : handler[c] # "ended"

\* Mutant: what has been flushed is not removed from the queue.
EpilogueSentOnly(a) ==
    IF a = Retrier
    THEN UNCHANGED <<offline, cleared, handler>>
    ELSE /\ UNCHANGED <<offline, cleared>>
         /\ handler' = [handler EXCEPT ![a] = "reading"]

\* What a loop does once everything is sent: a _handler clears the whole offline
\* queue, also of what came in while it was sending, and starts to read.
Epilogue(a) ==
    IF a = Retrier
    THEN UNCHANGED <<offline, cleared, handler>>
    ELSE /\ offline' = {}
         /\ cleared' = cleared \cup offline
         /\ handler' = [handler EXCEPT ![a] = "reading"]

\* Loop a sends the messages in work to the clients cs, one after the other, up to
\* its end or to the next ws.send() that suspends; clients are discarded after each
\* message.  w: the wire before.
Run(a, work, cs, w) ==
    \/ \E gone \in IF work = {} THEN {{}} ELSE Discards(cs, cs) :
        /\ clients' = cs \ gone
        /\ cur' = [cur EXCEPT ![a] = None]
        /\ iter' = [iter EXCEPT ![a] = {}]
        /\ left' = [left EXCEPT ![a] = {}]
        /\ todo' = [todo EXCEPT ![a] = {}]
        /\ wire' = Written(w, work, cs)
        /\ Epilogue(a)
    \/ \E m \in work, sent \in SUBSET work :
       \E gone \in IF sent = {} THEN {{}} ELSE Discards(cs, cs) :
       \E to \in SUBSET (cs \ gone) :
        /\ m \notin sent /\ CanSuspend(to)
        /\ clients' = cs \ gone
        /\ cur' = [cur EXCEPT ![a] = m]
        /\ iter' = [iter EXCEPT ![a] = cs \ gone]
        /\ left' = [left EXCEPT ![a] = (cs \ gone) \ to]
        /\ todo' = [todo EXCEPT ![a] = work \ (sent \cup {m})]
        /\ wire' = Written(Written(w, sent, cs), {m}, to)
        /\ handler' = IF a = Retrier THEN handler
                      ELSE [handler EXCEPT ![a] = "flushing"]
        /\ UNCHANGED <<offline, cleared>>

\* The iteration over the clients goes on with rest: to its end, where the clients
\* whose send failed are discarded, or to the next send that suspends.
GoOn(a, rest) ==
    \/ \E gone \in Discards(clients, rest) :
           Run(a, todo[a], clients \ gone, Written(wire, {cur[a]}, rest))
    \/ \E to \in SUBSET rest :
        /\ CanSuspend(to)
        /\ iter' = [iter EXCEPT ![a] = clients]
        /\ left' = [left EXCEPT ![a] = rest \ to]
        /\ wire' = Written(wire, {cur[a]}, to)
        /\ UNCHANGED <<cur, todo, clients, handler, offline, cleared>>

\* ws.send() returns, or raises ConnectionClosed, which is caught.  The iteration
\* goes on if the client set has its old size; otherwise RuntimeError ends the
\* retry task, or the handler of a connection, which stays in the client set.
SendResumes(a) ==
    /\ cur[a] # None
    /\ IF Cardinality(clients) = Cardinality(iter[a])
       THEN /\ UNCHANGED <<conn, retryLoop, acks>>
            /\ \E new \in SUBSET (clients \ iter[a]) :
                 GoOn(a, (left[a] \cap clients) \cup new)
       ELSE /\ cur' = [cur EXCEPT ![a] = None]
            /\ iter' = [iter EXCEPT ![a] = {}]
            /\ left' = [left EXCEPT ![a] = {}]
            /\ todo' = [todo EXCEPT ![a] = {}]
            /\ IF a = Retrier
               THEN retryLoop' = "dead" /\ UNCHANGED <<handler, conn, wire, acks>>
               ELSE /\ handler' = [handler EXCEPT ![a] = "ended"]
                    /\ conn' = [conn EXCEPT ![a] = "closed"]
                    /\ wire' = [wire EXCEPT ![a] = {}]
                    /\ acks' = [acks EXCEPT ![a] = {}]
                    /\ UNCHANGED retryLoop
            /\ UNCHANGED <<offline, cleared, clients>>
    /\ UNCHANGED <<accepted, pending, retries, tasks, received>>

------------------------------------------------------------------------------
(* broadcast() and the retry loop *)

\* Mutant: without a client the message is not queued.
BroadcastForgetsOffline(m) ==
    /\ m \notin accepted
    /\ accepted' = accepted \cup {m}
    /\ pending' = pending \cup (IF clients = {} THEN {} ELSE {m})
    /\ tasks' = tasks \cup (IF clients = {} THEN {} ELSE {m})
    /\ retries' = [retries EXCEPT ![m] = 0]
    /\ UNCHANGED <<offline, cleared, clients, handler, conn, loopVars, wire, acks,
                   received>>

\* Without a client the message is queued; otherwise it waits for its ack and its
\* first send is scheduled.
Broadcast(m) ==
    /\ m \notin accepted
    /\ accepted' = accepted \cup {m}
    /\ IF clients = {}
       THEN /\ offline' = offline \cup {m}
            /\ UNCHANGED <<pending, retries, tasks>>
       ELSE /\ pending' = pending \cup {m}
            /\ retries' = [retries EXCEPT ![m] = 0]
            /\ tasks' = tasks \cup {m}
            /\ UNCHANGED offline
    /\ UNCHANGED <<cleared, clients, handler, conn, loopVars, wire, acks, received>>

\* The scheduled send.  An exception ends only this task, so a suspended send is
\* one that reaches some of the clients.
RunTask(m) ==
    /\ m \in tasks
    /\ tasks' = tasks \ {m}
    /\ UNCHANGED conn
    /\ \E gone \in Discards(clients, clients), to \in SUBSET clients :
        /\ clients # {} => to # {}
        /\ clients' = clients \ gone
        /\ wire' = Written(wire, {m}, to)
    /\ UNCHANGED <<queueVars, handler, loopVars, acks, received>>

\* RETRY messages have a budget, GUARANTEED ones have none.
OutOfRetries(m) == m \in Retry /\ retries[m] >= MaxRetries

\* Mutant: a message that goes to the offline queue also stays pending.
RetryRoundKeepsPending(due) ==
    LET dropped == {m \in due : OutOfRetries(m)}
        again == due \ dropped
    IN  /\ retryLoop = "running" /\ cur[Retrier] = None
        /\ due # {} /\ due \subseteq pending
        /\ retries' = [m \in Msgs |-> IF m \in again \cap Retry
                                      THEN retries[m] + 1 ELSE retries[m]]
        /\ pending' = pending \ dropped
        /\ UNCHANGED <<conn, accepted, retryLoop, tasks, acks, received>>
        /\ IF clients = {}
           THEN /\ offline' = offline \cup again
                /\ UNCHANGED <<cleared, clients, handler, cur, iter, left, todo, wire>>
           ELSE Run(Retrier, again, clients, wire)

\* One round of _retry_loop in which the entries due have reached next_retry.
RetryRound(due) ==
    LET dropped == {m \in due : OutOfRetries(m)}
        again == due \ dropped
    IN  /\ retryLoop = "running"
        /\ cur[Retrier] = None
        /\ due # {} /\ due \subseteq pending
        /\ retries' = [m \in Msgs |-> IF m \in again \cap Retry
                                      THEN retries[m] + 1 ELSE retries[m]]
        /\ UNCHANGED <<conn, accepted, retryLoop, tasks, acks, received>>
        /\ IF clients = {}
           THEN /\ pending' = pending \ due
                /\ offline' = offline \cup again
                /\ UNCHANGED <<cleared, clients, handler, cur, iter, left, todo, wire>>
           ELSE /\ pending' = pending \ dropped
                /\ Run(Retrier, again, clients, wire)

------------------------------------------------------------------------------
(* Connections and the SDK's end *)

\* The SDK connects when it has no connection; _handler registers the client and
\* begins to flush the offline queue.
Connect(c) ==
    /\ conn[c] = "unused"
    /\ \A d \in Conns : conn[d] # "open"
    /\ conn' = [conn EXCEPT ![c] = "open"]
    /\ Run(c, offline, clients \cup {c}, wire)
    /\ UNCHANGED <<accepted, pending, retries, retryLoop, tasks, acks, received>>

\* The connection breaks: what is under way in both directions is lost.
ConnectionLost(c) ==
    /\ conn[c] = "open"
    /\ conn' = [conn EXCEPT ![c] = "closed"]
    /\ wire' = [wire EXCEPT ![c] = {}]
    /\ acks' = [acks EXCEPT ![c] = {}]
    /\ UNCHANGED <<queueVars, clients, handler, loopVars, tasks, received>>

\* The server notices: _handler leaves its read loop.
HandlerEnds(c) ==
    /\ handler[c] = "reading"
    /\ conn[c] = "closed"
    /\ handler' = [handler EXCEPT ![c] = "ended"]
    /\ clients' = clients \ {c}
    /\ UNCHANGED <<queueVars, conn, loopVars, tasks, wire, acks, received>>

\* Transport._handleMessage(): acknowledge, then emit.
Receive(c, m) ==
    /\ m \in wire[c]
    /\ wire' = [wire EXCEPT ![c] = @ \ {m}]
    /\ acks' = [acks EXCEPT ![c] = @ \cup {m}]
    /\ received' = received \cup {m}
    /\ UNCHANGED <<queueVars, clients, handler, conn, loopVars, tasks>>

\* Mutant: the ack is looked up by the envelope's own correlationId.
AckOfEnvelope(c, m) ==
    /\ handler[c] = "reading"
    /\ m \in acks[c]
    /\ acks' = [acks EXCEPT ![c] = @ \ {m}]
    /\ UNCHANGED <<queueVars, clients, handler, conn, loopVars, tasks, wire, received>>

\* _handler reads an ack.  (The ack's own correlationId is not that of the message.)
AckArrives(c, m) ==
    /\ handler[c] = "reading"
    /\ m \in acks[c]
    /\ acks' = [acks EXCEPT ![c] = @ \ {m}]
    /\ pending' = pending \ {m}
    /\ UNCHANGED <<accepted, retries, offline, cleared, clients, handler, conn,
                   loopVars, tasks, wire, received>>

------------------------------------------------------------------------------
Next ==
    \/ \E m \in Msgs : Broadcast(m) \/ RunTask(m)
    \/ \E due \in SUBSET Msgs : RetryRound(due)
    \/ \E a \in Loops : SendResumes(a)
    \/ \E c \in Conns : Connect(c) \/ ConnectionLost(c) \/ HandlerEnds(c)
    \/ \E c \in Conns, m \in Msgs : Receive(c, m) \/ AckArrives(c, m)

Spec == Init /\ [][Next]_vars

\* The event loop runs what is ready, every entry of pending_acks comes due, the
\* network delivers over an open connection and the server notices a broken one.
\* Neither events nor connections are assumed to come or to break.
Fairness ==
    /\ \A m \in Msgs :
        /\ WF_vars(RunTask(m))
        /\ WF_vars(\E due \in SUBSET Msgs : m \in due /\ RetryRound(due))
    /\ \A a \in Loops : WF_vars(SendResumes(a))
    /\ \A c \in Conns :
        /\ WF_vars(HandlerEnds(c))
        /\ \A m \in Msgs : WF_vars(Receive(c, m)) /\ WF_vars(AckArrives(c, m))

FairSpec == Spec /\ Fairness

------------------------------------------------------------------------------
(* Properties *)

\* A wake or fatal_error event that was broadcast is never lost by anything but
\* offline_queue.clear(): it has reached the SDK, still waits for its ack, or is
\* queued, however broadcasts, retries, acks, disconnects and suspended sends
\* interleave.
LostOnlyByClear ==
    \A m \in accepted \cap Guaranteed : m \in received \cup pending \cup offline \cup cleared

\* No message is both queued for the next client and retried for the present one.
HeldOnce == pending \cap offline = {}

\* Nothing is left in the offline queue while a registered client is being
\* served: only a new connection would flush it.
NothingStranded ==
    \A c \in clients : handler[c] = "reading" => offline = {}

\* Bookkeeping that makes the three inductive: held messages were broadcast, and
\* only received messages are acknowledged.
Bookkeeping ==
    /\ pending \cup offline \subseteq accepted
    /\ \A c \in Conns : acks[c] \subseteq received

IndInv == TypeOK /\ LostOnlyByClear /\ HeldOnce /\ NothingStranded /\ Bookkeeping

\* While the retry loop lives, every entry of pending_acks is acknowledged, dropped
\* or moved to the offline queue in the end, however clients come and go.
PendingSettles ==
    \A m \in Msgs : m \in pending ~> (m \notin pending \/ retryLoop = "dead")

\* A wake or fatal_error event that waits for its ack is retried until it is
\* acknowledged, or queued when there is no client.
RetriedUntilAck == \A m \in Guaranteed : m \in pending ~> m \notin pending

\* The server does not forget a wake or fatal_error event that the SDK has not
\* received: until its ack it waits for the next retry or the next client.
GuaranteedKept ==
    \A m \in accepted \cap Guaranteed : m \in received \cup pending \cup offline
===============================================================================
