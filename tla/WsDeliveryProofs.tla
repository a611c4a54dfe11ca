--------------------------- MODULE WsDeliveryProofs ---------------------------
(***************************************************************************)
(* Proofs about WsDelivery for any messages, connections and retry budget. *)
(* Run(), the part all senders share, never touches accepted, pending or   *)
(* received, and takes a message out of the offline queue only into        *)
(* cleared; the lemmas about it carry the argument.                        *)
(***************************************************************************)
EXTENDS WsDelivery, TLAPS

\* Writing keeps the wire a function to sets of messages.
LEMMA WrittenType ==
    ASSUME NEW w \in [Conns -> SUBSET Msgs], NEW ms \in SUBSET Msgs, NEW to
    PROVE  Written(w, ms, to) \in [Conns -> SUBSET Msgs]
BY DEF Written

\* The variables Run() assigns keep their types.
LEMMA RunType ==
    ASSUME TypeOK, NEW a \in Loops, NEW work \in SUBSET Msgs,
           NEW cs \in SUBSET Conns, NEW w \in [Conns -> SUBSET Msgs],
           Run(a, work, cs, w)
    PROVE  /\ clients' \subseteq Conns
           /\ cur' \in [Loops -> Msgs \cup {None}]
           /\ iter' \in [Loops -> SUBSET Conns]
           /\ left' \in [Loops -> SUBSET Conns]
           /\ todo' \in [Loops -> SUBSET Msgs]
           /\ wire' \in [Conns -> SUBSET Msgs]
           /\ handler' \in [Conns -> {"none", "flushing", "reading", "ended"}]
           /\ offline' \subseteq Msgs
           /\ cleared' \subseteq Msgs
<1> USE DEF TypeOK
<1>2. clients' \subseteq Conns
  BY DEF Run
<1>3. CASE /\ cur' = [cur EXCEPT ![a] = None]
           /\ iter' = [iter EXCEPT ![a] = {}]
           /\ left' = [left EXCEPT ![a] = {}]
           /\ todo' = [todo EXCEPT ![a] = {}]
           /\ wire' = Written(w, work, cs)
           /\ Epilogue(a)
  <2>1. wire' \in [Conns -> SUBSET Msgs]
    BY <1>3, WrittenType
  <2>2. /\ handler' \in [Conns -> {"none", "flushing", "reading", "ended"}]
        /\ offline' \subseteq Msgs
        /\ cleared' \subseteq Msgs
    BY <1>3 DEF Epilogue
  <2>3. /\ cur' \in [Loops -> Msgs \cup {None}]
        /\ iter' \in [Loops -> SUBSET Conns]
        /\ left' \in [Loops -> SUBSET Conns]
        /\ todo' \in [Loops -> SUBSET Msgs]
    BY <1>3
  <2> QED
    BY <1>2, <2>1, <2>2, <2>3
<1>4. ASSUME NEW m \in work, NEW sent \in SUBSET work,
             NEW gone, NEW to \in SUBSET (cs \ gone),
             cur' = [cur EXCEPT ![a] = m],
             iter' = [iter EXCEPT ![a] = cs \ gone],
             left' = [left EXCEPT ![a] = (cs \ gone) \ to],
             todo' = [todo EXCEPT ![a] = work \ (sent \cup {m})],
             wire' = Written(Written(w, sent, cs), {m}, to),
             handler' = IF a = Retrier THEN handler
                        ELSE [handler EXCEPT ![a] = "flushing"],
             UNCHANGED <<offline, cleared>>
      PROVE  /\ cur' \in [Loops -> Msgs \cup {None}]
             /\ iter' \in [Loops -> SUBSET Conns]
             /\ left' \in [Loops -> SUBSET Conns]
             /\ todo' \in [Loops -> SUBSET Msgs]
             /\ wire' \in [Conns -> SUBSET Msgs]
             /\ handler' \in [Conns -> {"none", "flushing", "reading", "ended"}]
             /\ offline' \subseteq Msgs
             /\ cleared' \subseteq Msgs
  <2>1. Written(w, sent, cs) \in [Conns -> SUBSET Msgs]
    BY WrittenType
  <2>2. wire' \in [Conns -> SUBSET Msgs]
    <3>1. {m} \in SUBSET Msgs
      OBVIOUS
    <3> QED
      BY <1>4, <2>1, <3>1, WrittenType
  <2>3. handler' \in [Conns -> {"none", "flushing", "reading", "ended"}]
    BY <1>4
  <2>4. /\ cur' \in [Loops -> Msgs \cup {None}]
        /\ iter' \in [Loops -> SUBSET Conns]
    BY <1>4
  <2>5. /\ left' \in [Loops -> SUBSET Conns]
        /\ todo' \in [Loops -> SUBSET Msgs]
    BY <1>4
  <2> QED
    BY <1>4, <2>2, <2>3, <2>4, <2>5
<1>5. CASE \E m \in work, sent \in SUBSET work :
           \E gone \in IF sent = {} THEN {{}} ELSE Discards(cs, cs) :
           \E to \in SUBSET (cs \ gone) :
             /\ cur' = [cur EXCEPT ![a] = m]
             /\ iter' = [iter EXCEPT ![a] = cs \ gone]
             /\ left' = [left EXCEPT ![a] = (cs \ gone) \ to]
             /\ todo' = [todo EXCEPT ![a] = work \ (sent \cup {m})]
             /\ wire' = Written(Written(w, sent, cs), {m}, to)
             /\ handler' = IF a = Retrier THEN handler
                           ELSE [handler EXCEPT ![a] = "flushing"]
             /\ UNCHANGED <<offline, cleared>>
  <2>1. PICK m \in work, sent \in SUBSET work :
           \E gone \in IF sent = {} THEN {{}} ELSE Discards(cs, cs) :
           \E to \in SUBSET (cs \ gone) :
             /\ cur' = [cur EXCEPT ![a] = m]
             /\ iter' = [iter EXCEPT ![a] = cs \ gone]
             /\ left' = [left EXCEPT ![a] = (cs \ gone) \ to]
             /\ todo' = [todo EXCEPT ![a] = work \ (sent \cup {m})]
             /\ wire' = Written(Written(w, sent, cs), {m}, to)
             /\ handler' = IF a = Retrier THEN handler
                           ELSE [handler EXCEPT ![a] = "flushing"]
             /\ UNCHANGED <<offline, cleared>>
    BY <1>5
  <2> QED
    BY <1>2, <1>4, <2>1
<1> QED
  BY <1>3, <1>5 DEF Run

\* What Run() does to the queues: clear() or nothing, and it leaves no registered
\* reading client with a queue behind it.
LEMMA RunQueues ==
    ASSUME TypeOK, NEW a \in Loops, NEW work, NEW cs \in SUBSET Conns, NEW w,
           Run(a, work, cs, w),
           \A c \in cs : handler[c] = "reading" /\ c # a => offline = {}
    PROVE  /\ offline' \subseteq offline
           /\ offline \subseteq offline' \cup cleared'
           /\ cleared \subseteq cleared'
           /\ NothingStranded'
<1> USE ConstantsOK DEF TypeOK
<1>1. clients' \subseteq cs
  BY DEF Run
<1>2. CASE Epilogue(a)
  BY <1>1, <1>2 DEF Epilogue, NothingStranded, Loops
<1>3. CASE /\ handler' = IF a = Retrier THEN handler
                         ELSE [handler EXCEPT ![a] = "flushing"]
           /\ UNCHANGED <<offline, cleared>>
  BY <1>1, <1>3 DEF NothingStranded, Loops
<1> QED
  BY <1>2, <1>3 DEF Run

\* The parts of the invariant about queues, from what an action does to them.
LEMMA QueuesKept ==
    ASSUME IndInv,
           accepted' = accepted, pending' = pending, received' = received,
           offline' \subseteq offline,
           offline \subseteq offline' \cup cleared',
           cleared \subseteq cleared'
    PROVE  LostOnlyByClear' /\ HeldOnce' /\ pending' \cup offline' \subseteq accepted'
BY DEF IndInv, LostOnlyByClear, HeldOnce, Bookkeeping

\* A suspended send that is resumed.
LEMMA ResumeStep ==
    ASSUME IndInv, NEW a \in Loops, SendResumes(a)
    PROVE  IndInv'
<1> USE ConstantsOK DEF IndInv
<1>1. UNCHANGED <<accepted, pending, retries, tasks, received>>
  BY DEF SendResumes
<1>2. CASE Cardinality(clients) = Cardinality(iter[a])
  <2>1. UNCHANGED <<conn, retryLoop, acks>>
    BY <1>2 DEF SendResumes
  <2>2. PICK new \in SUBSET (clients \ iter[a]) : GoOn(a, (left[a] \cap clients) \cup new)
    BY <1>2 DEF SendResumes
  <2> DEFINE rest == (left[a] \cap clients) \cup new
  <2>3. /\ {cur[a]} \in SUBSET Msgs /\ todo[a] \in SUBSET Msgs
        /\ clients \in SUBSET Conns /\ rest \in SUBSET Conns
        /\ wire \in [Conns -> SUBSET Msgs]
    BY DEF SendResumes, TypeOK
  <2> HIDE DEF rest
  <2>4. ASSUME NEW gone \in Discards(clients, rest),
               Run(a, todo[a], clients \ gone, Written(wire, {cur[a]}, rest))
        PROVE  IndInv'
    <3>1. Written(wire, {cur[a]}, rest) \in [Conns -> SUBSET Msgs]
      BY <2>3, WrittenType
    <3>2. /\ clients' \subseteq Conns
          /\ cur' \in [Loops -> Msgs \cup {None}]
          /\ iter' \in [Loops -> SUBSET Conns]
          /\ left' \in [Loops -> SUBSET Conns]
          /\ todo' \in [Loops -> SUBSET Msgs]
          /\ wire' \in [Conns -> SUBSET Msgs]
          /\ handler' \in [Conns -> {"none", "flushing", "reading", "ended"}]
          /\ offline' \subseteq Msgs
          /\ cleared' \subseteq Msgs
      <4>1. clients \ gone \in SUBSET Conns
        BY <2>3
      <4> QED
        BY <2>3, <2>4, <3>1, <4>1, RunType
    <3>3. /\ offline' \subseteq offline
          /\ offline \subseteq offline' \cup cleared'
          /\ cleared \subseteq cleared'
          /\ NothingStranded'
      <4>1. /\ clients \ gone \in SUBSET Conns
            /\ \A c \in clients \ gone : handler[c] = "reading" /\ c # a => offline = {}
        BY <2>3 DEF NothingStranded
      <4> QED
        BY <2>4, <4>1, RunQueues
    <3>4. TypeOK'
      BY <1>1, <2>1, <3>2 DEF TypeOK
    <3> QED
      BY <1>1, <2>1, <3>3, <3>4, QueuesKept DEF Bookkeeping
  <2>5. ASSUME NEW to \in SUBSET rest,
               iter' = [iter EXCEPT ![a] = clients],
               left' = [left EXCEPT ![a] = rest \ to],
               wire' = Written(wire, {cur[a]}, to),
               UNCHANGED <<cur, todo, clients, handler, offline, cleared>>
        PROVE  IndInv'
    <3>1. wire' \in [Conns -> SUBSET Msgs]
      BY <2>3, <2>5, WrittenType
    <3>2. iter' \in [Loops -> SUBSET Conns] /\ left' \in [Loops -> SUBSET Conns]
      BY <2>3, <2>5 DEF TypeOK
    <3>3. TypeOK'
      BY <1>1, <2>1, <2>5, <3>1, <3>2 DEF TypeOK
    <3> QED
      BY <1>1, <2>1, <2>5, <3>3, QueuesKept DEF Bookkeeping, NothingStranded
  <2> QED
    BY <2>2, <2>4, <2>5 DEF GoOn, rest
<1>3. CASE Cardinality(clients) # Cardinality(iter[a])
  <2>1. UNCHANGED <<offline, cleared, clients>>
    BY <1>3 DEF SendResumes
  <2>2. /\ cur' \in [Loops -> Msgs \cup {None}]
        /\ iter' \in [Loops -> SUBSET Conns]
        /\ left' \in [Loops -> SUBSET Conns]
        /\ todo' \in [Loops -> SUBSET Msgs]
    BY <1>3 DEF SendResumes, TypeOK
  <2>3. CASE a = Retrier
    <3>1. retryLoop' = "dead" /\ UNCHANGED <<handler, conn, wire, acks>>
      BY <1>3, <2>3 DEF SendResumes
    <3> QED
      BY <1>1, <2>1, <2>2, <3>1, QueuesKept DEF TypeOK, NothingStranded, Bookkeeping
  <2>4. CASE a # Retrier
    <3>1. /\ handler' = [handler EXCEPT ![a] = "ended"]
          /\ conn' = [conn EXCEPT ![a] = "closed"]
          /\ wire' = [wire EXCEPT ![a] = {}]
          /\ acks' = [acks EXCEPT ![a] = {}]
          /\ UNCHANGED retryLoop
      BY <1>3, <2>4 DEF SendResumes
    <3>2. TypeOK'
      BY <1>1, <2>1, <2>2, <3>1 DEF TypeOK
    <3>3. NothingStranded'
      BY <2>1, <3>1 DEF NothingStranded, TypeOK
    <3>4. \A c \in Conns : acks'[c] \subseteq received'
      BY <1>1, <3>1 DEF Bookkeeping, TypeOK
    <3> QED
      BY <1>1, <2>1, <3>2, <3>3, <3>4, QueuesKept DEF Bookkeeping
  <2> QED
    BY <2>3, <2>4
<1> QED
  BY <1>2, <1>3

\* A round of the retry loop.
LEMMA RetryStep ==
    ASSUME IndInv, NEW due \in SUBSET Msgs, RetryRound(due)
    PROVE  IndInv'
<1> DEFINE dropped == {m \in due : OutOfRetries(m)}
           again == due \ dropped
<1> USE ConstantsOK DEF IndInv
<1>1. /\ due \subseteq pending
      /\ retries' = [m \in Msgs |-> IF m \in again \cap Retry
                                    THEN retries[m] + 1 ELSE retries[m]]
      /\ UNCHANGED <<conn, accepted, retryLoop, tasks, acks, received>>
  BY DEF RetryRound
<1>2. retries' \in [Msgs -> 0..MaxRetries]
  BY <1>1 DEF TypeOK, OutOfRetries
<1>3. dropped \subseteq due /\ dropped \cap Guaranteed = {}
  BY DEF OutOfRetries
<1>4. CASE clients = {}
  <2>1. /\ pending' = pending \ due
        /\ offline' = offline \cup again
        /\ UNCHANGED <<cleared, clients, handler, cur, iter, left, todo, wire>>
    BY <1>4 DEF RetryRound
  <2>2. TypeOK'
    BY <1>1, <1>2, <2>1 DEF TypeOK
  <2>3. LostOnlyByClear'
    BY <1>1, <1>3, <2>1 DEF LostOnlyByClear
  <2>4. HeldOnce' /\ NothingStranded' /\ Bookkeeping'
    BY <1>1, <1>4, <2>1 DEF HeldOnce, NothingStranded, Bookkeeping
  <2> QED
    BY <2>2, <2>3, <2>4
<1>5. CASE clients # {}
  <2>1. pending' = pending \ dropped /\ Run(Retrier, again, clients, wire)
    BY <1>5 DEF RetryRound
  <2>2. Retrier \in Loops /\ again \in SUBSET Msgs /\ clients \in SUBSET Conns
        /\ wire \in [Conns -> SUBSET Msgs]
    BY DEF Loops, TypeOK
  <2>3. /\ clients' \subseteq Conns
        /\ cur' \in [Loops -> Msgs \cup {None}]
        /\ iter' \in [Loops -> SUBSET Conns]
        /\ left' \in [Loops -> SUBSET Conns]
        /\ todo' \in [Loops -> SUBSET Msgs]
        /\ wire' \in [Conns -> SUBSET Msgs]
        /\ handler' \in [Conns -> {"none", "flushing", "reading", "ended"}]
        /\ offline' \subseteq Msgs
        /\ cleared' \subseteq Msgs
    BY <2>1, <2>2, RunType
  <2>4. /\ offline' \subseteq offline
        /\ offline \subseteq offline' \cup cleared'
        /\ cleared \subseteq cleared'
        /\ NothingStranded'
    BY <2>1, <2>2, RunQueues DEF NothingStranded
  <2>5. TypeOK'
    BY <1>1, <1>2, <2>1, <2>3 DEF TypeOK
  <2>6. LostOnlyByClear'
    BY <1>1, <1>3, <2>1, <2>4 DEF LostOnlyByClear
  <2>7. HeldOnce' /\ Bookkeeping'
    BY <1>1, <2>1, <2>4 DEF HeldOnce, Bookkeeping
  <2> QED
    BY <2>4, <2>5, <2>6, <2>7
<1> QED
  BY <1>4, <1>5

\* A client connects and its handler flushes the queue.
LEMMA ConnectStep ==
    ASSUME IndInv, NEW c \in Conns, Connect(c)
    PROVE  IndInv'
<1> USE ConstantsOK DEF IndInv
<1>1. /\ conn' = [conn EXCEPT ![c] = "open"]
      /\ Run(c, offline, clients \cup {c}, wire)
      /\ UNCHANGED <<accepted, pending, retries, retryLoop, tasks, acks, received>>
  BY DEF Connect
<1>2. c \in Loops /\ offline \in SUBSET Msgs /\ clients \cup {c} \in SUBSET Conns
      /\ wire \in [Conns -> SUBSET Msgs]
  BY DEF Loops, TypeOK
<1>3. /\ clients' \subseteq Conns
      /\ cur' \in [Loops -> Msgs \cup {None}]
      /\ iter' \in [Loops -> SUBSET Conns]
      /\ left' \in [Loops -> SUBSET Conns]
      /\ todo' \in [Loops -> SUBSET Msgs]
      /\ wire' \in [Conns -> SUBSET Msgs]
      /\ handler' \in [Conns -> {"none", "flushing", "reading", "ended"}]
      /\ offline' \subseteq Msgs
      /\ cleared' \subseteq Msgs
  BY <1>1, <1>2, RunType
<1>4. \A d \in clients \cup {c} : handler[d] = "reading" /\ d # c => offline = {}
  BY DEF NothingStranded
<1>5. /\ offline' \subseteq offline
      /\ offline \subseteq offline' \cup cleared'
      /\ cleared \subseteq cleared'
      /\ NothingStranded'
  BY <1>1, <1>2, <1>4, RunQueues
<1>6. TypeOK'
  BY <1>1, <1>3 DEF TypeOK
<1> QED
  BY <1>1, <1>5, <1>6, QueuesKept DEF Bookkeeping

\* The actions that do not run a sending loop.
LEMMA PlainStep ==
    ASSUME IndInv,
           \/ \E m \in Msgs : Broadcast(m) \/ RunTask(m)
           \/ \E c \in Conns : ConnectionLost(c) \/ HandlerEnds(c)
           \/ \E c \in Conns, m \in Msgs : Receive(c, m) \/ AckArrives(c, m)
           \/ UNCHANGED vars
    PROVE  IndInv'
<1> USE ConstantsOK DEF IndInv, TypeOK, LostOnlyByClear, HeldOnce, NothingStranded,
        Bookkeeping, vars, queueVars, loopVars
<1>1. ASSUME NEW m \in Msgs, Broadcast(m) PROVE IndInv'
  BY <1>1 DEF Broadcast
<1>2. ASSUME NEW m \in Msgs, RunTask(m) PROVE IndInv'
  <2>1. PICK gone \in Discards(clients, clients), to \in SUBSET clients :
          /\ clients' = clients \ gone
          /\ wire' = Written(wire, {m}, to)
    BY <1>2 DEF RunTask
  <2>2. wire' \in [Conns -> SUBSET Msgs]
    <3>1. {m} \in SUBSET Msgs
      OBVIOUS
    <3> QED
      BY <2>1, <3>1, WrittenType
  <2>3. tasks' = tasks \ {m}
        /\ UNCHANGED <<accepted, pending, retries, offline, cleared, conn, handler,
                       cur, iter, left, todo, retryLoop, acks, received>>
    BY <1>2 DEF RunTask
  <2> QED
    BY <2>1, <2>2, <2>3
<1>3. ASSUME NEW c \in Conns, ConnectionLost(c) PROVE IndInv'
  BY <1>3 DEF ConnectionLost
<1>4. ASSUME NEW c \in Conns, HandlerEnds(c) PROVE IndInv'
  BY <1>4 DEF HandlerEnds
<1>5. ASSUME NEW c \in Conns, NEW m \in Msgs, Receive(c, m) PROVE IndInv'
  BY <1>5 DEF Receive
<1>6. ASSUME NEW c \in Conns, NEW m \in Msgs, AckArrives(c, m) PROVE IndInv'
  BY <1>6 DEF AckArrives
<1>7. ASSUME UNCHANGED vars PROVE IndInv'
  BY <1>7
<1> QED
  BY <1>1, <1>2, <1>3, <1>4, <1>5, <1>6, <1>7

\* A new WSServer satisfies the invariant.
LEMMA InitInd == Init => IndInv
<1> SUFFICES ASSUME Init PROVE IndInv
  OBVIOUS
<1> USE ConstantsOK DEF Init
<1>1. retries \in [Msgs -> 0..MaxRetries]
  BY SMT
<1>2. TypeOK
  BY <1>1 DEF TypeOK
<1> QED
  BY <1>2 DEF IndInv, LostOnlyByClear, HeldOnce, NothingStranded, Bookkeeping

\* The inductive invariant holds throughout.
THEOREM Invariance == Spec => []IndInv
<1>1. IndInv /\ [Next]_vars => IndInv'
  BY ResumeStep, RetryStep, ConnectStep, PlainStep DEF Next
<1> QED
  BY InitInd, <1>1, PTL DEF Spec

\* The server never loses a guaranteed event except through the clear() that ends
\* the flush of _handler, for any number of messages and connections.
THEOREM OnlyClearLoses == Spec => []LostOnlyByClear
<1>1. IndInv => LostOnlyByClear
  BY DEF IndInv
<1> QED
  BY Invariance, <1>1, PTL

\* pending_acks and offline_queue never hold the same message.
THEOREM QueuesDisjoint == Spec => []HeldOnce
<1>1. IndInv => HeldOnce
  BY DEF IndInv
<1> QED
  BY Invariance, <1>1, PTL

\* A registered client that is being read from has no queue behind it.
THEOREM NoStranding == Spec => []NothingStranded
<1>1. IndInv => NothingStranded
  BY DEF IndInv
<1> QED
  BY Invariance, <1>1, PTL
===============================================================================
