-------------------------- MODULE WakeEngineProofs --------------------------
(* Proofs about WakeEngine, for every bound on generations and every retry    *)
(* limit: the types, at most one wake per decode stream, the generation gate, *)
(* the refinement of WakeGate, and the state machines after the resets.       *)
EXTENDS WakeEngine, TLAPS

(* A stream is created for every generation counted, once its thread gets     *)
(* there, and resets stay within the bound.                                   *)
Counts ==
    /\ gen = stream + At("worker", "stream") + At("watchdog", "stream")
    /\ gen + At("worker", "generation") + At("watchdog", "generation") <= MaxGen

(* A thread outside the moves is at the first one. *)
MoveAtStart ==
    \A t \in Threads :
        pc[t] \notin {"test", "check", "write", "clear"} => move[t] = 1

(* The policy escalates no later than at its limit. *)
PolicyWithinLimit == ~escalated => retries < MaxRetries

(* The part of a worker's reset in which the peak may still be that of the    *)
(* stream that fired.                                                         *)
PeakNotCleared ==
    \/ pc["worker"] \in {"generation", "stream", "clear", "dead"}
    \/ pc["worker"] \in {"test", "check", "write"} /\ move["worker"] <= LastRecover

(* Everything the engine may use as evidence comes from a stream created ...  *)
EvidenceExists ==
    /\ \A s \in window \cup smooth : s <= stream
    /\ peak <= stream
    /\ heard <= stream

(* ... and, once its phrase has fired, from none that could be used again.    *)
AnsweredIsGone ==
    \A s \in Streams : answers[s] > 0 =>
        /\ s <= stream
        /\ s \notin window
        /\ s \notin smooth
        /\ s = stream => pc["worker"] \in {"generation", "stream"}
        /\ s = peak => PeakNotCleared
        /\ pc["worker"] \in {"track", "label", "engine"} => s # heard

(* The last generation that fired is over as soon as the worker's reset has   *)
(* counted the next one.                                                      *)
TriggerInThePast ==
    /\ lastTrigger <= gen
    /\ pc["worker"] # "generation" => lastTrigger < gen
    /\ pc["worker"] = "engine" => lastTrigger < label /\ label <= gen

IndInv ==
    /\ TypeOK /\ Counts /\ MoveAtStart /\ PolicyWithinLimit
    /\ EvidenceExists /\ AnsweredIsGone /\ TriggerInThePast
    /\ OneWakePerStream

-----------------------------------------------------------------------------
LEMMA ThreadsAre == Threads = {"worker", "watchdog"} /\ "worker" # "watchdog"
  BY DEF Threads

(* What Advance does to the control state: it stays typed, the other thread   *)
(* stays where it is, and the peak is cleared before the worker is idle.      *)
LEMMA AdvanceFacts ==
  ASSUME TypeOK, MoveAtStart, PolicyWithinLimit, NEW t \in Threads,
         pc[t] \in {"test", "write"}, Advance(t)
  PROVE  /\ pc' \in [Threads -> WorkerPcs \cup WatchdogPcs]
         /\ pc'["worker"] \in WorkerPcs /\ pc'["watchdog"] \in WatchdogPcs
         /\ pc'[t] \in {"idle", "queue", "test", "clear"}
         /\ \A u \in Threads \ {t} : pc'[u] = pc[u]
         /\ move' \in [Threads -> 1 .. LastMove]
         /\ reason' \in Reasons \cup {None}
         /\ retries' \in 0 .. MaxRetries /\ escalated' \in BOOLEAN
         /\ backoff' \in BOOLEAN
         /\ MoveAtStart' /\ PolicyWithinLimit'
         /\ PeakNotCleared => PeakNotCleared'
<1> USE ThreadsAre, MaxRetriesAssumption
<1> USE DEF TypeOK, WorkerPcs, WatchdogPcs, ResetPhases
<1>1. CASE move[t] = LastMove
  <2>1. /\ pc' = [pc EXCEPT ![t] = Returned(t)]
        /\ move' = [move EXCEPT ![t] = 1]
        /\ reason' \in {None, reason}
    BY <1>1 DEF Advance, Leave, Goto
  <2>2. Returned(t) \in {"idle", "queue"} /\ (t = "worker" => Returned(t) = "idle")
    BY DEF Returned, NextCheck
  <2>3. /\ retries' \in 0 .. MaxRetries /\ backoff' \in BOOLEAN
        /\ escalated' \in BOOLEAN /\ PolicyWithinLimit'
    <3>1. /\ retries' = IF t = "watchdog" THEN 0 ELSE retries
          /\ escalated' = IF t = "watchdog" THEN FALSE ELSE escalated
          /\ backoff' = backoff
      BY <1>1 DEF Advance
    <3>2. CASE t = "watchdog" BY <3>1, <3>2 DEF PolicyWithinLimit
    <3>3. CASE t # "watchdog" BY <3>1, <3>3 DEF PolicyWithinLimit
    <3>4. QED BY <3>2, <3>3
  <2>4. MoveAtStart'
    BY <2>1, <2>2 DEF MoveAtStart, LastMove
  <2>5. PeakNotCleared => PeakNotCleared'
    BY <1>1, <2>1, <2>2 DEF PeakNotCleared, LastMove, LastRecover
  <2>6. QED BY <2>1, <2>2, <2>3, <2>4, <2>5 DEF LastMove
<1>2. CASE move[t] # LastMove
  <2>1. /\ pc' = [pc EXCEPT ![t] = IF move[t] = LastRecover THEN "clear" ELSE "test"]
        /\ move' = [move EXCEPT ![t] = @ + 1]
        /\ UNCHANGED <<reason, retries, escalated, backoff>>
    BY <1>2 DEF Advance, Goto, policyVars
  <2>2. MoveAtStart' /\ PolicyWithinLimit'
    BY <2>1 DEF MoveAtStart, PolicyWithinLimit
  <2>3. PeakNotCleared => PeakNotCleared'
    BY <1>2, <2>1 DEF PeakNotCleared, LastMove, LastRecover
  <2>4. move' \in [Threads -> 1 .. LastMove]
    BY <1>2, <2>1 DEF LastMove
  <2>5. QED BY <2>1, <2>2, <2>3, <2>4
<1>3. QED BY <1>1, <1>2

(* A step that changes none of the engine's, the recogniser's and the         *)
(* worker's local variables, and moves the worker only where it may be.       *)
LEMMA ControlStep ==
  ASSUME IndInv, TypeOK', Counts', MoveAtStart', PolicyWithinLimit',
         UNCHANGED <<asrVars, resultVars, engineVars>>,
         PeakNotCleared => PeakNotCleared',
         pc'["worker"] \in {"track", "label", "engine", "generation", "stream"}
            => pc'["worker"] = pc["worker"],
         pc["worker"] \in {"generation", "stream"} => pc'["worker"] = pc["worker"]
  PROVE  IndInv'
<1> USE DEF IndInv
<1>1. /\ gen' = gen /\ stream' = stream /\ peak' = peak /\ heard' = heard
      /\ label' = label /\ window' = window /\ smooth' = smooth
      /\ lastTrigger' = lastTrigger /\ answers' = answers
  BY DEF asrVars, resultVars, engineVars
<1>2. EvidenceExists'
  BY <1>1 DEF EvidenceExists
<1>3. AnsweredIsGone'
  BY <1>1 DEF AnsweredIsGone
<1>4. TriggerInThePast'
  BY <1>1 DEF TriggerInThePast
<1>5. OneWakePerStream'
  BY <1>1 DEF OneWakePerStream
<1>6. QED BY <1>2, <1>3, <1>4, <1>5

LEMMA TestStep ==
  ASSUME IndInv, NEW t \in Threads, TestState(t)
  PROVE  IndInv'
<1> USE ThreadsAre
<1> DEFINE m == Moves[move[t]]
<1>0. TypeOK /\ MoveAtStart /\ PolicyWithinLimit /\ Counts
  BY DEF IndInv
<1>1. /\ pc[t] = "test"
      /\ UNCHANGED <<fsm, asrVars, resultVars, engineVars, pauseAsked>>
  BY DEF TestState
<1>2. CASE fsm[m.fsm] = m.src
  <2>1. pc' = [pc EXCEPT ![t] = "check"] /\ UNCHANGED <<move, reason, policyVars>>
    BY <1>2 DEF TestState, Goto
  <2>2. TypeOK'
    BY <1>0, <1>1, <2>1 DEF TypeOK, WorkerPcs, WatchdogPcs, ResetPhases,
       asrVars, resultVars, engineVars, policyVars
  <2>3. MoveAtStart' /\ PolicyWithinLimit' /\ Counts'
    BY <1>0, <1>1, <2>1 DEF MoveAtStart, PolicyWithinLimit, Counts, At, TypeOK,
       asrVars, policyVars
  <2>4. PeakNotCleared => PeakNotCleared'
    BY <1>0, <1>1, <2>1 DEF PeakNotCleared, TypeOK
  <2>5. QED BY <1>0, <1>1, <2>1, <2>2, <2>3, <2>4, ControlStep DEF TypeOK
<1>3. CASE ~(fsm[m.fsm] = m.src)
  <2>1. Advance(t)
    BY <1>3 DEF TestState
  <2>2. TypeOK'
    BY <1>0, <1>1, <2>1, AdvanceFacts DEF TypeOK, asrVars, resultVars, engineVars
  <2>3. Counts'
    BY <1>0, <1>1, <2>1, AdvanceFacts DEF Counts, At, asrVars
  <2>4. QED BY <1>0, <1>1, <2>1, <2>2, <2>3, AdvanceFacts, ControlStep
<1>4. QED BY <1>2, <1>3

LEMMA CheckStep ==
  ASSUME IndInv, NEW t \in Threads, CheckTransition(t)
  PROVE  IndInv'
<1> USE ThreadsAre
<1>0. TypeOK /\ MoveAtStart /\ PolicyWithinLimit /\ Counts
  BY DEF IndInv
<1>1. /\ pc[t] = "check"
      /\ UNCHANGED <<fsm, asrVars, resultVars, engineVars, policyVars, pauseAsked>>
  BY DEF CheckTransition
<1>2. \/ pc' = [pc EXCEPT ![t] = "write"] /\ move' = move /\ reason' = reason
      \/ /\ pc' = [pc EXCEPT ![t] = Raised(t)]
         /\ move' = [move EXCEPT ![t] = 1]
         /\ reason' \in {None, reason}
  BY DEF CheckTransition, Goto, Leave
<1>3. Raised(t) \in {"dead", "idle", "queue"} /\ (Raised(t) = "dead" <=> t = "worker")
  BY DEF Raised, NextCheck
<1>4. TypeOK'
  BY <1>0, <1>1, <1>2, <1>3 DEF TypeOK, WorkerPcs, WatchdogPcs, ResetPhases, LastMove,
     asrVars, resultVars, engineVars, policyVars
<1>5. MoveAtStart' /\ PolicyWithinLimit' /\ Counts'
  BY <1>0, <1>1, <1>2, <1>3 DEF MoveAtStart, PolicyWithinLimit, Counts, At, TypeOK,
     asrVars, policyVars
<1>6. PeakNotCleared => PeakNotCleared'
  BY <1>0, <1>1, <1>2, <1>3 DEF PeakNotCleared, TypeOK
<1>7. QED BY <1>0, <1>1, <1>2, <1>3, <1>4, <1>5, <1>6, ControlStep DEF TypeOK

LEMMA WriteStep ==
  ASSUME IndInv, NEW t \in Threads, WriteState(t)
  PROVE  IndInv'
<1> USE ThreadsAre
<1> DEFINE m == Moves[move[t]]
<1>0. TypeOK /\ MoveAtStart /\ PolicyWithinLimit /\ Counts
  BY DEF IndInv
<1>1. /\ pc[t] = "write"
      /\ fsm' = [fsm EXCEPT ![m.fsm] = m.dst]
      /\ Advance(t)
      /\ UNCHANGED <<asrVars, resultVars, engineVars, pauseAsked>>
  BY DEF WriteState
<1>2. m.dst \in SubStates
  BY <1>0 DEF TypeOK, Moves, LastMove, SubStates
<1>3. TypeOK'
  BY <1>0, <1>1, <1>2, AdvanceFacts DEF TypeOK, asrVars, resultVars, engineVars
<1>4. Counts'
  BY <1>0, <1>1, AdvanceFacts DEF Counts, At, asrVars
<1>5. QED BY <1>0, <1>1, <1>3, <1>4, AdvanceFacts, ControlStep

LEMMA CountStep ==
  ASSUME IndInv, NEW t \in Threads, CountGeneration(t)
  PROVE  IndInv'
<1> USE ThreadsAre, MaxGenAssumption DEF IndInv
<1>1. /\ pc[t] = "generation" /\ gen' = gen + 1
      /\ pc' = [pc EXCEPT ![t] = "stream"]
      /\ UNCHANGED <<move, reason, fsm, stream, spoken, peak, resultVars,
                     engineVars, policyVars, pauseAsked>>
  BY DEF CountGeneration, Goto
<1>2. Counts'
  BY <1>1 DEF Counts, At, TypeOK, Streams
<1>3. TypeOK'
  BY <1>1 DEF Counts, At, TypeOK, Streams, WorkerPcs, WatchdogPcs, ResetPhases,
     resultVars, engineVars, policyVars
<1>4. MoveAtStart' /\ PolicyWithinLimit' /\ EvidenceExists' /\ OneWakePerStream'
  BY <1>1 DEF MoveAtStart, PolicyWithinLimit, EvidenceExists, OneWakePerStream, TypeOK,
     resultVars, engineVars, policyVars
<1>5. AnsweredIsGone'
  BY <1>1 DEF AnsweredIsGone, PeakNotCleared, TypeOK, resultVars, engineVars
<1>6. TriggerInThePast'
  BY <1>1 DEF TriggerInThePast, TypeOK, resultVars, engineVars
<1>7. QED BY <1>2, <1>3, <1>4, <1>5, <1>6

LEMMA CreateStep ==
  ASSUME IndInv, NEW t \in Threads, CreateStream(t)
  PROVE  IndInv'
<1> USE ThreadsAre, MaxGenAssumption DEF IndInv
<1>1. /\ pc[t] = "stream" /\ stream' = stream + 1
      /\ pc' = [pc EXCEPT ![t] = "test"]
      /\ UNCHANGED <<move, reason, fsm, gen, spoken, peak, resultVars,
                     engineVars, policyVars, pauseAsked>>
  BY DEF CreateStream, Goto
<1>2. Counts'
  BY <1>1 DEF Counts, At, TypeOK, Streams
<1>3. TypeOK'
  BY <1>1 DEF Counts, At, TypeOK, Streams, WorkerPcs, WatchdogPcs, ResetPhases,
     resultVars, engineVars, policyVars
<1>4. MoveAtStart' /\ PolicyWithinLimit' /\ OneWakePerStream'
  BY <1>1 DEF MoveAtStart, PolicyWithinLimit, OneWakePerStream, TypeOK,
     resultVars, engineVars, policyVars
<1>5. EvidenceExists'
  BY <1>1 DEF EvidenceExists, TypeOK, Streams, resultVars, engineVars
<1>6. AnsweredIsGone'
  BY <1>1 DEF AnsweredIsGone, PeakNotCleared, MoveAtStart, TypeOK, Streams,
     LastRecover, resultVars, engineVars
<1>7. TriggerInThePast'
  BY <1>1 DEF TriggerInThePast, TypeOK, resultVars, engineVars
<1>8. QED BY <1>2, <1>3, <1>4, <1>5, <1>6, <1>7

LEMMA ClearStep ==
  ASSUME IndInv, NEW t \in Threads, ResetState(t)
  PROVE  IndInv'
<1> USE ThreadsAre, MaxGenAssumption DEF IndInv
<1>1. /\ pc[t] = "clear" /\ peak' = 0 /\ spoken' = FALSE
      /\ pc' = [pc EXCEPT ![t] = "test"]
      /\ UNCHANGED <<move, reason, fsm, gen, stream, resultVars, engineVars,
                     policyVars, pauseAsked>>
  BY DEF ResetState, Goto
<1>2. TypeOK' /\ Counts'
  <2>1. TypeOK'
    <3>1. spoken' \in BOOLEAN /\ peak' \in 0 .. MaxGen
      <4>1. spoken' = FALSE /\ peak' = 0 BY <1>1
      <4>2. 0 \in 0 .. MaxGen OBVIOUS
      <4>3. QED BY <4>1, <4>2, Zenon
    <3>2. pc' \in [Threads -> WorkerPcs \cup WatchdogPcs]
          /\ pc'["worker"] \in WorkerPcs /\ pc'["watchdog"] \in WatchdogPcs
      BY <1>1 DEF TypeOK, WorkerPcs, WatchdogPcs, ResetPhases
    <3>3. QED BY <1>1, <3>1, <3>2 DEF TypeOK, resultVars, engineVars, policyVars
  <2>2. Counts'
    BY <1>1 DEF Counts, At, TypeOK, Streams
  <2>3. QED BY <2>1, <2>2
<1>3. MoveAtStart' /\ PolicyWithinLimit' /\ OneWakePerStream' /\ EvidenceExists'
  BY <1>1 DEF MoveAtStart, PolicyWithinLimit, OneWakePerStream, EvidenceExists, TypeOK,
     Streams, resultVars, engineVars, policyVars
<1>4. AnsweredIsGone'
  BY <1>1 DEF AnsweredIsGone, TypeOK, Streams, resultVars, engineVars
<1>5. TriggerInThePast'
  BY <1>1 DEF TriggerInThePast, TypeOK, resultVars, engineVars
<1>6. QED BY <1>2, <1>3, <1>4, <1>5

(* Every step of a reset, whichever thread takes it. *)
LEMMA ResetPreserves ==
  ASSUME IndInv, NEW t \in Threads, ResetStep(t)
  PROVE  IndInv'
  BY CountStep, CreateStep, TestStep, CheckStep, WriteStep, ClearStep DEF ResetStep

(* The steps of the worker outside a reset and outside the engine. *)
LEMMA ChunkPreserves ==
  ASSUME IndInv,
         SpeechStarts \/ InactivityReset \/ ReadGeneration
           \/ \E b \in BOOLEAN : ReadResult(b) \/ TrackPeak(b)
  PROVE  IndInv'
<1> USE ThreadsAre, MaxGenAssumption DEF IndInv
<1> USE DEF Counts, At, TypeOK, Streams, WorkerPcs, WatchdogPcs, ResetPhases,
     MoveAtStart, PolicyWithinLimit, OneWakePerStream, EvidenceExists, Goto,
     TriggerInThePast, threadVars, asrVars, resultVars, engineVars, policyVars
<1>1. CASE SpeechStarts
  BY <1>1 DEF SpeechStarts, AnsweredIsGone, PeakNotCleared
<1>2. CASE InactivityReset
  <2>1. /\ TypeOK' /\ Counts' /\ MoveAtStart' /\ PolicyWithinLimit'
        /\ OneWakePerStream' /\ EvidenceExists' /\ TriggerInThePast'
    BY <1>2 DEF InactivityReset, Room
  <2>2. AnsweredIsGone'
    BY <1>2 DEF InactivityReset, AnsweredIsGone, PeakNotCleared
  <2>3. QED BY <2>1, <2>2
<1>3. CASE ReadGeneration
  <2>1. /\ TypeOK' /\ Counts' /\ MoveAtStart' /\ PolicyWithinLimit'
        /\ OneWakePerStream' /\ EvidenceExists' /\ TriggerInThePast'
    BY <1>3 DEF ReadGeneration
  <2>2. AnsweredIsGone'
    BY <1>3 DEF ReadGeneration, AnsweredIsGone, PeakNotCleared
  <2>3. QED BY <2>1, <2>2
<1>4. ASSUME NEW b \in BOOLEAN, ReadResult(b) PROVE IndInv'
  <2>1. /\ TypeOK' /\ Counts' /\ MoveAtStart' /\ PolicyWithinLimit'
        /\ OneWakePerStream' /\ EvidenceExists' /\ TriggerInThePast'
    BY <1>4 DEF ReadResult
  <2>2. AnsweredIsGone'
    BY <1>4 DEF ReadResult, AnsweredIsGone, PeakNotCleared
  <2>3. QED BY <2>1, <2>2
<1>5. ASSUME NEW b \in BOOLEAN, TrackPeak(b) PROVE IndInv'
  <2>1. /\ TypeOK' /\ Counts' /\ MoveAtStart' /\ PolicyWithinLimit'
        /\ OneWakePerStream' /\ EvidenceExists' /\ TriggerInThePast'
    BY <1>5 DEF TrackPeak
  <2>2. AnsweredIsGone'
    BY <1>5 DEF TrackPeak, AnsweredIsGone, PeakNotCleared
  <2>3. QED BY <2>1, <2>2
<1>6. QED BY <1>1, <1>2, <1>3, <1>4, <1>5

(* Whatever _on_hypothesis uses as evidence comes from streams whose phrase   *)
(* has not fired, and a confident hypothesis has some.                        *)
LEMMA EvidenceFresh ==
  ASSUME IndInv, NEW kept \in SUBSET window, NEW usePeak \in BOOLEAN,
         NEW high \in BOOLEAN, NEW escape \in BOOLEAN,
         pc["worker"] = "engine"
  PROVE  LET w == Pushed(kept, usePeak) IN
         /\ w \subseteq Evidence(w, high)
         /\ Smoothed(w, high) \subseteq Evidence(w, high)
         /\ Evidence(w, high) \subseteq Streams
         /\ \A s \in Evidence(w, high) : s <= stream /\ answers[s] = 0
         /\ Confident(w, high, escape) => Evidence(w, high) # {}
<1> DEFINE w == Pushed(kept, usePeak)
<1> USE DEF IndInv
<1>1. w \subseteq (window \cup {heard, peak}) \ {0}
  BY DEF Pushed
<1>2. Smoothed(w, high) \subseteq w \cup smooth
  BY DEF Smoothed, Remembered
<1>3. Evidence(w, high) = w \cup Smoothed(w, high)
  BY DEF Evidence
<1>4. window \subseteq Streams /\ smooth \subseteq Streams
      /\ heard \in 0 .. MaxGen /\ peak \in 0 .. MaxGen
      /\ answers \in [Streams -> Nat]
  BY DEF TypeOK
<1>5. Evidence(w, high) \subseteq (window \cup smooth \cup {heard, peak}) \ {0}
  <2>1. 0 \notin smooth
    BY <1>4, MaxGenAssumption DEF Streams
  <2>2. QED BY <1>1, <1>2, <1>3, <2>1
<1>6. Evidence(w, high) \subseteq Streams
  <2>1. (heard # 0 => heard \in Streams) /\ (peak # 0 => peak \in Streams)
    BY <1>4, MaxGenAssumption DEF Streams
  <2>2. QED BY <1>4, <1>5, <2>1
<1>7. ASSUME NEW s \in Evidence(w, high) PROVE s <= stream /\ answers[s] = 0
  <2>1. s \in window \cup smooth \/ s = heard \/ s = peak
    BY <1>5
  <2>2. ~PeakNotCleared
    BY DEF PeakNotCleared
  <2>3. ~(answers[s] > 0)
    BY <1>6, <2>1, <2>2 DEF AnsweredIsGone
  <2>4. answers[s] \in Nat
    BY <1>4, <1>6
  <2>5. QED BY <2>1, <2>3, <2>4 DEF EvidenceExists
<1>8. Confident(w, high, escape) => Evidence(w, high) # {}
  BY <1>3 DEF Confident
<1>9. w \subseteq Evidence(w, high) /\ Smoothed(w, high) \subseteq Evidence(w, high)
  BY <1>3
<1>10. \A s \in Evidence(w, high) : s <= stream /\ answers[s] = 0
  BY <1>7
<1> HIDE DEF w
<1>11. QED BY <1>6, <1>8, <1>9, <1>10 DEF w

LEMMA EnginePreserves ==
  ASSUME IndInv, NEW kept \in SUBSET window, NEW usePeak \in BOOLEAN,
         NEW high \in BOOLEAN, NEW escape \in BOOLEAN,
         OnHypothesis(kept, usePeak, high, escape)
  PROVE  IndInv'
<1> DEFINE w == Pushed(kept, usePeak)
           E == Evidence(w, high)
           S == Smoothed(w, high)
<1> USE ThreadsAre, MaxGenAssumption DEF IndInv
<1>1. /\ pc["worker"] = "engine" /\ lastSeen' = label
      /\ heard' = 0 /\ from' = 0 /\ label' = 0
      /\ UNCHANGED <<move, reason, fsm, asrVars, policyVars, pauseAsked>>
      /\ Declined(w, high, escape) \/ Fire(w, high, escape)
  BY DEF OnHypothesis
<1>2. /\ w \subseteq E /\ S \subseteq E /\ E \subseteq Streams
      /\ \A s \in E : s <= stream /\ answers[s] = 0
  BY <1>1, EvidenceFresh
<1> HIDE DEF w, E, S
<1>3. CASE Declined(w, high, escape)
  <2>1. /\ window' = w /\ smooth' = S /\ pc' = [pc EXCEPT !["worker"] = "idle"]
        /\ UNCHANGED <<lastTrigger, cooling, answers>>
    BY <1>3 DEF Declined, Goto, S
  <2>2. TypeOK'
    BY <1>1, <1>2, <2>1 DEF TypeOK, WorkerPcs, WatchdogPcs, ResetPhases, asrVars, policyVars
  <2>3. Counts' /\ MoveAtStart' /\ PolicyWithinLimit' /\ OneWakePerStream'
    BY <1>1, <2>1 DEF Counts, At, MoveAtStart, PolicyWithinLimit, OneWakePerStream, TypeOK,
       asrVars, policyVars
  <2>4. EvidenceExists'
    BY <1>1, <1>2, <2>1 DEF EvidenceExists, TypeOK, Streams, asrVars
  <2>5. AnsweredIsGone'
    <3>1. ~PeakNotCleared
      BY <1>1 DEF PeakNotCleared
    <3>2. QED BY <1>1, <1>2, <2>1, <3>1 DEF AnsweredIsGone, TypeOK, asrVars
  <2>6. TriggerInThePast'
    BY <1>1, <2>1 DEF TriggerInThePast, TypeOK, asrVars
  <2>7. QED BY <2>2, <2>3, <2>4, <2>5, <2>6
<1>4. CASE Fire(w, high, escape)
  <2>1. /\ window' = {} /\ smooth' = {} /\ cooling' = TRUE /\ lastTrigger' = label
        /\ answers' = [s \in Streams |-> IF s \in E THEN answers[s] + 1 ELSE answers[s]]
        /\ pc' = [pc EXCEPT !["worker"] = "generation"]
        /\ Room
    BY <1>4 DEF Fire, Goto, E
  <2>2. TypeOK'
    BY <1>1, <1>2, <2>1 DEF TypeOK, WorkerPcs, WatchdogPcs, ResetPhases, asrVars, policyVars
  <2>3. Counts' /\ MoveAtStart' /\ PolicyWithinLimit'
    BY <1>1, <2>1 DEF Counts, At, Room, MoveAtStart, PolicyWithinLimit, TypeOK,
       asrVars, policyVars
  <2>4. OneWakePerStream'
    BY <1>2, <2>1 DEF OneWakePerStream, TypeOK
  <2>5. EvidenceExists'
    BY <1>1, <2>1 DEF EvidenceExists, TypeOK, Streams, asrVars
  <2>6. AnsweredIsGone'
    BY <1>1, <1>2, <2>1 DEF AnsweredIsGone, PeakNotCleared, TypeOK, asrVars
  <2>7. TriggerInThePast'
    BY <1>1, <2>1 DEF TriggerInThePast, TypeOK, asrVars
  <2>8. QED BY <2>2, <2>3, <2>4, <2>5, <2>6, <2>7
<1>5. QED BY <1>1, <1>3, <1>4

(* The steps of the watchdog outside a reset, of the clock and of the IPC     *)
(* receiver.                                                                  *)
LEMMA WatchdogPreserves ==
  ASSUME IndInv,
         CheckPasses \/ (\E r \in Reasons : RecoverStream(r))
  PROVE  IndInv'
<1> USE ThreadsAre, MaxGenAssumption, MaxRetriesAssumption DEF IndInv
<1>1. CASE CheckPasses
  <2>1. \E where \in {"idle", "queue"} : pc' = [pc EXCEPT !["watchdog"] = where]
    BY <1>1 DEF CheckPasses, Goto
  <2>2. /\ pc["watchdog"] \in {"idle", "queue"}
        /\ UNCHANGED <<move, reason, fsm, asrVars, resultVars, engineVars,
                       policyVars, pauseAsked>>
    BY <1>1 DEF CheckPasses
  <2>3. TypeOK'
    BY <2>1, <2>2 DEF TypeOK, WorkerPcs, WatchdogPcs, ResetPhases, asrVars, resultVars,
       engineVars, policyVars
  <2>4. /\ Counts' /\ MoveAtStart' /\ PolicyWithinLimit'
        /\ PeakNotCleared => PeakNotCleared'
    BY <2>1, <2>2 DEF Counts, At, MoveAtStart, PolicyWithinLimit, PeakNotCleared, TypeOK,
       asrVars, policyVars
  <2>5. pc'["worker"] = pc["worker"]
    BY <2>1 DEF TypeOK
  <2>6. QED BY <2>2, <2>3, <2>4, <2>5, ControlStep
<1>2. ASSUME NEW r \in Reasons, RecoverStream(r) PROVE IndInv'
  <2>1. /\ \/ pc' = [pc EXCEPT !["watchdog"] = "generation"]
           \/ pc' = [pc EXCEPT !["watchdog"] = "idle"]
           \/ pc' = [pc EXCEPT !["watchdog"] = "queue"]
        /\ UNCHANGED <<move, fsm, asrVars, resultVars, engineVars, pauseAsked>>
        /\ reason' = r /\ retries' = retries + 1 /\ backoff' = TRUE /\ ~escalated
        /\ Room
    BY <1>2 DEF RecoverStream, Goto, HeldBack
  <2>2. pc["watchdog"] \in {"idle", "queue"}
    BY <1>2 DEF RecoverStream, Finds, Reasons
  <2>3. escalated' \in BOOLEAN /\ PolicyWithinLimit'
    <3>1. \/ escalated' = TRUE
          \/ escalated' = escalated /\ retries + 1 < MaxRetries
      BY <1>2 DEF RecoverStream
    <3>2. CASE escalated' = TRUE BY <3>2, Zenon DEF PolicyWithinLimit
    <3>3. CASE escalated' = escalated /\ retries + 1 < MaxRetries
      BY <2>1, <3>3 DEF PolicyWithinLimit, TypeOK
    <3>4. QED BY <3>1, <3>2, <3>3
  <2>4. retries' \in 0 .. MaxRetries /\ backoff' \in BOOLEAN
    <3>1. retries' \in 0 .. MaxRetries
      BY <2>1 DEF TypeOK, PolicyWithinLimit
    <3>2. backoff' \in BOOLEAN
      BY <2>1, Zenon
    <3>3. QED BY <3>1, <3>2
  <2>5. TypeOK'
    BY <2>1, <2>3, <2>4 DEF TypeOK, WorkerPcs, WatchdogPcs, ResetPhases, asrVars,
       resultVars, engineVars
  <2>6. /\ Counts' /\ MoveAtStart'
        /\ PeakNotCleared => PeakNotCleared'
    BY <2>1, <2>2 DEF Counts, At, Room, MoveAtStart, PeakNotCleared, TypeOK, asrVars
  <2>7. pc'["worker"] = pc["worker"]
    BY <2>1 DEF TypeOK
  <2>8. QED BY <2>1, <2>3, <2>5, <2>6, <2>7, ControlStep
<1>3. QED BY <1>1, <1>2

LEMMA EnvironmentPreserves ==
  ASSUME IndInv,
         Clock \/ (\E b \in Configures : ReceiveConfigure(b)) \/ UNCHANGED vars
  PROVE  IndInv'
<1> USE DEF IndInv, TypeOK, Counts, At, MoveAtStart, PolicyWithinLimit, EvidenceExists,
     OneWakePerStream, TriggerInThePast, AnsweredIsGone, PeakNotCleared,
     threadVars, asrVars, resultVars, engineVars, policyVars
<1>1. CASE CooldownOver BY <1>1 DEF CooldownOver
<1>2. CASE BackoffOver BY <1>2 DEF BackoffOver
<1>3. ASSUME NEW b \in Configures, ReceiveConfigure(b) PROVE IndInv'
  BY <1>3, ConfiguresAssumption DEF ReceiveConfigure
<1>4. CASE UNCHANGED vars BY <1>4 DEF vars
<1>5. QED BY <1>1, <1>2, <1>3, <1>4 DEF Clock

LEMMA InitInd == Init => IndInv
<1> SUFFICES ASSUME Init PROVE IndInv OBVIOUS
<1> USE ThreadsAre, MaxGenAssumption, MaxRetriesAssumption DEF Init
<1>1. TypeOK
  <2>1. /\ spoken \in BOOLEAN /\ cooling \in BOOLEAN /\ pauseAsked \in BOOLEAN
        /\ escalated \in BOOLEAN /\ backoff \in BOOLEAN
    BY Zenon
  <2>2. QED BY <2>1 DEF TypeOK, WorkerPcs, WatchdogPcs, ResetPhases, SubStates,
               Streams, LastMove, None
<1>2. Counts /\ MoveAtStart /\ PolicyWithinLimit
  BY DEF Counts, At, MoveAtStart, PolicyWithinLimit
<1>3. EvidenceExists /\ AnsweredIsGone /\ TriggerInThePast /\ OneWakePerStream
  BY DEF EvidenceExists, AnsweredIsGone, TriggerInThePast, OneWakePerStream, Streams
<1>4. QED BY <1>1, <1>2, <1>3 DEF IndInv

(* IndInv is an invariant of every interleaving of the two threads            *)
(* (worker.py:194-446, watchdog.py:73-168).                                   *)
THEOREM Invariance == Spec => []IndInv
<1>1. IndInv /\ [Next]_vars => IndInv'
  <2> SUFFICES ASSUME IndInv, [Next]_vars PROVE IndInv' OBVIOUS
  <2>1. CASE Worker
    BY <2>1, ThreadsAre, ChunkPreserves, EnginePreserves, ResetPreserves DEF Worker
  <2>2. CASE Watchdog
    BY <2>2, ThreadsAre, WatchdogPreserves, ResetPreserves DEF Watchdog
  <2>3. CASE Clock \/ (\E b \in Configures : ReceiveConfigure(b)) \/ UNCHANGED vars
    BY <2>3, EnvironmentPreserves
  <2>4. QED BY <2>1, <2>2, <2>3 DEF Next
<1>2. QED BY InitInd, <1>1, PTL DEF Spec

(* The types, for every bound on generations and retries. *)
THEOREM TypeCorrect == Spec => []TypeOK
  BY Invariance, PTL DEF IndInv

(* The phrase of a decode stream fires at most one wake, however the resets   *)
(* of worker and watchdog interleave (orchestrator.py:380-435).               *)
THEOREM AtMostOneWake == Spec => []OneWakePerStream
  BY Invariance, PTL DEF IndInv

(* The generation gate never suppresses a hypothesis of a later utterance     *)
(* (orchestrator.py:392).                                                     *)
THEOREM GateLetsNewUtterancesPass == Spec => []NewUtteranceNotSuppressed
<1>1. IndInv => NewUtteranceNotSuppressed
  BY DEF IndInv, TriggerInThePast, NewUtteranceNotSuppressed
<1>2. QED BY Invariance, <1>1, PTL

-----------------------------------------------------------------------------
(* Refinement of WakeGate. *)

(* Creating a stream begins an utterance; no other step of a reset is seen.   *)
LEMMA ResetRefines ==
  ASSUME IndInv, IndInv', NEW t \in Threads, ResetStep(t)
  PROVE  [Gate!Next]_(Gate!vars)
<1>1. CASE CreateStream(t)
  <2>1. stream' = stream + 1 /\ answers' = answers /\ cooling' = cooling
    BY <1>1 DEF CreateStream, engineVars
  <2>2. stream' \in Streams
    BY DEF IndInv, TypeOK
  <2>3. Gate!NewUtterance
    BY <2>1, <2>2 DEF Gate!NewUtterance
  <2>4. QED BY <2>3 DEF Gate!Next
<1>2. CASE ~CreateStream(t)
  <2>1. stream' = stream /\ answers' = answers /\ cooling' = cooling
    BY <1>2 DEF ResetStep, CountGeneration, TestState, CheckTransition, WriteState,
       ResetState, asrVars, engineVars
  <2>2. QED BY <2>1 DEF Gate!vars
<1>3. QED BY <1>1, <1>2

(* A wake answers streams that are begun and unanswered. *)
LEMMA EngineRefines ==
  ASSUME IndInv, NEW kept \in SUBSET window, NEW usePeak \in BOOLEAN,
         NEW high \in BOOLEAN, NEW escape \in BOOLEAN,
         OnHypothesis(kept, usePeak, high, escape)
  PROVE  [Gate!Next]_(Gate!vars)
<1> DEFINE w == Pushed(kept, usePeak)
           E == Evidence(w, high)
<1>1. /\ pc["worker"] = "engine" /\ stream' = stream
      /\ Declined(w, high, escape) \/ Fire(w, high, escape)
  BY DEF OnHypothesis, asrVars
<1>2. /\ E \subseteq Streams
      /\ \A s \in E : s <= stream /\ answers[s] = 0
      /\ Confident(w, high, escape) => E # {}
  BY <1>1, EvidenceFresh
<1> HIDE DEF w, E
<1>3. CASE Declined(w, high, escape)
  BY <1>1, <1>3 DEF Declined, Gate!vars
<1>4. CASE Fire(w, high, escape)
  <2>1. /\ ~cooling /\ cooling' = TRUE /\ Confident(w, high, escape)
        /\ answers' = [s \in Streams |-> IF s \in E THEN answers[s] + 1 ELSE answers[s]]
    BY <1>4 DEF Fire, E
  <2>2. answers' = [s \in Streams |-> IF s \in E THEN 1 ELSE answers[s]]
    BY <1>2, <2>1
  <2>3. E \in (SUBSET Gate!Unanswered) \ {{}}
    BY <1>2, <2>1 DEF Gate!Unanswered
  <2>4. Gate!Wake
    BY <1>1, <2>1, <2>2, <2>3 DEF Gate!Wake
  <2>5. QED BY <2>4 DEF Gate!Next
<1>5. QED BY <1>1, <1>3, <1>4

(* The remaining steps are the end of the cooldown, or are not seen. *)
LEMMA OthersRefine ==
  ASSUME \/ SpeechStarts \/ InactivityReset \/ ReadGeneration
         \/ \E b \in BOOLEAN : ReadResult(b) \/ TrackPeak(b)
         \/ CheckPasses \/ (\E r \in Reasons : RecoverStream(r))
         \/ Clock \/ (\E b \in Configures : ReceiveConfigure(b))
         \/ UNCHANGED vars
  PROVE  [Gate!Next]_(Gate!vars)
<1>1. CASE CooldownOver
  BY <1>1 DEF CooldownOver, asrVars, Gate!CooldownOver, Gate!Next
<1>2. CASE ~CooldownOver
  BY <1>2 DEF SpeechStarts, InactivityReset, ReadGeneration, ReadResult, TrackPeak,
     CheckPasses, RecoverStream, Clock, BackoffOver, ReceiveConfigure, vars, asrVars,
     engineVars, Gate!vars
<1>3. QED BY <1>1, <1>2

(* The two threads, as written, implement the abstract wake gate: every wake  *)
(* answers only unanswered streams, and the cooldown separates wakes          *)
(* (orchestrator.py:380-435, cooldown.py:21-28).                              *)
THEOREM ImplementsWakeGate == Spec => ImplementsGate
<1>1. Init => Gate!Init
  BY DEF Init, Gate!Init
<1>2. IndInv /\ IndInv' /\ [Next]_vars => [Gate!Next]_(Gate!vars)
  <2> SUFFICES ASSUME IndInv, IndInv', [Next]_vars PROVE [Gate!Next]_(Gate!vars) OBVIOUS
  <2>1. CASE \E kept \in SUBSET window, usePeak, high, escape \in BOOLEAN :
                OnHypothesis(kept, usePeak, high, escape)
    BY <2>1, EngineRefines
  <2>2. CASE \E t \in Threads : ResetStep(t)
    BY <2>2, ResetRefines
  <2>3. QED BY <2>1, <2>2, OthersRefine, ThreadsAre DEF Next, Worker, Watchdog
<1>3. QED BY Invariance, <1>1, <1>2, PTL DEF Spec, ImplementsGate, Gate!Spec
-----------------------------------------------------------------------------
(* The machines after a reset.  A machine that is not ACTIVE is brought back  *)
(* by a thread that has not passed the move which would do it.                *)

(* The move that takes machine f out of state st. *)
DueBy(f, st) ==
    IF st = "FAULTED" THEN (IF f = "asr" THEN 2 ELSE 4)
                      ELSE (IF f = "asr" THEN 5 ELSE 6)

(* A transition has been raised, and no reset has succeeded since. *)
Excused == pc["worker"] = "dead" \/ (retries > 0 /\ ~Resetting("watchdog"))

Unfinished ==
    \A f \in Fsms : fsm[f] # "ACTIVE" =>
        \/ Excused
        \/ \E t \in Threads : Resetting(t) /\ move[t] <= DueBy(f, fsm[f])

(* The watchdog counts the failure before it resets. *)
CountedReset == Resetting("watchdog") => retries > 0

(* A step that touches no machine and ends no reset. *)
LEMMA ResetsGoOn ==
  ASSUME Unfinished, CountedReset,
         fsm' = fsm, move' = move, retries' = retries,
         \A t \in Threads : Resetting(t) => Resetting(t)',
         Resetting("watchdog")' => Resetting("watchdog"),
         pc["worker"] = "dead" => pc'["worker"] = "dead"
  PROVE  Unfinished' /\ CountedReset'
<1>1. Excused => Excused'
  BY ThreadsAre DEF Excused
<1>2. Unfinished'
  <2> SUFFICES ASSUME NEW f \in Fsms, fsm'[f] # "ACTIVE"
               PROVE  \/ Excused'
                      \/ \E t \in Threads : Resetting(t)' /\ move'[t] <= DueBy(f, fsm'[f])
    BY DEF Unfinished, DueBy
  <2>1. QED BY <1>1 DEF Unfinished
<1>3. QED BY <1>2, ThreadsAre DEF CountedReset

(* A step in which thread t is done with move k = move[t], machine f is left  *)
(* in no state that move k would take it out of, and t goes on.               *)
LEMMA MoveDone ==
  ASSUME TypeOK, MoveAtStart, Unfinished, CountedReset,
         NEW t \in Threads, pc[t] \in {"test", "write"}, Advance(t),
         NEW f \in Fsms, fsm'[f] # "ACTIVE",
         \/ fsm'[f] = fsm[f] /\ move[t] # DueBy(f, fsm[f])
         \/ move[t] < DueBy(f, fsm'[f])
  PROVE  \/ Excused'
         \/ \E u \in Threads : Resetting(u)' /\ move'[u] <= DueBy(f, fsm'[f])
<1> USE ThreadsAre
<1>0. /\ move \in [Threads -> 1 .. 6] /\ pc \in [Threads -> WorkerPcs \cup WatchdogPcs]
      /\ retries \in Nat /\ LastMove = 6
  BY MaxRetriesAssumption DEF TypeOK, LastMove
<1>1. DueBy(f, fsm'[f]) \in {2, 4, 5, 6}
  BY DEF DueBy
<1>2. CASE move[t] # 6
  <2>1. /\ pc' = [pc EXCEPT ![t] = IF move[t] = LastRecover THEN "clear" ELSE "test"]
        /\ move' = [move EXCEPT ![t] = @ + 1]
        /\ retries' = retries
    BY <1>0, <1>2 DEF Advance, Goto, policyVars
  <2>2. /\ Resetting(t)' /\ move'[t] = move[t] + 1 /\ Resetting(t)
        /\ \A u \in Threads \ {t} : Resetting(u)' = Resetting(u) /\ move'[u] = move[u]
    BY <1>0, <2>1 DEF Resetting, ResetPhases
  <2>3. CASE move[t] < DueBy(f, fsm'[f])
    BY <1>0, <1>1, <2>2, <2>3
  <2>4. CASE fsm'[f] = fsm[f] /\ move[t] # DueBy(f, fsm[f])
    <3>1. CASE Excused
      <4>1. Excused'
        BY <1>0, <2>1, <2>2, <3>1 DEF Excused
      <4>2. QED BY <4>1
    <3>2. CASE ~Excused
      <4>1. PICK u \in Threads : Resetting(u) /\ move[u] <= DueBy(f, fsm[f])
        BY <2>4, <3>2 DEF Unfinished
      <4>2. CASE u = t BY <1>0, <1>1, <2>2, <2>4, <4>1, <4>2
      <4>3. CASE u # t BY <2>2, <2>4, <4>1, <4>3
      <4>4. QED BY <4>2, <4>3
    <3>3. QED BY <3>1, <3>2
  <2>5. QED BY <2>3, <2>4
<1>3. CASE move[t] = 6
  <2>1. /\ pc' = [pc EXCEPT ![t] = Returned(t)]
        /\ move' = [move EXCEPT ![t] = 1]
        /\ retries' = IF t = "watchdog" THEN 0 ELSE retries
    BY <1>0, <1>3 DEF Advance, Leave, Goto
  <2>2. \A u \in Threads \ {t} : Resetting(u)' = Resetting(u) /\ move'[u] = move[u]
    BY <1>0, <2>1 DEF Resetting
  <2>3. fsm'[f] = fsm[f] /\ move[t] # DueBy(f, fsm[f])
    BY <1>1, <1>3
  <2>4. CASE Excused
    <3>1. CASE t = "watchdog"
      <4>1. pc["worker"] = "dead"
        BY <2>4, <3>1 DEF Excused, Resetting, ResetPhases
      <4>2. pc'["worker"] = "dead"
        BY <1>0, <2>1, <3>1, <4>1
      <4>3. QED BY <4>2 DEF Excused
    <3>2. CASE t = "worker"
      <4>1. retries > 0 /\ ~Resetting("watchdog") /\ retries' = retries
        BY <2>1, <2>4, <3>2 DEF Excused
      <4>2. QED BY <2>2, <3>2, <4>1 DEF Excused
    <3>3. QED BY <3>1, <3>2
  <2>5. CASE ~Excused
    <3>1. PICK u \in Threads : Resetting(u) /\ move[u] <= DueBy(f, fsm[f])
      BY <2>3, <2>5 DEF Unfinished
    <3>2. u # t
      BY <1>1, <1>3, <2>3, <3>1
    <3>3. QED BY <2>2, <2>3, <3>1, <3>2
  <2>6. QED BY <2>4, <2>5
<1>4. QED BY <1>2, <1>3

LEMMA AdvanceCounted ==
  ASSUME TypeOK, CountedReset, NEW t \in Threads, pc[t] \in {"test", "write"}, Advance(t)
  PROVE  CountedReset'
<1> USE ThreadsAre
<1>1. CASE move[t] = LastMove
  <2>1. /\ pc' = [pc EXCEPT ![t] = Returned(t)]
        /\ retries' = IF t = "watchdog" THEN 0 ELSE retries
    BY <1>1 DEF Advance, Leave, Goto
  <2>2. CASE t = "watchdog"
    BY <2>1, <2>2 DEF TypeOK, Returned, NextCheck, CountedReset, Resetting, ResetPhases
  <2>3. CASE t = "worker"
    BY <2>1, <2>3 DEF TypeOK, CountedReset, Resetting
  <2>4. QED BY <2>2, <2>3
<1>2. CASE move[t] # LastMove
  <2>1. retries' = retries /\ (Resetting("watchdog")' => Resetting("watchdog"))
    BY <1>2 DEF Advance, Goto, policyVars, TypeOK, Resetting, ResetPhases
  <2>2. QED BY <2>1 DEF CountedReset
<1>3. QED BY <1>1, <1>2

(* The moves of a reset, each with the state it takes its machine out of. *)
LEMMA MovesAre ==
  ASSUME NEW k \in 1 .. 6, NEW f \in Fsms, NEW st \in SubStates, st # "ACTIVE",
         k = DueBy(f, st)
  PROVE  Moves[k].fsm = f /\ Moves[k].src = st
  BY DEF Moves, DueBy, Fsms, SubStates

LEMMA TestKeepsMachines ==
  ASSUME TypeOK, MoveAtStart, Unfinished, CountedReset, NEW t \in Threads, TestState(t)
  PROVE  Unfinished' /\ CountedReset'
<1> USE ThreadsAre
<1> DEFINE m == Moves[move[t]]
<1>1. pc[t] = "test" /\ fsm' = fsm
  BY DEF TestState
<1>2. CASE fsm[m.fsm] = m.src
  <2>1. pc' = [pc EXCEPT ![t] = "check"] /\ move' = move /\ retries' = retries
    BY <1>2 DEF TestState, Goto, policyVars
  <2>2. QED BY <1>1, <2>1, ResetsGoOn DEF TypeOK, Resetting, ResetPhases
<1>3. CASE fsm[m.fsm] # m.src
  <2>1. Advance(t)
    BY <1>3 DEF TestState
  <2>2. ASSUME NEW f \in Fsms, fsm'[f] # "ACTIVE"
        PROVE  \/ Excused'
               \/ \E u \in Threads : Resetting(u)' /\ move'[u] <= DueBy(f, fsm'[f])
    <3>1. move[t] \in 1 .. 6 /\ fsm[f] \in SubStates
      BY DEF TypeOK, LastMove
    <3>2. move[t] # DueBy(f, fsm[f])
      BY <1>1, <1>3, <2>2, <3>1, MovesAre
    <3>3. QED BY <1>1, <2>1, <2>2, <3>2, MoveDone
  <2>3. Unfinished'
    BY <2>2 DEF Unfinished
  <2>4. QED BY <1>1, <2>1, <2>3, AdvanceCounted
<1>4. QED BY <1>2, <1>3

(* An illegal transition ends the worker, or the watchdog's counted reset.    *)
LEMMA CheckKeepsMachines ==
  ASSUME TypeOK, MoveAtStart, Unfinished, CountedReset, NEW t \in Threads,
         CheckTransition(t)
  PROVE  Unfinished' /\ CountedReset'
<1> USE ThreadsAre
<1>1. pc[t] = "check" /\ fsm' = fsm /\ retries' = retries
  BY DEF CheckTransition, policyVars
<1>2. CASE pc' = [pc EXCEPT ![t] = "write"] /\ move' = move
  BY <1>1, <1>2, ResetsGoOn DEF TypeOK, Resetting, ResetPhases
<1>3. CASE pc' = [pc EXCEPT ![t] = Raised(t)]
  <2>1. CASE t = "worker"
    <3>1. pc'["worker"] = "dead" /\ pc'["watchdog"] = pc["watchdog"]
      BY <1>3, <2>1 DEF TypeOK, Raised
    <3>2. Excused'
      BY <3>1 DEF Excused
    <3>3. CountedReset'
      BY <1>1, <3>1 DEF CountedReset, Resetting
    <3>4. QED BY <3>2, <3>3 DEF Unfinished
  <2>2. CASE t = "watchdog"
    <3>1. pc'["watchdog"] \in {"idle", "queue"}
      BY <1>3, <2>2 DEF TypeOK, Raised, NextCheck
    <3>2. ~Resetting("watchdog")'
      BY <3>1 DEF Resetting, ResetPhases
    <3>3. retries' > 0
      BY <1>1, <2>2 DEF CountedReset, Resetting, ResetPhases
    <3>4. QED BY <3>2, <3>3 DEF Unfinished, Excused, CountedReset
  <2>3. QED BY <2>1, <2>2
<1>4. QED BY <1>2, <1>3 DEF CheckTransition, Leave, Goto

(* A move that takes a machine out of ACTIVE or on to RECOVERING has the      *)
(* thread still ahead of the move that follows it.                            *)
LEMMA WriteKeepsMachines ==
  ASSUME TypeOK, MoveAtStart, Unfinished, CountedReset, NEW t \in Threads, WriteState(t)
  PROVE  Unfinished' /\ CountedReset'
<1> USE ThreadsAre
<1> DEFINE k == move[t]
           m == Moves[k]
<1>1. /\ pc[t] = "write" /\ fsm' = [fsm EXCEPT ![m.fsm] = m.dst] /\ Advance(t)
  BY DEF WriteState
<1>2. k \in 1 .. 6 /\ fsm \in [Fsms -> SubStates]
  BY DEF TypeOK, LastMove
<1>3. m.fsm \in Fsms /\ (m.dst # "ACTIVE" => k < DueBy(m.fsm, m.dst))
  BY <1>2 DEF Moves, DueBy, Fsms
<1>4. ASSUME NEW f \in Fsms, fsm'[f] # "ACTIVE"
      PROVE  \/ Excused'
             \/ \E u \in Threads : Resetting(u)' /\ move'[u] <= DueBy(f, fsm'[f])
  <2>1. CASE f = m.fsm
    <3>1. fsm'[f] = m.dst
      BY <1>1, <1>2, <2>1
    <3>2. move[t] < DueBy(f, fsm'[f])
      BY <1>3, <1>4, <2>1, <3>1
    <3>3. QED BY <1>1, <1>4, <3>2, MoveDone
  <2>2. CASE f # m.fsm
    <3>1. fsm'[f] = fsm[f]
      BY <1>1, <1>2, <2>2
    <3>2. move[t] # DueBy(f, fsm[f])
      BY <1>2, <1>4, <2>2, <3>1, MovesAre
    <3>3. QED BY <1>1, <1>4, <3>1, <3>2, MoveDone
  <2>3. QED BY <2>1, <2>2
<1>5. Unfinished'
  BY <1>4 DEF Unfinished
<1>6. QED BY <1>1, <1>5, AdvanceCounted

LEMMA ResetKeepsMachines ==
  ASSUME TypeOK, MoveAtStart, Unfinished, CountedReset, NEW t \in Threads, ResetStep(t)
  PROVE  Unfinished' /\ CountedReset'
<1>1. CASE CountGeneration(t) \/ CreateStream(t) \/ ResetState(t)
  <2>1. /\ pc[t] \in {"generation", "stream", "clear"}
        /\ \E where \in {"stream", "test"} : pc' = [pc EXCEPT ![t] = where]
        /\ fsm' = fsm /\ move' = move /\ retries' = retries
    BY <1>1 DEF CountGeneration, CreateStream, ResetState, Goto, policyVars
  <2>2. QED BY <2>1, ThreadsAre, ResetsGoOn DEF TypeOK, Resetting, ResetPhases
<1>2. QED BY <1>1, TestKeepsMachines, CheckKeepsMachines, WriteKeepsMachines DEF ResetStep

(* The steps outside a reset: a recovery starts at the first move, so it      *)
(* brings back whatever an earlier one left behind.                           *)
LEMMA OthersKeepMachines ==
  ASSUME TypeOK, MoveAtStart, Unfinished, CountedReset,
         \/ SpeechStarts \/ InactivityReset \/ ReadGeneration
         \/ \E b \in BOOLEAN : ReadResult(b) \/ TrackPeak(b)
         \/ \E kept \in SUBSET window, usePeak, high, escape \in BOOLEAN :
                OnHypothesis(kept, usePeak, high, escape)
         \/ CheckPasses \/ (\E r \in Reasons : RecoverStream(r))
         \/ Clock \/ (\E b \in Configures : ReceiveConfigure(b))
         \/ UNCHANGED vars
  PROVE  Unfinished' /\ CountedReset'
<1> USE ThreadsAre
<1>1. ASSUME NEW r \in Reasons, RecoverStream(r) PROVE Unfinished' /\ CountedReset'
  <2>1. /\ fsm' = fsm /\ move' = move /\ retries' = retries + 1
        /\ pc["watchdog"] \in {"idle", "queue"}
        /\ \E where \in {"idle", "queue", "generation"} :
              pc' = [pc EXCEPT !["watchdog"] = where]
    BY <1>1 DEF RecoverStream, Finds, Reasons, Goto
  <2>2. retries' > 0
    BY <2>1, MaxRetriesAssumption DEF TypeOK
  <2>3. CASE pc'["watchdog"] = "generation"
    <3>1. Resetting("watchdog")' /\ move'["watchdog"] = 1
      BY <2>1, <2>3 DEF Resetting, ResetPhases, MoveAtStart
    <3>2. \A f \in Fsms : 1 <= DueBy(f, fsm'[f])
      BY DEF DueBy
    <3>3. QED BY <2>2, <3>1, <3>2 DEF Unfinished, CountedReset
  <2>4. CASE pc'["watchdog"] \in {"idle", "queue"}
    BY <2>2, <2>4 DEF Unfinished, CountedReset, Excused, Resetting, ResetPhases
  <2>5. QED BY <2>1, <2>3, <2>4 DEF TypeOK
<1>2. CASE CheckPasses
  <2>1. /\ pc["watchdog"] \in {"idle", "queue"}
        /\ \E where \in {"idle", "queue"} : pc' = [pc EXCEPT !["watchdog"] = where]
        /\ fsm' = fsm /\ move' = move /\ retries' = retries
    BY <1>2 DEF CheckPasses, Goto, policyVars
  <2>2. QED BY <2>1, ResetsGoOn DEF TypeOK, Resetting, ResetPhases
<1>3. CASE \/ SpeechStarts \/ InactivityReset \/ ReadGeneration
           \/ \E b \in BOOLEAN : ReadResult(b) \/ TrackPeak(b)
           \/ \E kept \in SUBSET window, usePeak, high, escape \in BOOLEAN :
                  OnHypothesis(kept, usePeak, high, escape)
  <2>1. /\ pc["worker"] \in {"idle", "track", "label", "engine"}
        /\ pc' = pc \/ \E where \in {"idle", "track", "label", "engine", "generation"} :
                          pc' = [pc EXCEPT !["worker"] = where]
        /\ fsm' = fsm /\ move' = move /\ retries' = retries
    BY <1>3 DEF SpeechStarts, InactivityReset, ReadGeneration, ReadResult, TrackPeak,
       OnHypothesis, Declined, Fire, Goto, threadVars, policyVars
  <2>2. QED BY <2>1, ResetsGoOn DEF TypeOK, Resetting, ResetPhases
<1>4. CASE \/ Clock \/ (\E b \in Configures : ReceiveConfigure(b)) \/ UNCHANGED vars
  <2>1. pc' = pc /\ fsm' = fsm /\ move' = move /\ retries' = retries
    BY <1>4 DEF Clock, CooldownOver, BackoffOver, ReceiveConfigure, vars, threadVars,
       policyVars
  <2>2. QED BY <2>1, ResetsGoOn DEF Resetting
<1>5. QED BY <1>1, <1>2, <1>3, <1>4

(* Whenever neither thread is resetting, no transition was raised that a      *)
(* later reset has not made up for, and the worker lives, both machines are   *)
(* ACTIVE: no interleaving of the two unlocked resets leaves one behind       *)
(* (streaming.py:233-238, worker.py:440-446).                                 *)
THEOREM MachinesActiveAfterReset == Spec => []ActiveAfterReset
<1>1. Init => Unfinished /\ CountedReset
  BY ThreadsAre DEF Init, Unfinished, CountedReset, Resetting, ResetPhases
<1>2. IndInv /\ Unfinished /\ CountedReset /\ [Next]_vars
         => Unfinished' /\ CountedReset'
  <2> SUFFICES ASSUME IndInv, Unfinished, CountedReset, [Next]_vars
               PROVE  Unfinished' /\ CountedReset'
    OBVIOUS
  <2>0. TypeOK /\ MoveAtStart
    BY DEF IndInv
  <2>1. CASE \E t \in Threads : ResetStep(t)
    BY <2>0, <2>1, ResetKeepsMachines
  <2>2. QED BY <2>0, <2>1, OthersKeepMachines, ThreadsAre DEF Next, Worker, Watchdog
<1>3. IndInv /\ Unfinished => ActiveAfterReset
  <2> SUFFICES ASSUME IndInv, Unfinished,
                      ~Resetting("worker"), ~Resetting("watchdog"),
                      pc["worker"] # "dead", retries = 0
               PROVE  \A f \in Fsms : fsm[f] = "ACTIVE"
    BY DEF ActiveAfterReset
  <2>1. ~Excused
    BY DEF Excused
  <2>2. QED BY <2>1, ThreadsAre DEF Unfinished
<1>4. QED BY Invariance, <1>1, <1>2, <1>3, PTL DEF Spec
=============================================================================
