--------------------------- MODULE AudioChunksProofs ---------------------------
(***************************************************************************)
(* Proofs about module AudioChunks, for any settings that satisfy          *)
(* AudioConstants and any number of chunks.  Each of the three properties  *)
(* has a strengthening of its own, and all need the types:                 *)
(*   Silence: a chunk is only decoded while the silence is shorter than    *)
(*     either limit, because the pad is used up before; so the limit does  *)
(*     not move once the count is near it;                                 *)
(*   Held: outside speech the last nSpeech chunks are the end of the       *)
(*     pre-roll, and they are fewer than the pre-roll can hold;            *)
(*   Once: what is in the pre-roll, or still to come, was never fed as     *)
(*     speech.                                                             *)
(***************************************************************************)
EXTENDS AudioChunks, SequenceTheorems, TLAPS

Heard == {"silence", "feed"}  \* the detector has spoken, the chunk is not fed yet

Silence ==
    /\ pc \in {"idle", "vad", "ended"} => ~undecoded
    /\ pad < Pad => nSilence <= MinSilence + pad
    /\ pad < Pad /\ pc \notin Heard => nSilence < MinSilence + pad
    /\ pc \in Heard /\ speech => nSilence < MinSilence
    /\ undecoded => nSilence < Timeout
    /\ pc \in {"idle", "vad"} /\ spoken /\ nSilence >= Limit => refused
    /\ pc = "silence" /\ spoken /\ nSilence > Limit => refused
    /\ pc \in {"feed", "decode"} => nSilence < Limit

\* The last chunk the hysteresis has dealt with, and the last one that is fed.
Done == IF pc = "vad" THEN taken - 1 ELSE taken
Fed == IF pc \in Heard \cup {"vad"} THEN taken - 1 ELSE taken

Held ==
    /\ pc \in Heard /\ speaking => speech
    /\ ~speaking => nSpeech < MinSpeech /\ nSpeech <= Len(preBuffer)
    /\ ~speaking /\ pc # "ended" =>
           \A i \in 1..nSpeech : preBuffer[Len(preBuffer) + 1 - i] = Done + 1 - i
    /\ speaking /\ ~torn /\ pc # "ended" => onset..Fed \subseteq stream

Once ==
    /\ \A c \in Chunks : said[c] <= 1 /\ (c > Done => said[c] = 0)
    /\ \A i \in DOMAIN preBuffer : preBuffer[i] <= Done /\ said[preBuffer[i]] = 0
    /\ pc \in Heard /\ speech =>
           said[taken] = 0 /\ \A i \in DOMAIN preBuffer : preBuffer[i] # taken

\* The watchdog's part of Next.
Watchdog ==
    \/ WatchdogNewStream \/ WatchdogResetDetector \/ WatchdogRecoverRaises
    \/ WatchdogResetState

\* The chunk that is being worked on is a chunk.
AtWork == pc \in Heard \cup {"vad", "decode"} => taken \in Chunks

-----------------------------------------------------------------------------

\* What the bounded deque holds after an append: the new chunk last, in front of
\* it the end of what was there.
LEMMA BufferedEnd ==
    ASSUME TypeOK, NEW c \in Chunks
    PROVE  /\ Buffered(c) \in Seq(Chunks) /\ Len(Buffered(c)) <= PreRoll
           /\ Len(Buffered(c)) = Len(preBuffer) + 1 \/ Len(Buffered(c)) = PreRoll
           /\ Len(Buffered(c)) >= 1 /\ Buffered(c)[Len(Buffered(c))] = c
           /\ \A j \in 1..Len(Buffered(c)) - 1 :
                  Buffered(c)[Len(Buffered(c)) - j] = preBuffer[Len(preBuffer) + 1 - j]
           /\ \A i \in DOMAIN Buffered(c) :
                  Buffered(c)[i] = c \/ \E k \in DOMAIN preBuffer : Buffered(c)[i] = preBuffer[k]
<1> USE AudioConstants
<1>1. preBuffer \in Seq(Chunks) /\ Len(preBuffer) <= PreRoll /\ Len(preBuffer) \in Nat
  BY DEF TypeOK
<1> DEFINE longer == Append(preBuffer, c)
<1>2. /\ longer \in Seq(Chunks) /\ Len(longer) = Len(preBuffer) + 1
      /\ longer[Len(preBuffer) + 1] = c
      /\ \A i \in 1..Len(preBuffer) : longer[i] = preBuffer[i]
  BY <1>1
<1> HIDE DEF longer
<1>3. CASE Len(longer) > PreRoll
  <2>1. Buffered(c) = Tail(longer)
    BY <1>3 DEF Buffered, longer
  <2>2. longer # <<>>
    BY <1>1, <1>2
  <2>3. /\ Tail(longer) \in Seq(Chunks) /\ Len(Tail(longer)) = Len(longer) - 1
        /\ \A i \in 1..Len(Tail(longer)) : Tail(longer)[i] = longer[i + 1]
    BY <1>2, <2>2, HeadTailProperties
  <2>4. Len(Tail(longer)) = Len(preBuffer) /\ Len(preBuffer) = PreRoll
    BY <1>1, <1>2, <1>3, <2>3
  <2> QED
    BY <1>1, <1>2, <2>1, <2>3, <2>4
<1>4. CASE Len(longer) <= PreRoll
  <2>1. Buffered(c) = longer
    BY <1>1, <1>2, <1>4 DEF Buffered, longer
  <2> QED
    BY SMTT(30), <1>1, <1>2, <1>4, <2>1
<1> QED
  BY <1>1, <1>2, <1>3, <1>4

\* The flags alone: they mix badly with arithmetic in the provers.
Flags ==
    /\ speech \in BOOLEAN /\ speaking \in BOOLEAN /\ spoken \in BOOLEAN /\ partial \in BOOLEAN
    /\ undecoded \in BOOLEAN /\ buffer \in BOOLEAN /\ torn \in BOOLEAN /\ refused \in BOOLEAN

\* Every action leaves each variable in its range (worker.py, streaming.py).
LEMMA TypeStep == ASSUME TypeOK, AtWork, [Next]_vars PROVE TypeOK' /\ AtWork'
<1> USE AudioConstants DEF TypeOK, AtWork, Heard
<1>1. CASE UNCHANGED vars
  BY <1>1 DEF vars, queueVars, resetVars, stateVars, historyVars
<1>2. CASE Capture \/ Dequeue \/ Stop \/ DetectorRaises
  <2>1. captured' \in 0..MaxChunks /\ taken' \in 0..captured' /\ AtWork'
    BY <1>2 DEF Capture, Dequeue, Stop, DetectorRaises, Chunks, queueVars, resetVars
  <2> QED
    BY <1>2, <2>1 DEF Capture, Dequeue, Stop, DetectorRaises, queueVars, resetVars, stateVars, historyVars
<1>3. CASE SpeechStarts
  <2>1. said' \in [Chunks -> 0..2]
    BY <1>3 DEF SpeechStarts, Flush, Counted
  <2>2. stream' \subseteq Chunks
    BY <1>3 DEF SpeechStarts, Flush
  <2>3. Flags'
    BY <1>3 DEF Flags, SpeechStarts, Flush, Hears, resetVars
  <2>4. preBuffer' \in Seq(Chunks) /\ Len(preBuffer') <= PreRoll
    BY <1>3 DEF SpeechStarts
  <2>5. nSpeech' \in Nat /\ nSilence' \in Nat /\ onset' \in Int
    BY <1>3 DEF SpeechStarts, Hears
  <2> QED
    BY <1>3, <2>1, <2>2, <2>3, <2>4, <2>5 DEF Flags, SpeechStarts, Hears, queueVars, resetVars
<1>4. ASSUME NEW pass \in BOOLEAN, NoStart(pass) PROVE TypeOK' /\ AtWork'
  <2>1. preBuffer' \in Seq(Chunks) /\ Len(preBuffer') <= PreRoll
    BY <1>4, BufferedEnd DEF NoStart
  <2>2. /\ nSpeech' \in Nat /\ nSilence' \in Nat /\ speech' \in BOOLEAN /\ speaking' \in BOOLEAN
    BY <1>4 DEF NoStart, Hears
  <2> QED
    BY <1>4, <2>1, <2>2 DEF NoStart, Hears, queueVars, resetVars
<1>5. CASE SilenceTimeout \/ NoTimeout
  <2>1. Flags'
    BY <1>5, Zenon DEF Flags, SilenceTimeout, NoTimeout, NewStream, ResetState, resetVars, stateVars, historyVars
  <2>2. nSpeech' \in Nat /\ nSilence' \in Nat /\ pad' \in 0..Pad /\ stream' \subseteq Chunks
    BY <1>5 DEF SilenceTimeout, NoTimeout, NewStream, ResetState, stateVars
  <2> QED
    BY <1>5, <2>1, <2>2 DEF Flags, SilenceTimeout, NoTimeout, queueVars, resetVars, historyVars
<1>6. CASE Feed
  <2>1. said' \in [Chunks -> 0..2]
    BY <1>6 DEF Feed, Counted
  <2>2. Flags'
    BY <1>6 DEF Flags, Feed, resetVars
  <2>3. pad' \in 0..Pad /\ stream' \subseteq Chunks
    BY <1>6 DEF Feed
  <2> QED
    BY <1>6, <2>1, <2>2, <2>3 DEF Flags, Feed, queueVars, resetVars
<1>7. CASE Decode
  <2>1. Flags'
    BY <1>7 DEF Flags, Decode, NewStream, ResetState
  <2>2. nSpeech' \in Nat /\ nSilence' \in Nat /\ pad' \in 0..Pad /\ stream' \subseteq Chunks
    BY <1>7 DEF Decode, NewStream, ResetState
  <2> QED
    BY <1>7, <2>1, <2>2 DEF Flags, Decode, queueVars, resetVars
<1>8. CASE WorkerRecoverRaises \/ Watchdog
  <2>1. Flags'
    BY <1>8, Zenon DEF Flags, WorkerRecoverRaises, Watchdog, WatchdogNewStream,
              WatchdogResetDetector, WatchdogRecoverRaises, WatchdogResetState, NewStream, ResetState, stateVars,
                       historyVars
  <2>2. nSpeech' \in Nat /\ nSilence' \in Nat /\ pad' \in 0..Pad /\ stream' \subseteq Chunks
    BY <1>8 DEF WorkerRecoverRaises, Watchdog, WatchdogNewStream,
              WatchdogResetDetector, WatchdogRecoverRaises, WatchdogResetState, NewStream, ResetState, stateVars
  <2> QED
    BY <1>8, <2>1, <2>2 DEF Flags, WorkerRecoverRaises, Watchdog, WatchdogNewStream,
              WatchdogResetDetector, WatchdogRecoverRaises, WatchdogResetState, queueVars, resetVars, historyVars
<1> QED
  BY <1>1, <1>2, <1>3, <1>4, <1>5, <1>6, <1>7, <1>8 DEF Next, Watchdog

\* The pad ends before either limit, so that the limit stands still from there on.
LEMMA SilenceStep == ASSUME TypeOK, Silence, [Next]_vars PROVE Silence'
<1> USE AudioConstants DEF TypeOK, Silence, Heard, Limit
<1>1. CASE UNCHANGED vars
  BY <1>1 DEF vars, queueVars, resetVars, stateVars, historyVars
<1>2. CASE Capture \/ Dequeue \/ Stop \/ DetectorRaises
  BY SMTT(30), <1>2 DEF Capture, Dequeue, Stop, DetectorRaises, queueVars, resetVars, stateVars, historyVars
<1>3. CASE SpeechStarts
  BY <1>3 DEF SpeechStarts, Flush, Hears, queueVars, resetVars
<1>4. ASSUME NEW pass \in BOOLEAN, NoStart(pass) PROVE Silence'
  BY <1>4 DEF NoStart, Hears, queueVars, resetVars
<1>5. CASE SilenceTimeout
  BY <1>5 DEF SilenceTimeout, NewStream, ResetState, queueVars, resetVars, stateVars
<1>6. CASE NoTimeout
  BY <1>6 DEF NoTimeout, queueVars, resetVars, stateVars, historyVars
<1>7. CASE Feed
  BY <1>7 DEF Feed, queueVars, resetVars
<1>8. CASE Decode
  BY <1>8 DEF Decode, NewStream, ResetState, queueVars, resetVars
<1>9. CASE WorkerRecoverRaises
  BY <1>9 DEF WorkerRecoverRaises, NewStream, queueVars, stateVars
<1>10. CASE WatchdogNewStream \/ WatchdogResetState
  BY <1>10 DEF WatchdogNewStream, WatchdogResetState, NewStream, ResetState, queueVars, stateVars
<1>11. CASE WatchdogResetDetector \/ WatchdogRecoverRaises
  BY <1>11 DEF WatchdogResetDetector, WatchdogRecoverRaises, queueVars, stateVars, historyVars
<1> QED
  BY <1>1, <1>2, <1>3, <1>4, <1>5, <1>6, <1>7, <1>8, <1>9, <1>10, <1>11 DEF Next

\* While the worker waits for enough speech it holds what it has heard; from the
\* onset on, nothing is left out.
LEMMA HeldStep == ASSUME TypeOK, AtWork, Silence, Held, [Next]_vars PROVE Held'
<1> USE AudioConstants DEF TypeOK, AtWork, Held, Heard, Done, Fed
<1>1. CASE UNCHANGED vars
  BY <1>1 DEF vars, queueVars, resetVars, stateVars, historyVars
<1>2. CASE Capture \/ Dequeue \/ Stop \/ DetectorRaises
  <2>1. /\ UNCHANGED <<speaking, nSpeech, preBuffer, onset, stream, torn>>
        /\ pc' \notin Heard \/ UNCHANGED <<pc, speech>>
    BY <1>2 DEF Capture, Dequeue, Stop, DetectorRaises, queueVars, resetVars, stateVars, historyVars
  <2>2. pc' # "ended" => pc # "ended" /\ Done' = Done /\ Fed' = Fed
    BY SMTT(30), <1>2 DEF Capture, Dequeue, Stop, DetectorRaises, queueVars, resetVars
  <2> HIDE DEF Done, Fed
  <2> QED
    BY <2>1, <2>2
<1>3. CASE SpeechStarts
  <2>1. /\ pc = "vad" /\ pc' = "silence" /\ taken' = taken /\ ~speaking /\ speaking' /\ speech'
        /\ stream' = stream \cup {preBuffer[i] : i \in DOMAIN preBuffer}
        /\ onset' = taken - nSpeech
    BY <1>3 DEF SpeechStarts, Hears, Flush, queueVars, resetVars
  <2>2. ASSUME NEW c \in onset'..(taken - 1) PROVE c \in stream'
    <3>1. taken - c \in 1..nSpeech
      BY SMTT(30), <2>1, <2>2
    <3>2. preBuffer[Len(preBuffer) + 1 - (taken - c)] = (taken - 1) + 1 - (taken - c)
      BY <2>1, <3>1
    <3>3. Len(preBuffer) + 1 - (taken - c) \in DOMAIN preBuffer
      BY <2>1, <3>1
    <3> QED
      BY SMTT(30), <2>1, <2>2, <3>2, <3>3
  <2> QED
    BY <2>1, <2>2
<1>4. ASSUME NEW pass \in BOOLEAN, NoStart(pass) PROVE Held'
  <2>1. /\ pc = "vad" /\ pc' = "silence" /\ taken' = taken /\ speech' = speaking'
        /\ UNCHANGED <<onset, stream, torn>> /\ speaking' \in BOOLEAN
        /\ speaking' => speaking
        /\ nSpeech' = IF pass THEN nSpeech + 1 ELSE 0
        /\ preBuffer' = IF speech' THEN preBuffer ELSE Buffered(taken)
    BY <1>4 DEF NoStart, Hears, queueVars, resetVars
  <2>2. CASE speaking'
    BY <2>1, <2>2
  <2>3. CASE ~speaking' /\ ~pass
    BY <2>1, <2>3, BufferedEnd
  <2>4. CASE ~speaking' /\ pass
    <3>1. ~speaking /\ nSpeech' = nSpeech + 1 /\ nSpeech' < MinSpeech
      BY <1>4, <2>4 DEF NoStart, Hears
    <3>2. preBuffer' = Buffered(taken)
      BY <2>1, <2>4
    <3>6. taken \in Chunks /\ preBuffer' \in Seq(Chunks)
      BY <2>1, <3>2, BufferedEnd
    <3>3. /\ Len(preBuffer') \in Nat /\ Len(preBuffer') >= 1 /\ preBuffer'[Len(preBuffer')] = taken
          /\ Len(preBuffer') = Len(preBuffer) + 1 \/ Len(preBuffer') = PreRoll
          /\ \A j \in 1..Len(preBuffer') - 1 :
                 preBuffer'[Len(preBuffer') - j] = preBuffer[Len(preBuffer) + 1 - j]
      <4>1. Len(preBuffer') \in Nat
        BY <3>6
      <4> HIDE DEF TypeOK
      <4>2. /\ Len(preBuffer') = Len(preBuffer) + 1 \/ Len(preBuffer') = PreRoll
            /\ Len(preBuffer') >= 1 /\ preBuffer'[Len(preBuffer')] = taken
        BY <3>2, <3>6, BufferedEnd
      <4>3. \A j \in 1..Len(preBuffer') - 1 :
                 preBuffer'[Len(preBuffer') - j] = preBuffer[Len(preBuffer) + 1 - j]
        BY SMTT(30), <3>2, <3>6, BufferedEnd
      <4> QED
        BY <4>1, <4>2, <4>3
    <3>4. nSpeech' <= Len(preBuffer')
      BY <3>1, <3>3
    <3>5. ASSUME NEW i \in 1..nSpeech'
          PROVE  preBuffer'[Len(preBuffer') + 1 - i] = taken + 1 - i
      <4>1. CASE i = 1
        BY <3>3, <4>1
      <4>2. CASE i # 1
        <5>1. i - 1 \in 1..nSpeech /\ i - 1 \in 1..Len(preBuffer') - 1
          BY <3>1, <3>4, <3>5, <4>2
        <5>2. preBuffer[Len(preBuffer) + 1 - (i - 1)] = (taken - 1) + 1 - (i - 1)
          BY <2>1, <3>1, <5>1
        <5>3. preBuffer'[Len(preBuffer') - (i - 1)] = preBuffer[Len(preBuffer) + 1 - (i - 1)]
          BY <3>3, <5>1
        <5>4. Len(preBuffer') - (i - 1) = Len(preBuffer') + 1 - i
          BY <3>3
        <5> QED
          BY <5>2, <5>3, <5>4
      <4> QED
        BY <4>1, <4>2
    <3> QED
      BY <2>1, <2>4, <3>1, <3>4, <3>5
  <2> QED
    BY <2>1, <2>2, <2>3, <2>4
<1>5. CASE SilenceTimeout
  <2>1. ~speaking
    BY <1>5 DEF SilenceTimeout, Silence, Limit
  <2> QED
    BY <1>5, <2>1 DEF SilenceTimeout, ResetState, queueVars, resetVars, stateVars
<1>6. CASE NoTimeout
  BY <1>6 DEF NoTimeout, queueVars, resetVars, stateVars, historyVars
<1>7. CASE Feed
  <2>1. speaking /\ ~torn => onset..taken \subseteq stream'
    BY <1>7 DEF Feed
  <2> QED
    BY <1>7, <2>1 DEF Feed, queueVars, resetVars
<1>8. CASE Decode
  BY <1>8 DEF Decode, ResetState, queueVars, resetVars
<1>9. CASE WorkerRecoverRaises \/ WatchdogNewStream
  <2>1. torn' /\ UNCHANGED <<taken, speech, speaking, nSpeech, preBuffer>>
    BY <1>9 DEF WorkerRecoverRaises, WatchdogNewStream, queueVars, stateVars
  <2>2. pc' = "ended" \/ pc' = pc
    BY <1>9 DEF WorkerRecoverRaises, WatchdogNewStream
  <2> QED
    BY <2>1, <2>2
<1>10. CASE WatchdogResetDetector \/ WatchdogRecoverRaises
  <2>1. UNCHANGED <<taken, pc, speech, speaking, nSpeech, preBuffer, onset, stream, torn>>
    BY <1>10 DEF WatchdogResetDetector, WatchdogRecoverRaises, queueVars, stateVars, historyVars
  <2> QED
    BY <2>1
<1>11. CASE WatchdogResetState
  BY <1>11 DEF WatchdogResetState, ResetState, queueVars, resetVars
<1> QED
  BY <1>1, <1>2, <1>3, <1>4, <1>5, <1>6, <1>7, <1>8, <1>9, <1>10, <1>11 DEF Next

\* A chunk leaves the pre-roll by being fed or by being forgotten, and is not
\* put there when it is fed as it comes.
LEMMA OnceStep == ASSUME TypeOK, AtWork, Once, [Next]_vars PROVE Once'
<1> USE AudioConstants DEF TypeOK, AtWork, Once, Heard, Done
<1>1. CASE UNCHANGED vars
  BY <1>1 DEF vars, queueVars, resetVars, stateVars, historyVars
<1>2. CASE Capture \/ Dequeue \/ Stop \/ DetectorRaises
  <2>1. UNCHANGED <<said, preBuffer, speech>> /\ (pc' \in Heard => pc' = pc /\ taken' = taken)
    BY <1>2 DEF Capture, Dequeue, Stop, DetectorRaises, queueVars, historyVars
  <2>2. Done' \in Int /\ Done' >= Done
    BY <1>2 DEF Capture, Dequeue, Stop, DetectorRaises, queueVars
  <2>3. \A i \in DOMAIN preBuffer : preBuffer[i] \in Chunks
    OBVIOUS
  <2> QED
    BY <2>1, <2>2, <2>3 DEF Chunks
<1>3. CASE SpeechStarts
  <2>1. /\ pc = "vad" /\ pc' = "silence" /\ taken' = taken /\ preBuffer' = <<>>
        /\ taken \in Chunks
    BY <1>3 DEF SpeechStarts, Hears, queueVars
  <2>2. \A i \in DOMAIN preBuffer :
            preBuffer[i] \in Chunks /\ preBuffer[i] <= taken - 1 /\ said[preBuffer[i]] = 0
    BY <2>1
  <2>3. \A c \in Chunks : said'[c] <= 1 /\ (c >= taken => said'[c] = 0)
    BY <1>3, <2>1, <2>2 DEF SpeechStarts, Flush, Counted, Chunks
  <2> QED
    BY <2>1, <2>3 DEF Chunks
<1>4. ASSUME NEW pass \in BOOLEAN, NoStart(pass) PROVE Once'
  <2>1. /\ pc = "vad" /\ pc' = "silence" /\ taken' = taken /\ said' = said
        /\ preBuffer' = IF speech' THEN preBuffer ELSE Buffered(taken)
    BY <1>4 DEF NoStart, Hears, queueVars, resetVars
  <2>2. taken \in Chunks /\ said[taken] = 0
    BY <2>1 DEF Chunks
  <2>3. CASE speech'
    BY <2>1, <2>2, <2>3 DEF Chunks
  <2>4. CASE ~speech'
    <3>1. \A i \in DOMAIN preBuffer' :
             preBuffer'[i] = taken \/ \E k \in DOMAIN preBuffer : preBuffer'[i] = preBuffer[k]
      BY <2>1, <2>2, <2>4, BufferedEnd
    <3> QED
      BY <2>1, <2>2, <2>4, <3>1 DEF Chunks
  <2> QED
    BY <2>3, <2>4
<1>5. CASE SilenceTimeout \/ NoTimeout
  BY <1>5 DEF SilenceTimeout, NoTimeout, queueVars, resetVars, historyVars
<1>6. CASE Feed
  <2>1. pc = "feed" /\ pc' = "decode" /\ UNCHANGED <<taken, preBuffer, speech>> /\ taken \in Chunks
    BY <1>6 DEF Feed, queueVars, resetVars
  <2>2. CASE ~speech
    BY <1>6, <2>1, <2>2 DEF Feed
  <2>3. CASE speech
    <3>1. said' = [said EXCEPT ![taken] = 1] /\ \A i \in DOMAIN preBuffer : preBuffer[i] # taken
      BY <1>6, <2>1, <2>3 DEF Feed, Counted
    <3>2. \A i \in DOMAIN preBuffer : preBuffer[i] \in Chunks
      OBVIOUS
    <3> QED
      BY <2>1, <3>1, <3>2 DEF Chunks
  <2> QED
    BY <2>2, <2>3
<1>7. CASE Decode
  BY <1>7 DEF Decode, queueVars, resetVars
<1>8. CASE WorkerRecoverRaises \/ Watchdog
  BY <1>8 DEF WorkerRecoverRaises, Watchdog, WatchdogNewStream,
              WatchdogResetDetector, WatchdogRecoverRaises, WatchdogResetState, queueVars, resetVars, historyVars
<1> QED
  BY <1>1, <1>2, <1>3, <1>4, <1>5, <1>6, <1>7, <1>8 DEF Next, Watchdog

IndInv == TypeOK /\ AtWork /\ Silence /\ Held /\ Once

\* The inductive invariant holds in every reachable state.
THEOREM Inductive == Spec => []IndInv
<1>1. Init => IndInv
  <2> SUFFICES ASSUME Init PROVE IndInv
    OBVIOUS
  <2> USE AudioConstants DEF Init
  <2>1. TypeOK /\ AtWork
    <3>1. preBuffer \in Seq(Chunks) /\ Len(preBuffer) <= PreRoll
      OBVIOUS
    <3>2. said \in [Chunks -> 0..2] /\ stream \subseteq Chunks
      OBVIOUS
    <3>3. Flags
      BY DEF Flags
    <3>4. /\ captured \in 0..MaxChunks /\ taken \in 0..captured /\ nSpeech \in Nat
          /\ nSilence \in Nat /\ pad \in 0..Pad /\ onset \in Int
      OBVIOUS
    <3>5. pc \in {"idle", "vad", "silence", "feed", "decode", "ended"} /\ AtWork
      BY DEF AtWork, Heard
    <3> QED
      BY <3>1, <3>2, <3>3, <3>4, <3>5 DEF TypeOK, Flags
  <2>2. Silence
    BY DEF Silence, Heard, Limit
  <2>3. Held /\ Once
    BY DEF Held, Once, Heard, Done, Fed
  <2> QED
    BY <2>1, <2>2, <2>3 DEF IndInv
<1>2. IndInv /\ [Next]_vars => IndInv'
  BY TypeStep, SilenceStep, HeldStep, OnceStep DEF IndInv
<1> QED
  BY <1>1, <1>2, PTL DEF Spec

\* Whatever the settings, the stream has every chunk from the onset of the
\* speech that goes on (runtime/audio/worker.py:262-299, 326-328).
THEOREM UtteranceIsWhole == Spec => []UtteranceFedWhole
<1>1. IndInv => UtteranceFedWhole
  BY DEF IndInv, Held, Fed, Heard, UtteranceFedWhole
<1> QED
  BY <1>1, Inductive, PTL

\* No chunk comes back out of the pre-roll after it was fed as speech
\* (runtime/audio/worker.py:274-277, 297-299).
THEOREM SpeechIsFedOnce == Spec => []SpeechFedOnce
<1>1. IndInv => SpeechFedOnce
  BY DEF IndInv, Once, SpeechFedOnce
<1> QED
  BY <1>1, Inductive, PTL

\* Only the cooldown keeps a stream from being reset before the documented number
\* of silent chunks, as long as MIN_SILENCE_FRAMES and the pad together stay below
\* the limits and the limits below that number (runtime/audio/worker.py:302-323).
THEOREM LimitIsMet == Spec => []SilentStreamIsReset
<1>1. IndInv => SilentStreamIsReset
  BY AudioConstants DEF IndInv, TypeOK, Silence, Limit, SilentStreamIsReset
<1> QED
  BY <1>1, Inductive, PTL
=============================================================================
