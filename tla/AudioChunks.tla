------------------------------ MODULE AudioChunks ------------------------------
(***************************************************************************)
(* Which audio reaches the recogniser.  The microphone callback enqueues   *)
(* chunks (runtime/asr/streaming.py, runtime/audio/queue_manager.py); the  *)
(* worker thread takes them one by one, asks the voice activity detector   *)
(* (runtime/vad/pipeline.py), and feeds the decode stream with speech, the *)
(* pre-roll before it and a pad after it (runtime/audio/worker.py).  The   *)
(* watchdog's thread may reset stream and speech state between any two     *)
(* steps of the worker.  What a hypothesis leads to is module WakeEngine.  *)
(*                                                                         *)
(* Chunks are numbered.  What the detectors say of one, what the decoder   *)
(* makes of the stream, and whether 15 seconds have passed since the last  *)
(* reset is left open, and so is whether recover() raises in the middle of *)
(* a reset; WakeEngine has the races that make it raise.                   *)
(***************************************************************************)
EXTENDS Integers, Sequences

CONSTANTS MinSpeech,       \* MIN_SPEECH_FRAMES
          MinSilence,      \* MIN_SILENCE_FRAMES
          PreRoll,         \* maxlen of _pre_buffer
          Pad,             \* TRAILING_PAD_FRAMES
          Timeout,         \* silent chunks before a reset
          PartialTimeout,  \* the same while the text holds a partial token
          SilenceResetFrames,  \* SILENCE_RESET_FRAMES: imported, never read
          MaxChunks,       \* bound on the chunks that are captured
          MaxQueue         \* bound on the chunks that wait

\* The settings are 3, 8, 5, 2, 18, 25 and 30.
ASSUME AudioConstants ==
    /\ MinSpeech \in Nat \ {0} /\ MinSilence \in Nat \ {0} /\ PreRoll \in Nat \ {0}
    /\ Pad \in Nat \ {0} /\ Timeout \in Nat \ {0} /\ PartialTimeout \in Nat \ {0}
    /\ MinSpeech <= PreRoll + 1
    /\ MinSilence + Pad < Timeout /\ Timeout <= PartialTimeout
    /\ SilenceResetFrames \in Nat /\ PartialTimeout <= SilenceResetFrames
    /\ MaxChunks \in Nat /\ MaxQueue \in Nat

VARIABLES
    captured, taken,   \* chunks enqueued and dequeued so far
    pc,                \* where the worker is with chunk number taken
    speech,            \* effective_speech
    speaking,          \* _is_speaking
    spoken,            \* _has_spoken_in_generation
    nSpeech, nSilence, \* _consecutive_speech, _consecutive_silence
    pad,               \* _trailing_pad
    preBuffer,         \* _pre_buffer
    partial,           \* _last_hypothesis holds a partial token
    undecoded,         \* audio was accepted since the last decode()
    stream,            \* the chunks the current decode stream was fed
    buffer,            \* the detector's _audio_buffer exists
    watchdog,          \* where the watchdog's reset is
    said,              \* history: how often each chunk was fed as speech
    onset,             \* history: first chunk of the speech that goes on
    torn,              \* history: the stream was replaced since then, the speech kept
    refused            \* history: the cooldown refused the last silence reset

queueVars == <<captured, taken>>
stateVars == <<speaking, spoken, nSpeech, nSilence, pad, partial>>
historyVars == <<said, onset, torn, refused>>
resetVars == <<buffer, watchdog>>
vars == <<queueVars, pc, speech, stateVars, preBuffer, undecoded, stream, resetVars,
          historyVars>>

Chunks == 1..MaxChunks

TypeOK ==
    /\ captured \in 0..MaxChunks /\ taken \in 0..captured
    /\ pc \in {"idle", "vad", "silence", "feed", "decode", "ended"}
    /\ speech \in BOOLEAN /\ speaking \in BOOLEAN /\ spoken \in BOOLEAN /\ partial \in BOOLEAN
    /\ undecoded \in BOOLEAN /\ buffer \in BOOLEAN /\ torn \in BOOLEAN /\ refused \in BOOLEAN
    /\ watchdog \in {"off", "stream", "detector"}
    /\ nSpeech \in Nat /\ nSilence \in Nat /\ pad \in 0..Pad
    /\ preBuffer \in Seq(Chunks) /\ Len(preBuffer) <= PreRoll
    /\ stream \subseteq Chunks
    /\ said \in [Chunks -> 0..2] /\ onset \in Int

\* Only a detector that has found its second stage's model has a buffer.
Init ==
    /\ captured = 0 /\ taken = 0 /\ pc = "idle" /\ speech = FALSE
    /\ speaking = FALSE /\ spoken = FALSE /\ nSpeech = 0 /\ nSilence = 0 /\ pad = 0
    /\ partial = FALSE /\ preBuffer = <<>> /\ undecoded = FALSE /\ stream = {}
    /\ buffer \in BOOLEAN /\ watchdog = "off"
    /\ said = [c \in Chunks |-> 0] /\ onset = 0 /\ torn = FALSE /\ refused = FALSE

-----------------------------------------------------------------------------

\* _audio_callback.  The queue has no limit but the model's.
Capture ==
    /\ captured < MaxChunks /\ captured - taken < MaxQueue
    /\ captured' = captured + 1
    /\ UNCHANGED <<taken, pc, speech, stateVars, preBuffer, undecoded, stream,
                   resetVars, historyVars>>

Dequeue ==
    /\ pc = "idle" /\ taken < captured
    /\ taken' = taken + 1 /\ pc' = "vad"
    /\ UNCHANGED <<captured, speech, stateVars, preBuffer, undecoded, stream,
                   resetVars, historyVars>>

\* The stop event is looked at between two chunks.
Stop ==
    /\ pc = "idle" /\ pc' = "ended"
    /\ UNCHANGED <<queueVars, speech, stateVars, preBuffer, undecoded, stream,
                   resetVars, historyVars>>

\* provider.reset(): a new stream
NewStream == stream' = {} /\ undecoded' = FALSE

\* reset_state(); the pre-roll is kept.
ResetState ==
    /\ speaking' = FALSE /\ spoken' = FALSE /\ nSpeech' = 0 /\ nSilence' = 0
    /\ pad' = 0 /\ partial' = FALSE
    /\ torn' = FALSE /\ refused' = FALSE

\* process_chunk: digital silence never passes; a chunk the prefilter drops
\* passes on its energy alone, any other on Silero's or the energy's word (with no
\* model for Silero its word is yes).  All but digital silence goes to the buffer.
ProcessChunk(pass) ==
    \E silent, webrtc, silero, energy \in BOOLEAN :
        /\ silent \/ buffer
        /\ pass = (~silent /\ (energy \/ (webrtc /\ silero)))

\* A detector without a model has no buffer until a reset from outside has made
\* one: the AttributeError ends the worker thread.
DetectorRaises ==
    /\ pc = "vad" /\ ~buffer /\ pc' = "ended"
    /\ UNCHANGED <<queueVars, speech, stateVars, preBuffer, undecoded, stream,
                   resetVars, historyVars>>

Counted(c) == IF said[c] = 2 THEN 2 ELSE said[c] + 1

\* The pre-roll is fed in front of the chunk that made it speech.
Flush ==
    /\ stream' = stream \cup {preBuffer[i] : i \in DOMAIN preBuffer}
    /\ said' = [c \in Chunks |-> IF \E i \in DOMAIN preBuffer : preBuffer[i] = c
                                 THEN Counted(c) ELSE said[c]]
    /\ undecoded' = (undecoded \/ preBuffer # <<>>)

\* deque(maxlen): the oldest chunk makes room.
Buffered(c) ==
    LET longer == Append(preBuffer, c) IN
    IF Len(longer) > PreRoll THEN Tail(longer) ELSE longer

\* The speech states change and the chunk is buffered unless it is speech.
Hears(pass) ==
    /\ nSpeech' = IF pass THEN nSpeech + 1 ELSE 0
    /\ nSilence' = IF pass THEN 0 ELSE nSilence + 1
    /\ pc' = "silence"
    /\ UNCHANGED <<queueVars, pad, partial, resetVars, refused>>

\* Mutant: the flush forgets to empty the buffer.
SpeechStartsKeepsBuffer ==
    /\ pc = "vad" /\ ProcessChunk(TRUE) /\ Hears(TRUE)
    /\ ~speaking /\ nSpeech' >= MinSpeech
    /\ speaking' = TRUE /\ spoken' = TRUE /\ speech' = TRUE
    /\ Flush /\ preBuffer' = preBuffer
    /\ onset' = taken - nSpeech /\ torn' = FALSE

SpeechStarts ==
    /\ pc = "vad" /\ ProcessChunk(TRUE) /\ Hears(TRUE)
    /\ ~speaking /\ nSpeech' >= MinSpeech
    /\ speaking' = TRUE /\ spoken' = TRUE /\ speech' = TRUE
    /\ Flush /\ preBuffer' = <<>>
    /\ onset' = taken - nSpeech /\ torn' = FALSE

\* Mutant: only silence is buffered.
NoStartBuffersSilence(pass) ==
    /\ pc = "vad" /\ ProcessChunk(pass) /\ Hears(pass)
    /\ ~(pass /\ ~speaking /\ nSpeech' >= MinSpeech)
    /\ speaking' = (speaking /\ (pass \/ nSilence' < MinSilence)) /\ speech' = speaking'
    /\ preBuffer' = IF pass THEN preBuffer ELSE Buffered(taken)
    /\ UNCHANGED <<spoken, undecoded, stream, said, onset, torn>>

\* Any other chunk; speech ends at the MinSilence-th silent one.
NoStart(pass) ==
    /\ pc = "vad" /\ ProcessChunk(pass) /\ Hears(pass)
    /\ ~(pass /\ ~speaking /\ nSpeech' >= MinSpeech)
    /\ speaking' = (speaking /\ (pass \/ nSilence' < MinSilence)) /\ speech' = speaking'
    /\ preBuffer' = IF speech' THEN preBuffer ELSE Buffered(taken)
    /\ UNCHANGED <<spoken, undecoded, stream, said, onset, torn>>

Limit == IF partial THEN PartialTimeout ELSE Timeout

\* At the limit, and only there, a stream that heard speech is reset, unless the
\* last reset is less than 15 seconds ago; silent chunks from there on are not fed.
SilenceTimeout ==
    /\ pc = "silence" /\ nSilence >= Limit /\ pc' = "idle"
    /\ \/ nSilence = Limit /\ spoken /\ NewStream /\ ResetState
       \/ /\ refused' = (refused \/ (nSilence = Limit /\ spoken))
          /\ UNCHANGED <<stream, undecoded, stateVars, torn>>
    /\ UNCHANGED <<queueVars, speech, preBuffer, resetVars, said, onset>>

NoTimeout ==
    /\ pc = "silence" /\ nSilence < Limit /\ pc' = "feed"
    /\ UNCHANGED <<queueVars, speech, stateVars, preBuffer, undecoded, stream,
                   resetVars, historyVars>>

\* Mutant: the pad is not counted.
FeedPadUncounted ==
    /\ pc = "feed" /\ pc' = "decode" /\ pad' = 0
    /\ stream' = stream \cup {taken} /\ undecoded' = TRUE
    /\ said' = IF speech THEN [said EXCEPT ![taken] = Counted(taken)] ELSE said
    /\ UNCHANGED <<queueVars, speech, speaking, spoken, nSpeech, nSilence, partial,
                   preBuffer, resetVars, onset, torn, refused>>

\* accept(): speech, or at most Pad chunks behind it
Feed ==
    /\ pc = "feed" /\ pc' = "decode"
    /\ \/ /\ speech /\ pad' = 0
          /\ said' = [said EXCEPT ![taken] = Counted(taken)]
          /\ stream' = stream \cup {taken} /\ undecoded' = TRUE
       \/ /\ ~speech /\ pad < Pad /\ pad' = pad + 1
          /\ stream' = stream \cup {taken} /\ undecoded' = TRUE /\ UNCHANGED said
       \/ ~speech /\ pad = Pad /\ UNCHANGED <<pad, said, stream, undecoded>>
    /\ UNCHANGED <<queueVars, speech, speaking, spoken, nSpeech, nSilence, partial,
                   preBuffer, resetVars, onset, torn, refused>>

\* decode(), result() and on_hypothesis(): the text changes only if there was
\* something to decode, and may be a wake, which resets the stream.
Decode ==
    /\ pc = "decode" /\ pc' = "idle"
    /\ \/ stream # {} /\ NewStream /\ ResetState /\ buffer' = TRUE
       \/ /\ undecoded' = FALSE
          /\ partial' \in IF undecoded THEN BOOLEAN ELSE {partial}
          /\ UNCHANGED <<stream, speaking, spoken, nSpeech, nSilence, pad, buffer, torn,
                         refused>>
    /\ UNCHANGED <<queueVars, speech, preBuffer, watchdog, said, onset>>

\* recover() raises in a reset of the worker's own, at the silence limit or at a
\* wake: the stream is new, the speech state old, and the thread has ended.
WorkerRecoverRaises ==
    /\ \/ pc = "silence" /\ nSilence = Limit /\ spoken /\ buffer' = buffer
       \/ pc = "decode" /\ stream # {} /\ buffer' = TRUE
    /\ pc' = "ended" /\ NewStream /\ torn' = TRUE
    /\ UNCHANGED <<queueVars, speech, stateVars, preBuffer, watchdog, said, onset, refused>>

\* The watchdog's _reset_stream: the provider, the detector, the worker's state.
WatchdogNewStream ==
    /\ watchdog = "off" /\ watchdog' = "stream" /\ NewStream
    /\ torn' = TRUE
    /\ UNCHANGED <<queueVars, pc, speech, stateVars, preBuffer, buffer, said, onset, refused>>

WatchdogResetDetector ==
    /\ watchdog = "stream" /\ watchdog' = "detector" /\ buffer' = TRUE
    /\ UNCHANGED <<queueVars, pc, speech, stateVars, preBuffer, undecoded, stream, historyVars>>

\* recover() raises in between: the watchdog's handler leaves the rest undone.
WatchdogRecoverRaises ==
    /\ watchdog = "detector" /\ watchdog' = "off"
    /\ UNCHANGED <<queueVars, pc, speech, stateVars, preBuffer, undecoded, stream, buffer,
                   historyVars>>

WatchdogResetState ==
    /\ watchdog = "detector" /\ watchdog' = "off" /\ ResetState
    /\ UNCHANGED <<queueVars, pc, speech, preBuffer, undecoded, stream, buffer, said, onset>>

Next ==
    \/ Capture \/ Dequeue \/ Stop
    \/ DetectorRaises \/ SpeechStarts \/ \E pass \in BOOLEAN : NoStart(pass)
    \/ SilenceTimeout \/ NoTimeout \/ Feed \/ Decode \/ WorkerRecoverRaises
    \/ WatchdogNewStream \/ WatchdogResetDetector \/ WatchdogRecoverRaises
    \/ WatchdogResetState

Spec == Init /\ [][Next]_vars
-----------------------------------------------------------------------------

\* While speech goes on, every chunk since the first one the detector called
\* speech is in the current stream, without a gap: the pre-roll brings back
\* what was held while the hysteresis waited (worker.py:262-299, 326-328).  The one
\* exception is speech under which the watchdog has replaced the stream and whose
\* state it has not reset, or not yet (streaming.py:212-224).
UtteranceFedWhole ==
    pc = "idle" /\ speaking /\ ~torn => onset..taken \subseteq stream

\* No chunk is fed as speech twice, to whatever stream: what woke the engine
\* does not come back out of the pre-roll after the reset (worker.py:274-277).
SpeechFedOnce == \A c \in Chunks : said[c] <= 1

\* A stream that heard speech has been reset by the time the documented number of
\* silent chunks has passed, unless the cooldown refused the one reset it gets: the
\* limit, which moves with the hypothesis, is never jumped over (worker.py:302-323,
\* config/defaults.py:32).
SilentStreamIsReset ==
    pc = "idle" /\ spoken /\ nSilence >= SilenceResetFrames => refused

\* worker.py:68: "Stream resets only after SILENCE_RESET_FRAMES consecutive silent
\* chunks."  The code has two limits of its own, and both are lower.
ResetOnlyAfterSilence ==
    [][pc = "silence" /\ spoken /\ pc' = "idle" /\ ~spoken' => nSilence >= SilenceResetFrames]_vars

\* The detector goes on without the second stage's model; pipeline.py:60 says
\* "Falling back to WebRTC-only."  It does not (audio_fallback.cfg).
DetectorNeverEndsWorker == [][pc = "vad" => pc' # "ended"]_vars
=============================================================================
