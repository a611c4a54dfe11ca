--------------------------- MODULE ControlPathProofs ---------------------------
(***************************************************************************)
(* Proofs about ControlPath: the phrases a match sees, the order of the    *)
(* IPC channel, and the ways a loadProfile() can be lost.                  *)
(***************************************************************************)
EXTENDS ControlPath, SequenceTheorems, WellFoundedInduction, TLAPS

\* A set of positions that is not empty has a last one.
LEMMA LastPosition ==
    ASSUME NEW n \in Nat, NEW H \in SUBSET (1..n), H # {}
    PROVE  \E i \in H : \A j \in H : j <= i
<1> DEFINE T == {n - i : i \in H}
<1>6. \A i \in H : i \in Nat /\ n - i \in Nat
  OBVIOUS
<1>1. T \subseteq Nat /\ T # {}
  BY <1>6
<1>2. \E x \in T : \A y \in T : ~(<<y, x>> \in OpToRel(<, Nat))
  BY <1>1, WFMin, NatLessThanWellFounded
<1>3. PICK x \in T : \A y \in T : ~(y < x)
  BY <1>1, <1>2 DEF OpToRel
<1>4. PICK i \in H : x = n - i
  OBVIOUS
<1>5. \A j \in H : n - j \in T
  OBVIOUS
<1>7. \A j \in H : ~(n - j < n - i)
  BY <1>3, <1>4, <1>5
<1> QED
  BY <1>6, <1>7

\* A variant leads to a phrase of the profile the index was built from.
LEMMA IndexedPhrase ==
    ASSUME NEW p \in Profiles, NEW v \in DOMAIN IndexOf(Entries[p])
    PROVE  IndexOf(Entries[p])[v] \in PhrasesOf(p)
<1> DEFINE entries == Entries[p]
<1> DEFINE holders == {i \in DOMAIN entries : v \in entries[i].variants}
<1>1. entries \in Seq(Entry)
  BY PhraseConstants
<1>2. Len(entries) \in Nat /\ DOMAIN entries = 1..Len(entries)
  BY <1>1
<1>3. v \in UNION {entries[i].variants : i \in DOMAIN entries}
  BY DEF IndexOf
<1>4. holders # {} /\ holders \in SUBSET (1..Len(entries))
  BY <1>2, <1>3
<1>5. \E i \in holders : \A j \in holders : j <= i
  BY <1>2, <1>4, LastPosition
<1>6. IndexOf(entries)[v] = entries[CHOOSE i \in holders : \A j \in holders : j <= i].phrase
  BY <1>3 DEF IndexOf
<1> QED
  BY <1>5, <1>6 DEF PhrasesOf

-----------------------------------------------------------------------------
\* The phrases: what load_profile and best_match() leave between their steps.

Registered ==
    /\ loadPc \in {"idle", "read", "clear", "add", "rebuild", "release"}
    /\ loadPc # "idle" => loading \in Profiles
    /\ loadPc \in {"add", "rebuild", "release"} => regLocked
    /\ installed = None => index = <<>>
    /\ installed # None => installed \in Profiles /\ index = IndexOf(Entries[installed])
    /\ loadPc \in {"idle", "read", "clear"} =>
           registry = IF installed = None THEN <<>> ELSE Entries[installed]
    /\ loadPc = "rebuild" => registry = Entries[loading]
    /\ loadPc = "release" => installed = loading /\ registry = Entries[installed]

Matching ==
    /\ during \subseteq Profiles
    /\ matchPc \in {"idle", "active", "anchor", "variant", "score"}
    /\ matchPc # "idle" => matched = None
    /\ matchPc \in {"anchor", "variant", "score"} =>
           installed \in during /\ \E p \in during : active = EnabledIn(Entries[p])
    /\ matched # None => \E p \in during : matched \in PhrasesOf(p)

\* Whatever else happens, the phrases are left alone, lost with their process,
\* or take a step of load_profile or best_match().
LEMMA PhraseMoves ==
    ASSUME [Next]_vars
    PROVE  \/ UNCHANGED phraseVars \/ PhraseReset \/ LoadStep \/ MatchStep
           \/ \E p \in Profiles : Begin(p)
           \/ \E t \in Texts : Hear(t)
<1> USE ControlConstants
<1>1. CASE UNCHANGED vars
  BY <1>1 DEF vars
<1>2. CASE \/ \E c \in Commands : Command(c)
           \/ \E r \in Requests : Request(r) \/ RequestTimer(r)
           \/ AnswerArrives \/ LinkLost \/ LinkBack \/ Handle \/ Accept
           \/ SupervisorReceives \/ Receiving \/ Emit
  BY <1>2 DEF Command, Request, RequestTimer, AnswerArrives, LinkLost, LinkBack, Handle, Accept,
              SupervisorReceives, Receiving, Emit
<1>3. CASE Spawn \/ Die \/ Stop
  BY <1>3 DEF Spawn, Die, Stop
<1>4. CASE Connect \/ WorkerReceives
  BY <1>4 DEF Connect, WorkerReceives
<1>5. CASE PhraseStep
  BY <1>5 DEF PhraseStep
<1> QED
  BY <1>1, <1>2, <1>3, <1>4, <1>5 DEF Next

\* load_profile keeps index and registry in step with the installed profile.
LEMMA RegisteredStep == ASSUME Registered, [Next]_vars PROVE Registered'
<1> USE PhraseConstants DEF Registered
<1>1. CASE UNCHANGED phraseVars
  BY <1>1 DEF phraseVars, loadVars
<1>2. CASE PhraseReset
  BY <1>2 DEF PhraseReset
<1>3. ASSUME NEW p \in Profiles, Begin(p) PROVE Registered'
  BY <1>3 DEF Begin
<1>4. CASE ReadProfile
  BY <1>4 DEF ReadProfile
<1>5. CASE ClearRegistry \/ AddPhrases
  BY <1>5 DEF ClearRegistry, AddPhrases
<1>6. CASE RebuildIndex
  BY <1>6 DEF RebuildIndex
<1>7. CASE ReleaseRegistry
  BY <1>7 DEF ReleaseRegistry
<1>8. CASE MatchStep \/ \E t \in Texts : Hear(t)
  BY <1>8 DEF MatchStep, ReadActive, AnchorPresent, FindVariant, Score, Hear, loadVars
<1> QED
  BY <1>1, <1>2, <1>3, <1>4, <1>5, <1>6, <1>7, <1>8, PhraseMoves DEF LoadStep

\* A match sees one whole profile, and the index of a profile in force.
LEMMA MatchingStep == ASSUME Registered, Matching, [Next]_vars PROVE Matching'
<1> USE PhraseConstants DEF Matching
<1>1. CASE UNCHANGED phraseVars
  BY <1>1 DEF phraseVars, loadVars, matchVars
<1>2. CASE PhraseReset
  BY <1>2 DEF PhraseReset
<1>3. ASSUME NEW p \in Profiles, Begin(p) PROVE Matching'
  BY <1>3 DEF Begin, matchVars
<1>4. CASE ReadProfile \/ ClearRegistry \/ AddPhrases \/ ReleaseRegistry
  BY <1>4 DEF ReadProfile, ClearRegistry, AddPhrases, ReleaseRegistry, matchVars
<1>5. CASE RebuildIndex
  BY <1>5 DEF RebuildIndex, InForce, Registered
<1>6. ASSUME NEW t \in Texts, Hear(t) PROVE Matching'
  BY <1>6 DEF Hear, loadVars
<1>7. CASE ReadActive
  <2>1. CASE Return(None)
    BY <1>7, <2>1 DEF ReadActive, Return
  <2>2. CASE ~Return(None)
    <3>1. /\ ~regLocked /\ matchPc = "active" /\ EnabledIn(registry) # {}
          /\ active' = EnabledIn(registry) /\ matchPc' = "anchor" /\ during' = {installed} \ {None}
          /\ UNCHANGED <<matched, installed>>
      BY <1>7, <2>2 DEF ReadActive, loadVars
    <3>2. registry # <<>>
      BY <3>1 DEF EnabledIn
    <3>3. installed \in Profiles /\ registry = Entries[installed]
      BY <3>1, <3>2 DEF Registered
    <3> QED
      BY <3>1, <3>3
  <2> QED
    BY <2>1, <2>2
<1>8. CASE AnchorPresent \/ FindVariant
  BY <1>8 DEF AnchorPresent, FindVariant, Return, loadVars
<1>9. CASE Score
  <2>1. PICK c \in Candidates \cup {None} : Return(c)
    BY <1>9 DEF Score
  <2>2. matchPc = "score" /\ installed' = installed
    BY <1>9 DEF Score, loadVars
  <2>3. c # None => \E p \in during : c \in PhrasesOf(p)
    <3>1. ASSUME c \in active PROVE \E p \in during : c \in PhrasesOf(p)
      BY <2>2, <3>1 DEF EnabledIn, PhrasesOf
    <3>2. ASSUME variant \in DOMAIN index, c = index[variant]
          PROVE  \E p \in during : c \in PhrasesOf(p)
      BY <2>2, <3>2, IndexedPhrase DEF Registered
    <3> QED
      BY <3>1, <3>2 DEF Candidates
  <2> QED
    BY <2>1, <2>2, <2>3 DEF Return
<1> QED
  BY <1>1, <1>2, <1>3, <1>4, <1>5, <1>6, <1>7, <1>8, <1>9, PhraseMoves DEF LoadStep, MatchStep

-----------------------------------------------------------------------------
\* The IPC channel: the messages on the stream are numbered upwards and are all
\* newer than the last one handled.

DownOrder ==
    /\ sent \in Nat /\ got \in Nat /\ got <= sent
    /\ down \in Seq([n : Nat, command : Commands])
    /\ \A i \in 1..Len(down) : got < down[i].n /\ down[i].n <= sent
    /\ \A i, j \in 1..Len(down) : i < j => down[i].n < down[j].n

UpOrder ==
    /\ upSent \in Nat /\ upGot \in Nat /\ upGot <= upSent
    /\ up \in Seq(Nat)
    /\ \A i \in 1..Len(up) : upGot < up[i] /\ up[i] <= upSent
    /\ \A i, j \in 1..Len(up) : i < j => up[i] < up[j]

\* What a recv() of k messages leaves on the stream.
LEMMA RestOf ==
    ASSUME NEW S, NEW s \in Seq(S), NEW k \in 1..Len(s)
    PROVE  /\ FirstOf(s, k) \in Seq(S) /\ Len(FirstOf(s, k)) = Len(s) - k
           /\ \A i \in 1..Len(s) - k : FirstOf(s, k)[i] = s[k + i] /\ k + i \in 1..Len(s)
           /\ Len(s) \in Nat /\ Len(s) >= 1 /\ Head(s) = s[1] /\ s[1] \in S
<1>1. Len(s) \in Nat /\ k \in Int /\ \A i \in 1..Len(s) : s[i] \in S
  BY ElementOfSeq
<1>2. \A i \in (k + 1)..Len(s) : s[i] \in S
  BY <1>1
<1>3. /\ SubSeq(s, k + 1, Len(s)) \in Seq(S)
      /\ Len(SubSeq(s, k + 1, Len(s))) = IF k + 1 <= Len(s) THEN Len(s) - (k + 1) + 1 ELSE 0
      /\ \A i \in 1..Len(s) - (k + 1) + 1 : SubSeq(s, k + 1, Len(s))[i] = s[(k + 1) + i - 1]
  BY <1>1, <1>2, SubSeqProperties
<1>4. Head(s) = s[1]
  BY <1>1
<1> QED
  BY <1>1, <1>3, <1>4 DEF FirstOf

LEMMA DownMoves ==
    ASSUME [Next]_vars
    PROVE  \/ UNCHANGED <<down, sent, got>> \/ WorkerReceives
           \/ down' = <<>> /\ UNCHANGED <<sent, got>>
           \/ Head(toSup) \in Commands /\ Forward(Head(toSup))
<1>1. CASE UNCHANGED vars
  BY <1>1 DEF vars, ipcVars
<1>2. CASE \/ \E c \in Commands : Command(c)
           \/ \E r \in Requests : Request(r) \/ RequestTimer(r)
           \/ AnswerArrives \/ LinkLost \/ LinkBack \/ Spawn \/ Accept
           \/ SupervisorReceives \/ Connect \/ Receiving \/ Emit \/ PhraseStep
  BY <1>2 DEF Command, Request, RequestTimer, AnswerArrives, LinkLost, LinkBack, Spawn, Accept,
              SupervisorReceives, Connect, Receiving, Emit, PhraseStep, ipcVars
<1>3. CASE Handle
  BY <1>3 DEF Handle, Answer
<1>4. CASE Die \/ Stop
  BY <1>4 DEF Die, Stop
<1> QED
  BY <1>1, <1>2, <1>3, <1>4 DEF Next

LEMMA UpMoves ==
    ASSUME [Next]_vars
    PROVE  \/ UNCHANGED <<up, upSent, upGot>> \/ SupervisorReceives \/ Emit
           \/ up' = <<>> /\ UNCHANGED <<upSent, upGot>>
<1>1. CASE UNCHANGED vars
  BY <1>1 DEF vars, ipcVars
<1>2. CASE \/ \E c \in Commands : Command(c)
           \/ \E r \in Requests : Request(r) \/ RequestTimer(r)
           \/ AnswerArrives \/ LinkLost \/ LinkBack \/ Handle \/ Spawn \/ Accept
           \/ Connect \/ Receiving \/ WorkerReceives \/ PhraseStep
  BY <1>2 DEF Command, Request, RequestTimer, AnswerArrives, LinkLost, LinkBack, Handle, Spawn,
              Accept, Connect, Receiving, WorkerReceives, PhraseStep, ipcVars
<1>3. CASE Die \/ Stop
  BY <1>3 DEF Die, Stop
<1> QED
  BY <1>1, <1>2, <1>3 DEF Next

\* One step of the stream to the worker, as the order sees it.
LEMMA DownStep ==
    ASSUME DownOrder, [Next]_vars PROVE DownOrder' /\ [DownFifo!Next]_<<sent, got>>
<1> USE DEF DownOrder
<1>1. CASE UNCHANGED <<down, sent, got>>
  BY <1>1
<1>2. CASE down' = <<>> /\ UNCHANGED <<sent, got>>
  BY <1>2
<1>3. CASE WorkerReceives
  <2>1. PICK k \in 1..Len(down) : down' = FirstOf(down, k)
    BY <1>3 DEF WorkerReceives
  <2>2. got' = Head(down).n /\ sent' = sent
    BY <1>3 DEF WorkerReceives
  <2>3. /\ down' \in Seq([n : Nat, command : Commands]) /\ Len(down') = Len(down) - k
        /\ \A i \in 1..Len(down) - k : down'[i] = down[k + i] /\ k + i \in 1..Len(down)
        /\ Len(down) \in Nat /\ Len(down) >= 1 /\ Head(down) = down[1]
        /\ down[1] \in [n : Nat, command : Commands]
    BY <2>1, RestOf
  <2>4. got' = down[1].n /\ got' \in Nat /\ got < got' /\ got' <= sent
    BY <2>2, <2>3
  <2>5. ASSUME NEW i \in 1..Len(down') PROVE got' < down'[i].n /\ down'[i].n <= sent
    <3>1. down'[i] = down[k + i] /\ k + i \in 1..Len(down) /\ 1 \in 1..Len(down) /\ 1 < k + i
      BY <2>3
    <3> QED
      BY <2>4, <3>1
  <2>6. ASSUME NEW i \in 1..Len(down'), NEW j \in 1..Len(down'), i < j
        PROVE  down'[i].n < down'[j].n
    <3>1. down'[i] = down[k + i] /\ k + i \in 1..Len(down)
      BY <2>3
    <3>2. down'[j] = down[k + j] /\ k + j \in 1..Len(down)
      BY <2>3
    <3>3. k + i < k + j
      BY <2>3, <2>6
    <3> QED
      BY <3>1, <3>2, <3>3
  <2>7. DownFifo!Handle
    BY <2>2, <2>4 DEF DownFifo!Handle
  <2> QED
    BY <2>2, <2>3, <2>4, <2>5, <2>6, <2>7 DEF DownFifo!Next
<1>4. CASE Head(toSup) \in Commands /\ Forward(Head(toSup))
  <2>1. sent' = sent + 1 /\ got' = got
    BY <1>4 DEF Forward
  <2>2. DownFifo!Send
    BY <2>1 DEF DownFifo!Send
  <2>3. CASE down' = down
    <3>1. ASSUME NEW i \in 1..Len(down) PROVE down[i].n \in Nat
      <4>1. down[i] \in [n : Nat, command : Commands]
        BY ElementOfSeq
      <4> QED
        BY <4>1
    <3>2. \A i \in 1..Len(down) : down[i].n <= sent + 1
      BY <3>1
    <3> QED
      BY <2>1, <2>2, <2>3, <3>2 DEF DownFifo!Next
  <2>4. CASE down' # down
    <3> DEFINE m == [n |-> sent + 1, command |-> Head(toSup)]
    <3>1. down' = Append(down, m) /\ m \in [n : Nat, command : Commands] /\ m.n = sent + 1
      BY <1>4, <2>4 DEF Forward
    <3> HIDE DEF m
    <3>2. /\ down' \in Seq([n : Nat, command : Commands]) /\ Len(down') = Len(down) + 1
          /\ Len(down) \in Nat /\ down'[Len(down) + 1] = m
          /\ \A i \in 1..Len(down) : down'[i] = down[i]
      BY <3>1
    <3>5. ASSUME NEW i \in 1..Len(down) PROVE down[i].n \in Nat
      <4>1. down[i] \in [n : Nat, command : Commands]
        BY ElementOfSeq
      <4> QED
        BY <4>1
    <3>3. \A i \in 1..Len(down') : got < down'[i].n /\ down'[i].n <= sent + 1
      BY <3>1, <3>2, <3>5
    <3>4. ASSUME NEW i \in 1..Len(down'), NEW j \in 1..Len(down'), i < j
          PROVE  down'[i].n < down'[j].n
      <4>1. i \in 1..Len(down) /\ down'[i] = down[i] /\ down[i].n <= sent
        BY <3>2, <3>4
      <4>2. CASE j \in 1..Len(down)
        BY <3>2, <3>4, <4>1, <4>2
      <4>3. CASE j = Len(down) + 1
        BY <3>1, <3>2, <3>5, <4>1, <4>3
      <4> QED
        BY <3>2, <4>2, <4>3
    <3> QED
      BY <2>1, <2>2, <3>2, <3>3, <3>4 DEF DownFifo!Next
  <2> QED
    BY <2>3, <2>4
<1> QED
  BY <1>1, <1>2, <1>3, <1>4, DownMoves

\* The same for the stream to the supervisor.
LEMMA UpStep ==
    ASSUME UpOrder, [Next]_vars PROVE UpOrder' /\ [UpFifo!Next]_<<upSent, upGot>>
<1> USE DEF UpOrder
<1>1. CASE UNCHANGED <<up, upSent, upGot>>
  BY <1>1
<1>2. CASE up' = <<>> /\ UNCHANGED <<upSent, upGot>>
  BY <1>2
<1>3. CASE SupervisorReceives
  <2>1. PICK k \in 1..Len(up) : up' = FirstOf(up, k)
    BY <1>3 DEF SupervisorReceives
  <2>2. upGot' = Head(up) /\ upSent' = upSent
    BY <1>3 DEF SupervisorReceives
  <2>3. /\ up' \in Seq(Nat) /\ Len(up') = Len(up) - k
        /\ \A i \in 1..Len(up) - k : up'[i] = up[k + i] /\ k + i \in 1..Len(up)
        /\ Len(up) \in Nat /\ Len(up) >= 1 /\ Head(up) = up[1] /\ up[1] \in Nat
    BY <2>1, RestOf
  <2>4. upGot' = up[1] /\ upGot' \in Nat /\ upGot < upGot' /\ upGot' <= upSent
    BY <2>2, <2>3
  <2>5. ASSUME NEW i \in 1..Len(up') PROVE upGot' < up'[i] /\ up'[i] <= upSent
    <3>1. up'[i] = up[k + i] /\ k + i \in 1..Len(up) /\ 1 \in 1..Len(up) /\ 1 < k + i
      BY <2>3
    <3> QED
      BY <2>4, <3>1
  <2>6. ASSUME NEW i \in 1..Len(up'), NEW j \in 1..Len(up'), i < j
        PROVE  up'[i] < up'[j]
    <3>1. up'[i] = up[k + i] /\ k + i \in 1..Len(up)
      BY <2>3
    <3>2. up'[j] = up[k + j] /\ k + j \in 1..Len(up)
      BY <2>3
    <3>3. k + i < k + j
      BY <2>3, <2>6
    <3> QED
      BY <3>1, <3>2, <3>3
  <2>7. UpFifo!Handle
    BY <2>2, <2>4 DEF UpFifo!Handle
  <2> QED
    BY <2>2, <2>3, <2>4, <2>5, <2>6, <2>7 DEF UpFifo!Next
<1>4. CASE Emit
  <2>1. up' = Append(up, upSent + 1) /\ upSent' = upSent + 1 /\ upGot' = upGot
    BY <1>4 DEF Emit
  <2>2. /\ up' \in Seq(Nat) /\ Len(up') = Len(up) + 1 /\ Len(up) \in Nat
        /\ up'[Len(up) + 1] = upSent + 1
        /\ \A i \in 1..Len(up) : up'[i] = up[i]
    BY <2>1
  <2>5. \A i \in 1..Len(up) : up[i] \in Nat
    BY ElementOfSeq
  <2>3. ASSUME NEW i \in 1..Len(up') PROVE upGot < up'[i] /\ up'[i] <= upSent + 1
    <3>1. CASE i \in 1..Len(up)
      <4>1. up'[i] = up[i] /\ up[i] \in Nat
        BY <2>2, <2>5, <3>1
      <4>2. upGot < up[i] /\ up[i] <= upSent /\ upSent \in Nat
        BY <3>1
      <4> QED
        BY <4>1, <4>2
    <3>2. CASE i = Len(up) + 1
      BY <2>2, <3>2
    <3> QED
      BY <2>2, <3>1, <3>2
  <2>4. ASSUME NEW i \in 1..Len(up'), NEW j \in 1..Len(up'), i < j PROVE up'[i] < up'[j]
    <3>1. i \in 1..Len(up) /\ up'[i] = up[i] /\ up[i] <= upSent
      BY <2>2, <2>4
    <3>2. CASE j \in 1..Len(up)
      BY <2>2, <2>4, <3>1, <3>2
    <3>3. CASE j = Len(up) + 1
      BY <2>2, <2>5, <3>1, <3>3
    <3> QED
      BY <2>2, <3>2, <3>3
  <2> QED
    BY <2>1, <2>2, <2>3, <2>4 DEF UpFifo!Next, UpFifo!Send
<1> QED
  BY <1>1, <1>2, <1>3, <1>4, UpMoves

-----------------------------------------------------------------------------
\* The way of a loadProfile(): as long as nothing was lost, the last profile that
\* is under way, wherever it is, is the wanted one, and with none under way the
\* wanted one is loaded or being loaded.

SupHas == \E i \in 1..Len(toSup) : toSup[i] \in Profiles
DownHas == \E i \in 1..Len(down) : down[i].command \in Profiles

LastToSup ==
    \A i \in 1..Len(toSup) :
        /\ toSup[i] \in Profiles
        /\ \A j \in 1..Len(toSup) : j > i => toSup[j] \notin Profiles
        => toSup[i] = wanted

LastDown ==
    \A i \in 1..Len(down) :
        /\ down[i].command \in Profiles
        /\ \A j \in 1..Len(down) : j > i => down[j].command \notin Profiles
        => down[i].command = wanted

LoadedOrLoading ==
    /\ loadPc # "idle" => loading = wanted
    /\ loadPc = "idle" => installed = wanted
    /\ loadPc = "read" => Outcome[loading] = "ok"

Connected == worker \in {"loading", "live"}

UnderWay ==
    /\ toSup \in Seq(Commands \cup Requests)
    /\ lost \in BOOLEAN
    /\ down # <<>> \/ sock = "worker" => Connected
    /\ ~lost => LastToSup
    /\ ~lost /\ ~SupHas => LastDown
    /\ ~lost /\ ~SupHas => Connected \/ (worker = "starting" /\ wanted = Startup)
    /\ ~lost /\ ~SupHas /\ ~DownHas /\ Connected => LoadedOrLoading

\* The variables UnderWay is about.
wayVars == <<toSup, down, sock, worker, wanted, lost, loadPc, loading, installed>>

\* Appending what is not a profile changes nothing; a profile becomes the last.
LEMMA AppendToSup ==
    ASSUME toSup \in Seq(Commands \cup Requests), NEW x \in Commands \cup Requests,
           toSup' = Append(toSup, x)
    PROVE  /\ toSup' \in Seq(Commands \cup Requests)
           /\ x \in Profiles /\ wanted' = x => LastToSup' /\ SupHas'
           /\ x \notin Profiles /\ wanted' = wanted => (LastToSup => LastToSup') /\ SupHas' = SupHas
<1>1. /\ toSup' \in Seq(Commands \cup Requests) /\ Len(toSup') = Len(toSup) + 1
      /\ Len(toSup) \in Nat /\ toSup'[Len(toSup) + 1] = x
      /\ \A i \in 1..Len(toSup) : toSup'[i] = toSup[i]
  OBVIOUS
<1>2. ASSUME x \in Profiles, wanted' = x PROVE LastToSup' /\ SupHas'
  BY <1>1, <1>2 DEF LastToSup, SupHas
<1>3. ASSUME x \notin Profiles, wanted' = wanted, LastToSup PROVE LastToSup'
  <2> SUFFICES ASSUME NEW i \in 1..Len(toSup'), toSup'[i] \in Profiles,
                      \A j \in 1..Len(toSup') : j > i => toSup'[j] \notin Profiles
               PROVE  toSup'[i] = wanted
    BY <1>3 DEF LastToSup
  <2>1. i \in 1..Len(toSup)
    BY <1>1, <1>3
  <2>2. \A j \in 1..Len(toSup) : j \in 1..Len(toSup') /\ toSup'[j] = toSup[j]
    BY <1>1
  <2> QED
    BY <1>3, <2>1, <2>2 DEF LastToSup
<1>4. ASSUME x \notin Profiles PROVE SupHas' = SupHas
  <2>1. ASSUME SupHas PROVE SupHas'
    BY <1>1, <2>1 DEF SupHas
  <2>2. ASSUME SupHas' PROVE SupHas
    BY <1>1, <1>4, <2>2 DEF SupHas
  <2> QED
    BY <2>1, <2>2 DEF SupHas
<1> QED
  BY <1>1, <1>2, <1>3, <1>4

\* The supervisor takes the first message: what was last is last, and if no
\* profile is behind a profile, that one is the wanted one.
LEMMA TailToSup ==
    ASSUME toSup \in Seq(Commands \cup Requests), toSup # <<>>, toSup' = Tail(toSup),
           wanted' = wanted
    PROVE  /\ toSup' \in Seq(Commands \cup Requests)
           /\ Head(toSup) = toSup[1] /\ 1 \in 1..Len(toSup)
           /\ LastToSup => LastToSup'
           /\ Head(toSup) \notin Profiles /\ SupHas => SupHas'
           /\ Head(toSup) \in Profiles /\ LastToSup /\ ~SupHas' => Head(toSup) = wanted
<1>1. /\ toSup' \in Seq(Commands \cup Requests) /\ Len(toSup') = Len(toSup) - 1
      /\ \A i \in 1..Len(toSup') : toSup'[i] = toSup[i + 1]
      /\ Len(toSup) \in Nat \ {0} /\ Head(toSup) = toSup[1]
  BY HeadTailProperties
<1>2. \A i \in 1..Len(toSup') : i + 1 \in 1..Len(toSup) /\ toSup[i + 1] = toSup'[i]
  BY <1>1
<1>3. \A j \in 2..Len(toSup) : j - 1 \in 1..Len(toSup') /\ toSup'[j - 1] = toSup[j]
  BY <1>1
<1>4. ASSUME LastToSup PROVE LastToSup'
  <2> SUFFICES ASSUME NEW i \in 1..Len(toSup'), toSup'[i] \in Profiles,
                      \A j \in 1..Len(toSup') : j > i => toSup'[j] \notin Profiles
               PROVE  toSup'[i] = wanted
    BY DEF LastToSup
  <2>1. ASSUME NEW j \in 1..Len(toSup), j > i + 1 PROVE toSup[j] \notin Profiles
    <3>1. j \in 2..Len(toSup) /\ j - 1 > i
      BY <2>1, <1>1
    <3> QED
      BY <3>1, <1>3
  <2> QED
    BY <1>2, <1>4, <2>1 DEF LastToSup
<1>5. ASSUME Head(toSup) \notin Profiles, SupHas PROVE SupHas'
  <2>1. PICK i \in 1..Len(toSup) : toSup[i] \in Profiles
    BY <1>5 DEF SupHas
  <2>2. i \in 2..Len(toSup)
    BY <1>1, <1>5, <2>1
  <2> QED
    BY <1>3, <2>1, <2>2 DEF SupHas
<1>6. ASSUME Head(toSup) \in Profiles, LastToSup, ~SupHas' PROVE Head(toSup) = wanted
  <2>1. \A j \in 1..Len(toSup) : j > 1 => j \in 2..Len(toSup)
    BY <1>1
  <2>2. \A j \in 1..Len(toSup) : j > 1 => toSup[j] \notin Profiles
    BY <1>3, <1>6, <2>1 DEF SupHas
  <2> QED
    BY <1>1, <1>6, <2>2 DEF LastToSup
<1> QED
  BY <1>1, <1>4, <1>5, <1>6

\* The supervisor forwards a message: a profile becomes the last one on the
\* stream, anything else changes nothing.
LEMMA AppendDown ==
    ASSUME DownOrder, NEW m \in [n : Nat, command : Commands], down' = Append(down, m),
           wanted' = wanted
    PROVE  /\ m.command \in Profiles /\ m.command = wanted => LastDown' /\ DownHas'
           /\ m.command \notin Profiles /\ LastDown => LastDown'
           /\ m.command \notin Profiles /\ DownHas => DownHas'
<1>1. /\ Len(down') = Len(down) + 1
      /\ Len(down) \in Nat /\ down'[Len(down) + 1] = m
      /\ \A i \in 1..Len(down) : down'[i] = down[i]
  BY DEF DownOrder
<1>2. ASSUME m.command \in Profiles, m.command = wanted PROVE LastDown' /\ DownHas'
  BY <1>1, <1>2 DEF LastDown, DownHas
<1>3. ASSUME m.command \notin Profiles, LastDown PROVE LastDown'
  <2> SUFFICES ASSUME NEW i \in 1..Len(down'), down'[i].command \in Profiles,
                      \A j \in 1..Len(down') : j > i => down'[j].command \notin Profiles
               PROVE  down'[i].command = wanted
    BY DEF LastDown
  <2>1. i \in 1..Len(down)
    BY <1>1, <1>3
  <2>2. \A j \in 1..Len(down) : j \in 1..Len(down') /\ down'[j] = down[j]
    BY <1>1
  <2> QED
    BY <1>3, <2>1, <2>2 DEF LastDown
<1>4. ASSUME DownHas PROVE DownHas'
  BY <1>1, <1>4 DEF DownHas
<1> QED
  BY <1>2, <1>3, <1>4

\* The worker takes one message off the stream, and nothing else with it.
LEMMA TakeDown ==
    ASSUME DownOrder, down # <<>>, 1 \in 1..Len(down), down' = FirstOf(down, 1),
           wanted' = wanted, LastDown
    PROVE  /\ LastDown'
           /\ Head(down).command \notin Profiles /\ DownHas => DownHas'
           /\ Head(down).command \in Profiles /\ ~DownHas' => Head(down).command = wanted
<1>1. /\ Len(down') = Len(down) - 1 /\ Head(down) = down[1]
      /\ \A i \in 1..Len(down) - 1 : down'[i] = down[1 + i] /\ 1 + i \in 1..Len(down)
      /\ Len(down) \in Nat /\ Len(down) >= 1
  <2>1. down \in Seq([n : Nat, command : Commands])
    BY DEF DownOrder
  <2> QED
    BY <2>1, RestOf
<1>2. \A i \in 1..Len(down') : i + 1 \in 1..Len(down) /\ down[i + 1] = down'[i]
  BY <1>1
<1>3. \A j \in 2..Len(down) : j - 1 \in 1..Len(down') /\ down'[j - 1] = down[j]
  <2> SUFFICES ASSUME NEW j \in 2..Len(down)
               PROVE  j - 1 \in 1..Len(down') /\ down'[j - 1] = down[j]
    OBVIOUS
  <2>1. j - 1 \in 1..Len(down) - 1 /\ 1 + (j - 1) = j
    BY <1>1
  <2> QED
    BY <1>1, <2>1
<1>4. LastDown'
  <2> SUFFICES ASSUME NEW i \in 1..Len(down'), down'[i].command \in Profiles,
                      \A j \in 1..Len(down') : j > i => down'[j].command \notin Profiles
               PROVE  down'[i].command = wanted
    BY DEF LastDown
  <2>1. ASSUME NEW j \in 1..Len(down), j > i + 1 PROVE down[j].command \notin Profiles
    <3>1. j \in 2..Len(down) /\ j - 1 > i
      BY <2>1, <1>1
    <3> QED
      BY <3>1, <1>3
  <2> QED
    BY <1>2, <2>1 DEF LastDown
<1>5. ASSUME Head(down).command \notin Profiles, DownHas PROVE DownHas'
  <2>1. PICK i \in 1..Len(down) : down[i].command \in Profiles
    BY <1>5 DEF DownHas
  <2>2. i \in 2..Len(down)
    BY <1>1, <1>5, <2>1
  <2> QED
    BY <1>3, <2>1, <2>2 DEF DownHas
<1>6. ASSUME Head(down).command \in Profiles, ~DownHas' PROVE Head(down).command = wanted
  <2>1. \A j \in 1..Len(down) : j > 1 => j \in 2..Len(down)
    BY <1>1
  <2>2. \A j \in 1..Len(down) : j > 1 => down[j].command \notin Profiles
    BY <1>3, <1>6, <2>1 DEF DownHas
  <2> QED
    BY <1>1, <1>6, <2>2 DEF LastDown
<1> QED
  BY <1>4, <1>5, <1>6

\* A step that leaves messages, worker and profile alone.
LEMMA WayUnchanged == ASSUME UnderWay, UNCHANGED wayVars PROVE UnderWay'
BY DEF UnderWay, wayVars, SupHas, DownHas, LastToSup, LastDown, LoadedOrLoading, Connected

\* No step loses the last profile without saying so.
LEMMA UnderWayStep ==
    ASSUME UnderWay, Registered, DownOrder, [Next]_vars PROVE UnderWay'
<1> USE ControlConstants
<1>1. CASE \/ UNCHANGED vars \/ AnswerArrives \/ LinkBack \/ SupervisorReceives \/ Emit
           \/ \E r \in Requests : RequestTimer(r)
  <2>1. UNCHANGED wayVars
    BY <1>1 DEF vars, sdkVars, ipcVars, phraseVars, loadVars, wayVars, AnswerArrives, LinkBack,
                SupervisorReceives, Emit, RequestTimer
  <2> QED
    BY <2>1, WayUnchanged
<1>2. ASSUME NEW c \in Commands, Command(c) PROVE UnderWay'
  <2>1. /\ toSup' = Append(toSup, c) /\ wanted' = IF c \in Profiles THEN c ELSE wanted
        /\ lost' = (lost /\ c \notin Profiles)
        /\ UNCHANGED <<down, sock, worker, loadPc, loading, installed>>
    BY <1>2 DEF Command, ipcVars, phraseVars, loadVars
  <2>2. CASE c \in Profiles
    <3>1. toSup' \in Seq(Commands \cup Requests) /\ LastToSup' /\ SupHas'
      BY <2>1, <2>2, AppendToSup DEF UnderWay
    <3> QED
      BY <2>1, <2>2, <3>1 DEF UnderWay, Connected
  <2>3. CASE c \notin Profiles
    <3>1. /\ toSup' \in Seq(Commands \cup Requests)
          /\ (LastToSup => LastToSup') /\ SupHas' = SupHas
      BY <2>1, <2>3, AppendToSup DEF UnderWay
    <3> QED
      BY <2>1, <2>3, <3>1 DEF UnderWay, LastDown, DownHas, LoadedOrLoading, Connected
  <2> QED
    BY <2>2, <2>3
<1>3. ASSUME NEW r \in Requests, Request(r) PROVE UnderWay'
  <2>1. UNCHANGED <<wanted, lost, down, sock, worker, loadPc, loading, installed>>
    BY <1>3 DEF Request, ipcVars, phraseVars, loadVars
  <2>2. CASE UNCHANGED toSup
    BY <2>1, <2>2, WayUnchanged DEF wayVars
  <2>3. CASE toSup' = Append(toSup, r)
    <3>1. /\ toSup' \in Seq(Commands \cup Requests)
          /\ (LastToSup => LastToSup') /\ SupHas' = SupHas
      BY <2>1, <2>3, AppendToSup DEF UnderWay
    <3> QED
      BY <2>1, <2>3, <3>1 DEF UnderWay, LastDown, DownHas, LoadedOrLoading, Connected
  <2> QED
    BY <1>3, <2>2, <2>3 DEF Request
<1>4. CASE LinkLost
  BY <1>4 DEF LinkLost, UnderWay, Connected, ipcVars
<1>5. CASE Die \/ Stop
  <2>1. lost' = TRUE /\ down' = <<>> /\ sock' # "worker" /\ (toSup' = toSup \/ toSup' = <<>>)
    BY <1>5 DEF Die, Stop, sdkVars
  <2>2. toSup' \in Seq(Commands \cup Requests)
    BY <2>1, EmptySeq DEF UnderWay
  <2> QED
    BY <2>1, <2>2 DEF UnderWay
<1>6. CASE Accept
  BY <1>6 DEF Accept, UnderWay, Connected, SupHas, LastToSup, LastDown, DownHas, LoadedOrLoading,
              sdkVars, phraseVars, loadVars
<1>7. CASE Spawn
  BY <1>7 DEF Spawn, UnderWay, Connected, SupHas, LastToSup, LastDown, DownHas, sdkVars, ipcVars
<1>8. CASE Connect
  <2>1. /\ UNCHANGED <<toSup, wanted, down, sock>> /\ worker = "starting"
        /\ worker' \in {"loading", "deaf"} /\ lost' = (lost \/ worker' = "deaf")
        /\ loading' = Startup /\ loadPc' = "read"
    BY <1>8 DEF Connect, Begin, sdkVars, ipcVars
  <2> QED
    BY <2>1 DEF UnderWay, Connected, SupHas, LastToSup, LastDown, DownHas, LoadedOrLoading
<1>9. CASE Receiving
  BY <1>9 DEF Receiving, UnderWay, Connected, SupHas, LastToSup, LastDown, DownHas,
              LoadedOrLoading, sdkVars, ipcVars, phraseVars, loadVars
<1>10. CASE Handle
  <2>1. /\ toSup # <<>> /\ toSup' = Tail(toSup)
        /\ UNCHANGED <<wanted, sock, worker, loadPc, loading, installed>>
    BY <1>10 DEF Handle, phraseVars, loadVars
  <2>2. /\ toSup' \in Seq(Commands \cup Requests)
        /\ LastToSup => LastToSup'
        /\ Head(toSup) \notin Profiles /\ SupHas => SupHas'
        /\ Head(toSup) \in Profiles /\ LastToSup /\ ~SupHas' => Head(toSup) = wanted
    BY <2>1, TailToSup DEF UnderWay
  <2>3. CASE Head(toSup) \in Requests /\ Answer(Head(toSup))
    <3>1. UNCHANGED <<down, lost>> /\ Head(toSup) \notin Profiles
      BY <2>3 DEF Answer
    <3> QED
      BY <2>1, <2>2, <3>1 DEF UnderWay, Connected, LastDown, DownHas, LoadedOrLoading
  <2>4. CASE Head(toSup) \in Commands /\ Forward(Head(toSup))
    <3>1. CASE sock # "worker"
      <4>1. down' = down /\ lost' = TRUE
        BY <2>4, <3>1 DEF Forward
      <4> QED
        BY <2>1, <2>2, <4>1 DEF UnderWay, Connected
    <3>2. CASE sock = "worker"
      <4> DEFINE m == [n |-> sent + 1, command |-> Head(toSup)]
      <4>1. /\ down' = Append(down, m) /\ m \in [n : Nat, command : Commands]
            /\ m.command = Head(toSup) /\ lost' = lost
        BY <2>4, <3>2 DEF Forward, DownOrder, UnderWay
      <4> HIDE DEF m
      <4>2. /\ m.command \in Profiles /\ m.command = wanted => LastDown' /\ DownHas'
            /\ m.command \notin Profiles /\ LastDown => LastDown'
            /\ m.command \notin Profiles /\ DownHas => DownHas'
        BY <2>1, <4>1, AppendDown
      <4>3. Connected'
        BY <2>1, <3>2 DEF UnderWay, Connected
      <4>4. LoadedOrLoading => LoadedOrLoading'
        BY <2>1 DEF LoadedOrLoading
      <4>5. Connected
        BY <2>1, <4>3 DEF Connected
      <4>6. CASE Head(toSup) \in Profiles
        BY <2>2, <4>1, <4>2, <4>3, <4>6 DEF UnderWay
      <4>7. CASE Head(toSup) \notin Profiles
        BY <2>2, <4>1, <4>2, <4>3, <4>4, <4>5, <4>7 DEF UnderWay
      <4> QED
        BY <4>6, <4>7
    <3> QED
      BY <3>1, <3>2
  <2> QED
    BY <1>10, <2>3, <2>4 DEF Handle
<1>11. CASE WorkerReceives
  <2>1. PICK k \in 1..Len(down) :
            /\ down' = FirstOf(down, k)
            /\ lost' = (lost \/ k > 1 \/ (/\ Head(down).command \in Profiles
                                          /\ Outcome[Head(down).command] # "ok"))
    BY <1>11 DEF WorkerReceives
  <2>2. /\ worker = "live" /\ loadPc = "idle" /\ down # <<>>
        /\ UNCHANGED <<toSup, wanted, sock, worker>>
    BY <1>11 DEF WorkerReceives, sdkVars
  <2>3. /\ Connected /\ Connected' /\ SupHas' = SupHas /\ (LastToSup => LastToSup')
        /\ toSup' \in Seq(Commands \cup Requests)
    BY <2>2 DEF Connected, SupHas, LastToSup, UnderWay
  <2>4. lost' \in BOOLEAN
    BY <2>1 DEF UnderWay
  <2>5. ASSUME ~lost', ~SupHas' PROVE LastDown' /\ (~DownHas' => LoadedOrLoading')
    <3>6. Len(down) \in Nat
      BY DEF DownOrder
    <3>7. k \in Nat /\ k >= 1
      BY <3>6
    <3>8. ~lost /\ ~(k > 1)
      BY <2>1, <2>5, Zenon
    <3>1. ~lost /\ k = 1
      BY <3>7, <3>8
    <3>2. LastDown /\ (~DownHas => LoadedOrLoading)
      BY <2>3, <2>5, <3>1 DEF UnderWay
    <3>3. /\ LastDown'
          /\ Head(down).command \notin Profiles /\ DownHas => DownHas'
          /\ Head(down).command \in Profiles /\ ~DownHas' => Head(down).command = wanted
      BY <2>1, <2>2, <3>1, <3>2, TakeDown
    <3>4. CASE Head(down).command \in Profiles /\ Begin(Head(down).command)
      BY <2>1, <2>2, <2>5, <3>3, <3>4 DEF Begin, LoadedOrLoading
    <3>5. CASE Head(down).command = "other" /\ UNCHANGED phraseVars
      <4>1. Head(down).command \notin Profiles
        BY <3>5
      <4>2. LoadedOrLoading => LoadedOrLoading'
        BY <2>2, <3>5 DEF LoadedOrLoading, phraseVars, loadVars
      <4> QED
        BY <3>2, <3>3, <4>1, <4>2
    <3> QED
      BY <1>11, <3>3, <3>4, <3>5 DEF WorkerReceives
  <2>6. ~lost' => ~lost
    BY <2>1 DEF UnderWay
  <2> QED
    BY <2>3, <2>4, <2>5, <2>6 DEF UnderWay
<1>12. CASE PhraseStep
  <2>1. UNCHANGED <<toSup, down, sock, worker, wanted, lost>>
    BY <1>12 DEF PhraseStep, sdkVars, ipcVars
  <2>2. LoadedOrLoading => LoadedOrLoading'
    <3>1. CASE MatchStep \/ \E t \in Texts : Hear(t)
      <4>1. UNCHANGED loadVars
        BY <3>1 DEF MatchStep, ReadActive, AnchorPresent, FindVariant, Score, Hear
      <4> QED
        BY <2>1, <4>1 DEF LoadedOrLoading, loadVars
    <3>2. CASE LoadStep
      BY <2>1, <3>2 DEF LoadStep, ReadProfile, ClearRegistry, AddPhrases, RebuildIndex,
                        ReleaseRegistry, LoadedOrLoading, Registered
    <3> QED
      BY <1>12, <3>1, <3>2 DEF PhraseStep
  <2> QED
    BY <2>1, <2>2 DEF UnderWay, Connected, SupHas, LastToSup, LastDown, DownHas
<1> QED
  BY <1>1, <1>2, <1>3, <1>4, <1>5, <1>6, <1>7, <1>8, <1>9, <1>10, <1>11, <1>12 DEF Next

-----------------------------------------------------------------------------

\* What every reachable state satisfies.
IndInv == Registered /\ Matching /\ DownOrder /\ UpOrder /\ UnderWay

LEMMA InitInv == ASSUME Init PROVE IndInv
<1> USE ControlConstants, PhraseConstants DEF Init, PhraseInit
<1>1. Registered
  BY DEF Registered
<1>2. Matching
  BY DEF Matching
<1>3. DownOrder /\ UpOrder
  BY DEF DownOrder, UpOrder
<1>4. UnderWay
  <2>1. toSup \in Seq(Commands \cup Requests) /\ 1..Len(toSup) = {} /\ 1..Len(down) = {}
    OBVIOUS
  <2>2. LastToSup /\ LastDown
    BY <2>1 DEF LastToSup, LastDown
  <2> QED
    BY <2>1, <2>2 DEF UnderWay, Connected
<1> QED
  BY <1>1, <1>2, <1>3, <1>4 DEF IndInv

\* The phrases, the two streams and the profile under way keep in step: the
\* inductive invariant from which the properties of this module follow.
THEOREM Inductive == Spec => []IndInv
<1>1. IndInv /\ [Next]_vars => IndInv'
  BY RegisteredStep, MatchingStep, DownStep, UpStep, UnderWayStep DEF IndInv
<1> QED
  BY <1>1, InitInv, PTL DEF Spec

\* best_match() never scores a registry that is being refilled
\* (orchestrator.py:141-149), whatever the profiles and the texts are.
THEOREM ProfileIsWhole == Spec => []WholeProfile
<1>1. IndInv => WholeProfile
  BY DEF IndInv, Matching, WholeProfile
<1> QED
  BY <1>1, Inductive, PTL

\* A reported phrase belongs to a profile in force during the match
\* (evaluator.py:224-300).
THEOREM MatchIsFromProfileInForce == Spec => []MatchFromProfileInForce
<1>1. IndInv => MatchFromProfileInForce
  BY DEF IndInv, Matching, MatchFromProfileInForce
<1> QED
  BY <1>1, Inductive, PTL

\* The ways to lose a loadProfile() are the ones listed, and no others
\* (supervisor.py:293, ipc/protocol.py:22, worker_process.py:50), for any number
\* of commands, requests and events.
THEOREM ProfileIsLostOnlyBy == Spec => []ProfileLostOnlyBy
<1>1. IndInv => ProfileLostOnlyBy
  <2> SUFFICES ASSUME IndInv, Quiet, ~lost PROVE installed = wanted
    BY DEF ProfileLostOnlyBy
  <2>1. ~SupHas /\ ~DownHas /\ Connected /\ loadPc = "idle"
    BY DEF Quiet, SupHas, DownHas, Connected, IndInv, UnderWay
  <2> QED
    BY <2>1 DEF IndInv, UnderWay, LoadedOrLoading
<1> QED
  BY <1>1, Inductive, PTL

\* Both directions of the IPC channel implement a FIFO that may lose messages
\* and never reorders them, across every crash and restart of the worker.
THEOREM ChannelIsOrdered == Spec => ChannelInOrder
<1>1. Init => DownFifo!Init /\ UpFifo!Init
  BY DEF Init, DownFifo!Init, UpFifo!Init
<1>2. IndInv /\ [Next]_vars => [DownFifo!Next]_<<sent, got>> /\ [UpFifo!Next]_<<upSent, upGot>>
  BY DownStep, UpStep DEF IndInv
<1> QED
  BY <1>1, <1>2, Inductive, PTL DEF Spec, ChannelInOrder, DownFifo!Spec, UpFifo!Spec
=============================================================================
