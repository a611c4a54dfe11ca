----------------------------- MODULE PhraseMatcher -----------------------------
(***************************************************************************)
(* The wake phrases of a worker: the registry                              *)
(* (runtime/matcher/registry/phrase_registry.py), the variant index built  *)
(* from it (runtime/matcher/variants.py), and the matcher                  *)
(* (runtime/matcher/evaluator.py).  One thread replaces the profile        *)
(* (WakeEngine.load_profile) while the audio thread is in best_match(),    *)
(* which reads the registry once and the index three times, each under its *)
(* own lock.                                                               *)
(*                                                                         *)
(* A text is the set of variants that can be recognised in it and the set  *)
(* of phrases that score above the fuzzy threshold; which candidate has    *)
(* the best score, and whether it is enough, is left open.  Commands that  *)
(* would change one phrase never reach the registry (see ControlPath).     *)
(***************************************************************************)
EXTENDS Naturals, Sequences

CONSTANTS Phrases, Variants,  \* canonical phrases; anchor variants
          Profiles,           \* profile files
          Entries,            \* Entries[p]: the wakePhrases of p, merged
          Outcome,            \* Outcome[p]: does loading p succeed
          Texts,              \* what the recogniser may come up with
          None

Entry == [phrase : Phrases, variants : SUBSET Variants, enabled : BOOLEAN]

\* "unreadable": the file, its migrations or its parents raise; "invalid":
\* PhraseConfig.from_dict raises.  The phrase ids of a profile are distinct.
ASSUME PhraseConstants ==
    /\ Entries \in [Profiles -> Seq(Entry)]
    /\ Outcome \in [Profiles -> {"ok", "unreadable", "invalid"}]
    /\ Texts \subseteq [anchors : SUBSET Variants, like : SUBSET Phrases]
    /\ None \notin Phrases \cup Variants \cup Profiles

VARIABLES
    registry,   \* PhraseRegistry._phrases, in insertion order
    regLocked,  \* load_profile holds registry._lock
    index,      \* _variant_to_canon; its domain is _all_variants
    installed,  \* history: the profile the index was last built from
    loading,    \* the profile being loaded
    loadPc,     \* where load_profile is
    text,       \* the text best_match() looks at
    matchPc,    \* where best_match() is
    active,     \* phrases_to_score
    variant,    \* matched_variant
    matched,    \* the phrase last reported
    during      \* history: profiles in force since best_match() was called

loadVars == <<registry, regLocked, index, installed, loading, loadPc>>
matchVars == <<text, matchPc, active, variant, matched, during>>
phraseVars == <<loadVars, matchVars>>

PhraseTypeOK ==
    /\ registry \in Seq(Entry) /\ regLocked \in BOOLEAN
    /\ DOMAIN index \subseteq Variants /\ \A v \in DOMAIN index : index[v] \in Phrases
    /\ {installed, loading} \subseteq Profiles \cup {None}
    /\ loadPc \in {"idle", "read", "clear", "add", "rebuild", "release"}
    /\ text \in Texts \cup {None}
    /\ matchPc \in {"idle", "active", "anchor", "variant", "score"}
    /\ active \subseteq Phrases /\ variant \in Variants \cup {None}
    /\ matched \in Phrases \cup {None} /\ during \subseteq Profiles

\* A new worker process: nothing is loaded.
PhraseInit ==
    /\ registry = <<>> /\ regLocked = FALSE /\ index = <<>>
    /\ installed = None /\ loading = None /\ loadPc = "idle"
    /\ text = None /\ matchPc = "idle" /\ active = {} /\ variant = None
    /\ matched = None /\ during = {}

PhraseReset ==
    /\ registry' = <<>> /\ regLocked' = FALSE /\ index' = <<>>
    /\ installed' = None /\ loading' = None /\ loadPc' = "idle"
    /\ text' = None /\ matchPc' = "idle" /\ active' = {} /\ variant' = None
    /\ matched' = None /\ during' = {}

-----------------------------------------------------------------------------
(* WakeEngine.load_profile                                                  *)

Begin(p) ==
    /\ loadPc = "idle"
    /\ loading' = p /\ loadPc' = "read"
    /\ UNCHANGED <<registry, regLocked, index, installed, matchVars>>

\* Mutant: the receiving thread ends with the exception.
ReadProfileThreadEnds ==
    /\ loadPc = "read"
    /\ Outcome[loading] = "ok" /\ loadPc' = "clear"
    /\ UNCHANGED <<registry, regLocked, index, installed, loading, matchVars>>

\* profile_loader.load_profile and PhraseConfig.from_dict raise before anything
\* the matcher sees has changed; the caller logs the error.
ReadProfile ==
    /\ loadPc = "read"
    /\ \/ Outcome[loading] = "ok" /\ loadPc' = "clear" /\ UNCHANGED loading
       \/ Outcome[loading] # "ok" /\ loadPc' = "idle" /\ loading' = None
    /\ UNCHANGED <<registry, regLocked, index, installed, matchVars>>

ClearRegistry ==
    /\ loadPc = "clear" /\ loadPc' = "add"
    /\ regLocked' = TRUE /\ registry' = <<>>
    /\ UNCHANGED <<index, installed, loading, matchVars>>

AddPhrases ==
    /\ loadPc = "add" /\ loadPc' = "rebuild"
    /\ registry' = Entries[loading]
    /\ UNCHANGED <<regLocked, index, installed, loading, matchVars>>

\* Every phrase, enabled or not, has its variants in the index; a variant that
\* two phrases share leads to the later one.
IndexOf(entries) ==
    [v \in UNION {entries[i].variants : i \in DOMAIN entries} |->
       LET holders == {i \in DOMAIN entries : v \in entries[i].variants}
       IN  entries[CHOOSE i \in holders : \A j \in holders : j <= i].phrase]

\* A match that is under way may see the new index from here on.
InForce(p) == during' = IF matchPc \in {"idle", "active"} THEN during ELSE during \cup {p}

\* Mutant: the index is extended, not rebuilt.
RebuildIndexKeepsOld ==
    /\ loadPc = "rebuild" /\ loadPc' = "release"
    /\ index' = [v \in DOMAIN IndexOf(registry) \cup DOMAIN index |->
                   IF v \in DOMAIN IndexOf(registry) THEN IndexOf(registry)[v] ELSE index[v]]
    /\ installed' = loading
    /\ InForce(loading)
    /\ UNCHANGED <<registry, regLocked, loading, text, matchPc, active, variant, matched>>

RebuildIndex ==
    /\ loadPc = "rebuild" /\ loadPc' = "release"
    /\ index' = IndexOf(registry)
    /\ installed' = loading
    /\ InForce(loading)
    /\ UNCHANGED <<registry, regLocked, loading, text, matchPc, active, variant, matched>>

ReleaseRegistry ==
    /\ loadPc = "release" /\ loadPc' = "idle"
    /\ regLocked' = FALSE /\ loading' = None
    /\ UNCHANGED <<registry, index, installed, matchVars>>

LoadStep ==
    ReadProfile \/ ClearRegistry \/ AddPhrases \/ RebuildIndex \/ ReleaseRegistry

-----------------------------------------------------------------------------
(* best_match                                                               *)

\* best_match() returns; its locals are gone.
Return(result) ==
    /\ matchPc' = "idle" /\ matched' = result
    /\ text' = None /\ active' = {} /\ variant' = None
    /\ during' = IF result = None THEN {} ELSE during

Hear(t) ==
    /\ matchPc = "idle"
    /\ text' = t /\ matchPc' = "active" /\ matched' = None /\ during' = {}
    /\ UNCHANGED <<loadVars, active, variant>>

EnabledIn(entries) ==
    {entries[i].phrase : i \in {j \in DOMAIN entries : entries[j].enabled}}

\* Mutant: the registry is read without its lock.
ReadActiveUnlocked ==
    /\ matchPc = "active"
    /\ active' = EnabledIn(registry) /\ matchPc' = "anchor"
    /\ during' = {installed} \ {None}
    /\ UNCHANGED <<text, variant, matched, loadVars>>

\* get_active_phrases waits for the registry's lock.
ReadActive ==
    /\ matchPc = "active" /\ ~regLocked
    /\ LET enabled == EnabledIn(registry) IN
       \/ enabled = {} /\ Return(None)
       \/ /\ enabled # {} /\ active' = enabled /\ matchPc' = "anchor"
          /\ during' = {installed} \ {None}
          /\ UNCHANGED <<text, variant, matched>>
    /\ UNCHANGED loadVars

\* anchor_present: the hard gate
AnchorPresent ==
    /\ matchPc = "anchor"
    /\ \/ text.anchors \cap DOMAIN index = {} /\ Return(None)
       \/ /\ text.anchors \cap DOMAIN index # {} /\ matchPc' = "variant"
          /\ UNCHANGED <<text, active, variant, matched, during>>
    /\ UNCHANGED loadVars

\* _find_matched_variant reads the index again; an anchor that only sounds like
\* a variant leaves it empty.
FindVariant ==
    /\ matchPc = "variant" /\ matchPc' = "score"
    /\ \E v \in (text.anchors \cap DOMAIN index) \cup {None} : variant' = v
    /\ UNCHANGED <<loadVars, text, active, matched, during>>

\* get_canonical, the scores and _resolve_phrase_candidate: the canonical
\* phrase of the variant is a candidate even if it is not an active phrase.
Candidates ==
    (active \cap text.like)
        \cup (IF variant \in DOMAIN index THEN {index[variant]} ELSE {})

Score ==
    /\ matchPc = "score"
    /\ \E c \in Candidates \cup {None} : Return(c)
    /\ UNCHANGED loadVars

MatchStep == ReadActive \/ AnchorPresent \/ FindVariant \/ Score

PhrasesOf(p) == {Entries[p][i].phrase : i \in DOMAIN Entries[p]}

\* Whatever the two threads do, best_match() scores the enabled phrases of one
\* whole profile, never a registry that is being refilled: load_profile holds
\* the registry's lock from clear() to the new index (orchestrator.py:141-149,
\* README "Atomically replace Phrase Registry").
WholeProfile ==
    matchPc \in {"anchor", "variant", "score"} =>
        \E p \in Profiles : active = EnabledIn(Entries[p])

\* A phrase is reported only if it is in a profile that was in force at some
\* moment of the match: a match begun after load_profile returned never reports
\* a phrase that only the earlier profile had (evaluator.py:224-300, README
\* "Next ASR frame uses new profile").
MatchFromProfileInForce ==
    matched # None => \E p \in during : matched \in PhrasesOf(p)
=============================================================================
