---------------------------- MODULE MCControlPath ----------------------------
(* ControlPath with a startup profile that has a disabled phrase, a second   *)
(* profile that gives one of its variants to another phrase, and one that    *)
(* does not convert.                                                         *)
EXTENDS ControlPath

CONSTANTS home, away, broken, ava, nova, luna, av, no, r1, r2

MCEntries ==
    [p \in {home, away, broken} |->
       IF p = home
       THEN <<[phrase |-> ava, variants |-> {av}, enabled |-> TRUE],
              [phrase |-> luna, variants |-> {no}, enabled |-> FALSE]>>
       ELSE <<[phrase |-> nova, variants |-> {av}, enabled |-> TRUE]>>]

MCOutcome ==
    [p \in {home, away, broken} |-> IF p = broken THEN "invalid" ELSE "ok"]

MCTexts == {[anchors |-> {av, no}, like |-> {ava}]}

MCKind == [r \in Requests |-> IF r = r1 THEN "validate" ELSE "config"]
=============================================================================
