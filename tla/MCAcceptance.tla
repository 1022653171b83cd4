----------------------------- MODULE MCAcceptance -----------------------------
(***************************************************************************)
(* Instances of Acceptance for TLC.                                        *)
(***************************************************************************)
EXTENDS Acceptance, TLC

CONSTANTS p1, p2

Base == [test |-> 1, harness |-> 1, wrapper |-> 1, target |-> 1, tools |-> 1]

OneTree == {Base}

(* The base tree, and one tree per part that somebody may change. *)
EditedTrees == {Base} \cup {[Base EXCEPT ![part] = 2] : part \in DOMAIN Base}

Good == [assertion |-> "holds", cheatcodes |-> {"prank"}, advance |-> "within",
         evidence |-> "complete", gas |-> 1]

With(trace, control) == [trace |-> trace, control |-> control]

OneOutcome == {With(Good, "quiet")}

(* Everything that may be wrong with a run, one thing at a time: another     *)
(* assertion, time beyond the limit, economics that cannot be derived, a     *)
(* cheatcode that only the lax policy allows, one that passes collect and    *)
(* not the gates, every control that is not quiet; and nothing, with two     *)
(* measurements.                                                             *)
AllOutcomes ==
  {With(trace, "quiet") :
     trace \in {Good, [Good EXCEPT !.gas = 2], [Good EXCEPT !.advance = "beyond"]}
       \cup {[Good EXCEPT !.assertion = a] : a \in {"differs", "absent"}}
       \cup {[Good EXCEPT !.evidence = e] : e \in {"uncovered", "no_snapshot", "over_capital"}}
       \cup {[Good EXCEPT !.cheatcodes = {"prank", c}] : c \in {"deal", "hoax"}}}
    \cup {With(Good, control) : control \in Controls}

OnePolicy == {{"prank", "hoax"}}

(* A strict policy and one that allows everything. *)
TwoPolicies == {{"prank", "hoax"}, Cheatcodes}

==============================================================================
