-------------------------------- MODULE Ladder --------------------------------
(***************************************************************************)
(* The evidence ladder of core/ladder.py: per axis, the level a hypothesis *)
(* has been awarded, and what an award demands.                            *)
(*                                                                         *)
(* A ladder is a function from axes to levels.  A key absent from the      *)
(* Python dict is Unawarded, the value "not_applicable" is NotApplicable;  *)
(* both are integers here only so that every level has one type.           *)
(***************************************************************************)
EXTENDS Integers

AXES == {"mechanism", "reachability", "execution", "economics", "production", "adjudication"}

LEVELS ==
  [mechanism    |-> {0, 1},
   reachability |-> {0, 2, 4},
   execution    |-> {3, 4, 5, 6},
   economics    |-> {0, 5, 6, 7},
   production   |-> {7},
   adjudication |-> {8}]

Unawarded == -1

NotApplicable == -2

Levels == 0..8 \cup {Unawarded, NotApplicable}

Ladders == [AXES -> Levels]

EmptyLadder == [axis \in AXES |-> Unawarded]

(* Artifacts a proof's evidence must name, per axis and level. *)
REQUIRED(axis, level) ==
  CASE axis = "mechanism"    /\ level = 1 -> {"span", "invariant"}
    [] axis = "reachability" /\ level = 2 -> {"entrypoint_path"}
    [] axis = "reachability" /\ level = 4 -> {"run_receipt"}
    [] axis = "execution"    /\ level = 3 -> {"experiment"}
    [] axis = "execution"    /\ level = 4 -> {"run_receipt"}
    [] axis = "execution"    /\ level = 5 -> {"run_receipt", "witness_assertion"}
    [] axis = "execution"    /\ level = 6 -> {"certificate"}
    [] axis = "economics"    /\ level = 5 -> {"econ_harness"}
    [] axis = "economics"    /\ level = 6 -> {"econ_harness", "certificate"}
    [] axis = "economics"    /\ level = 7 -> {"economics_realism", "certificate"}
    [] axis = "production"   /\ level = 7 -> {"production_replay", "certificate"}
    [] axis = "adjudication" /\ level = 8 -> {"adjudication", "human_approval"}
    [] OTHER -> {}

(* The (axis, level) pairs an award rests on. *)
PREDECESSORS(axis, level) ==
  CASE axis = "mechanism"    /\ level = 1 -> {<<"mechanism", 0>>}
    [] axis = "reachability" /\ level = 2 -> {<<"reachability", 0>>}
    [] axis = "reachability" /\ level = 4 -> {<<"reachability", 2>>}
    [] axis = "execution"    /\ level = 4 -> {<<"execution", 3>>}
    [] axis = "execution"    /\ level = 5 -> {<<"execution", 4>>}
    [] axis = "execution"    /\ level = 6 -> {<<"execution", 5>>}
    [] axis = "economics"    /\ level = 6 -> {<<"economics", 5>>, <<"execution", 5>>}
    [] axis = "economics"    /\ level = 7 -> {<<"economics", 6>>, <<"production", 7>>}
    [] axis = "production"   /\ level = 7 -> {<<"execution", 6>>, <<"economics", 6>>}
    [] axis = "adjudication" /\ level = 8 -> {<<"production", 7>>, <<"economics", 7>>}
    [] OTHER -> {}

(***************************************************************************)
(* The certificate part of a proof: absent; present but not verified       *)
(* against the proof's hashes; verified; verified together with the        *)
(* cross-check hash.                                                       *)
(***************************************************************************)
CertificateKinds == {"none", "unverified", "verified", "cross_checked"}

CertificateSuffices(level, certificate) ==
  /\ level >= 6 => certificate \in {"verified", "cross_checked"}
  /\ level = 7  => certificate = "cross_checked"

(* _validate: the proof on its own, and the state an adjudication needs. *)
ProofValid(token_valid, state, proof) ==
  /\ token_valid
  /\ proof.axis \in AXES
  /\ proof.level = NotApplicable \/ proof.level \in LEVELS[proof.axis]
  /\ REQUIRED(proof.axis, proof.level) \subseteq proof.evidence
  /\ CertificateSuffices(proof.level, proof.certificate)
  /\ proof.axis = "adjudication" /\ proof.level = 8 => state \in {"FINDING", "CLOSED"}

prerequisites_satisfied(ladder, axis, level) ==
  \A pre \in PREDECESSORS(axis, level) : ladder[pre[1]] >= pre[2]

CurrentLevel(ladder, axis) == IF ladder[axis] = Unawarded THEN 0 ELSE ladder[axis]

(* validate_award on the caller's copy: TRUE, as opposed to FALSE or LadderError. *)
validate_awardNoPrerequisites(token_valid, hypothesis, proof) ==
  /\ ProofValid(token_valid, hypothesis.state, proof)
  /\ IF proof.level = NotApplicable
     THEN hypothesis.ladder[proof.axis] \in {Unawarded, NotApplicable}
     ELSE /\ hypothesis.ladder[proof.axis] # NotApplicable
          /\ proof.level >= CurrentLevel(hypothesis.ladder, proof.axis)

validate_award(token_valid, hypothesis, proof) ==
  /\ ProofValid(token_valid, hypothesis.state, proof)
  /\ IF proof.level = NotApplicable
     THEN hypothesis.ladder[proof.axis] \in {Unawarded, NotApplicable}
     ELSE LET current == CurrentLevel(hypothesis.ladder, proof.axis)
          IN  /\ hypothesis.ladder[proof.axis] # NotApplicable
              /\ proof.level >= current
              /\ proof.level > current
                   => prerequisites_satisfied(hypothesis.ladder, proof.axis, proof.level)

award(ladder, proof) == [ladder EXCEPT ![proof.axis] = proof.level]

==============================================================================
