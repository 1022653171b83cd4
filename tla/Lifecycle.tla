------------------------------ MODULE Lifecycle ------------------------------
(***************************************************************************)
(* The hypothesis lifecycle of core/lifecycle.py: the states, the edges    *)
(* that are legal, the evidence every edge demands, and the authority a    *)
(* reopening demands.                                                      *)
(*                                                                         *)
(* An evidence reference is the text "<prefix>:<non-blank>".  Only the     *)
(* prefix decides anything, so a list of references is the set of prefixes *)
(* it holds; "other" stands for a reference with no known prefix.          *)
(***************************************************************************)
EXTENDS Naturals

HState == {"OPEN", "INVESTIGATING", "CONFIRMED", "FINDING", "CLOSED",
           "CLOSED_DUPLICATE", "PARKED", "MERGED"}

LEGAL_TRANSITIONS ==
  [OPEN             |-> {"INVESTIGATING", "PARKED", "CLOSED", "CLOSED_DUPLICATE"},
   INVESTIGATING    |-> {"CONFIRMED", "PARKED", "CLOSED", "CLOSED_DUPLICATE"},
   CONFIRMED        |-> {"INVESTIGATING", "FINDING", "CLOSED_DUPLICATE", "PARKED", "CLOSED"},
   PARKED           |-> {"INVESTIGATING", "CLOSED", "MERGED"},
   FINDING          |-> {"CLOSED", "CLOSED_DUPLICATE", "MERGED"},
   CLOSED           |-> {"INVESTIGATING"},
   CLOSED_DUPLICATE |-> {"INVESTIGATING"},
   MERGED           |-> {"INVESTIGATING"}]

HUMAN_ONLY_REOPENS == {"CLOSED", "CLOSED_DUPLICATE", "MERGED"} \X {"INVESTIGATING"}

Prefixes ==
  {"other", "task", "scope", "in_scope", "assumption", "budget", "human_reason",
   "disproof", "not_actionable", "finding", "hypothesis", "duplicate_reason",
   "execution_l5", "run_receipt", "witness_assertion", "build_pass", "ast_pass",
   "trace_policy_pass", "mechanism_l1", "reachability_l2", "economics_l5", "impact",
   "failure", "blocker", "execution_l6", "hard_verifier_pass", "economics_l6",
   "production_l7", "production:not_applicable", "adjudication", "human_override",
   "repair", "economics", "certification_failure", "unblocked", "permanent_blocker",
   "parent", "replacement", "merge_rationale", "invalidating", "preserved_evidence",
   "new_evidence", "reviewer2"}

(***************************************************************************)
(* What the edge from one state to another requires: a set of clauses,     *)
(* each met by any one of its prefixes (_has_any; a singleton is _has).    *)
(* The reopening edges have their own rule below.                          *)
(***************************************************************************)
Invalidating == {{"disproof", "scope", "not_actionable"}}

DuplicateOfFinding == {{"finding"}, {"duplicate_reason"}}

RequiredEvidence ==
  [OPEN |->
     [INVESTIGATING    |-> {{"task"}, {"scope", "in_scope"}},
      PARKED           |-> {{"assumption", "budget", "human_reason"}},
      CLOSED           |-> Invalidating,
      CLOSED_DUPLICATE |-> {{"finding", "hypothesis"}, {"duplicate_reason"}}],
   INVESTIGATING |->
     [CONFIRMED        |-> {{"execution_l5"}, {"run_receipt"}, {"witness_assertion"},
                            {"build_pass"}, {"ast_pass"}, {"trace_policy_pass"},
                            {"mechanism_l1"}, {"reachability_l2"},
                            {"economics_l5", "impact"}},
      PARKED           |-> {{"failure", "human_reason", "blocker"}},
      CLOSED           |-> Invalidating,
      CLOSED_DUPLICATE |-> DuplicateOfFinding],
   CONFIRMED |->
     [FINDING          |-> {{"execution_l6"}, {"hard_verifier_pass"},
                            {"economics_l6", "impact"},
                            {"production_l7", "production:not_applicable"},
                            {"adjudication", "human_override"}},
      INVESTIGATING    |-> {{"repair"}},
      PARKED           |-> {{"economics", "blocker", "certification_failure"}},
      CLOSED           |-> Invalidating,
      CLOSED_DUPLICATE |-> DuplicateOfFinding],
   PARKED |->
     [INVESTIGATING    |-> {{"unblocked"}},
      CLOSED           |-> {{"permanent_blocker", "scope"}},
      MERGED           |-> {{"parent"}, {"replacement"}, {"merge_rationale"}}],
   FINDING |->
     [CLOSED           |-> {{"disproof", "invalidating", "scope"}},
      CLOSED_DUPLICATE |-> DuplicateOfFinding,
      MERGED           |-> {{"replacement"}, {"preserved_evidence"}}],
   CLOSED              |-> [INVESTIGATING |-> {}],
   CLOSED_DUPLICATE    |-> [INVESTIGATING |-> {}],
   MERGED              |-> [INVESTIGATING |-> {}]]

HasSomeEvidence(old, new, evidence) ==
  \E clause \in RequiredEvidence[old][new] : clause \cap evidence # {}

HasEvidence(old, new, evidence) ==
  \A clause \in RequiredEvidence[old][new] : clause \cap evidence # {}

(***************************************************************************)
(* A token is a capability minted by this process for a driver or for a    *)
(* human override; one whose MAC was not made with this process's secret   *)
(* ("foreign") is not valid.                                               *)
(***************************************************************************)
Tokens == {"driver", "human", "foreign"}

is_valid(token) == token # "foreign"

human_override(token) == token = "human"

ReopenAllowed(token, reopen_count, evidence) ==
  /\ human_override(token)
  /\ {"human_reason", "new_evidence", "replacement"} \subseteq evidence
  /\ reopen_count >= 3 => "reviewer2" \in evidence

(***************************************************************************)
(* validate_transition returns normally.  `hypothesis' is the caller's     *)
(* in-memory copy: its state and reopen_count, not the stored ones.        *)
(***************************************************************************)
validate_transition(token, hypothesis, new_state, cause, evidence) ==
  /\ is_valid(token)
  /\ cause
  /\ evidence # {}
  /\ new_state \in LEGAL_TRANSITIONS[hypothesis.state]
  /\ <<hypothesis.state, new_state>> \in HUMAN_ONLY_REOPENS
       => ReopenAllowed(token, hypothesis.reopen_count, evidence)
  /\ HasEvidence(hypothesis.state, new_state, evidence)

==============================================================================
