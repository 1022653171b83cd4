-------------------------- MODULE MCHypothesisStore --------------------------
(***************************************************************************)
(* Instances of HypothesisStore for TLC.                                   *)
(***************************************************************************)
EXTENDS HypothesisStore, TLC

(* What closes a hypothesis and what reopens it, and nothing that confirms it. *)
ReopenEvidences ==
  {{"disproof"}, {"new_evidence", "human_reason", "replacement"},
   {"new_evidence", "human_reason", "replacement", "reviewer2"}}

(* What a FINDING takes, the same without any one clause, what sends a       *)
(* hypothesis back, and what closes one, whose adjudication may be awarded.  *)
AllOf(old, new) == UNION RequiredEvidence[old][new]

PromotionEvidences ==
  {AllOf("OPEN", "INVESTIGATING"), AllOf("INVESTIGATING", "CONFIRMED"),
   AllOf("CONFIRMED", "FINDING") \cup {"execution_l5"},
   {"repair"}, {"failure"}, {"unblocked"}, {"disproof"}}
  \cup {AllOf("INVESTIGATING", "CONFIRMED") \ clause :
           clause \in RequiredEvidence["INVESTIGATING"]["CONFIRMED"]}
  \cup {AllOf("CONFIRMED", "FINDING") \ clause :
           clause \in RequiredEvidence["CONFIRMED"]["FINDING"]}

(* A proof with everything its level requires. *)
FullProof(axis, level, certificate) ==
  [axis |-> axis, level |-> level, evidence |-> REQUIRED(axis, level), certificate |-> certificate]

OneProof == {FullProof("execution", 3, "none")}

LadderProofs ==
  {FullProof("execution", 4, "none"), FullProof("execution", 5, "none"),
   FullProof("execution", 6, "unverified"), FullProof("execution", 6, "verified"),
   FullProof("economics", 6, "verified"),
   FullProof("production", 7, "cross_checked"), FullProof("economics", 7, "cross_checked"),
   FullProof("adjudication", 8, "verified"),
   FullProof("production", NotApplicable, "none")}

(* Payloads: with texts and nothing else, one more key, or every key. *)
Texts(note) == [lens |-> Absent, reopen_count |-> Absent, ladder |-> Absent, note |-> note]

Lens(lens) == [Texts(Absent) EXCEPT !.lens = lens]

Full(lens, note) ==
  [lens |-> lens, reopen_count |-> 0, ladder |-> EmptyLadder, note |-> note]

NoPayloads == {}

FullCreations == {Full(lens, note) : lens \in Lenses, note \in Notes}

(* Every key; a count restored and no column; no key at all; a refused text. *)
RaceCreations ==
  {Full("l1", "secret"), [Texts("plain") EXCEPT !.reopen_count = 2], Texts(Absent),
   Texts("reactive")}

(* A save that moves to another lens and restores a higher count. *)
RacePayloads == {[Lens("l2") EXCEPT !.reopen_count = 4, !.note = "secret"]}

(* A save of a ladder that shows economics 7 without production 7. *)
LadderPayloads ==
  {[Texts(Absent) EXCEPT !.ladder = [EmptyLadder EXCEPT !["execution"] = 5, !["economics"] = 7]]}

Symmetry == Permutations(Workers)

==============================================================================
