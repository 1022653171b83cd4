------------------------- MODULE HypothesisWalkProofs -------------------------
(***************************************************************************)
(* Proofs about the path of a hypothesis through its states: the recorded  *)
(* transitions form a walk, a FINDING has its evidence on it, and the      *)
(* store implements the abstract lifecycle.                                *)
(*                                                                         *)
(* All three rest on StepShape: a step leaves the tables alone, appends a  *)
(* notice, or writes one row together with the one event that describes it.*)
(***************************************************************************)
EXTENDS HypothesisStoreProofs, FiniteSetTheorems

(***************************************************************************)
(* How a step changes the log and the rows, one hypothesis at a time.      *)
(***************************************************************************)

(* The moves of h in a log. *)
MovesIn(log, h) == {k \in 1..Len(log) : log[k].entity_id = h /\ log[k].kind = "hyp_transition"}

(* t is s and more events. *)
Extends(s, t) ==
  /\ Len(s) \in Nat /\ Len(t) \in Nat /\ Len(s) <= Len(t)
  /\ \A k \in 1..Len(s) : t[k] = s[k]

(* Nothing after s in t moves h. *)
NoNewMove(s, t, h) ==
  \A k \in 1..Len(t) : k > Len(s) => ~(t[k].entity_id = h /\ t[k].kind = "hyp_transition")

(* The first event after s in t moves h, and no other does. *)
OneNewMove(s, t, h) ==
  /\ Len(s) < Len(t)
  /\ t[Len(s) + 1].entity_id = h /\ t[Len(s) + 1].kind = "hyp_transition"
  /\ \A k \in 1..Len(t) : k > Len(s) + 1 => ~(t[k].entity_id = h /\ t[k].kind = "hyp_transition")

(* What a step may do to hypothesis h. *)
Still(h) == rows'[h] # Nil /\ rows[h] # Nil /\ rows'[h].state = rows[h].state

Untouched(h) == NoNewMove(events, events', h) /\ ((rows[h] = Nil /\ rows'[h] = Nil) \/ Still(h))

Created(h) ==
  NoNewMove(events, events', h) /\ rows[h] = Nil /\ rows'[h] # Nil /\ rows'[h].state = "OPEN"

Moved(h) ==
  LET e == events'[Len(events) + 1]
  IN  /\ OneNewMove(events, events', h)
      /\ rows[h] # Nil /\ rows'[h] # Nil
      /\ e.from = rows[h].state /\ e.to = rows'[h].state
      /\ rows[h].state \in HState /\ rows'[h].state \in HState
      /\ rows'[h].state \in LEGAL_TRANSITIONS[rows[h].state]
      /\ HasEvidence(rows[h].state, rows'[h].state, e.evidence)

(* At most one hypothesis is created or moved by a step. *)
LEMMA StepEffect ==
  TypeInv /\ [Next]_vars =>
    /\ Extends(events, events')
    /\ \/ \A h \in Hyps : Untouched(h)
       \/ \E h \in Hyps : (Created(h) \/ Moved(h)) /\ \A g \in Hyps \ {h} : Untouched(g)
<1> SUFFICES ASSUME TypeInv, [Next]_vars
             PROVE  /\ Extends(events, events')
                    /\ \/ \A h \in Hyps : Untouched(h)
                       \/ \E h \in Hyps : /\ Created(h) \/ Moved(h)
                                          /\ \A g \in Hyps \ {h} : Untouched(g)
  OBVIOUS
<1>1. TypeOK /\ Shape /\ Extends(events, events')
  BY StepShape, LogGrows DEF TypeInv, LogGrew, Extends
<1>2. Len(events) \in Nat
  BY <1>1 DEF Extends
<1>3. CASE UNCHANGED <<events, rows>>
  <2>1. \A h \in Hyps : Untouched(h)
    BY <1>2, <1>3 DEF Untouched, NoNewMove, Still
  <2> QED
    BY <1>1, <2>1
<1>4. ASSUME NEW g \in Hyps, NEW kind \in NoticeKinds, Noticed(g, kind)
      PROVE  \A h \in Hyps : Untouched(h)
  <2>1. BareEvent(kind, g) \in Events /\ BareEvent(kind, g).kind # "hyp_transition"
    BY BareEventType DEF EventKinds, NoticeKinds, BareEvent
  <2>2. /\ Len(events') = Len(events) + 1 /\ rows' = rows
        /\ events'[Len(events) + 1] = BareEvent(kind, g)
    BY <1>1, <1>4, <2>1 DEF Noticed, TypeOK
  <2>3. \A h \in Hyps : NoNewMove(events, events', h)
    BY <1>2, <2>1, <2>2 DEF NoNewMove
  <2> QED
    BY <2>2, <2>3 DEF Untouched, Still
<1>5. ASSUME NEW g \in Hyps, NEW row \in Rows, NEW e \in Events, NEW more \in Seq(Events),
             Written(g, row, e, more)
      PROVE  \/ \A h \in Hyps : Untouched(h)
             \/ \E h \in Hyps : (Created(h) \/ Moved(h)) /\ \A f \in Hyps \ {h} : Untouched(f)
  <2> DEFINE n == BareEvent("reopen_threshold_exceeded", g)
  <2>1. n \in Events /\ n.kind # "hyp_transition"
    BY BareEventType DEF BareEvent, EventKinds, NoticeKinds
  <2>2. /\ (more = <<>> \/ more = <<n>>) /\ events' = Append(events, e) \o more
        /\ rows' = [rows EXCEPT ![g] = row] /\ e.entity_id = g
    BY <1>5 DEF Written
  <2> HIDE DEF n
  <2>3. /\ Len(events') >= Len(events) + 1 /\ Len(events') \in Nat
        /\ events'[Len(events) + 1] = e
        /\ \A k \in 1..Len(events') :
             k \in 1..Len(events) \/ k = Len(events) + 1 \/ (k = Len(events) + 2 /\ events'[k] = n)
    <3>1. GrownBy(events, events', e, n)
      BY <1>1, <2>1, <2>2, LogGrowth DEF TypeOK
    <3> QED
      BY <3>1 DEF GrownBy
  <2>4. rows'[g] = row /\ rows'[g] # Nil /\ \A f \in Hyps \ {g} : rows'[f] = rows[f]
    BY <1>1, <2>2, NilAssumption DEF TypeOK
  <2>5. \A f \in Hyps \ {g} : Untouched(f)
    <3>1. \A f \in Hyps \ {g} : NoNewMove(events, events', f)
      BY <1>2, <2>1, <2>2, <2>3 DEF NoNewMove
    <3> QED
      BY <2>4, <3>1 DEF Untouched, Still
  <2>6. CASE e.kind # "hyp_transition"
    <3>1. NoNewMove(events, events', g)
      BY <1>2, <2>1, <2>3, <2>6 DEF NoNewMove
    <3>2. (rows[g] = Nil /\ row.state = "OPEN") \/ (rows[g] # Nil /\ row.state = rows[g].state)
      BY <1>5, <2>6 DEF Written
    <3>3. Created(g) \/ Untouched(g)
      BY <2>4, <3>1, <3>2 DEF Created, Untouched, Still
    <3> QED
      BY <2>5, <3>3
  <2>7. CASE e.kind = "hyp_transition"
    <3>1. OneNewMove(events, events', g)
      BY <1>2, <2>1, <2>2, <2>3, <2>7 DEF OneNewMove
    <3>2. /\ rows[g] # Nil /\ e.from = rows[g].state /\ e.to = row.state
          /\ row.state \in LEGAL_TRANSITIONS[rows[g].state]
          /\ HasEvidence(rows[g].state, row.state, e.evidence)
      BY <1>5, <2>7 DEF Written
    <3>3. rows[g].state \in HState /\ row.state \in HState
      BY <1>1, <3>2 DEF TypeOK, Rows
    <3>4. Moved(g)
      BY <2>3, <2>4, <3>1, <3>2, <3>3 DEF Moved
    <3> QED
      BY <2>5, <3>4
  <2> QED
    BY <2>6, <2>7
<1> QED
  BY <1>1, <1>3, <1>4, <1>5 DEF Shape

(***************************************************************************)
(* The evidence of a FINDING.                                              *)
(***************************************************************************)

(* The only edges into CONFIRMED and FINDING. *)
LEMMA EdgeFacts ==
  ASSUME NEW s \in HState, NEW t \in LEGAL_TRANSITIONS[s]
  PROVE  /\ t = "CONFIRMED" => s = "INVESTIGATING"
         /\ t = "FINDING" => s = "CONFIRMED"
BY DEF HState, LEGAL_TRANSITIONS

(* The clauses that a confirmation and a promotion must meet. *)
ConfirmedBy ==
  {{"execution_l5"}, {"run_receipt"}, {"witness_assertion"}, {"build_pass"}, {"ast_pass"},
   {"trace_policy_pass"}, {"mechanism_l1"}, {"reachability_l2"}, {"economics_l5", "impact"}}

FindingBy ==
  {{"execution_l6"}, {"hard_verifier_pass"}, {"economics_l6", "impact"},
   {"production_l7", "production:not_applicable"}, {"adjudication", "human_override"}}

Meets(evidence, clauses) == \A clause \in clauses : clause \cap evidence # {}

(* lifecycle.py demands every one of those clauses on those edges. *)
LEMMA EvidenceFacts ==
  ASSUME NEW evidence
  PROVE  /\ HasEvidence("INVESTIGATING", "CONFIRMED", evidence) => Meets(evidence, ConfirmedBy)
         /\ HasEvidence("CONFIRMED", "FINDING", evidence) => Meets(evidence, FindingBy)
<1>1. ConfirmedBy \subseteq RequiredEvidence["INVESTIGATING"]["CONFIRMED"]
  BY DEF RequiredEvidence, ConfirmedBy
<1>2. FindingBy \subseteq RequiredEvidence["CONFIRMED"]["FINDING"]
  BY DEF RequiredEvidence, FindingBy
<1> QED
  BY <1>1, <1>2 DEF HasEvidence, Meets

(* Event k of the log takes h to a state, with evidence that meets the clauses. *)
Entered(log, h, k, to, clauses) ==
  /\ k \in MovesIn(log, h)
  /\ log[k].to = to
  /\ Meets(log[k].evidence, clauses)

EvidenceInv ==
  \A h \in Hyps : rows[h] # Nil =>
    /\ rows[h].state = "CONFIRMED" => \E i : Entered(events, h, i, "CONFIRMED", ConfirmedBy)
    /\ rows[h].state = "FINDING" =>
         \E i, k : /\ i < k
                   /\ Entered(events, h, i, "CONFIRMED", ConfirmedBy)
                   /\ Entered(events, h, k, "FINDING", FindingBy)

(* An entry stays in a log that grows. *)
LEMMA EnteredStays ==
  ASSUME NEW s, NEW t, Extends(s, t), NEW h, NEW k, NEW to, NEW clauses, Entered(s, h, k, to, clauses)
  PROVE  Entered(t, h, k, to, clauses)
BY DEF Extends, Entered, MovesIn

(* Every step keeps the evidence of CONFIRMED and FINDING in the log. *)
LEMMA EvidenceStep == TypeInv /\ EvidenceInv /\ [Next]_vars => EvidenceInv'
<1> SUFFICES ASSUME TypeInv, EvidenceInv, [Next]_vars, NEW h \in Hyps, rows'[h] # Nil
             PROVE  /\ rows'[h].state = "CONFIRMED" =>
                         \E i : Entered(events', h, i, "CONFIRMED", ConfirmedBy)
                    /\ rows'[h].state = "FINDING" =>
                         \E i, k : /\ i < k
                                   /\ Entered(events', h, i, "CONFIRMED", ConfirmedBy)
                                   /\ Entered(events', h, k, "FINDING", FindingBy)
  BY DEF EvidenceInv
<1>1. Extends(events, events') /\ (Untouched(h) \/ Created(h) \/ Moved(h))
  BY StepEffect
<1>2. CASE Untouched(h)
  <2>1. rows[h] # Nil /\ rows'[h].state = rows[h].state
    BY <1>2 DEF Untouched, Still
  <2>2. \A k, to, clauses : Entered(events, h, k, to, clauses) => Entered(events', h, k, to, clauses)
    BY <1>1, EnteredStays
  <2> QED
    BY <2>1, <2>2 DEF EvidenceInv
<1>3. CASE Created(h)
  BY <1>3 DEF Created
<1>4. CASE Moved(h)
  <2> DEFINE m == Len(events) + 1
             e == events'[m]
  <2>1. /\ rows[h] # Nil /\ e.to = rows'[h].state /\ rows[h].state \in HState
        /\ rows'[h].state \in LEGAL_TRANSITIONS[rows[h].state]
        /\ HasEvidence(rows[h].state, rows'[h].state, e.evidence)
        /\ OneNewMove(events, events', h)
    BY <1>4 DEF Moved
  <2>2. m \in MovesIn(events', h)
    BY <1>1, <2>1 DEF OneNewMove, MovesIn, Extends
  <2> HIDE DEF e
  <2>3. CASE rows'[h].state = "CONFIRMED"
    <3>1. Meets(e.evidence, ConfirmedBy)
      BY <2>1, <2>3, EdgeFacts, EvidenceFacts
    <3>2. Entered(events', h, m, "CONFIRMED", ConfirmedBy)
      BY <2>1, <2>2, <2>3, <3>1 DEF Entered, e
    <3> QED
      BY <2>3, <3>2
  <2>4. CASE rows'[h].state = "FINDING"
    <3>1. rows[h].state = "CONFIRMED" /\ Meets(e.evidence, FindingBy)
      BY <2>1, <2>4, EdgeFacts, EvidenceFacts
    <3>2. PICK i : Entered(events, h, i, "CONFIRMED", ConfirmedBy)
      BY <2>1, <3>1 DEF EvidenceInv
    <3>3. Entered(events', h, i, "CONFIRMED", ConfirmedBy) /\ i < m
      BY <1>1, <3>2, EnteredStays DEF Entered, MovesIn, Extends
    <3>4. Entered(events', h, m, "FINDING", FindingBy)
      BY <2>1, <2>2, <2>4, <3>1 DEF Entered, e
    <3> QED
      BY <2>4, <3>3, <3>4
  <2> QED
    BY <2>3, <2>4
<1> QED
  BY <1>1, <1>2, <1>3, <1>4

(* No FINDING without all the recorded evidence of both promotions, for any number *)
(* of workers holding stale copies.                                            *)
THEOREM FindingTheorem == Spec => []FindingHasItsEvidence
<1>1. Init => EvidenceInv
  BY DEF Init, EvidenceInv
<1>2. EvidenceInv => FindingHasItsEvidence
  BY DEF EvidenceInv, Entered, Meets, FindingHasItsEvidence, MovesIn, MovesOf, EventIds,
         ConfirmedBy, FindingBy
<1> QED
  BY <1>1, <1>2, EvidenceStep, TypeInvariant, PTL DEF Spec

(***************************************************************************)
(* The walk.  Latest chooses the largest member of a set of event ids; that *)
(* there is one is carried along in the invariant, because a maximum of an *)
(* arbitrary finite set would need an induction.                           *)
(***************************************************************************)
HasLatest(ids) == ids # {} => \E m \in ids : \A j \in ids : j <= m

(* Where the moves in ids, all of one log, lead. *)
EndOf(log, ids) == IF ids = {} THEN "OPEN" ELSE log[Latest(ids)].to

Before(ids, k) == {i \in ids : i < k}

WalkIn(log, h) ==
  \A k \in MovesIn(log, h) :
    LET before == Before(MovesIn(log, h), k)
    IN  HasLatest(before) /\ log[k].from = EndOf(log, before)

WalkInv ==
  \A h \in Hyps :
    /\ HasLatest(MovesIn(events, h))
    /\ WalkIn(events, h)
    /\ rows[h] = Nil => MovesIn(events, h) = {}
    /\ rows[h] # Nil => rows[h].state = EndOf(events, MovesIn(events, h))

(* The latest of a set of ids that has one is in the set. *)
LEMMA LatestIn ==
  ASSUME NEW ids, \A k \in ids : k \in Nat, HasLatest(ids), ids # {}
  PROVE  Latest(ids) \in ids
BY DEF HasLatest, Latest

(* The end of a set of moves is the same in a longer log. *)
LEMMA EndStays ==
  ASSUME NEW s, NEW t, Extends(s, t), NEW ids, ids \subseteq 1..Len(s), HasLatest(ids)
  PROVE  EndOf(t, ids) = EndOf(s, ids)
<1>1. CASE ids = {}
  BY <1>1 DEF EndOf
<1>2. CASE ids # {}
  <2>1. Latest(ids) \in 1..Len(s)
    <3>1. \A k \in ids : k \in Nat
      BY DEF Extends
    <3>2. Latest(ids) \in ids
      BY <1>2, <3>1, LatestIn
    <3> QED
      BY <3>2
  <2> QED
    BY <1>2, <2>1 DEF EndOf, Extends
<1> QED
  BY <1>1, <1>2

(* The moves of a hypothesis nothing new moves. *)
LEMMA MovesStay ==
  ASSUME NEW s, NEW t, Extends(s, t), NEW h, NoNewMove(s, t, h)
  PROVE  MovesIn(t, h) = MovesIn(s, h)
<1>1. \A k \in 1..Len(s) : k \in 1..Len(t) /\ t[k] = s[k]
  BY DEF Extends
<1>2. \A k \in 1..Len(t) : k \in 1..Len(s) \/ k > Len(s)
  BY DEF Extends
<1> QED
  BY <1>1, <1>2 DEF MovesIn, NoNewMove

(* The moves of a hypothesis one new event moves. *)
LEMMA MovesAdd ==
  ASSUME NEW s, NEW t, Extends(s, t), NEW h, OneNewMove(s, t, h)
  PROVE  /\ MovesIn(t, h) = MovesIn(s, h) \cup {Len(s) + 1}
         /\ Len(s) + 1 \notin MovesIn(s, h)
         /\ \A k \in MovesIn(s, h) : k < Len(s) + 1
<1>1. \A k \in 1..Len(s) : k \in 1..Len(t) /\ t[k] = s[k] /\ k < Len(s) + 1
  BY DEF Extends
<1>2. \A k \in 1..Len(t) : k \in 1..Len(s) \/ k = Len(s) + 1 \/ k > Len(s) + 1
  BY DEF Extends
<1>3. Len(s) + 1 \in 1..Len(t) /\ Len(s) + 1 \notin 1..Len(s)
  BY DEF Extends, OneNewMove
<1>4. Len(s) + 1 \in MovesIn(t, h)
  BY <1>3 DEF MovesIn, OneNewMove
<1>5. \A k \in MovesIn(t, h) : k \in MovesIn(s, h) \/ k = Len(s) + 1
  BY <1>1, <1>2 DEF MovesIn, OneNewMove
<1>6. \A k \in MovesIn(s, h) : k \in MovesIn(t, h) /\ k < Len(s) + 1
  BY <1>1 DEF MovesIn
<1> QED
  BY <1>3, <1>4, <1>5, <1>6 DEF MovesIn

(* A walk stays a walk while nothing moves. *)
LEMMA WalkStays ==
  ASSUME NEW s, NEW t, Extends(s, t), NEW h, NoNewMove(s, t, h), WalkIn(s, h)
  PROVE  WalkIn(t, h)
<1>1. MovesIn(t, h) = MovesIn(s, h)
  BY MovesStay
<1> SUFFICES ASSUME NEW k \in MovesIn(s, h)
             PROVE  /\ HasLatest(Before(MovesIn(s, h), k))
                    /\ t[k].from = EndOf(t, Before(MovesIn(s, h), k))
  BY <1>1 DEF WalkIn
<1> DEFINE before == Before(MovesIn(s, h), k)
<1>2. HasLatest(before) /\ s[k].from = EndOf(s, before)
  BY DEF WalkIn
<1>3. before \subseteq 1..Len(s) /\ k \in 1..Len(s)
  BY DEF Before, MovesIn
<1> HIDE DEF before
<1>4. EndOf(t, before) = EndOf(s, before)
  BY <1>2, <1>3, EndStays
<1>5. t[k] = s[k]
  BY <1>3 DEF Extends
<1> QED
  BY <1>2, <1>4, <1>5 DEF before

(* A walk continued from its end is a walk, and ends where the new move leads. *)
LEMMA WalkGrows ==
  ASSUME NEW s, NEW t, Extends(s, t), NEW h, OneNewMove(s, t, h),
         HasLatest(MovesIn(s, h)), WalkIn(s, h), t[Len(s) + 1].from = EndOf(s, MovesIn(s, h))
  PROVE  /\ HasLatest(MovesIn(t, h)) /\ WalkIn(t, h)
         /\ EndOf(t, MovesIn(t, h)) = t[Len(s) + 1].to
<1> DEFINE old == MovesIn(s, h)
           m   == Len(s) + 1
<1>1. MovesIn(t, h) = old \cup {m} /\ m \notin old /\ (\A k \in old : k < m) /\ m \in Nat
  BY MovesAdd DEF Extends
<1>2. old \subseteq 1..Len(s)
  BY DEF MovesIn
<1> HIDE DEF old, m
<1>3. \A j \in old \cup {m} : j <= m /\ j \in Nat
  BY <1>1, <1>2 DEF m, Extends
<1>4. HasLatest(old \cup {m}) /\ Latest(old \cup {m}) = m
  <2>1. HasLatest(old \cup {m})
    BY <1>3 DEF HasLatest
  <2>2. Latest(old \cup {m}) \in old \cup {m} /\ m <= Latest(old \cup {m})
    BY <1>3 DEF Latest
  <2> QED
    BY <1>1, <1>3, <2>1, <2>2
<1>5. EndOf(t, MovesIn(t, h)) = t[m].to
  BY <1>1, <1>4 DEF EndOf
<1>6. ASSUME NEW k \in old
      PROVE  HasLatest(Before(old \cup {m}, k)) /\ t[k].from = EndOf(t, Before(old \cup {m}, k))
  <2>1. Before(old \cup {m}, k) = Before(old, k) /\ Before(old, k) \subseteq 1..Len(s)
    <3>1. m \notin Before(old \cup {m}, k)
      BY <1>1, <1>3 DEF Before
    <3>2. \A i \in old : i \in 1..Len(s)
      BY <1>2
    <3> QED
      BY <3>1, <3>2 DEF Before
  <2>2. HasLatest(Before(old, k)) /\ s[k].from = EndOf(s, Before(old, k))
    BY DEF WalkIn, old
  <2>3. t[k] = s[k]
    BY <1>2 DEF Extends
  <2> QED
    BY <2>1, <2>2, <2>3, EndStays
<1>7. HasLatest(Before(old \cup {m}, m)) /\ t[m].from = EndOf(t, Before(old \cup {m}, m))
  <2>1. Before(old \cup {m}, m) = old
    BY <1>1 DEF Before
  <2>2. EndOf(t, old) = EndOf(s, old)
    BY <1>2, EndStays DEF old
  <2> QED
    BY <2>1, <2>2 DEF old, m
<1>8. WalkIn(t, h)
  BY <1>1, <1>6, <1>7 DEF WalkIn
<1> QED
  BY <1>1, <1>4, <1>5, <1>8 DEF m

(* Every step continues the walks. *)
LEMMA WalkStep == TypeInv /\ WalkInv /\ [Next]_vars => WalkInv'
<1> SUFFICES ASSUME TypeInv, WalkInv, [Next]_vars, NEW h \in Hyps
             PROVE  /\ HasLatest(MovesIn(events', h))
                    /\ WalkIn(events', h)
                    /\ rows'[h] = Nil => MovesIn(events', h) = {}
                    /\ rows'[h] # Nil => rows'[h].state = EndOf(events', MovesIn(events', h))
  BY DEF WalkInv
<1>1. Extends(events, events') /\ (Untouched(h) \/ Created(h) \/ Moved(h))
  BY StepEffect
<1>2. /\ HasLatest(MovesIn(events, h)) /\ WalkIn(events, h)
      /\ rows[h] = Nil => MovesIn(events, h) = {}
      /\ rows[h] # Nil => rows[h].state = EndOf(events, MovesIn(events, h))
  BY DEF WalkInv
<1>3. CASE Untouched(h) \/ Created(h)
  <2>1. NoNewMove(events, events', h)
    BY <1>3 DEF Untouched, Created
  <2>2. MovesIn(events', h) = MovesIn(events, h) /\ WalkIn(events', h)
    BY <1>1, <1>2, <2>1, MovesStay, WalkStays
  <2>3. EndOf(events', MovesIn(events, h)) = EndOf(events, MovesIn(events, h))
    <3>1. MovesIn(events, h) \subseteq 1..Len(events)
      BY DEF MovesIn
    <3> QED
      BY <1>1, <1>2, <3>1, EndStays
  <2>4. MovesIn(events, h) = {} => EndOf(events, MovesIn(events, h)) = "OPEN"
    BY DEF EndOf
  <2> QED
    BY <1>2, <1>3, <2>2, <2>3, <2>4 DEF Untouched, Created, Still
<1>4. CASE Moved(h)
  <2>1. /\ OneNewMove(events, events', h) /\ rows[h] # Nil /\ rows'[h] # Nil
        /\ events'[Len(events) + 1].from = rows[h].state
        /\ events'[Len(events) + 1].to = rows'[h].state
    BY <1>4 DEF Moved
  <2> QED
    BY <1>1, <1>2, <2>1, WalkGrows
<1> QED
  BY <1>1, <1>3, <1>4

(* The recorded transitions of every hypothesis form one walk from OPEN to its *)
(* stored state, although each was computed from a copy that may be stale.     *)
THEOREM WalkTheorem == Spec => []TransitionsFormWalk
<1>1. Init => WalkInv
  BY DEF Init, WalkInv, MovesIn, HasLatest, WalkIn
<1>2. WalkInv => TransitionsFormWalk
  <2>1. \A h \in Hyps : MovesOf(h) = MovesIn(events, h)
    BY DEF MovesOf, MovesIn, EventIds
  <2> QED
    BY <2>1 DEF WalkInv, WalkIn, Before, EndOf, TransitionsFormWalk
<1> QED
  BY <1>1, <1>2, WalkStep, TypeInvariant, PTL DEF Spec

(***************************************************************************)
(* Refinement.                                                             *)
(***************************************************************************)

(* The move count of a hypothesis grows by one exactly when it moves. *)
LEMMA MoveCount ==
  ASSUME Extends(events, events'), NEW h \in Hyps
  PROVE  /\ NoNewMove(events, events', h) =>
              Cardinality(MovesIn(events', h)) = Cardinality(MovesIn(events, h))
         /\ OneNewMove(events, events', h) =>
              Cardinality(MovesIn(events', h)) = Cardinality(MovesIn(events, h)) + 1
<1>1. NoNewMove(events, events', h) =>
        Cardinality(MovesIn(events', h)) = Cardinality(MovesIn(events, h))
  BY MovesStay
<1>2. IsFiniteSet(MovesIn(events, h))
  <2>1. MovesIn(events, h) \subseteq 1..Len(events) /\ Len(events) \in Int
    BY DEF MovesIn, Extends
  <2>2. IsFiniteSet(1..Len(events))
    BY <2>1, FS_Interval
  <2> QED
    BY <2>1, <2>2, FS_Subset
<1>3. ASSUME OneNewMove(events, events', h)
      PROVE  Cardinality(MovesIn(events', h)) = Cardinality(MovesIn(events, h)) + 1
  <2> DEFINE old == MovesIn(events, h)
             m   == Len(events) + 1
  <2>1. MovesIn(events', h) = old \cup {m} /\ m \notin old
    BY <1>3, MovesAdd
  <2> HIDE DEF old, m
  <2>2. Cardinality(old \cup {m}) = Cardinality(old) + 1
    BY <1>2, <2>1, FS_AddElement DEF old
  <2> QED
    BY <2>1, <2>2 DEF old
<1> QED
  BY <1>1, <1>3

(* The state and the move count of a hypothesis as the abstract lifecycle sees them. *)
Status == [h \in Hyps |-> IF rows[h] = Nil THEN "ABSENT" ELSE rows[h].state]

Moves == [h \in Hyps |-> Cardinality(MovesOf(h))]

(* Every step of the store is a step of the abstract lifecycle or invisible to it. *)
LEMMA LifecycleStep ==
  TypeInv /\ [Next]_vars => [Abstract!LifecycleNext]_(Abstract!lifecycleVars)
<1> SUFFICES ASSUME TypeInv, [Next]_vars
             PROVE  [Abstract!LifecycleNext]_(Abstract!lifecycleVars)
  OBVIOUS
<1>1. /\ Extends(events, events')
      /\ \/ \A h \in Hyps : Untouched(h)
         \/ \E h \in Hyps : (Created(h) \/ Moved(h)) /\ \A g \in Hyps \ {h} : Untouched(g)
  BY StepEffect
<1>2. /\ Moves = [h \in Hyps |-> Cardinality(MovesIn(events, h))]
      /\ Moves' = [h \in Hyps |-> Cardinality(MovesIn(events', h))]
  BY DEF Moves, MovesOf, MovesIn, EventIds
<1>3. Status' = [h \in Hyps |-> IF rows'[h] = Nil THEN "ABSENT" ELSE rows'[h].state]
  BY DEF Status
<1>4. ASSUME NEW h \in Hyps, Untouched(h)
      PROVE  Status'[h] = Status[h] /\ Moves'[h] = Moves[h]
  <2>1. Moves'[h] = Moves[h]
    BY <1>1, <1>2, <1>4, MoveCount DEF Untouched
  <2>2. Status'[h] = Status[h]
    BY <1>3, <1>4 DEF Untouched, Still, Status
  <2> QED
    BY <2>1, <2>2
<1>5. CASE \A h \in Hyps : Untouched(h)
  <2>1. Status' = Status
    <3>1. \A h \in Hyps : Status'[h] = Status[h]
      BY <1>4, <1>5
    <3> QED
      BY <1>3, <3>1 DEF Status
  <2>2. Moves' = Moves
    <3>1. \A h \in Hyps : Moves'[h] = Moves[h]
      BY <1>4, <1>5
    <3> QED
      BY <1>2, <3>1
  <2> QED
    BY <2>1, <2>2 DEF Abstract!lifecycleVars, Status, Moves
<1>6. ASSUME NEW h \in Hyps, Created(h) \/ Moved(h), \A g \in Hyps \ {h} : Untouched(g)
      PROVE  Abstract!LifecycleNext
  <2>1. \A g \in Hyps \ {h} : Status'[g] = Status[g] /\ Moves'[g] = Moves[g]
    BY <1>4, <1>6
  <2>2. CASE Created(h)
    <3>1. Status[h] = "ABSENT" /\ Status'[h] = "OPEN" /\ Moves'[h] = Moves[h]
      <4>1. rows[h] = Nil /\ rows'[h] # Nil /\ rows'[h].state = "OPEN"
            /\ NoNewMove(events, events', h)
        BY <2>2 DEF Created
      <4>2. Moves'[h] = Moves[h]
        BY <1>1, <1>2, <4>1, MoveCount
      <4> QED
        BY <1>3, <4>1, <4>2 DEF Status
    <3>2. Status' = [Status EXCEPT ![h] = "OPEN"]
      BY <1>3, <2>1, <3>1 DEF Status
    <3>3. Moves' = Moves
      BY <1>2, <2>1, <3>1
    <3>4. Abstract!Create(h)
      BY <3>1, <3>2, <3>3 DEF Abstract!Create, Status, Moves
    <3> QED
      BY <3>4 DEF Abstract!LifecycleNext
  <2>3. CASE Moved(h)
    <3>1. /\ rows[h] # Nil /\ rows'[h] # Nil /\ OneNewMove(events, events', h)
          /\ rows[h].state \in HState /\ rows'[h].state \in HState
          /\ rows'[h].state \in LEGAL_TRANSITIONS[rows[h].state]
      BY <2>3 DEF Moved
    <3>2. Status[h] = rows[h].state /\ Status'[h] = rows'[h].state /\ Moves'[h] = Moves[h] + 1
      <4>1. Moves'[h] = Moves[h] + 1
        BY <1>1, <1>2, <3>1, MoveCount
      <4> QED
        BY <1>3, <3>1, <4>1 DEF Status
    <3>3. Status[h] # "ABSENT"
      BY <3>1, <3>2 DEF HState
    <3>4. Status' = [Status EXCEPT ![h] = rows'[h].state]
      BY <1>3, <2>1, <3>2 DEF Status
    <3>5. Moves' = [Moves EXCEPT ![h] = Moves[h] + 1]
      BY <1>2, <2>1, <3>2
    <3>6. PICK new_state \in HState : new_state = rows'[h].state
      BY <3>1
    <3>7. Abstract!LEGAL_TRANSITIONS = LEGAL_TRANSITIONS /\ Abstract!HState = HState
      BY DEF Abstract!LEGAL_TRANSITIONS, LEGAL_TRANSITIONS, Abstract!HState, HState
    <3>8. new_state \in Abstract!LEGAL_TRANSITIONS[Status[h]]
      BY <3>1, <3>2, <3>6, <3>7
    <3>9. Status' = [Status EXCEPT ![h] = new_state]
      BY <3>4, <3>6
    <3>10. Abstract!Move(h, new_state)
      BY <3>3, <3>5, <3>8, <3>9 DEF Abstract!Move, Status, Moves
    <3> QED
      BY <3>7, <3>10 DEF Abstract!LifecycleNext
  <2> QED
    BY <1>6, <2>2, <2>3
<1> QED
  BY <1>1, <1>5, <1>6

(* The store, with its log, copies and triggers, implements the plain lifecycle: *)
(* one legal move per recorded transition and no other change of state.          *)
THEOREM RefinementTheorem == Spec => ImplementsLifecycle
<1>1. Init => Abstract!LifecycleInit
  <2> SUFFICES ASSUME Init PROVE Abstract!LifecycleInit
    OBVIOUS
  <2>1. \A h \in Hyps : rows[h] = Nil /\ MovesOf(h) = {}
    BY DEF Init, MovesOf, EventIds
  <2>2. Cardinality({}) = 0
    BY FS_EmptySet
  <2> QED
    BY <2>1, <2>2 DEF Abstract!LifecycleInit
<1> QED
  BY <1>1, LifecycleStep, TypeInvariant, PTL DEF Spec, ImplementsLifecycle, Abstract!LifecycleSpec

==============================================================================
