------------------------ MODULE HypothesisStoreProofs ------------------------
(***************************************************************************)
(* Proofs about HypothesisStore, for any number of hypotheses, workers and *)
(* events.                                                                 *)
(***************************************************************************)
EXTENDS HypothesisStore, TLAPS

(***************************************************************************)
(* Types of what a transaction builds.                                     *)
(***************************************************************************)

(* Redaction, by value and of the JSON text, keeps a body a body. *)
LEMMA RedactionTypes ==
  ASSUME NEW b \in Bodies
  PROVE  redact_payload(b) \in Bodies /\ redact_json(b) \in Bodies
BY DEF Bodies, redact_payload, redact_json, redact, redact_dumped, NoteClasses

(* What data.get stores in a column. *)
LEMMA ColumnType ==
  ASSUME NEW lens \in Lenses \cup {None, Absent}
  PROVE  column(lens) \in Columns
BY DEF column, Given, Columns

(* An object's dump is a body. *)
LEMMA DumpIsBody ==
  ASSUME NEW b \in Dumps
  PROVE  b \in Bodies
BY DEF Dumps, Bodies

(* A recorded event is an event. *)
LEMMA RecordEventType ==
  ASSUME NEW kind \in EventKinds, NEW h \in Hyps,
         NEW from \in HState \cup {Nil}, NEW to \in HState \cup {Nil},
         NEW evidence \in SUBSET Prefixes, NEW payload \in Bodies, NEW body \in Bodies
  PROVE  record_event(kind, h, from, to, evidence, payload, body) \in Events
<1>1. redact_payload(payload) \in Bodies /\ redact_json(body) \in Bodies
  BY RedactionTypes
<1>2. row_snapshot(payload, redact_json(body)) \in RowSnapshots
  <2>1. payload.state \in HState /\ column(payload.lens) \in Columns
    BY ColumnType DEF Bodies
  <2> QED
    BY <1>1, <2>1 DEF row_snapshot, RowSnapshots
<1> QED
  BY <1>1, <1>2 DEF record_event, Events

(* A notice is an event. *)
LEMMA BareEventType ==
  ASSUME NEW kind \in EventKinds, NEW h \in Hyps
  PROVE  BareEvent(kind, h) \in Events
BY DEF BareEvent, Events

(* A new body is a body. *)
LEMMA NewBodyType ==
  ASSUME NEW payload \in Documents
  PROVE  NewBody(payload) \in Bodies
BY DEF NewBody, Bodies, Documents, HState

(* A body with a payload merged into it is a body. *)
LEMMA MergedType ==
  ASSUME NEW b \in Bodies, NEW payload \in Documents, NEW s \in HState
  PROVE  Merged(b, payload, s) \in Bodies
BY DEF Merged, Given, Bodies, Documents

(* A body that has its texts makes a complete object. *)
LEMMA HypothesisType ==
  ASSUME NEW b \in Bodies, b.note # Absent, b.lens \in Columns
  PROVE  Hypothesis(b) \in Dumps
<1>1. EmptyLadder \in Ladders
  BY DEF EmptyLadder, Ladders, Levels, Unawarded
<1>2. LadderOf(b) \in Ladders /\ CountOf(b) \in Nat
  BY <1>1 DEF LadderOf, CountOf, Given, Bodies
<1>3. b.state \in HState /\ b.note \in NoteClasses
  BY DEF Bodies
<1> QED
  BY <1>2, <1>3 DEF Hypothesis, Dumps, Columns

(* A transition keeps an object's dump a dump. *)
LEMMA TransitionedType ==
  ASSUME NEW b \in Dumps, NEW s \in HState
  PROVE  Transitioned(b, s) \in Dumps /\ Transitioned(b, s) \in Bodies
<1> DEFINE n == IF IsReopen(b.state, s) THEN b.reopen_count + 1 ELSE b.reopen_count
<1>1. n \in Nat
  BY DEF Dumps, IsReopen
<1>2. Transitioned(b, s) = [b EXCEPT !.state = s, !.reopen_count = n]
  BY DEF Transitioned
<1> HIDE DEF n
<1>3. Transitioned(b, s) \in Dumps
  BY <1>1, <1>2 DEF Dumps
<1> QED
  BY <1>3, DumpIsBody

(* An award keeps an object's dump a dump. *)
LEMMA AwardedType ==
  ASSUME NEW b \in Dumps, NEW p \in Proofs
  PROVE  /\ [b EXCEPT !.ladder = award(b.ladder, p)] \in Dumps
         /\ [b EXCEPT !.ladder = award(b.ladder, p)] \in Bodies
<1>1. p.axis \in AXES /\ p.level \in Levels
  BY ConstantsAssumption
<1>2. award(b.ladder, p) \in Ladders
  BY <1>1 DEF award, Ladders, Dumps
<1>3. [b EXCEPT !.ladder = award(b.ladder, p)] \in Dumps
  BY <1>2 DEF Dumps
<1> QED
  BY <1>3, DumpIsBody

(* The row a write leaves is a row. *)
LEMMA RowOfType ==
  ASSUME NEW s \in HState, NEW l \in Columns, NEW b \in Bodies, NEW i \in Nat
  PROVE  RowOf(s, l, b, i) \in Rows
BY DEF RowOf, Rows

(***************************************************************************)
(* Type correctness.  A save that found a row writes to one: rows are never *)
(* deleted, and neither the update of save nor the reload of an object can *)
(* meet a missing row.                                                     *)
(***************************************************************************)
ReadRowsStay ==
  /\ \A w \in Workers : mem[w] # Nil => rows[mem[w].id] # Nil
  /\ \A w \in Workers : saving[w] # Nil /\ saving[w].existing => rows[saving[w].id] # Nil

TypeInv == TypeOK /\ ReadRowsStay

(* Creating keeps the tables well typed. *)
LEMMA CreateTxnType ==
  ASSUME TypeOK, NEW h \in Hyps, NEW data \in Bodies, CreateTxn(h, data)
  PROVE  events' \in Seq(Events) /\ rows' \in [Hyps -> Rows \cup {Nil}]
<1> DEFINE e == record_event("hyp_created", h, Nil, Nil, {}, data, data)
<1>1. e \in Events
  BY RecordEventType DEF EventKinds
<1>2. RowOf("OPEN", column(data.lens), data, NextEventId) \in Rows
  BY ColumnType, RowOfType DEF Bodies, HState, NextEventId, TypeOK
<1> QED
  BY <1>1, <1>2 DEF CreateTxn, InsertRow, TypeOK

(* What every step preserves: the tables and the workers' objects keep their types. *)
LEMMA TypeStep == TypeInv /\ [Next]_vars => TypeOK'
<1> SUFFICES ASSUME TypeOK, ReadRowsStay, [Next]_vars PROVE TypeOK'
  BY DEF TypeInv
<1>1. CASE UNCHANGED vars
  BY <1>1 DEF TypeOK, vars
<1>2. ASSUME NEW h \in Hyps, NEW payload \in Creations, create_hypothesis(h, payload)
      PROVE  TypeOK'
  <2>1. redact_payload(NewBody(payload)) \in Bodies
    BY NewBodyType, RedactionTypes, ConstantsAssumption
  <2> QED
    BY <1>2, <2>1, CreateTxnType DEF create_hypothesis, TypeOK
<1>3. ASSUME NEW h \in Hyps, NEW kind \in Emitted, emit(h, kind)
      PROVE  TypeOK'
  <2>1. BareEvent(kind, h) \in Events
    BY BareEventType, ConstantsAssumption DEF EventKinds
  <2> QED
    BY <1>3, <2>1 DEF emit, TypeOK
<1>4. ASSUME NEW w \in Workers, NEW h \in Hyps, Load(w, h)
      PROVE  TypeOK'
  <2>1. rows[h].body \in Bodies /\ rows[h].state \in HState /\ rows[h].lens \in Columns
        /\ rows[h].body.note # Absent
    BY <1>4 DEF Load, TypeOK, Rows
  <2>2. get(h) \in Bodies /\ get(h).note # Absent /\ get(h).lens \in Columns
    BY <2>1 DEF get, Bodies, Columns
  <2>3. Hypothesis(get(h)) \in Dumps
    BY <2>2, HypothesisType
  <2> QED
    BY <1>4, <2>3 DEF Load, TypeOK, Objects
<1>5. ASSUME NEW w \in Workers, NEW h \in Hyps, NEW payload \in Payloads, SaveRead(w, h, payload)
      PROVE  TypeOK'
  <2> DEFINE merged == IF rows[h] = Nil THEN NewBody(payload)
                       ELSE Merged(rows[h].body, payload, rows[h].state)
  <2>1. payload \in Documents
    BY ConstantsAssumption
  <2>2. merged \in Bodies
    <3>1. CASE rows[h] = Nil
      BY <2>1, <3>1, NewBodyType
    <3>2. CASE rows[h] # Nil
      <4>1. rows[h].body \in Bodies /\ rows[h].state \in HState
        BY <3>2 DEF TypeOK, Rows
      <4> QED
        BY <2>1, <3>2, <4>1, MergedType
    <3> QED
      BY <3>1, <3>2
  <2>3. redact_payload(merged) \in Bodies
    BY <2>2, RedactionTypes
  <2>4. [id |-> h, existing |-> rows[h] # Nil, data |-> redact_payload(merged)] \in Saves
    BY <2>3 DEF Saves
  <2> QED
    BY <1>5, <2>4 DEF SaveRead, TypeOK
<1>6. ASSUME NEW w \in Workers, NEW note \in Notes, Edit(w, note)
      PROVE  TypeOK'
  <2>1. [id |-> mem[w].id, body |-> [mem[w].body EXCEPT !.note = note]] \in Objects
    BY <1>6, ConstantsAssumption DEF Edit, TypeOK, Objects, Dumps
  <2> QED
    BY <1>6, <2>1 DEF Edit, TypeOK
<1>7. ASSUME NEW w \in Workers, NEW token \in Callers, NEW new_state \in HState,
             NEW evidence \in Evidences, transition_hypothesis(w, token, new_state, evidence)
      PROVE  TypeOK'
  <2> DEFINE h       == mem[w].id
             payload == Transitioned(mem[w].body, new_state)
             body    == redact_payload(payload)
             e       == record_event("hyp_transition", h, mem[w].body.state, new_state,
                                     evidence, payload, body)
             more    == ThresholdEvents(h, mem[w].body.state, payload)
             row     == RowOf(new_state, column(payload.lens), body, NextEventId)
  <2>1. mem[w] \in Objects /\ h \in Hyps /\ mem[w].body \in Dumps
    BY <1>7 DEF transition_hypothesis, TypeOK, Objects
  <2>2. payload \in Dumps /\ payload \in Bodies /\ body \in Bodies
    BY <2>1, TransitionedType, RedactionTypes
  <2>3. e \in Events
    <3>1. mem[w].body.state \in HState /\ evidence \in SUBSET Prefixes
      BY <2>1, ConstantsAssumption DEF Dumps
    <3> HIDE DEF payload, body
    <3> QED
      BY <2>1, <2>2, <3>1, RecordEventType DEF EventKinds
  <2>4. more \in Seq(Events)
    <3>1. BareEvent("reopen_threshold_exceeded", h) \in Events
      BY <2>1, BareEventType DEF EventKinds, NoticeKinds
    <3> HIDE DEF h, payload
    <3> QED
      BY <3>1 DEF ThresholdEvents
  <2>5. row \in Rows
    BY <2>2, ColumnType, RowOfType DEF Bodies, NextEventId, TypeOK
  <2>6. [id |-> h, body |-> payload] \in Objects
    BY <2>1, <2>2 DEF Objects
  <2>7. /\ events' = Append(events, e) \o more
        /\ rows' = [rows EXCEPT ![h] = row]
        /\ mem' = [mem EXCEPT ![w] = [id |-> h, body |-> payload]]
        /\ saving' = saving
    BY <1>7 DEF transition_hypothesis, UpdateRow
  <2> HIDE DEF h, payload, body, e, more, row
  <2> QED
    BY <2>1, <2>3, <2>4, <2>5, <2>6, <2>7 DEF TypeOK
<1>8. ASSUME NEW w \in Workers, NEW token \in Callers, NEW proof \in Proofs,
             award_ladder(w, token, proof)
      PROVE  TypeOK'
  <2> DEFINE h       == mem[w].id
             payload == [mem[w].body EXCEPT !.ladder = award(mem[w].body.ladder, proof)]
             body    == redact_payload(payload)
             e       == record_event("hyp_ladder_award", h, Nil, Nil, {}, payload, body)
             row     == RowOf(rows[h].state, rows[h].lens, body, NextEventId)
  <2>1. mem[w] \in Objects /\ h \in Hyps /\ mem[w].body \in Dumps
    BY <1>8 DEF award_ladder, TypeOK, Objects
  <2>2. payload \in Dumps /\ payload \in Bodies /\ body \in Bodies
    BY <2>1, AwardedType, RedactionTypes
  <2>3. e \in Events
    <3> HIDE DEF payload, body
    <3> QED
      BY <2>1, <2>2, RecordEventType DEF EventKinds
  <2>4. rows[h] \in Rows
    BY <1>8, <2>1 DEF award_ladder, TypeOK
  <2>5. row \in Rows
    <3>1. rows[h].state \in HState /\ rows[h].lens \in Columns
      BY <2>4 DEF Rows
    <3> HIDE DEF h, payload, body
    <3> QED
      BY <2>2, <3>1, RowOfType DEF NextEventId, TypeOK
  <2>6. [id |-> h, body |-> payload] \in Objects
    BY <2>1, <2>2 DEF Objects
  <2>7. /\ events' = Append(events, e)
        /\ rows' = [rows EXCEPT ![h] = row]
        /\ mem' = [mem EXCEPT ![w] = [id |-> h, body |-> payload]]
        /\ saving' = saving
    BY <1>8 DEF award_ladder, UpdateRow
  <2> HIDE DEF h, payload, body, e, row
  <2> QED
    BY <2>1, <2>3, <2>5, <2>6, <2>7 DEF TypeOK
<1>9. ASSUME NEW w \in Workers, SaveCommit(w)
      PROVE  TypeOK'
  <2> DEFINE s == saving[w]
  <2>1. s \in Saves /\ s.id \in Hyps /\ s.data \in Bodies
    BY <1>9 DEF SaveCommit, TypeOK, Saves
  <2>2. CASE ~s.existing
    BY <1>9, <2>1, <2>2, CreateTxnType DEF SaveCommit, TypeOK
  <2>3. CASE s.existing
    <3>1. SaveEvent(s) \in Events
      BY <2>1, RecordEventType DEF SaveEvent, EventKinds
    <3>2. /\ UpdateRow(s.id, SavedRow(s), SaveEvent(s))
          /\ events' = Append(events, SaveEvent(s))
      BY <1>9, <2>3 DEF SaveCommit
    <3>3. rows[s.id] \in Rows
      BY <1>9, <2>1, <2>3 DEF SaveCommit, ReadRowsStay, TypeOK
    <3>4. rows[s.id].state \in HState /\ column(s.data.lens) \in Columns /\ NextEventId \in Nat
      <4>1. rows[s.id].state \in HState
        BY <3>3 DEF Rows
      <4>2. column(s.data.lens) \in Columns
        BY <2>1, ColumnType DEF Bodies
      <4>3. NextEventId \in Nat
        BY DEF NextEventId, TypeOK
      <4> QED
        BY <4>1, <4>2, <4>3
    <3>5. SavedRow(s) \in Rows
      BY <2>1, <3>4, RowOfType DEF SavedRow
    <3> QED
      BY <1>9, <2>1, <3>1, <3>2, <3>5 DEF SaveCommit, UpdateRow, TypeOK
  <2> QED
    BY <2>2, <2>3
<1>10. ASSUME NEW w \in Workers, SaveAbort(w)
       PROVE  TypeOK'
  BY <1>10 DEF SaveAbort, TypeOK
<1>11. ASSUME NEW w \in Workers, Crash(w)
       PROVE  TypeOK'
  BY <1>11 DEF Crash, TypeOK
<1> QED
  BY <1>1, <1>2, <1>3, <1>4, <1>5, <1>6, <1>7, <1>8, <1>9, <1>10, <1>11 DEF Next

(***************************************************************************)
(* What a transaction leaves behind.                                       *)
(***************************************************************************)

(* A body that redaction of its JSON text does not change holds no secret. *)
LEMMA RedactionFixpoint ==
  ASSUME NEW b \in Bodies, redact_json(b) = b
  PROVE  b.note \notin {"secret", "reactive"} /\ redact_payload(b) = b
<1>1. redact_json(b).note = IF b.note = "reactive" THEN "redacted" ELSE redact(b.note)
  BY DEF redact_json, redact_dumped, Bodies
<1>2. b.note \notin {"secret", "reactive"}
  BY <1>1 DEF redact
<1>3. redact(b.note) = b.note
  BY <1>2 DEF redact
<1> QED
  BY <1>2, <1>3 DEF redact_payload, Bodies

(* The triggers accept a row only when its event describes exactly that row. *)
LEMMA MatchFacts ==
  ASSUME NEW kind \in EventKinds, NEW h \in Hyps, NEW from, NEW to, NEW evidence,
         NEW payload \in Bodies, NEW body \in Bodies, NEW row \in Rows, NEW e,
         body = payload \/ body = redact_payload(payload),
         row.body = body,
         e = record_event(kind, h, from, to, evidence, payload, body),
         SnapshotMatches(row, e)
  PROVE  /\ e.snapshot = row.body
         /\ row.state = row.body.state /\ row.lens = column(row.body.lens)
         /\ row.body.note # "secret"
<1>1. e.row_snapshot = [state |-> payload.state, lens |-> column(payload.lens), body |-> redact_json(body)]
  BY DEF record_event, row_snapshot
<1>2. payload.state = row.state /\ column(payload.lens) = row.lens /\ redact_json(body) = body
  BY <1>1 DEF SnapshotMatches
<1>3. body.note # "secret" /\ redact_payload(body) = body
  BY <1>2, RedactionFixpoint
<1>4. e.snapshot = redact_payload(payload)
  BY DEF record_event
<1>5. body.state = payload.state /\ body.lens = payload.lens
  BY DEF redact_payload, Bodies
<1> QED
  BY <1>2, <1>3, <1>4, <1>5

(* One committed transaction on hypothesis h: the event e and the row it describes, *)
(* then perhaps a notice.                                                            *)
Written(h, row, e, more) ==
  /\ events' = Append(events, e) \o more
  /\ rows' = [rows EXCEPT ![h] = row]
  /\ e.entity_id = h
  /\ row.last_event_id = Len(events) + 1
  /\ e.snapshot = row.body
  /\ row.state = row.body.state /\ row.lens = column(row.body.lens)
  /\ row.body.note # "secret" /\ e.row_snapshot.body.note # "secret"
  /\ more = <<>> \/ more = <<BareEvent("reopen_threshold_exceeded", h)>>
  /\ \/ e.kind = "hyp_created" /\ rows[h] = Nil /\ row.state = "OPEN"
     \/ e.kind \in {"hyp_updated", "hyp_ladder_award"} /\ rows[h] # Nil /\ row.state = rows[h].state
     \/ /\ e.kind = "hyp_transition" /\ rows[h] # Nil
        /\ e.from = rows[h].state /\ e.to = row.state
        /\ row.state \in LEGAL_TRANSITIONS[rows[h].state]
        /\ HasEvidence(rows[h].state, row.state, e.evidence)

Noticed(h, kind) == events' = Append(events, BareEvent(kind, h)) /\ rows' = rows


Shape ==
  \/ UNCHANGED <<events, rows>>
  \/ \E h \in Hyps, kind \in NoticeKinds : Noticed(h, kind)
  \/ \E h \in Hyps, row \in Rows, e \in Events, more \in Seq(Events) : Written(h, row, e, more)

(* Sequences of at most one event are sequences of events. *)
LEMMA ShortSequences ==
  ASSUME NEW x \in Events
  PROVE  <<>> \in Seq(Events) /\ <<x>> \in Seq(Events)
OBVIOUS

(* create_hypothesis and save of an unknown id. *)
LEMMA CreateWrites ==
  ASSUME TypeOK, NEW h \in Hyps, NEW data \in Bodies, CreateTxn(h, data)
  PROVE  Shape
<1> DEFINE e   == record_event("hyp_created", h, Nil, Nil, {}, data, data)
           row == RowOf("OPEN", column(data.lens), data, NextEventId)
<1>1. e \in Events
  BY RecordEventType DEF EventKinds
<1>2. row \in Rows
  BY ColumnType, RowOfType DEF Bodies, HState, NextEventId, TypeOK
<1>3. /\ rows[h] = Nil /\ SnapshotMatches(row, e)
      /\ events' = Append(events, e) /\ rows' = [rows EXCEPT ![h] = row]
  BY DEF CreateTxn, InsertRow, hyp_insert_event_guard
<1>4. row.body = data /\ row.state = "OPEN" /\ row.last_event_id = Len(events) + 1
  BY DEF RowOf, NextEventId
<1>5. e.entity_id = h /\ e.kind = "hyp_created"
  BY DEF record_event
<1>6. /\ e.snapshot = row.body /\ row.state = row.body.state /\ row.lens = column(row.body.lens)
      /\ row.body.note # "secret"
  BY <1>2, <1>3, <1>4, MatchFacts DEF EventKinds
<1>7. e.row_snapshot.body = row.body
  BY <1>3 DEF SnapshotMatches
<1>8. events' = Append(events, e) \o <<>>
  BY <1>1, <1>3 DEF TypeOK
<1> HIDE DEF e, row
<1>9. Written(h, row, e, <<>>)
  BY <1>3, <1>4, <1>5, <1>6, <1>7, <1>8 DEF Written
<1> QED
  BY <1>1, <1>2, <1>9, ShortSequences DEF Shape

(* The transaction of transition_hypothesis. *)
LEMMA TransitionWrites ==
  ASSUME TypeOK, NEW w \in Workers, NEW token \in Callers, NEW new_state \in HState,
         NEW evidence \in Evidences, transition_hypothesis(w, token, new_state, evidence)
  PROVE  Shape
<1> DEFINE h       == mem[w].id
           payload == Transitioned(mem[w].body, new_state)
           body    == redact_payload(payload)
           e       == record_event("hyp_transition", h, mem[w].body.state, new_state,
                                   evidence, payload, body)
           more    == ThresholdEvents(h, mem[w].body.state, payload)
           row     == RowOf(new_state, column(payload.lens), body, NextEventId)
<1>1. mem[w] \in Objects /\ h \in Hyps /\ mem[w].body \in Dumps
  BY DEF transition_hypothesis, TypeOK, Objects
<1>2. payload \in Bodies /\ body \in Bodies
  BY <1>1, TransitionedType, RedactionTypes
<1>3. row \in Rows
  BY <1>2, ColumnType, RowOfType DEF Bodies, NextEventId, TypeOK
<1>4. /\ events' = Append(events, e) \o more
      /\ rows' = [rows EXCEPT ![h] = row]
      /\ SnapshotMatches(row, e)
      /\ rows[h] # Nil /\ rows[h].state = mem[w].body.state
      /\ validate_transition(token, mem[w].body, new_state, TRUE, evidence)
  BY DEF transition_hypothesis, UpdateRow, hyp_update_event_guard, StillInState
<1>5. row.body = body /\ row.state = new_state /\ row.last_event_id = Len(events) + 1
  BY DEF RowOf, NextEventId
<1>6. /\ e.entity_id = h /\ e.kind = "hyp_transition" /\ e.evidence = evidence
      /\ e.from = mem[w].body.state /\ e.to = new_state
  BY DEF record_event
<1>7. more = <<>> \/ more = <<BareEvent("reopen_threshold_exceeded", h)>>
  BY DEF ThresholdEvents
<1>8. BareEvent("reopen_threshold_exceeded", h) \in Events
  BY <1>1, BareEventType DEF EventKinds, NoticeKinds
<1>9. evidence \in SUBSET Prefixes /\ mem[w].body.state \in HState
  BY <1>1, ConstantsAssumption DEF Dumps
<1> HIDE DEF h, payload, body, more
<1>10. e \in Events
  BY <1>1, <1>2, <1>9, RecordEventType DEF EventKinds
<1>11. /\ e.snapshot = row.body /\ row.state = row.body.state /\ row.lens = column(row.body.lens)
       /\ row.body.note # "secret"
  <2>1. body = redact_payload(payload)
    BY DEF body
  <2> QED
    BY <1>1, <1>2, <1>3, <1>4, <1>5, <2>1, MatchFacts DEF EventKinds
<1>12. e.row_snapshot.body = row.body
  BY <1>4 DEF SnapshotMatches
<1>13. /\ new_state \in LEGAL_TRANSITIONS[rows[h].state]
       /\ HasEvidence(rows[h].state, new_state, evidence)
  BY <1>4 DEF validate_transition
<1>14. more \in Seq(Events)
  BY <1>7, <1>8, ShortSequences
<1> HIDE DEF e, row
<1>15. Written(h, row, e, more)
  BY <1>4, <1>5, <1>6, <1>7, <1>11, <1>12, <1>13 DEF Written
<1> QED
  BY <1>1, <1>3, <1>10, <1>14, <1>15 DEF Shape

(* The transaction of award_ladder. *)
LEMMA AwardWrites ==
  ASSUME TypeOK, NEW w \in Workers, NEW token \in Callers, NEW proof \in Proofs,
         award_ladder(w, token, proof)
  PROVE  Shape
<1> DEFINE h       == mem[w].id
           payload == [mem[w].body EXCEPT !.ladder = award(mem[w].body.ladder, proof)]
           body    == redact_payload(payload)
           e       == record_event("hyp_ladder_award", h, Nil, Nil, {}, payload, body)
           row     == RowOf(rows[h].state, rows[h].lens, body, NextEventId)
<1>1. mem[w] \in Objects /\ h \in Hyps /\ mem[w].body \in Dumps
  BY DEF award_ladder, TypeOK, Objects
<1>2. payload \in Bodies /\ body \in Bodies
  BY <1>1, AwardedType, RedactionTypes
<1>3. rows[h] \in Rows /\ rows[h] # Nil
  BY <1>1 DEF award_ladder, TypeOK
<1>4. row \in Rows
  BY <1>2, <1>3, RowOfType DEF Rows, NextEventId, TypeOK
<1>5. /\ events' = Append(events, e)
      /\ rows' = [rows EXCEPT ![h] = row]
      /\ SnapshotMatches(row, e)
  BY DEF award_ladder, UpdateRow, hyp_update_event_guard
<1>6. row.body = body /\ row.state = rows[h].state /\ row.last_event_id = Len(events) + 1
  BY DEF RowOf, NextEventId
<1>7. e.entity_id = h /\ e.kind = "hyp_ladder_award"
  BY DEF record_event
<1> HIDE DEF h, payload, body
<1>8. e \in Events
  BY <1>1, <1>2, RecordEventType DEF EventKinds
<1>9. /\ e.snapshot = row.body /\ row.state = row.body.state /\ row.lens = column(row.body.lens)
      /\ row.body.note # "secret"
  <2>1. body = redact_payload(payload)
    BY DEF body
  <2> QED
    BY <1>1, <1>2, <1>4, <1>5, <1>6, <2>1, MatchFacts DEF EventKinds
<1>10. e.row_snapshot.body = row.body
  BY <1>5 DEF SnapshotMatches
<1>11. events' = Append(events, e) \o <<>>
  BY <1>5, <1>8 DEF TypeOK
<1> HIDE DEF e, row
<1>12. Written(h, row, e, <<>>)
  BY <1>3, <1>5, <1>6, <1>7, <1>9, <1>10, <1>11 DEF Written
<1> QED
  BY <1>1, <1>4, <1>8, <1>12, ShortSequences DEF Shape

(* The transaction of save. *)
LEMMA SaveWrites ==
  ASSUME TypeOK, ReadRowsStay, NEW w \in Workers, SaveCommit(w)
  PROVE  Shape
<1> DEFINE s == saving[w]
<1>1. s \in Saves /\ s # Nil /\ s.id \in Hyps /\ s.data \in Bodies
  BY DEF SaveCommit, TypeOK, Saves
<1>2. CASE ~s.existing
  BY <1>1, <1>2, CreateWrites DEF SaveCommit
<1>3. CASE s.existing
  <2> DEFINE e   == SaveEvent(s)
             row == SavedRow(s)
  <2>1. rows[s.id] \in Rows /\ rows[s.id] # Nil
    BY <1>1, <1>3 DEF ReadRowsStay, TypeOK
  <2>2. row \in Rows
    <3>1. rows[s.id].state \in HState /\ column(s.data.lens) \in Columns /\ NextEventId \in Nat
      BY <1>1, <2>1, ColumnType DEF Rows, Bodies, NextEventId, TypeOK
    <3> QED
      BY <1>1, <3>1, RowOfType DEF SavedRow
  <2>3. e \in Events
    BY <1>1, RecordEventType DEF SaveEvent, EventKinds
  <2>4. /\ events' = Append(events, e)
        /\ rows' = [rows EXCEPT ![s.id] = row]
        /\ SnapshotMatches(row, e)
    BY <1>3 DEF SaveCommit, UpdateRow, hyp_update_event_guard
  <2>5. row.body = s.data /\ row.state = rows[s.id].state /\ row.last_event_id = Len(events) + 1
    BY DEF SavedRow, RowOf, NextEventId
  <2>6. e.entity_id = s.id /\ e.kind = "hyp_updated"
    BY DEF SaveEvent, record_event
  <2>7. /\ e.snapshot = row.body /\ row.state = row.body.state /\ row.lens = column(row.body.lens)
        /\ row.body.note # "secret"
    <3>1. e = record_event("hyp_updated", s.id, Nil, Nil, {}, s.data, s.data)
      BY DEF SaveEvent
    <3> HIDE DEF e, row
    <3> QED
      BY <1>1, <2>2, <2>4, <2>5, <3>1, MatchFacts DEF EventKinds
  <2>8. e.row_snapshot.body = row.body
    BY <2>4 DEF SnapshotMatches
  <2>9. events' = Append(events, e) \o <<>>
    BY <2>3, <2>4 DEF TypeOK
  <2> HIDE DEF e, row
  <2>10. Written(s.id, row, e, <<>>)
    BY <2>1, <2>4, <2>5, <2>6, <2>7, <2>8, <2>9 DEF Written
  <2> QED
    BY <1>1, <2>2, <2>3, <2>10, ShortSequences DEF Shape
<1> QED
  BY <1>2, <1>3

(* Every step leaves both tables alone, appends a notice, or commits one transaction. *)
LEMMA StepShape == TypeInv /\ [Next]_vars => Shape
<1> SUFFICES ASSUME TypeOK, ReadRowsStay, [Next]_vars PROVE Shape
  BY DEF TypeInv
<1>1. ASSUME NEW h \in Hyps, NEW payload \in Creations, create_hypothesis(h, payload)
      PROVE  Shape
  <2>1. redact_payload(NewBody(payload)) \in Bodies
    BY NewBodyType, RedactionTypes, ConstantsAssumption
  <2> QED
    BY <1>1, <2>1, CreateWrites DEF create_hypothesis
<1>2. ASSUME NEW h \in Hyps, NEW kind \in Emitted, emit(h, kind)
      PROVE  Shape
  BY <1>2, ConstantsAssumption DEF emit, Shape, Noticed
<1>3. ASSUME NEW w \in Workers,
             \/ \E h \in Hyps : Load(w, h) \/ \E payload \in Payloads : SaveRead(w, h, payload)
             \/ \E note \in Notes : Edit(w, note)
             \/ SaveAbort(w)
             \/ Crash(w)
      PROVE  Shape
  BY <1>3 DEF Load, SaveRead, Edit, SaveAbort, Crash, Shape
<1>4. CASE UNCHANGED vars
  BY <1>4 DEF vars, Shape
<1> QED
  BY <1>1, <1>2, <1>3, <1>4, TransitionWrites, AwardWrites, SaveWrites DEF Next

(* Rows are never deleted. *)
LEMMA RowsStay ==
  ASSUME TypeOK, Shape, NEW h \in Hyps, rows[h] # Nil
  PROVE  rows'[h] # Nil
<1>1. CASE \E g \in Hyps, row \in Rows, e \in Events, more \in Seq(Events) : Written(g, row, e, more)
  <2>1. PICK g \in Hyps, row \in Rows, e \in Events, more \in Seq(Events) :
          Written(g, row, e, more)
    BY <1>1
  <2>2. rows' = [rows EXCEPT ![g] = row]
    BY <2>1 DEF Written
  <2> QED
    BY <2>2, NilAssumption DEF TypeOK
<1> QED
  BY <1>1 DEF Shape, Noticed

(* What a worker has read is never deleted under it. *)
LEMMA ReadRowsStayStep == TypeInv /\ [Next]_vars => ReadRowsStay'
<1> SUFFICES ASSUME TypeOK, ReadRowsStay, [Next]_vars, Shape PROVE ReadRowsStay'
  BY StepShape DEF TypeInv
<1>1. \A h \in Hyps : rows[h] # Nil => rows'[h] # Nil
  BY RowsStay
<1>2. \A w \in Workers : /\ mem[w] # Nil => mem[w].id \in Hyps
                         /\ saving[w] # Nil => saving[w].id \in Hyps
  BY DEF TypeOK, Objects, Saves
<1>3. CASE mem' = mem /\ saving' = saving
  BY <1>1, <1>2, <1>3 DEF ReadRowsStay
<1>4. ASSUME NEW w \in Workers, NEW h \in Hyps, Load(w, h)
      PROVE  ReadRowsStay'
  BY <1>2, <1>4 DEF Load, ReadRowsStay, TypeOK
<1>5. ASSUME NEW w \in Workers, NEW h \in Hyps, NEW payload \in Payloads, SaveRead(w, h, payload)
      PROVE  ReadRowsStay'
  <2>1. /\ rows' = rows /\ mem' = mem /\ saving'[w].id = h
        /\ saving'[w].existing = (rows[h] # Nil)
        /\ \A v \in Workers \ {w} : saving'[v] = saving[v]
    BY <1>5 DEF SaveRead, TypeOK
  <2> QED
    BY <1>2, <2>1 DEF ReadRowsStay
<1>6. ASSUME NEW w \in Workers, mem[w] # Nil, saving' = saving,
             NEW b, mem' = [mem EXCEPT ![w] = [id |-> mem[w].id, body |-> b]]
      PROVE  ReadRowsStay'
  BY <1>1, <1>2, <1>6 DEF ReadRowsStay, TypeOK
<1>7. ASSUME NEW w \in Workers, saving' = [saving EXCEPT ![w] = Nil],
             mem' = mem \/ mem' = [mem EXCEPT ![w] = Nil]
      PROVE  ReadRowsStay'
  BY <1>1, <1>2, <1>7 DEF ReadRowsStay, TypeOK
<1>8. CASE \E h \in Hyps : \/ \E payload \in Creations : create_hypothesis(h, payload)
                          \/ \E kind \in Emitted : emit(h, kind)
  BY <1>3, <1>8 DEF create_hypothesis, emit
<1>9. ASSUME NEW w \in Workers, NEW note \in Notes, Edit(w, note)
      PROVE  ReadRowsStay'
  BY <1>6, <1>9 DEF Edit
<1>10. ASSUME NEW w \in Workers, NEW token \in Callers, NEW new_state \in HState,
              NEW evidence \in Evidences, transition_hypothesis(w, token, new_state, evidence)
       PROVE  ReadRowsStay'
  BY <1>6, <1>10 DEF transition_hypothesis
<1>11. ASSUME NEW w \in Workers, NEW token \in Callers, NEW proof \in Proofs,
              award_ladder(w, token, proof)
       PROVE  ReadRowsStay'
  BY <1>6, <1>11 DEF award_ladder
<1>12. ASSUME NEW w \in Workers, SaveCommit(w) \/ SaveAbort(w) \/ Crash(w)
       PROVE  ReadRowsStay'
  BY <1>7, <1>12 DEF SaveCommit, SaveAbort, Crash
<1>13. CASE UNCHANGED vars
  BY <1>3, <1>13 DEF vars
<1> QED
  BY <1>4, <1>5, <1>8, <1>9, <1>10, <1>11, <1>12, <1>13 DEF Next

(* Types, with the fact that keeps saves and objects attached to a row. *)
LEMMA TypeInvariant == Spec => []TypeInv
<1>1. Init => TypeInv
  BY DEF Init, TypeInv, TypeOK, ReadRowsStay
<1>2. TypeInv /\ [Next]_vars => TypeInv'
  BY TypeStep, ReadRowsStayStep DEF TypeInv
<1> QED
  BY <1>1, <1>2, PTL DEF Spec

(* The tables, the objects in memory and the pending saves keep their types: *)
(* no interleaving of workers writes a malformed row or event.               *)
THEOREM TypeCorrect == Spec => []TypeOK
<1>1. TypeInv => TypeOK
  BY DEF TypeInv
<1> QED
  BY <1>1, TypeInvariant, PTL

(***************************************************************************)
(* The log and the rows.                                                   *)
(***************************************************************************)

(* The log t is s with the event e, and perhaps the event n, at its end. *)
GrownBy(s, t, e, n) ==
  /\ t \in Seq(Events) /\ Len(s) \in Nat /\ Len(t) \in Nat
  /\ Len(t) >= Len(s) + 1
  /\ \A k \in 1..Len(s) : t[k] = s[k]
  /\ t[Len(s) + 1] = e
  /\ \A k \in 1..Len(t) : k \in 1..Len(s) \/ k = Len(s) + 1 \/ (k = Len(s) + 2 /\ t[k] = n)

(* Where the events of a transaction land. *)
LEMMA LogGrowth ==
  ASSUME NEW s \in Seq(Events), NEW e \in Events, NEW n \in Events, NEW more,
         more = <<>> \/ more = <<n>>
  PROVE  GrownBy(s, Append(s, e) \o more, e, n)
<1> DEFINE t == Append(s, e) \o more
<1> SUFFICES GrownBy(s, t, e, n)
  OBVIOUS
<1> DEFINE a == Append(s, e)
<1>1. /\ a \in Seq(Events) /\ Len(a) = Len(s) + 1 /\ Len(s) \in Nat
      /\ \A k \in 1..Len(s) : a[k] = s[k]
      /\ a[Len(s) + 1] = e
  OBVIOUS
<1> HIDE DEF a
<1>2. CASE more = <<>>
  <2>1. t = a
    BY <1>1, <1>2 DEF a
  <2> HIDE DEF t
  <2> QED
    BY <1>1, <2>1 DEF GrownBy
<1>3. CASE more = <<n>>
  <2>1. t = a \o <<n>>
    BY <1>3 DEF a
  <2> HIDE DEF t
  <2>2. /\ t \in Seq(Events) /\ Len(t) = Len(a) + 1
        /\ \A k \in 1..Len(a) : t[k] = a[k]
        /\ t[Len(a) + 1] = n
    BY <1>1, <2>1
  <2> QED
    BY <1>1, <2>2 DEF GrownBy
<1> QED
  BY <1>2, <1>3

(* A stored row is what the event last_event_id names describes, and no later *)
(* event of that hypothesis carries a snapshot.                               *)
RowBacked(h) ==
  LET k == rows[h].last_event_id
  IN  /\ k \in EventIds
      /\ events[k].entity_id = h
      /\ events[k].snapshot = rows[h].body
      /\ rows[h].state = rows[h].body.state /\ rows[h].lens = column(rows[h].body.lens)
      /\ \A j \in EventIds : j > k /\ events[j].entity_id = h => events[j].snapshot = Nil

RowsBacked == \A h \in Hyps : rows[h] # Nil => RowBacked(h)

(* Every step keeps each row backed by its event. *)
LEMMA RowsBackedStep == TypeInv /\ RowsBacked /\ [Next]_vars => RowsBacked'
<1> SUFFICES ASSUME TypeOK, RowsBacked, Shape PROVE RowsBacked'
  BY StepShape DEF TypeInv
<1>1. CASE UNCHANGED <<events, rows>>
  BY <1>1 DEF RowsBacked, RowBacked, EventIds
<1>2. ASSUME NEW h \in Hyps, NEW kind \in NoticeKinds, Noticed(h, kind)
      PROVE  RowsBacked'
  <2>1. /\ Len(events') = Len(events) + 1
        /\ \A k \in 1..Len(events) : events'[k] = events[k]
        /\ events'[Len(events) + 1].snapshot = Nil
        /\ rows' = rows
    BY <1>2 DEF Noticed, TypeOK, BareEvent
  <2> QED
    BY <2>1 DEF RowsBacked, RowBacked, EventIds, TypeOK
<1>3. ASSUME NEW h \in Hyps, NEW row \in Rows, NEW e \in Events, NEW more \in Seq(Events),
             Written(h, row, e, more)
      PROVE  RowsBacked'
  <2> DEFINE n == BareEvent("reopen_threshold_exceeded", h)
  <2>1. n \in Events /\ n.entity_id = h /\ n.snapshot = Nil
    BY BareEventType DEF BareEvent, EventKinds, NoticeKinds
  <2>2. /\ more = <<>> \/ more = <<n>>
        /\ events' = Append(events, e) \o more
        /\ rows' = [rows EXCEPT ![h] = row]
        /\ e.entity_id = h /\ e.snapshot = row.body
        /\ row.last_event_id = Len(events) + 1
        /\ row.state = row.body.state /\ row.lens = column(row.body.lens)
    BY <1>3 DEF Written
  <2> HIDE DEF n
  <2>3. /\ Len(events') >= Len(events) + 1
        /\ Len(events) \in Nat /\ Len(events') \in Nat
        /\ \A k \in 1..Len(events) : events'[k] = events[k]
        /\ events'[Len(events) + 1] = e
        /\ \A k \in 1..Len(events') :
             k \in 1..Len(events) \/ k = Len(events) + 1 \/ (k = Len(events) + 2 /\ events'[k] = n)
    <3>1. GrownBy(events, events', e, n)
      BY <2>1, <2>2, LogGrowth DEF TypeOK
    <3> QED
      BY <3>1 DEF GrownBy
  <2>4. ASSUME NEW g \in Hyps, rows'[g] # Nil
        PROVE  RowBacked(g)'
    <3>1. CASE g = h
      <4>1. rows'[g] = row
        BY <2>2, <3>1 DEF TypeOK
      <4> QED
        BY <2>1, <2>2, <2>3, <3>1, <4>1 DEF RowBacked, EventIds
    <3>2. CASE g # h
      <4>1. rows'[g] = rows[g] /\ rows[g] # Nil
        BY <2>2, <2>4, <3>2 DEF TypeOK
      <4>2. RowBacked(g)
        BY <4>1 DEF RowsBacked
      <4> QED
        BY <2>1, <2>2, <2>3, <3>2, <4>1, <4>2 DEF RowBacked, EventIds
    <3> QED
      BY <3>1, <3>2
  <2> QED
    BY <2>4 DEF RowsBacked
<1> QED
  BY <1>1, <1>2, <1>3 DEF Shape

(* Each row is backed by its event, always. *)
LEMMA RowsBackedInvariant == Spec => []RowsBacked
<1>1. Init => RowsBacked
  BY DEF Init, RowsBacked
<1> QED
  BY <1>1, RowsBackedStep, TypeInvariant, PTL DEF Spec

(* For every hypothesis the last snapshot in the log is the stored body, and *)
(* verify_hypothesis_rebuild says so unless the body lacks a column's key,   *)
(* whatever the workers do.                                                  *)
THEOREM RebuildTheorem == Spec => []RebuildMatchesRow
<1>1. TypeInv /\ RowsBacked => RebuildMatchesRow
  <2> SUFFICES ASSUME TypeOK, RowsBacked, NEW h \in Hyps, rows[h] # Nil
               PROVE  /\ SnapshotsOf(h) # {}
                      /\ rebuild_hypothesis_from_events(h) = rows[h].body
                      /\ verify_hypothesis_rebuild(h) <=> rows[h].body.lens # Absent
    BY DEF RebuildMatchesRow, TypeInv
  <2> DEFINE k == rows[h].last_event_id
  <2>1. RowBacked(h) /\ rows[h] \in Rows
    BY DEF RowsBacked, TypeOK
  <2>2. rows[h].body \in Bodies /\ rows[h].body # Nil
    BY <2>1, NilAssumption DEF Rows
  <2>3. k \in SnapshotsOf(h) /\ \A j \in SnapshotsOf(h) : j <= k
    BY <2>1, <2>2 DEF RowBacked, SnapshotsOf, EventIds, TypeOK
  <2>4. Latest(SnapshotsOf(h)) = k
    <3>1. \A j \in SnapshotsOf(h) : j \in Nat
      BY DEF SnapshotsOf, EventIds
    <3> HIDE DEF k
    <3> QED
      BY <2>3, <3>1 DEF Latest
  <2>5. rebuild_hypothesis_from_events(h) = rows[h].body
    BY <2>1, <2>4 DEF rebuild_hypothesis_from_events, RowBacked
  <2>6. /\ rows[h].state = rows[h].body.state
        /\ rows[h].lens = IF rows[h].body.lens = Absent THEN None ELSE rows[h].body.lens
    BY <2>1 DEF RowBacked, column, Given
  <2>7. get(h) = rows[h].body <=> rows[h].body.lens # Absent
    BY <2>2, <2>6, AbsentAssumption DEF get, Bodies
  <2> QED
    BY <2>3, <2>5, <2>7 DEF verify_hypothesis_rebuild
<1> QED
  BY <1>1, TypeInvariant, RowsBackedInvariant, PTL

(* The columns of a row agree with its body, although save and award_ladder each *)
(* write only some of them from data read before.                                *)
THEOREM ColumnsTheorem == Spec => []ColumnsMatchBody
<1>1. RowsBacked => ColumnsMatchBody
  BY DEF RowsBacked, RowBacked, ColumnsMatchBody
<1> QED
  BY <1>1, RowsBackedInvariant, PTL

(* No secret is ever at rest: not in a row, not in an event. *)
THEOREM NoSecretTheorem == Spec => []NoSecretAtRest
<1>1. Init => NoSecretAtRest
  BY DEF Init, NoSecretAtRest, EventIds
<1>2. TypeInv /\ NoSecretAtRest /\ [Next]_vars => NoSecretAtRest'
  <2> SUFFICES ASSUME TypeOK, NoSecretAtRest, Shape PROVE NoSecretAtRest'
    BY StepShape DEF TypeInv
  <2>1. CASE UNCHANGED <<events, rows>>
    BY <2>1 DEF NoSecretAtRest, EventIds
  <2>2. ASSUME NEW h \in Hyps, NEW kind \in NoticeKinds, Noticed(h, kind)
        PROVE  NoSecretAtRest'
    <3>1. /\ Len(events') = Len(events) + 1
          /\ \A k \in 1..Len(events) : events'[k] = events[k]
          /\ events'[Len(events) + 1].snapshot = Nil
          /\ events'[Len(events) + 1].row_snapshot = Nil
          /\ rows' = rows /\ Len(events) \in Nat
      BY <2>2 DEF Noticed, TypeOK, BareEvent
    <3> QED
      BY <3>1 DEF NoSecretAtRest, EventIds
  <2>3. ASSUME NEW h \in Hyps, NEW row \in Rows, NEW e \in Events, NEW more \in Seq(Events),
               Written(h, row, e, more)
        PROVE  NoSecretAtRest'
    <3> DEFINE n == BareEvent("reopen_threshold_exceeded", h)
    <3>1. n \in Events /\ n.snapshot = Nil /\ n.row_snapshot = Nil
      BY BareEventType DEF BareEvent, EventKinds, NoticeKinds
    <3>2. /\ more = <<>> \/ more = <<n>>
          /\ events' = Append(events, e) \o more
          /\ rows' = [rows EXCEPT ![h] = row]
          /\ e.snapshot = row.body
          /\ row.body.note # "secret" /\ e.row_snapshot.body.note # "secret"
      BY <2>3 DEF Written
    <3> HIDE DEF n
    <3>3. /\ \A k \in 1..Len(events) : events'[k] = events[k]
          /\ events'[Len(events) + 1] = e
          /\ \A k \in 1..Len(events') :
               k \in 1..Len(events) \/ k = Len(events) + 1 \/ (k = Len(events) + 2 /\ events'[k] = n)
      <4>1. GrownBy(events, events', e, n)
        BY <3>1, <3>2, LogGrowth DEF TypeOK
      <4> QED
        BY <4>1 DEF GrownBy
    <3>4. \A g \in Hyps : rows'[g] = row \/ rows'[g] = rows[g]
      BY <3>2 DEF TypeOK
    <3>5. ASSUME NEW g \in Hyps, rows'[g] # Nil PROVE rows'[g].body.note # "secret"
      BY <3>2, <3>4, <3>5 DEF NoSecretAtRest
    <3>6. ASSUME NEW k \in 1..Len(events')
          PROVE  /\ events'[k].snapshot # Nil => events'[k].snapshot.note # "secret"
                 /\ events'[k].row_snapshot # Nil => events'[k].row_snapshot.body.note # "secret"
      <4>1. CASE k \in 1..Len(events)
        BY <3>3, <4>1 DEF NoSecretAtRest, EventIds
      <4>2. CASE k = Len(events) + 1
        BY <3>2, <3>3, <4>2
      <4>3. CASE k = Len(events) + 2 /\ events'[k] = n
        BY <3>1, <4>3
      <4> QED
        BY <3>3, <4>1, <4>2, <4>3
    <3> QED
      BY <3>5, <3>6 DEF NoSecretAtRest, EventIds
  <2> QED
    BY <2>1, <2>2, <2>3 DEF Shape
<1> QED
  BY <1>1, <1>2, TypeInvariant, PTL DEF Spec

(***************************************************************************)
(* The log only grows.                                                     *)
(***************************************************************************)
LogGrew ==
  /\ Len(events') >= Len(events) /\ Len(events) \in Nat /\ Len(events') \in Nat
  /\ \A k \in 1..Len(events) : events'[k] = events[k]

(* No step removes or alters an event. *)
LEMMA LogGrows == TypeInv /\ [Next]_vars => LogGrew
<1> SUFFICES ASSUME TypeOK, Shape PROVE LogGrew
  BY StepShape DEF TypeInv
<1>1. CASE UNCHANGED <<events, rows>>
  BY <1>1 DEF LogGrew, TypeOK
<1>2. ASSUME NEW h \in Hyps, NEW kind \in NoticeKinds, Noticed(h, kind)
      PROVE  LogGrew
  <2>1. BareEvent(kind, h) \in Events
    BY BareEventType DEF EventKinds
  <2> QED
    BY <1>2, <2>1 DEF Noticed, TypeOK, LogGrew
<1>3. ASSUME NEW h \in Hyps, NEW row \in Rows, NEW e \in Events, NEW more \in Seq(Events),
             Written(h, row, e, more)
      PROVE  LogGrew
  <2> DEFINE n == BareEvent("reopen_threshold_exceeded", h)
  <2>1. n \in Events
    BY BareEventType DEF EventKinds, NoticeKinds
  <2>2. (more = <<>> \/ more = <<n>>) /\ events' = Append(events, e) \o more
    BY <1>3 DEF Written
  <2> HIDE DEF n
  <2>3. GrownBy(events, events', e, n)
    BY <2>1, <2>2, LogGrowth DEF TypeOK
  <2> QED
    BY <2>3 DEF GrownBy, LogGrew
<1> QED
  BY <1>1, <1>2, <1>3 DEF Shape

(***************************************************************************)
(* Ladders and reopen counts, in rows and in every copy of them.           *)
(***************************************************************************)
(* The level a ladder shows on an axis has its prerequisites in that ladder. *)
Rests(ladder, axis) == prerequisites_satisfied(ladder, axis, ladder[axis])

(* Prerequisites name axes and levels; the lowest levels have none. *)
LEMMA PredecessorFacts ==
  ASSUME NEW axis \in AXES, NEW level \in Levels
  PROVE  /\ \A pre \in PREDECESSORS(axis, level) : pre[1] \in AXES /\ pre[2] \in Nat
         /\ level \in {0, Unawarded, NotApplicable} => PREDECESSORS(axis, level) = {}
<1>1. \A pre \in PREDECESSORS(axis, level) : pre[1] \in AXES /\ pre[2] \in Nat
  BY DEF PREDECESSORS, AXES
<1>2. level \in {0, Unawarded, NotApplicable} => PREDECESSORS(axis, level) = {}
  BY DEF PREDECESSORS, AXES, Unawarded, NotApplicable
<1> QED
  BY <1>1, <1>2

(* A valid award leaves no level unsupported that was not, at the same height, before. *)
LEMMA AwardSupported ==
  ASSUME NEW b \in Dumps, NEW p \in Proofs, NEW valid, validate_award(valid, b, p),
         NEW x \in AXES, ~ Rests(award(b.ladder, p), x)
  PROVE  ~ Rests(b.ladder, x) /\ b.ladder[x] = award(b.ladder, p)[x]
<1> DEFINE l == b.ladder
           m == award(b.ladder, p)
<1>1. l \in Ladders /\ p.axis \in AXES /\ p.level \in Levels
  BY ConstantsAssumption DEF Dumps
<1>2. m[p.axis] = p.level /\ \A y \in AXES \ {p.axis} : m[y] = l[y]
  BY <1>1 DEF award, Ladders
<1>3. \A y \in AXES : l[y] \in Levels /\ l[y] \in Int
  BY <1>1 DEF Ladders, Levels, Unawarded, NotApplicable
<1>4. p.level \in Int
  BY <1>1 DEF Levels, Unawarded, NotApplicable
<1>5. PICK pre \in PREDECESSORS(x, m[x]) : ~(m[pre[1]] >= pre[2])
  BY DEF Rests, prerequisites_satisfied
<1>6. pre[1] \in AXES /\ pre[2] \in Nat
  <2>1. m[x] \in Levels
    BY <1>1, <1>2, <1>3
  <2> QED
    BY <1>5, <2>1, PredecessorFacts
<1>7. PREDECESSORS(x, m[x]) # {}
  BY <1>5
<1> HIDE DEF l, m
<1>8. m[pre[1]] >= l[pre[1]] \/ l[pre[1]] < 0
  <2>1. CASE p.level = NotApplicable
    <3>1. l[p.axis] \in {Unawarded, NotApplicable}
      BY <2>1 DEF validate_award, l
    <3> QED
      BY <1>2, <1>3, <1>6, <3>1 DEF Unawarded, NotApplicable
  <2>2. CASE p.level # NotApplicable
    <3>1. p.level >= CurrentLevel(l, p.axis)
      BY <2>2 DEF validate_award, l
    <3>2. l[p.axis] <= p.level
      BY <1>1, <1>3, <1>4, <3>1 DEF CurrentLevel, Unawarded
    <3> QED
      BY <1>1, <1>2, <1>3, <1>6, <3>2
  <2> QED
    BY <2>1, <2>2
<1>9. ~(l[pre[1]] >= pre[2])
  <2>1. m[pre[1]] \in Int /\ l[pre[1]] \in Int
    BY <1>2, <1>3, <1>4, <1>6
  <2> QED
    BY <1>5, <1>6, <1>8, <2>1
<1>10. l[x] = m[x]
  <2>1. CASE x # p.axis
    BY <1>2, <2>1
  <2>2. CASE x = p.axis
    <3>1. p.level \notin {0, Unawarded, NotApplicable}
      BY <1>1, <1>2, <1>7, <2>2, PredecessorFacts
    <3>2. /\ p.level >= CurrentLevel(l, p.axis)
          /\ p.level > CurrentLevel(l, p.axis) => prerequisites_satisfied(l, p.axis, p.level)
      BY <3>1 DEF validate_award, l
    <3>3. ~ prerequisites_satisfied(l, p.axis, p.level)
      BY <1>2, <1>5, <1>9, <2>2 DEF prerequisites_satisfied
    <3>4. p.level = CurrentLevel(l, p.axis)
      BY <1>1, <1>3, <1>4, <3>2, <3>3 DEF CurrentLevel, Unawarded
    <3> QED
      BY <1>2, <2>2, <3>1, <3>4 DEF CurrentLevel
  <2> QED
    BY <2>1, <2>2
<1>11. ~ Rests(l, x)
  BY <1>5, <1>9, <1>10 DEF Rests, prerequisites_satisfied
<1> QED
  BY <1>10, <1>11 DEF l, m

(* The log announces that the count of h passed the threshold: with the *)
(* notice, or in a caller's own payload.                                *)
AnnouncedIn(log, h) ==
  \E k \in 1..Len(log) :
    /\ log[k].entity_id = h
    /\ \/ log[k].kind = "reopen_threshold_exceeded"
       \/ log[k].kind \in CallerKinds /\ CountOf(log[k].snapshot) >= 3

(* A caller's payload put this unsupported level on the ladder of h. *)
PutBy(log, h, axis, level) ==
  \E i \in 1..Len(log) :
    /\ log[i].entity_id = h /\ log[i].snapshot # Nil /\ log[i].kind \in CallerKinds
    /\ ~ Rests(LadderOf(log[i].snapshot), axis)
    /\ LadderOf(log[i].snapshot)[axis] = level

(* What holds of the count and the ladder of every copy, stored or held. *)
CountIn(log, h, n) == n >= 3 => AnnouncedIn(log, h)

LadderIn(log, h, ladder) ==
  \A axis \in AXES : Rests(ladder, axis) \/ PutBy(log, h, axis, ladder[axis])

GoodIn(log, h, b) == CountIn(log, h, CountOf(b)) /\ LadderIn(log, h, LadderOf(b))

GoodBodies ==
  /\ \A h \in Hyps : rows[h] # Nil => GoodIn(events, h, rows[h].body)
  /\ \A w \in Workers : mem[w] # Nil => GoodIn(events, mem[w].id, mem[w].body)

(* A good body stays good as the log grows. *)
LEMMA GoodStays ==
  ASSUME LogGrew, NEW h, NEW b, GoodIn(events, h, b)
  PROVE  GoodIn(events', h, b)
<1>1. AnnouncedIn(events, h) => AnnouncedIn(events', h)
  BY DEF LogGrew, AnnouncedIn
<1>2. \A axis, level : PutBy(events, h, axis, level) => PutBy(events', h, axis, level)
  BY DEF LogGrew, PutBy
<1> QED
  BY <1>1, <1>2 DEF GoodIn, CountIn, LadderIn

(* Only the reopen count and the ladder of a body matter to GoodIn. *)
LEMMA GoodDepends ==
  ASSUME NEW log, NEW h, NEW b, NEW c,
         CountOf(c) = CountOf(b), LadderOf(c) = LadderOf(b), GoodIn(log, h, b)
  PROVE  GoodIn(log, h, c)
BY DEF GoodIn

(* Redaction touches neither. *)
LEMMA RedactionKeeps ==
  ASSUME NEW b \in Bodies
  PROVE  CountOf(redact_payload(b)) = CountOf(b) /\ LadderOf(redact_payload(b)) = LadderOf(b)
<1>1. redact_payload(b).reopen_count = b.reopen_count /\ redact_payload(b).ladder = b.ladder
  BY DEF redact_payload, Bodies
<1> QED
  BY <1>1 DEF CountOf, LadderOf

LEMMA RedactionGood ==
  ASSUME NEW log, NEW h, NEW b \in Bodies, GoodIn(log, h, b)
  PROVE  GoodIn(log, h, redact_payload(b))
BY RedactionKeeps, GoodDepends

(* Building the object keeps both, and a complete object shows them as they are. *)
LEMMA HypothesisKeeps ==
  ASSUME NEW b \in Bodies
  PROVE  CountOf(Hypothesis(b)) = CountOf(b) /\ LadderOf(Hypothesis(b)) = LadderOf(b)
<1>1. Hypothesis(b).reopen_count = CountOf(b) /\ Hypothesis(b).ladder = LadderOf(b)
  BY DEF Hypothesis
<1>2. CountOf(b) # Absent /\ LadderOf(b) # Absent
  <2>1. EmptyLadder \in Ladders
    BY DEF EmptyLadder, Ladders, Levels, Unawarded
  <2>2. CountOf(b) \in Nat /\ LadderOf(b) \in Ladders
    BY <2>1 DEF CountOf, LadderOf, Given, Bodies
  <2> QED
    BY <2>2, AbsentAssumption
<1> QED
  BY <1>1, <1>2 DEF CountOf, LadderOf, Given

LEMMA DumpShows ==
  ASSUME NEW b \in Dumps
  PROVE  CountOf(b) = b.reopen_count /\ LadderOf(b) = b.ladder
<1>1. b.reopen_count # Absent /\ b.ladder # Absent
  BY AbsentAssumption DEF Dumps
<1> QED
  BY <1>1 DEF CountOf, LadderOf, Given

(* What a caller's own event records is good by that event. *)
LEMMA CallerGood ==
  ASSUME NEW log \in Seq(Events), NEW e \in Events, e.snapshot # Nil, e.kind \in CallerKinds,
         NEW b, CountOf(e.snapshot) = CountOf(b), LadderOf(e.snapshot) = LadderOf(b)
  PROVE  GoodIn(Append(log, e), e.entity_id, b)
<1> DEFINE t == Append(log, e)
           k == Len(log) + 1
<1>1. k \in 1..Len(t) /\ t[k] = e
  OBVIOUS
<1> HIDE DEF t, k
<1>2. CountOf(b) >= 3 => AnnouncedIn(t, e.entity_id)
  BY <1>1 DEF AnnouncedIn
<1>3. \A axis \in AXES : Rests(LadderOf(b), axis)
                          \/ PutBy(t, e.entity_id, axis, LadderOf(b)[axis])
  BY <1>1 DEF PutBy
<1> QED
  BY <1>2, <1>3 DEF GoodIn, CountIn, LadderIn, t

(* A step that stores and loads nothing but good bodies keeps all of them good. *)
LEMMA GoodUpdate ==
  ASSUME GoodBodies, LogGrew,
         \A h \in Hyps : rows'[h] = Nil \/ rows'[h] = rows[h] \/ GoodIn(events', h, rows'[h].body),
         \A w \in Workers : mem'[w] = Nil \/ mem'[w] = mem[w] \/ GoodIn(events', mem'[w].id, mem'[w].body)
  PROVE  GoodBodies'
<1>1. \A h \in Hyps : rows'[h] # Nil => GoodIn(events', h, rows'[h].body)
  BY GoodStays DEF GoodBodies
<1>2. \A w \in Workers : mem'[w] # Nil => GoodIn(events', mem'[w].id, mem'[w].body)
  BY GoodStays DEF GoodBodies
<1> QED
  BY <1>1, <1>2 DEF GoodBodies

(* A transition keeps its body good: the third reopening appends the notice. *)
LEMMA TransitionGood ==
  ASSUME TypeOK, GoodBodies, LogGrew, NEW w \in Workers, NEW token \in Callers,
         NEW new_state \in HState, NEW evidence \in Evidences,
         transition_hypothesis(w, token, new_state, evidence)
  PROVE  GoodIn(events', mem[w].id, Transitioned(mem[w].body, new_state))
<1> DEFINE h       == mem[w].id
           old     == mem[w].body
           payload == Transitioned(old, new_state)
           body    == redact_payload(payload)
           e       == record_event("hyp_transition", h, old.state, new_state, evidence, payload, body)
           more    == ThresholdEvents(h, old.state, payload)
           n       == BareEvent("reopen_threshold_exceeded", h)
<1>1. mem[w] \in Objects /\ h \in Hyps /\ old \in Dumps
  BY DEF transition_hypothesis, TypeOK, Objects
<1>2. payload \in Dumps /\ payload \in Bodies /\ body \in Bodies
  BY <1>1, TransitionedType, RedactionTypes
<1>3. e \in Events
  <2>1. old.state \in HState /\ evidence \in SUBSET Prefixes
    BY <1>1, ConstantsAssumption DEF Dumps
  <2> HIDE DEF payload, body
  <2> QED
    BY <1>1, <1>2, <2>1, RecordEventType DEF EventKinds
<1>4. n \in Events /\ n.entity_id = h /\ n.kind = "reopen_threshold_exceeded"
  BY <1>1, BareEventType DEF BareEvent, EventKinds, NoticeKinds
<1>5. events' = Append(events, e) \o more
  BY DEF transition_hypothesis
<1>6. GoodIn(events, h, old) /\ GoodIn(events', h, old)
  BY GoodStays DEF GoodBodies, transition_hypothesis
<1>7. payload.ladder = old.ladder /\ payload.state = new_state
  BY <1>1 DEF Transitioned, Dumps
<1>8. old.reopen_count \in Nat
      /\ payload.reopen_count = IF IsReopen(old.state, new_state)
                                THEN old.reopen_count + 1 ELSE old.reopen_count
  BY <1>1 DEF Transitioned, Dumps
<1>9. more = IF IsReopen(old.state, new_state) /\ payload.reopen_count = 3 THEN <<n>> ELSE <<>>
  BY <1>7 DEF ThresholdEvents
<1>10. /\ CountOf(old) = old.reopen_count /\ CountOf(payload) = payload.reopen_count
       /\ LadderOf(old) = old.ladder /\ LadderOf(payload) = payload.ladder
  BY <1>1, <1>2, DumpShows
<1> HIDE DEF h, old, payload, body, e, more, n
<1>11. CountIn(events', h, CountOf(payload))
  <2>1. CASE old.reopen_count >= 3
    BY <1>6, <1>10, <2>1 DEF GoodIn, CountIn
  <2>2. CASE payload.reopen_count >= 3 /\ ~(old.reopen_count >= 3)
    <3>1. IsReopen(old.state, new_state) /\ payload.reopen_count = 3
      BY <1>8, <2>2
    <3>2. events' = Append(events, e) \o <<n>> /\ events \in Seq(Events)
      BY <1>5, <1>9, <3>1 DEF TypeOK
    <3>3. Len(events') = Len(events) + 2 /\ Len(events) \in Nat /\ events'[Len(events) + 2] = n
      BY <1>3, <1>4, <3>2
    <3>4. AnnouncedIn(events', h)
      BY <1>4, <3>3 DEF AnnouncedIn
    <3> QED
      BY <3>4 DEF CountIn
  <2>3. CASE ~(payload.reopen_count >= 3)
    BY <1>10, <2>3 DEF CountIn
  <2> QED
    BY <2>1, <2>2, <2>3
<1>12. GoodIn(events', h, payload)
  BY <1>6, <1>7, <1>10, <1>11 DEF GoodIn
<1> QED
  BY <1>12 DEF h, payload, old

(* An award keeps its body good, with respect to the log before it. *)
LEMMA AwardGood ==
  ASSUME NEW log, NEW h, NEW b \in Dumps, NEW p \in Proofs, NEW valid,
         validate_award(valid, b, p), GoodIn(log, h, b)
  PROVE  GoodIn(log, h, [b EXCEPT !.ladder = award(b.ladder, p)])
<1> DEFINE c == [b EXCEPT !.ladder = award(b.ladder, p)]
<1>1. c \in Dumps
  BY AwardedType
<1>2. c.reopen_count = b.reopen_count /\ c.ladder = award(b.ladder, p)
  BY DEF Dumps
<1> HIDE DEF c
<1>3. /\ CountOf(c) = CountOf(b) /\ LadderOf(c) = award(b.ladder, p)
      /\ LadderOf(b) = b.ladder
  BY <1>1, <1>2, DumpShows
<1>4. LadderIn(log, h, award(b.ladder, p))
  <2> SUFFICES ASSUME NEW x \in AXES, ~ Rests(award(b.ladder, p), x)
               PROVE  PutBy(log, h, x, award(b.ladder, p)[x])
    BY DEF LadderIn
  <2>1. ~ Rests(b.ladder, x) /\ b.ladder[x] = award(b.ladder, p)[x]
    BY AwardSupported
  <2>2. Rests(b.ladder, x) \/ PutBy(log, h, x, b.ladder[x])
    BY <1>3 DEF GoodIn, LadderIn
  <2> QED
    BY <2>1, <2>2
<1> QED
  BY <1>3, <1>4 DEF GoodIn, c

(* Creating a hypothesis, from create_hypothesis or from save, stores a good body. *)
LEMMA CreateGood ==
  ASSUME TypeOK, GoodBodies, LogGrew, NEW h \in Hyps, NEW data \in Bodies,
         CreateTxn(h, data), \A w \in Workers : mem'[w] = mem[w]
  PROVE  GoodBodies'
<1> DEFINE e == record_event("hyp_created", h, Nil, Nil, {}, data, data)
<1>1. e \in Events
  BY RecordEventType DEF EventKinds
<1>2. e.snapshot = redact_payload(data) /\ e.kind = "hyp_created" /\ e.entity_id = h
  BY DEF record_event
<1>3. /\ events' = Append(events, e)
      /\ rows' = [rows EXCEPT ![h] = RowOf("OPEN", column(data.lens), data, NextEventId)]
  BY DEF CreateTxn, InsertRow
<1> HIDE DEF e
<1>4. GoodIn(events', h, data)
  <2>1. redact_payload(data) # Nil
    BY RedactionTypes, NilAssumption
  <2> QED
    BY <1>1, <1>2, <1>3, <2>1, RedactionKeeps, CallerGood DEF CallerKinds, TypeOK
<1>5. \A g \in Hyps : rows'[g] = rows[g] \/ (g = h /\ rows'[g].body = data)
  BY <1>3 DEF TypeOK, RowOf
<1> QED
  BY <1>4, <1>5, GoodUpdate

(* Every step keeps all copies of all bodies good. *)
LEMMA GoodStep == TypeInv /\ GoodBodies /\ [Next]_vars => GoodBodies'
<1> SUFFICES ASSUME TypeInv, GoodBodies, [Next]_vars PROVE GoodBodies'
  OBVIOUS
<1>0. TypeOK /\ ReadRowsStay /\ LogGrew
  BY LogGrows DEF TypeInv
<1>1. CASE UNCHANGED vars
  BY <1>1 DEF GoodBodies, vars
<1>2. ASSUME NEW h \in Hyps, NEW payload \in Creations, create_hypothesis(h, payload)
      PROVE  GoodBodies'
  <2> DEFINE data == redact_payload(NewBody(payload))
  <2>1. data \in Bodies
    BY NewBodyType, RedactionTypes, ConstantsAssumption
  <2>2. CreateTxn(h, data) /\ mem' = mem
    BY <1>2 DEF create_hypothesis
  <2> HIDE DEF data
  <2> QED
    BY <1>0, <2>1, <2>2, CreateGood
<1>3. ASSUME NEW h \in Hyps, NEW kind \in Emitted, emit(h, kind)
      PROVE  GoodBodies'
  BY <1>0, <1>3, GoodUpdate DEF emit
<1>4. ASSUME NEW w \in Workers, NEW h \in Hyps, Load(w, h)
      PROVE  GoodBodies'
  <2>1. rows[h] \in Rows /\ rows[h].body \in Bodies
    BY <1>0, <1>4 DEF Load, TypeOK, Rows
  <2> DEFINE b == Hypothesis(get(h))
  <2>2. CountOf(b) = CountOf(rows[h].body) /\ LadderOf(b) = LadderOf(rows[h].body)
    <3>1. get(h) \in Bodies
      BY <2>1 DEF get, Bodies, Rows, Columns
    <3>2. get(h).reopen_count = rows[h].body.reopen_count /\ get(h).ladder = rows[h].body.ladder
      BY <2>1 DEF get, Bodies
    <3>3. CountOf(get(h)) = CountOf(rows[h].body) /\ LadderOf(get(h)) = LadderOf(rows[h].body)
      BY <3>2 DEF CountOf, LadderOf
    <3> QED
      BY <3>1, <3>3, HypothesisKeeps
  <2>3. \A v \in Workers : mem'[v] = mem[v] \/ (mem'[v].id = h /\ mem'[v].body = b)
    BY <1>0, <1>4 DEF Load, TypeOK
  <2>4. rows' = rows /\ rows[h] # Nil
    BY <1>4 DEF Load
  <2> HIDE DEF b
  <2>5. GoodIn(events', h, b)
    BY <1>0, <2>2, <2>4, GoodDepends, GoodStays DEF GoodBodies
  <2> QED
    BY <1>0, <2>3, <2>4, <2>5, GoodUpdate
<1>5. ASSUME NEW w \in Workers, NEW h \in Hyps, NEW payload \in Payloads, SaveRead(w, h, payload)
      PROVE  GoodBodies'
  BY <1>0, <1>5, GoodUpdate DEF SaveRead
<1>6. ASSUME NEW w \in Workers, NEW note \in Notes, Edit(w, note)
      PROVE  GoodBodies'
  <2> DEFINE b == [mem[w].body EXCEPT !.note = note]
  <2>1. mem[w] \in Objects /\ mem[w].body \in Dumps
    BY <1>0, <1>6 DEF Edit, TypeOK, Objects
  <2>2. b.reopen_count = mem[w].body.reopen_count /\ b.ladder = mem[w].body.ladder
    BY <2>1 DEF Dumps
  <2>3. /\ rows' = rows
        /\ \A v \in Workers : mem'[v] = mem[v] \/ (mem'[v].id = mem[w].id /\ mem'[v].body = b)
    BY <1>0, <1>6 DEF Edit, TypeOK
  <2> HIDE DEF b
  <2>4. CountOf(b) = CountOf(mem[w].body) /\ LadderOf(b) = LadderOf(mem[w].body)
    BY <2>2 DEF CountOf, LadderOf
  <2>5. GoodIn(events', mem[w].id, b)
    BY <1>0, <1>6, <2>4, GoodDepends, GoodStays DEF Edit, GoodBodies
  <2> QED
    BY <1>0, <2>3, <2>5, GoodUpdate
<1>7. ASSUME NEW w \in Workers, NEW token \in Callers, NEW new_state \in HState,
             NEW evidence \in Evidences, transition_hypothesis(w, token, new_state, evidence)
      PROVE  GoodBodies'
  <2> DEFINE h       == mem[w].id
             payload == Transitioned(mem[w].body, new_state)
             body    == redact_payload(payload)
  <2>1. GoodIn(events', h, payload)
    BY <1>0, <1>7, TransitionGood
  <2>2. payload \in Bodies
    BY <1>0, <1>7, TransitionedType DEF transition_hypothesis, TypeOK, Objects
  <2>3. GoodIn(events', h, body)
    BY <2>1, <2>2, RedactionGood
  <2>4. /\ rows' = [rows EXCEPT ![h] = RowOf(new_state, column(payload.lens), body, NextEventId)]
        /\ mem' = [mem EXCEPT ![w] = [id |-> h, body |-> payload]]
        /\ saving' = saving
    BY <1>7 DEF transition_hypothesis, UpdateRow
  <2> HIDE DEF h, payload, body
  <2>5. \A g \in Hyps : rows'[g] = rows[g] \/ (g = h /\ rows'[g].body = body)
    BY <1>0, <2>4 DEF TypeOK, RowOf
  <2>6. \A v \in Workers : mem'[v] = mem[v] \/ (mem'[v].id = h /\ mem'[v].body = payload)
    BY <1>0, <2>4 DEF TypeOK
  <2> QED
    BY <1>0, <2>1, <2>3, <2>4, <2>5, <2>6, GoodUpdate
<1>8. ASSUME NEW w \in Workers, NEW token \in Callers, NEW proof \in Proofs,
             award_ladder(w, token, proof)
      PROVE  GoodBodies'
  <2> DEFINE h       == mem[w].id
             payload == [mem[w].body EXCEPT !.ladder = award(mem[w].body.ladder, proof)]
             body    == redact_payload(payload)
  <2>1. mem[w].body \in Dumps /\ GoodIn(events, h, mem[w].body)
    BY <1>0, <1>8 DEF award_ladder, TypeOK, Objects, GoodBodies
  <2>2. payload \in Bodies
    BY <2>1, AwardedType
  <2>3. GoodIn(events, h, payload)
    BY <1>8, <2>1, AwardGood DEF award_ladder
  <2>5. /\ rows' = [rows EXCEPT ![h] = RowOf(rows[h].state, rows[h].lens, body, NextEventId)]
        /\ mem' = [mem EXCEPT ![w] = [id |-> h, body |-> payload]]
        /\ saving' = saving
    BY <1>8 DEF award_ladder, UpdateRow
  <2> HIDE DEF h, payload, body
  <2>7. GoodIn(events', h, payload) /\ GoodIn(events', h, body)
    BY <1>0, <2>2, <2>3, GoodStays, RedactionGood DEF body
  <2>8. \A g \in Hyps : rows'[g] = rows[g] \/ (g = h /\ rows'[g].body = body)
    BY <1>0, <2>5 DEF TypeOK, RowOf
  <2>9. \A v \in Workers : mem'[v] = mem[v] \/ (mem'[v].id = h /\ mem'[v].body = payload)
    BY <1>0, <2>5 DEF TypeOK
  <2> QED
    BY <1>0, <2>5, <2>7, <2>8, <2>9, GoodUpdate
<1>9. ASSUME NEW w \in Workers, SaveCommit(w)
      PROVE  GoodBodies'
  <2> DEFINE s == saving[w]
  <2>1. s \in Saves /\ s.id \in Hyps /\ s.data \in Bodies
    BY <1>0, <1>9 DEF SaveCommit, TypeOK, Saves
  <2>2. mem' = mem
    BY <1>9 DEF SaveCommit
  <2>3. CASE ~s.existing
    BY <1>0, <1>9, <2>1, <2>2, <2>3, CreateGood DEF SaveCommit
  <2>4. CASE s.existing
    <3>1. /\ events' = Append(events, SaveEvent(s))
          /\ rows' = [rows EXCEPT ![s.id] = SavedRow(s)]
      BY <1>9, <2>4 DEF SaveCommit, UpdateRow
    <3>2. SaveEvent(s) \in Events
      BY <2>1, RecordEventType DEF SaveEvent, EventKinds
    <3>3. /\ SaveEvent(s).snapshot = redact_payload(s.data)
          /\ SaveEvent(s).kind = "hyp_updated" /\ SaveEvent(s).entity_id = s.id
      BY DEF SaveEvent, record_event
    <3>4. SavedRow(s).body = s.data
      BY DEF SavedRow, RowOf
    <3> HIDE DEF s
    <3>5. redact_payload(s.data) # Nil
      BY <2>1, RedactionTypes, NilAssumption
    <3>6. GoodIn(events', s.id, s.data)
      BY <1>0, <2>1, <3>1, <3>2, <3>3, <3>5, RedactionKeeps, CallerGood DEF CallerKinds, TypeOK
    <3>7. \A g \in Hyps : rows'[g] = rows[g] \/ (g = s.id /\ rows'[g].body = s.data)
      BY <1>0, <3>1, <3>4 DEF TypeOK
    <3> QED
      BY <1>0, <2>2, <3>6, <3>7, GoodUpdate
  <2> QED
    BY <2>3, <2>4
<1>10. ASSUME NEW w \in Workers, SaveAbort(w) \/ Crash(w)
       PROVE  GoodBodies'
  <2>1. /\ rows' = rows
        /\ \A v \in Workers : mem'[v] = mem[v] \/ mem'[v] = Nil
    BY <1>0, <1>10 DEF SaveAbort, Crash, TypeOK
  <2> QED
    BY <1>0, <2>1, GoodUpdate
<1> QED
  BY <1>1, <1>2, <1>3, <1>4, <1>5, <1>6, <1>7, <1>8, <1>9, <1>10 DEF Next

(* All copies of all bodies are good, always. *)
LEMMA GoodInvariant == Spec => []GoodBodies
<1>1. Init => GoodBodies
  BY DEF Init, GoodBodies
<1> QED
  BY <1>1, GoodStep, TypeInvariant, PTL DEF Spec

(***************************************************************************)
(* The ladders that the log records.                                       *)
(***************************************************************************)

(* Appending an event that carries no snapshot, a caller's payload or a *)
(* ladder the log already accounts for keeps every recorded ladder so.  *)
LEMMA SupportedAppend ==
  ASSUME LadderSupported, NEW e \in Events, NEW n \in Events, NEW more,
         events \in Seq(Events), more = <<>> \/ more = <<n>>, n.snapshot = Nil,
         events' = Append(events, e) \o more,
         \/ e.snapshot = Nil
         \/ e.kind \in CallerKinds
         \/ LadderIn(events, e.entity_id, LadderOf(e.snapshot))
  PROVE  LadderSupported'
<1>1. GrownBy(events, events', e, n)
  BY LogGrowth
<1>2. /\ Len(events) \in Nat /\ Len(events') \in Nat /\ Len(events') >= Len(events) + 1
      /\ \A k \in 1..Len(events) : events'[k] = events[k]
      /\ events'[Len(events) + 1] = e
      /\ \A k \in 1..Len(events') :
           k \in 1..Len(events) \/ k = Len(events) + 1 \/ (k = Len(events) + 2 /\ events'[k] = n)
  BY <1>1 DEF GrownBy
<1>3. \A h : \A i \in SnapshotsOf(h) :
        i \in 1..Len(events) /\ i \in SnapshotsOf(h)' /\ events'[i] = events[i]
  BY <1>2 DEF SnapshotsOf, EventIds
<1> SUFFICES ASSUME NEW h \in Hyps, NEW axis \in AXES, NEW k \in SnapshotsOf(h)',
                    Unsupported(events'[k].snapshot, axis)
             PROVE  \E i \in SnapshotsOf(h)' :
                      /\ i <= k /\ events'[i].kind \in CallerKinds
                      /\ Unsupported(events'[i].snapshot, axis)
                      /\ LadderOf(events'[i].snapshot)[axis] = LadderOf(events'[k].snapshot)[axis]
  BY DEF LadderSupported
<1>4. k \in 1..Len(events') /\ events'[k].entity_id = h /\ events'[k].snapshot # Nil
  BY DEF SnapshotsOf, EventIds
<1>5. CASE k \in 1..Len(events)
  <2>1. k \in SnapshotsOf(h) /\ events'[k] = events[k]
    BY <1>2, <1>4, <1>5 DEF SnapshotsOf, EventIds
  <2>2. PICK i \in SnapshotsOf(h) :
          /\ i <= k /\ events[i].kind \in CallerKinds
          /\ Unsupported(events[i].snapshot, axis)
          /\ LadderOf(events[i].snapshot)[axis] = LadderOf(events[k].snapshot)[axis]
    BY <2>1 DEF LadderSupported
  <2> QED
    BY <1>3, <2>1, <2>2
<1>6. CASE k = Len(events) + 1
  <2>1. events'[k] = e
    BY <1>2, <1>6
  <2>2. CASE e.kind \in CallerKinds
    BY <1>4, <1>6, <2>1, <2>2
  <2>3. CASE LadderIn(events, e.entity_id, LadderOf(e.snapshot))
    <3>1. PutBy(events, h, axis, LadderOf(e.snapshot)[axis])
      BY <1>4, <2>1, <2>3 DEF LadderIn, Unsupported, Rests
    <3>2. PICK i \in 1..Len(events) :
            /\ events[i].entity_id = h /\ events[i].snapshot # Nil
            /\ events[i].kind \in CallerKinds
            /\ ~ Rests(LadderOf(events[i].snapshot), axis)
            /\ LadderOf(events[i].snapshot)[axis] = LadderOf(e.snapshot)[axis]
      BY <3>1 DEF PutBy
    <3>3. i \in SnapshotsOf(h)
      BY <3>2 DEF SnapshotsOf, EventIds
    <3>4. i <= k
      BY <1>2, <1>6
    <3>5. Unsupported(events'[i].snapshot, axis)
      BY <1>3, <3>2, <3>3 DEF Unsupported, Rests
    <3> QED
      BY <1>3, <2>1, <3>2, <3>3, <3>4, <3>5
  <2> QED
    BY <1>4, <2>1, <2>2, <2>3
<1>7. CASE k = Len(events) + 2 /\ events'[k] = n
  BY <1>4, <1>7
<1> QED
  BY <1>2, <1>4, <1>5, <1>6, <1>7

(* Every step keeps the recorded ladders accounted for. *)
LEMMA SupportedStep == TypeInv /\ GoodBodies /\ LadderSupported /\ [Next]_vars => LadderSupported'
<1> SUFFICES ASSUME TypeInv, GoodBodies, LadderSupported, [Next]_vars PROVE LadderSupported'
  OBVIOUS
<1> DEFINE n(h) == BareEvent("reopen_threshold_exceeded", h)
<1>0. TypeOK /\ events \in Seq(Events)
      /\ \A h \in Hyps : n(h) \in Events /\ n(h).snapshot = Nil
  BY BareEventType DEF TypeInv, TypeOK, BareEvent, EventKinds, NoticeKinds
<1> HIDE DEF n
<1>1. ASSUME events' = events PROVE LadderSupported'
  BY <1>1 DEF LadderSupported, SnapshotsOf, EventIds
<1>2. ASSUME NEW h \in Hyps, NEW e \in Events, events' = Append(events, e),
             \/ e.snapshot = Nil
             \/ e.kind \in CallerKinds
             \/ LadderIn(events, e.entity_id, LadderOf(e.snapshot))
      PROVE  LadderSupported'
  <2>1. events' = Append(events, e) \o <<>>
    BY <1>0, <1>2
  <2> QED
    BY <1>0, <1>2, <2>1, SupportedAppend
<1>3. ASSUME NEW h \in Hyps, NEW data \in Bodies, CreateTxn(h, data) PROVE LadderSupported'
  <2> DEFINE e == record_event("hyp_created", h, Nil, Nil, {}, data, data)
  <2>1. e \in Events
    BY RecordEventType DEF EventKinds
  <2>2. events' = Append(events, e) /\ e.kind = "hyp_created"
    BY <1>3 DEF CreateTxn, record_event
  <2> HIDE DEF e
  <2> QED
    BY <1>2, <2>1, <2>2 DEF CallerKinds
<1>4. ASSUME NEW h \in Hyps, NEW payload \in Creations, create_hypothesis(h, payload)
      PROVE  LadderSupported'
  <2>1. redact_payload(NewBody(payload)) \in Bodies
    BY NewBodyType, RedactionTypes, ConstantsAssumption
  <2> QED
    BY <1>3, <1>4, <2>1 DEF create_hypothesis
<1>5. ASSUME NEW h \in Hyps, NEW kind \in Emitted, emit(h, kind)
      PROVE  LadderSupported'
  <2>1. BareEvent(kind, h) \in Events /\ BareEvent(kind, h).snapshot = Nil
    BY BareEventType, ConstantsAssumption DEF BareEvent, EventKinds
  <2>2. events' = Append(events, BareEvent(kind, h))
    BY <1>5 DEF emit
  <2> QED
    BY <1>2, <2>1, <2>2
<1>6. ASSUME NEW w \in Workers, NEW token \in Callers, NEW new_state \in HState,
             NEW evidence \in Evidences, transition_hypothesis(w, token, new_state, evidence)
      PROVE  LadderSupported'
  <2> DEFINE h       == mem[w].id
             old     == mem[w].body
             payload == Transitioned(old, new_state)
             body    == redact_payload(payload)
             e       == record_event("hyp_transition", h, old.state, new_state, evidence, payload, body)
             more    == ThresholdEvents(h, old.state, payload)
  <2>1. h \in Hyps /\ old \in Dumps /\ GoodIn(events, h, old)
    BY <1>0, <1>6 DEF transition_hypothesis, TypeOK, Objects, GoodBodies
  <2>2. payload \in Dumps /\ payload \in Bodies /\ body \in Bodies
    BY <2>1, TransitionedType, RedactionTypes
  <2>3. payload.ladder = old.ladder
    BY <2>1 DEF Transitioned, Dumps
  <2>4. e.snapshot = redact_payload(payload) /\ e.entity_id = h
    BY DEF record_event
  <2>5. old.state \in HState /\ evidence \in SUBSET Prefixes
    BY <2>1, ConstantsAssumption DEF Dumps
  <2>6. events' = Append(events, e) \o more
    BY <1>6 DEF transition_hypothesis
  <2>7. more = <<>> \/ more = <<n(h)>>
    BY DEF ThresholdEvents, n
  <2> HIDE DEF payload, body
  <2>8. e \in Events
    BY <2>1, <2>2, <2>5, RecordEventType DEF EventKinds
  <2>9. LadderOf(e.snapshot) = LadderOf(old)
    BY <2>1, <2>2, <2>3, <2>4, DumpShows, RedactionKeeps
  <2> HIDE DEF h, old, e, more
  <2>10. LadderIn(events, e.entity_id, LadderOf(e.snapshot))
    BY <2>1, <2>4, <2>9 DEF GoodIn
  <2> QED
    BY <1>0, <2>1, <2>6, <2>7, <2>8, <2>10, SupportedAppend
<1>7. ASSUME NEW w \in Workers, NEW token \in Callers, NEW proof \in Proofs,
             award_ladder(w, token, proof)
      PROVE  LadderSupported'
  <2> DEFINE h       == mem[w].id
             payload == [mem[w].body EXCEPT !.ladder = award(mem[w].body.ladder, proof)]
             body    == redact_payload(payload)
             e       == record_event("hyp_ladder_award", h, Nil, Nil, {}, payload, body)
  <2>1. h \in Hyps /\ mem[w].body \in Dumps /\ GoodIn(events, h, mem[w].body)
    BY <1>0, <1>7 DEF award_ladder, TypeOK, Objects, GoodBodies
  <2>2. payload \in Bodies /\ body \in Bodies
    BY <2>1, AwardedType, RedactionTypes
  <2>3. GoodIn(events, h, payload)
    BY <1>7, <2>1, AwardGood DEF award_ladder
  <2>4. e.snapshot = redact_payload(payload) /\ e.entity_id = h
    BY DEF record_event
  <2>5. events' = Append(events, e)
    BY <1>7 DEF award_ladder
  <2> HIDE DEF payload, body
  <2>6. e \in Events
    BY <2>1, <2>2, RecordEventType DEF EventKinds
  <2> HIDE DEF h, e
  <2>7. LadderIn(events, e.entity_id, LadderOf(e.snapshot))
    BY <2>2, <2>3, <2>4, RedactionKeeps DEF GoodIn
  <2> QED
    BY <1>2, <2>1, <2>5, <2>6, <2>7
<1>8. ASSUME NEW w \in Workers, SaveCommit(w)
      PROVE  LadderSupported'
  <2> DEFINE s == saving[w]
  <2>1. s.id \in Hyps /\ s.data \in Bodies
    BY <1>0, <1>8 DEF SaveCommit, TypeOK, Saves
  <2>2. CASE ~s.existing
    BY <1>3, <1>8, <2>1, <2>2 DEF SaveCommit
  <2>3. CASE s.existing
    <3>1. events' = Append(events, SaveEvent(s))
      BY <1>8, <2>3 DEF SaveCommit
    <3>2. SaveEvent(s) \in Events /\ SaveEvent(s).kind = "hyp_updated"
      BY <2>1, RecordEventType DEF SaveEvent, EventKinds, record_event
    <3> HIDE DEF s
    <3> QED
      BY <1>2, <2>1, <3>1, <3>2 DEF CallerKinds
  <2> QED
    BY <2>2, <2>3
<1>9. ASSUME NEW w \in Workers,
             \/ \E h \in Hyps : Load(w, h) \/ \E payload \in Payloads : SaveRead(w, h, payload)
             \/ \E note \in Notes : Edit(w, note)
             \/ SaveAbort(w)
             \/ Crash(w)
      PROVE  LadderSupported'
  BY <1>1, <1>9 DEF Load, SaveRead, Edit, SaveAbort, Crash
<1>10. CASE UNCHANGED vars
  BY <1>1, <1>10 DEF vars
<1> QED
  BY <1>4, <1>5, <1>6, <1>7, <1>8, <1>9, <1>10 DEF Next

(* Stale copies may lower a stored ladder, but an award or a transition never *)
(* leaves a level without the levels its award demands: only a level that a   *)
(* caller's own payload put there stands without them.                        *)
THEOREM LadderTheorem == Spec => []LadderSupported
<1>1. Init => LadderSupported
  BY DEF Init, LadderSupported, SnapshotsOf, EventIds
<1> QED
  BY <1>1, SupportedStep, TypeInvariant, GoodInvariant, PTL DEF Spec

(* A stored reopen count past the threshold has its notice in the log, or came *)
(* there in a caller's payload, whichever stale copy the count came from.      *)
THEOREM ThresholdTheorem == Spec => []ThresholdAnnounced
<1>1. GoodBodies => ThresholdAnnounced
  BY DEF GoodBodies, GoodIn, CountIn, AnnouncedIn, ThresholdAnnounced, EventIds
<1> QED
  BY <1>1, GoodInvariant, PTL

==============================================================================
