--------------------------- MODULE HypothesisStore ---------------------------
(***************************************************************************)
(* The hypotheses of core/store.py: an append-only event log and one row   *)
(* per hypothesis, written by workers that act on copies they read before. *)
(*                                                                         *)
(* Every write is one SQLite transaction (Store.submit): an event carrying *)
(* a snapshot is appended, then the row is written, and the triggers of    *)
(* the schema may abort the statement, which rolls both back.  A call that *)
(* raises leaves the database as it was, so a rejected call is a step that *)
(* changes nothing and is not written out, except where the worker's own   *)
(* progress changes (SaveAbort).  Reads happen outside the transactions:   *)
(* a Hypothesis object lives in a worker (mem) for as long as it likes,    *)
(* and Store.save reads the row first and writes it later (saving).        *)
(***************************************************************************)
EXTENDS Lifecycle, Ladder, Redaction, Sequences, FiniteSets

CONSTANTS
  Hyps,        \* hypothesis ids
  Workers,     \* threads or processes that use the store
  Lenses,      \* values of the indexed columns lens, protocol_type, prior_p
  Notes,       \* classes of the free-text fields of a body, see redact
  Evidences,   \* evidence lists a caller may pass
  Callers,     \* tokens a caller may hold
  Proofs,      \* ladder proofs a caller may pass
  Creations,   \* payloads a caller may create a hypothesis from
  Payloads,    \* payloads a caller may save
  Emitted,     \* kinds of event a caller may emit on its own
  MaxEvents,   \* bound on the length of the event log
  Nil,         \* no row, no object, no snapshot
  None,        \* Python's None: JSON's null, SQL's NULL
  Absent       \* a key that a dict does not have

(* A value a dict holds under a key, or what stands when the key is missing. *)
Given(default, value) == IF value = Absent THEN default ELSE value

(* data.get("lens"), as a column of the row. *)
column(lens) == Given(None, lens)

(* The free text of a body stands for all its text; see Redaction. *)
redact_payload(body) == [body EXCEPT !.note = redact(body.note)]

(* record_event redacts the row snapshot too, whose body is a JSON string. *)
redact_json(body) == [body EXCEPT !.note = redact_dumped(body.note)]

(* What a caller passes to create_hypothesis or save, its state aside: any  *)
(* key may be missing.  A body is what was stored of such payloads.          *)
Documents == [lens : Lenses \cup {None, Absent}, reopen_count : Nat \cup {Absent},
              ladder : Ladders \cup {Absent}, note : NoteClasses \cup {Absent}]

Bodies == [state : HState, lens : Lenses \cup {None, Absent}, reopen_count : Nat \cup {Absent},
           ladder : Ladders \cup {Absent}, note : NoteClasses \cup {Absent}]

(* model_dump of a Hypothesis object has every key. *)
Dumps == [state : HState, lens : Lenses \cup {None}, reopen_count : Nat, ladder : Ladders,
          note : NoteClasses]

Columns == Lenses \cup {None}

Rows == [state : HState, lens : Columns, body : Bodies, last_event_id : Nat]

(* Kinds that only announce something, and kinds that come with a row. *)
NoticeKinds == {"reopen_threshold_exceeded", "hyp_reopened"}

EventKinds ==
  {"hyp_created", "hyp_updated", "hyp_transition", "hyp_ladder_award"} \cup NoticeKinds

RowSnapshots == [state : HState, lens : Columns, body : Bodies]

Events == [kind : EventKinds, entity_id : Hyps, from : HState \cup {Nil}, to : HState \cup {Nil},
           evidence : SUBSET Prefixes, snapshot : Bodies \cup {Nil},
           row_snapshot : RowSnapshots \cup {Nil}]

ASSUME ConstantsAssumption ==
  /\ Notes \subseteq NoteClasses
  /\ Evidences \subseteq SUBSET Prefixes
  /\ Callers \subseteq Tokens
  /\ \A p \in Proofs : p.axis \in AXES /\ p.level \in Levels
  /\ Creations \subseteq Documents
  /\ Payloads \subseteq Documents
  /\ Emitted \subseteq NoticeKinds
  /\ MaxEvents \in Nat

ASSUME NilAssumption ==
  Nil \notin Hyps /\ Nil \notin HState /\ Nil \notin Bodies /\ Nil \notin Rows
    /\ Nil \notin RowSnapshots

ASSUME AbsentAssumption ==
  Absent \notin Nat /\ Absent \notin Ladders /\ Absent \notin NoteClasses
    /\ Absent \notin Lenses /\ Absent # None /\ None \notin Lenses

VARIABLES
  events,      \* the events table, in id order
  rows,        \* the hypotheses table
  mem,         \* per worker, the Hypothesis object it holds
  saving       \* per worker, the call of save between its read and its write

vars == <<events, rows, mem, saving>>

Objects == [id : Hyps, body : Dumps]

(* existing is the row save read, or Nil; data the body it will write. *)
Saves == [id : Hyps, existing : BOOLEAN, data : Bodies]

TypeOK ==
  /\ events \in Seq(Events)
  /\ rows \in [Hyps -> Rows \cup {Nil}]
  /\ mem \in [Workers -> Objects \cup {Nil}]
  /\ saving \in [Workers -> Saves \cup {Nil}]

Init ==
  /\ events = <<>>
  /\ rows = [h \in Hyps |-> Nil]
  /\ mem = [w \in Workers |-> Nil]
  /\ saving = [w \in Workers |-> Nil]

------------------------------------------------------------------------------
(***************************************************************************)
(* Events, snapshots and triggers.                                         *)
(***************************************************************************)

NextEventId == Len(events) + 1

(* The row a write would leave: columns beside the JSON body. *)
RowOf(state, lens, body, id) ==
  [state |-> state, lens |-> lens, body |-> body, last_event_id |-> id]

(* _hypothesis_row_snapshot(payload, body) *)
row_snapshot(payload, body) ==
  [state |-> payload.state, lens |-> column(payload.lens), body |-> body]

(* record_event: the payload is redacted once more as a whole. *)
record_eventUnredacted(kind, h, from, to, evidence, payload, body) ==
  [kind |-> kind, entity_id |-> h, from |-> from, to |-> to, evidence |-> evidence,
   snapshot |-> payload,
   row_snapshot |-> row_snapshot(payload, redact_json(body))]

record_event(kind, h, from, to, evidence, payload, body) ==
  [kind |-> kind, entity_id |-> h, from |-> from, to |-> to, evidence |-> evidence,
   snapshot |-> redact_payload(payload),
   row_snapshot |-> row_snapshot(payload, redact_json(body))]

(* An event whose payload carries no snapshot. *)
BareEvent(kind, h) ==
  [kind |-> kind, entity_id |-> h, from |-> Nil, to |-> Nil, evidence |-> {},
   snapshot |-> Nil, row_snapshot |-> Nil]

SnapshotMatches(new, e) ==
  e.row_snapshot = [state |-> new.state, lens |-> new.lens, body |-> new.body]

hyp_insert_event_guard(new, e) ==
  /\ new.state = "OPEN"
  /\ e.kind = "hyp_created"
  /\ SnapshotMatches(new, e)

hyp_update_event_guardNewerOnly(old, new, e) == new.last_event_id > old.last_event_id

hyp_update_event_guard(old, new, e) ==
  /\ new.last_event_id > old.last_event_id
  /\ e.kind \in {"hyp_updated", "hyp_transition", "hyp_ladder_award"}
  /\ SnapshotMatches(new, e)

hyp_state_guard(old, new, e) ==
  old.state # new.state =>
    /\ new.state \in LEGAL_TRANSITIONS[old.state]
    /\ e.kind = "hyp_transition" /\ e.from = old.state /\ e.to = new.state

(* INSERT and UPDATE as the triggers let them through. *)
InsertRow(h, new, e) ==
  /\ rows[h] = Nil
  /\ hyp_insert_event_guard(new, e)
  /\ rows' = [rows EXCEPT ![h] = new]

UpdateRow(h, new, e) ==
  /\ hyp_update_event_guard(rows[h], new, e)
  /\ hyp_state_guard(rows[h], new, e)
  /\ rows' = [rows EXCEPT ![h] = new]

(* Store.get for a hypothesis: the body, overlaid with the columns, which adds *)
(* the keys that the body lacks.                                               *)
get(h) == [rows[h].body EXCEPT !.state = rows[h].state, !.lens = rows[h].lens]

------------------------------------------------------------------------------
(***************************************************************************)
(* create_hypothesis(payload): a first event and the row it describes.     *)
(***************************************************************************)
NewBody(payload) ==
  [state |-> "OPEN", lens |-> payload.lens, reopen_count |-> payload.reopen_count,
   ladder |-> payload.ladder, note |-> payload.note]

CreateTxn(h, data) ==
  LET e == record_event("hyp_created", h, Nil, Nil, {}, data, data)
  IN  /\ Len(events) < MaxEvents
      /\ InsertRow(h, RowOf("OPEN", column(data.lens), data, NextEventId), e)
      /\ events' = Append(events, e)

create_hypothesis(h, payload) ==
  /\ CreateTxn(h, redact_payload(NewBody(payload)))
  /\ UNCHANGED <<mem, saving>>

(* What a Hypothesis object has for the keys its row lacks. *)
LadderOf(body) == Given(EmptyLadder, body.ladder)

CountOf(body) == Given(0, body.reopen_count)

Hypothesis(data) ==
  [state |-> data.state, lens |-> data.lens, reopen_count |-> CountOf(data),
   ladder |-> LadderOf(data), note |-> data.note]

(* A worker builds a Hypothesis object from Store.get; without its texts, among *)
(* them the claim, the constructor raises.                                      *)
Load(w, h) ==
  /\ rows[h] # Nil /\ rows[h].body.note # Absent
  /\ mem' = [mem EXCEPT ![w] = [id |-> h, body |-> Hypothesis(get(h))]]
  /\ UNCHANGED <<events, rows, saving>>

(* The holder of the object assigns one of its descriptive fields. *)
Edit(w, note) ==
  /\ mem[w] # Nil
  /\ mem' = [mem EXCEPT ![w] = [id |-> mem[w].id, body |-> [mem[w].body EXCEPT !.note = note]]]
  /\ UNCHANGED <<events, rows, saving>>

(***************************************************************************)
(* transition_hypothesis: validated on the object, written if the stored   *)
(* state is still the object's; the object's whole body replaces the row's.*)
(***************************************************************************)
IsReopen(old_state, new_state) ==
  old_state \in {"CLOSED", "CLOSED_DUPLICATE", "MERGED"} /\ new_state = "INVESTIGATING"

TransitionedDown(body, new_state) ==
  [body EXCEPT !.state = new_state,
               !.reopen_count = IF IsReopen(body.state, new_state) THEN @ - 1 ELSE @]

Transitioned(body, new_state) ==
  [body EXCEPT !.state = new_state,
               !.reopen_count = IF IsReopen(body.state, new_state) THEN @ + 1 ELSE @]

ThresholdEventsLate(h, old_state, payload) ==
  IF IsReopen(old_state, payload.state) /\ payload.reopen_count = 4
  THEN <<BareEvent("reopen_threshold_exceeded", h)>>
  ELSE <<>>

ThresholdEvents(h, old_state, payload) ==
  IF IsReopen(old_state, payload.state) /\ payload.reopen_count = 3
  THEN <<BareEvent("reopen_threshold_exceeded", h)>>
  ELSE <<>>

StillStored(h, state) == rows[h] # Nil

StillInState(h, state) == rows[h] # Nil /\ rows[h].state = state

transition_hypothesis(w, token, new_state, evidence) ==
  LET h       == mem[w].id
      payload == Transitioned(mem[w].body, new_state)
      body    == redact_payload(payload)
      e       == record_event("hyp_transition", h, mem[w].body.state, new_state, evidence, payload, body)
      more    == ThresholdEvents(h, mem[w].body.state, payload)
  IN  /\ mem[w] # Nil
      /\ validate_transition(token, mem[w].body, new_state, TRUE, evidence)
      /\ StillInState(h, mem[w].body.state)
      /\ Len(events) + 1 + Len(more) <= MaxEvents
      /\ events' = Append(events, e) \o more
      /\ UpdateRow(h, RowOf(new_state, column(payload.lens), body, NextEventId), e)
      /\ mem' = [mem EXCEPT ![w] = [id |-> h, body |-> payload]]
      /\ UNCHANGED saving

(***************************************************************************)
(* award_ladder: the award is validated on the object; the body is written *)
(* and the columns are left as they are in the row.                        *)
(***************************************************************************)
award_ladder(w, token, proof) ==
  LET h       == mem[w].id
      payload == [mem[w].body EXCEPT !.ladder = award(mem[w].body.ladder, proof)]
      body    == redact_payload(payload)
      e       == record_event("hyp_ladder_award", h, Nil, Nil, {}, payload, body)
  IN  /\ mem[w] # Nil
      /\ validate_award(is_valid(token), mem[w].body, proof)
      /\ rows[h] # Nil /\ rows[h].body.state = payload.state
      /\ Len(events) < MaxEvents
      /\ events' = Append(events, e)
      /\ UpdateRow(h, RowOf(rows[h].state, rows[h].lens, body, NextEventId), e)
      /\ mem' = [mem EXCEPT ![w] = [id |-> h, body |-> payload]]
      /\ UNCHANGED saving

(***************************************************************************)
(* save("hypothesis", h, payload).  SaveRead is _fetch_optional and the    *)
(* merge of the payload into the body read; SaveCommit the transaction;    *)
(* SaveAbort the transaction the triggers or the primary key refuse.       *)
(***************************************************************************)
Merged(body, payload, state) ==
  [state        |-> state,
   lens         |-> Given(body.lens, payload.lens),
   reopen_count |-> Given(body.reopen_count, payload.reopen_count),
   ladder       |-> Given(body.ladder, payload.ladder),
   note         |-> Given(body.note, payload.note)]

SaveRead(w, h, payload) ==
  /\ saving[w] = Nil
  /\ saving' = [saving EXCEPT ![w] =
       [id |-> h, existing |-> rows[h] # Nil,
        data |-> redact_payload(IF rows[h] = Nil THEN NewBody(payload)
                                ELSE Merged(rows[h].body, payload, rows[h].state))]]
  /\ UNCHANGED <<events, rows, mem>>

SaveEvent(s) == record_event("hyp_updated", s.id, Nil, Nil, {}, s.data, s.data)

SavedRow(s) == RowOf(rows[s.id].state, column(s.data.lens), s.data, NextEventId)

SaveCommit(w) ==
  LET s == saving[w]
  IN  /\ s # Nil
      /\ \/ /\ ~s.existing
            /\ CreateTxn(s.id, s.data)
         \/ /\ s.existing
            /\ Len(events) < MaxEvents
            /\ UpdateRow(s.id, SavedRow(s), SaveEvent(s))
            /\ events' = Append(events, SaveEvent(s))
      /\ saving' = [saving EXCEPT ![w] = Nil]
      /\ UNCHANGED mem

SaveAborts(w) ==
  LET s == saving[w]
  IN  IF s.existing
      THEN ~ hyp_update_event_guard(rows[s.id], SavedRow(s), SaveEvent(s))
      ELSE \/ rows[s.id] # Nil
           \/ ~ hyp_insert_event_guard(RowOf("OPEN", column(s.data.lens), s.data, NextEventId),
                  record_event("hyp_created", s.id, Nil, Nil, {}, s.data, s.data))

SaveAbortKeepsEvent(w) ==
  /\ saving[w] # Nil
  /\ SaveAborts(w)
  /\ Len(events) < MaxEvents
  /\ saving' = [saving EXCEPT ![w] = Nil]
  /\ events' = Append(events, SaveEvent(saving[w]))
  /\ UNCHANGED <<rows, mem>>

SaveAbort(w) ==
  /\ saving[w] # Nil
  /\ SaveAborts(w)
  /\ saving' = [saving EXCEPT ![w] = Nil]
  /\ UNCHANGED <<events, rows, mem>>

(***************************************************************************)
(* events.emit for a hypothesis: any caller may append a notice on its own *)
(* (record_event); it carries no snapshot.                                 *)
(***************************************************************************)
emit(h, kind) ==
  /\ Len(events) < MaxEvents
  /\ events' = Append(events, BareEvent(kind, h))
  /\ UNCHANGED <<rows, mem, saving>>

(* A worker's process dies: what it held in memory is gone. *)
Crash(w) ==
  /\ mem[w] # Nil \/ saving[w] # Nil
  /\ mem' = [mem EXCEPT ![w] = Nil]
  /\ saving' = [saving EXCEPT ![w] = Nil]
  /\ UNCHANGED <<events, rows>>

Next ==
  \/ \E h \in Hyps : \/ \E payload \in Creations : create_hypothesis(h, payload)
                     \/ \E kind \in Emitted : emit(h, kind)
  \/ \E w \in Workers :
       \/ \E h \in Hyps : \/ Load(w, h)
                          \/ \E payload \in Payloads : SaveRead(w, h, payload)
       \/ \E note \in Notes : Edit(w, note)
       \/ \E token \in Callers :
            \/ \E new_state \in HState, evidence \in Evidences :
                 transition_hypothesis(w, token, new_state, evidence)
            \/ \E proof \in Proofs : award_ladder(w, token, proof)
       \/ SaveCommit(w)
       \/ SaveAbort(w)
       \/ Crash(w)

Spec == Init /\ [][Next]_vars

------------------------------------------------------------------------------
(***************************************************************************)
(* Reading the log.                                                        *)
(***************************************************************************)

EventIds == 1..Len(events)

SnapshotsOf(h) == {k \in EventIds : events[k].entity_id = h /\ events[k].snapshot # Nil}

MovesOf(h) == {k \in EventIds : events[k].entity_id = h /\ events[k].kind = "hyp_transition"}

Latest(ids) == CHOOSE k \in ids : \A other \in ids : other <= k

(* rebuild_hypothesis_from_events: the last snapshot the log holds. *)
rebuild_hypothesis_from_events(h) == events[Latest(SnapshotsOf(h))].snapshot

verify_hypothesis_rebuild(h) == rebuild_hypothesis_from_events(h) = get(h)

(***************************************************************************)
(* Safety.                                                                 *)
(***************************************************************************)

(* Replaying a hypothesis's events gives the stored body at every moment,    *)
(* whatever the interleaving of creates, saves, transitions and awards: no   *)
(* committed event without its row, no row without its event.  The code's    *)
(* own check of this, which compares the replay with Store.get, agrees       *)
(* exactly on the bodies that have the keys of the columns.                  *)
RebuildMatchesRow ==
  \A h \in Hyps : rows[h] # Nil =>
    /\ SnapshotsOf(h) # {}
    /\ rebuild_hypothesis_from_events(h) = rows[h].body
    /\ verify_hypothesis_rebuild(h) <=> rows[h].body.lens # Absent

(* The columns state and lens agree with the JSON body, although award_ladder *)
(* writes only the body and save writes no state column: a save racing a      *)
(* transition, or an award racing a save, is refused instead.                 *)
ColumnsMatchBody ==
  \A h \in Hyps : rows[h] # Nil =>
    rows[h].state = rows[h].body.state /\ rows[h].lens = column(rows[h].body.lens)

(* The recorded transitions of a hypothesis form one walk from OPEN to the    *)
(* stored state, each step starting where the previous one ended, although    *)
(* every transition is computed from a copy that may be stale.                *)
TransitionsFormWalk ==
  \A h \in Hyps :
    /\ rows[h] # Nil /\ MovesOf(h) = {} => rows[h].state = "OPEN"
    /\ \A k \in MovesOf(h) :
         LET before == {i \in MovesOf(h) : i < k}
         IN  events[k].from = IF before = {} THEN "OPEN" ELSE events[Latest(before)].to
    /\ MovesOf(h) # {} => rows[h] # Nil /\ rows[h].state = events[Latest(MovesOf(h))].to

(* A stored FINDING has, on its walk, an entry into CONFIRMED and later the   *)
(* entry into FINDING, each with every piece of evidence a reviewer of the    *)
(* finding relies on; it cannot be carried there by a stale copy, a save or   *)
(* an award.                                                                  *)
FindingHasItsEvidence ==
  LET Shown(k, clauses) == \A clause \in clauses : clause \cap events[k].evidence # {}
  IN  \A h \in Hyps : rows[h] # Nil /\ rows[h].state = "FINDING" =>
        \E i, k \in MovesOf(h) :
          /\ i < k
          /\ events[i].to = "CONFIRMED"
          /\ Shown(i, {{"execution_l5"}, {"run_receipt"}, {"witness_assertion"}, {"build_pass"},
                       {"ast_pass"}, {"trace_policy_pass"}, {"mechanism_l1"},
                       {"reachability_l2"}, {"economics_l5", "impact"}})
          /\ events[k].to = "FINDING"
          /\ Shown(k, {{"execution_l6"}, {"hard_verifier_pass"}, {"economics_l6", "impact"},
                       {"production_l7", "production:not_applicable"},
                       {"adjudication", "human_override"}})

(* create_hypothesis and save store what a caller passes, ladder and reopen   *)
(* count included; these are the events that record it.                       *)
CallerKinds == {"hyp_created", "hyp_updated"}

(* The level a body shows on an axis lacks one that PREDECESSORS names. *)
Unsupported(body, axis) ==
  ~ prerequisites_satisfied(LadderOf(body), axis, LadderOf(body)[axis])

(* A recorded level that stands without its prerequisites was put there by a  *)
(* caller's payload: an earlier create or save of that hypothesis recorded    *)
(* the same unsupported level.  Awards and transitions, each written from a   *)
(* whole copy that may be stale, never bring one about.                       *)
LadderSupported ==
  \A h \in Hyps, axis \in AXES : \A k \in SnapshotsOf(h) :
    Unsupported(events[k].snapshot, axis) =>
      \E i \in SnapshotsOf(h) :
        /\ i <= k /\ events[i].kind \in CallerKinds
        /\ Unsupported(events[i].snapshot, axis)
        /\ LadderOf(events[i].snapshot)[axis] = LadderOf(events[k].snapshot)[axis]

(* A stored reopen_count of three or more was announced by the event          *)
(* reopen_threshold_exceeded, or a caller's payload restored such a count:    *)
(* no sequence of reopenings on stale copies slips past the threshold.        *)
ThresholdAnnounced ==
  \A h \in Hyps : rows[h] # Nil /\ CountOf(rows[h].body) >= 3 =>
    \E k \in EventIds :
      /\ events[k].entity_id = h
      /\ \/ events[k].kind = "reopen_threshold_exceeded"
         \/ events[k].kind \in CallerKinds /\ CountOf(events[k].snapshot) >= 3

(* No secret reaches the database: not a row, not an event, although objects  *)
(* in memory and the payloads of callers do hold secrets.                     *)
NoSecretAtRest ==
  /\ \A h \in Hyps : rows[h] # Nil => rows[h].body.note # "secret"
  /\ \A k \in EventIds :
       /\ events[k].snapshot # Nil => events[k].snapshot.note # "secret"
       /\ events[k].row_snapshot # Nil => events[k].row_snapshot.body.note # "secret"

(* The store implements the plain lifecycle: one legal move per recorded      *)
(* transition, and no other change of state.                                  *)
Abstract == INSTANCE HypothesisLifecycle WITH
  status <- [h \in Hyps |-> IF rows[h] = Nil THEN "ABSENT" ELSE rows[h].state],
  moves  <- [h \in Hyps |-> Cardinality(MovesOf(h))]

ImplementsLifecycle == Abstract!LifecycleSpec

(***************************************************************************)
(* What the code's messages and tests promise and the code breaks.         *)
(***************************************************************************)

(* "ladder is monotonic: <axis> cannot move from L<m> to L<n>" of the stored  *)
(* ladder: no write of a hypothesis lowers a level already awarded.           *)
StoredLadderMonotonic ==
  [][\A h \in Hyps : rows[h] # Nil =>
       \A axis \in AXES : LadderOf(rows[h].body)[axis] >= 0 =>
         LadderOf(rows'[h].body)[axis] >= LadderOf(rows[h].body)[axis]]_rows

(* A stored hypothesis passes its own rebuild check, verify_hypothesis_rebuild. *)
EveryRowVerifies == \A h \in Hyps : rows[h] # Nil => verify_hypothesis_rebuild(h)

==============================================================================
