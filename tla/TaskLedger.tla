----------------------------- MODULE TaskLedger -----------------------------
(***************************************************************************)
(* core/tasks.py over the tasks table of core/store.py: work that is begun *)
(* once per idempotency key, by workers in several threads and processes.  *)
(*                                                                         *)
(* begin is four steps with other workers between them: look the key up,   *)
(* take a task id (a transaction of its own), insert the task (another),   *)
(* and, should the insert raise, look the key up again.  fail reads the    *)
(* task and saves it in two steps; finish and block_human are one          *)
(* transaction each.  A transaction that raises is rolled back.            *)
(***************************************************************************)
EXTENDS Redaction, Naturals, Sequences

CONSTANTS
  Keys,         \* idempotency keys, stripped and non-empty
  SecretKeys,   \* those that redaction would change
  Workers,      \* callers of the ledger
  Results,      \* classes of the results and reasons a caller may pass
  MaxId,        \* bound on the id counter
  MaxEvents,    \* bound on the length of the event log
  Nil           \* no row, no call, no result

TaskIds == 1..MaxId

Statuses == {"dispatched", "finished", "failed", "blocked_on_human"}

Rows == [key : Keys, status : Statuses, result : NoteClasses \cup {Nil}, last_event_id : Nat]

(* The columns an event's row_snapshot describes. *)
Snapshots == [key : Keys \cup {Nil}, status : Statuses, result : NoteClasses \cup {Nil}]

Events == [entity_id : TaskIds, entity_op : {"insert", "update"}, row_snapshot : Snapshots]

Calls ==
  [pc : {"next_id"}, key : Keys]
    \cup [pc : {"dispatch", "refind", "refind_busy"}, key : Keys, id : TaskIds]
    \cup [pc : {"fail"}, id : TaskIds, data : Rows]

ASSUME TaskConstants ==
  /\ SecretKeys \subseteq Keys
  /\ Results \subseteq NoteClasses
  /\ MaxId \in Nat /\ MaxEvents \in Nat
  /\ Nil \notin Rows /\ Nil \notin Calls /\ Nil \notin NoteClasses /\ Nil \notin Keys
  /\ Nil \notin TaskIds

VARIABLES
  tasks,     \* the tasks table
  events,    \* the task events, in id order
  counter,   \* id_counters, for the prefix T
  call,      \* per worker, the call of begin or fail it is in
  got        \* per worker, the key it last began and the task it was given

taskVars == <<tasks, events, counter, call, got>>

TaskTypeOK ==
  /\ tasks \in [TaskIds -> Rows \cup {Nil}]
  /\ events \in Seq(Events)
  /\ counter \in 1..(MaxId + 1)
  /\ call \in [Workers -> Calls \cup {Nil}]
  /\ got \in [Workers -> [key : Keys, id : TaskIds] \cup {Nil}]

TaskInit ==
  /\ tasks = [id \in TaskIds |-> Nil]
  /\ events = <<>>
  /\ counter = 1
  /\ call = [w \in Workers |-> Nil]
  /\ got = [w \in Workers |-> Nil]

------------------------------------------------------------------------------
(* find_task_by_key: the ids of the rows with that key. *)
find_task_by_key(key) == {id \in TaskIds : tasks[id] # Nil /\ tasks[id].key = key}

(* query_tasks(status="dispatched") *)
inflight == {id \in TaskIds : tasks[id] # Nil /\ tasks[id].status = "dispatched"}

Columns(row) == [key |-> row.key, status |-> row.status, result |-> row.result]

(* record_event of a row: key and result text pass redaction once more, the *)
(* result as the JSON text it was dumped to.                                *)
record_event(id, op, row) ==
  [entity_id |-> id, entity_op |-> op,
   row_snapshot |-> [key |-> IF row.key \in SecretKeys THEN Nil ELSE row.key,
                     status |-> row.status,
                     result |-> IF row.result = Nil THEN Nil ELSE redact_dumped(row.result)]]

(* tasks_insert_event_guard and tasks_update_event_guard, for the event just appended. *)
tasks_event_guard(row, e) == e.row_snapshot = Columns(row)

(* One transaction: the event, the row, and the trigger between them. *)
Write(id, op, row) ==
  LET e == record_event(id, op, row)
  IN  /\ Len(events) < MaxEvents
      /\ tasks_event_guard(row, e)
      /\ events' = Append(events, e)
      /\ tasks' = [tasks EXCEPT ![id] = [row EXCEPT !.last_event_id = Len(events) + 1]]

------------------------------------------------------------------------------
(***************************************************************************)
(* begin(key).                                                             *)
(***************************************************************************)
Answer(w, key) ==
  /\ \E id \in find_task_by_key(key) : got' = [got EXCEPT ![w] = [key |-> key, id |-> id]]
  /\ call' = [call EXCEPT ![w] = Nil]

Return(w) == call' = [call EXCEPT ![w] = Nil]

begin(w, key) ==
  /\ call[w] = Nil
  /\ \/ Answer(w, key)
     \/ /\ find_task_by_key(key) = {}
        /\ call' = [call EXCEPT ![w] = [pc |-> "next_id", key |-> key]]
        /\ UNCHANGED got
  /\ UNCHANGED <<tasks, events, counter>>

next_idReused(w) ==
  /\ call[w] # Nil /\ call[w].pc = "next_id"
  /\ counter <= MaxId
  /\ call' = [call EXCEPT ![w] = [pc |-> "dispatch", key |-> call[w].key, id |-> counter]]
  /\ UNCHANGED <<tasks, events, counter, got>>

next_id(w) ==
  /\ call[w] # Nil /\ call[w].pc = "next_id"
  /\ counter <= MaxId
  /\ counter' = counter + 1
  /\ call' = [call EXCEPT ![w] = [pc |-> "dispatch", key |-> call[w].key, id |-> counter]]
  /\ UNCHANGED <<tasks, events, got>>

DispatchedRowRunning(key) == [key |-> key, status |-> "running", result |-> Nil, last_event_id |-> 0]

DispatchedRow(key) == [key |-> key, status |-> "dispatched", result |-> Nil, last_event_id |-> 0]

(* What the primary key, the unique key and the trigger let in. *)
Insertable(id, key) ==
  /\ tasks[id] = Nil
  /\ find_task_by_key(key) = {}
  /\ tasks_event_guard(DispatchedRow(key), record_event(id, "insert", DispatchedRow(key)))

dispatch_task(w) ==
  LET c == call[w]
  IN  /\ c # Nil /\ c.pc = "dispatch"
      /\ Insertable(c.id, c.key)
      /\ Write(c.id, "insert", DispatchedRow(c.key))
      /\ got' = [got EXCEPT ![w] = [key |-> c.key, id |-> c.id]]
      /\ Return(w)
      /\ UNCHANGED counter

(* The insert raises, and the event before it is rolled back. *)
DispatchRefusedKeepsEvent(w) ==
  LET c == call[w]
  IN  /\ c # Nil /\ c.pc = "dispatch"
      /\ ~ Insertable(c.id, c.key)
      /\ Len(events) < MaxEvents
      /\ events' = Append(events, record_event(c.id, "insert", DispatchedRow(c.key)))
      /\ call' = [call EXCEPT ![w] = [c EXCEPT !.pc = "refind"]]
      /\ UNCHANGED <<tasks, counter, got>>

DispatchRefused(w) ==
  LET c == call[w]
  IN  /\ c # Nil /\ c.pc = "dispatch"
      /\ ~ Insertable(c.id, c.key)
      /\ call' = [call EXCEPT ![w] = [c EXCEPT !.pc = "refind"]]
      /\ UNCHANGED <<tasks, events, counter, got>>

(* Another process holds the write lock past busy_timeout.  next_id is outside *)
(* the try block, so there begin raises at once.                               *)
Busy(w) ==
  /\ call[w] # Nil
  /\ \/ /\ call[w].pc = "dispatch"
        /\ call' = [call EXCEPT ![w] = [call[w] EXCEPT !.pc = "refind_busy"]]
     \/ call[w].pc \in {"next_id", "fail"} /\ Return(w)
  /\ UNCHANGED <<tasks, events, counter, got>>

(* The except clause of begin: the other worker's task, or the exception again. *)
refindTrusting(w) ==
  /\ call[w] # Nil /\ call[w].pc \in {"refind", "refind_busy"}
  /\ got' = [got EXCEPT ![w] = [key |-> call[w].key, id |-> call[w].id]]
  /\ Return(w)
  /\ UNCHANGED <<tasks, events, counter>>

refind(w) ==
  /\ call[w] # Nil /\ call[w].pc \in {"refind", "refind_busy"}
  /\ \/ Answer(w, call[w].key)
     \/ find_task_by_key(call[w].key) = {} /\ Return(w) /\ UNCHANGED got
  /\ UNCHANGED <<tasks, events, counter>>

(***************************************************************************)
(* Settling a task.  No status is checked: a settled task may be settled   *)
(* again.  An abort by the trigger changes nothing and is a stutter.       *)
(***************************************************************************)
SettledRow(row, status, result) ==
  [row EXCEPT !.status = status, !.result = IF result = Nil THEN Nil ELSE redact(result)]

finish_task(id, result) ==
  /\ tasks[id] # Nil
  /\ Write(id, "update", SettledRow(tasks[id], "finished", result))
  /\ UNCHANGED <<counter, call, got>>

block_task(id, reason) ==
  /\ tasks[id] # Nil
  /\ Write(id, "update", SettledRow(tasks[id], "blocked_on_human", reason))
  /\ UNCHANGED <<counter, call, got>>

(* fail: the row as it was read, with a new status and result over it. *)
FailedRowKeptStatus(row, result) == SettledRow(row, row.status, result)

FailedRow(row, result) == SettledRow(row, "failed", result)

FailRead(w, id, result) ==
  /\ call[w] = Nil
  /\ tasks[id] # Nil
  /\ call' = [call EXCEPT ![w] = [pc |-> "fail", id |-> id, data |-> FailedRow(tasks[id], result)]]
  /\ UNCHANGED <<tasks, events, counter, got>>

FailSave(w) ==
  /\ call[w] # Nil /\ call[w].pc = "fail"
  /\ Write(call[w].id, "update", call[w].data)
  /\ Return(w)
  /\ UNCHANGED <<counter, got>>

FailAbort(w) ==
  /\ call[w] # Nil /\ call[w].pc = "fail"
  /\ ~ tasks_event_guard(call[w].data, record_event(call[w].id, "update", call[w].data))
  /\ Return(w)
  /\ UNCHANGED <<tasks, events, counter, got>>

(* A worker's process dies in the middle of a call, and forgets its answer. *)
TaskCrash(w) ==
  /\ call[w] # Nil \/ got[w] # Nil
  /\ Return(w)
  /\ got' = [got EXCEPT ![w] = Nil]
  /\ UNCHANGED <<tasks, events, counter>>

TaskNext ==
  \/ \E w \in Workers :
       \/ \E key \in Keys : begin(w, key)
       \/ next_id(w) \/ dispatch_task(w) \/ DispatchRefused(w) \/ Busy(w) \/ refind(w)
       \/ \E id \in TaskIds, result \in Results \cup {Nil} : FailRead(w, id, result)
       \/ FailSave(w) \/ FailAbort(w) \/ TaskCrash(w)
  \/ \E id \in TaskIds, result \in Results : finish_task(id, result) \/ block_task(id, result)

TaskSpec == TaskInit /\ [][TaskNext]_taskVars

------------------------------------------------------------------------------
(***************************************************************************)
(* Safety.                                                                 *)
(***************************************************************************)

(* Everyone who began a key was given the one task that is stored under it,  *)
(* whether the call inserted the task, found it, or lost the race to insert  *)
(* it and looked again.                                                      *)
AnswersAgree ==
  \A w \in Workers : got[w] # Nil => find_task_by_key(got[w].key) = {got[w].id}

(* An insert that the database refuses, other than for a lock, was beaten by *)
(* a task with the same key (which the second lookup will find), unless the  *)
(* key is one that redaction would change: ids never collide.                *)
RefusedOnlyIfTaken ==
  \A w \in Workers : call[w] # Nil /\ call[w].pc = "refind" =>
    call[w].key \in SecretKeys \/ find_task_by_key(call[w].key) # {}

TaskEventsOf(id) == {k \in 1..Len(events) : events[k].entity_id = id}

(* Every row is what the last event of its task says, and a task has exactly *)
(* one insert event, its first: a lost race leaves no trace in the log, and  *)
(* a failing call that saves what it read before is recorded as it is stored.*)
TaskRowsFollowLog ==
  \A id \in TaskIds :
    /\ tasks[id] = Nil => TaskEventsOf(id) = {}
    /\ tasks[id] # Nil =>
         LET k == tasks[id].last_event_id
         IN  /\ k \in TaskEventsOf(id)
             /\ \A j \in TaskEventsOf(id) : j <= k
             /\ events[k].row_snapshot = Columns(tasks[id])
             /\ \A i, j \in TaskEventsOf(id) : i < j => events[j].entity_op = "update"

(* The row fetchone returns, if there is one. *)
TheTask(ids) == IF ids = {} THEN Nil ELSE CHOOSE id \in ids : TRUE

(* The ledger implements DispatchOnce: one task per key for good, and no     *)
(* settled task in flight again, although fail saves a copy read before.     *)
Once == INSTANCE DispatchOnce WITH
  NoTask  <- Nil,
  taskOf  <- [k \in Keys |-> TheTask(find_task_by_key(k))],
  phaseOf <- [k \in Keys |-> IF find_task_by_key(k) = {} THEN "none"
                             ELSE IF find_task_by_key(k) \cap inflight = {} THEN "settled"
                             ELSE "inflight"]

ImplementsDispatchOnce == Once!DispatchSpec

==============================================================================
