-------------------------- MODULE TaskLedgerProofs --------------------------
(***************************************************************************)
(* Proofs about TaskLedger, for any number of workers, keys and tasks.     *)
(*                                                                         *)
(* The argument: ids come from a counter that every taker advances, so the *)
(* id a worker is about to insert is its own and unused (FreshIds); the    *)
(* unique key admits one row per key (UniqueKeys); rows keep their keys    *)
(* and are never removed, so what a worker was answered stays true         *)
(* (AnswersStored), what fail writes back has the row's own key            *)
(* (FailKeepsKey), and a key once taken stays taken.                       *)
(***************************************************************************)
EXTENDS TaskLedger, TLAPS

Dispatching(w) == call[w] # Nil /\ call[w].pc = "dispatch"

Failing(w) == call[w] # Nil /\ call[w].pc = "fail"

FreshIds ==
  /\ \A id \in TaskIds : tasks[id] # Nil => id < counter
  /\ \A w \in Workers : Dispatching(w) => call[w].id < counter /\ tasks[call[w].id] = Nil
  /\ \A v, w \in Workers : Dispatching(v) /\ Dispatching(w) /\ v # w => call[v].id # call[w].id

UniqueKeys ==
  \A i, j \in TaskIds : tasks[i] # Nil /\ tasks[j] # Nil /\ tasks[i].key = tasks[j].key => i = j

AnswersStored ==
  \A w \in Workers : got[w] # Nil => tasks[got[w].id] # Nil /\ tasks[got[w].id].key = got[w].key

FailKeepsKey ==
  \A w \in Workers : Failing(w) =>
    /\ tasks[call[w].id] # Nil /\ tasks[call[w].id].key = call[w].data.key
    /\ call[w].data.status = "failed"

LedgerInv ==
  TaskTypeOK /\ FreshIds /\ UniqueKeys /\ AnswersStored /\ FailKeepsKey /\ RefusedOnlyIfTaken

(***************************************************************************)
(* Types of what the ledger builds.                                        *)
(***************************************************************************)

(* A recorded event is an event. *)
LEMMA EventType ==
  ASSUME NEW id \in TaskIds, NEW op \in {"insert", "update"}, NEW row \in Rows
  PROVE  record_event(id, op, row) \in Events
<1>1. row.key \in Keys /\ row.status \in Statuses /\ row.result \in NoteClasses \cup {Nil}
  BY DEF Rows
<1> DEFINE k == IF row.key \in SecretKeys THEN Nil ELSE row.key
           r == IF row.result = Nil THEN Nil ELSE redact_dumped(row.result)
<1>2. k \in Keys \cup {Nil}
  BY <1>1
<1>3. r \in NoteClasses \cup {Nil}
  BY <1>1 DEF redact_dumped, redact, NoteClasses
<1>4. record_event(id, op, row) = [entity_id |-> id, entity_op |-> op,
        row_snapshot |-> [key |-> k, status |-> row.status, result |-> r]]
  BY DEF record_event
<1> HIDE DEF k, r
<1> QED
  BY <1>1, <1>2, <1>3, <1>4 DEF Events, Snapshots

(* A row just dispatched is a row. *)
LEMMA DispatchedType ==
  ASSUME NEW key \in Keys
  PROVE  DispatchedRow(key) \in Rows /\ DispatchedRow(key).key = key
BY DEF DispatchedRow, Rows, Statuses

(* Settling keeps a row a row, with its key. *)
LEMMA SettledType ==
  ASSUME NEW row \in Rows, NEW status \in Statuses, NEW result \in Results \cup {Nil}
  PROVE  /\ SettledRow(row, status, result) \in Rows
         /\ SettledRow(row, status, result).key = row.key
         /\ SettledRow(row, status, result).status = status
<1> DEFINE r == IF result = Nil THEN Nil ELSE redact(result)
<1>1. r \in NoteClasses \cup {Nil}
  BY TaskConstants DEF redact, NoteClasses
<1>2. SettledRow(row, status, result) = [row EXCEPT !.status = status, !.result = r]
  BY DEF SettledRow
<1> HIDE DEF r
<1> QED
  BY <1>1, <1>2 DEF Rows

(* What one transaction leaves. *)
LEMMA WriteEffect ==
  ASSUME TaskTypeOK, NEW id \in TaskIds, NEW op \in {"insert", "update"}, NEW row \in Rows,
         Write(id, op, row)
  PROVE  /\ events' = Append(events, record_event(id, op, row))
         /\ events' \in Seq(Events)
         /\ tasks' \in [TaskIds -> Rows \cup {Nil}]
         /\ tasks'[id] \in Rows /\ tasks'[id] # Nil /\ tasks'[id].key = row.key
         /\ \A other \in TaskIds \ {id} : tasks'[other] = tasks[other]
<1> DEFINE new == [row EXCEPT !.last_event_id = Len(events) + 1]
<1>1. new \in Rows /\ new.key = row.key /\ new # Nil
  BY TaskConstants DEF Rows, TaskTypeOK
<1>2. record_event(id, op, row) \in Events
  BY EventType
<1>3. events' = Append(events, record_event(id, op, row)) /\ tasks' = [tasks EXCEPT ![id] = new]
  BY DEF Write
<1> HIDE DEF new
<1> QED
  BY <1>1, <1>2, <1>3 DEF TaskTypeOK

(***************************************************************************)
(* How a step may change the table, as far as keys are concerned.          *)
(***************************************************************************)

(* Every stored row stays, with its key. *)
KeysStay ==
  \A id \in TaskIds : tasks[id] # Nil => tasks'[id] # Nil /\ tasks'[id].key = tasks[id].key

(* No row appears. *)
NoInsert == \A id \in TaskIds : tasks[id] = Nil => tasks'[id] = Nil

(* A step that keeps keys and inserts nothing keeps whatever rests on keys. *)
LEMMA QuietStep ==
  ASSUME LedgerInv, KeysStay, NoInsert, TaskTypeOK', counter' >= counter,
         \A w \in Workers : call'[w] = call[w] \/ call'[w] = Nil,
         \A w \in Workers : got'[w] = got[w] \/ got'[w] = Nil
  PROVE  LedgerInv'
<1>1. counter \in Nat /\ counter' \in Nat
  BY DEF LedgerInv, TaskTypeOK
<1>2. \A w \in Workers : /\ call[w] # Nil /\ call[w].pc \in {"dispatch", "fail"} => call[w].id \in TaskIds
                         /\ got[w] # Nil => got[w].id \in TaskIds
  BY DEF LedgerInv, TaskTypeOK, Calls
<1>3. \A id \in TaskIds : id \in Nat
  BY DEF TaskIds
<1>4. FreshIds'
  BY <1>1, <1>2, <1>3 DEF LedgerInv, FreshIds, Dispatching, KeysStay, NoInsert
<1>5. UniqueKeys'
  BY DEF LedgerInv, UniqueKeys, KeysStay, NoInsert
<1>6. AnswersStored'
  BY <1>2 DEF LedgerInv, AnswersStored, KeysStay
<1>7. FailKeepsKey'
  BY <1>2 DEF LedgerInv, FailKeepsKey, Failing, KeysStay
<1>8. RefusedOnlyIfTaken'
  BY DEF LedgerInv, RefusedOnlyIfTaken, find_task_by_key, KeysStay
<1> QED
  BY <1>4, <1>5, <1>6, <1>7, <1>8 DEF LedgerInv

(* A step that changes only the calls and answers of one worker. *)
LEMMA WorkerStep ==
  ASSUME LedgerInv, NEW w \in Workers, tasks' = tasks, events' = events, counter' = counter,
         NEW c \in Calls \cup {Nil}, NEW g \in [key : Keys, id : TaskIds] \cup {Nil},
         call' = [call EXCEPT ![w] = c], got' = [got EXCEPT ![w] = g],
         c # Nil => c.pc # "dispatch",
         c # Nil /\ c.pc = "fail" =>
           tasks[c.id] # Nil /\ tasks[c.id].key = c.data.key /\ c.data.status = "failed",
         c # Nil /\ c.pc = "refind" => c.key \in SecretKeys \/ find_task_by_key(c.key) # {},
         g # Nil => tasks[g.id] # Nil /\ tasks[g.id].key = g.key
  PROVE  LedgerInv'
<1>1. TaskTypeOK /\ TaskTypeOK'
  BY DEF LedgerInv, TaskTypeOK
<1>2. /\ call'[w] = c /\ got'[w] = g
      /\ \A v \in Workers \ {w} : call'[v] = call[v] /\ got'[v] = got[v]
  BY <1>1 DEF TaskTypeOK
<1>3. FreshIds'
  BY <1>2 DEF LedgerInv, FreshIds, Dispatching
<1>4. UniqueKeys'
  BY DEF LedgerInv, UniqueKeys
<1>5. AnswersStored'
  BY <1>2 DEF LedgerInv, AnswersStored
<1>6. FailKeepsKey'
  BY <1>2 DEF LedgerInv, FailKeepsKey, Failing
<1>7. RefusedOnlyIfTaken'
  BY <1>2 DEF LedgerInv, RefusedOnlyIfTaken, find_task_by_key
<1> QED
  BY <1>1, <1>3, <1>4, <1>5, <1>6, <1>7 DEF LedgerInv

(* Settling a task, by any of the three calls, is a quiet step. *)
LEMMA SettleStep ==
  ASSUME LedgerInv, NEW id \in TaskIds, NEW row \in Rows,
         tasks[id] # Nil, tasks[id].key = row.key, Write(id, "update", row),
         counter' = counter, got' = got, call' \in [Workers -> Calls \cup {Nil}],
         \A w \in Workers : call'[w] = call[w] \/ call'[w] = Nil
  PROVE  LedgerInv'
<1>1. TaskTypeOK
  BY DEF LedgerInv
<1>2. /\ events' \in Seq(Events) /\ tasks' \in [TaskIds -> Rows \cup {Nil}]
      /\ tasks'[id] # Nil /\ tasks'[id].key = row.key
      /\ \A other \in TaskIds \ {id} : tasks'[other] = tasks[other]
  BY <1>1, WriteEffect
<1>3. KeysStay /\ NoInsert
  BY <1>2 DEF KeysStay, NoInsert
<1>4. TaskTypeOK' /\ counter' >= counter
  BY <1>1, <1>2 DEF TaskTypeOK
<1> QED
  BY <1>3, <1>4, QuietStep

(* Answering a worker with a row that is stored under the key. *)
LEMMA AnswerStep ==
  ASSUME LedgerInv, NEW w \in Workers, NEW key \in Keys, Answer(w, key),
         tasks' = tasks, events' = events, counter' = counter
  PROVE  LedgerInv'
<1>1. PICK id \in find_task_by_key(key) : got' = [got EXCEPT ![w] = [key |-> key, id |-> id]]
  BY DEF Answer
<1>2. id \in TaskIds /\ tasks[id] # Nil /\ tasks[id].key = key
  BY DEF find_task_by_key
<1> DEFINE g == [key |-> key, id |-> id]
<1>3. g \in [key : Keys, id : TaskIds] \cup {Nil} /\ g.id = id /\ g.key = key
  BY <1>2
<1>4. call' = [call EXCEPT ![w] = Nil] /\ got' = [got EXCEPT ![w] = g]
  BY <1>1 DEF Answer
<1> HIDE DEF g
<1> QED
  BY <1>2, <1>3, <1>4, WorkerStep

(* Every step of the ledger keeps the invariant. *)
LEMMA LedgerStep == LedgerInv /\ [TaskNext]_taskVars => LedgerInv'
<1> SUFFICES ASSUME LedgerInv, [TaskNext]_taskVars PROVE LedgerInv'
  OBVIOUS
<1>0. TaskTypeOK
  BY DEF LedgerInv
<1>1. CASE UNCHANGED taskVars
  <2>1. TaskTypeOK' /\ KeysStay /\ NoInsert /\ counter' >= counter
    BY <1>0, <1>1 DEF taskVars, TaskTypeOK, KeysStay, NoInsert
  <2> QED
    BY <1>1, <2>1, QuietStep DEF taskVars
<1>2. ASSUME NEW w \in Workers, tasks' = tasks, events' = events, counter' = counter,
             got' = got, Return(w)
      PROVE  LedgerInv'
  <2>1. TaskTypeOK' /\ KeysStay /\ NoInsert /\ counter' >= counter
    BY <1>0, <1>2 DEF Return, TaskTypeOK, KeysStay, NoInsert
  <2>2. \A v \in Workers : call'[v] = call[v] \/ call'[v] = Nil
    BY <1>0, <1>2 DEF Return, TaskTypeOK
  <2> QED
    BY <1>2, <2>1, <2>2, QuietStep
<1>3. ASSUME NEW w \in Workers, NEW key \in Keys, begin(w, key)
      PROVE  LedgerInv'
  <2>1. CASE Answer(w, key)
    BY <1>3, <2>1, AnswerStep DEF begin
  <2>2. CASE find_task_by_key(key) = {} /\ got' = got
             /\ call' = [call EXCEPT ![w] = [pc |-> "next_id", key |-> key]]
    <3> DEFINE c == [pc |-> "next_id", key |-> key]
    <3>1. c \in Calls \cup {Nil} /\ c.pc = "next_id"
      BY DEF Calls
    <3>2. got' = [got EXCEPT ![w] = got[w]] /\ got[w] \in [key : Keys, id : TaskIds] \cup {Nil}
      BY <1>0, <2>2 DEF TaskTypeOK
    <3>3. got[w] # Nil => tasks[got[w].id] # Nil /\ tasks[got[w].id].key = got[w].key
      BY DEF LedgerInv, AnswersStored
    <3>4. tasks' = tasks /\ events' = events /\ counter' = counter
          /\ call' = [call EXCEPT ![w] = c]
      BY <1>3, <2>2 DEF begin
    <3> HIDE DEF c
    <3> QED
      BY <3>1, <3>2, <3>3, <3>4, WorkerStep
  <2> QED
    BY <1>3, <2>1, <2>2 DEF begin
<1>4. ASSUME NEW w \in Workers, next_id(w)
      PROVE  LedgerInv'
  <2> DEFINE c == [pc |-> "dispatch", key |-> call[w].key, id |-> counter]
  <2>1. call[w].key \in Keys /\ counter \in TaskIds /\ counter \in Nat
    BY <1>0, <1>4 DEF next_id, TaskTypeOK, Calls, TaskIds
  <2>2. c \in Calls /\ c # Nil /\ c.pc = "dispatch" /\ c.id = counter
    BY <2>1, TaskConstants DEF Calls
  <2>3. /\ tasks' = tasks /\ events' = events /\ got' = got /\ counter' = counter + 1
        /\ call'[w] = c /\ \A v \in Workers \ {w} : call'[v] = call[v]
        /\ call' \in [Workers -> Calls \cup {Nil}]
    BY <1>0, <1>4, <2>2 DEF next_id, TaskTypeOK
  <2> HIDE DEF c
  <2>4. TaskTypeOK'
    <3>1. counter' \in 1..(MaxId + 1)
      BY <1>0, <1>4, <2>1, <2>3, TaskConstants DEF TaskTypeOK, next_id
    <3> QED
      BY <1>0, <2>3, <3>1 DEF TaskTypeOK
  <2>5. \A v \in Workers : Dispatching(v) => call[v].id \in Nat
    BY <1>0 DEF Dispatching, TaskTypeOK, Calls, TaskIds
  <2>6. \A id \in TaskIds : id \in Nat
    BY DEF TaskIds
  <2>7. FreshIds'
    BY <2>1, <2>2, <2>3, <2>5, <2>6 DEF LedgerInv, FreshIds, Dispatching
  <2>8. UniqueKeys' /\ AnswersStored'
    BY <2>3 DEF LedgerInv, UniqueKeys, AnswersStored
  <2>9. FailKeepsKey'
    BY <2>2, <2>3 DEF LedgerInv, FailKeepsKey, Failing
  <2>10. RefusedOnlyIfTaken'
    BY <2>2, <2>3 DEF LedgerInv, RefusedOnlyIfTaken, find_task_by_key
  <2> QED
    BY <2>4, <2>7, <2>8, <2>9, <2>10 DEF LedgerInv
<1>5. ASSUME NEW w \in Workers, dispatch_task(w)
      PROVE  LedgerInv'
  <2> DEFINE k   == call[w].key
             new == call[w].id
             g   == [key |-> k, id |-> new]
  <2>1. k \in Keys /\ new \in TaskIds /\ Dispatching(w)
    BY <1>0, <1>5 DEF dispatch_task, TaskTypeOK, Calls, Dispatching
  <2>2. DispatchedRow(k) \in Rows /\ DispatchedRow(k).key = k
    BY <2>1, DispatchedType
  <2>3. /\ tasks[new] = Nil /\ find_task_by_key(k) = {}
        /\ Write(new, "insert", DispatchedRow(k))
        /\ got' = [got EXCEPT ![w] = g]
        /\ call' = [call EXCEPT ![w] = Nil] /\ counter' = counter
    BY <1>5 DEF dispatch_task, Insertable, Return
  <2>4. /\ events' \in Seq(Events) /\ tasks' \in [TaskIds -> Rows \cup {Nil}]
        /\ tasks'[new] # Nil /\ tasks'[new].key = k
        /\ \A other \in TaskIds \ {new} : tasks'[other] = tasks[other]
    BY <1>0, <2>1, <2>2, <2>3, WriteEffect
  <2>5. /\ call'[w] = Nil /\ got'[w] = g /\ g.key = k /\ g.id = new
        /\ \A v \in Workers \ {w} : call'[v] = call[v] /\ got'[v] = got[v]
    BY <1>0, <2>3 DEF TaskTypeOK
  <2>6. TaskTypeOK'
    BY <1>0, <2>1, <2>3, <2>4 DEF TaskTypeOK
  <2> HIDE DEF k, new, g
  <2>7. KeysStay
    BY <2>3, <2>4 DEF KeysStay
  <2>8. \A v \in Workers :
          /\ call[v] # Nil /\ call[v].pc \in {"dispatch", "fail"} => call[v].id \in TaskIds
          /\ got[v] # Nil => got[v].id \in TaskIds
    BY <1>0 DEF TaskTypeOK, Calls
  <2>9. new < counter /\ \A v \in Workers \ {w} : Dispatching(v) => call[v].id # new
    BY <2>1 DEF LedgerInv, FreshIds, new
  <2>10. FreshIds'
    BY <2>3, <2>4, <2>5, <2>8, <2>9 DEF LedgerInv, FreshIds, Dispatching
  <2>11. UniqueKeys'
    BY <2>3, <2>4 DEF LedgerInv, UniqueKeys, find_task_by_key
  <2>12. AnswersStored'
    BY <2>1, <2>4, <2>5, <2>7, <2>8 DEF LedgerInv, AnswersStored, KeysStay
  <2>13. FailKeepsKey'
    BY <2>5, <2>7, <2>8 DEF LedgerInv, FailKeepsKey, Failing, KeysStay
  <2>14. RefusedOnlyIfTaken'
    BY <2>5, <2>7 DEF LedgerInv, RefusedOnlyIfTaken, find_task_by_key, KeysStay
  <2> QED
    BY <2>6, <2>10, <2>11, <2>12, <2>13, <2>14 DEF LedgerInv
<1>6. ASSUME NEW w \in Workers, DispatchRefused(w) \/ (Busy(w) /\ call[w].pc = "dispatch")
      PROVE  LedgerInv'
  <2> DEFINE pc == IF DispatchRefused(w) THEN "refind" ELSE "refind_busy"
             c  == [call[w] EXCEPT !.pc = pc]
  <2>1. Dispatching(w) /\ call[w].key \in Keys /\ call[w].id \in TaskIds
        /\ call[w] \in [pc : {"dispatch", "refind", "refind_busy"}, key : Keys, id : TaskIds]
    BY <1>0, <1>6 DEF DispatchRefused, Busy, TaskTypeOK, Calls, Dispatching
  <2>2. \A p \in {"refind", "refind_busy"} :
          /\ [call[w] EXCEPT !.pc = p] \in Calls
          /\ [call[w] EXCEPT !.pc = p].pc = p
          /\ [call[w] EXCEPT !.pc = p].key = call[w].key
    BY <2>1 DEF Calls
  <2>3. got' = [got EXCEPT ![w] = got[w]] /\ got[w] \in [key : Keys, id : TaskIds] \cup {Nil}
        /\ tasks' = tasks /\ events' = events /\ counter' = counter
    BY <1>0, <1>6 DEF DispatchRefused, Busy, TaskTypeOK
  <2>4. got[w] # Nil => tasks[got[w].id] # Nil /\ tasks[got[w].id].key = got[w].key
    BY DEF LedgerInv, AnswersStored
  <2>5. tasks[call[w].id] = Nil
    BY <2>1 DEF LedgerInv, FreshIds
  <2>6. CASE DispatchRefused(w)
    <3> DEFINE d == [call[w] EXCEPT !.pc = "refind"]
    <3>1. call' = [call EXCEPT ![w] = d] /\ ~ Insertable(call[w].id, call[w].key)
      BY <2>6 DEF DispatchRefused
    <3>2. d \in Calls \cup {Nil} /\ d.pc = "refind" /\ d.key = call[w].key
      BY <2>2
    <3>3. call[w].key \in SecretKeys \/ find_task_by_key(call[w].key) # {}
      BY <2>1, <2>5, <3>1 DEF Insertable, tasks_event_guard, record_event, DispatchedRow, Columns
    <3> HIDE DEF d
    <3> QED
      BY <2>3, <2>4, <3>1, <3>2, <3>3, WorkerStep
  <2>7. CASE Busy(w) /\ call[w].pc = "dispatch"
    <3> DEFINE d == [call[w] EXCEPT !.pc = "refind_busy"]
    <3>1. call' = [call EXCEPT ![w] = d]
      BY <2>7 DEF Busy
    <3>2. d \in Calls \cup {Nil} /\ d.pc = "refind_busy"
      BY <2>2
    <3> HIDE DEF d
    <3> QED
      BY <2>3, <2>4, <3>1, <3>2, WorkerStep
  <2> QED
    BY <1>6, <2>6, <2>7
<1>7. ASSUME NEW w \in Workers, Busy(w), call[w].pc # "dispatch"
      PROVE  LedgerInv'
  BY <1>2, <1>7 DEF Busy
<1>8. ASSUME NEW w \in Workers, refind(w)
      PROVE  LedgerInv'
  <2>1. call[w].key \in Keys
    BY <1>0, <1>8 DEF refind, TaskTypeOK, Calls
  <2> QED
    BY <1>2, <1>8, <2>1, AnswerStep DEF refind
<1>9. ASSUME NEW w \in Workers, NEW id \in TaskIds, NEW result \in Results \cup {Nil},
             FailRead(w, id, result)
      PROVE  LedgerInv'
  <2> DEFINE row == FailedRow(tasks[id], result)
             c   == [pc |-> "fail", id |-> id, data |-> row]
  <2>1. tasks[id] # Nil /\ tasks[id] \in Rows
    BY <1>0, <1>9 DEF FailRead, TaskTypeOK
  <2>2. row \in Rows /\ row.key = tasks[id].key /\ row.status = "failed"
    <3>1. "failed" \in Statuses
      BY DEF Statuses
    <3>2. row = SettledRow(tasks[id], "failed", result)
      BY DEF FailedRow
    <3> HIDE DEF row
    <3> QED
      BY <2>1, <3>1, <3>2, SettledType
  <2>3. /\ tasks' = tasks /\ events' = events /\ counter' = counter
        /\ call' = [call EXCEPT ![w] = c]
        /\ got' = [got EXCEPT ![w] = got[w]] /\ got[w] \in [key : Keys, id : TaskIds] \cup {Nil}
    BY <1>0, <1>9 DEF FailRead, TaskTypeOK
  <2> HIDE DEF row
  <2>4. c \in Calls \cup {Nil} /\ c.pc = "fail" /\ c.id = id /\ c.data = row
    BY <2>2 DEF Calls
  <2>5. got[w] # Nil => tasks[got[w].id] # Nil /\ tasks[got[w].id].key = got[w].key
    BY DEF LedgerInv, AnswersStored
  <2> HIDE DEF c
  <2> QED
    BY <2>1, <2>2, <2>3, <2>4, <2>5, WorkerStep
<1>10. ASSUME NEW w \in Workers, FailSave(w)
       PROVE  LedgerInv'
  <2>1. call[w].id \in TaskIds /\ call[w].data \in Rows /\ Failing(w)
    BY <1>0, <1>10 DEF FailSave, Failing, TaskTypeOK, Calls
  <2>2. tasks[call[w].id] # Nil /\ tasks[call[w].id].key = call[w].data.key
    BY <2>1 DEF LedgerInv, FailKeepsKey
  <2>3. /\ Write(call[w].id, "update", call[w].data) /\ counter' = counter /\ got' = got
        /\ call' \in [Workers -> Calls \cup {Nil}]
        /\ \A v \in Workers : call'[v] = call[v] \/ call'[v] = Nil
    BY <1>0, <1>10 DEF FailSave, Return, TaskTypeOK
  <2> QED
    BY <2>1, <2>2, <2>3, SettleStep
<1>11. ASSUME NEW w \in Workers, FailAbort(w)
       PROVE  LedgerInv'
  BY <1>2, <1>11 DEF FailAbort
<1>12. ASSUME NEW w \in Workers, TaskCrash(w)
       PROVE  LedgerInv'
  <2>1. TaskTypeOK' /\ KeysStay /\ NoInsert /\ counter' >= counter
    BY <1>0, <1>12 DEF TaskCrash, Return, TaskTypeOK, KeysStay, NoInsert
  <2>2. \A v \in Workers : (call'[v] = call[v] \/ call'[v] = Nil) /\ (got'[v] = got[v] \/ got'[v] = Nil)
    BY <1>0, <1>12 DEF TaskCrash, Return, TaskTypeOK
  <2> QED
    BY <2>1, <2>2, QuietStep
<1>13. ASSUME NEW id \in TaskIds, NEW result \in Results,
              finish_task(id, result) \/ block_task(id, result)
       PROVE  LedgerInv'
  <2>1. tasks[id] # Nil /\ tasks[id] \in Rows
    BY <1>0, <1>13 DEF finish_task, block_task, TaskTypeOK
  <2>2. PICK status \in Statuses : Write(id, "update", SettledRow(tasks[id], status, result))
    BY <1>13 DEF finish_task, block_task, Statuses
  <2>3. SettledRow(tasks[id], status, result) \in Rows
        /\ SettledRow(tasks[id], status, result).key = tasks[id].key
    BY <2>1, SettledType
  <2>4. counter' = counter /\ got' = got /\ call' = call
    BY <1>13 DEF finish_task, block_task
  <2>5. call' \in [Workers -> Calls \cup {Nil}]
    BY <1>0, <2>4 DEF TaskTypeOK
  <2> QED
    BY <2>1, <2>2, <2>3, <2>4, <2>5, SettleStep
<1> QED
  BY <1>1, <1>3, <1>4, <1>5, <1>6, <1>7, <1>8, <1>9, <1>10, <1>11, <1>12, <1>13 DEF TaskNext

(* The invariant holds throughout. *)
LEMMA LedgerInvariant == TaskSpec => []LedgerInv
<1>1. TaskInit => LedgerInv
  <2> SUFFICES ASSUME TaskInit PROVE LedgerInv
    OBVIOUS
  <2>1. TaskTypeOK
    BY TaskConstants DEF TaskInit, TaskTypeOK
  <2> QED
    BY <2>1 DEF TaskInit, LedgerInv, FreshIds, UniqueKeys, AnswersStored, FailKeepsKey,
                RefusedOnlyIfTaken, Dispatching, Failing
<1> QED
  BY <1>1, LedgerStep, PTL DEF TaskSpec

(* The task table, the log and every call in progress keep their types. *)
THEOREM TaskTypeCorrect == TaskSpec => []TaskTypeOK
<1>1. LedgerInv => TaskTypeOK
  BY DEF LedgerInv
<1> QED
  BY <1>1, LedgerInvariant, PTL

(* begin is idempotent under any interleaving: whoever began a key was given *)
(* the one task stored under it.                                             *)
THEOREM AnswersTheorem == TaskSpec => []AnswersAgree
<1>1. LedgerInv => AnswersAgree
  <2> SUFFICES ASSUME LedgerInv, NEW w \in Workers, got[w] # Nil
               PROVE  find_task_by_key(got[w].key) = {got[w].id}
    BY DEF AnswersAgree
  <2>1. got[w].id \in TaskIds /\ tasks[got[w].id] # Nil /\ tasks[got[w].id].key = got[w].key
    BY DEF LedgerInv, AnswersStored, TaskTypeOK
  <2>2. \A id \in find_task_by_key(got[w].key) : id = got[w].id
    BY <2>1 DEF find_task_by_key, LedgerInv, UniqueKeys
  <2> QED
    BY <2>1, <2>2 DEF find_task_by_key
<1> QED
  BY <1>1, LedgerInvariant, PTL

(* A refused insert was beaten by a task with the same key or names a key that *)
(* cannot be stored; ids taken from the counter never collide.                 *)
THEOREM RefusedTheorem == TaskSpec => []RefusedOnlyIfTaken
<1>1. LedgerInv => RefusedOnlyIfTaken
  BY DEF LedgerInv
<1> QED
  BY <1>1, LedgerInvariant, PTL

(***************************************************************************)
(* What a step does to the table and the log.                              *)
(***************************************************************************)
Inserts(id, row) ==
  /\ Write(id, "insert", row)
  /\ tasks[id] = Nil /\ find_task_by_key(row.key) = {} /\ row.status = "dispatched"

Updates(id, row) ==
  /\ Write(id, "update", row)
  /\ tasks[id] # Nil /\ row.key = tasks[id].key /\ row.status # "dispatched"

(* A step writes one task, with its event, or neither table. *)
LEMMA TableStep ==
  ASSUME LedgerInv, [TaskNext]_taskVars
  PROVE  \/ UNCHANGED <<tasks, events>>
         \/ \E id \in TaskIds, row \in Rows : Inserts(id, row) \/ Updates(id, row)
<1>0. TaskTypeOK
  BY DEF LedgerInv
<1>1. CASE UNCHANGED taskVars
  BY <1>1 DEF taskVars
<1>2. ASSUME NEW w \in Workers, dispatch_task(w)
      PROVE  \E id \in TaskIds, row \in Rows : Inserts(id, row)
  <2>1. call[w].key \in Keys /\ call[w].id \in TaskIds
    BY <1>0, <1>2 DEF dispatch_task, TaskTypeOK, Calls
  <2>2. /\ DispatchedRow(call[w].key) \in Rows /\ DispatchedRow(call[w].key).key = call[w].key
        /\ DispatchedRow(call[w].key).status = "dispatched"
    BY <2>1, DispatchedType DEF DispatchedRow
  <2>3. Inserts(call[w].id, DispatchedRow(call[w].key))
    BY <1>2, <2>2 DEF dispatch_task, Insertable, Inserts
  <2> QED
    BY <2>1, <2>2, <2>3
<1>3. ASSUME NEW w \in Workers, FailSave(w)
      PROVE  \E id \in TaskIds, row \in Rows : Updates(id, row)
  <2>1. call[w].id \in TaskIds /\ call[w].data \in Rows /\ Failing(w)
    BY <1>0, <1>3 DEF FailSave, Failing, TaskTypeOK, Calls
  <2>2. Updates(call[w].id, call[w].data)
    BY <1>3, <2>1 DEF FailSave, LedgerInv, FailKeepsKey, Updates
  <2> QED
    BY <2>1, <2>2
<1>4. ASSUME NEW id \in TaskIds, NEW result \in Results,
             finish_task(id, result) \/ block_task(id, result)
      PROVE  \E row \in Rows : Updates(id, row)
  <2>1. tasks[id] # Nil /\ tasks[id] \in Rows
    BY <1>0, <1>4 DEF finish_task, block_task, TaskTypeOK
  <2>2. PICK status \in Statuses \ {"dispatched"} :
          Write(id, "update", SettledRow(tasks[id], status, result))
    BY <1>4 DEF finish_task, block_task, Statuses
  <2>3. /\ SettledRow(tasks[id], status, result) \in Rows
        /\ SettledRow(tasks[id], status, result).key = tasks[id].key
        /\ SettledRow(tasks[id], status, result).status = status
    BY <2>1, SettledType
  <2>4. Updates(id, SettledRow(tasks[id], status, result))
    BY <2>1, <2>2, <2>3 DEF Updates
  <2> QED
    BY <2>3, <2>4
<1>5. ASSUME NEW w \in Workers,
             \/ \E key \in Keys : begin(w, key)
             \/ next_id(w) \/ DispatchRefused(w) \/ Busy(w) \/ refind(w) \/ FailAbort(w) \/ TaskCrash(w)
             \/ \E id \in TaskIds, result \in Results \cup {Nil} : FailRead(w, id, result)
      PROVE  UNCHANGED <<tasks, events>>
  BY <1>5 DEF begin, next_id, DispatchRefused, Busy, refind, FailAbort, TaskCrash, FailRead
<1> QED
  BY <1>1, <1>2, <1>3, <1>4, <1>5 DEF TaskNext

(* The rows follow the log through every step. *)
LEMMA FollowStep == LedgerInv /\ TaskRowsFollowLog /\ [TaskNext]_taskVars => TaskRowsFollowLog'
<1> SUFFICES ASSUME LedgerInv, TaskRowsFollowLog, [TaskNext]_taskVars PROVE TaskRowsFollowLog'
  OBVIOUS
<1>0. TaskTypeOK
  BY DEF LedgerInv
<1>1. CASE UNCHANGED <<tasks, events>>
  BY <1>1 DEF TaskRowsFollowLog, TaskEventsOf
<1>2. ASSUME NEW id \in TaskIds, NEW row \in Rows, Inserts(id, row) \/ Updates(id, row)
      PROVE  TaskRowsFollowLog'
  <2>1. PICK op \in {"insert", "update"} :
          /\ Write(id, op, row)
          /\ op = "insert" => tasks[id] = Nil
          /\ op = "update" => tasks[id] # Nil
    BY <1>2 DEF Inserts, Updates
  <2> DEFINE e   == record_event(id, op, row)
             n   == Len(events) + 1
             new == [row EXCEPT !.last_event_id = n]
  <2>2. e \in Events /\ e.entity_id = id /\ e.entity_op = op
    BY EventType DEF record_event
  <2>3. events' = Append(events, e) /\ tasks' = [tasks EXCEPT ![id] = new]
        /\ e.row_snapshot = Columns(row)
    BY <2>1 DEF Write, tasks_event_guard
  <2>4. new.last_event_id = n /\ Columns(new) = Columns(row) /\ new # Nil
    BY TaskConstants, <1>0 DEF Rows, Columns, TaskTypeOK
  <2> HIDE DEF e, new
  <2>5. /\ Len(events') = n /\ Len(events) \in Nat /\ events'[n] = e
        /\ \A k \in 1..Len(events) : events'[k] = events[k]
    BY <1>0, <2>2, <2>3 DEF TaskTypeOK
  <2>6. tasks'[id] = new /\ \A other \in TaskIds \ {id} : tasks'[other] = tasks[other]
    BY <1>0, <2>3 DEF TaskTypeOK
  <2>7. ASSUME NEW other \in TaskIds \ {id}
        PROVE  TaskEventsOf(other)' = TaskEventsOf(other)
    BY <2>2, <2>5 DEF TaskEventsOf
  <2>8. TaskEventsOf(id)' = TaskEventsOf(id) \cup {n}
    BY <2>2, <2>5 DEF TaskEventsOf
  <2>9. \A k, other : k \in TaskEventsOf(other) => k \in 1..Len(events) /\ k < n /\ events'[k] = events[k]
    BY <2>5 DEF TaskEventsOf
  <2> SUFFICES ASSUME NEW t \in TaskIds
               PROVE  /\ tasks'[t] = Nil => TaskEventsOf(t)' = {}
                      /\ tasks'[t] # Nil =>
                           /\ tasks'[t].last_event_id \in TaskEventsOf(t)'
                           /\ \A j \in TaskEventsOf(t)' : j <= tasks'[t].last_event_id
                           /\ events'[tasks'[t].last_event_id].row_snapshot = Columns(tasks'[t])
                           /\ \A i, j \in TaskEventsOf(t)' : i < j => events'[j].entity_op = "update"
    BY DEF TaskRowsFollowLog, Columns
  <2>10. CASE t # id
    <3>1. tasks'[t] = tasks[t] /\ TaskEventsOf(t)' = TaskEventsOf(t)
      BY <2>6, <2>7, <2>10
    <3> QED
      BY <2>9, <3>1 DEF TaskRowsFollowLog
  <2>11. CASE t = id
    <3>1. tasks'[t] = new /\ TaskEventsOf(t)' = TaskEventsOf(t) \cup {n} /\ n \in Nat
      BY <2>5, <2>6, <2>8, <2>11
    <3>2. \A j \in TaskEventsOf(t) : j \in Nat /\ j < n /\ events'[j] = events[j]
      BY <2>9
    <3>3. events'[n].row_snapshot = Columns(new)
      BY <2>3, <2>4, <2>5
    <3>4. ASSUME NEW i \in TaskEventsOf(t) \cup {n}, NEW j \in TaskEventsOf(t) \cup {n}, i < j
          PROVE  events'[j].entity_op = "update"
      <4>1. i \in TaskEventsOf(t)
        BY <3>1, <3>2, <3>4
      <4>2. tasks[t] # Nil
        BY <4>1 DEF TaskRowsFollowLog
      <4>3. CASE j = n
        BY <2>1, <2>2, <2>5, <2>11, <4>2, <4>3
      <4>4. CASE j \in TaskEventsOf(t)
        BY <3>2, <3>4, <4>1, <4>2, <4>4 DEF TaskRowsFollowLog
      <4> QED
        BY <4>3, <4>4
    <3> QED
      BY <2>4, <3>1, <3>2, <3>3, <3>4
  <2> QED
    BY <2>10, <2>11
<1> QED
  BY <1>1, <1>2, TableStep

(* The task table is always what the log says, and a task was inserted once: *)
(* a lost race and a stale fail leave no row that the log does not explain.  *)
THEOREM FollowTheorem == TaskSpec => []TaskRowsFollowLog
<1>1. TaskInit => TaskRowsFollowLog
  BY DEF TaskInit, TaskRowsFollowLog, TaskEventsOf
<1> QED
  BY <1>1, FollowStep, LedgerInvariant, PTL DEF TaskSpec

(***************************************************************************)
(* Refinement of DispatchOnce.                                             *)
(***************************************************************************)
TaskOf == [k \in Keys |-> TheTask(find_task_by_key(k))]

PhaseOf == [k \in Keys |-> IF find_task_by_key(k) = {} THEN "none"
                           ELSE IF find_task_by_key(k) \cap inflight = {} THEN "settled"
                           ELSE "inflight"]

(* Every step of the ledger is a step of DispatchOnce or invisible to it. *)
LEMMA OnceStep ==
  LedgerInv /\ [TaskNext]_taskVars => [Once!DispatchNext]_(Once!dispatchVars)
<1> SUFFICES ASSUME LedgerInv, [TaskNext]_taskVars
             PROVE  [Once!DispatchNext]_(Once!dispatchVars)
  OBVIOUS
<1>0. TaskTypeOK /\ UniqueKeys
  BY DEF LedgerInv
<1>1. CASE UNCHANGED <<tasks, events>>
  <2>1. TaskOf' = TaskOf /\ PhaseOf' = PhaseOf
    BY <1>1 DEF TaskOf, PhaseOf, find_task_by_key, inflight
  <2> QED
    BY <2>1 DEF TaskOf, PhaseOf, Once!dispatchVars
<1>2. ASSUME NEW id \in TaskIds, NEW row \in Rows, Inserts(id, row)
      PROVE  Once!DispatchNext
  <2> DEFINE k == row.key
  <2>1. k \in Keys /\ tasks[id] = Nil /\ find_task_by_key(k) = {}
    BY <1>2 DEF Inserts, Rows
  <2>2. /\ tasks'[id] # Nil /\ tasks'[id].key = k
        /\ \A other \in TaskIds \ {id} : tasks'[other] = tasks[other]
    BY <1>0, <1>2, WriteEffect DEF Inserts
  <2>3. tasks'[id].status = "dispatched"
    BY <1>0, <1>2 DEF Inserts, Write, TaskTypeOK, Rows
  <2> HIDE DEF k
  <2>4. find_task_by_key(k)' = {id} /\ id \in inflight'
    BY <2>1, <2>2, <2>3 DEF find_task_by_key, inflight
  <2>5. ASSUME NEW j \in Keys \ {k}
        PROVE  /\ find_task_by_key(j)' = find_task_by_key(j)
               /\ (find_task_by_key(j) \cap inflight)' = find_task_by_key(j) \cap inflight
    BY <2>1, <2>2 DEF find_task_by_key, inflight
  <2>6. TaskOf' = [TaskOf EXCEPT ![k] = id]
    <3>1. TaskOf'[k] = id
      BY <2>1, <2>4 DEF TaskOf, TheTask
    <3>2. \A j \in Keys \ {k} : TaskOf'[j] = TaskOf[j]
      BY <2>5 DEF TaskOf
    <3>3. TaskOf' = [j \in Keys |-> TaskOf'[j]] /\ TaskOf = [j \in Keys |-> TaskOf[j]]
      BY DEF TaskOf
    <3> HIDE DEF TaskOf
    <3> QED
      BY <2>1, <3>1, <3>2, <3>3
  <2>7. PhaseOf' = [PhaseOf EXCEPT ![k] = "inflight"]
    <3>1. PhaseOf'[k] = "inflight"
      BY <2>1, <2>4 DEF PhaseOf
    <3>2. \A j \in Keys \ {k} : PhaseOf'[j] = PhaseOf[j]
      BY <2>5 DEF PhaseOf
    <3>3. PhaseOf' = [j \in Keys |-> PhaseOf'[j]] /\ PhaseOf = [j \in Keys |-> PhaseOf[j]]
      BY DEF PhaseOf
    <3> HIDE DEF PhaseOf
    <3> QED
      BY <2>1, <3>1, <3>2, <3>3
  <2>8. PhaseOf[k] = "none"
    BY <2>1 DEF PhaseOf
  <2>9. \A other \in Keys : TaskOf[other] # id
    <3>1. \A other \in Keys : TaskOf[other] = Nil \/ TaskOf[other] \in find_task_by_key(other)
      BY DEF TaskOf, TheTask
    <3> QED
      BY <2>1, <3>1, TaskConstants DEF find_task_by_key
  <2>10. Once!Dispatch(k, id)
    BY <2>6, <2>7, <2>8, <2>9 DEF Once!Dispatch, TaskOf, PhaseOf
  <2> QED
    BY <2>1, <2>10 DEF Once!DispatchNext
<1>3. ASSUME NEW id \in TaskIds, NEW row \in Rows, Updates(id, row)
      PROVE  [Once!DispatchNext]_(Once!dispatchVars)
  <2> DEFINE k == row.key
  <2>1. k \in Keys /\ tasks[id] # Nil /\ tasks[id].key = k
    BY <1>3 DEF Updates, Rows
  <2>2. /\ tasks'[id] # Nil /\ tasks'[id].key = k
        /\ \A other \in TaskIds \ {id} : tasks'[other] = tasks[other]
    BY <1>0, <1>3, WriteEffect DEF Updates
  <2>3. tasks'[id].status # "dispatched"
    BY <1>0, <1>3 DEF Updates, Write, TaskTypeOK, Rows
  <2> HIDE DEF k
  <2>4. find_task_by_key(k) = {id} /\ id \notin inflight'
    BY <1>0, <2>1, <2>3 DEF find_task_by_key, inflight, UniqueKeys
  <2>5. \A j \in Keys : find_task_by_key(j)' = find_task_by_key(j)
    BY <2>1, <2>2 DEF find_task_by_key
  <2>6. \A j \in Keys \ {k} : (find_task_by_key(j) \cap inflight)' = find_task_by_key(j) \cap inflight
    BY <2>1, <2>2 DEF find_task_by_key, inflight
  <2>7. TaskOf' = TaskOf
    BY <2>5 DEF TaskOf
  <2>8. PhaseOf' = [PhaseOf EXCEPT ![k] = "settled"]
    <3>1. PhaseOf'[k] = "settled"
      BY <2>1, <2>4, <2>5 DEF PhaseOf
    <3>2. \A j \in Keys \ {k} : PhaseOf'[j] = PhaseOf[j]
      BY <2>5, <2>6 DEF PhaseOf
    <3>3. PhaseOf' = [j \in Keys |-> PhaseOf'[j]] /\ PhaseOf = [j \in Keys |-> PhaseOf[j]]
      BY DEF PhaseOf
    <3> HIDE DEF PhaseOf
    <3> QED
      BY <2>1, <3>1, <3>2, <3>3
  <2>9. CASE PhaseOf[k] = "inflight"
    <3>1. Once!Settle(k)
      BY <2>7, <2>8, <2>9 DEF Once!Settle, TaskOf, PhaseOf
    <3> QED
      BY <2>1, <3>1 DEF Once!DispatchNext
  <2>10. CASE PhaseOf[k] # "inflight"
    <3>1. PhaseOf[k] = "settled"
      BY <2>1, <2>4, <2>10 DEF PhaseOf
    <3>2. PhaseOf' = PhaseOf
      <4>1. PhaseOf = [j \in Keys |-> PhaseOf[j]]
        BY DEF PhaseOf
      <4> HIDE DEF PhaseOf
      <4> QED
        BY <2>8, <3>1, <4>1
    <3> QED
      BY <2>7, <3>2 DEF Once!dispatchVars, TaskOf, PhaseOf
  <2> QED
    BY <2>9, <2>10
<1> QED
  BY <1>1, <1>2, <1>3, TableStep

(* The ledger, with its races, stale saves and crashes, implements DispatchOnce: *)
(* one task per key for good, and no settled task in flight again.               *)
THEOREM OnceTheorem == TaskSpec => ImplementsDispatchOnce
<1>1. TaskInit => Once!DispatchInit
  BY DEF TaskInit, Once!DispatchInit, find_task_by_key, TheTask
<1> QED
  BY <1>1, OnceStep, LedgerInvariant, PTL DEF TaskSpec, ImplementsDispatchOnce, Once!DispatchSpec

==============================================================================
