---------------------------- MODULE DispatchOnce ----------------------------
(***************************************************************************)
(* What the task ledger promises, without calls, events or transactions:   *)
(* a key gets one task, keeps it, and once that task is settled it is      *)
(* never in flight again.                                                  *)
(***************************************************************************)
CONSTANTS Keys, TaskIds, NoTask

VARIABLES
  taskOf,    \* the task of each key
  phaseOf    \* how far each key has come

dispatchVars == <<taskOf, phaseOf>>

DispatchInit ==
  /\ taskOf = [k \in Keys |-> NoTask]
  /\ phaseOf = [k \in Keys |-> "none"]

Dispatch(k, id) ==
  /\ phaseOf[k] = "none"
  /\ \A other \in Keys : taskOf[other] # id
  /\ taskOf' = [taskOf EXCEPT ![k] = id]
  /\ phaseOf' = [phaseOf EXCEPT ![k] = "inflight"]

Settle(k) ==
  /\ phaseOf[k] = "inflight"
  /\ phaseOf' = [phaseOf EXCEPT ![k] = "settled"]
  /\ UNCHANGED taskOf

DispatchNext == \E k \in Keys : Settle(k) \/ \E id \in TaskIds : Dispatch(k, id)

DispatchSpec == DispatchInit /\ [][DispatchNext]_dispatchVars

==============================================================================
