-------------------------- MODULE HypothesisLifecycle --------------------------
(***************************************************************************)
(* What the store promises about hypotheses, without events, copies or     *)
(* triggers: each one is absent, then OPEN, then moves one legal edge at a *)
(* time, each move accounted for exactly once.                             *)
(***************************************************************************)
EXTENDS Lifecycle

CONSTANT Hyps

VARIABLES
  status,   \* the state of each hypothesis
  moves     \* how many state changes the record of each hypothesis holds

lifecycleVars == <<status, moves>>

LifecycleInit ==
  /\ status = [h \in Hyps |-> "ABSENT"]
  /\ moves = [h \in Hyps |-> 0]

Create(h) ==
  /\ status[h] = "ABSENT"
  /\ status' = [status EXCEPT ![h] = "OPEN"]
  /\ UNCHANGED moves

Move(h, new_state) ==
  /\ status[h] # "ABSENT"
  /\ new_state \in LEGAL_TRANSITIONS[status[h]]
  /\ status' = [status EXCEPT ![h] = new_state]
  /\ moves' = [moves EXCEPT ![h] = @ + 1]

LifecycleNext ==
  \E h \in Hyps : Create(h) \/ \E new_state \in HState : Move(h, new_state)

LifecycleSpec == LifecycleInit /\ [][LifecycleNext]_lifecycleVars

==============================================================================
