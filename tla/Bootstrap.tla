------------------------------- MODULE Bootstrap -------------------------------
(***************************************************************************)
(* docker/m1a_bootstrap.py: the container that puts the fixture on the     *)
(* upstream chain, and gate_anvil, which compose starts once it succeeded. *)
(*                                                                         *)
(* Every RPC may fail before the upstream acts on it or after: an answer   *)
(* that is lost or late is an exception, and main has no handler for it.   *)
(* The chain lives on when the container is killed or run again; a call of *)
(* a container that is gone is acted on at once or not at all.             *)
(***************************************************************************)
EXTENDS Chain

(* compose.yaml pins block 3: at or after the funding, before the head. *)
ASSUME PinnedBlock == FORK_BLOCK \in 2..3

VARIABLES
  boot,       \* where main is
  exit        \* the exit status of the last run: 0, 1 or Nil

bootVars == <<boot, exit>>

Booting == {"nonce", "build", "deploy", "fund", "mine", "mine_again", "head", "ready"}

BootTypeOK ==
  /\ boot \in {"idle"} \cup Booting
  /\ exit \in {0, 1, Nil}

BootInit ==
  /\ boot = "idle"
  /\ exit = Nil

------------------------------------------------------------------------------
Return(status) ==
  /\ boot' = "idle"
  /\ exit' = status

Raise == Return(1)

(* The container is run, again if need be, until the rest of the stack is up; *)
(* it waits for the upstream to answer.                                       *)
boot_start ==
  /\ boot = "idle"
  /\ fork = Nil
  /\ boot' = "nonce"
  /\ exit' = Nil
  /\ UNCHANGED chainVars

(* The account's nonce is 0: no block holds a transaction of it. *)
fresh == \A i \in 1..Len(upstream) : upstream[i] = "mined"

already_deployedAnyHead == HoldsAt(upstream, "deploy", Len(upstream))

already_deployed == HoldsAt(upstream, "deploy", Len(upstream)) /\ Height(upstream) >= 4

(* Only a fresh chain is built on; another one is taken as it is or refused. *)
check_nonce ==
  /\ boot = "nonce"
  /\ IF fresh
     THEN boot' = "build" /\ UNCHANGED exit
     ELSE IF already_deployed THEN Return(0) ELSE Raise
  /\ UNCHANGED chainVars

build ==
  /\ boot = "build"
  /\ boot' = "deploy"
  /\ UNCHANGED <<chainVars, exit>>

(* One call that adds a block; send also waits for the receipt. *)
rpc(where, block, next) ==
  /\ boot = where
  /\ upstream' = Append(upstream, block)
  /\ boot' = next
  /\ UNCHANGED <<fork, snapshots, exit>>

(* The target's address is the one expected of the account's first transaction. *)
deploy == fresh /\ rpc("deploy", "deploy", "fund")

fund == rpc("fund", "fund", "mine")

mine == rpc("mine", "mined", "mine_again") \/ rpc("mine_again", "mined", "head")

check_head ==
  /\ boot = "head"
  /\ IF Height(upstream) = 4 THEN boot' = "ready" /\ UNCHANGED exit ELSE Raise
  /\ UNCHANGED chainVars

(* Nothing reads m1a-upstream-ready.json. *)
write_ready ==
  /\ boot = "ready"
  /\ Return(0)
  /\ UNCHANGED chainVars

(* What a call in progress would have added, were it performed. *)
Pending ==
  {block \in Blocks :
     \/ boot \in {"deploy", "fund"} /\ block \in {boot, "reverted"}
     \/ boot \in {"mine", "mine_again"} /\ block = "mined"}

(* A call raises, a transaction reverts or the container is killed, and the   *)
(* upstream has acted on the call in progress or has not.                     *)
boot_fails ==
  /\ boot # "idle"
  /\ Raise
  /\ \/ UNCHANGED upstream
     \/ \E block \in Pending : upstream' = Append(upstream, block)
  /\ UNCHANGED <<fork, snapshots>>

(* gate_anvil: service_completed_successfully of the container. *)
start_fork ==
  /\ exit = 0
  /\ fork = Nil
  /\ Height(upstream) >= FORK_BLOCK
  /\ fork' = SubSeq(upstream, 1, FORK_BLOCK)
  /\ UNCHANGED <<upstream, snapshots, bootVars>>

MainStep ==
  check_nonce \/ build \/ deploy \/ fund \/ mine \/ check_head \/ write_ready \/ boot_fails

BootNext == boot_start \/ MainStep \/ start_fork

------------------------------------------------------------------------------
(* A run that exits with 0 leaves a chain on which the pinned block sees the *)
(* target created and funded, and on which there is a later block, although  *)
(* earlier runs may have been killed between any two calls, and calls whose  *)
(* answer was lost may have been performed.                                  *)
BootstrapDelivers ==
  exit = 0 => FixtureAt(upstream, FORK_BLOCK) /\ Height(upstream) > FORK_BLOCK

==============================================================================
