--------------------------------- MODULE Chain ---------------------------------
(***************************************************************************)
(* The two chains of docker/compose.yaml: m1a_upstream, which the fixture  *)
(* is deployed on, and gate_anvil, a fork of it at block FORK_BLOCK.       *)
(* A chain is the sequence of its blocks after the genesis block, and its  *)
(* head is its length.  Anvil itself is external.                          *)
(***************************************************************************)
EXTENDS Integers, Sequences

CONSTANTS
  FORK_BLOCK,     \* --fork-block-number of gate_anvil
  Nil             \* nothing: no fork, no policy, no answer

VARIABLES
  upstream,       \* the blocks of m1a_upstream
  fork,           \* the blocks of gate_anvil, Nil until it runs
  snapshots       \* per chain, the heads at which evm_snapshot was called

chainVars == <<upstream, fork, snapshots>>

(* What one block holds: the target's creation, its funding, a transaction *)
(* that reverted, or nothing of interest.                                  *)
Blocks == {"deploy", "fund", "reverted", "mined"}

Chains == Seq(Blocks)

ChainTypeOK ==
  /\ upstream \in Chains
  /\ fork \in Chains \cup {Nil}
  /\ snapshots \in [{"upstream", "fork"} -> SUBSET Nat]

ChainInit ==
  /\ upstream = <<>>
  /\ fork = Nil
  /\ snapshots = [chain \in {"upstream", "fork"} |-> {}]

Height(chain) == Len(chain)

(* Block k of the chain sees what the blocks up to k hold. *)
HoldsAt(chain, block, k) == \E i \in 1..Len(chain) : i <= k /\ chain[i] = block

(* The fixture as the deployed_fork witness needs it: created and funded. *)
FixtureAt(chain, k) == HoldsAt(chain, "deploy", k) /\ HoldsAt(chain, "fund", k)

==============================================================================
