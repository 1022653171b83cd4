------------------------------ MODULE MCForkStack ------------------------------
(***************************************************************************)
(* An instance of ForkStack for TLC.                                       *)
(***************************************************************************)
EXTENDS ForkStack

CONSTANTS c1, c2

(* The policy of the repository, and one that allows everything. *)
Shipped ==
  [e \in Endpoints |->
     IF e = "agent"
     THEN [allow |-> {"eth_chainId", "eth_blockNumber", "evm_snapshot", "evm_revert"},
           deny  |-> {"evm_mine", "debug_traceCall"}]
     ELSE [allow |-> {"eth_chainId", "eth_blockNumber"},
           deny  |-> {"evm_snapshot", "evm_revert", "evm_mine", "debug_traceCall"}]]

Broadened == [e \in Endpoints |-> [allow |-> Methods, deny |-> {}]]

BothPolicies == {Shipped, Broadened}

Request(gate, endpoint, method, token) ==
  [gate |-> gate, endpoint |-> endpoint, method |-> method, token |-> token]

(* Requests that are served, refused for each reason, and not understood. *)
MixedOffers ==
  {Request("container", "agent", "evm_mine", "agent_token"),
   Request("container", "upstream", "evm_mine", "upstream_token"),
   Request("container", "upstream", "evm_revert", "upstream_token"),
   Request("host", "upstream", "evm_snapshot", "upstream_token"),
   Request("container", "upstream", "eth_blockNumber", "agent_token"),
   Request("container", "agent", "malformed", "none"),
   Request("host", "cross_check", "evm_mine", "upstream_token"),
   Request("host", "unknown", "eth_chainId", "agent_token")}

(* One request beside the two of pinned_fork, or two without it. *)
FewCalls ==
  {[c \in Callers |-> IF c \in Forkers THEN 2 ELSE 1],
   [c \in Callers |-> IF c \in Forkers THEN 0 ELSE 2]}

==============================================================================
