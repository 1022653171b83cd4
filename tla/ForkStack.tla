------------------------------- MODULE ForkStack -------------------------------
(***************************************************************************)
(* docker/compose.yaml: the bootstrap container prepares the upstream      *)
(* chain, gate_anvil forks it, the gate serves both to the sandbox.        *)
(***************************************************************************)
EXTENDS Bootstrap, RpcGate

stackVars == <<chainVars, bootVars, gateVars>>

StackTypeOK == ChainTypeOK /\ BootTypeOK /\ GateTypeOK

StackInit == ChainInit /\ BootInit /\ GateInit

(* Nothing is under way any more. *)
rest ==
  /\ boot = "idle"
  /\ \A id \in Ids : handler[id].pc = "ended"
  /\ \A c \in Callers : caller[c].doing = "idle"
  /\ UNCHANGED stackVars

StackNext ==
  \/ BootNext /\ UNCHANGED gateVars
  \/ GateNext /\ UNCHANGED bootVars
  \/ rest

StackSpec == StackInit /\ [][StackNext]_stackVars

------------------------------------------------------------------------------
(* Once gate_anvil has forked it, nothing that comes through a gate changes  *)
(* the upstream chain, although the policy file may be edited to allow       *)
(* every method and the gates restarted with it.  evm_revert is not among    *)
(* the methods the code bars, but a gate takes no snapshot that differs.     *)
UpstreamFrozen == [][fork # Nil => upstream' = upstream]_stackVars

(* do_POST could route and read the request. *)
Understood(id) == handler[id].request.gate = "host" \/ handler[id].status \notin {400, 404}

(* An answer a handler gave was logged before: every request that was        *)
(* answered has exactly one line, with the status of the answer, even if     *)
(* gates are killed, the disk fills up or the caller gave up.  Only what the *)
(* container's do_POST cannot route or read is answered without a line.      *)
AnsweredIsLogged ==
  \A id \in Ids :
    /\ Len(log[id]) <= 1
    /\ handler[id].delivered /\ Understood(id) =>
         Len(log[id]) = 1 /\ log[id][1].status = handler[id].status

(* The log tells the truth about the chains.  A line that says allowed is of    *)
(* a request that was sent to its chain, and one with 200 of a request the   *)
(* chain has performed.  A line that says not allowed is of a request no     *)
(* chain ever acts on, not even late, with one exception: the container's    *)
(* allowed is status < 400, so its line of a request whose answer was lost   *)
(* or late says 502 and not allowed, and the chain may have performed it.    *)
(* A refusal, 401, 403 or 404, is never that case.                           *)
LogTellsTruth ==
  \A id \in Ids :
    \A i \in 1..Len(log[id]) :
      LET line == log[id][i]
          sent == handler[id].sent
      IN  /\ line.allowed => sent # "no"
          /\ line.status = 200 => line.allowed /\ sent = "performed"
          /\ line.status \in {401, 403, 404} => ~line.allowed
          /\ ~line.allowed => \/ sent = "no"
                             \/ /\ handler[id].request.gate = "container"
                                /\ line.status = 502

(* A caller that was given a Fork is on a chain whose pinned block holds the *)
(* fixture: an error or a lost answer, which counts as block 0, is never     *)
(* taken for the pinned block.                                               *)
PinnedForkHolds ==
  \A c \in Callers :
    caller[c].pinned = "fork" =>
      /\ FixtureAt(fork, FORK_BLOCK)
      /\ \E id \in Ids : /\ handler[id].request.method = "eth_blockNumber"
                         /\ handler[id].delivered
                         /\ handler[id].result = FORK_BLOCK

==============================================================================
