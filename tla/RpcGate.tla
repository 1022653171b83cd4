-------------------------------- MODULE RpcGate --------------------------------
(***************************************************************************)
(* docker/rpc_gate.py, the gate between the sandbox and the two chains,    *)
(* chain/rpc_gate.py, the gate a host process uses, with its client, and   *)
(* chain/fork.py.                                                          *)
(*                                                                         *)
(* Requests are handled by threads that share the policy and the log.  A   *)
(* step of a handler ends where another thread, the chain, the disk or a   *)
(* kill can come in between.  The server's and the client's timeouts are   *)
(* equal, so either may give up first, and a call that one of them gave up *)
(* on may still be performed.                                              *)
(***************************************************************************)
EXTENDS Chain

CONSTANTS
  Callers,        \* clients of the gates
  Forkers,        \* those that run pinned_fork
  Offers,         \* requests they make
  PolicyFiles,    \* contents rpc_allowlist.yaml may have
  Budgets,        \* numbers of requests the callers may make
  MaxFaults       \* kills of a gate and failures to write the log

Gates == {"container", "host"}

Endpoints == {"agent", "upstream", "cross_check"}

(* Methods by what sets them apart: whether they add blocks or take them back, *)
(* and whether a prefix of a gate's _WRITE_OR_ADMIN_PREFIXES matches them.     *)
Methods ==
  {"eth_chainId", "eth_blockNumber", "evm_snapshot", "evm_revert", "evm_mine", "debug_traceCall"}

WriteOrAdminContainerNoMine == {"debug_traceCall"}

(* Each gate's own list, as the container has it and as the host has it. *)
WriteOrAdminContainer == {"evm_mine", "debug_traceCall"}

WriteOrAdminHost == {"evm_mine", "debug_traceCall"}

(* A policy gives the methods every endpoint allows and those its             *)
(* deny_prefixes match.                                                       *)
Policies == [Endpoints -> [allow : SUBSET Methods, deny : SUBSET Methods]]

(* The token a request carries, as Bearer, Basic or bare. *)
Tokens == {"agent_token", "upstream_token", "none"}

Requests ==
  [gate : Gates, endpoint : Endpoints \cup {"unknown"}, method : Methods \cup {"malformed"},
   token : Tokens]

ASSUME GateConstants ==
  /\ Offers \subseteq Requests
  /\ PolicyFiles \subseteq Policies
  /\ FORK_BLOCK \in Nat \ {0}
  /\ Forkers \subseteq Callers
  /\ Budgets \subseteq [Callers -> Nat]
  /\ MaxFaults \in Nat
  /\ Nil \notin Requests \cup Policies \cup Chains \cup Int

VARIABLES
  loaded,         \* per gate, the policy it runs with, Nil while it does not run
  handler,        \* the handlers, in the order their requests came in
  log,            \* the lines of the audit logs, by the request they are of
  caller,         \* what each caller is doing
  faults

gateVars == <<loaded, handler, log, caller, faults>>

Ids == 1..Len(handler)

Idle(left) == [doing |-> "idle", id |-> 0, left |-> left, chain |-> Nil, pinned |-> "no"]

Handling == {"authorize", "pending", "log", "reply"}

Handlers ==
  [request : Requests, pc : Handling \cup {"ended"}, status : {0, 200, 400, 401, 403, 404, 502},
   sent : {"no", "inflight", "performed"}, result : Int \cup {Nil}, delivered : BOOLEAN]

GateTypeOK ==
  /\ loaded \in [Gates -> PolicyFiles \cup {Nil}]
  /\ handler \in Seq(Handlers)
  /\ log \in Seq(Seq([status : Nat, allowed : BOOLEAN]))
  /\ caller \in [Callers -> [doing : {"idle", "call", "chain", "block"},
                             id : Nat, left : Nat, chain : Int \cup {Nil},
                             pinned : {"no", "raised", "fork"}]]
  /\ faults \in 0..MaxFaults

GateInit ==
  /\ loaded = [g \in Gates |-> Nil]
  /\ handler = <<>>
  /\ log = <<>>
  /\ \E budget \in Budgets : caller = [c \in Callers |-> Idle(budget[c])]
  /\ faults = 0

------------------------------------------------------------------------------
(***************************************************************************)
(* The decision, as each of the two gates makes it.                        *)
(***************************************************************************)
expected_token(endpoint) == IF endpoint = "agent" THEN "agent_token" ELSE "upstream_token"

authorize(policy, request) ==
  LET cfg == policy[request.endpoint]
  IN  CASE request.endpoint \notin Endpoints                -> 404
        [] request.token # expected_token(request.endpoint) -> 401
        [] request.method \in cfg.deny                      -> 403
        [] /\ request.endpoint \in {"upstream", "cross_check"}
           /\ request.method \in WriteOrAdminContainer      -> 403
        [] request.method \notin cfg.allow                  -> 403
        [] OTHER                                            -> 200

decision(policy, request) ==
  CASE request.endpoint \notin Endpoints                              -> 404
    [] request.token # expected_token(request.endpoint)               -> 401
    [] request.method \in policy[request.endpoint].deny               -> 403
    [] /\ request.endpoint \in {"upstream", "cross_check"}
       /\ request.method \in WriteOrAdminHost                         -> 403
    [] request.method \notin policy[request.endpoint].allow           -> 403
    [] OTHER                                                          -> 200

Decide(policy, request) ==
  IF request.gate = "container" THEN authorize(policy, request) ELSE decision(policy, request)

------------------------------------------------------------------------------
(***************************************************************************)
(* Callers.  A call puts a handler to work; do_POST answers a path it does *)
(* not know and a body it cannot read at once, without a log line.         *)
(***************************************************************************)
Received(request) ==
  [request |-> request,
   pc |-> IF /\ request.gate = "container"
             /\ request.endpoint = "unknown" \/ request.method = "malformed"
          THEN "reply" ELSE "authorize",
   status |-> CASE request.gate = "host"          -> 0
                [] request.endpoint = "unknown"   -> 404
                [] request.method = "malformed"   -> 400
                [] OTHER                          -> 0,
   sent |-> "no", result |-> Nil, delivered |-> FALSE]

Send(c, doing, request) ==
  /\ caller[c].left > 0
  /\ loaded[request.gate] # Nil
  /\ handler' = Append(handler, Received(request))
  /\ log' = Append(log, <<>>)
  /\ caller' = [caller EXCEPT ![c].doing = doing, ![c].id = Len(handler'),
                             ![c].left = @ - 1]

call(c, request) ==
  /\ caller[c].doing = "idle"
  /\ Send(c, "call", request)
  /\ UNCHANGED <<chainVars, loaded, faults>>

AgentRequest(method) ==
  [gate |-> "container", endpoint |-> "agent", method |-> method, token |-> "agent_token"]

(* pinned_fork makes its two calls before it looks at either answer. *)
pinned_fork(c) ==
  /\ caller[c].doing = "idle"
  /\ caller[c].pinned = "no"
  /\ Send(c, "chain", AgentRequest("eth_chainId"))
  /\ UNCHANGED <<chainVars, loaded, faults>>

ask_block(c) ==
  /\ caller[c].doing = "chain"
  /\ caller[c].id = 0
  /\ \/ Send(c, "block", AgentRequest("eth_blockNumber"))
     \/ /\ loaded["container"] = Nil
        /\ caller' = [caller EXCEPT ![c] = [Idle(caller[c].left) EXCEPT !.pinned = "raised"]]
        /\ UNCHANGED <<handler, log>>
  /\ UNCHANGED <<chainVars, loaded, faults>>

ChainId == 31337

(* chain.get("result", "0x0") *)
result_or_zeroExpected(result, expected) == IF result = Nil THEN expected ELSE result

result_or_zero(result, expected) == IF result = Nil THEN 0 ELSE result

(* What becomes of the answer of call id; an HTTP error, a broken connection *)
(* and the client's own timeout are one and the same to it: no result.       *)
Answer(c, result) ==
  LET chain_id == result_or_zero(caller[c].chain, ChainId)
      block_no == result_or_zero(result, FORK_BLOCK)
      answered == CASE caller[c].doing = "chain" -> [caller[c] EXCEPT !.id = 0, !.chain = result]
                    [] caller[c].doing = "block" ->
                         [Idle(caller[c].left) EXCEPT !.pinned = IF chain_id = ChainId /\ block_no = FORK_BLOCK
                                                              THEN "fork" ELSE "raised"]
                    [] OTHER                     -> [caller[c] EXCEPT !.doing = "idle", !.id = 0]
  IN  caller' = [caller EXCEPT ![c] = answered]

(* The client's timeout, or its connection breaks. *)
give_up(c) ==
  /\ caller[c].id # 0
  /\ Answer(c, Nil)
  /\ UNCHANGED <<chainVars, loaded, handler, log, faults>>

------------------------------------------------------------------------------
(***************************************************************************)
(* Handlers.                                                               *)
(***************************************************************************)
At(id, where) == handler[id].pc = where

Set(id, updated) == handler' = [handler EXCEPT ![id] = updated]

Allowed(id) == Decide(loaded[handler[id].request.gate], handler[id].request) = 200

(* A refused request is logged and answered; it goes nowhere. *)
refuse(id) ==
  /\ At(id, "authorize")
  /\ ~Allowed(id)
  /\ Set(id, [handler[id] EXCEPT !.pc = "log",
                !.status = Decide(loaded[handler[id].request.gate], handler[id].request)])
  /\ UNCHANGED <<chainVars, loaded, log, caller, faults>>

(* Any other is posted to the chain behind the endpoint. *)
forward(id) ==
  /\ At(id, "authorize")
  /\ Allowed(id)
  /\ Set(id, [handler[id] EXCEPT !.pc = "pending", !.sent = "inflight"])
  /\ UNCHANGED <<chainVars, loaded, log, caller, faults>>

(* The chain behind the endpoint acts on the request, whoever still waits.    *)
(* evm_revert goes back to a snapshot, or nowhere if it names none.           *)
(* The host gate posts to a URL its caller passes, taken to be the endpoint's.*)
perform(id) ==
  LET agent == handler[id].request.endpoint = "agent"
      method == handler[id].request.method
      chain == IF agent THEN fork ELSE upstream
      name == IF agent THEN "fork" ELSE "upstream"
      heads == {Height(chain)} \cup (IF method = "evm_revert" THEN snapshots[name] ELSE {})
  IN  /\ handler[id].sent = "inflight"
      /\ chain # Nil
      /\ \E head \in heads :
           LET after == IF method = "evm_mine" THEN Append(chain, "mined")
                        ELSE SubSeq(chain, 1, head)
           IN  /\ fork' = IF agent THEN after ELSE fork
               /\ upstream' = IF agent THEN upstream ELSE after
               /\ snapshots' = [snapshots EXCEPT ![name] =
                                  IF method = "evm_snapshot" THEN @ \cup heads
                                  ELSE {h \in @ : h <= Len(after)}]
      /\ Set(id, [handler[id] EXCEPT !.sent = "performed",
                                     !.result = CASE method = "eth_chainId"     -> ChainId
                                                  [] method = "eth_blockNumber" -> Height(chain)
                                                  [] OTHER                      -> 0])
      /\ UNCHANGED <<loaded, log, caller, faults>>

response(id) ==
  /\ At(id, "pending")
  /\ handler[id].sent = "performed"
  /\ Set(id, [handler[id] EXCEPT !.pc = "log", !.status = 200])
  /\ UNCHANGED <<chainVars, loaded, log, caller, faults>>

no_responseUnlogged(id) ==
  /\ At(id, "pending")
  /\ Set(id, [handler[id] EXCEPT !.pc = "reply", !.status = 502, !.result = Nil])
  /\ UNCHANGED <<chainVars, loaded, log, caller, faults>>

no_responseTimeout(id) ==
  /\ At(id, "pending")
  /\ Set(id, [handler[id] EXCEPT !.pc = "log", !.status = 504])
  /\ UNCHANGED <<chainVars, loaded, log, caller, faults>>

(* No connection, the 30 seconds are over, or the answer is not JSON: 502. *)
no_response(id) ==
  /\ At(id, "pending")
  /\ Set(id, [handler[id] EXCEPT !.pc = "log", !.status = 502])
  /\ UNCHANGED <<chainVars, loaded, log, caller, faults>>

log_allowedUnlessForbidden(request, status) == status # 403

(* The container takes every error status for not allowed, the host gate      *)
(* only a refusal.                                                            *)
log_allowed(request, status) ==
  IF request.gate = "container" THEN status < 400 ELSE status \in {200, 502}

log_line(id) ==
  [status |-> handler[id].status,
   allowed |-> log_allowed(handler[id].request, handler[id].status)]

write_log(id) ==
  /\ At(id, "log")
  /\ log' = [log EXCEPT ![id] = Append(@, log_line(id))]
  /\ Set(id, [handler[id] EXCEPT !.pc = "reply"])
  /\ UNCHANGED <<chainVars, loaded, caller, faults>>

(* The disk is full: the exception ends the handler, unanswered. *)
log_raises(id) ==
  /\ At(id, "log")
  /\ faults < MaxFaults
  /\ Set(id, [handler[id] EXCEPT !.pc = "ended"])
  /\ faults' = faults + 1
  /\ UNCHANGED <<chainVars, loaded, log, caller>>

(* _write_json, which a caller that gave up does not read; urlopen raises for *)
(* any status but 200.                                                        *)
reply(id) ==
  /\ At(id, "reply")
  /\ Set(id, [handler[id] EXCEPT !.pc = "ended", !.delivered = TRUE])
  /\ \/ \E c \in Callers :
          /\ caller[c].id = id
          /\ Answer(c, IF handler[id].status = 200 THEN handler[id].result ELSE Nil)
     \/ /\ \A c \in Callers : caller[c].id # id
        /\ UNCHANGED caller
  /\ UNCHANGED <<chainVars, loaded, log, faults>>

HandlerStep(id) ==
  \/ refuse(id) \/ forward(id) \/ response(id) \/ no_response(id)
  \/ write_log(id) \/ log_raises(id) \/ reply(id)

------------------------------------------------------------------------------
(***************************************************************************)
(* The gates start and stop.                                               *)
(***************************************************************************)

(* GateState and RpcGate.__init__ load the policy once, as the file is then;   *)
(* both are started when gate_anvil runs.                                     *)
start(g) ==
  /\ loaded[g] = Nil
  /\ fork # Nil
  /\ \E policy \in PolicyFiles : loaded' = [loaded EXCEPT ![g] = policy]
  /\ UNCHANGED <<chainVars, handler, log, caller, faults>>

(* The process is killed, and its threads with it. *)
kill(g) ==
  /\ faults < MaxFaults
  /\ loaded[g] # Nil
  /\ loaded' = [loaded EXCEPT ![g] = Nil]
  /\ handler' = [id \in Ids |-> IF handler[id].request.gate = g
                                THEN [handler[id] EXCEPT !.pc = "ended"] ELSE handler[id]]
  /\ faults' = faults + 1
  /\ UNCHANGED <<chainVars, log, caller>>

CallerStep(c) ==
  \/ c \notin Forkers /\ \E request \in Offers : call(c, request)
  \/ c \in Forkers /\ (pinned_fork(c) \/ ask_block(c))
  \/ give_up(c)

GateNext ==
  \/ \E c \in Callers : CallerStep(c)
  \/ \E id \in Ids : HandlerStep(id) \/ perform(id)
  \/ \E g \in Gates : start(g) \/ kill(g)

==============================================================================
