---------------------------- MODULE ForkStackProofs ----------------------------
(***************************************************************************)
(* Proofs about ForkStack, for any callers, requests, policies and bounds. *)
(*                                                                         *)
(* The argument: the height of the upstream tells how far the bootstrap    *)
(* ever came, and a chain a run was killed on never reaches the height at  *)
(* which another run takes it for finished (BootInv); the gates run only   *)
(* once the fork does, and the snapshots a gate takes are of the heads the *)
(* chains then have (ForkInv); a handler's place tells what it was logged  *)
(* with and what the chain has been sent (HandlerOK); and what a caller    *)
(* waits for is the answer to its own question (CallerOK).                 *)
(***************************************************************************)
EXTENDS ForkStack, SequenceTheorems, TLAPS

(* The fixture is the first two blocks. *)
Funded(chain) == Len(chain) >= 2 /\ chain[1] = "deploy" /\ chain[2] = "fund"

(* How high the upstream is wherever main is, and what its first two blocks are. *)
BootOK(height, first, second, where, status) ==
  /\ height <= 4
  /\ height >= 1 => first # "mined"
  /\ height >= 3 => first = "deploy" /\ second = "fund"
  /\ where \in {"build", "deploy"} => height = 0
  /\ where = "fund" => height = 1 /\ first = "deploy"
  /\ where = "mine" => height = 2 /\ first = "deploy" /\ second = "fund"
  /\ where = "mine_again" => height = 3
  /\ where \in {"head", "ready"} => height = 4
  /\ status = 0 => where = "idle" /\ height = 4

(* What becomes of the first two blocks when there is one more. *)
Grows(height, first, second, block, first1, second1) ==
  /\ height = 0 => first1 = block
  /\ height = 1 => second1 = block
  /\ height >= 1 => first1 = first
  /\ height >= 2 => second1 = second

(* The call at this place of main may add this block. *)
Adds(where, block) ==
  \/ where \in {"deploy", "fund"} /\ block \in {where, "reverted"}
  \/ where \in {"mine", "mine_again"} /\ block = "mined"

BootInv == BootOK(Len(upstream), upstream[1], upstream[2], boot, exit)

ForkInv ==
  /\ fork = Nil => /\ \A chain \in {"upstream", "fork"} : snapshots[chain] = {}
                   /\ Len(handler) = 0
                   /\ \A g \in Gates : loaded[g] = Nil
  /\ fork # Nil => /\ exit = 0
                   /\ Len(fork) >= FORK_BLOCK /\ Funded(fork)
                   /\ \A h \in snapshots["fork"] : h \in FORK_BLOCK..Len(fork)
                   /\ \A h \in snapshots["upstream"] : h = Len(upstream)

(* What a handler found out, by its status and what the chain was sent. *)
Decided(h) ==
  \/ h.status \in {401, 403, 404} /\ h.sent = "no"
  \/ h.status = 200 /\ h.sent = "performed"
  \/ h.status = 502 /\ h.sent # "no"

(* do_POST answers at once what it cannot route or read. *)
Unread(h) == h.request.gate = "container" /\ h.status \in {400, 404}

(* What its line says of allowed: the host gate counts a 502 in. *)
Cleared(h) == h.status = 200 \/ (h.status = 502 /\ h.request.gate = "host")

Logged(h, lines) ==
  /\ Len(lines) = 1
  /\ lines[1].status = h.status
  /\ lines[1].allowed <=> Cleared(h)
  /\ Decided(h)

(* What its gate bars from the upstream. *)
Barred(request) ==
  IF request.gate = "container" THEN WriteOrAdminContainer ELSE WriteOrAdminHost

(* What is sent to the upstream is nothing its gate bars from it. *)
Harmless(h) ==
  h.sent # "no" =>
    \/ h.request.endpoint = "agent"
    \/ /\ h.request.endpoint \in {"upstream", "cross_check"}
       /\ h.request.method \notin Barred(h.request)

HandlerOK(h, lines) ==
  /\ h.pc = "authorize" => h.sent = "no" /\ lines = <<>> /\ ~h.delivered
  /\ h.pc = "pending" => h.sent # "no" /\ lines = <<>> /\ ~h.delivered
  /\ h.pc = "log" => Decided(h) /\ lines = <<>> /\ ~h.delivered
  /\ h.pc = "reply" => (Unread(h) /\ lines = <<>>) \/ Logged(h, lines)
  /\ h.pc = "ended" => lines = <<>> \/ Logged(h, lines)
  /\ h.delivered => (Unread(h) /\ lines = <<>>) \/ Logged(h, lines)
  /\ h.result # Nil => h.sent = "performed"
  /\ Harmless(h)

HandlersInv ==
  /\ Len(log) = Len(handler)
  /\ \A id \in Ids : HandlerOK(handler[id], log[id])

(* Some handler told a caller that the head is the pinned block. *)
Told == \E id \in Ids : /\ handler[id].request.method = "eth_blockNumber"
                        /\ handler[id].delivered
                        /\ handler[id].result = FORK_BLOCK

CallerOK(r) ==
  /\ r.id <= Len(handler)
  /\ r.doing = "block" /\ r.id # 0 => handler[r.id].request.method = "eth_blockNumber"
  /\ r.pinned = "fork" => Told

CallersInv == \A c \in Callers : CallerOK(caller[c])

StackInv == StackTypeOK /\ BootInv /\ ForkInv /\ HandlersInv /\ CallersInv

------------------------------------------------------------------------------
(***************************************************************************)
(* The bootstrap.                                                          *)
(***************************************************************************)

(* One more block. *)
LEMMA Grown ==
  ASSUME NEW chain \in Chains, NEW block \in Blocks
  PROVE  /\ Append(chain, block) \in Chains
         /\ Len(chain) \in Nat
         /\ Len(Append(chain, block)) = Len(chain) + 1
         /\ Grows(Len(chain), chain[1], chain[2], block,
                  Append(chain, block)[1], Append(chain, block)[2])
<1> DEFINE grown == Append(chain, block)
           n == Len(chain)
<1>1. n \in Nat
  BY LenProperties DEF Chains
<1>2. /\ grown \in Seq(Blocks) /\ Len(grown) = n + 1 /\ grown[n + 1] = block
      /\ \A i \in 1..n : grown[i] = chain[i]
  BY AppendProperties DEF Chains
<1> HIDE DEF grown, n
<1>3. (n >= 1 => 1 \in 1..n) /\ (n >= 2 => 2 \in 1..n)
  BY <1>1
<1>4. Grows(n, chain[1], chain[2], block, grown[1], grown[2])
  BY <1>2, <1>3 DEF Grows
<1> QED
  BY <1>1, <1>2, <1>4 DEF Chains, grown, n

(* A step that leaves the upstream alone may move main wherever the height allows. *)
LEMMA BootMoves ==
  ASSUME StackInv, UNCHANGED <<chainVars, gateVars>>, BootTypeOK', BootInv', fork # Nil => exit' = 0
  PROVE  StackInv'
<1>1. StackTypeOK'
  BY DEF StackInv, StackTypeOK, ChainTypeOK, GateTypeOK, chainVars, gateVars
<1>2. ForkInv'
  BY DEF StackInv, ForkInv, Funded, chainVars, gateVars
<1>3. HandlersInv' /\ CallersInv'
  BY DEF StackInv, HandlersInv, CallersInv, CallerOK, Told, Ids, chainVars, gateVars
<1> QED
  BY <1>1, <1>2, <1>3 DEF StackInv

(* A block is added while there is no fork yet. *)
LEMMA BootGrows ==
  ASSUME StackInv, fork = Nil, NEW block \in Blocks, upstream' = Append(upstream, block),
         UNCHANGED <<fork, snapshots, gateVars>>, BootTypeOK', BootInv'
  PROVE  StackInv'
<1>1. StackTypeOK'
  BY Grown DEF StackInv, StackTypeOK, ChainTypeOK, GateTypeOK, gateVars
<1>2. ForkInv'
  BY DEF StackInv, ForkInv, gateVars
<1>3. HandlersInv' /\ CallersInv'
  BY DEF StackInv, HandlersInv, CallersInv, CallerOK, Told, Ids, gateVars
<1> QED
  BY <1>1, <1>2, <1>3 DEF StackInv

(* While main runs, there is no fork. *)
LEMMA NoForkYet ==
  ASSUME StackInv, boot # "idle"
  PROVE  fork = Nil /\ exit # 0
BY DEF StackInv, ForkInv, BootInv, BootOK

(* A fresh chain is an empty one. *)
LEMMA FreshIsEmpty ==
  ASSUME StackInv, fresh
  PROVE  Len(upstream) = 0
<1>1. upstream \in Chains /\ Len(upstream) \in Nat
  BY LenProperties DEF StackInv, StackTypeOK, ChainTypeOK, Chains
<1> QED
  BY <1>1 DEF StackInv, BootInv, BootOK, fresh

(* What a call adds fits the place main is at, whether main learns of it or not. *)
LEMMA BlockFits ==
  ASSUME NEW height \in Nat, NEW first, NEW second, NEW where, NEW status,
         BootOK(height, first, second, where, status), status # 0,
         NEW first1, NEW second1, NEW block,
         Grows(height, first, second, block, first1, second1)
  PROVE  /\ where = "deploy" /\ block = "deploy" => BootOK(height + 1, first1, second1, "fund", status)
         /\ where = "fund" /\ block = "fund" => BootOK(height + 1, first1, second1, "mine", status)
         /\ block = "mined" =>
              /\ where = "mine" => BootOK(height + 1, first1, second1, "mine_again", status)
              /\ where = "mine_again" => BootOK(height + 1, first1, second1, "head", status)
BY DEF BootOK, Grows

LEMMA LostBlockFits ==
  ASSUME NEW height \in Nat, NEW first, NEW second, NEW where, NEW status,
         BootOK(height, first, second, where, status),
         NEW first1, NEW second1, NEW block,
         Grows(height, first, second, block, first1, second1),
         Adds(where, block)
  PROVE  BootOK(height + 1, first1, second1, "idle", 1)
BY DEF BootOK, Grows, Adds

(* Every step of the bootstrap keeps the invariant. *)
LEMMA BootKeeps ==
  ASSUME StackInv, BootNext, UNCHANGED gateVars
  PROVE  StackInv'
<1>1. upstream \in Chains /\ Len(upstream) \in Nat
  BY LenProperties DEF StackInv, StackTypeOK, ChainTypeOK, Chains
<1>2. Nil \notin Int
  BY GateConstants
<1>3. CASE boot_start
  <2>1. BootTypeOK' /\ BootInv'
    BY <1>1, <1>2, <1>3 DEF boot_start, StackInv, StackTypeOK, BootTypeOK, BootInv, BootOK, Booting, chainVars
  <2> QED
    BY <1>3, <2>1, BootMoves DEF boot_start, chainVars
<1>4. CASE check_nonce
  <2>1. boot' = "build" => Len(upstream) = 0
    BY <1>4, FreshIsEmpty DEF check_nonce, Return, Raise
  <2>2. exit' = 0 => boot' = "idle" /\ Len(upstream) = 4
    <3>1. exit # 0
      BY <1>4, NoForkYet DEF check_nonce
    <3>2. exit' = 0 => boot' = "idle" /\ Len(upstream) >= 4
      BY <1>4, <3>1 DEF check_nonce, Return, Raise, already_deployed, Height
    <3>3. Len(upstream) <= 4
      BY DEF StackInv, BootInv, BootOK
    <3>4. \A n \in Nat : n <= 4 /\ n >= 4 => n = 4
      OBVIOUS
    <3> QED
      BY <1>1, <3>2, <3>3, <3>4
  <2>3. BootTypeOK' /\ BootInv'
    BY <1>1, <1>2, <1>4, <2>1, <2>2 DEF check_nonce, Return, Raise, StackInv, StackTypeOK, BootTypeOK, BootInv, BootOK, Booting, chainVars
  <2> QED
    BY <1>4, <2>3, BootMoves, NoForkYet DEF check_nonce, chainVars
<1>5. CASE build
  <2>1. BootTypeOK' /\ BootInv'
    BY <1>1, <1>2, <1>5 DEF build, StackInv, StackTypeOK, BootTypeOK, BootInv, BootOK, Booting, chainVars
  <2> QED
    BY <1>5, <2>1, BootMoves, NoForkYet DEF build, chainVars
<1>6. CASE deploy
  <2>1. "deploy" \in Blocks
    BY DEF Blocks
  <2>2. upstream' = Append(upstream, "deploy") /\ UNCHANGED <<fork, snapshots>>
    BY <1>6 DEF deploy, rpc
  <2>3. /\ boot = "deploy" /\ boot' = "fund"
        /\ exit' = exit /\ exit # 0
    BY <1>6, NoForkYet DEF deploy, rpc
  <2>4. BootTypeOK'
    BY <2>3 DEF StackInv, StackTypeOK, BootTypeOK, Booting
  <2>5. /\ Len(upstream') = Len(upstream) + 1
        /\ Grows(Len(upstream), upstream[1], upstream[2], "deploy", upstream'[1], upstream'[2])
    BY <1>1, <2>1, <2>2, Grown
  <2>6. BootOK(Len(upstream), upstream[1], upstream[2], boot, exit)
    BY DEF StackInv, BootInv
  <2>7. BootOK(Len(upstream) + 1, upstream'[1], upstream'[2], "fund", exit)
    BY <1>1, <2>3, <2>5, <2>6, BlockFits
  <2>8. BootInv'
    BY <2>3, <2>5, <2>7 DEF BootInv
  <2> QED
    BY <2>1, <2>2, <2>3, <2>4, <2>8, BootGrows, NoForkYet
<1>7. CASE fund
  <2>1. "fund" \in Blocks
    BY DEF Blocks
  <2>2. upstream' = Append(upstream, "fund") /\ UNCHANGED <<fork, snapshots>>
    BY <1>7 DEF fund, rpc
  <2>3. /\ boot = "fund" /\ boot' = "mine"
        /\ exit' = exit /\ exit # 0
    BY <1>7, NoForkYet DEF fund, rpc
  <2>4. BootTypeOK'
    BY <2>3 DEF StackInv, StackTypeOK, BootTypeOK, Booting
  <2>5. /\ Len(upstream') = Len(upstream) + 1
        /\ Grows(Len(upstream), upstream[1], upstream[2], "fund", upstream'[1], upstream'[2])
    BY <1>1, <2>1, <2>2, Grown
  <2>6. BootOK(Len(upstream), upstream[1], upstream[2], boot, exit)
    BY DEF StackInv, BootInv
  <2>7. BootOK(Len(upstream) + 1, upstream'[1], upstream'[2], "mine", exit)
    BY <1>1, <2>3, <2>5, <2>6, BlockFits
  <2>8. BootInv'
    BY <2>3, <2>5, <2>7 DEF BootInv
  <2> QED
    BY <2>1, <2>2, <2>3, <2>4, <2>8, BootGrows, NoForkYet
<1>8. CASE mine
  <2>1. "mined" \in Blocks
    BY DEF Blocks
  <2>2. upstream' = Append(upstream, "mined") /\ UNCHANGED <<fork, snapshots>>
    BY <1>8 DEF mine, rpc
  <2>3. /\ \/ boot = "mine" /\ boot' = "mine_again"
           \/ boot = "mine_again" /\ boot' = "head"
        /\ exit' = exit /\ exit # 0
    BY <1>8, NoForkYet DEF mine, rpc
  <2>4. BootTypeOK'
    BY <2>3 DEF StackInv, StackTypeOK, BootTypeOK, Booting
  <2>5. /\ Len(upstream') = Len(upstream) + 1
        /\ Grows(Len(upstream), upstream[1], upstream[2], "mined", upstream'[1], upstream'[2])
    BY <1>1, <2>1, <2>2, Grown
  <2>6. BootOK(Len(upstream), upstream[1], upstream[2], boot, exit)
    BY DEF StackInv, BootInv
  <2>7. BootOK(Len(upstream) + 1, upstream'[1], upstream'[2], boot', exit)
    <3>1. CASE boot = "mine" /\ boot' = "mine_again"
      BY <1>1, <2>3, <2>5, <2>6, <3>1, BlockFits
    <3>2. CASE boot = "mine_again" /\ boot' = "head"
      BY <1>1, <2>3, <2>5, <2>6, <3>2, BlockFits
    <3> QED
      BY <2>3, <3>1, <3>2
  <2>8. BootInv'
    BY <2>3, <2>5, <2>7 DEF BootInv
  <2> QED
    BY <2>1, <2>2, <2>3, <2>4, <2>8, BootGrows, NoForkYet
<1>9. CASE check_head \/ write_ready
  <2>1. BootTypeOK' /\ BootInv'
    BY <1>1, <1>2, <1>9 DEF check_head, write_ready, Return, Raise, StackInv, StackTypeOK, BootTypeOK, BootInv, BootOK, Booting, chainVars
  <2> QED
    BY <1>9, <2>1, BootMoves, NoForkYet DEF check_head, write_ready, chainVars
<1>10. CASE boot_fails
  <2>1. CASE UNCHANGED upstream
    <3>1. BootTypeOK' /\ BootInv'
      BY <1>1, <1>2, <1>10, <2>1 DEF boot_fails, Return, Raise, StackInv, StackTypeOK, BootTypeOK, BootInv, BootOK, Booting
    <3> QED
      BY <1>10, <2>1, <3>1, BootMoves, NoForkYet DEF boot_fails, chainVars
  <2>2. ASSUME NEW block \in Pending, upstream' = Append(upstream, block)
        PROVE  StackInv'
    <3>1. block \in Blocks
      BY <2>2 DEF Pending
    <3>2. /\ boot' = "idle" /\ exit' = 1 /\ boot # "idle" /\ exit # 0
          /\ Adds(boot, block)
      BY <1>10, <2>2, NoForkYet DEF boot_fails, Pending, Adds, Return, Raise
    <3>3. BootTypeOK'
      BY <3>2 DEF BootTypeOK
    <3>4. /\ Len(upstream') = Len(upstream) + 1
          /\ Grows(Len(upstream), upstream[1], upstream[2], block, upstream'[1], upstream'[2])
      BY <1>1, <2>2, <3>1, Grown
    <3>5. BootOK(Len(upstream), upstream[1], upstream[2], boot, exit)
      BY DEF StackInv, BootInv
    <3>6. BootOK(Len(upstream) + 1, upstream'[1], upstream'[2], "idle", 1)
      BY <1>1, <3>2, <3>4, <3>5, LostBlockFits
    <3>7. BootInv'
      BY <3>2, <3>4, <3>6 DEF BootInv
    <3> QED
      BY <1>10, <2>2, <3>1, <3>3, <3>7, BootGrows, NoForkYet DEF boot_fails
  <2> QED
    BY <1>10, <2>1, <2>2 DEF boot_fails
<1>11. CASE start_fork
  <2> DEFINE blocks == SubSeq(upstream, 1, FORK_BLOCK)
  <2>1. FORK_BLOCK \in 2..3 /\ Len(upstream) = 4 /\ Funded(upstream)
    BY <1>1, <1>11, PinnedBlock DEF start_fork, StackInv, BootInv, BootOK, Funded
  <2>2. \A i \in 1..FORK_BLOCK : upstream[i] \in Blocks
    <3>1. \A i \in 1..Len(upstream) : upstream[i] \in Blocks
      BY <1>1, ElementOfSeq DEF Chains
    <3> QED
      BY <2>1, <3>1
  <2>3. blocks \in Chains /\ Len(blocks) = FORK_BLOCK /\ blocks[1] = upstream[1] /\ blocks[2] = upstream[2]
    BY <2>1, <2>2, SubSeqProperties DEF Chains
  <2>4. blocks # Nil
    BY <2>3, GateConstants
  <2>5. fork = Nil /\ fork' = blocks
    BY <1>11 DEF start_fork
  <2> HIDE DEF blocks
  <2>6. StackTypeOK'
    BY <1>11, <2>3, <2>5 DEF start_fork, StackInv, StackTypeOK, ChainTypeOK, BootTypeOK, GateTypeOK, bootVars, gateVars
  <2>7. BootInv'
    BY <1>11 DEF start_fork, StackInv, BootInv, bootVars
  <2>8. ForkInv'
    BY <1>11, <2>1, <2>3, <2>4, <2>5 DEF start_fork, StackInv, ForkInv, Funded, bootVars, gateVars
  <2>9. HandlersInv' /\ CallersInv'
    BY DEF StackInv, HandlersInv, CallersInv, CallerOK, Told, Ids, gateVars
  <2> QED
    BY <2>6, <2>7, <2>8, <2>9 DEF StackInv
<1> QED
  BY <1>3, <1>4, <1>5, <1>6, <1>7, <1>8, <1>9, <1>10, <1>11 DEF BootNext, MainStep

------------------------------------------------------------------------------
(***************************************************************************)
(* Handlers and callers.                                                   *)
(***************************************************************************)
Lines == Seq([status : Nat, allowed : BOOLEAN])

CallerStates ==
  [doing : {"idle", "call", "chain", "block"}, id : Nat, left : Nat, chain : Int \cup {Nil},
   pinned : {"no", "raised", "fork"}]

LEMMA Types ==
  ASSUME StackInv
  PROVE  /\ handler \in Seq(Handlers) /\ log \in Seq(Lines) /\ Len(handler) \in Nat /\ Len(log) = Len(handler)
         /\ \A id \in Ids : handler[id] \in Handlers /\ log[id] \in Lines /\ HandlerOK(handler[id], log[id])
         /\ caller \in [Callers -> CallerStates]
<1>1. handler \in Seq(Handlers) /\ log \in Seq(Lines) /\ caller \in [Callers -> CallerStates]
  BY DEF StackInv, StackTypeOK, GateTypeOK, Lines, CallerStates
<1>2. Len(handler) \in Nat /\ Len(log) = Len(handler)
  BY <1>1, LenProperties DEF StackInv, HandlersInv
<1>3. \A id \in Ids : handler[id] \in Handlers
  BY <1>1, ElementOfSeq DEF Ids
<1>4. \A id \in Ids : log[id] \in Lines
  BY <1>1, <1>2, ElementOfSeq DEF Ids
<1> QED
  BY <1>1, <1>2, <1>3, <1>4 DEF StackInv, HandlersInv

(* What a step never takes back from a handler. *)
Kept(old, new) ==
  /\ new.request = old.request
  /\ old.delivered => new.delivered
  /\ old.result # Nil => new.result = old.result

(* Handlers are there to stay, and what callers were told remains. *)
HandlersKept ==
  /\ Len(handler) <= Len(handler')
  /\ \A id \in Ids : handler'[id].request = handler[id].request
  /\ Told => Told'

(* One handler moves on, and its lines with it. *)
LEMMA HandlerMoves ==
  ASSUME StackInv, NEW id \in Ids, NEW new \in Handlers, Set(id, new),
         NEW lines \in Lines, log' = [log EXCEPT ![id] = lines],
         Kept(handler[id], new), HandlerOK(new, lines)
  PROVE  /\ handler' \in Seq(Handlers) /\ log' \in Seq(Lines) /\ Len(handler') = Len(handler)
         /\ handler'[id] = new
         /\ HandlersInv'
         /\ HandlersKept
<1>1. /\ handler' \in Seq(Handlers) /\ Len(handler') = Len(handler)
      /\ handler'[id] = new
      /\ \A other \in Ids : other # id => handler'[other] = handler[other]
  BY Types, ExceptSeq DEF Set, Ids
<1>2. /\ log' \in Seq(Lines) /\ Len(log') = Len(log)
      /\ log'[id] = lines
      /\ \A other \in Ids : other # id => log'[other] = log[other]
  BY Types, ExceptSeq DEF Ids
<1>3. Ids' = Ids
  BY <1>1 DEF Ids
<1>4. HandlersInv'
  <2>1. Len(log') = Len(handler')
    BY <1>1, <1>2, Types
  <2>2. ASSUME NEW other \in Ids PROVE HandlerOK(handler'[other], log'[other])
    BY <1>1, <1>2, Types
  <2> QED
    BY <1>3, <2>1, <2>2 DEF HandlersInv
<1>5. \A other \in Ids : Kept(handler[other], handler'[other])
  BY <1>1 DEF Kept
<1>6. Told => Told'
  <2>1. FORK_BLOCK # Nil
    BY GateConstants
  <2> QED
    BY <1>3, <1>5, <2>1 DEF Told, Kept
<1>7. Len(handler) <= Len(handler')
  BY <1>1, Types
<1> QED
  BY <1>1, <1>2, <1>4, <1>5, <1>6, <1>7 DEF HandlersKept, Kept

(* A caller that does nothing stays as well off as it was. *)
LEMMA CallerStays ==
  ASSUME StackInv, HandlersKept, Len(handler') \in Nat, NEW r \in CallerStates, CallerOK(r)
  PROVE  CallerOK(r)'
<1>1. r.id \in Nat /\ Len(handler) \in Nat
  BY Types DEF CallerStates
<1>2. r.id <= Len(handler')
  <2>1. \A i, m, n \in Nat : i <= m /\ m <= n => i <= n
    OBVIOUS
  <2> QED
    BY <1>1, <2>1 DEF HandlersKept, CallerOK
<1>3. r.id # 0 => r.id \in Ids
  <2>1. \A i, m \in Nat : i <= m /\ i # 0 => i \in 1..m
    OBVIOUS
  <2> QED
    BY <1>1, <2>1 DEF CallerOK, Ids
<1> QED
  BY <1>2, <1>3 DEF HandlersKept, CallerOK

(* What the invariant asks for besides, when a step leaves the chains alone. *)
LEMMA GateMoves ==
  ASSUME StackInv, UNCHANGED <<chainVars, bootVars>>, GateTypeOK', HandlersInv', CallersInv', fork # Nil
  PROVE  StackInv'
<1>1. StackTypeOK'
  BY DEF StackInv, StackTypeOK, ChainTypeOK, BootTypeOK, chainVars, bootVars
<1>2. BootInv' /\ ForkInv'
  BY DEF StackInv, BootInv, ForkInv, Funded, chainVars, bootVars
<1> QED
  BY <1>1, <1>2 DEF StackInv

(* There is no request before the gates run, and no gate before the fork. *)
LEMMA ForkRuns ==
  ASSUME StackInv
  PROVE  /\ \A id \in Ids : fork # Nil
         /\ \A g \in Gates : loaded[g] # Nil => fork # Nil
<1>1. fork = Nil => Len(handler) = 0 /\ \A g \in Gates : loaded[g] = Nil
  BY DEF StackInv, ForkInv
<1> QED
  BY <1>1 DEF Ids

LEMMA HandlerStepKeeps ==
  ASSUME StackInv, NEW id \in Ids, NEW new \in Handlers, Set(id, new),
         NEW lines \in Lines, log' = [log EXCEPT ![id] = lines],
         Kept(handler[id], new), HandlerOK(new, lines),
         UNCHANGED <<chainVars, bootVars, loaded, caller>>, faults' \in 0..MaxFaults
  PROVE  StackInv'
<1>1. handler' \in Seq(Handlers) /\ log' \in Seq(Lines) /\ Len(handler') = Len(handler) /\ HandlersInv' /\ HandlersKept
  BY HandlerMoves
<1>2. GateTypeOK'
  BY <1>1 DEF StackInv, StackTypeOK, GateTypeOK, Lines
<1>3. CallersInv'
  <2>1. ASSUME NEW c \in Callers PROVE CallerOK(caller[c])'
    <3>1. caller[c] \in CallerStates /\ CallerOK(caller[c]) /\ Len(handler') \in Nat
      BY <1>1, Types DEF StackInv, CallersInv
    <3>2. \A r \in CallerStates : CallerOK(r) => CallerOK(r)'
      BY <1>1, <3>1, CallerStays
    <3> QED
      BY <3>1, <3>2
  <2> QED
    BY <2>1 DEF CallersInv
<1> QED
  BY <1>1, <1>2, <1>3, GateMoves, ForkRuns

(* A log that keeps its lines. *)
LEMMA SameLog ==
  ASSUME StackInv, NEW id \in Ids, UNCHANGED log
  PROVE  log[id] \in Lines /\ log' = [log EXCEPT ![id] = log[id]]
<1>1. log \in Seq(Lines) /\ id \in 1..Len(log)
  BY Types DEF Ids
<1> QED
  BY <1>1, Types

(* Decide, as a gate's own code spells it. *)
LEMMA DecideCases ==
  ASSUME NEW policy, NEW request
  PROVE  /\ Decide(policy, request) \in {200, 401, 403, 404}
         /\ Decide(policy, request) = 200 =>
              \/ request.endpoint = "agent"
              \/ /\ request.endpoint \in {"upstream", "cross_check"}
                 /\ request.method \notin Barred(request)
<1>1. CASE request.gate = "container"
  <2>1. Decide(policy, request) = authorize(policy, request)
    BY <1>1, Zenon DEF Decide
  <2>2. Barred(request) = WriteOrAdminContainer
    BY <1>1, Zenon DEF Barred
  <2> QED
    BY <2>1, <2>2 DEF authorize, Endpoints
<1>2. CASE request.gate # "container"
  <2>1. Decide(policy, request) = decision(policy, request)
    BY <1>2, Zenon DEF Decide
  <2>2. Barred(request) = WriteOrAdminHost
    BY <1>2, Zenon DEF Barred
  <2> QED
    BY <2>1, <2>2 DEF decision, Endpoints
<1> QED
  BY <1>1, <1>2, Zenon

Statuses == {0, 200, 400, 401, 403, 404, 502}

(* A handler with one field set is a handler. *)
LEMMA SetField ==
  ASSUME NEW h \in Handlers
  PROVE  /\ \A pc \in Handling \cup {"ended"} : [h EXCEPT !.pc = pc] \in Handlers
         /\ \A status \in Statuses : [h EXCEPT !.status = status] \in Handlers
         /\ \A sent \in {"no", "inflight", "performed"} : [h EXCEPT !.sent = sent] \in Handlers
         /\ \A result \in Int \cup {Nil} : [h EXCEPT !.result = result] \in Handlers
         /\ \A delivered \in BOOLEAN : [h EXCEPT !.delivered = delivered] \in Handlers
<1>1. ASSUME NEW pc \in Handling \cup {"ended"} PROVE [h EXCEPT !.pc = pc] \in Handlers
  BY DEF Handlers
<1>2. ASSUME NEW status \in Statuses PROVE [h EXCEPT !.status = status] \in Handlers
  BY DEF Handlers, Statuses
<1>3. ASSUME NEW sent \in {"no", "inflight", "performed"} PROVE [h EXCEPT !.sent = sent] \in Handlers
  BY DEF Handlers
<1>4. ASSUME NEW result \in Int \cup {Nil} PROVE [h EXCEPT !.result = result] \in Handlers
  BY DEF Handlers
<1>5. ASSUME NEW delivered \in BOOLEAN PROVE [h EXCEPT !.delivered = delivered] \in Handlers
  BY DEF Handlers
<1> QED
  BY <1>1, <1>2, <1>3, <1>4, <1>5, Zenon

(* The steps of a handler change its place and what goes with it. *)
LEMMA FieldsSet ==
  ASSUME NEW h \in Handlers, NEW pc \in Handling \cup {"ended"}, NEW status \in Statuses
  PROVE  /\ [h EXCEPT !.pc = pc] \in Handlers
         /\ [h EXCEPT !.pc = pc, !.status = status] \in Handlers
         /\ [h EXCEPT !.pc = pc, !.sent = "inflight"] \in Handlers
         /\ [h EXCEPT !.pc = pc, !.delivered = TRUE] \in Handlers
         /\ Kept(h, [h EXCEPT !.pc = pc])
         /\ Kept(h, [h EXCEPT !.pc = pc, !.status = status])
         /\ Kept(h, [h EXCEPT !.pc = pc, !.sent = "inflight"])
         /\ Kept(h, [h EXCEPT !.pc = pc, !.delivered = TRUE])
<1>1. PICK moved \in Handlers : moved = [h EXCEPT !.pc = pc]
  BY SetField, Zenon
<1>2. [moved EXCEPT !.status = status] \in Handlers
  BY SetField, Zenon
<1>3. [moved EXCEPT !.sent = "inflight"] \in Handlers
  BY SetField, Zenon
<1>4. [moved EXCEPT !.delivered = TRUE] \in Handlers
  BY SetField, Zenon
<1>5. /\ Kept(h, [h EXCEPT !.pc = pc])
      /\ Kept(h, [h EXCEPT !.pc = pc, !.status = status])
      /\ Kept(h, [h EXCEPT !.pc = pc, !.sent = "inflight"])
      /\ Kept(h, [h EXCEPT !.pc = pc, !.delivered = TRUE])
  BY DEF Handlers, Kept
<1> QED
  BY <1>1, <1>2, <1>3, <1>4, <1>5, Zenon

LEMMA RefuseKeeps ==
  ASSUME StackInv, NEW id \in Ids, refuse(id), UNCHANGED bootVars
  PROVE  StackInv'
<1> DEFINE status == Decide(loaded[handler[id].request.gate], handler[id].request)
           new    == [handler[id] EXCEPT !.pc = "log", !.status = status]
<1>1. handler[id] \in Handlers /\ HandlerOK(handler[id], log[id])
  BY Types
<1>2. At(id, "authorize") /\ Set(id, new) /\ UNCHANGED <<chainVars, loaded, log, caller, faults>>
  BY DEF refuse
<1>3. status \in {401, 403, 404}
  BY DecideCases DEF refuse, Allowed
<1> HIDE DEF status
<1>4. new \in Handlers /\ Kept(handler[id], new)
  <2>1. "log" \in Handling \cup {"ended"} /\ status \in Statuses
    BY <1>3 DEF Handling, Statuses
  <2> QED
    BY <1>1, <2>1, FieldsSet, Zenon
<1>5. HandlerOK(new, log[id])
  BY <1>1, <1>2, <1>3 DEF HandlerOK, Handlers, At, Decided, Harmless
<1>6. faults' \in 0..MaxFaults
  BY <1>2 DEF StackInv, StackTypeOK, GateTypeOK
<1> HIDE DEF new
<1> QED
  BY <1>2, <1>4, <1>5, <1>6, SameLog, HandlerStepKeeps

LEMMA ForwardKeeps ==
  ASSUME StackInv, NEW id \in Ids, forward(id), UNCHANGED bootVars
  PROVE  StackInv'
<1> DEFINE new == [handler[id] EXCEPT !.pc = "pending", !.sent = "inflight"]
<1>1. handler[id] \in Handlers /\ HandlerOK(handler[id], log[id])
  BY Types
<1>2. At(id, "authorize") /\ Set(id, new) /\ UNCHANGED <<chainVars, loaded, log, caller, faults>>
  BY DEF forward
<1>3. \/ handler[id].request.endpoint = "agent"
      \/ /\ handler[id].request.endpoint \in {"upstream", "cross_check"}
         /\ handler[id].request.method \notin Barred(handler[id].request)
  BY DecideCases DEF forward, Allowed
<1>4. new \in Handlers /\ Kept(handler[id], new)
  <2>1. "pending" \in Handling \cup {"ended"} /\ 200 \in Statuses
    BY DEF Handling, Statuses
  <2> QED
    BY <1>1, <2>1, FieldsSet, Zenon
<1>5. HandlerOK(new, log[id])
  BY <1>1, <1>2, <1>3 DEF HandlerOK, Handlers, At, Harmless
<1>6. faults' \in 0..MaxFaults
  BY <1>2 DEF StackInv, StackTypeOK, GateTypeOK
<1> HIDE DEF new
<1> QED
  BY <1>2, <1>4, <1>5, <1>6, SameLog, HandlerStepKeeps

LEMMA ResponseKeeps ==
  ASSUME StackInv, NEW id \in Ids, response(id) \/ no_response(id), UNCHANGED bootVars
  PROVE  StackInv'
<1> DEFINE new(status) == [handler[id] EXCEPT !.pc = "log", !.status = status]
<1>1. handler[id] \in Handlers /\ HandlerOK(handler[id], log[id])
  BY Types
<1>2. PICK status \in Statuses :
        /\ status = 502 \/ (status = 200 /\ handler[id].sent = "performed")
        /\ Set(id, new(status))
  BY DEF response, no_response, Statuses
<1>3. At(id, "pending") /\ UNCHANGED <<chainVars, loaded, log, caller, faults>>
  BY DEF response, no_response
<1>4. new(status) \in Handlers /\ Kept(handler[id], new(status))
  <2>1. "log" \in Handling \cup {"ended"} /\ status \in Statuses
    BY DEF Handling, Statuses
  <2> QED
    BY <1>1, <2>1, FieldsSet, Zenon
<1>5. HandlerOK(new(status), log[id])
  BY <1>1, <1>2, <1>3 DEF HandlerOK, Handlers, At, Decided, Harmless
<1>6. faults' \in 0..MaxFaults
  BY <1>3 DEF StackInv, StackTypeOK, GateTypeOK
<1> HIDE DEF new
<1> QED
  BY <1>2, <1>3, <1>4, <1>5, <1>6, SameLog, HandlerStepKeeps

(* The flag of a line, where the handler found something out. *)
Settled(h) == h.status \in {200, 401, 403, 404, 502} /\ h.request.gate \in Gates

LEMMA AllowedIsCleared ==
  ASSUME NEW h, Settled(h)
  PROVE  /\ log_allowed(h.request, h.status) \in BOOLEAN
         /\ log_allowed(h.request, h.status) <=> Cleared(h)
<1> DEFINE container == h.request.gate = "container"
           below     == h.status < 400
           fine      == h.status \in {200, 502}
<1>1. below \in BOOLEAN /\ fine \in BOOLEAN
  BY SMT
<1>2. log_allowed(h.request, h.status) = (IF container THEN below ELSE fine)
  BY ZenonT(30) DEF log_allowed
<1>3. /\ container => (below <=> Cleared(h))
      /\ ~container => (fine <=> Cleared(h))
  BY SMT DEF Settled, Cleared, Gates
<1> HIDE DEF container, below, fine
<1>4. CASE container
  BY <1>1, <1>2, <1>3, <1>4, Zenon
<1>5. CASE ~container
  BY <1>1, <1>2, <1>3, <1>5, Zenon
<1> QED
  BY <1>4, <1>5, Zenon

LEMMA WriteLogKeeps ==
  ASSUME StackInv, NEW id \in Ids, write_log(id), UNCHANGED bootVars
  PROVE  StackInv'
<1> DEFINE new   == [handler[id] EXCEPT !.pc = "reply"]
           lines == Append(log[id], log_line(id))
<1>1. handler[id] \in Handlers /\ log[id] \in Lines /\ HandlerOK(handler[id], log[id])
  BY Types
<1>2. /\ At(id, "log") /\ Set(id, new) /\ UNCHANGED <<chainVars, loaded, caller, faults>>
      /\ log' = [log EXCEPT ![id] = lines]
  BY Types DEF write_log, Ids
<1>3. /\ log_line(id) \in [status : Nat, allowed : BOOLEAN]
      /\ log_line(id).status = handler[id].status
      /\ log_line(id).allowed <=> Cleared(handler[id])
  <2>1. handler[id].status \in {200, 401, 403, 404, 502} /\ handler[id].request.gate \in Gates
    BY <1>1, <1>2 DEF HandlerOK, At, Decided, Handlers, Requests
  <2>2. log_line(id) = [status |-> handler[id].status,
                        allowed |-> log_allowed(handler[id].request, handler[id].status)]
    BY DEF log_line
  <2>3. /\ log_allowed(handler[id].request, handler[id].status) \in BOOLEAN
        /\ log_allowed(handler[id].request, handler[id].status) <=> Cleared(handler[id])
    <3>1. Settled(handler[id])
      BY <2>1 DEF Settled
    <3> QED
      BY <3>1, Zenon, AllowedIsCleared
  <2>4. handler[id].status \in Nat
    BY <2>1
  <2> QED
    BY <2>2, <2>3, <2>4
<1>4. /\ lines \in Lines /\ Len(lines) = 1
      /\ lines[1] = log_line(id)
  <2>1. log[id] = <<>>
    BY <1>1, <1>2 DEF HandlerOK, At
  <2> QED
    BY <1>1, <1>3, <2>1, AppendProperties, EmptySeq DEF Lines
<1>5. new \in Handlers /\ Kept(handler[id], new)
  <2>1. "reply" \in Handling \cup {"ended"} /\ 200 \in Statuses
    BY DEF Handling, Statuses
  <2> QED
    BY <1>1, <2>1, FieldsSet, Zenon
<1> HIDE DEF lines
<1>6. HandlerOK(new, lines)
  BY <1>1, <1>2, <1>3, <1>4 DEF HandlerOK, Handlers, At, Decided, Harmless, Logged, Cleared
<1>7. faults' \in 0..MaxFaults
  BY <1>2 DEF StackInv, StackTypeOK, GateTypeOK
<1> HIDE DEF new
<1> QED
  BY <1>2, <1>4, <1>5, <1>6, <1>7, HandlerStepKeeps

LEMMA LogRaisesKeeps ==
  ASSUME StackInv, NEW id \in Ids, log_raises(id), UNCHANGED bootVars
  PROVE  StackInv'
<1> DEFINE new == [handler[id] EXCEPT !.pc = "ended"]
<1>1. handler[id] \in Handlers /\ HandlerOK(handler[id], log[id])
  BY Types
<1>2. At(id, "log") /\ Set(id, new) /\ UNCHANGED <<chainVars, loaded, log, caller>>
  BY DEF log_raises
<1>3. new \in Handlers /\ Kept(handler[id], new)
  <2>1. "ended" \in Handling \cup {"ended"} /\ 200 \in Statuses
    BY DEF Handling, Statuses
  <2> QED
    BY <1>1, <2>1, FieldsSet, Zenon
<1>4. HandlerOK(new, log[id])
  BY <1>1, <1>2 DEF HandlerOK, Handlers, At, Harmless
<1>5. faults' \in 0..MaxFaults
  BY GateConstants DEF log_raises, StackInv, StackTypeOK, GateTypeOK
<1> HIDE DEF new
<1> QED
  BY <1>2, <1>3, <1>4, <1>5, SameLog, HandlerStepKeeps

(* A caller with one field set is a caller. *)
LEMMA SetCallerField ==
  ASSUME NEW r \in CallerStates
  PROVE  /\ \A doing \in {"idle", "call", "chain", "block"} : [r EXCEPT !.doing = doing] \in CallerStates
         /\ \A id \in Nat : [r EXCEPT !.id = id] \in CallerStates
         /\ \A left \in Nat : [r EXCEPT !.left = left] \in CallerStates
         /\ \A chain \in Int \cup {Nil} : [r EXCEPT !.chain = chain] \in CallerStates
<1>1. ASSUME NEW doing \in {"idle", "call", "chain", "block"} PROVE [r EXCEPT !.doing = doing] \in CallerStates
  BY DEF CallerStates
<1>2. ASSUME NEW id \in Nat PROVE [r EXCEPT !.id = id] \in CallerStates
  BY DEF CallerStates
<1>3. ASSUME NEW left \in Nat PROVE [r EXCEPT !.left = left] \in CallerStates
  BY DEF CallerStates
<1>4. ASSUME NEW chain \in Int \cup {Nil} PROVE [r EXCEPT !.chain = chain] \in CallerStates
  BY DEF CallerStates
<1> QED
  BY <1>1, <1>2, <1>3, <1>4, Zenon

(* What becomes of a caller that asks, and of one that is answered. *)
LEMMA CallerMoves ==
  ASSUME NEW r \in CallerStates, NEW doing \in {"idle", "call", "chain", "block"}, NEW id \in Nat,
         NEW left \in Nat, NEW chain \in Int \cup {Nil}
  PROVE  /\ [r EXCEPT !.doing = doing, !.id = id, !.left = left] \in CallerStates
         /\ [r EXCEPT !.id = id, !.chain = chain] \in CallerStates
         /\ [r EXCEPT !.doing = doing, !.id = id] \in CallerStates
<1>1. PICK r1 \in CallerStates : r1 = [r EXCEPT !.doing = doing]
  BY SetCallerField, Zenon
<1>2. PICK r2 \in CallerStates : r2 = [r1 EXCEPT !.id = id]
  BY SetCallerField, Zenon
<1>3. [r2 EXCEPT !.left = left] \in CallerStates
  BY SetCallerField, Zenon
<1>4. PICK r3 \in CallerStates : r3 = [r EXCEPT !.id = id]
  BY SetCallerField, Zenon
<1>5. [r3 EXCEPT !.chain = chain] \in CallerStates
  BY SetCallerField, Zenon
<1> QED
  BY <1>1, <1>2, <1>3, <1>4, <1>5, Zenon

(* A request puts one more handler to work, with a log of its own. *)
LEMMA SendKeeps ==
  ASSUME StackInv, NEW c \in Callers, NEW doing \in {"call", "chain", "block"}, NEW request \in Requests,
         Send(c, doing, request), doing = "block" => request.method = "eth_blockNumber",
         UNCHANGED <<chainVars, bootVars, loaded, faults>>
  PROVE  StackInv'
<1> DEFINE new == Received(request)
<1>1. /\ handler' = Append(handler, new) /\ log' = Append(log, <<>>)
      /\ loaded[request.gate] # Nil /\ caller[c].left > 0
      /\ caller' = [caller EXCEPT ![c].doing = doing, ![c].id = Len(handler'), ![c].left = @ - 1]
  BY DEF Send
<1>2. /\ new.request = request /\ new.sent = "no" /\ new.result = Nil /\ new.delivered = FALSE
      /\ \/ new.pc = "authorize" /\ (request.gate = "host" \/ request.endpoint \in Endpoints)
         \/ new.pc = "reply" /\ request.gate = "container" /\ new.status \in {400, 404}
  BY DEF Received, Requests, Gates
<1>3. new \in Handlers
  BY DEF Received, Handlers, Handling
<1> HIDE DEF new
<1>4. HandlerOK(new, <<>>)
  BY <1>2 DEF HandlerOK, Unread, Harmless
<1>5. <<>> \in Lines
  BY DEF Lines
<1>6. /\ handler' \in Seq(Handlers) /\ Len(handler') = Len(handler) + 1
      /\ handler'[Len(handler) + 1] = new
      /\ \A id \in Ids : handler'[id] = handler[id]
  BY <1>1, <1>3, Types, AppendProperties DEF Ids
<1>7. /\ log' \in Seq(Lines) /\ Len(log') = Len(handler) + 1
      /\ log'[Len(handler) + 1] = <<>>
      /\ \A id \in Ids : log'[id] = log[id]
  BY <1>1, <1>5, Types, AppendProperties DEF Ids
<1>8. Ids' = Ids \cup {Len(handler) + 1}
  <2>1. \A n \in Nat : 1..(n + 1) = (1..n) \cup {n + 1}
    OBVIOUS
  <2> QED
    BY <1>6, <2>1, Types DEF Ids
<1>9. HandlersInv'
  <2>1. ASSUME NEW id \in Ids PROVE HandlerOK(handler'[id], log'[id])
    BY <1>6, <1>7, Types
  <2>2. HandlerOK(handler'[Len(handler) + 1], log'[Len(handler) + 1])
    BY <1>4, <1>6, <1>7
  <2> QED
    BY <1>6, <1>7, <1>8, <2>1, <2>2 DEF HandlersInv
<1>10. HandlersKept
  <2>1. \A n \in Nat : n <= n + 1
    OBVIOUS
  <2>2. Len(handler) <= Len(handler')
    BY <1>6, <2>1, Types
  <2> QED
    BY <1>6, <1>8, <2>2 DEF HandlersKept, Told
<1>11. /\ Len(handler') \in Nat /\ Len(handler') # 0
       /\ Len(handler') \in Ids' /\ handler'[Len(handler')].request = request
  <2>1. \A n \in Nat : n + 1 \in Nat /\ n + 1 # 0
    OBVIOUS
  <2> QED
    BY <1>2, <1>6, <1>8, <2>1, Types
<1>12. caller' \in [Callers -> CallerStates]
  <2> DEFINE r == [caller[c] EXCEPT !.doing = doing, !.id = Len(handler'), !.left = @ - 1]
  <2>1. caller[c] \in CallerStates /\ caller[c].left - 1 \in Nat
    BY <1>1, Types DEF CallerStates
  <2>2. doing \in {"idle", "call", "chain", "block"} /\ 0 \in Int \cup {Nil}
    OBVIOUS
  <2>3. r \in CallerStates
    BY <1>11, <2>1, <2>2, CallerMoves, Zenon
  <2>4. caller' = [caller EXCEPT ![c] = r]
    BY <1>1, Types
  <2> HIDE DEF r
  <2> QED
    BY <2>3, <2>4, Types
<1>13. CallersInv'
  <2>1. ASSUME NEW d \in Callers PROVE CallerOK(caller[d])'
    <3>1. caller[d] \in CallerStates /\ CallerOK(caller[d])
      BY Types DEF StackInv, CallersInv
    <3>2. CASE d # c
      <4>1. caller'[d] = caller[d]
        BY <1>1, <3>2, Types
      <4>2. \A r \in CallerStates : CallerOK(r) => CallerOK(r)'
        BY <1>10, <1>11, CallerStays
      <4> QED
        BY <3>1, <4>1, <4>2
    <3>3. CASE d = c
      <4>1. /\ caller'[c].id = Len(handler') /\ caller'[c].doing = doing
            /\ caller'[c].pinned = caller[c].pinned
        BY <1>1, Types DEF CallerStates
      <4>2. \A n \in Nat : n <= n
        OBVIOUS
      <4> QED
        BY <1>10, <1>11, <3>1, <3>3, <4>1, <4>2 DEF CallerOK, HandlersKept
    <3> QED
      BY <3>2, <3>3
  <2> QED
    BY <2>1 DEF CallersInv
<1>14. GateTypeOK'
  BY <1>6, <1>7, <1>12 DEF StackInv, StackTypeOK, GateTypeOK, Lines, CallerStates
<1>15. fork # Nil
  BY <1>1, ForkRuns DEF Requests
<1> QED
  BY <1>9, <1>13, <1>14, <1>15, GateMoves

(* An answer is taken for the pinned block only if it says so. *)
LEMMA AnswerEffect ==
  ASSUME StackInv, NEW c \in Callers, NEW result \in Int \cup {Nil}, Answer(c, result)
  PROVE  /\ caller' \in [Callers -> CallerStates]
         /\ \A d \in Callers : d # c => caller'[d] = caller[d]
         /\ caller'[c].id = 0
         /\ caller'[c].pinned = "fork" =>
              caller[c].pinned = "fork" \/ (caller[c].doing = "block" /\ result = FORK_BLOCK)
<1>1. caller[c] \in CallerStates
  BY Types
<1>2. FORK_BLOCK \in Nat \ {0}
  BY GateConstants
<1>0. 0 \in Nat /\ "idle" \in {"idle", "call", "chain", "block"}
  OBVIOUS
<1>3. PICK r \in CallerStates :
        /\ caller' = [caller EXCEPT ![c] = r]
        /\ r.id = 0
        /\ r.pinned = "fork" => caller[c].pinned = "fork" \/ (caller[c].doing = "block" /\ result = FORK_BLOCK)
  <2>1. CASE caller[c].doing = "chain"
    <3> DEFINE r == [caller[c] EXCEPT !.id = 0, !.chain = result]
    <3>1. caller' = [caller EXCEPT ![c] = r]
      BY <2>1 DEF Answer
    <3>2. r.id = 0 /\ r.pinned = caller[c].pinned
      BY <1>1 DEF CallerStates
    <3>3. r \in CallerStates
      BY <1>0, <1>1, CallerMoves, Zenon
    <3> HIDE DEF r
    <3> QED
      BY <3>1, <3>2, <3>3
  <2>2. CASE caller[c].doing = "block"
    <3> DEFINE pinned == IF /\ result_or_zero(caller[c].chain, ChainId) = ChainId
                            /\ result_or_zero(result, FORK_BLOCK) = FORK_BLOCK
                         THEN "fork" ELSE "raised"
               r      == [doing |-> "idle", id |-> 0, left |-> caller[c].left,
                          chain |-> Nil, pinned |-> pinned]
    <3>1. [Idle(caller[c].left) EXCEPT !.pinned = pinned] = r
      BY DEF Idle
    <3>2. caller' = [caller EXCEPT ![c] = r]
      BY <2>2, <3>1 DEF Answer
    <3>3. pinned \in {"raised", "fork"} /\ (pinned = "fork" => result = FORK_BLOCK)
      BY <1>2 DEF result_or_zero
    <3> HIDE DEF pinned
    <3>4. r \in CallerStates
      BY <1>1, <3>3 DEF CallerStates
    <3> QED
      BY <2>2, <3>2, <3>3, <3>4
  <2>3. CASE caller[c].doing \notin {"chain", "block"}
    <3> DEFINE r == [caller[c] EXCEPT !.doing = "idle", !.id = 0]
    <3>1. caller' = [caller EXCEPT ![c] = r]
      BY <2>3 DEF Answer
    <3>2. r.id = 0 /\ r.pinned = caller[c].pinned
      BY <1>1 DEF CallerStates
    <3>3. r \in CallerStates
      BY <1>0, <1>1, CallerMoves, Zenon
    <3> HIDE DEF r
    <3> QED
      BY <3>1, <3>2, <3>3
  <2> QED
    BY <2>1, <2>2, <2>3
<1> QED
  BY <1>3, Types

(* A caller that is answered without the handlers having a part in it. *)
LEMMA CallerAnswered ==
  ASSUME StackInv, NEW c \in Callers, UNCHANGED <<chainVars, bootVars, loaded, handler, log, faults>>,
         caller' \in [Callers -> CallerStates],
         \A d \in Callers : d # c => caller'[d] = caller[d],
         caller'[c].id = 0,
         caller'[c].pinned = "fork" => caller[c].pinned = "fork"
  PROVE  StackInv'
<1>1. HandlersInv'
  BY DEF StackInv, HandlersInv, Ids
<1>2. HandlersKept /\ Len(handler') \in Nat
  <2>1. \A n \in Nat : n <= n
    OBVIOUS
  <2> QED
    BY <2>1, Types DEF HandlersKept, Told, Ids
<1>3. CallersInv'
  <2>1. \A d \in Callers : caller[d] \in CallerStates /\ CallerOK(caller[d])
    BY Types DEF StackInv, CallersInv
  <2>2. ASSUME NEW d \in Callers, d # c PROVE CallerOK(caller[d])'
    <3>1. \A r \in CallerStates : CallerOK(r) => CallerOK(r)'
      BY <1>2, CallerStays
    <3> QED
      BY <2>1, <2>2, <3>1
  <2>3. CallerOK(caller[c])'
    <3>1. \A n \in Nat : 0 <= n
      OBVIOUS
    <3>2. Told => Told'
      BY <1>2 DEF HandlersKept
    <3> QED
      BY <1>2, <2>1, <3>1, <3>2 DEF CallerOK
  <2> QED
    BY <2>2, <2>3 DEF CallersInv
<1>4. GateTypeOK'
  BY DEF StackInv, StackTypeOK, GateTypeOK, CallerStates
<1>5. BootInv' /\ ForkInv'
  BY DEF StackInv, BootInv, ForkInv, Funded, chainVars, bootVars
<1>6. ChainTypeOK' /\ BootTypeOK'
  BY DEF StackInv, StackTypeOK, ChainTypeOK, BootTypeOK, chainVars, bootVars
<1> QED
  BY <1>1, <1>3, <1>4, <1>5, <1>6 DEF StackInv, StackTypeOK

LEMMA CallerStepKeeps ==
  ASSUME StackInv, NEW c \in Callers, CallerStep(c), UNCHANGED bootVars
  PROVE  StackInv'
<1>1. \A method \in {"eth_chainId", "eth_blockNumber"} :
        AgentRequest(method) \in Requests /\ AgentRequest(method).method = method
  BY DEF AgentRequest, Requests, Gates, Endpoints, Methods, Tokens
<1>2. ASSUME NEW request \in Offers, call(c, request) PROVE StackInv'
  BY <1>2, SendKeeps, GateConstants DEF call
<1>3. CASE pinned_fork(c)
  BY <1>1, <1>3, SendKeeps DEF pinned_fork
<1>4. CASE ask_block(c)
  <2>1. CASE Send(c, "block", AgentRequest("eth_blockNumber"))
    BY <1>1, <1>4, <2>1, SendKeeps DEF ask_block
  <2>2. CASE ~Send(c, "block", AgentRequest("eth_blockNumber"))
    <3> DEFINE r == [Idle(caller[c].left) EXCEPT !.pinned = "raised"]
    <3>1. /\ caller' = [caller EXCEPT ![c] = r]
          /\ UNCHANGED <<chainVars, loaded, handler, log, faults>>
      BY <1>4, <2>2 DEF ask_block
    <3>2. caller[c] \in CallerStates /\ r.id = 0 /\ r.pinned = "raised"
      BY Types DEF Idle
    <3>3. r \in CallerStates
      BY <3>2 DEF CallerStates, Idle
    <3> HIDE DEF r
    <3>4. /\ caller' \in [Callers -> CallerStates] /\ caller'[c] = r
          /\ \A d \in Callers : d # c => caller'[d] = caller[d]
      BY <3>1, <3>3, Types
    <3> QED
      BY <3>1, <3>2, <3>4, CallerAnswered
  <2> QED
    BY <2>1, <2>2
<1>5. CASE give_up(c)
  <2>1. Answer(c, Nil) /\ UNCHANGED <<chainVars, loaded, handler, log, faults>>
    BY <1>5 DEF give_up
  <2>2. FORK_BLOCK # Nil
    BY GateConstants
  <2>3. /\ caller' \in [Callers -> CallerStates]
        /\ \A d \in Callers : d # c => caller'[d] = caller[d]
        /\ caller'[c].id = 0
        /\ caller'[c].pinned = "fork" => caller[c].pinned = "fork"
    BY <2>1, <2>2, AnswerEffect
  <2> QED
    BY <2>1, <2>3, CallerAnswered
<1> QED
  BY <1>2, <1>3, <1>4, <1>5 DEF CallerStep

LEMMA ReplyKeeps ==
  ASSUME StackInv, NEW id \in Ids, reply(id), UNCHANGED bootVars
  PROVE  StackInv'
<1> DEFINE new == [handler[id] EXCEPT !.pc = "ended", !.delivered = TRUE]
<1>1. handler[id] \in Handlers /\ HandlerOK(handler[id], log[id])
  BY Types
<1>2. At(id, "reply") /\ Set(id, new) /\ UNCHANGED <<chainVars, loaded, log, faults>>
  BY DEF reply
<1>3. new \in Handlers /\ Kept(handler[id], new)
  <2>1. "ended" \in Handling \cup {"ended"} /\ 200 \in Statuses
    BY DEF Statuses
  <2> QED
    BY <1>1, <2>1, FieldsSet, Zenon
<1>4. /\ new.request = handler[id].request /\ new.result = handler[id].result /\ new.status = handler[id].status
      /\ new.sent = handler[id].sent /\ new.pc = "ended" /\ new.delivered = TRUE
  BY <1>1 DEF Handlers
<1> HIDE DEF new
<1>5. HandlerOK(new, log[id])
  BY <1>1, <1>2, <1>4 DEF HandlerOK, At, Harmless, Unread, Logged, Decided, Cleared
<1>6. /\ handler' \in Seq(Handlers) /\ log' \in Seq(Lines) /\ Len(handler') = Len(handler)
      /\ handler'[id] = new
      /\ HandlersInv' /\ HandlersKept
  BY <1>2, <1>3, <1>5, SameLog, HandlerMoves
<1>7. Len(handler') \in Nat /\ Ids' = Ids
  BY <1>6, Types DEF Ids
<1>8. \A r \in CallerStates : CallerOK(r) => CallerOK(r)'
  BY <1>6, <1>7, CallerStays
<1>9. caller' \in [Callers -> CallerStates] /\ CallersInv'
  <2>1. CASE UNCHANGED caller
    BY <1>8, <2>1, Types DEF StackInv, CallersInv
  <2>2. ASSUME NEW c \in Callers, caller[c].id = id,
               Answer(c, IF handler[id].status = 200 THEN handler[id].result ELSE Nil)
        PROVE  caller' \in [Callers -> CallerStates] /\ CallersInv'
    <3> DEFINE result == IF handler[id].status = 200 THEN handler[id].result ELSE Nil
    <3>1. result \in Int \cup {Nil}
      BY <1>1 DEF Handlers
    <3>2. result = FORK_BLOCK => handler[id].result = FORK_BLOCK
      BY GateConstants
    <3>0. Answer(c, result)
      BY <2>2
    <3> HIDE DEF result
    <3>3. /\ caller' \in [Callers -> CallerStates]
          /\ \A d \in Callers : d # c => caller'[d] = caller[d]
          /\ caller'[c].id = 0
          /\ caller'[c].pinned = "fork" => caller[c].pinned = "fork" \/ (caller[c].doing = "block" /\ result = FORK_BLOCK)
      BY <3>0, <3>1, AnswerEffect
    <3>4. caller[c] \in CallerStates /\ CallerOK(caller[c])
      BY Types DEF StackInv, CallersInv
    <3>5. caller[c].doing = "block" => handler[id].request.method = "eth_blockNumber"
      <4>1. id # 0
        BY DEF Ids
      <4> QED
        BY <2>2, <3>4, <4>1 DEF CallerOK
    <3>6. caller'[c].pinned = "fork" => Told'
      <4>1. CASE caller[c].pinned = "fork"
        BY <1>6, <3>4, <4>1 DEF CallerOK, HandlersKept
      <4>2. CASE caller[c].doing = "block" /\ result = FORK_BLOCK
        BY <1>4, <1>6, <1>7, <3>2, <3>5, <4>2 DEF Told
      <4> QED
        BY <3>3, <4>1, <4>2
    <3>7. CallerOK(caller[c])'
      <4>1. \A n \in Nat : 0 <= n
        OBVIOUS
      <4> QED
        BY <1>7, <3>3, <3>6, <4>1 DEF CallerOK
    <3>8. ASSUME NEW d \in Callers, d # c PROVE CallerOK(caller[d])'
      BY <1>8, <3>3, <3>8, Types DEF StackInv, CallersInv
    <3> QED
      BY <3>3, <3>7, <3>8 DEF CallersInv
  <2> QED
    BY <2>1, <2>2 DEF reply
<1>10. GateTypeOK'
  BY <1>2, <1>6, <1>9 DEF StackInv, StackTypeOK, GateTypeOK, Lines, CallerStates
<1> QED
  BY <1>2, <1>6, <1>9, <1>10, GateMoves, ForkRuns

LEMMA StartKeeps ==
  ASSUME StackInv, NEW g \in Gates, start(g), UNCHANGED bootVars
  PROVE  StackInv'
<1>1. /\ fork # Nil /\ UNCHANGED <<chainVars, handler, log, caller, faults>>
      /\ loaded' \in [Gates -> PolicyFiles \cup {Nil}]
  BY DEF start, StackInv, StackTypeOK, GateTypeOK
<1>2. GateTypeOK'
  BY <1>1 DEF StackInv, StackTypeOK, GateTypeOK
<1>3. HandlersInv' /\ CallersInv'
  BY <1>1 DEF StackInv, HandlersInv, CallersInv, CallerOK, Told, Ids
<1> QED
  BY <1>1, <1>2, <1>3, GateMoves

(* A kill ends all the handlers of a gate. *)
LEMMA KillKeeps ==
  ASSUME StackInv, NEW g \in Gates, kill(g), UNCHANGED bootVars
  PROVE  StackInv'
<1> DEFINE Ended(h) == IF h.request.gate = g THEN [h EXCEPT !.pc = "ended"] ELSE h
<1>1. /\ loaded[g] # Nil /\ UNCHANGED <<chainVars, log, caller>>
      /\ loaded' = [loaded EXCEPT ![g] = Nil]
      /\ handler' = [id \in Ids |-> Ended(handler[id])]
      /\ faults < MaxFaults /\ faults' = faults + 1
  BY DEF kill
<1>2. ASSUME NEW id \in Ids
      PROVE  /\ handler'[id] \in Handlers /\ Kept(handler[id], handler'[id])
             /\ HandlerOK(handler'[id], log[id])
  <2>1. handler[id] \in Handlers /\ HandlerOK(handler[id], log[id]) /\ handler'[id] = Ended(handler[id])
    BY <1>1, Types
  <2>2. CASE handler[id].request.gate = g
    <3>1. handler'[id] = [handler[id] EXCEPT !.pc = "ended"]
      BY <2>1, <2>2
    <3>2. "ended" \in Handling \cup {"ended"} /\ 200 \in Statuses
      BY DEF Statuses
    <3>3. handler'[id] \in Handlers /\ Kept(handler[id], handler'[id])
      <4>1. \A pc \in Handling \cup {"ended"} : [handler[id] EXCEPT !.pc = pc] \in Handlers
        BY <2>1, SetField
      <4>2. Kept(handler[id], handler'[id])
        BY <2>1, <3>1 DEF Kept, Handlers
      <4> QED
        BY <3>1, <3>2, <4>1, <4>2
    <3>4. HandlerOK(handler'[id], log[id])
      <4> DEFINE h == handler'[id]
      <4>1. /\ h.request = handler[id].request /\ h.result = handler[id].result /\ h.status = handler[id].status
            /\ h.sent = handler[id].sent /\ h.pc = "ended" /\ h.delivered = handler[id].delivered
        BY <2>1, <3>1 DEF Handlers
      <4>2. handler[id].pc \in {"authorize", "pending", "log", "reply", "ended"}
        BY <2>1 DEF Handlers, Handling
      <4> HIDE DEF h
      <4>3. HandlerOK(h, log[id])
        BY <2>1, <4>1, <4>2 DEF HandlerOK, Harmless, Unread, Logged, Decided, Cleared
      <4> QED
        BY <4>3 DEF h
    <3> QED
      BY <3>3, <3>4
  <2>3. CASE handler[id].request.gate # g
    BY <2>1, <2>3 DEF Kept
  <2> QED
    BY <2>2, <2>3
<1> HIDE DEF Ended
<1>3. /\ handler' \in Seq(Handlers) /\ Len(handler') = Len(handler) /\ Ids' = Ids
  <2>1. handler' \in [1..Len(handler) -> Handlers]
    BY <1>1, <1>2 DEF Ids
  <2>2. handler' \in Seq(Handlers)
    BY <2>1, Types, SeqDef
  <2>3. DOMAIN handler' = 1..Len(handler')
    BY <2>2, LenProperties
  <2>4. Len(handler') = Len(handler)
    BY <2>1, <2>2, <2>3, Types, LenProperties
  <2> QED
    BY <2>2, <2>4 DEF Ids
<1>4. HandlersInv'
  BY <1>1, <1>2, <1>3, Types, Zenon DEF HandlersInv
<1>5. HandlersKept /\ Len(handler') \in Nat
  <2>1. FORK_BLOCK # Nil
    BY GateConstants
  <2>2. Told => Told'
    BY <1>2, <1>3, <2>1 DEF Told, Kept
  <2>3. \A n \in Nat : n <= n
    OBVIOUS
  <2> QED
    BY <1>2, <1>3, <2>2, <2>3, Types DEF HandlersKept, Kept
<1>6. CallersInv'
  <2>1. ASSUME NEW r \in CallerStates, CallerOK(r) PROVE CallerOK(r)'
    BY <1>5, <2>1, CallerStays, Zenon
  <2> QED
    BY <1>1, <2>1, Types DEF StackInv, CallersInv
<1>7. GateTypeOK'
  <2>1. faults' \in 0..MaxFaults
    BY <1>1, GateConstants DEF StackInv, StackTypeOK, GateTypeOK
  <2>2. loaded' \in [Gates -> PolicyFiles \cup {Nil}]
    BY <1>1 DEF StackInv, StackTypeOK, GateTypeOK
  <2> QED
    BY <1>1, <1>3, <2>1, <2>2, Zenon DEF StackInv, StackTypeOK, GateTypeOK
<1> QED
  BY <1>1, <1>4, <1>6, <1>7, GateMoves, ForkRuns

(* A chain of which some blocks at the end are taken back keeps its beginning. *)
LEMMA TakenBack ==
  ASSUME NEW chain \in Chains, NEW head \in 2..Len(chain)
  PROVE  /\ SubSeq(chain, 1, head) \in Chains
         /\ Len(SubSeq(chain, 1, head)) = head
         /\ SubSeq(chain, 1, head)[1] = chain[1]
         /\ SubSeq(chain, 1, head)[2] = chain[2]
<1>1. Len(chain) \in Nat /\ \A i \in 1..Len(chain) : chain[i] \in Blocks
  BY LenProperties, ElementOfSeq DEF Chains
<1>2. head \in Nat /\ head >= 2 /\ \A i \in 1..head : i \in 1..Len(chain)
  <2>1. \A n \in Nat : \A k \in 2..n : k \in Nat /\ k >= 2 /\ \A i \in 1..k : i \in 1..n
    OBVIOUS
  <2> QED
    BY <1>1, <2>1
<1>3. \A i \in 1..head : chain[i] \in Blocks
  BY <1>1, <1>2
<1>4. /\ SubSeq(chain, 1, head) \in Seq(Blocks)
      /\ Len(SubSeq(chain, 1, head)) = IF 1 <= head THEN head - 1 + 1 ELSE 0
      /\ \A i \in 1..(head - 1 + 1) : SubSeq(chain, 1, head)[i] = chain[1 + i - 1]
  BY <1>2, <1>3, SubSeqProperties
<1>5. head - 1 + 1 = head /\ 1 <= head /\ 1 \in 1..head /\ 2 \in 1..head /\ 1 + 1 - 1 = 1 /\ 1 + 2 - 1 = 2
  BY <1>2
<1> QED
  BY <1>4, <1>5 DEF Chains

(* What a performed call does to a handler. *)
LEMMA Performed ==
  ASSUME StackInv, NEW id \in Ids, handler[id].sent = "inflight", NEW result \in Int
  PROVE  LET new == [handler[id] EXCEPT !.sent = "performed", !.result = result]
         IN  new \in Handlers /\ Kept(handler[id], new) /\ HandlerOK(new, log[id])
<1> DEFINE new == [handler[id] EXCEPT !.sent = "performed", !.result = result]
<1>1. handler[id] \in Handlers /\ HandlerOK(handler[id], log[id])
  BY Types
<1>2. /\ new.request = handler[id].request /\ new.result = result /\ new.status = handler[id].status
      /\ new.sent = "performed" /\ new.pc = handler[id].pc /\ new.delivered = handler[id].delivered
  BY <1>1 DEF Handlers
<1>3. new \in Handlers
  <2>1. "performed" \in {"no", "inflight", "performed"} /\ result \in Int \cup {Nil}
    OBVIOUS
  <2>2. PICK h \in Handlers : h = [handler[id] EXCEPT !.sent = "performed"]
    BY <1>1, <2>1, SetField, Zenon
  <2>3. [h EXCEPT !.result = result] \in Handlers
    BY <2>1, SetField, Zenon
  <2> QED
    BY <2>2, <2>3, Zenon
<1> HIDE DEF new
<1>4. Kept(handler[id], new)
  BY <1>1, <1>2 DEF Kept, HandlerOK
<1>5. HandlerOK(new, log[id])
  BY <1>1, <1>2 DEF HandlerOK, Harmless, Unread, Logged, Decided, Cleared
<1> QED
  BY <1>3, <1>4, <1>5 DEF new

(* The upstream keeps all of its blocks when a gate has it perform a call, *)
(* the fork its fixture.                                                   *)
LEMMA ChainsKept ==
  ASSUME StackInv, NEW id \in Ids, perform(id), UNCHANGED bootVars
  PROVE  upstream' = upstream /\ ChainTypeOK' /\ ForkInv'
<1> DEFINE method == handler[id].request.method
<1>1. handler[id].sent = "inflight" /\ HandlerOK(handler[id], log[id])
  BY Types DEF perform
<1>2. fork # Nil /\ exit = 0 /\ FORK_BLOCK \in 2..3 /\ Nil \notin Chains
  BY ForkRuns, PinnedBlock, GateConstants DEF StackInv, ForkInv
<1>3. /\ upstream \in Chains /\ fork \in Chains
      /\ Len(upstream) \in Nat /\ Len(fork) \in Nat
      /\ snapshots \in [{"upstream", "fork"} -> SUBSET Nat]
  BY <1>2, LenProperties DEF StackInv, StackTypeOK, ChainTypeOK, Chains
<1>4. /\ Len(fork) >= FORK_BLOCK /\ Funded(fork)
      /\ \A h \in snapshots["fork"] : h \in FORK_BLOCK..Len(fork)
      /\ \A h \in snapshots["upstream"] : h = Len(upstream)
  BY <1>2 DEF StackInv, ForkInv
<1> DEFINE agent == handler[id].request.endpoint = "agent"
           chain == IF agent THEN fork ELSE upstream
           name == IF agent THEN "fork" ELSE "upstream"
           heads == {Height(chain)} \cup (IF method = "evm_revert" THEN snapshots[name] ELSE {})
           after(head) == IF method = "evm_mine" THEN Append(chain, "mined") ELSE SubSeq(chain, 1, head)
<1>5. PICK head \in heads :
        /\ fork' = IF agent THEN after(head) ELSE fork
        /\ upstream' = IF agent THEN upstream ELSE after(head)
        /\ snapshots' = [snapshots EXCEPT ![name] = IF method = "evm_snapshot" THEN @ \cup heads
                                                    ELSE {h \in @ : h <= Len(after(head))}]
  BY Zenon DEF perform
<1> HIDE DEF agent, chain, name, heads, after
<1>6. CASE handler[id].request.endpoint = "agent"
  <2>1. /\ head \in {Len(fork)} \cup snapshots["fork"]
        /\ upstream' = upstream
        /\ fork' = IF method = "evm_mine" THEN Append(fork, "mined") ELSE SubSeq(fork, 1, head)
        /\ snapshots' = [snapshots EXCEPT !["fork"] =
                           IF method = "evm_snapshot" THEN @ \cup {Len(fork)}
                           ELSE {h \in @ : h <= Len(fork')}]
        /\ method = "evm_snapshot" => head = Len(fork)
    <3>1. agent /\ chain = fork /\ name = "fork"
      BY <1>6 DEF agent, chain, name
    <3>2. heads = {Len(fork)} \cup (IF method = "evm_revert" THEN snapshots["fork"] ELSE {})
      BY <3>1 DEF heads, Height
    <3>3. after(head) = IF method = "evm_mine" THEN Append(fork, "mined") ELSE SubSeq(fork, 1, head)
      BY <3>1 DEF after
    <3> HIDE DEF method
    <3>4. heads \subseteq {Len(fork)} \cup snapshots["fork"] /\ (method = "evm_snapshot" => heads = {Len(fork)})
      BY <3>2
    <3>5. upstream' = upstream /\ fork' = after(head)
      BY <1>5, <3>1
    <3>6. CASE method = "evm_snapshot"
      BY <1>5, <3>1, <3>3, <3>4, <3>5, <3>6
    <3>7. CASE method # "evm_snapshot"
      BY <1>5, <3>1, <3>3, <3>4, <3>5, <3>7
    <3> QED
      BY <3>6, <3>7
  <2>2. head \in FORK_BLOCK..Len(fork)
    <3>1. \A n \in Nat : n >= FORK_BLOCK => n \in FORK_BLOCK..n
      BY <1>2
    <3> QED
      BY <1>3, <1>4, <2>1, <3>1
  <2>3. /\ fork' \in Chains /\ Len(fork') \in Nat
        /\ Len(fork') >= FORK_BLOCK /\ Funded(fork')
        /\ method = "evm_snapshot" => Len(fork') = Len(fork)
    <3>1. CASE method = "evm_mine"
      <4>1. "mined" \in Blocks
        BY DEF Blocks
      <4>2. /\ fork' \in Chains /\ Len(fork') = Len(fork) + 1
            /\ Grows(Len(fork), fork[1], fork[2], "mined", fork'[1], fork'[2])
        BY <1>3, <2>1, <3>1, <4>1, Grown
      <4>3. \A n \in Nat : n >= FORK_BLOCK => n + 1 \in Nat /\ n + 1 >= FORK_BLOCK /\ n + 1 >= 2 /\ n >= 2 /\ n >= 1
        BY <1>2
      <4>4. Len(fork) >= 1 /\ Len(fork) >= 2 /\ Len(fork') \in Nat /\ Len(fork') >= FORK_BLOCK /\ Len(fork') >= 2
        BY <1>3, <1>4, <4>2, <4>3
      <4>5. fork'[1] = fork[1] /\ fork'[2] = fork[2]
        BY <4>2, <4>4 DEF Grows
      <4> QED
        BY <1>4, <3>1, <4>2, <4>4, <4>5 DEF Funded
    <3>2. CASE method # "evm_mine"
      <4>1. head \in 2..Len(fork) /\ head \in Nat /\ head >= FORK_BLOCK /\ head >= 2
        <5>1. \A n \in Nat : \A k \in FORK_BLOCK..n : k \in 2..n /\ k \in Nat /\ k >= FORK_BLOCK /\ k >= 2
          BY <1>2
        <5> QED
          BY <1>3, <2>2, <5>1
      <4>2. fork' = SubSeq(fork, 1, head)
        BY <2>1, <3>2
      <4>3. fork' \in Chains /\ Len(fork') = head /\ fork'[1] = fork[1] /\ fork'[2] = fork[2]
        BY <1>3, <4>1, <4>2, TakenBack
      <4> QED
        BY <1>4, <2>1, <4>1, <4>3 DEF Funded
    <3> QED
      BY <3>1, <3>2
  <2>4. /\ snapshots' \in [{"upstream", "fork"} -> SUBSET Nat]
        /\ snapshots'["upstream"] = snapshots["upstream"]
        /\ \A h \in snapshots'["fork"] : h \in FORK_BLOCK..Len(fork')
    <3> DEFINE held == IF method = "evm_snapshot" THEN snapshots["fork"] \cup {Len(fork)}
                       ELSE {h \in snapshots["fork"] : h <= Len(fork')}
    <3>1. snapshots' = [snapshots EXCEPT !["fork"] = held]
      BY <1>3, <2>1
    <3>2. held \subseteq Nat
      BY <1>3
    <3>3. \A m, n \in Nat : \A h \in FORK_BLOCK..m : h <= n => h \in FORK_BLOCK..n
      BY <1>2
    <3>4. \A n \in Nat : n >= FORK_BLOCK => n \in FORK_BLOCK..n
      BY <1>2
    <3>5. \A h \in held : h \in FORK_BLOCK..Len(fork')
      <4>1. CASE method = "evm_snapshot"
        BY <1>3, <1>4, <2>3, <3>4, <4>1
      <4>2. CASE method # "evm_snapshot"
        BY <1>3, <1>4, <2>3, <3>3, <4>2
      <4> QED
        BY <4>1, <4>2
    <3> HIDE DEF held
    <3> QED
      BY <1>3, <3>1, <3>2, <3>5
  <2>5. fork' # Nil /\ exit' = 0 /\ Len(upstream') = Len(upstream)
    BY <1>2, <2>1, <2>3 DEF bootVars
  <2> QED
    BY <1>3, <1>4, <2>1, <2>3, <2>4, <2>5 DEF ChainTypeOK, ForkInv
<1>7. CASE handler[id].request.endpoint # "agent"
  <2>1. method # "evm_mine"
    BY <1>1, <1>7 DEF HandlerOK, Harmless, Barred, WriteOrAdminContainer, WriteOrAdminHost
  <2>2. /\ head \in {Len(upstream)} \cup snapshots["upstream"]
        /\ upstream' = SubSeq(upstream, 1, head)
        /\ fork' = fork
        /\ snapshots' = [snapshots EXCEPT !["upstream"] =
                           IF method = "evm_snapshot" THEN @ \cup {Len(upstream)}
                           ELSE {h \in @ : h <= Len(upstream')}]
    <3>1. ~agent /\ chain = upstream /\ name = "upstream"
      BY <1>7 DEF agent, chain, name
    <3>2. heads = {Len(upstream)} \cup (IF method = "evm_revert" THEN snapshots["upstream"] ELSE {})
      BY <3>1 DEF heads, Height
    <3>3. after(head) = SubSeq(upstream, 1, head)
      BY <2>1, <3>1 DEF after
    <3> HIDE DEF method
    <3>4. /\ heads \subseteq {Len(upstream)} \cup snapshots["upstream"]
          /\ method = "evm_snapshot" => heads = {Len(upstream)}
      BY <3>2
    <3>5. upstream' = after(head) /\ fork' = fork
      BY <1>5, <3>1
    <3>6. CASE method = "evm_snapshot"
      BY <1>5, <3>1, <3>3, <3>4, <3>5, <3>6
    <3>7. CASE method # "evm_snapshot"
      BY <1>5, <3>1, <3>3, <3>4, <3>5, <3>7
    <3> QED
      BY <3>6, <3>7
  <2>3. upstream' = upstream
    <3>1. head = Len(upstream)
      BY <1>4, <2>2
    <3> QED
      BY <1>3, <2>2, <3>1, SubSeqFull DEF Chains
  <2>4. /\ snapshots' \in [{"upstream", "fork"} -> SUBSET Nat]
        /\ snapshots'["fork"] = snapshots["fork"]
        /\ \A h \in snapshots'["upstream"] : h = Len(upstream')
    BY <1>3, <1>4, <2>2, <2>3
  <2>5. fork' # Nil /\ exit' = 0
    BY <1>2, <2>2 DEF bootVars
  <2> QED
    BY <1>3, <1>4, <2>2, <2>3, <2>4, <2>5 DEF ChainTypeOK, ForkInv
<1> QED
  BY <1>6, <1>7

LEMMA PerformKeeps ==
  ASSUME StackInv, NEW id \in Ids, perform(id), UNCHANGED bootVars
  PROVE  StackInv'
<1> DEFINE new(result) == [handler[id] EXCEPT !.sent = "performed", !.result = result]
<1>1. /\ handler[id].sent = "inflight" /\ UNCHANGED <<loaded, log, caller, faults>>
      /\ \E result \in Int : Set(id, new(result))
  <2>1. Len(fork) \in Int /\ Len(upstream) \in Int
    <3>1. fork # Nil
      BY ForkRuns
    <3>2. \A n \in Nat : n \in Int
      OBVIOUS
    <3> QED
      BY <3>1, <3>2, LenProperties DEF StackInv, StackTypeOK, ChainTypeOK, Chains
  <2>2. ChainId \in Int
    BY DEF ChainId
  <2> DEFINE method == handler[id].request.method
             chain  == IF handler[id].request.endpoint = "agent" THEN fork ELSE upstream
             answer == CASE method = "eth_chainId"     -> ChainId
                         [] method = "eth_blockNumber" -> Len(chain)
                         [] OTHER                      -> 0
  <2>3. Len(chain) \in Int
    BY <2>1
  <2>4. answer \in Int
    BY <2>2, <2>3
  <2>5. Set(id, new(answer))
    BY DEF perform, Height
  <2>6. handler[id].sent = "inflight" /\ UNCHANGED <<loaded, log, caller, faults>>
    BY DEF perform
  <2> QED
    BY <2>4, <2>5, <2>6
<1>2. PICK result \in Int : Set(id, new(result))
  BY <1>1
<1>3. /\ new(result) \in Handlers /\ Kept(handler[id], new(result)) /\ HandlerOK(new(result), log[id])
  BY <1>1, Performed
<1> HIDE DEF new
<1>4. /\ handler' \in Seq(Handlers) /\ log' \in Seq(Lines) /\ Len(handler') = Len(handler)
      /\ HandlersInv' /\ HandlersKept
  BY <1>1, <1>2, <1>3, SameLog, HandlerMoves
<1>5. CallersInv'
  <2>1. Len(handler') \in Nat
    BY <1>4, Types
  <2>2. \A r \in CallerStates : CallerOK(r) => CallerOK(r)'
    BY <1>4, <2>1, CallerStays
  <2> QED
    BY <1>1, <2>2, Types DEF StackInv, CallersInv
<1>6. GateTypeOK'
  BY <1>1, <1>4 DEF StackInv, StackTypeOK, GateTypeOK, Lines
<1>7. BootTypeOK' /\ BootInv'
  BY ChainsKept DEF StackInv, StackTypeOK, BootTypeOK, BootInv, bootVars
<1> QED
  BY <1>4, <1>5, <1>6, <1>7, ChainsKept DEF StackInv, StackTypeOK

------------------------------------------------------------------------------
(***************************************************************************)
(* The invariant, and what follows from it.                                *)
(***************************************************************************)
LEMMA StackInvHolds == StackSpec => []StackInv
<1>1. ASSUME StackInit PROVE StackInv
  <2>1. /\ upstream = <<>> /\ fork = Nil /\ snapshots = [chain \in {"upstream", "fork"} |-> {}]
        /\ boot = "idle" /\ exit = Nil
        /\ loaded = [g \in Gates |-> Nil] /\ handler = <<>> /\ log = <<>> /\ faults = 0
    BY <1>1 DEF StackInit, ChainInit, BootInit, GateInit
  <2>2. PICK budget \in Budgets : caller = [c \in Callers |-> Idle(budget[c])]
    BY <1>1 DEF StackInit, GateInit
  <2>3. Len(<<>>) = 0 /\ \A S : <<>> \in Seq(S)
    OBVIOUS
  <2>4. Nil # 0
    BY GateConstants
  <2>5. \A c \in Callers : /\ caller[c] \in CallerStates
                           /\ caller[c].id = 0 /\ caller[c].pinned = "no"
    BY <2>2, GateConstants DEF Idle, CallerStates
  <2>6. StackTypeOK
    <3>1. ChainTypeOK
      BY <2>1, <2>3 DEF ChainTypeOK, Chains
    <3>2. BootTypeOK
      BY <2>1 DEF BootTypeOK
    <3>3. caller \in [Callers -> CallerStates]
      BY <2>2, <2>5
    <3>4. faults \in 0..MaxFaults
      BY <2>1, GateConstants
    <3>5. GateTypeOK
      BY <2>1, <2>3, <3>3, <3>4 DEF GateTypeOK, CallerStates
    <3> QED
      BY <3>1, <3>2, <3>5 DEF StackTypeOK
  <2>7. BootInv
    BY <2>1, <2>3, <2>4 DEF BootInv, BootOK
  <2>8. ForkInv
    BY <2>1, <2>3 DEF ForkInv
  <2>9. HandlersInv
    BY <2>1, <2>3 DEF HandlersInv, Ids
  <2>10. CallersInv
    BY <2>1, <2>3, <2>5 DEF CallersInv, CallerOK
  <2> QED
    BY <2>6, <2>7, <2>8, <2>9, <2>10 DEF StackInv
<1>2. ASSUME StackInv, [StackNext]_stackVars PROVE StackInv'
  <2>1. CASE BootNext /\ UNCHANGED gateVars
    BY <1>2, <2>1, BootKeeps
  <2>2. CASE GateNext /\ UNCHANGED bootVars
    <3>1. ASSUME NEW c \in Callers, CallerStep(c) PROVE StackInv'
      BY <1>2, <2>2, <3>1, CallerStepKeeps
    <3>2. ASSUME NEW id \in Ids, HandlerStep(id) PROVE StackInv'
      BY <1>2, <2>2, <3>2, RefuseKeeps, ForwardKeeps, ResponseKeeps, WriteLogKeeps, LogRaisesKeeps, ReplyKeeps
         DEF HandlerStep
    <3>3. ASSUME NEW id \in Ids, perform(id) PROVE StackInv'
      BY <1>2, <2>2, <3>3, PerformKeeps
    <3>4. ASSUME NEW g \in Gates, start(g) \/ kill(g) PROVE StackInv'
      BY <1>2, <2>2, <3>4, StartKeeps, KillKeeps
    <3> QED
      BY <2>2, <3>1, <3>2, <3>3, <3>4 DEF GateNext
  <2>3. CASE UNCHANGED stackVars
    <3>1. UNCHANGED <<chainVars, bootVars, gateVars>>
      BY <2>3 DEF stackVars
    <3>2. BootTypeOK' /\ BootInv' /\ (fork # Nil => exit' = 0)
      BY <1>2, <3>1 DEF StackInv, StackTypeOK, BootTypeOK, BootInv, ForkInv, bootVars, chainVars
    <3> QED
      BY <1>2, <3>1, <3>2, BootMoves
  <2> QED
    BY <1>2, <2>1, <2>2, <2>3 DEF StackNext, rest
<1> QED
  BY <1>1, <1>2, PTL DEF StackSpec

(* Every variable of the stack keeps its type. *)
THEOREM StackTypesHold == StackSpec => []StackTypeOK
<1>1. StackInv => StackTypeOK
  BY DEF StackInv
<1> QED
  BY <1>1, StackInvHolds, PTL

(* main exits with 0 only on a chain whose pinned block holds the target,    *)
(* created and funded, however often it was killed and run again.            *)
THEOREM BootstrapAlwaysDelivers == StackSpec => []BootstrapDelivers
<1>1. StackInv => BootstrapDelivers
  <2>1. SUFFICES ASSUME StackInv, exit = 0
                 PROVE  FixtureAt(upstream, FORK_BLOCK) /\ Height(upstream) > FORK_BLOCK
    BY DEF BootstrapDelivers
  <2>2. /\ Len(upstream) = 4 /\ upstream[1] = "deploy" /\ upstream[2] = "fund"
        /\ FORK_BLOCK \in 2..3
    <3>1. Len(upstream) = 4 /\ 4 >= 3
      BY <2>1 DEF StackInv, BootInv, BootOK
    <3> QED
      BY <2>1, <3>1, PinnedBlock DEF StackInv, BootInv, BootOK
  <2> QED
    BY <2>2 DEF FixtureAt, HoldsAt, Height
<1> QED
  BY <1>1, StackInvHolds, PTL

(* An answer was logged before it was given, with its own status, and once. *)
THEOREM AnswersAreLogged == StackSpec => []AnsweredIsLogged
<1>1. StackInv => AnsweredIsLogged
  <2>1. SUFFICES ASSUME StackInv, NEW id \in Ids
                 PROVE  /\ Len(log[id]) <= 1
                        /\ handler[id].delivered /\ Understood(id) =>
                             Len(log[id]) = 1 /\ log[id][1].status = handler[id].status
    BY DEF AnsweredIsLogged
  <2>2. handler[id] \in Handlers /\ HandlerOK(handler[id], log[id])
    BY <2>1, Types
  <2>3. Len(<<>>) = 0 /\ 0 <= 1 /\ 1 <= 1
    OBVIOUS
  <2>4. log[id] = <<>> \/ Logged(handler[id], log[id])
    BY <2>2 DEF HandlerOK, Handlers, Handling
  <2>5. Len(log[id]) <= 1
    BY <2>3, <2>4 DEF Logged
  <2>6. ASSUME handler[id].delivered, Understood(id)
        PROVE  Len(log[id]) = 1 /\ log[id][1].status = handler[id].status
    <3>1. ~Unread(handler[id])
      BY <2>6 DEF Understood, Unread
    <3> QED
      BY <2>2, <2>6, <3>1 DEF HandlerOK, Logged
  <2> QED
    BY <2>5, <2>6
<1> QED
  BY <1>1, StackInvHolds, PTL

(* What a line says of allowed and of the status agrees with what the chain    *)
(* was sent and did, whatever is killed or late; only the container's 502,     *)
(* which says not allowed, leaves it open.                                     *)
THEOREM LogsTellTruth == StackSpec => []LogTellsTruth
<1>1. StackInv => LogTellsTruth
  <2>1. SUFFICES ASSUME StackInv, NEW id \in Ids, NEW i \in 1..Len(log[id])
                 PROVE  /\ log[id][i].allowed => handler[id].sent # "no"
                        /\ log[id][i].status = 200 => log[id][i].allowed /\ handler[id].sent = "performed"
                        /\ log[id][i].status \in {401, 403, 404} => ~log[id][i].allowed
                        /\ ~log[id][i].allowed => \/ handler[id].sent = "no"
                                                 \/ /\ handler[id].request.gate = "container"
                                                    /\ log[id][i].status = 502
    BY DEF LogTellsTruth
  <2>2. handler[id] \in Handlers /\ HandlerOK(handler[id], log[id])
    BY <2>1, Types
  <2>3. \A k \in 1..0 : FALSE
    OBVIOUS
  <2>4. log[id] = <<>> \/ Logged(handler[id], log[id])
    BY <2>2 DEF HandlerOK, Handlers, Handling
  <2>5. Logged(handler[id], log[id]) /\ i = 1
    <3>1. log[id] # <<>>
      BY <2>1, <2>3
    <3>2. Len(log[id]) = 1
      BY <2>4, <3>1 DEF Logged
    <3> QED
      BY <2>1, <2>4, <3>1, <3>2
  <2>6. handler[id].request.gate \in {"container", "host"}
    BY <2>2 DEF Handlers, Requests, Gates
  <2> QED
    BY <2>5, <2>6 DEF Logged, Decided, Cleared
<1> QED
  BY <1>1, StackInvHolds, PTL

(* Whoever was given a Fork is on a chain whose pinned block holds the         *)
(* fixture, and was told so.                                                   *)
THEOREM PinnedForkAlwaysHolds == StackSpec => []PinnedForkHolds
<1>1. StackInv => PinnedForkHolds
  <2>1. SUFFICES ASSUME StackInv, NEW c \in Callers, caller[c].pinned = "fork"
                 PROVE  FixtureAt(fork, FORK_BLOCK) /\ Told
    BY DEF PinnedForkHolds, Told
  <2>2. Told
    BY <2>1 DEF StackInv, CallersInv, CallerOK
  <2>3. fork # Nil
    BY <2>1, <2>2, ForkRuns DEF Told
  <2>4. fork \in Chains /\ Funded(fork) /\ Len(fork) >= FORK_BLOCK /\ FORK_BLOCK \in 2..3
    BY <2>1, <2>3, PinnedBlock DEF StackInv, StackTypeOK, ChainTypeOK, ForkInv
  <2>5. FixtureAt(fork, FORK_BLOCK)
    <3>1. Len(fork) \in Nat /\ 1 <= FORK_BLOCK /\ 2 <= FORK_BLOCK
      BY <2>4, LenProperties DEF Chains
    <3>2. \A n \in Nat : n >= 2 => 1 \in 1..n /\ 2 \in 1..n
      OBVIOUS
    <3>3. 1 \in 1..Len(fork) /\ 2 \in 1..Len(fork)
      BY <2>4, <3>1, <3>2 DEF Funded
    <3> QED
      BY <2>4, <3>1, <3>3 DEF FixtureAt, HoldsAt, Funded
  <2> QED
    BY <2>2, <2>5
<1> QED
  BY <1>1, StackInvHolds, PTL

(* Nothing that comes through a gate changes the upstream once it is forked, *)
(* and the bootstrap is over by then.                                        *)
THEOREM UpstreamStaysFrozen == StackSpec => UpstreamFrozen
<1>1. ASSUME StackInv, [StackNext]_stackVars PROVE [fork # Nil => upstream' = upstream]_stackVars
  <2>1. SUFFICES ASSUME fork # Nil PROVE upstream' = upstream
    OBVIOUS
  <2>2. boot = "idle"
    BY <1>1, <2>1, NoForkYet
  <2>3. CASE BootNext
    <3>1. CASE boot_start \/ start_fork
      BY <2>1, <3>1 DEF boot_start, start_fork
    <3>2. CASE check_nonce \/ build \/ check_head \/ write_ready \/ boot_fails
      BY <2>2, <3>2 DEF check_nonce, build, check_head, write_ready, boot_fails
    <3>3. CASE deploy \/ fund \/ mine
      BY <2>2, <3>3 DEF deploy, fund, mine, rpc
    <3> QED
      BY <2>3, <3>1, <3>2, <3>3 DEF BootNext, MainStep
  <2>4. CASE GateNext /\ UNCHANGED bootVars
    <3>1. ASSUME NEW id \in Ids, perform(id) PROVE upstream' = upstream
      BY <1>1, <2>4, <3>1, ChainsKept
    <3>2. CASE UNCHANGED chainVars
      BY <3>2 DEF chainVars
    <3> QED
      BY <2>4, <3>1, <3>2, ZenonT(40) DEF GateNext, CallerStep, HandlerStep, call, pinned_fork, ask_block,
         give_up, refuse, forward, response, no_response, write_log, log_raises, reply, start, kill
  <2>5. CASE UNCHANGED stackVars
    BY <2>5 DEF stackVars, chainVars
  <2> QED
    BY <1>1, <2>3, <2>4, <2>5 DEF StackNext, rest
<1> QED
  BY <1>1, StackInvHolds, PTL DEF StackSpec, UpstreamFrozen

==============================================================================
