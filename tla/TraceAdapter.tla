----------------------------- MODULE TraceAdapter -----------------------------
(***************************************************************************)
(* chain/foundry_trace.py and chain/trace.py: the call-trace arenas of     *)
(* forge test --json become frames, the frames a TraceSummary, and the     *)
(* summary is held against the limits and the cheatcode policy.            *)
(*                                                                         *)
(* The JSON is not trusted.  Its nodes and their parents are known from    *)
(* the start; the rest of it is chosen where the code reads it, and kept   *)
(* in the frame when the code reads it again.  An exception discards       *)
(* whatever was built.                                                     *)
(***************************************************************************)
EXTENDS Integers, FiniteSets, SequencesExt, Selecting

CONSTANTS
  Reports,       \* suites, results, status and kind a report may have
  Traces,        \* "traces" of the test: a sequence of [kind, nodes]
  Contents,      \* what a node may hold besides its index and parent
  Indices,       \* indices a list of children may have
  Events,        \* kinds of logs: AssertionChecked, Transfer and other
  Positions,     \* positions an ordering entry may name
  MaxEntries,    \* ordering entries in one trace
  Policies,      \* cheatcodes that catalog and policy allow, by witness class and phase
  Witnesses,     \* class, limits and pinned block of a witness
  initial,       \* initial_timestamp and initial_block, by the cheatcode that moves them
  Nil            \* nothing: no parent, no cheatcode, not an object

Clocks == {"warp", "roll"}

ASSUME AdapterConstants ==
  /\ Traces \subseteq Seq([kind : STRING, nodes : Seq([idx : Int, parent : Int \cup {Nil}])])
  /\ Contents \subseteq [success : BOOLEAN, children : Nat, logs : Nat,
                         cheatcode : [name : STRING, args : Nat, alias : STRING,
                                      value : Nat \cup {Nil}] \cup {Nil}]
  /\ \A content \in Contents :
       content.cheatcode # Nil /\ content.cheatcode.name \in Clocks => content.cheatcode.value \in Nat
  /\ \A w \in Witnesses : w.max_advance \in [Clocks -> Nat]
  /\ initial \in [Clocks -> Nat]
  /\ MaxEntries \in Nat
  /\ Positions \subseteq Int

ARENA_ORDER == <<"Deployment", "Setup", "Execution">>

PHASESMissing(kind) == kind

PHASES(kind) == IF kind = "Execution" THEN "witness" ELSE "setup"

VARIABLES
  traces,        \* the input
  pc,
  arena,         \* how many arenas were begun
  frames,        \* the frames, in the order in which their nodes were opened
  stack,         \* the nodes being converted, the innermost last
  derived_logs,  \* every log converted, in order
  entries,       \* ordering entries still to come
  summary,       \* what parse_trace has counted so far
  witness,       \* the witness the trace was accepted for
  policy         \* the policy it was accepted under

adapterVars == <<traces, pc, arena, frames, stack, derived_logs, entries, summary, witness, policy>>

Ended == {"accepted", "raised"}

Empty == [count |-> 0, now |-> initial, advance |-> [c \in Clocks |-> 0],
          cheatcodes |-> <<>>, events |-> <<>>]

LogRecords == [position : Int, event : Events, reverted : BOOLEAN]

AdapterTypeOK ==
  /\ traces \in Traces
  /\ pc \in {"test", "arenas", "arena", "convert", "logs", "parse", "enforce"} \cup Ended
  /\ arena \in 0..3
  /\ \A i \in DOMAIN frames :
       /\ frames[i].parent \in 0..(i - 1)
       /\ \A j \in DOMAIN frames[i].children : frames[i].children[j] \in (i + 1)..Len(frames)
       /\ frames[i].logs \in Seq(LogRecords)
  /\ \A i \in DOMAIN stack : stack[i].frame \in DOMAIN frames /\ stack[i].reverted \in BOOLEAN
  /\ derived_logs \in Seq(Nat \X Int)
  /\ entries \in 0..MaxEntries
  /\ summary.count \in 0..Len(frames)
  /\ \A i \in DOMAIN summary.cheatcodes : summary.cheatcodes[i].phase \in {"setup", "witness"}
  /\ witness \in Witnesses \cup {Nil}

AdapterInit ==
  /\ traces \in Traces
  /\ pc = "test"
  /\ arena = 0
  /\ frames = <<>>
  /\ stack = <<>>
  /\ derived_logs = <<>>
  /\ entries = MaxEntries
  /\ summary = Empty
  /\ witness = Nil
  /\ policy = Nil

(* FoundryTraceFormatError, CheatcodeDecodeError or TracePolicyError. *)
Raise ==
  /\ pc' = "raised"
  /\ arena' = 0
  /\ frames' = <<>>
  /\ stack' = <<>>
  /\ derived_logs' = <<>>
  /\ entries' = 0
  /\ summary' = Empty
  /\ UNCHANGED <<traces, witness, policy>>

------------------------------------------------------------------------------
(***************************************************************************)
(* adapt_forge_test_json: the one test, then its arenas.                   *)
(***************************************************************************)
select_test ==
  /\ pc = "test"
  /\ \E report \in Reports :
       IF report = [suites |-> 1, results |-> 1, name |-> "declared", status |-> "Success",
                    kind |-> "Unit"]
       THEN /\ pc' = "arenas"
            /\ UNCHANGED <<traces, arena, frames, stack, derived_logs, entries, summary,
                           witness, policy>>
       ELSE Raise

Given(kind) == {i \in DOMAIN traces : traces[i].kind = kind}

select_arenas ==
  /\ pc = "arenas"
  /\ IF /\ \A i \in DOMAIN traces : traces[i].kind \in Range(ARENA_ORDER) /\ traces[i].nodes # <<>>
        /\ \A kind \in Range(ARENA_ORDER) : Cardinality(Given(kind)) <= 1
        /\ Given("Execution") # {}
     THEN /\ pc' = "arena"
          /\ UNCHANGED <<traces, arena, frames, stack, derived_logs, entries, summary,
                         witness, policy>>
     ELSE Raise

(* The kinds of the arenas there are, in the order they are converted in. *)
Present == SelectAt(ARENA_ORDER, {i \in DOMAIN ARENA_ORDER : Given(ARENA_ORDER[i]) # {}})

Nodes(kind) == traces[CHOOSE i \in Given(kind) : TRUE].nodes

------------------------------------------------------------------------------
(***************************************************************************)
(* _convert_arena.                                                         *)
(***************************************************************************)
FramesOf(kind) == {i \in DOMAIN frames : frames[i].kind = kind}

visited(kind) == {frames[i].idx : i \in FramesOf(kind)}

reverted_insideOwn(parent_reverted, success) == ~success

reverted_inside(parent_reverted, success) == parent_reverted \/ ~success

(* The frame of a node, from what its trace holds. *)
Frame(kind, node, parent, content) ==
  [kind |-> kind, idx |-> node.idx, parent |-> parent, success |-> content.success,
   cheatcode |-> content.cheatcode, width |-> content.children, emits |-> content.logs,
   children |-> <<>>, logs |-> <<>>]

(* open_node for a node not visited yet, whose stack entry goes above the rest. *)
open_node(kind, node, parent, parent_reverted, rest) ==
  \E content \in Contents :
    LET child  == Len(frames) + 1
        linked == IF parent = 0 THEN frames
                  ELSE [frames EXCEPT ![parent].children = Append(@, child)]
    IN  /\ frames' = Append(linked, Frame(kind, node, parent, content))
        /\ stack' = Append(rest, [frame |-> child,
                                  reverted |-> reverted_inside(parent_reverted, content.success),
                                  calls |-> {}, logs |-> {}])
        /\ pc' = "convert"
        /\ UNCHANGED <<traces, derived_logs, summary, witness, policy>>

convert_arena ==
  LET kind  == Present[arena + 1]
      nodes == Nodes(kind)
      roots == {i \in DOMAIN nodes : nodes[i].parent = Nil}
  IN  /\ pc = "arena"
      /\ IF IsInjective([i \in DOMAIN nodes |-> nodes[i].idx]) /\ Cardinality(roots) = 1
         THEN /\ \E i \in roots : open_node(kind, nodes[i], 0, FALSE, <<>>)
              /\ arena' = arena + 1
              /\ UNCHANGED entries
         ELSE Raise

Top == stack[Len(stack)]

Below == Front(stack)

(* The next entry of the innermost node's ordering. *)
NextEntry ==
  /\ pc = "convert"
  /\ entries > 0

skip_step ==
  /\ NextEntry
  /\ entries' = entries - 1
  /\ UNCHANGED <<traces, pc, arena, frames, stack, derived_logs, summary, witness, policy>>

(* by_idx.get(idx), which must point back to the node. *)
ChildOf(frame, idx) ==
  {n \in Range(Nodes(frame.kind)) : n.idx = idx /\ n.parent = frame.idx}

(* A call whose entry in children is idx. *)
convert_call(position, idx) ==
  LET frame == frames[Top.frame]
  IN  /\ NextEntry
      /\ IF /\ position \in 0..(frame.width - 1) \ Top.calls
            /\ ChildOf(frame, idx) # {}
            /\ idx \notin visited(frame.kind)
         THEN /\ \E child \in ChildOf(frame, idx) :
                   open_node(frame.kind, child, Top.frame, Top.reverted,
                             Append(Below, [Top EXCEPT !.calls = @ \cup {position}]))
              /\ entries' = entries - 1
              /\ UNCHANGED arena
         ELSE Raise

(* _convert_log; a Transfer that was reverted is not decoded into the frame. *)
convert_log(position, event) ==
  LET top == Top
  IN  /\ NextEntry
      /\ IF position \in 0..(frames[top.frame].emits - 1) \ top.logs
         THEN /\ frames' = [frames EXCEPT ![top.frame].logs =
                              Append(@, [position |-> position, event |-> event,
                                         reverted |-> top.reverted])]
              /\ stack' = Append(Below, [top EXCEPT !.logs = @ \cup {position}])
              /\ derived_logs' = Append(derived_logs, <<top.frame, position>>)
              /\ entries' = entries - 1
              /\ UNCHANGED <<traces, pc, arena, summary, witness, policy>>
         ELSE Raise

require_consumed(entry) ==
  /\ Cardinality(entry.calls) = frames[entry.frame].width
  /\ Cardinality(entry.logs) = frames[entry.frame].emits

all_visitedRootOnly(kind) == visited(kind) # {}

all_visited(kind) == Cardinality(visited(kind)) = Len(Nodes(kind))

(* The ordering has no more entries; with the root's, the arena is done. *)
end_node ==
  /\ pc = "convert"
  /\ IF ~require_consumed(Top) \/ (Len(stack) = 1 /\ ~all_visited(Present[arena]))
     THEN Raise
     ELSE /\ stack' = Below
          /\ pc' = IF Len(stack) > 1 THEN "convert"
                   ELSE IF arena < Len(Present) THEN "arena" ELSE "logs"
          /\ UNCHANGED <<traces, arena, frames, derived_logs, entries, summary, witness, policy>>

(* An object is missing or of the wrong type, an address or hex string or the *)
(* arguments of a known cheatcode or event cannot be decoded, or an ordering  *)
(* entry is of no known kind.                                                 *)
malformed ==
  /\ pc \in {"arenas", "arena", "convert", "logs"}
  /\ Raise

(* _check_logs_against_forge: the logs of the test, if there are any. *)
check_logs ==
  /\ pc = "logs"
  /\ \E logs \in {Nil, derived_logs, <<>>} :
       IF logs \in {Nil, derived_logs}
       THEN /\ pc' = "parse"
            /\ UNCHANGED <<traces, arena, frames, stack, derived_logs, entries, summary,
                           witness, policy>>
       ELSE Raise

------------------------------------------------------------------------------
(***************************************************************************)
(* extract_structured_trace and parse_trace.                               *)
(***************************************************************************)

(* _normalize_frame keeps everything but the success flag, which TraceFrame *)
(* then takes to be set.                                                    *)
normalize(frame) == [frame EXCEPT !.success = TRUE]

(* _flatten_records: a frame, then what its children flatten to. *)
visitLastFirst(i) ==
  LET v[f \in DOMAIN frames] ==
        <<f>> \o FlattenSeq([j \in DOMAIN frames[f].children |-> v[Reverse(frames[f].children)[j]]])
  IN  v[i]

visit(i) ==
  LET v[f \in DOMAIN frames] ==
        <<f>> \o FlattenSeq([j \in DOMAIN frames[f].children |-> v[frames[f].children[j]]])
  IN  v[i]

flatten_records ==
  LET roots == SelectAt([i \in DOMAIN frames |-> i], {i \in DOMAIN frames : frames[i].parent = 0})
  IN  FlattenSeq([i \in DOMAIN roots |-> visit(roots[i])])

IsClock(cheatcode) == cheatcode # Nil /\ cheatcode.name \in Clocks

(* The logs that make it into assertion_events or transfers. *)
Counted(frame) ==
  SelectAt(frame.logs, {k \in DOMAIN frame.logs : /\ frame.logs[k].event # "other"
                                                  /\ ~frame.logs[k].reverted
                                                  /\ frame.success})

advanced(now, advance, clock, value) ==
  [now |-> [now EXCEPT ![clock] = value],
   advance |-> [advance EXCEPT ![clock] = @ + (value - now[clock])]]

(* One turn of parse_trace's loop. *)
parse_frame ==
  LET i     == flatten_records[summary.count + 1]
      frame == normalize(frames[i])
      call  == frame.cheatcode
      time  == IF IsClock(call) THEN advanced(summary.now, summary.advance, call.name, call.value)
               ELSE [now |-> summary.now, advance |-> summary.advance]
      logs  == Counted(frame)
  IN  /\ pc = "parse"
      /\ summary.count < Len(frames)
      /\ IF IsClock(call) /\ call.value < summary.now[call.name]
         THEN Raise
         ELSE /\ summary' =
                   [count |-> summary.count + 1, now |-> time.now, advance |-> time.advance,
                    cheatcodes |-> summary.cheatcodes \o
                                     (IF call = Nil THEN <<>>
                                      ELSE <<[call |-> call, phase |-> PHASES(frame.kind)]>>),
                    events |-> summary.events \o
                                 [j \in DOMAIN logs |-> <<i, logs[j].position>>]]
              /\ UNCHANGED <<traces, pc, arena, frames, stack, derived_logs, entries, witness, policy>>

parse_done ==
  /\ pc = "parse"
  /\ summary.count = Len(frames)
  /\ pc' = "enforce"
  /\ UNCHANGED <<traces, arena, frames, stack, derived_logs, entries, summary, witness, policy>>

------------------------------------------------------------------------------
(***************************************************************************)
(* ReplayCoordinator.collect holds the summary against the witness.        *)
(***************************************************************************)
enforce_time_block_limits(w) == \A clock \in Clocks : summary.advance[clock] <= w.max_advance[clock]

ExternalIO == {"ffi", "readFile", "writeFile", "setEnv", "envString", "envOrFile"}

OtherForks == {"createFork", "selectFork"}

ForkMutation ==
  {"deal", "etch", "store", "load", "prank", "startPrank", "hoax", "startHoax", "setNonce",
   "mockCall", "mockCallRevert"}

deniedForkInAnyPhase(w, rules, made) ==
  \/ made.call.name \notin rules[w.class][made.phase]
  \/ made.call.name \in ExternalIO \cup OtherForks
  \/ /\ made.call.name = "createSelectFork"
     /\ \/ w.class # "deployed_fork"
        \/ made.call.args # 2 \/ made.call.alias # "l0vi0x_gate"
        \/ w.fork_block = Nil \/ made.call.value # w.fork_block
  \/ w.class = "deployed_fork" /\ made.phase = "witness" /\ made.call.name \in ForkMutation

(* A cheatcode that the catalog does not have is in no policy.  The alias has *)
(* to be that of the gate, which is no raw URL; a block that is not a number, *)
(* as in the form with a transaction hash, is not the pinned one.             *)
denied(w, rules, made) ==
  \/ made.call.name \notin rules[w.class][made.phase]
  \/ made.call.name \in ExternalIO
  \/ made.call.name \in OtherForks
  \/ /\ made.call.name = "createSelectFork"
     /\ \/ w.class # "deployed_fork" \/ made.phase # "setup"
        \/ made.call.args # 2 \/ made.call.alias # "l0vi0x_gate"
        \/ w.fork_block = Nil \/ made.call.value # w.fork_block
  \/ w.class = "deployed_fork" /\ made.phase = "witness" /\ made.call.name \in ForkMutation

enforce_cheatcode_policy(w, rules) ==
  \A i \in DOMAIN summary.cheatcodes : ~denied(w, rules, summary.cheatcodes[i])

enforce ==
  /\ pc = "enforce"
  /\ \E w \in Witnesses, rules \in Policies :
       IF enforce_time_block_limits(w) /\ enforce_cheatcode_policy(w, rules)
       THEN /\ pc' = "accepted"
            /\ witness' = w
            /\ policy' = rules
            /\ UNCHANGED <<traces, arena, frames, stack, derived_logs, entries, summary>>
       ELSE Raise

AdapterStep ==
  \/ select_test \/ select_arenas \/ convert_arena
  \/ skip_step \/ end_node \/ malformed \/ check_logs
  \/ \E position \in Positions :
       \/ \E idx \in Indices : convert_call(position, idx)
       \/ \E event \in Events : convert_log(position, event)
  \/ parse_frame \/ parse_done \/ enforce

stop == pc \in Ended /\ UNCHANGED adapterVars

AdapterNext == AdapterStep \/ stop

AdapterSpec == AdapterInit /\ [][AdapterNext]_adapterVars

------------------------------------------------------------------------------
(* No part of an accepted trace was left out or counted twice: every node of *)
(* every arena is exactly one frame, with all the logs it emitted and all    *)
(* the calls it made, each exactly once, however the orderings, children and *)
(* parents of the JSON were linked ("an unreachable node could hide a        *)
(* cheatcode call").                                                         *)
EveryNodeOnce ==
  pc = "accepted" =>
    \A i \in DOMAIN traces :
      /\ Cardinality(FramesOf(traces[i].kind)) = Len(traces[i].nodes)
      /\ \A j \in DOMAIN traces[i].nodes :
           \E f \in FramesOf(traces[i].kind) :
             LET frame == frames[f]
                 at    == [k \in DOMAIN frame.logs |-> frame.logs[k].position]
             IN  /\ frame.idx = traces[i].nodes[j].idx
                 /\ Len(frame.children) = frame.width
                 /\ IsInjective(at) /\ Range(at) = 0..(frame.emits - 1)

(* Frame f, and every frame around it, succeeded. *)
Effective(f) ==
  LET up[g \in DOMAIN frames] ==
        frames[g].success /\ (frames[g].parent # 0 => up[frames[g].parent])
  IN  up[f]

(* What the summary counts of an accepted trace is what took effect: every   *)
(* event of a frame that neither failed nor was undone by a failed frame     *)
(* around it, and no other, although the success flags are lost on the way.  *)
EffectiveEventsCount ==
  pc = "accepted" =>
    Range(summary.events) =
      UNION {{<<f, log.position>> : log \in {l \in Range(frames[f].logs) : l.event # "other"}} :
               f \in {g \in DOMAIN frames : Effective(g)}}

(* In an accepted trace time and blocks never run backward, in the order in  *)
(* which Forge made the calls, and never further than the witness declares,  *)
(* whether a call is in setUp or in the test, reverted or not.               *)
ClocksWithinLimits ==
  pc = "accepted" =>
    \A f \in DOMAIN frames :
      LET call == frames[f].cheatcode
      IN  IsClock(call) =>
            /\ call.value \in initial[call.name]..(initial[call.name] + witness.max_advance[call.name])
            /\ \A g \in 1..(f - 1) :
                 IsClock(frames[g].cheatcode) /\ frames[g].cheatcode.name = call.name =>
                   frames[g].cheatcode.value <= call.value

(* Whatever catalog and policy allow, an accepted trace has no external I/O in *)
(* any frame, and what the test executes it executes on the pinned block of  *)
(* the gate: no other fork is ever created or selected, that one only for a  *)
(* fork witness and before the first frame of the test, in the order Forge   *)
(* ran them.  A fork witness neither mints nor impersonates in the test.     *)
FloorHolds ==
  pc = "accepted" =>
    \A f \in DOMAIN frames :
      LET call == frames[f].cheatcode
      IN  call # Nil =>
            /\ call.name \notin ExternalIO
            /\ call.name \notin OtherForks
            /\ call.name = "createSelectFork" =>
                 /\ witness.class = "deployed_fork"
                 /\ call.alias = "l0vi0x_gate" /\ call.value = witness.fork_block
                 /\ \A g \in 1..f : frames[g].kind # "Execution"
            /\ witness.class = "deployed_fork" /\ frames[f].kind = "Execution" =>
                 call.name \notin ForkMutation

==============================================================================
