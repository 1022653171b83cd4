-------------------------- MODULE TraceAdapterProofs --------------------------
(***************************************************************************)
(* Proofs about TraceAdapter, for any report, traces, contents, policies   *)
(* and witnesses.                                                          *)
(*                                                                         *)
(* The argument.  Frames are opened depth first, so the frames after a     *)
(* node and below it are consecutive: the parent of a frame is the one     *)
(* before it or one around that one (Nested), and the children of a frame  *)
(* are listed in order (Linked).  Both are kept because the open nodes are *)
(* a path from the root to the last frame (Path).  Flattening such frames  *)
(* gives them back in their order (FlattenedInOrder), and parse_trace      *)
(* meets every frame once, in the order of execution.  What it adds up is  *)
(* then a statement about a prefix of the frames (Summed).  Consumed calls *)
(* and logs are tied to what a frame holds while it is open (Holding) and  *)
(* are complete when it is closed (Whole); the marks of the logs follow a  *)
(* function that says which frames take effect (Marked).                   *)
(***************************************************************************)
EXTENDS TraceAdapter, SelectingProofs, FiniteSetTheorems

Kinds == Range(ARENA_ORDER)

CheatCalls == {content.cheatcode : content \in Contents}

FrameRecords ==
  [kind : Kinds, idx : Int, parent : Nat, success : BOOLEAN, cheatcode : CheatCalls,
   width : Nat, emits : Nat, children : Seq(Nat), logs : Seq(LogRecords)]

StackEntries == [frame : Nat, reverted : BOOLEAN, calls : SUBSET Int, logs : SUBSET Int]

Summaries ==
  [count : Nat, now : [Clocks -> Int], advance : [Clocks -> Int],
   cheatcodes : Seq([call : CheatCalls, phase : {"setup", "witness"}]), events : Seq(Nat \X Int)]

------------------------------------------------------------------------------
(***************************************************************************)
(* The shape of the frames.                                                *)
(***************************************************************************)

(* Whatever lies between a frame and its parent is below that parent. *)
Nested(fs) ==
  \A h \in 1..Len(fs) :
    /\ fs[h].parent \in 0..(h - 1)
    /\ \A g \in (fs[h].parent + 1)..(h - 1) : fs[g].parent >= fs[h].parent

(* list has the frames with that parent, in order. *)
ListsChildren(list, fs, parent) ==
  /\ \A i \in 1..Len(list) : list[i] \in 1..Len(fs) /\ fs[list[i]].parent = parent
  /\ \A i, j \in 1..Len(list) : i < j => list[i] < list[j]
  /\ \A h \in 1..Len(fs) : fs[h].parent = parent => \E i \in 1..Len(list) : list[i] = h

Linked(fs) == \A f \in 1..Len(fs) : ListsChildren(fs[f].children, fs, f)

(* The stack is a path from a root down, and all later frames are below it. *)
Path(fs, st) ==
  /\ \A i \in 1..Len(st) :
       /\ st[i].frame \in 1..Len(fs)
       /\ \A g \in (st[i].frame + 1)..Len(fs) : fs[g].parent >= st[i].frame
  /\ \A i, j \in 1..Len(st) : i < j => st[i].frame < st[j].frame

------------------------------------------------------------------------------
(***************************************************************************)
(* What a frame holds.                                                     *)
(***************************************************************************)
Positioned(frame, positions) ==
  LET at == [k \in DOMAIN frame.logs |-> frame.logs[k].position]
  IN  IsInjective(at) /\ Range(at) = positions

Holding(frame, entry) ==
  /\ entry.calls \subseteq 0..(frame.width - 1)
  /\ Cardinality(entry.calls) = Len(frame.children)
  /\ entry.logs \subseteq 0..(frame.emits - 1)
  /\ Positioned(frame, entry.logs)

Whole(frame) ==
  /\ Len(frame.children) = frame.width
  /\ Positioned(frame, 0..(frame.emits - 1))

Consumed(fs, st) ==
  /\ \A i \in 1..Len(st) : Holding(fs[st[i].frame], st[i])
  /\ \A f \in 1..Len(fs) : (\A i \in 1..Len(st) : st[i].frame # f) => Whole(fs[f])

(* eff says which frames take effect, and the marks say the same. *)
Marked(fs, st, eff) ==
  /\ \A f \in 1..Len(fs) : eff[f] = (fs[f].success /\ (fs[f].parent # 0 => eff[fs[f].parent]))
  /\ \A f \in 1..Len(fs) : \A k \in 1..Len(fs[f].logs) : fs[f].logs[k].reverted = ~eff[f]
  /\ \A i \in 1..Len(st) : st[i].reverted = ~eff[st[i].frame]

Effects(fs, st) == \E eff \in [1..Len(fs) -> BOOLEAN] : Marked(fs, st, eff)

------------------------------------------------------------------------------
(***************************************************************************)
(* Nodes and arenas.                                                       *)
(***************************************************************************)
GivenIn(tr, kind) == {i \in DOMAIN tr : tr[i].kind = kind}

PresentIn(tr) == SelectAt(ARENA_ORDER, {i \in DOMAIN ARENA_ORDER : GivenIn(tr, ARENA_ORDER[i]) # {}})

NodesIn(tr, kind) == tr[CHOOSE i \in GivenIn(tr, kind) : TRUE].nodes

VisitedIn(fs, kind) == {fs[i].idx : i \in {j \in 1..Len(fs) : fs[j].kind = kind}}

WellFormed(tr) ==
  /\ \A i \in DOMAIN tr : tr[i].kind \in Kinds
  /\ \A kind \in Kinds : Cardinality(GivenIn(tr, kind)) <= 1
  /\ GivenIn(tr, "Execution") # {}

Distinct(nodes) == IsInjective([i \in DOMAIN nodes |-> nodes[i].idx])

(* Every frame is one node of an arena that was begun, and of no other frame. *)
Placed(tr, fs, n) ==
  /\ \A f \in 1..Len(fs) : \E a \in 1..n :
       /\ fs[f].kind = PresentIn(tr)[a]
       /\ \E node \in Range(NodesIn(tr, PresentIn(tr)[a])) : node.idx = fs[f].idx
  /\ \A f, g \in 1..Len(fs) : fs[f].kind = fs[g].kind /\ fs[f].idx = fs[g].idx => f = g

(* The frames of the test come after all others. *)
TestLast(fs) ==
  \A f, g \in 1..Len(fs) : f < g /\ fs[f].kind = "Execution" => fs[g].kind = "Execution"

(* The first n arenas have nodes of their own and were visited to the last one. *)
DistinctTo(tr, n) == \A a \in 1..n : Distinct(NodesIn(tr, PresentIn(tr)[a]))

FinishedTo(tr, fs, n) ==
  \A a \in 1..n : Cardinality(VisitedIn(fs, PresentIn(tr)[a])) = Len(NodesIn(tr, PresentIn(tr)[a]))

------------------------------------------------------------------------------
(***************************************************************************)
(* What parse_trace has added up of the first s.count frames.              *)
(***************************************************************************)
CheatsListed(s, fs) ==
  \A f \in 1..s.count :
    fs[f].cheatcode # Nil =>
      \E j \in 1..Len(s.cheatcodes) :
        s.cheatcodes[j] = [call |-> fs[f].cheatcode, phase |-> PHASES(fs[f].kind)]

Telescoped(s) == \A c \in Clocks : s.now[c] >= initial[c] /\ s.advance[c] = s.now[c] - initial[c]

ClocksOrdered(s, fs) ==
  \A f \in 1..s.count :
    LET call == fs[f].cheatcode
    IN  IsClock(call) =>
          /\ initial[call.name] <= call.value /\ call.value <= s.now[call.name]
          /\ \A g \in 1..(f - 1) :
               IsClock(fs[g].cheatcode) /\ fs[g].cheatcode.name = call.name =>
                 fs[g].cheatcode.value <= call.value

Countable(frame) ==
  {k \in 1..Len(frame.logs) : frame.logs[k].event # "other" /\ ~frame.logs[k].reverted}

EventsOf(fs, f) == {<<f, fs[f].logs[k].position>> : k \in Countable(fs[f])}

EventsListed(s, fs) == Range(s.events) = UNION {EventsOf(fs, f) : f \in 1..s.count}

Summed(s, fs) ==
  /\ s \in Summaries /\ s.count <= Len(fs)
  /\ CheatsListed(s, fs) /\ Telescoped(s) /\ ClocksOrdered(s, fs) /\ EventsListed(s, fs)

------------------------------------------------------------------------------
(***************************************************************************)
(* The inductive invariant.                                                *)
(***************************************************************************)
PlainTypes ==
  /\ traces \in Traces
  /\ pc \in {"test", "arenas", "arena", "convert", "logs", "parse", "enforce"} \cup Ended
  /\ frames \in Seq(FrameRecords)
  /\ stack \in Seq(StackEntries)
  /\ derived_logs \in Seq(Nat \X Int)
  /\ entries \in 0..MaxEntries
  /\ witness \in Witnesses \cup {Nil}

Adapting == {"arena", "convert", "logs", "parse", "enforce", "accepted"}

(* Where the adapter is, and how far it came. *)
Progress ==
  /\ pc \notin Adapting => frames = <<>> /\ arena = 0
  /\ pc \in Adapting => WellFormed(traces)
  /\ pc # "convert" => stack = <<>>
  /\ pc = "arena" => arena \in 0..(Len(PresentIn(traces)) - 1)
  /\ pc = "convert" => arena \in 1..Len(PresentIn(traces)) /\ stack # <<>>
  /\ pc \in {"logs", "parse", "enforce", "accepted"} => arena = Len(PresentIn(traces))
  /\ pc \notin {"parse", "enforce", "accepted"} => summary = Empty
  /\ pc \in {"enforce", "accepted"} => summary.count = Len(frames)

(* The open nodes are of one kind. *)
InArena(fs, st, kind) == \A i \in 1..Len(st) : fs[st[i].frame].kind = kind

Shape ==
  /\ Nested(frames) /\ Linked(frames) /\ Path(frames, stack)
  /\ Consumed(frames, stack) /\ Effects(frames, stack)

Arenas ==
  pc \in Adapting =>
    /\ Placed(traces, frames, arena) /\ DistinctTo(traces, arena) /\ TestLast(frames)
    /\ InArena(frames, stack, PresentIn(traces)[arena])
    /\ FinishedTo(traces, frames, IF pc = "convert" THEN arena - 1 ELSE arena)

Judgement ==
  pc = "accepted" =>
    /\ witness \in Witnesses
    /\ enforce_time_block_limits(witness) /\ enforce_cheatcode_policy(witness, policy)

AdapterInv ==
  /\ PlainTypes /\ Progress /\ Shape /\ Arenas /\ Summed(summary, frames) /\ Judgement

------------------------------------------------------------------------------
(***************************************************************************)
(* Flattening gives the frames in their order.                             *)
(***************************************************************************)

(* The numbers from a to b. *)
Run(a, b) == [k \in 1..((b - a) + 1) |-> (a + k) - 1]

(* A list that is a function on 1..n. *)
LEMMA AsLong ==
  ASSUME NEW S, NEW n \in Nat, NEW f \in [1..n -> S]
  PROVE  f \in Seq(S) /\ Len(f) = n
<1>1. f \in Seq(S)
  BY SeqDef
<1>2. Len(f) \in Nat /\ DOMAIN f = 1..Len(f)
  BY <1>1, LenProperties
<1>3. \A m \in Nat : 1..m = 1..n => m = n
  OBVIOUS
<1> QED
  BY <1>1, <1>2, <1>3

LEMMA RunIsList ==
  ASSUME NEW a \in Int, NEW b \in Int, a <= b + 1
  PROVE  /\ Run(a, b) \in Seq(Int) /\ Len(Run(a, b)) = (b - a) + 1
         /\ \A k \in 1..((b - a) + 1) : Run(a, b)[k] = (a + k) - 1
<1>1. (b - a) + 1 \in Nat
  OBVIOUS
<1>2. Run(a, b) \in [1..((b - a) + 1) -> Int]
  BY <1>1 DEF Run
<1>3. \A k \in 1..((b - a) + 1) : Run(a, b)[k] = (a + k) - 1
  BY DEF Run
<1> QED
  BY <1>1, <1>2, <1>3, AsLong

LEMMA RunsJoin ==
  ASSUME NEW a \in Int, NEW b \in Int, NEW c \in Int, a <= b + 1, b <= c
  PROVE  Run(a, b) \o Run(b + 1, c) = Run(a, c)
<1> DEFINE s == Run(a, b)
           t == Run(b + 1, c)
           u == Run(a, c)
           m == (b - a) + 1
           n == c - b
<1>1. s \in Seq(Int) /\ Len(s) = m /\ \A k \in 1..m : s[k] = (a + k) - 1
  BY RunIsList
<1>2. t \in Seq(Int) /\ Len(t) = n /\ \A k \in 1..n : t[k] = b + k
  <2> DEFINE d == b + 1
  <2>1. d \in Int /\ d <= c + 1 /\ (c - d) + 1 = n
    OBVIOUS
  <2>2. \A k \in 1..n : (d + k) - 1 = b + k
    OBVIOUS
  <2> HIDE DEF d, n
  <2>3. /\ Run(d, c) \in Seq(Int) /\ Len(Run(d, c)) = (c - d) + 1
        /\ \A k \in 1..((c - d) + 1) : Run(d, c)[k] = (d + k) - 1
    BY <2>1, RunIsList
  <2> QED
    BY <2>1, <2>2, <2>3 DEF d
<1>3. u \in Seq(Int) /\ Len(u) = m + n /\ \A k \in 1..(m + n) : u[k] = (a + k) - 1
  <2>1. a <= c + 1 /\ (c - a) + 1 = m + n
    OBVIOUS
  <2> QED
    BY <2>1, RunIsList
<1> HIDE DEF s, t, u
<1>4. /\ s \o t \in Seq(Int) /\ Len(s \o t) = m + n
      /\ \A i \in 1..(m + n) : (s \o t)[i] = IF i <= m THEN s[i] ELSE t[i - m]
  <2> HIDE DEF m, n
  <2> QED
    BY <1>1, <1>2, ConcatProperties
<1>5. m \in Nat /\ n \in Nat
  OBVIOUS
<1>6. ASSUME NEW i \in 1..(m + n) PROVE (s \o t)[i] = u[i]
  <2>1. CASE i <= m
    <3>1. i \in 1..m
      BY <1>5, <2>1
    <3> QED
      BY <1>1, <1>3, <1>4, <2>1, <3>1
  <2>2. CASE ~(i <= m)
    <3>1. i - m \in 1..n /\ b + (i - m) = (a + i) - 1
      BY <1>5, <2>2
    <3>2. (s \o t)[i] = t[i - m] /\ u[i] = (a + i) - 1
      <4> HIDE DEF m, n
      <4> QED
        BY <1>3, <1>4, <2>2
    <3>3. t[i - m] = b + (i - m)
      <4> HIDE DEF m, n
      <4> QED
        BY <1>2, <3>1
    <3> QED
      BY <3>1, <3>2, <3>3
  <2> QED
    BY <2>1, <2>2
<1> QED
  BY <1>3, <1>4, <1>6, SeqEqual DEF s, t, u

(* FlattenSeq of runs that follow one another: the j-th run ends at ends[j]. *)
LEMMA FlattenRuns ==
  ASSUME NEW m \in Nat, NEW ends \in [0..m -> Int],
         \A j \in 1..m : ends[j - 1] <= ends[j],
         NEW seqs, seqs = [j \in 1..m |-> Run(ends[j - 1] + 1, ends[j])]
  PROVE  FlattenSeq(seqs) = Run(ends[0] + 1, ends[m])
<1> DEFINE S == Seq(Int)
           joined == [i \in 1..m |-> Run(ends[0] + 1, ends[i])]
           Flattens(g) == g = [i \in 1..m |-> IF i = 1 THEN seqs[i] ELSE g[i - 1] \o seqs[i]]
<1>1. \A j \in 0..m : ends[j] \in Int
  OBVIOUS
<1>2. \A j \in 1..m : j - 1 \in 0..m /\ j \in 0..m
  OBVIOUS
<1>3. \A j \in 1..m : seqs[j] = Run(ends[j - 1] + 1, ends[j])
  OBVIOUS
<1>4. seqs \in Seq(S) /\ Len(seqs) = m
  <2>1. ASSUME NEW j \in 1..m PROVE Run(ends[j - 1] + 1, ends[j]) \in S
    <3>1. ends[j - 1] \in Int /\ ends[j] \in Int /\ ends[j - 1] <= ends[j]
      BY <1>1, <1>2
    <3>2. ends[j - 1] + 1 \in Int /\ ends[j - 1] + 1 <= ends[j] + 1
      BY <3>1
    <3> QED
      BY <3>1, <3>2, RunIsList
  <2>2. seqs \in [1..m -> S]
    BY <2>1
  <2> QED
    BY <2>2, AsLong
<1>5. \A j \in 0..m : ends[0] <= ends[j]
  <2> DEFINE T == {j \in Nat : j \in 0..m => ends[0] <= ends[j]}
  <2>1. 0 \in T
    BY <1>1
  <2>2. ASSUME NEW j \in T PROVE j + 1 \in T
    <3>1. SUFFICES ASSUME j + 1 \in 0..m PROVE ends[0] <= ends[j + 1]
      OBVIOUS
    <3>2. 0 \in 0..m /\ j \in 0..m /\ j + 1 \in 1..m /\ (j + 1) - 1 = j
      BY <3>1
    <3>3. ends[0] <= ends[j] /\ ends[j] <= ends[j + 1]
      BY <3>2
    <3>4. \A x, y, z \in Int : x <= y /\ y <= z => x <= z
      OBVIOUS
    <3> QED
      BY <1>1, <3>1, <3>2, <3>3, <3>4
  <2>3. T = Nat
    <3> HIDE DEF T
    <3>1. T \in SUBSET Nat
      BY DEF T
    <3> QED
      BY <2>1, <2>2, <3>1, AllNumbers
  <2> HIDE DEF T
  <2>4. \A j \in 0..m : j \in T
    BY <2>3
  <2> QED
    BY <2>4 DEF T
<1>6. CASE m = 0
  <2>1. seqs = <<>> /\ FlattenSeq(seqs) = seqs
    <3>1. seqs = <<>>
      BY <1>4, <1>6, EmptySeq
    <3> QED
      BY <1>4, <1>6, <3>1 DEF FlattenSeq
  <2>2. ends[0] \in Int /\ ends[0] + 1 \in Int /\ ends[0] + 1 <= ends[0] + 1
        /\ (ends[0] - (ends[0] + 1)) + 1 = 0
    BY <1>1, <1>6
  <2>3. Run(ends[0] + 1, ends[0]) \in Seq(Int) /\ Len(Run(ends[0] + 1, ends[0])) = 0
    BY <2>2, RunIsList
  <2>4. Run(ends[0] + 1, ends[0]) = <<>>
    BY <2>3, EmptySeq
  <2> QED
    BY <1>6, <2>1, <2>4
<1>7. CASE m # 0
  <2>1. ASSUME NEW i \in 1..m, i # 1
        PROVE  Run(ends[0] + 1, ends[i - 1]) \o seqs[i] = Run(ends[0] + 1, ends[i])
    <3>1. i - 1 \in 0..m /\ i \in 0..m /\ 0 \in 0..m
      BY <2>1
    <3>2. /\ ends[0] \in Int /\ ends[i - 1] \in Int /\ ends[i] \in Int
          /\ ends[0] <= ends[i - 1] /\ ends[i - 1] <= ends[i]
      BY <1>1, <1>5, <2>1, <3>1
    <3>3. ends[0] + 1 \in Int /\ ends[0] + 1 <= ends[i - 1] + 1
      BY <3>2
    <3> QED
      BY <1>3, <3>2, <3>3, RunsJoin
  <2>2. 1 \in 1..m /\ m \in 1..m /\ 1 - 1 = 0
    BY <1>7
  <2>3. Flattens(joined)
    <3>1. ASSUME NEW i \in 1..m
          PROVE  joined[i] = IF i = 1 THEN seqs[i] ELSE joined[i - 1] \o seqs[i]
      <4>1. CASE i = 1
        BY <1>3, <2>2, <4>1
      <4>2. CASE i # 1
        <5>1. i - 1 \in 1..m
          BY <4>2
        <5> QED
          BY <2>1, <4>2, <5>1
      <4> QED
        BY <4>1, <4>2
    <3> QED
      BY <3>1
  <2>4. ASSUME NEW g, Flattens(g) PROVE g[m] = Run(ends[0] + 1, ends[m])
    <3> DEFINE T == {i \in Nat : i \in 1..m => g[i] = Run(ends[0] + 1, ends[i])}
    <3>1. \A i \in 1..m : g[i] = IF i = 1 THEN seqs[i] ELSE g[i - 1] \o seqs[i]
      BY <2>4
    <3>2. 0 \in T
      OBVIOUS
    <3>3. ASSUME NEW i \in T PROVE i + 1 \in T
      <4>1. SUFFICES ASSUME i + 1 \in 1..m PROVE g[i + 1] = Run(ends[0] + 1, ends[i + 1])
        OBVIOUS
      <4>2. CASE i = 0
        BY <1>3, <2>2, <3>1, <4>1, <4>2
      <4>3. CASE i # 0
        <5>1. i \in 1..m /\ (i + 1) - 1 = i /\ i + 1 # 1
          BY <4>1, <4>3
        <5>2. g[i] = Run(ends[0] + 1, ends[i])
          BY <5>1
        <5>3. g[i + 1] = g[i] \o seqs[i + 1]
          BY <3>1, <4>1, <5>1
        <5> QED
          BY <2>1, <4>1, <5>1, <5>2, <5>3
      <4> QED
        BY <4>2, <4>3
    <3>4. T = Nat
      <4> HIDE DEF T, Flattens, joined
      <4>1. T \in SUBSET Nat
        BY DEF T
      <4>2. \A i \in T : i + 1 \in T
        BY <3>3
      <4> QED
        BY <3>2, <4>1, <4>2, AllNumbers
    <3> QED
      BY <2>2, <3>4
  <2> DEFINE flatten == CHOOSE g : Flattens(g)
  <2>5. Flattens(flatten)
    BY <2>3, Zenon
  <2>6. FlattenSeq(seqs) = flatten[m]
    BY <1>4, <1>7 DEF FlattenSeq
  <2> HIDE DEF flatten, Flattens
  <2> QED
    BY <2>4, <2>5, <2>6
<1> QED
  BY <1>6, <1>7

(* e is the last frame below f; everything is below 0. *)
Ends(fs, f, e) ==
  /\ e \in f..Len(fs)
  /\ \A h \in (f + 1)..e : fs[h].parent >= f
  /\ e # Len(fs) => fs[e + 1].parent < f

LastOf(fs, f) == CHOOSE e \in Nat : Ends(fs, f, e)

LEMMA FrameTypes ==
  ASSUME NEW fs \in Seq(FrameRecords)
  PROVE  /\ Len(fs) \in Nat /\ DOMAIN fs = 1..Len(fs)
         /\ \A f \in 1..Len(fs) : /\ fs[f] \in FrameRecords /\ fs[f].parent \in Nat
                                  /\ fs[f].children \in Seq(Nat) /\ Len(fs[f].children) \in Nat
                                  /\ fs[f].logs \in Seq(LogRecords) /\ Len(fs[f].logs) \in Nat
                                  /\ DOMAIN fs[f].logs = 1..Len(fs[f].logs)
                                  /\ DOMAIN fs[f].children = 1..Len(fs[f].children)
<1>1. Len(fs) \in Nat /\ DOMAIN fs = 1..Len(fs)
  BY LenProperties
<1>2. ASSUME NEW f \in 1..Len(fs)
      PROVE  /\ fs[f] \in FrameRecords /\ fs[f].parent \in Nat
             /\ fs[f].children \in Seq(Nat) /\ fs[f].logs \in Seq(LogRecords)
  <2>1. fs[f] \in FrameRecords
    BY ElementOfSeq
  <2> QED
    BY <2>1 DEF FrameRecords
<1> QED
  BY <1>1, <1>2, LenProperties

LEMMA LastExists ==
  ASSUME NEW fs \in Seq(FrameRecords), NEW f \in 0..Len(fs)
  PROVE  Ends(fs, f, LastOf(fs, f)) /\ LastOf(fs, f) \in Nat
<1> DEFINE n == Len(fs)
           T == {g \in f..n : g = n \/ fs[g + 1].parent < f}
<1>1. n \in Nat /\ f \in Nat /\ f <= n
  BY FrameTypes
<1> HIDE DEF n
<1>2. T \in SUBSET Nat /\ n \in T
  BY <1>1
<1>3. PICK e \in T : \A y \in T : e <= y
  <2> HIDE DEF T
  <2>1. T # {}
    BY <1>2
  <2> QED
    BY <1>2, <2>1, LeastNumber
<1>4. e \in f..n /\ e \in Nat /\ (e # n => fs[e + 1].parent < f)
  BY <1>1, <1>3
<1>5. ASSUME NEW h \in (f + 1)..e PROVE fs[h].parent >= f
  <2>1. h - 1 \in f..n /\ ~(e <= h - 1) /\ h - 1 # n /\ (h - 1) + 1 = h /\ h \in 1..n
    BY <1>1, <1>4
  <2>2. h - 1 \notin T
    BY <1>3, <2>1
  <2>3. ~(fs[h].parent < f)
    BY <2>1, <2>2
  <2>4. fs[h].parent \in Nat
    BY <2>1, FrameTypes DEF n
  <2> QED
    BY <1>1, <2>3, <2>4
<1>6. Ends(fs, f, e)
  BY <1>4, <1>5 DEF Ends, n
<1> QED
  BY <1>4, <1>6 DEF LastOf

(* The subtrees of the children of f follow one another and fill that of f. *)
LEMMA ChildrenFill ==
  ASSUME NEW fs \in Seq(FrameRecords), Nested(fs), NEW f \in 0..Len(fs),
         NEW list \in Seq(Nat), ListsChildren(list, fs, f)
  PROVE  /\ Len(list) = 0 => LastOf(fs, f) = f
         /\ Len(list) # 0 => list[1] = f + 1 /\ LastOf(fs, list[Len(list)]) = LastOf(fs, f)
         /\ \A i \in 1..Len(list) : i + 1 \in 1..Len(list) => list[i + 1] = LastOf(fs, list[i]) + 1
<1> DEFINE n == Len(fs)
           m == Len(list)
           par(h) == fs[h].parent
           e == LastOf(fs, f)
<1>1. n \in Nat /\ m \in Nat /\ f \in Nat /\ f <= n /\ \A h \in 1..n : par(h) \in Nat /\ par(h) <= h - 1
  BY FrameTypes, LenProperties DEF Nested
<1>2. e \in Nat /\ f <= e /\ e <= n /\ (\A h \in (f + 1)..e : par(h) >= f) /\ (e # n => par(e + 1) < f)
  BY <1>1, LastExists DEF Ends
<1>3. /\ \A i \in 1..m : list[i] \in 1..n /\ par(list[i]) = f
      /\ \A i, j \in 1..m : i < j => list[i] < list[j]
      /\ \A h \in 1..n : par(h) = f => \E i \in 1..m : list[i] = h
  BY DEF ListsChildren
<1>4. \A h \in 1..n : \A g \in (par(h) + 1)..(h - 1) : par(g) >= par(h)
  BY DEF Nested
<1>5. \A i \in 1..m :
        /\ LastOf(fs, list[i]) \in Nat /\ list[i] <= LastOf(fs, list[i]) /\ LastOf(fs, list[i]) <= n
        /\ \A h \in (list[i] + 1)..LastOf(fs, list[i]) : par(h) >= list[i]
        /\ LastOf(fs, list[i]) # n => par(LastOf(fs, list[i]) + 1) < list[i]
  <2>1. TAKE i \in 1..m
  <2>2. list[i] \in 0..n /\ list[i] \in Nat
    BY <1>1, <1>3
  <2>3. Ends(fs, list[i], LastOf(fs, list[i])) /\ LastOf(fs, list[i]) \in Nat
    BY <2>2, LastExists
  <2>4. \A c \in Nat, d \in Nat : d \in c..n => c <= d /\ d <= n
    BY <1>1
  <2> QED
    BY <2>2, <2>3, <2>4 DEF Ends
<1> HIDE DEF n, m, par, e
(* A child is within the subtree. *)
<1>6. ASSUME NEW h \in 1..n, par(h) = f PROVE f < h /\ h <= e
  <2>1. f < h
    BY <1>1, <1>6
  <2>2. CASE e < h
    <3>1. e # n /\ e + 1 \in 1..n /\ par(e + 1) < f
      BY <1>1, <1>2, <2>2
    <3>2. CASE e + 1 = h
      BY <1>1, <1>6, <3>1, <3>2
    <3>3. CASE e + 1 # h
      <4>1. e + 1 \in (par(h) + 1)..(h - 1)
        BY <1>1, <1>2, <1>6, <2>2, <3>3
      <4>2. par(e + 1) >= f
        BY <1>4, <1>6, <4>1
      <4> QED
        BY <1>1, <3>1, <4>2
    <3> QED
      BY <3>2, <3>3
  <2> QED
    BY <1>1, <1>2, <2>1, <2>2
(* What follows the subtree of a child, within that of f, is the next child. *)
<1>7. ASSUME NEW i \in 1..m, LastOf(fs, list[i]) < e
      PROVE  /\ i + 1 \in 1..m
             /\ list[i + 1] = LastOf(fs, list[i]) + 1
  <2> DEFINE c == list[i]
             h == LastOf(fs, c) + 1
  <2>1. c \in 1..n /\ par(c) = f /\ h \in 1..n /\ c < h /\ h <= e /\ par(h) < c
    <3>1. c \in 1..n /\ par(c) = f
      BY <1>3
    <3>2. /\ LastOf(fs, c) \in Nat /\ c <= LastOf(fs, c) /\ LastOf(fs, c) <= n
          /\ LastOf(fs, c) # n => par(LastOf(fs, c) + 1) < c
      BY <1>5
    <3>3. LastOf(fs, c) < e
      BY <1>7
    <3>4. ASSUME NEW x \in Nat, NEW d \in Nat, x <= d, d < e
          PROVE  d # n /\ d + 1 \in 1..n /\ x < d + 1 /\ d + 1 <= e
      BY <1>1, <1>2, <3>4
    <3>5. c \in Nat
      BY <1>1, <3>1
    <3> HIDE DEF c
    <3> QED
      BY <3>1, <3>2, <3>3, <3>4, <3>5
  <2>2. \A g \in (c + 1)..(h - 1) : par(g) >= c
    <3>1. \A g \in (c + 1)..LastOf(fs, c) : par(g) >= c
      BY <1>5
    <3>2. h - 1 = LastOf(fs, c)
      BY <1>5
    <3> QED
      BY <3>1, <3>2
  <2> HIDE DEF c, h
  <2>3. f < c /\ f <= par(h)
    BY <1>1, <1>2, <1>6, <2>1
  <2>4. par(h) = f
    <3>1. CASE par(h) # f
      <4>1. c \in (par(h) + 1)..(h - 1)
        BY <1>1, <2>1
      <4>2. par(c) >= par(h)
        BY <1>4, <2>1, <4>1
      <4> QED
        BY <1>1, <2>1, <2>3, <3>1, <4>2
    <3> QED
      BY <3>1
  <2>5. PICK j \in 1..m : list[j] = h
    BY <1>3, <2>1, <2>4
  <2>6. i < j
    <3>1. CASE j = i
      BY <2>1, <2>5, <3>1 DEF c
    <3>2. CASE j < i
      <4>1. list[j] < list[i]
        BY <1>3, <3>2
      <4> QED
        BY <2>1, <2>5, <4>1 DEF c
    <3> QED
      BY <1>1, <3>1, <3>2
  <2>7. i + 1 \in 1..m
    BY <1>1, <2>6
  <2>8. list[i + 1] = h
    <3>1. CASE i + 1 # j
      <4>1. list[i] < list[i + 1] /\ list[i + 1] < list[j]
        BY <1>1, <1>3, <2>6, <2>7, <3>1
      <4>2. list[i + 1] \in 1..n /\ par(list[i + 1]) = f
        BY <1>3, <2>7
      <4>3. list[i + 1] \in (c + 1)..(h - 1)
        <5>1. \A x, a, b \in Int : a < x /\ x < b => x \in (a + 1)..(b - 1)
          OBVIOUS
        <5>2. list[i + 1] \in Int /\ c \in Int /\ h \in Int /\ c < list[i + 1] /\ list[i + 1] < h
          <6>1. \A x \in 1..n : x \in Int
            BY <1>1
          <6>2. c < list[i + 1] /\ list[i + 1] < h
            BY <2>5, <4>1 DEF c
          <6> QED
            BY <2>1, <4>2, <6>1, <6>2
        <5> QED
          BY <5>1, <5>2
      <4>4. f >= c
        BY <2>2, <4>2, <4>3
      <4> QED
        BY <1>1, <2>1, <2>3, <4>4
    <3> QED
      BY <2>5, <3>1
  <2> QED
    BY <2>7, <2>8 DEF h, c
(* The subtree of a child ends before the next child, and within that of f. *)
<1>8. ASSUME NEW i \in 1..m PROVE LastOf(fs, list[i]) <= e
  <2> DEFINE c == list[i]
             d == LastOf(fs, list[i])
  <2>1. c \in 1..n /\ par(c) = f /\ f < c /\ c <= e /\ c <= d /\ d <= n /\ d \in Nat
    BY <1>3, <1>5, <1>6
  <2>2. \A h \in (c + 1)..d : par(h) >= c
    BY <1>5
  <2> HIDE DEF c, d
  <2>3. CASE e < d
    <3>1. e + 1 \in (c + 1)..d /\ e # n
      BY <1>1, <1>2, <2>1, <2>3
    <3>2. par(e + 1) >= c /\ par(e + 1) < f /\ e + 1 \in 1..n
      BY <1>1, <1>2, <2>1, <2>2, <3>1
    <3> QED
      BY <1>1, <2>1, <3>2
  <2> QED
    BY <1>2, <2>1, <2>3 DEF d
<1>9. ASSUME NEW i \in 1..m, i + 1 \in 1..m PROVE LastOf(fs, list[i]) < e
  <2> DEFINE c == list[i]
             d == LastOf(fs, list[i])
             h == list[i + 1]
  <2>1. /\ c \in 1..n /\ h \in 1..n /\ c < h /\ par(h) = f /\ f < c /\ h <= e /\ d \in Nat /\ d <= n
    <3>1. c \in 1..n /\ h \in 1..n /\ par(c) = f /\ par(h) = f /\ d \in Nat /\ d <= n
      BY <1>3, <1>5, <1>9
    <3>2. c < h
      <4>1. i < i + 1
        BY <1>1
      <4> QED
        BY <1>3, <1>9, <4>1
    <3>3. f < c /\ h <= e
      BY <1>6, <3>1
    <3> QED
      BY <3>1, <3>2, <3>3
  <2>2. \A g \in (c + 1)..d : par(g) >= c
    BY <1>5
  <2> HIDE DEF c, d, h
  <2>3. CASE h <= d
    <3>1. h \in (c + 1)..d
      BY <1>1, <2>1, <2>3
    <3> QED
      BY <1>1, <2>1, <2>2, <3>1
  <2> QED
    BY <1>2, <2>1, <2>3 DEF d
<1>10. m = 0 => e = f
  <2>1. CASE f < e
    <3>1. f + 1 \in 1..n /\ f + 1 \in (f + 1)..e
      BY <1>1, <1>2, <2>1
    <3>2. par(f + 1) >= f /\ par(f + 1) \in Nat /\ par(f + 1) <= (f + 1) - 1
      BY <1>1, <1>2, <3>1
    <3>3. par(f + 1) = f
      BY <1>1, <3>2
    <3>4. \E i \in 1..m : TRUE
      BY <1>3, <3>1, <3>3
    <3> QED
      BY <1>1, <3>4
  <2> QED
    BY <1>1, <1>2, <2>1
<1>11. ASSUME m # 0 PROVE list[1] = f + 1 /\ LastOf(fs, list[m]) = e
  <2>1. 1 \in 1..m /\ m \in 1..m /\ m + 1 \notin 1..m
    BY <1>1, <1>11
  <2>2. list[1] \in 1..n /\ par(list[1]) = f /\ f < list[1] /\ list[1] <= e
    BY <1>3, <1>6, <2>1
  <2>3. f + 1 \in 1..n /\ f + 1 \in (f + 1)..e
    <3>1. \A x \in Int : f < x /\ x <= e => f + 1 \in 1..n /\ f + 1 \in (f + 1)..e
      BY <1>1, <1>2
    <3> QED
      BY <1>1, <2>2, <3>1
  <2>4. par(f + 1) = f
    <3>1. par(f + 1) >= f /\ par(f + 1) \in Nat /\ par(f + 1) <= (f + 1) - 1
      BY <1>1, <1>2, <2>3
    <3> QED
      BY <1>1, <3>1
  <2>5. PICK j \in 1..m : list[j] = f + 1
    BY <1>3, <2>3, <2>4
  <2>6. list[1] <= list[j]
    <3>1. CASE j # 1
      <4>1. 1 < j
        BY <1>1, <3>1
      <4>2. list[1] < list[j] /\ list[j] \in Int /\ list[1] \in Int
        BY <1>3, <2>1, <4>1
      <4>3. \A x, y \in Int : x < y => x <= y
        OBVIOUS
      <4> QED
        BY <4>2, <4>3
    <3>2. CASE j = 1
      BY <1>1, <2>2, <3>2
    <3> QED
      BY <3>1, <3>2
  <2>7. list[1] = f + 1
    BY <1>1, <2>2, <2>5, <2>6
  <2>8. LastOf(fs, list[m]) <= e /\ LastOf(fs, list[m]) \in Nat /\ ~(LastOf(fs, list[m]) < e)
    BY <1>5, <1>7, <1>8, <2>1
  <2> QED
    BY <1>2, <2>7, <2>8
<1> QED
  BY <1>7, <1>9, <1>10, <1>11 DEF m, e

(* The children of f flattened one after the other are the frames below f. *)
LEMMA ChildrenFlatten ==
  ASSUME NEW fs \in Seq(FrameRecords), Nested(fs), NEW f \in 0..Len(fs),
         NEW list \in Seq(Nat), ListsChildren(list, fs, f),
         NEW g, \A c \in (f + 1)..Len(fs) : g[c] = Run(c, LastOf(fs, c))
  PROVE  FlattenSeq([j \in 1..Len(list) |-> g[list[j]]]) = Run(f + 1, LastOf(fs, f))
<1> DEFINE n == Len(fs)
           m == Len(list)
           ends == [j \in 0..m |-> IF j = 0 THEN f ELSE LastOf(fs, list[j])]
           seqs == [j \in 1..m |-> g[list[j]]]
<1>1. n \in Nat /\ m \in Nat /\ f \in Nat /\ f <= n
  BY FrameTypes, LenProperties
<1>2. /\ m = 0 => LastOf(fs, f) = f
      /\ m # 0 => list[1] = f + 1 /\ LastOf(fs, list[m]) = LastOf(fs, f)
      /\ \A i \in 1..m : i + 1 \in 1..m => list[i + 1] = LastOf(fs, list[i]) + 1
  BY ChildrenFill
<1>3. \A i \in 1..m : list[i] \in 1..n /\ fs[list[i]].parent = f
  BY DEF ListsChildren
<1>4. \A c \in 1..n : fs[c].parent \in 0..(c - 1)
  BY DEF Nested
<1> HIDE DEF n, m
<1>5. ASSUME NEW i \in 1..m
      PROVE  /\ list[i] \in (f + 1)..n /\ list[i] \in Nat
             /\ LastOf(fs, list[i]) \in Nat /\ list[i] <= LastOf(fs, list[i])
  <2>1. list[i] \in 1..n /\ f \in 0..(list[i] - 1)
    BY <1>3, <1>4
  <2>2. \A c \in 1..n : f \in 0..(c - 1) => c \in 0..n /\ c \in (f + 1)..n /\ c \in Nat
    BY <1>1
  <2>3. list[i] \in 0..n /\ list[i] \in (f + 1)..n /\ list[i] \in Nat
    BY <2>1, <2>2
  <2>4. LastOf(fs, list[i]) \in Nat /\ Ends(fs, list[i], LastOf(fs, list[i]))
    BY <2>3, LastExists DEF n
  <2>5. \A c \in Nat, d \in Nat : d \in c..n => c <= d
    BY <1>1
  <2> QED
    BY <2>3, <2>4, <2>5 DEF Ends, n
<1>6. ends \in [0..m -> Int] /\ ends[0] = f /\ \A j \in 1..m : ends[j] = LastOf(fs, list[j])
  <2>1. \A j \in 1..m : j \in 0..m /\ j # 0
    BY <1>1
  <2>2. \A j \in 0..m : j # 0 => j \in 1..m
    BY <1>1
  <2>3. 0 \in 0..m /\ f \in Int
    BY <1>1
  <2> QED
    BY <1>5, <2>1, <2>2, <2>3
<1>7. ASSUME NEW j \in 1..m PROVE list[j] = ends[j - 1] + 1
  <2>1. CASE j = 1
    <3>1. m # 0 /\ j - 1 = 0
      BY <1>1, <2>1
    <3> QED
      BY <1>2, <1>6, <2>1, <3>1
  <2>2. CASE j # 1
    <3>1. j - 1 \in 1..m /\ (j - 1) + 1 = j
      BY <1>1, <2>2
    <3>2. list[(j - 1) + 1] = LastOf(fs, list[j - 1]) + 1
      BY <1>2, <3>1
    <3> QED
      BY <1>6, <3>1, <3>2
  <2> QED
    BY <2>1, <2>2
<1>8. ASSUME NEW j \in 1..m PROVE ends[j - 1] <= ends[j]
  <2>1. j - 1 \in 0..m
    BY <1>1
  <2>2. ends[j - 1] \in Int /\ ends[j] \in Int
    BY <1>1, <1>6, <2>1
  <2>3. \A x, y \in Int : x + 1 <= y => x <= y
    OBVIOUS
  <2>4. ends[j - 1] + 1 <= ends[j]
    BY <1>5, <1>6, <1>7
  <2> QED
    BY <2>2, <2>3, <2>4
<1>9. seqs = [j \in 1..m |-> Run(ends[j - 1] + 1, ends[j])]
  <2>1. ASSUME NEW j \in 1..m PROVE g[list[j]] = Run(ends[j - 1] + 1, ends[j])
    BY <1>5, <1>6, <1>7 DEF n
  <2> QED
    BY <2>1
<1>10. ends[m] = LastOf(fs, f)
  <2>1. CASE m = 0
    BY <1>2, <1>6, <2>1
  <2>2. CASE m # 0
    <3>1. m \in 1..m
      BY <1>1, <2>2
    <3> QED
      BY <1>2, <1>6, <2>2, <3>1
  <2> QED
    BY <2>1, <2>2
<1> HIDE DEF ends, seqs
<1>11. FlattenSeq(seqs) = Run(ends[0] + 1, ends[m])
  BY <1>1, <1>6, <1>8, <1>9, FlattenRuns
<1> QED
  BY <1>6, <1>10, <1>11 DEF seqs, m

(* One call of _flatten_records on f, once its children's are known. *)
LEMMA OneVisit ==
  ASSUME NEW fs \in Seq(FrameRecords), Nested(fs), Linked(fs), NEW f \in 1..Len(fs),
         NEW g, \A c \in (f + 1)..Len(fs) : g[c] = Run(c, LastOf(fs, c))
  PROVE  <<f>> \o FlattenSeq([j \in DOMAIN fs[f].children |-> g[fs[f].children[j]]])
           = Run(f, LastOf(fs, f))
<1>1. /\ fs[f].children \in Seq(Nat) /\ DOMAIN fs[f].children = 1..Len(fs[f].children)
      /\ Len(fs) \in Nat
  BY FrameTypes
<1>2. f \in 0..Len(fs) /\ f \in Nat /\ f \in Int /\ f <= f + 1
  BY <1>1
<1>3. ListsChildren(fs[f].children, fs, f)
  BY DEF Linked
<1>4. FlattenSeq([j \in DOMAIN fs[f].children |-> g[fs[f].children[j]]]) = Run(f + 1, LastOf(fs, f))
  <2> DEFINE list == fs[f].children
  <2>1. list \in Seq(Nat) /\ DOMAIN list = 1..Len(list) /\ ListsChildren(list, fs, f)
    BY <1>1, <1>3
  <2> HIDE DEF list
  <2>2. FlattenSeq([j \in 1..Len(list) |-> g[list[j]]]) = Run(f + 1, LastOf(fs, f))
    BY <1>2, <2>1, ChildrenFlatten
  <2> QED
    BY <2>1, <2>2 DEF list
<1>5. LastOf(fs, f) \in Nat /\ f <= LastOf(fs, f)
  <2>1. LastOf(fs, f) \in Nat /\ Ends(fs, f, LastOf(fs, f))
    BY <1>2, LastExists
  <2>2. \A d \in Nat : d \in f..Len(fs) => f <= d
    BY <1>1, <1>2
  <2> QED
    BY <2>1, <2>2 DEF Ends
<1>6. <<f>> = Run(f, f)
  <2>1. Run(f, f) \in Seq(Int) /\ Len(Run(f, f)) = (f - f) + 1
        /\ \A k \in 1..((f - f) + 1) : Run(f, f)[k] = (f + k) - 1
    BY <1>2, RunIsList
  <2>2. (f - f) + 1 = 1 /\ 1 \in 1..1 /\ (f + 1) - 1 = f /\ \A k \in 1..1 : k = 1
    BY <1>2
  <2>3. Len(Run(f, f)) = 1 /\ Run(f, f)[1] = f
    BY <2>1, <2>2
  <2>4. <<f>> \in Seq(Int) /\ Len(<<f>>) = 1 /\ <<f>>[1] = f
    BY <1>2
  <2> DEFINE one == <<f>>
             run == Run(f, f)
  <2>5. one \in Seq(Int) /\ run \in Seq(Int) /\ Len(one) = Len(run)
    BY <2>1, <2>3, <2>4
  <2>6. \A k \in 1..Len(one) : one[k] = run[k]
    BY <2>2, <2>3, <2>4
  <2> HIDE DEF one, run
  <2>7. one = run
    BY <2>5, <2>6, SeqEqual
  <2> QED
    BY <2>7 DEF one, run
<1>7. Run(f, f) \o Run(f + 1, LastOf(fs, f)) = Run(f, LastOf(fs, f))
  <2> DEFINE e == LastOf(fs, f)
  <2>1. e \in Int /\ f <= e
    BY <1>5
  <2> HIDE DEF e
  <2>2. Run(f, f) \o Run(f + 1, e) = Run(f, e)
    BY <1>2, <2>1, RunsJoin
  <2> QED
    BY <2>2 DEF e
<1> QED
  BY <1>4, <1>6, <1>7

LEMMA VisitRuns ==
  ASSUME frames \in Seq(FrameRecords), Nested(frames), Linked(frames)
  PROVE  \A f \in 1..Len(frames) : visit(f) = Run(f, LastOf(frames, f))
<1> DEFINE n == Len(frames)
           Visits(g) == g = [f \in DOMAIN frames |->
             <<f>> \o FlattenSeq([j \in DOMAIN frames[f].children |-> g[frames[f].children[j]]])]
           w == [f \in 1..n |-> Run(f, LastOf(frames, f))]
           v == CHOOSE g : Visits(g)
<1>1. n \in Nat /\ DOMAIN frames = 1..n
  BY FrameTypes
<1>2. Visits(w)
  <2>1. ASSUME NEW f \in 1..n
        PROVE  <<f>> \o FlattenSeq([j \in DOMAIN frames[f].children |-> w[frames[f].children[j]]])
                 = Run(f, LastOf(frames, f))
    <3>1. \A c \in (f + 1)..n : c \in 1..n
      BY <1>1
    <3>2. \A c \in (f + 1)..n : w[c] = Run(c, LastOf(frames, c))
      BY <3>1
    <3> HIDE DEF w, Visits, v
    <3>3. f \in 1..Len(frames) /\ \A c \in (f + 1)..Len(frames) : w[c] = Run(c, LastOf(frames, c))
      BY <3>2
    <3> QED
      BY <3>3, OneVisit
  <2> QED
    BY <1>1, <2>1
<1>3. Visits(v)
  BY <1>2, Zenon
<1>4. \A f \in 1..n : visit(f) = v[f]
  BY Zenon DEF visit
<1>5. \A f \in 1..n : v[f] = <<f>> \o FlattenSeq([j \in DOMAIN frames[f].children |->
                                                    v[frames[f].children[j]]])
  BY <1>1, <1>3, Zenon
<1> HIDE DEF v
<1>6. ASSUME NEW f \in 1..n, v[f] # Run(f, LastOf(frames, f)) PROVE FALSE
  <2> DEFINE T == {k \in Nat : n - k \in 1..n /\ v[n - k] # Run(n - k, LastOf(frames, n - k))}
  <2>1. n - f \in Nat /\ n - (n - f) = f
    BY <1>1
  <2>2. n - f \in T
    BY <1>6, <2>1
  <2>3. PICK k \in T : \A y \in T : k <= y
    <3> HIDE DEF T
    <3>1. T \in SUBSET Nat
      BY DEF T
    <3> QED
      BY <2>2, <3>1, LeastNumber
  <2> DEFINE h == n - k
  <2>4. h \in 1..n /\ v[h] # Run(h, LastOf(frames, h)) /\ k \in Nat
    BY <2>3
  <2>5. ASSUME NEW c \in (h + 1)..n PROVE v[c] = Run(c, LastOf(frames, c))
    <3>1. n - c \in Nat /\ ~(k <= n - c) /\ n - (n - c) = c /\ c \in 1..n
      BY <1>1, <2>4
    <3>2. n - c \notin T
      BY <2>3, <3>1
    <3> QED
      BY <3>1, <3>2
  <2> HIDE DEF h, T
  <2>6. v[h] = Run(h, LastOf(frames, h))
    BY <1>5, <2>4, <2>5, OneVisit
  <2> QED
    BY <2>4, <2>6
<1> QED
  BY <1>4, <1>6

(* The frames that parse_trace meets are all the frames, in their order. *)
LEMMA FlattenedInOrder ==
  ASSUME frames \in Seq(FrameRecords), Nested(frames), Linked(frames)
  PROVE  \A k \in 1..Len(frames) : flatten_records[k] = k
<1> DEFINE n == Len(frames)
           self == [i \in DOMAIN frames |-> i]
           first == {i \in DOMAIN frames : frames[i].parent = 0}
           roots == SelectAt(self, first)
           g == [f \in 1..n |-> visit(f)]
<1>1. n \in Nat /\ DOMAIN frames = 1..n
  BY FrameTypes
<1>2. self \in Seq(Nat) /\ Len(self) = n /\ \A i \in 1..n : self[i] = i
  <2>1. self \in [1..n -> Nat] /\ \A i \in 1..n : self[i] = i
    BY <1>1
  <2> QED
    BY <1>1, <2>1, AsLong
<1>3. first \subseteq 1..n /\ \A i \in 1..n : i \in first <=> frames[i].parent = 0
  BY <1>1
<1> HIDE DEF n, self, first
<1>4. roots \in Seq(Nat) /\ \E from : Comes(roots, n, self, first, from)
  BY <1>2, Selected
<1>5. PICK from : Comes(roots, n, self, first, from)
  BY <1>4
<1> HIDE DEF roots
<1>6. Len(roots) \in Nat /\ DOMAIN roots = 1..Len(roots)
  BY <1>4, LenProperties
<1>7. /\ \A i \in 1..Len(roots) : from[i] \in first /\ from[i] \in 1..n /\ roots[i] = self[from[i]]
      /\ \A i, j \in 1..Len(roots) : i < j => from[i] < from[j]
      /\ \A k \in first \cap 1..n : \E i \in 1..Len(roots) : from[i] = k
  BY <1>5 DEF Comes
<1>8. \A i \in 1..Len(roots) : roots[i] = from[i]
  BY <1>2, <1>7
<1>9. ListsChildren(roots, frames, 0)
  BY <1>3, <1>7, <1>8 DEF ListsChildren, n
<1>10. \A c \in 1..n : g[c] = Run(c, LastOf(frames, c))
  BY VisitRuns DEF n
<1>11. flatten_records = FlattenSeq([j \in 1..Len(roots) |-> g[roots[j]]])
  <2>1. \A j \in 1..Len(roots) : roots[j] \in 1..n
    BY <1>7, <1>8
  <2>2. [j \in DOMAIN roots |-> visit(roots[j])] = [j \in 1..Len(roots) |-> g[roots[j]]]
    BY <1>6, <2>1
  <2>3. flatten_records = FlattenSeq([j \in DOMAIN roots |-> visit(roots[j])])
    BY DEF flatten_records, roots, self, first
  <2> QED
    BY <2>2, <2>3
<1>12. LastOf(frames, 0) = n
  <2>1. 0 \in 0..n
    BY <1>1
  <2>2. Ends(frames, 0, LastOf(frames, 0)) /\ LastOf(frames, 0) \in Nat
    BY <2>1, LastExists DEF n
  <2>3. CASE LastOf(frames, 0) # n
    <3>1. LastOf(frames, 0) \in 0..n /\ frames[LastOf(frames, 0) + 1].parent < 0
      BY <2>2, <2>3 DEF Ends, n
    <3>2. \A d \in 0..n : d # n => d + 1 \in 1..n
      BY <1>1
    <3>3. frames[LastOf(frames, 0) + 1].parent \in Nat
      BY <2>3, <3>1, <3>2, FrameTypes DEF n
    <3> QED
      BY <3>1, <3>3
  <2> QED
    BY <2>3
<1> HIDE DEF g
<1>13. flatten_records = Run(1, n)
  <2>1. 0 \in 0..n /\ 0 + 1 = 1
    BY <1>1
  <2> QED
    BY <1>4, <1>9, <1>10, <1>11, <1>12, <2>1, ChildrenFlatten DEF n
<1>14. \A k \in 1..n : Run(1, n)[k] = k
  BY <1>1 DEF Run
<1> QED
  BY <1>13, <1>14 DEF n

------------------------------------------------------------------------------
(***************************************************************************)
(* Opening a node keeps the shape.                                         *)
(***************************************************************************)

(* p is the innermost open frame, or 0. *)
Inner(st, p) ==
  /\ Len(st) \in Nat
  /\ Len(st) = 0 => p = 0
  /\ Len(st) # 0 => p = st[Len(st)].frame

SameNode(a, b) ==
  /\ a.kind = b.kind /\ a.idx = b.idx /\ a.parent = b.parent /\ a.success = b.success
  /\ a.cheatcode = b.cheatcode /\ a.width = b.width /\ a.emits = b.emits

(* fs2 is fs with one more frame, a child of p. *)
Extended(fs, fs2, p) ==
  /\ fs2 \in Seq(FrameRecords) /\ Len(fs2) = Len(fs) + 1
  /\ \A f \in 1..Len(fs) : /\ SameNode(fs2[f], fs[f]) /\ fs2[f].logs = fs[f].logs
                           /\ f # p => fs2[f].children = fs[f].children
                           /\ f = p => fs2[f].children = Append(fs[f].children, Len(fs) + 1)
  /\ fs2[Len(fs) + 1].parent = p /\ fs2[Len(fs) + 1].children = <<>>
  /\ fs2[Len(fs) + 1].logs = <<>>

(* st2 is st with one more entry, made by a call of its last one. *)
Pushed(st, st2, frame) ==
  /\ Len(st2) = Len(st) + 1
  /\ \A i \in 1..Len(st) : /\ st2[i].frame = st[i].frame /\ st2[i].reverted = st[i].reverted
                           /\ st2[i].logs = st[i].logs
                           /\ i # Len(st) => st2[i].calls = st[i].calls
  /\ st2[Len(st) + 1].frame = frame /\ st2[Len(st) + 1].calls = {} /\ st2[Len(st) + 1].logs = {}

LEMMA InnerFrame ==
  ASSUME NEW fs \in Seq(FrameRecords), NEW st, NEW p, Path(fs, st), Inner(st, p)
  PROVE  /\ p \in 0..Len(fs)
         /\ \A g \in (p + 1)..Len(fs) : fs[g].parent >= p
         /\ \A i \in 1..Len(st) : st[i].frame \in 1..Len(fs) /\ st[i].frame <= p
<1> DEFINE n == Len(fs)
           m == Len(st)
<1>1. n \in Nat /\ m \in Nat /\ \A g \in 1..n : fs[g].parent \in Nat
  BY FrameTypes DEF Inner
<1>2. /\ \A i \in 1..m : /\ st[i].frame \in 1..n
                         /\ \A g \in (st[i].frame + 1)..n : fs[g].parent >= st[i].frame
      /\ \A i, j \in 1..m : i < j => st[i].frame < st[j].frame
      /\ m = 0 => p = 0
      /\ m # 0 => p = st[m].frame
  BY DEF Path, Inner
<1> HIDE DEF n, m
<1>3. CASE m = 0
  BY <1>1, <1>2, <1>3 DEF n, m
<1>4. CASE m # 0
  <2>1. m \in 1..m /\ p \in 1..n /\ p = st[m].frame
    BY <1>1, <1>2, <1>4
  <2>2. ASSUME NEW i \in 1..m PROVE st[i].frame <= p
    <3>1. i = m \/ i < m
      BY <1>1
    <3>2. \A x, y \in 1..n : x = y \/ x < y => x <= y
      BY <1>1
    <3> QED
      BY <1>2, <2>1, <3>1, <3>2
  <2>3. p \in 0..n
    BY <1>1, <2>1
  <2> QED
    BY <1>2, <2>1, <2>2, <2>3 DEF n, m
<1> QED
  BY <1>3, <1>4

LEMMA OpenNested ==
  ASSUME NEW fs \in Seq(FrameRecords), NEW fs2, NEW st, NEW p,
         Nested(fs), Path(fs, st), Inner(st, p), Extended(fs, fs2, p)
  PROVE  Nested(fs2)
<1> DEFINE n == Len(fs)
<1>1. n \in Nat /\ Len(fs2) = n + 1 /\ p \in 0..n /\ fs2[n + 1].parent = p
  BY FrameTypes, InnerFrame DEF Extended
<1>2. \A f \in 1..n : fs2[f].parent = fs[f].parent
  BY DEF Extended, SameNode
<1>3. \A g \in (p + 1)..n : fs[g].parent >= p
  BY InnerFrame
<1>4. \A h \in 1..n : /\ fs[h].parent \in 0..(h - 1)
                      /\ \A g \in (fs[h].parent + 1)..(h - 1) : fs[g].parent >= fs[h].parent
  BY DEF Nested
<1> HIDE DEF n
<1>5. ASSUME NEW h \in 1..(n + 1)
      PROVE  /\ fs2[h].parent \in 0..(h - 1)
             /\ \A g \in (fs2[h].parent + 1)..(h - 1) : fs2[g].parent >= fs2[h].parent
  <2>1. CASE h = n + 1
    <3>1. h - 1 = n /\ \A g \in (p + 1)..n : g \in 1..n
      BY <1>1, <2>1
    <3> QED
      BY <1>1, <1>2, <1>3, <2>1, <3>1
  <2>2. CASE h # n + 1
    <3>1. h \in 1..n
      BY <1>1, <2>2
    <3>2. \A q \in 0..(h - 1) : \A g \in (q + 1)..(h - 1) : g \in 1..n
      BY <1>1, <3>1
    <3> QED
      BY <1>2, <1>4, <3>1, <3>2
  <2> QED
    BY <2>1, <2>2
<1> QED
  BY <1>1, <1>5 DEF Nested

LEMMA OpenLinked ==
  ASSUME NEW fs \in Seq(FrameRecords), NEW fs2, NEW st, NEW p,
         Nested(fs), Linked(fs), Path(fs, st), Inner(st, p), Extended(fs, fs2, p)
  PROVE  Linked(fs2)
<1> DEFINE n == Len(fs)
<1>1. n \in Nat /\ Len(fs2) = n + 1 /\ p \in 0..n /\ fs2[n + 1].parent = p
      /\ fs2[n + 1].children = <<>>
  BY FrameTypes, InnerFrame DEF Extended
<1>2. \A f \in 1..n : /\ fs2[f].parent = fs[f].parent
                      /\ f # p => fs2[f].children = fs[f].children
                      /\ f = p => fs2[f].children = Append(fs[f].children, n + 1)
  BY DEF Extended, SameNode
<1>3. \A h \in 1..n : fs[h].parent \in 0..(h - 1)
  BY DEF Nested
<1>4. \A f \in 1..n : /\ ListsChildren(fs[f].children, fs, f)
                      /\ fs[f].children \in Seq(Nat) /\ Len(fs[f].children) \in Nat
  BY FrameTypes DEF Linked
<1> HIDE DEF n
<1>5. \A h \in 1..(n + 1) : h \in 1..n \/ h = n + 1
  BY <1>1
<1>6. \A h \in 1..n : h \in 1..(n + 1) /\ h # n + 1 /\ h < n + 1
  BY <1>1
<1>7. ASSUME NEW f \in 1..n, f # p PROVE ListsChildren(fs2[f].children, fs2, f)
  <2> DEFINE list == fs[f].children
  <2>1. fs2[f].children = list
    BY <1>2, <1>7
  <2>2. ListsChildren(list, fs, f)
    BY <1>4
  <2> HIDE DEF list
  <2>3. ListsChildren(list, fs2, f)
    BY <1>1, <1>2, <1>5, <1>6, <1>7, <2>2 DEF ListsChildren, n
  <2> QED
    BY <2>1, <2>3
<1>8. ASSUME NEW f \in 1..n, f = p PROVE ListsChildren(fs2[f].children, fs2, f)
  <2> DEFINE list == fs[f].children
             m == Len(list)
             more == Append(list, n + 1)
  <2>1. fs2[f].children = more
    BY <1>2, <1>8
  <2>2. list \in Seq(Nat) /\ m \in Nat /\ n + 1 \in Nat
    BY <1>1, <1>4
  <2>3. Len(more) = m + 1 /\ more[m + 1] = n + 1 /\ \A i \in 1..m : more[i] = list[i]
    BY <2>2, AppendProperties
  <2>4. /\ \A i \in 1..m : list[i] \in 1..n /\ fs[list[i]].parent = f
        /\ \A i, j \in 1..m : i < j => list[i] < list[j]
        /\ \A h \in 1..n : fs[h].parent = f => \E i \in 1..m : list[i] = h
    BY <1>4 DEF ListsChildren, n
  <2>5. \A i \in 1..(m + 1) : i \in 1..m \/ i = m + 1
    BY <2>2
  <2>6. m + 1 \in 1..(m + 1) /\ \A i \in 1..m : i \in 1..(m + 1)
    BY <2>2
  <2> HIDE DEF list, m, more
  <2>7. \A i \in 1..(m + 1) : more[i] \in 1..(n + 1) /\ fs2[more[i]].parent = f
    <3>1. n + 1 \in 1..(n + 1)
      BY <1>1
    <3>2. TAKE i \in 1..(m + 1)
    <3>3. CASE i \in 1..m
      <4>1. more[i] = list[i] /\ list[i] \in 1..n /\ fs[list[i]].parent = f
        BY <2>3, <2>4, <3>3
      <4> QED
        BY <1>2, <1>6, <4>1
    <3>4. CASE i = m + 1
      BY <1>1, <1>8, <2>3, <3>1, <3>4
    <3> QED
      BY <2>5, <3>3, <3>4
  <2>8. ASSUME NEW i \in 1..(m + 1), NEW j \in 1..(m + 1), i < j PROVE more[i] < more[j]
    <3>1. i \in 1..m
      BY <2>2, <2>8
    <3>2. CASE j \in 1..m
      BY <2>3, <2>4, <2>8, <3>1, <3>2
    <3>3. CASE j = m + 1
      BY <1>6, <2>3, <2>4, <3>1, <3>3
    <3> QED
      BY <2>5, <3>2, <3>3
  <2>9. \A h \in 1..(n + 1) : fs2[h].parent = f => \E i \in 1..(m + 1) : more[i] = h
    BY <1>2, <1>5, <2>3, <2>4, <2>6
  <2> QED
    BY <1>1, <2>1, <2>3, <2>7, <2>8, <2>9 DEF ListsChildren
<1>9. ListsChildren(<<>>, fs2, n + 1)
  <2>1. \A h \in 1..(n + 1) : fs2[h].parent # n + 1
    <3>1. \A q \in 0..n : q # n + 1
      BY <1>1
    <3>2. \A h \in 1..n : \A q \in 0..(h - 1) : q \in 0..n
      BY <1>1
    <3> QED
      BY <1>1, <1>2, <1>3, <1>5, <3>1, <3>2
  <2>2. \A i \in 1..Len(<<>>) : FALSE
    OBVIOUS
  <2> QED
    BY <1>1, <2>1, <2>2 DEF ListsChildren
<1> QED
  BY <1>1, <1>5, <1>7, <1>8, <1>9 DEF Linked

LEMMA OpenPath ==
  ASSUME NEW fs \in Seq(FrameRecords), NEW fs2, NEW st, NEW st2, NEW p,
         Path(fs, st), Inner(st, p), Extended(fs, fs2, p), Pushed(st, st2, Len(fs) + 1)
  PROVE  Path(fs2, st2)
<1> DEFINE n == Len(fs)
           m == Len(st)
<1>1. n \in Nat /\ m \in Nat /\ Len(fs2) = n + 1 /\ Len(st2) = m + 1 /\ p \in 0..n
      /\ fs2[n + 1].parent = p /\ st2[m + 1].frame = n + 1
  BY FrameTypes, InnerFrame DEF Extended, Pushed, Inner
<1>2. \A f \in 1..n : fs2[f].parent = fs[f].parent
  BY DEF Extended, SameNode
<1>3. \A i \in 1..m : /\ st2[i].frame = st[i].frame /\ st[i].frame \in 1..n /\ st[i].frame <= p
                      /\ \A g \in (st[i].frame + 1)..n : fs[g].parent >= st[i].frame
  BY InnerFrame DEF Pushed, Path
<1>4. \A i, j \in 1..m : i < j => st[i].frame < st[j].frame
  BY DEF Path
<1> HIDE DEF n, m
<1>5. \A i \in 1..(m + 1) : i \in 1..m \/ i = m + 1
  BY <1>1
<1>6. ASSUME NEW i \in 1..(m + 1)
      PROVE  /\ st2[i].frame \in 1..(n + 1)
             /\ \A g \in (st2[i].frame + 1)..(n + 1) : fs2[g].parent >= st2[i].frame
  <2>1. CASE i = m + 1
    <3>1. n + 1 \in 1..(n + 1) /\ \A g \in ((n + 1) + 1)..(n + 1) : FALSE
      BY <1>1
    <3> QED
      BY <1>1, <2>1, <3>1
  <2>2. CASE i \in 1..m
    <3> DEFINE f == st[i].frame
    <3>1. f \in 1..n /\ f <= p /\ st2[i].frame = f /\ \A g \in (f + 1)..n : fs[g].parent >= f
      BY <1>3, <2>2
    <3> HIDE DEF f
    <3>2. f \in 1..(n + 1)
      BY <1>1, <3>1
    <3>3. ASSUME NEW g \in (f + 1)..(n + 1) PROVE fs2[g].parent >= f
      <4>1. CASE g = n + 1
        BY <1>1, <3>1, <4>1
      <4>2. CASE g # n + 1
        <5>1. g \in (f + 1)..n /\ g \in 1..n
          BY <1>1, <3>1, <4>2
        <5> QED
          BY <1>2, <3>1, <5>1
      <4> QED
        BY <4>1, <4>2
    <3> QED
      BY <3>1, <3>2, <3>3
  <2> QED
    BY <1>5, <2>1, <2>2
<1>7. ASSUME NEW i \in 1..(m + 1), NEW j \in 1..(m + 1), i < j PROVE st2[i].frame < st2[j].frame
  <2>1. i \in 1..m
    BY <1>1, <1>7
  <2>2. CASE j \in 1..m
    BY <1>3, <1>4, <1>7, <2>1, <2>2
  <2>3. CASE j = m + 1
    <3>1. \A f \in 1..n : f < n + 1
      BY <1>1
    <3> QED
      BY <1>1, <1>3, <2>1, <2>3, <3>1
  <2> QED
    BY <1>5, <2>2, <2>3
<1> QED
  BY <1>1, <1>6, <1>7 DEF Path

(* Positioned in terms of the single logs. *)
LEMMA PositionedMeans ==
  ASSUME NEW frame, NEW P, frame.logs \in Seq(LogRecords)
  PROVE  Positioned(frame, P) <=>
           /\ \A a, b \in 1..Len(frame.logs) :
                frame.logs[a].position = frame.logs[b].position => a = b
           /\ \A k \in 1..Len(frame.logs) : frame.logs[k].position \in P
           /\ \A x \in P : \E k \in 1..Len(frame.logs) : frame.logs[k].position = x
<1> DEFINE logs == frame.logs
           at == [k \in DOMAIN logs |-> logs[k].position]
<1>1. DOMAIN logs = 1..Len(logs)
  BY LenProperties
<1>2. Positioned(frame, P) <=> IsInjective(at) /\ Range(at) = P
  BY DEF Positioned
<1> HIDE DEF logs
<1>3. DOMAIN at = 1..Len(logs) /\ \A k \in 1..Len(logs) : at[k] = logs[k].position
  BY <1>1
<1> HIDE DEF at
<1>4. IsInjective(at) <=> \A a, b \in 1..Len(logs) : at[a] = at[b] => a = b
  BY <1>3 DEF IsInjective
<1>5. Range(at) = P <=> /\ \A k \in 1..Len(logs) : at[k] \in P
                        /\ \A x \in P : \E k \in 1..Len(logs) : at[k] = x
  BY <1>3 DEF Range
<1> QED
  BY <1>2, <1>3, <1>4, <1>5 DEF logs

LEMMA SameHolding ==
  ASSUME NEW a, NEW b, NEW x, NEW y, Holding(a, x),
         a.width = b.width, a.emits = b.emits, a.children = b.children, a.logs = b.logs,
         x.calls = y.calls, x.logs = y.logs
  PROVE  Holding(b, y)
  BY DEF Holding, Positioned

LEMMA SameWhole ==
  ASSUME NEW a, NEW b, Whole(a),
         a.width = b.width, a.emits = b.emits, a.children = b.children, a.logs = b.logs
  PROVE  Whole(b)
  BY DEF Whole, Positioned

LEMMA OneMore ==
  ASSUME NEW w \in Nat, NEW S \in SUBSET (0..(w - 1)), NEW x \in (0..(w - 1)) \ S
  PROVE  S \cup {x} \in SUBSET (0..(w - 1)) /\ Cardinality(S \cup {x}) = Cardinality(S) + 1
         /\ Cardinality(S) \in Nat
<1>1. IsFiniteSet(0..(w - 1))
  BY FS_Interval
<1>2. IsFiniteSet(S)
  BY <1>1, FS_Subset
<1> QED
  BY <1>2, FS_AddElement, FS_CardinalityType

LEMMA OpenConsumed ==
  ASSUME NEW fs \in Seq(FrameRecords), NEW fs2, NEW st, NEW st2, NEW p,
         Path(fs, st), Inner(st, p), Extended(fs, fs2, p), Pushed(st, st2, Len(fs) + 1),
         Consumed(fs, st),
         Len(st) # 0 => \E x \in (0..(fs[p].width - 1)) \ st[Len(st)].calls :
                          st2[Len(st)].calls = st[Len(st)].calls \cup {x}
  PROVE  Consumed(fs2, st2)
<1> DEFINE n == Len(fs)
           m == Len(st)
<1>1. n \in Nat /\ m \in Nat /\ Len(fs2) = n + 1 /\ Len(st2) = m + 1 /\ p \in 0..n
  BY FrameTypes, InnerFrame DEF Extended, Pushed, Inner
<1>2. /\ fs2[n + 1].children = <<>> /\ fs2[n + 1].logs = <<>> /\ fs2[n + 1] \in FrameRecords
      /\ st2[m + 1].frame = n + 1 /\ st2[m + 1].calls = {} /\ st2[m + 1].logs = {}
  <2>1. n + 1 \in 1..(n + 1)
    BY <1>1
  <2>2. fs2[n + 1] \in FrameRecords
    BY <1>1, <2>1, FrameTypes DEF Extended
  <2> QED
    BY <2>2 DEF Extended, Pushed
<1>3. \A f \in 1..n : /\ fs2[f].width = fs[f].width /\ fs2[f].emits = fs[f].emits
                      /\ fs2[f].logs = fs[f].logs
                      /\ f # p => fs2[f].children = fs[f].children
                      /\ f = p => fs2[f].children = Append(fs[f].children, n + 1)
  BY DEF Extended, SameNode
<1>4. \A i \in 1..m : /\ st[i].frame \in 1..n /\ st2[i].frame = st[i].frame
                      /\ st2[i].logs = st[i].logs
                      /\ i # m => st2[i].calls = st[i].calls
  BY InnerFrame DEF Pushed
<1>5. /\ \A i \in 1..m : Holding(fs[st[i].frame], st[i])
      /\ \A f \in 1..n : (\A i \in 1..m : st[i].frame # f) => Whole(fs[f])
  BY DEF Consumed
<1>6. m # 0 => p = st[m].frame /\ \E x \in (0..(fs[p].width - 1)) \ st[m].calls :
                                     st2[m].calls = st[m].calls \cup {x}
  BY DEF Inner
<1>7. m = 0 => p = 0
  BY DEF Inner
<1>8. \A i, j \in 1..m : i < j => st[i].frame < st[j].frame
  BY DEF Path
<1>9. \A f \in 1..n : /\ fs[f].width \in Nat /\ fs[f].children \in Seq(Nat)
  BY FrameTypes DEF FrameRecords
<1> HIDE DEF n, m
<1>10. \A i \in 1..(m + 1) : i \in 1..m \/ i = m + 1
  BY <1>1
<1>11. ASSUME NEW i \in 1..m, i # m PROVE Holding(fs2[st2[i].frame], st2[i])
  <2>1. st[i].frame # p
    <3>1. i < m /\ m \in 1..m /\ m # 0
      BY <1>1, <1>11
    <3>2. st[i].frame < st[m].frame /\ st[i].frame \in 1..n /\ p = st[m].frame
      BY <1>4, <1>6, <1>8, <3>1
    <3>3. \A x \in 1..n : ~(x < x)
      BY <1>1
    <3> QED
      BY <3>2, <3>3
  <2> DEFINE a == fs[st[i].frame]
             b == fs2[st2[i].frame]
  <2>2. Holding(a, st[i])
    BY <1>5
  <2>3. a.width = b.width /\ a.emits = b.emits /\ a.children = b.children /\ a.logs = b.logs
    <3>1. st[i].frame \in 1..n /\ st2[i].frame = st[i].frame
      BY <1>4
    <3> QED
      BY <1>3, <2>1, <3>1
  <2>4. st[i].calls = st2[i].calls /\ st[i].logs = st2[i].logs
    BY <1>4, <1>11
  <2> HIDE DEF a, b
  <2>5. Holding(b, st2[i])
    BY <2>2, <2>3, <2>4, SameHolding
  <2> QED
    BY <2>5 DEF b
<1>12. ASSUME m # 0 PROVE Holding(fs2[st2[m].frame], st2[m])
  <2>1. m \in 1..m /\ m # 0
    BY <1>1, <1>12
  <2> DEFINE a == fs[p]
             b == fs2[p]
             S == st[m].calls
  <2>2. p = st[m].frame /\ p \in 1..n /\ st2[m].frame = p
    BY <1>4, <1>6, <2>1
  <2>3. PICK x \in (0..(a.width - 1)) \ S : st2[m].calls = S \cup {x}
    BY <1>6, <2>1
  <2>4. Holding(a, st[m])
    BY <1>5, <2>1, <2>2
  <2>5. a.width = b.width /\ a.emits = b.emits /\ a.logs = b.logs
    BY <1>3, <2>2
  <2>6. b.children = Append(a.children, n + 1) /\ a.width \in Nat /\ a.children \in Seq(Nat)
    BY <1>3, <1>9, <2>2
  <2>7. st2[m].logs = st[m].logs
    BY <1>4, <2>1
  <2> HIDE DEF a, b, S
  <2>8. S \in SUBSET (0..(a.width - 1)) /\ Cardinality(S) = Len(a.children)
        /\ st[m].logs \subseteq 0..(a.emits - 1) /\ Positioned(a, st[m].logs)
    BY <2>4 DEF Holding, S
  <2>9. S \cup {x} \in SUBSET (0..(a.width - 1)) /\ Cardinality(S \cup {x}) = Cardinality(S) + 1
    BY <2>3, <2>6, <2>8, OneMore
  <2>10. Len(b.children) = Len(a.children) + 1
    <3>1. n + 1 \in Nat
      BY <1>1
    <3> QED
      BY <2>6, <3>1, AppendProperties
  <2>11. Positioned(b, st2[m].logs)
    BY <2>5, <2>7, <2>8 DEF Positioned
  <2>12. Holding(b, st2[m])
    BY <2>3, <2>5, <2>7, <2>8, <2>9, <2>10, <2>11 DEF Holding
  <2> QED
    BY <2>2, <2>12 DEF b
<1>13. Holding(fs2[st2[m + 1].frame], st2[m + 1])
  <2> DEFINE b == fs2[n + 1]
  <2>1. b.children = <<>> /\ b.logs = <<>> /\ b.logs \in Seq(LogRecords)
    BY <1>2 DEF FrameRecords
  <2> HIDE DEF b
  <2>2. Len(b.children) = 0 /\ Len(b.logs) = 0
    BY <2>1
  <2>3. Positioned(b, {})
    <3>1. \A k \in 1..Len(b.logs) : FALSE
      BY <2>2
    <3> QED
      BY <2>1, <3>1, PositionedMeans
  <2>4. Cardinality({}) = 0
    BY FS_EmptySet
  <2> QED
    BY <1>2, <2>2, <2>3, <2>4 DEF Holding, b
<1>14. ASSUME NEW f \in 1..(n + 1), \A i \in 1..(m + 1) : st2[i].frame # f PROVE Whole(fs2[f])
  <2>1. m + 1 \in 1..(m + 1) /\ \A i \in 1..m : i \in 1..(m + 1)
    BY <1>1
  <2>2. f \in 1..n
    BY <1>1, <1>2, <1>14, <2>1
  <2>3. \A i \in 1..m : st[i].frame # f
    BY <1>4, <1>14, <2>1
  <2>4. f # p
    <3>1. CASE m = 0
      BY <1>1, <1>7, <2>2, <3>1
    <3>2. CASE m # 0
      <4>1. m \in 1..m
        BY <1>1, <3>2
      <4> QED
        BY <1>6, <2>3, <3>2, <4>1
    <3> QED
      BY <3>1, <3>2
  <2> DEFINE a == fs[f]
             b == fs2[f]
  <2>5. Whole(a)
    BY <1>5, <2>2, <2>3
  <2>6. a.width = b.width /\ a.emits = b.emits /\ a.children = b.children /\ a.logs = b.logs
    BY <1>3, <2>2, <2>4
  <2> HIDE DEF a, b
  <2>7. Whole(b)
    BY <2>5, <2>6, SameWhole
  <2> QED
    BY <2>7 DEF b
<1> QED
  BY <1>1, <1>10, <1>11, <1>12, <1>13, <1>14 DEF Consumed

LEMMA OpenEffects ==
  ASSUME NEW fs \in Seq(FrameRecords), NEW fs2, NEW st, NEW st2, NEW p,
         Nested(fs), Path(fs, st), Inner(st, p), Extended(fs, fs2, p),
         Pushed(st, st2, Len(fs) + 1), Effects(fs, st), st2 \in Seq(StackEntries),
         st2[Len(st) + 1].reverted =
           reverted_inside(IF Len(st) = 0 THEN FALSE ELSE st[Len(st)].reverted,
                           fs2[Len(fs) + 1].success)
  PROVE  Effects(fs2, st2)
<1> DEFINE n == Len(fs)
           m == Len(st)
<1>1. n \in Nat /\ m \in Nat /\ Len(fs2) = n + 1 /\ Len(st2) = m + 1 /\ p \in 0..n
      /\ fs2[n + 1].logs = <<>> /\ fs2[n + 1].parent = p /\ st2[m + 1].frame = n + 1
  BY FrameTypes, InnerFrame DEF Extended, Pushed, Inner
<1>2. fs2[n + 1].success \in BOOLEAN
  <2>1. n + 1 \in 1..(n + 1)
    BY <1>1
  <2>2. fs2[n + 1] \in FrameRecords
    BY <1>1, <2>1, FrameTypes DEF Extended
  <2> QED
    BY <2>2 DEF FrameRecords
<1>3. PICK eff \in [1..n -> BOOLEAN] : Marked(fs, st, eff)
  BY DEF Effects
<1>4. /\ \A f \in 1..n : eff[f] = (fs[f].success /\ (fs[f].parent # 0 => eff[fs[f].parent]))
      /\ \A f \in 1..n : \A k \in 1..Len(fs[f].logs) : fs[f].logs[k].reverted = ~eff[f]
      /\ \A i \in 1..m : st[i].reverted = ~eff[st[i].frame]
  BY <1>3 DEF Marked
<1>5. \A f \in 1..n : /\ fs2[f].success = fs[f].success /\ fs2[f].parent = fs[f].parent
                      /\ fs2[f].logs = fs[f].logs /\ fs[f].parent \in 0..(f - 1)
  BY DEF Extended, SameNode, Nested
<1>6. \A i \in 1..m : /\ st[i].frame \in 1..n /\ st2[i].frame = st[i].frame
                      /\ st2[i].reverted = st[i].reverted
  BY InnerFrame DEF Pushed
<1>7. m # 0 => p = st[m].frame
  BY DEF Inner
<1>8. m = 0 => p = 0
  BY DEF Inner
<1>9. st2[m + 1].reverted = ((IF m = 0 THEN FALSE ELSE st[m].reverted) \/ ~fs2[n + 1].success)
  BY DEF reverted_inside
<1> HIDE DEF n, m
<1> DEFINE new == fs2[n + 1].success /\ (p # 0 => eff[p])
           more == [f \in 1..(n + 1) |-> IF f = n + 1 THEN new ELSE eff[f]]
<1>10. \A f \in 1..(n + 1) : f \in 1..n \/ f = n + 1
  BY <1>1
<1>11. \A f \in 1..n : f \in 1..(n + 1) /\ f # n + 1
  BY <1>1
<1>12. n + 1 \in 1..(n + 1) /\ (p # 0 => p \in 1..n)
  BY <1>1
<1>13. new \in BOOLEAN
  OBVIOUS
<1> HIDE DEF new
<1>14. more \in [1..(n + 1) -> BOOLEAN]
  BY <1>10, <1>11, <1>13
<1>15. more[n + 1] = new /\ \A f \in 1..n : more[f] = eff[f]
  BY <1>11, <1>12
<1> HIDE DEF more
<1>16. ASSUME NEW f \in 1..(n + 1)
       PROVE  more[f] = (fs2[f].success /\ (fs2[f].parent # 0 => more[fs2[f].parent]))
  <2>1. CASE f = n + 1
    BY <1>1, <1>12, <1>15, <2>1 DEF new
  <2>2. CASE f \in 1..n
    <3>1. fs[f].parent # 0 => fs[f].parent \in 1..n
      <4>1. \A q \in 0..(f - 1) : q # 0 => q \in 1..n
        BY <1>1, <2>2
      <4> QED
        BY <1>5, <2>2, <4>1
    <3>2. /\ more[f] = eff[f] /\ fs2[f].success = fs[f].success /\ fs2[f].parent = fs[f].parent
          /\ eff[f] = (fs[f].success /\ (fs[f].parent # 0 => eff[fs[f].parent]))
      BY <1>4, <1>5, <1>15, <2>2
    <3>3. fs[f].parent # 0 => more[fs[f].parent] = eff[fs[f].parent]
      BY <1>15, <3>1
    <3> QED
      BY <3>2, <3>3
  <2> QED
    BY <1>10, <2>1, <2>2
<1>17. ASSUME NEW f \in 1..(n + 1), NEW k \in 1..Len(fs2[f].logs)
       PROVE  fs2[f].logs[k].reverted = ~more[f]
  <2>1. CASE f = n + 1
    <3>1. k \in 1..0
      BY <1>1, <2>1
    <3> QED
      BY <3>1
  <2>2. CASE f \in 1..n
    <3>1. fs2[f].logs = fs[f].logs /\ more[f] = eff[f]
      BY <1>5, <1>15, <2>2
    <3>2. fs[f].logs[k].reverted = ~eff[f]
      BY <1>4, <2>2, <3>1
    <3> QED
      BY <3>1, <3>2
  <2> QED
    BY <1>10, <2>1, <2>2
<1>18. ASSUME NEW i \in 1..(m + 1) PROVE st2[i].reverted = ~more[st2[i].frame]
  <2>1. CASE i \in 1..m
    BY <1>4, <1>6, <1>15, <2>1
  <2>2. CASE i = m + 1
    <3>1. CASE m = 0
      BY <1>1, <1>2, <1>8, <1>9, <1>15, <2>2, <3>1 DEF new
    <3>2. CASE m # 0
      <4>1. m \in 1..m
        BY <1>1, <3>2
      <4>2. p \in 1..n /\ p # 0 /\ st[m].reverted = ~eff[p]
        BY <1>1, <1>4, <1>6, <1>7, <3>2, <4>1
      <4>3. eff[p] \in BOOLEAN
        BY <1>3, <4>2
      <4> QED
        BY <1>1, <1>2, <1>9, <1>15, <2>2, <3>2, <4>2, <4>3 DEF new
    <3> QED
      BY <3>1, <3>2
  <2>3. i \in 1..m \/ i = m + 1
    BY <1>1
  <2> QED
    BY <2>1, <2>2, <2>3
<1>19. Marked(fs2, st2, more)
  <2>1. \A f \in 1..Len(fs2) :
          more[f] = (fs2[f].success /\ (fs2[f].parent # 0 => more[fs2[f].parent]))
    BY <1>1, <1>16
  <2>2. \A f \in 1..Len(fs2) : \A k \in 1..Len(fs2[f].logs) : fs2[f].logs[k].reverted = ~more[f]
    BY <1>1, <1>17
  <2>3. \A i \in 1..Len(st2) : st2[i].reverted = ~more[st2[i].frame]
    BY <1>1, <1>18
  <2> QED
    BY <2>1, <2>2, <2>3, Zenon DEF Marked
<1> QED
  BY <1>1, <1>14, <1>19 DEF Effects

(* What Append and EXCEPT make of the frames and the stack. *)
LEMMA FrontIs ==
  ASSUME NEW S, NEW s \in Seq(S), s # <<>>
  PROVE  /\ Front(s) \in Seq(S) /\ Len(s) \in Nat \ {0} /\ Len(Front(s)) = Len(s) - 1
         /\ \A i \in 1..(Len(s) - 1) : Front(s)[i] = s[i]
<1> DEFINE n == Len(s) - 1
           r == SubSeq(s, 1, n)
<1>1. Len(s) \in Nat /\ Len(s) # 0 /\ \A i \in 1..Len(s) : s[i] \in S
  BY LenProperties, ElementOfSeq, EmptySeq
<1>2. n \in Nat /\ n + 1 = Len(s) /\ \A i \in 1..n : s[i] \in S
  BY <1>1
<1> HIDE DEF n
<1>3. /\ r \in Seq(S) /\ Len(r) = (IF 1 <= n THEN (n - 1) + 1 ELSE 0)
      /\ \A i \in 1..((n - 1) + 1) : r[i] = s[(1 + i) - 1]
  BY <1>2, SubSeqProperties
<1>4. (n - 1) + 1 = n /\ (~(1 <= n) => n = 0) /\ \A i \in 1..n : (1 + i) - 1 = i
  BY <1>2
<1>5. Front(s) = r
  BY DEF Front, n
<1> HIDE DEF r
<1> QED
  BY <1>1, <1>3, <1>4, <1>5, Zenon DEF n

LEMMA Replaced ==
  ASSUME NEW S, NEW st \in Seq(S), st # <<>>, NEW e \in S
  PROVE  LET st2 == Append(Front(st), e)
         IN  /\ st2 \in Seq(S) /\ Len(st2) = Len(st) /\ st2[Len(st)] = e
             /\ \A i \in 1..Len(st) : i # Len(st) => st2[i] = st[i]
<1> DEFINE fr == Front(st)
           m == Len(st)
           st2 == Append(fr, e)
<1>1. fr \in Seq(S) /\ m \in Nat \ {0} /\ Len(fr) = m - 1 /\ \A i \in 1..(m - 1) : fr[i] = st[i]
  BY FrontIs
<1> HIDE DEF fr, m
<1>2. /\ st2 \in Seq(S) /\ Len(st2) = Len(fr) + 1 /\ st2[Len(fr) + 1] = e
      /\ \A i \in 1..Len(fr) : st2[i] = fr[i]
  BY <1>1, AppendProperties
<1>3. (m - 1) + 1 = m /\ \A i \in 1..m : i # m => i \in 1..(m - 1)
  BY <1>1
<1> HIDE DEF st2
<1>4. st2 \in Seq(S) /\ Len(st2) = m /\ st2[m] = e /\ \A i \in 1..m : i # m => st2[i] = st[i]
  BY <1>1, <1>2, <1>3
<1> QED
  BY <1>4 DEF st2, fr, m

LEMMA EntryCalls ==
  ASSUME NEW e \in StackEntries, NEW x \in Int
  PROVE  LET d == [e EXCEPT !.calls = @ \cup {x}]
         IN  /\ d \in StackEntries /\ d.frame = e.frame /\ d.reverted = e.reverted
             /\ d.logs = e.logs /\ d.calls = e.calls \cup {x}
<1>1. e.calls \cup {x} \in SUBSET Int
  BY DEF StackEntries
<1> QED
  BY <1>1 DEF StackEntries

LEMMA EntryLogs ==
  ASSUME NEW e \in StackEntries, NEW x \in Int
  PROVE  LET d == [e EXCEPT !.logs = @ \cup {x}]
         IN  /\ d \in StackEntries /\ d.frame = e.frame /\ d.reverted = e.reverted
             /\ d.calls = e.calls /\ d.logs = e.logs \cup {x}
<1>1. e.logs \cup {x} \in SUBSET Int
  BY DEF StackEntries
<1> QED
  BY <1>1 DEF StackEntries

LEMMA ChildrenSet ==
  ASSUME NEW a \in FrameRecords, NEW c \in Seq(Nat)
  PROVE  LET b == [a EXCEPT !.children = c]
         IN  b \in FrameRecords /\ SameNode(b, a) /\ b.logs = a.logs /\ b.children = c
  BY DEF FrameRecords, SameNode

LEMMA LogsSet ==
  ASSUME NEW a \in FrameRecords, NEW l \in Seq(LogRecords)
  PROVE  LET b == [a EXCEPT !.logs = l]
         IN  b \in FrameRecords /\ SameNode(b, a) /\ b.children = a.children /\ b.logs = l
  BY DEF FrameRecords, SameNode

(* Frame p, if there is one, gets the next frame as its child. *)
Linking(fs, p) == IF p = 0 THEN fs ELSE [fs EXCEPT ![p].children = Append(@, Len(fs) + 1)]

(* The innermost node's call x opens a node with entry e. *)
Calling(st, x, e) ==
  Append(Append(Front(st), [st[Len(st)] EXCEPT !.calls = @ \cup {x}]), e)

LEMMA FramesAppend ==
  ASSUME NEW fs \in Seq(FrameRecords), NEW p \in 0..Len(fs), NEW b \in FrameRecords,
         b.parent = p, b.children = <<>>, b.logs = <<>>
  PROVE  /\ Extended(fs, Append(Linking(fs, p), b), p)
         /\ Append(Linking(fs, p), b)[Len(fs) + 1] = b
<1> DEFINE fs2 == Append(Linking(fs, p), b)
           n == Len(fs)
           l == IF p = 0 THEN fs ELSE [fs EXCEPT ![p].children = Append(@, n + 1)]
<1>1. n \in Nat /\ DOMAIN fs = 1..n /\ \A f \in 1..n : fs[f] \in FrameRecords /\ fs[f].children \in Seq(Nat)
  BY FrameTypes
<1>2. /\ l \in Seq(FrameRecords) /\ Len(l) = n
      /\ \A f \in 1..n : /\ SameNode(l[f], fs[f]) /\ l[f].logs = fs[f].logs
                         /\ f # p => l[f].children = fs[f].children
                         /\ f = p => l[f].children = Append(fs[f].children, n + 1)
  <2>1. CASE p = 0
    <3>1. \A f \in 1..n : f # 0
      BY <1>1
    <3> QED
      BY <2>1, <3>1 DEF SameNode
  <2>2. CASE p # 0
    <3> DEFINE a == fs[p]
               c == Append(a.children, n + 1)
               d == [a EXCEPT !.children = c]
    <3>1. p \in 1..n
      BY <1>1, <2>2
    <3>2. a \in FrameRecords /\ a.children \in Seq(Nat) /\ n + 1 \in Nat
      BY <1>1, <3>1
    <3>3. c \in Seq(Nat)
      BY <3>2, AppendProperties
    <3>4. l = [fs EXCEPT ![p] = d]
      BY <2>2, <3>1
    <3>5. d \in FrameRecords /\ SameNode(d, a) /\ d.logs = a.logs /\ d.children = c
      <4> HIDE DEF a, c
      <4> QED
        BY <3>2, <3>3, ChildrenSet
    <3> HIDE DEF d, l, n
    <3>6. l \in [1..n -> FrameRecords] /\ l[p] = d /\ \A f \in 1..n : f # p => l[f] = fs[f]
      BY <1>1, <3>1, <3>4, <3>5
    <3>7. l \in Seq(FrameRecords) /\ Len(l) = n
      BY <1>1, <3>6, AsLong
    <3>8. ASSUME NEW f \in 1..n
          PROVE  /\ SameNode(l[f], fs[f]) /\ l[f].logs = fs[f].logs
                 /\ f # p => l[f].children = fs[f].children
                 /\ f = p => l[f].children = Append(fs[f].children, n + 1)
      <4>1. CASE f = p
        BY <3>5, <3>6, <4>1
      <4>2. CASE f # p
        BY <3>6, <4>2 DEF SameNode
      <4> QED
        BY <4>1, <4>2
    <3> QED
      BY <3>7, <3>8
  <2> QED
    BY <2>1, <2>2
<1>3. fs2 = Append(l, b)
  BY DEF Linking
<1> HIDE DEF l, n, fs2
<1>4. /\ fs2 \in Seq(FrameRecords) /\ Len(fs2) = n + 1 /\ fs2[n + 1] = b
      /\ \A f \in 1..n : fs2[f] = l[f]
  <2> DEFINE more == Append(l, b)
  <2>1. /\ more \in Seq(FrameRecords) /\ Len(more) = Len(l) + 1 /\ more[Len(l) + 1] = b
        /\ \A f \in 1..Len(l) : more[f] = l[f]
    BY <1>2, AppendProperties
  <2> HIDE DEF more
  <2> QED
    BY <1>2, <1>3, <2>1 DEF more
<1> QED
  BY <1>2, <1>4 DEF Extended, n, fs2

(* A node opened above the others. *)
LEMMA StackPush ==
  ASSUME NEW st \in Seq(StackEntries), st # <<>>, NEW x \in Int, NEW e \in StackEntries,
         e.calls = {}, e.logs = {}
  PROVE  /\ Calling(st, x, e) \in Seq(StackEntries) /\ Pushed(st, Calling(st, x, e), e.frame)
         /\ Calling(st, x, e)[Len(st)].calls = st[Len(st)].calls \cup {x}
         /\ Calling(st, x, e)[Len(st) + 1] = e
<1> DEFINE st2 == Calling(st, x, e)
           m == Len(st)
           top == st[m]
           d == [top EXCEPT !.calls = @ \cup {x}]
           r == Append(Front(st), d)
<1>1. m \in Nat \ {0} /\ m \in 1..m
  BY LenProperties, EmptySeq
<1>2. top \in StackEntries
  BY <1>1, ElementOfSeq
<1>3. d \in StackEntries /\ d.frame = top.frame /\ d.reverted = top.reverted /\ d.logs = top.logs
      /\ d.calls = top.calls \cup {x}
  <2> HIDE DEF top
  <2> QED
    BY <1>2, EntryCalls
<1>4. st2 = Append(r, e)
  BY DEF Calling
<1> HIDE DEF d
<1>5. r \in Seq(StackEntries) /\ Len(r) = m /\ r[m] = d /\ \A i \in 1..m : i # m => r[i] = st[i]
  BY <1>3, Replaced
<1> HIDE DEF r, top, m, st2
<1>6. /\ st2 \in Seq(StackEntries) /\ Len(st2) = m + 1 /\ st2[m + 1] = e
      /\ \A i \in 1..m : st2[i] = r[i]
  <2> DEFINE more == Append(r, e)
  <2>1. /\ more \in Seq(StackEntries) /\ Len(more) = Len(r) + 1 /\ more[Len(r) + 1] = e
        /\ \A i \in 1..Len(r) : more[i] = r[i]
    BY <1>5, AppendProperties
  <2> HIDE DEF more
  <2> QED
    BY <1>4, <1>5, <2>1 DEF more
<1>7. ASSUME NEW i \in 1..m
      PROVE  /\ st2[i].frame = st[i].frame /\ st2[i].reverted = st[i].reverted
             /\ st2[i].logs = st[i].logs
             /\ i # m => st2[i].calls = st[i].calls
  <2>1. CASE i = m
    BY <1>3, <1>5, <1>6, <2>1 DEF top
  <2>2. CASE i # m
    BY <1>5, <1>6, <2>2
  <2> QED
    BY <2>1, <2>2
<1>8. st2[m].calls = st[m].calls \cup {x}
  BY <1>1, <1>3, <1>5, <1>6 DEF top
<1> QED
  BY <1>6, <1>7, <1>8 DEF Pushed, m, st2

(* The first node of an arena. *)
LEMMA StackFirst ==
  ASSUME NEW e \in StackEntries, e.calls = {}, e.logs = {}
  PROVE  /\ Append(<<>>, e) \in Seq(StackEntries) /\ Pushed(<<>>, Append(<<>>, e), e.frame)
         /\ Append(<<>>, e)[Len(<<>>) + 1] = e
<1> DEFINE st == <<>>
           st2 == Append(st, e)
<1>1. st \in Seq(StackEntries) /\ Len(st) = 0
  OBVIOUS
<1> HIDE DEF st
<1>2. st2 \in Seq(StackEntries) /\ Len(st2) = Len(st) + 1 /\ st2[Len(st) + 1] = e
  BY <1>1, AppendProperties
<1>3. \A i \in 1..Len(st) : FALSE
  BY <1>1
<1> HIDE DEF st2
<1>4. Pushed(st, st2, e.frame)
  BY <1>2, <1>3 DEF Pushed
<1> QED
  BY <1>2, <1>4 DEF st, st2

------------------------------------------------------------------------------
(***************************************************************************)
(* Converting a log and closing a node keep the shape.                     *)
(***************************************************************************)

(* fs2 is fs with one more log in frame t. *)
Logged(fs, fs2, t, log) ==
  /\ fs2 \in Seq(FrameRecords) /\ Len(fs2) = Len(fs)
  /\ \A f \in 1..Len(fs) : /\ SameNode(fs2[f], fs[f]) /\ fs2[f].children = fs[f].children
                           /\ f # t => fs2[f].logs = fs[f].logs
                           /\ f = t => fs2[f].logs = Append(fs[f].logs, log)

(* st2 is st with position x consumed by its last entry. *)
Noted(st, st2, x) ==
  /\ Len(st2) = Len(st)
  /\ \A i \in 1..Len(st) : /\ st2[i].frame = st[i].frame /\ st2[i].reverted = st[i].reverted
                           /\ st2[i].calls = st[i].calls
                           /\ i # Len(st) => st2[i].logs = st[i].logs
  /\ st2[Len(st)].logs = st[Len(st)].logs \cup {x}

LEMMA FramesLog ==
  ASSUME NEW fs \in Seq(FrameRecords), NEW t \in 1..Len(fs), NEW log \in LogRecords,
         NEW fs2, fs2 = [fs EXCEPT ![t].logs = Append(@, log)]
  PROVE  Logged(fs, fs2, t, log)
<1> DEFINE n == Len(fs)
           a == fs[t]
           l == Append(a.logs, log)
           d == [a EXCEPT !.logs = l]
<1>1. n \in Nat /\ DOMAIN fs = 1..n /\ \A f \in 1..n : fs[f] \in FrameRecords
  BY FrameTypes
<1>2. a \in FrameRecords /\ a.logs \in Seq(LogRecords)
  BY FrameTypes
<1>3. l \in Seq(LogRecords)
  BY <1>2, AppendProperties
<1>4. fs2 = [fs EXCEPT ![t] = d]
  BY <1>1
<1>5. d \in FrameRecords /\ SameNode(d, a) /\ d.children = a.children /\ d.logs = l
  <2> HIDE DEF a, l
  <2> QED
    BY <1>2, <1>3, LogsSet
<1>6. t \in 1..n
  OBVIOUS
<1> HIDE DEF d, n
<1>7. fs2 \in [1..n -> FrameRecords] /\ fs2[t] = d /\ \A f \in 1..n : f # t => fs2[f] = fs[f]
  BY <1>1, <1>4, <1>5, <1>6
<1>8. fs2 \in Seq(FrameRecords) /\ Len(fs2) = n
  BY <1>1, <1>7, AsLong
<1>9. ASSUME NEW f \in 1..n
      PROVE  /\ SameNode(fs2[f], fs[f]) /\ fs2[f].children = fs[f].children
             /\ f # t => fs2[f].logs = fs[f].logs
             /\ f = t => fs2[f].logs = Append(fs[f].logs, log)
  <2>1. CASE f = t
    BY <1>5, <1>7, <2>1
  <2>2. CASE f # t
    BY <1>7, <2>2 DEF SameNode
  <2> QED
    BY <2>1, <2>2
<1> QED
  BY <1>8, <1>9 DEF Logged, n

LEMMA StackNote ==
  ASSUME NEW st \in Seq(StackEntries), st # <<>>, NEW x \in Int,
         NEW st2, st2 = Append(Front(st), [st[Len(st)] EXCEPT !.logs = @ \cup {x}])
  PROVE  st2 \in Seq(StackEntries) /\ Noted(st, st2, x)
<1> DEFINE m == Len(st)
           top == st[m]
           d == [top EXCEPT !.logs = @ \cup {x}]
<1>1. m \in Nat \ {0} /\ m \in 1..m
  BY LenProperties, EmptySeq
<1>2. top \in StackEntries
  BY <1>1, ElementOfSeq
<1>3. d \in StackEntries /\ d.frame = top.frame /\ d.reverted = top.reverted /\ d.calls = top.calls
      /\ d.logs = top.logs \cup {x}
  <2> HIDE DEF top
  <2> QED
    BY <1>2, EntryLogs
<1>4. st2 = Append(Front(st), d)
  OBVIOUS
<1> HIDE DEF d
<1>5. LET r == Append(Front(st), d)
      IN  r \in Seq(StackEntries) /\ Len(r) = m /\ r[m] = d /\ \A i \in 1..m : i # m => r[i] = st[i]
  BY <1>3, Replaced
<1>6. st2 \in Seq(StackEntries) /\ Len(st2) = m /\ st2[m] = d /\ \A i \in 1..m : i # m => st2[i] = st[i]
  BY <1>4, <1>5
<1> HIDE DEF top, m
<1>7. ASSUME NEW i \in 1..m
      PROVE  /\ st2[i].frame = st[i].frame /\ st2[i].reverted = st[i].reverted
             /\ st2[i].calls = st[i].calls
             /\ i # m => st2[i].logs = st[i].logs
  <2>1. CASE i = m
    BY <1>3, <1>6, <2>1 DEF top
  <2>2. CASE i # m
    BY <1>6, <2>2
  <2> QED
    BY <2>1, <2>2
<1>8. st2[m].logs = st[m].logs \cup {x}
  BY <1>3, <1>6 DEF top
<1> QED
  BY <1>6, <1>7, <1>8 DEF Noted, m

LEMMA SameShape ==
  ASSUME NEW fs, NEW fs2, NEW st, NEW st2, Len(fs2) = Len(fs), Len(st2) = Len(st),
         \A f \in 1..Len(fs) : fs2[f].parent = fs[f].parent /\ fs2[f].children = fs[f].children,
         \A i \in 1..Len(st) : st2[i].frame = st[i].frame,
         fs \in Seq(FrameRecords), Nested(fs), Linked(fs), Path(fs, st)
  PROVE  Nested(fs2) /\ Linked(fs2) /\ Path(fs2, st2)
<1> DEFINE n == Len(fs)
<1>1. n \in Nat /\ \A f \in 1..n : fs[f].parent \in 0..(f - 1)
  BY FrameTypes DEF Nested
<1> HIDE DEF n
<1>2. \A h \in 1..n : \A q \in 0..(h - 1) : \A g \in (q + 1)..(h - 1) : g \in 1..n
  BY <1>1
<1>3. Nested(fs2)
  BY <1>1, <1>2 DEF Nested, n
<1>4. ASSUME NEW f \in 1..n PROVE ListsChildren(fs2[f].children, fs2, f)
  <2> DEFINE list == fs[f].children
  <2>1. ListsChildren(list, fs, f) /\ fs2[f].children = list
    BY DEF Linked, n
  <2> HIDE DEF list
  <2>2. ListsChildren(list, fs2, f)
    BY <2>1 DEF ListsChildren
  <2> QED
    BY <2>1, <2>2
<1>5. \A i \in 1..Len(st) : st[i].frame \in 1..n /\ \A g \in (st[i].frame + 1)..n : g \in 1..n
  <2>1. \A f \in 1..n : \A g \in (f + 1)..n : g \in 1..n
    BY <1>1
  <2> QED
    BY <2>1 DEF Path, n
<1>6. Path(fs2, st2)
  BY <1>5 DEF Path, n
<1> QED
  BY <1>3, <1>4, <1>6 DEF Linked, n

LEMMA OneLogMore ==
  ASSUME NEW a, NEW b, NEW P, NEW log, a.logs \in Seq(LogRecords), log \in LogRecords,
         Positioned(a, P), b.logs = Append(a.logs, log), log.position \notin P
  PROVE  Positioned(b, P \cup {log.position})
<1> DEFINE s == a.logs
           t == b.logs
           n == Len(s)
           x == log.position
<1>1. /\ \A i, j \in 1..n : s[i].position = s[j].position => i = j
      /\ \A k \in 1..n : s[k].position \in P
      /\ \A y \in P : \E k \in 1..n : s[k].position = y
  BY PositionedMeans
<1>2. n \in Nat
  BY LenProperties
<1>3. t \in Seq(LogRecords) /\ Len(t) = n + 1 /\ t[n + 1] = log /\ \A k \in 1..n : t[k] = s[k]
  BY AppendProperties
<1> HIDE DEF s, t, n
<1>4. \A k \in 1..(n + 1) : k \in 1..n \/ k = n + 1
  BY <1>2
<1>5. n + 1 \in 1..(n + 1) /\ \A k \in 1..n : k \in 1..(n + 1)
  BY <1>2
<1>6. ASSUME NEW i \in 1..(n + 1), NEW j \in 1..(n + 1), t[i].position = t[j].position PROVE i = j
  <2>1. CASE i \in 1..n /\ j \in 1..n
    BY <1>1, <1>3, <1>6, <2>1
  <2>2. CASE i \in 1..n /\ j = n + 1
    BY <1>1, <1>3, <1>6, <2>2
  <2>3. CASE i = n + 1 /\ j \in 1..n
    BY <1>1, <1>3, <1>6, <2>3
  <2> QED
    BY <1>4, <2>1, <2>2, <2>3
<1>7. \A k \in 1..(n + 1) : t[k].position \in P \cup {x}
  BY <1>1, <1>3, <1>4
<1>8. \A y \in P \cup {x} : \E k \in 1..(n + 1) : t[k].position = y
  BY <1>1, <1>3, <1>5
<1>9. Len(t) = n + 1 /\ t \in Seq(LogRecords)
  BY <1>3
<1>10. /\ b.logs \in Seq(LogRecords)
       /\ \A i, j \in 1..Len(b.logs) : b.logs[i].position = b.logs[j].position => i = j
       /\ \A k \in 1..Len(b.logs) : b.logs[k].position \in P \cup {x}
       /\ \A y \in P \cup {x} : \E k \in 1..Len(b.logs) : b.logs[k].position = y
  BY <1>6, <1>7, <1>8, <1>9 DEF t
<1> HIDE DEF x
<1>11. Positioned(b, P \cup {x})
  BY <1>10, PositionedMeans
<1> QED
  BY <1>11 DEF x

LEMMA LogConsumed ==
  ASSUME NEW fs \in Seq(FrameRecords), NEW fs2, NEW st, NEW st2, NEW t, NEW log \in LogRecords,
         Path(fs, st), Consumed(fs, st), Len(st) \in Nat \ {0}, t = st[Len(st)].frame,
         Logged(fs, fs2, t, log), Noted(st, st2, log.position),
         log.position \in 0..(fs[t].emits - 1), log.position \notin st[Len(st)].logs
  PROVE  Consumed(fs2, st2)
<1> DEFINE n == Len(fs)
           m == Len(st)
           x == log.position
<1>1. n \in Nat /\ m \in Nat \ {0} /\ Len(fs2) = n /\ Len(st2) = m /\ m \in 1..m
  BY FrameTypes DEF Logged, Noted
<1>2. \A f \in 1..n : /\ fs2[f].width = fs[f].width /\ fs2[f].emits = fs[f].emits
                      /\ fs2[f].children = fs[f].children
                      /\ f # t => fs2[f].logs = fs[f].logs
                      /\ f = t => fs2[f].logs = Append(fs[f].logs, log)
  BY DEF Logged, SameNode
<1>3. \A i \in 1..m : /\ st[i].frame \in 1..n /\ st2[i].frame = st[i].frame
                      /\ st2[i].calls = st[i].calls
                      /\ i # m => st2[i].logs = st[i].logs
  BY DEF Noted, Path
<1>4. /\ \A i \in 1..m : Holding(fs[st[i].frame], st[i])
      /\ \A f \in 1..n : (\A i \in 1..m : st[i].frame # f) => Whole(fs[f])
  BY DEF Consumed
<1>5. \A i, j \in 1..m : i < j => st[i].frame < st[j].frame
  BY DEF Path
<1>6. st2[m].logs = st[m].logs \cup {x} /\ t = st[m].frame /\ t \in 1..n
  BY <1>1, <1>3 DEF Noted
<1>7. \A f \in 1..n : fs[f].logs \in Seq(LogRecords)
  BY FrameTypes
<1>8. x \in 0..(fs[t].emits - 1) /\ x \notin st[m].logs
  OBVIOUS
<1> HIDE DEF n, m, x
<1>9. ASSUME NEW i \in 1..m, i # m PROVE Holding(fs2[st2[i].frame], st2[i])
  <2>1. st[i].frame # t
    <3>1. i < m
      BY <1>1, <1>9
    <3>2. st[i].frame < st[m].frame /\ st[i].frame \in 1..n
      BY <1>1, <1>3, <1>5, <3>1
    <3>3. \A y \in 1..n : ~(y < y)
      BY <1>1
    <3> QED
      BY <1>6, <3>2, <3>3
  <2> DEFINE a == fs[st[i].frame]
             b == fs2[st2[i].frame]
  <2>2. Holding(a, st[i])
    BY <1>4
  <2>3. a.width = b.width /\ a.emits = b.emits /\ a.children = b.children /\ a.logs = b.logs
    <3>1. st[i].frame \in 1..n /\ st2[i].frame = st[i].frame
      BY <1>3
    <3> QED
      BY <1>2, <2>1, <3>1
  <2>4. st[i].calls = st2[i].calls /\ st[i].logs = st2[i].logs
    BY <1>3, <1>9
  <2> HIDE DEF a, b
  <2>5. Holding(b, st2[i])
    BY <2>2, <2>3, <2>4, SameHolding
  <2> QED
    BY <2>5 DEF b
<1>10. Holding(fs2[st2[m].frame], st2[m])
  <2> DEFINE a == fs[t]
             b == fs2[t]
             P == st[m].logs
  <2>1. Holding(a, st[m]) /\ st2[m].frame = t /\ st2[m].calls = st[m].calls
    BY <1>1, <1>3, <1>4, <1>6
  <2>2. /\ a.width = b.width /\ a.emits = b.emits /\ a.children = b.children
        /\ b.logs = Append(a.logs, log) /\ a.logs \in Seq(LogRecords)
    BY <1>2, <1>6, <1>7
  <2>3. x \in 0..(a.emits - 1) /\ x \notin P /\ st2[m].logs = P \cup {x}
    BY <1>6, <1>8
  <2> HIDE DEF a, b, P
  <2>4. /\ st[m].calls \subseteq 0..(a.width - 1) /\ Cardinality(st[m].calls) = Len(a.children)
        /\ P \subseteq 0..(a.emits - 1) /\ Positioned(a, P)
    BY <2>1 DEF Holding, P
  <2>5. Positioned(b, P \cup {x})
    BY <2>2, <2>3, <2>4, OneLogMore DEF x
  <2>6. Holding(b, st2[m])
    BY <2>1, <2>2, <2>3, <2>4, <2>5 DEF Holding
  <2> QED
    BY <2>1, <2>6 DEF b
<1>11. ASSUME NEW f \in 1..n, \A i \in 1..m : st2[i].frame # f PROVE Whole(fs2[f])
  <2>1. (\A i \in 1..m : st[i].frame # f) /\ f # t
    BY <1>1, <1>3, <1>6, <1>11
  <2> DEFINE a == fs[f]
             b == fs2[f]
  <2>2. Whole(a)
    BY <1>4, <2>1
  <2>3. a.width = b.width /\ a.emits = b.emits /\ a.children = b.children /\ a.logs = b.logs
    BY <1>2, <2>1
  <2> HIDE DEF a, b
  <2>4. Whole(b)
    BY <2>2, <2>3, SameWhole
  <2> QED
    BY <2>4 DEF b
<1> QED
  BY <1>1, <1>9, <1>10, <1>11 DEF Consumed

LEMMA LogEffects ==
  ASSUME NEW fs \in Seq(FrameRecords), NEW fs2, NEW st, NEW st2, NEW t, NEW log,
         Path(fs, st), Effects(fs, st), Len(st) \in Nat \ {0}, t = st[Len(st)].frame,
         Logged(fs, fs2, t, log), Noted(st, st2, log.position), log \in LogRecords,
         log.reverted = st[Len(st)].reverted
  PROVE  Effects(fs2, st2)
<1> DEFINE n == Len(fs)
           m == Len(st)
<1>1. n \in Nat /\ m \in Nat \ {0} /\ Len(fs2) = n /\ Len(st2) = m /\ m \in 1..m
  BY FrameTypes DEF Logged, Noted
<1>2. PICK eff \in [1..n -> BOOLEAN] : Marked(fs, st, eff)
  BY DEF Effects
<1>3. /\ \A f \in 1..n : eff[f] = (fs[f].success /\ (fs[f].parent # 0 => eff[fs[f].parent]))
      /\ \A f \in 1..n : \A k \in 1..Len(fs[f].logs) : fs[f].logs[k].reverted = ~eff[f]
      /\ \A i \in 1..m : st[i].reverted = ~eff[st[i].frame]
  BY <1>2 DEF Marked
<1>4. \A f \in 1..n : /\ fs2[f].success = fs[f].success /\ fs2[f].parent = fs[f].parent
                      /\ f # t => fs2[f].logs = fs[f].logs
                      /\ f = t => fs2[f].logs = Append(fs[f].logs, log)
  BY DEF Logged, SameNode
<1>5. \A i \in 1..m : st2[i].frame = st[i].frame /\ st2[i].reverted = st[i].reverted
  BY DEF Noted
<1>6. log.reverted = ~eff[t]
  BY <1>1, <1>3
<1>7. \A f \in 1..n : fs[f].logs \in Seq(LogRecords) /\ Len(fs[f].logs) \in Nat
  BY FrameTypes
<1> HIDE DEF n, m
<1>8. ASSUME NEW f \in 1..n, NEW k \in 1..Len(fs2[f].logs) PROVE fs2[f].logs[k].reverted = ~eff[f]
  <2>1. CASE f # t
    BY <1>3, <1>4, <2>1
  <2>2. CASE f = t
    <3> DEFINE s == fs[f].logs
               more == Append(s, log)
    <3>1. fs2[f].logs = more /\ s \in Seq(LogRecords) /\ Len(s) \in Nat
      BY <1>4, <1>7, <2>2
    <3>2. \A i \in 1..Len(s) : s[i].reverted = ~eff[f]
      BY <1>3
    <3> HIDE DEF s
    <3>3. /\ Len(more) = Len(s) + 1 /\ more[Len(s) + 1] = log
          /\ \A i \in 1..Len(s) : more[i] = s[i]
      BY <3>1, AppendProperties
    <3> HIDE DEF more
    <3>4. k \in 1..(Len(s) + 1)
      BY <3>1, <3>3
    <3>5. k \in 1..Len(s) \/ k = Len(s) + 1
      BY <3>1, <3>4
    <3> QED
      BY <1>6, <2>2, <3>1, <3>2, <3>3, <3>5
  <2> QED
    BY <2>1, <2>2
<1>9. Marked(fs2, st2, eff)
  <2>1. ASSUME NEW f \in 1..n
        PROVE  eff[f] = (fs2[f].success /\ (fs2[f].parent # 0 => eff[fs2[f].parent]))
    BY <1>3, <1>4
  <2>2. ASSUME NEW i \in 1..m PROVE st2[i].reverted = ~eff[st2[i].frame]
    BY <1>3, <1>5
  <2> QED
    BY <1>1, <1>8, <2>1, <2>2 DEF Marked
<1> QED
  BY <1>1, <1>2, <1>9 DEF Effects

LEMMA Numbered ==
  ASSUME NEW w \in Nat
  PROVE  IsFiniteSet(0..(w - 1)) /\ Cardinality(0..(w - 1)) = w
<1>1. w - 1 \in Int /\ 0 \in Int
  OBVIOUS
<1>2. /\ IsFiniteSet(0..(w - 1))
      /\ Cardinality(0..(w - 1)) = IF 0 > w - 1 THEN 0 ELSE ((w - 1) - 0) + 1
  BY <1>1, FS_Interval
<1>3. (IF 0 > w - 1 THEN 0 ELSE ((w - 1) - 0) + 1) = w
  OBVIOUS
<1> QED
  BY <1>2, <1>3

(* Closing the innermost node, once all it announced was consumed. *)
LEMMA PopShape ==
  ASSUME NEW fs \in Seq(FrameRecords), NEW st \in Seq(StackEntries), st # <<>>,
         Path(fs, st), Consumed(fs, st), Effects(fs, st),
         Cardinality(st[Len(st)].calls) = fs[st[Len(st)].frame].width,
         Cardinality(st[Len(st)].logs) = fs[st[Len(st)].frame].emits
  PROVE  LET st2 == Front(st)
         IN  /\ st2 \in Seq(StackEntries) /\ Len(st2) = Len(st) - 1
             /\ \A i \in 1..Len(st2) : i \in 1..Len(st) /\ st2[i] = st[i]
             /\ Path(fs, st2) /\ Consumed(fs, st2) /\ Effects(fs, st2)
<1> DEFINE n == Len(fs)
           m == Len(st)
           st2 == Front(st)
           t == st[m].frame
<1>1. n \in Nat
  BY FrameTypes
<1>2. st2 \in Seq(StackEntries) /\ m \in Nat \ {0} /\ Len(st2) = m - 1
      /\ \A i \in 1..(m - 1) : st2[i] = st[i]
  BY FrontIs
<1>3. /\ \A i \in 1..m : Holding(fs[st[i].frame], st[i]) /\ st[i].frame \in 1..n
      /\ \A f \in 1..n : (\A i \in 1..m : st[i].frame # f) => Whole(fs[f])
  BY DEF Consumed, Path
<1>4. Cardinality(st[m].calls) = fs[t].width /\ Cardinality(st[m].logs) = fs[t].emits
  OBVIOUS
<1> HIDE DEF n, m, st2
<1>5. m \in 1..m /\ \A i \in 1..(m - 1) : i \in 1..m
  BY <1>2
<1>6. \A i \in 1..m : i \in 1..(m - 1) \/ i = m
  BY <1>2
<1>7. Path(fs, st2)
  BY <1>2, <1>5 DEF Path, n, m
<1>8. Effects(fs, st2)
  <2>1. PICK eff \in [1..n -> BOOLEAN] : Marked(fs, st, eff)
    BY DEF Effects, n
  <2>2. Marked(fs, st2, eff)
    BY <1>2, <1>5, <2>1 DEF Marked, m
  <2> QED
    BY <2>1, <2>2 DEF Effects, n
<1>9. Whole(fs[t])
  <2> DEFINE a == fs[t]
             P == st[m].logs
  <2>1. Holding(a, st[m]) /\ t \in 1..n
    BY <1>3, <1>5
  <2>2. a.width \in Nat /\ a.emits \in Nat
    BY <2>1, FrameTypes DEF FrameRecords, n
  <2>3. Len(a.children) = a.width
    BY <1>4, <2>1 DEF Holding
  <2>4. P \in SUBSET (0..(a.emits - 1)) /\ Positioned(a, P) /\ Cardinality(P) = a.emits
    BY <1>4, <2>1 DEF Holding
  <2> HIDE DEF a, P
  <2>5. IsFiniteSet(0..(a.emits - 1)) /\ Cardinality(0..(a.emits - 1)) = a.emits
    BY <2>2, Numbered
  <2>6. P = 0..(a.emits - 1)
    BY <2>4, <2>5, FS_Subset
  <2> QED
    BY <2>3, <2>4, <2>6 DEF Whole, a
<1>10. ASSUME NEW f \in 1..n, \A i \in 1..(m - 1) : st2[i].frame # f PROVE Whole(fs[f])
  <2>1. CASE f = t
    BY <1>9, <2>1
  <2>2. CASE f # t
    BY <1>2, <1>3, <1>6, <1>10, <2>2
  <2> QED
    BY <2>1, <2>2
<1>11. Consumed(fs, st2)
  BY <1>2, <1>3, <1>5, <1>10 DEF Consumed, n
<1> QED
  BY <1>2, <1>5, <1>7, <1>8, <1>11 DEF m, st2

------------------------------------------------------------------------------
(***************************************************************************)
(* The arenas.                                                             *)
(***************************************************************************)
LEMMA KindsAre ==
  /\ Kinds = {"Deployment", "Setup", "Execution"} /\ ARENA_ORDER \in Seq(Kinds)
  /\ Len(ARENA_ORDER) = 3 /\ DOMAIN ARENA_ORDER = 1..3
  /\ \A i, j \in 1..3 : ARENA_ORDER[i] = ARENA_ORDER[j] => i = j
<1>1. DOMAIN ARENA_ORDER = 1..3 /\ Len(ARENA_ORDER) = 3
  BY DEF ARENA_ORDER
<1>2. 1..3 = {1, 2, 3}
  OBVIOUS
<1>3. ARENA_ORDER[1] = "Deployment" /\ ARENA_ORDER[2] = "Setup" /\ ARENA_ORDER[3] = "Execution"
  BY DEF ARENA_ORDER
<1>4. Kinds = {"Deployment", "Setup", "Execution"}
  BY <1>1, <1>2, <1>3 DEF Kinds, Range
<1>5. ARENA_ORDER \in Seq(Kinds)
  BY <1>4 DEF ARENA_ORDER
<1>6. ASSUME NEW i \in 1..3, NEW j \in 1..3, ARENA_ORDER[i] = ARENA_ORDER[j] PROVE i = j
  BY <1>2, <1>3, <1>6
<1> QED
  BY <1>1, <1>4, <1>5, <1>6

(* The arenas there are, each once. *)
LEMMA PresentFacts ==
  ASSUME NEW tr
  PROVE  /\ PresentIn(tr) \in Seq(Kinds) /\ Len(PresentIn(tr)) \in 0..3
         /\ \A a \in 1..Len(PresentIn(tr)) :
              PresentIn(tr)[a] \in Kinds /\ GivenIn(tr, PresentIn(tr)[a]) # {}
         /\ \A a, b \in 1..Len(PresentIn(tr)) : PresentIn(tr)[a] = PresentIn(tr)[b] => a = b
         /\ \A kind \in Kinds : GivenIn(tr, kind) # {} =>
              \E a \in 1..Len(PresentIn(tr)) : PresentIn(tr)[a] = kind
<1> DEFINE at == {i \in DOMAIN ARENA_ORDER : GivenIn(tr, ARENA_ORDER[i]) # {}}
           r == SelectAt(ARENA_ORDER, at)
<1>1. r \in Seq(Kinds) /\ \E from : Comes(r, 3, ARENA_ORDER, at, from)
  <2> DEFINE s == ARENA_ORDER
  <2>1. s \in Seq(Kinds) /\ Len(s) = 3
    BY KindsAre
  <2> HIDE DEF at, s
  <2>2. SelectAt(s, at) \in Seq(Kinds) /\ \E from : Comes(SelectAt(s, at), Len(s), s, at, from)
    BY <2>1, Selected
  <2> QED
    BY <2>1, <2>2 DEF s
<1>2. PICK from : Comes(r, 3, ARENA_ORDER, at, from)
  BY <1>1
<1>3. PresentIn(tr) = r
  BY DEF PresentIn
<1>4. at \subseteq 1..3 /\ \A i \in 1..3 : i \in at <=> GivenIn(tr, ARENA_ORDER[i]) # {}
  BY KindsAre
<1> HIDE DEF at, r
<1>5. Len(r) \in Nat /\ Len(r) <= 3
  BY <1>1, <1>2, LenProperties DEF Comes
<1>6. /\ \A i \in 1..Len(r) : from[i] \in at /\ from[i] \in 1..3 /\ r[i] = ARENA_ORDER[from[i]]
      /\ \A i, j \in 1..Len(r) : i < j => from[i] < from[j]
      /\ \A k \in at \cap 1..3 : \E i \in 1..Len(r) : from[i] = k
  BY <1>2 DEF Comes
<1>7. \A i \in 1..Len(r) : r[i] \in Kinds /\ GivenIn(tr, r[i]) # {}
  BY <1>1, <1>4, <1>6, ElementOfSeq
<1>8. ASSUME NEW i \in 1..Len(r), NEW j \in 1..Len(r), r[i] = r[j] PROVE i = j
  <2>1. from[i] = from[j]
    <3> DEFINE x == from[i]
               y == from[j]
    <3>1. x \in 1..3 /\ y \in 1..3 /\ ARENA_ORDER[x] = ARENA_ORDER[y]
      BY <1>6, <1>8
    <3>2. \A a, b \in 1..3 : ARENA_ORDER[a] = ARENA_ORDER[b] => a = b
      BY KindsAre
    <3> HIDE DEF x, y
    <3>3. x = y
      BY <3>1, <3>2
    <3> QED
      BY <3>3 DEF x, y
  <2>2. \A x \in 1..3 : ~(x < x)
    OBVIOUS
  <2>3. ~(i < j) /\ ~(j < i)
    BY <1>6, <2>1, <2>2
  <2> QED
    BY <1>5, <2>3
<1>9. ASSUME NEW kind \in Kinds, GivenIn(tr, kind) # {} PROVE \E i \in 1..Len(r) : r[i] = kind
  <2>1. PICK k \in 1..3 : ARENA_ORDER[k] = kind
    BY KindsAre DEF Kinds, Range
  <2>2. k \in at
    BY <1>4, <1>9, <2>1
  <2> QED
    BY <1>6, <2>1, <2>2
<1>10. Len(r) \in 0..3
  <2>1. \A x \in Nat : x <= 3 => x \in 0..3
    OBVIOUS
  <2> QED
    BY <1>5, <2>1
<1> QED
  BY <1>1, <1>3, <1>7, <1>8, <1>9, <1>10

(* The test is the last arena. *)
LEMMA TestIsLast ==
  ASSUME NEW tr, NEW a \in 1..Len(PresentIn(tr)), PresentIn(tr)[a] = "Execution"
  PROVE  a = Len(PresentIn(tr))
<1> DEFINE at == {i \in DOMAIN ARENA_ORDER : GivenIn(tr, ARENA_ORDER[i]) # {}}
           r == SelectAt(ARENA_ORDER, at)
<1>1. \E from : Comes(r, 3, ARENA_ORDER, at, from)
  <2> DEFINE s == ARENA_ORDER
  <2>1. s \in Seq(Kinds) /\ Len(s) = 3
    BY KindsAre
  <2> HIDE DEF at, s
  <2>2. \E from : Comes(SelectAt(s, at), Len(s), s, at, from)
    BY <2>1, Selected
  <2> QED
    BY <2>1, <2>2 DEF s
<1>2. PICK from : Comes(r, 3, ARENA_ORDER, at, from)
  BY <1>1
<1>3. PresentIn(tr) = r
  BY DEF PresentIn
<1>4. at \subseteq 1..3
  BY KindsAre
<1> HIDE DEF at, r
<1>5. /\ \A i \in 1..Len(r) : from[i] \in at /\ from[i] \in 1..3 /\ r[i] = ARENA_ORDER[from[i]]
      /\ \A i, j \in 1..Len(r) : i < j => from[i] < from[j]
  BY <1>2 DEF Comes
<1>6. a \in 1..Len(r) /\ r[a] = "Execution" /\ Len(r) \in Nat
  BY <1>3, PresentFacts
<1>7. from[a] = 3
  <2> DEFINE x == from[a]
  <2>1. x \in 1..3 /\ ARENA_ORDER[x] = "Execution"
    BY <1>5, <1>6
  <2>2. \A y \in 1..3 : ARENA_ORDER[y] = "Execution" => y = 3
    <3>1. ARENA_ORDER[3] = "Execution" /\ 3 \in 1..3
      BY DEF ARENA_ORDER
    <3> QED
      BY <3>1, KindsAre
  <2> HIDE DEF x
  <2>3. x = 3
    BY <2>1, <2>2
  <2> QED
    BY <2>3 DEF x
<1>8. ~(a < Len(r))
  <2>1. \A x \in 1..3 : ~(3 < x)
    OBVIOUS
  <2>2. Len(r) \in 1..Len(r)
    BY <1>6
  <2> QED
    BY <1>5, <1>6, <1>7, <2>1, <2>2
<1>9. \A n \in Nat : \A x \in 1..n : ~(x < n) => x = n
  OBVIOUS
<1> QED
  BY <1>3, <1>6, <1>8, <1>9

(* A new frame keeps the test last. *)
LEMMA OpenTestLast ==
  ASSUME NEW tr, NEW fs \in Seq(FrameRecords), NEW fs2, NEW p, NEW n \in Nat,
         Placed(tr, fs, n), TestLast(fs), Extended(fs, fs2, p), n \in 1..Len(PresentIn(tr)),
         fs2[Len(fs) + 1].kind = PresentIn(tr)[n]
  PROVE  TestLast(fs2)
<1> DEFINE len == Len(fs)
<1>1. len \in Nat /\ Len(fs2) = len + 1
  BY FrameTypes DEF Extended
<1>2. \A f \in 1..len : fs2[f].kind = fs[f].kind
  BY DEF Extended, SameNode
<1>3. \A f \in 1..len : fs[f].kind = "Execution" => fs2[len + 1].kind = "Execution"
  <2>1. TAKE f \in 1..len
  <2>2. HAVE fs[f].kind = "Execution"
  <2>3. PICK a \in 1..n : PresentIn(tr)[a] = "Execution"
    BY <2>2 DEF Placed
  <2>4. Len(PresentIn(tr)) \in Nat
    BY PresentFacts
  <2>5. \A m \in Nat : \A y \in 1..m : \A x \in 1..y : x \in 1..m /\ (x = m => y = m)
    OBVIOUS
  <2>6. a \in 1..Len(PresentIn(tr)) /\ (a = Len(PresentIn(tr)) => n = Len(PresentIn(tr)))
    BY <2>4, <2>5
  <2>7. a = Len(PresentIn(tr))
    BY <2>3, <2>6, TestIsLast
  <2> QED
    BY <2>3, <2>6, <2>7 DEF len
<1> HIDE DEF len
<1>4. \A f \in 1..(len + 1) : f \in 1..len \/ f = len + 1
  BY <1>1
<1>5. \A f, g \in 1..(len + 1) : f < g => f \in 1..len
  BY <1>1
<1>6. ASSUME NEW f \in 1..(len + 1), NEW g \in 1..(len + 1), f < g, fs2[f].kind = "Execution"
      PROVE  fs2[g].kind = "Execution"
  <2>1. f \in 1..len /\ fs[f].kind = "Execution"
    BY <1>2, <1>5, <1>6
  <2>2. CASE g \in 1..len
    BY <1>2, <1>6, <2>1, <2>2 DEF TestLast, len
  <2>3. CASE g = len + 1
    BY <1>3, <2>1, <2>3
  <2> QED
    BY <1>4, <2>2, <2>3
<1> QED
  BY <1>1, <1>6 DEF TestLast

LEMMA SameTestLast ==
  ASSUME NEW fs, NEW fs2, Len(fs2) = Len(fs), \A f \in 1..Len(fs) : fs2[f].kind = fs[f].kind,
         TestLast(fs)
  PROVE  TestLast(fs2)
<1> SUFFICES ASSUME NEW f \in 1..Len(fs), NEW g \in 1..Len(fs), f < g, fs2[f].kind = "Execution"
             PROVE  fs2[g].kind = "Execution"
  BY DEF TestLast
<1>1. fs[f].kind = "Execution" /\ fs2[g].kind = fs[g].kind
  OBVIOUS
<1> QED
  BY <1>1 DEF TestLast

LEMMA NodesAre ==
  ASSUME NEW tr \in Traces, NEW kind, GivenIn(tr, kind) # {}
  PROVE  /\ NodesIn(tr, kind) \in Seq([idx : Int, parent : Int \cup {Nil}])
         /\ Len(NodesIn(tr, kind)) \in Nat /\ DOMAIN NodesIn(tr, kind) = 1..Len(NodesIn(tr, kind))
         /\ \A j \in 1..Len(NodesIn(tr, kind)) :
              NodesIn(tr, kind)[j].idx \in Int /\ NodesIn(tr, kind)[j] \in Range(NodesIn(tr, kind))
         /\ \A node \in Range(NodesIn(tr, kind)) : node.idx \in Int
<1> DEFINE NodeRecords == [idx : Int, parent : Int \cup {Nil}]
           nodes == NodesIn(tr, kind)
<1>1. PICK i \in GivenIn(tr, kind) : i = CHOOSE x \in GivenIn(tr, kind) : TRUE
  OBVIOUS
<1>2. i \in DOMAIN tr /\ nodes = tr[i].nodes
  BY <1>1 DEF GivenIn, NodesIn
<1>3. tr \in Seq([kind : STRING, nodes : Seq(NodeRecords)])
  BY AdapterConstants
<1>4. tr[i] \in [kind : STRING, nodes : Seq(NodeRecords)]
  <2> HIDE DEF NodeRecords
  <2>1. DOMAIN tr = 1..Len(tr)
    BY <1>3, LenProperties
  <2> QED
    BY <1>2, <1>3, <2>1, ElementOfSeq
<1>5. nodes \in Seq(NodeRecords)
  <2> HIDE DEF NodeRecords
  <2> QED
    BY <1>2, <1>4
<1> HIDE DEF nodes
<1>6. Len(nodes) \in Nat /\ DOMAIN nodes = 1..Len(nodes) /\ \A j \in 1..Len(nodes) : nodes[j] \in NodeRecords
  <2> HIDE DEF NodeRecords
  <2> QED
    BY <1>5, LenProperties, ElementOfSeq
<1>7. \A j \in 1..Len(nodes) : nodes[j].idx \in Int /\ nodes[j] \in Range(nodes)
  BY <1>6 DEF Range
<1>8. \A node \in Range(nodes) : node.idx \in Int
  BY <1>6 DEF Range
<1> QED
  BY <1>5, <1>6, <1>7, <1>8 DEF nodes

(* A new frame of arena n, whose node no frame has yet. *)
LEMMA OpenPlaced ==
  ASSUME NEW tr \in Traces, NEW fs \in Seq(FrameRecords), NEW fs2, NEW p, NEW n \in Nat,
         Placed(tr, fs, n), Extended(fs, fs2, p), n \in 1..Len(PresentIn(tr)),
         LET b == fs2[Len(fs) + 1]
         IN  /\ b.kind = PresentIn(tr)[n]
             /\ \E node \in Range(NodesIn(tr, PresentIn(tr)[n])) : node.idx = b.idx
             /\ b.idx \notin VisitedIn(fs, b.kind)
  PROVE  Placed(tr, fs2, n)
<1> DEFINE len == Len(fs)
           b == fs2[len + 1]
<1>1. len \in Nat /\ Len(fs2) = len + 1
  BY FrameTypes DEF Extended
<1>2. \A f \in 1..len : fs2[f].kind = fs[f].kind /\ fs2[f].idx = fs[f].idx
  BY DEF Extended, SameNode
<1>3. \A f \in 1..len : fs[f].kind = b.kind => fs[f].idx # b.idx
  BY DEF VisitedIn
<1>4. /\ b.kind = PresentIn(tr)[n] /\ n \in 1..n
      /\ \E node \in Range(NodesIn(tr, PresentIn(tr)[n])) : node.idx = b.idx
  <2>1. n \in 1..n
    BY PresentFacts
  <2> QED
    BY <2>1
<1> HIDE DEF b, len
<1>5. \A f \in 1..(len + 1) : f \in 1..len \/ f = len + 1
  BY <1>1
<1>6. ASSUME NEW f \in 1..(len + 1)
      PROVE  \E a \in 1..n : /\ fs2[f].kind = PresentIn(tr)[a]
                             /\ \E node \in Range(NodesIn(tr, PresentIn(tr)[a])) : node.idx = fs2[f].idx
  <2>1. CASE f = len + 1
    BY <1>4, <2>1 DEF b
  <2>2. CASE f \in 1..len
    BY <1>2, <2>2 DEF Placed, len
  <2> QED
    BY <1>5, <2>1, <2>2
<1>7. ASSUME NEW f \in 1..(len + 1), NEW g \in 1..(len + 1),
             fs2[f].kind = fs2[g].kind, fs2[f].idx = fs2[g].idx
      PROVE  f = g
  <2>1. CASE f \in 1..len /\ g \in 1..len
    BY <1>2, <1>7, <2>1 DEF Placed, len
  <2>2. CASE f \in 1..len /\ g = len + 1
    BY <1>2, <1>3, <1>7, <2>2 DEF b
  <2>3. CASE f = len + 1 /\ g \in 1..len
    BY <1>2, <1>3, <1>7, <2>3 DEF b
  <2> QED
    BY <1>5, <2>1, <2>2, <2>3
<1> QED
  BY <1>1, <1>6, <1>7 DEF Placed

LEMMA MorePlaced ==
  ASSUME NEW tr, NEW fs, NEW n \in Nat, Placed(tr, fs, n)
  PROVE  Placed(tr, fs, n + 1)
<1>1. \A a \in 1..n : a \in 1..(n + 1)
  OBVIOUS
<1> QED
  BY <1>1 DEF Placed

(* Arenas that were finished stay so while another one is converted. *)
LEMMA OpenFinished ==
  ASSUME NEW tr, NEW fs \in Seq(FrameRecords), NEW fs2, NEW p, NEW n \in Nat,
         n + 1 \in 1..Len(PresentIn(tr)), FinishedTo(tr, fs, n), Extended(fs, fs2, p),
         fs2[Len(fs) + 1].kind = PresentIn(tr)[n + 1]
  PROVE  FinishedTo(tr, fs2, n)
<1> DEFINE len == Len(fs)
<1>1. len \in Nat /\ Len(fs2) = len + 1
  BY FrameTypes DEF Extended
<1>2. \A f \in 1..len : fs2[f].kind = fs[f].kind /\ fs2[f].idx = fs[f].idx
  BY DEF Extended, SameNode
<1> HIDE DEF len
<1>3. \A f \in 1..(len + 1) : f \in 1..len \/ f = len + 1
  BY <1>1
<1>4. \A f \in 1..len : f \in 1..(len + 1)
  BY <1>1
<1>5. ASSUME NEW a \in 1..n PROVE VisitedIn(fs2, PresentIn(tr)[a]) = VisitedIn(fs, PresentIn(tr)[a])
  <2> DEFINE kind == PresentIn(tr)[a]
  <2>1. a \in 1..Len(PresentIn(tr)) /\ a # n + 1
    <3>1. Len(PresentIn(tr)) \in Nat
      BY PresentFacts
    <3> QED
      BY <3>1
  <2>2. fs2[len + 1].kind # kind
    BY <2>1, PresentFacts DEF len
  <2> HIDE DEF kind
  <2> DEFINE old == {j \in 1..Len(fs) : fs[j].kind = kind}
             all == {j \in 1..Len(fs2) : fs2[j].kind = kind}
  <2>3. \A f \in all : f \in 1..len /\ f \in old
    BY <1>1, <1>2, <1>3, <2>2 DEF len
  <2>4. \A f \in old : f \in 1..len /\ f \in all
    BY <1>1, <1>2, <1>4 DEF len
  <2>5. VisitedIn(fs2, kind) = {fs2[f].idx : f \in all} /\ VisitedIn(fs, kind) = {fs[f].idx : f \in old}
    BY DEF VisitedIn
  <2> HIDE DEF old, all
  <2>6. VisitedIn(fs2, kind) = VisitedIn(fs, kind)
    BY <1>2, <2>3, <2>4, <2>5
  <2> QED
    BY <2>6 DEF kind
<1> QED
  BY <1>5 DEF FinishedTo

LEMMA OpenInArena ==
  ASSUME NEW fs \in Seq(FrameRecords), NEW fs2, NEW st, NEW st2, NEW p, NEW kind,
         Path(fs, st), Inner(st, p), InArena(fs, st, kind),
         Extended(fs, fs2, p), Pushed(st, st2, Len(fs) + 1), fs2[Len(fs) + 1].kind = kind
  PROVE  InArena(fs2, st2, kind)
<1>1. Len(st) \in Nat /\ Len(st2) = Len(st) + 1
  BY DEF Inner, Pushed
<1>2. \A i \in 1..(Len(st) + 1) : i \in 1..Len(st) \/ i = Len(st) + 1
  BY <1>1
<1>3. \A i \in 1..Len(st) : /\ st[i].frame \in 1..Len(fs) /\ st2[i].frame = st[i].frame
                            /\ fs2[st[i].frame].kind = fs[st[i].frame].kind
  BY DEF Path, Pushed, Extended, SameNode
<1> QED
  BY <1>1, <1>2, <1>3 DEF InArena, Pushed

------------------------------------------------------------------------------
(***************************************************************************)
(* The steps that do not convert a node.                                   *)
(***************************************************************************)
LEMMA EmptyShape ==
  /\ <<>> \in Seq(FrameRecords) /\ <<>> \in Seq(StackEntries)
  /\ Nested(<<>>) /\ Linked(<<>>) /\ Path(<<>>, <<>>) /\ Consumed(<<>>, <<>>) /\ Effects(<<>>, <<>>)
<1> DEFINE e == <<>>
<1>1. e \in Seq(FrameRecords) /\ e \in Seq(StackEntries) /\ Len(e) = 0
  OBVIOUS
<1> HIDE DEF e
<1>2. \A i \in 1..Len(e) : FALSE
  BY <1>1
<1>3. Nested(e) /\ Linked(e) /\ Path(e, e) /\ Consumed(e, e)
  BY <1>2 DEF Nested, Linked, Path, Consumed
<1>4. \E eff \in [1..Len(e) -> BOOLEAN] : Marked(e, e, eff)
  <2>1. [i \in 1..Len(e) |-> TRUE] \in [1..Len(e) -> BOOLEAN]
    OBVIOUS
  <2>2. \A eff : Marked(e, e, eff)
    BY <1>2 DEF Marked
  <2> QED
    BY <2>1, <2>2
<1> QED
  BY <1>1, <1>3, <1>4 DEF Effects, e

LEMMA EmptySummed ==
  ASSUME NEW fs \in Seq(FrameRecords)
  PROVE  Summed(Empty, fs)
<1> DEFINE n == Len(fs)
<1>1. n \in Nat
  BY LenProperties
<1>2. /\ Empty.count = 0 /\ Empty.now = initial /\ Empty.advance = [c \in Clocks |-> 0]
      /\ Empty.cheatcodes = <<>> /\ Empty.events = <<>>
  BY DEF Empty
<1>3. Empty \in Summaries
  <2>1. initial \in [Clocks -> Int] /\ [c \in Clocks |-> 0] \in [Clocks -> Int]
    BY AdapterConstants
  <2>2. <<>> \in Seq([call : CheatCalls, phase : {"setup", "witness"}]) /\ <<>> \in Seq(Nat \X Int)
    OBVIOUS
  <2> QED
    BY <2>1, <2>2 DEF Empty, Summaries
<1>4. \A f \in 1..Empty.count : FALSE
  BY <1>2
<1>5. Telescoped(Empty)
  <2>1. \A c \in Clocks : initial[c] \in Nat /\ Empty.now[c] = initial[c] /\ Empty.advance[c] = 0
    BY <1>2, AdapterConstants
  <2> QED
    BY <2>1 DEF Telescoped
<1>6. EventsListed(Empty, fs)
  <2>1. Range(Empty.events) = {}
    BY <1>2 DEF Range
  <2>2. UNION {EventsOf(fs, f) : f \in 1..Empty.count} = {}
    BY <1>4
  <2> QED
    BY <2>1, <2>2 DEF EventsListed
<1>7. CheatsListed(Empty, fs) /\ ClocksOrdered(Empty, fs)
  BY <1>4 DEF CheatsListed, ClocksOrdered
<1>8. Empty.count <= n
  BY <1>1, <1>2
<1> QED
  BY <1>3, <1>5, <1>6, <1>7, <1>8 DEF Summed

LEMMA RaiseKeeps ==
  ASSUME AdapterInv, Raise
  PROVE  AdapterInv'
<1>1. /\ pc' = "raised" /\ arena' = 0 /\ frames' = <<>> /\ stack' = <<>> /\ derived_logs' = <<>>
      /\ entries' = 0 /\ summary' = Empty /\ traces' = traces /\ witness' = witness
  BY DEF Raise
<1>2. pc' \notin Adapting /\ pc' # "convert" /\ pc' # "arena" /\ pc' # "accepted"
      /\ pc' \notin {"logs", "parse", "enforce", "accepted"}
      /\ pc' \notin {"enforce", "accepted"}
  BY <1>1 DEF Adapting
<1>3. PlainTypes'
  <2>1. 0 \in 0..MaxEntries
    BY AdapterConstants
  <2>2. <<>> \in Seq(Nat \X Int)
    OBVIOUS
  <2> QED
    BY <1>1, <2>1, <2>2, EmptyShape DEF AdapterInv, PlainTypes, Ended
<1>4. Progress'
  BY <1>1, <1>2 DEF Progress
<1>5. Shape'
  BY <1>1, EmptyShape DEF Shape
<1>6. Arenas' /\ Judgement'
  BY <1>2 DEF Arenas, Judgement
<1>7. Summed(summary, frames)'
  BY <1>1, EmptyShape, EmptySummed
<1> QED
  BY <1>3, <1>4, <1>5, <1>6, <1>7 DEF AdapterInv

(* A step that only moves on, outside of the conversion of a node. *)
LEMMA MoveKeeps ==
  ASSUME AdapterInv, UNCHANGED <<traces, arena, frames, stack, derived_logs, entries, summary>>,
         pc' \in {"test", "arenas", "arena", "convert", "logs", "parse", "enforce"} \cup Ended,
         witness' \in Witnesses \cup {Nil}, Progress', Arenas', Judgement'
  PROVE  AdapterInv'
<1>1. PlainTypes' /\ Shape' /\ Summed(summary, frames)'
  BY DEF AdapterInv, PlainTypes, Shape
<1> QED
  BY <1>1 DEF AdapterInv

LEMMA SelectTestKeeps ==
  ASSUME AdapterInv, select_test
  PROVE  AdapterInv'
<1>1. CASE Raise
  BY <1>1, RaiseKeeps
<1>2. CASE /\ pc' = "arenas"
           /\ UNCHANGED <<traces, arena, frames, stack, derived_logs, entries, summary, witness, policy>>
  <2>1. pc = "test"
    BY DEF select_test
  <2>2. Progress'
    BY <1>2, <2>1 DEF AdapterInv, Progress, Adapting
  <2>3. Arenas' /\ Judgement'
    BY <1>2 DEF Arenas, Judgement, Adapting
  <2> QED
    BY <1>2, <2>2, <2>3, MoveKeeps DEF AdapterInv, PlainTypes
<1> QED
  BY <1>1, <1>2 DEF select_test

LEMMA SelectArenasKeeps ==
  ASSUME AdapterInv, select_arenas
  PROVE  AdapterInv'
<1>1. CASE Raise
  BY <1>1, RaiseKeeps
<1>2. CASE /\ \A i \in DOMAIN traces : traces[i].kind \in Range(ARENA_ORDER) /\ traces[i].nodes # <<>>
           /\ \A kind \in Range(ARENA_ORDER) : Cardinality(Given(kind)) <= 1
           /\ Given("Execution") # {}
           /\ pc' = "arena"
           /\ UNCHANGED <<traces, arena, frames, stack, derived_logs, entries, summary, witness, policy>>
  <2>1. pc = "arenas"
    BY DEF select_arenas
  <2>2. frames = <<>> /\ arena = 0 /\ stack = <<>> /\ summary = Empty
    BY <2>1 DEF AdapterInv, Progress, Adapting
  <2>3. WellFormed(traces)
    BY <1>2 DEF WellFormed, Kinds, Given, GivenIn
  <2>4. 0 \in 0..(Len(PresentIn(traces)) - 1)
    <3>1. GivenIn(traces, "Execution") # {} /\ "Execution" \in Kinds
      BY <2>3, KindsAre DEF WellFormed
    <3>2. PICK a \in 1..Len(PresentIn(traces)) : PresentIn(traces)[a] = "Execution"
      BY <3>1, PresentFacts
    <3>3. Len(PresentIn(traces)) \in Nat
      BY PresentFacts
    <3> QED
      BY <3>2, <3>3
  <2>5. Progress'
    BY <1>2, <2>2, <2>3, <2>4 DEF Progress, Adapting
  <2>6. \A i \in 1..Len(<<>>) : FALSE
    OBVIOUS
  <2>7. \A i \in 1..0 : FALSE
    OBVIOUS
  <2>8. Arenas'
    <3>1. Placed(traces, <<>>, 0) /\ DistinctTo(traces, 0) /\ FinishedTo(traces, <<>>, 0)
          /\ InArena(<<>>, <<>>, PresentIn(traces)[0]) /\ TestLast(<<>>)
      BY <2>6, <2>7 DEF Placed, DistinctTo, FinishedTo, InArena, TestLast
    <3> QED
      BY <1>2, <2>2, <3>1 DEF Arenas
  <2>9. Judgement'
    BY <1>2 DEF Judgement
  <2> QED
    BY <1>2, <2>5, <2>8, <2>9, MoveKeeps DEF AdapterInv, PlainTypes
<1> QED
  BY <1>1, <1>2 DEF select_arenas

LEMMA MalformedKeeps ==
  ASSUME AdapterInv, malformed
  PROVE  AdapterInv'
  BY RaiseKeeps DEF malformed

LEMMA CheckLogsKeeps ==
  ASSUME AdapterInv, check_logs
  PROVE  AdapterInv'
<1>1. CASE Raise
  BY <1>1, RaiseKeeps
<1>2. CASE /\ pc' = "parse"
           /\ UNCHANGED <<traces, arena, frames, stack, derived_logs, entries, summary, witness, policy>>
  <2>1. pc = "logs"
    BY DEF check_logs
  <2>2. Progress'
    BY <1>2, <2>1 DEF AdapterInv, Progress, Adapting
  <2>3. Arenas' /\ Judgement'
    BY <1>2, <2>1 DEF AdapterInv, Arenas, Judgement, Adapting
  <2> QED
    BY <1>2, <2>2, <2>3, MoveKeeps DEF AdapterInv, PlainTypes
<1> QED
  BY <1>1, <1>2 DEF check_logs

LEMMA ParseDoneKeeps ==
  ASSUME AdapterInv, parse_done
  PROVE  AdapterInv'
<1>1. /\ pc = "parse" /\ pc' = "enforce" /\ summary.count = Len(frames)
      /\ UNCHANGED <<traces, arena, frames, stack, derived_logs, entries, summary, witness, policy>>
  BY DEF parse_done
<1>2. Progress'
  BY <1>1 DEF AdapterInv, Progress, Adapting
<1>3. Arenas' /\ Judgement'
  BY <1>1 DEF AdapterInv, Arenas, Judgement, Adapting
<1> QED
  BY <1>1, <1>2, <1>3, MoveKeeps DEF AdapterInv, PlainTypes

LEMMA EnforceKeeps ==
  ASSUME AdapterInv, enforce
  PROVE  AdapterInv'
<1>1. CASE Raise
  BY <1>1, RaiseKeeps
<1>2. ASSUME NEW w \in Witnesses, NEW rules \in Policies,
             enforce_time_block_limits(w), enforce_cheatcode_policy(w, rules),
             pc' = "accepted", witness' = w, policy' = rules,
             UNCHANGED <<traces, arena, frames, stack, derived_logs, entries, summary>>
      PROVE  AdapterInv'
  <2>1. pc = "enforce"
    BY DEF enforce
  <2>2. Progress'
    BY <1>2, <2>1 DEF AdapterInv, Progress, Adapting
  <2>3. Arenas'
    BY <1>2, <2>1 DEF AdapterInv, Arenas, Adapting
  <2>4. Judgement'
    BY <1>2 DEF Judgement, enforce_time_block_limits, enforce_cheatcode_policy
  <2> QED
    BY <1>2, <2>2, <2>3, <2>4, MoveKeeps DEF Ended
<1> QED
  BY <1>1, <1>2 DEF enforce

LEMMA StutterKeeps ==
  ASSUME AdapterInv, UNCHANGED adapterVars
  PROVE  AdapterInv'
<1>1. UNCHANGED <<traces, pc, arena, frames, stack, derived_logs, entries, summary, witness, policy>>
  BY DEF adapterVars
<1>2. Progress' /\ Arenas'
  BY <1>1 DEF AdapterInv, Progress, Arenas
<1>3. Judgement'
  BY <1>1 DEF AdapterInv, Judgement, enforce_time_block_limits, enforce_cheatcode_policy
<1> QED
  BY <1>1, <1>2, <1>3, MoveKeeps DEF AdapterInv, PlainTypes

LEMMA SkipStepKeeps ==
  ASSUME AdapterInv, skip_step
  PROVE  AdapterInv'
<1>1. /\ pc = "convert" /\ entries > 0 /\ entries' = entries - 1
      /\ UNCHANGED <<traces, pc, arena, frames, stack, derived_logs, summary, witness, policy>>
  BY DEF skip_step, NextEntry
<1>2. PlainTypes'
  <2>1. entries' \in 0..MaxEntries
    BY <1>1, AdapterConstants DEF AdapterInv, PlainTypes
  <2> QED
    BY <1>1, <2>1 DEF AdapterInv, PlainTypes
<1>3. Progress' /\ Shape' /\ Arenas' /\ Summed(summary, frames)'
  BY <1>1 DEF AdapterInv, Progress, Shape, Arenas
<1>4. Judgement'
  BY <1>1 DEF Judgement
<1> QED
  BY <1>2, <1>3, <1>4 DEF AdapterInv

------------------------------------------------------------------------------
(***************************************************************************)
(* The steps that convert a node.                                          *)
(***************************************************************************)
LEMMA OpenKeeps ==
  ASSUME AdapterInv, WellFormed(traces), NEW p, Inner(stack, p), Extended(frames, frames', p),
         stack' \in Seq(StackEntries), Pushed(stack, stack', Len(frames) + 1),
         pc' = "convert", entries' \in 0..MaxEntries, summary = Empty,
         UNCHANGED <<traces, derived_logs, summary, witness, policy>>,
         arena' \in 1..Len(PresentIn(traces)), Placed(traces, frames, arena'),
         DistinctTo(traces, arena'), FinishedTo(traces, frames, arena' - 1), TestLast(frames),
         InArena(frames, stack, PresentIn(traces)[arena']),
         frames'[Len(frames) + 1].kind = PresentIn(traces)[arena'],
         \E node \in Range(NodesIn(traces, PresentIn(traces)[arena'])) :
           node.idx = frames'[Len(frames) + 1].idx,
         frames'[Len(frames) + 1].idx \notin VisitedIn(frames, PresentIn(traces)[arena']),
         Len(stack) # 0 => \E x \in (0..(frames[p].width - 1)) \ stack[Len(stack)].calls :
                             stack'[Len(stack)].calls = stack[Len(stack)].calls \cup {x},
         stack'[Len(stack) + 1].reverted =
           reverted_inside(IF Len(stack) = 0 THEN FALSE ELSE stack[Len(stack)].reverted,
                           frames'[Len(frames) + 1].success)
  PROVE  AdapterInv'
<1>1. /\ frames \in Seq(FrameRecords) /\ stack \in Seq(StackEntries) /\ traces \in Traces
      /\ Nested(frames) /\ Linked(frames) /\ Path(frames, stack) /\ Consumed(frames, stack)
      /\ Effects(frames, stack)
  BY DEF AdapterInv, PlainTypes, Shape
<1>2. frames' \in Seq(FrameRecords) /\ Len(frames) \in Nat /\ Len(frames') = Len(frames) + 1
  BY <1>1, FrameTypes DEF Extended
<1>3. Len(stack) \in Nat /\ Len(stack') = Len(stack) + 1
  BY <1>1, LenProperties DEF Pushed
<1>4. Shape'
  <2>1. Nested(frames')
    BY <1>1, OpenNested
  <2>2. Linked(frames')
    BY <1>1, OpenLinked
  <2>3. Path(frames', stack')
    BY <1>1, OpenPath
  <2>4. Consumed(frames', stack')
    BY <1>1, OpenConsumed
  <2>5. Effects(frames', stack')
    BY <1>1, OpenEffects
  <2> QED
    BY <2>1, <2>2, <2>3, <2>4, <2>5 DEF Shape
<1>5. PlainTypes'
  BY <1>2 DEF AdapterInv, PlainTypes
<1>6. arena' \in Nat /\ arena' - 1 \in Nat /\ (arena' - 1) + 1 = arena'
  <2>1. Len(PresentIn(traces)) \in Nat
    BY PresentFacts
  <2>2. \A m \in Nat : \A a \in 1..m : a \in Nat /\ a - 1 \in Nat /\ (a - 1) + 1 = a
    OBVIOUS
  <2> QED
    BY <2>1, <2>2
<1>7. Progress'
  <2>1. stack' # <<>>
    <3>1. Len(<<>>) = 0
      OBVIOUS
    <3>2. Len(stack') # 0
      BY <1>3
    <3> QED
      BY <3>1, <3>2
  <2> QED
    BY <2>1 DEF Progress, Adapting
<1>8. Arenas'
  <2>1. Placed(traces, frames', arena')
    BY <1>1, <1>6, OpenPlaced
  <2>2. FinishedTo(traces, frames', arena' - 1)
    BY <1>1, <1>6, OpenFinished
  <2>3. InArena(frames', stack', PresentIn(traces)[arena'])
    BY <1>1, OpenInArena
  <2>4. TestLast(frames')
    BY <1>1, <1>6, OpenTestLast
  <2> QED
    BY <2>1, <2>2, <2>3, <2>4 DEF Arenas
<1>9. Summed(summary, frames)'
  BY <1>2, EmptySummed
<1>10. Judgement'
  BY DEF Judgement
<1> QED
  BY <1>4, <1>5, <1>7, <1>8, <1>9, <1>10 DEF AdapterInv

(* What open_node adds. *)
LEMMA OpenedFrame ==
  ASSUME frames \in Seq(FrameRecords), NEW kind \in Kinds, NEW node, node.idx \in Int,
         NEW parent \in 0..Len(frames), NEW content \in Contents,
         frames' = Append(Linking(frames, parent), Frame(kind, node, parent, content))
  PROVE  /\ Extended(frames, frames', parent)
         /\ frames'[Len(frames) + 1].kind = kind /\ frames'[Len(frames) + 1].idx = node.idx
         /\ frames'[Len(frames) + 1].success = content.success
<1>1. Len(frames) \in Nat /\ parent \in Nat
  BY FrameTypes
<1> DEFINE b == Frame(kind, node, parent, content)
<1>2. /\ b \in FrameRecords /\ b.kind = kind /\ b.idx = node.idx /\ b.parent = parent
      /\ b.success = content.success /\ b.children = <<>> /\ b.logs = <<>>
  <2>1. /\ content.success \in BOOLEAN /\ content.children \in Nat /\ content.logs \in Nat
        /\ content.cheatcode \in CheatCalls
    BY AdapterConstants DEF CheatCalls
  <2>2. <<>> \in Seq(Nat) /\ <<>> \in Seq(LogRecords)
    OBVIOUS
  <2> QED
    BY <1>1, <2>1, <2>2 DEF Frame, FrameRecords
<1> HIDE DEF b
<1>3. frames' = Append(Linking(frames, parent), b)
  BY DEF b
<1>4. Extended(frames, frames', parent) /\ frames'[Len(frames) + 1] = b
  <2> DEFINE fs2 == Append(Linking(frames, parent), b)
  <2>1. Extended(frames, fs2, parent) /\ fs2[Len(frames) + 1] = b
    BY <1>2, FramesAppend
  <2> HIDE DEF fs2
  <2>2. frames' = fs2
    BY <1>3 DEF fs2
  <2> QED
    BY <2>1, <2>2
<1> QED
  BY <1>2, <1>4

LEMMA OpenedEntry ==
  ASSUME NEW child \in Nat, NEW parent_reverted \in BOOLEAN, NEW content \in Contents
  PROVE  LET e == [frame |-> child, reverted |-> reverted_inside(parent_reverted, content.success),
                   calls |-> {}, logs |-> {}]
         IN  /\ e \in StackEntries /\ e.frame = child /\ e.calls = {} /\ e.logs = {}
             /\ e.reverted = reverted_inside(parent_reverted, content.success)
<1>1. content.success \in BOOLEAN
  BY AdapterConstants
<1>2. reverted_inside(parent_reverted, content.success) \in BOOLEAN
  BY <1>1 DEF reverted_inside
<1> QED
  BY <1>2 DEF StackEntries

(* The operators of the model on the current state. *)
LEMMA Current ==
  /\ Present = PresentIn(traces)
  /\ \A kind : Given(kind) = GivenIn(traces, kind)
  /\ \A kind : Nodes(kind) = NodesIn(traces, kind)
  /\ DOMAIN frames = 1..Len(frames) => \A kind : visited(kind) = VisitedIn(frames, kind)
<1>1. \A kind : Given(kind) = GivenIn(traces, kind)
  BY DEF Given, GivenIn
<1>2. Present = PresentIn(traces)
  BY <1>1 DEF Present, PresentIn
<1>3. \A kind : Nodes(kind) = NodesIn(traces, kind)
  BY DEF Nodes, NodesIn, Given, GivenIn
<1>4. DOMAIN frames = 1..Len(frames) => \A kind : visited(kind) = VisitedIn(frames, kind)
  BY DEF visited, FramesOf, VisitedIn
<1> QED
  BY <1>1, <1>2, <1>3, <1>4

LEMMA ConvertArenaKeeps ==
  ASSUME AdapterInv, convert_arena
  PROVE  AdapterInv'
<1> DEFINE n == arena + 1
           kind == PresentIn(traces)[n]
           nodes == NodesIn(traces, kind)
           roots == {i \in DOMAIN nodes : nodes[i].parent = Nil}
<1>1. pc = "arena" /\ Present[arena + 1] = kind /\ Nodes(kind) = nodes
  BY Current DEF convert_arena
<1>2. CASE Raise
  BY <1>2, RaiseKeeps
<1>3. ASSUME Distinct(nodes), NEW i \in roots, open_node(kind, nodes[i], 0, FALSE, <<>>),
             arena' = n, entries' = entries
      PROVE  AdapterInv'
  <2>1. /\ frames \in Seq(FrameRecords) /\ traces \in Traces /\ entries \in 0..MaxEntries
        /\ WellFormed(traces) /\ stack = <<>> /\ arena \in 0..(Len(PresentIn(traces)) - 1)
        /\ summary = Empty
    BY <1>1 DEF AdapterInv, PlainTypes, Progress, Adapting
  <2>2. /\ Placed(traces, frames, arena) /\ DistinctTo(traces, arena)
        /\ FinishedTo(traces, frames, arena) /\ TestLast(frames)
    BY <1>1 DEF AdapterInv, Arenas, Adapting
  <2>3. arena \in Nat /\ n \in Nat /\ n \in 1..Len(PresentIn(traces)) /\ n - 1 = arena
    <3>1. Len(PresentIn(traces)) \in Nat
      BY PresentFacts
    <3> QED
      BY <2>1, <3>1
  <2>4. kind \in Kinds /\ GivenIn(traces, kind) # {}
    BY <2>3, PresentFacts
  <2>5. /\ i \in 1..Len(nodes) /\ nodes[i].idx \in Int /\ nodes[i] \in Range(nodes)
    BY <2>1, <2>4, NodesAre
  <2> DEFINE node == nodes[i]
  <2> HIDE DEF n, kind, nodes
  <2>6. PICK content \in Contents :
          /\ frames' = Append(Linking(frames, 0), Frame(kind, node, 0, content))
          /\ stack' = Append(<<>>, [frame |-> Len(frames) + 1,
                                    reverted |-> reverted_inside(FALSE, content.success),
                                    calls |-> {}, logs |-> {}])
          /\ pc' = "convert" /\ UNCHANGED <<traces, derived_logs, summary, witness, policy>>
    BY <1>3 DEF open_node, Linking
  <2> DEFINE e == [frame |-> Len(frames) + 1, reverted |-> reverted_inside(FALSE, content.success),
                   calls |-> {}, logs |-> {}]
  <2>7. 0 \in 0..Len(frames) /\ DOMAIN frames = 1..Len(frames) /\ Len(frames) \in Nat
    BY <2>1, FrameTypes
  <2>8. /\ Extended(frames, frames', 0)
        /\ frames'[Len(frames) + 1].kind = kind /\ frames'[Len(frames) + 1].idx = node.idx
        /\ frames'[Len(frames) + 1].success = content.success
        /\ e \in StackEntries /\ e.frame = Len(frames) + 1 /\ e.calls = {} /\ e.logs = {}
        /\ e.reverted = reverted_inside(FALSE, content.success)
    <3>1. Len(frames) + 1 \in Nat /\ FALSE \in BOOLEAN
      BY <2>7
    <3> QED
      BY <2>1, <2>4, <2>5, <2>6, <2>7, <3>1, OpenedFrame, OpenedEntry
  <2> HIDE DEF e, node
  <2>9. /\ stack' \in Seq(StackEntries) /\ Pushed(stack, stack', Len(frames) + 1)
        /\ stack'[Len(stack) + 1] = e /\ Len(stack) = 0
    <3>1. stack' = Append(<<>>, e) /\ Len(<<>>) = 0
      BY <2>6 DEF e
    <3> QED
      BY <2>1, <2>8, <3>1, StackFirst
  <2>10. Inner(stack, 0)
    BY <2>9 DEF Inner
  <2>11. Placed(traces, frames, n)
    BY <2>2, <2>3, MorePlaced DEF n
  <2>12. DistinctTo(traces, n)
    <3>1. \A a \in 1..n : a \in 1..arena \/ a = n
      BY <2>3 DEF n
    <3> QED
      BY <1>3, <2>2, <3>1 DEF DistinctTo, kind, nodes
  <2>13. frames'[Len(frames) + 1].idx \notin VisitedIn(frames, kind)
    <3>1. \A f \in 1..Len(frames) : frames[f].kind # kind
      <4>1. TAKE f \in 1..Len(frames)
      <4>2. PICK a \in 1..arena : frames[f].kind = PresentIn(traces)[a]
        BY <2>2 DEF Placed
      <4>3. a \in 1..Len(PresentIn(traces)) /\ a # n
        <5>1. Len(PresentIn(traces)) \in Nat
          BY PresentFacts
        <5> QED
          BY <2>3, <5>1 DEF n
      <4> QED
        BY <2>3, <4>2, <4>3, PresentFacts DEF kind
    <3> QED
      BY <3>1 DEF VisitedIn
  <2>14. InArena(frames, stack, kind)
    <3>1. \A j \in 1..Len(stack) : FALSE
      BY <2>9
    <3> QED
      BY <3>1 DEF InArena
  <2>15. \E nd \in Range(nodes) : nd.idx = frames'[Len(frames) + 1].idx
    BY <2>5, <2>8 DEF node
  <2>16. stack'[Len(stack) + 1].reverted =
           reverted_inside(IF Len(stack) = 0 THEN FALSE ELSE stack[Len(stack)].reverted,
                           frames'[Len(frames) + 1].success)
    BY <2>8, <2>9
  <2>17. /\ arena' \in 1..Len(PresentIn(traces)) /\ Placed(traces, frames, arena')
         /\ DistinctTo(traces, arena') /\ FinishedTo(traces, frames, arena' - 1)
         /\ kind = PresentIn(traces)[arena'] /\ nodes = NodesIn(traces, PresentIn(traces)[arena'])
    BY <1>3, <2>2, <2>3, <2>11, <2>12 DEF kind, nodes
  <2> QED
    BY <1>3, <2>1, <2>2, <2>6, <2>8, <2>9, <2>10, <2>13, <2>14, <2>15, <2>16, <2>17, OpenKeeps
<1>4. \/ Raise
      \/ /\ Distinct(nodes) /\ arena' = n /\ entries' = entries
         /\ \E i \in roots : open_node(kind, nodes[i], 0, FALSE, <<>>)
  BY <1>1 DEF convert_arena, Distinct
<1> QED
  BY <1>2, <1>3, <1>4

(* The state while a node is being converted. *)
LEMMA Converting ==
  ASSUME AdapterInv, pc = "convert"
  PROVE  /\ frames \in Seq(FrameRecords) /\ DOMAIN frames = 1..Len(frames) /\ Len(frames) \in Nat
         /\ stack \in Seq(StackEntries) /\ stack # <<>> /\ Len(stack) \in Nat \ {0}
         /\ Len(stack) \in 1..Len(stack) /\ Top \in StackEntries
         /\ Top.frame \in 1..Len(frames) /\ Top.reverted \in BOOLEAN
         /\ traces \in Traces /\ WellFormed(traces) /\ summary = Empty /\ entries \in 0..MaxEntries
         /\ arena \in 1..Len(PresentIn(traces)) /\ arena \in Nat
         /\ PresentIn(traces)[arena] \in Kinds /\ GivenIn(traces, PresentIn(traces)[arena]) # {}
         /\ frames[Top.frame].kind = PresentIn(traces)[arena]
         /\ Placed(traces, frames, arena) /\ DistinctTo(traces, arena)
         /\ FinishedTo(traces, frames, arena - 1) /\ TestLast(frames)
         /\ InArena(frames, stack, PresentIn(traces)[arena])
         /\ Inner(stack, Top.frame)
<1>1. /\ frames \in Seq(FrameRecords) /\ stack \in Seq(StackEntries) /\ traces \in Traces
      /\ entries \in 0..MaxEntries /\ Path(frames, stack)
  BY DEF AdapterInv, PlainTypes, Shape
<1>2. /\ WellFormed(traces) /\ stack # <<>> /\ summary = Empty /\ arena \in 1..Len(PresentIn(traces))
  BY DEF AdapterInv, Progress, Adapting
<1>3. /\ Placed(traces, frames, arena) /\ DistinctTo(traces, arena)
      /\ FinishedTo(traces, frames, arena - 1) /\ InArena(frames, stack, PresentIn(traces)[arena])
      /\ TestLast(frames)
  BY DEF AdapterInv, Arenas, Adapting
<1>4. Len(stack) \in Nat \ {0} /\ Len(stack) \in 1..Len(stack)
  <2>1. Len(stack) \in Nat /\ Len(stack) # 0
    BY <1>1, <1>2, LenProperties, EmptySeq
  <2> QED
    BY <2>1
<1>5. Top \in StackEntries
  BY <1>1, <1>4, ElementOfSeq DEF Top
<1>6. Top.frame \in 1..Len(frames)
  BY <1>1, <1>4 DEF Path, Top
<1>7. Top.reverted \in BOOLEAN
  BY <1>5 DEF StackEntries
<1>8. arena \in Nat
  <2>1. Len(PresentIn(traces)) \in Nat
    BY PresentFacts
  <2> QED
    BY <1>2, <2>1
<1>9. frames[Top.frame].kind = PresentIn(traces)[arena]
  BY <1>3, <1>4 DEF InArena, Top
<1>10. Inner(stack, Top.frame)
  BY <1>4 DEF Inner, Top
<1>11. PresentIn(traces)[arena] \in Kinds /\ GivenIn(traces, PresentIn(traces)[arena]) # {}
  BY <1>2, PresentFacts
<1>12. DOMAIN frames = 1..Len(frames) /\ Len(frames) \in Nat
  BY <1>1, FrameTypes
<1> QED
  BY <1>1, <1>2, <1>3, <1>4, <1>5, <1>6, <1>7, <1>8, <1>9, <1>10, <1>11, <1>12

LEMMA EntryUsed ==
  ASSUME AdapterInv, NextEntry, entries' = entries - 1
  PROVE  pc = "convert" /\ entries' \in 0..MaxEntries
  BY AdapterConstants DEF AdapterInv, PlainTypes, NextEntry

LEMMA ConvertCallKeeps ==
  ASSUME AdapterInv, NEW position \in Positions, NEW idx \in Indices, convert_call(position, idx)
  PROVE  AdapterInv'
<1> DEFINE p == Top.frame
           frame == frames[p]
           kind == PresentIn(traces)[arena]
           nodes == NodesIn(traces, kind)
<1>1. pc = "convert"
  BY DEF convert_call, NextEntry
<1>2. CASE Raise
  BY <1>2, RaiseKeeps
<1>3. ASSUME position \in (0..(frame.width - 1)) \ Top.calls, idx \notin visited(frame.kind),
             NEW child \in ChildOf(frame, idx),
             open_node(frame.kind, child, p, Top.reverted,
                       Append(Below, [Top EXCEPT !.calls = @ \cup {position}])),
             entries' = entries - 1, arena' = arena
      PROVE  AdapterInv'
  <2>1. /\ frames \in Seq(FrameRecords) /\ DOMAIN frames = 1..Len(frames) /\ Len(frames) \in Nat
        /\ stack \in Seq(StackEntries) /\ stack # <<>> /\ Len(stack) \in Nat \ {0}
        /\ Top \in StackEntries /\ p \in 1..Len(frames) /\ Top.reverted \in BOOLEAN
        /\ traces \in Traces /\ WellFormed(traces) /\ summary = Empty
        /\ arena \in 1..Len(PresentIn(traces)) /\ arena \in Nat
        /\ kind \in Kinds /\ GivenIn(traces, kind) # {} /\ frame.kind = kind
        /\ Placed(traces, frames, arena) /\ DistinctTo(traces, arena)
        /\ FinishedTo(traces, frames, arena - 1) /\ InArena(frames, stack, kind)
        /\ Inner(stack, p) /\ TestLast(frames)
    BY <1>1, Converting
  <2>2. entries' \in 0..MaxEntries
    BY <1>3, EntryUsed DEF convert_call
  <2>3. Nodes(kind) = nodes /\ visited(kind) = VisitedIn(frames, kind)
    BY <2>1, Current
  <2>4. child \in Range(nodes) /\ child.idx = idx
    BY <1>3, <2>1, <2>3 DEF ChildOf
  <2>5. child.idx \in Int /\ position \in Int
    BY <2>1, <2>4, NodesAre, AdapterConstants
  <2> DEFINE reverted == Top.reverted
             top == Top
  <2>6. top = stack[Len(stack)] /\ Below = Front(stack)
    BY DEF Top, Below
  <2>7. PICK content \in Contents :
          /\ frames' = Append(Linking(frames, p), Frame(kind, child, p, content))
          /\ stack' = Calling(stack, position,
                              [frame |-> Len(frames) + 1,
                               reverted |-> reverted_inside(reverted, content.success),
                               calls |-> {}, logs |-> {}])
          /\ pc' = "convert" /\ UNCHANGED <<traces, derived_logs, summary, witness, policy>>
    BY <1>3, <2>1, <2>6 DEF open_node, Linking, Calling
  <2> DEFINE e == [frame |-> Len(frames) + 1, reverted |-> reverted_inside(reverted, content.success),
                   calls |-> {}, logs |-> {}]
  <2>8. p \in 0..Len(frames) /\ p # 0
    BY <2>1
  <2>9. position \in (0..(frames[p].width - 1)) \ top.calls
    BY <1>3
  <2>10. reverted \in BOOLEAN /\ reverted = stack[Len(stack)].reverted
    BY <2>1, <2>6
  <2> HIDE DEF p, kind, nodes, top, reverted
  <2>11. /\ Extended(frames, frames', p)
         /\ frames'[Len(frames) + 1].kind = kind /\ frames'[Len(frames) + 1].idx = child.idx
         /\ frames'[Len(frames) + 1].success = content.success
         /\ e \in StackEntries /\ e.frame = Len(frames) + 1 /\ e.calls = {} /\ e.logs = {}
         /\ e.reverted = reverted_inside(reverted, content.success)
    <3>1. frames' = Append(Linking(frames, p), Frame(kind, child, p, content))
      BY <2>7
    <3>2. frames \in Seq(FrameRecords) /\ kind \in Kinds /\ child.idx \in Int
      BY <2>1, <2>5
    <3>3. /\ Extended(frames, frames', p)
          /\ frames'[Len(frames) + 1].kind = kind /\ frames'[Len(frames) + 1].idx = child.idx
          /\ frames'[Len(frames) + 1].success = content.success
      BY <2>8, <3>1, <3>2, OpenedFrame
    <3>4. Len(frames) + 1 \in Nat
      BY <2>1
    <3>5. /\ e \in StackEntries /\ e.frame = Len(frames) + 1 /\ e.calls = {} /\ e.logs = {}
          /\ e.reverted = reverted_inside(reverted, content.success)
      BY <2>10, <3>4, OpenedEntry
    <3> QED
      BY <3>3, <3>5
  <2>12. stack' = Calling(stack, position, e)
    BY <2>6, <2>7
  <2> HIDE DEF e
  <2>13. /\ stack' \in Seq(StackEntries) /\ Pushed(stack, stack', e.frame)
         /\ stack'[Len(stack)].calls = stack[Len(stack)].calls \cup {position}
         /\ stack'[Len(stack) + 1] = e
    <3>1. stack \in Seq(StackEntries) /\ stack # <<>> /\ position \in Int
      BY <2>1, <2>5
    <3>2. e \in StackEntries /\ e.calls = {} /\ e.logs = {}
      BY <2>11
    <3>3. /\ Calling(stack, position, e) \in Seq(StackEntries)
          /\ Pushed(stack, Calling(stack, position, e), e.frame)
          /\ Calling(stack, position, e)[Len(stack)].calls = stack[Len(stack)].calls \cup {position}
          /\ Calling(stack, position, e)[Len(stack) + 1] = e
      BY <3>1, <3>2, StackPush
    <3> QED
      BY <2>12, <3>3, Zenon
  <2>14. Pushed(stack, stack', Len(frames) + 1)
    BY <2>11, <2>13
  <2>15. \E x \in (0..(frames[p].width - 1)) \ stack[Len(stack)].calls :
           stack'[Len(stack)].calls = stack[Len(stack)].calls \cup {x}
    BY <2>6, <2>9, <2>13
  <2>16. stack'[Len(stack) + 1].reverted =
           reverted_inside(IF Len(stack) = 0 THEN FALSE ELSE stack[Len(stack)].reverted,
                           frames'[Len(frames) + 1].success)
    BY <2>1, <2>10, <2>11, <2>13
  <2>17. frames'[Len(frames) + 1].idx \notin VisitedIn(frames, kind)
    BY <1>3, <2>1, <2>3, <2>4, <2>11
  <2>18. \E nd \in Range(nodes) : nd.idx = frames'[Len(frames) + 1].idx
    BY <2>4, <2>11
  <2>19. kind = PresentIn(traces)[arena'] /\ nodes = NodesIn(traces, PresentIn(traces)[arena'])
    BY <1>3 DEF kind, nodes
  <2> QED
    BY <1>3, <2>1, <2>2, <2>7, <2>11, <2>13, <2>14, <2>15, <2>16, <2>17, <2>18, <2>19, OpenKeeps
<1> QED
  BY <1>2, <1>3 DEF convert_call

LEMMA ConvertLogKeeps ==
  ASSUME AdapterInv, NEW position \in Positions, NEW event \in Events, convert_log(position, event)
  PROVE  AdapterInv'
<1> DEFINE t == Top.frame
           log == [position |-> position, event |-> event, reverted |-> Top.reverted]
<1>1. pc = "convert"
  BY DEF convert_log, NextEntry
<1>2. CASE Raise
  BY <1>2, RaiseKeeps
<1>3. CASE /\ position \in (0..(frames[t].emits - 1)) \ Top.logs
           /\ frames' = [frames EXCEPT ![t].logs = Append(@, log)]
           /\ stack' = Append(Below, [Top EXCEPT !.logs = @ \cup {position}])
           /\ derived_logs' = Append(derived_logs, <<t, position>>)
           /\ entries' = entries - 1
           /\ UNCHANGED <<traces, pc, arena, summary, witness, policy>>
  <2>1. /\ frames \in Seq(FrameRecords) /\ Len(frames) \in Nat
        /\ stack \in Seq(StackEntries) /\ stack # <<>> /\ Len(stack) \in Nat \ {0}
        /\ Top \in StackEntries /\ t \in 1..Len(frames) /\ Top.reverted \in BOOLEAN
        /\ summary = Empty
        /\ Placed(traces, frames, arena) /\ DistinctTo(traces, arena)
        /\ FinishedTo(traces, frames, arena - 1) /\ InArena(frames, stack, PresentIn(traces)[arena])
        /\ TestLast(frames)
    BY <1>1, Converting
  <2>2. entries' \in 0..MaxEntries
    BY <1>3, EntryUsed DEF convert_log
  <2>3. position \in Int /\ position \in 0..(frames[t].emits - 1) /\ position \notin Top.logs
    BY <1>3, AdapterConstants
  <2>4. log \in LogRecords /\ log.position = position /\ log.reverted = Top.reverted
    BY <2>1, <2>3 DEF LogRecords
  <2>5. Top = stack[Len(stack)] /\ Below = Front(stack) /\ t = stack[Len(stack)].frame
    BY DEF Top, Below
  <2> HIDE DEF t, log
  <2>6. Logged(frames, frames', t, log)
    BY <1>3, <2>1, <2>4, FramesLog
  <2>7. stack' \in Seq(StackEntries) /\ Noted(stack, stack', position)
    <3>1. stack' = Append(Front(stack), [stack[Len(stack)] EXCEPT !.logs = @ \cup {position}])
      BY <1>3, <2>5
    <3> QED
      BY <2>1, <2>3, <3>1, StackNote
  <2>8. /\ Nested(frames) /\ Linked(frames) /\ Path(frames, stack) /\ Consumed(frames, stack)
        /\ Effects(frames, stack)
    BY DEF AdapterInv, Shape
  <2>9. /\ frames' \in Seq(FrameRecords) /\ Len(frames') = Len(frames) /\ Len(stack') = Len(stack)
        /\ \A f \in 1..Len(frames) : /\ frames'[f].parent = frames[f].parent
                                     /\ frames'[f].children = frames[f].children
                                     /\ frames'[f].kind = frames[f].kind
                                     /\ frames'[f].idx = frames[f].idx
        /\ \A i \in 1..Len(stack) : stack'[i].frame = stack[i].frame
    BY <2>6, <2>7 DEF Logged, Noted, SameNode
  <2>10. Nested(frames') /\ Linked(frames') /\ Path(frames', stack')
    BY <2>1, <2>8, <2>9, SameShape
  <2>11. Consumed(frames', stack')
    BY <2>1, <2>3, <2>4, <2>5, <2>6, <2>7, <2>8, LogConsumed
  <2>12. Effects(frames', stack')
    BY <2>1, <2>4, <2>5, <2>6, <2>7, <2>8, LogEffects
  <2>13. Shape'
    BY <2>10, <2>11, <2>12 DEF Shape
  <2>14. PlainTypes'
    <3>1. derived_logs \in Seq(Nat \X Int) /\ <<t, position>> \in Nat \X Int
      BY <2>1, <2>3 DEF AdapterInv, PlainTypes
    <3>2. derived_logs' \in Seq(Nat \X Int)
      BY <1>3, <3>1, AppendProperties
    <3> QED
      BY <1>3, <2>2, <2>7, <2>9, <3>2 DEF AdapterInv, PlainTypes
  <2>15. Progress'
    <3>1. stack' # <<>>
      <4>1. Len(<<>>) = 0 /\ Len(stack') # 0
        BY <2>1, <2>9
      <4> QED
        BY <4>1
    <3> QED
      BY <1>1, <1>3, <3>1 DEF AdapterInv, Progress, Adapting
  <2>16. Placed(traces, frames', arena)
    BY <2>1, <2>9 DEF Placed
  <2>17. FinishedTo(traces, frames', arena - 1)
    <3>1. \A kind : VisitedIn(frames', kind) = VisitedIn(frames, kind)
      BY <2>9 DEF VisitedIn
    <3> QED
      BY <2>1, <3>1 DEF FinishedTo
  <2>18. InArena(frames', stack', PresentIn(traces)[arena])
    <3>1. \A i \in 1..Len(stack) : stack[i].frame \in 1..Len(frames)
      BY <2>8 DEF Path
    <3>2. \A i \in 1..Len(stack) : frames[stack[i].frame].kind = PresentIn(traces)[arena]
      BY <2>1 DEF InArena
    <3>3. \A i \in 1..Len(stack) : frames'[stack'[i].frame].kind = frames[stack[i].frame].kind
      BY <2>9, <3>1
    <3> QED
      BY <2>9, <3>2, <3>3 DEF InArena
  <2>19. Arenas'
    <3>1. TestLast(frames')
      BY <2>1, <2>9, SameTestLast
    <3> QED
      BY <1>1, <1>3, <2>1, <2>16, <2>17, <2>18, <3>1 DEF Arenas
  <2>20. Summed(summary, frames)'
    BY <1>3, <2>1, <2>9, EmptySummed
  <2>21. Judgement'
    BY <1>1, <1>3 DEF Judgement
  <2> QED
    BY <2>13, <2>14, <2>15, <2>19, <2>20, <2>21 DEF AdapterInv
<1> QED
  BY <1>2, <1>3 DEF convert_log

LEMMA EndNodeKeeps ==
  ASSUME AdapterInv, end_node
  PROVE  AdapterInv'
<1>1. pc = "convert"
  BY DEF end_node
<1>2. CASE Raise
  BY <1>2, RaiseKeeps
<1>3. CASE /\ require_consumed(Top) /\ ~(Len(stack) = 1 /\ ~all_visited(Present[arena]))
           /\ stack' = Below
           /\ pc' = IF Len(stack) > 1 THEN "convert"
                    ELSE IF arena < Len(Present) THEN "arena" ELSE "logs"
           /\ UNCHANGED <<traces, arena, frames, derived_logs, entries, summary, witness, policy>>
  <2>1. /\ frames \in Seq(FrameRecords) /\ Len(frames) \in Nat /\ DOMAIN frames = 1..Len(frames)
        /\ stack \in Seq(StackEntries) /\ stack # <<>> /\ Len(stack) \in Nat \ {0}
        /\ summary = Empty /\ arena \in 1..Len(PresentIn(traces)) /\ arena \in Nat
        /\ WellFormed(traces)
        /\ Placed(traces, frames, arena) /\ DistinctTo(traces, arena)
        /\ FinishedTo(traces, frames, arena - 1) /\ InArena(frames, stack, PresentIn(traces)[arena])
        /\ TestLast(frames)
    BY <1>1, Converting
  <2>2. /\ Nested(frames) /\ Linked(frames) /\ Path(frames, stack) /\ Consumed(frames, stack)
        /\ Effects(frames, stack)
    BY DEF AdapterInv, Shape
  <2>3. /\ Cardinality(stack[Len(stack)].calls) = frames[stack[Len(stack)].frame].width
        /\ Cardinality(stack[Len(stack)].logs) = frames[stack[Len(stack)].frame].emits
    BY <1>3 DEF require_consumed, Top
  <2>4. /\ Front(stack) \in Seq(StackEntries) /\ Len(Front(stack)) = Len(stack) - 1
        /\ \A i \in 1..Len(Front(stack)) : i \in 1..Len(stack) /\ Front(stack)[i] = stack[i]
        /\ Path(frames, Front(stack)) /\ Consumed(frames, Front(stack)) /\ Effects(frames, Front(stack))
    BY <2>1, <2>2, <2>3, PopShape
  <2>5. stack' = Front(stack)
    BY <1>3 DEF Below
  <2>6. Shape'
    BY <1>3, <2>2, <2>4, <2>5 DEF Shape
  <2>7. Len(PresentIn(traces)) \in Nat /\ Present = PresentIn(traces)
    BY PresentFacts, Current
  <2>8. InArena(frames, stack', PresentIn(traces)[arena])
    BY <2>1, <2>4, <2>5 DEF InArena
  <2>9. Judgement' /\ Summed(summary, frames)'
    <3>1. pc' # "accepted"
      <4>1. CASE Len(stack) > 1
        BY <1>3, <4>1
      <4>2. CASE ~(Len(stack) > 1) /\ arena < Len(Present)
        BY <1>3, <4>2
      <4>3. CASE ~(Len(stack) > 1) /\ ~(arena < Len(Present))
        BY <1>3, <4>3
      <4> QED
        BY <4>1, <4>2, <4>3
    <3> QED
      BY <1>3, <2>1, <3>1 DEF Judgement, AdapterInv
  <2>10. CASE Len(stack) > 1
    <3>1. pc' = "convert"
      BY <1>3, <2>10
    <3>2. stack' # <<>>
      <4>1. Len(<<>>) = 0 /\ Len(stack') # 0
        BY <2>1, <2>4, <2>5, <2>10
      <4> QED
        BY <4>1
    <3>3. PlainTypes'
      BY <1>3, <2>4, <2>5, <3>1 DEF AdapterInv, PlainTypes
    <3>4. Progress'
      BY <1>3, <2>1, <3>1, <3>2 DEF Progress, Adapting
    <3>5. Arenas'
      BY <1>3, <2>1, <2>8, <3>1 DEF Arenas
    <3> QED
      BY <2>6, <2>9, <3>3, <3>4, <3>5 DEF AdapterInv
  <2>11. CASE ~(Len(stack) > 1)
    <3>1. Len(stack) = 1 /\ stack' = <<>>
      <4>1. Len(stack) = 1
        <5>1. \A m \in Nat \ {0} : ~(m > 1) => m = 1
          OBVIOUS
        <5> QED
          BY <2>1, <2>11, <5>1
      <4>2. Len(Front(stack)) = 0
        BY <2>4, <4>1
      <4> QED
        BY <2>4, <2>5, <4>1, <4>2, EmptySeq
    <3>2. FinishedTo(traces, frames, arena)
      <4>1. Cardinality(VisitedIn(frames, PresentIn(traces)[arena]))
              = Len(NodesIn(traces, PresentIn(traces)[arena]))
        BY <1>3, <2>1, <2>7, <3>1, Current DEF all_visited
      <4>2. \A a \in 1..arena : a \in 1..(arena - 1) \/ a = arena
        BY <2>1
      <4> QED
        BY <2>1, <4>1, <4>2 DEF FinishedTo
    <3>3. \/ pc' = "arena" /\ arena \in 0..(Len(PresentIn(traces)) - 1)
          \/ pc' = "logs" /\ arena = Len(PresentIn(traces))
      <4>1. CASE arena < Len(Present)
        <5>1. arena \in 0..(Len(PresentIn(traces)) - 1)
          BY <2>1, <2>7, <4>1
        <5> QED
          BY <1>3, <2>11, <4>1, <5>1
      <4>2. CASE ~(arena < Len(Present))
        <5>1. arena = Len(PresentIn(traces))
          BY <2>1, <2>7, <4>2
        <5> QED
          BY <1>3, <2>11, <4>2, <5>1
      <4> QED
        BY <4>1, <4>2
    <3>4. PlainTypes'
      BY <1>3, <2>4, <2>5, <3>3 DEF AdapterInv, PlainTypes
    <3>5. Progress'
      BY <1>3, <2>1, <3>1, <3>3 DEF Progress, Adapting
    <3>6. Arenas'
      BY <1>3, <2>1, <2>8, <3>2, <3>3 DEF Arenas
    <3> QED
      BY <2>6, <2>9, <3>4, <3>5, <3>6 DEF AdapterInv
  <2> QED
    BY <2>10, <2>11
<1> QED
  BY <1>2, <1>3 DEF end_node

------------------------------------------------------------------------------
(***************************************************************************)
(* One turn of parse_trace's loop.                                         *)
(***************************************************************************)
LEMMA CallTypes ==
  ASSUME NEW call \in CheatCalls, IsClock(call)
  PROVE  call.name \in Clocks /\ call.value \in Nat
  BY AdapterConstants DEF CheatCalls, IsClock

LEMMA RangeOfConcat ==
  ASSUME NEW S, NEW s \in Seq(S), NEW t \in Seq(S)
  PROVE  s \o t \in Seq(S) /\ Range(s \o t) = Range(s) \cup Range(t)
<1> DEFINE u == s \o t
           m == Len(s)
           n == Len(t)
<1>1. m \in Nat /\ n \in Nat /\ DOMAIN s = 1..m /\ DOMAIN t = 1..n
  BY LenProperties
<1>2. u \in Seq(S) /\ Len(u) = m + n /\ \A i \in 1..(m + n) : u[i] = IF i <= m THEN s[i] ELSE t[i - m]
  BY ConcatProperties
<1>3. DOMAIN u = 1..Len(u)
  BY <1>2, LenProperties
<1> HIDE DEF u, m, n
<1>4. DOMAIN u = 1..(m + n)
  BY <1>2, <1>3
<1>5. ASSUME NEW i \in 1..(m + n) PROVE u[i] \in Range(s) \cup Range(t)
  <2>1. CASE i <= m
    <3>1. i \in 1..m
      BY <1>1, <2>1
    <3> QED
      BY <1>1, <1>2, <2>1, <3>1 DEF Range
  <2>2. CASE ~(i <= m)
    <3>1. i - m \in 1..n
      BY <1>1, <2>2
    <3> QED
      BY <1>1, <1>2, <2>2, <3>1 DEF Range
  <2> QED
    BY <2>1, <2>2
<1>6. ASSUME NEW i \in 1..m PROVE s[i] \in Range(u)
  <2>1. i \in 1..(m + n) /\ i <= m
    BY <1>1
  <2> QED
    BY <1>2, <1>4, <2>1 DEF Range
<1>7. ASSUME NEW i \in 1..n PROVE t[i] \in Range(u)
  <2>1. m + i \in 1..(m + n) /\ ~(m + i <= m) /\ (m + i) - m = i
    BY <1>1
  <2>2. u[m + i] = t[i]
    BY <1>2, <2>1
  <2> QED
    BY <1>4, <2>1, <2>2 DEF Range
<1>8. Range(u) = Range(s) \cup Range(t)
  <2>1. \A x \in Range(u) : x \in Range(s) \cup Range(t)
    BY <1>4, <1>5 DEF Range
  <2>2. \A x \in Range(s) : x \in Range(u)
    BY <1>1, <1>6 DEF Range
  <2>3. \A x \in Range(t) : x \in Range(u)
    BY <1>1, <1>7 DEF Range
  <2> QED
    BY <2>1, <2>2, <2>3
<1> QED
  BY <1>2, <1>8 DEF u

(* The events of a frame, once its success flag is lost. *)
LEMMA EventsCounted ==
  ASSUME NEW fs \in Seq(FrameRecords), NEW k \in 1..Len(fs)
  PROVE  LET logs == Counted(normalize(fs[k]))
             new  == [j \in DOMAIN logs |-> <<k, logs[j].position>>]
         IN  new \in Seq(Nat \X Int) /\ Range(new) = EventsOf(fs, k)
<1> DEFINE a == fs[k]
           b == normalize(a)
           at == {j \in DOMAIN b.logs : b.logs[j].event # "other" /\ ~b.logs[j].reverted /\ b.success}
           logs == Counted(b)
           new == [j \in DOMAIN logs |-> <<k, logs[j].position>>]
<1>1. a \in FrameRecords /\ a.logs \in Seq(LogRecords) /\ k \in Nat
  BY FrameTypes
<1>2. b.logs = a.logs /\ b.success = TRUE
  BY <1>1 DEF normalize, FrameRecords
<1>3. logs = SelectAt(b.logs, at)
  BY DEF Counted
<1> HIDE DEF b
<1>4. at = Countable(a)
  <2>1. DOMAIN a.logs = 1..Len(a.logs)
    BY <1>1, LenProperties
  <2> QED
    BY <1>2, <2>1 DEF Countable
<1> HIDE DEF at, logs
<1>5. logs = SelectAt(a.logs, at)
  BY <1>2, <1>3
<1>6. logs \in Seq(LogRecords) /\ \E from : Comes(logs, Len(a.logs), a.logs, at, from)
  BY <1>1, <1>5, Selected
<1>7. PICK from : Comes(logs, Len(a.logs), a.logs, at, from)
  BY <1>6
<1>8. Len(logs) \in Nat /\ DOMAIN logs = 1..Len(logs) /\ \A j \in 1..Len(logs) : logs[j] \in LogRecords
  BY <1>6, LenProperties, ElementOfSeq
<1>9. new \in Seq(Nat \X Int)
  <2>1. \A j \in 1..Len(logs) : <<k, logs[j].position>> \in Nat \X Int
    BY <1>1, <1>8 DEF LogRecords
  <2>2. new \in [1..Len(logs) -> Nat \X Int]
    BY <1>8, <2>1
  <2> HIDE DEF new
  <2> QED
    BY <1>8, <2>2, AsLong
<1>10. Range(new) = {<<k, logs[j].position>> : j \in 1..Len(logs)}
  BY <1>8 DEF Range
<1>11. /\ \A j \in 1..Len(logs) : from[j] \in at /\ logs[j] = a.logs[from[j]]
       /\ \A x \in at \cap 1..Len(a.logs) : \E j \in 1..Len(logs) : from[j] = x
  BY <1>7 DEF Comes
<1>12. at \subseteq 1..Len(a.logs)
  BY <1>4 DEF Countable
<1>13. EventsOf(fs, k) = {<<k, a.logs[x].position>> : x \in at}
  BY <1>4 DEF EventsOf
<1> HIDE DEF new, a
<1>14. Range(new) = EventsOf(fs, k)
  <2>1. \A j \in 1..Len(logs) : \E x \in at : logs[j] = a.logs[x]
    BY <1>11
  <2>2. \A x \in at : \E j \in 1..Len(logs) : logs[j] = a.logs[x]
    BY <1>11, <1>12
  <2>3. \A y \in Range(new) : y \in EventsOf(fs, k)
    BY <1>10, <1>13, <2>1
  <2>4. \A y \in EventsOf(fs, k) : y \in Range(new)
    BY <1>10, <1>13, <2>2
  <2> QED
    BY <2>3, <2>4
<1> QED
  BY <1>9, <1>14 DEF new, logs, b, a

LEMMA EventsNext ==
  ASSUME NEW fs \in Seq(FrameRecords), NEW s, NEW s2, EventsListed(s, fs), s.count \in Nat,
         s2.count = s.count + 1, s.events \in Seq(Nat \X Int), NEW new \in Seq(Nat \X Int),
         s2.events = s.events \o new, Range(new) = EventsOf(fs, s.count + 1)
  PROVE  EventsListed(s2, fs) /\ s2.events \in Seq(Nat \X Int)
<1> DEFINE n == s.count
<1>1. n \in Nat /\ s2.count = n + 1
  OBVIOUS
<1>2. s.events \o new \in Seq(Nat \X Int) /\ Range(s.events \o new) = Range(s.events) \cup Range(new)
  BY RangeOfConcat
<1>3. Range(s.events) = UNION {EventsOf(fs, f) : f \in 1..n}
  BY DEF EventsListed
<1> HIDE DEF n
<1>4. \A f \in 1..(n + 1) : f \in 1..n \/ f = n + 1
  BY <1>1
<1>5. n + 1 \in 1..(n + 1) /\ \A f \in 1..n : f \in 1..(n + 1)
  BY <1>1
<1> DEFINE before == UNION {EventsOf(fs, f) : f \in 1..n}
           all == UNION {EventsOf(fs, f) : f \in 1..(n + 1)}
<1>6. \A x \in all : x \in before \/ x \in EventsOf(fs, n + 1)
  BY <1>4
<1>7. \A x \in before : x \in all
  BY <1>5
<1>8. \A x \in EventsOf(fs, n + 1) : x \in all
  BY <1>5
<1>9. s2.events = s.events \o new /\ Range(new) = EventsOf(fs, n + 1)
  BY DEF n
<1>10. all = UNION {EventsOf(fs, f) : f \in 1..s2.count}
  BY <1>1
<1>11. before = Range(s.events)
  BY <1>3
<1> HIDE DEF before, all
<1>12. all = before \cup EventsOf(fs, n + 1)
  BY <1>6, <1>7, <1>8
<1>13. Range(s2.events) = all
  BY <1>2, <1>9, <1>11, <1>12
<1> QED
  BY <1>2, <1>9, <1>10, <1>13 DEF EventsListed

LEMMA CheatsNext ==
  ASSUME NEW fs \in Seq(FrameRecords), NEW s \in Summaries, NEW s2, CheatsListed(s, fs),
         s.count < Len(fs), s2.count = s.count + 1,
         LET frame == fs[s.count + 1]
         IN  s2.cheatcodes = s.cheatcodes \o
               (IF frame.cheatcode = Nil THEN <<>>
                ELSE <<[call |-> frame.cheatcode, phase |-> PHASES(frame.kind)]>>)
  PROVE  CheatsListed(s2, fs) /\ s2.cheatcodes \in Seq([call : CheatCalls, phase : {"setup", "witness"}])
<1> DEFINE n == s.count
           k == n + 1
           made == [call |-> fs[k].cheatcode, phase |-> PHASES(fs[k].kind)]
           S == [call : CheatCalls, phase : {"setup", "witness"}]
           old == s.cheatcodes
           all == s2.cheatcodes
<1>1. n \in Nat /\ Len(fs) \in Nat /\ k \in 1..Len(fs) /\ old \in Seq(S)
  <2>1. n \in Nat /\ Len(fs) \in Nat /\ n < Len(fs) /\ old \in Seq(S)
    BY FrameTypes DEF Summaries
  <2> QED
    BY <2>1
<1>2. made \in S
  <2>1. fs[k].cheatcode \in CheatCalls
    BY <1>1, FrameTypes DEF FrameRecords
  <2>2. PHASES(fs[k].kind) \in {"setup", "witness"}
    BY DEF PHASES
  <2> QED
    BY <2>1, <2>2
<1>3. all = old \o (IF fs[k].cheatcode = Nil THEN <<>> ELSE <<made>>)
  OBVIOUS
<1>4. /\ \A f \in 1..n : fs[f].cheatcode # Nil =>
           \E j \in 1..Len(old) : old[j] = [call |-> fs[f].cheatcode, phase |-> PHASES(fs[f].kind)]
  BY DEF CheatsListed
<1> HIDE DEF n, S, old, all, made
<1>5. Len(old) \in Nat
  BY <1>1, LenProperties
<1>6. /\ all \in Seq(S) /\ Len(all) \in Nat /\ Len(old) <= Len(all)
      /\ \A j \in 1..Len(old) : all[j] = old[j]
      /\ fs[k].cheatcode # Nil => Len(all) = Len(old) + 1 /\ all[Len(old) + 1] = made
  <2>1. CASE fs[k].cheatcode = Nil
    <3>1. all = old
      <4>1. all = old \o <<>>
        BY <1>3, <2>1
      <4> QED
        BY <1>1, <4>1, ConcatEmptySeq
    <3> QED
      BY <1>1, <1>5, <2>1, <3>1
  <2>2. CASE fs[k].cheatcode # Nil
    <3> DEFINE one == <<made>>
    <3>1. one \in Seq(S) /\ Len(one) = 1 /\ one[1] = made
      BY <1>2
    <3>2. all = old \o one
      BY <1>3, <2>2
    <3> HIDE DEF one
    <3>3. /\ old \o one \in Seq(S) /\ Len(old \o one) = Len(old) + Len(one)
          /\ \A i \in 1..(Len(old) + Len(one)) :
               (old \o one)[i] = IF i <= Len(old) THEN old[i] ELSE one[i - Len(old)]
      BY <1>1, <3>1, ConcatProperties
    <3>4. /\ Len(old) + 1 \in 1..(Len(old) + 1) /\ ~(Len(old) + 1 <= Len(old))
          /\ (Len(old) + 1) - Len(old) = 1 /\ Len(old) <= Len(old) + 1 /\ Len(old) + 1 \in Nat
          /\ \A j \in 1..Len(old) : j \in 1..(Len(old) + 1) /\ j <= Len(old)
      BY <1>5
    <3> QED
      BY <3>1, <3>2, <3>3, <3>4
  <2> QED
    BY <2>1, <2>2
<1>7. ASSUME NEW f \in 1..k, fs[f].cheatcode # Nil
      PROVE  \E j \in 1..Len(all) : all[j] = [call |-> fs[f].cheatcode, phase |-> PHASES(fs[f].kind)]
  <2>1. CASE f = k
    <3>1. Len(old) + 1 \in 1..Len(all) /\ all[Len(old) + 1] = made
      <4>1. Len(all) = Len(old) + 1 /\ all[Len(old) + 1] = made
        BY <1>6, <1>7, <2>1
      <4>2. \A m \in Nat : m + 1 \in 1..(m + 1)
        OBVIOUS
      <4> QED
        BY <1>5, <4>1, <4>2
    <3> QED
      BY <2>1, <3>1 DEF made
  <2>2. CASE f # k
    <3>1. f \in 1..n
      BY <1>1, <2>2
    <3>2. PICK j \in 1..Len(old) : old[j] = [call |-> fs[f].cheatcode, phase |-> PHASES(fs[f].kind)]
      BY <1>4, <1>7, <3>1
    <3>3. j \in 1..Len(all) /\ all[j] = old[j]
      <4>1. \A x, y \in Nat : x <= y => \A i \in 1..x : i \in 1..y
        OBVIOUS
      <4> QED
        BY <1>5, <1>6, <4>1
    <3> QED
      BY <3>2, <3>3
  <2> QED
    BY <2>1, <2>2
<1> QED
  BY <1>6, <1>7 DEF CheatsListed, all, n, S

(* A frame that makes this call sets the clocks of s to those of s2. *)
Ticks(s, s2, call) ==
  /\ IsClock(call) =>
       /\ ~(call.value < s.now[call.name])
       /\ s2.now = [s.now EXCEPT ![call.name] = call.value]
       /\ s2.advance = [s.advance EXCEPT ![call.name] = @ + (call.value - s.now[call.name])]
  /\ ~IsClock(call) => s2.now = s.now /\ s2.advance = s.advance

(* Neither clock runs backward, and what they advance adds up. *)
LEMMA ClocksNext ==
  ASSUME NEW fs \in Seq(FrameRecords), NEW s \in Summaries, NEW s2, Telescoped(s), ClocksOrdered(s, fs),
         s.count < Len(fs), s2.count = s.count + 1,
         Ticks(s, s2, fs[s.count + 1].cheatcode)
  PROVE  /\ s2.now \in [Clocks -> Int] /\ s2.advance \in [Clocks -> Int]
         /\ Telescoped(s2) /\ ClocksOrdered(s2, fs)
<1> DEFINE n == s.count
           k == n + 1
           call == fs[k].cheatcode
<1>1. n \in Nat /\ k \in 1..Len(fs)
  <2>1. n \in Nat /\ Len(fs) \in Nat /\ n < Len(fs)
    BY FrameTypes DEF Summaries
  <2> QED
    BY <2>1
<1>2. call \in CheatCalls /\ \A f \in 1..Len(fs) : fs[f].cheatcode \in CheatCalls
  BY <1>1, FrameTypes DEF FrameRecords
<1>3. /\ s.now \in [Clocks -> Int] /\ s.advance \in [Clocks -> Int]
      /\ \A c \in Clocks : s.now[c] \in Int /\ s.advance[c] \in Int /\ initial[c] \in Nat
  BY AdapterConstants DEF Summaries
<1>4. \A c \in Clocks : s.now[c] >= initial[c] /\ s.advance[c] = s.now[c] - initial[c]
  BY DEF Telescoped
<1>5. /\ IsClock(call) => /\ ~(call.value < s.now[call.name])
                          /\ s2.now = [s.now EXCEPT ![call.name] = call.value]
                          /\ s2.advance = [s.advance EXCEPT ![call.name] = @ + (call.value - s.now[call.name])]
      /\ ~IsClock(call) => s2.now = s.now /\ s2.advance = s.advance
  BY DEF Ticks
<1>6. \A f \in 1..n : IsClock(fs[f].cheatcode) =>
        /\ initial[fs[f].cheatcode.name] <= fs[f].cheatcode.value
        /\ fs[f].cheatcode.value <= s.now[fs[f].cheatcode.name]
        /\ \A g \in 1..(f - 1) :
             IsClock(fs[g].cheatcode) /\ fs[g].cheatcode.name = fs[f].cheatcode.name =>
               fs[g].cheatcode.value <= fs[f].cheatcode.value
  BY DEF ClocksOrdered
<1> HIDE DEF call, n
<1>7. IsClock(call) => call.name \in Clocks /\ call.value \in Nat
  BY <1>2, CallTypes
(* The new times, by clock. *)
<1>8. /\ s2.now \in [Clocks -> Int] /\ s2.advance \in [Clocks -> Int]
      /\ \A c \in Clocks : s2.now[c] = IF IsClock(call) /\ call.name = c THEN call.value ELSE s.now[c]
      /\ \A c \in Clocks : s2.advance[c] = IF IsClock(call) /\ call.name = c
                                           THEN s.advance[c] + (call.value - s.now[c]) ELSE s.advance[c]
  <2>1. CASE ~IsClock(call)
    BY <1>3, <1>5, <2>1
  <2>2. CASE IsClock(call)
    <3> DEFINE c0 == call.name
               v == call.value
    <3>1. c0 \in Clocks /\ v \in Nat /\ s2.now = [s.now EXCEPT ![c0] = v]
          /\ s2.advance = [s.advance EXCEPT ![c0] = @ + (v - s.now[c0])]
      BY <1>5, <1>7, <2>2
    <3> HIDE DEF c0, v
    <3>2. s.advance[c0] + (v - s.now[c0]) \in Int /\ v \in Int
      BY <1>3, <3>1
    <3>3. s2.now \in [Clocks -> Int] /\ s2.advance \in [Clocks -> Int]
      BY <1>3, <3>1, <3>2
    <3>4. \A c \in Clocks : s2.now[c] = IF c0 = c THEN v ELSE s.now[c]
      BY <1>3, <3>1
    <3>5. \A c \in Clocks : s2.advance[c] = IF c0 = c THEN s.advance[c] + (v - s.now[c]) ELSE s.advance[c]
      BY <1>3, <3>1
    <3> QED
      BY <2>2, <3>3, <3>4, <3>5 DEF c0, v
  <2> QED
    BY <2>1, <2>2
<1>9. ASSUME NEW c \in Clocks
      PROVE  s2.now[c] >= initial[c] /\ s2.advance[c] = s2.now[c] - initial[c] /\ s.now[c] <= s2.now[c]
  <2>1. CASE IsClock(call) /\ call.name = c
    <3>1. call.value \in Nat /\ ~(call.value < s.now[c]) /\ s2.now[c] = call.value
          /\ s2.advance[c] = s.advance[c] + (call.value - s.now[c])
      BY <1>5, <1>7, <1>8, <2>1
    <3>2. \A i, x, v \in Int : x >= i /\ ~(v < x) => v >= i /\ (x - i) + (v - x) = v - i /\ x <= v
      OBVIOUS
    <3>3. /\ s.now[c] \in Int /\ initial[c] \in Int /\ s.now[c] >= initial[c]
          /\ s.advance[c] = s.now[c] - initial[c] /\ call.value \in Int
      BY <1>3, <1>4, <3>1
    <3> QED
      BY <3>1, <3>2, <3>3
  <2>2. CASE ~(IsClock(call) /\ call.name = c)
    BY <1>3, <1>4, <1>8, <2>2
  <2> QED
    BY <2>1, <2>2
<1>10. Telescoped(s2)
  BY <1>9 DEF Telescoped
<1>11. ASSUME NEW f \in 1..k, IsClock(fs[f].cheatcode)
       PROVE  /\ initial[fs[f].cheatcode.name] <= fs[f].cheatcode.value
              /\ fs[f].cheatcode.value <= s2.now[fs[f].cheatcode.name]
              /\ \A g \in 1..(f - 1) :
                   IsClock(fs[g].cheatcode) /\ fs[g].cheatcode.name = fs[f].cheatcode.name =>
                     fs[g].cheatcode.value <= fs[f].cheatcode.value
  <2>1. CASE f = k
    <3> DEFINE c == call.name
               v == call.value
    <3>1. fs[f].cheatcode = call /\ IsClock(call)
      BY <1>11, <2>1 DEF call
    <3>2. c \in Clocks /\ v \in Nat /\ s2.now[c] = v /\ ~(v < s.now[c])
      BY <1>5, <1>7, <1>8, <3>1
    <3>3. s.now[c] \in Int /\ initial[c] \in Nat /\ s.now[c] >= initial[c] /\ s.now[c] <= v
      BY <1>3, <1>4, <3>2
    <3>4. initial[c] <= v /\ v <= s2.now[c]
      <4>1. \A i, x, y \in Int : x >= i /\ x <= y => i <= y
        OBVIOUS
      <4>2. v \in Int /\ initial[c] \in Int
        BY <3>2, <3>3
      <4> QED
        BY <3>2, <3>3, <4>1, <4>2
    <3>5. ASSUME NEW g \in 1..(f - 1), IsClock(fs[g].cheatcode), fs[g].cheatcode.name = c
          PROVE  fs[g].cheatcode.value <= v
      <4>1. g \in 1..n /\ g \in 1..Len(fs)
        <5>1. Len(fs) \in Nat
          BY FrameTypes
        <5> QED
          BY <1>1, <2>1, <5>1
      <4>2. fs[g].cheatcode.value <= s.now[c]
        BY <1>6, <3>5, <4>1
      <4>3. fs[g].cheatcode.value \in Nat
        BY <1>2, <3>5, <4>1, CallTypes
      <4>4. \A x, y, z \in Int : x <= y /\ y <= z => x <= z
        OBVIOUS
      <4>5. fs[g].cheatcode.value \in Int /\ v \in Int
        BY <3>2, <4>3
      <4> QED
        BY <3>3, <4>2, <4>4, <4>5
    <3> QED
      BY <3>1, <3>4, <3>5
  <2>2. CASE f # k
    <3>1. f \in 1..n /\ f \in 1..Len(fs)
      <4>1. Len(fs) \in Nat
        BY FrameTypes
      <4> QED
        BY <1>1, <2>2, <4>1
    <3> DEFINE c == fs[f].cheatcode.name
               v == fs[f].cheatcode.value
    <3>2. c \in Clocks /\ v \in Nat
      BY <1>2, <1>11, <3>1, CallTypes
    <3>3. v <= s.now[c] /\ s.now[c] <= s2.now[c] /\ s.now[c] \in Int /\ s2.now[c] \in Int
      BY <1>3, <1>6, <1>8, <1>9, <1>11, <3>1, <3>2
    <3>4. v <= s2.now[c]
      <4>1. \A x, y, z \in Int : x <= y /\ y <= z => x <= z
        OBVIOUS
      <4>2. v \in Int
        BY <3>2
      <4> QED
        BY <3>3, <4>1, <4>2
    <3> QED
      BY <1>6, <1>11, <3>1, <3>4
  <2> QED
    BY <2>1, <2>2
<1>12. ClocksOrdered(s2, fs)
  <2>1. s2.count = k
    BY DEF n
  <2> HIDE DEF k
  <2> QED
    BY <1>11, <2>1 DEF ClocksOrdered
<1> QED
  BY <1>8, <1>10, <1>12

LEMMA ParseFrameKeeps ==
  ASSUME AdapterInv, parse_frame
  PROVE  AdapterInv'
<1> DEFINE i     == flatten_records[summary.count + 1]
           frame == normalize(frames[i])
           call  == frame.cheatcode
           time  == IF IsClock(call) THEN advanced(summary.now, summary.advance, call.name, call.value)
                    ELSE [now |-> summary.now, advance |-> summary.advance]
           logs  == Counted(frame)
           made  == IF call = Nil THEN <<>> ELSE <<[call |-> call, phase |-> PHASES(frame.kind)]>>
           new   == [j \in DOMAIN logs |-> <<i, logs[j].position>>]
<1>1. /\ pc = "parse" /\ summary.count < Len(frames)
      /\ IF IsClock(call) /\ call.value < summary.now[call.name]
         THEN Raise
         ELSE /\ summary' = [count |-> summary.count + 1, now |-> time.now, advance |-> time.advance,
                             cheatcodes |-> summary.cheatcodes \o made, events |-> summary.events \o new]
              /\ UNCHANGED <<traces, pc, arena, frames, stack, derived_logs, entries, witness, policy>>
  BY Zenon DEF parse_frame
<1>2. CASE Raise
  BY <1>2, RaiseKeeps
<1>3. CASE /\ ~(IsClock(call) /\ call.value < summary.now[call.name])
           /\ summary' = [count |-> summary.count + 1, now |-> time.now, advance |-> time.advance,
                          cheatcodes |-> summary.cheatcodes \o made, events |-> summary.events \o new]
           /\ UNCHANGED <<traces, pc, arena, frames, stack, derived_logs, entries, witness, policy>>
  <2> DEFINE k == summary.count + 1
             fs == frames
  <2>1. /\ frames \in Seq(FrameRecords) /\ Nested(frames) /\ Linked(frames)
        /\ summary \in Summaries /\ summary.count \in Nat /\ summary.events \in Seq(Nat \X Int)
        /\ CheatsListed(summary, frames) /\ Telescoped(summary) /\ ClocksOrdered(summary, frames)
        /\ EventsListed(summary, frames)
    BY DEF AdapterInv, PlainTypes, Shape, Summed, Summaries
  <2>2. Len(frames) \in Nat /\ k \in 1..Len(frames)
    <3>1. Len(frames) \in Nat
      BY <2>1, FrameTypes
    <3>2. summary.count \in Nat /\ summary.count < Len(frames)
      BY <1>1, <2>1, Zenon
    <3>3. \A x, y \in Nat : x < y => x + 1 \in 1..y
      OBVIOUS
    <3> QED
      BY <3>1, <3>2, <3>3
  <2>3. i = k
    BY <2>1, <2>2, FlattenedInOrder
  <2>4. frame.cheatcode = frames[k].cheatcode /\ frame.kind = frames[k].kind
    <3>1. frames[k] \in FrameRecords
      BY <2>1, <2>2, FrameTypes
    <3> QED
      BY <2>3, <3>1 DEF normalize, FrameRecords
  <2>5. new \in Seq(Nat \X Int) /\ Range(new) = EventsOf(frames, k)
    <3> DEFINE those == Counted(normalize(frames[k]))
    <3>1. [j \in DOMAIN those |-> <<k, those[j].position>>] = new
      BY <2>3
    <3> HIDE DEF k, new
    <3>2. LET logs2 == Counted(normalize(frames[k]))
              new2  == [j \in DOMAIN logs2 |-> <<k, logs2[j].position>>]
          IN  new2 \in Seq(Nat \X Int) /\ Range(new2) = EventsOf(frames, k)
      BY <2>1, <2>2, EventsCounted
    <3> HIDE DEF those
    <3> QED
      BY <3>1, <3>2 DEF those
  <2>6. /\ summary'.count = summary.count + 1 /\ summary'.now = time.now
        /\ summary'.advance = time.advance /\ summary'.cheatcodes = summary.cheatcodes \o made
        /\ summary'.events = summary.events \o new
        /\ summary' = [count |-> summary'.count, now |-> summary'.now, advance |-> summary'.advance,
                       cheatcodes |-> summary'.cheatcodes, events |-> summary'.events]
    <3> HIDE DEF time, made, new
    <3> QED
      BY <1>3
  <2>7. /\ IsClock(call) =>
             /\ time.now = [summary.now EXCEPT ![call.name] = call.value]
             /\ time.advance = [summary.advance EXCEPT ![call.name] = @ + (call.value - summary.now[call.name])]
        /\ ~IsClock(call) => time.now = summary.now /\ time.advance = summary.advance
    <3> HIDE DEF call
    <3> QED
      BY DEF advanced
  <2>8. call = frames[k].cheatcode /\ frame.kind = frames[k].kind
    BY <2>4
  <2> HIDE DEF time, new, call, frame
  <2>9. EventsListed(summary', frames) /\ summary'.events \in Seq(Nat \X Int)
    BY <2>1, <2>5, <2>6, EventsNext
  <2>10. /\ CheatsListed(summary', frames)
         /\ summary'.cheatcodes \in Seq([call : CheatCalls, phase : {"setup", "witness"}])
    <3>1. summary'.cheatcodes = summary.cheatcodes \o
               (IF frames[k].cheatcode = Nil THEN <<>>
                ELSE <<[call |-> frames[k].cheatcode, phase |-> PHASES(frames[k].kind)]>>)
      BY <2>6, <2>8
    <3> QED
      BY <1>1, <2>1, <2>6, <3>1, CheatsNext
  <2>11. /\ summary'.now \in [Clocks -> Int] /\ summary'.advance \in [Clocks -> Int]
         /\ Telescoped(summary') /\ ClocksOrdered(summary', frames)
    <3>1. Ticks(summary, summary', frames[k].cheatcode)
      <4>1. Ticks(summary, summary', call)
        BY <1>3, <2>6, <2>7, Zenon DEF Ticks
      <4> QED
        BY <2>8, <4>1
    <3> QED
      BY <1>1, <2>1, <2>6, <3>1, ClocksNext
  <2>12. Summed(summary', frames')
    <3>1. summary'.count \in Nat /\ summary'.count <= Len(frames)
      BY <2>1, <2>2, <2>6
    <3> DEFINE s == summary'
    <3>2. s \in Summaries
      <4>1. /\ s = [count |-> s.count, now |-> s.now, advance |-> s.advance,
                    cheatcodes |-> s.cheatcodes, events |-> s.events]
            /\ s.count \in Nat /\ s.now \in [Clocks -> Int] /\ s.advance \in [Clocks -> Int]
            /\ s.cheatcodes \in Seq([call : CheatCalls, phase : {"setup", "witness"}])
            /\ s.events \in Seq(Nat \X Int)
        BY <2>6, <2>9, <2>10, <2>11, <3>1
      <4> HIDE DEF s
      <4> QED
        BY <4>1 DEF Summaries
    <3>3. frames' = frames
      BY <1>3
    <3> QED
      BY <2>9, <2>10, <2>11, <3>1, <3>2, <3>3 DEF Summed
  <2>13. /\ UNCHANGED <<traces, pc, arena, frames, stack, derived_logs, entries, witness, policy>>
         /\ pc = "parse"
    BY <1>1, <1>3
  <2>14. PlainTypes' /\ Shape' /\ Arenas'
    BY <2>13 DEF AdapterInv, PlainTypes, Shape, Arenas
  <2>15. Progress'
    BY <2>13 DEF AdapterInv, Progress
  <2>16. Judgement'
    BY <2>13 DEF Judgement
  <2> QED
    BY <2>12, <2>14, <2>15, <2>16 DEF AdapterInv
<1> HIDE DEF i, frame, call, time, logs, made, new
<1> QED
  BY <1>1, <1>2, <1>3

------------------------------------------------------------------------------
(***************************************************************************)
(* The invariant holds.                                                    *)
(***************************************************************************)
LEMMA InitKeeps ==
  ASSUME AdapterInit
  PROVE  AdapterInv
<1>1. /\ traces \in Traces /\ pc = "test" /\ arena = 0 /\ frames = <<>> /\ stack = <<>>
      /\ derived_logs = <<>> /\ entries = MaxEntries /\ summary = Empty /\ witness = Nil
  BY DEF AdapterInit
<1>2. PlainTypes
  <2>1. MaxEntries \in 0..MaxEntries
    BY AdapterConstants
  <2>2. <<>> \in Seq(Nat \X Int)
    OBVIOUS
  <2> QED
    BY <1>1, <2>1, <2>2, EmptyShape DEF PlainTypes
<1>3. Progress /\ Arenas /\ Judgement
  BY <1>1 DEF Progress, Arenas, Judgement, Adapting
<1>4. Shape /\ Summed(summary, frames)
  BY <1>1, EmptyShape, EmptySummed DEF Shape
<1> QED
  BY <1>2, <1>3, <1>4 DEF AdapterInv

LEMMA NextKeeps ==
  ASSUME AdapterInv, [AdapterNext]_adapterVars
  PROVE  AdapterInv'
<1>1. CASE select_test
  BY <1>1, SelectTestKeeps
<1>2. CASE select_arenas
  BY <1>2, SelectArenasKeeps
<1>3. CASE convert_arena
  BY <1>3, ConvertArenaKeeps
<1>4. CASE skip_step
  BY <1>4, SkipStepKeeps
<1>5. CASE end_node
  BY <1>5, EndNodeKeeps
<1>6. CASE malformed
  BY <1>6, MalformedKeeps
<1>7. CASE check_logs
  BY <1>7, CheckLogsKeeps
<1>8. ASSUME NEW position \in Positions, NEW idx \in Indices, convert_call(position, idx)
      PROVE  AdapterInv'
  BY <1>8, ConvertCallKeeps
<1>9. ASSUME NEW position \in Positions, NEW event \in Events, convert_log(position, event)
      PROVE  AdapterInv'
  BY <1>9, ConvertLogKeeps
<1>10. CASE parse_frame
  BY <1>10, ParseFrameKeeps
<1>11. CASE parse_done
  BY <1>11, ParseDoneKeeps
<1>12. CASE enforce
  BY <1>12, EnforceKeeps
<1>13. CASE stop \/ UNCHANGED adapterVars
  BY <1>13, StutterKeeps DEF stop
<1> QED
  BY <1>1, <1>2, <1>3, <1>4, <1>5, <1>6, <1>7, <1>8, <1>9, <1>10, <1>11, <1>12, <1>13
     DEF AdapterNext, AdapterStep

LEMMA AdapterInvHolds == AdapterSpec => []AdapterInv
<1>1. AdapterInit => AdapterInv
  BY InitKeeps
<1>2. AdapterInv /\ [AdapterNext]_adapterVars => AdapterInv'
  BY NextKeeps
<1> QED
  BY <1>1, <1>2, PTL DEF AdapterSpec

------------------------------------------------------------------------------
(***************************************************************************)
(* The properties.                                                         *)
(***************************************************************************)
LEMMA TypesFollow ==
  ASSUME AdapterInv
  PROVE  AdapterTypeOK
<1>1. /\ traces \in Traces /\ frames \in Seq(FrameRecords) /\ stack \in Seq(StackEntries)
      /\ pc \in {"test", "arenas", "arena", "convert", "logs", "parse", "enforce"} \cup Ended
      /\ derived_logs \in Seq(Nat \X Int) /\ entries \in 0..MaxEntries
      /\ witness \in Witnesses \cup {Nil}
      /\ Nested(frames) /\ Linked(frames) /\ Path(frames, stack)
      /\ summary \in Summaries /\ summary.count <= Len(frames)
  BY DEF AdapterInv, PlainTypes, Shape, Summed
<1> DEFINE n == Len(frames)
<1>2. /\ n \in Nat /\ DOMAIN frames = 1..n
      /\ \A f \in 1..n : /\ frames[f].logs \in Seq(LogRecords) /\ frames[f].children \in Seq(Nat)
                         /\ Len(frames[f].children) \in Nat
  BY <1>1, FrameTypes
<1>3. arena \in 0..3
  <2>1. Len(PresentIn(traces)) \in 0..3
    BY PresentFacts
  <2> DEFINE m == Len(PresentIn(traces))
  <2>2. \/ arena = 0 \/ arena \in 0..(m - 1) \/ arena \in 1..m \/ arena = m
    <3>1. \/ pc \notin Adapting \/ pc = "arena" \/ pc = "convert"
          \/ pc \in {"logs", "parse", "enforce", "accepted"}
      BY DEF Adapting
    <3> QED
      BY <3>1 DEF AdapterInv, Progress
  <2> HIDE DEF m
  <2>3. m \in 0..3
    BY <2>1 DEF m
  <2> QED
    BY <2>2, <2>3
<1>4. ASSUME NEW f \in 1..n PROVE frames[f].parent \in 0..(f - 1)
  BY DEF Nested, AdapterInv, Shape
<1>5. ASSUME NEW f \in 1..n, NEW j \in 1..Len(frames[f].children)
      PROVE  frames[f].children[j] \in (f + 1)..n
  <2> DEFINE h == frames[f].children[j]
  <2>1. h \in 1..n /\ frames[h].parent = f
    BY <1>1 DEF Linked, ListsChildren
  <2> HIDE DEF h, n
  <2>2. f \in 0..(h - 1)
    BY <1>4, <2>1
  <2>3. h \in (f + 1)..n
    BY <1>2, <2>1, <2>2
  <2> QED
    BY <2>3 DEF h
<1>6. \A f \in 1..n : DOMAIN frames[f].children = 1..Len(frames[f].children)
  BY <1>2, LenProperties
<1>7. \A i \in DOMAIN frames :
        /\ frames[i].parent \in 0..(i - 1)
        /\ \A j \in DOMAIN frames[i].children : frames[i].children[j] \in (i + 1)..Len(frames)
        /\ frames[i].logs \in Seq(LogRecords)
  BY <1>2, <1>4, <1>5, <1>6
<1>8. \A i \in DOMAIN stack : stack[i].frame \in DOMAIN frames /\ stack[i].reverted \in BOOLEAN
  <2>1. DOMAIN stack = 1..Len(stack) /\ \A i \in 1..Len(stack) : stack[i] \in StackEntries
    BY <1>1, LenProperties, ElementOfSeq
  <2>2. \A i \in 1..Len(stack) : stack[i].frame \in 1..n
    BY <1>1 DEF Path
  <2>3. \A e \in StackEntries : e.reverted \in BOOLEAN
    BY DEF StackEntries
  <2> QED
    BY <1>2, <2>1, <2>2, <2>3
<1>9. summary.count \in 0..Len(frames)
  <2>1. summary.count \in Nat
    BY <1>1 DEF Summaries
  <2> QED
    BY <1>1, <1>2, <2>1
<1>10. \A i \in DOMAIN summary.cheatcodes : summary.cheatcodes[i].phase \in {"setup", "witness"}
  <2> DEFINE S == [call : CheatCalls, phase : {"setup", "witness"}]
             list == summary.cheatcodes
  <2>1. list \in Seq(S)
    BY <1>1 DEF Summaries
  <2>2. \A e \in S : e.phase \in {"setup", "witness"}
    OBVIOUS
  <2> HIDE DEF S, list
  <2>3. DOMAIN list = 1..Len(list) /\ \A i \in 1..Len(list) : list[i] \in S
    BY <2>1, LenProperties, ElementOfSeq
  <2>4. \A i \in DOMAIN list : list[i].phase \in {"setup", "witness"}
    BY <2>2, <2>3
  <2> QED
    BY <2>4 DEF list
<1> QED
  BY <1>1, <1>3, <1>7, <1>8, <1>9, <1>10 DEF AdapterTypeOK

(* What an accepted trace went through. *)
LEMMA Accepted ==
  ASSUME AdapterInv, pc = "accepted"
  PROVE  /\ frames \in Seq(FrameRecords) /\ Len(frames) \in Nat /\ DOMAIN frames = 1..Len(frames)
         /\ summary \in Summaries /\ summary.count = Len(frames)
         /\ CheatsListed(summary, frames) /\ Telescoped(summary) /\ ClocksOrdered(summary, frames)
         /\ EventsListed(summary, frames) /\ TestLast(frames)
         /\ witness \in Witnesses
         /\ enforce_time_block_limits(witness) /\ enforce_cheatcode_policy(witness, policy)
<1>1. frames \in Seq(FrameRecords) /\ Summed(summary, frames)
  BY DEF AdapterInv, PlainTypes
<1>2. summary.count = Len(frames)
  BY DEF AdapterInv, Progress
<1>3. /\ witness \in Witnesses
      /\ enforce_time_block_limits(witness) /\ enforce_cheatcode_policy(witness, policy)
  BY DEF AdapterInv, Judgement
<1>4. TestLast(frames)
  BY DEF AdapterInv, Arenas, Adapting
<1> QED
  BY <1>1, <1>2, <1>3, <1>4, FrameTypes DEF Summed

LEMMA FloorFollows ==
  ASSUME AdapterInv
  PROVE  FloorHolds
<1> SUFFICES ASSUME pc = "accepted", NEW f \in DOMAIN frames, frames[f].cheatcode # Nil
             PROVE  LET call == frames[f].cheatcode
                    IN  /\ call.name \notin ExternalIO
                        /\ call.name \notin OtherForks
                        /\ call.name = "createSelectFork" =>
                             /\ witness.class = "deployed_fork"
                             /\ call.alias = "l0vi0x_gate" /\ call.value = witness.fork_block
                             /\ \A g \in 1..f : frames[g].kind # "Execution"
                        /\ witness.class = "deployed_fork" /\ frames[f].kind = "Execution" =>
                             call.name \notin ForkMutation
  BY DEF FloorHolds
<1> DEFINE call == frames[f].cheatcode
           phase == PHASES(frames[f].kind)
           list == summary.cheatcodes
<1>1. f \in 1..summary.count /\ CheatsListed(summary, frames) /\ summary \in Summaries
  BY Accepted
<1>2. PICK j \in 1..Len(list) : list[j] = [call |-> call, phase |-> phase]
  BY <1>1 DEF CheatsListed
<1>3. j \in DOMAIN list
  <2>1. list \in Seq([call : CheatCalls, phase : {"setup", "witness"}])
    BY <1>1 DEF Summaries
  <2> QED
    BY <2>1, LenProperties
<1>4. ~denied(witness, policy, list[j])
  BY <1>3, Accepted DEF enforce_cheatcode_policy
<1>5. list[j].call = call /\ list[j].phase = phase
  BY <1>2
<1>6. /\ frames[f].kind = "Execution" => phase = "witness"
  BY DEF PHASES
<1> HIDE DEF call, phase, list
<1>7. /\ call.name \notin ExternalIO /\ call.name \notin OtherForks
      /\ call.name = "createSelectFork" =>
           /\ witness.class = "deployed_fork" /\ phase = "setup"
           /\ call.alias = "l0vi0x_gate" /\ call.value = witness.fork_block
      /\ ~(witness.class = "deployed_fork" /\ phase = "witness" /\ call.name \in ForkMutation)
  BY <1>4, <1>5 DEF denied
<1>8. frames[f].kind # "Execution" => \A g \in 1..f : frames[g].kind # "Execution"
  <2>1. TestLast(frames) /\ f \in 1..Len(frames) /\ Len(frames) \in Nat
    BY Accepted
  <2>2. \A m \in Nat : \A x \in 1..m : \A y \in 1..x : y \in 1..m /\ (y < x \/ y = x)
    OBVIOUS
  <2>3. \A g \in 1..f : g \in 1..Len(frames) /\ (g < f \/ g = f)
    BY <2>1, <2>2
  <2> QED
    BY <2>1, <2>3 DEF TestLast
<1>9. /\ call.name \notin ExternalIO /\ call.name \notin OtherForks
      /\ call.name = "createSelectFork" =>
           /\ witness.class = "deployed_fork"
           /\ call.alias = "l0vi0x_gate" /\ call.value = witness.fork_block
           /\ \A g \in 1..f : frames[g].kind # "Execution"
      /\ witness.class = "deployed_fork" /\ frames[f].kind = "Execution" => call.name \notin ForkMutation
  BY <1>6, <1>7, <1>8
<1> QED
  BY <1>9 DEF call

LEMMA LimitsFollow ==
  ASSUME AdapterInv
  PROVE  ClocksWithinLimits
<1> SUFFICES ASSUME pc = "accepted", NEW f \in DOMAIN frames, IsClock(frames[f].cheatcode)
             PROVE  LET call == frames[f].cheatcode
                    IN  /\ call.value \in initial[call.name]..(initial[call.name] + witness.max_advance[call.name])
                        /\ \A g \in 1..(f - 1) :
                             IsClock(frames[g].cheatcode) /\ frames[g].cheatcode.name = call.name =>
                               frames[g].cheatcode.value <= call.value
  BY DEF ClocksWithinLimits
<1> DEFINE call == frames[f].cheatcode
           c == call.name
           v == call.value
<1>1. f \in 1..summary.count /\ f \in 1..Len(frames) /\ ClocksOrdered(summary, frames)
      /\ Telescoped(summary) /\ summary \in Summaries /\ frames \in Seq(FrameRecords)
  BY Accepted
<1>2. call \in CheatCalls
  <2>1. frames[f] \in FrameRecords
    BY <1>1, FrameTypes
  <2> QED
    BY <2>1 DEF FrameRecords
<1>3. c \in Clocks /\ v \in Nat
  BY <1>2, CallTypes
<1>4. /\ initial[c] <= v /\ v <= summary.now[c]
      /\ \A g \in 1..(f - 1) :
           IsClock(frames[g].cheatcode) /\ frames[g].cheatcode.name = c => frames[g].cheatcode.value <= v
  BY <1>1 DEF ClocksOrdered
<1> HIDE DEF c, v
<1>5. summary.advance[c] <= witness.max_advance[c] /\ witness.max_advance[c] \in Nat
  BY <1>3, Accepted, AdapterConstants DEF enforce_time_block_limits
<1>6. summary.now[c] \in Int /\ initial[c] \in Nat /\ summary.advance[c] = summary.now[c] - initial[c]
  BY <1>1, <1>3, AdapterConstants DEF Telescoped, Summaries
<1>7. \A i, x \in Int, m, y \in Nat : i <= y /\ y <= x /\ x - i <= m => y \in i..(i + m)
  OBVIOUS
<1>8. v \in initial[c]..(initial[c] + witness.max_advance[c])
  <2>1. summary.now[c] - initial[c] <= witness.max_advance[c] /\ initial[c] \in Int
    BY <1>5, <1>6
  <2> QED
    BY <1>3, <1>4, <1>5, <1>6, <1>7, <2>1
<1> QED
  BY <1>4, <1>8 DEF c, v

(* The frames that take effect are those that eff says. *)
LEMMA EffectiveIs ==
  ASSUME frames \in Seq(FrameRecords), Nested(frames),
         NEW eff \in [1..Len(frames) -> BOOLEAN], Marked(frames, <<>>, eff)
  PROVE  \A f \in 1..Len(frames) : Effective(f) = eff[f]
<1> DEFINE n == Len(frames)
           Ups(u) == u = [g \in DOMAIN frames |->
                            frames[g].success /\ (frames[g].parent # 0 => u[frames[g].parent])]
           up == CHOOSE u : Ups(u)
<1>1. n \in Nat /\ DOMAIN frames = 1..n
  BY FrameTypes
<1>2. \A f \in 1..n : eff[f] = (frames[f].success /\ (frames[f].parent # 0 => eff[frames[f].parent]))
  BY DEF Marked
<1>3. Ups(eff)
  BY <1>1, <1>2
<1>4. Ups(up)
  BY <1>3
<1>5. \A f \in 1..n : up[f] = (frames[f].success /\ (frames[f].parent # 0 => up[frames[f].parent]))
  BY <1>1, <1>4
<1>6. \A f \in 1..n : Effective(f) = up[f]
  BY DEF Effective
<1>7. \A f \in 1..n : frames[f].parent \in 0..(f - 1)
  BY DEF Nested
<1> HIDE DEF up, Ups
<1>8. ASSUME NEW f \in 1..n, up[f] # eff[f] PROVE FALSE
  <2> DEFINE T == {k \in Nat : k \in 1..n /\ up[k] # eff[k]}
  <2>1. f \in T
    BY <1>1, <1>8
  <2>2. PICK k \in T : \A y \in T : k <= y
    <3> HIDE DEF T
    <3>1. T \in SUBSET Nat
      BY DEF T
    <3> QED
      BY <2>1, <3>1, LeastNumber
  <2>3. k \in 1..n /\ up[k] # eff[k]
    BY <2>2
  <2> DEFINE p == frames[k].parent
  <2>4. p \in 0..(k - 1)
    BY <1>7, <2>3
  <2>5. up[k] = (frames[k].success /\ (p # 0 => up[p]))
    BY <1>5, <2>3
  <2>6. eff[k] = (frames[k].success /\ (p # 0 => eff[p]))
    BY <1>2, <2>3
  <2> HIDE DEF p
  <2>7. p # 0 => up[p] = eff[p]
    <3>1. p # 0 => p \in 1..n /\ p \in Nat /\ ~(k <= p)
      BY <1>1, <2>3, <2>4
    <3> QED
      BY <2>2, <3>1
  <2> HIDE DEF T
  <2>8. (p # 0 => up[p]) = (p # 0 => eff[p])
    BY <2>7
  <2> QED
    BY <2>3, <2>5, <2>6, <2>8
<1> QED
  BY <1>6, <1>8

LEMMA EventsFollow ==
  ASSUME AdapterInv
  PROVE  EffectiveEventsCount
<1> SUFFICES ASSUME pc = "accepted"
             PROVE  Range(summary.events) =
                      UNION {{<<f, log.position>> : log \in {l \in Range(frames[f].logs) : l.event # "other"}} :
                               f \in {g \in DOMAIN frames : Effective(g)}}
  BY DEF EffectiveEventsCount
<1> DEFINE n == Len(frames)
           Emitted(f) == {<<f, log.position>> : log \in {l \in Range(frames[f].logs) : l.event # "other"}}
           told == UNION {EventsOf(frames, f) : f \in 1..n}
           meant == UNION {Emitted(f) : f \in {g \in DOMAIN frames : Effective(g)}}
<1>1. frames \in Seq(FrameRecords) /\ DOMAIN frames = 1..n /\ Range(summary.events) = told
  BY Accepted DEF EventsListed
<1>2. Nested(frames) /\ Effects(frames, <<>>)
  BY DEF AdapterInv, Shape, Progress
<1>3. PICK eff \in [1..n -> BOOLEAN] : Marked(frames, <<>>, eff)
  BY <1>2 DEF Effects
<1>4. \A f \in 1..n : Effective(f) = eff[f]
  BY <1>1, <1>2, <1>3, EffectiveIs
<1>5. \A f \in 1..n : eff[f] \in BOOLEAN
  BY <1>3
<1>6. \A f \in 1..n : \A k \in 1..Len(frames[f].logs) : frames[f].logs[k].reverted = ~eff[f]
  BY <1>3 DEF Marked
<1>7. \A f \in 1..n : DOMAIN frames[f].logs = 1..Len(frames[f].logs)
  BY <1>1, FrameTypes
<1>8. ASSUME NEW f \in 1..n, eff[f] PROVE EventsOf(frames, f) = Emitted(f)
  <2> DEFINE logs == frames[f].logs
  <2>1. Countable(frames[f]) = {k \in 1..Len(logs) : logs[k].event # "other"}
    BY <1>6, <1>8 DEF Countable
  <2>2. Range(logs) = {logs[k] : k \in 1..Len(logs)}
    BY <1>7 DEF Range
  <2>3. EventsOf(frames, f) = {<<f, logs[k].position>> : k \in {j \in 1..Len(logs) : logs[j].event # "other"}}
    BY <2>1 DEF EventsOf
  <2>4. Emitted(f) = {<<f, log.position>> : log \in {l \in Range(logs) : l.event # "other"}}
    OBVIOUS
  <2> HIDE DEF logs, Emitted
  <2>5. \A x \in EventsOf(frames, f) : x \in Emitted(f)
    BY <2>2, <2>3, <2>4
  <2>6. \A x \in Emitted(f) : x \in EventsOf(frames, f)
    BY <2>2, <2>3, <2>4
  <2> QED
    BY <2>5, <2>6
<1>9. ASSUME NEW f \in 1..n, ~eff[f] PROVE EventsOf(frames, f) = {}
  <2>1. Countable(frames[f]) = {}
    BY <1>6, <1>9 DEF Countable
  <2> QED
    BY <2>1 DEF EventsOf
<1>10. \A f : f \in {g \in DOMAIN frames : Effective(g)} <=> f \in 1..n /\ eff[f]
  BY <1>1, <1>4
<1> HIDE DEF Emitted, n
<1>11. \A x \in told : x \in meant
  <2> TAKE x \in told
  <2>1. PICK f \in 1..n : x \in EventsOf(frames, f)
    OBVIOUS
  <2>2. eff[f] /\ x \in Emitted(f)
    BY <1>8, <1>9, <2>1
  <2> QED
    BY <1>10, <2>1, <2>2
<1>12. \A x \in meant : x \in told
  <2> TAKE x \in meant
  <2>1. PICK f \in {g \in DOMAIN frames : Effective(g)} : x \in Emitted(f)
    OBVIOUS
  <2>2. f \in 1..n /\ eff[f]
    BY <1>10
  <2>3. x \in EventsOf(frames, f)
    BY <1>8, <2>1, <2>2
  <2> QED
    BY <2>2, <2>3
<1>13. told = meant
  <2> HIDE DEF told, meant
  <2> QED
    BY <1>11, <1>12
<1> QED
  BY <1>1, <1>13 DEF Emitted

(* An arena of an accepted trace is the only one of its kind. *)
LEMMA OneArena ==
  ASSUME NEW tr \in Traces, WellFormed(tr), NEW i \in DOMAIN tr
  PROVE  /\ tr[i].kind \in Kinds /\ GivenIn(tr, tr[i].kind) # {}
         /\ NodesIn(tr, tr[i].kind) = tr[i].nodes
<1> DEFINE kind == tr[i].kind
           here == GivenIn(tr, kind)
<1>1. kind \in Kinds /\ Cardinality(here) <= 1
  BY DEF WellFormed
<1>2. i \in here /\ here \subseteq DOMAIN tr
  BY DEF GivenIn
<1>3. IsFiniteSet(here)
  <2>1. tr \in Seq([kind : STRING, nodes : Seq([idx : Int, parent : Int \cup {Nil}])])
    BY AdapterConstants
  <2>2. Len(tr) \in Nat /\ DOMAIN tr = 1..Len(tr)
    BY <2>1, LenProperties
  <2>3. IsFiniteSet(1..Len(tr))
    BY <2>2, FS_Interval
  <2> HIDE DEF here
  <2> QED
    BY <1>2, <2>2, <2>3, FS_Subset
<1> HIDE DEF here
<1>4. \A j \in here : j = i
  <2>1. IsFiniteSet({i}) /\ Cardinality({i}) = 1
    BY FS_Singleton
  <2>2. {i} \in SUBSET here
    BY <1>2
  <2>3. Cardinality({i}) <= Cardinality(here) /\ (Cardinality(here) = Cardinality({i}) => here = {i})
    BY <1>3, <2>2, FS_Subset
  <2>4. Cardinality(here) \in Nat
    BY <1>3, FS_CardinalityType
  <2>5. Cardinality(here) = 1
    BY <1>1, <2>1, <2>3, <2>4
  <2>6. here = {i}
    BY <2>1, <2>3, <2>5
  <2> QED
    BY <2>6
<1>5. (CHOOSE x \in here : TRUE) = i
  BY <1>2, <1>4
<1>6. NodesIn(tr, kind) = tr[i].nodes
  BY <1>5 DEF NodesIn, here
<1> QED
  BY <1>1, <1>2, <1>6 DEF here

FramesIn(fs, kind) == {f \in 1..Len(fs) : fs[f].kind = kind}

(* The frames of that kind are frames of those nodes, each of another one. *)
FramesOfNodes(fs, kind, nodes) ==
  /\ \A f \in 1..Len(fs) : fs[f].kind = kind => \E node \in Range(nodes) : node.idx = fs[f].idx
  /\ \A f, g \in 1..Len(fs) : fs[f].kind = fs[g].kind /\ fs[f].idx = fs[g].idx => f = g

HasFrame(fs, kind, node) == \E f \in 1..Len(fs) : fs[f].kind = kind /\ fs[f].idx = node.idx

(* As many distinct indices as nodes, all of them of nodes: every node is visited. *)
LEMMA AllVisited ==
  ASSUME NEW fs \in Seq(FrameRecords), NEW kind,
         NEW nodes \in Seq([idx : Int, parent : Int \cup {Nil}]), Distinct(nodes),
         FramesOfNodes(fs, kind, nodes), Cardinality(VisitedIn(fs, kind)) = Len(nodes)
  PROVE  /\ Cardinality(FramesIn(fs, kind)) = Len(nodes)
         /\ \A j \in 1..Len(nodes) : HasFrame(fs, kind, nodes[j])
<1> DEFINE n == Len(fs)
           m == Len(nodes)
           K == FramesIn(fs, kind)
           V == VisitedIn(fs, kind)
           I == {nodes[j].idx : j \in 1..m}
           by == [j \in 1..m |-> nodes[j].idx]
           at == [f \in K |-> fs[f].idx]
<1>1. n \in Nat /\ m \in Nat /\ DOMAIN nodes = 1..m
  BY FrameTypes, LenProperties
<1>2. /\ V = {fs[f].idx : f \in K} /\ K \subseteq 1..n /\ \A f \in K : fs[f].kind = kind
  BY DEF VisitedIn, FramesIn
<1>3. IsFiniteSet(1..m) /\ Cardinality(1..m) = m
  <2> HIDE DEF m
  <2>1. m \in Int /\ 1 \in Int
    BY <1>1
  <2>2. IsFiniteSet(1..m) /\ Cardinality(1..m) = IF 1 > m THEN 0 ELSE m - 1 + 1
    BY <2>1, FS_Interval
  <2> QED
    BY <1>1, <2>2
<1>4. IsFiniteSet(I) /\ Cardinality(I) = m
  <2>1. by \in [1..m -> I] /\ \A x \in I : \E j \in 1..m : by[j] = x
    OBVIOUS
  <2>2. \A j, k \in 1..m : by[j] = by[k] => j = k
    BY <1>1 DEF Distinct, IsInjective
  <2> HIDE DEF by, I, m
  <2>3. by \in Surjection(1..m, I) /\ by \in Injection(1..m, I)
    BY <2>1, <2>2 DEF Surjection, Injection, IsInjective
  <2> QED
    BY <1>3, <2>3, FS_Surjection
<1>5. V \in SUBSET I
  <2>1. ASSUME NEW f \in K PROVE fs[f].idx \in I
    <3>1. PICK node \in Range(nodes) : node.idx = fs[f].idx
      BY <1>2 DEF FramesOfNodes
    <3>2. PICK j \in 1..m : node = nodes[j]
      BY <1>1 DEF Range
    <3> QED
      BY <3>1, <3>2
  <2> QED
    BY <1>2, <2>1
<1>6. Cardinality(V) = m
  OBVIOUS
<1>7. V = I /\ IsFiniteSet(V)
  <2> HIDE DEF V, I, m
  <2> QED
    BY <1>4, <1>5, <1>6, FS_Subset
<1>8. IsFiniteSet(K)
  <2>1. IsFiniteSet(1..n) /\ K \in SUBSET (1..n)
    BY <1>1, <1>2, FS_Interval
  <2> HIDE DEF K
  <2> QED
    BY <2>1, FS_Subset
<1>9. Cardinality(K) = m
  <2>1. at \in [K -> V] /\ \A x \in V : \E f \in K : at[f] = x
    BY <1>2
  <2>2. \A f, g \in K : at[f] = at[g] => f = g
    <3>1. \A f \in K : at[f] = fs[f].idx /\ f \in 1..Len(fs)
      BY <1>2
    <3>2. \A f, g \in 1..Len(fs) : fs[f].kind = fs[g].kind /\ fs[f].idx = fs[g].idx => f = g
      BY DEF FramesOfNodes
    <3> HIDE DEF at, K
    <3> QED
      BY <1>2, <3>1, <3>2
  <2> HIDE DEF at, V, K, m
  <2>3. at \in Surjection(K, V) /\ at \in Injection(K, V)
    BY <2>1, <2>2 DEF Surjection, Injection, IsInjective
  <2> QED
    BY <1>6, <1>8, <2>3, FS_Surjection, Zenon
<1>10. ASSUME NEW j \in 1..m PROVE HasFrame(fs, kind, nodes[j])
  <2>1. nodes[j].idx \in I
    OBVIOUS
  <2> HIDE DEF V, K, I
  <2>2. PICK f \in K : nodes[j].idx = fs[f].idx
    BY <1>2, <1>7, <2>1, Zenon
  <2>3. f \in 1..Len(fs) /\ fs[f].kind = kind
    BY <1>2
  <2> QED
    BY <2>2, <2>3 DEF HasFrame
<1> QED
  BY <1>9, <1>10

LEMMA NodesFollow ==
  ASSUME AdapterInv
  PROVE  EveryNodeOnce
<1> SUFFICES ASSUME pc = "accepted", NEW i \in DOMAIN traces
             PROVE  /\ Cardinality(FramesOf(traces[i].kind)) = Len(traces[i].nodes)
                    /\ \A j \in DOMAIN traces[i].nodes :
                         \E f \in FramesOf(traces[i].kind) :
                           LET frame == frames[f]
                               at    == [k \in DOMAIN frame.logs |-> frame.logs[k].position]
                           IN  /\ frame.idx = traces[i].nodes[j].idx
                               /\ Len(frame.children) = frame.width
                               /\ IsInjective(at) /\ Range(at) = 0..(frame.emits - 1)
  BY DEF EveryNodeOnce
<1> DEFINE kind == traces[i].kind
           nodes == traces[i].nodes
           m == Len(PresentIn(traces))
<1>1. /\ traces \in Traces /\ frames \in Seq(FrameRecords) /\ DOMAIN frames = 1..Len(frames)
  BY Accepted DEF AdapterInv, PlainTypes
<1>2. WellFormed(traces) /\ stack = <<>> /\ arena = m
  BY DEF AdapterInv, Progress, Adapting
<1>3. Placed(traces, frames, m) /\ DistinctTo(traces, m) /\ FinishedTo(traces, frames, m)
  BY <1>2 DEF AdapterInv, Arenas, Adapting
<1>4. kind \in Kinds /\ GivenIn(traces, kind) # {} /\ NodesIn(traces, kind) = nodes
  BY <1>1, <1>2, OneArena
<1>5. nodes \in Seq([idx : Int, parent : Int \cup {Nil}]) /\ DOMAIN nodes = 1..Len(nodes)
  <2>1. /\ NodesIn(traces, kind) \in Seq([idx : Int, parent : Int \cup {Nil}])
        /\ DOMAIN NodesIn(traces, kind) = 1..Len(NodesIn(traces, kind))
    BY <1>1, <1>4, NodesAre
  <2> QED
    BY <1>4, <2>1
<1>6. PICK a \in 1..m : PresentIn(traces)[a] = kind
  BY <1>4, PresentFacts
<1> HIDE DEF m
<1>7. Distinct(nodes) /\ Cardinality(VisitedIn(frames, kind)) = Len(nodes)
  BY <1>3, <1>4, <1>6 DEF DistinctTo, FinishedTo
<1>8. FramesOfNodes(frames, kind, nodes)
  BY <1>3, <1>4 DEF Placed, FramesOfNodes
<1> HIDE DEF kind, nodes
<1>9. /\ Cardinality(FramesIn(frames, kind)) = Len(nodes)
      /\ \A j \in 1..Len(nodes) : HasFrame(frames, kind, nodes[j])
  BY <1>1, <1>5, <1>7, <1>8, AllVisited
<1>10. FramesOf(kind) = FramesIn(frames, kind) /\ \A f \in 1..Len(frames) : frames[f].kind = kind => f \in FramesOf(kind)
  BY <1>1 DEF FramesOf, FramesIn
<1>11. \A f \in 1..Len(frames) : Whole(frames[f])
  <2>1. \A j \in 1..Len(<<>>) : FALSE
    OBVIOUS
  <2> QED
    BY <1>2, <2>1 DEF AdapterInv, Shape, Consumed
<1>12. ASSUME NEW j \in DOMAIN nodes
       PROVE  \E f \in FramesOf(kind) :
                LET frame == frames[f]
                    at    == [k \in DOMAIN frame.logs |-> frame.logs[k].position]
                IN  /\ frame.idx = nodes[j].idx
                    /\ Len(frame.children) = frame.width
                    /\ IsInjective(at) /\ Range(at) = 0..(frame.emits - 1)
  <2>1. PICK f \in 1..Len(frames) : frames[f].kind = kind /\ frames[f].idx = nodes[j].idx
    BY <1>5, <1>9 DEF HasFrame
  <2>2. f \in FramesOf(kind) /\ Whole(frames[f])
    BY <1>10, <1>11, <2>1
  <2> QED
    BY <2>1, <2>2 DEF Whole, Positioned
<1> QED
  BY <1>9, <1>10, <1>12 DEF kind, nodes

(* Type correctness of the adapter: the frames form a forest that is numbered *)
(* from the roots down, and parse_trace never counts more frames than exist.  *)
THEOREM AdapterTypesHold == AdapterSpec => []AdapterTypeOK
<1>1. AdapterInv => AdapterTypeOK
  BY TypesFollow
<1> QED
  BY <1>1, AdapterInvHolds, PTL

(* However the orderings, children and parents of the JSON are linked, an     *)
(* accepted trace has every node of every arena as exactly one frame, with    *)
(* all its calls and all its logs (_convert_arena).                           *)
THEOREM EveryNodeAlwaysOnce == AdapterSpec => []EveryNodeOnce
<1>1. AdapterInv => EveryNodeOnce
  BY NodesFollow
<1> QED
  BY <1>1, AdapterInvHolds, PTL

(* parse_trace counts the events that took effect and no others, although     *)
(* _normalize_frame loses the success flags.                                  *)
THEOREM EffectiveEventsAlwaysCount == AdapterSpec => []EffectiveEventsCount
<1>1. AdapterInv => EffectiveEventsCount
  BY EventsFollow
<1> QED
  BY <1>1, AdapterInvHolds, PTL

(* In an accepted trace no clock runs backward, and none beyond what the      *)
(* witness declares (parse_trace and enforce_time_block_limits).              *)
THEOREM ClocksStayWithinLimits == AdapterSpec => []ClocksWithinLimits
<1>1. AdapterInv => ClocksWithinLimits
  BY LimitsFollow
<1> QED
  BY <1>1, AdapterInvHolds, PTL

(* No policy file allows an accepted trace external I/O, another fork than    *)
(* the pinned one, or minting and impersonation in a fork witness             *)
(* (enforce_cheatcode_policy).                                                *)
THEOREM FloorAlwaysHolds == AdapterSpec => []FloorHolds
<1>1. AdapterInv => FloorHolds
  BY FloorFollows
<1> QED
  BY <1>1, AdapterInvHolds, PTL

==============================================================================
