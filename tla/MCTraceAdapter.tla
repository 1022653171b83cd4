---------------------------- MODULE MCTraceAdapter ----------------------------
(***************************************************************************)
(* An instance of TraceAdapter for TLC.                                    *)
(***************************************************************************)
EXTENDS TraceAdapter

AllReports ==
  [suites : 0..2, results : 0..2, name : {"declared", "other"}, status : {"Success", "Failure"},
   kind : {"Unit", "Fuzz"}]

Node(idx, parent) == [idx |-> idx, parent |-> parent]

Arena(kind, nodes) == [kind |-> kind, nodes |-> nodes]

(* Every way in which n nodes, the first of them a root, can name parents. *)
Linked(n) ==
  {<<Node(0, Nil)>> \o [i \in 1..(n - 1) |-> Node(i, parents[i])] :
     parents \in [1..(n - 1) -> {Nil} \cup 0..(n - 1)]}

Plain(success, children, logs) ==
  [success |-> success, cheatcode |-> Nil, children |-> children, logs |-> logs]

Calling(name, args, alias, value) ==
  [success |-> TRUE, children |-> 0, logs |-> 0,
   cheatcode |-> [name |-> name, args |-> args, alias |-> alias, value |-> value]]

Cheat(name, value) == Calling(name, 1, "none", value)

Fork(args, alias, block) == Calling("createSelectFork", args, alias, block)

SmallContents ==
  {Plain(s, c, l) : s \in BOOLEAN, c \in 0..2, l \in 0..1}
    \cup {Cheat("warp", v) : v \in 1..3}
    \cup {Cheat("roll", 2), Cheat("deal", 0), Cheat("ffi", 0)}
    \cup {Cheat("createFork", Nil)}
    \cup {Fork(2, "l0vi0x_gate", v) : v \in {3, 4}}
    \cup {Fork(2, "raw_url", 3), Fork(1, "l0vi0x_gate", Nil)}

SomeTraces ==
  {<<Arena("Execution", nodes)>> : nodes \in UNION {Linked(n) : n \in 1..3}}
    \cup {<<Arena("Execution", <<Node(0, Nil)>>), Arena("Setup", nodes)>> : nodes \in Linked(1)}
    \cup {<<Arena("Execution", <<>>)>>,
          <<Arena("Execution", <<Node(1, 0), Node(0, Nil)>>)>>,
          <<Arena("Execution", <<Node(0, 1), Node(1, 0)>>)>>,
          <<Arena("Setup", <<Node(0, Nil)>>)>>,
          <<Arena("Execution", <<Node(0, Nil)>>), Arena("Execution", <<Node(0, Nil)>>)>>,
          <<Arena("Other", <<Node(0, Nil)>>), Arena("Execution", <<Node(0, Nil)>>)>>,
          <<Arena("Execution", <<Node(0, Nil), Node(0, 0)>>)>>,
          <<Arena("Deployment", <<Node(0, Nil)>>), Arena("Setup", <<Node(0, Nil)>>),
            Arena("Execution", <<Node(0, Nil)>>)>>}

All == {"warp", "roll", "deal", "prank", "ffi", "createFork", "createSelectFork"}

Shipped ==
  [deployed_fork    |-> [setup |-> {"createSelectFork"}, witness |-> {"warp", "roll"}],
   local_deployment |-> [setup |-> {"deal", "prank"}, witness |-> {"warp", "roll", "prank"}]]

Broadened ==
  [deployed_fork    |-> [setup |-> All, witness |-> All],
   local_deployment |-> [setup |-> All, witness |-> All]]

BothPolicies == {Shipped, Broadened}

SomeWitnesses ==
  {[class |-> "deployed_fork", fork_block |-> 3, max_advance |-> [warp |-> 1, roll |-> 1]],
   [class |-> "local_deployment", fork_block |-> Nil, max_advance |-> [warp |-> 1, roll |-> 0]]}

Start == [warp |-> 1, roll |-> 1]

==============================================================================
