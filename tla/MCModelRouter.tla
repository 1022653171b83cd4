---------------------------- MODULE MCModelRouter ----------------------------
(***************************************************************************)
(* An instance of ModelRouter for TLC: two paid and unclassified endpoints *)
(* behind HTTP, and a free finder.                                         *)
(***************************************************************************)
EXTENDS ModelRouter, TLC

CONSTANTS m1, m2, finder

TierOf == (m1 :> "paid") @@ (m2 :> "undeclared") @@ (finder :> "free")

CandidateLists == {<<>>, <<m1, m2>>, <<m2, m1, finder>>, <<finder>>}

StackChoices ==
  {Nil, [kind |-> "prod", allowed_pricing_tiers |-> {"paid"}],
   [kind |-> "dev", allowed_pricing_tiers |-> {"free", "paid"}]}

==============================================================================
