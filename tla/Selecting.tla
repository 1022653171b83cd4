------------------------------ MODULE Selecting ------------------------------
(***************************************************************************)
(* The list comprehension [x for x in s if ...]: the elements of s at the  *)
(* given positions, in their order.  Like SelectSeq, but with a set in     *)
(* place of the test, so that theorems can speak of it.                    *)
(***************************************************************************)
EXTENDS Naturals, Sequences

SelectAt(s, positions) ==
  LET kept[n \in 0..Len(s)] ==
        IF n = 0 THEN <<>>
        ELSE IF n \in positions THEN Append(kept[n - 1], s[n])
        ELSE kept[n - 1]
  IN  kept[Len(s)]

==============================================================================
