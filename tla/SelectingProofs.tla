--------------------------- MODULE SelectingProofs ---------------------------
(***************************************************************************)
(* What SelectAt computes, and the two forms of induction over the natural *)
(* numbers that the other proofs use: the least element of a set, and a    *)
(* set closed under successor.                                             *)
(***************************************************************************)
EXTENDS Selecting, SequenceTheorems, WellFoundedInduction, TLAPS

(* A set of numbers has a least one. *)
LEMMA LeastNumber ==
  ASSUME NEW T \in SUBSET Nat, T # {}
  PROVE  \E x \in T : \A y \in T : x <= y
<1> DEFINE R == OpToRel(<, Nat)
<1>1. IsWellFoundedOn(R, Nat)
  BY NatLessThanWellFounded
<1>2. \A x, y \in Nat : <<y, x>> \in R <=> y < x
  BY DEF OpToRel
<1> HIDE DEF R
<1>3. PICK x \in T : \A y \in T : ~(<<y, x>> \in R)
  BY <1>1, WFMin
<1>4. \A y \in T : ~(y < x)
  BY <1>2, <1>3
<1>5. \A m, n \in Nat : ~(n < m) => m <= n
  OBVIOUS
<1> QED
  BY <1>4, <1>5

(* A set with 0 and the successor of each of its numbers has every number. *)
LEMMA AllNumbers ==
  ASSUME NEW T \in SUBSET Nat, 0 \in T, \A n \in T : n + 1 \in T
  PROVE  T = Nat
<1>1. ASSUME Nat \ T # {} PROVE FALSE
  <2>1. PICK x \in Nat \ T : \A y \in Nat \ T : x <= y
    BY <1>1, LeastNumber
  <2>2. x # 0 /\ x \in Nat
    BY <2>1
  <2>3. x - 1 \in Nat /\ ~(x <= x - 1) /\ (x - 1) + 1 = x
    BY <2>2
  <2>4. x - 1 \in T
    BY <2>1, <2>3
  <2> QED
    BY <2>1, <2>3, <2>4
<1> QED
  BY <1>1

------------------------------------------------------------------------------
(* kept is the recursive function of SelectAt, as far as n. *)
Keeps(kept, n, s, positions) ==
  kept = [i \in 0..n |-> IF i = 0 THEN <<>>
                         ELSE IF i \in positions THEN Append(kept[i - 1], s[i])
                         ELSE kept[i - 1]]

LEMMA KeepsExists ==
  ASSUME NEW s, NEW positions
  PROVE  \A n \in Nat : \E kept : Keeps(kept, n, s, positions)
<1> DEFINE T == {n \in Nat : \E kept : Keeps(kept, n, s, positions)}
<1>1. 0 \in T
  <2>1. Keeps([i \in 0..0 |-> <<>>], 0, s, positions)
    BY DEF Keeps
  <2> QED
    BY <2>1
<1>2. ASSUME NEW n \in T PROVE n + 1 \in T
  <2>1. PICK kept : Keeps(kept, n, s, positions)
    OBVIOUS
  <2> DEFINE more == [i \in 0..(n + 1) |->
                        IF i \in 0..n THEN kept[i]
                        ELSE IF i \in positions THEN Append(kept[i - 1], s[i])
                        ELSE kept[i - 1]]
             rule == [i \in 0..(n + 1) |->
                        IF i = 0 THEN <<>>
                        ELSE IF i \in positions THEN Append(more[i - 1], s[i])
                        ELSE more[i - 1]]
  <2>2. \A i \in 0..n : kept[i] = IF i = 0 THEN <<>>
                                  ELSE IF i \in positions THEN Append(kept[i - 1], s[i])
                                  ELSE kept[i - 1]
    BY <2>1 DEF Keeps
  <2>3. ASSUME NEW i \in 0..(n + 1) PROVE more[i] = rule[i]
    <3>1. n \in Nat /\ 0 \in 0..n
      OBVIOUS
    <3>2. CASE i = 0
      BY <2>2, <3>1, <3>2
    <3>3. CASE i # 0
      <4>1. i - 1 \in 0..n /\ i - 1 \in 0..(n + 1)
        BY <3>1, <3>3
      <4>2. more[i - 1] = kept[i - 1]
        BY <4>1
      <4> QED
        BY <2>2, <3>3, <4>2
    <3> QED
      BY <3>2, <3>3
  <2>4. more = rule
    BY <2>3
  <2>5. Keeps(more, n + 1, s, positions)
    BY <2>4 DEF Keeps
  <2> HIDE DEF more
  <2> QED
    BY <2>5
<1>3. T = Nat
  <2> HIDE DEF T
  <2>1. T \in SUBSET Nat
    BY DEF T
  <2> QED
    BY <1>1, <1>2, <2>1, AllNumbers
<1> QED
  BY <1>3

(* Where r comes from: from is the increasing list of the positions up to n. *)
Comes(r, n, s, positions, from) ==
  /\ Len(r) <= n
  /\ from \in [1..Len(r) -> positions \cap 1..n]
  /\ \A i, j \in 1..Len(r) : i < j => from[i] < from[j]
  /\ \A k \in positions \cap 1..n : \E i \in 1..Len(r) : from[i] = k
  /\ \A i \in 1..Len(r) : r[i] = s[from[i]]

(* SelectAt(s, positions) is the list of s[k], for the positions k of s in   *)
(* increasing order.                                                         *)
LEMMA Selected ==
  ASSUME NEW S, NEW s \in Seq(S), NEW positions
  PROVE  /\ SelectAt(s, positions) \in Seq(S)
         /\ \E from : Comes(SelectAt(s, positions), Len(s), s, positions, from)
<1> DEFINE last == Len(s)
           kept == CHOOSE kept : Keeps(kept, last, s, positions)
           OK(n) == kept[n] \in Seq(S) /\ \E from : Comes(kept[n], n, s, positions, from)
           T == {n \in Nat : n \in 0..last => OK(n)}
<1>1. last \in Nat /\ \A i \in 1..last : s[i] \in S
  BY LenProperties, ElementOfSeq
<1>2. Keeps(kept, last, s, positions)
  BY <1>1, KeepsExists
<1>3. SelectAt(s, positions) = kept[last]
  BY DEF SelectAt, Keeps
<1> HIDE DEF kept
<1>4. \A i \in 0..last : kept[i] = IF i = 0 THEN <<>>
                                   ELSE IF i \in positions THEN Append(kept[i - 1], s[i])
                                   ELSE kept[i - 1]
  BY <1>2 DEF Keeps
<1>5. 0 \in T
  <2>1. kept[0] = <<>>
    BY <1>1, <1>4
  <2>2. <<>> \in Seq(S) /\ Len(<<>>) = 0 /\ 1..0 = {}
    OBVIOUS
  <2>3. Comes(<<>>, 0, s, positions, [i \in 1..0 |-> 0])
    BY <2>2 DEF Comes
  <2> QED
    BY <2>1, <2>2, <2>3
<1>6. ASSUME NEW n \in T PROVE n + 1 \in T
  <2>1. SUFFICES ASSUME n + 1 \in 0..last PROVE OK(n + 1)
    OBVIOUS
  <2>2. n \in Nat /\ n \in 0..last /\ n + 1 \in 1..last /\ n + 1 # 0 /\ (n + 1) - 1 = n
    BY <1>1, <2>1
  <2>3. kept[n] \in Seq(S) /\ s[n + 1] \in S
    BY <1>1, <2>2
  <2>4. PICK from : Comes(kept[n], n, s, positions, from)
    BY <2>2
  <2>5. CASE n + 1 \notin positions
    <3>1. kept[n + 1] = kept[n]
      BY <1>4, <2>1, <2>2, <2>5
    <3>2. positions \cap 1..(n + 1) = positions \cap 1..n
      BY <2>2, <2>5
    <3>3. Comes(kept[n + 1], n + 1, s, positions, from)
      BY <2>4, <3>1, <3>2 DEF Comes
    <3> QED
      BY <2>3, <3>1, <3>3
  <2>6. CASE n + 1 \in positions
    <3> DEFINE r == kept[n]
               len == Len(r)
               more == [i \in 1..(len + 1) |-> IF i = len + 1 THEN n + 1 ELSE from[i]]
    <3>1. kept[n + 1] = Append(r, s[n + 1])
      BY <1>4, <2>1, <2>2, <2>6
    <3>2. /\ Append(r, s[n + 1]) \in Seq(S) /\ Len(Append(r, s[n + 1])) = len + 1 /\ len \in Nat
          /\ Append(r, s[n + 1])[len + 1] = s[n + 1]
          /\ \A i \in 1..len : Append(r, s[n + 1])[i] = r[i]
      BY <2>3, AppendProperties, LenProperties
    <3> DEFINE q == kept[n + 1]
    <3> HIDE DEF r, len, q
    <3>3. /\ q \in Seq(S) /\ Len(q) = len + 1 /\ len \in Nat /\ q[len + 1] = s[n + 1]
          /\ \A i \in 1..len : q[i] = r[i]
      BY <3>1, <3>2 DEF q
    <3>4. /\ from \in [1..len -> positions \cap 1..n]
          /\ \A i, j \in 1..len : i < j => from[i] < from[j]
          /\ \A k \in positions \cap 1..n : \E i \in 1..len : from[i] = k
          /\ \A i \in 1..len : r[i] = s[from[i]]
      BY <2>4 DEF Comes, r, len
    <3>5. \A i \in 1..(len + 1) : i \in 1..len \/ i = len + 1
      BY <3>3
    <3>6. /\ more[len + 1] = n + 1
          /\ \A i \in 1..len : more[i] = from[i] /\ i # len + 1 /\ i < len + 1
      BY <3>3
    <3>7. \A i \in 1..len : from[i] \in positions /\ from[i] \in 1..n /\ from[i] \in 1..(n + 1) /\ from[i] < n + 1
      BY <2>2, <3>4
    <3>8. DOMAIN more = 1..(len + 1) /\ more = [i \in 1..(len + 1) |-> more[i]]
      OBVIOUS
    <3> HIDE DEF more
    <3>9. more \in [1..(len + 1) -> positions \cap 1..(n + 1)]
      <4>1. n + 1 \in positions \cap 1..(n + 1)
        BY <2>2, <2>6
      <4>2. \A i \in 1..(len + 1) : more[i] \in positions \cap 1..(n + 1)
        BY <3>5, <3>6, <3>7, <4>1
      <4> QED
        BY <3>8, <4>2
    <3>10. ASSUME NEW i \in 1..(len + 1), NEW j \in 1..(len + 1), i < j PROVE more[i] < more[j]
      <4>1. i \in 1..len
        BY <3>3, <3>10
      <4>2. CASE j \in 1..len
        BY <3>4, <3>6, <3>10, <4>1, <4>2
      <4>3. CASE j = len + 1
        BY <3>6, <3>7, <4>1, <4>3
      <4> QED
        BY <3>5, <4>2, <4>3
    <3>11. ASSUME NEW k \in positions \cap 1..(n + 1) PROVE \E i \in 1..(len + 1) : more[i] = k
      <4>1. k \in 1..n \/ k = n + 1
        BY <2>2
      <4>2. CASE k \in 1..n
        <5>1. PICK i \in 1..len : from[i] = k
          BY <3>4, <4>2
        <5>2. i \in 1..(len + 1) /\ more[i] = k
          BY <3>3, <3>6, <5>1
        <5> QED
          BY <5>2
      <4>3. CASE k = n + 1
        <5>1. len + 1 \in 1..(len + 1)
          BY <3>3
        <5> QED
          BY <3>6, <4>3, <5>1
      <4> QED
        BY <4>1, <4>2, <4>3
    <3>12. ASSUME NEW i \in 1..(len + 1) PROVE q[i] = s[more[i]]
      BY <3>3, <3>4, <3>5, <3>6
    <3>13. Comes(q, n + 1, s, positions, more)
      <4>1. len <= n
        BY <2>4 DEF Comes, r, len
      <4>2. Len(q) <= n + 1
        BY <2>2, <3>3, <4>1
      <4> QED
        BY <3>3, <3>9, <3>10, <3>11, <3>12, <4>2 DEF Comes
    <3> QED
      BY <3>3, <3>13 DEF q
  <2> QED
    BY <2>5, <2>6
<1> HIDE DEF OK
<1>7. T = Nat
  <2> HIDE DEF T
  <2>1. T \in SUBSET Nat
    BY DEF T
  <2> QED
    BY <1>5, <1>6, <2>1, AllNumbers
<1>8. OK(last)
  <2> HIDE DEF T
  <2>1. last \in T
    BY <1>1, <1>7
  <2>2. \A n \in Nat : n \in 0..n
    OBVIOUS
  <2> QED
    BY <1>1, <2>1, <2>2 DEF T
<1> QED
  BY <1>3, <1>8 DEF OK

==============================================================================
