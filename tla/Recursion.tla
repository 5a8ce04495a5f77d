------------------------------- MODULE Recursion -------------------------------
(***************************************************************************)
(* Induction and recursion over Nat in the form the proofs of this project *)
(* use them: about sets and functions, which every backend instantiates,   *)
(* where the library speaks of operators.  Both follow from the order on   *)
(* Nat being well founded.                                                 *)
(***************************************************************************)
EXTENDS Integers, WellFoundedInduction, TLAPS

(* A set of numbers that holds 0 and every successor of its members holds  *)
(* all of them: the least number outside it would have a predecessor.      *)
LEMMA SetInduction ==
  ASSUME NEW S, 0 \in S, \A n \in Nat : n \in S => n + 1 \in S
  PROVE  \A n \in Nat : n \in S
<1> SUFFICES ASSUME Nat \ S # {} PROVE FALSE
  OBVIOUS
<1> DEFINE Less == OpToRel(<, Nat)
<1>1. PICK least \in Nat \ S : \A n \in Nat \ S : <<n, least>> \notin Less
  <2> HIDE DEF Less
  <2>1. IsWellFoundedOn(Less, Nat)
    BY NatLessThanWellFounded DEF Less
  <2> QED
    BY <2>1, WFMin
<1>2. least \in Nat /\ least # 0
  OBVIOUS
<1>3. least - 1 \in Nat /\ (least - 1) + 1 = least
  BY <1>2
<1>4. <<least - 1, least>> \in Less
  BY <1>2, <1>3 DEF OpToRel
<1> QED
  BY <1>1, <1>3, <1>4

(* f starts with first and goes on by next, a function of the step and the *)
(* value there.  It is cited unexpanded.                                   *)
Recurs(f, first, next) ==
    f[0] = first /\ \A n \in Nat : f[n + 1] = next[<<n, f[n]>>]

(* A first value and a rule for the next one make a function on Nat: its   *)
(* initial segments exist, each extends those before it, and their last    *)
(* values are its values.                                                  *)
LEMMA RecursiveFunction ==
  ASSUME NEW S, NEW first \in S, NEW next \in [Nat \X S -> S]
  PROVE  \E f \in [Nat -> S] : Recurs(f, first, next)
<1> DEFINE Segment(g, n) ==
      /\ g \in [0..n -> S]
      /\ g[0] = first
      /\ \A k \in 0..(n - 1) : g[k + 1] = next[<<k, g[k]>>]
    Reached == {n \in Nat : \E g : Segment(g, n)}
<1>1. \A n \in Nat : n \in Reached
  <2>1. 0 \in Reached
    <3>1. Segment([k \in 0..0 |-> first], 0)
      OBVIOUS
    <3> QED
      BY <3>1
  <2>2. ASSUME NEW n \in Nat, n \in Reached PROVE n + 1 \in Reached
    <3>1. PICK g : Segment(g, n)
      BY <2>2
    <3> DEFINE h == [k \in 0..(n + 1) |->
                       IF k = n + 1 THEN next[<<n, g[n]>>] ELSE g[k]]
    <3>2. h \in [0..(n + 1) -> S]
      BY <3>1
    <3>3. h[0] = first
      BY <3>1
    <3>4. ASSUME NEW k \in 0..n PROVE h[k + 1] = next[<<k, h[k]>>]
      <4>1. h[k] = g[k]
        OBVIOUS
      <4>2. CASE k = n
        <5>1. h[n + 1] = next[<<n, g[n]>>]
          OBVIOUS
        <5> QED
          BY <4>1, <4>2, <5>1
      <4>3. CASE k # n
        <5>1. k \in 0..(n - 1) /\ h[k + 1] = g[k + 1]
          BY <4>3
        <5> QED
          BY <3>1, <4>1, <5>1
      <4> QED
        BY <4>2, <4>3
    <3>5. Segment(h, n + 1)
      <4> HIDE DEF h
      <4>1. (n + 1) - 1 = n
        OBVIOUS
      <4> QED
        BY <3>2, <3>3, <3>4, <4>1
    <3> HIDE DEF h, Segment
    <3> QED
      BY <3>5
  <2> HIDE DEF Reached
  <2> QED
    BY <2>1, <2>2, SetInduction
<1> DEFINE part == [n \in Nat |-> CHOOSE g : Segment(g, n)]
<1>2. ASSUME NEW n \in Nat PROVE Segment(part[n], n)
  BY <1>1
<1> HIDE DEF part
<1> DEFINE Settled == {n \in Nat : \A m \in Nat : n <= m => part[m][n] = part[n][n]}
<1>3. \A n \in Nat : n \in Settled
  <2>1. 0 \in Settled
    BY <1>2
  <2>2. ASSUME NEW n \in Nat, n \in Settled PROVE n + 1 \in Settled
    <3> SUFFICES ASSUME NEW m \in Nat, n + 1 <= m
                 PROVE  part[m][n + 1] = part[n + 1][n + 1]
      OBVIOUS
    <3>1. part[m][n + 1] = next[<<n, part[m][n]>>]
      BY <1>2
    <3>2. part[n + 1][n + 1] = next[<<n, part[n + 1][n]>>]
      BY <1>2
    <3> QED
      BY <3>1, <3>2, <2>2
  <2> HIDE DEF Settled
  <2> QED
    BY <2>1, <2>2, SetInduction
<1> DEFINE f == [n \in Nat |-> part[n][n]]
<1>4. f \in [Nat -> S] /\ f[0] = first
  BY <1>2
<1>5. ASSUME NEW n \in Nat PROVE f[n + 1] = next[<<n, f[n]>>]
  <2>1. part[n + 1][n + 1] = next[<<n, part[n + 1][n]>>]
    BY <1>2
  <2>2. part[n + 1][n] = part[n][n]
    BY <1>3
  <2> QED
    BY <2>1, <2>2
<1> QED
  BY <1>4, <1>5 DEF Recurs
=============================================================================
