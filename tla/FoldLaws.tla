------------------------------ MODULE FoldLaws -------------------------------
(***************************************************************************)
(* What FoldLeft computes, for every operator: instantiated with the       *)
(* operator of a fold of the project, FoldTrace turns that fold into a     *)
(* sequence of steps an induction can follow.                              *)
(***************************************************************************)
EXTENDS SequenceLaws
CONSTANT op(_, _, _)
(* The fold from the left, with the operator that instantiates this module. *)
Fold(w, b, s) == FoldLeft(LAMBDA d, e : op(w, d, e), b, s)

(* The largest element of a subset of 1..(k+1) that holds k+1. *)
LEMMA MaxPrefix ==
    ASSUME NEW k \in Nat, NEW t \in SUBSET (1..(k+1)), k + 1 \in t
    PROVE  Max(t) = k + 1
  <1>1. \A y \in t : k + 1 >= y
    OBVIOUS
  <1>2. \A x \in t : (\A y \in t : x >= y) => x = k + 1
    OBVIOUS
  <1>. QED BY <1>1, <1>2, Zenon DEF Max

(* t is the run of the fold of n elements of s from b, and ends with x. *)
Steps(w, b, s, n, t, x) ==
    /\ t[0] = b
    /\ \A k \in 0..(n - 1) : t[k + 1] = op(w, t[k], s[k + 1])
    /\ t[n] = x

(* FoldLeft applies op to the elements of s in order: there is a sequence of partial
   results that begins with b, makes one step of op for each element of s, and ends
   with the result of the fold. *)
LEMMA FoldTrace ==
    \A w, b, s : \A n \in Nat : DOMAIN s = 1..n => \E t : Steps(w, b, s, n, t, Fold(w, b, s))
  <1>. SUFFICES ASSUME NEW w, NEW b, NEW s, NEW n \in Nat, DOMAIN s = 1..n
                PROVE  \E t : Steps(w, b, s, n, t, Fold(w, b, s))
    BY Zenon
  <1>. DEFINE Step(g, u) == IF u = {} THEN b ELSE op(w, g[u \ {Max(u)}], s[Max(u)])
              Def(g, k) == [u \in SUBSET (1..k) |-> Step(g, u)]
              G == {k \in Nat : \E g : g = Def(g, k)}
              iter == CHOOSE g : g = Def(g, n)
  <1>1. 0 \in G
    <2>. DEFINE e == [u \in SUBSET (1..0) |-> b]
    <2>1. e = Def(e, 0) BY SMT
    <2>. HIDE DEF Def, e
    <2>. QED BY <2>1
  <1>2. ASSUME NEW k \in Nat, k \in G PROVE k + 1 \in G
    <2>1. PICK g : g = Def(g, k) BY <1>2
    <2>. DEFINE h == [u \in SUBSET (1..(k + 1)) |->
                        IF k + 1 \in u THEN op(w, g[u \ {k + 1}], s[k + 1]) ELSE g[u]]
    <2>2. ASSUME NEW u \in SUBSET (1..(k + 1)) PROVE h[u] = Step(h, u)
      <3>0. \A v \in SUBSET (1..k) : v \in SUBSET (1..(k + 1)) /\ k + 1 \notin v /\ h[v] = g[v]
        BY SMT
      <3>1. CASE k + 1 \in u
        <4>1. Max(u) = k + 1 BY <3>1, MaxPrefix
        <4>2. u \ {k + 1} \in SUBSET (1..k) BY SMT
        <4>3. h[u \ {k + 1}] = g[u \ {k + 1}] BY <3>0, <4>2, Zenon
        <4>4. h[u] = op(w, g[u \ {k + 1}], s[k + 1]) BY <3>1
        <4>5. Step(h, u) = op(w, h[u \ {k + 1}], s[k + 1])
          <5>. HIDE DEF h
          <5>. QED BY <3>1, <4>1, Zenon
        <4>. HIDE DEF h, Step
        <4>. QED BY <4>3, <4>4, <4>5
      <3>2. CASE k + 1 \notin u
        <4>1. u \in SUBSET (1..k) BY <3>2
        <4>2. h[u] = g[u] BY <3>0, <4>1, Zenon
        <4>3. g[u] = Step(g, u) BY <2>1, <4>1, Zenon
        <4>4. u # {} => u \ {Max(u)} \in SUBSET (1..k) BY <4>1, Zenon
        <4>5. u # {} => h[u \ {Max(u)}] = g[u \ {Max(u)}] BY <3>0, <4>4, Zenon
        <4>6. Step(h, u) = Step(g, u)
          <5>. HIDE DEF h
          <5>. QED BY <4>5, Zenon
        <4>. QED BY <4>2, <4>3, <4>6, Zenon
      <3>. QED BY <3>1, <3>2
    <2>3. h = Def(h, k + 1)
      <3>1. h = [u \in SUBSET (1..(k + 1)) |-> h[u]] OBVIOUS
      <3>. HIDE DEF h, Step
      <3>. QED BY <2>2, <3>1, Zenon
    <2>. HIDE DEF h, Def
    <2>. QED BY <2>3
  <1>3. n \in G
    <2>. HIDE DEF G
    <2>. QED BY <1>1, <1>2, NatSetInduction
  <1>4. iter = Def(iter, n)
    <2>1. \E g : g = Def(g, n) BY <1>3
    <2>. QED BY <2>1, Zenon
  <1>5. Fold(w, b, s) = iter[1..n]
    BY Zenon DEF Fold, FoldLeft, MapThenFoldSet
  <1>6. ASSUME NEW k \in 1..n PROVE iter[1..k] = op(w, iter[1..(k-1)], s[k])
    <2>1. 1..k \in SUBSET (1..n) /\ 1..k # {}
      <3>1. k \in 1..k OBVIOUS
      <3>2. \A j \in 1..k : j \in 1..n OBVIOUS
      <3>. QED BY <3>1, <3>2, Zenon
    <2>2. Max(1..k) = k BY DEF Max
    <2>3. (1..k) \ {k} = 1..(k - 1) OBVIOUS
    <2>4. iter[1..k] = Step(iter, 1..k)
      <3>. HIDE DEF iter, Step
      <3>. QED BY <1>4, <2>1, Zenon
    <2>. HIDE DEF iter
    <2>. QED BY <2>1, <2>2, <2>3, <2>4, Zenon
  <1>7. iter[{}] = b
    <2>1. {} \in SUBSET (1..n) /\ Step(iter, {}) = b BY Zenon
    <2>. HIDE DEF iter, Step
    <2>. QED BY <1>4, <2>1, Zenon
  <1>. DEFINE t == [k \in 0..n |-> iter[1..k]]
  <1>8. t[0] = b
    <2>1. 1..0 = {} OBVIOUS
    <2>2. t[0] = iter[1..0]
      <3>. HIDE DEF iter
      <3>. QED OBVIOUS
    <2>. HIDE DEF iter
    <2>. QED BY <1>7, <2>1, <2>2
  <1>9. \A k \in 1..n : t[k] = op(w, t[k - 1], s[k])
    <2>. HIDE DEF iter
    <2>1. \A k \in 1..n : t[k] = iter[1..k] /\ t[k - 1] = iter[1..(k - 1)] BY SMT
    <2>. HIDE DEF t
    <2>. QED BY <1>6, <2>1
  <1>10. t[n] = Fold(w, b, s)
    <2>. HIDE DEF iter
    <2>. QED BY <1>5
  <1>. HIDE DEF t
  <1>11. ASSUME NEW k \in 0..(n - 1) PROVE t[k + 1] = op(w, t[k], s[k + 1])
    <2>1. PICK j \in 1..n : j = k + 1 OBVIOUS
    <2>2. j - 1 = k BY <2>1
    <2>3. t[j] = op(w, t[j - 1], s[j]) BY <1>9, Zenon
    <2>. QED BY <2>1, <2>2, <2>3, Zenon
  <1>. QED BY <1>8, <1>10, <1>11, Zenon DEF Steps

=============================================================================
