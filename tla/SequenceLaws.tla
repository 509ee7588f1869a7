---------------------------- MODULE SequenceLaws -----------------------------
(***************************************************************************)
(* Laws of sequences, for every sequence: induction over the natural       *)
(* numbers, concatenation, cutting a sequence in two, and what FlattenSeq  *)
(* computes.                                                               *)
(*                                                                         *)
(* The library's induction theorems take an operator as parameter, which   *)
(* the provers cannot instantiate. The set of the numbers with a property  *)
(* is a value, and can be: NatSetInduction follows from the minimal        *)
(* element of a well-founded relation.                                     *)
(***************************************************************************)
EXTENDS Integers, SequencesExt, WellFoundedInduction, SequenceTheorems, TLAPS

(* Induction over the natural numbers, with a set in the place of the predicate. *)
LEMMA NatSetInduction ==
    ASSUME NEW G, 0 \in G, \A n \in Nat : n \in G => n + 1 \in G
    PROVE  Nat \subseteq G
  <1>. SUFFICES ASSUME NEW x \in Nat, x \notin G PROVE FALSE
    OBVIOUS
  <1>. DEFINE R == {p \in Nat \X Nat : p[1] < p[2]}
  <1>1. IsWellFoundedOn(R, Nat)
    BY NatLessThanWellFounded, Zenon DEF OpToRel
  <1>2. \A y, z \in Nat : y < z => <<y, z>> \in R
    BY SMT
  <1>. HIDE DEF R
  <1>3. PICK m \in Nat \ G : \A y \in Nat \ G : ~(<<y, m>> \in R)
    BY <1>1, WFMin
  <1>4. m # 0 /\ m - 1 \in Nat /\ m - 1 < m
    OBVIOUS
  <1>5. m - 1 \in G BY <1>2, <1>3, <1>4
  <1>. QED BY <1>4, <1>5

(* Concatenation is associative. *)
LEMMA ConcatAssoc ==
    \A S : \A x, y, z \in Seq(S) : (x \o y) \o z = x \o (y \o z)
  BY ConcatAssociative, Zenon

(* A prefix of s behind old, and the next element of s. *)
LEMMA AppendNext ==
    ASSUME NEW S, NEW old \in Seq(S), NEW s \in Seq(S), NEW k \in 0..(Len(s) - 1)
    PROVE  Append(old \o SubSeq(s, 1, k), s[k + 1]) = old \o SubSeq(s, 1, k + 1)
  <1>1. \A a \in Seq(S), e \in S : Append(old \o a, e) = old \o Append(a, e)
    BY ONLY SMTT(60), old \in Seq(S)
  <1>2. SubSeq(s, 1, k) \in Seq(S) /\ s[k + 1] \in S
    OBVIOUS
  <1>3. SubSeq(s, 1, k + 1) = Append(SubSeq(s, 1, k), s[k + 1])
    OBVIOUS
  <1>. QED BY <1>1, <1>2, <1>3

(* A sequence cut in two. *)
LEMMA SplitSeq ==
    ASSUME NEW S, NEW s \in Seq(S), NEW n \in 0..Len(s)
    PROVE  /\ SubSeq(s, 1, n) \in Seq(S) /\ Len(SubSeq(s, 1, n)) = n
           /\ SubSeq(s, n + 1, Len(s)) \in Seq(S)
           /\ SubSeq(s, 1, n) \o SubSeq(s, n + 1, Len(s)) = s
  <1>1. Len(s) \in Nat OBVIOUS
  <1>2. SubSeq(s, 1, n) \in Seq(S) /\ Len(SubSeq(s, 1, n)) = n
    OBVIOUS
  <1>3. SubSeq(s, n + 1, Len(s)) \in Seq(S)
    OBVIOUS
  <1>4. SubSeq(s, 1, n) \o SubSeq(s, n + 1, Len(s)) = SubSeq(s, 1, Len(s))
    <2>1. 1 \in 1..(Len(s) + 1) /\ n \in (1 - 1)..Len(s) /\ Len(s) \in n..Len(s) BY <1>1
    <2>. QED BY <2>1, ConcatAdjacentSubSeq
  <1>5. SubSeq(s, 1, Len(s)) = s BY SubSeqFull
  <1>. QED BY <1>2, <1>3, <1>4, <1>5

(* Concatenation as an operator of the project: the provers instantiate a law about
   Cat, and none about the built-in \o. *)
Cat(x, y) == x \o y

(* Cat of sequences is a sequence. *)
LEMMA CatType == \A S : \A x, y \in Seq(S) : Cat(x, y) \in Seq(S)
  BY ConcatProperties DEF Cat

(* The empty sequence is the unit of Cat. *)
LEMMA CatEmpty == \A S : \A x \in Seq(S) : Cat(x, <<>>) = x /\ Cat(<<>>, x) = x
  BY ConcatEmptySeq DEF Cat

(* Cat is associative. *)
LEMMA CatAssoc ==
    \A S : \A x, y, z \in Seq(S) : Cat(Cat(x, y), z) = Cat(x, Cat(y, z))
  BY ConcatAssociative DEF Cat

(* A part of the second of three sequences, moved to the third. *)
LEMMA CatMove ==
    ASSUME NEW S, NEW a \in Seq(S), NEW b \in Seq(S), NEW x \in Seq(S), NEW y \in Seq(S)
    PROVE  Cat(Cat(a, Cat(b, x)), y) = Cat(Cat(a, b), Cat(x, y))
  <1>1. Cat(a, b) \in Seq(S) BY CatType
  <1>. QED BY <1>1, CatAssoc

(* FlattenSeq concatenates from the left: there is a sequence of partial results that
   begins empty, grows by one element of q in each step, and ends with FlattenSeq(q). *)
LEMMA FlattenTrace ==
    ASSUME NEW S, NEW q \in Seq(Seq(S))
    PROVE  \E t \in [0..Len(q) -> Seq(S)] :
              /\ t[0] = <<>>
              /\ \A k \in 0..(Len(q) - 1) : t[k + 1] = t[k] \o q[k + 1]
              /\ t[Len(q)] = FlattenSeq(q)
  <1>. DEFINE n == Len(q)
              Step(g, i) == IF i = 1 THEN q[i] ELSE g[i - 1] \o q[i]
              Def(g, k) == [i \in 1..k |-> Step(g, i)]
              G == {k \in Nat : \E g : g = Def(g, k)}
              iter == CHOOSE g : g = Def(g, n)
  <1>0. n \in Nat /\ \A k \in 1..n : q[k] \in Seq(S) OBVIOUS
  <1>1. 0 \in G
    <2>. DEFINE e == [i \in 1..0 |-> q[i]]
    <2>1. e = Def(e, 0) BY SMT
    <2>. HIDE DEF Def, e
    <2>. QED BY <2>1
  <1>2. ASSUME NEW k \in Nat, k \in G PROVE k + 1 \in G
    <2>1. PICK g : g = Def(g, k) BY <1>2
    <2>. DEFINE h == [i \in 1..(k + 1) |-> IF i = k + 1 THEN Step(g, i) ELSE g[i]]
    <2>2. ASSUME NEW i \in 1..(k + 1) PROVE h[i] = Step(h, i)
      <3>1. i # 1 => i - 1 \in 1..(k + 1) /\ i - 1 # k + 1 /\ h[i - 1] = g[i - 1]
        BY SMT
      <3>2. Step(h, i) = Step(g, i)
        <4>. HIDE DEF h
        <4>. QED BY <3>1, Zenon
      <3>3. CASE i = k + 1 BY <3>2, <3>3, Zenon
      <3>4. CASE i # k + 1
        <4>1. i \in 1..k BY <3>4
        <4>2. h[i] = g[i] BY <3>4, Zenon
        <4>3. g[i] = Step(g, i) BY <2>1, <4>1, Zenon
        <4>. QED BY <3>2, <4>2, <4>3, Zenon
      <3>. QED BY <3>3, <3>4
    <2>3. h = Def(h, k + 1)
      <3>1. h = [i \in 1..(k + 1) |-> h[i]] OBVIOUS
      <3>. HIDE DEF h, Step
      <3>. QED BY <2>2, <3>1, Zenon
    <2>. HIDE DEF h, Def
    <2>. QED BY <2>3
  <1>3. iter = Def(iter, n)
    <2>1. n \in G
      <3>. HIDE DEF G
      <3>. QED BY <1>0, <1>1, <1>2, NatSetInduction
    <2>2. \E g : g = Def(g, n) BY <2>1
    <2>. QED BY <2>2, Zenon
  <1>4. n # 0 => FlattenSeq(q) = iter[n]
    BY Zenon DEF FlattenSeq
  <1>5. n = 0 => FlattenSeq(q) = <<>>
    BY DEF FlattenSeq
  <1>. HIDE DEF iter
  <1>6. \A i \in 1..n : iter[i] = Step(iter, i)
    <2>. HIDE DEF Step
    <2>. QED BY <1>3, Zenon
  <1>. DEFINE t == [k \in 0..n |-> IF k = 0 THEN <<>> ELSE iter[k]]
  <1>7. t[0] = <<>> /\ t[n] = FlattenSeq(q) /\ DOMAIN t = 0..n
    BY <1>0, <1>4, <1>5
  <1>8. ASSUME NEW k \in 0..(n - 1)
        PROVE  /\ k + 1 \in 1..n /\ q[k + 1] \in Seq(S)
               /\ t[k + 1] = IF k = 0 THEN q[k + 1] ELSE t[k] \o q[k + 1]
    <2>1. k + 1 \in 1..n /\ k \in 0..n /\ k + 1 \in 0..n /\ k + 1 # 0 /\ k + 1 - 1 = k
      BY <1>0
    <2>2. k = 0 <=> k + 1 = 1 OBVIOUS
    <2>3. t[k + 1] = iter[k + 1] /\ (k # 0 => t[k] = iter[k]) BY <2>1
    <2>4. iter[k + 1] = IF k + 1 = 1 THEN q[k + 1] ELSE iter[k] \o q[k + 1]
      <3>1. iter[k + 1] = Step(iter, k + 1) BY <1>6, <2>1, Zenon
      <3>2. iter[k + 1 - 1] = iter[k] BY <2>1
      <3>. HIDE DEF n, t
      <3>. QED BY <3>1, <3>2
    <2>5. q[k + 1] \in Seq(S) BY <1>0, <2>1, Zenon
    <2>. HIDE DEF t
    <2>. QED BY <2>1, <2>2, <2>3, <2>4, <2>5, Zenon
  <1>9. t = [k \in 0..n |-> t[k]] OBVIOUS
  <1>. HIDE DEF t, n
  <1>10. \A k \in Nat : k \in 0..n => t[k] \in Seq(S)
    <2>. DEFINE H == {k \in Nat : k \in 0..n => t[k] \in Seq(S)}
    <2>1. 0 \in H BY <1>7, EmptySeq
    <2>2. ASSUME NEW k \in Nat, k \in H PROVE k + 1 \in H
      <3>. SUFFICES ASSUME k + 1 \in 0..n PROVE t[k + 1] \in Seq(S)
        OBVIOUS
      <3>1. k \in 0..(n - 1) /\ k \in 0..n BY <1>0
      <3>2. t[k] \in Seq(S) /\ q[k + 1] \in Seq(S) BY <1>8, <2>2, <3>1, Zenon
      <3>3. t[k] \o q[k + 1] \in Seq(S) BY <3>2, ConcatProperties
      <3>. QED BY <1>8, <3>1, <3>2, <3>3, Zenon
    <2>. HIDE DEF H
    <2>3. Nat \subseteq H BY <2>1, <2>2, NatSetInduction
    <2>. QED BY <2>3 DEF H
  <1>11. \A k \in 0..(n - 1) : t[k + 1] = t[k] \o q[k + 1]
    <2>. SUFFICES ASSUME NEW k \in 0..(n - 1) PROVE t[k + 1] = t[k] \o q[k + 1]
      OBVIOUS
    <2>1. k = 0 => q[k + 1] = t[k] \o q[k + 1]
      <3>1. <<>> \o q[k + 1] = q[k + 1] BY <1>8, ConcatEmptySeq
      <3>. QED BY <1>7, <3>1, Zenon
    <2>. QED BY <1>8, <2>1, Zenon
  <1>12. t \in [0..n -> Seq(S)]
    <2>1. \A k \in 0..n : t[k] \in Seq(S)
      BY <1>0, <1>10
    <2>. QED BY <1>9, <2>1, Zenon
  <1>. QED BY <1>7, <1>11, <1>12, Zenon DEF n

(* FlattenSeq of nothing. *)
LEMMA FlattenEmpty == FlattenSeq(<<>>) = <<>>
  BY DEF FlattenSeq

(* FlattenSeq of sequences over S is a sequence over S. *)
LEMMA FlattenType ==
    ASSUME NEW S, NEW q \in Seq(Seq(S))
    PROVE  FlattenSeq(q) \in Seq(S)
  <1>1. Len(q) \in 0..Len(q) BY LenProperties
  <1>2. PICK t \in [0..Len(q) -> Seq(S)] : t[Len(q)] = FlattenSeq(q) BY FlattenTrace, Zenon
  <1>. QED BY <1>1, <1>2, Zenon

(* An element appended to q is appended to what q flattens to. *)
LEMMA FlattenAppend ==
    ASSUME NEW S, NEW q \in Seq(Seq(S)), NEW e \in Seq(S)
    PROVE  FlattenSeq(Append(q, e)) = FlattenSeq(q) \o e
  <1>. DEFINE r == Append(q, e)
              n == Len(q)
  <1>1. /\ r \in Seq(Seq(S)) /\ n \in Nat /\ Len(r) = n + 1
        /\ r[n + 1] = e /\ \A k \in 1..n : r[k] = q[k]
    BY AppendProperties, LenProperties
  <1>2. PICK t \in [0..n -> Seq(S)] :
           /\ t[0] = <<>>
           /\ \A k \in 0..(n - 1) : t[k + 1] = t[k] \o q[k + 1]
           /\ t[n] = FlattenSeq(q)
    BY FlattenTrace
  <1>. HIDE DEF r
  <1>3. PICK u \in [0..Len(r) -> Seq(S)] :
           /\ u[0] = <<>>
           /\ \A k \in 0..(Len(r) - 1) : u[k + 1] = u[k] \o r[k + 1]
           /\ u[Len(r)] = FlattenSeq(r)
    BY <1>1, FlattenTrace
  <1>. HIDE DEF n
  <1>. DEFINE H == {k \in Nat : k \in 0..n => u[k] = t[k]}
  <1>4. 0 \in H BY <1>2, <1>3
  <1>5. ASSUME NEW k \in Nat, k \in H PROVE k + 1 \in H
    <2>. SUFFICES ASSUME k + 1 \in 0..n PROVE u[k + 1] = t[k + 1]
      OBVIOUS
    <2>1. k \in 0..(n - 1) /\ k \in 0..(Len(r) - 1) /\ k \in 0..n /\ k + 1 \in 1..n BY <1>1
    <2>2. u[k + 1] = u[k] \o r[k + 1] BY <1>3, <2>1, Zenon
    <2>3. t[k + 1] = t[k] \o q[k + 1] BY <1>2, <2>1, Zenon
    <2>. QED BY <1>1, <1>5, <2>1, <2>2, <2>3, Zenon
  <1>6. n \in H
    <2>. HIDE DEF H
    <2>. QED BY <1>1, <1>4, <1>5, NatSetInduction
  <1>7. u[n] = FlattenSeq(q)
    <2>1. n \in 0..n BY <1>1
    <2>. QED BY <1>2, <1>6, <2>1, Zenon
  <1>8. u[n + 1] = u[n] \o e
    <2>1. n \in 0..(Len(r) - 1) BY <1>1
    <2>. QED BY <1>1, <1>3, <2>1, Zenon
  <1>. QED BY <1>1, <1>3, <1>7, <1>8, Zenon DEF r

(* What q flattens to begins with its head. *)
LEMMA FlattenHead ==
    ASSUME NEW S, NEW q \in Seq(Seq(S)), q # <<>>
    PROVE  FlattenSeq(q) = Head(q) \o FlattenSeq(Tail(q))
  <1>. DEFINE r == Tail(q)
              n == Len(r)
  <1>h. PICK h : h = Head(q) OBVIOUS
  <1>0. \A x, y \in Seq(S) : (h \o x) \o y = h \o (x \o y)
    <2>1. h \in Seq(S) BY <1>h, HeadTailProperties
    <2>. QED BY SMTT(60), <2>1, ConcatAssoc
  <1>1. /\ r \in Seq(Seq(S)) /\ n \in Nat /\ Len(q) = n + 1 /\ h \in Seq(S)
        /\ q[1] = h /\ \A k \in 1..n : r[k] = q[k + 1]
    BY <1>h, HeadTailProperties, LenProperties
  <1>2. PICK u \in [0..Len(q) -> Seq(S)] :
           /\ u[0] = <<>>
           /\ \A k \in 0..(Len(q) - 1) : u[k + 1] = u[k] \o q[k + 1]
           /\ u[Len(q)] = FlattenSeq(q)
    BY FlattenTrace
  <1>. HIDE DEF r
  <1>3. PICK t \in [0..n -> Seq(S)] :
           /\ t[0] = <<>>
           /\ \A k \in 0..(n - 1) : t[k + 1] = t[k] \o r[k + 1]
           /\ t[n] = FlattenSeq(r)
    BY <1>1, FlattenTrace
  <1>. HIDE DEF n
  <1>. DEFINE H == {k \in Nat : k \in 0..n => u[k + 1] = h \o t[k]}
  <1>4. 0 \in H
    <2>1. 0 \in 0..(Len(q) - 1) /\ 0 + 1 = 1 BY <1>1
    <2>2. u[1] = <<>> \o h BY <1>1, <1>2, <2>1, Zenon
    <2>3. <<>> \o h = h /\ h \o <<>> = h BY <1>1, ConcatEmptySeq
    <2>. QED BY <1>3, <2>1, <2>2, <2>3, Zenon
  <1>5. ASSUME NEW k \in Nat, k \in H PROVE k + 1 \in H
    <2>. SUFFICES ASSUME k + 1 \in 0..n PROVE u[k + 2] = h \o t[k + 1]
      OBVIOUS
    <2>1. /\ k + 1 \in 1..n /\ k + 1 \in 0..(Len(q) - 1) /\ k \in 0..n
          /\ k \in 0..(n - 1) /\ k + 1 + 1 = k + 2
      BY <1>1
    <2>2. u[k + 2] = u[k + 1] \o q[k + 2] BY <1>2, <2>1, Zenon
    <2>3. t[k + 1] = t[k] \o r[k + 1] /\ r[k + 1] = q[k + 2] BY <1>1, <1>3, <2>1, Zenon
    <2>4. u[k + 1] = h \o t[k] BY <1>5, <2>1
    <2>5. t[k] \in Seq(S) /\ r[k + 1] \in Seq(S) BY <1>1, <1>3, <2>1, ElementOfSeq DEF n
    <2>6. (h \o t[k]) \o r[k + 1] = h \o (t[k] \o r[k + 1])
      BY <1>0, <2>5
    <2>. QED BY <2>2, <2>3, <2>4, <2>6
  <1>6. n \in H
    <2>. HIDE DEF H
    <2>. QED BY <1>1, <1>4, <1>5, NatSetInduction
  <1>7. n \in 0..n /\ n + 1 = Len(q) BY <1>1
  <1>. QED BY <1>h, <1>2, <1>3, <1>6, <1>7, Zenon DEF r

(* Min of a nonempty set of natural numbers is its least element. *)
LEMMA LeastNat ==
    ASSUME NEW G \in SUBSET Nat, G # {}
    PROVE  Min(G) \in G /\ \A y \in G : Min(G) <= y
  <1>. DEFINE R == {p \in Nat \X Nat : p[1] < p[2]}
  <1>1. IsWellFoundedOn(R, Nat)
    BY NatLessThanWellFounded, Zenon DEF OpToRel
  <1>2. \A y, z \in Nat : y < z => <<y, z>> \in R
    BY SMT
  <1>. HIDE DEF R
  <1>3. PICK m \in G : \A y \in G : ~(<<y, m>> \in R)
    BY <1>1, WFMin
  <1>4. ASSUME NEW y \in G PROVE m <= y
    <2>1. ~(y < m) BY <1>2, <1>3, Zenon
    <2>2. y \in Nat /\ m \in Nat OBVIOUS
    <2>. QED BY <2>1, <2>2
  <1>. QED BY <1>4, Zenon DEF Min

(* The elements of s with e inserted before position i. *)
LEMMA InsertAtElements ==
    ASSUME NEW S, NEW s \in Seq(S), NEW i \in 1..(Len(s) + 1), NEW e \in S
    PROVE  /\ InsertAt(s, i, e) \in Seq(S) /\ Len(InsertAt(s, i, e)) = Len(s) + 1
           /\ \A k \in 1..(i - 1) : InsertAt(s, i, e)[k] = s[k]
           /\ InsertAt(s, i, e)[i] = e
           /\ \A k \in i..Len(s) : InsertAt(s, i, e)[k + 1] = s[k]
  <1>1. PICK a, b : a = SubSeq(s, 1, i - 1) /\ b = SubSeq(s, i, Len(s)) OBVIOUS
  <1>2. Len(s) \in Nat /\ i - 1 \in 0..Len(s) /\ i \in Nat OBVIOUS
  <1>3. /\ a \in Seq(S) /\ Len(a) = i - 1 /\ \A k \in 1..(i - 1) : a[k] = s[k]
        /\ b \in Seq(S) /\ Len(b) = Len(s) - i + 1 /\ \A k \in 1..Len(b) : b[k] = s[i + k - 1]
    BY <1>1, <1>2
  <1>4. PICK c : c = a \o <<e>> OBVIOUS
  <1>5. /\ c \in Seq(S) /\ Len(c) = i /\ c[i] = e /\ \A k \in 1..(i - 1) : c[k] = a[k]
    BY <1>2, <1>3, <1>4
  <1>6. PICK r : r = c \o b OBVIOUS
  <1>7. /\ r \in Seq(S) /\ Len(r) = i + Len(b) /\ \A k \in 1..i : r[k] = c[k]
        /\ \A k \in (i + 1)..(i + Len(b)) : r[k] = b[k - i]
    BY <1>2, <1>3, <1>5, <1>6
  <1>8. InsertAt(s, i, e) = r BY <1>1, <1>4, <1>6 DEF InsertAt
  <1>9. \A k \in 1..(i - 1) : r[k] = s[k] BY <1>2, <1>3, <1>5, <1>7
  <1>10. r[i] = e BY <1>2, <1>5, <1>7
  <1>11. ASSUME NEW k \in i..Len(s) PROVE r[k + 1] = s[k]
    <2>1. PICK j \in 1..Len(b) : j = k + 1 - i BY <1>2, <1>3
    <2>2. k + 1 \in (i + 1)..(i + Len(b)) /\ (k + 1) - i = j /\ i + j - 1 = k BY <1>2, <1>3, <2>1
    <2>3. r[k + 1] = b[(k + 1) - i] BY <1>7, <2>2
    <2>4. b[j] = s[i + j - 1] BY <1>3
    <2>. QED BY <2>2, <2>3, <2>4
  <1>. QED BY <1>2, <1>3, <1>7, <1>8, <1>9, <1>10, <1>11

(* The elements of s without the one at position i. *)
LEMMA RemoveAtElements ==
    ASSUME NEW S, NEW s \in Seq(S), NEW i \in 1..Len(s)
    PROVE  /\ RemoveAt(s, i) \in Seq(S) /\ Len(RemoveAt(s, i)) = Len(s) - 1
           /\ \A k \in 1..(i - 1) : RemoveAt(s, i)[k] = s[k]
           /\ \A k \in i..(Len(s) - 1) : RemoveAt(s, i)[k] = s[k + 1]
  <1>1. PICK a, b : a = SubSeq(s, 1, i - 1) /\ b = SubSeq(s, i + 1, Len(s)) OBVIOUS
  <1>2. Len(s) \in Nat /\ i - 1 \in 0..Len(s) /\ i \in Nat OBVIOUS
  <1>3. /\ a \in Seq(S) /\ Len(a) = i - 1 /\ \A k \in 1..(i - 1) : a[k] = s[k]
        /\ b \in Seq(S) /\ Len(b) = Len(s) - i /\ \A k \in 1..Len(b) : b[k] = s[i + k]
    BY <1>1, <1>2
  <1>4. PICK r : r = a \o b OBVIOUS
  <1>5. r \in Seq(S) /\ Len(r) = Len(a) + Len(b) /\ Len(b) \in Nat /\ Len(a) \in Nat
    BY <1>3, <1>4, ConcatProperties, LenProperties
  <1>6. \A k \in 1..Len(a) : r[k] = a[k]
    BY <1>3, <1>4
  <1>7. \A k \in 1..Len(b) : r[Len(a) + k] = b[k]
    BY <1>3, <1>4
  <1>8. RemoveAt(s, i) = r BY <1>1, <1>4 DEF RemoveAt
  <1>9. ASSUME NEW k \in i..(Len(s) - 1) PROVE r[k] = s[k + 1]
    <2>1. PICK j \in 1..Len(b) : j = k - i + 1 BY <1>2, <1>3
    <2>2. Len(a) + j = k /\ i + j = k + 1 BY <1>2, <1>3, <2>1
    <2>3. r[Len(a) + j] = b[j] /\ b[j] = s[i + j] BY <1>3, <1>7
    <2>. QED BY <2>2, <2>3
  <1>10. ASSUME NEW k \in 1..(i - 1) PROVE r[k] = s[k]
    BY <1>3, <1>6
  <1>11. Len(r) = Len(s) - 1 BY <1>2, <1>3, <1>5
  <1>. QED BY <1>5, <1>8, <1>9, <1>10, <1>11

=============================================================================
