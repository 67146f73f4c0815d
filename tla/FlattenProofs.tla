---------------------------- MODULE FlattenProofs ----------------------------
(***************************************************************************)
(* What FlattenSeq computes, for every sequence of sequences.  The parser's *)
(* tree, the signed text of a certificate and the binder file are flattened *)
(* sequences, and the index of the walk counts children of the tree.        *)
(*                                                                          *)
(* An induction is stated with a set instead of a predicate, which the      *)
(* provers instantiate, and rests on the least element of a set of numbers. *)
(***************************************************************************)
EXTENDS Integers, Sequences, SequencesExt, SequenceTheorems,
        WellFoundedInduction, TLAPS

\* A set of numbers that is not empty has a least element.
LEMMA LeastElement ==
  ASSUME NEW S \in SUBSET Nat, NEW n \in S
  PROVE  \E m \in S : \A k \in S : m <= k
<1>1. PICK m \in S : \A k \in S : ~(<<k, m>> \in OpToRel(<, Nat))
  BY NatLessThanWellFounded, WFMin
<1>2. \A k \in S : ~(k < m) BY <1>1 DEF OpToRel
<1> QED BY <1>2

\* Induction over the numbers.
LEMMA SetInduction ==
  ASSUME NEW S, 0 \in S, \A n \in Nat : n \in S => n + 1 \in S
  PROVE  Nat \subseteq S
<1> SUFFICES ASSUME NEW n \in Nat, n \notin S PROVE FALSE OBVIOUS
<1> DEFINE T == {k \in Nat : k \notin S}
<1>1. T \in SUBSET Nat /\ n \in T OBVIOUS
<1>2. PICK m \in T : \A k \in T : m <= k
  <2> HIDE DEF T
  <2> QED BY <1>1, LeastElement
<1>3. m # 0 /\ m - 1 \in Nat /\ m - 1 \notin T BY <1>2
<1> QED BY <1>2, <1>3

\* Induction over sequences, by appending.
LEMMA SeqInduction ==
  ASSUME NEW T, NEW P, <<>> \in P,
         \A s \in Seq(T), x \in T : s \in P => Append(s, x) \in P
  PROVE  Seq(T) \subseteq P
<1> DEFINE S == {n \in Nat : \A s \in Seq(T) : Len(s) = n => s \in P}
<1>1. 0 \in S BY EmptySeq
<1>2. ASSUME NEW n \in Nat, n \in S PROVE n + 1 \in S
  <2> SUFFICES ASSUME NEW s \in Seq(T), Len(s) = n + 1 PROVE s \in P OBVIOUS
  <2>1. s # <<>> OBVIOUS
  <2>2. PICK t \in Seq(T), x \in T : s = Append(t, x)
    BY <2>1, SequenceEmptyOrAppend
  <2>3. Len(t) = n BY <2>2, AppendProperties
  <2> QED BY <1>2, <2>2, <2>3
<1> HIDE DEF S
<1>3. Nat \subseteq S BY <1>1, <1>2, SetInduction
<1> SUFFICES ASSUME NEW s \in Seq(T) PROVE s \in P OBVIOUS
<1>4. Len(s) \in S BY <1>3, LenProperties
<1> QED BY <1>4 DEF S

-----------------------------------------------------------------------------
(* The recursive function of FlattenSeq                                    *)

\* f is the function FlattenSeq computes with, up to the n-th element.
Flattens(f, s, n) ==
  f = [i \in 1 .. n |-> IF i = 1 THEN s[i] ELSE f[i - 1] \o s[i]]

LEMMA FlattensAt ==
  ASSUME NEW f, NEW s, NEW n, Flattens(f, s, n), NEW i \in 1 .. n
  PROVE  f[i] = IF i = 1 THEN s[i] ELSE f[i - 1] \o s[i]
<1> DEFINE g == [j \in 1 .. n |-> IF j = 1 THEN s[j] ELSE f[j - 1] \o s[j]]
<1>1. f = g BY Zenon DEF Flattens
<1>2. g[i] = IF i = 1 THEN s[i] ELSE f[i - 1] \o s[i] OBVIOUS
<1> HIDE DEF g
<1> QED BY <1>1, <1>2, Zenon

LEMMA FlattensExists == ASSUME NEW s, NEW n \in Nat PROVE \E f : Flattens(f, s, n)
<1> DEFINE S == {k \in Nat : \E f : Flattens(f, s, k)}
<1>1. 0 \in S
  <2>1. Flattens([i \in 1 .. 0 |-> <<>>], s, 0) BY DEF Flattens
  <2> QED BY <2>1
<1>2. ASSUME NEW k \in Nat, k \in S PROVE k + 1 \in S
  <2>1. PICK f : Flattens(f, s, k) BY <1>2
  <2> DEFINE h == [i \in 1 .. k + 1 |->
                     IF i = 1 THEN s[i] ELSE f[i - 1] \o s[i]]
  <2>2. ASSUME NEW i \in 1 .. k PROVE h[i] = f[i]
    BY <2>1, FlattensAt
  <2>3. ASSUME NEW i \in 1 .. k + 1, i # 1 PROVE h[i - 1] = f[i - 1]
    <3>1. i - 1 \in 1 .. k BY <2>3
    <3> HIDE DEF h
    <3> QED BY <2>2, <3>1
  <2>4. h = [i \in 1 .. k + 1 |-> IF i = 1 THEN s[i] ELSE h[i - 1] \o s[i]]
    BY <2>3
  <2>5. Flattens(h, s, k + 1)
    <3> HIDE DEF h
    <3> QED BY <2>4 DEF Flattens
  <2> QED BY <2>5
<1> HIDE DEF S
<1>3. Nat \subseteq S BY <1>1, <1>2, SetInduction
<1> QED BY <1>3 DEF S

LEMMA FlattenSeqIs ==
  ASSUME NEW s, Len(s) \in Nat \ {0}
  PROVE  \E f : Flattens(f, s, Len(s)) /\ FlattenSeq(s) = f[Len(s)]
<1> DEFINE f == CHOOSE g : Flattens(g, s, Len(s))
<1>1. FlattenSeq(s) = f[Len(s)] BY Zenon DEF FlattenSeq, Flattens
<1>2. Flattens(f, s, Len(s)) BY FlattensExists, Zenon
<1> QED BY <1>1, <1>2

\* s and t have the same first n elements.
Same(s, t, n) == \A i \in 1 .. n : s[i] = t[i]

\* Two of them agree as far as their sequences do.
LEMMA FlattensAgree ==
  ASSUME NEW n \in Nat, NEW m \in Nat, n <= m, NEW s, NEW t, Same(s, t, n),
         NEW f, Flattens(f, s, n), NEW g, Flattens(g, t, m)
  PROVE  Same(f, g, n)
<1> DEFINE S == {k \in Nat : k \in 1 .. n => f[k] = g[k]}
<1>1. 0 \in S OBVIOUS
<1>2. ASSUME NEW k \in Nat, k \in S PROVE k + 1 \in S
  <2> SUFFICES ASSUME k + 1 \in 1 .. n PROVE f[k + 1] = g[k + 1] OBVIOUS
  <2>0. k + 1 - 1 = k /\ k + 1 \in 1 .. m OBVIOUS
  <2>1. f[k + 1] = IF k + 1 = 1 THEN s[k + 1] ELSE f[k] \o s[k + 1]
    BY <2>0, FlattensAt
  <2>2. g[k + 1] = IF k + 1 = 1 THEN t[k + 1] ELSE g[k] \o t[k + 1]
    BY <2>0, FlattensAt
  <2> s[k + 1] = t[k + 1] BY DEF Same
  <2>3. CASE k = 0 BY <2>1, <2>2, <2>3
  <2>4. CASE k # 0 BY <1>2, <2>1, <2>2, <2>4
  <2> QED BY <2>3, <2>4
<1> HIDE DEF S
<1>3. Nat \subseteq S BY <1>1, <1>2, SetInduction
<1> QED BY <1>3 DEF S, Same

-----------------------------------------------------------------------------
(* FlattenSeq, from both ends                                              *)

LEMMA FlattenEmpty == FlattenSeq(<<>>) = <<>>
BY DEF FlattenSeq

LEMMA FlattenAppend ==
  ASSUME NEW T, NEW s \in Seq(Seq(T)), NEW x \in Seq(T)
  PROVE  FlattenSeq(Append(s, x)) = FlattenSeq(s) \o x
<1> DEFINE t == Append(s, x)  n == Len(s)
<1>1. /\ n \in Nat /\ Len(t) = n + 1 /\ t[n + 1] = x
      /\ \A i \in 1 .. n : s[i] = t[i]
  BY AppendProperties, LenProperties
<1> HIDE DEF t
<1>2. PICK g : Flattens(g, t, n + 1) /\ FlattenSeq(t) = g[n + 1]
  BY <1>1, FlattenSeqIs
<1>3. g[n + 1] = IF n + 1 = 1 THEN t[n + 1] ELSE g[n] \o t[n + 1]
  <2>1. n + 1 \in 1 .. n + 1 /\ n + 1 - 1 = n BY <1>1
  <2> QED BY <1>2, <2>1, FlattensAt
<1>4. CASE n = 0
  <2>1. s = <<>> BY <1>4
  <2> QED BY <1>1, <1>2, <1>3, <1>4, <2>1, FlattenEmpty, ConcatEmptySeq DEF t
<1>5. CASE n # 0
  <2>1. PICK f : Flattens(f, s, n) /\ FlattenSeq(s) = f[n]
    BY <1>1, <1>5, FlattenSeqIs
  <2>2. f[n] = g[n]
    <3>1. n \in 1 .. n /\ n <= n + 1 /\ n + 1 \in Nat BY <1>1, <1>5
    <3> HIDE DEF n
    <3>2. n \in Nat /\ Same(s, t, n) BY <1>1 DEF Same
    <3>3. Same(f, g, n) BY <1>2, <2>1, <3>1, <3>2, FlattensAgree
    <3> QED BY <3>1, <3>3 DEF Same
  <2> QED BY <1>1, <1>2, <1>3, <1>5, <2>1, <2>2 DEF t
<1> QED BY <1>4, <1>5

LEMMA FlattenType ==
  ASSUME NEW T, NEW s \in Seq(Seq(T)) PROVE FlattenSeq(s) \in Seq(T)
<1> DEFINE P == {t \in Seq(Seq(T)) : FlattenSeq(t) \in Seq(T)}
<1>1. <<>> \in P BY FlattenEmpty, EmptySeq
<1>2. ASSUME NEW t \in Seq(Seq(T)), NEW x \in Seq(T), t \in P
      PROVE  Append(t, x) \in P
  <2>1. FlattenSeq(Append(t, x)) = FlattenSeq(t) \o x BY FlattenAppend
  <2>2. Append(t, x) \in Seq(Seq(T)) BY AppendProperties
  <2> QED BY <1>2, <2>1, <2>2, ConcatProperties
<1> HIDE DEF P
<1>3. Seq(Seq(T)) \subseteq P BY <1>1, <1>2, SeqInduction
<1> QED BY <1>3 DEF P

LEMMA FlattenCons ==
  ASSUME NEW T, NEW s \in Seq(Seq(T)), NEW x \in Seq(T)
  PROVE  FlattenSeq(<<x>> \o s) = x \o FlattenSeq(s)
<1> DEFINE P == {t \in Seq(Seq(T)) :
                   FlattenSeq(<<x>> \o t) = x \o FlattenSeq(t)}
<1>0. <<x>> \in Seq(Seq(T)) OBVIOUS
<1>1. <<>> \in P
  <2>1. <<x>> \o <<>> = Append(<<>>, x) OBVIOUS
  <2>2. FlattenSeq(Append(<<>>, x)) = <<>> \o x
    BY FlattenAppend, FlattenEmpty, EmptySeq
  <2>3. <<>> \o x = x \o <<>> BY ConcatEmptySeq
  <2> QED BY <2>1, <2>2, <2>3, FlattenEmpty, EmptySeq
<1>2. ASSUME NEW t \in Seq(Seq(T)), NEW y \in Seq(T), t \in P
      PROVE  Append(t, y) \in P
  <2>1. <<x>> \o Append(t, y) = Append(<<x>> \o t, y)
    <3>1. <<y>> \in Seq(Seq(T)) OBVIOUS
    <3>2. Append(t, y) = t \o <<y>> BY AppendIsConcat
    <3>3. <<x>> \o t \in Seq(Seq(T)) BY <1>0, ConcatProperties
    <3>4. Append(<<x>> \o t, y) = (<<x>> \o t) \o <<y>>
      BY <3>3, AppendIsConcat
    <3> QED BY <1>0, <3>1, <3>2, <3>4, ConcatAssociative
  <2>2. FlattenSeq(Append(<<x>> \o t, y)) = FlattenSeq(<<x>> \o t) \o y
    <3>1. <<x>> \o t \in Seq(Seq(T)) BY <1>0, ConcatProperties
    <3> QED BY <3>1, FlattenAppend
  <2>3. FlattenSeq(t) \in Seq(T) BY FlattenType
  <2>4. (x \o FlattenSeq(t)) \o y = x \o (FlattenSeq(t) \o y)
    BY <2>3, ConcatAssociative
  <2>5. FlattenSeq(Append(t, y)) = FlattenSeq(t) \o y BY FlattenAppend
  <2>6. Append(t, y) \in Seq(Seq(T)) BY AppendProperties
  <2> QED BY <1>2, <2>1, <2>2, <2>4, <2>5, <2>6
<1> HIDE DEF P
<1>3. Seq(Seq(T)) \subseteq P BY <1>1, <1>2, SeqInduction
<1> QED BY <1>3 DEF P

=============================================================================
