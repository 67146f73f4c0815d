--------------------------- MODULE AstWalkerProofs ---------------------------
(***************************************************************************)
(* Proofs about the walk, for any number of certificates and of clauses and *)
(* texts of any length: what it makes of a credential that is Walkable, and  *)
(* of which type what it makes of any other is.                             *)
(***************************************************************************)
EXTENDS AstWalker, FlattenProofs

USE DEF EndsClauses, EndsKey, EndsSignature

-----------------------------------------------------------------------------
(* The parts of a credential                                               *)

\* A text ends at its only ".".
LEMMA TextElements ==
  ASSUME NEW t \in Texts
  PROVE  /\ t \in Seq(Labels) /\ Len(t) \in Nat /\ Len(t) > 1
         /\ \A i \in 1 .. Len(t) : t[i] = "." <=> i = Len(t)
<1>1. t \in Seq(Words \cup {"."}) /\ Len(t) > 1 /\ t[Len(t)] = "."
      /\ SubSeq(t, 1, Len(t) - 1) \in Seq(Words)
  BY DEF Texts, Last, Front
<1>2. ASSUME NEW i \in 1 .. Len(t), i # Len(t) PROVE t[i] \in Words
  <2> DEFINE f == SubSeq(t, 1, Len(t) - 1)
  <2>1. i \in 1 .. Len(t) - 1 /\ Len(f) = Len(t) - 1 /\ f[i] = t[i]
    BY <1>1, <1>2
  <2> QED BY <1>1, <2>1, ElementOfSeq
<1>3. "." \notin Words BY WordAssumption
<1>4. t \in Seq(Labels) BY <1>1, SeqMonotonic DEF Labels
<1> QED BY <1>1, <1>2, <1>3, <1>4

\* A text has more than its ".".
LEMMA TextWords ==
  ASSUME NEW t \in Texts
  PROVE  1 \in 1 .. Len(t) /\ 0 \in 0 .. Len(t) - 1
<1>1. t \in Seq(Words \cup {"."}) /\ Len(t) > 1 BY DEF Texts
<1> QED BY <1>1

\* k is b with a header a and an end z.
Encloses(k, a, b, z) == k = <<a>> \o b \o <<z>>

\* What k then looks like, if the elements of b and a are in K.
Shape(k, a, b, z, K) ==
  /\ k \in Seq(K \cup {z}) /\ Len(b) \in Nat /\ Len(k) = Len(b) + 2
  /\ k[1] = a /\ k[Len(b) + 2] = z
  /\ \A i \in 1 .. Len(b) + 1 : k[i] \in K

LEMMA EnclosedShape ==
  ASSUME NEW K, NEW a \in K, NEW z, NEW b \in Seq(K), NEW k,
         Encloses(k, a, b, z)
  PROVE  Shape(k, a, b, z, K)
<1> DEFINE t == <<a>> \o b
<1>1. t \in Seq(K) /\ Len(t) = Len(b) + 1 /\ t[1] = a /\ Len(b) \in Nat
  OBVIOUS
<1>2. k = t \o <<z>> BY Zenon DEF Encloses
<1> HIDE DEF t
<1>3. t \in Seq(K \cup {z}) BY <1>1, SeqMonotonic
<1>4. k = Append(t, z) BY <1>2, <1>3, AppendIsConcat
<1>5. /\ k \in Seq(K \cup {z}) /\ Len(k) = Len(t) + 1 /\ k[Len(t) + 1] = z
      /\ \A i \in 1 .. Len(t) : k[i] = t[i]
  BY <1>3, <1>4, AppendProperties
<1>6. \A i \in 1 .. Len(t) : t[i] \in K BY <1>1, ElementOfSeq
<1> QED BY <1>1, <1>5, <1>6 DEF Shape

\* A key begins with its header and does not have the label that the loop over
\* a certificate's key looks for.
LEMMA KeyElements ==
  ASSUME NEW b \in Keys, NEW k, k = Key(b)
  PROVE  /\ k \in Seq(Labels) /\ Len(k) \in Nat /\ Len(k) > 1
         /\ k[1] = "BEGIN KEY"
         /\ \A i \in 1 .. Len(k) : k[i] # "BEGIN SIG"
<1> DEFINE K == Words \cup {"BEGIN KEY"}
<1>1. b \in Seq(Words) BY TextAssumption
<1>2. b \in Seq(K) BY <1>1, SeqMonotonic
<1>3. "BEGIN KEY" \in K OBVIOUS
<1>4. K \cup {"END KEY"} \subseteq Labels
      /\ "BEGIN SIG" \notin K \cup {"END KEY"}
  BY WordAssumption DEF Labels, Marks, LineMarks
<1> HIDE DEF K
<1>5. Encloses(k, "BEGIN KEY", b, "END KEY") BY Zenon DEF Key, Encloses
<1>6. Shape(k, "BEGIN KEY", b, "END KEY", K)
  BY <1>2, <1>3, <1>5, EnclosedShape
<1>7. /\ k \in Seq(K \cup {"END KEY"}) /\ Len(k) \in Nat /\ Len(k) > 1
      /\ k[1] = "BEGIN KEY"
  <2>1. k \in Seq(K \cup {"END KEY"}) /\ k[1] = "BEGIN KEY"
    BY <1>6, Zenon DEF Shape
  <2>2. Len(b) \in Nat /\ Len(k) = Len(b) + 2 BY <1>6, Zenon DEF Shape
  <2>3. Len(k) \in Nat /\ Len(k) > 1 BY <2>2
  <2> QED BY <2>1, <2>3, Zenon
<1>8. \A i \in 1 .. Len(k) : k[i] \in K \cup {"END KEY"}
  BY <1>7, ElementOfSeq
<1>9. k \in Seq(Labels) BY <1>4, <1>7, SeqMonotonic
<1> QED BY <1>4, <1>7, <1>8, <1>9

\* A signature ends at its only END SIG.
LEMMA SigElements ==
  ASSUME NEW b \in Sigs, NEW s, s = Sig(b)
  PROVE  /\ s \in Seq(Labels) /\ Len(s) \in Nat /\ Len(s) > 1
         /\ s[1] = "BEGIN SIG"
         /\ \A i \in 1 .. Len(s) : s[i] = "END SIG" <=> i = Len(s)
<1> DEFINE K == Words \cup {"BEGIN SIG"}
<1>1. b \in Seq(Words) BY TextAssumption
<1>2. b \in Seq(K) BY <1>1, SeqMonotonic
<1>3. "BEGIN SIG" \in K OBVIOUS
<1>4. K \cup {"END SIG"} \subseteq Labels /\ "END SIG" \notin K
  BY WordAssumption DEF Labels, Marks, LineMarks
<1> HIDE DEF K
<1>5. Encloses(s, "BEGIN SIG", b, "END SIG") BY Zenon DEF Sig, Encloses
<1>6. Shape(s, "BEGIN SIG", b, "END SIG", K)
  BY <1>2, <1>3, <1>5, EnclosedShape
<1>7. /\ s \in Seq(K \cup {"END SIG"}) /\ Len(s) \in Nat /\ Len(s) > 1
      /\ s[1] = "BEGIN SIG" /\ s[Len(s)] = "END SIG"
      /\ \A i \in 1 .. Len(s) - 1 : s[i] \in K
  <2>1. /\ s \in Seq(K \cup {"END SIG"}) /\ s[1] = "BEGIN SIG"
        /\ s[Len(b) + 2] = "END SIG"
        /\ \A i \in 1 .. Len(b) + 1 : s[i] \in K
    BY <1>6, Zenon DEF Shape
  <2>2. Len(b) \in Nat /\ Len(s) = Len(b) + 2 BY <1>6, Zenon DEF Shape
  <2>3. Len(s) \in Nat /\ Len(s) > 1 /\ Len(s) - 1 = Len(b) + 1 BY <2>2
  <2> QED BY <2>1, <2>2, <2>3, Zenon
<1>8. s \in Seq(Labels) BY <1>4, <1>7, SeqMonotonic
<1>9. ASSUME NEW i \in 1 .. Len(s) PROVE s[i] = "END SIG" <=> i = Len(s)
  <2>1. CASE i = Len(s) BY <1>7, <2>1, Zenon
  <2>2. CASE i # Len(s)
    <3>0. Len(s) \in Nat BY <1>7, Zenon
    <3>1. i \in 1 .. Len(s) - 1 BY <2>2, <3>0
    <3>2. s[i] \in K BY <1>7, <3>1, Zenon
    <3> QED BY <1>4, <2>2, <3>2, Zenon
  <2> QED BY <2>1, <2>2
<1> QED BY <1>7, <1>8, <1>9

LEMMA CertificateParts ==
  ASSUME NEW c \in Certificates
  PROVE  /\ c.clauses \in Seq(Texts) /\ c.clauses \in Seq(Seq(Labels))
         /\ c.startTime \in Texts /\ c.stopTime \in Texts
         /\ \E k \in Keys : c.pubKey = Key(k)
         /\ \E s \in Sigs : c.signature = Sig(s)
         /\ c.certStr = <<>> /\ Got(c, 5) = c
<1>1. c.clauses \in Seq(Texts) /\ c.startTime \in Texts /\ c.stopTime \in Texts
  BY TextAssumption DEF Certificates
<1>2. c.clauses \in Seq(Seq(Labels))
  <2>1. Texts \subseteq Seq(Labels) BY TextElements
  <2> QED BY <1>1, <2>1, SeqMonotonic
<1>3. /\ \E k \in Keys : c.pubKey = Key(k)
      /\ \E s \in Sigs : c.signature = Sig(s)
  BY DEF Certificates
<1>4. c.certStr = <<>> /\ Got(c, 5) = c BY DEF Certificates, Got
<1> QED BY <1>1, <1>2, <1>3, <1>4

-----------------------------------------------------------------------------
(* The rest of the tree                                                    *)

LEMMA ConsType ==
  ASSUME NEW T, NEW a \in T, NEW s \in Seq(T) PROVE Cons(a, s) \in Seq(T)
BY DEF Cons

LEMMA ConsElements ==
  ASSUME NEW T, NEW a \in T, NEW s \in Seq(T)
  PROVE  /\ Len(s) \in Nat /\ Len(Cons(a, s)) = Len(s) + 1
         /\ Cons(a, s)[1] = a
         /\ SubSeq(Cons(a, s), 2, Len(s) + 1) = s
<1> DEFINE t == Cons(a, s)
<1>1. /\ t \in Seq(T) /\ Len(s) \in Nat /\ Len(t) = Len(s) + 1 /\ t[1] = a
      /\ \A i \in 1 .. Len(s) : t[i + 1] = s[i]
  BY DEF Cons
<1> HIDE DEF t
<1>2. \A i \in 2 .. Len(s) + 1 : t[i] \in T BY <1>1, ElementOfSeq
<1> DEFINE u == SubSeq(t, 2, Len(s) + 1)
<1>3. 2 \in Int /\ Len(s) + 1 \in Int BY <1>1
<1>4. /\ u \in Seq(T)
      /\ Len(u) = IF 2 <= Len(s) + 1 THEN Len(s) + 1 - 2 + 1 ELSE 0
      /\ \A i \in 1 .. Len(s) + 1 - 2 + 1 : u[i] = t[2 + i - 1]
  BY <1>2, <1>3, SubSeqProperties
<1> HIDE DEF u
<1>5. Len(u) = Len(s) BY <1>1, <1>4
<1>6. ASSUME NEW i \in 1 .. Len(s) PROVE u[i] = s[i]
  <2>1. i \in 1 .. Len(s) + 1 - 2 + 1 /\ 2 + i - 1 = i + 1 BY <1>1
  <2> QED BY <1>1, <1>4, <2>1
<1>7. u = s BY <1>4, <1>5, <1>6, SeqEqual
<1> QED BY <1>1, <1>7 DEF u, t

LEMMA ConsConcat ==
  ASSUME NEW T, NEW a, NEW s, NEW r, a \in T, s \in Seq(T), r \in Seq(T)
  PROVE  Cons(a, s) \o r = Cons(a, s \o r)
<1>1. <<a>> \in Seq(T) OBVIOUS
<1> QED BY <1>1, ConcatAssociative DEF Cons

LEMMA FromType ==
  ASSUME NEW T, NEW s \in Seq(T), NEW i \in Nat \ {0}
  PROVE  From(s, i) \in Seq(T)
<1>1. Len(s) \in Int /\ i \in Int OBVIOUS
<1>2. \A j \in i .. Len(s) : s[j] \in T BY ElementOfSeq
<1> QED BY <1>1, <1>2, SubSeqProperties DEF From

LEMMA FromStep ==
  ASSUME NEW T, NEW s \in Seq(T), NEW i \in 1 .. Len(s)
  PROVE  From(s, i) = Cons(s[i], From(s, i + 1))
<1>1. Len(s) \in i .. Len(s) OBVIOUS
<1> QED BY <1>1, SubSeqRecursiveFirst DEF From, Cons

LEMMA FromEnd ==
  ASSUME NEW T, NEW s \in Seq(T) PROVE From(s, Len(s) + 1) = <<>>
<1>1. Len(s) \in Int /\ Len(s) + 1 \in Int /\ Len(s) < Len(s) + 1 OBVIOUS
<1> QED BY <1>1, SubSeqEmpty DEF From

LEMMA FromStart ==
  ASSUME NEW T, NEW s \in Seq(T) PROVE From(s, 1) = s
BY SubSeqFull DEF From

LEMMA PrefixStep ==
  ASSUME NEW T, NEW s \in Seq(T), NEW i \in 1 .. Len(s)
  PROVE  Append(SubSeq(s, 1, i - 1), s[i]) = SubSeq(s, 1, i)
<1>1. 1 \in 1 .. Len(s) /\ i \in 1 .. Len(s) /\ i - 1 \in Int OBVIOUS
<1>2. SubSeq(s, 1, i) = SubSeq(s, 1, i - 1) \o <<s[i]>>
  BY <1>1, SubSeqRecursiveSecond
<1>3. s[i] \in T BY ElementOfSeq
<1>4. \A j \in 1 .. i - 1 : s[j] \in T BY ElementOfSeq
<1>5. SubSeq(s, 1, i - 1) \in Seq(T) BY <1>1, <1>4, SubSeqProperties
<1> QED BY <1>2, <1>3, <1>5, AppendIsConcat

LEMMA PrefixStart == ASSUME NEW s PROVE SubSeq(s, 1, 0) = <<>>
BY SubSeqEmpty

-----------------------------------------------------------------------------
(* The children of a certificate, from left to right                       *)

IsConcat(n, p, t) == n = p \o t

\* The last part t of n is read as the first part of the rest.
LEMMA Shift ==
  ASSUME NEW T, NEW x, NEW n, NEW p, NEW t, NEW r, NEW q,
         p \in Seq(T), t \in Seq(T), r \in Seq(T),
         IsConcat(n, p, t), IsConcat(q, t, r), IsConcat(x, n, r)
  PROVE  q \in Seq(T) /\ IsConcat(x, p, q)
BY ConcatProperties, ConcatAssociative DEF IsConcat

\* The children of a certificate, whatever its marks are.
Joined(m, f, b, st, d, sp, pk, sg, e) ==
  m \o f \o <<b>> \o st \o <<d>> \o sp \o pk \o sg \o <<e>>

\* The same with a rest, from left to right.
Unfolded(m, f, b, st, d, sp, pk, sg, e, r) ==
  m \o (f \o Cons(b, st \o Cons(d, sp \o (pk \o (sg \o Cons(e, r))))))

LEMMA JoinedUnfolds ==
  ASSUME NEW T, NEW m, NEW f, NEW b, NEW st, NEW d, NEW sp, NEW pk, NEW sg,
         NEW e, NEW r, m \in Seq(T), f \in Seq(T), b \in T, st \in Seq(T),
         d \in T, sp \in Seq(T), pk \in Seq(T), sg \in Seq(T), e \in T,
         r \in Seq(T)
  PROVE  Joined(m, f, b, st, d, sp, pk, sg, e) \o r =
           Unfolded(m, f, b, st, d, sp, pk, sg, e, r)
<1> DEFINE n1 == m \o f
           n2 == n1 \o <<b>>
           n3 == n2 \o st
           n4 == n3 \o <<d>>
           n5 == n4 \o sp
           n6 == n5 \o pk
           n7 == n6 \o sg
           n8 == n7 \o <<e>>
           r8 == <<e>> \o r
           r7 == sg \o r8
           r6 == pk \o r7
           r5 == sp \o r6
           r4 == <<d>> \o r5
           r3 == st \o r4
           r2 == <<b>> \o r3
<1>a. Joined(m, f, b, st, d, sp, pk, sg, e) = n8 BY Zenon DEF Joined
<1>b. r2 = Cons(b, st \o Cons(d, sp \o (pk \o (sg \o Cons(e, r)))))
  BY Zenon DEF Cons
<1> HIDE DEF n1, n2, n3, n4, n5, n6, n7, n8, r8, r7, r6, r5, r4, r3, r2
<1>0. <<b>> \in Seq(T) /\ <<d>> \in Seq(T) /\ <<e>> \in Seq(T) OBVIOUS
<1>1. n1 \in Seq(T) BY ConcatProperties DEF n1
<1>2. n2 \in Seq(T) BY <1>0, <1>1, ConcatProperties DEF n2
<1>3. n3 \in Seq(T) BY <1>2, ConcatProperties DEF n3
<1>4. n4 \in Seq(T) BY <1>0, <1>3, ConcatProperties DEF n4
<1>5. n5 \in Seq(T) BY <1>4, ConcatProperties DEF n5
<1>6. n6 \in Seq(T) BY <1>5, ConcatProperties DEF n6
<1>7. n7 \in Seq(T) BY <1>6, ConcatProperties DEF n7
<1>8. n8 \in Seq(T) BY <1>0, <1>7, ConcatProperties DEF n8
<1> DEFINE x == n8 \o r
<1>9. IsConcat(x, n8, r) BY Zenon DEF IsConcat
<1> HIDE DEF x
<1>10. r8 \in Seq(T) /\ IsConcat(x, n7, r8)
  <2>1. IsConcat(n8, n7, <<e>>) /\ IsConcat(r8, <<e>>, r)
    BY Zenon DEF n8, r8, IsConcat
  <2> QED BY <1>0, <1>7, <1>9, <2>1, Shift
<1>11. r7 \in Seq(T) /\ IsConcat(x, n6, r7)
  <2>1. IsConcat(n7, n6, sg) /\ IsConcat(r7, sg, r8)
    BY Zenon DEF n7, r7, IsConcat
  <2> QED BY <1>0, <1>6, <1>10, <2>1, Shift
<1>12. r6 \in Seq(T) /\ IsConcat(x, n5, r6)
  <2>1. IsConcat(n6, n5, pk) /\ IsConcat(r6, pk, r7)
    BY Zenon DEF n6, r6, IsConcat
  <2> QED BY <1>0, <1>5, <1>11, <2>1, Shift
<1>13. r5 \in Seq(T) /\ IsConcat(x, n4, r5)
  <2>1. IsConcat(n5, n4, sp) /\ IsConcat(r5, sp, r6)
    BY Zenon DEF n5, r5, IsConcat
  <2> QED BY <1>0, <1>4, <1>12, <2>1, Shift
<1>14. r4 \in Seq(T) /\ IsConcat(x, n3, r4)
  <2>1. IsConcat(n4, n3, <<d>>) /\ IsConcat(r4, <<d>>, r5)
    BY Zenon DEF n4, r4, IsConcat
  <2> QED BY <1>0, <1>3, <1>13, <2>1, Shift
<1>15. r3 \in Seq(T) /\ IsConcat(x, n2, r3)
  <2>1. IsConcat(n3, n2, st) /\ IsConcat(r3, st, r4)
    BY Zenon DEF n3, r3, IsConcat
  <2> QED BY <1>0, <1>2, <1>14, <2>1, Shift
<1>16. r2 \in Seq(T) /\ IsConcat(x, n1, r2)
  <2>1. IsConcat(n2, n1, <<b>>) /\ IsConcat(r2, <<b>>, r3)
    BY Zenon DEF n2, r2, IsConcat
  <2> QED BY <1>0, <1>1, <1>15, <2>1, Shift
<1>17. f \o r2 \in Seq(T) /\ IsConcat(x, m, f \o r2)
  <2>1. IsConcat(n1, m, f) /\ IsConcat(f \o r2, f, r2)
    BY Zenon DEF n1, IsConcat
  <2> QED BY <1>0, <1>16, <2>1, Shift
<1> QED BY <1>17, <1>a, <1>b, Zenon DEF IsConcat, x, Unfolded

LEMMA JoinedType ==
  ASSUME NEW T, NEW m, NEW f, NEW b, NEW st, NEW d, NEW sp, NEW pk, NEW sg,
         NEW e, m \in Seq(T), f \in Seq(T), b \in T, st \in Seq(T), d \in T,
         sp \in Seq(T), pk \in Seq(T), sg \in Seq(T), e \in T
  PROVE  Joined(m, f, b, st, d, sp, pk, sg, e) \in Seq(T)
<1>1. <<b>> \in Seq(T) /\ <<d>> \in Seq(T) /\ <<e>> \in Seq(T) OBVIOUS
<1>2. m \o f \o <<b>> \o st \in Seq(T) BY <1>1, ConcatProperties
<1>3. m \o f \o <<b>> \o st \o <<d>> \o sp \in Seq(T)
  BY <1>1, <1>2, ConcatProperties
<1> QED BY <1>1, <1>3, ConcatProperties DEF Joined

IsPair(m, a, b) == m = <<a, b>>

LEMMA PairCons ==
  ASSUME NEW T, NEW a, NEW b, NEW m, NEW y, a \in T, b \in T, y \in Seq(T),
         IsPair(m, a, b)
  PROVE  m \in Seq(T) /\ m \o y = Cons(a, Cons(b, y))
<1>0. <<a>> \in Seq(T) /\ <<b>> \in Seq(T) /\ <<a, b>> = Append(<<a>>, b)
  OBVIOUS
<1>1. <<a, b>> = <<a>> \o <<b>> BY <1>0, AppendIsConcat
<1>2. m \in Seq(T) BY DEF IsPair
<1>3. m \o y = <<a>> \o (<<b>> \o y) 
  BY <1>0, <1>1, ConcatAssociative DEF IsPair
<1> QED BY <1>2, <1>3, Zenon DEF Cons

\* Every rest of a certificate is a sequence of labels.
LEMMA AfterTypes ==
  ASSUME NEW c \in Certificates, NEW r \in Seq(Labels)
  PROVE  /\ AfterSignature(r) \in Seq(Labels) /\ AfterKey(c, r) \in Seq(Labels)
         /\ AfterStop(c, r) \in Seq(Labels) /\ AfterStart(c, r) \in Seq(Labels)
         /\ c.stopTime \o AfterStop(c, r) \in Seq(Labels)
         /\ c.startTime \o AfterStart(c, r) \in Seq(Labels)
         /\ AfterClauses(c, r) \in Seq(Labels)
         /\ FlattenSeq(c.clauses) \in Seq(Labels)
<1>1. /\ c.startTime \in Seq(Labels) /\ c.stopTime \in Seq(Labels)
      /\ FlattenSeq(c.clauses) \in Seq(Labels)
  BY CertificateParts, TextElements, FlattenType
<1>2. c.pubKey \in Seq(Labels) /\ c.signature \in Seq(Labels)
  BY CertificateParts, KeyElements, SigElements
<1>3. "END_CERT" \in Labels /\ "STOP_TIME" \in Labels /\ "START_TIME" \in Labels
  BY DEF Labels, Marks, LineMarks
<1>4. AfterSignature(r) \in Seq(Labels) BY <1>3, ConsType DEF AfterSignature
<1>5. AfterKey(c, r) \in Seq(Labels) BY <1>2, <1>4, ConcatProperties DEF AfterKey
<1>6. AfterStop(c, r) \in Seq(Labels)
  BY <1>2, <1>5, ConcatProperties DEF AfterStop
<1>7. c.stopTime \o AfterStop(c, r) \in Seq(Labels)
  BY <1>1, <1>6, ConcatProperties
<1>8. AfterStart(c, r) \in Seq(Labels) BY <1>3, <1>7, ConsType DEF AfterStart
<1>9. c.startTime \o AfterStart(c, r) \in Seq(Labels)
  BY <1>1, <1>8, ConcatProperties
<1>10. AfterClauses(c, r) \in Seq(Labels) BY <1>3, <1>9, ConsType DEF AfterClauses
<1> QED BY <1>1, <1>4, <1>5, <1>6, <1>7, <1>8, <1>9, <1>10

LEMMA CertificateUnfolds ==
  ASSUME NEW c \in Certificates, NEW r \in Seq(Labels)
  PROVE  /\ CertificateNodes(c) \in Seq(Labels)
         /\ CertificateNodes(c) \o r =
              Cons("CERT", Cons("CLAUSE",
                FlattenSeq(c.clauses) \o AfterClauses(c, r)))
<1> DEFINE m == <<"CERT", "CLAUSE">>
           y == FlattenSeq(c.clauses) \o AfterClauses(c, r)
           n == Joined(m, FlattenSeq(c.clauses), "START_TIME", c.startTime,
                       "STOP_TIME", c.stopTime, c.pubKey, c.signature,
                       "END_CERT")
<1>1. CertificateNodes(c) = n BY Zenon DEF CertificateNodes, Joined
<1>2. IsPair(m, "CERT", "CLAUSE") BY Zenon DEF IsPair
<1>3. y = FlattenSeq(c.clauses) \o Cons("START_TIME", c.startTime \o
            Cons("STOP_TIME", c.stopTime \o (c.pubKey \o (c.signature \o
              Cons("END_CERT", r)))))
  BY Zenon DEF AfterClauses, AfterStart, AfterStop, AfterKey, AfterSignature
<1>4. /\ c.startTime \in Seq(Labels) /\ c.stopTime \in Seq(Labels)
      /\ FlattenSeq(c.clauses) \in Seq(Labels)
  BY CertificateParts, TextElements, FlattenType
<1>5. c.pubKey \in Seq(Labels) /\ c.signature \in Seq(Labels)
  BY CertificateParts, KeyElements, SigElements
<1>6. /\ "END_CERT" \in Labels /\ "STOP_TIME" \in Labels
      /\ "START_TIME" \in Labels /\ "CERT" \in Labels /\ "CLAUSE" \in Labels
  BY DEF Labels, Marks, LineMarks
<1>7. y \in Seq(Labels) BY <1>4, AfterTypes, ConcatProperties
<1> HIDE DEF m, y
<1>8. m \in Seq(Labels) /\ m \o y = Cons("CERT", Cons("CLAUSE", y))
  BY <1>2, <1>6, <1>7, PairCons
<1>9. n \in Seq(Labels) /\ n \o r = m \o y
  <2>1. m \in Seq(Labels) BY <1>8
  <2>2. n \o r = Unfolded(m, FlattenSeq(c.clauses), "START_TIME", c.startTime,
                         "STOP_TIME", c.stopTime, c.pubKey, c.signature,
                         "END_CERT", r)
    BY <1>4, <1>5, <1>6, <2>1, JoinedUnfolds
  <2>3. n \in Seq(Labels) BY <1>4, <1>5, <1>6, <2>1, JoinedType
  <2> QED BY <1>3, <2>2, <2>3, Zenon DEF Unfolded
<1> HIDE DEF n
<1> QED BY <1>1, <1>8, <1>9, Zenon DEF y

-----------------------------------------------------------------------------
(* The children of the credential                                          *)

\* The first of the sequences left is read first.
LEMMA FlattenFrom ==
  ASSUME NEW T, NEW s, NEW k, s \in Seq(Seq(T)), k \in 1 .. Len(s)
  PROVE  /\ FlattenSeq(From(s, k + 1)) \in Seq(T) /\ s[k] \in Seq(T)
         /\ FlattenSeq(From(s, k)) = s[k] \o FlattenSeq(From(s, k + 1))
<1>1. From(s, k) = Cons(s[k], From(s, k + 1)) BY FromStep
<1>2. From(s, k + 1) \in Seq(Seq(T)) BY FromType
<1>3. s[k] \in Seq(T) BY ElementOfSeq
<1>4. FlattenSeq(From(s, k + 1)) \in Seq(T) BY <1>2, FlattenType
<1> DEFINE u == From(s, k + 1)
           x == s[k]
<1>5. u \in Seq(Seq(T)) /\ x \in Seq(T) BY <1>2, <1>3
<1> HIDE DEF u, x
<1>6. FlattenSeq(<<x>> \o u) = x \o FlattenSeq(u) BY <1>5, FlattenCons
<1>7. FlattenSeq(Cons(x, u)) = x \o FlattenSeq(u) BY <1>6, Zenon DEF Cons
<1> QED BY <1>1, <1>3, <1>4, <1>7, Zenon DEF u, x

LEMMA SourceParts ==
  ASSUME source \in Credentials
  PROVE  /\ source.certificates \in Seq(Certificates)
         /\ Len(source.certificates) \in Nat
         /\ \E k \in Keys : source.pubKey = Key(k)
         /\ source = [pubKey |-> source.pubKey,
                      certificates |-> source.certificates]
         /\ source.certificates # <<>> => Len(source.certificates) > 0
<1>1. PICK n \in CertCounts : source.certificates \in [1 .. n -> Certificates]
  BY DEF Credentials
<1>2. n \in Nat BY TextAssumption
<1>3. source.certificates \in Seq(Certificates) /\ Len(source.certificates) = n
  BY <1>1, <1>2
<1>4. \E k \in Keys : source.pubKey = Key(k) BY DEF Credentials
<1>5. source = [pubKey |-> source.pubKey, certificates |-> source.certificates]
  BY DEF Credentials
<1>6. source.certificates # <<>> => Len(source.certificates) > 0
  BY <1>2, <1>3
<1> QED BY <1>2, <1>3, <1>4, <1>5, <1>6, Zenon

\* The children of the certificates.
CertList == [i \in DOMAIN source.certificates |->
               CertificateNodes(source.certificates[i])]

LEMMA CertListType ==
  ASSUME source \in Credentials
  PROVE  /\ CertList \in Seq(Seq(Labels))
         /\ Len(CertList) = Len(source.certificates)
         /\ \A k \in 1 .. Len(source.certificates) :
              CertList[k] = CertificateNodes(source.certificates[k])
<1> DEFINE s == source.certificates
<1>1. s \in Seq(Certificates) BY SourceParts
<1>2. Len(s) \in Nat /\ DOMAIN s = 1 .. Len(s) BY <1>1
<1>3. \A i \in 1 .. Len(s) : CertificateNodes(s[i]) \in Seq(Labels)
  <2> TAKE i \in 1 .. Len(s)
  <2>1. s[i] \in Certificates BY <1>1, ElementOfSeq
  <2>2. <<>> \in Seq(Labels) OBVIOUS
  <2> QED BY <2>1, <2>2, CertificateUnfolds
<1>4. CertList = [i \in 1 .. Len(s) |-> CertificateNodes(s[i])]
  BY <1>2 DEF CertList
<1> HIDE DEF s
<1> QED BY <1>2, <1>3, <1>4 DEF s

LEMMA CertsFromType ==
  ASSUME source \in Credentials, NEW k \in Nat \ {0}
  PROVE  CertsFrom(k) \in Seq(Labels) /\ <<"END">> \in Seq(Labels)
<1>1. From(CertList, k) \in Seq(Seq(Labels)) BY CertListType, FromType
<1>2. FlattenSeq(From(CertList, k)) \in Seq(Labels) BY <1>1, FlattenType
<1>3. <<"END">> \in Seq(Labels) BY DEF Labels, Marks, LineMarks
<1>4. CertsFrom(k) = FlattenSeq(From(CertList, k)) \o <<"END">>
  BY Zenon DEF CertsFrom, CertList
<1> QED BY <1>2, <1>3, <1>4, ConcatProperties

LEMMA CertsFromStep ==
  ASSUME source \in Credentials, NEW k \in 1 .. Len(source.certificates)
  PROVE  CertsFrom(k) =
           Cons("CERT", Cons("CLAUSE",
             FlattenSeq(source.certificates[k].clauses)
               \o AfterClauses(source.certificates[k], CertsFrom(k + 1))))
<1> DEFINE e == <<"END">>
           c == source.certificates[k]
           r == CertsFrom(k + 1)
<1>0. k \in Nat \ {0} /\ k + 1 \in Nat \ {0} BY SourceParts
<1>1. e \in Seq(Labels) /\ r \in Seq(Labels) BY <1>0, CertsFromType
<1>2. /\ CertsFrom(k) = FlattenSeq(From(CertList, k)) \o e
      /\ r = FlattenSeq(From(CertList, k + 1)) \o e
  BY Zenon DEF CertsFrom, CertList
<1> HIDE DEF e, r
<1>3. CertList \in Seq(Seq(Labels)) /\ k \in 1 .. Len(CertList)
  BY CertListType
<1>4. CertList[k] = CertificateNodes(c) BY CertListType
<1>5. CertsFrom(k) = CertList[k] \o r
  <2> DEFINE x == CertList[k]
             y == FlattenSeq(From(CertList, k + 1))
  <2>1. x \in Seq(Labels) /\ y \in Seq(Labels) BY <1>3, FlattenFrom
  <2>2. FlattenSeq(From(CertList, k)) = x \o y BY <1>3, FlattenFrom
  <2> HIDE DEF x, y
  <2>3. (x \o y) \o e = x \o (y \o e) BY <1>1, <2>1
  <2> QED BY <1>2, <2>2, <2>3, Zenon DEF x, y
<1>6. c \in Certificates BY SourceParts, ElementOfSeq
<1> HIDE DEF c
<1>7. CertificateNodes(c) \o r = Cons("CERT", Cons("CLAUSE",
        FlattenSeq(c.clauses) \o AfterClauses(c, r)))
  BY <1>1, <1>6, CertificateUnfolds
<1> QED BY <1>4, <1>5, <1>7, Zenon DEF c, r

LEMMA CertsFromEnd ==
  ASSUME source \in Credentials
  PROVE  CertsFrom(Len(source.certificates) + 1) = Cons("END", <<>>)
<1>1. From(CertList, Len(source.certificates) + 1) = <<>>
  BY CertListType, FromEnd
<1>2. CertsFrom(Len(source.certificates) + 1) = <<>> \o <<"END">>
  BY <1>1, FlattenEmpty, Zenon DEF CertsFrom, CertList
<1>3. <<"END">> \in Seq(Labels) BY DEF Labels, Marks, LineMarks
<1>4. <<>> \o <<"END">> = <<"END">> \o <<>> BY <1>3, ConcatEmptySeq
<1> QED BY <1>2, <1>4, Zenon DEF Cons

LEMMA NodesAre ==
  ASSUME source \in Credentials
  PROVE  /\ Nodes(source) \in Seq(Labels)
         /\ Nodes(source) = source.pubKey \o CertsFrom(1)
<1> DEFINE e == <<"END">>
           f == FlattenSeq(CertList)
           k == source.pubKey
<1>1. k \in Seq(Labels) BY SourceParts, KeyElements
<1>2. f \in Seq(Labels) BY CertListType, FlattenType
<1>3. e \in Seq(Labels) BY DEF Labels, Marks, LineMarks
<1>4. From(CertList, 1) = CertList BY CertListType, FromStart
<1>5. CertsFrom(1) = f \o e BY <1>4, Zenon DEF CertsFrom, CertList
<1>6. Nodes(source) = (k \o f) \o e BY Zenon DEF Nodes, CertList
<1> HIDE DEF e, f, k
<1>7. (k \o f) \o e \in Seq(Labels) BY <1>1, <1>2, <1>3, ConcatProperties
<1>8. (k \o f) \o e = k \o (f \o e) BY <1>1, <1>2, <1>3, ConcatAssociative
<1> QED BY <1>5, <1>6, <1>7, <1>8, Zenon DEF k

LEMMA TreeNotEmpty == ASSUME source \in Credentials PROVE Len(Nodes(source)) > 0
<1> DEFINE t == source.pubKey
           u == CertsFrom(1)
<1>1. PICK b \in Keys : t = Key(b) BY SourceParts
<1>2. u \in Seq(Labels) BY CertsFromType
<1>3. Nodes(source) = t \o u BY NodesAre, Zenon
<1> HIDE DEF t, u
<1>4. t \in Seq(Labels) /\ Len(t) \in Nat /\ Len(t) > 1
  BY <1>1, KeyElements, Zenon
<1>5. Len(t \o u) = Len(t) + Len(u) /\ Len(u) \in Nat
  BY <1>2, <1>4, ConcatProperties
<1> QED BY <1>3, <1>4, <1>5

-----------------------------------------------------------------------------
(* Reading a child                                                         *)

\* The index is in the tree or one behind it.
Placed == tree \in Seq(Labels) /\ pIdx \in 1 .. Len(tree) + 1

\* The child a is next, and then r.
Ahead(a, r) == a \in Labels /\ r \in Seq(Labels) /\ Rest = Cons(a, r)

LEMMA ConsInjective ==
  ASSUME NEW T, NEW a, NEW b, NEW s, NEW t, Cons(a, s) = Cons(b, t),
         a \in T, b \in T, s \in Seq(T), t \in Seq(T)
  PROVE  a = b /\ s = t
<1>1. Len(s) = Len(t)
  <2>1. Len(s) \in Nat /\ Len(Cons(a, s)) = Len(s) + 1 BY ConsElements
  <2>2. Len(t) \in Nat /\ Len(Cons(b, t)) = Len(t) + 1 BY ConsElements
  <2> QED BY <2>1, <2>2
<1>2. a = b
  <2>1. Cons(a, s)[1] = a BY ConsElements
  <2>2. Cons(b, t)[1] = b BY ConsElements
  <2> QED BY <2>1, <2>2, Zenon
<1>3. SubSeq(Cons(a, s), 2, Len(s) + 1) = s BY ConsElements
<1>4. SubSeq(Cons(b, t), 2, Len(t) + 1) = t BY ConsElements
<1> QED BY <1>1, <1>2, <1>3, <1>4, Zenon

LEMMA NoEmptyLabel == "" \notin Labels
BY WordAssumption DEF Labels, Marks, LineMarks

LEMMA Child ==
  ASSUME Placed, NEW a, NEW r, Ahead(a, r)
  PROVE  /\ pIdx <= Len(tree) /\ getChildStr(pIdx) = a
         /\ After(pIdx) = pIdx + 1 /\ From(tree, pIdx + 1) = r
<1>1. tree \in Seq(Labels) /\ pIdx \in 1 .. Len(tree) + 1 /\ Len(tree) \in Nat
  BY DEF Placed
<1>2. a \in Labels /\ r \in Seq(Labels) /\ From(tree, pIdx) = Cons(a, r)
  BY DEF Ahead, Rest
<1>3. pIdx # Len(tree) + 1
  <2>1. Len(r) \in Nat /\ Len(Cons(a, r)) = Len(r) + 1 BY <1>2, ConsElements
  <2>2. From(tree, Len(tree) + 1) = <<>> BY <1>1, FromEnd
  <2>3. Len(<<>>) = 0 OBVIOUS
  <2> QED BY <1>2, <2>1, <2>2, <2>3
<1>4. pIdx \in 1 .. Len(tree) BY <1>1, <1>3
<1>5. From(tree, pIdx) = Cons(tree[pIdx], From(tree, pIdx + 1))
  BY <1>1, <1>4, FromStep
<1>6. tree[pIdx] \in Labels BY <1>1, <1>4, ElementOfSeq
<1>7. From(tree, pIdx + 1) \in Seq(Labels) BY <1>1, <1>4, FromType
<1>8. tree[pIdx] = a /\ From(tree, pIdx + 1) = r
  <2> DEFINE b == tree[pIdx]
             t == From(tree, pIdx + 1)
  <2>1. Cons(b, t) = Cons(a, r) /\ b \in Labels /\ t \in Seq(Labels)
    BY <1>2, <1>5, <1>6, <1>7, Zenon
  <2> HIDE DEF b, t
  <2>2. b = a /\ t = r BY <1>2, <2>1, ConsInjective, Zenon
  <2> QED BY <2>2, Zenon DEF b, t
<1> QED BY <1>1, <1>4, <1>8 DEF getChildStr, After

LEMMA Advance ==
  ASSUME Placed, NEW a, NEW r, Ahead(a, r), tree' = tree, pIdx' = After(pIdx)
  PROVE  Rest' = r /\ Placed'
<1>1. pIdx <= Len(tree) /\ After(pIdx) = pIdx + 1 /\ From(tree, pIdx + 1) = r
  BY Child
<1>2. pIdx' = pIdx + 1 BY <1>1
<1>3. Placed' BY <1>1, <1>2 DEF Placed
<1>4. Rest' = From(tree, pIdx + 1) BY <1>2, Zenon DEF Rest
<1> QED BY <1>1, <1>3, <1>4

\* The next child is in the middle of a text t.
LEMMA TextAhead ==
  ASSUME NEW t, NEW i, NEW r, t \in Seq(Labels), i \in 1 .. Len(t),
         r \in Seq(Labels), Rest = From(t, i) \o r
  PROVE  Ahead(t[i], From(t, i + 1) \o r)
<1>1. t[i] \in Labels BY ElementOfSeq
<1>2. From(t, i + 1) \in Seq(Labels) BY FromType
<1>3. From(t, i) = Cons(t[i], From(t, i + 1)) BY FromStep
<1>4. Cons(t[i], From(t, i + 1)) \o r = Cons(t[i], From(t, i + 1) \o r)
  <2> DEFINE a == t[i]
             u == From(t, i + 1)
  <2>1. a \in Labels /\ u \in Seq(Labels) BY <1>1, <1>2
  <2> HIDE DEF a, u
  <2>2. Cons(a, u) \o r = Cons(a, u \o r) BY <2>1, ConsConcat
  <2> QED BY <2>2, Zenon DEF a, u
<1>5. From(t, i + 1) \o r \in Seq(Labels) BY <1>2, ConcatProperties
<1> QED BY <1>1, <1>3, <1>4, <1>5, Zenon DEF Ahead

\* A text is whole once its last element has been read.
LEMMA TextEnd ==
  ASSUME NEW t, NEW r, t \in Seq(Labels), r \in Seq(Labels)
  PROVE  From(t, Len(t) + 1) \o r = r /\ SubSeq(t, 1, Len(t)) = t
<1>1. From(t, Len(t) + 1) = <<>> BY FromEnd
<1>2. <<>> \o r = r BY ConcatEmptySeq
<1>3. SubSeq(t, 1, Len(t)) = t BY SubSeqFull
<1> QED BY <1>1, <1>2, <1>3, Zenon

LEMMA AppendLabel ==
  ASSUME NEW l, NEW s, l \in Labels PROVE AppendTo(s, l) = Append(s, l)
BY NoEmptyLabel, Zenon DEF AppendTo

-----------------------------------------------------------------------------
(* The steps in a certificate                                              *)

LEMMA TextTypes ==
  ASSUME NEW c \in Certificates
  PROVE  /\ c.startTime \in Seq(Labels) /\ c.stopTime \in Seq(Labels)
         /\ c.pubKey \in Seq(Labels) /\ c.signature \in Seq(Labels)
         /\ FlattenSeq(c.clauses) \in Seq(Labels)
<1>1. c.startTime \in Seq(Labels) /\ c.stopTime \in Seq(Labels)
  BY CertificateParts, TextElements
<1>2. FlattenSeq(c.clauses) \in Seq(Labels) BY CertificateParts, FlattenType
<1> QED BY <1>1, <1>2, CertificateParts, KeyElements, SigElements

\* Before the first clause.
LEMMA AtClauses ==
  ASSUME NEW c \in Certificates, NEW r \in Seq(Labels),
         Placed, AtMark(c, r), makeCertificate,
         certificate = Got(c, 0),
         Rest = Cons("CLAUSE", FlattenSeq(c.clauses) \o AfterClauses(c, r))
  PROVE  InClauses(c, r)' /\ Placed' /\ credential' = credential
<1> DEFINE u == FlattenSeq(c.clauses) \o AfterClauses(c, r)
<1>1. Ahead("CLAUSE", u)
  <2>1. u \in Seq(Labels) BY AfterTypes, ConcatProperties
  <2>2. "CLAUSE" \in Labels BY DEF Labels, Marks, LineMarks
  <2> QED BY <2>1, <2>2, Zenon DEF Ahead
<1>2. pIdx <= Len(tree) /\ getChildStr(pIdx) = "CLAUSE" BY <1>1, Child, Zenon
<1>3. pc = "makeCertificate" /\ clauseStr = <<>> BY DEF AtMark
<1>4. /\ pc' = "clauses" /\ pIdx' = After(pIdx) /\ certificate' = certificate
      /\ credential' = credential /\ clauseStr' = <<>> /\ tree' = tree
  BY <1>2, <1>3 DEF makeCertificate, Part
<1>5. Rest' = u /\ Placed' BY <1>1, <1>4, Advance, Zenon
<1>6. From(c.clauses, 1) = c.clauses BY CertificateParts, FromStart
<1>7. SubSeq(c.clauses, 1, 0) = <<>> BY PrefixStart
<1>8. [Got(c, 0) EXCEPT !.clauses = SubSeq(c.clauses, 1, 0)] = Got(c, 0)
  BY <1>7 DEF Got
<1>9. 0 \in 0 .. Len(c.clauses) /\ 0 + 1 = 1 BY CertificateParts
<1>10. InClauses(c, r)'
  BY <1>4, <1>5, <1>6, <1>8, <1>9, Zenon DEF InClauses
<1> QED BY <1>4, <1>5, <1>10

\* Before the start time.
LEMMA AtStart ==
  ASSUME NEW c \in Certificates, NEW r \in Seq(Labels),
         Placed, AtMark(c, r), makeCertificate,
         certificate = Got(c, 1), Rest = AfterClauses(c, r)
  PROVE  InTimes(c, r)' /\ Placed' /\ credential' = credential
<1> DEFINE u == c.startTime \o AfterStart(c, r)
<1>1. Ahead("START_TIME", u)
  <2>1. u \in Seq(Labels) BY AfterTypes
  <2>2. "START_TIME" \in Labels BY DEF Labels, Marks, LineMarks
  <2> QED BY <2>1, <2>2, Zenon DEF Ahead, AfterClauses
<1>2. pIdx <= Len(tree) /\ getChildStr(pIdx) = "START_TIME" BY <1>1, Child, Zenon
<1>3. pc = "makeCertificate" /\ clauseStr = <<>> BY DEF AtMark
<1>4. /\ pc' = "startTime" /\ pIdx' = After(pIdx) /\ certificate' = certificate
      /\ credential' = credential /\ clauseStr' = <<>> /\ tree' = tree
  BY <1>2, <1>3 DEF makeCertificate, Part
<1>5. Rest' = u /\ Placed' BY <1>1, <1>4, Advance, Zenon
<1>6. From(c.startTime, 1) = c.startTime BY TextTypes, FromStart
<1>7. SubSeq(c.startTime, 1, 0) = <<>> BY PrefixStart
<1>8. 0 \in 0 .. Len(c.startTime) - 1 /\ 0 + 1 = 1
  BY CertificateParts, TextElements
<1>9. Reading(c.startTime, AfterStart(c, r))'
  BY <1>4, <1>5, <1>6, <1>7, <1>8, Zenon DEF Reading
<1> QED BY <1>4, <1>5, <1>9, Zenon DEF InTimes

\* Before the stop time.
LEMMA AtStop ==
  ASSUME NEW c \in Certificates, NEW r \in Seq(Labels),
         Placed, AtMark(c, r), makeCertificate,
         certificate = Got(c, 2), Rest = AfterStart(c, r)
  PROVE  InTimes(c, r)' /\ Placed' /\ credential' = credential
<1> DEFINE u == c.stopTime \o AfterStop(c, r)
<1>1. Ahead("STOP_TIME", u)
  <2>1. u \in Seq(Labels) BY AfterTypes
  <2>2. "STOP_TIME" \in Labels BY DEF Labels, Marks, LineMarks
  <2> QED BY <2>1, <2>2, Zenon DEF Ahead, AfterStart
<1>2. pIdx <= Len(tree) /\ getChildStr(pIdx) = "STOP_TIME" BY <1>1, Child, Zenon
<1>3. pc = "makeCertificate" /\ clauseStr = <<>> BY DEF AtMark
<1>4. /\ pc' = "stopTime" /\ pIdx' = After(pIdx) /\ certificate' = certificate
      /\ credential' = credential /\ clauseStr' = <<>> /\ tree' = tree
  BY <1>2, <1>3 DEF makeCertificate, Part
<1>5. Rest' = u /\ Placed' BY <1>1, <1>4, Advance, Zenon
<1>6. From(c.stopTime, 1) = c.stopTime BY TextTypes, FromStart
<1>7. SubSeq(c.stopTime, 1, 0) = <<>> BY PrefixStart
<1>8. 0 \in 0 .. Len(c.stopTime) - 1 /\ 0 + 1 = 1
  BY CertificateParts, TextElements
<1>9. Reading(c.stopTime, AfterStop(c, r))'
  BY <1>4, <1>5, <1>6, <1>7, <1>8, Zenon DEF Reading
<1> QED BY <1>4, <1>5, <1>9, Zenon DEF InTimes

\* Before the key.
LEMMA AtKey ==
  ASSUME NEW c \in Certificates, NEW r \in Seq(Labels),
         Placed, AtMark(c, r), makeCertificate,
         certificate = Got(c, 3), Rest = AfterStop(c, r)
  PROVE  InKey(c, r)' /\ Placed' /\ credential' = credential
<1> DEFINE t == c.pubKey
           u == From(t, 1 + 1) \o AfterKey(c, r)
<1>1. /\ t \in Seq(Labels) /\ Len(t) \in Nat /\ Len(t) > 1
      /\ t[1] = "BEGIN KEY"
  BY CertificateParts, KeyElements
<1>2. AfterKey(c, r) \in Seq(Labels) BY AfterTypes
<1>3. Ahead("BEGIN KEY", u)
  <2>1. From(t, 1) = t BY <1>1, FromStart
  <2>2. Rest = From(t, 1) \o AfterKey(c, r) BY <2>1, Zenon DEF AfterStop
  <2>3. 1 \in 1 .. Len(t)
    <3>1. Len(t) \in Nat /\ Len(t) > 1 BY <1>1, Zenon
    <3> QED BY <3>1
  <2>4. t \in Seq(Labels) BY <1>1, Zenon
  <2> HIDE DEF t
  <2>5. Ahead(t[1], u) BY <1>2, <2>2, <2>3, <2>4, TextAhead
  <2> QED BY <1>1, <2>5, Zenon
<1>4. pIdx <= Len(tree) /\ getChildStr(pIdx) = "BEGIN KEY" BY <1>3, Child, Zenon
<1>5. pc = "makeCertificate" /\ clauseStr = <<>> BY DEF AtMark
<1>6. /\ pc' = "certificateKey" /\ pIdx' = After(pIdx)
      /\ certificate' = [certificate EXCEPT !.pubKey = Append(@, "BEGIN KEY")]
      /\ credential' = credential /\ clauseStr' = <<>> /\ tree' = tree
  BY <1>4, <1>5 DEF makeCertificate, Part
<1>7. Rest' = u /\ Placed' BY <1>3, <1>6, Advance, Zenon
<1>8. Append(<<>>, "BEGIN KEY") = SubSeq(t, 1, 1)
  <2> HIDE DEF t
  <2>0. Len(t) \in Nat /\ Len(t) > 1 /\ t \in Seq(Labels) BY <1>1, Zenon
  <2>1. t \in Seq(Labels) /\ 1 \in 1 .. Len(t) /\ 1 - 1 = 0 BY <2>0
  <2>2. Append(SubSeq(t, 1, 1 - 1), t[1]) = SubSeq(t, 1, 1)
    BY <2>1, PrefixStep
  <2>3. SubSeq(t, 1, 0) = <<>> BY PrefixStart
  <2> QED BY <1>1, <2>1, <2>2, <2>3, Zenon
<1>9. certificate' = [Got(c, 3) EXCEPT !.pubKey = SubSeq(t, 1, 1)]
  <2>1. Got(c, 3).pubKey = <<>> BY DEF Got
  <2>2. certificate' = [Got(c, 3) EXCEPT !.pubKey =
                          Append(Got(c, 3).pubKey, "BEGIN KEY")]
    BY <1>6, Zenon
  <2> QED BY <1>8, <2>1, <2>2, Zenon
<1>10. 1 \in 1 .. Len(t)
  <2>1. Len(t) \in Nat /\ Len(t) > 1 BY <1>1, Zenon
  <2> QED BY <2>1
<1>11. InKey(c, r)' BY <1>6, <1>7, <1>9, <1>10, Zenon DEF InKey
<1> QED BY <1>6, <1>7, <1>11

LEMMA SignatureText ==
  ASSUME NEW c \in Certificates
  PROVE  /\ c.signature \in Seq(Labels) /\ Len(c.signature) \in Nat
         /\ Len(c.signature) > 1 /\ c.signature[1] = "BEGIN SIG"
         /\ \A i \in 1 .. Len(c.signature) :
              c.signature[i] = "END SIG" <=> i = Len(c.signature)
<1> DEFINE t == c.signature
<1>1. PICK b \in Sigs : t = Sig(b) BY CertificateParts
<1> HIDE DEF t
<1>2. /\ t \in Seq(Labels) /\ Len(t) \in Nat /\ Len(t) > 1 /\ t[1] = "BEGIN SIG"
      /\ \A i \in 1 .. Len(t) : t[i] = "END SIG" <=> i = Len(t)
  BY <1>1, SigElements, Zenon
<1> QED BY <1>2, Zenon DEF t

LEMMA SignatureAhead ==
  ASSUME NEW c \in Certificates, NEW r \in Seq(Labels), Rest = AfterKey(c, r)
  PROVE  Ahead("BEGIN SIG", From(c.signature, 1 + 1) \o AfterSignature(r))
<1> DEFINE t == c.signature
<1>1. t \in Seq(Labels) BY SignatureText, Zenon
<1>2. Len(t) \in Nat /\ Len(t) > 1 BY SignatureText, Zenon
<1>3. 1 \in 1 .. Len(t) BY <1>2
<1>4. From(t, 1) = t BY <1>1, FromStart
<1>5. Rest = From(t, 1) \o AfterSignature(r) BY <1>4, Zenon DEF AfterKey
<1>6. AfterSignature(r) \in Seq(Labels) BY AfterTypes
<1>7. t[1] = "BEGIN SIG" BY SignatureText, Zenon
<1> HIDE DEF t
<1>8. Ahead(t[1], From(t, 1 + 1) \o AfterSignature(r))
  BY <1>1, <1>3, <1>5, <1>6, TextAhead
<1> QED BY <1>7, <1>8, Zenon DEF t

\* Before the signature.
LEMMA AtSignature ==
  ASSUME NEW c \in Certificates, NEW r \in Seq(Labels),
         Placed, AtMark(c, r), makeCertificate,
         certificate = Got(c, 4), Rest = AfterKey(c, r)
  PROVE  InSignature(c, r)' /\ Placed' /\ credential' = credential
<1> DEFINE t == c.signature
           u == From(t, 1 + 1) \o AfterSignature(r)
<1>1. /\ t \in Seq(Labels) /\ Len(t) \in Nat /\ Len(t) > 1
      /\ t[1] = "BEGIN SIG"
  BY SignatureText, Zenon
<1>3. Ahead("BEGIN SIG", u) BY SignatureAhead, Zenon
<1>4. pIdx <= Len(tree) /\ getChildStr(pIdx) = "BEGIN SIG" BY <1>3, Child, Zenon
<1>5. pc = "makeCertificate" /\ clauseStr = <<>> BY DEF AtMark
<1>6. /\ pc' = "signature" /\ pIdx' = After(pIdx)
      /\ certificate' = [certificate EXCEPT !.signature = Append(@, "BEGIN SIG")]
      /\ credential' = credential /\ clauseStr' = <<>> /\ tree' = tree
  BY <1>4, <1>5 DEF makeCertificate, Part
<1>7. Rest' = u /\ Placed' BY <1>3, <1>6, Advance, Zenon
<1>8. Append(<<>>, "BEGIN SIG") = SubSeq(t, 1, 1)
  <2> HIDE DEF t
  <2>0. Len(t) \in Nat /\ Len(t) > 1 /\ t \in Seq(Labels) BY <1>1, Zenon
  <2>1. t \in Seq(Labels) /\ 1 \in 1 .. Len(t) /\ 1 - 1 = 0 BY <2>0
  <2>2. Append(SubSeq(t, 1, 1 - 1), t[1]) = SubSeq(t, 1, 1)
    BY <2>1, PrefixStep
  <2>3. SubSeq(t, 1, 0) = <<>> BY PrefixStart
  <2> QED BY <1>1, <2>1, <2>2, <2>3, Zenon
<1>9. certificate' = [Got(c, 4) EXCEPT !.signature = SubSeq(t, 1, 1)]
  <2>1. Got(c, 4).signature = <<>> BY DEF Got
  <2>2. certificate' = [Got(c, 4) EXCEPT !.signature =
                          Append(Got(c, 4).signature, "BEGIN SIG")]
    BY <1>6, Zenon
  <2> QED BY <1>8, <2>1, <2>2, Zenon
<1>10. 1 \in 1 .. Len(t) - 1
  <2>1. Len(t) \in Nat /\ Len(t) > 1 BY <1>1, Zenon
  <2> QED BY <2>1
<1>11. InSignature(c, r)' BY <1>6, <1>7, <1>9, <1>10, Zenon DEF InSignature
<1> QED BY <1>6, <1>7, <1>11

\* Between the clauses: another one, or the start time.
LEMMA ClausesStep ==
  ASSUME NEW c \in Certificates, NEW r \in Seq(Labels),
         Placed, InClauses(c, r), clauses,
         \A j \in DOMAIN c.clauses : c.clauses[j][1] # "START_TIME"
  PROVE  /\ InClauses(c, r)' \/ AtMark(c, r)'
         /\ Placed' /\ credential' = credential
<1>1. /\ pc = "clauses" /\ tree' = tree /\ pIdx' = pIdx /\ credential' = credential
      /\ certificate' = certificate /\ clauseStr' = clauseStr
      /\ pc' = IF getChildStr(pIdx) = "START_TIME"
                 THEN "makeCertificate" ELSE "clause"
  BY DEF clauses
<1>2. PICK j \in 0 .. Len(c.clauses) :
        /\ certificate = [Got(c, 0) EXCEPT !.clauses = SubSeq(c.clauses, 1, j)]
        /\ clauseStr = <<>>
        /\ Rest = FlattenSeq(From(c.clauses, j + 1)) \o AfterClauses(c, r)
  BY <1>1, Zenon DEF InClauses
<1>3. Placed' /\ Rest' = Rest BY <1>1 DEF Placed, Rest
<1>4. /\ AfterClauses(c, r) \in Seq(Labels)
      /\ c.startTime \o AfterStart(c, r) \in Seq(Labels)
  BY AfterTypes
<1>5. c.clauses \in Seq(Seq(Labels)) /\ c.clauses \in Seq(Texts)
  BY CertificateParts
<1>6. CASE j = Len(c.clauses)
  <2>1. From(c.clauses, j + 1) = <<>> /\ SubSeq(c.clauses, 1, j) = c.clauses
    BY <1>5, <1>6, FromEnd, SubSeqFull
  <2>2. Rest = AfterClauses(c, r)
    <3>1. <<>> \o AfterClauses(c, r) = AfterClauses(c, r)
      BY <1>4, ConcatEmptySeq
    <3> QED BY <1>2, <2>1, <3>1, FlattenEmpty, Zenon
  <2>3. Ahead("START_TIME", c.startTime \o AfterStart(c, r))
    <3>1. "START_TIME" \in Labels BY DEF Labels, Marks, LineMarks
    <3> QED BY <1>4, <2>2, <3>1, Zenon DEF Ahead, AfterClauses
  <2>4. pc' = "makeCertificate" BY <1>1, <2>3, Child, Zenon
  <2>5. [Got(c, 0) EXCEPT !.clauses = c.clauses] = Got(c, 1) BY DEF Got
  <2>6. AtMark(c, r)'
    BY <1>1, <1>2, <1>3, <2>1, <2>2, <2>4, <2>5, Zenon DEF AtMark
  <2> QED BY <1>1, <1>3, <2>6
<1>7. CASE j # Len(c.clauses)
  <2>1. j + 1 \in 1 .. Len(c.clauses) /\ j < Len(c.clauses) /\ j + 1 + 1 = j + 2
        /\ 0 + 1 = 1
    BY <1>5, <1>7
  <2> DEFINE t == c.clauses[j + 1]
             f == FlattenSeq(From(c.clauses, j + 2))
             u == f \o AfterClauses(c, r)
  <2>2. t \in Texts BY <1>5, <2>1, ElementOfSeq
  <2>3. /\ f \in Seq(Labels) /\ t \in Seq(Labels)
        /\ FlattenSeq(From(c.clauses, j + 1)) = t \o f
    <3> DEFINE k == j + 1
    <3>1. k \in 1 .. Len(c.clauses) /\ k + 1 = j + 2 BY <2>1
    <3> HIDE DEF k
    <3>2. /\ FlattenSeq(From(c.clauses, k + 1)) \in Seq(Labels)
          /\ c.clauses[k] \in Seq(Labels)
          /\ FlattenSeq(From(c.clauses, k)) =
               c.clauses[k] \o FlattenSeq(From(c.clauses, k + 1))
      BY <1>5, <3>1, FlattenFrom
    <3> QED BY <3>1, <3>2, Zenon DEF k
  <2>4. u \in Seq(Labels) BY <1>4, <2>3, ConcatProperties
  <2>5. From(t, 1) = t BY <2>3, FromStart
  <2>6. Rest = From(t, 1) \o u
    <3>1. (t \o f) \o AfterClauses(c, r) = t \o (f \o AfterClauses(c, r))
      <4> DEFINE e == AfterClauses(c, r)
      <4>1. e \in Seq(Labels) /\ f \in Seq(Labels) /\ t \in Seq(Labels)
        BY <1>4, <2>3
      <4> HIDE DEF e, f, t
      <4>2. (t \o f) \o e = t \o (f \o e) BY <4>1, ConcatAssociative
      <4> QED BY <4>2, Zenon DEF e
    <3> QED BY <1>2, <2>3, <2>5, <3>1, Zenon
  <2>7. t[1] # "START_TIME" /\ 1 \in 1 .. Len(t) /\ 0 \in 0 .. Len(t) - 1
    <3>1. j + 1 \in DOMAIN c.clauses BY <1>5, <2>1
    <3>2. t[1] # "START_TIME" BY <3>1, Zenon
    <3> HIDE DEF t
    <3> QED BY <2>2, <3>2, TextWords
  <2>8. Ahead(t[1], From(t, 1 + 1) \o u)
    <3>1. t \in Seq(Labels) /\ 1 \in 1 .. Len(t) BY <2>3, <2>7, Zenon
    <3> HIDE DEF t, u
    <3> QED BY <2>4, <2>6, <3>1, TextAhead
  <2>9. pc' = "clause"
    <3>1. getChildStr(pIdx) = t[1] BY <2>8, Child, Zenon
    <3>2. getChildStr(pIdx) # "START_TIME" BY <2>7, <3>1, Zenon
    <3> QED BY <1>1, <3>2, Zenon
  <2>10. SubSeq(t, 1, 0) = <<>> BY PrefixStart
  <2>11. Reading(t, u)'
    BY <1>1, <1>2, <1>3, <2>1, <2>6, <2>7, <2>10, Zenon DEF Reading
  <2>12. InClauses(c, r)'
    BY <1>1, <1>2, <2>1, <2>9, <2>11, Zenon DEF InClauses
  <2> QED BY <1>1, <1>3, <2>12
<1> QED BY <1>6, <1>7

\* getClauseStr() reads one more child of the text t.
LEMMA ReadingStep ==
  ASSUME NEW t \in Texts, NEW r \in Seq(Labels),
         Placed, Reading(t, r), getClauseStr
  PROVE  /\ Placed'
         /\ \/ /\ getChildStr(pIdx) # "." /\ Reading(t, r)'
            \/ /\ getChildStr(pIdx) = "." /\ Rest' = r
               /\ AppendTo(clauseStr, getChildStr(pIdx)) = t
<1>1. PICK i \in 0 .. Len(t) - 1 :
        clauseStr = SubSeq(t, 1, i) /\ Rest = From(t, i + 1) \o r
  BY DEF Reading
<1> DEFINE k == i + 1
<1>2. t \in Seq(Labels) /\ Len(t) \in Nat /\ Len(t) > 1 BY TextElements
<1>3. k \in 1 .. Len(t) /\ k - 1 = i BY <1>2
<1>4. t[k] = "." <=> k = Len(t) BY <1>3, TextElements
<1>5. Rest = From(t, k) \o r /\ clauseStr = SubSeq(t, 1, k - 1)
  BY <1>1, <1>3, Zenon
<1> HIDE DEF k
<1>6. Ahead(t[k], From(t, k + 1) \o r) BY <1>2, <1>3, <1>5, TextAhead
<1>7. getChildStr(pIdx) = t[k] BY <1>6, Child, Zenon
<1>8. /\ pIdx' = After(pIdx) /\ tree' = tree
      /\ getChildStr(pIdx) # "." =>
           clauseStr' = AppendTo(clauseStr, getChildStr(pIdx))
  BY DEF getClauseStr
<1>9. Rest' = From(t, k + 1) \o r /\ Placed' BY <1>6, <1>8, Advance, Zenon
<1>10. AppendTo(clauseStr, getChildStr(pIdx)) = SubSeq(t, 1, k)
  <2>1. t[k] \in Labels BY <1>2, <1>3, ElementOfSeq
  <2>2. AppendTo(SubSeq(t, 1, k - 1), t[k]) = Append(SubSeq(t, 1, k - 1), t[k])
    BY <2>1, AppendLabel, Zenon
  <2>3. Append(SubSeq(t, 1, k - 1), t[k]) = SubSeq(t, 1, k)
    BY <1>2, <1>3, PrefixStep
  <2> QED BY <1>5, <1>7, <2>2, <2>3, Zenon
<1>11. CASE k = Len(t)
  <2>1. From(t, k + 1) \o r = r /\ SubSeq(t, 1, k) = t
    BY <1>2, <1>11, TextEnd
  <2> QED BY <1>4, <1>7, <1>9, <1>10, <1>11, <2>1, Zenon
<1>12. CASE k # Len(t)
  <2>1. k \in 0 .. Len(t) - 1 BY <1>2, <1>3, <1>12
  <2>2. getChildStr(pIdx) # "." BY <1>4, <1>7, <1>12, Zenon
  <2>3. Reading(t, r)' BY <1>8, <1>9, <1>10, <2>1, <2>2, Zenon DEF Reading
  <2> QED BY <1>9, <2>2, <2>3, Zenon
<1> QED BY <1>11, <1>12

\* In a clause.
LEMMA ClauseStep ==
  ASSUME NEW c \in Certificates, NEW r \in Seq(Labels),
         Placed, InClauses(c, r), getClauseStr, pc = "clause"
  PROVE  InClauses(c, r)' /\ Placed' /\ credential' = credential
<1>1. PICK j \in 0 .. Len(c.clauses) :
        /\ certificate = [Got(c, 0) EXCEPT !.clauses = SubSeq(c.clauses, 1, j)]
        /\ j < Len(c.clauses)
        /\ Reading(c.clauses[j + 1],
                   FlattenSeq(From(c.clauses, j + 2)) \o AfterClauses(c, r))
  BY Zenon DEF InClauses
<1>2. c.clauses \in Seq(Seq(Labels)) /\ c.clauses \in Seq(Texts)
  BY CertificateParts
<1> DEFINE k == j + 1
<1>3. /\ k \in 1 .. Len(c.clauses) /\ k \in 0 .. Len(c.clauses)
      /\ k - 1 = j /\ k + 1 = j + 2 /\ k + 1 \in Nat \ {0}
  <2>1. j < Len(c.clauses) BY <1>1, Zenon
  <2>2. Len(c.clauses) \in Nat BY <1>2, LenProperties
  <2> QED BY <2>1, <2>2
<1> DEFINE t == c.clauses[k]
           u == FlattenSeq(From(c.clauses, k + 1)) \o AfterClauses(c, r)
<1>4. t \in Texts BY <1>2, <1>3, ElementOfSeq
<1>5. u \in Seq(Labels)
  <2>1. From(c.clauses, k + 1) \in Seq(Seq(Labels)) BY <1>2, <1>3, FromType
  <2> QED BY <2>1, FlattenType, AfterTypes, ConcatProperties
<1>6. Reading(t, u) BY <1>1, <1>3, Zenon
<1>7. credential' = credential BY DEF getClauseStr
<1> HIDE DEF k, t, u
<1>8. /\ Placed'
      /\ \/ /\ getChildStr(pIdx) # "." /\ Reading(t, u)'
         \/ /\ getChildStr(pIdx) = "." /\ Rest' = u
            /\ AppendTo(clauseStr, getChildStr(pIdx)) = t
  BY <1>4, <1>5, <1>6, ReadingStep
<1>9. CASE getChildStr(pIdx) # "."
  <2>1. pc' = pc /\ certificate' = certificate BY <1>9 DEF getClauseStr
  <2>2. Reading(c.clauses[j + 1],
                FlattenSeq(From(c.clauses, j + 2)) \o AfterClauses(c, r))'
    BY <1>3, <1>8, <1>9, Zenon DEF t, u, k
  <2>3. InClauses(c, r)' BY <1>1, <2>1, <2>2, Zenon DEF InClauses
  <2> QED BY <1>7, <1>8, <2>3
<1>10. CASE getChildStr(pIdx) = "."
  <2>1. /\ clauseStr' = <<>> /\ pc' = "clauses"
        /\ certificate' = [certificate EXCEPT !.clauses =
              Append(@, AppendTo(clauseStr, getChildStr(pIdx)))]
    BY <1>10 DEF getClauseStr
  <2>2. certificate' = [Got(c, 0) EXCEPT !.clauses = SubSeq(c.clauses, 1, k)]
    <3>1. Append(SubSeq(c.clauses, 1, k - 1), c.clauses[k]) =
            SubSeq(c.clauses, 1, k)
      BY <1>2, <1>3, PrefixStep
    <3>2. /\ certificate.clauses = SubSeq(c.clauses, 1, j)
          /\ [certificate EXCEPT !.clauses = SubSeq(c.clauses, 1, k)]
               = [Got(c, 0) EXCEPT !.clauses = SubSeq(c.clauses, 1, k)]
      BY <1>1 DEF Got
    <3>3. AppendTo(clauseStr, getChildStr(pIdx)) = c.clauses[k]
      BY <1>8, <1>10, Zenon DEF t
    <3> QED BY <1>3, <2>1, <3>1, <3>2, <3>3, Zenon
  <2>3. Rest' = FlattenSeq(From(c.clauses, k + 1)) \o AfterClauses(c, r)
    BY <1>8, <1>10, Zenon DEF u
  <2>4. InClauses(c, r)' BY <1>3, <2>1, <2>2, <2>3, Zenon DEF InClauses
  <2> QED BY <1>7, <1>8, <2>4
<1> QED BY <1>9, <1>10

\* In the start time.
LEMMA StartStep ==
  ASSUME NEW c \in Certificates, NEW r \in Seq(Labels),
         Placed, InTimes(c, r), getClauseStr, pc = "startTime"
  PROVE  /\ InTimes(c, r)' \/ AtMark(c, r)'
         /\ Placed' /\ credential' = credential
<1> DEFINE t == c.startTime
           u == AfterStart(c, r)
<1>1. t \in Texts /\ u \in Seq(Labels) BY CertificateParts, AfterTypes
<1>2. certificate = Got(c, 1) /\ Reading(t, u) BY DEF InTimes
<1>3. credential' = credential BY DEF getClauseStr
<1> HIDE DEF t, u
<1>4. /\ Placed'
      /\ \/ /\ getChildStr(pIdx) # "." /\ Reading(t, u)'
         \/ /\ getChildStr(pIdx) = "." /\ Rest' = u
            /\ AppendTo(clauseStr, getChildStr(pIdx)) = t
  BY <1>1, <1>2, ReadingStep
<1>5. CASE getChildStr(pIdx) # "."
  <2>1. pc' = pc /\ certificate' = certificate BY <1>5 DEF getClauseStr
  <2>2. InTimes(c, r)' BY <1>2, <1>4, <1>5, <2>1, Zenon DEF InTimes, t, u
  <2> QED BY <1>3, <1>4, <2>2
<1>6. CASE getChildStr(pIdx) = "."
  <2>1. /\ clauseStr' = <<>> /\ pc' = "makeCertificate"
        /\ certificate' = [certificate EXCEPT !.startTime =
                              @ \o AppendTo(clauseStr, getChildStr(pIdx))]
    BY <1>6 DEF getClauseStr
  <2>2. certificate' = Got(c, 2)
    <3>1. <<>> \o t = t BY <1>1, TextElements, ConcatEmptySeq
    <3>2. Got(c, 1).startTime = <<>> BY DEF Got
    <3>3. certificate' = [Got(c, 1) EXCEPT !.startTime = Got(c, 1).startTime \o t]
      BY <1>2, <1>4, <1>6, <2>1, Zenon
    <3>4. certificate' = [Got(c, 1) EXCEPT !.startTime = t]
      BY <3>1, <3>2, <3>3, Zenon
    <3>5. [Got(c, 1) EXCEPT !.startTime = c.startTime] = Got(c, 2) BY DEF Got
    <3> QED BY <3>4, <3>5, Zenon DEF t
  <2>3. AtMark(c, r)' BY <1>4, <1>6, <2>1, <2>2, Zenon DEF AtMark, u
  <2> QED BY <1>3, <1>4, <2>3
<1> QED BY <1>5, <1>6

\* In the stop time.
LEMMA StopStep ==
  ASSUME NEW c \in Certificates, NEW r \in Seq(Labels),
         Placed, InTimes(c, r), getClauseStr, pc = "stopTime"
  PROVE  /\ InTimes(c, r)' \/ AtMark(c, r)'
         /\ Placed' /\ credential' = credential
<1> DEFINE t == c.stopTime
           u == AfterStop(c, r)
<1>1. t \in Texts /\ u \in Seq(Labels) BY CertificateParts, AfterTypes
<1>2. certificate = Got(c, 2) /\ Reading(t, u) BY DEF InTimes
<1>3. credential' = credential BY DEF getClauseStr
<1> HIDE DEF t, u
<1>4. /\ Placed'
      /\ \/ /\ getChildStr(pIdx) # "." /\ Reading(t, u)'
         \/ /\ getChildStr(pIdx) = "." /\ Rest' = u
            /\ AppendTo(clauseStr, getChildStr(pIdx)) = t
  BY <1>1, <1>2, ReadingStep
<1>5. CASE getChildStr(pIdx) # "."
  <2>1. pc' = pc /\ certificate' = certificate BY <1>5 DEF getClauseStr
  <2>2. InTimes(c, r)' BY <1>2, <1>4, <1>5, <2>1, Zenon DEF InTimes, t, u
  <2> QED BY <1>3, <1>4, <2>2
<1>6. CASE getChildStr(pIdx) = "."
  <2>1. /\ clauseStr' = <<>> /\ pc' = "makeCertificate"
        /\ certificate' = [certificate EXCEPT !.stopTime =
                              @ \o AppendTo(clauseStr, getChildStr(pIdx))]
    BY <1>6 DEF getClauseStr
  <2>2. certificate' = Got(c, 3)
    <3>1. <<>> \o t = t BY <1>1, TextElements, ConcatEmptySeq
    <3>2. Got(c, 2).stopTime = <<>> BY DEF Got
    <3>3. certificate' = [Got(c, 2) EXCEPT !.stopTime = Got(c, 2).stopTime \o t]
      BY <1>2, <1>4, <1>6, <2>1, Zenon
    <3>4. certificate' = [Got(c, 2) EXCEPT !.stopTime = t]
      BY <3>1, <3>2, <3>3, Zenon
    <3>5. [Got(c, 2) EXCEPT !.stopTime = c.stopTime] = Got(c, 3) BY DEF Got
    <3> QED BY <3>4, <3>5, Zenon DEF t
  <2>3. AtMark(c, r)' BY <1>4, <1>6, <2>1, <2>2, Zenon DEF AtMark, u
  <2> QED BY <1>3, <1>4, <2>3
<1> QED BY <1>5, <1>6

\* In the key: another line of it, or the signature.
LEMMA KeyStep ==
  ASSUME NEW c \in Certificates, NEW r \in Seq(Labels),
         Placed, InKey(c, r), certificateKey
  PROVE  /\ InKey(c, r)' \/ AtMark(c, r)'
         /\ Placed' /\ credential' = credential
<1> DEFINE t == c.pubKey
           u == AfterKey(c, r)
<1>1. PICK i \in 1 .. Len(t) :
        /\ certificate = [Got(c, 3) EXCEPT !.pubKey = SubSeq(t, 1, i)]
        /\ Rest = From(t, i + 1) \o u
  BY DEF InKey
<1>2. PICK b \in Keys : t = Key(b) BY CertificateParts
<1>3. credential' = credential /\ tree' = tree /\ clauseStr' = <<>>
  BY DEF certificateKey, InKey
<1>4. u \in Seq(Labels) BY AfterTypes
<1>5. /\ [Got(c, 3) EXCEPT !.pubKey = t] = Got(c, 4)
      /\ certificate.pubKey = SubSeq(t, 1, i)
      /\ \A s : [certificate EXCEPT !.pubKey = s] = [Got(c, 3) EXCEPT !.pubKey = s]
  <2>1. [Got(c, 3) EXCEPT !.pubKey = t] = Got(c, 4) BY DEF Got
  <2> HIDE DEF t
  <2>2. certificate = [Got(c, 3) EXCEPT !.pubKey = SubSeq(t, 1, i)] BY <1>1, Zenon
  <2>3. certificate.pubKey = SubSeq(t, 1, i) BY <2>2 DEF Got
  <2>4. ASSUME NEW s
        PROVE  [certificate EXCEPT !.pubKey = s] = [Got(c, 3) EXCEPT !.pubKey = s]
    BY <2>2 DEF Got
  <2> QED BY <2>1, <2>3, <2>4, Zenon
<1> HIDE DEF t
<1>6. t \in Seq(Labels) /\ Len(t) \in Nat BY <1>2, KeyElements, Zenon
<1>7. CASE i = Len(t)
  <2>1. From(t, i + 1) \o u = u /\ SubSeq(t, 1, i) = t
    <3> HIDE DEF u
    <3> QED BY <1>4, <1>6, <1>7, TextEnd
  <2>2. Rest = AfterKey(c, r) BY <1>1, <2>1, Zenon
  <2>3. getChildStr(pIdx) = "BEGIN SIG" BY <2>2, SignatureAhead, Child, Zenon
  <2>4. pc' = "makeCertificate" /\ certificate' = certificate /\ pIdx' = pIdx
    BY <2>3 DEF certificateKey
  <2>5. Rest' = AfterKey(c, r) /\ Placed' BY <1>3, <2>2, <2>4 DEF Rest, Placed
  <2>6. certificate' = Got(c, 4) BY <1>1, <1>5, <2>1, <2>4, Zenon
  <2>7. AtMark(c, r)' BY <1>3, <2>4, <2>5, <2>6, Zenon DEF AtMark
  <2> QED BY <1>3, <2>5, <2>7
<1>8. CASE i # Len(t)
  <2> DEFINE k == i + 1
  <2>1. k \in 1 .. Len(t) /\ k - 1 = i BY <1>6, <1>8
  <2>2. t[k] # "BEGIN SIG" BY <1>2, <2>1, KeyElements
  <2> HIDE DEF k, u
  <2>3. Ahead(t[k], From(t, k + 1) \o u)
    <3>1. Rest = From(t, k) \o u BY <1>1, Zenon DEF k
    <3> QED BY <1>4, <1>6, <2>1, <3>1, TextAhead
  <2>4. getChildStr(pIdx) = t[k] BY <2>3, Child, Zenon
  <2>5. /\ pc' = pc /\ pIdx' = After(pIdx)
        /\ certificate' = [certificate EXCEPT !.pubKey =
                              AppendTo(certificate.pubKey, t[k])]
    BY <2>2, <2>4 DEF certificateKey
  <2>6. Rest' = From(t, k + 1) \o u /\ Placed'
    BY <1>3, <2>3, <2>5, Advance, Zenon
  <2>7. AppendTo(certificate.pubKey, t[k]) = SubSeq(t, 1, k)
    <3>1. t[k] \in Labels BY <1>6, <2>1, ElementOfSeq
    <3>2. AppendTo(SubSeq(t, 1, k - 1), t[k]) = Append(SubSeq(t, 1, k - 1), t[k])
      BY <3>1, AppendLabel, Zenon
    <3>3. Append(SubSeq(t, 1, k - 1), t[k]) = SubSeq(t, 1, k)
      BY <1>6, <2>1, PrefixStep
    <3> QED BY <1>5, <2>1, <3>2, <3>3, Zenon
  <2>8. certificate' = [Got(c, 3) EXCEPT !.pubKey = SubSeq(t, 1, k)]
    BY <1>5, <2>5, <2>7, Zenon
  <2>9. InKey(c, r)'
    BY <1>3, <2>1, <2>5, <2>6, <2>8, Zenon DEF InKey, t, u
  <2> QED BY <1>3, <2>6, <2>9
<1> QED BY <1>7, <1>8

\* In the signature.
LEMMA SignatureStep ==
  ASSUME NEW c \in Certificates, NEW r \in Seq(Labels),
         Placed, InSignature(c, r), signature
  PROVE  /\ InSignature(c, r)' \/ AtMark(c, r)'
         /\ Placed' /\ credential' = credential
<1> DEFINE t == c.signature
           u == AfterSignature(r)
<1>1. PICK i \in 1 .. Len(t) - 1 :
        /\ certificate = [Got(c, 4) EXCEPT !.signature = SubSeq(t, 1, i)]
        /\ Rest = From(t, i + 1) \o u
  BY DEF InSignature
<1>2. credential' = credential /\ tree' = tree /\ clauseStr' = <<>>
      /\ pIdx' = After(pIdx)
  BY DEF signature, InSignature
<1>3. u \in Seq(Labels) BY AfterTypes
<1>4. /\ [Got(c, 4) EXCEPT !.signature = t] = Got(c, 5)
      /\ certificate.signature = SubSeq(t, 1, i)
      /\ \A s : [certificate EXCEPT !.signature = s] =
                [Got(c, 4) EXCEPT !.signature = s]
  <2>1. [Got(c, 4) EXCEPT !.signature = t] = Got(c, 5) BY DEF Got
  <2> HIDE DEF t
  <2>2. certificate = [Got(c, 4) EXCEPT !.signature = SubSeq(t, 1, i)] BY <1>1, Zenon
  <2>3. certificate.signature = SubSeq(t, 1, i) BY <2>2 DEF Got
  <2>4. ASSUME NEW s
        PROVE  [certificate EXCEPT !.signature = s] = [Got(c, 4) EXCEPT !.signature = s]
    BY <2>2 DEF Got
  <2> QED BY <2>1, <2>3, <2>4, Zenon
<1>5. t \in Seq(Labels) /\ Len(t) \in Nat BY SignatureText, Zenon
<1> DEFINE k == i + 1
<1>6. k \in 1 .. Len(t) /\ k - 1 = i BY <1>5
<1>7. t[k] = "END SIG" <=> k = Len(t) BY <1>6, SignatureText, Zenon
<1>8. Rest = From(t, k) \o u BY <1>1, Zenon
<1> HIDE DEF t, u, k
<1>9. Ahead(t[k], From(t, k + 1) \o u) BY <1>3, <1>5, <1>6, <1>8, TextAhead
<1>10. getChildStr(pIdx) = t[k] BY <1>9, Child, Zenon
<1>11. Rest' = From(t, k + 1) \o u /\ Placed' BY <1>2, <1>9, Advance, Zenon
<1>12. AppendTo(certificate.signature, t[k]) = SubSeq(t, 1, k)
  <2>1. t[k] \in Labels BY <1>5, <1>6, ElementOfSeq
  <2>2. AppendTo(SubSeq(t, 1, k - 1), t[k]) = Append(SubSeq(t, 1, k - 1), t[k])
    BY <2>1, AppendLabel, Zenon
  <2>3. Append(SubSeq(t, 1, k - 1), t[k]) = SubSeq(t, 1, k)
    BY <1>5, <1>6, PrefixStep
  <2> QED BY <1>4, <1>6, <2>2, <2>3, Zenon
<1>13. certificate' = [Got(c, 4) EXCEPT !.signature = SubSeq(t, 1, k)]
  <2>1. certificate' = [certificate EXCEPT !.signature =
                          AppendTo(certificate.signature, t[k])]
    BY <1>10 DEF signature
  <2> QED BY <1>4, <1>12, <2>1, Zenon
<1>14. pc' = IF t[k] = "END SIG" THEN "makeCertificate" ELSE "signature"
  BY <1>10 DEF signature
<1>15. CASE k = Len(t)
  <2>1. From(t, k + 1) \o u = u /\ SubSeq(t, 1, k) = t
    BY <1>3, <1>5, <1>15, TextEnd
  <2>2. pc' = "makeCertificate" BY <1>7, <1>14, <1>15, Zenon
  <2>3. certificate' = Got(c, 5) BY <1>4, <1>13, <2>1, Zenon
  <2>4. AtMark(c, r)' BY <1>2, <1>11, <2>1, <2>2, <2>3, Zenon DEF AtMark, u
  <2> QED BY <1>2, <1>11, <2>4
<1>16. CASE k # Len(t)
  <2>1. k \in 1 .. Len(t) - 1 BY <1>5, <1>6, <1>16
  <2>2. pc' = "signature" BY <1>7, <1>14, <1>16, Zenon
  <2>3. InSignature(c, r)'
    BY <1>2, <1>11, <1>13, <2>1, <2>2, Zenon DEF InSignature, t, u
  <2> QED BY <1>2, <1>11, <2>3
<1> QED BY <1>15, <1>16

-----------------------------------------------------------------------------
(* The steps of makeCredential                                             *)

\* What does not change as long as the source does not.
LEMMA SourceFrame ==
  ASSUME source' = source
  PROVE  /\ \A k : CertsFrom(k)' = CertsFrom(k)
         /\ \A k : Walked(k)' = Walked(k)
BY Zenon DEF CertsFrom, Walked

LEMMA KeyText ==
  ASSUME source \in Credentials
  PROVE  /\ source.pubKey \in Seq(Labels) /\ Len(source.pubKey) \in Nat
         /\ Len(source.pubKey) > 1 /\ source.pubKey[1] = "BEGIN KEY"
<1> DEFINE t == source.pubKey
<1>1. PICK b \in Keys : t = Key(b) BY SourceParts
<1> HIDE DEF t
<1>2. /\ t \in Seq(Labels) /\ Len(t) \in Nat /\ Len(t) > 1 /\ t[1] = "BEGIN KEY"
  BY <1>1, KeyElements, Zenon
<1> QED BY <1>2, Zenon DEF t

\* makeCertificate() returns at END_CERT: the certificate is whole, and added.
LEMMA CertificateEnd ==
  ASSUME source \in Credentials, Placed, makeCertificate,
         NEW k \in 1 .. Len(source.certificates), credential = Walked(k - 1),
         NEW c, c = source.certificates[k], NEW r, r = CertsFrom(k + 1),
         AtMark(c, r), certificate = Got(c, 5), Rest = AfterSignature(r)
  PROVE  InCredential' /\ Placed'
<1>1. /\ source.certificates \in Seq(Certificates)
      /\ Len(source.certificates) \in Nat
  BY SourceParts
<1>2. c \in Certificates BY <1>1, ElementOfSeq
<1>3. k + 1 \in Nat \ {0} /\ k \in 0 .. Len(source.certificates) BY <1>1
<1>4. r \in Seq(Labels) BY <1>3, CertsFromType
<1>5. Ahead("END_CERT", r)
  <2>1. "END_CERT" \in Labels BY DEF Labels, Marks, LineMarks
  <2> QED BY <1>4, <2>1, Zenon DEF Ahead, AfterSignature
<1>6. pIdx <= Len(tree) /\ getChildStr(pIdx) = "END_CERT" BY <1>5, Child, Zenon
<1>7. /\ pIdx' = pIdx /\ label' = "END_CERT" /\ pc' = "makeCredential"
      /\ credential' = [credential EXCEPT !.certificates =
                                            Append(@, certificate)]
      /\ tree' = tree /\ source' = source /\ clauseStr' = <<>>
  BY <1>6 DEF makeCertificate, AtMark
<1>8. Rest' = AfterSignature(CertsFrom(k + 1)) /\ Placed'
  BY <1>7 DEF Rest, Placed
<1>9. credential' = Walked(k)
  <2>1. certificate = c BY <1>2, CertificateParts
  <2>2. Append(SubSeq(source.certificates, 1, k - 1), source.certificates[k]) =
          SubSeq(source.certificates, 1, k)
    BY <1>1, PrefixStep
  <2>3. credential' = [pubKey |-> source.pubKey, certificates |->
                         Append(SubSeq(source.certificates, 1, k - 1), c)]
    BY <1>7, <2>1 DEF Walked
  <2> QED BY <2>2, <2>3, Zenon DEF Walked
<1>10. CertsFrom(k + 1)' = CertsFrom(k + 1) /\ Walked(k)' = Walked(k)
  BY <1>7, SourceFrame, Zenon
<1>11. Rest' \in {CertsFrom(k + 1)', AfterSignature(CertsFrom(k + 1)')}
  BY <1>8, <1>10, Zenon
<1>12. k \in 0 .. Len(source'.certificates) BY <1>3, <1>7
<1>13. BetweenCertificates'
  <2>1. AfterSignature(CertsFrom(k + 1))' = AfterSignature(CertsFrom(k + 1)')
    BY Zenon DEF AfterSignature
  <2> QED BY <1>7, <1>9, <1>10, <1>11, <1>12, <2>1, Zenon DEF BetweenCertificates
<1> QED BY <1>7, <1>8, <1>13, Zenon DEF InCredential

\* The first step reads the header of the key.
LEMMA BeforeKeyStep ==
  ASSUME source \in Credentials, tree = Nodes(source), Placed, clauseStr = <<>>,
         Walkable(source), BeforeKey, makeCredential
  PROVE  InCredential' /\ Placed'
<1> DEFINE t == source.pubKey
           u == CertsFrom(1)
<1>1. t \in Seq(Labels) /\ t[1] = "BEGIN KEY" BY KeyText, Zenon
<1>2. Len(t) \in Nat /\ Len(t) > 1 BY KeyText, Zenon
<1>3. u \in Seq(Labels) BY CertsFromType
<1>4. From(t, 1) = t /\ 1 \in 1 .. Len(t)
  <2>1. From(t, 1) = t BY <1>1, FromStart
  <2> QED BY <1>2, <2>1
<1>5. Rest = From(t, 1) \o u BY <1>4, NodesAre, Zenon DEF BeforeKey
<1>6. Ahead("BEGIN KEY", From(t, 1 + 1) \o u)
  <2> HIDE DEF t, u
  <2>1. t \in Seq(Labels) BY <1>1
  <2>2. Ahead(t[1], From(t, 1 + 1) \o u) BY <1>3, <1>4, <1>5, <2>1, TextAhead
  <2> QED BY <1>1, <2>2, Zenon
<1>7. pIdx <= Len(tree) /\ getChildStr(pIdx) = "BEGIN KEY"
  BY <1>6, Child, Zenon
<1>8. /\ pc' = "credentialKey" /\ label' = "BEGIN KEY" /\ pIdx' = After(pIdx)
      /\ credential' = [credential EXCEPT !.pubKey = Append(@, "BEGIN KEY")]
      /\ tree' = tree /\ source' = source /\ clauseStr' = <<>>
  BY <1>7 DEF makeCredential, BeforeKey
<1>9. Rest' = From(t, 1 + 1) \o u /\ Placed' BY <1>6, <1>8, Advance, Zenon
<1>10. Len(source.certificates) > 0 BY SourceParts, Zenon DEF Walkable
<1>11. SubSeq(t, 1, 1) = Append(<<>>, "BEGIN KEY")
  <2> HIDE DEF t
  <2>1. t \in Seq(Labels) BY <1>1
  <2>2. Append(SubSeq(t, 1, 1 - 1), t[1]) = SubSeq(t, 1, 1)
    BY <1>4, <2>1, PrefixStep
  <2>3. SubSeq(t, 1, 0) = <<>> /\ 1 - 1 = 0 BY PrefixStart
  <2> QED BY <1>1, <2>2, <2>3, Zenon
<1>12. credential' = [pubKey |-> Append(<<>>, "BEGIN KEY"),
                     certificates |-> <<>>]
  BY <1>8 DEF BeforeKey
<1>13. credential' = [pubKey |-> SubSeq(t, 1, 1), certificates |-> <<>>]
  BY <1>11, <1>12, Zenon
<1>14. CertsFrom(1)' = CertsFrom(1) BY <1>8, SourceFrame, Zenon
<1>15. InCredentialKey'
  BY <1>4, <1>8, <1>9, <1>10, <1>13, <1>14, Zenon DEF InCredentialKey
<1> QED BY <1>8, <1>9, <1>15, Zenon DEF InCredential

\* In the key: another line of it, or the first certificate.
LEMMA CredentialKeyStep ==
  ASSUME source \in Credentials, Placed, clauseStr = <<>>, InCredentialKey,
         credentialKey, Walkable(source)
  PROVE  InCredential' /\ Placed'
<1> DEFINE t == source.pubKey
           u == CertsFrom(1)
<1>1. PICK i \in 1 .. Len(t) :
        /\ credential = [pubKey |-> SubSeq(t, 1, i), certificates |-> <<>>]
        /\ Rest = From(t, i + 1) \o u
  BY Zenon DEF InCredentialKey
<1>2. /\ tree' = tree /\ source' = source /\ clauseStr' = <<>> /\ label' = label
      /\ label = "BEGIN KEY" /\ Len(source.certificates) > 0
  BY DEF credentialKey, InCredentialKey
<1>3. t \in Seq(Labels) /\ Len(t) \in Nat BY KeyText, Zenon
<1>4. u \in Seq(Labels) BY CertsFromType
<1>5. u' = u /\ t' = t /\ Walked(0)' = Walked(0) BY <1>2, SourceFrame, Zenon
<1>6. CASE i = Len(t)
  <2>1. From(t, i + 1) \o u = u /\ SubSeq(t, 1, i) = t
    <3> HIDE DEF t, u
    <3> QED BY <1>3, <1>4, <1>6, TextEnd
  <2>2. Rest = CertsFrom(1) BY <1>1, <2>1, Zenon
  <2>3. PICK v : Ahead("CERT", v)
    <3>1. 1 \in 1 .. Len(source.certificates)
      <4>1. Len(source.certificates) \in Nat BY SourceParts, Zenon
      <4>2. Len(source.certificates) > 0 BY <1>2, Zenon
      <4> QED BY <4>1, <4>2
    <3> DEFINE c == source.certificates[1]
               r == CertsFrom(1 + 1)
               v == Cons("CLAUSE", FlattenSeq(c.clauses) \o AfterClauses(c, r))
    <3>2. CertsFrom(1) = Cons("CERT", v) BY <3>1, CertsFromStep, Zenon
    <3>3. c \in Certificates BY <3>1, SourceParts, ElementOfSeq
    <3>4. r \in Seq(Labels) BY CertsFromType
    <3>5. "CERT" \in Labels /\ "CLAUSE" \in Labels BY DEF Labels, Marks, LineMarks
    <3> HIDE DEF c, r
    <3>6. FlattenSeq(c.clauses) \o AfterClauses(c, r) \in Seq(Labels)
      BY <3>3, <3>4, AfterTypes, ConcatProperties
    <3>7. v \in Seq(Labels) BY <3>5, <3>6, ConsType
    <3>8. Ahead("CERT", v) BY <2>2, <3>2, <3>5, <3>7, Zenon DEF Ahead
    <3> QED BY <3>8, Zenon
  <2>4. getChildStr(pIdx) = "CERT" BY <2>3, Child, Zenon
  <2>5. pc' = "makeCredential" /\ credential' = credential /\ pIdx' = pIdx
    BY <2>4 DEF credentialKey
  <2>6. Rest' = CertsFrom(1) /\ Placed' BY <1>2, <2>2, <2>5 DEF Rest, Placed
  <2>7. SubSeq(source.certificates, 1, 0) = <<>> BY PrefixStart
  <2>8. credential' = Walked(0) BY <1>1, <2>1, <2>5, <2>7, Zenon DEF Walked
  <2>9. 0 \in 0 .. Len(source'.certificates) /\ 0 + 1 = 1
    <3>1. Len(source.certificates) \in Nat /\ source' = source
      BY <1>2, SourceParts, Zenon
    <3> QED BY <3>1
  <2>10. Rest' \in {CertsFrom(0 + 1)', AfterSignature(CertsFrom(0 + 1))'}
    BY <1>5, <2>6, <2>9, Zenon
  <2>11. BetweenCertificates'
    BY <1>2, <1>5, <2>5, <2>8, <2>9, <2>10, Zenon DEF BetweenCertificates
  <2> QED BY <1>2, <2>6, <2>11, Zenon DEF InCredential
<1>7. CASE i # Len(t)
  <2> DEFINE k == i + 1
  <2>1. k \in 1 .. Len(t) /\ k - 1 = i BY <1>3, <1>7
  <2>2. t[k] # "CERT"
    <3>1. DOMAIN source.pubKey = 1 .. Len(source.pubKey) BY <1>3
    <3> QED BY <2>1, <3>1, Zenon DEF Walkable
  <2>3. Rest = From(t, k) \o u BY <1>1, Zenon
  <2> HIDE DEF k
  <2>4. Ahead(t[k], From(t, k + 1) \o u)
    <3> HIDE DEF t, u
    <3> QED BY <1>3, <1>4, <2>1, <2>3, TextAhead
  <2>5. getChildStr(pIdx) = t[k] BY <2>4, Child, Zenon
  <2>6. /\ pc' = "credentialKey" /\ pIdx' = After(pIdx)
        /\ credential' = [credential EXCEPT !.pubKey =
                             AppendTo(credential.pubKey, getChildStr(pIdx))]
    <3>1. getChildStr(pIdx) # "CERT" BY <2>2, <2>5, Zenon
    <3> QED BY <3>1 DEF credentialKey
  <2>7. Rest' = From(t, k + 1) \o u /\ Placed'
    BY <1>2, <2>4, <2>6, Advance, Zenon
  <2>8. credential' = [pubKey |-> SubSeq(t, 1, k), certificates |-> <<>>]
    <3> HIDE DEF t
    <3>1. t[k] \in Labels BY <1>3, <2>1, ElementOfSeq
    <3>2. AppendTo(SubSeq(t, 1, k - 1), t[k]) = Append(SubSeq(t, 1, k - 1), t[k])
      BY <3>1, AppendLabel, Zenon
    <3>3. Append(SubSeq(t, 1, k - 1), t[k]) = SubSeq(t, 1, k)
      BY <1>3, <2>1, PrefixStep
    <3>4. credential = [pubKey |-> SubSeq(t, 1, i), certificates |-> <<>>]
      BY <1>1, Zenon
    <3>5. /\ credential.pubKey = SubSeq(t, 1, i)
          /\ [credential EXCEPT !.pubKey = SubSeq(t, 1, k)] =
               [pubKey |-> SubSeq(t, 1, k), certificates |-> <<>>]
      <4> DEFINE x == SubSeq(t, 1, i)
                 y == SubSeq(t, 1, k)
      <4>1. credential = [pubKey |-> x, certificates |-> <<>>] BY <3>4
      <4> HIDE DEF x, y
      <4>2. /\ credential.pubKey = x
            /\ [credential EXCEPT !.pubKey = y] =
                 [pubKey |-> y, certificates |-> <<>>]
        BY <4>1
      <4> QED BY <4>2 DEF x, y
    <3> QED BY <2>1, <2>5, <2>6, <3>2, <3>3, <3>5, Zenon
  <2>9. InCredentialKey'
    <3>1. Len(source'.certificates) > 0 BY <1>2
    <3> QED BY <1>2, <1>5, <2>1, <2>6, <2>7, <2>8, <3>1, Zenon DEF InCredentialKey
  <2> QED BY <1>2, <2>7, <2>9, Zenon DEF InCredential
<1> QED BY <1>6, <1>7

\* An iteration of the loop of makeCredential that does not read a key.
LEMMA LoopStep ==
  ASSUME Placed, pc = "makeCredential", label # "END", clauseStr = <<>>,
         makeCredential, NEW a, NEW v, Ahead(a, v), a # "BEGIN KEY"
  PROVE  /\ label' = a /\ Rest' = v /\ Placed' /\ certificate' = NewCertificate
         /\ pc' = IF a = "CERT" THEN "makeCertificate" ELSE "makeCredential"
         /\ credential' = credential /\ source' = source /\ clauseStr' = <<>>
<1>1. pIdx <= Len(tree) /\ getChildStr(pIdx) = a BY Child, Zenon
<1>2. /\ label' = a /\ pIdx' = After(pIdx) /\ certificate' = NewCertificate
      /\ pc' = IF a = "CERT" THEN "makeCertificate" ELSE "makeCredential"
      /\ credential' = credential
      /\ tree' = tree /\ source' = source /\ clauseStr' = <<>>
  BY <1>1 DEF makeCredential
<1> QED BY <1>2, Advance, Zenon

\* Between two certificates: the END_CERT of the last one, the CERT of the next
\* one, or the END of the credential.
LEMMA BetweenStep ==
  ASSUME source \in Credentials, Placed, clauseStr = <<>>, BetweenCertificates,
         makeCredential
  PROVE  (InCredential' \/ InSomeCertificate') /\ Placed'
<1>1. PICK k \in 0 .. Len(source.certificates) :
        /\ credential = Walked(k)
        /\ Rest \in {CertsFrom(k + 1), AfterSignature(CertsFrom(k + 1))}
  BY Zenon DEF BetweenCertificates
<1>2. pc = "makeCredential" /\ label \in {"BEGIN KEY", "END_CERT"}
  BY DEF BetweenCertificates
<1>3. Len(source.certificates) \in Nat BY SourceParts, Zenon
<1>4. k + 1 \in Nat \ {0} /\ k + 2 \in Nat \ {0} /\ k + 1 + 1 = k + 2
      /\ k + 1 - 1 = k
  BY <1>3
<1>5. CertsFrom(k + 1) \in Seq(Labels) /\ CertsFrom(k + 2) \in Seq(Labels)
  BY <1>4, CertsFromType
<1>6. "END_CERT" \in Labels /\ "CERT" \in Labels /\ "CLAUSE" \in Labels
      /\ "END" \in Labels
  BY DEF Labels, Marks, LineMarks
<1>7. label # "END" BY <1>2
<1>8. ASSUME source' = source
      PROVE  /\ Walked(k)' = Walked(k) /\ CertsFrom(k + 1)' = CertsFrom(k + 1)
             /\ CertsFrom(k + 2)' = CertsFrom(k + 2)
  BY <1>8, SourceFrame, Zenon
<1>9. CASE Rest = AfterSignature(CertsFrom(k + 1))
  <2>1. Ahead("END_CERT", CertsFrom(k + 1))
    BY <1>5, <1>6, <1>9, Zenon DEF Ahead, AfterSignature
  <2>2. /\ label' = "END_CERT" /\ Rest' = CertsFrom(k + 1) /\ Placed'
        /\ pc' = "makeCredential" /\ credential' = credential
        /\ source' = source /\ clauseStr' = <<>>
    BY <1>2, <1>7, <2>1, LoopStep
  <2>3. k \in 0 .. Len(source'.certificates) BY <2>2
  <2>4. BetweenCertificates'
    BY <1>1, <1>8, <2>2, <2>3, Zenon DEF BetweenCertificates
  <2> QED BY <2>2, <2>4, Zenon DEF InCredential
<1>10. CASE Rest = CertsFrom(k + 1) /\ k = Len(source.certificates)
  <2>1. PICK v : Ahead("END", v)
    <3>1. <<>> \in Seq(Labels) OBVIOUS
    <3> QED BY <1>6, <1>10, <3>1, CertsFromEnd, Zenon DEF Ahead
  <2>2. /\ label' = "END" /\ Placed' /\ pc' = "makeCredential"
        /\ credential' = credential /\ source' = source /\ clauseStr' = <<>>
    <3>1. "END" # "BEGIN KEY" /\ "END" # "CERT" OBVIOUS
    <3>2. /\ label' = "END" /\ Placed'
          /\ pc' = IF "END" = "CERT" THEN "makeCertificate" ELSE "makeCredential"
          /\ credential' = credential /\ source' = source /\ clauseStr' = <<>>
      BY <1>2, <1>7, <2>1, <3>1, LoopStep, Zenon
    <3> QED BY <3>1, <3>2, Zenon
  <2>3. AtEnd'
    <3>1. credential' = Walked(Len(source.certificates))' BY <1>1, <1>8, <1>10, <2>2
    <3> QED BY <2>2, <3>1, Zenon DEF AtEnd
  <2> QED BY <2>2, <2>3, Zenon DEF InCredential
<1>11. CASE Rest = CertsFrom(k + 1) /\ k # Len(source.certificates)
  <2>1. k + 1 \in 1 .. Len(source.certificates) BY <1>3, <1>11
  <2>a. PICK c : c = source.certificates[k + 1] OBVIOUS
  <2>b. PICK r : r = CertsFrom(k + 2) OBVIOUS
  <2> DEFINE u == FlattenSeq(c.clauses) \o AfterClauses(c, r)
  <2>2. c \in Certificates BY <2>1, <2>a, SourceParts, ElementOfSeq
  <2>3. CertsFrom(k + 1) = Cons("CERT", Cons("CLAUSE", u))
    BY <1>4, <2>1, <2>a, <2>b, CertsFromStep, Zenon
  <2>4. u \in Seq(Labels)
    <3>1. r \in Seq(Labels) BY <1>5, <2>b, Zenon
    <3> QED BY <2>2, <3>1, AfterTypes, ConcatProperties
  <2>5. Cons("CLAUSE", u) \in Seq(Labels) BY <1>6, <2>4, ConsType
  <2>6. Ahead("CERT", Cons("CLAUSE", u))
    BY <1>6, <1>11, <2>3, <2>5, Zenon DEF Ahead
  <2>7. /\ Rest' = Cons("CLAUSE", u) /\ Placed' /\ pc' = "makeCertificate"
        /\ credential' = credential /\ source' = source /\ clauseStr' = <<>>
        /\ certificate' = NewCertificate
    BY <1>2, <1>7, <2>6, LoopStep
  <2>8. NewCertificate = Got(c, 0) BY DEF NewCertificate, Got
  <2>9. InCertificate(c, r)'
    BY <2>7, <2>8, Zenon DEF InCertificate, AtMark
  <2>10. InSomeCertificate'
    <3>1. PICK m : m = k + 1 OBVIOUS
    <3>2. m \in 1 .. Len(source'.certificates) BY <2>1, <2>7, <3>1, Zenon
    <3>3. m - 1 = k /\ m + 1 = k + 2 BY <1>1, <3>1
    <3>4. credential' = Walked(m - 1)' BY <1>1, <1>8, <2>7, <3>3, Zenon
    <3>5. c = source'.certificates[m] BY <2>7, <2>a, <3>1, Zenon
    <3>6. r = CertsFrom(m + 1)' BY <1>8, <2>7, <2>b, <3>3, Zenon
    <3> QED BY <2>9, <3>2, <3>4, <3>5, <3>6, Zenon DEF InSomeCertificate
  <2> QED BY <2>7, <2>10
<1> QED BY <1>1, <1>9, <1>10, <1>11

\* The loop has seen END: the walk is done.
LEMMA EndStep ==
  ASSUME source \in Credentials, Placed, AtEnd, makeCredential
  PROVE  pc' \notin Walking /\ credential' = finalize(source)' /\ Placed'
<1>1. /\ pc' = "done" /\ credential' = finalize(credential)
      /\ source' = source /\ tree' = tree /\ pIdx' = pIdx
  BY DEF makeCredential, AtEnd
<1>2. credential = source
  <2>1. SubSeq(source.certificates, 1, Len(source.certificates))
          = source.certificates
    BY SourceParts, SubSeqFull
  <2>2. source = [pubKey |-> source.pubKey,
                  certificates |-> source.certificates]
    BY SourceParts, Zenon
  <2> QED BY <2>1, <2>2, Zenon DEF AtEnd, Walked
<1>3. finalize(source)' = finalize(source) BY <1>1, Zenon DEF finalize
<1> QED BY <1>1, <1>2, <1>3 DEF Walking, Placed

-----------------------------------------------------------------------------
(* The invariant of the walk                                               *)

\* An action of the walk keeps the source and the tree.
LEMMA WalkKeepsSource ==
  ASSUME Next PROVE source' = source /\ tree' = tree
BY DEF Next, makeCredential, credentialKey, makeCertificate, clauses,
       getClauseStr, certificateKey, signature

LEMMA WalkPlaced == ASSUME WalkTypeOK PROVE Placed
BY NodesAre DEF WalkTypeOK, Placed

\* A step inside a certificate stays in that certificate.
LEMMA StaysInside ==
  ASSUME NEW k \in 1 .. Len(source.certificates), credential = Walked(k - 1),
         NEW c, c = source.certificates[k], NEW r, r = CertsFrom(k + 1),
         source' = source, credential' = credential, InCertificate(c, r)'
  PROVE  InSomeCertificate'
<1>1. credential' = Walked(k - 1)' /\ r = CertsFrom(k + 1)'
  BY SourceFrame, Zenon
<1>2. k \in 1 .. Len(source'.certificates) /\ c = source'.certificates[k]
  BY Zenon
<1> QED BY <1>1, <1>2, Zenon DEF InSomeCertificate

\* One step of the walk inside a certificate.
LEMMA CertificateStep ==
  ASSUME source \in Credentials, Placed, InSomeCertificate, Next,
         Walkable(source)
  PROVE  (InCredential' \/ InSomeCertificate') /\ Placed'
<1>1. PICK k \in 1 .. Len(source.certificates) :
        /\ credential = Walked(k - 1)
        /\ \E c \in {source.certificates[k]}, r \in {CertsFrom(k + 1)} :
             InCertificate(c, r)
  BY Zenon DEF InSomeCertificate
<1>2. PICK c, r : /\ c = source.certificates[k] /\ r = CertsFrom(k + 1)
                  /\ InCertificate(c, r)
  BY <1>1, Zenon
<1>3. Len(source.certificates) \in Nat BY SourceParts, Zenon
<1>4. k + 1 \in Nat \ {0} BY <1>3
<1>5. r \in Seq(Labels) BY <1>2, <1>4, CertsFromType, Zenon
<1>6. c \in Certificates BY <1>2, SourceParts, ElementOfSeq
<1>7. source' = source BY WalkKeepsSource, Zenon
<1>8. ASSUME InCertificate(c, r)', Placed', credential' = credential
      PROVE  (InCredential' \/ InSomeCertificate') /\ Placed'
  BY <1>1, <1>2, <1>7, <1>8, StaysInside, Zenon
<1>9. CASE AtMark(c, r)
  <2>1. makeCertificate
    BY <1>9 DEF AtMark, Next, makeCredential, credentialKey, clauses,
                getClauseStr, certificateKey, signature
  <2>2. CASE /\ certificate = Got(c, 0)
             /\ Rest = Cons("CLAUSE",
                            FlattenSeq(c.clauses) \o AfterClauses(c, r))
    BY <1>5, <1>6, <1>8, <1>9, <2>1, <2>2, AtClauses, Zenon DEF InCertificate
  <2>3. CASE certificate = Got(c, 1) /\ Rest = AfterClauses(c, r)
    BY <1>5, <1>6, <1>8, <1>9, <2>1, <2>3, AtStart, Zenon DEF InCertificate
  <2>4. CASE certificate = Got(c, 2) /\ Rest = AfterStart(c, r)
    BY <1>5, <1>6, <1>8, <1>9, <2>1, <2>4, AtStop, Zenon DEF InCertificate
  <2>5. CASE certificate = Got(c, 3) /\ Rest = AfterStop(c, r)
    BY <1>5, <1>6, <1>8, <1>9, <2>1, <2>5, AtKey, Zenon DEF InCertificate
  <2>6. CASE certificate = Got(c, 4) /\ Rest = AfterKey(c, r)
    BY <1>5, <1>6, <1>8, <1>9, <2>1, <2>6, AtSignature, Zenon DEF InCertificate
  <2>7. CASE certificate = Got(c, 5) /\ Rest = AfterSignature(r)
    BY <1>1, <1>2, <1>9, <2>1, <2>7, CertificateEnd, Zenon
  <2> QED BY <1>9, <2>2, <2>3, <2>4, <2>5, <2>6, <2>7, Zenon DEF AtMark
<1>10. CASE InClauses(c, r)
  <2>0. \A j \in DOMAIN c.clauses : c.clauses[j][1] # "START_TIME"
    <3>1. source.certificates \in Seq(Certificates) BY SourceParts, Zenon
    <3>2. k \in DOMAIN source.certificates BY <3>1
    <3> QED BY <1>2, <3>2, Zenon DEF Walkable
  <2>1. CASE pc = "clauses"
    <3>1. clauses
      BY <2>1 DEF Next, makeCredential, credentialKey, makeCertificate,
                  getClauseStr, certificateKey, signature
    <3> QED BY <1>5, <1>6, <1>8, <1>10, <2>0, <3>1, ClausesStep, Zenon
            DEF InCertificate
  <2>2. CASE pc = "clause"
    <3>1. getClauseStr
      BY <2>2 DEF Next, makeCredential, credentialKey, makeCertificate,
                  clauses, certificateKey, signature
    <3> QED BY <1>5, <1>6, <1>8, <1>10, <2>2, <3>1, ClauseStep, Zenon
            DEF InCertificate
  <2> QED BY <1>10, <2>1, <2>2, Zenon DEF InClauses
<1>11. CASE InTimes(c, r)
  <2>1. pc \in {"startTime", "stopTime"} BY <1>11, Zenon DEF InTimes
  <2>2. getClauseStr
    BY <2>1 DEF Next, makeCredential, credentialKey, makeCertificate,
                clauses, certificateKey, signature
  <2>3. CASE pc = "startTime"
    BY <1>5, <1>6, <1>8, <1>11, <2>2, <2>3, StartStep, Zenon DEF InCertificate
  <2>4. CASE pc = "stopTime"
    BY <1>5, <1>6, <1>8, <1>11, <2>2, <2>4, StopStep, Zenon DEF InCertificate
  <2> QED BY <2>1, <2>3, <2>4, Zenon
<1>12. CASE InKey(c, r)
  <2>1. certificateKey
    BY <1>12 DEF InKey, Next, makeCredential, credentialKey, makeCertificate,
                 clauses, getClauseStr, signature
  <2> QED BY <1>5, <1>6, <1>8, <1>12, <2>1, KeyStep, Zenon DEF InCertificate
<1>13. CASE InSignature(c, r)
  <2>1. signature
    BY <1>13 DEF InSignature, Next, makeCredential, credentialKey,
                 makeCertificate, clauses, getClauseStr, certificateKey
  <2> QED BY <1>5, <1>6, <1>8, <1>13, <2>1, SignatureStep, Zenon
          DEF InCertificate
<1> QED BY <1>2, <1>9, <1>10, <1>11, <1>12, <1>13, Zenon DEF InCertificate

\* One step of the walk in makeCredential itself.
LEMMA CredentialStep ==
  ASSUME source \in Credentials, tree = Nodes(source), Placed, InCredential,
         Next, Walkable(source)
  PROVE  InPlace'
<1> USE DEF InPlace
<1>1. clauseStr = <<>> BY DEF InCredential
<1>2. CASE pc = "makeCredential"
  <2>1. makeCredential
    BY <1>2 DEF Next, credentialKey, makeCertificate, clauses, getClauseStr,
                certificateKey, signature
  <2>2. CASE BeforeKey BY <1>1, <2>1, <2>2, BeforeKeyStep, Zenon
  <2>3. CASE BetweenCertificates BY <1>1, <2>1, <2>3, BetweenStep, Zenon
  <2>4. CASE AtEnd BY <2>1, <2>4, EndStep, Zenon
  <2>5. ~InCredentialKey BY <1>2 DEF InCredentialKey
  <2> QED BY <2>2, <2>3, <2>4, <2>5, Zenon DEF InCredential
<1>3. CASE pc = "credentialKey"
  <2>1. credentialKey
    BY <1>3 DEF Next, makeCredential, makeCertificate, clauses, getClauseStr,
                certificateKey, signature
  <2>2. CASE InCredentialKey BY <1>1, <2>1, <2>2, CredentialKeyStep, Zenon
  <2>3. ~BeforeKey /\ ~BetweenCertificates /\ ~AtEnd
    BY <1>3 DEF BeforeKey, BetweenCertificates, AtEnd
  <2> QED BY <2>2, <2>3, Zenon DEF InCredential
<1> QED BY <1>2, <1>3, Zenon
        DEF InCredential, BeforeKey, InCredentialKey, BetweenCertificates, AtEnd

\* What a step of the walk puts into what it builds is made of labels.
LEMMA LabelTypes ==
  ASSUME WalkTypeOK
  PROVE  /\ getChildStr(pIdx) \in Labels \cup {""}
         /\ After(pIdx) \in 1 .. Len(tree) + 1
         /\ After(After(pIdx)) \in 1 .. Len(tree) + 1
         /\ \A s \in Seq(Labels) : AppendTo(s, getChildStr(pIdx)) \in Seq(Labels)
<1>1. tree \in Seq(Labels) /\ pIdx \in 1 .. Len(tree) + 1 /\ Len(tree) \in Nat
  BY WalkPlaced DEF Placed
<1>2. getChildStr(pIdx) \in Labels \cup {""}
  <2>1. CASE pIdx <= Len(tree)
    <3>1. pIdx \in 1 .. Len(tree) BY <1>1, <2>1
    <3>2. tree[pIdx] \in Labels BY <1>1, <3>1, ElementOfSeq
    <3> QED BY <2>1, <3>2, Zenon DEF getChildStr
  <2>2. CASE ~(pIdx <= Len(tree)) BY <2>2, Zenon DEF getChildStr
  <2> QED BY <2>1, <2>2
<1>3. ASSUME NEW i \in 1 .. Len(tree) + 1 PROVE After(i) \in 1 .. Len(tree) + 1
  BY <1>1 DEF After
<1>4. ASSUME NEW s \in Seq(Labels), NEW l \in Labels \cup {""}
      PROVE  AppendTo(s, l) \in Seq(Labels)
  <2>1. l \in Labels => Append(s, l) \in Seq(Labels) BY AppendProperties
  <2>2. l # "" => l \in Labels BY Zenon
  <2> QED BY <2>1, <2>2, Zenon DEF AppendTo
<1> QED BY <1>1, <1>2, <1>3, <1>4, Zenon

\* A draft with one part replaced is a draft.
LEMMA DraftParts ==
  ASSUME NEW c \in Drafts, NEW t \in Seq(Labels), NEW u \in Seq(Seq(Labels))
  PROVE  /\ [c EXCEPT !.clauses = u] \in Drafts
         /\ [c EXCEPT !.startTime = t] \in Drafts
         /\ [c EXCEPT !.stopTime = t] \in Drafts
         /\ [c EXCEPT !.pubKey = t] \in Drafts
         /\ [c EXCEPT !.signature = t] \in Drafts
         /\ [c EXCEPT !.certStr = t] \in Drafts
         /\ c.clauses \in Seq(Seq(Labels)) /\ c.startTime \in Seq(Labels)
         /\ c.stopTime \in Seq(Labels) /\ c.pubKey \in Seq(Labels)
         /\ c.signature \in Seq(Labels)
<1> DEFINE T == Seq(Labels)
           U == Seq(Seq(Labels))
<1>1. Drafts = [clauses : U, startTime : T, stopTime : T, pubKey : T,
                signature : T, certStr : T]
  BY Zenon DEF Drafts
<1>2. t \in T /\ u \in U OBVIOUS
<1> HIDE DEF T, U
<1>3. /\ [c EXCEPT !.clauses = u] \in Drafts
      /\ [c EXCEPT !.startTime = t] \in Drafts
      /\ [c EXCEPT !.stopTime = t] \in Drafts
      /\ [c EXCEPT !.pubKey = t] \in Drafts
      /\ [c EXCEPT !.signature = t] \in Drafts
      /\ [c EXCEPT !.certStr = t] \in Drafts
      /\ c.clauses \in U /\ c.startTime \in T
      /\ c.stopTime \in T /\ c.pubKey \in T
      /\ c.signature \in T
  BY <1>1, <1>2
<1> QED BY <1>3, Zenon DEF T, U

LEMMA NewDraft == NewCertificate \in Drafts
<1> DEFINE T == Seq(Labels)
           U == Seq(Seq(Labels))
<1>1. Drafts = [clauses : U, startTime : T, stopTime : T, pubKey : T,
                signature : T, certStr : T]
  BY Zenon DEF Drafts
<1>2. <<>> \in T /\ <<>> \in U BY EmptySeq
<1> HIDE DEF T, U
<1> QED BY <1>1, <1>2 DEF NewCertificate

\* What the walk builds: a credential of drafts.
DraftCredentials == [pubKey : Seq(Labels), certificates : Seq(Drafts)]

LEMMA CredentialParts ==
  ASSUME NEW cr \in DraftCredentials, NEW t \in Seq(Labels),
         NEW u \in Seq(Drafts)
  PROVE  /\ [cr EXCEPT !.pubKey = t] \in DraftCredentials
         /\ [cr EXCEPT !.certificates = u] \in DraftCredentials
         /\ cr.pubKey \in Seq(Labels) /\ cr.certificates \in Seq(Drafts)
<1> DEFINE T == Seq(Labels)
           U == Seq(Drafts)
<1>1. DraftCredentials = [pubKey : T, certificates : U]
  BY Zenon DEF DraftCredentials
<1>2. t \in T /\ u \in U OBVIOUS
<1> HIDE DEF T, U
<1>3. /\ [cr EXCEPT !.pubKey = t] \in DraftCredentials
      /\ [cr EXCEPT !.certificates = u] \in DraftCredentials
      /\ cr.pubKey \in T /\ cr.certificates \in U
  BY <1>1, <1>2
<1> QED BY <1>3, Zenon DEF T, U

\* finalize() leaves drafts drafts.
LEMMA FinalizeType ==
  ASSUME NEW cr \in DraftCredentials PROVE finalize(cr) \in DraftCredentials
<1> DEFINE s == cr.certificates
           str(i) == FlattenSeq(s[i].clauses) \o s[i].startTime
                       \o s[i].stopTime
           f == [i \in DOMAIN s |-> [s[i] EXCEPT !.certStr = str(i)]]
<1>1. s \in Seq(Drafts) BY CredentialParts, EmptySeq
<1>2. finalize(cr) = [cr EXCEPT !.certificates = f] BY DEF finalize
<1>3. ASSUME NEW i \in DOMAIN s PROVE [s[i] EXCEPT !.certStr = str(i)] \in Drafts
  <2>1. PICK c : c = s[i] OBVIOUS
  <2>2. c \in Drafts BY <1>1, <2>1, ElementOfSeq
  <2>3. /\ c.clauses \in Seq(Seq(Labels)) /\ c.startTime \in Seq(Labels)
        /\ c.stopTime \in Seq(Labels)
    BY <2>2, DraftParts, EmptySeq
  <2>4. FlattenSeq(c.clauses) \in Seq(Labels) BY <2>3, FlattenType
  <2>5. FlattenSeq(c.clauses) \o c.startTime \o c.stopTime \in Seq(Labels)
    BY <2>3, <2>4, ConcatProperties
  <2>6. PICK z : z = FlattenSeq(c.clauses) \o c.startTime \o c.stopTime OBVIOUS
  <2>7. z \in Seq(Labels) BY <2>5, <2>6, Zenon
  <2>8. [c EXCEPT !.certStr = z] \in Drafts BY <2>2, <2>7, DraftParts, EmptySeq
  <2> QED BY <2>1, <2>6, <2>8, Zenon
<1>4. f \in Seq(Drafts)
  <2>1. DOMAIN s = 1 .. Len(s) /\ Len(s) \in Nat BY <1>1
  <2> HIDE DEF s, str
  <2>2. f \in [1 .. Len(s) -> Drafts] BY <1>3, <2>1
  <2> HIDE DEF f
  <2> QED BY <2>1, <2>2
<1> HIDE DEF f
<1>5. [cr EXCEPT !.certificates = f] \in DraftCredentials
  BY <1>4, CredentialParts, EmptySeq
<1> QED BY <1>2, <1>5, Zenon

\* Every step of the walk, of any tree, keeps the types.
LEMMA WalkTypes == ASSUME WalkTypeOK, Next PROVE WalkTypeOK'
<1> USE DEF DraftCredentials
<1>1. /\ source \in Credentials /\ tree = Nodes(source)
      /\ pIdx \in 1 .. Len(tree) + 1
      /\ clauseStr \in Seq(Labels) /\ certificate \in Drafts
      /\ credential \in DraftCredentials
  BY Zenon DEF WalkTypeOK
<1>2. source' = source /\ tree' = tree BY WalkKeepsSource, Zenon
<1>3. tree \in Seq(Labels) /\ Len(tree) \in Nat BY WalkPlaced DEF Placed
<1> DEFINE a == getChildStr(pIdx)
           n == Len(tree) + 1
<1>4. /\ a \in Labels \cup {""} /\ After(pIdx) \in 1 .. n
      /\ After(After(pIdx)) \in 1 .. n
      /\ \A s \in Seq(Labels) : AppendTo(s, a) \in Seq(Labels)
  BY LabelTypes
<1>5. /\ certificate.clauses \in Seq(Seq(Labels))
      /\ certificate.startTime \in Seq(Labels)
      /\ certificate.stopTime \in Seq(Labels)
      /\ certificate.pubKey \in Seq(Labels)
      /\ certificate.signature \in Seq(Labels)
  BY <1>1, DraftParts, EmptySeq
<1>6. credential.pubKey \in Seq(Labels) /\ credential.certificates \in Seq(Drafts)
  BY <1>1, CredentialParts, EmptySeq
<1>7. "BEGIN KEY" \in Labels /\ "BEGIN SIG" \in Labels
  BY DEF Labels, Marks, LineMarks
<1>8. ASSUME NEW s \in Seq(Labels), NEW l \in Labels PROVE Append(s, l) \in Seq(Labels)
  BY AppendProperties
<1>9. <<>> \in Seq(Labels) /\ <<>> \in Seq(Seq(Labels)) /\ <<>> \in Seq(Drafts)
  BY EmptySeq
<1>10. NewCertificate \in Drafts BY NewDraft
<1>11. SUFFICES /\ pIdx' \in 1 .. n /\ clauseStr' \in Seq(Labels)
                /\ certificate' \in Drafts /\ credential' \in DraftCredentials
  BY <1>1, <1>2, Zenon DEF WalkTypeOK
<1> HIDE DEF DraftCredentials, a, n
<1>12. CASE makeCredential
  <2>1. clauseStr' = clauseStr /\ certificate' = NewCertificate
    BY <1>12, Zenon DEF makeCredential
  <2>2. pIdx' = After(pIdx) \/ pIdx' = pIdx BY <1>12, Zenon DEF makeCredential
  <2>3. \/ credential' = [credential EXCEPT !.pubKey = Append(@, "BEGIN KEY")]
        \/ credential' = credential \/ credential' = finalize(credential)
    BY <1>12, Zenon DEF makeCredential
  <2>4. [credential EXCEPT !.pubKey = Append(@, "BEGIN KEY")] \in DraftCredentials
    <3>1. Append(credential.pubKey, "BEGIN KEY") \in Seq(Labels)
      BY <1>6, <1>7, <1>8
    <3> QED BY <1>1, <1>9, <3>1, CredentialParts
  <2>5. finalize(credential) \in DraftCredentials BY <1>1, FinalizeType
  <2>6. credential' \in DraftCredentials BY <1>1, <2>3, <2>4, <2>5, Zenon
  <2>7. pIdx' \in 1 .. n BY <1>1, <1>4, <2>2, Zenon DEF n
  <2> QED BY <1>1, <1>10, <2>1, <2>6, <2>7, Zenon
<1>13. CASE credentialKey
  <2>1. clauseStr' = clauseStr /\ certificate' = certificate
    BY <1>13, Zenon DEF credentialKey
  <2>2. pIdx' = After(pIdx) \/ pIdx' = pIdx BY <1>13, Zenon DEF credentialKey
  <2>3. \/ credential' = [credential EXCEPT !.pubKey = AppendTo(@, a)]
        \/ credential' = credential
    BY <1>13, Zenon DEF credentialKey, a
  <2>4. [credential EXCEPT !.pubKey = AppendTo(@, a)] \in DraftCredentials
    <3>1. AppendTo(credential.pubKey, a) \in Seq(Labels) BY <1>4, <1>6, Zenon
    <3> QED BY <1>1, <1>9, <3>1, CredentialParts
  <2>6. credential' \in DraftCredentials BY <1>1, <2>3, <2>4, Zenon
  <2>7. pIdx' \in 1 .. n BY <1>1, <1>4, <2>2, Zenon DEF n
  <2> QED BY <1>1, <2>1, <2>6, <2>7, Zenon
<1>14. CASE makeCertificate
  <2>1. clauseStr' = clauseStr BY <1>14, Zenon DEF makeCertificate
  <2>2. \/ pIdx' = After(pIdx) \/ pIdx' = After(After(pIdx))
        \/ pIdx' = IF pIdx <= Len(tree) THEN pIdx ELSE pIdx - 1
    BY <1>14, Zenon DEF makeCertificate
  <2>3. (IF pIdx <= Len(tree) THEN pIdx ELSE pIdx - 1) \in 1 .. n
    <3>1. Len(tree) > 0 BY <1>1, TreeNotEmpty, Zenon
    <3> QED BY <1>1, <1>3, <3>1 DEF n
  <2>4. pIdx' \in 1 .. n BY <1>4, <2>2, <2>3, Zenon
  <2>5. \/ certificate' = [certificate EXCEPT !.pubKey = Append(@, "BEGIN KEY")]
        \/ certificate' = [certificate EXCEPT !.signature = Append(@, "BEGIN SIG")]
        \/ certificate' = certificate
    BY <1>14, Zenon DEF makeCertificate
  <2>6. /\ Append(certificate.pubKey, "BEGIN KEY") \in Seq(Labels)
        /\ Append(certificate.signature, "BEGIN SIG") \in Seq(Labels)
    BY <1>5, <1>7, <1>8
  <2>7. /\ [certificate EXCEPT !.pubKey = Append(@, "BEGIN KEY")] \in Drafts
        /\ [certificate EXCEPT !.signature = Append(@, "BEGIN SIG")] \in Drafts
    BY <1>1, <1>9, <2>6, DraftParts
  <2>8. \/ credential' = [credential EXCEPT !.certificates =
                                              Append(@, certificate)]
        \/ credential' = credential
    BY <1>14, Zenon DEF makeCertificate
  <2>9. [credential EXCEPT !.certificates = Append(@, certificate)]
          \in DraftCredentials
    <3>1. Append(credential.certificates, certificate) \in Seq(Drafts)
      BY <1>1, <1>6, AppendProperties
    <3> QED BY <1>1, <1>9, <3>1, CredentialParts
  <2> QED BY <1>1, <2>1, <2>4, <2>5, <2>7, <2>8, <2>9, Zenon
<1>15. CASE clauses
  BY <1>1, <1>15, Zenon DEF clauses, n
<1>16. CASE getClauseStr
  <2>1. credential' = credential /\ pIdx' = After(pIdx)
    BY <1>16, Zenon DEF getClauseStr
  <2> DEFINE str == AppendTo(clauseStr, a)
  <2>2. str \in Seq(Labels) BY <1>1, <1>4, Zenon
  <2>3. clauseStr' = str \/ clauseStr' = <<>>
    BY <1>16, Zenon DEF getClauseStr, a
  <2>4. \/ certificate' = certificate
        \/ certificate' = [certificate EXCEPT !.clauses = Append(@, str)]
        \/ certificate' = [certificate EXCEPT !.startTime = @ \o str]
        \/ certificate' = [certificate EXCEPT !.stopTime = @ \o str]
    BY <1>16, Zenon DEF getClauseStr, a
  <2> HIDE DEF str
  <2>5. /\ Append(certificate.clauses, str) \in Seq(Seq(Labels))
        /\ certificate.startTime \o str \in Seq(Labels)
        /\ certificate.stopTime \o str \in Seq(Labels)
    BY <1>5, <2>2, AppendProperties, ConcatProperties
  <2>6. /\ [certificate EXCEPT !.clauses = Append(@, str)] \in Drafts
        /\ [certificate EXCEPT !.startTime = @ \o str] \in Drafts
        /\ [certificate EXCEPT !.stopTime = @ \o str] \in Drafts
    BY <1>1, <1>9, <2>5, DraftParts
  <2> QED BY <1>1, <1>4, <1>9, <2>1, <2>2, <2>3, <2>4, <2>6, Zenon
<1>17. CASE certificateKey
  <2>1. credential' = credential /\ clauseStr' = clauseStr
    BY <1>17, Zenon DEF certificateKey
  <2>2. pIdx' = After(pIdx) \/ pIdx' = pIdx BY <1>17, Zenon DEF certificateKey
  <2>3. \/ certificate' = [certificate EXCEPT !.pubKey = AppendTo(@, a)]
        \/ certificate' = certificate
    BY <1>17, Zenon DEF certificateKey, a
  <2>4. [certificate EXCEPT !.pubKey = AppendTo(@, a)] \in Drafts
    <3>1. AppendTo(certificate.pubKey, a) \in Seq(Labels) BY <1>4, <1>5, Zenon
    <3> QED BY <1>1, <1>9, <3>1, DraftParts
  <2>5. pIdx' \in 1 .. n BY <1>1, <1>4, <2>2, Zenon DEF n
  <2> QED BY <1>1, <2>1, <2>3, <2>4, <2>5, Zenon
<1>18. CASE signature
  <2>1. credential' = credential /\ clauseStr' = clauseStr /\ pIdx' = After(pIdx)
    BY <1>18, Zenon DEF signature
  <2>2. certificate' = [certificate EXCEPT !.signature = AppendTo(@, a)]
    BY <1>18, Zenon DEF signature, a
  <2>3. [certificate EXCEPT !.signature = AppendTo(@, a)] \in Drafts
    <3>1. AppendTo(certificate.signature, a) \in Seq(Labels)
      BY <1>4, <1>5, Zenon
    <3> QED BY <1>1, <1>9, <3>1, DraftParts
  <2> QED BY <1>1, <1>4, <2>1, <2>2, <2>3, Zenon
<1> QED BY <1>12, <1>13, <1>14, <1>15, <1>16, <1>17, <1>18, Zenon DEF Next

\* The walk starts before everything.
LEMMA WalkInit == ASSUME Init PROVE WalkInv
<1>1. source \in Credentials /\ tree = Nodes(source) /\ pIdx = 1 BY DEF Init
<1>2. tree \in Seq(Labels) BY <1>1, NodesAre
<1>3. pIdx \in 1 .. Len(tree) + 1 BY <1>1, <1>2
<1>4. Rest = tree BY <1>1, <1>2, FromStart, Zenon DEF Rest
<1>5. InPlace BY <1>4, Zenon DEF Init, InPlace, InCredential, BeforeKey
<1>6. /\ clauseStr = <<>> /\ certificate = NewCertificate
      /\ credential = [pubKey |-> <<>>, certificates |-> <<>>]
  BY DEF Init
<1>7. credential \in [pubKey : Seq(Labels), certificates : Seq(Drafts)]
  <2>1. <<>> \in Seq(Labels) /\ <<>> \in Seq(Drafts) BY EmptySeq
  <2> QED BY <1>6, <2>1
<1>8. clauseStr \in Seq(Labels) BY <1>6
<1> QED BY <1>1, <1>3, <1>5, <1>6, <1>7, <1>8, NewDraft, Zenon
        DEF WalkInv, WalkTypeOK

\* Every step of the walk keeps the invariant.
LEMMA WalkStep == ASSUME WalkInv, Next PROVE WalkInv'
<1>1. WalkTypeOK /\ source \in Credentials /\ tree = Nodes(source)
  BY Zenon DEF WalkInv, WalkTypeOK
<1>2. source' = source BY WalkKeepsSource, Zenon
<1>3. WalkTypeOK' BY <1>1, WalkTypes
<1>4. Placed BY <1>1, WalkPlaced, Zenon
<1>5. pc \in Walking
  BY DEF Walking, Next, makeCredential, credentialKey, makeCertificate,
         clauses, getClauseStr, certificateKey, signature
<1>6. ASSUME Walkable(source) PROVE InPlace'
  <2>1. InPlace BY <1>6, Zenon DEF WalkInv
  <2>2. CASE InCredential BY <1>1, <1>4, <1>6, <2>2, CredentialStep, Zenon
  <2>3. CASE InSomeCertificate
    BY <1>1, <1>4, <1>6, <2>3, CertificateStep, Zenon DEF InPlace
  <2> QED BY <1>5, <2>1, <2>2, <2>3, Zenon DEF InPlace
<1>7. Walkable(source)' => Walkable(source) BY <1>2, Zenon DEF Walkable
<1> QED BY <1>3, <1>6, <1>7, Zenon DEF WalkInv

\* When the walk is over, the credential is the one that was sent.
LEMMA WalkOver ==
  ASSUME WalkInv, Walkable(source), pc \notin Walking
  PROVE  credential = finalize(source)
BY Zenon DEF WalkInv, InPlace, InCredential, InSomeCertificate, BeforeKey,
  InCredentialKey, BetweenCertificates, AtEnd, InCertificate,
  AtMark, InClauses, InTimes, InKey, InSignature, Walking

\* And so does a step of the checks behind the walk, which leaves the walk alone.
LEMMA WalkStutter ==
  ASSUME WalkInv, pc' = pc \/ {pc, pc'} \cap Walking = {},
         UNCHANGED <<source, tree, pIdx, label, clauseStr, certificate,
                     credential>>
  PROVE  WalkInv'
<1>1. /\ source' = source /\ tree' = tree /\ pIdx' = pIdx /\ label' = label
      /\ clauseStr' = clauseStr /\ certificate' = certificate
      /\ credential' = credential
  BY Zenon
<1>2. Rest' = Rest BY <1>1, Zenon DEF Rest
<1>w. WalkTypeOK' BY <1>1, Zenon DEF WalkInv, WalkTypeOK, Drafts
<1> SUFFICES ASSUME Walkable(source) PROVE InPlace'
  BY <1>1, <1>w, Zenon DEF WalkInv
<1>3. CASE pc \notin Walking /\ credential = finalize(source)
  <2>1. pc' \notin Walking BY <1>3, Zenon
  <2> QED BY <1>1, <1>3, <2>1, Zenon DEF InPlace
<1>4. CASE pc \in Walking
  <2>1. pc' = pc BY <1>4, Zenon
  <2>2. ASSUME NEW t, NEW r, Reading(t, r) PROVE Reading(t, r)'
    BY <1>1, <1>2, <2>2, Zenon DEF Reading
  <2>3. ASSUME NEW c, NEW r, InCertificate(c, r) PROVE InCertificate(c, r)'
    <3>1. CASE AtMark(c, r)
      BY <1>1, <1>2, <2>1, <3>1, Zenon DEF AtMark, InCertificate
    <3>2. CASE InClauses(c, r)
      BY <1>1, <1>2, <2>1, <2>2, <3>2, Zenon DEF InClauses, InCertificate
    <3>3. CASE InTimes(c, r)
      BY <1>1, <2>1, <2>2, <3>3, Zenon DEF InTimes, InCertificate
    <3>4. CASE InKey(c, r)
      BY <1>1, <1>2, <2>1, <3>4, Zenon DEF InKey, InCertificate
    <3>5. CASE InSignature(c, r)
      BY <1>1, <1>2, <2>1, <3>5, Zenon DEF InSignature, InCertificate
    <3> QED BY <2>3, <3>1, <3>2, <3>3, <3>4, <3>5, Zenon DEF InCertificate
  <2>4. CASE InSomeCertificate
    <3>1. InSomeCertificate'
      BY <1>1, <2>3, <2>4, SourceFrame, Zenon DEF InSomeCertificate
    <3> QED BY <1>1, <3>1, Zenon DEF InPlace
  <2>5. CASE InCredential
    <3>1. InCredential'
      BY <1>1, <1>2, <2>1, <2>5, SourceFrame, Zenon
      DEF InCredential, BeforeKey, InCredentialKey, BetweenCertificates, AtEnd
    <3> QED BY <1>1, <3>1, Zenon DEF InPlace
  <2> QED BY <1>4, <2>4, <2>5, Zenon DEF WalkInv, InPlace
<1>5. pc \in Walking \/ (pc \notin Walking /\ credential = finalize(source))
  BY WalkOver, Zenon
<1> QED BY <1>3, <1>4, <1>5, Zenon

\* A sequence that goes on to something that is not empty.
LEMMA NotAtEnd ==
  ASSUME NEW T, NEW x, NEW y, x \in Seq(T), y \in Seq(T), Len(y) > 0
  PROVE  x \o y \in Seq(T) /\ Len(x \o y) > 0
<1>1. Len(x) \in Nat /\ Len(y) \in Nat /\ Len(x \o y) = Len(x) + Len(y)
  BY ConcatProperties
<1> QED BY <1>1, ConcatProperties

\* Behind every part of a certificate there is at least its END_CERT.
LEMMA AfterLengths ==
  ASSUME NEW c \in Certificates, NEW r \in Seq(Labels)
  PROVE  /\ Len(AfterSignature(r)) > 0 /\ Len(AfterKey(c, r)) > 0
         /\ Len(AfterStop(c, r)) > 0 /\ Len(AfterStart(c, r)) > 0
         /\ Len(AfterClauses(c, r)) > 0
<1>1. "END_CERT" \in Labels /\ "STOP_TIME" \in Labels /\ "START_TIME" \in Labels
  BY DEF Labels, Marks, LineMarks
<1>2. ASSUME NEW a \in Labels, NEW s \in Seq(Labels) PROVE Len(Cons(a, s)) > 0
  BY ConsElements
<1>3. Len(AfterSignature(r)) > 0 BY <1>1, <1>2, Zenon DEF AfterSignature
<1>4. Len(AfterKey(c, r)) > 0
  BY <1>3, AfterTypes, TextTypes, NotAtEnd, Zenon DEF AfterKey
<1>5. Len(AfterStop(c, r)) > 0
  BY <1>4, AfterTypes, TextTypes, NotAtEnd, Zenon DEF AfterStop
<1>6. Len(AfterStart(c, r)) > 0
  BY <1>1, <1>2, AfterTypes, Zenon DEF AfterStart
<1>7. Len(AfterClauses(c, r)) > 0
  BY <1>1, <1>2, AfterTypes, Zenon DEF AfterClauses
<1> QED BY <1>3, <1>4, <1>5, <1>6, <1>7, Zenon

\* Where something is left to read, the index is at a child.
LEMMA InTree ==
  ASSUME Placed, NEW t, NEW i, NEW y, t \in Seq(Labels), i \in Nat,
         y \in Seq(Labels), Len(y) > 0, Rest = From(t, i + 1) \o y
  PROVE  pIdx <= Len(tree)
<1>1. i + 1 \in Nat \ {0} OBVIOUS
<1>2. From(t, i + 1) \in Seq(Labels) BY <1>1, FromType, Zenon
<1>3. Len(Rest) > 0 BY <1>2, NotAtEnd, Zenon
<1>4. ASSUME pIdx = Len(tree) + 1 PROVE FALSE
  <2>1. Rest = <<>> BY <1>4, FromEnd, Zenon DEF Placed, Rest
  <2>2. Len(<<>>) = 0 OBVIOUS
  <2>3. Len(Rest) = 0 BY <2>1, <2>2, Zenon
  <2> QED BY <1>3, <2>3
<1> QED BY <1>4 DEF Placed

\* No loop runs past the last child.
LEMMA WalkWithin ==
  ASSUME WalkInv PROVE WithinTree
<1> SUFFICES ASSUME pc \in {"credentialKey", "clauses", "clause", "startTime",
                            "stopTime", "certificateKey", "signature"},
                    Walkable(source)
             PROVE  pIdx <= Len(tree)
  BY Zenon DEF WithinTree
<1>1. source \in Credentials BY DEF WalkInv, WalkTypeOK
<1>2. Placed BY WalkPlaced, Zenon DEF WalkInv
<1>3. CASE InCredential
  <2>2. InCredentialKey
    BY <1>3 DEF InCredential, BeforeKey, BetweenCertificates, AtEnd
  <2>3. PICK i \in 1 .. Len(source.pubKey) :
          Rest = From(source.pubKey, i + 1) \o CertsFrom(1)
    BY <2>2, Zenon DEF InCredentialKey
  <2>4. source.pubKey \in Seq(Labels) /\ Len(source.pubKey) \in Nat
    BY <1>1, KeyText, Zenon
  <2>5. i \in Nat BY <2>4
  <2>6. CertsFrom(1) \in Seq(Labels) /\ Len(CertsFrom(1)) > 0
    <3>0. /\ Len(source.certificates) \in Nat
          /\ Len(source.certificates) > 0
      BY <1>1, SourceParts, Zenon DEF Walkable
    <3>1. 1 \in 1 .. Len(source.certificates) BY <3>0
    <3>2. PICK c : c = source.certificates[1] OBVIOUS
    <3>3. c \in Certificates BY <1>1, <3>1, <3>2, SourceParts, ElementOfSeq
    <3>4. PICK r : r = CertsFrom(1 + 1) OBVIOUS
    <3>5. r \in Seq(Labels)
      <4>1. 1 + 1 \in Nat \ {0} OBVIOUS
      <4> QED BY <1>1, <3>4, <4>1, CertsFromType, Zenon
    <3>6. FlattenSeq(c.clauses) \o AfterClauses(c, r) \in Seq(Labels)
      BY <3>3, <3>5, AfterTypes, ConcatProperties
    <3>7. "CERT" \in Labels /\ "CLAUSE" \in Labels BY DEF Labels, Marks, LineMarks
    <3>8. Cons("CLAUSE", FlattenSeq(c.clauses) \o AfterClauses(c, r))
            \in Seq(Labels)
      BY <3>6, <3>7, ConsType, Zenon
    <3>9. PICK y : y = Cons("CLAUSE",
                            FlattenSeq(c.clauses) \o AfterClauses(c, r))
      OBVIOUS
    <3>10. CertsFrom(1) = Cons("CERT", y)
      BY <1>1, <3>1, <3>2, <3>4, <3>9, CertsFromStep, Zenon
    <3>11. y \in Seq(Labels) BY <3>8, <3>9, Zenon
    <3>12. Cons("CERT", y) \in Seq(Labels) /\ Len(Cons("CERT", y)) = Len(y) + 1
           /\ Len(y) \in Nat
      BY <3>7, <3>11, ConsType, ConsElements, Zenon
    <3>13. Len(Cons("CERT", y)) > 0 BY <3>12
    <3> QED BY <3>10, <3>12, <3>13, Zenon
  <2> QED BY <1>2, <2>3, <2>4, <2>5, <2>6, InTree, Zenon
<1>4. CASE InSomeCertificate
  <2>1. PICK k \in 1 .. Len(source.certificates) :
          \E c \in {source.certificates[k]}, r \in {CertsFrom(k + 1)} :
            InCertificate(c, r)
    BY <1>4, Zenon DEF InSomeCertificate
  <2>2. PICK c, r : /\ c = source.certificates[k] /\ r = CertsFrom(k + 1)
                    /\ InCertificate(c, r)
    BY <2>1, Zenon
  <2>3. Len(source.certificates) \in Nat BY <1>1, SourceParts, Zenon
  <2>4. k + 1 \in Nat \ {0} BY <2>3
  <2>5. r \in Seq(Labels) BY <1>1, <2>2, <2>4, CertsFromType, Zenon
  <2>6. c \in Certificates BY <1>1, <2>2, SourceParts, ElementOfSeq
  <2>7. ~AtMark(c, r) BY DEF AtMark
  <2>8. ASSUME NEW t \in Texts, NEW y \in Seq(Labels), Len(y) > 0, Reading(t, y)
        PROVE  pIdx <= Len(tree)
    <3>1. PICK i \in 0 .. Len(t) - 1 : Rest = From(t, i + 1) \o y
      BY <2>8, Zenon DEF Reading
    <3>2. t \in Seq(Labels) /\ Len(t) \in Nat BY TextElements, Zenon
    <3>3. i \in Nat BY <3>2
    <3> QED BY <1>2, <2>8, <3>1, <3>2, <3>3, InTree, Zenon
  <2>9. CASE InClauses(c, r)
    <3>1. PICK j \in 0 .. Len(c.clauses) :
            \/ Rest = FlattenSeq(From(c.clauses, j + 1)) \o AfterClauses(c, r)
            \/ /\ j < Len(c.clauses)
               /\ Reading(c.clauses[j + 1],
                   FlattenSeq(From(c.clauses, j + 2)) \o AfterClauses(c, r))
      BY <2>9, Zenon DEF InClauses
    <3>2. c.clauses \in Seq(Texts) /\ c.clauses \in Seq(Seq(Labels))
      BY <2>6, CertificateParts, Zenon
    <3>3. Len(c.clauses) \in Nat BY <3>2
    <3>4. j + 1 \in Nat \ {0} /\ j + 2 \in Nat \ {0} BY <3>3
    <3>5. ASSUME NEW n \in Nat \ {0}
          PROVE  FlattenSeq(From(c.clauses, n)) \in Seq(Labels)
      <4>1. From(c.clauses, n) \in Seq(Seq(Labels)) BY <3>2, FromType, Zenon
      <4> QED BY <4>1, FlattenType, Zenon
    <3>6. AfterClauses(c, r) \in Seq(Labels) /\ Len(AfterClauses(c, r)) > 0
      BY <2>5, <2>6, AfterTypes, AfterLengths, Zenon
    <3>7. CASE Rest = FlattenSeq(From(c.clauses, j + 1)) \o AfterClauses(c, r)
      <4>1. Len(Rest) > 0 BY <3>4, <3>5, <3>6, <3>7, NotAtEnd, Zenon
      <4>2. Rest \in Seq(Labels) BY <3>4, <3>5, <3>6, <3>7, NotAtEnd, Zenon
      <4>3. Rest = <<>> \o Rest BY <4>2
      <4>4. <<>> \in Seq(Labels) /\ 0 \in Nat /\ Len(<<>>) = 0 OBVIOUS
      <4>5. From(<<>>, 0 + 1) = <<>> BY <4>4, FromEnd, Zenon
      <4> QED BY <1>2, <4>1, <4>2, <4>3, <4>4, <4>5, InTree, Zenon
    <3>8. CASE /\ j < Len(c.clauses)
               /\ Reading(c.clauses[j + 1],
                   FlattenSeq(From(c.clauses, j + 2)) \o AfterClauses(c, r))
      <4>1. j + 1 \in 1 .. Len(c.clauses) BY <3>3, <3>8
      <4>2. c.clauses[j + 1] \in Texts BY <3>2, <4>1, ElementOfSeq
      <4>3. PICK f, y : /\ f = FlattenSeq(From(c.clauses, j + 2))
                        /\ y = f \o AfterClauses(c, r)
        OBVIOUS
      <4>4. f \in Seq(Labels) BY <3>4, <3>5, <4>3, Zenon
      <4>5. y \in Seq(Labels) /\ Len(y) > 0 BY <3>6, <4>3, <4>4, NotAtEnd, Zenon
      <4>6. Reading(c.clauses[j + 1], y) BY <3>8, <4>3, Zenon
      <4> QED BY <2>8, <4>2, <4>5, <4>6, Zenon
    <3> QED BY <3>1, <3>7, <3>8, Zenon
  <2>10. CASE InTimes(c, r)
    BY <2>5, <2>6, <2>8, <2>10, AfterTypes, AfterLengths, CertificateParts, Zenon
    DEF InTimes
  <2>11. CASE InKey(c, r)
    <3>1. PICK i \in 1 .. Len(c.pubKey) :
            Rest = From(c.pubKey, i + 1) \o AfterKey(c, r)
      BY <2>11, Zenon DEF InKey
    <3>2. c.pubKey \in Seq(Labels) BY <2>6, TextTypes, Zenon
    <3>3. i \in Nat BY <3>2
    <3> QED BY <1>2, <2>5, <2>6, <3>1, <3>2, <3>3, AfterTypes, AfterLengths,
               InTree, Zenon
  <2>12. CASE InSignature(c, r)
    <3>1. PICK i \in 1 .. Len(c.signature) - 1 :
            Rest = From(c.signature, i + 1) \o AfterSignature(r)
      BY <2>12, Zenon DEF InSignature
    <3>2. c.signature \in Seq(Labels) BY <2>6, TextTypes, Zenon
    <3>3. i \in Nat BY <3>2
    <3> QED BY <1>2, <2>5, <2>6, <3>1, <3>2, <3>3, AfterTypes, AfterLengths,
               InTree, Zenon
  <2> QED BY <2>2, <2>7, <2>9, <2>10, <2>11, <2>12, Zenon DEF InCertificate
<1>5. pc \in Walking BY DEF Walking
<1> QED BY <1>3, <1>4, <1>5, Zenon DEF WalkInv, InPlace

-----------------------------------------------------------------------------
(* The theorems                                                            *)

\* For a credential that is Walkable the index is always where the loop that
\* runs expects it to be, and what the walk has read is in what it has built:
\* the loops of makeCredential() and makeCertificate().  For every other one
\* the index stays in the tree or behind it, and what is built is made of the
\* tree's labels.
THEOREM WalkInvariant == Spec => []WalkInv
<1>1. Init => WalkInv BY WalkInit
<1>2. WalkInv /\ [Next]_vars => WalkInv'
  <2>1. WalkInv /\ Next => WalkInv' BY WalkStep
  <2>2. WalkInv /\ UNCHANGED vars => WalkInv' BY WalkStutter, Zenon DEF vars
  <2> QED BY <2>1, <2>2
<1> QED BY <1>1, <1>2, PTL DEF Spec

\* getCredential() returns the credential that was sent, whatever the number
\* and the size of its parts and whatever its words, if it has a certificate, no
\* CERT among the lines of its key and no clause that begins with START_TIME.
THEOREM WalkRecoversCredentialTheorem == Spec => []WalkRecoversCredential
<1>1. WalkInv => WalkRecoversCredential
  <2>1. "done" \notin Walking BY DEF Walking
  <2> QED BY <2>1, WalkOver, Zenon DEF WalkRecoversCredential
<1> QED BY <1>1, WalkInvariant, PTL

\* No loop of the walk asks getChildStr() for a child that is not there, under
\* the same condition, without which there are credentials for which the loops
\* run on behind the last child.
THEOREM WithinTreeTheorem == Spec => []WithinTree
BY WalkWithin, WalkInvariant, PTL

=============================================================================
