------------------------ MODULE GenerateQueryProofs ------------------------
(***************************************************************************)
(* Proofs about generateQuery(): the loop over the tokens of a request finds *)
(* its two arguments, and the query is put together from them and from the  *)
(* key of the credential that was walked.                                   *)
(***************************************************************************)
EXTENDS VerificationProofs

-----------------------------------------------------------------------------
(* Finding a token, and the loop as a fold                                 *)

\* string::find, where the token is.
LEMMA FindIs ==
  ASSUME NEW s, NEW x, NEW i, Len(s) \in Nat, i \in 1 .. Len(s), s[i] = x,
         \A j \in 1 .. i - 1 : s[j] # x
  PROVE  find(s, x) = i
<1> DEFINE I == {j \in 1 .. Len(s) : s[j] = x}
<1>1. find(s, x) = IF I # {} THEN Min(I) ELSE 0
  BY Zenon DEF find, SelectInSeq
<1>2. i \in I /\ \A j \in I : i <= j OBVIOUS
<1>3. Min(I) = i
  <2>1. I \subseteq Int OBVIOUS
  <2> HIDE DEF I
  <2>2. PICK m : m = Min(I) OBVIOUS
  <2>3. m \in I /\ \A j \in I : m <= j BY <1>2, <2>2, Zenon DEF Min
  <2> QED BY <1>2, <2>1, <2>2, <2>3
<1> QED BY <1>1, <1>2, <1>3, Zenon

\* find_first_of, where the first letter is.
LEMMA FirstLetterIs ==
  ASSUME NEW s, NEW i, Len(s) \in Nat, i \in 1 .. Len(s), s[i] \in Lettered,
         \A j \in 1 .. i - 1 : s[j] \notin Lettered
  PROVE  findFirstLetter(s) = i
<1> DEFINE I == {j \in 1 .. Len(s) : s[j] \in Lettered}
<1>1. findFirstLetter(s) = IF I # {} THEN Min(I) ELSE 0
  BY Zenon DEF findFirstLetter, SelectInSeq
<1>2. i \in I /\ \A j \in I : i <= j OBVIOUS
<1>3. Min(I) = i
  <2>1. I \subseteq Int OBVIOUS
  <2> HIDE DEF I
  <2>2. PICK m : m = Min(I) OBVIOUS
  <2>3. m \in I /\ \A j \in I : m <= j BY <1>2, <2>2, Zenon DEF Min
  <2> QED BY <1>2, <2>1, <2>2, <2>3
<1> QED BY <1>1, <1>2, <1>3, Zenon

\* args and tmp before the first token.
NoArgument == [args |-> <<>>, tmp |-> <<>>]

\* f is the function FoldLeft computes with, for the first n tokens of s.
Reads(f, s, n) ==
  f = [S \in SUBSET (1 .. n) |->
         IF S = {} THEN NoArgument
                   ELSE ReadArgument(f[S \ {Max(S)}], s[Max(S)])]

\* The library's fold, with the function it chooses named.
LEMMA ArgumentsIs ==
  ASSUME NEW s, DOMAIN s = 1 .. Len(s)
  PROVE  Arguments(s) = (CHOOSE f : Reads(f, s, Len(s)))[1 .. Len(s)].args
BY Zenon DEF Arguments, Reads, FoldLeft, MapThenFoldSet, NoArgument

\* What the function says of a set of positions.
LEMMA ReadsAt ==
  ASSUME NEW f, NEW s, NEW n, Reads(f, s, n), NEW S \in SUBSET (1 .. n)
  PROVE  f[S] = IF S = {} THEN NoArgument
                          ELSE ReadArgument(f[S \ {Max(S)}], s[Max(S)])
<1> DEFINE g == [R \in SUBSET (1 .. n) |->
                   IF R = {} THEN NoArgument
                             ELSE ReadArgument(f[R \ {Max(R)}], s[Max(R)])]
<1>1. f = g BY Zenon DEF Reads
<1>2. g[S] = IF S = {} THEN NoArgument
                       ELSE ReadArgument(f[S \ {Max(S)}], s[Max(S)])
  BY Zenon
<1> HIDE DEF g
<1> QED BY <1>1, <1>2, Zenon

\* The greatest element.
LEMMA MaxIs ==
  ASSUME NEW S, NEW m, S \subseteq Int, m \in S, \A k \in S : k <= m
  PROVE  Max(S) = m
<1>1. PICK x : x = Max(S) OBVIOUS
<1>2. \A k \in S : m >= k OBVIOUS
<1>3. x \in S /\ \A k \in S : x >= k BY <1>1, <1>2, Zenon DEF Max
<1> QED BY <1>1, <1>3

\* There is such a function for every number of tokens, so CHOOSE finds it.
LEMMA ReadsExists == ASSUME NEW s, NEW n \in Nat PROVE \E f : Reads(f, s, n)
<1> DEFINE N == {k \in Nat : \E f : Reads(f, s, k)}
<1>1. 0 \in N
  <2> DEFINE f == [S \in SUBSET (1 .. 0) |-> NoArgument]
  <2>1. 1 .. 0 = {} OBVIOUS
  <2>2. \A S \in SUBSET (1 .. 0) : S = {} BY <2>1, Zenon
  <2>3. Reads(f, s, 0) BY <2>2, Zenon DEF Reads
  <2> QED BY <2>3
<1>2. ASSUME NEW k \in Nat, k \in N PROVE k + 1 \in N
  <2>1. PICK f : Reads(f, s, k) BY <1>2, Zenon
  <2> DEFINE h == [S \in SUBSET (1 .. k + 1) |->
                     IF k + 1 \in S THEN ReadArgument(f[S \ {k + 1}], s[k + 1])
                                    ELSE f[S]]
             e(S) == IF S = {} THEN NoArgument
                               ELSE ReadArgument(h[S \ {Max(S)}], s[Max(S)])
  <2>2. ASSUME NEW S \in SUBSET (1 .. k) PROVE h[S] = f[S]
    <3>1. S \in SUBSET (1 .. k + 1) /\ k + 1 \notin S OBVIOUS
    <3> QED BY <3>1, Zenon
  <2>3. ASSUME NEW S \in SUBSET (1 .. k + 1) PROVE h[S] = e(S)
    <3>1. CASE k + 1 \in S
      <4>1. Max(S) = k + 1
        <5>1. S \subseteq Int /\ \A i \in S : i <= k + 1 OBVIOUS
        <5> QED BY <3>1, <5>1, MaxIs, Zenon
      <4>2. S \ {k + 1} \in SUBSET (1 .. k) OBVIOUS
      <4>3. h[S \ {k + 1}] = f[S \ {k + 1}] BY <2>2, <4>2, Zenon
      <4>4. h[S] = ReadArgument(f[S \ {k + 1}], s[k + 1]) BY <3>1, Zenon
      <4> HIDE DEF h
      <4> QED BY <3>1, <4>1, <4>3, <4>4, Zenon
    <3>2. CASE k + 1 \notin S
      <4>1. S \in SUBSET (1 .. k) BY <3>2
      <4>2. S \ {Max(S)} \in SUBSET (1 .. k) BY <4>1, Zenon
      <4>3. h[S] = f[S] /\ h[S \ {Max(S)}] = f[S \ {Max(S)}]
        BY <2>2, <4>1, <4>2, Zenon
      <4> HIDE DEF h
      <4>4. f[S] = IF S = {} THEN NoArgument
                             ELSE ReadArgument(f[S \ {Max(S)}], s[Max(S)])
        BY <2>1, <4>1, ReadsAt
      <4> QED BY <4>3, <4>4, Zenon
    <3> QED BY <3>1, <3>2, Zenon
  <2>4. h = [S \in SUBSET (1 .. k + 1) |-> e(S)]
    <3>1. h = [S \in SUBSET (1 .. k + 1) |-> h[S]] BY Zenon
    <3> HIDE DEF h
    <3> QED BY <2>3, <3>1, Zenon
  <2>5. Reads(h, s, k + 1)
    <3> HIDE DEF h
    <3> QED BY <2>4, Zenon DEF Reads
  <2>6. \E g : Reads(g, s, k + 1) BY <2>5, Zenon
  <2> QED BY <2>6
<1> HIDE DEF N
<1>3. Nat \subseteq N BY <1>1, <1>2, SetInduction
<1> QED BY <1>3 DEF N

\* What the loop has read, token by token.
LEMMA ReadsStep ==
  ASSUME NEW f, NEW s, NEW n \in Nat, Reads(f, s, n), NEW k \in 1 .. n,
         NEW j, k - 1 = j
  PROVE  f[1 .. k] = ReadArgument(f[1 .. j], s[k])
<1>1. PICK S : S = 1 .. k OBVIOUS
<1>2. S \in SUBSET (1 .. n) /\ S # {} /\ S \ {k} = 1 .. j BY <1>1
<1>3. Max(S) = k
  <2>1. S \subseteq Int /\ k \in S /\ \A i \in S : i <= k BY <1>1
  <2> QED BY <2>1, MaxIs, Zenon
<1>4. f[S] = IF S = {} THEN NoArgument
                       ELSE ReadArgument(f[S \ {Max(S)}], s[Max(S)])
  BY <1>2, ReadsAt
<1> QED BY <1>1, <1>2, <1>3, <1>4, Zenon

\* Before the first token.
LEMMA ReadsNothing ==
  ASSUME NEW f, NEW s, NEW n \in Nat, Reads(f, s, n)
  PROVE  f[1 .. 0] = NoArgument
<1>1. 1 .. 0 = {} /\ {} \in SUBSET (1 .. n) OBVIOUS
<1> QED BY <1>1, ReadsAt, Zenon

-----------------------------------------------------------------------------
(* The four tokens of a request's arguments                                *)

\* The state of the loop.
Pair(a, b) == [args |-> a, tmp |-> b]

\* Its fields.
LEMMA PairParts ==
  ASSUME NEW a, NEW b, NEW d
  PROVE  /\ Pair(a, b).args = a /\ Pair(a, b).tmp = b
         /\ [Pair(a, b) EXCEPT !.tmp = d] = Pair(a, d)
BY DEF Pair

\* A token that is text goes into tmp.
LEMMA ReadText ==
  ASSUME NEW a, NEW b, NEW x, NEW d, x \notin {"(", ")", ","}, d = Append(b, x)
  PROVE  ReadArgument(Pair(a, b), x) = Pair(a, d)
<1>1. ~EndsArgument(x, Pair(a, b).tmp) /\ ~Skipped(x)
  BY Zenon DEF EndsArgument, Skipped
<1>2. d = Append(Pair(a, b).tmp, x) BY PairParts, Zenon
<1>3. ReadArgument(Pair(a, b), x) = [Pair(a, b) EXCEPT !.tmp = d]
  BY <1>1, <1>2, Zenon DEF ReadArgument
<1> QED BY <1>3, PairParts, Zenon

\* A separator moves tmp into args.
LEMMA ReadEnd ==
  ASSUME NEW a, NEW b, NEW x, NEW d, (x = "," /\ b # <<>>) \/ x = ")",
         d = Append(a, b)
  PROVE  ReadArgument(Pair(a, b), x) = Pair(d, <<>>)
<1>1. EndsArgument(x, Pair(a, b).tmp) BY PairParts, Zenon DEF EndsArgument
<1>2. d = Append(Pair(a, b).args, Pair(a, b).tmp) BY PairParts, Zenon
<1>3. ReadArgument(Pair(a, b), x) = [args |-> d, tmp |-> <<>>]
  BY <1>1, <1>2, Zenon DEF ReadArgument
<1> QED BY <1>3, Zenon DEF Pair

\* Short sequences.
LEMMA One == ASSUME NEW x PROVE <<x>> = Append(<<>>, x) /\ <<x>> # <<>>
OBVIOUS

LEMMA Two ==
  ASSUME NEW T, NEW x \in T, NEW y \in T PROVE <<x, y>> = Append(<<x>>, y)
<1>1. PICK s, t : s = <<x, y>> /\ t = Append(<<x>>, y) OBVIOUS
<1>2. s \in Seq(T) /\ Len(s) = 2 /\ s[1] = x /\ s[2] = y BY <1>1
<1>3. t \in Seq(T) /\ Len(t) = 2 /\ t[1] = x /\ t[2] = y BY <1>1
<1>4. s = t BY <1>2, <1>3, SeqEqual
<1> QED BY <1>1, <1>4, Zenon

LEMMA Four ==
  ASSUME NEW x, NEW c, NEW y, NEW e, NEW s, s = <<x, c, y, e>>
  PROVE  /\ Len(s) = 4 /\ DOMAIN s = 1 .. Len(s)
         /\ s[1] = x /\ s[2] = c /\ s[3] = y /\ s[4] = e
<1>1. Len(s) = 4 /\ DOMAIN s = 1 .. 4 OBVIOUS
<1>2. s[1] = x /\ s[2] = c /\ s[3] = y /\ s[4] = e OBVIOUS
<1> QED BY <1>1, <1>2, Zenon

\* The loop over four tokens, one after the other.
AfterFour(x, c, y, e) ==
  ReadArgument(ReadArgument(ReadArgument(ReadArgument(
    NoArgument, x), c), y), e)

LEMMA ReadsFour ==
  ASSUME NEW x, NEW c, NEW y, NEW e
  PROVE  Arguments(<<x, c, y, e>>) = AfterFour(x, c, y, e).args
<1>0. PICK n1, n2, n3, n4 :
        /\ n1 = ReadArgument(NoArgument, x) /\ n2 = ReadArgument(n1, c)
        /\ n3 = ReadArgument(n2, y) /\ n4 = ReadArgument(n3, e)
  OBVIOUS
<1>1. PICK s : s = <<x, c, y, e>> OBVIOUS
<1>2. /\ Len(s) = 4 /\ DOMAIN s = 1 .. Len(s)
      /\ s[1] = x /\ s[2] = c /\ s[3] = y /\ s[4] = e
  BY <1>1, Four
<1>3. PICK f : Reads(f, s, 4) /\ Arguments(s) = f[1 .. 4].args
  <2>1. 4 \in Nat OBVIOUS
  <2>2. \E f : Reads(f, s, 4) BY <2>1, ReadsExists, Zenon
  <2>3. Arguments(s) = (CHOOSE f : Reads(f, s, Len(s)))[1 .. Len(s)].args
    BY <1>2, ArgumentsIs, Zenon
  <2>4. Arguments(s) = (CHOOSE f : Reads(f, s, 4))[1 .. 4].args
    BY <1>2, <2>3, Zenon
  <2> QED BY <2>2, <2>4, Zenon
<1>4. PICK i0, i1, i2, i3, i4 : i0 = 0 /\ i1 = 1 /\ i2 = 2 /\ i3 = 3 /\ i4 = 4
  OBVIOUS
<1>5. /\ i0 \in 0 .. i4 /\ i1 \in 1 .. i4 /\ i2 \in 1 .. i4 /\ i3 \in 1 .. i4
      /\ i4 \in 1 .. i4 /\ i4 \in Nat
      /\ i1 - 1 = i0 /\ i2 - 1 = i1 /\ i3 - 1 = i2 /\ i4 - 1 = i3
  BY <1>4
<1>6. s[i1] = x /\ s[i2] = c /\ s[i3] = y /\ s[i4] = e BY <1>2, <1>4, Zenon
<1>7. Reads(f, s, i4) /\ Arguments(s) = f[1 .. i4].args BY <1>3, <1>4, Zenon
<1>8. f[1 .. i0] = NoArgument
  BY <1>4, <1>5, <1>7, ReadsNothing, Zenon
<1>9. f[1 .. i1] = n1
  <2>1. f[1 .. i1] = ReadArgument(f[1 .. i0], s[i1])
    BY <1>5, <1>7, ReadsStep
  <2> QED BY <1>0, <1>6, <1>8, <2>1, Zenon
<1>10. f[1 .. i2] = n2
  <2>1. f[1 .. i2] = ReadArgument(f[1 .. i1], s[i2])
    BY <1>5, <1>7, ReadsStep
  <2> QED BY <1>0, <1>6, <1>9, <2>1, Zenon
<1>11. f[1 .. i3] = n3
  <2>1. f[1 .. i3] = ReadArgument(f[1 .. i2], s[i3])
    BY <1>5, <1>7, ReadsStep
  <2> QED BY <1>0, <1>6, <1>10, <2>1, Zenon
<1>12. f[1 .. i4] = n4
  <2>1. f[1 .. i4] = ReadArgument(f[1 .. i3], s[i4])
    BY <1>5, <1>7, ReadsStep
  <2> QED BY <1>0, <1>6, <1>11, <2>1, Zenon
<1>13. n4 = AfterFour(x, c, y, e) BY <1>0, Zenon DEF AfterFour
<1> QED BY <1>1, <1>7, <1>12, <1>13, Zenon

\* The loop of generateQuery() finds the two arguments.
LEMMA TwoArguments ==
  ASSUME NEW x, NEW c, NEW y, NEW e, x \notin {"(", ")", ","},
         y \notin {"(", ")", ","}, c = ",", e = ")"
  PROVE  Arguments(<<x, c, y, e>>) = << <<x>>, <<y>> >>
<1>1. ReadArgument(NoArgument, x) = Pair(<<>>, <<x>>)
  <2>1. NoArgument = Pair(<<>>, <<>>) BY Zenon DEF NoArgument, Pair
  <2> QED BY <2>1, ReadText, One, Zenon
<1>2. ReadArgument(Pair(<<>>, <<x>>), c) = Pair(<< <<x>> >>, <<>>)
  BY ReadEnd, One, Zenon
<1>3. ReadArgument(Pair(<< <<x>> >>, <<>>), y) = Pair(<< <<x>> >>, <<y>>)
  BY ReadText, One, Zenon
<1>4. ReadArgument(Pair(<< <<x>> >>, <<y>>), e) =
        Pair(<< <<x>>, <<y>> >>, <<>>)
  <2>1. PICK T : T = { <<x>>, <<y>> } OBVIOUS
  <2>2. <<x>> \in T /\ <<y>> \in T BY <2>1, Zenon
  <2>3. << <<x>>, <<y>> >> = Append(<< <<x>> >>, <<y>>) BY <2>2, Two, Zenon
  <2> QED BY <2>3, ReadEnd, Zenon
<1>5. AfterFour(x, c, y, e) = Pair(<< <<x>>, <<y>> >>, <<>>)
  BY <1>1, <1>2, <1>3, <1>4, Zenon DEF AfterFour
<1>6. Arguments(<<x, c, y, e>>) = AfterFour(x, c, y, e).args BY ReadsFour, Zenon
<1>7. Pair(<< <<x>>, <<y>> >>, <<>>).args = << <<x>>, <<y>> >>
  BY PairParts, Zenon
<1>8. AfterFour(x, c, y, e).args = << <<x>>, <<y>> >> BY <1>5, <1>7, Zenon
<1> QED BY <1>6, <1>8, Zenon

-----------------------------------------------------------------------------
(* The query, put together                                                 *)

\* Two texts flattened.
LEMMA FlattenTwo ==
  ASSUME NEW T, NEW p \in Seq(T), NEW q \in Seq(T)
  PROVE  FlattenSeq(<<p, q>>) = p \o q
<1>1. <<>> \in Seq(Seq(T)) /\ <<p>> \in Seq(Seq(T)) OBVIOUS
<1>2. <<p>> = Append(<<>>, p) /\ <<p, q>> = Append(<<p>>, q)
  BY One, Two, Zenon
<1>3. FlattenSeq(<<p>>) = <<>> \o p
  BY <1>1, <1>2, FlattenAppend, FlattenEmpty, Zenon
<1>4. <<>> \o p = p OBVIOUS
<1> QED BY <1>1, <1>2, <1>3, <1>4, FlattenAppend, Zenon

\* Two texts with a separator before the second.
LEMMA JoinedTwo ==
  ASSUME NEW T, NEW p \in Seq(T), NEW q \in Seq(T), NEW c \in T, NEW t,
         t = [n \in DOMAIN <<p, q>> |->
                IF n = 1 THEN <<p, q>>[n] ELSE <<c>> \o <<p, q>>[n]]
  PROVE  FlattenSeq(t) = p \o (<<c>> \o q)
<1>1. PICK r : r = <<c>> \o q OBVIOUS
<1>2. r \in Seq(T) BY <1>1
<1>3. t = <<p, r>>
  <2>1. t \in Seq(Seq(T)) /\ Len(t) = 2 /\ t[1] = p /\ t[2] = r BY <1>1, <1>2
  <2>2. PICK s : s = <<p, r>> OBVIOUS
  <2>3. s \in Seq(Seq(T)) /\ Len(s) = 2 /\ s[1] = p /\ s[2] = r BY <1>2, <2>2
  <2>4. s = t BY <2>1, <2>3, SeqEqual
  <2> QED BY <2>2, <2>4, Zenon
<1> QED BY <1>1, <1>2, <1>3, FlattenTwo, Zenon

LEMMA JoinedTexts ==
  ASSUME NEW x, NEW c, NEW y, NEW t,
         t = [n \in DOMAIN << <<x>>, <<y>> >> |->
                IF n = 1 THEN << <<x>>, <<y>> >>[n]
                         ELSE <<c>> \o << <<x>>, <<y>> >>[n]]
  PROVE  FlattenSeq(t) = <<x>> \o (<<c>> \o <<y>>)
<1>1. PICK T : T = {x, c, y} OBVIOUS
<1>2. <<x>> \in Seq(T) /\ <<y>> \in Seq(T) /\ c \in T BY <1>1
<1> QED BY <1>2, JoinedTwo, Zenon

\* Two texts joined with a comma.
LEMMA JoinTwo ==
  ASSUME NEW x, NEW y, NEW c, c = ","
  PROVE  Join(<< <<x>>, <<y>> >>) = <<x>> \o (<<c>> \o <<y>>)
<1>1. PICK t : t = [n \in DOMAIN << <<x>>, <<y>> >> |->
                      IF n = 1 THEN << <<x>>, <<y>> >>[n]
                               ELSE <<c>> \o << <<x>>, <<y>> >>[n]]
  BY Zenon
<1>2. Join(<< <<x>>, <<y>> >>) = FlattenSeq(t) BY <1>1, Zenon DEF Join
<1> QED BY <1>1, <1>2, JoinedTexts, Zenon

\* A message, the part of it without its marks, and the two halves of a query.
IsMessage(s, a, b, p, x, c, y, e, z) == s = <<a, b, p, x, c, y, e, z>>
IsCall(m, b, p, x, c, y, e) == m = <<b, p, x, c, y, e>>
IsHead(q) == \E g, p, k, c : q = <<g, p, k, c>>
IsRest(v, x, c, y, e, d) == v = <<x, c, y, e, d>>
Composed(q, x, c, y, e, d) == (q \o (<<x>> \o (<<c>> \o <<y>>))) \o <<e, d>>

\* The parts of the message generateQuery() cuts out.
LEMMA CutMessage ==
  ASSUME NEW a, NEW b, NEW p, NEW x, NEW c, NEW y, NEW e, NEW z, NEW s, NEW t,
         IsMessage(s, a, b, p, x, c, y, e, z), IsCall(t, b, p, x, c, y, e)
  PROVE  SubSeq(s, 2, 8 - 1) = t
<1>s. s = <<a, b, p, x, c, y, e, z>> BY Zenon DEF IsMessage
<1>0. PICK T : /\ a \in T /\ b \in T /\ p \in T /\ x \in T /\ c \in T
               /\ y \in T /\ e \in T /\ z \in T
  <2>1. PICK T : T = {a, b, p, x, c, y, e, z} OBVIOUS
  <2> QED BY <2>1
<1>1. Len(s) = 8 BY <1>s
<1>2. PICK m : t = <<b, p, x, c, y, e>> /\ m = SubSeq(s, 2, 8 - 1)
  BY Zenon DEF IsCall
<1>3. /\ t \in Seq(T) /\ Len(t) = 6 /\ t[1] = b /\ t[2] = p /\ t[3] = x
      /\ t[4] = c /\ t[5] = y /\ t[6] = e
  BY <1>0, <1>2
<1>4. /\ m \in Seq(T) /\ Len(m) = 6 /\ m[1] = b /\ m[2] = p /\ m[3] = x
      /\ m[4] = c /\ m[5] = y /\ m[6] = e
  BY <1>0, <1>2, <1>s
<1>5. m = t
  <2>1. ASSUME NEW i \in 1 .. Len(m) PROVE m[i] = t[i]
    <3>1. i = 1 \/ i = 2 \/ i = 3 \/ i = 4 \/ i = 5 \/ i = 6 BY <1>4
    <3> QED BY <1>3, <1>4, <3>1, Zenon
  <2>2. m \in Seq(T) /\ t \in Seq(T) /\ Len(m) = Len(t) BY <1>3, <1>4, Zenon
  <2> QED BY <2>1, <2>2, SeqEqual, Zenon
<1> QED BY <1>2, <1>5, Zenon

LEMMA CutArguments ==
  ASSUME NEW b, NEW p, NEW x, NEW c, NEW y, NEW e, NEW m, NEW t,
         IsCall(m, b, p, x, c, y, e), t = <<x, c, y, e>>
  PROVE  SubSeq(m, 2 + 1, Len(m)) = t
<1>m. m = <<b, p, x, c, y, e>> BY Zenon DEF IsCall
<1>0. PICK T : /\ b \in T /\ p \in T /\ x \in T /\ c \in T /\ y \in T
               /\ e \in T
  <2>1. PICK T : T = {b, p, x, c, y, e} OBVIOUS
  <2> QED BY <2>1
<1>1. Len(m) = 6 BY <1>m
<1>2. PICK n : t = <<x, c, y, e>> /\ n = SubSeq(m, 2 + 1, Len(m)) OBVIOUS
<1>3. /\ t \in Seq(T) /\ Len(t) = 4
      /\ t[1] = x /\ t[2] = c /\ t[3] = y /\ t[4] = e
  BY <1>0, <1>2
<1>4. /\ n \in Seq(T) /\ Len(n) = 4
      /\ n[1] = x /\ n[2] = c /\ n[3] = y /\ n[4] = e
  BY <1>0, <1>1, <1>2, <1>m
<1>5. n = t BY <1>3, <1>4, SeqEqual
<1> QED BY <1>2, <1>5, Zenon

\* The message ends where END REQUEST is found.
LEMMA FindEight ==
  ASSUME NEW a, NEW b, NEW p, NEW x, NEW c, NEW y, NEW e, NEW z, NEW s,
         s = <<a, b, p, x, c, y, e, z>>, a # z, b # z, p # z, x # z, c # z,
         y # z, e # z
  PROVE  find(s, z) = 8
<1>1. /\ Len(s) = 8 /\ s[1] = a /\ s[2] = b /\ s[3] = p /\ s[4] = x
      /\ s[5] = c /\ s[6] = y /\ s[7] = e /\ s[8] = z
  OBVIOUS
<1>2. \A j \in 1 .. 8 - 1 : s[j] # z
  <2> SUFFICES ASSUME NEW j \in 1 .. 7 PROVE s[j] # z OBVIOUS
  <2>1. j = 1 \/ j = 2 \/ j = 3 \/ j = 4 \/ j = 5 \/ j = 6 \/ j = 7 OBVIOUS
  <2> QED BY <1>1, <2>1, Zenon
<1>3. Len(s) \in Nat /\ 8 \in 1 .. Len(s) BY <1>1
<1> QED BY <1>1, <1>2, <1>3, FindIs, Zenon

\* The arguments begin behind the first "(".
LEMMA FindTwo ==
  ASSUME NEW b, NEW p, NEW x, NEW c, NEW y, NEW e, NEW m,
         m = <<b, p, x, c, y, e>>, b # p
  PROVE  find(m, p) = 2
<1>1. Len(m) = 6 /\ m[1] = b /\ m[2] = p OBVIOUS
<1>2. \A j \in 1 .. 2 - 1 : m[j] # p
  <2> SUFFICES ASSUME NEW j \in 1 .. 1 PROVE m[j] # p OBVIOUS
  <2>1. j = 1 OBVIOUS
  <2> QED BY <1>1, <2>1, Zenon
<1>3. Len(m) \in Nat /\ 2 \in 1 .. Len(m) BY <1>1
<1> QED BY <1>1, <1>2, <1>3, FindIs, Zenon

\* A query put together.
LEMMA QueryText ==
  ASSUME NEW x, NEW c, NEW y, NEW e, NEW d, NEW q, NEW v,
         IsHead(q), IsRest(v, x, c, y, e, d)
  PROVE  Composed(q, x, c, y, e, d) = q \o v
<1>q. PICK g, p, k, h : q = <<g, p, k, h>> BY Zenon DEF IsHead
<1>0. PICK T : /\ g \in T /\ p \in T /\ k \in T /\ x \in T /\ c \in T
               /\ y \in T /\ e \in T /\ d \in T /\ h \in T
  <2>1. PICK T : T = {g, p, k, h, x, c, y, e, d} OBVIOUS
  <2> QED BY <2>1
<1>a. q \in Seq(T) BY <1>0, <1>q
<1>1. PICK t, u : t = <<x>> \o (<<c>> \o <<y>>) /\ u = <<e, d>> OBVIOUS
<1>2. /\ t \in Seq(T) /\ Len(t) = 3 /\ t[1] = x /\ t[2] = c /\ t[3] = y
  BY <1>0, <1>1
<1>3. u \in Seq(T) /\ Len(u) = 2 /\ u[1] = e /\ u[2] = d BY <1>0, <1>1
<1>4. PICK w : v = <<x, c, y, e, d>> /\ w = t \o u BY Zenon DEF IsRest
<1>5. /\ v \in Seq(T) /\ Len(v) = 5 /\ v[1] = x /\ v[2] = c /\ v[3] = y
      /\ v[4] = e /\ v[5] = d
  BY <1>0, <1>4
<1>6. /\ w \in Seq(T) /\ Len(w) = 5 /\ w[1] = x /\ w[2] = c /\ w[3] = y
      /\ w[4] = e /\ w[5] = d
  <2>1. /\ w \in Seq(T) /\ Len(w) = Len(t) + Len(u)
        /\ \A i \in 1 .. Len(t) + Len(u) :
             w[i] = IF i <= Len(t) THEN t[i] ELSE u[i - Len(t)]
    BY <1>2, <1>3, <1>4, ConcatProperties
  <2>2. Len(w) = 5 BY <1>2, <1>3, <2>1
  <2>3. w[1] = x /\ w[2] = c /\ w[3] = y BY <1>2, <1>3, <2>1
  <2>4. w[4] = e /\ w[5] = d BY <1>2, <1>3, <2>1
  <2> QED BY <2>1, <2>2, <2>3, <2>4, Zenon
<1>7. w = v BY <1>5, <1>6, SeqEqual
<1>8. (q \o t) \o u = q \o (t \o u)
  <2>1. t \in Seq(T) /\ u \in Seq(T) BY <1>2, <1>3, Zenon
  <2> QED BY <1>a, <2>1
<1> QED BY <1>1, <1>4, <1>7, <1>8, Zenon DEF Composed

\* The message begins where the first letter is found.
LEMMA LetterTwo ==
  ASSUME NEW a, NEW b, NEW p, NEW x, NEW c, NEW y, NEW e, NEW z, NEW s,
         s = <<a, b, p, x, c, y, e, z>>, a \notin Lettered, b \in Lettered
  PROVE  findFirstLetter(s) = 2
<1>1. Len(s) = 8 /\ s[1] = a /\ s[2] = b OBVIOUS
<1>2. \A j \in 1 .. 2 - 1 : s[j] \notin Lettered
  <2> SUFFICES ASSUME NEW j \in 1 .. 1 PROVE s[j] \notin Lettered OBVIOUS
  <2>1. j = 1 OBVIOUS
  <2> QED BY <1>1, <2>1, Zenon
<1>3. Len(s) \in Nat /\ 2 \in 1 .. Len(s) BY <1>1
<1> QED BY <1>1, <1>2, <1>3, FirstLetterIs, Zenon

\* A piece that is no mark of a request.
IsArgument(x) == x \notin {"(", ")", ",", "END REQUEST"}

LEMMA TwoEight == 8 # 0 /\ 2 # 0 /\ 2 < 8
OBVIOUS

\* generateQuery() of a request.
LEMMA QueryOfRequest ==
  ASSUME NEW x, NEW y, IsArgument(x), IsArgument(y)
  PROVE  generateQuery(RequestText(x, y)) =
           <<"allow", "(", getKeyDigest(credential.pubKey), ",">>
             \o <<x, ",", y, ")", ".">>
<1>2. PICK a, b, p, c, e, z :
        /\ a = "BEGIN REQUEST" /\ b = "request" /\ p = "(" /\ c = ","
        /\ e = ")" /\ z = "END REQUEST"
  BY Zenon
<1>3. /\ a # z /\ b # z /\ p # z /\ x # z /\ c # z /\ y # z /\ e # z /\ b # p
      /\ x \notin {"(", ")", ","} /\ y \notin {"(", ")", ","}
  BY <1>2 DEF IsArgument
<1>1. a \notin Lettered /\ b \in Lettered BY <1>2, MessageAssumption, Zenon
<1>4. PICK s : s = <<a, b, p, x, c, y, e, z>> BY Zenon
<1>5. PICK m : m = <<b, p, x, c, y, e>> BY Zenon
<1>6. PICK d, k, g, q : /\ d = "." /\ k = getKeyDigest(credential.pubKey)
                        /\ g = "allow" /\ q = <<g, p, k, c>>
  BY Zenon
<1>9. RequestText(x, y) = s BY <1>2, <1>4, Zenon DEF RequestText
<1>10. find(s, z) = 8 BY <1>3, <1>4, FindEight, Zenon
<1>17. findFirstLetter(s) = 2 BY <1>1, <1>4, LetterTwo, Zenon
<1>11. SubSeq(s, 2, 8 - 1) = m
  <2>1. IsMessage(s, a, b, p, x, c, y, e, z) /\ IsCall(m, b, p, x, c, y, e)
    BY <1>4, <1>5, Zenon DEF IsMessage, IsCall
  <2> QED BY <2>1, CutMessage, Zenon
<1>12. find(m, p) = 2 BY <1>3, <1>5, FindTwo, Zenon
<1>7. PICK t : t = <<x, c, y, e>> BY Zenon
<1>13. SubSeq(m, 2 + 1, Len(m)) = t
  <2>1. IsCall(m, b, p, x, c, y, e) BY <1>5, Zenon DEF IsCall
  <2> QED BY <1>7, <2>1, CutArguments, Zenon
<1>14. Arguments(<<x, c, y, e>>) = << <<x>>, <<y>> >>
  BY <1>2, <1>3, TwoArguments, Zenon
<1>15. Join(<< <<x>>, <<y>> >>) = <<x>> \o (<<c>> \o <<y>>)
  BY <1>2, JoinTwo, Zenon
<1>16. generateQuery(s) = (q \o (<<x>> \o (<<c>> \o <<y>>))) \o <<e, d>>
  <2> DEFINE cut == SubSeq(s, findFirstLetter(s),
                      IF findFirstLetter(s) < find(s, z)
                        THEN find(s, z) - 1 ELSE Len(s))
  <2>1. generateQuery(s) =
          IF find(s, z) = 0 \/ findFirstLetter(s) = 0 THEN <<>>
          ELSE <<g, p, k, c>>
                 \o Join(Arguments(SubSeq(cut, find(cut, p) + 1, Len(cut))))
                 \o <<e, d>>
    BY <1>2, <1>6, Zenon DEF generateQuery
  <2>2. 8 # 0 /\ 2 # 0 /\ 2 < 8 BY TwoEight, Zenon
  <2>3. cut = m BY <1>10, <1>11, <1>17, <2>2, Zenon
  <2> HIDE DEF cut
  <2>4. generateQuery(s) =
          (<<g, p, k, c>> \o Join(Arguments(<<x, c, y, e>>))) \o <<e, d>>
    BY <1>7, <1>10, <1>12, <1>13, <1>17, <2>1, <2>2, <2>3, Zenon
  <2> QED BY <1>6, <1>14, <1>15, <2>4, Zenon
<1>8. PICK v : v = <<x, c, y, e, d>> BY Zenon
<1>18. Composed(q, x, c, y, e, d) = q \o v
  <2>1. IsHead(q) /\ IsRest(v, x, c, y, e, d)
    BY <1>6, <1>8, Zenon DEF IsHead, IsRest
  <2> QED BY <2>1, QueryText, SMT
<1> QED BY <1>2, <1>6, <1>8, <1>9, <1>16, <1>18, Zenon DEF Composed

-----------------------------------------------------------------------------
(* The theorem                                                             *)

\* Only processRequest() leads to a query.
LEMMA NotQueried ==
  ASSUME \/ Next \/ verifyCredential \/ verifyCertificate \/ verified
         \/ authenticateClient \/ writeBinderFile \/ Tick
  PROVE  pc' # "queried"
BY DEF Next, makeCredential, credentialKey, makeCertificate, clauses,
     getClauseStr, certificateKey, signature, Part, verifyCredential,
     verifyCertificate, verified, authenticateClient, writeBinderFile, Tick

\* The query of a request, and every other step.
LEMMA QueryStep ==
  ASSUME WalkInv, QueryIsRequest, [CheckNext]_allVars PROVE QueryIsRequest'
<1> SUFFICES ASSUME pc' = "queried", Walkable(source'),
                    asked' = RequestText(asked'[4], asked'[6]),
                    {asked'[4], asked'[6]}
                      \cap {"(", ")", ",", "END REQUEST"} = {},
                    Len(asked') = 8
             PROVE  query' =
                      <<"allow", "(", getKeyDigest(source'.pubKey), ",">>
                        \o <<asked'[4], ",", asked'[6], ")", ".">>
  BY Zenon DEF QueryIsRequest
<1>1. CASE UNCHANGED allVars
  BY <1>1, Zenon DEF allVars, vars, checkVars, QueryIsRequest
<1>2. CASE processRequest /\ source' = source
  <2>1. pc = "request" BY <1>2, Zenon DEF processRequest
  <2>2. pc \notin Walking BY <2>1 DEF Walking
  <2>3. source \in Credentials /\ credential = finalize(source)
    BY <1>2, <2>2, WalkOver, Zenon DEF WalkInv, WalkTypeOK
  <2>4. credential.pubKey = source'.pubKey BY <1>2, <2>3, FinalizeKeeps, Zenon
  <2>5. query' = generateQuery(asked') BY <1>2, Zenon DEF processRequest
  <2>6. PICK x, y : x = asked'[4] /\ y = asked'[6] OBVIOUS
  <2>7. IsArgument(x) /\ IsArgument(y) BY <2>6, Zenon DEF IsArgument
  <2>8. query' = generateQuery(RequestText(x, y)) BY <2>5, <2>6, Zenon
  <2> QED BY <2>4, <2>6, <2>7, <2>8, QueryOfRequest, Zenon
<1>3. CASE \/ Next \/ verifyCredential \/ verifyCertificate \/ verified
           \/ authenticateClient \/ writeBinderFile \/ Tick
  BY <1>3, NotQueried, Zenon
<1> QED BY <1>1, <1>2, <1>3, Zenon DEF CheckNext, Check

\* The query executeQuery() is given asks, for every operation and argument of a
\* request of the grammar's form, for what the request asked, by the key that the
\* credential was sent with: the loop of generateQuery() neither drops nor joins
\* an argument.
THEOREM QueryIsRequestTheorem == CheckSpec => []QueryIsRequest
<1>1. CheckInit => QueryIsRequest
  BY DEF CheckInit, Init, QueryIsRequest
<1>2. WalkInv /\ QueryIsRequest /\ [CheckNext]_allVars => QueryIsRequest'
  BY QueryStep, Zenon
<1> QED BY <1>1, <1>2, CheckInvariant, PTL DEF CheckSpec

-----------------------------------------------------------------------------
(* Any message                                                             *)

\* The pieces that are no parenthesis.
Flat == (STRING \cup {","}) \ {"(", ")"}

\* What the loop has read so far.
LoopState(L) == [args : Seq(Seq(L)), tmp : Seq(L)]

\* The types of the loop's two assignments, and of its start.
LEMMA LoopTypes ==
  ASSUME NEW L, NEW p \in LoopState(L), NEW x
  PROVE  /\ [args |-> Append(p.args, p.tmp), tmp |-> <<>>] \in LoopState(L)
         /\ x \in L => [p EXCEPT !.tmp = Append(@, x)] \in LoopState(L)
<1>1. p.args \in Seq(Seq(L)) /\ p.tmp \in Seq(L) BY DEF LoopState
<1>2. Append(p.args, p.tmp) \in Seq(Seq(L)) /\ <<>> \in Seq(L) BY <1>1
<1>3. x \in L => Append(p.tmp, x) \in Seq(L) BY <1>1
<1>4. [args |-> Append(p.args, p.tmp), tmp |-> <<>>] \in LoopState(L)
  BY <1>2 DEF LoopState
<1>5. x \in L => [p EXCEPT !.tmp = Append(@, x)] \in LoopState(L)
  BY <1>3 DEF LoopState
<1> QED BY <1>4, <1>5

LEMMA LoopStart == ASSUME NEW L PROVE NoArgument \in LoopState(L)
<1>1. <<>> \in Seq(Seq(L)) /\ <<>> \in Seq(L) OBVIOUS
<1> QED BY <1>1 DEF NoArgument, LoopState

\* No piece brings a parenthesis in.
LEMMA ReadFlat ==
  ASSUME NEW p \in LoopState(Flat), NEW x \in STRING
  PROVE  ReadArgument(p, x) \in LoopState(Flat)
<1>1. CASE EndsArgument(x, p.tmp)
  <2>1. ReadArgument(p, x) = [args |-> Append(p.args, p.tmp), tmp |-> <<>>]
    BY <1>1, Zenon DEF ReadArgument
  <2> QED BY <2>1, LoopTypes, Zenon
<1>2. CASE ~EndsArgument(x, p.tmp) /\ ~Skipped(x)
  <2>1. x \in Flat BY <1>2, Zenon DEF Skipped, Flat
  <2>2. ReadArgument(p, x) = [p EXCEPT !.tmp = Append(@, x)]
    BY <1>2, Zenon DEF ReadArgument
  <2> QED BY <2>1, <2>2, LoopTypes, Zenon
<1>3. CASE ~EndsArgument(x, p.tmp) /\ Skipped(x)
  <2>1. ReadArgument(p, x) = p BY <1>3, Zenon DEF ReadArgument
  <2> QED BY <2>1, Zenon
<1> QED BY <1>1, <1>2, <1>3, Zenon

\* The whole loop, piece by piece.
LEMMA FlatArguments ==
  ASSUME NEW s \in Seq(STRING) PROVE Arguments(s) \in Seq(Seq(Flat))
<1>1. PICK n : n = Len(s) OBVIOUS
<1>2. n \in Nat /\ DOMAIN s = 1 .. Len(s) BY <1>1
<1>3. PICK f : Reads(f, s, n) /\ Arguments(s) = f[1 .. n].args
  <2>1. \E f : Reads(f, s, n) BY <1>2, ReadsExists, Zenon
  <2>2. Arguments(s) = (CHOOSE f : Reads(f, s, n))[1 .. n].args
    BY <1>1, <1>2, ArgumentsIs, Zenon
  <2> QED BY <2>1, <2>2, Zenon
<1> DEFINE N == {k \in Nat : k <= n => f[1 .. k] \in LoopState(Flat)}
<1>4. 0 \in N
  <2>1. f[1 .. 0] \in LoopState(Flat)
    BY <1>2, <1>3, ReadsNothing, LoopStart, Zenon
  <2>2. 0 \in Nat OBVIOUS
  <2> QED BY <2>1, <2>2, Zenon
<1>5. ASSUME NEW k \in Nat, k \in N PROVE k + 1 \in N
  <2>1. SUFFICES ASSUME k + 1 <= n PROVE f[1 .. k + 1] \in LoopState(Flat)
    <3>1. k + 1 \in Nat OBVIOUS
    <3> QED BY <3>1
  <2>2. PICK j : j = k + 1 OBVIOUS
  <2>3. k <= n /\ j \in 1 .. n /\ j - 1 = k BY <1>2, <2>1, <2>2
  <2>4. f[1 .. k] \in LoopState(Flat) BY <1>5, <2>3, Zenon
  <2>5. s[j] \in STRING
    <3>1. j \in 1 .. Len(s) BY <1>1, <2>3, Zenon
    <3> QED BY <3>1, ElementOfSeq
  <2>6. f[1 .. j] = ReadArgument(f[1 .. k], s[j])
    BY <1>2, <1>3, <2>3, ReadsStep
  <2> QED BY <2>2, <2>4, <2>5, <2>6, ReadFlat, Zenon
<1> HIDE DEF N
<1>6. Nat \subseteq N BY <1>4, <1>5, SetInduction
<1>7. n \in N BY <1>2, <1>6, Zenon
<1>8. n <= n BY <1>2
<1>9. f[1 .. n] \in LoopState(Flat) BY <1>7, <1>8, Zenon DEF N
<1>10. PICK L : L = Flat OBVIOUS
<1>11. f[1 .. n] \in LoopState(L) BY <1>9, <1>10, Zenon
<1>12. f[1 .. n].args \in Seq(Seq(L)) BY <1>11 DEF LoopState
<1> QED BY <1>3, <1>10, <1>12, Zenon

\* Texts with separators before them stay flat.
LEMMA SeparatedType ==
  ASSUME NEW L, NEW ss \in Seq(Seq(L)), NEW c \in L, NEW t,
         t = [n \in DOMAIN ss |-> IF n = 1 THEN ss[n] ELSE <<c>> \o ss[n]]
  PROVE  FlattenSeq(t) \in Seq(L)
<1>1. ASSUME NEW n \in DOMAIN ss
      PROVE  (IF n = 1 THEN ss[n] ELSE <<c>> \o ss[n]) \in Seq(L)
  <2>1. ss[n] \in Seq(L) BY <1>1, ElementOfSeq
  <2>2. <<c>> \o ss[n] \in Seq(L) BY <2>1
  <2> QED BY <2>1, <2>2
<1>2. DOMAIN ss = 1 .. Len(ss) /\ Len(ss) \in Nat OBVIOUS
<1>3. t \in Seq(Seq(L)) BY <1>1, <1>2
<1> QED BY <1>3, FlattenType, Zenon

LEMMA JoinFlat ==
  ASSUME NEW ss \in Seq(Seq(Flat)) PROVE Join(ss) \in Seq(Flat)
<1>1. PICK c : c = "," OBVIOUS
<1>2. c \in Flat
  <2>1. c \in {","} BY <1>1, Zenon
  <2>2. c \notin {"(", ")"} BY <1>1
  <2> QED BY <2>1, <2>2, Zenon DEF Flat
<1>3. PICK t : t = [n \in DOMAIN ss |-> IF n = 1 THEN ss[n] ELSE <<c>> \o ss[n]]
  OBVIOUS
<1>4. Join(ss) = FlattenSeq(t) BY <1>1, <1>3, Zenon DEF Join
<1>5. FlattenSeq(t) \in Seq(Flat) BY <1>2, <1>3, SeparatedType, Zenon
<1> QED BY <1>4, <1>5, Zenon

\* A piece of a sequence.
LEMMA PieceIs ==
  ASSUME NEW T, NEW q \in Seq(T), NEW a \in Nat, NEW b \in Nat, NEW n \in Nat,
         a + n = b, b <= Len(q), NEW u, u = SubSeq(q, a + 1, b)
  PROVE  u \in Seq(T) /\ Len(u) = n /\ \A i \in 1 .. n : u[i] = q[a + i]
<1>1. \A i \in a + 1 .. b : q[i] \in T
  <2> SUFFICES ASSUME NEW i \in a + 1 .. b PROVE q[i] \in T OBVIOUS
  <2>1. i \in 1 .. Len(q) OBVIOUS
  <2> QED BY <2>1, ElementOfSeq
<1>2. PICK c : c = a + 1 OBVIOUS
<1>3. c \in Int /\ b \in Int /\ b - c + 1 = n /\ (c <= b <=> n # 0) BY <1>2
<1>4. /\ SubSeq(q, c, b) \in Seq(T)
      /\ Len(SubSeq(q, c, b)) = IF c <= b THEN b - c + 1 ELSE 0
      /\ \A i \in 1 .. b - c + 1 : SubSeq(q, c, b)[i] = q[c + i - 1]
  <2>1. \A i \in c .. b : q[i] \in T BY <1>1, <1>2, Zenon
  <2> QED BY <1>3, <2>1, SubSeqProperties
<1>5. u = SubSeq(q, c, b) BY <1>2, Zenon
<1>6. u \in Seq(T) /\ Len(u) = IF n # 0 THEN n ELSE 0 BY <1>3, <1>4, <1>5, Zenon
<1>7. \A i \in 1 .. n : u[i] = q[c + i - 1] BY <1>3, <1>4, <1>5, Zenon
<1>8. ASSUME NEW i \in 1 .. n PROVE u[i] = q[a + i]
  <2>1. c + i - 1 = a + i BY <1>2
  <2> QED BY <1>7, <2>1, Zenon
<1>9. Len(u) = n BY <1>6, Zenon
<1> QED BY <1>6, <1>8, <1>9, Zenon

\* Two sequences put together, and taken apart again.
TakenApart(q, r, t, T) ==
  /\ q \in Seq(T) /\ Len(q) = Len(r) + Len(t)
  /\ \A i \in 1 .. Len(r) : q[i] = r[i]
  /\ SubSeq(q, 1, Len(r)) = r
  /\ SubSeq(q, Len(r) + 1, Len(q)) = t

LEMMA ConcatParts ==
  ASSUME NEW T, NEW r, NEW t, NEW q, r \in Seq(T), t \in Seq(T),
         IsConcat(q, r, t)
  PROVE  TakenApart(q, r, t, T)
<1>1. PICK m, n : m = Len(r) /\ n = Len(t) OBVIOUS
<1>2. m \in Nat /\ n \in Nat BY <1>1
<1>3. /\ q \in Seq(T) /\ Len(q) = m + n
      /\ \A i \in 1 .. m + n : q[i] = IF i <= m THEN r[i] ELSE t[i - m]
  <2>1. /\ r \o t \in Seq(T) /\ Len(r \o t) = Len(r) + Len(t)
        /\ \A i \in 1 .. Len(r) + Len(t) :
             (r \o t)[i] = IF i <= Len(r) THEN r[i] ELSE t[i - Len(r)]
    BY ConcatProperties
  <2> QED BY <1>1, <2>1, Zenon DEF IsConcat
<1>4. \A i \in 1 .. m : q[i] = r[i] BY <1>2, <1>3
<1>5. \A i \in 1 .. n : q[m + i] = t[i] BY <1>2, <1>3
<1>7. SubSeq(q, 1, m) = r
  <2>1. PICK u, o, a : u = SubSeq(q, a, m) /\ o = 0 /\ a = 0 + 1 /\ a = 1
    <3>1. 0 + 1 = 1 OBVIOUS
    <3> QED BY <3>1, Zenon
  <2>2. o \in Nat /\ o + m = m /\ m <= Len(q) BY <1>2, <1>3, <2>1
  <2>3. u = SubSeq(q, o + 1, m) BY <2>1, Zenon
  <2>4. u \in Seq(T) /\ Len(u) = m /\ \A i \in 1 .. m : u[i] = q[o + i]
    BY <1>2, <1>3, <2>2, <2>3, PieceIs
  <2>5. ASSUME NEW i \in 1 .. m PROVE u[i] = r[i]
    <3>1. o + i = i BY <2>1
    <3> QED BY <1>4, <2>4, <3>1, Zenon
  <2>6. Len(u) = Len(r) /\ \A i \in 1 .. Len(u) : u[i] = r[i]
    BY <1>1, <2>4, <2>5, Zenon
  <2>7. u = r BY <2>4, <2>6, SeqEqual, Zenon
  <2> QED BY <2>1, <2>7, Zenon
<1>8. SubSeq(q, m + 1, m + n) = t
  <2>1. PICK u, b : u = SubSeq(q, m + 1, b) /\ b = m + n OBVIOUS
  <2>2. b \in Nat /\ m + n = b /\ b <= Len(q) BY <1>2, <1>3, <2>1
  <2>3. u = SubSeq(q, m + 1, b) /\ q \in Seq(T) BY <1>3, <2>1, Zenon
  <2>4. u \in Seq(T) /\ Len(u) = n /\ \A i \in 1 .. n : u[i] = q[m + i]
    <3> HIDE <2>1
    <3> QED BY <1>2, <2>2, <2>3, PieceIs
  <2>5. Len(u) = Len(t) /\ \A i \in 1 .. Len(u) : u[i] = t[i]
    BY <1>1, <1>5, <2>4, Zenon
  <2>6. u = t BY <2>4, <2>5, SeqEqual, Zenon
  <2> QED BY <2>1, <2>6, Zenon
<1> QED BY <1>1, <1>3, <1>4, <1>7, <1>8, Zenon DEF TakenApart

\* A text with four pieces before it and two behind it.
IsTail(t) == \E e, d : t = <<e, d>>
IsFramed(q, h, j, t) == q = (h \o j) \o t

\* Their elements, with those of the text.
LEMMA FrameTypes ==
  ASSUME NEW L, NEW h, NEW t, NEW j \in Seq(L), IsHead(h), IsTail(t)
  PROVE  \E T : /\ h \in Seq(T) /\ t \in Seq(T) /\ j \in Seq(T)
                /\ Len(h) = 4 /\ Len(t) = 2
<1>1. PICK a, b, k, c : h = <<a, b, k, c>> BY Zenon DEF IsHead
<1>2. PICK e, d : t = <<e, d>> BY Zenon DEF IsTail
<1>3. PICK T : T = L \cup {a, b, k, c, e, d} OBVIOUS
<1>4. h \in Seq(T) /\ Len(h) = 4 BY <1>1, <1>3
<1>5. t \in Seq(T) /\ Len(t) = 2 BY <1>2, <1>3
<1>6. j \in Seq(T)
  <2>1. L \subseteq T BY <1>3
  <2> QED BY <2>1
<1> QED BY <1>4, <1>5, <1>6, Zenon

FrameOf(q, h, t, L) ==
  /\ Len(q) > 5 /\ SubSeq(q, 1, 4) = h
  /\ SubSeq(q, Len(q) - 1, Len(q)) = t
  /\ \A i \in 5 .. Len(q) - 2 : q[i] \in L

LEMMA Framed ==
  ASSUME NEW L, NEW h, NEW t, NEW j, NEW q, j \in Seq(L), IsHead(h), IsTail(t),
         IsFramed(q, h, j, t)
  PROVE  FrameOf(q, h, t, L)
<1>1. PICK T : /\ h \in Seq(T) /\ t \in Seq(T) /\ j \in Seq(T)
               /\ Len(h) = 4 /\ Len(t) = 2
  BY FrameTypes, Zenon
<1>2. PICK r, v : r = h \o j /\ v = j \o t OBVIOUS
<1>3. IsConcat(q, r, t) /\ IsConcat(r, h, j) /\ IsConcat(v, j, t)
  BY <1>2, Zenon DEF IsFramed, IsConcat
<1>4. IsConcat(q, h, v)
  <2>1. (h \o j) \o t = h \o (j \o t) BY <1>1, ConcatAssociative
  <2> QED BY <1>2, <2>1, Zenon DEF IsFramed, IsConcat
<1>a. h \in Seq(T) /\ t \in Seq(T) /\ j \in Seq(T) BY <1>1, Zenon
<1>b. TakenApart(r, h, j, T) BY <1>a, <1>3, ConcatParts
<1>5. r \in Seq(T) /\ Len(r) = Len(h) + Len(j) BY <1>b, Zenon DEF TakenApart
<1>c. TakenApart(v, j, t, T) BY <1>a, <1>3, ConcatParts
<1>6. v \in Seq(T) BY <1>c, Zenon DEF TakenApart
<1>d. TakenApart(q, r, t, T) BY <1>a, <1>3, <1>5, ConcatParts
<1>e. TakenApart(q, h, v, T) BY <1>a, <1>4, <1>6, ConcatParts
<1>7. /\ Len(q) = Len(r) + Len(t) /\ SubSeq(q, Len(r) + 1, Len(q)) = t
      /\ \A i \in 1 .. Len(r) : q[i] = r[i]
  BY <1>d, Zenon DEF TakenApart
<1>8. SubSeq(q, 1, Len(h)) = h BY <1>e, Zenon DEF TakenApart
<1>9. PICK n, m : n = Len(j) /\ m = Len(q) OBVIOUS
<1>10. n \in Nat BY <1>1, <1>9
<1>11. Len(r) = 4 + n /\ m = (4 + n) + 2
  BY <1>1, <1>5, <1>7, <1>9, Zenon
<1>12. m > 5 /\ m - 1 = (4 + n) + 1 /\ m - 2 = 4 + n BY <1>10, <1>11
<1>13. SubSeq(q, m - 1, m) = t BY <1>7, <1>9, <1>11, <1>12, Zenon
<1>14. ASSUME NEW i \in 5 .. m - 2 PROVE q[i] \in L
  <2>1. i \in 1 .. 4 + n /\ i - 4 \in 1 .. n /\ 4 + (i - 4) = i
    BY <1>10, <1>12
  <2>2. q[i] = r[i] BY <1>7, <1>11, <2>1, Zenon
  <2>3. r[i] = j[i - 4]
    <3>1. \A k \in 1 .. Len(h) + Len(j) :
            (h \o j)[k] = IF k <= Len(h) THEN h[k] ELSE j[k - Len(h)]
      BY <1>1, ConcatProperties
    <3>2. r[i] = IF i <= 4 THEN h[i] ELSE j[i - 4]
      BY <1>1, <1>2, <1>9, <2>1, <3>1, Zenon
    <3>3. ~(i <= 4) BY <1>10, <1>12
    <3> QED BY <3>2, <3>3, Zenon
  <2>4. j[i - 4] \in L
    <3>1. i - 4 \in 1 .. Len(j) BY <1>9, <2>1, Zenon
    <3> QED BY <3>1, ElementOfSeq
  <2> QED BY <2>2, <2>3, <2>4, Zenon
<1> QED BY <1>1, <1>8, <1>9, <1>12, <1>13, <1>14, Zenon DEF FrameOf

\* A position that was looked for.
LEMMA PlaceType ==
  ASSUME NEW s, Len(s) \in Nat
  PROVE  /\ \A x : find(s, x) \in 0 .. Len(s)
         /\ findFirstLetter(s) \in 0 .. Len(s)
<1>1. ASSUME NEW I \in SUBSET (1 .. Len(s))
      PROVE  (IF I # {} THEN Min(I) ELSE 0) \in 0 .. Len(s)
  <2>1. CASE I = {}
    <3>1. 0 \in 0 .. Len(s) OBVIOUS
    <3> QED BY <2>1, <3>1, Zenon
  <2>2. CASE I # {}
    <3>1. I \in SUBSET Nat OBVIOUS
    <3>2. PICK i : i \in I BY <2>2
    <3>3. \E m \in I : \A k \in I : m <= k BY <3>1, <3>2, LeastElement
    <3>4. Min(I) \in I BY <3>3, Zenon DEF Min
    <3>5. PICK m : m = Min(I) OBVIOUS
    <3>7. m \in 1 .. Len(s) BY <3>4, <3>5, Zenon
    <3>6. m \in 0 .. Len(s) BY <3>7
    <3> QED BY <2>2, <3>5, <3>6, Zenon
  <2> QED BY <2>1, <2>2, Zenon
<1>2. ASSUME NEW x PROVE find(s, x) \in 0 .. Len(s)
  <2> DEFINE I == {j \in 1 .. Len(s) : s[j] = x}
  <2>1. find(s, x) = IF I # {} THEN Min(I) ELSE 0
    BY Zenon DEF find, SelectInSeq
  <2>2. I \in SUBSET (1 .. Len(s)) BY Zenon
  <2> HIDE DEF I
  <2> QED BY <1>1, <2>1, <2>2, Zenon
<1>3. findFirstLetter(s) \in 0 .. Len(s)
  <2> DEFINE I == {j \in 1 .. Len(s) : s[j] \in Lettered}
  <2>1. findFirstLetter(s) = IF I # {} THEN Min(I) ELSE 0
    BY Zenon DEF findFirstLetter, SelectInSeq
  <2>2. I \in SUBSET (1 .. Len(s)) BY Zenon
  <2> HIDE DEF I
  <2> QED BY <1>1, <2>1, <2>2, Zenon
<1> QED BY <1>2, <1>3, Zenon

\* What is cut out of a sequence.
LEMMA CutType ==
  ASSUME NEW T, NEW s \in Seq(T), NEW i \in 1 .. Len(s) + 1, NEW n \in 0 .. Len(s)
  PROVE  SubSeq(s, i, n) \in Seq(T)
<1>1. \A k \in i .. n : s[k] \in T
  <2> SUFFICES ASSUME NEW k \in i .. n PROVE s[k] \in T OBVIOUS
  <2>1. k \in 1 .. Len(s) OBVIOUS
  <2> QED BY <2>1, ElementOfSeq
<1>2. i \in Int /\ n \in Int OBVIOUS
<1> QED BY <1>1, <1>2, SubSeqProperties

\* The bounds generateQuery() cuts at.
LEMMA CutBounds ==
  ASSUME NEW n \in Nat, NEW i \in 0 .. n, NEW e \in 0 .. n, e # 0
  PROVE  /\ i # 0 => i \in 1 .. n + 1
         /\ (IF i < e THEN e - 1 ELSE n) \in 0 .. n
         /\ i + 1 \in 1 .. n + 1 /\ n \in 0 .. n
OBVIOUS

\* generateQuery() of anything.
LEMMA QueryOfAny ==
  ASSUME NEW msg \in Seq(STRING), NEW q, q = generateQuery(msg), q # <<>>
  PROVE  /\ Len(q) > 5
         /\ SubSeq(q, 1, 4) =
              <<"allow", "(", getKeyDigest(credential.pubKey), ",">>
         /\ SubSeq(q, Len(q) - 1, Len(q)) = <<")", ".">>
         /\ \A i \in 5 .. Len(q) - 2 : q[i] \in Flat
<1> DEFINE end == find(msg, "END REQUEST")
           pos == findFirstLetter(msg)
           to  == IF pos < end THEN end - 1 ELSE Len(msg)
           m   == SubSeq(msg, pos, to)
           arg == SubSeq(m, find(m, "(") + 1, Len(m))
<1>1. PICK h, t : /\ h = <<"allow", "(", getKeyDigest(credential.pubKey), ",">>
                  /\ t = <<")", ".">>
  BY Zenon
<1>2. end # 0 /\ pos # 0 /\ q = (h \o Join(Arguments(arg))) \o t
  BY <1>1, Zenon DEF generateQuery
<1>3. Len(msg) \in Nat BY LenProperties
<1>4. end \in 0 .. Len(msg) /\ pos \in 0 .. Len(msg) BY <1>3, PlaceType, Zenon
<1> HIDE DEF end, pos
<1>5. pos \in 1 .. Len(msg) + 1 /\ to \in 0 .. Len(msg)
  BY <1>2, <1>3, <1>4, CutBounds
<1> HIDE DEF to
<1>6. m \in Seq(STRING) BY <1>5, CutType
<1> HIDE DEF m
<1>7. Len(m) \in Nat BY <1>6, LenProperties
<1>8. find(m, "(") \in 0 .. Len(m) BY <1>7, PlaceType, Zenon
<1>9. find(m, "(") + 1 \in 1 .. Len(m) + 1 /\ Len(m) \in 0 .. Len(m)
  <2>1. PICK n, i : n = Len(m) /\ i = find(m, "(") OBVIOUS
  <2>2. n \in Nat /\ i \in 0 .. n BY <1>7, <1>8, <2>1, Zenon
  <2>3. i + 1 \in 1 .. n + 1 /\ n \in 0 .. n BY <2>2
  <2> QED BY <2>1, <2>3, Zenon
<1>10. arg \in Seq(STRING) BY <1>6, <1>9, CutType
<1> HIDE DEF arg
<1>11. Join(Arguments(arg)) \in Seq(Flat)
  BY <1>10, FlatArguments, JoinFlat, Zenon
<1>12. IsHead(h) /\ IsTail(t) /\ IsFramed(q, h, Join(Arguments(arg)), t)
  BY <1>1, <1>2, Zenon DEF IsHead, IsTail, IsFramed
<1>13. /\ Len(q) > 5 /\ SubSeq(q, 1, 4) = h
       /\ SubSeq(q, Len(q) - 1, Len(q)) = t
       /\ \A i \in 5 .. Len(q) - 2 : q[i] \in Flat
  <2>1. PICK j : j = Join(Arguments(arg)) OBVIOUS
  <2>2. j \in Seq(Flat) /\ IsFramed(q, h, j, t) BY <1>11, <1>12, <2>1, Zenon
  <2>3. FrameOf(q, h, t, Flat) BY <1>12, <2>2, Framed
  <2> QED BY <2>3, Zenon DEF FrameOf
<1> QED BY <1>1, <1>13, Zenon

\* The query of whatever was sent, and every other step.
LEMMA FlatStep ==
  ASSUME QueryIsFlat, [CheckNext]_allVars PROVE QueryIsFlat'
<1> SUFFICES ASSUME pc' = "queried", query' # <<>>
             PROVE  /\ Len(query') > 5
                    /\ SubSeq(query', 1, 4) =
                         <<"allow", "(", getKeyDigest(credential'.pubKey), ",">>
                    /\ SubSeq(query', Len(query') - 1, Len(query')) = <<")", ".">>
                    /\ \A i \in 5 .. Len(query') - 2 : query'[i] \notin {"(", ")"}
  BY Zenon DEF QueryIsFlat
<1>1. CASE UNCHANGED allVars
  BY <1>1, Zenon DEF allVars, vars, checkVars, QueryIsFlat
<1>2. CASE processRequest /\ credential' = credential
  <2>1. PICK msg \in Messages : query' = generateQuery(msg)
    BY <1>2, Zenon DEF processRequest
  <2>2. msg \in Seq(STRING) BY <2>1, MessageAssumption, Zenon
  <2>3. PICK q : q = query' OBVIOUS
  <2>4. /\ Len(q) > 5
        /\ SubSeq(q, 1, 4) =
             <<"allow", "(", getKeyDigest(credential.pubKey), ",">>
        /\ SubSeq(q, Len(q) - 1, Len(q)) = <<")", ".">>
        /\ \A i \in 5 .. Len(q) - 2 : q[i] \in Flat
    BY <2>1, <2>2, <2>3, QueryOfAny, Zenon
  <2>5. \A i \in 5 .. Len(q) - 2 : q[i] \notin {"(", ")"}
    BY <2>4, Zenon DEF Flat
  <2> QED BY <1>2, <2>3, <2>4, <2>5, Zenon
<1>3. CASE \/ Next \/ verifyCredential \/ verifyCertificate \/ verified
           \/ authenticateClient \/ writeBinderFile \/ Tick
  BY <1>3, NotQueried, Zenon
<1> QED BY <1>1, <1>2, <1>3, Zenon DEF CheckNext, Check

\* Of whatever bytes processRequest() reads, generateQuery() makes one call of
\* allow for the key of the credential, in whose arguments there is no
\* parenthesis, or no query: also without an opening parenthesis, with the END
\* line in front, or with more parentheses than a request has.
THEOREM QueryIsFlatTheorem == CheckSpec => []QueryIsFlat
<1>1. CheckInit => QueryIsFlat
  BY DEF CheckInit, Init, QueryIsFlat
<1>2. QueryIsFlat /\ [CheckNext]_allVars => QueryIsFlat'
  BY FlatStep, Zenon
<1> QED BY <1>1, <1>2, PTL DEF CheckSpec

=============================================================================
