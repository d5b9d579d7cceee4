------------------------------- MODULE Drinks_proofs -------------------------------
(***************************************************************************)
(* Theorems about Drinks: that the array has room, that the numbers read   *)
(* fit their fields, that reading ends, and that what is read of a good    *)
(* line is what was written, for every file, every size of the buffer and  *)
(* the array and every width of the numbers.                               *)
(***************************************************************************)
EXTENDS Drinks, SequenceTheorems, WellFoundedInduction, TLAPS

(* Growing an array makes room, and never stops at a small size, as it      *)
(* would if the product were rounded down.                                  *)
LEMMA NewSizeGrows == ASSUME NEW n \in Nat \ {0} PROVE NewSize(n) \in Nat /\ NewSize(n) > n
  BY DEF NewSize

(* ArrayFits with the types of what it compares. *)
ArrayInv == used \in Nat /\ size \in Nat \ {0} /\ ArrayFits

(* vla_append writes inside the memory of the array, whatever is read.      *)
THEOREM ArrayAlwaysFits == Spec => []ArrayFits
<1>1. Init => ArrayInv
  BY SizeAssumption DEF Init, ArrayInv, ArrayFits
<1>2. ArrayInv /\ [Next]_vars => ArrayInv'
  <2>0. SUFFICES ASSUME ArrayInv, [Next]_vars PROVE ArrayInv'
    OBVIOUS
  <2>1. CASE VlaAppend
    <3>1. CASE size = used
      BY <2>0, <2>1, <3>1, NewSizeGrows DEF VlaAppend, ArrayInv, ArrayFits
    <3>2. CASE size # used
      BY <2>0, <2>1, <3>2 DEF VlaAppend, ArrayInv, ArrayFits
    <3> QED
      BY <3>1, <3>2
  <2>2. ASSUME UNCHANGED array PROVE ArrayInv'
    BY <2>0, <2>2 DEF array, ArrayInv, ArrayFits
  <2>3. CASE ReadLine \/ EndOfFile
    BY <2>2, <2>3 DEF ReadLine, EndOfFile
  <2>4. CASE IngredientCreate \/ RecipeHead \/ HeadIsNull
    BY <2>2, <2>4 DEF IngredientCreate, RecipeHead, HeadIsNull
  <2>5. CASE LoopEnds \/ PairHasNoCount \/ AppendPair
    BY <2>2, <2>5 DEF LoopEnds, PairHasNoCount, AppendPair
  <2>6. CASE UNCHANGED vars
    BY <2>2, <2>6 DEF vars, array
  <2> QED
    BY <2>0, <2>1, <2>3, <2>4, <2>5, <2>6 DEF Next
<1>3. ArrayInv => ArrayFits
  BY DEF ArrayInv
<1> QED
  BY <1>1, <1>2, <1>3, PTL DEF Spec

--------------------------------------------------------------------------------
(* Sequences *)

USE WidthAssumption, SizeAssumption

(* A set of places in a sequence has a first one. *)
LEMMA FirstExists ==
    ASSUME NEW I \in SUBSET Nat, I # {}
    PROVE  Min(I) \in I /\ \A j \in I : Min(I) <= j
<1> DEFINE R == OpToRel(<, Nat)
<1>1. IsWellFoundedOn(R, Nat)
  BY NatLessThanWellFounded, Zenon
<1>2. R = {ss \in Nat \X Nat : ss[1] < ss[2]}
  BY DEF OpToRel
<1> HIDE DEF R
<1>3. PICK i \in I : \A j \in I : <<j, i>> \notin R
  BY <1>1, WFMin
<1>4. ASSUME NEW j \in I PROVE i <= j
  <2>1. i \in Nat /\ j \in Nat /\ <<j, i>> \notin R
    BY <1>3, <1>4
  <2> QED BY <1>2, <2>1
<1> QED BY <1>3, <1>4 DEF Min

(* What the bounds of a file leave: a sequence *)
LEMMA BoundedIsSeq ==
    ASSUME NEW S, NEW n \in Nat, NEW s \in BoundedSeq(S, n)
    PROVE  s \in Seq(S)
<1>1. PICK m \in 0 .. n : s \in [1 .. m -> S]
  BY DEF BoundedSeq, SeqOf
<1> QED BY <1>1, IsASeq

(* Short sequences, and how they are joined *)
LEMMA TuplesAreSeqs ==
    ASSUME NEW S, NEW a \in S, NEW b \in S, NEW c \in S, NEW d \in S
    PROVE  /\ <<a>> \in Seq(S) /\ <<a, b, c>> \in Seq(S)
           /\ <<a, b, c, d>> \in Seq(S)
  OBVIOUS

LEMMA Joins ==
    ASSUME NEW x, NEW y
    PROVE  <<y>> \o <<x>> = <<y, x>> /\ <<x>> \o <<y, x>> = <<x, y, x>>
<1> DEFINE S == {x, y}
<1>1. <<x>> \in Seq(S) /\ <<y>> \in Seq(S) /\ <<y, x>> \in Seq(S) /\ <<x, y, x>> \in Seq(S)
  OBVIOUS
<1>2. <<y>> \o <<x>> = <<y, x>>
  <2>1. /\ <<y>> \o <<x>> \in Seq(S) /\ Len(<<y>> \o <<x>>) = Len(<<y>>) + Len(<<x>>)
        /\ \A i \in 1 .. Len(<<y>>) + Len(<<x>>) :
             (<<y>> \o <<x>>)[i] = IF i <= Len(<<y>>) THEN <<y>>[i] ELSE <<x>>[i - Len(<<y>>)]
    BY <1>1, ConcatProperties
  <2>2. /\ Len(<<y>>) = 1 /\ Len(<<x>>) = 1 /\ Len(<<y, x>>) = 2
        /\ <<y>>[1] = y /\ <<x>>[1] = x /\ <<y, x>>[1] = y /\ <<y, x>>[2] = x
    OBVIOUS
  <2>3. (<<y>> \o <<x>>)[1] = y /\ (<<y>> \o <<x>>)[2] = x /\ Len(<<y>> \o <<x>>) = 2
    <3>1. 1 \in 1 .. 2 /\ 2 \in 1 .. 2 /\ 1 <= 1 /\ ~ (2 <= 1) /\ 2 - 1 = 1
      OBVIOUS
    <3>2. \A i \in 1 .. 2 : (<<y>> \o <<x>>)[i] = IF i <= 1 THEN <<y>>[i] ELSE <<x>>[i - 1]
      BY <2>1, <2>2
    <3>3. (<<y>> \o <<x>>)[1] = <<y>>[1] /\ (<<y>> \o <<x>>)[2] = <<x>>[2 - 1]
      BY <3>1, <3>2
    <3>4. (<<y>> \o <<x>>)[2] = <<x>>[1]
      BY <3>1, <3>3
    <3>5. Len(<<y>> \o <<x>>) = 2
      BY <2>1, <2>2
    <3>6. (<<y>> \o <<x>>)[1] = y
      BY <2>2, <3>3, Zenon
    <3>7. (<<y>> \o <<x>>)[2] = x
      BY <2>2, <3>4, Zenon
    <3> QED BY <3>5, <3>6, <3>7
  <2>4. \A i \in 1 .. 2 : (<<y>> \o <<x>>)[i] = <<y, x>>[i]
    <3>1. \A i \in 1 .. 2 : i = 1 \/ i = 2
      OBVIOUS
    <3> QED BY <2>2, <2>3, <3>1
  <2> QED BY <1>1, <2>1, <2>2, <2>3, <2>4, SeqEqual
<1>3. <<x>> \o <<y, x>> = <<x, y, x>>
  <2>1. /\ <<x>> \o <<y, x>> \in Seq(S) /\ Len(<<x>> \o <<y, x>>) = Len(<<x>>) + Len(<<y, x>>)
        /\ \A i \in 1 .. Len(<<x>>) + Len(<<y, x>>) :
             (<<x>> \o <<y, x>>)[i] = IF i <= Len(<<x>>) THEN <<x>>[i] ELSE <<y, x>>[i - Len(<<x>>)]
    BY <1>1, ConcatProperties
  <2>2. /\ Len(<<x>>) = 1 /\ Len(<<y, x>>) = 2 /\ Len(<<x, y, x>>) = 3
        /\ <<x>>[1] = x /\ <<y, x>>[1] = y /\ <<y, x>>[2] = x
        /\ <<x, y, x>>[1] = x /\ <<x, y, x>>[2] = y /\ <<x, y, x>>[3] = x
    OBVIOUS
  <2>3. /\ (<<x>> \o <<y, x>>)[1] = x /\ (<<x>> \o <<y, x>>)[2] = y
        /\ (<<x>> \o <<y, x>>)[3] = x /\ Len(<<x>> \o <<y, x>>) = 3
    BY <2>1, <2>2
  <2>4. \A i \in 1 .. 3 : (<<x>> \o <<y, x>>)[i] = <<x, y, x>>[i]
    <3>1. \A i \in 1 .. 3 : i = 1 \/ i = 2 \/ i = 3
      OBVIOUS
    <3> QED BY <2>2, <2>3, <3>1
  <2> QED BY <1>1, <2>1, <2>2, <2>3, <2>4, SeqEqual
<1> QED BY <1>2, <1>3

LEMMA FourJoined ==
    ASSUME NEW a, NEW b, NEW c, NEW d
    PROVE  <<a, b, c, d>> = <<a>> \o (<<b>> \o (<<c>> \o <<d>>))
<1> DEFINE S == {a, b, c, d}
<1>1. /\ <<a>> \in Seq(S) /\ <<b>> \in Seq(S)
      /\ <<c, d>> \in Seq(S) /\ <<a, b, c, d>> \in Seq(S)
      /\ Len(<<a>>) = 1 /\ <<a>>[1] = a /\ Len(<<b>>) = 1 /\ <<b>>[1] = b
      /\ Len(<<c, d>>) = 2 /\ <<c, d>>[1] = c /\ <<c, d>>[2] = d
      /\ Len(<<a, b, c, d>>) = 4 /\ <<a, b, c, d>>[1] = a /\ <<a, b, c, d>>[2] = b
      /\ <<a, b, c, d>>[3] = c /\ <<a, b, c, d>>[4] = d
  OBVIOUS
<1>2. <<c>> \o <<d>> = <<c, d>>
  BY Joins
<1> DEFINE t == <<b>> \o <<c, d>>
           s == <<a>> \o t
<1>3. /\ t \in Seq(S) /\ Len(t) = 3
      /\ \A i \in 1 .. 3 : t[i] = IF i <= 1 THEN <<b>>[i] ELSE <<c, d>>[i - 1]
  BY <1>1, ConcatProperties
<1> HIDE DEF t
<1>4. t[1] = b /\ t[2] = c /\ t[3] = d
  BY <1>1, <1>3
<1>5. /\ s \in Seq(S) /\ Len(s) = 4
      /\ \A i \in 1 .. 4 : s[i] = IF i <= 1 THEN <<a>>[i] ELSE t[i - 1]
  <2>1. /\ s \in Seq(S) /\ Len(s) = Len(<<a>>) + Len(t)
        /\ \A i \in 1 .. Len(<<a>>) + Len(t) :
              s[i] = IF i <= Len(<<a>>) THEN <<a>>[i] ELSE t[i - Len(<<a>>)]
    <3>1. PICK x \in Seq(S) : x = <<a>>
      BY <1>1
    <3>2. /\ x \o t \in Seq(S) /\ Len(x \o t) = Len(x) + Len(t)
          /\ \A i \in 1 .. Len(x) + Len(t) :
                (x \o t)[i] = IF i <= Len(x) THEN x[i] ELSE t[i - Len(x)]
      <4> HIDE DEF S
      <4> QED BY <1>3, ConcatProperties
    <3> HIDE DEF S
    <3> QED BY <3>1, <3>2, Zenon
  <2>2. Len(<<a>>) = 1 /\ Len(t) = 3
    BY <1>1, <1>3
  <2> HIDE DEF s
  <2> QED BY <2>1, <2>2
<1> HIDE DEF s
<1>6. s[1] = a /\ s[2] = b /\ s[3] = c /\ s[4] = d
  BY <1>1, <1>4, <1>5
<1>7. \A i \in 1 .. 4 : s[i] = <<a, b, c, d>>[i]
  <2>1. \A i \in 1 .. 4 : i = 1 \/ i = 2 \/ i = 3 \/ i = 4
    OBVIOUS
  <2> QED BY <1>1, <1>6, <2>1
<1>8. s = <<a, b, c, d>>
  BY <1>1, <1>5, <1>7, SeqEqual
<1> QED BY <1>2, <1>8 DEF s, t

(* What is behind t in t \o r, and t itself *)
LEMMA Halves ==
    ASSUME NEW S, NEW t \in Seq(S), NEW r \in Seq(S)
    PROVE  /\ SubSeq(t \o r, 1, Len(t)) = t
           /\ SubSeq(t \o r, Len(t) + 1, Len(t \o r)) = r
<1>1. /\ Len(t) \in Nat /\ Len(r) \in Nat /\ t \o r \in Seq(S)
      /\ Len(t \o r) = Len(t) + Len(r)
      /\ \A i \in 1 .. Len(t) + Len(r) :
            (t \o r)[i] = IF i <= Len(t) THEN t[i] ELSE r[i - Len(t)]
      /\ \A i \in 1 .. Len(t) + Len(r) : (t \o r)[i] \in S
  <2>1. t \o r \in Seq(S) /\ Len(t \o r) = Len(t) + Len(r)
    BY ConcatProperties
  <2> QED BY <2>1, LenProperties, ConcatProperties, ElementOfSeq
<1> DEFINE a == SubSeq(t \o r, 1, Len(t))
           b == SubSeq(t \o r, Len(t) + 1, Len(t) + Len(r))
<1>2. /\ a \in Seq(S) /\ Len(a) = Len(t)
      /\ \A i \in 1 .. Len(t) : a[i] = (t \o r)[i]
  <2>1. \A i \in 1 .. Len(t) : (t \o r)[i] \in S
    BY <1>1
  <2>2. 1 \in Int /\ Len(t) \in Int
    BY <1>1
  <2>3. /\ a \in Seq(S) /\ Len(a) = IF 1 <= Len(t) THEN Len(t) - 1 + 1 ELSE 0
        /\ \A i \in 1 .. Len(t) - 1 + 1 : a[i] = (t \o r)[1 + i - 1]
    BY <2>1, <2>2, SubSeqProperties
  <2> HIDE DEF a
  <2> QED BY <1>1, <2>3
<1>3. /\ b \in Seq(S) /\ Len(b) = Len(r)
      /\ \A i \in 1 .. Len(r) : b[i] = (t \o r)[Len(t) + i]
  <2>1. ASSUME NEW s, NEW m \in Nat, NEW n \in Nat, n + 1 >= m, \A i \in m .. n : s[i] \in S
        PROVE  /\ SubSeq(s, m, n) \in Seq(S) /\ Len(SubSeq(s, m, n)) = n - m + 1
               /\ \A i \in 1 .. n - m + 1 : SubSeq(s, m, n)[i] = s[m + i - 1]
    BY <2>1, SubSeqProperties
  <2>2. /\ Len(t) + 1 \in Nat /\ Len(t) + Len(r) \in Nat
        /\ Len(t) + Len(r) + 1 >= Len(t) + 1
        /\ \A i \in Len(t) + 1 .. Len(t) + Len(r) : (t \o r)[i] \in S
        /\ Len(t) + Len(r) - (Len(t) + 1) + 1 = Len(r)
        /\ \A i \in 1 .. Len(r) : Len(t) + 1 + i - 1 = Len(t) + i
    BY <1>1
  <2> QED BY <2>1, <2>2
<1> HIDE DEF a, b
<1>4. a = t
  BY <1>1, <1>2, SeqEqual
<1>5. b = r
  <2>1. \A i \in 1 .. Len(r) : (t \o r)[Len(t) + i] = r[i]
    BY <1>1
  <2> QED BY <1>1, <1>3, <2>1, SeqEqual
<1> QED BY <1>1, <1>4, <1>5 DEF a, b

(* What is left of a sequence from a place on *)
From(s, i) == SubSeq(s, i, Len(s))

LEMMA FromFirst ==
    ASSUME NEW S, NEW s \in Seq(S)
    PROVE  /\ From(s, 1) = s
           /\ From(s, Len(s) + 1) = <<>>
           /\ \A i \in 1 .. Len(s) + 1 : From(s, i) \in Seq(S)
           /\ \A i \in 1 .. Len(s) :
                From(s, i) # <<>> /\ From(s, i)[1] = s[i] /\ Tail(From(s, i)) = From(s, i + 1)
<1>0. PICK n \in Nat : n = Len(s)
  BY LenProperties
<1>1. From(s, 1) = s
  BY SubSeqFull DEF From
<1>2. From(s, n + 1) = <<>>
  <2>1. n + 1 \in Int /\ n \in Int /\ n < n + 1
    OBVIOUS
  <2> QED BY <1>0, <2>1, SubSeqEmpty DEF From
<1>3. ASSUME NEW i \in 1 .. n
      PROVE  /\ From(s, i) \in Seq(S) /\ From(s, i) # <<>> /\ From(s, i)[1] = s[i]
             /\ Tail(From(s, i)) = From(s, i + 1)
  <2>1. i \in 1 .. Len(s) /\ Len(s) \in i .. Len(s) /\ n \in i .. n
    BY <1>0
  <2>2. Head(From(s, i)) = s[i] /\ Tail(From(s, i)) = From(s, i + 1)
    BY <2>1, HeadTailOfSubSeq DEF From
  <2>3. /\ From(s, i) \in Seq(S) /\ Len(From(s, i)) = n - i + 1
    <3>1. \A j \in i .. n : s[j] \in S
      <4>1. \A j \in i .. n : j \in 1 .. Len(s)
        BY <1>0
      <4> QED BY <4>1, ElementOfSeq
    <3>2. i \in Int /\ n \in Int /\ i <= n
      OBVIOUS
    <3> QED BY <1>0, <3>1, <3>2, SubSeqProperties DEF From
  <2>4. From(s, i) # <<>>
    <3>1. Len(From(s, i)) # 0
      BY <2>3
    <3> QED BY <3>1, EmptySeq
  <2>5. Head(From(s, i)) = From(s, i)[1]
    BY <2>3, <2>4
  <2> QED BY <2>2, <2>3, <2>4, <2>5
<1>4. \A i \in 1 .. n + 1 : From(s, i) \in Seq(S)
  <2>1. \A i \in 1 .. n + 1 : i \in 1 .. n \/ i = n + 1
    OBVIOUS
  <2> QED BY <1>2, <1>3, <2>1, EmptySeq
<1> QED BY <1>0, <1>1, <1>2, <1>3, <1>4

(* The last element of a join is that of its second part. *)
LEMMA FrontOfLonger ==
    ASSUME NEW S, NEW s \in Seq(S), NEW t \in Seq(S), t # <<>>
    PROVE  Front(t) \in Seq(S) /\ Front(s \o t) = s \o Front(t)
<1>1. PICK u \in Seq(S), x \in S : t = Append(u, x)
  BY SequenceEmptyOrAppend
<1>2. t = u \o <<x>> /\ <<x>> \in Seq(S) /\ Len(<<x>>) = 1
  BY <1>1, AppendIsConcat
<1>3. \A v \in Seq(S) : Front(v \o <<x>>) = v
  <2>1. SUFFICES ASSUME NEW v \in Seq(S) PROVE Front(v \o <<x>>) = v
    OBVIOUS
  <2>2. SubSeq(v \o <<x>>, 1, Len(v)) = v
    BY <1>2, Halves
  <2>3. Len(v \o <<x>>) = Len(v) + 1 /\ Len(v) \in Nat
    BY <1>2, ConcatProperties, LenProperties
  <2> QED BY <2>2, <2>3 DEF Front
<1>4. s \o t = (s \o u) \o <<x>> /\ s \o u \in Seq(S)
  BY <1>2, ConcatAssociative, ConcatProperties
<1> QED BY <1>2, <1>3, <1>4

--------------------------------------------------------------------------------
(* What is joined by FlattenSeq *)

(* What FlattenSeq computes, without its recursion. *)
Joined(seqs, g, m) ==
    \A i \in 1 .. m : g[i] = IF i = 1 THEN seqs[i] ELSE g[i - 1] \o seqs[i]

LEMMA JoinedExists ==
    ASSUME NEW S, NEW seqs \in Seq(Seq(S)), NEW n \in 1 .. Len(seqs)
    PROVE  \E g \in [1 .. n -> Seq(S)] : Joined(seqs, g, n)
<1> DEFINE Bad == {m \in 1 .. Len(seqs) : ~ \E g \in [1 .. m -> Seq(S)] : Joined(seqs, g, m)}
<1>0. /\ Len(seqs) \in Nat
      /\ \A i \in 1 .. Len(seqs) : seqs[i] \in Seq(S)
  BY LenProperties, ElementOfSeq
<1>1. ASSUME Bad # {} PROVE FALSE
  <2>1. PICK m \in Bad : \A k \in Bad : m <= k
    <3>1. Bad \in SUBSET Nat
      BY <1>0
    <3>2. Min(Bad) \in Bad /\ \A k \in Bad : Min(Bad) <= k
      BY <1>1, <3>1, FirstExists
    <3> QED BY <3>2
  <2>2. m \in 1 .. Len(seqs) /\ m \in Nat
    BY <1>0
  <2>3. CASE m = 1
    <3> DEFINE g == [i \in 1 .. 1 |-> seqs[1]]
    <3>1. g \in [1 .. 1 -> Seq(S)] /\ Joined(seqs, g, 1)
      BY <1>0, <2>2, <2>3 DEF Joined
    <3> QED BY <2>1, <2>3, <3>1
  <2>4. CASE m # 1
    <3>1. m - 1 \in 1 .. Len(seqs) /\ m - 1 \notin Bad
      <4>1. ASSUME m - 1 \in Bad PROVE FALSE
        <5>1. m <= m - 1
          BY <2>1, <4>1
        <5> QED BY <2>2, <5>1
      <4>2. m - 1 \in 1 .. Len(seqs)
        BY <1>0, <2>2, <2>4
      <4> QED BY <4>1, <4>2
    <3>2. PICK h \in [1 .. m - 1 -> Seq(S)] : Joined(seqs, h, m - 1)
      BY <3>1
    <3> DEFINE g == [i \in 1 .. m |-> IF i = m THEN h[m - 1] \o seqs[m] ELSE h[i]]
    <3>3. h[m - 1] \o seqs[m] \in Seq(S)
      BY <1>0, <2>2, <3>1, <3>2, ConcatProperties
    <3>4. g \in [1 .. m -> Seq(S)]
      BY <2>2, <2>4, <3>2, <3>3
    <3>5. Joined(seqs, g, m)
      <4>1. ASSUME NEW i \in 1 .. m, i # m
            PROVE  g[i] = IF i = 1 THEN seqs[i] ELSE g[i - 1] \o seqs[i]
        <5>1. i \in 1 .. m - 1 /\ g[i] = h[i] /\ (i # 1 => i - 1 \in 1 .. m /\ i - 1 # m)
          BY <2>2, <4>1
        <5>2. h[i] = IF i = 1 THEN seqs[i] ELSE h[i - 1] \o seqs[i]
          BY <3>2, <5>1 DEF Joined
        <5>3. i # 1 => g[i - 1] = h[i - 1]
          BY <5>1
        <5> QED BY <5>1, <5>2, <5>3
      <4>2. m \in 1 .. m /\ m - 1 \in 1 .. m /\ m - 1 # m
        BY <2>2, <2>4
      <4>3. g[m] = h[m - 1] \o seqs[m] /\ g[m - 1] = h[m - 1]
        BY <4>2, Zenon
      <4> HIDE DEF g
      <4> QED BY <2>2, <2>4, <4>1, <4>3 DEF Joined
    <3> QED BY <2>1, <3>4, <3>5
  <2> QED BY <2>3, <2>4
<1> QED BY <1>1

(* The recursion of FlattenSeq is that join: it has a solution, and any is. *)
LEMMA FlattenIsJoined ==
    ASSUME NEW S, NEW seqs \in Seq(Seq(S)), seqs # <<>>
    PROVE  \E g \in [1 .. Len(seqs) -> Seq(S)] :
                Joined(seqs, g, Len(seqs)) /\ FlattenSeq(seqs) = g[Len(seqs)]
<1>0. /\ Len(seqs) \in Nat \ {0}
      /\ \A i \in 1 .. Len(seqs) : seqs[i] \in Seq(S)
  BY EmptySeq, ElementOfSeq
<1> DEFINE D == 1 .. Len(seqs)
           Rec(f) == [i \in D |-> IF i = 1 THEN seqs[i] ELSE f[i - 1] \o seqs[i]]
           flatten == CHOOSE f : f = Rec(f)
<1>1. FlattenSeq(seqs) = flatten[Len(seqs)]
  BY <1>0 DEF FlattenSeq
<1>2. \E f : f = Rec(f)
  <2>1. PICK g \in [D -> Seq(S)] : Joined(seqs, g, Len(seqs))
    BY <1>0, JoinedExists, SMTT(30)
  <2>2. g = [i \in D |-> g[i]]
    BY <2>1
  <2>3. \A i \in D : g[i] = Rec(g)[i]
    BY <2>1 DEF Joined
  <2>4. g = Rec(g)
    BY <2>2, <2>3
  <2> QED BY <2>4
<1>3. flatten = Rec(flatten)
  <2> HIDE DEF Rec
  <2> QED BY <1>2
<1> DEFINE Bad == {i \in D : flatten[i] \notin Seq(S)}
<1> HIDE DEF flatten
<1>4. \A i \in D : flatten[i] = IF i = 1 THEN seqs[i] ELSE flatten[i - 1] \o seqs[i]
  BY <1>3
<1>5. ASSUME Bad # {} PROVE FALSE
  <2>1. Bad \in SUBSET Nat
    BY <1>0
  <2>2. Min(Bad) \in Bad /\ \A k \in Bad : Min(Bad) <= k
    BY <1>5, <2>1, FirstExists
  <2>3. PICK m \in Bad : \A k \in Bad : m <= k
    BY <2>2
  <2>4. m \in D /\ m \in Nat /\ flatten[m] \notin Seq(S)
    BY <2>1
  <2>5. m # 1 /\ flatten[m] = flatten[m - 1] \o seqs[m]
    BY <1>0, <1>4, <2>4
  <2>6. m - 1 \in D /\ m - 1 \notin Bad
    BY <1>0, <2>3, <2>4, <2>5
  <2>7. flatten[m - 1] \in Seq(S) /\ seqs[m] \in Seq(S)
    BY <1>0, <2>4, <2>6
  <2> HIDE DEF Bad
  <2> QED BY <2>4, <2>5, <2>7, ConcatProperties
<1>6. flatten \in [D -> Seq(S)]
  <2>1. flatten = [i \in D |-> flatten[i]]
    BY <1>3
  <2> QED BY <1>5, <2>1
<1>7. Joined(seqs, flatten, Len(seqs))
  BY <1>4 DEF Joined
<1> QED BY <1>1, <1>6, <1>7

LEMMA FlattenedIsSeq ==
    ASSUME NEW S, NEW seqs \in Seq(Seq(S))
    PROVE  FlattenSeq(seqs) \in Seq(S)
<1>1. CASE seqs = <<>>
  BY <1>1, EmptySeq DEF FlattenSeq
<1>2. CASE seqs # <<>>
  <2>1. PICK n \in Nat \ {0} : n = Len(seqs)
    BY <1>2, EmptySeq
  <2>2. PICK g \in [1 .. n -> Seq(S)] : FlattenSeq(seqs) = g[n]
    BY <1>2, <2>1, FlattenIsJoined
  <2>3. n \in 1 .. n
    BY <2>1
  <2> QED BY <2>2, <2>3
<1> QED BY <1>1, <1>2

(* FlattenSeq joins from the left; a reader takes from the left. *)
LEMMA FlattenFirst ==
    ASSUME NEW S, NEW seqs \in Seq(Seq(S)), seqs # <<>>
    PROVE  FlattenSeq(seqs) = seqs[1] \o FlattenSeq(Tail(seqs))
<1>0. \A x, y, z \in Seq(S) : (x \o y) \o z = x \o (y \o z)
  BY ConcatAssociative, SMTT(30)
<1>1. PICK t \in Seq(Seq(S)) : t = Tail(seqs)
  BY HeadTailProperties
<1>2. PICK p \in Nat : p = Len(t)
  BY LenProperties
<1>3. /\ Len(seqs) = p + 1
      /\ \A i \in 1 .. p : t[i] = seqs[i + 1]
      /\ \A i \in 1 .. p + 1 : seqs[i] \in Seq(S)
      /\ \A i \in 1 .. p : t[i] \in Seq(S)
  <2>1. /\ Len(Tail(seqs)) = Len(seqs) - 1 /\ Len(seqs) \in Nat
        /\ \A i \in 1 .. Len(Tail(seqs)) : Tail(seqs)[i] = seqs[i + 1]
    BY HeadTailProperties, LenProperties
  <2>2. Len(seqs) = p + 1
    BY <1>1, <1>2, <2>1
  <2>3. \A i \in 1 .. Len(seqs) : seqs[i] \in Seq(S)
    BY ElementOfSeq
  <2>4. \A i \in 1 .. Len(t) : t[i] \in Seq(S)
    BY ElementOfSeq
  <2> QED BY <1>1, <1>2, <2>1, <2>2, <2>3, <2>4
<1>4. PICK g \in [1 .. p + 1 -> Seq(S)] : Joined(seqs, g, p + 1) /\ FlattenSeq(seqs) = g[p + 1]
  BY <1>3, FlattenIsJoined, ZenonT(60)
<1>5. g[1] = seqs[1] /\ \A i \in 1 .. p : g[i + 1] = g[i] \o t[i]
  <2>1. 1 \in 1 .. p + 1 /\ \A i \in 1 .. p : i + 1 \in 1 .. p + 1 /\ i + 1 # 1 /\ (i + 1) - 1 = i
    OBVIOUS
  <2>2. \A i \in 1 .. p + 1 : g[i] = IF i = 1 THEN seqs[i] ELSE g[i - 1] \o seqs[i]
    BY <1>4 DEF Joined
  <2>3. ASSUME NEW i \in 1 .. p PROVE g[i + 1] = g[i] \o t[i]
    <3>1. g[i + 1] = g[(i + 1) - 1] \o seqs[i + 1]
      BY <2>1, <2>2
    <3>2. (i + 1) - 1 = i
      BY <2>1
    <3> QED BY <1>3, <3>1, <3>2
  <2> QED BY <2>1, <2>2, <2>3
<1>6. CASE p = 0
  <2>1. t = <<>>
    BY <1>2, <1>6, EmptySeq
  <2>2. FlattenSeq(t) = <<>>
    BY <1>2, <1>6, <2>1 DEF FlattenSeq
  <2>3. seqs[1] \in Seq(S)
    BY <1>3, <1>6
  <2> QED BY <1>1, <1>4, <1>5, <1>6, <2>2, <2>3, ConcatEmptySeq
<1>7. CASE p # 0
  <2>1. t # <<>>
    BY <1>2, <1>7, EmptySeq
  <2>2. PICK h \in [1 .. p -> Seq(S)] : Joined(t, h, p) /\ FlattenSeq(t) = h[p]
    BY <1>2, <2>1, FlattenIsJoined
  <2>3. \A i \in 1 .. p : h[i] = IF i = 1 THEN t[i] ELSE h[i - 1] \o t[i]
    BY <2>2 DEF Joined
  <2> DEFINE Bad == {i \in 1 .. p : g[i + 1] # seqs[1] \o h[i]}
  <2>4. ASSUME Bad # {} PROVE FALSE
    <3>1. Bad \in SUBSET Nat
      OBVIOUS
    <3>2. Min(Bad) \in Bad /\ \A k \in Bad : Min(Bad) <= k
      BY <2>4, <3>1, FirstExists
    <3>3. PICK m \in Bad : \A k \in Bad : m <= k
      BY <3>2
    <3>4. m \in 1 .. p /\ g[m + 1] # seqs[1] \o h[m]
      OBVIOUS
    <3>5. g[m + 1] = g[m] \o t[m]
      BY <1>5, <3>4
    <3>6. CASE m = 1
      <4>1. h[1] = t[1]
        BY <2>3, <3>4, <3>6
      <4> QED BY <1>5, <3>4, <3>5, <3>6, <4>1
    <3>7. CASE m # 1
      <4>1. PICK j \in 1 .. p : m = j + 1
        <5>1. m - 1 \in 1 .. p /\ m = (m - 1) + 1
          BY <3>4, <3>7
        <5> QED BY <5>1
      <4>2. j \notin Bad
        <5>1. ~ (m <= j)
          BY <4>1
        <5> QED BY <3>3, <5>1
      <4>3. g[m] = seqs[1] \o h[j]
        BY <4>1, <4>2
      <4>4. seqs[1] \in Seq(S) /\ h[j] \in Seq(S) /\ t[m] \in Seq(S)
        <5>1. 1 \in 1 .. p + 1
          OBVIOUS
        <5> QED BY <1>3, <2>2, <3>4, <4>1, <5>1
      <4>5. h[m] = h[j] \o t[m]
        <5>1. m - 1 = j
          BY <4>1
        <5> QED BY <2>3, <3>4, <3>7, <5>1
      <4>6. (seqs[1] \o h[j]) \o t[m] = seqs[1] \o (h[j] \o t[m])
        BY <1>0, <4>4, ZenonT(60)
      <4> QED BY <3>4, <3>5, <4>3, <4>5, <4>6
    <3> QED BY <3>6, <3>7
  <2>5. g[p + 1] = seqs[1] \o h[p]
    <3>1. p \in 1 .. p
      BY <1>7
    <3> QED BY <2>4, <3>1
  <2> QED BY <1>1, <1>4, <2>2, <2>5
<1> QED BY <1>6, <1>7

(* What is written for a sequence begins with what is written for its first. *)
Written(text, s) == FlattenSeq([i \in DOMAIN s |-> text[s[i]]])

LEMMA WrittenFirst ==
    ASSUME NEW P, NEW S, NEW text \in [P -> Seq(S)], NEW s \in Seq(P)
    PROVE  /\ Written(text, s) \in Seq(S)
           /\ s = <<>> => Written(text, s) = <<>>
           /\ s # <<>> => Written(text, s) = text[s[1]] \o Written(text, Tail(s))
<1> DEFINE texts(q) == [i \in DOMAIN q |-> text[q[i]]]
<1>1. ASSUME NEW q \in Seq(P)
      PROVE  /\ texts(q) \in Seq(Seq(S)) /\ Len(texts(q)) = Len(q)
             /\ \A i \in 1 .. Len(q) : texts(q)[i] = text[q[i]]
  <2>1. DOMAIN q = 1 .. Len(q) /\ Len(q) \in Nat
    BY LenProperties
  <2>2. \A i \in 1 .. Len(q) : text[q[i]] \in Seq(S)
    BY ElementOfSeq
  <2>3. [i \in 1 .. Len(q) |-> text[q[i]]] \in Seq(Seq(S))
    BY <2>1, <2>2, IsASeq
  <2> QED BY <2>1, <2>3
<1>2. texts(s) \in Seq(Seq(S)) /\ (s = <<>> <=> texts(s) = <<>>)
  <2>1. texts(s) \in Seq(Seq(S)) /\ Len(texts(s)) = Len(s)
    BY <1>1
  <2> HIDE DEF texts
  <2> QED BY <2>1, EmptySeq
<1>3. s = <<>> => Written(text, s) = <<>>
  <2>1. FlattenSeq(<<>>) = <<>>
    BY EmptySeq DEF FlattenSeq
  <2> QED BY <1>2, <2>1 DEF Written
<1>4. ASSUME s # <<>>
      PROVE  Written(text, s) = text[s[1]] \o Written(text, Tail(s))
  <2>1. PICK t \in Seq(P) : t = Tail(s)
    BY <1>4, HeadTailProperties
  <2>2. Len(t) = Len(s) - 1 /\ \A i \in 1 .. Len(t) : t[i] = s[i + 1]
    BY <1>4, <2>1, HeadTailProperties
  <2>3. texts(s) # <<>> /\ texts(s)[1] = text[s[1]]
    <3>1. 1 \in 1 .. Len(s)
      BY <1>4, EmptySeq
    <3> HIDE DEF texts
    <3> QED BY <1>1, <1>2, <1>4, <3>1
  <2>4. Tail(texts(s)) = texts(t)
    <3>1. /\ Len(s) \in Nat /\ Len(texts(s)) = Len(s)
          /\ \A i \in 1 .. Len(s) : texts(s)[i] = text[s[i]]
          /\ texts(t) \in Seq(Seq(S)) /\ Len(texts(t)) = Len(t)
          /\ \A i \in 1 .. Len(t) : texts(t)[i] = text[t[i]]
      BY <1>1, LenProperties
    <3> HIDE DEF texts
    <3>2. /\ Tail(texts(s)) \in Seq(Seq(S))
          /\ Len(Tail(texts(s))) = Len(texts(s)) - 1
          /\ \A i \in 1 .. Len(Tail(texts(s))) : Tail(texts(s))[i] = texts(s)[i + 1]
      BY <1>2, <2>3, HeadTailProperties
    <3>3. Len(Tail(texts(s))) = Len(texts(t))
      BY <2>2, <3>1, <3>2
    <3>4. \A i \in 1 .. Len(t) : i + 1 \in 1 .. Len(s)
      BY <2>2, <3>1
    <3>5. ASSUME NEW i \in 1 .. Len(Tail(texts(s)))
          PROVE  Tail(texts(s))[i] = texts(t)[i]
      <4>1. i \in 1 .. Len(t) /\ i + 1 \in 1 .. Len(s)
        BY <3>1, <3>3, <3>4
      <4>2. texts(s)[i + 1] = text[s[i + 1]] /\ texts(t)[i] = text[t[i]] /\ t[i] = s[i + 1]
        BY <2>2, <3>1, <4>1
      <4>3. Tail(texts(s))[i] = texts(s)[i + 1]
        BY <3>2
      <4> QED BY <4>2, <4>3
    <3> QED BY <3>1, <3>2, <3>3, <3>5, SeqEqual
  <2>5. FlattenSeq(texts(s)) = texts(s)[1] \o FlattenSeq(Tail(texts(s)))
    <3> HIDE DEF texts
    <3> QED BY <1>2, <2>3, FlattenFirst
  <2> QED BY <2>1, <2>3, <2>4, <2>5 DEF Written
<1>5. Written(text, s) \in Seq(S)
  <2> HIDE DEF texts
  <2>1. FlattenSeq(texts(s)) \in Seq(S)
    BY <1>2, FlattenedIsSeq
  <2> QED BY <2>1 DEF Written, texts
<1> QED BY <1>3, <1>4, <1>5

--------------------------------------------------------------------------------
(* The C library: what strtok and fgets take *)

(* A part of a sequence *)
LEMMA PartOf ==
    ASSUME NEW s \in Seq(Symbol), NEW m \in Nat \ {0}, NEW n \in 0 .. Len(s)
    PROVE  /\ SubSeq(s, m, n) \in Seq(Symbol)
           /\ Len(SubSeq(s, m, n)) = IF m <= n THEN n - m + 1 ELSE 0
<1>1. \A i \in m .. n : s[i] \in Symbol
  BY LenProperties, ElementOfSeq
<1> QED BY <1>1, LenProperties, SubSeqProperties

LEMMA FirstRange ==
    ASSUME NEW s \in Seq(Symbol), NEW kinds
    PROVE  First(s, kinds) \in 0 .. Len(s)
<1> DEFINE I == {i \in 1 .. Len(s) : s[i].kind \in kinds}
<1>1. First(s, kinds) = IF I # {} THEN Min(I) ELSE 0
  BY DEF First, SelectInSeq
<1>2. Len(s) \in Nat /\ I \in SUBSET Nat /\ I \subseteq 1 .. Len(s)
  BY LenProperties
<1> HIDE DEF I
<1>3. CASE I = {}
  BY <1>1, <1>2, <1>3
<1>4. CASE I # {}
  <2>1. Min(I) \in 1 .. Len(s)
    BY <1>2, <1>4, FirstExists
  <2> QED BY <1>1, <1>2, <1>4, <2>1
<1> QED BY <1>3, <1>4

(* strtok: what it leaves of the line is shorter by what it returns. *)
LEMMA StrtokTakes ==
    ASSUME NEW s \in Seq(Symbol), NEW sep
    PROVE  /\ Strtok(s, sep).token \in Seq(Symbol) /\ Strtok(s, sep).rest \in Seq(Symbol)
           /\ Len(Strtok(s, sep).rest) <= Len(s)
           /\ Strtok(s, sep).token # <<>> => Len(Strtok(s, sep).rest) < Len(s)
<1> DEFINE start == First(s, Kinds \ {sep})
           body == SubSeq(s, start, Len(s))
           end == First(body, {sep})
<1>0. Strtok(s, sep) = IF start = 0 THEN [token |-> <<>>, rest |-> <<>>]
        ELSE IF end = 0 THEN [token |-> body, rest |-> <<>>]
        ELSE [token |-> SubSeq(body, 1, end - 1), rest |-> SubSeq(body, end + 1, Len(body))]
  BY DEF Strtok
<1>1. Len(s) \in Nat /\ start \in 0 .. Len(s)
  BY LenProperties, FirstRange
<1>2. <<>> \in Seq(Symbol) /\ Len(<<>>) = 0
  OBVIOUS
<1>3. CASE start = 0
  BY <1>0, <1>1, <1>2, <1>3
<1>4. CASE start # 0
  <2>1. body \in Seq(Symbol) /\ Len(body) = Len(s) - start + 1
    <3> HIDE DEF start
    <3> QED BY <1>1, <1>4, PartOf
  <2>2. end \in 0 .. Len(body)
    <3> HIDE DEF body
    <3> QED BY <2>1, FirstRange
  <2> HIDE DEF start, body, end
  <2>3. CASE end = 0
    BY <1>0, <1>1, <1>2, <1>4, <2>1, <2>3
  <2>4. CASE end # 0
    <3>1. /\ SubSeq(body, 1, end - 1) \in Seq(Symbol)
          /\ SubSeq(body, end + 1, Len(body)) \in Seq(Symbol)
          /\ Len(SubSeq(body, end + 1, Len(body)))
                = IF end + 1 <= Len(body) THEN Len(body) - (end + 1) + 1 ELSE 0
      <4>1. Len(body) \in Nat
        BY <1>1, <1>4, <2>1
      <4>2. end - 1 \in 0 .. Len(body) /\ end + 1 \in Nat \ {0} /\ Len(body) \in 0 .. Len(body)
        BY <2>2, <2>4, <4>1
      <4> QED BY <2>1, <4>2, PartOf
    <3> QED BY <1>0, <1>1, <1>4, <2>1, <2>2, <2>4, <3>1
  <2> QED BY <2>3, <2>4
<1> QED BY <1>3, <1>4

(* fgets takes at least one symbol, and no more than there are. *)
LEMMA FgetsTakes ==
    ASSUME NEW s \in Seq(Symbol), s # <<>>
    PROVE  FgetsLength(s) \in 1 .. Len(s)
<1> DEFINE newline == First(s, {"\n"})
<1>1. Len(s) \in Nat \ {0} /\ newline \in 0 .. Len(s)
  BY LenProperties, EmptySeq, FirstRange
<1>2. FgetsLength(s) = LET line == IF newline = 0 THEN Len(s) ELSE newline
                       IN  IF line < BufferSize THEN line ELSE BufferSize - 1
  BY DEF FgetsLength
<1> HIDE DEF newline
<1> QED BY <1>1, <1>2

(* A number is cut to the field it is stored in. *)
LEMMA AtoiFits ==
    ASSUME NEW token \in Seq(Symbol), token # <<>>, NEW n \in Nat \ {0}
    PROVE  Atoi(token) % n \in 0 .. n - 1
<1>1. Head(token) \in Symbol
  BY HeadTailProperties
<1>2. Atoi(token) \in Nat
  BY <1>1 DEF Atoi, Symbol
<1> QED BY <1>2

(* No symbol of t has this kind. *)
Free(t, k) == \A i \in 1 .. Len(t) : t[i].kind # k

(* The first place is found, or that there is none. *)
LEMMA FirstIs ==
    ASSUME NEW s \in Seq(Symbol), NEW kinds, NEW n \in 1 .. Len(s),
           s[n].kind \in kinds, \A i \in 1 .. n - 1 : s[i].kind \notin kinds
    PROVE  First(s, kinds) = n
<1> DEFINE I == {i \in 1 .. Len(s) : s[i].kind \in kinds}
<1>0. Len(s) \in Nat /\ n \in Nat
  BY LenProperties
<1>1. First(s, kinds) = IF I # {} THEN Min(I) ELSE 0
  BY DEF First, SelectInSeq
<1>2. n \in I /\ I \in SUBSET Nat
  BY <1>0
<1>3. \A i \in I : i \in Nat /\ n <= i
  BY <1>0
<1> HIDE DEF I
<1>4. Min(I) \in I /\ Min(I) <= n
  BY <1>2, FirstExists
<1>5. Min(I) = n
  BY <1>0, <1>3, <1>4
<1> QED BY <1>1, <1>2, <1>5

LEMMA FirstIsNone ==
    ASSUME NEW s \in Seq(Symbol), NEW kinds, \A i \in 1 .. Len(s) : s[i].kind \notin kinds
    PROVE  First(s, kinds) = 0
  BY DEF First, SelectInSeq

LEMMA SepIsSymbol == \A k \in Kinds : Sep(k) \in Symbol /\ Sep(k).kind = k
  BY DEF Sep, Symbol

(* strtok at the end of the line *)
LEMMA StrtokNothing == ASSUME NEW sep PROVE Strtok(<<>>, sep) = [token |-> <<>>, rest |-> <<>>]
<1>1. First(<<>>, Kinds \ {sep}) = 0
  <2>1. <<>> \in Seq(Symbol) /\ \A i \in 1 .. Len(<<>>) : <<>>[i].kind \notin Kinds \ {sep}
    BY EmptySeq
  <2> QED BY <2>1, FirstIsNone
<1> QED BY <1>1 DEF Strtok

(* A token begins where strtok looks. *)
LEMMA StrtokBegins ==
    ASSUME NEW s \in Seq(Symbol), s # <<>>, NEW sep, s[1].kind # sep
    PROVE  First(s, Kinds \ {sep}) = 1 /\ SubSeq(s, 1, Len(s)) = s
<1>1. 1 \in 1 .. Len(s) /\ s[1] \in Symbol
  BY EmptySeq, ElementOfSeq
<1>2. s[1].kind \in Kinds \ {sep}
  BY <1>1 DEF Symbol
<1>3. \A i \in 1 .. 1 - 1 : s[i].kind \notin Kinds \ {sep}
  OBVIOUS
<1> QED BY <1>1, <1>2, <1>3, FirstIs, SubSeqFull

LEMMA StrtokTakesFirst ==
    ASSUME NEW s \in Seq(Symbol), s # <<>>, NEW sep, s[1].kind # sep
    PROVE  Strtok(s, sep) =
            IF First(s, {sep}) = 0 THEN [token |-> s, rest |-> <<>>]
            ELSE [token |-> SubSeq(s, 1, First(s, {sep}) - 1),
                  rest |-> SubSeq(s, First(s, {sep}) + 1, Len(s))]
<1> DEFINE start == First(s, Kinds \ {sep})
           body == SubSeq(s, start, Len(s))
           end == First(body, {sep})
<1>1. Strtok(s, sep) = IF start = 0 THEN [token |-> <<>>, rest |-> <<>>]
        ELSE IF end = 0 THEN [token |-> body, rest |-> <<>>]
        ELSE [token |-> SubSeq(body, 1, end - 1), rest |-> SubSeq(body, end + 1, Len(body))]
  BY DEF Strtok
<1>2. start = 1 /\ body = s
  BY StrtokBegins
<1>3. end = First(s, {sep})
  BY <1>2
<1> HIDE DEF start, body, end
<1> QED BY <1>1, <1>2, <1>3

(* A token that is the last of its line, or ends at a separator *)
LEMMA StrtokLast ==
    ASSUME NEW t \in Seq(Symbol), t # <<>>, NEW sep, Free(t, sep)
    PROVE  Strtok(t, sep) = [token |-> t, rest |-> <<>>]
<1>1. t[1].kind # sep
  BY EmptySeq DEF Free
<1>2. First(t, {sep}) = 0
  BY FirstIsNone DEF Free
<1> QED BY <1>1, <1>2, StrtokTakesFirst

LEMMA StrtokTo ==
    ASSUME NEW t \in Seq(Symbol), t # <<>>, NEW sep \in Kinds, Free(t, sep), NEW r \in Seq(Symbol)
    PROVE  Strtok(t \o (<<Sep(sep)>> \o r), sep) = [token |-> t, rest |-> r]
<1> DEFINE q == <<Sep(sep)>> \o r
           s == t \o (<<Sep(sep)>> \o r)
           n == Len(t) + 1
<1>0. <<Sep(sep)>> \in Seq(Symbol) /\ Len(<<Sep(sep)>>) = 1 /\ <<Sep(sep)>>[1] = Sep(sep)
  BY SepIsSymbol, TuplesAreSeqs
<1>1. /\ q \in Seq(Symbol) /\ Len(q) = 1 + Len(r) /\ q[1] = Sep(sep)
      /\ SubSeq(q, 2, Len(q)) = r
  <2>1. q \in Seq(Symbol) /\ Len(q) = 1 + Len(r)
    BY <1>0, ConcatProperties
  <2>2. q[1] = Sep(sep)
    <3>1. 1 \in 1 .. Len(<<Sep(sep)>>) + Len(r) /\ 1 <= Len(<<Sep(sep)>>)
      BY <1>0, LenProperties
    <3> QED BY <1>0, <3>1, ConcatProperties
  <2>3. SubSeq(q, Len(<<Sep(sep)>>) + 1, Len(q)) = r
    BY <1>0, Halves
  <2> HIDE DEF q
  <2> QED BY <1>0, <2>1, <2>2, <2>3
<1>2. /\ s \in Seq(Symbol) /\ Len(s) = Len(t) + 1 + Len(r) /\ Len(t) \in Nat \ {0} /\ Len(r) \in Nat
      /\ \A i \in 1 .. Len(t) : s[i] = t[i]
      /\ s[n] = Sep(sep)
      /\ SubSeq(s, 1, n - 1) = t
  <2>1. /\ t \o q \in Seq(Symbol) /\ Len(t \o q) = Len(t) + Len(q)
        /\ \A i \in 1 .. Len(t) + Len(q) : (t \o q)[i] = IF i <= Len(t) THEN t[i] ELSE q[i - Len(t)]
        /\ SubSeq(t \o q, 1, Len(t)) = t
    <3> HIDE DEF q
    <3>1. t \o q \in Seq(Symbol) /\ Len(t \o q) = Len(t) + Len(q)
      BY <1>1, ConcatProperties
    <3>2. \A i \in 1 .. Len(t) + Len(q) : (t \o q)[i] = IF i <= Len(t) THEN t[i] ELSE q[i - Len(t)]
      BY <1>1, ConcatProperties
    <3>3. SubSeq(t \o q, 1, Len(t)) = t
      BY <1>1, Halves
    <3> QED BY <3>1, <3>2, <3>3
  <2>2. Len(t) \in Nat \ {0} /\ Len(r) \in Nat
    BY EmptySeq, LenProperties
  <2>3. n - 1 = Len(t) /\ n - Len(t) = 1 /\ n \in 1 .. Len(t) + Len(q) /\ ~ (n <= Len(t))
    <3> HIDE DEF q
    <3> QED BY <1>1, <2>2
  <2>4. s = t \o q
    OBVIOUS
  <2> HIDE DEF s, q, n
  <2> QED BY <1>1, <2>1, <2>2, <2>3, <2>4
<1>3. SubSeq(s, n + 1, Len(s)) = r
  <2> DEFINE u == t \o <<Sep(sep)>>
  <2>1. u \in Seq(Symbol) /\ Len(u) = n
    BY <1>0, ConcatProperties
  <2>2. s = u \o r
    BY <1>0, ConcatAssociative
  <2>3. SubSeq(u \o r, Len(u) + 1, Len(u \o r)) = r
    <3> HIDE DEF u
    <3> QED BY <2>1, Halves
  <2> HIDE DEF u, s, n
  <2> QED BY <2>1, <2>2, <2>3
<1> HIDE DEF s, q
<1>4. s # <<>> /\ s[1].kind # sep
  <2>1. 1 \in 1 .. Len(t)
    BY <1>2
  <2> QED BY <1>2, <2>1, EmptySeq DEF Free
<1>5. First(s, {sep}) = n
  <2>1. \A i \in 1 .. n - 1 : s[i].kind \notin {sep}
    BY <1>2 DEF Free
  <2>2. n \in 1 .. Len(s) /\ s[n].kind \in {sep}
    BY <1>2, SepIsSymbol
  <2> HIDE DEF n
  <2> QED BY <1>2, <2>1, <2>2, FirstIs
<1>6. n # 0
  BY <1>2
<1>7. Strtok(s, sep) = [token |-> t, rest |-> r]
  <2> HIDE DEF n
  <2> QED BY <1>2, <1>3, <1>4, <1>5, <1>6, StrtokTakesFirst
<1> QED BY <1>7 DEF s

(* One fgets reads a line that fits the buffer: up to its newline, or to the *)
(* end of the file. *)
LEMMA FgetsReads ==
    ASSUME NEW t \in Seq(Symbol), NEW r \in Seq(Symbol), t # <<>>, Len(t) < BufferSize,
           \/ t[Len(t)].kind = "\n" /\ \A i \in 1 .. Len(t) - 1 : t[i].kind # "\n"
           \/ r = <<>> /\ Free(t, "\n")
    PROVE  /\ SubSeq(t \o r, 1, FgetsLength(t \o r)) = t
           /\ SubSeq(t \o r, FgetsLength(t \o r) + 1, Len(t \o r)) = r
<1> DEFINE s == t \o r
<1>1. /\ s \in Seq(Symbol) /\ Len(s) = Len(t) + Len(r) /\ Len(t) \in Nat \ {0} /\ Len(r) \in Nat
      /\ \A i \in 1 .. Len(t) : s[i] = t[i]
  <2>1. /\ s \in Seq(Symbol) /\ Len(s) = Len(t) + Len(r)
        /\ \A i \in 1 .. Len(t) + Len(r) : s[i] = IF i <= Len(t) THEN t[i] ELSE r[i - Len(t)]
    BY ConcatProperties
  <2> QED BY <2>1, EmptySeq, LenProperties
<1> HIDE DEF s
<1>2. FgetsLength(s) = Len(t)
  <2>1. CASE t[Len(t)].kind = "\n" /\ \A i \in 1 .. Len(t) - 1 : t[i].kind # "\n"
    <3>1. First(s, {"\n"}) = Len(t)
      <4>1. /\ Len(t) \in 1 .. Len(s) /\ s[Len(t)] = t[Len(t)]
            /\ \A i \in 1 .. Len(t) - 1 : s[i] = t[i]
        BY <1>1
      <4>2. s[Len(t)].kind \in {"\n"}
        BY <2>1, <4>1
      <4>3. \A i \in 1 .. Len(t) - 1 : s[i].kind \notin {"\n"}
        BY <2>1, <4>1
      <4> QED BY <1>1, <4>1, <4>2, <4>3, FirstIs
    <3> QED BY <1>1, <3>1 DEF FgetsLength
  <2>2. CASE r = <<>> /\ Free(t, "\n")
    <3>1. First(s, {"\n"}) = 0 /\ Len(s) = Len(t)
      <4>1. Len(r) = 0
        BY <2>2
      <4>2. \A i \in 1 .. Len(s) : s[i].kind \notin {"\n"}
        BY <1>1, <2>2, <4>1 DEF Free
      <4> QED BY <1>1, <4>1, <4>2, FirstIsNone
    <3> QED BY <1>1, <3>1 DEF FgetsLength
  <2> QED BY <2>1, <2>2
<1>3. SubSeq(s, 1, Len(t)) = t /\ SubSeq(s, Len(t) + 1, Len(s)) = r
  BY Halves DEF s
<1> QED BY <1>2, <1>3 DEF s

LEMMA TokenIs ==
    ASSUME NEW x, NEW t, NEW r, x = [token |-> t, rest |-> r]
    PROVE  x.token = t /\ x.rest = r
  OBVIOUS

--------------------------------------------------------------------------------
(* What stands in a line *)

(* What is written for the pairs of a recipe *)
PairsText(pairs) == FlattenSeq([i \in DOMAIN pairs |-> PairText(pairs[i])])

(* The symbols inside a line, and its end *)
Inline == {c \in Symbol : c.kind # "\n"}

Newline == <<Sep("\n")>>

LEMMA LineFields ==
    ASSUME NEW l \in Line
    PROVE  /\ l.name \in Names /\ l.id \in Nat /\ l.pairs \in Seq(Pair) /\ l.shape \in Shapes
           /\ l.shape \in {"nameOnly", "blank"} => l.id = 0 /\ l.pairs = <<>>
<1>1. CASE l \in [name : Names, id : Numbers, pairs : BoundedSeq(Pair, MaxPairs),
                  shape : {"shipped", "bare", "unended"}]
  <2>1. l.pairs \in Seq(Pair)
    BY <1>1, FileAssumption, BoundedIsSeq
  <2>2. l.name \in Names /\ l.id \in Numbers /\ l.shape \in {"shipped", "bare", "unended"}
    BY <1>1
  <2> QED BY <2>1, <2>2, FileAssumption DEF Shapes
<1>2. CASE l \in [name : Names, id : {0}, pairs : {<<>>}, shape : {"nameOnly", "blank"}]
  <2>1. /\ l.name \in Names /\ l.id = 0 /\ l.pairs = <<>>
        /\ l.shape \in {"nameOnly", "blank"}
    BY <1>2
  <2>2. <<>> \in Seq(Pair)
    OBVIOUS
  <2> QED BY <2>1, <2>2 DEF Shapes
<1> QED BY <1>1, <1>2 DEF Line

LEMMA InlineSymbols ==
    /\ Inline \subseteq Symbol /\ Word \in Inline /\ Sep(";") \in Inline /\ Sep("-") \in Inline
    /\ \A n \in Nat : Number(n) \in Inline /\ Number(n).kind = "number" /\ Number(n).val = n
    /\ Newline \in Seq(Symbol) /\ Len(Newline) = 1 /\ Newline[1] = Sep("\n")
<1>1. Inline \subseteq Symbol /\ Word \in Inline /\ Sep(";") \in Inline /\ Sep("-") \in Inline
  BY DEF Inline, Symbol, Kinds, Word, Sep
<1>2. \A n \in Nat : Number(n) \in Inline /\ Number(n).kind = "number" /\ Number(n).val = n
  BY DEF Inline, Symbol, Kinds, Number
<1>3. Sep("\n") \in Symbol
  BY DEF Symbol, Kinds, Sep
<1>4. Newline \in Seq(Symbol) /\ Len(Newline) = 1 /\ Newline[1] = Sep("\n")
  BY <1>3, TuplesAreSeqs DEF Newline
<1> QED BY <1>1, <1>2, <1>4

LEMMA InlineIsText ==
    ASSUME NEW s \in Seq(Inline)
    PROVE  s \in Seq(Symbol) /\ Free(s, "\n")
<1>1. s \in Seq(Symbol)
  BY InlineSymbols, SeqMonotonic
<1>2. \A i \in 1 .. Len(s) : s[i] \in Inline
  BY ElementOfSeq
<1> QED BY <1>1, <1>2 DEF Inline, Free

(* A name has no separator of the fields. *)
LEMMA NameTokens ==
    ASSUME NEW name \in Names
    PROVE  name \in Seq(Inline) /\ name # <<>> /\ Free(name, ";")
<1>1. name = <<Word>> \/ name = <<Word, Sep("-"), Word>>
  BY DEF Names
<1>2. <<Word>> \in Seq(Inline) /\ <<Word, Sep("-"), Word>> \in Seq(Inline)
  BY InlineSymbols, TuplesAreSeqs
<1>3. Free(<<Word>>, ";") /\ Free(<<Word, Sep("-"), Word>>, ";")
  <2> DEFINE W == {Word, Sep("-")}
  <2>1. <<Word>> \in Seq(W) /\ <<Word, Sep("-"), Word>> \in Seq(W)
    BY TuplesAreSeqs
  <2>2. \A w \in W : w.kind # ";"
    <3>1. Word.kind = "word" /\ Sep("-").kind = "-"
      BY DEF Word, Sep
    <3> QED BY <3>1
  <2> HIDE DEF W
  <2>3. ASSUME NEW s \in Seq(W) PROVE Free(s, ";")
    BY <2>2, ElementOfSeq DEF Free
  <2> QED BY <2>1, <2>3
<1>4. <<Word>> # <<>> /\ <<Word, Sep("-"), Word>> # <<>>
  OBVIOUS
<1> QED BY <1>1, <1>2, <1>3, <1>4

LEMMA PairIsText ==
    ASSUME NEW p \in Pair
    PROVE  p.id \in Nat /\ p.count \in Nat /\ PairText(p) \in Seq(Inline)
<1>1. p.id \in Nat /\ p.count \in Nat
  BY FileAssumption DEF Pair
<1>2. Number(p.id) \in Inline /\ Number(p.count) \in Inline
  BY <1>1, InlineSymbols
<1> QED BY <1>1, <1>2, InlineSymbols, TuplesAreSeqs DEF PairText

LEMMA PairsAreText ==
    ASSUME NEW pairs \in Seq(Pair)
    PROVE  /\ PairsText(pairs) \in Seq(Inline)
           /\ pairs = <<>> => PairsText(pairs) = <<>>
           /\ pairs # <<>> => PairsText(pairs) = PairText(pairs[1]) \o PairsText(Tail(pairs))
<1> DEFINE text == [p \in Pair |-> PairText(p)]
<1>1. text \in [Pair -> Seq(Inline)]
  BY PairIsText
<1>2. ASSUME NEW s \in Seq(Pair)
      PROVE  /\ \A i \in DOMAIN s : text[s[i]] = PairText(s[i])
             /\ Written(text, s) = PairsText(s)
  <2>1. \A i \in DOMAIN s : text[s[i]] = PairText(s[i])
    BY ElementOfSeq, LenProperties
  <2>2. [i \in DOMAIN s |-> text[s[i]]] = [i \in DOMAIN s |-> PairText(s[i])]
    BY <2>1
  <2> QED BY <2>1, <2>2 DEF Written, PairsText
<1> HIDE DEF text
<1>3. /\ Written(text, pairs) \in Seq(Inline)
      /\ pairs = <<>> => Written(text, pairs) = <<>>
      /\ pairs # <<>> => Written(text, pairs) = text[pairs[1]] \o Written(text, Tail(pairs))
  BY <1>1, WrittenFirst, SMTT(30)
<1>4. ASSUME pairs # <<>>
      PROVE  text[pairs[1]] = PairText(pairs[1]) /\ Written(text, Tail(pairs)) = PairsText(Tail(pairs))
  <2>1. 1 \in DOMAIN pairs /\ Tail(pairs) \in Seq(Pair)
    BY <1>4, EmptySeq, LenProperties, HeadTailProperties
  <2> QED BY <1>2, <2>1
<1>5. Written(text, pairs) = PairsText(pairs)
  BY <1>2
<1> QED BY <1>3, <1>4, <1>5

Semicolon == <<Sep(";")>>

(* What stands behind the name and the number of a line. *)
Behind(l) == Semicolon \o PairsText(l.pairs)

Headed(l, r) == l.name \o (Semicolon \o (<<Number(l.id)>> \o r))

LEMMA HeadTypes ==
    ASSUME NEW l \in Line
    PROVE  /\ l.name \in Seq(Inline) /\ l.name # <<>> /\ Free(l.name, ";")
           /\ Semicolon \in Seq(Inline) /\ Len(Semicolon) = 1
           /\ <<Number(l.id)>> \in Seq(Inline) /\ Len(<<Number(l.id)>>) = 1
           /\ PairsText(l.pairs) \in Seq(Inline) /\ Behind(l) \in Seq(Inline)
<1>1. l.name \in Seq(Inline) /\ l.name # <<>> /\ Free(l.name, ";")
  BY LineFields, NameTokens
<1>2. Semicolon \in Seq(Inline) /\ Len(Semicolon) = 1
  BY InlineSymbols, TuplesAreSeqs DEF Semicolon
<1>3. <<Number(l.id)>> \in Seq(Inline) /\ Len(<<Number(l.id)>>) = 1
  BY LineFields, InlineSymbols, TuplesAreSeqs
<1>4. PairsText(l.pairs) \in Seq(Inline)
  BY LineFields, PairsAreText
<1>5. Behind(l) \in Seq(Inline)
  BY <1>2, <1>4, ConcatProperties DEF Behind
<1> QED BY <1>1, <1>2, <1>3, <1>4, <1>5

LEMMA HeadedTypes ==
    ASSUME NEW l \in Line, NEW S, Inline \subseteq S, NEW r \in Seq(S)
    PROVE  /\ Headed(l, r) \in Seq(S) /\ Headed(l, r) # <<>>
           /\ \A t \in Seq(S) : Headed(l, r) \o t = Headed(l, r \o t)
           /\ r # <<>> => Front(Headed(l, r)) = Headed(l, Front(r))
<1> DEFINE x == l.name
           n == <<Number(l.id)>>
           d == n \o r
           e == Semicolon \o d
<1>1. x \in Seq(S) /\ x # <<>>
  BY HeadTypes, SeqMonotonic
<1>2. Semicolon \in Seq(S)
  BY HeadTypes, SeqMonotonic
<1>3. n \in Seq(S)
  BY HeadTypes, SeqMonotonic
<1>4. \A s : Headed(l, s) = x \o (Semicolon \o (n \o s))
  BY DEF Headed
<1>5. Headed(l, r) = x \o e
  BY DEF Headed
<1> HIDE DEF x, n
<1>6. d \in Seq(S) /\ (r # <<>> => d # <<>>)
  BY <1>3, ConcatProperties, ConcatEqualIffEmpty
<1>7. \A t \in Seq(S) : d \o t = n \o (r \o t)
  BY <1>3, ConcatAssociative
<1>8. r # <<>> => Front(d) = n \o Front(r)
  BY <1>3, FrontOfLonger
<1> HIDE DEF d
<1>9. e \in Seq(S) /\ (d # <<>> => e # <<>>)
  BY <1>2, <1>6, ConcatProperties, ConcatEqualIffEmpty
<1>10. \A t \in Seq(S) : e \o t = Semicolon \o (d \o t)
  BY <1>2, <1>6, ConcatAssociative
<1>11. d # <<>> => Front(e) = Semicolon \o Front(d)
  BY <1>2, <1>6, FrontOfLonger
<1> HIDE DEF e
<1>12. x \o e \in Seq(S) /\ x \o e # <<>>
  BY <1>1, <1>9, ConcatProperties, ConcatEqualIffEmpty
<1>13. \A t \in Seq(S) : (x \o e) \o t = x \o (e \o t)
  BY <1>1, <1>9, ConcatAssociative
<1>14. e # <<>> => Front(x \o e) = x \o Front(e)
  BY <1>1, <1>9, FrontOfLonger
<1>15. ASSUME NEW t \in Seq(S) PROVE Headed(l, r) \o t = Headed(l, r \o t)
  <2>1. d \o t = n \o (r \o t) /\ e \o t = Semicolon \o (d \o t) /\ (x \o e) \o t = x \o (e \o t)
    BY <1>7, <1>10, <1>13
  <2>2. Headed(l, r \o t) = x \o (Semicolon \o (n \o (r \o t)))
    BY <1>4
  <2> QED BY <1>5, <2>1, <2>2
<1>16. ASSUME r # <<>> PROVE Front(Headed(l, r)) = Headed(l, Front(r))
  <2>1. Headed(l, Front(r)) = x \o (Semicolon \o (n \o Front(r)))
    BY <1>4
  <2> QED BY <1>5, <1>6, <1>8, <1>9, <1>11, <1>14, <1>16, <2>1
<1> QED BY <1>5, <1>12, <1>15, <1>16

(* What Fields joins from the left, as strtok meets it *)
LEMMA FieldsText ==
    ASSUME NEW l \in Line
    PROVE  Fields(l) = Headed(l, Behind(l)) /\ Fields(l) \in Seq(Inline) /\ Fields(l) # <<>>
<1> DEFINE p == PairsText(l.pairs)
           n == <<Number(l.id)>>
           m == <<Sep(";"), Number(l.id), Sep(";")>>
<1>0. /\ \A x, y \in Seq(Inline) : x \o y \in Seq(Inline)
      /\ \A x, y, z \in Seq(Inline) : (x \o y) \o z = x \o (y \o z)
  BY ConcatProperties, ConcatAssociative
<1>1. /\ l.name \in Seq(Inline) /\ Semicolon \in Seq(Inline) /\ n \in Seq(Inline)
      /\ p \in Seq(Inline) /\ m \in Seq(Inline)
  <2>1. m \in Seq(Inline)
    <3>1. Sep(";") \in Inline /\ Number(l.id) \in Inline
      BY LineFields, InlineSymbols
    <3> QED BY <3>1, TuplesAreSeqs
  <2> QED BY <2>1, HeadTypes
<1>2. m = Semicolon \o (n \o Semicolon)
  <2>1. PICK x, y : x = Sep(";") /\ y = Number(l.id)
    OBVIOUS
  <2>2. <<y>> \o <<x>> = <<y, x>> /\ <<x>> \o <<y, x>> = <<x, y, x>>
    BY Joins
  <2> QED BY <2>1, <2>2 DEF Semicolon
<1>3. Fields(l) = (l.name \o m) \o p
  BY DEF Fields, PairsText
<1>4. Fields(l) = l.name \o (m \o p)
  <2> HIDE DEF m, p
  <2>1. PICK x, y, z \in Seq(Inline) : x = l.name /\ y = m /\ z = p
    BY <1>1
  <2>2. (x \o y) \o z = x \o (y \o z)
    BY <1>0
  <2> QED BY <1>3, <2>1, <2>2
<1>5. m \o p = Semicolon \o (n \o (Semicolon \o p))
  <2> HIDE DEF m, p, n
  <2>1. (Semicolon \o (n \o Semicolon)) \o p = Semicolon \o ((n \o Semicolon) \o p)
    BY <1>0, <1>1, SMTT(30)
  <2>2. (n \o Semicolon) \o p = n \o (Semicolon \o p)
    BY <1>0, <1>1, SMTT(30)
  <2> QED BY <1>2, <2>1, <2>2
<1>6. Fields(l) = Headed(l, Behind(l))
  BY <1>4, <1>5 DEF Headed, Behind
<1>7. Headed(l, Behind(l)) \in Seq(Inline) /\ Headed(l, Behind(l)) # <<>>
  BY HeadTypes, HeadedTypes
<1> QED BY <1>6, <1>7

(* The shapes: what is behind the number of each. *)
Ending(l) ==
    CASE l.shape = "shipped" -> Behind(l) \o Newline
      [] l.shape = "bare"    -> Front(Behind(l)) \o Newline
      [] OTHER               -> Behind(l)

LEMMA TextOfLine ==
    ASSUME NEW l \in Line
    PROVE  /\ Text(l) \in Seq(Symbol) /\ Text(l) # <<>>
           /\ \/ l.shape = "unended" /\ Text(l) \in Seq(Inline)
              \/ \E body \in Seq(Inline) : Text(l) = body \o Newline
           /\ l.shape \in {"shipped", "bare", "unended"} => Text(l) = Headed(l, Ending(l))
<1>0. /\ Newline \in Seq(Symbol) /\ Newline # <<>> /\ Behind(l) \in Seq(Inline) /\ Behind(l) # <<>>
      /\ Semicolon \in Seq(Inline) /\ \A s \in Seq(Inline) : s \in Seq(Symbol)
  <2>1. Behind(l) # <<>>
    <3>1. Semicolon # <<>>
      BY DEF Semicolon
    <3>2. Semicolon \in Seq(Inline) /\ PairsText(l.pairs) \in Seq(Inline)
      BY HeadTypes
    <3>3. \A x, y \in Seq(Inline) : x \o y = <<>> => x = <<>>
      BY ConcatEqualIffEmpty
    <3> QED BY <3>1, <3>2, <3>3 DEF Behind
  <2>2. Newline # <<>>
    BY DEF Newline
  <2> QED BY <2>1, <2>2, HeadTypes, InlineSymbols, InlineIsText
<1>1. ASSUME NEW body \in Seq(Inline), Text(l) = body \o Newline
      PROVE  Text(l) \in Seq(Symbol) /\ Text(l) # <<>>
    BY <1>0, <1>1, ConcatProperties, ConcatEqualIffEmpty
<1>7. \A r \in Seq(Symbol) : Headed(l, r) \o Newline = Headed(l, r \o Newline)
  <2>1. Inline \subseteq Symbol /\ Newline \in Seq(Symbol)
    BY InlineSymbols
  <2>2. \A r, t \in Seq(Symbol) : Headed(l, r) \o t = Headed(l, r \o t)
    BY <2>1, HeadedTypes
  <2> QED BY <2>1, <2>2
<1>2. CASE l.shape = "shipped"
  <2>1. Text(l) = Fields(l) \o Newline
    BY <1>2 DEF Text, Newline
  <2>2. Fields(l) \o Newline = Headed(l, Behind(l) \o Newline)
    BY <1>0, <1>7, FieldsText
  <2>3. Fields(l) \in Seq(Inline)
    BY FieldsText
  <2> QED BY <1>1, <1>2, <2>1, <2>2, <2>3 DEF Ending
<1>3. CASE l.shape = "bare"
  <2>1. Text(l) = Front(Fields(l)) \o Newline
    BY <1>3 DEF Text, Newline
  <2>2. Front(Fields(l)) = Headed(l, Front(Behind(l)))
    BY <1>0, FieldsText, HeadedTypes
  <2>3. Front(Behind(l)) \in Seq(Inline)
    BY <1>0, FrontOfLonger
  <2>4. Headed(l, Front(Behind(l))) \o Newline = Headed(l, Front(Behind(l)) \o Newline)
    BY <1>0, <1>7, <2>3
  <2>5. Front(Fields(l)) \in Seq(Inline)
    BY FieldsText, FrontOfLonger
  <2> QED BY <1>1, <1>3, <2>1, <2>2, <2>4, <2>5 DEF Ending
<1>4. CASE l.shape = "unended"
  <2>1. Text(l) = Fields(l)
    BY <1>4 DEF Text
  <2> QED BY <1>0, <1>4, <2>1, FieldsText DEF Ending
<1>5. CASE l.shape = "nameOnly"
  <2>1. Text(l) = l.name \o Newline
    BY <1>5 DEF Text, Newline
  <2> QED BY <1>1, <1>5, <2>1, HeadTypes
<1>6. CASE l.shape = "blank"
  <2>1. Text(l) = <<>> \o Newline
    BY <1>0, <1>6, ConcatEmptySeq DEF Text, Newline
  <2>2. <<>> \in Seq(Inline)
    BY EmptySeq
  <2> QED BY <1>1, <1>6, <2>1, <2>2
<1> QED BY <1>2, <1>3, <1>4, <1>5, <1>6, LineFields DEF Shapes

--------------------------------------------------------------------------------
(* What stands in a file *)

(* A file begins with what is written for its first line. *)
LEMMA ContentsAreText ==
    ASSUME NEW f \in Seq(Line)
    PROVE  /\ Contents(f) \in Seq(Symbol)
           /\ f = <<>> => Contents(f) = <<>>
           /\ f # <<>> => Contents(f) = Text(f[1]) \o Contents(Tail(f))
<1> DEFINE text == [l \in Line |-> Text(l)]
<1>1. text \in [Line -> Seq(Symbol)]
  BY TextOfLine
<1>2. ASSUME NEW s \in Seq(Line)
      PROVE  /\ \A i \in DOMAIN s : text[s[i]] = Text(s[i])
             /\ Written(text, s) = Contents(s)
  <2>1. \A i \in DOMAIN s : text[s[i]] = Text(s[i])
    BY ElementOfSeq, LenProperties
  <2>2. [i \in DOMAIN s |-> text[s[i]]] = [i \in DOMAIN s |-> Text(s[i])]
    BY <2>1
  <2> QED BY <2>1, <2>2 DEF Written, Contents
<1> HIDE DEF text
<1>3. /\ Written(text, f) \in Seq(Symbol)
      /\ f = <<>> => Written(text, f) = <<>>
      /\ f # <<>> => Written(text, f) = text[f[1]] \o Written(text, Tail(f))
  BY <1>1, WrittenFirst, SMTT(30)
<1>4. ASSUME f # <<>>
      PROVE  text[f[1]] = Text(f[1]) /\ Written(text, Tail(f)) = Contents(Tail(f))
  <2>1. 1 \in DOMAIN f /\ Tail(f) \in Seq(Line)
    BY <1>4, EmptySeq, LenProperties, HeadTailProperties
  <2> QED BY <1>2, <2>1
<1>5. Written(text, f) = Contents(f)
  BY <1>2
<1> QED BY <1>3, <1>4, <1>5

LEMMA FilesAreLines ==
    ASSUME NEW f \in Files
    PROVE  f \in Seq(Line) /\ \A i \in 1 .. Len(f) : f[i].shape = "unended" => i = Len(f)
<1>1. f \in Seq(Line)
  BY FileAssumption, BoundedIsSeq DEF Files
<1> QED BY <1>1, LenProperties DEF Files

(* fgets reads one line that fits the buffer, and leaves the lines behind it. *)
LEMMA LineIsRead ==
    ASSUME NEW f \in Files, NEW i \in 1 .. Len(f), FitsBuffer(f[i]),
           NEW s, s = Contents(From(f, i))
    PROVE  /\ s # <<>>
           /\ SubSeq(s, 1, FgetsLength(s)) = Text(f[i])
           /\ SubSeq(s, FgetsLength(s) + 1, Len(s)) = Contents(From(f, i + 1))
<1>1. f \in Seq(Line) /\ Len(f) \in Nat /\ f[i] \in Line
  BY FilesAreLines, LenProperties, ElementOfSeq
<1>2. /\ From(f, i) \in Seq(Line) /\ From(f, i) # <<>> /\ From(f, i)[1] = f[i]
      /\ Tail(From(f, i)) = From(f, i + 1) /\ From(f, i + 1) \in Seq(Line)
  <2>1. i \in 1 .. Len(f) + 1 /\ i + 1 \in 1 .. Len(f) + 1
    BY <1>1
  <2> QED BY <1>1, <2>1, FromFirst
<1> DEFINE t == Text(f[i])
           r == Contents(From(f, i + 1))
<1>3. s = t \o r /\ r \in Seq(Symbol)
  BY <1>2, ContentsAreText
<1>4. t \in Seq(Symbol) /\ t # <<>> /\ Len(t) < BufferSize
  BY <1>1, TextOfLine DEF FitsBuffer
<1>5. \/ t[Len(t)].kind = "\n" /\ \A j \in 1 .. Len(t) - 1 : t[j].kind # "\n"
      \/ r = <<>> /\ Free(t, "\n")
  <2>1. CASE f[i].shape = "unended" /\ t \in Seq(Inline)
    <3>1. i = Len(f)
      BY <2>1, FilesAreLines
    <3>2. From(f, i + 1) = <<>>
      BY <1>1, <3>1, FromFirst
    <3>3. r = <<>>
      BY <1>2, <3>2, ContentsAreText
    <3> HIDE DEF t, r
    <3> QED BY <2>1, <3>3, InlineIsText
  <2>2. ASSUME NEW body \in Seq(Inline), t = body \o Newline
        PROVE  t[Len(t)].kind = "\n" /\ \A j \in 1 .. Len(t) - 1 : t[j].kind # "\n"
    <3> HIDE DEF t
    <3>1. body \in Seq(Symbol) /\ Free(body, "\n") /\ Len(body) \in Nat
      BY InlineIsText, LenProperties
    <3>2. Newline \in Seq(Symbol) /\ Len(Newline) = 1 /\ Newline[1] = Sep("\n")
      BY InlineSymbols
    <3>3. /\ Len(t) = Len(body) + 1
          /\ \A j \in 1 .. Len(body) + 1 :
                t[j] = IF j <= Len(body) THEN body[j] ELSE Newline[j - Len(body)]
      BY <2>2, <3>1, <3>2, ConcatProperties, ZenonT(60)
    <3>4. t[Len(t)] = Newline[1]
      <4>1. Len(t) \in 1 .. Len(body) + 1 /\ ~ (Len(t) <= Len(body)) /\ Len(t) - Len(body) = 1
        BY <3>1, <3>3
      <4> QED BY <3>3, <4>1
    <3>5. ASSUME NEW j \in 1 .. Len(t) - 1 PROVE t[j].kind # "\n"
      <4>1. j \in 1 .. Len(body) + 1 /\ j <= Len(body) /\ j \in 1 .. Len(body)
        BY <3>1, <3>3
      <4> QED BY <3>1, <3>3, <4>1 DEF Free
    <3>6. Newline[1].kind = "\n"
      BY <3>2 DEF Sep
    <3> QED BY <3>4, <3>5, <3>6
  <2> QED BY <1>1, <2>1, <2>2, TextOfLine
<1> HIDE DEF t, r
<1>6. s # <<>>
  BY <1>3, <1>4, ConcatEqualIffEmpty
<1>7. SubSeq(t \o r, 1, FgetsLength(t \o r)) = t /\ SubSeq(t \o r, FgetsLength(t \o r) + 1, Len(t \o r)) = r
  BY <1>3, <1>4, <1>5, FgetsReads
<1> QED BY <1>3, <1>6, <1>7 DEF t, r

--------------------------------------------------------------------------------
(* Types, and the end of the file *)

Pairs == [id : 0 .. IdMod - 1, count : 0 .. CountMod - 1]
Record == [name : Seq(Symbol), id : 0 .. IdMod - 1, pairs : Seq(Pairs)]

(* TypeOK with the types of what becomes of the records. *)
FilesInv ==
    /\ pc \in {"fgets", "create", "loop", "append", "done", "crashed"}
    /\ file \in Seq(Symbol) /\ rest \in Seq(Symbol) /\ part \in Seq(Symbol)
    /\ rec \in Record
    /\ data \in Seq(Record) /\ used = Len(data) /\ size \in Nat

LEMMA TokenTypes ==
    ASSUME FilesInv
    PROVE  /\ NameToken.token \in Seq(Symbol) /\ NameToken.rest \in Seq(Symbol)
           /\ IdToken.token \in Seq(Symbol) /\ IdToken.rest \in Seq(Symbol)
           /\ CountToken.token \in Seq(Symbol) /\ CountToken.rest \in Seq(Symbol)
  BY StrtokTakes DEF FilesInv, NameToken, IdToken, CountToken

LEMMA EmptyTypes == <<>> \in Seq(Symbol) /\ NoRecord \in Record
  BY DEF NoRecord, Record

LEMMA FilesStep == FilesInv /\ [Next]_vars => FilesInv'
<1> SUFFICES ASSUME FilesInv, [Next]_vars PROVE FilesInv'
  OBVIOUS
<1> USE DEF FilesInv
<1>1. CASE ReadLine
  <2>1. file # <<>> /\ Len(file) \in Nat /\ FgetsLength(file) \in 1 .. Len(file)
    BY <1>1, FgetsTakes, LenProperties DEF ReadLine
  <2>2. /\ SubSeq(file, 1, FgetsLength(file)) \in Seq(Symbol)
        /\ SubSeq(file, FgetsLength(file) + 1, Len(file)) \in Seq(Symbol)
    BY <2>1, PartOf
  <2>3. file' \in Seq(Symbol) /\ rest' \in Seq(Symbol)
    BY <1>1, <2>2 DEF ReadLine
  <2>4. rec' \in Record
    BY <1>1, EmptyTypes DEF ReadLine, NewRecord
  <2> QED BY <1>1, <2>3, <2>4 DEF ReadLine, array
<1>2. CASE EndOfFile \/ HeadIsNull \/ LoopEnds \/ PairHasNoCount \/ UNCHANGED vars
  BY <1>2, EmptyTypes DEF EndOfFile, HeadIsNull, LoopEnds, PairHasNoCount, array, vars
<1>3. CASE IngredientCreate
  <2>1. IngredientId \in 0 .. IdMod - 1
    BY AtoiFits, TokenTypes, SMTT(30) DEF IngredientId
  <2>2. rec' \in Record
    BY <1>3, <2>1, TokenTypes DEF IngredientCreate, Record
  <2> QED BY <1>3, <2>2 DEF IngredientCreate, array
<1>4. CASE RecipeHead
  <2>1. Atoi(IdToken.token) % IdMod \in 0 .. IdMod - 1
    BY <1>4, AtoiFits, TokenTypes DEF RecipeHead
  <2>2. rec' \in Record
    BY <1>4, <2>1, TokenTypes DEF RecipeHead, Record
  <2>3. part' \in Seq(Symbol) /\ rest' \in Seq(Symbol)
    BY <1>4, TokenTypes, StrtokTakes DEF RecipeHead, PairToken
  <2> QED BY <1>4, <2>2, <2>3 DEF RecipeHead, array
<1>5. CASE AppendPair
  <2>1. /\ Atoi(part) % IdMod \in 0 .. IdMod - 1
        /\ Atoi(CountToken.token) % CountMod \in 0 .. CountMod - 1
    BY <1>5, AtoiFits, TokenTypes DEF AppendPair
  <2>2. rec.pairs \in Seq(Pairs)
    BY DEF Record
  <2>3. WithPair(rec.pairs, Atoi(part) % IdMod, Atoi(CountToken.token) % CountMod) \in Seq(Pairs)
    BY <2>1, <2>2, AppendProperties DEF WithPair, Pairs
  <2>4. rec' \in Record
    BY <1>5, <2>3 DEF AppendPair, Record
  <2>5. part' \in Seq(Symbol) /\ rest' \in Seq(Symbol)
    BY <1>5, TokenTypes, StrtokTakes DEF AppendPair, PairToken
  <2> QED BY <1>5, <2>4, <2>5 DEF AppendPair, array
<1>6. CASE VlaAppend
  <2>1. data' \in Seq(Record) /\ used' = Len(data')
    BY <1>6, AppendProperties, LenProperties DEF VlaAppend
  <2>2. size' \in Nat
    BY <1>6 DEF VlaAppend, NewSize
  <2> QED BY <1>6, <2>1, <2>2 DEF VlaAppend
<1> QED BY <1>1, <1>2, <1>3, <1>4, <1>5, <1>6 DEF Next

LEMMA FilesType == FilesInv => TypeOK
<1> SUFFICES ASSUME FilesInv PROVE TypeOK
  OBVIOUS
<1>1. used \in Nat
  BY LenProperties DEF FilesInv
<1>2. \A i \in DOMAIN rec.pairs :
        rec.pairs[i].id \in 0 .. IdMod - 1 /\ rec.pairs[i].count \in 0 .. CountMod - 1
  <2>1. rec.pairs \in Seq(Pairs)
    BY DEF FilesInv, Record
  <2>2. \A i \in DOMAIN rec.pairs : rec.pairs[i] \in Pairs
    BY <2>1, ElementOfSeq, LenProperties
  <2> QED BY <2>2 DEF Pairs
<1> QED BY <1>1, <1>2 DEF FilesInv, TypeOK, Record

LEMMA StepTakes ==
    ASSUME FilesInv, Next
    PROVE  Remaining' < Remaining
<1>0. /\ Len(file) \in Nat /\ Len(rest) \in Nat
      /\ file' \in Seq(Symbol) /\ rest' \in Seq(Symbol)
      /\ Len(file') \in Nat /\ Len(rest') \in Nat
  BY FilesStep, LenProperties DEF FilesInv
<1>1. CASE ReadLine
  <2> DEFINE n == FgetsLength(file)
  <2>1. file # <<>> /\ n \in 1 .. Len(file)
    BY <1>1, FgetsTakes DEF ReadLine, FilesInv
  <2>2. Len(rest') = n /\ Len(file') = Len(file) - n
    <3>1. /\ Len(SubSeq(file, 1, n)) = n
          /\ Len(SubSeq(file, n + 1, Len(file))) = Len(file) - n
      <4> HIDE DEF n
      <4> QED BY <1>0, <2>1, PartOf DEF FilesInv
    <3> QED BY <1>1, <3>1 DEF ReadLine
  <2>3. Rank[pc] = 1 /\ Rank[pc'] = 4
    BY <1>1 DEF ReadLine, Rank
  <2> HIDE DEF n
  <2> QED BY <1>0, <2>1, <2>2, <2>3 DEF Remaining
<1>2. ASSUME file' = file, Len(rest') <= Len(rest), Rank[pc] \in Nat, Rank[pc'] \in Nat,
             Rank[pc'] < Rank[pc] \/ (Rank[pc'] = Rank[pc] /\ Len(rest') < Len(rest))
      PROVE  Remaining' < Remaining
  BY <1>0, <1>2 DEF Remaining
<1>3. CASE EndOfFile \/ IngredientCreate \/ HeadIsNull \/ LoopEnds \/ VlaAppend
  <2>1. /\ file' = file /\ rest' = rest
        /\ Rank[pc] \in Nat /\ Rank[pc'] \in Nat /\ Rank[pc'] < Rank[pc]
    BY <1>3 DEF EndOfFile, IngredientCreate, HeadIsNull, LoopEnds, VlaAppend, Rank
  <2> QED BY <1>0, <1>2, <2>1
<1>4. CASE RecipeHead
  <2>1. /\ NameToken.rest \in Seq(Symbol) /\ Len(NameToken.rest) <= Len(rest)
        /\ IdToken.rest \in Seq(Symbol) /\ Len(IdToken.rest) <= Len(NameToken.rest)
        /\ Len(PairToken(IdToken.rest).rest) <= Len(IdToken.rest)
    BY StrtokTakes DEF FilesInv, NameToken, IdToken, PairToken
  <2>2. rest' = PairToken(IdToken.rest).rest /\ file' = file
    BY <1>4 DEF RecipeHead
  <2>3. Len(rest') <= Len(rest)
    BY <1>0, <2>1, <2>2, LenProperties
  <2>4. Rank[pc] = 4 /\ Rank[pc'] = 3
    BY <1>4 DEF RecipeHead, Rank
  <2> QED BY <1>2, <2>2, <2>3, <2>4
<1>5. CASE PairHasNoCount
  <2>1. rest' = <<>> /\ file' = file /\ Len(rest') <= Len(rest)
    BY <1>0, <1>5 DEF PairHasNoCount
  <2>2. Rank[pc] = 3 /\ Rank[pc'] = 2
    BY <1>5 DEF PairHasNoCount, Rank
  <2> QED BY <1>2, <2>1, <2>2
<1>6. CASE AppendPair
  <2>1. /\ CountToken.rest \in Seq(Symbol) /\ Len(CountToken.rest) < Len(rest)
        /\ Len(PairToken(CountToken.rest).rest) <= Len(CountToken.rest)
    BY <1>6, StrtokTakes DEF FilesInv, AppendPair, CountToken, PairToken
  <2>2. rest' = PairToken(CountToken.rest).rest /\ file' = file
    BY <1>6 DEF AppendPair
  <2>3. Len(rest') < Len(rest)
    BY <1>0, <2>1, <2>2, LenProperties
  <2>4. Rank[pc] = 3 /\ pc' \in {"crashed", "append", "loop"}
    BY <1>6 DEF AppendPair, Rank
  <2>5. Rank[pc'] \in {0, 2, 3}
    BY <2>4 DEF Rank
  <2> QED BY <1>0, <1>2, <2>2, <2>3, <2>4, <2>5
<1> QED BY <1>1, <1>3, <1>4, <1>5, <1>6 DEF Next

LEMMA FilesInit == Init => FilesInv
  BY FilesAreLines, ContentsAreText, EmptyTypes DEF Init, FilesInv

(* Whatever stands in a file, every number read from it fits the field it   *)
(* is stored in, and the array counts its records (drinks.c:99,147,202).    *)
THEOREM FilesReadHaveType == Spec => []TypeOK
<1> QED BY FilesInit, FilesStep, FilesType, PTL DEF Spec

(* The loops over the lines and over the pairs of a line come to an end,    *)
(* however the file is written: fgets and strtok always take something.     *)
THEOREM ReadingEnds == Spec => EveryStepConsumes
<1>1. FilesInv /\ [Next]_vars => [Remaining' < Remaining]_vars
  BY StepTakes
<1> QED BY <1>1, FilesInit, FilesStep, PTL DEF Spec, EveryStepConsumes

--------------------------------------------------------------------------------
(* The tokens of a good line *)

(* The number of a line is a token of its own, perhaps with the newline. *)
LEMMA NumberToken ==
    ASSUME NEW n \in Nat, NEW v \in Seq(Symbol)
    PROVE  /\ Strtok(<<Number(n)>> \o (Semicolon \o v), ";") = [token |-> <<Number(n)>>, rest |-> v]
           /\ Strtok(<<Number(n)>> \o (<<Sep("-")>> \o v), "-") = [token |-> <<Number(n)>>, rest |-> v]
<1>1. <<Number(n)>> \in Seq(Symbol) /\ <<Number(n)>> # <<>>
  <2>1. Number(n) \in Symbol
    BY InlineSymbols
  <2> QED BY <2>1
<1>2. Free(<<Number(n)>>, ";") /\ Free(<<Number(n)>>, "-")
  <2>1. Number(n).kind = "number" /\ Len(<<Number(n)>>) = 1 /\ <<Number(n)>>[1] = Number(n)
    BY InlineSymbols
  <2>2. \A i \in 1 .. Len(<<Number(n)>>) : <<Number(n)>>[i] = Number(n)
    BY <2>1
  <2> QED BY <2>1, <2>2 DEF Free
<1>3. ";" \in Kinds /\ "-" \in Kinds
  BY DEF Kinds
<1>4. Strtok(<<Number(n)>> \o (<<Sep(";")>> \o v), ";") = [token |-> <<Number(n)>>, rest |-> v]
  BY <1>1, <1>2, <1>3, StrtokTo
<1>5. Strtok(<<Number(n)>> \o (<<Sep("-")>> \o v), "-") = [token |-> <<Number(n)>>, rest |-> v]
  BY <1>1, <1>2, <1>3, StrtokTo
<1> QED BY <1>4, <1>5 DEF Semicolon

LEMMA NewlineToken ==
    /\ \A n \in Nat : Strtok(<<Number(n)>> \o Newline, ";") =
            [token |-> <<Number(n)>> \o Newline, rest |-> <<>>]
    /\ Strtok(Newline, "-") = [token |-> Newline, rest |-> <<>>]
<1>1. Newline \in Seq(Symbol) /\ Newline # <<>> /\ Len(Newline) = 1 /\ Newline[1].kind = "\n"
  BY InlineSymbols DEF Newline, Sep
<1>2. Strtok(Newline, "-") = [token |-> Newline, rest |-> <<>>]
  BY <1>1, StrtokLast DEF Free
<1>3. ASSUME NEW n \in Nat
      PROVE  Strtok(<<Number(n)>> \o Newline, ";") = [token |-> <<Number(n)>> \o Newline, rest |-> <<>>]
  <2> DEFINE t == <<Number(n)>> \o Newline
  <2>1. /\ <<Number(n)>> \in Seq(Symbol) /\ Len(<<Number(n)>>) = 1
        /\ <<Number(n)>>[1].kind = "number"
    <3>1. Number(n) \in Symbol /\ Number(n).kind = "number"
      BY InlineSymbols
    <3> QED BY <3>1
  <2>2. /\ t \in Seq(Symbol) /\ Len(t) = 2
        /\ \A i \in 1 .. 2 : t[i] = IF i <= 1 THEN <<Number(n)>>[i] ELSE Newline[i - 1]
    BY <1>1, <2>1, ConcatProperties
  <2> HIDE DEF t
  <2>3. Free(t, ";")
    <3>1. ASSUME NEW i \in 1 .. 2 PROVE t[i].kind # ";"
      <4>1. CASE i = 1
        <5>1. i <= 1
          BY <4>1
        <5>2. t[i] = <<Number(n)>>[1]
          BY <2>2, <4>1, <5>1
        <5>3. t[i].kind = "number"
          BY <2>1, <5>2
        <5> QED BY <5>3
      <4>2. CASE i = 2
        <5>1. ~ (i <= 1) /\ i - 1 = 1
          BY <4>2
        <5>2. t[i] = Newline[1]
          BY <2>2, <5>1
        <5>3. t[i].kind = "\n"
          BY <1>1, <5>2
        <5>4. "\n" # ";"
          OBVIOUS
        <5> QED BY <5>3, <5>4, Zenon
      <4>3. i = 1 \/ i = 2
        OBVIOUS
      <4> QED BY <4>1, <4>2, <4>3, Zenon
    <3> QED BY <2>2, <3>1 DEF Free
  <2>4. t # <<>>
    <3>1. Len(t) # 0
      BY <2>2
    <3> QED BY <3>1
  <2>5. Strtok(t, ";") = [token |-> t, rest |-> <<>>]
    BY <2>2, <2>3, <2>4, StrtokLast
  <2> QED BY <2>5 DEF t
<1> QED BY <1>2, <1>3

(* The head of a line: its name, its number, and what is left for the pairs. *)
HeadTaken(l, name, number) ==
    /\ name.token = l.name
    /\ number.token # <<>> /\ Head(number.token) = Number(l.id)
    /\ l.shape = "shipped" => number.rest = PairsText(l.pairs) \o Newline
    /\ l.shape # "shipped" /\ l.pairs = <<>> => number.rest = <<>>

(* The name of a line is the first token. *)
LEMMA NameIsTaken ==
    ASSUME NEW l \in Line, NEW r \in Seq(Symbol)
    PROVE  Strtok(Headed(l, r), ";") = [token |-> l.name, rest |-> <<Number(l.id)>> \o r]
<1>1. l.name \in Seq(Symbol) /\ l.name # <<>> /\ Free(l.name, ";")
  BY HeadTypes, InlineIsText
<1>2. <<Number(l.id)>> \o r \in Seq(Symbol)
  <2>1. <<Number(l.id)>> \in Seq(Symbol)
    BY HeadTypes, InlineIsText
  <2> QED BY <2>1, ConcatProperties
<1>3. ";" \in Kinds
  BY DEF Kinds
<1> QED BY <1>1, <1>2, <1>3, StrtokTo DEF Headed, Semicolon

(* What is behind the number begins with a separator, unless it is just the *)
(* newline. *)
LEMMA EndingSplit ==
    ASSUME NEW l \in Line, l.shape \in {"shipped", "bare", "unended"}
    PROVE  \/ \E v \in Seq(Symbol) :
                /\ Ending(l) = Semicolon \o v
                /\ l.shape = "shipped" => v = PairsText(l.pairs) \o Newline
                /\ l.shape # "shipped" /\ l.pairs = <<>> => v = <<>>
           \/ Ending(l) = Newline /\ l.shape = "bare"
<1> DEFINE p == PairsText(l.pairs)
<1>1. p \in Seq(Inline) /\ p \in Seq(Symbol) /\ (l.pairs = <<>> => p = <<>>)
  BY LineFields, PairsAreText, InlineIsText
<1>2. Semicolon \in Seq(Inline) /\ Semicolon \in Seq(Symbol)
  BY HeadTypes, InlineIsText
<1>3. Newline \in Seq(Symbol)
  BY InlineSymbols
<1>4. Behind(l) = Semicolon \o p
  BY DEF Behind
<1> HIDE DEF p
<1>5. \A t \in Seq(Symbol) : (Semicolon \o t) \o Newline = Semicolon \o (t \o Newline)
  BY <1>2, <1>3, ConcatAssociative
<1>6. CASE l.shape = "shipped"
  <2>1. Ending(l) = Semicolon \o (p \o Newline)
    BY <1>1, <1>4, <1>5, <1>6 DEF Ending
  <2>2. p \o Newline \in Seq(Symbol)
    BY <1>1, <1>3, ConcatProperties
  <2> QED BY <1>6, <2>1, <2>2 DEF p
<1>7. CASE l.shape = "unended"
  <2>1. Ending(l) = Semicolon \o p
    BY <1>4, <1>7 DEF Ending
  <2> QED BY <1>1, <1>7, <2>1
<1>8. CASE l.shape = "bare"
  <2>0. Ending(l) = Front(Semicolon \o p) \o Newline
    BY <1>4, <1>8 DEF Ending
  <2>1. CASE p = <<>>
    <3>1. Semicolon \o p = Semicolon
      BY <1>2, <2>1, ConcatEmptySeq
    <3>2. Front(Semicolon) = <<>>
      <4>1. Len(Semicolon) = 1
        BY HeadTypes
      <4>2. SubSeq(Semicolon, 1, 0) = <<>>
        BY SubSeqEmpty
      <4> QED BY <4>1, <4>2 DEF Front
    <3>3. <<>> \o Newline = Newline
      BY <1>3, ConcatEmptySeq
    <3> QED BY <1>8, <2>0, <3>1, <3>2, <3>3
  <2>2. CASE p # <<>>
    <3>1. Front(p) \in Seq(Inline) /\ Front(Semicolon \o p) = Semicolon \o Front(p)
      BY <1>1, <1>2, <2>2, FrontOfLonger
    <3>2. Front(p) \in Seq(Symbol)
      BY <3>1, InlineIsText
    <3>3. Front(p) \o Newline \in Seq(Symbol)
      BY <1>3, <3>2, ConcatProperties
    <3>4. Ending(l) = Semicolon \o (Front(p) \o Newline)
      BY <1>5, <2>0, <3>1, <3>2
    <3> QED BY <1>1, <1>8, <2>2, <3>3, <3>4
  <2> QED BY <2>1, <2>2
<1> QED BY <1>6, <1>7, <1>8

LEMMA HeadIsTaken ==
    ASSUME NEW l \in Line, l.shape \in {"shipped", "bare", "unended"}
    PROVE  HeadTaken(l, Strtok(Text(l), ";"), Strtok(Strtok(Text(l), ";").rest, ";"))
<1> DEFINE n == <<Number(l.id)>>
<1>0. l.id \in Nat /\ n \in Seq(Symbol) /\ n # <<>> /\ Head(n) = Number(l.id)
  <2>1. n \in Seq(Symbol)
    BY HeadTypes, InlineIsText
  <2> QED BY <2>1, LineFields
<1>1. ASSUME NEW r \in Seq(Symbol), Ending(l) = r
      PROVE  Strtok(Text(l), ";") = [token |-> l.name, rest |-> n \o r]
  BY <1>1, TextOfLine, NameIsTaken
<1> HIDE DEF n
<1>2. ASSUME NEW t, NEW r, NEW v, t # <<>>, Head(t) = Number(l.id),
             Strtok(Text(l), ";") = [token |-> l.name, rest |-> r],
             Strtok(r, ";") = [token |-> t, rest |-> v],
             l.shape = "shipped" => v = PairsText(l.pairs) \o Newline,
             l.shape # "shipped" /\ l.pairs = <<>> => v = <<>>
      PROVE  HeadTaken(l, Strtok(Text(l), ";"), Strtok(Strtok(Text(l), ";").rest, ";"))
  <2> DEFINE name == Strtok(Text(l), ";")
             number == Strtok(name.rest, ";")
  <2>1. name.token = l.name /\ name.rest = r
    BY <1>2, TokenIs
  <2>2. number.token = t /\ number.rest = v
    BY <1>2, <2>1, TokenIs
  <2> HIDE DEF number
  <2>3. HeadTaken(l, name, number)
    BY <1>2, <2>1, <2>2 DEF HeadTaken
  <2> QED BY <2>3 DEF number
<1>3. ASSUME NEW v \in Seq(Symbol), Ending(l) = Semicolon \o v,
             l.shape = "shipped" => v = PairsText(l.pairs) \o Newline,
             l.shape # "shipped" /\ l.pairs = <<>> => v = <<>>
      PROVE  HeadTaken(l, Strtok(Text(l), ";"), Strtok(Strtok(Text(l), ";").rest, ";"))
  <2>1. Semicolon \o v \in Seq(Symbol)
    <3>1. Semicolon \in Seq(Symbol)
      BY HeadTypes, InlineIsText
    <3> QED BY <3>1, ConcatProperties
  <2>2. Strtok(Text(l), ";") = [token |-> l.name, rest |-> n \o (Semicolon \o v)]
    BY <1>1, <1>3, <2>1
  <2>3. Strtok(n \o (Semicolon \o v), ";") = [token |-> n, rest |-> v]
    BY <1>0, NumberToken DEF n
  <2> QED BY <1>0, <1>3, <1>2, <2>2, <2>3
<1>4. CASE Ending(l) = Newline /\ l.shape = "bare"
  <2>1. Newline \in Seq(Symbol)
    BY InlineSymbols
  <2>2. Strtok(Text(l), ";") = [token |-> l.name, rest |-> n \o Newline]
    BY <1>1, <1>4, <2>1
  <2>3. Strtok(n \o Newline, ";") = [token |-> n \o Newline, rest |-> <<>>]
    BY <1>0, NewlineToken DEF n
  <2>4. n \o Newline # <<>> /\ Head(n \o Newline) = Number(l.id)
    <3>1. n \o Newline # <<>> /\ n \o Newline \in Seq(Symbol)
      BY <1>0, <2>1, ConcatEqualIffEmpty, ConcatProperties
    <3>2. (n \o Newline)[1] = n[1] /\ n[1] = Number(l.id)
      <4>0. Len(n) = 1 /\ n[1] = Number(l.id)
        BY DEF n
      <4>1. 1 \in 1 .. Len(n) + Len(Newline) /\ 1 <= Len(n)
        <5>1. Len(Newline) = 1
          BY InlineSymbols DEF Newline
        <5> QED BY <4>0, <5>1
      <4> QED BY <1>0, <2>1, <4>0, <4>1, ConcatProperties
    <3> QED BY <3>1, <3>2
  <2> QED BY <1>4, <1>2, <2>2, <2>3, <2>4
<1> QED BY <1>3, <1>4, EndingSplit

(* Reading the number of a symbol that is one *)
LEMMA NumberIsRead ==
    ASSUME NEW n \in Nat, NEW m \in Nat \ {0}, n < m, NEW t, Head(t) = Number(n)
    PROVE  Atoi(t) = n /\ Atoi(t) % m = n
<1>1. Atoi(t) = n
  BY InlineSymbols DEF Atoi
<1> QED BY <1>1

(* What is left of a line before its next pair, and after the id of it. *)
Pending(pairs) == PairsText(pairs) \o Newline

Counted(pairs) == <<Number(pairs[1].count)>> \o (Semicolon \o Pending(Tail(pairs)))

LEMMA PendingTypes ==
    ASSUME NEW pairs \in Seq(Pair)
    PROVE  /\ Pending(pairs) \in Seq(Symbol)
           /\ pairs = <<>> => Pending(pairs) = Newline
<1>1. PairsText(pairs) \in Seq(Symbol) /\ (pairs = <<>> => PairsText(pairs) = <<>>)
  BY PairsAreText, InlineIsText
<1>2. Newline \in Seq(Symbol)
  BY InlineSymbols
<1> QED BY <1>1, <1>2, ConcatProperties, ConcatEmptySeq DEF Pending

LEMMA PendingFirst ==
    ASSUME NEW pairs \in Seq(Pair), pairs # <<>>
    PROVE  /\ Counted(pairs) \in Seq(Symbol)
           /\ Pending(pairs) = <<Number(pairs[1].id)>> \o (<<Sep("-")>> \o Counted(pairs))
<1>1. pairs[1] \in Pair /\ Tail(pairs) \in Seq(Pair)
  BY EmptySeq, ElementOfSeq, HeadTailProperties
<1> DEFINE i == <<Number(pairs[1].id)>>
           d == <<Sep("-")>>
           c == <<Number(pairs[1].count)>>
           more == PairsText(Tail(pairs))
<1>2. /\ i \in Seq(Symbol) /\ d \in Seq(Symbol) /\ c \in Seq(Symbol)
      /\ Semicolon \in Seq(Symbol)
  <2>1. Number(pairs[1].id) \in Symbol /\ Number(pairs[1].count) \in Symbol
    BY <1>1, PairIsText, InlineSymbols
  <2>2. Sep("-") \in Symbol /\ Sep(";") \in Symbol
    BY InlineSymbols
  <2>3. \A x \in Symbol : <<x>> \in Seq(Symbol)
    OBVIOUS
  <2> QED BY <2>1, <2>2, <2>3, Zenon DEF Semicolon
<1>3. more \in Seq(Symbol) /\ Newline \in Seq(Symbol)
  BY <1>1, PairsAreText, InlineIsText, InlineSymbols
<1>4. PairsText(pairs) = (i \o (d \o (c \o Semicolon))) \o more
  <2>1. PairsText(pairs) = PairText(pairs[1]) \o more
    BY PairsAreText
  <2>2. PairText(pairs[1]) = i \o (d \o (c \o Semicolon))
    <3>1. \A w, x, y, z : <<w, x, y, z>> = <<w>> \o (<<x>> \o (<<y>> \o <<z>>))
      BY FourJoined, Zenon
    <3> QED BY <3>1, Zenon DEF PairText, Semicolon
  <2> HIDE DEF i, d, c
  <2> QED BY <2>1, <2>2
<1>5. Counted(pairs) = c \o (Semicolon \o (more \o Newline))
  BY DEF Counted, Pending
<1> HIDE DEF i, d, c, more
<1>6. /\ \A x, y \in Seq(Symbol) : x \o y \in Seq(Symbol)
      /\ \A x, y, z \in Seq(Symbol) : (x \o y) \o z = x \o (y \o z)
  <2>1. \A x, y \in Seq(Symbol) : x \o y \in Seq(Symbol)
    BY ConcatProperties, SMTT(30)
  <2>2. \A x, y, z \in Seq(Symbol) : (x \o y) \o z = x \o (y \o z)
    BY ConcatAssociative, SMTT(30)
  <2> QED BY <2>1, <2>2
<1> DEFINE tail == more \o Newline
<1>7. tail \in Seq(Symbol)
  BY <1>3, <1>6
<1>8. ((i \o (d \o (c \o Semicolon))) \o more) \o Newline = (i \o (d \o (c \o Semicolon))) \o tail
  <2>1. i \o (d \o (c \o Semicolon)) \in Seq(Symbol)
    BY <1>2, <1>6
  <2> QED BY <1>3, <1>6, <2>1, ZenonT(60)
<1> HIDE DEF tail
<1>9. (c \o Semicolon) \o tail = c \o (Semicolon \o tail) /\ c \o Semicolon \in Seq(Symbol)
  BY <1>2, <1>6, <1>7, SMTT(30)
<1> DEFINE e == c \o Semicolon
<1> HIDE DEF e
<1>10. e \in Seq(Symbol) /\ e \o tail = c \o (Semicolon \o tail)
  BY <1>9 DEF e
<1>11. (d \o e) \o tail = d \o (e \o tail) /\ d \o e \in Seq(Symbol)
  BY <1>2, <1>6, <1>7, <1>10, ZenonT(60)
<1>12. (i \o (d \o e)) \o tail = i \o ((d \o e) \o tail)
  BY <1>2, <1>6, <1>7, <1>11, ZenonT(60)
<1>13. Pending(pairs) = i \o (d \o Counted(pairs))
  BY <1>4, <1>5, <1>8, <1>10, <1>11, <1>12 DEF Pending, e, tail
<1>14. Counted(pairs) \in Seq(Symbol)
  <2>1. Semicolon \o tail \in Seq(Symbol)
    BY <1>2, <1>6, <1>7
  <2> QED BY <1>2, <1>5, <1>6, <2>1 DEF tail
<1> QED BY <1>13, <1>14 DEF i, d

(* One turn of the loop over the pairs: the id, and then the count. *)
LEMMA NextPair ==
    ASSUME NEW pairs \in Seq(Pair)
    PROVE  PairToken(Pending(pairs)) =
            IF pairs = <<>> THEN [token |-> Newline, rest |-> <<>>]
            ELSE [token |-> <<Number(pairs[1].id)>>, rest |-> Counted(pairs)]
<1>1. CASE pairs = <<>>
  BY <1>1, PendingTypes, NewlineToken DEF PairToken
<1>2. CASE pairs # <<>>
  <2>1. pairs[1].id \in Nat
    BY <1>2, EmptySeq, ElementOfSeq, PairIsText
  <2>2. PICK n \in Nat : n = pairs[1].id
    BY <2>1
  <2>3. Counted(pairs) \in Seq(Symbol) /\ Pending(pairs) = <<Number(n)>> \o (<<Sep("-")>> \o Counted(pairs))
    BY <1>2, <2>2, PendingFirst
  <2>4. Strtok(<<Number(n)>> \o (<<Sep("-")>> \o Counted(pairs)), "-") =
            [token |-> <<Number(n)>>, rest |-> Counted(pairs)]
    BY <2>3, NumberToken
  <2> QED BY <1>2, <2>2, <2>3, <2>4 DEF PairToken
<1> QED BY <1>1, <1>2

LEMMA NextCount ==
    ASSUME NEW pairs \in Seq(Pair), pairs # <<>>
    PROVE  Strtok(Counted(pairs), ";") =
            [token |-> <<Number(pairs[1].count)>>, rest |-> Pending(Tail(pairs))]
<1>1. pairs[1] \in Pair /\ Tail(pairs) \in Seq(Pair)
  BY EmptySeq, ElementOfSeq, HeadTailProperties
<1>2. pairs[1].count \in Nat /\ Pending(Tail(pairs)) \in Seq(Symbol)
  BY <1>1, PairIsText, PendingTypes
<1> QED BY <1>2, NumberToken DEF Counted

--------------------------------------------------------------------------------
(* What becomes of the lines *)

AllFit == \A i \in DOMAIN lines : FitsBuffer(lines[i])

(* k pairs of the recipe are read, and the id of the next. *)
AtPair(l, k) ==
    /\ rec.pairs = SubSeq(l.pairs, 1, k)
    /\ part = <<Number(l.pairs[k + 1].id)>>
    /\ rest = Counted(From(l.pairs, k + 1))

(* What the parser holds of the good line l it is working on *)
Understood(l) ==
    /\ pc = "create" => rest = Text(l) /\ rec = NoRecord
    /\ pc = "loop" =>
        /\ rec.name = l.name /\ rec.id = l.id
        /\ \/ l.pairs = <<>> /\ rec.pairs = <<>> /\ rest = <<>>
           \/ \E k \in 0 .. Len(l.pairs) - 1 : AtPair(l, k)
    /\ pc = "append" => rec = Meaning(l)
    /\ pc # "crashed"

Understanding ==
    pc \in {"create", "loop", "append", "crashed"} =>
        /\ used < Len(lines) /\ file = Contents(From(lines, used + 2))
        /\ \A l \in Line : l = lines[used + 1] /\ Good(l) => Understood(l)

RecordsAreMeant ==
    \A i \in 1 .. used : \A l \in Line : l = lines[i] /\ Good(l) => data[i] = Meaning(l)

FileRead ==
    /\ pc = "fgets" => used <= Len(lines) /\ file = Contents(From(lines, used + 1))
    /\ pc = "done" => used = Len(lines)
    /\ pc = "loop" => kind = "recipes"
    /\ Understanding
    /\ RecordsAreMeant

LinesInv ==
    /\ FilesInv
    /\ lines \in Files
    /\ AllFit => FileRead

(* What the tokens of the head of a good line are *)
LEMMA HeadOfGood ==
    ASSUME NEW l \in Line, Good(l), rest = Text(l)
    PROVE  /\ NameToken.token = l.name /\ l.name # <<>>
           /\ IdToken.token # <<>> /\ Atoi(IdToken.token) % IdMod = l.id
           /\ kind = "recipes" =>
                \/ IdToken.rest = Pending(l.pairs)
                \/ l.pairs = <<>> /\ IdToken.rest = <<>>
<1>1. l.shape \in {"shipped", "bare", "unended"} /\ l.id < IdMod
  BY DEF Good
<1>2. l.name # <<>> /\ l.id \in Nat
  BY LineFields, NameTokens
<1>3. HeadTaken(l, NameToken, IdToken)
  BY <1>1, HeadIsTaken DEF NameToken, IdToken
<1>4. Atoi(IdToken.token) % IdMod = l.id
  BY <1>1, <1>2, <1>3, NumberIsRead DEF HeadTaken
<1>5. ASSUME kind = "recipes"
      PROVE  IdToken.rest = Pending(l.pairs) \/ (l.pairs = <<>> /\ IdToken.rest = <<>>)
  <2>1. l.shape = "shipped" \/ l.pairs = <<>>
    BY <1>5 DEF Good
  <2>2. CASE l.shape = "shipped"
    BY <1>3, <2>2 DEF HeadTaken, Pending
  <2>3. CASE l.shape # "shipped"
    BY <1>3, <2>1, <2>3 DEF HeadTaken
  <2> QED BY <2>2, <2>3
<1> QED BY <1>2, <1>3, <1>4, <1>5 DEF HeadTaken

(* A record with the fields of a line is what the line means. *)
LEMMA RecordIsMeaning ==
    ASSUME NEW l, NEW r \in Record, r.name = l.name, r.id = l.id,
           r.pairs = IF kind = "recipes" THEN l.pairs ELSE <<>>
    PROVE  r = Meaning(l)
  BY DEF Meaning, Record

(* The pair the loop is at, with its numbers *)
LEMMA PairAt ==
    ASSUME NEW l \in Line, Good(l), NEW k \in 0 .. Len(l.pairs) - 1, AtPair(l, k)
    PROVE  /\ part # <<>> /\ CountToken.token # <<>>
           /\ WithPair(rec.pairs, Atoi(part) % IdMod, Atoi(CountToken.token) % CountMod)
                = SubSeq(l.pairs, 1, k + 1)
           /\ CountToken.rest = Pending(From(l.pairs, k + 2))
<1> DEFINE ps == l.pairs
           q == From(ps, k + 1)
           p == ps[k + 1]
<1>1. /\ ps \in Seq(Pair) /\ Len(ps) \in Nat /\ k \in Nat /\ k + 1 \in 1 .. Len(ps)
      /\ k + 1 \in 1 .. Len(ps) + 1 /\ k + 1 + 1 = k + 2
  <2>1. ps \in Seq(Pair) /\ Len(ps) \in Nat
    BY LineFields, LenProperties
  <2> QED BY <2>1
<1>2. p \in Pair /\ p.id \in Nat /\ p.count \in Nat
  BY <1>1, ElementOfSeq, PairIsText
<1>3. p.id < IdMod /\ p.count < CountMod
  <2>1. k + 1 \in DOMAIN ps
    BY <1>1, LenProperties
  <2> QED BY <2>1 DEF Good
<1>4. q \in Seq(Pair) /\ q # <<>> /\ q[1] = p /\ Tail(q) = From(ps, k + 2)
  <2> HIDE DEF ps
  <2>1. PICK i \in 1 .. Len(ps) : i = k + 1 /\ i + 1 = k + 2
    BY <1>1
  <2>2. From(ps, i) # <<>> /\ From(ps, i)[1] = ps[i] /\ Tail(From(ps, i)) = From(ps, i + 1)
    BY <1>1, FromFirst
  <2>3. From(ps, i) \in Seq(Pair)
    <3>1. i \in 1 .. Len(ps) + 1
      BY <1>1
    <3> QED BY <1>1, <3>1, FromFirst
  <2> QED BY <2>1, <2>2, <2>3
<1>5. part = <<Number(p.id)>> /\ rest = Counted(q) /\ rec.pairs = SubSeq(ps, 1, k)
  BY DEF AtPair
<1> HIDE DEF ps, q, p
<1>6. CountToken = [token |-> <<Number(p.count)>>, rest |-> Pending(From(ps, k + 2))]
  BY <1>4, <1>5, NextCount DEF CountToken
<1>7. CountToken.token = <<Number(p.count)>> /\ CountToken.rest = Pending(From(ps, k + 2))
  BY <1>6, TokenIs
<1>8. Atoi(part) % IdMod = p.id
  <2>1. Head(part) = Number(p.id)
    BY <1>5
  <2> QED BY <1>2, <1>3, <2>1, NumberIsRead
<1>9. Atoi(CountToken.token) % CountMod = p.count
  <2>1. Head(CountToken.token) = Number(p.count)
    BY <1>7
  <2> QED BY <1>2, <1>3, <2>1, NumberIsRead
<1>10. Append(SubSeq(ps, 1, k), p) = SubSeq(ps, 1, k + 1)
  <2>1. PICK n \in Nat : n = k + 1 /\ n - 1 = k /\ 1 \in 1 .. Len(ps) /\ n \in 1 .. Len(ps)
    BY <1>1
  <2>2. SubSeq(ps, 1, n) = SubSeq(ps, 1, n - 1) \o <<ps[n]>>
    BY <1>1, <2>1, SubSeqRecursiveSecond
  <2>3. SubSeq(ps, 1, k) \in Seq(Pair)
    <3>1. \A i \in 1 .. k : ps[i] \in Pair
      BY <1>1, ElementOfSeq
    <3> QED BY <1>1, <3>1, SubSeqProperties
  <2>4. Append(SubSeq(ps, 1, k), p) = SubSeq(ps, 1, k) \o <<p>>
    BY <1>2, <2>3, AppendIsConcat
  <2> QED BY <2>1, <2>2, <2>4 DEF p
<1>11. [id |-> p.id, count |-> p.count] = p
  BY <1>2 DEF Pair
<1>12. part # <<>> /\ CountToken.token # <<>>
  BY <1>5, <1>7
<1> QED BY <1>5, <1>7, <1>8, <1>9, <1>10, <1>11, <1>12 DEF WithPair, ps

(* The file as it was written does not change, nor what its lines mean. *)
LEMMA LinesStay ==
    ASSUME [Next]_vars
    PROVE  /\ lines' = lines /\ kind' = kind
           /\ AllFit' <=> AllFit
           /\ \A l : (Good(l)' <=> Good(l)) /\ Meaning(l)' = Meaning(l)
<1>1. lines' = lines /\ kind' = kind
  <2>1. CASE ReadLine \/ EndOfFile \/ IngredientCreate \/ RecipeHead \/ HeadIsNull
    BY <2>1 DEF ReadLine, EndOfFile, IngredientCreate, RecipeHead, HeadIsNull
  <2>2. CASE LoopEnds \/ PairHasNoCount \/ AppendPair \/ VlaAppend \/ UNCHANGED vars
    BY <2>2 DEF LoopEnds, PairHasNoCount, AppendPair, VlaAppend, vars
  <2> QED BY <2>1, <2>2 DEF Next
<1>2. AllFit' <=> AllFit
  BY <1>1 DEF AllFit
<1>3. \A l : (Good(l)' <=> Good(l)) /\ Meaning(l)' = Meaning(l)
  BY <1>1 DEF Good, Meaning
<1> QED BY <1>1, <1>2, <1>3

(* What the records of the array mean does not change while they stay. *)
LEMMA RecordsStay ==
    ASSUME [Next]_vars, RecordsAreMeant, used' = used, data' = data
    PROVE  RecordsAreMeant'
  BY LinesStay DEF RecordsAreMeant

LEMMA LinesTypes ==
    ASSUME LinesInv
    PROVE  /\ lines \in Seq(Line) /\ Len(lines) \in Nat /\ used \in Nat /\ used = Len(data)
           /\ rec \in Record /\ data \in Seq(Record)
           /\ used < Len(lines) => used + 1 \in 1 .. Len(lines) /\ lines[used + 1] \in Line
<1>1. lines \in Seq(Line) /\ Len(lines) \in Nat
  BY FilesAreLines, LenProperties DEF LinesInv
<1>2. used \in Nat /\ used = Len(data) /\ rec \in Record /\ data \in Seq(Record)
  BY LenProperties DEF LinesInv, FilesInv
<1>3. used < Len(lines) => used + 1 \in 1 .. Len(lines) /\ lines[used + 1] \in Line
  BY <1>1, <1>2, ElementOfSeq
<1> QED BY <1>1, <1>2, <1>3

(* The next line, as it was written *)
LEMMA NextLine ==
    ASSUME LinesInv, AllFit, pc = "fgets"
    PROVE  /\ used <= Len(lines) /\ (used < Len(lines) <=> file # <<>>)
           /\ file # <<>> =>
                /\ SubSeq(file, 1, FgetsLength(file)) = Text(lines[used + 1])
                /\ SubSeq(file, FgetsLength(file) + 1, Len(file)) = Contents(From(lines, used + 2))
<1>1. used <= Len(lines) /\ file = Contents(From(lines, used + 1))
  BY DEF LinesInv, FileRead
<1>2. CASE used < Len(lines)
  <2>1. used + 1 \in 1 .. Len(lines) /\ FitsBuffer(lines[used + 1]) /\ used + 1 + 1 = used + 2
    <3>1. used + 1 \in DOMAIN lines
      BY <1>2, LinesTypes
    <3> QED BY <1>2, <3>1, LinesTypes DEF AllFit
  <2>2. lines \in Files
    BY DEF LinesInv
  <2>3. PICK i \in 1 .. Len(lines) : i = used + 1 /\ i + 1 = used + 2
    BY <2>1
  <2>4. /\ file # <<>>
        /\ SubSeq(file, 1, FgetsLength(file)) = Text(lines[i])
        /\ SubSeq(file, FgetsLength(file) + 1, Len(file)) = Contents(From(lines, i + 1))
    BY <1>1, <2>1, <2>2, <2>3, LineIsRead
  <2> QED BY <1>1, <1>2, <2>3, <2>4
<1>3. CASE ~ (used < Len(lines))
  <2>1. used = Len(lines)
    BY <1>1, <1>3, LinesTypes
  <2>2. From(lines, used + 1) = <<>>
    BY <2>1, LinesTypes, FromFirst
  <2>3. file = <<>>
    <3>1. <<>> \in Seq(Line)
      BY EmptySeq
    <3> QED BY <1>1, <2>2, <3>1, ContentsAreText
  <2> QED BY <1>1, <1>3, <2>3
<1> QED BY <1>2, <1>3

(* A step on a line keeps its place in the file. *)
LEMMA WorkOnLine ==
    ASSUME LinesInv, AllFit, [Next]_vars, UNCHANGED <<file, array>>,
           pc \in {"create", "loop"}, pc' \in {"loop", "append", "crashed"},
           pc' = "loop" => kind = "recipes",
           ASSUME NEW l \in Line, Good(l), Understood(l) PROVE Understood(l)'
    PROVE  FileRead'
<1>0. /\ lines' = lines /\ kind' = kind /\ \A l : Good(l)' <=> Good(l)
  BY LinesStay
<1>1. FileRead
  BY DEF LinesInv
<1>2. /\ used' = used /\ data' = data /\ file' = file
  BY DEF array
<1>3. RecordsAreMeant'
  BY <1>1, <1>2, RecordsStay DEF FileRead
<1>4. /\ used < Len(lines) /\ file = Contents(From(lines, used + 2))
      /\ \A l \in Line : l = lines[used + 1] /\ Good(l) => Understood(l)
  BY <1>1 DEF FileRead, Understanding
<1>5. \A l \in Line : l = lines'[used' + 1] /\ Good(l)' => Understood(l)'
  BY <1>0, <1>2, <1>4
<1>6. Understanding'
  <2>1. used' < Len(lines') /\ file' = Contents(From(lines', used' + 2))
    BY <1>0, <1>2, <1>4
  <2> QED BY <1>5, <2>1 DEF Understanding
<1> QED BY <1>0, <1>3, <1>6 DEF FileRead

(* Each step on a good line keeps what the parser holds of it. *)
LEMMA IngredientUnderstood ==
    ASSUME LinesInv, IngredientCreate, NEW l \in Line, Good(l), Understood(l)
    PROVE  Understood(l)'
<1>1. pc = "create" /\ kind = "ingredients" /\ pc' = "append" /\ kind' = kind
      /\ rec' = [rec EXCEPT !.name = NameToken.token, !.id = IngredientId]
  BY DEF IngredientCreate
<1>2. rest = Text(l) /\ rec = NoRecord
  BY <1>1 DEF Understood
<1>3. NameToken.token = l.name /\ IngredientId = l.id
  BY <1>2, HeadOfGood DEF IngredientId
<1>4. rec' = [name |-> l.name, id |-> l.id, pairs |-> <<>>]
  BY <1>1, <1>2, <1>3 DEF NoRecord
<1>5. rec' = Meaning(l)'
  BY <1>1, <1>4 DEF Meaning
<1> QED BY <1>1, <1>5 DEF Understood

LEMMA RecipeUnderstood ==
    ASSUME LinesInv, RecipeHead, NEW l \in Line, Good(l), Understood(l)
    PROVE  Understood(l)'
<1>1. pc = "create" /\ kind = "recipes" /\ pc' = "loop"
      /\ rec' = [rec EXCEPT !.name = NameToken.token, !.id = Atoi(IdToken.token) % IdMod]
      /\ part' = PairToken(IdToken.rest).token /\ rest' = PairToken(IdToken.rest).rest
  BY DEF RecipeHead
<1>2. rest = Text(l) /\ rec = NoRecord
  BY <1>1 DEF Understood
<1>3. /\ NameToken.token = l.name /\ Atoi(IdToken.token) % IdMod = l.id
      /\ IdToken.rest = Pending(l.pairs) \/ (l.pairs = <<>> /\ IdToken.rest = <<>>)
  BY <1>1, <1>2, HeadOfGood
<1>4. rec' = [name |-> l.name, id |-> l.id, pairs |-> <<>>]
  BY <1>1, <1>2, <1>3 DEF NoRecord
<1>5. l.pairs \in Seq(Pair) /\ Len(l.pairs) \in Nat
  BY LineFields, LenProperties
<1>8. rec'.name = l.name /\ rec'.id = l.id /\ rec'.pairs = <<>>
  BY <1>4
<1>6. CASE l.pairs = <<>>
  <2>1. rest' = <<>>
    <3>1. CASE IdToken.rest = Pending(l.pairs)
      <4>1. PairToken(IdToken.rest) = [token |-> Newline, rest |-> <<>>]
        BY <1>5, <1>6, <3>1, NextPair
      <4> QED BY <1>1, <4>1, TokenIs
    <3>2. CASE IdToken.rest = <<>>
      <4>1. PairToken(IdToken.rest) = [token |-> <<>>, rest |-> <<>>]
        BY <3>2, StrtokNothing DEF PairToken
      <4> QED BY <1>1, <4>1, TokenIs
    <3> QED BY <1>3, <3>1, <3>2
  <2> QED BY <1>1, <1>6, <1>8, <2>1 DEF Understood
<1>7. CASE l.pairs # <<>>
  <2>1. PairToken(IdToken.rest) = [token |-> <<Number(l.pairs[1].id)>>, rest |-> Counted(l.pairs)]
    BY <1>3, <1>5, <1>7, NextPair
  <2>2. part' = <<Number(l.pairs[1].id)>> /\ rest' = Counted(l.pairs)
    BY <1>1, <2>1, TokenIs
  <2>3. From(l.pairs, 1) = l.pairs
    BY <1>5, FromFirst
  <2>4. SubSeq(l.pairs, 1, 0) = <<>>
    BY SubSeqEmpty
  <2>5. 0 \in 0 .. Len(l.pairs) - 1
    BY <1>5, <1>7, EmptySeq
  <2>6. AtPair(l, 0)'
    BY <1>8, <2>2, <2>3, <2>4 DEF AtPair
  <2> QED BY <1>1, <1>8, <2>5, <2>6 DEF Understood
<1> QED BY <1>6, <1>7

(* The loop stops without another pair only behind the last. *)
LEMMA LoopEndUnderstood ==
    ASSUME LinesInv, kind = "recipes", kind' = kind, pc = "loop", pc' = "append", rec' = rec,
           NEW l \in Line, Good(l), Understood(l), part = <<>> \/ CountToken.token = <<>>
    PROVE  Understood(l)'
<1>1. rec.name = l.name /\ rec.id = l.id /\ rec \in Record
  BY LinesTypes DEF Understood
<1>2. ASSUME NEW k \in 0 .. Len(l.pairs) - 1, AtPair(l, k) PROVE FALSE
  BY <1>2, PairAt
<1>3. l.pairs = <<>> /\ rec.pairs = <<>>
  BY <1>2 DEF Understood
<1>4. rec = Meaning(l)
  BY <1>1, <1>3, RecordIsMeaning
<1>5. rec' = Meaning(l)'
  BY <1>4 DEF Meaning
<1> QED BY <1>5 DEF Understood

LEMMA AppendUnderstood ==
    ASSUME LinesInv, kind = "recipes", kind' = kind, AppendPair,
           NEW l \in Line, Good(l), Understood(l)
    PROVE  Understood(l)'
<1>1. /\ pc = "loop" /\ part # <<>> /\ CountToken.token # <<>>
      /\ rec' = [rec EXCEPT !.pairs =
            WithPair(@, Atoi(part) % IdMod, Atoi(CountToken.token) % CountMod)]
      /\ part' = PairToken(CountToken.rest).token /\ rest' = PairToken(CountToken.rest).rest
      /\ pc' = CASE PairToken(CountToken.rest).token = <<>>          -> "crashed"
                 [] PairToken(CountToken.rest).token = <<Sep("\n")>> -> "append"
                 [] OTHER                                            -> "loop"
  BY DEF AppendPair
<1>2. rec.name = l.name /\ rec.id = l.id /\ rec \in Record /\ rec' \in Record
  <2>1. rec' \in Record
    BY FilesStep DEF LinesInv, FilesInv, Next
  <2> QED BY <1>1, <2>1, LinesTypes DEF Understood
<1>3. rest # <<>>
  <2>1. ASSUME rest = <<>> PROVE FALSE
    <3>1. CountToken = [token |-> <<>>, rest |-> <<>>]
      BY <2>1, StrtokNothing DEF CountToken
    <3>2. CountToken.token = <<>>
      BY <3>1, TokenIs
    <3> QED BY <1>1, <3>2
  <2> QED BY <2>1
<1>4. PICK k \in 0 .. Len(l.pairs) - 1 : AtPair(l, k)
  BY <1>1, <1>3 DEF Understood
<1>5. l.pairs \in Seq(Pair) /\ Len(l.pairs) \in Nat /\ k \in Nat
      /\ k + 2 \in 1 .. Len(l.pairs) + 1
  <2>1. l.pairs \in Seq(Pair) /\ Len(l.pairs) \in Nat
    BY LineFields, LenProperties
  <2> QED BY <2>1
<1> DEFINE more == From(l.pairs, k + 2)
           next == PairToken(CountToken.rest)
<1>6. more \in Seq(Pair)
  BY <1>5, FromFirst
<1>7. rec'.pairs = SubSeq(l.pairs, 1, k + 1) /\ rec'.name = l.name /\ rec'.id = l.id
  <2>1. /\ rec'.pairs = WithPair(rec.pairs, Atoi(part) % IdMod, Atoi(CountToken.token) % CountMod)
        /\ rec'.name = rec.name /\ rec'.id = rec.id
    BY <1>1, <1>2 DEF Record
  <2> QED BY <1>2, <1>4, <2>1, PairAt
<1>8. next = IF more = <<>> THEN [token |-> Newline, rest |-> <<>>]
             ELSE [token |-> <<Number(more[1].id)>>, rest |-> Counted(more)]
  <2>1. CountToken.rest = Pending(more)
    BY <1>4, PairAt
  <2> HIDE DEF more
  <2> QED BY <1>6, <2>1, NextPair
<1>9. CASE k + 2 = Len(l.pairs) + 1
  <2>1. more = <<>>
    BY <1>5, <1>9, FromFirst
  <2>2. next = [token |-> Newline, rest |-> <<>>]
    BY <1>8, <2>1
  <2>3. next.token = <<Sep("\n")>>
    BY <2>2, TokenIs DEF Newline
  <2>4. pc' = "append"
    <3>1. next.token # <<>>
      BY <2>3
    <3> HIDE DEF next
    <3>2. pc' = CASE next.token = <<>>          -> "crashed"
                  [] next.token = <<Sep("\n")>> -> "append"
                  [] OTHER                      -> "loop"
      BY <1>1 DEF next
    <3> QED BY <2>3, <3>1, <3>2
  <2>5. rec'.pairs = l.pairs
    <3>1. k + 1 = Len(l.pairs)
      BY <1>5, <1>9
    <3> QED BY <1>5, <1>7, <3>1, SubSeqFull
  <2>6. rec' = Meaning(l)
    BY <1>2, <1>7, <2>5, RecordIsMeaning
  <2>7. rec' = Meaning(l)'
    BY <2>6 DEF Meaning
  <2> QED BY <2>4, <2>7 DEF Understood
<1>10. CASE k + 2 # Len(l.pairs) + 1
  <2>1. k + 2 \in 1 .. Len(l.pairs) /\ k + 1 \in 0 .. Len(l.pairs) - 1 /\ (k + 1) + 1 = k + 2
    BY <1>5, <1>10
  <2>2. more # <<>> /\ more[1] = l.pairs[k + 2]
    BY <1>5, <2>1, FromFirst, SMTT(30)
  <2>3. next.token = <<Number(l.pairs[k + 2].id)>> /\ next.rest = Counted(more)
    <3>1. next = [token |-> <<Number(more[1].id)>>, rest |-> Counted(more)]
      BY <1>8, <2>2
    <3> HIDE DEF more, next
    <3> QED BY <2>2, <3>1, TokenIs
  <2>4. pc' = "loop"
    <3>1. <<Number(l.pairs[k + 2].id)>> # <<>>
      OBVIOUS
    <3>2. <<Number(l.pairs[k + 2].id)>> # <<Sep("\n")>>
      <4>1. l.pairs[k + 2].id \in Nat
        BY <1>5, <2>1, ElementOfSeq, PairIsText
      <4>2. Number(l.pairs[k + 2].id).kind = "number" /\ Sep("\n").kind = "\n"
        BY <4>1, InlineSymbols DEF Sep
      <4>3. Number(l.pairs[k + 2].id) # Sep("\n")
        BY <4>2
      <4> QED BY <4>3
    <3> HIDE DEF next
    <3>3. pc' = CASE next.token = <<>>          -> "crashed"
                  [] next.token = <<Sep("\n")>> -> "append"
                  [] OTHER                      -> "loop"
      BY <1>1 DEF next
    <3> QED BY <2>3, <3>1, <3>2, <3>3
  <2>5. part' = <<Number(l.pairs[k + 2].id)>> /\ rest' = Counted(From(l.pairs, k + 2))
    BY <1>1, <2>3
  <2>6. PICK j \in 0 .. Len(l.pairs) - 1 : j = k + 1 /\ j + 1 = k + 2
    BY <2>1
  <2>7. AtPair(l, j)'
    BY <1>7, <2>5, <2>6 DEF AtPair
  <2> QED BY <1>7, <2>4, <2>7 DEF Understood
<1> QED BY <1>9, <1>10

LEMMA LinesInit == Init => LinesInv
<1> SUFFICES ASSUME Init PROVE LinesInv
  OBVIOUS
<1>1. lines \in Seq(Line) /\ Len(lines) \in Nat
  BY FilesAreLines, LenProperties DEF Init
<1>2. file = Contents(From(lines, 0 + 1)) /\ used = 0 /\ pc = "fgets"
  BY <1>1, FromFirst DEF Init
<1>3. FileRead
  BY <1>1, <1>2 DEF FileRead, Understanding, RecordsAreMeant
<1> QED BY <1>3, FilesInit DEF Init, LinesInv

LEMMA LinesStep == LinesInv /\ [Next]_vars => LinesInv'
<1> SUFFICES ASSUME LinesInv, [Next]_vars PROVE LinesInv'
  OBVIOUS
<1>1. FilesInv' /\ lines' \in Files
  BY FilesStep, LinesStay DEF LinesInv
<1>2. SUFFICES ASSUME AllFit PROVE FileRead'
  BY <1>1, LinesStay DEF LinesInv
<1>3. /\ lines' = lines /\ kind' = kind
      /\ \A l : (Good(l)' <=> Good(l)) /\ Meaning(l)' = Meaning(l)
  BY LinesStay
<1>4. FileRead
  BY <1>2 DEF LinesInv
<1>5. CASE ReadLine
  <2>1. pc = "fgets" /\ file # <<>> /\ pc' = "create" /\ rec' = NoRecord
        /\ rest' = SubSeq(file, 1, FgetsLength(file))
        /\ file' = SubSeq(file, FgetsLength(file) + 1, Len(file))
        /\ used' = used /\ data' = data
    BY <1>5 DEF ReadLine, NewRecord, array
  <2>2. used < Len(lines) /\ rest' = Text(lines[used + 1]) /\ file' = Contents(From(lines, used + 2))
    BY <1>2, <2>1, NextLine
  <2>3. \A l \in Line : l = lines[used + 1] => Understood(l)'
    BY <2>1, <2>2 DEF Understood
  <2>4. Understanding'
    BY <1>3, <2>1, <2>2, <2>3 DEF Understanding
  <2>5. RecordsAreMeant'
    BY <1>4, <2>1, RecordsStay DEF FileRead
  <2> QED BY <2>1, <2>4, <2>5 DEF FileRead
<1>6. CASE EndOfFile
  <2>1. pc = "fgets" /\ file = <<>> /\ pc' = "done" /\ used' = used /\ data' = data
    BY <1>6 DEF EndOfFile, array
  <2>2. used = Len(lines)
    BY <1>2, <2>1, NextLine, LinesTypes
  <2>3. RecordsAreMeant'
    BY <1>4, <2>1, RecordsStay DEF FileRead
  <2> QED BY <1>3, <2>1, <2>2, <2>3 DEF FileRead, Understanding
<1>7. CASE IngredientCreate
  <2>1. pc = "create" /\ pc' = "append" /\ UNCHANGED <<file, array>>
    BY <1>7 DEF IngredientCreate
  <2> QED BY <1>2, <1>7, <2>1, WorkOnLine, IngredientUnderstood
<1>8. CASE RecipeHead
  <2>1. pc = "create" /\ kind = "recipes" /\ pc' = "loop" /\ UNCHANGED <<file, array>>
    BY <1>8 DEF RecipeHead
  <2> QED BY <1>2, <1>8, <2>1, WorkOnLine, RecipeUnderstood
<1>9. CASE HeadIsNull
  <2>1. pc = "create" /\ pc' = "crashed" /\ UNCHANGED <<file, array>>
        /\ (NameToken.token = <<>> \/ IdToken.token = <<>>)
    BY <1>9 DEF HeadIsNull
  <2>2. ASSUME NEW l \in Line, Good(l), Understood(l) PROVE Understood(l)'
    <3>1. rest = Text(l)
      BY <2>1, <2>2 DEF Understood
    <3>2. NameToken.token # <<>> /\ IdToken.token # <<>>
      BY <2>2, <3>1, HeadOfGood
    <3> QED BY <2>1, <3>2
  <2> QED BY <1>2, <2>1, <2>2, WorkOnLine
<1>10. CASE LoopEnds \/ PairHasNoCount
  <2>1. pc = "loop" /\ pc' = "append" /\ rec' = rec /\ UNCHANGED <<file, array>>
        /\ (part = <<>> \/ CountToken.token = <<>>)
    BY <1>10 DEF LoopEnds, PairHasNoCount
  <2>2. kind = "recipes"
    BY <1>4, <2>1 DEF FileRead
  <2> QED BY <1>2, <1>3, <2>1, <2>2, WorkOnLine, LoopEndUnderstood
<1>11. CASE AppendPair
  <2>1. pc = "loop" /\ pc' \in {"loop", "append", "crashed"} /\ UNCHANGED <<file, array>>
    BY <1>11 DEF AppendPair
  <2>2. kind = "recipes"
    BY <1>4, <2>1 DEF FileRead
  <2> QED BY <1>2, <1>3, <1>11, <2>1, <2>2, WorkOnLine, AppendUnderstood
<1>12. CASE VlaAppend
  <2>1. /\ pc = "append" /\ pc' = "fgets" /\ file' = file
        /\ data' = Append(data, rec) /\ used' = used + 1
    BY <1>12 DEF VlaAppend
  <2>2. /\ used < Len(lines) /\ file = Contents(From(lines, used + 2))
        /\ \A l \in Line : l = lines[used + 1] /\ Good(l) => rec = Meaning(l)
    BY <1>4, <2>1 DEF FileRead, Understanding, Understood
  <2>3. used \in Nat /\ used' \in Nat /\ used' <= Len(lines) /\ used' + 1 = used + 2
    BY <2>1, <2>2, LinesTypes
  <2>4. file' = Contents(From(lines', used' + 1))
    BY <1>3, <2>1, <2>2, <2>3
  <2>5. ASSUME NEW i \in 1 .. used', NEW l \in Line, l = lines[i], Good(l)
        PROVE  data'[i] = Meaning(l)
    <3>1. CASE i = used + 1
      <4>1. data'[i] = rec
        BY <2>1, <3>1, LinesTypes, AppendProperties
      <4> QED BY <2>2, <2>5, <3>1, <4>1
    <3>2. CASE i # used + 1
      <4>1. i \in 1 .. used
        BY <2>1, <2>3, <3>2
      <4>2. data'[i] = data[i]
        BY <2>1, <4>1, LinesTypes, AppendProperties
      <4>3. data[i] = Meaning(l)
        BY <1>4, <2>5, <4>1 DEF FileRead, RecordsAreMeant
      <4> QED BY <4>2, <4>3
    <3> QED BY <3>1, <3>2
  <2>6. RecordsAreMeant'
    BY <1>3, <2>5 DEF RecordsAreMeant
  <2> QED BY <1>3, <2>1, <2>3, <2>4, <2>6 DEF FileRead, Understanding
<1>13. CASE UNCHANGED vars
  <2>1. /\ pc' = pc /\ rest' = rest /\ rec' = rec /\ part' = part /\ file' = file
        /\ used' = used /\ data' = data
    BY <1>13 DEF vars
  <2>2. RecordsAreMeant'
    BY <1>4, <2>1, RecordsStay DEF FileRead
  <2>3. \A l : Understood(l) => Understood(l)'
    BY <1>3, <2>1 DEF Understood, AtPair
  <2>4. Understanding'
    BY <1>3, <1>4, <2>1, <2>3 DEF FileRead, Understanding
  <2> QED BY <1>3, <1>4, <2>1, <2>2, <2>4 DEF FileRead
<1> QED BY <1>5, <1>6, <1>7, <1>8, <1>9, <1>10, <1>11, <1>12, <1>13 DEF Next

LEMMA LinesAlone == LinesInv => EachLineAlone
<1> SUFFICES ASSUME LinesInv, AllFit PROVE (pc = "done" => used = Len(lines))
                /\ \A i \in 1 .. used : Good(lines[i]) => data[i] = Meaning(lines[i])
  BY DEF EachLineAlone, AllFit
<1>1. FileRead
  BY DEF LinesInv
<1>2. used <= Len(lines)
  <2>1. pc \in {"fgets", "create", "loop", "append", "done", "crashed"}
    BY DEF LinesInv, FilesInv
  <2> QED BY <1>1, <2>1, LinesTypes DEF FileRead, Understanding
<1>3. ASSUME NEW i \in 1 .. used, Good(lines[i]) PROVE data[i] = Meaning(lines[i])
  <2>1. lines[i] \in Line
    <3>1. i \in 1 .. Len(lines)
      BY <1>2, LinesTypes
    <3> QED BY <3>1, LinesTypes, ElementOfSeq
  <2> QED BY <1>1, <1>3, <2>1 DEF FileRead, RecordsAreMeant
<1> QED BY <1>1, <1>3 DEF FileRead

LEMMA GoodFits == AllGood => AllFit
  BY DEF AllGood, AllFit, Good

LEMMA GoodLoad == LinesInv => GoodFilesLoad
<1> SUFFICES ASSUME LinesInv, AllGood, pc = "crashed" PROVE FALSE
  BY DEF GoodFilesLoad
<1>1. FileRead
  BY GoodFits DEF LinesInv
<1>2. used < Len(lines) /\ \A l \in Line : l = lines[used + 1] /\ Good(l) => Understood(l)
  BY <1>1 DEF FileRead, Understanding
<1>3. lines[used + 1] \in Line /\ Good(lines[used + 1])
  <2>1. used + 1 \in 1 .. Len(lines) /\ lines[used + 1] \in Line
    BY <1>2, LinesTypes
  <2>2. used + 1 \in DOMAIN lines
    BY <2>1, LinesTypes, LenProperties
  <2> QED BY <2>1, <2>2 DEF AllGood
<1> QED BY <1>2, <1>3 DEF Understood

LEMMA FoundWritten == LinesInv => FoundAsWritten
<1> SUFFICES ASSUME LinesInv, pc = "done", AllGood, NEW i \in DOMAIN lines,
                    \A j \in 1 .. i - 1 : lines[j].id # lines[i].id
             PROVE  ById(lines[i].id) = i
  BY DEF FoundAsWritten
<1>1. used = Len(lines) /\ Len(data) = Len(lines) /\ Len(lines) \in Nat /\ i \in 1 .. Len(lines)
  <2>1. FileRead
    BY GoodFits DEF LinesInv
  <2> QED BY <2>1, LinesTypes, LenProperties DEF FileRead
<1>2. \A j \in 1 .. Len(lines) : data[j].id = lines[j].id
  <2>1. SUFFICES ASSUME NEW j \in 1 .. Len(lines) PROVE data[j].id = lines[j].id
    OBVIOUS
  <2>2. Good(lines[j])
    <3>1. j \in DOMAIN lines
      BY LinesTypes, LenProperties
    <3> QED BY <3>1 DEF AllGood
  <2>3. data[j] = Meaning(lines[j])
    BY <1>1, <2>2, LinesAlone, GoodFits DEF EachLineAlone, AllFit
  <2> QED BY <2>3 DEF Meaning
<1> DEFINE id == lines[i].id
           I == {j \in 1 .. Len(data) : data[j].id = id}
<1>3. ById(id) = IF I # {} THEN Min(I) ELSE 0
  BY DEF ById, SelectInSeq
<1>4. /\ i \in I /\ I \in SUBSET Nat
      /\ \A j \in I : j \in Nat /\ i <= j
  <2>1. i \in I /\ I \in SUBSET Nat
    BY <1>1, <1>2
  <2>2. ASSUME NEW j \in I PROVE j \in Nat /\ i <= j
    <3>1. j \in 1 .. Len(lines) /\ lines[j].id = id
      BY <1>1, <1>2
    <3>2. j \notin 1 .. i - 1
      BY <3>1
    <3> QED BY <1>1, <3>1, <3>2
  <2> QED BY <2>1, <2>2
<1> HIDE DEF I, id
<1>5. Min(I) \in I /\ Min(I) <= i
  BY <1>4, FirstExists
<1>6. Min(I) = i
  <2>1. i \in Nat
    BY <1>4
  <2> QED BY <1>4, <1>5, <2>1
<1> QED BY <1>3, <1>4, <1>6 DEF id

(* A line that fits the buffer makes one record, and that of a good line is *)
(* what was written, whatever the lines before it left in the parser, the   *)
(* record and the array (drinks.c:82).                                      *)
THEOREM LinesAreAlone == Spec => []EachLineAlone
<1> QED BY LinesInit, LinesStep, LinesAlone, PTL DEF Spec

(* No unchecked NULL of strtok is met in a file of good lines.              *)
THEOREM GoodFilesAreLoaded == Spec => []GoodFilesLoad
<1> QED BY LinesInit, LinesStep, GoodLoad, PTL DEF Spec

(* The record an id stands for is the first that was written with it        *)
(* (drinks.c:134,184).                                                      *)
THEOREM RecordsAreFound == Spec => []FoundAsWritten
<1> QED BY LinesInit, LinesStep, FoundWritten, PTL DEF Spec

================================================================================
