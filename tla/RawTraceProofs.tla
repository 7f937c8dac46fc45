--------------------------- MODULE RawTraceProofs ---------------------------
(* Machine-checked proofs about RawTrace, for every width and messages of  *)
(* any length: one more character changes the parts and pieces RawTrace    *)
(* cuts as it changes what the terminal shows.                             *)
EXTENDS RawTrace, TextProofs, SequenceTheorems

(* Induction along an interval, on the set of the places where something   *)
(* holds.                                                                  *)
LEMMA Counting ==
  ASSUME NEW P, NEW lo \in Nat, NEW hi \in Nat, lo <= hi => lo \in P,
         \A n \in lo + 1 .. hi : n - 1 \in P => n \in P
  PROVE  \A n \in lo .. hi : n \in P
<1> DEFINE Wrong == {n \in lo .. hi : n \notin P}
<1>1. SUFFICES ASSUME Wrong # {} PROVE FALSE
  OBVIOUS
<1>2. Wrong \subseteq Nat
  OBVIOUS
<1>3. PICK m \in Wrong : \A n \in Wrong : m <= n
  BY <1>1, <1>2, LeastNumber
<1>4. m # lo /\ m \in lo + 1 .. hi /\ m - 1 \in lo .. hi
  BY <1>3
<1>5. m - 1 \in P
  BY <1>3, <1>4
<1>6. QED
  BY <1>3, <1>4, <1>5

(* f[i] is what the first i sequences of ss make together.                 *)
Flattens(f, ss) ==
  f = [i \in 1 .. Len(ss) |-> IF i = 1 THEN ss[i] ELSE f[i - 1] \o ss[i]]

(* FlattenSeq is the last value of a function that does so; there is but   *)
(* one.                                                                    *)
LEMMA FlattensUnique ==
  ASSUME NEW A, NEW ss \in Seq(A), NEW f, Flattens(f, ss), ss # <<>>
  PROVE  FlattenSeq(ss) = f[Len(ss)]
<1> DEFINE flatten == CHOOSE h : h = [i \in 1 .. Len(ss) |->
                        IF i = 1 THEN ss[i] ELSE h[i - 1] \o ss[i]]
<1>1. Len(ss) \in Nat /\ Len(ss) # 0
  OBVIOUS
<1>2. FlattenSeq(ss) = flatten[Len(ss)]
  BY <1>1 DEF FlattenSeq
<1>3. flatten = [i \in 1 .. Len(ss) |->
                   IF i = 1 THEN ss[i] ELSE flatten[i - 1] \o ss[i]]
  BY Zenon DEF Flattens
<1>4. f = [i \in 1 .. Len(ss) |-> IF i = 1 THEN ss[i] ELSE f[i - 1] \o ss[i]]
  BY DEF Flattens
<1> HIDE DEF flatten
<1> DEFINE P == {n \in 1 .. Len(ss) : flatten[n] = f[n]}
<1>5. 1 \in P
  <2>1. 1 \in 1 .. Len(ss)
    BY <1>1
  <2>2. flatten[1] = ss[1]
    BY <1>3, <2>1, Zenon
  <2>3. f[1] = ss[1]
    BY <1>4, <2>1, Zenon
  <2>4. QED
    BY <2>1, <2>2, <2>3
<1>6. ASSUME NEW n \in 1 + 1 .. Len(ss), n - 1 \in P
      PROVE  n \in P
  <2>1. n \in 1 .. Len(ss) /\ n # 1
    BY <1>1
  <2>2. flatten[n] = flatten[n - 1] \o ss[n]
    BY <1>3, <2>1, Zenon
  <2>3. f[n] = f[n - 1] \o ss[n]
    BY <1>4, <2>1, Zenon
  <2>4. QED
    BY <1>6, <2>1, <2>2, <2>3
<1>7. \A n \in 1 .. Len(ss) : n \in P
  <2> HIDE DEF P
  <2>1. QED
    BY <1>1, <1>5, <1>6, Counting
<1>8. QED
  BY <1>1, <1>2, <1>7

(* Such a function goes on with one more sequence.                         *)
LEMMA FlattensAppend ==
  ASSUME NEW S, NEW ss \in Seq(Seq(S)), NEW s \in Seq(S),
         NEW f \in [1 .. Len(ss) -> Seq(S)], Flattens(f, ss)
  PROVE  \E h \in [1 .. Len(ss) + 1 -> Seq(S)] :
            /\ Flattens(h, Append(ss, s))
            /\ h[Len(ss) + 1] = IF ss = <<>> THEN s ELSE f[Len(ss)] \o s
<1> DEFINE L == Len(ss)
           last == IF ss = <<>> THEN s ELSE f[L] \o s
           h == [i \in 1 .. L + 1 |-> IF i = L + 1 THEN last ELSE f[i]]
<1>1. L \in Nat /\ (ss = <<>> <=> L = 0)
  OBVIOUS
<1>2. last \in Seq(S)
  BY <1>1
<1>3. Len(Append(ss, s)) = L + 1 /\ Append(ss, s)[L + 1] = s
      /\ \A i \in 1 .. L : Append(ss, s)[i] = ss[i]
  OBVIOUS
<1>4. \A i \in 1 .. L : f[i] = IF i = 1 THEN ss[i] ELSE f[i - 1] \o ss[i]
  BY DEF Flattens
<1>5. h \in [1 .. L + 1 -> Seq(S)]
  BY <1>1, <1>2
<1>6. ASSUME NEW i \in 1 .. L + 1
      PROVE  h[i] = IF i = 1 THEN Append(ss, s)[i] ELSE h[i - 1] \o Append(ss, s)[i]
  <2>1. CASE i = L + 1
    BY <1>1, <1>3, <2>1
  <2>2. CASE i # L + 1
    <3>1. i \in 1 .. L /\ i - 1 # L + 1 /\ (i # 1 => i - 1 \in 1 .. L + 1)
      BY <1>1, <2>2
    <3>2. \A j \in 1 .. L : h[j] = f[j]
      BY <1>1
    <3>3. i # 1 => i - 1 \in 1 .. L
      BY <1>1, <3>1
    <3> HIDE DEF h
    <3>4. h[i] = f[i] /\ (i # 1 => h[i - 1] = f[i - 1])
      BY <3>1, <3>2, <3>3
    <3>5. QED
      BY <1>3, <1>4, <3>1, <3>4
  <2>3. QED
    BY <2>1, <2>2
<1>7. h = [i \in 1 .. L + 1 |->
             IF i = 1 THEN Append(ss, s)[i] ELSE h[i - 1] \o Append(ss, s)[i]]
  <2>1. h = [i \in 1 .. L + 1 |-> h[i]]
    BY <1>5
  <2> HIDE DEF h
  <2>2. QED
    BY <1>6, <2>1, Zenon
<1>8. h[L + 1] = last
  BY <1>1
<1>9. QED
  BY <1>3, <1>5, <1>7, <1>8 DEF Flattens

(* There is such a function for every sequence of sequences.               *)
LEMMA FlattensExists ==
  ASSUME NEW S, NEW ss \in Seq(Seq(S))
  PROVE  \E f \in [1 .. Len(ss) -> Seq(S)] : Flattens(f, ss)
<1> DEFINE cut(n) == [i \in 1 .. n |-> ss[i]]
           P == {n \in 0 .. Len(ss) :
                   \E f \in [1 .. n -> Seq(S)] : Flattens(f, cut(n))}
<1>1. Len(ss) \in Nat
  OBVIOUS
<1>2. \A n \in 0 .. Len(ss) : cut(n) \in Seq(Seq(S)) /\ Len(cut(n)) = n
  BY <1>1
<1>3. 0 \in P
  <2>1. Flattens([i \in 1 .. 0 |-> <<>>], cut(0))
    BY <1>1, <1>2 DEF Flattens
  <2>2. [i \in 1 .. 0 |-> <<>>] \in [1 .. 0 -> Seq(S)]
    OBVIOUS
  <2>3. 0 \in 0 .. Len(ss)
    BY <1>1
  <2>4. QED
    BY <2>1, <2>2, <2>3, Zenon
<1>4. ASSUME NEW n \in 0 + 1 .. Len(ss), n - 1 \in P
      PROVE  n \in P
  <2>1. n \in 0 .. Len(ss) /\ n - 1 \in 0 .. Len(ss) /\ (n - 1) + 1 = n
    BY <1>1
  <2>2. cut(n) = Append(cut(n - 1), ss[n])
    BY <1>1, <1>2, <2>1
  <2>3. ss[n] \in Seq(S)
    BY <1>1
  <2>4. PICK f \in [1 .. n - 1 -> Seq(S)] : Flattens(f, cut(n - 1))
    BY <1>4
  <2>5. cut(n - 1) \in Seq(Seq(S)) /\ Len(cut(n - 1)) = n - 1
    BY <1>2, <2>1
  <2> HIDE DEF cut
  <2>6. \E h \in [1 .. n -> Seq(S)] : Flattens(h, Append(cut(n - 1), ss[n]))
    BY <2>1, <2>3, <2>4, <2>5, FlattensAppend, ZenonT(40)
  <2>7. QED
    BY <2>1, <2>2, <2>6
<1>5. Len(ss) \in P
  <2> HIDE DEF P
  <2>1. \A n \in 0 .. Len(ss) : n \in P
    BY <1>1, <1>3, <1>4, Counting
  <2>2. QED
    BY <1>1, <2>1
<1>6. cut(Len(ss)) = ss
  BY <1>1, <1>2
<1> HIDE DEF cut
<1>7. QED
  BY <1>5, <1>6

(* FlattenSeq makes one sequence of many.                                  *)
LEMMA FlattenType ==
  ASSUME NEW S, NEW ss \in Seq(Seq(S))
  PROVE  FlattenSeq(ss) \in Seq(S)
<1>1. CASE ss = <<>>
  BY <1>1 DEF FlattenSeq
<1>2. CASE ss # <<>>
  <2>1. PICK f \in [1 .. Len(ss) -> Seq(S)] : Flattens(f, ss)
    BY FlattensExists
  <2>2. FlattenSeq(ss) = f[Len(ss)]
    BY <1>2, <2>1, FlattensUnique
  <2>3. Len(ss) \in 1 .. Len(ss)
    BY <1>2
  <2>4. QED
    BY <2>2, <2>3
<1>3. QED
  BY <1>1, <1>2

(* One more sequence comes behind the others.                              *)
LEMMA FlattenAppend ==
  ASSUME NEW S, NEW ss \in Seq(Seq(S)), NEW s \in Seq(S)
  PROVE  FlattenSeq(Append(ss, s)) = FlattenSeq(ss) \o s
<1>1. PICK f \in [1 .. Len(ss) -> Seq(S)] : Flattens(f, ss)
  BY FlattensExists
<1>2. PICK h \in [1 .. Len(ss) + 1 -> Seq(S)] :
            /\ Flattens(h, Append(ss, s))
            /\ h[Len(ss) + 1] = IF ss = <<>> THEN s ELSE f[Len(ss)] \o s
  BY <1>1, FlattensAppend, SMTT(30)
<1>3. Append(ss, s) \in Seq(Seq(S)) /\ Append(ss, s) # <<>>
      /\ Len(Append(ss, s)) = Len(ss) + 1
  OBVIOUS
<1>4. FlattenSeq(Append(ss, s)) = h[Len(ss) + 1]
  BY <1>2, <1>3, FlattensUnique
<1>5. CASE ss = <<>>
  <2>1. FlattenSeq(ss) = <<>>
    BY <1>5 DEF FlattenSeq
  <2>2. QED
    BY <1>2, <1>4, <1>5, <2>1
<1>6. CASE ss # <<>>
  BY <1>1, <1>2, <1>4, <1>6, FlattensUnique
<1>7. QED
  BY <1>5, <1>6

-----------------------------------------------------------------------------
(* The parts of a message between its newlines.                            *)

(* absl::SkipEmpty() leaves a list of pieces.                              *)
LEMMA SkipEmptyType ==
  ASSUME NEW S, NEW ps \in Seq(Seq(S))
  PROVE  SkipEmpty(ps) \in Seq(Seq(S))
<1> DEFINE kept == [n \in DOMAIN ps |-> IF ps[n] = <<>> THEN <<>> ELSE <<ps[n]>>]
<1>1. kept \in Seq(Seq(Seq(S)))
  <2>1. \A n \in 1 .. Len(ps) : kept[n] \in Seq(Seq(S))
    OBVIOUS
  <2>2. kept = [n \in 1 .. Len(ps) |-> kept[n]]
    OBVIOUS
  <2> HIDE DEF kept
  <2>3. Len(ps) \in Nat
    OBVIOUS
  <2>4. QED
    BY <2>1, <2>2, <2>3
<1> HIDE DEF kept
<1>2. FlattenSeq(kept) \in Seq(Seq(S))
  BY <1>1, FlattenType
<1>3. QED
  BY <1>2 DEF SkipEmpty, kept

(* One more piece is dropped if it is empty and comes behind the others if *)
(* it is not.                                                              *)
LEMMA SkipEmptyAppend ==
  ASSUME NEW S, NEW ps \in Seq(Seq(S)), NEW p \in Seq(S)
  PROVE  SkipEmpty(Append(ps, p)) =
           IF p = <<>> THEN SkipEmpty(ps) ELSE Append(SkipEmpty(ps), p)
<1> DEFINE kept(s) == [n \in DOMAIN s |-> IF s[n] = <<>> THEN <<>> ELSE <<s[n]>>]
           one == IF p = <<>> THEN <<>> ELSE <<p>>
<1>1. kept(ps) \in Seq(Seq(Seq(S)))
  <2>1. \A n \in 1 .. Len(ps) : kept(ps)[n] \in Seq(Seq(S))
    OBVIOUS
  <2>2. kept(ps) = [n \in 1 .. Len(ps) |-> kept(ps)[n]]
    OBVIOUS
  <2> HIDE DEF kept
  <2>3. Len(ps) \in Nat
    OBVIOUS
  <2>4. QED
    BY <2>1, <2>2, <2>3
<1>2. one \in Seq(Seq(S))
  OBVIOUS
<1>3. kept(Append(ps, p)) = Append(kept(ps), one)
  OBVIOUS
<1>4. SkipEmpty(ps) = FlattenSeq(kept(ps))
      /\ SkipEmpty(Append(ps, p)) = FlattenSeq(kept(Append(ps, p)))
  BY DEF SkipEmpty
<1>5. SkipEmpty(ps) \in Seq(Seq(S))
  BY SkipEmptyType
<1> HIDE DEF kept
<1>6. SkipEmpty(Append(ps, p)) = SkipEmpty(ps) \o one
  <2> HIDE DEF one
  <2>1. FlattenSeq(Append(kept(ps), one)) = FlattenSeq(kept(ps)) \o one
    BY <1>1, <1>2, FlattenAppend
  <2>2. QED
    BY <1>3, <1>4, <2>1
<1>7. QED
  BY <1>5, <1>6

(* How many elements of B there are up to i.                               *)
Rank(B, i) == Cardinality({j \in B : j <= i})

(* The n-th element of B.                                                  *)
Nth(B, n) == CHOOSE i \in B : Rank(B, i) = n

(* A greater element has a greater rank.                                   *)
LEMMA RankGrows ==
  ASSUME NEW B, IsFiniteSet(B), B \subseteq Nat,
         NEW i \in B, NEW k \in B, i < k
  PROVE  Rank(B, i) \in Nat /\ Rank(B, k) \in Nat /\ Rank(B, i) < Rank(B, k)
<1> DEFINE low == {j \in B : j <= i}
           high == {j \in B : j <= k}
<1>1. IsFiniteSet(high) /\ IsFiniteSet(low)
  BY FS_Subset
<1>2. low \in SUBSET high /\ low # high
  <2>1. \A j \in B : j <= i => j <= k
    OBVIOUS
  <2>2. k \in high /\ k \notin low
    OBVIOUS
  <2>3. QED
    BY <2>1, <2>2
<1> HIDE DEF low, high
<1>3. Cardinality(low) \in Nat /\ Cardinality(high) \in Nat
  BY <1>1, FS_CardinalityType
<1>4. Cardinality(low) <= Cardinality(high) /\ Cardinality(low) # Cardinality(high)
  BY <1>1, <1>2, FS_Subset
<1>5. QED
  BY <1>3, <1>4 DEF Rank, low, high

(* The element of a rank is the only one that has it.                      *)
LEMMA NthIs ==
  ASSUME NEW B, IsFiniteSet(B), B \subseteq Nat, NEW i \in B
  PROVE  Nth(B, Rank(B, i)) = i
<1>1. ASSUME NEW k \in B, Rank(B, k) = Rank(B, i)
      PROVE  k = i
  <2>1. k \in Nat /\ i \in Nat
    OBVIOUS
  <2>2. i < k => Rank(B, i) \in Nat /\ Rank(B, k) \in Nat /\ Rank(B, i) < Rank(B, k)
    BY RankGrows
  <2>3. k < i => Rank(B, i) \in Nat /\ Rank(B, k) \in Nat /\ Rank(B, k) < Rank(B, i)
    BY RankGrows
  <2>4. QED
    BY <1>1, <2>1, <2>2, <2>3
<1>2. QED
  BY <1>1 DEF Nth

(* There is an element of each rank: the least number up to which there    *)
(* are so many.                                                            *)
LEMMA NthExists ==
  ASSUME NEW B, NEW top \in Nat, B \subseteq 0 .. top, 0 \in B,
         NEW n \in 1 .. Cardinality(B)
  PROVE  \E i \in B : Rank(B, i) = n
<1>1. IsFiniteSet(B)
  <2>1. IsFiniteSet(0 .. top)
    BY FS_Interval
  <2>2. B \in SUBSET (0 .. top)
    OBVIOUS
  <2>3. QED
    BY <2>1, <2>2, FS_Subset
<1>0. \A j \in B : j \in Nat /\ j <= top
  OBVIOUS
<1>2. Cardinality(B) \in Nat
  BY <1>1, FS_CardinalityType
<1>3. \A i \in Nat : Rank(B, i) \in Nat
  BY <1>1, FS_Subset, FS_CardinalityType DEF Rank
<1>4. Rank(B, top) = Cardinality(B)
  <2>1. {j \in B : j <= top} = B
    BY <1>0
  <2>2. QED
    BY <2>1 DEF Rank
<1> DEFINE T == {i \in Nat : Rank(B, i) >= n}
<1>5. top \in T
  BY <1>2, <1>4
<1>6. PICK i \in T : \A k \in T : i <= k
  BY <1>5, LeastNumber
<1>7. CASE i = 0
  <2>1. {j \in B : j <= 0} = {0}
    <3>1. \A j \in B : j <= 0 <=> j = 0
      BY <1>0
    <3>2. QED
      BY <3>1
  <2>2. Rank(B, 0) = 1
    BY <2>1, FS_Singleton DEF Rank
  <2>3. QED
    BY <1>2, <1>6, <1>7, <2>2
<1>8. CASE i # 0
  <2>1. i \in Nat /\ i - 1 \in Nat /\ ~(i <= i - 1)
    BY <1>6, <1>8
  <2>2. i - 1 \notin T
    BY <1>6, <2>1
  <2>3. Rank(B, i - 1) < n
    BY <1>2, <1>3, <2>1, <2>2
  <2> DEFINE below == {j \in B : j <= i - 1}
  <2>4. IsFiniteSet(below)
    BY <1>1, FS_Subset
  <2>5. {j \in B : j <= i} = IF i \in B THEN below \cup {i} ELSE below
    <3>1. \A j \in B : j <= i <=> j <= i - 1 \/ j = i
      BY <1>0, <2>1
    <3>2. QED
      BY <3>1
  <2>6. i \notin below /\ Cardinality(below) = Rank(B, i - 1)
    BY <2>1 DEF Rank
  <2> HIDE DEF below
  <2>7. Cardinality(below \cup {i}) = Rank(B, i - 1) + 1
    BY <2>4, <2>6, FS_AddElement
  <2>8. Rank(B, i) = IF i \in B THEN Rank(B, i - 1) + 1 ELSE Rank(B, i - 1)
    BY <2>5, <2>6, <2>7 DEF Rank
  <2>9. Rank(B, i) >= n
    BY <1>6
  <2>10. QED
    BY <1>2, <1>3, <2>1, <2>3, <2>8, <2>9
<1>9. QED
  BY <1>7, <1>8

(* A rank depends on the elements below only.                              *)
LEMMA RankBelow ==
  ASSUME NEW B, NEW C, NEW i \in Nat,
         \A j \in Nat : j <= i => (j \in B <=> j \in C),
         B \subseteq Nat, C \subseteq Nat
  PROVE  Rank(B, i) = Rank(C, i)
<1>1. {j \in B : j <= i} = {j \in C : j <= i}
  OBVIOUS
<1>2. QED
  BY <1>1 DEF Rank

(* The greatest element is the last.                                       *)
LEMMA RankTop ==
  ASSUME NEW B, IsFiniteSet(B), B \subseteq Nat, NEW i \in B, \A j \in B : j <= i
  PROVE  Nth(B, Cardinality(B)) = i
<1>1. {j \in B : j <= i} = B
  OBVIOUS
<1>2. Rank(B, i) = Cardinality(B)
  BY <1>1 DEF Rank
<1>3. QED
  BY <1>2, NthIs

(* Further elements behind the others keep the places of these.            *)
LEMMA NthKept ==
  ASSUME NEW B, NEW top \in Nat, B \subseteq 0 .. top, 0 \in B,
         NEW C \in SUBSET Nat, IsFiniteSet(C), B \subseteq C,
         \A j \in C : j <= top => j \in B,
         NEW n \in 1 .. Cardinality(B)
  PROVE  Nth(C, n) = Nth(B, n) /\ Nth(B, n) \in B
<1>1. IsFiniteSet(B) /\ B \subseteq Nat
  BY FS_Interval, FS_Subset
<1>2. PICK i \in B : Rank(B, i) = n
  BY NthExists
<1>3. Rank(C, i) = n
  <2>1. \A j \in Nat : j <= i => (j \in B <=> j \in C)
    OBVIOUS
  <2>2. QED
    BY <1>1, <1>2, <2>1, RankBelow
<1>4. Nth(B, n) = i
  BY <1>1, <1>2, NthIs
<1>5. Nth(C, n) = i
  BY <1>2, <1>3, NthIs
<1>6. QED
  BY <1>4, <1>5

(* One more character changes no piece that ends before it.                *)
LEMMA SubSeqInside ==
  ASSUME NEW S, NEW m \in Seq(S), NEW c \in S,
         NEW a \in Nat \ {0}, NEW b \in Int, b <= Len(m)
  PROVE  /\ SubSeq(Append(m, c), a, b) = SubSeq(m, a, b)
         /\ SubSeq(m, a, b) \in Seq(S)
<1>1. Len(m) \in Nat /\ \A i \in a .. b : i \in 1 .. Len(m)
  OBVIOUS
<1>2. \A i \in a .. b : m[i] \in S /\ Append(m, c)[i] = m[i]
  BY <1>1
<1>3. SubSeq(m, a, b) \in Seq(S)
  BY <1>2, SubSeqProperties
<1>4. SubSeq(Append(m, c), a, b) = SubSeq(m, a, b)
  BY <1>1, <1>2
<1>5. QED
  BY <1>3, <1>4

(* One more character is the last of the piece that goes to the end.       *)
LEMMA SubSeqToEnd ==
  ASSUME NEW S, NEW m \in Seq(S), NEW c \in S, NEW a \in 1 .. Len(m) + 1
  PROVE  SubSeq(Append(m, c), a, Len(m) + 1) = Append(SubSeq(m, a, Len(m)), c)
<1> DEFINE L == Len(m)
           k == SubSeq(m, a, L)
           k1 == SubSeq(Append(m, c), a, L + 1)
<1>1. L \in Nat /\ \A i \in a .. L : i \in 1 .. L /\ m[i] \in S
  OBVIOUS
<1>2. k \in Seq(S) /\ Len(k) = L - a + 1 /\ \A i \in 1 .. L - a + 1 : k[i] = m[a + i - 1]
  BY <1>1, SubSeqProperties
<1>3. \A i \in a .. L + 1 : Append(m, c)[i] = (IF i = L + 1 THEN c ELSE m[i])
                            /\ Append(m, c)[i] \in S
  BY <1>1
<1>4. k1 \in Seq(S) /\ Len(k1) = L - a + 2
      /\ \A i \in 1 .. L - a + 2 : k1[i] = Append(m, c)[a + i - 1]
  BY <1>1, <1>3, SubSeqProperties
<1> DEFINE K == L - a + 1
<1>5. K \in Nat /\ a + K = L + 1 /\ Len(k) = K /\ Len(k1) = K + 1
  BY <1>1, <1>2, <1>4
<1>6. \A i \in 1 .. K : k[i] = m[a + i - 1] /\ k1[i] = Append(m, c)[a + i - 1]
                         /\ a + i - 1 \in a .. L
  BY <1>1, <1>2, <1>4
<1>7. k1[K + 1] = c
  <2>1. K + 1 \in 1 .. L - a + 2 /\ a + (K + 1) - 1 = L + 1 /\ L + 1 \in a .. L + 1
    BY <1>1
  <2>2. QED
    BY <1>3, <1>4, <2>1
<1> HIDE DEF k, k1, K
<1>8. \A i \in 1 .. K : k1[i] = k[i]
  BY <1>1, <1>3, <1>6
<1>9. k1 = Append(k, c)
  BY <1>2, <1>4, <1>5, <1>7, <1>8
<1>10. QED
  BY <1>9 DEF k, k1

(* The definitions inside Parts: where the message is broken, and the      *)
(* parts between the breaks, empty ones included.                          *)
Breaks(m) == {0, Len(m) + 1} \cup {i \in DOMAIN m : m[i] = Newline}

Raw(m) == [n \in 1 .. Cardinality(Breaks(m)) - 1 |->
             SubSeq(m, Nth(Breaks(m), n) + 1, Nth(Breaks(m), n + 1) - 1)]

(* The breaks parts begin behind: all but the last.                        *)
Starts(m) == {0} \cup {i \in DOMAIN m : m[i] = Newline}

(* Parts drops the empty ones of them.                                     *)
LEMMA PartsRaw == ASSUME NEW m PROVE Parts(m) = SkipEmpty(Raw(m))
BY DEF Parts, Raw, Breaks, Nth, Rank

(* There are finitely many, and the first part begins at the beginning.    *)
LEMMA StartsType ==
  ASSUME NEW S, NEW m \in Seq(S)
  PROVE  /\ Starts(m) \subseteq 0 .. Len(m)
         /\ 0 \in Starts(m)
         /\ IsFiniteSet(Starts(m))
         /\ Cardinality(Starts(m)) \in Nat \ {0}
<1>1. Starts(m) \in SUBSET (0 .. Len(m)) /\ 0 \in Starts(m)
  BY DEF Starts
<1>2. IsFiniteSet(0 .. Len(m))
  BY FS_Interval
<1>3. IsFiniteSet(Starts(m))
  BY <1>1, <1>2, FS_Subset
<1>4. Cardinality(Starts(m)) \in Nat /\ Cardinality(Starts(m)) # 0
  BY <1>1, <1>3, FS_CardinalityType, FS_EmptySet
<1>5. QED
  BY <1>1, <1>3, <1>4

(* A part goes up to where the next one begins, the last one to the end.   *)
LEMMA RawIs ==
  ASSUME NEW S, NEW m \in Seq(S)
  PROVE  Raw(m) = [n \in 1 .. Cardinality(Starts(m)) |->
                     SubSeq(m, Nth(Starts(m), n) + 1,
                            IF n = Cardinality(Starts(m)) THEN Len(m)
                            ELSE Nth(Starts(m), n + 1) - 1)]
<1> DEFINE L == Len(m)
           b == Cardinality(Starts(m))
<1>1. L \in Nat
  OBVIOUS
<1>2. Starts(m) \subseteq 0 .. L /\ 0 \in Starts(m) /\ IsFiniteSet(Starts(m))
      /\ b \in Nat \ {0}
  BY StartsType
<1>3. Breaks(m) = Starts(m) \cup {L + 1}
  BY DEF Breaks, Starts
<1>4. L + 1 \notin Starts(m)
  BY <1>1, <1>2
<1>5. IsFiniteSet(Breaks(m)) /\ Cardinality(Breaks(m)) = b + 1
  BY <1>2, <1>3, <1>4, FS_AddElement
<1>6. \A j \in Breaks(m) : j \in Nat /\ j <= L + 1 /\ (j <= L => j \in Starts(m))
  BY <1>1, <1>2, <1>3
<1>7. Breaks(m) \in SUBSET Nat /\ L + 1 \in Breaks(m) /\ Starts(m) \subseteq Breaks(m)
  BY <1>3, <1>6
<1> HIDE DEF L, b
<1>8. Nth(Breaks(m), b + 1) = L + 1
  BY <1>5, <1>6, <1>7, RankTop
<1>9. \A n \in 1 .. b : Nth(Breaks(m), n) = Nth(Starts(m), n)
  BY <1>1, <1>2, <1>5, <1>6, <1>7, NthKept DEF b
<1>10. \A n \in 1 .. b : SubSeq(m, Nth(Breaks(m), n) + 1, Nth(Breaks(m), n + 1) - 1) =
         SubSeq(m, Nth(Starts(m), n) + 1,
                IF n = b THEN L ELSE Nth(Starts(m), n + 1) - 1)
  <2> SUFFICES ASSUME NEW n \in 1 .. b
               PROVE  /\ Nth(Breaks(m), n) = Nth(Starts(m), n)
                      /\ Nth(Breaks(m), n + 1) - 1 =
                           IF n = b THEN L ELSE Nth(Starts(m), n + 1) - 1
    OBVIOUS
  <2>1. CASE n = b
    BY <1>1, <1>8, <1>9, <2>1
  <2>2. CASE n # b
    <3>1. n + 1 \in 1 .. b
      BY <1>2, <2>2
    <3>2. QED
      BY <1>9, <2>2, <3>1
  <2>3. QED
    BY <2>1, <2>2
<1>11. Cardinality(Breaks(m)) - 1 = b
  BY <1>2, <1>5
<1>12. QED
  BY <1>10, <1>11 DEF Raw, L, b

(* A part begins inside the message.                                       *)
LEMMA StartsNth ==
  ASSUME NEW S, NEW m \in Seq(S), NEW n \in 1 .. Cardinality(Starts(m))
  PROVE  Nth(Starts(m), n) \in 0 .. Len(m)
<1>1. Starts(m) \subseteq 0 .. Len(m) /\ 0 \in Starts(m) /\ IsFiniteSet(Starts(m))
      /\ Len(m) \in Nat
  BY StartsType
<1>2. Starts(m) \in SUBSET Nat /\ \A j \in Starts(m) : j <= Len(m) => j \in Starts(m)
  BY <1>1
<1>3. Nth(Starts(m), n) \in Starts(m)
  BY <1>1, <1>2, NthKept
<1>4. QED
  BY <1>1, <1>3

(* The parts are sequences of the message's characters.                    *)
LEMMA RawType ==
  ASSUME NEW S, NEW m \in Seq(S)
  PROVE  Raw(m) \in Seq(Seq(S)) /\ Len(Raw(m)) = Cardinality(Starts(m))
<1> DEFINE b == Cardinality(Starts(m))
           end(n) == IF n = b THEN Len(m) ELSE Nth(Starts(m), n + 1) - 1
<1>1. b \in Nat \ {0} /\ Len(m) \in Nat
  BY StartsType
<1>2. ASSUME NEW n \in 1 .. b
      PROVE  SubSeq(m, Nth(Starts(m), n) + 1, end(n)) \in Seq(S)
  <2>1. Nth(Starts(m), n) \in 0 .. Len(m)
    BY StartsNth
  <2>2. end(n) \in Int /\ end(n) <= Len(m)
    <3>1. CASE n = b
      BY <1>1, <3>1
    <3>2. CASE n # b
      <4>1. n + 1 \in 1 .. b
        BY <1>1, <3>2
      <4>2. Nth(Starts(m), n + 1) \in 0 .. Len(m)
        BY <4>1, StartsNth
      <4>3. QED
        BY <1>1, <3>2, <4>2
    <3>3. QED
      BY <3>1, <3>2
  <2>3. Nth(Starts(m), n) + 1 \in Nat \ {0}
    BY <2>1
  <2> HIDE DEF end
  <2>4. \A i \in Nth(Starts(m), n) + 1 .. end(n) : m[i] \in S
    BY <1>1, <2>2, <2>3
  <2>5. QED
    BY <2>2, <2>3, <2>4, SubSeqProperties
<1>3. Raw(m) = [n \in 1 .. b |-> SubSeq(m, Nth(Starts(m), n) + 1, end(n))]
  BY RawIs
<1> HIDE DEF b, end
<1>4. Raw(m) \in Seq(Seq(S)) /\ Len(Raw(m)) = b
  BY <1>1, <1>2, <1>3
<1>5. QED
  BY <1>4 DEF b

(* A character other than a newline belongs to the last part.              *)
LEMMA RawLetter ==
  ASSUME NEW S, NEW m \in Seq(S), NEW c \in S, c # Newline,
         NEW raw0 \in Seq(Seq(S)), NEW k \in Seq(S), Raw(m) = Append(raw0, k)
  PROVE  Raw(Append(m, c)) = Append(raw0, Append(k, c))
<1> DEFINE L == Len(m)
           B == Starts(m)
           b == Cardinality(B)
           m1 == Append(m, c)
<1>0. \A start \in Nat \ {0} : \A end \in Int :
        end <= L => SubSeq(m1, start, end) = SubSeq(m, start, end)
  BY SubSeqInside
<1>1. L \in Nat /\ b \in Nat \ {0} /\ m1 \in Seq(S) /\ Len(m1) = L + 1
  BY StartsType
<1>2. Starts(m1) = B
  BY <1>1 DEF Starts
<1>3. \A n \in 1 .. b : Nth(B, n) \in 0 .. L
  BY StartsNth
<1>4. Raw(m) = [n \in 1 .. b |-> SubSeq(m, Nth(B, n) + 1,
                                 IF n = b THEN L ELSE Nth(B, n + 1) - 1)]
  BY RawIs
<1>5. Raw(m1) = [n \in 1 .. b |-> SubSeq(m1, Nth(B, n) + 1,
                                  IF n = b THEN L + 1 ELSE Nth(B, n + 1) - 1)]
  <2> HIDE DEF m1
  <2>1. QED
    BY <1>1, <1>2, RawIs
<1>6. Len(raw0) = b - 1
  <2>1. Len(Raw(m)) = b
    BY RawType
  <2>2. QED
    BY <1>1, <2>1
<1> HIDE DEF B, b, L
<1>7. ASSUME NEW n \in 1 .. b - 1
      PROVE  Raw(m1)[n] = raw0[n]
  <2>1. n \in 1 .. b /\ n # b /\ n + 1 \in 1 .. b
    BY <1>1
  <2>2. Nth(B, n) + 1 \in Nat \ {0} /\ Nth(B, n + 1) - 1 \in Int
        /\ Nth(B, n + 1) - 1 <= L
    BY <1>1, <1>3, <2>1
  <2>3. SubSeq(m1, Nth(B, n) + 1, Nth(B, n + 1) - 1) =
        SubSeq(m, Nth(B, n) + 1, Nth(B, n + 1) - 1)
    BY <1>0, <2>2
  <2>4. Raw(m)[n] = raw0[n]
    BY <1>1, <1>6, <2>1
  <2> HIDE DEF m1
  <2>5. QED
    BY <1>4, <1>5, <2>1, <2>3, <2>4
<1>8. Raw(m1)[b] = Append(k, c)
  <2>1. b \in 1 .. b
    BY <1>1
  <2>2. Nth(B, b) + 1 \in 1 .. L + 1
    BY <1>1, <1>3, <2>1
  <2>3. SubSeq(m1, Nth(B, b) + 1, L + 1) = Append(SubSeq(m, Nth(B, b) + 1, L), c)
    BY <2>2, SubSeqToEnd DEF L
  <2>4. Raw(m)[b] = k
    BY <1>1, <1>6
  <2> HIDE DEF m1
  <2>5. QED
    BY <1>4, <1>5, <2>1, <2>3, <2>4
<1>9. Raw(m1) \in Seq(Seq(S)) /\ Len(Raw(m1)) = b
  <2> HIDE DEF m1
  <2>1. QED
    BY <1>1, <1>2, RawType DEF b
<1> HIDE DEF m1
<1>10. Raw(m1) = Append(raw0, Append(k, c))
  BY <1>1, <1>6, <1>7, <1>8, <1>9
<1>11. QED
  BY <1>10 DEF m1

(* A newline begins a part.                                                *)
LEMMA RawNewline ==
  ASSUME NEW S, NEW m \in Seq(S), Newline \in S
  PROVE  Raw(Append(m, Newline)) = Append(Raw(m), <<>>)
<1> DEFINE L == Len(m)
           B == Starts(m)
           b == Cardinality(B)
           m1 == Append(m, Newline)
           B1 == Starts(m1)
<1>0. \A start \in Nat \ {0} : \A end \in Int :
        end <= L => SubSeq(m1, start, end) = SubSeq(m, start, end)
  BY SubSeqInside
<1>1. L \in Nat /\ b \in Nat \ {0} /\ m1 \in Seq(S) /\ Len(m1) = L + 1
      /\ B \subseteq 0 .. L /\ 0 \in B /\ IsFiniteSet(B)
  BY StartsType
<1>2. B1 = B \cup {L + 1} /\ L + 1 \notin B
  <2>1. B1 = B \cup {L + 1}
    <3>1. DOMAIN m1 = 1 .. L + 1 /\ DOMAIN m = 1 .. L
      OBVIOUS
    <3>2. \A i \in 1 .. L : m1[i] = m[i]
      OBVIOUS
    <3>3. m1[L + 1] = Newline
      OBVIOUS
    <3>4. \A i \in 1 .. L + 1 : i \in 1 .. L \/ i = L + 1
      BY <1>1
    <3>5. L + 1 \in 1 .. L + 1 /\ \A i \in 1 .. L : i \in 1 .. L + 1
      BY <1>1
    <3> HIDE DEF m1
    <3>6. QED
      BY <3>1, <3>2, <3>3, <3>4, <3>5 DEF Starts
  <2>2. QED
    BY <1>1, <2>1
<1>3. \A n \in 1 .. b : Nth(B, n) \in 0 .. L
  BY StartsNth
<1>4. Raw(m) = [n \in 1 .. b |-> SubSeq(m, Nth(B, n) + 1,
                                 IF n = b THEN L ELSE Nth(B, n + 1) - 1)]
  BY RawIs
<1>5. IsFiniteSet(B1) /\ Cardinality(B1) = b + 1
  <2> HIDE DEF B1, B
  <2>1. QED
    BY <1>1, <1>2, FS_AddElement DEF b
<1>6. Raw(m1) = [n \in 1 .. b + 1 |-> SubSeq(m1, Nth(B1, n) + 1,
                                  IF n = b + 1 THEN L + 1 ELSE Nth(B1, n + 1) - 1)]
  <2>1. Raw(m1) = [n \in 1 .. Cardinality(B1) |-> SubSeq(m1, Nth(B1, n) + 1,
                                  IF n = Cardinality(B1) THEN Len(m1)
                                  ELSE Nth(B1, n + 1) - 1)]
    <3> HIDE DEF m1
    <3>1. QED
      BY <1>1, RawIs
  <2> HIDE DEF m1, B1
  <2>2. QED
    BY <1>1, <1>5, <2>1
<1>7. Raw(m) \in Seq(Seq(S)) /\ Len(Raw(m)) = b
  BY RawType
<1>8. Raw(m1) \in Seq(Seq(S)) /\ Len(Raw(m1)) = b + 1
  <2>1. Raw(m1) \in Seq(Seq(S)) /\ Len(Raw(m1)) = Cardinality(B1)
    <3> HIDE DEF m1
    <3>1. QED
      BY <1>1, RawType
  <2>2. QED
    BY <1>5, <2>1
<1> HIDE DEF B, b, L, B1
<1>9. \A j \in B1 : j \in Nat /\ j <= L + 1 /\ (j <= L => j \in B)
  BY <1>1, <1>2
<1>10. B1 \in SUBSET Nat /\ B \subseteq B1 /\ L + 1 \in B1
  BY <1>2, <1>9
<1>11. \A n \in 1 .. b : Nth(B1, n) = Nth(B, n)
  BY <1>1, <1>5, <1>9, <1>10, NthKept DEF b
<1>12. Nth(B1, b + 1) = L + 1
  BY <1>5, <1>9, <1>10, RankTop
<1>13. ASSUME NEW n \in 1 .. b
       PROVE  Raw(m1)[n] = Raw(m)[n]
  <2> DEFINE stop == IF n = b THEN L ELSE Nth(B, n + 1) - 1
  <2>1. Nth(B1, n + 1) - 1 = stop /\ stop \in Int /\ stop <= L
    <3>1. CASE n = b
      BY <1>1, <1>12, <3>1
    <3>2. CASE n # b
      <4>1. n + 1 \in 1 .. b
        BY <1>1, <3>2
      <4>2. QED
        BY <1>1, <1>3, <1>11, <3>2, <4>1
    <3>3. QED
      BY <3>1, <3>2
  <2>2. n \in 1 .. b + 1 /\ n # b + 1
    BY <1>1
  <2>3. Nth(B, n) + 1 \in Nat \ {0}
    BY <1>3
  <2> HIDE DEF stop
  <2>4. SubSeq(m1, Nth(B, n) + 1, stop) = SubSeq(m, Nth(B, n) + 1, stop)
    BY <1>0, <2>1, <2>3
  <2>5. Raw(m)[n] = SubSeq(m, Nth(B, n) + 1, stop)
    BY <1>4 DEF stop
  <2> HIDE DEF m1
  <2>6. QED
    BY <1>6, <1>11, <2>1, <2>2, <2>4, <2>5
<1>14. Raw(m1)[b + 1] = <<>>
  <2>1. b + 1 \in 1 .. b + 1 /\ L + 1 + 1 \in Int /\ L + 1 < L + 1 + 1
    BY <1>1
  <2> HIDE DEF m1
  <2>2. Raw(m1)[b + 1] = SubSeq(m1, L + 1 + 1, L + 1)
    BY <1>6, <1>12, <2>1
  <2>3. QED
    BY <1>1, <2>1, <2>2, SubSeqEmpty
<1> HIDE DEF m1
<1>15. Raw(m1) = Append(Raw(m), <<>>)
  BY <1>1, <1>7, <1>8, <1>13, <1>14
<1>16. QED
  BY <1>15 DEF m1

(* The empty message has one part, which is empty.                         *)
LEMMA RawEmpty == Raw(<<>>) = <<<<>>>>
<1> DEFINE m == <<>>
<1>1. m \in Seq({}) /\ Len(m) = 0 /\ Starts(m) = {0}
  BY DEF Starts
<1>2. SubSeq(m, 1, 0) = <<>>
  BY SubSeqEmpty
<1> HIDE DEF m
<1>3. Cardinality(Starts(m)) = 1
  BY <1>1, FS_Singleton, Zenon
<1>4. Nth(Starts(m), 1) \in 0 .. 0
  <2>1. 1 \in 1 .. Cardinality(Starts(m))
    BY <1>3
  <2>2. QED
    BY <1>1, <2>1, StartsNth
<1>5. Raw(m) = [n \in 1 .. Cardinality(Starts(m)) |->
                  SubSeq(m, Nth(Starts(m), n) + 1,
                         IF n = Cardinality(Starts(m)) THEN Len(m)
                         ELSE Nth(Starts(m), n + 1) - 1)]
  BY <1>1, RawIs
<1>6. Nth(Starts(m), 1) + 1 = 1
  BY <1>4
<1>7. Raw(m)[1] = <<>>
  BY <1>1, <1>2, <1>3, <1>5, <1>6
<1>8. Raw(m) \in Seq(Seq({})) /\ Len(Raw(m)) = 1
  BY <1>1, <1>3, RawType
<1>9. Raw(m) = <<<<>>>>
  BY <1>7, <1>8
<1>10. QED
  BY <1>9 DEF m

-----------------------------------------------------------------------------
(* The pieces of a part.                                                   *)

(* The quotient of a number that is written with its remainder.            *)
LEMMA Quotient ==
  ASSUME NEW w \in Nat \ {0}, NEW q \in Nat, NEW r \in 0 .. w - 1
  PROVE  (q * w + r) \div w = q
<1> DEFINE x == q * w + r
           d == x \div w
<1>1. \A a, e \in Nat : a <= e => a * w <= e * w
  OBVIOUS
<1>2. x \in Nat /\ q * w <= x /\ x < q * w + w
  BY <1>1
<1>3. d \in Nat /\ d * w <= x /\ x < d * w + w
  <2>1. \A y \in Nat : y \div w \in Nat /\ (y \div w) * w <= y /\ y < (y \div w) * w + w
    OBVIOUS
  <2>2. QED
    BY <1>2, <2>1
<1> HIDE DEF x, d
<1>4. ~(d < q)
  <2>1. SUFFICES ASSUME d < q PROVE FALSE
    OBVIOUS
  <2>2. (d + 1) * w <= q * w
    BY <1>1, <1>3, <2>1
  <2>3. (d + 1) * w = d * w + w
    BY <1>3
  <2>4. d * w \in Int /\ q * w \in Int
    BY <1>3
  <2>5. QED
    BY <1>2, <1>3, <2>2, <2>3, <2>4
<1>5. ~(q < d)
  <2>1. SUFFICES ASSUME q < d PROVE FALSE
    OBVIOUS
  <2>2. (q + 1) * w <= d * w
    BY <1>1, <1>3, <2>1
  <2>3. (q + 1) * w = q * w + w
    OBVIOUS
  <2>4. d * w \in Int /\ q * w \in Int
    BY <1>3
  <2>5. QED
    BY <1>2, <1>3, <2>2, <2>3, <2>4
<1>6. d = q
  BY <1>3, <1>4, <1>5
<1>7. QED
  BY <1>6 DEF d, x

(* Where the n-th full piece of a part ends.                               *)
At(n) == n * kLineWrapLength

(* It is a place.                                                          *)
LEMMA AtType ==
  ASSUME NEW n \in Nat
  PROVE  At(n) \in Nat
BY WrapAssumption DEF At

(* The next one ends a width further.                                      *)
LEMMA AtNext ==
  ASSUME NEW n \in Nat
  PROVE  At(n + 1) = At(n) + kLineWrapLength
BY WrapAssumption DEF At

(* Later pieces end later.                                                 *)
LEMMA AtGrows ==
  ASSUME NEW n \in Nat, NEW m \in Nat, n <= m
  PROVE  At(n) <= At(m)
BY WrapAssumption DEF At

(* The first q pieces of k, each of a full width, and what is left.        *)
Full(k, q) == [n \in 1 .. q |-> SubSeq(k, At(n - 1) + 1, At(n))]

Rest(k, q) == SubSeq(k, At(q) + 1, Len(k))

(* They are pieces of k if k is long enough, and what is left is as long   *)
(* as what is left of the length.                                          *)
LEMMA PiecesType ==
  ASSUME NEW S, NEW k \in Seq(S), NEW q \in Nat, NEW r \in 1 .. kLineWrapLength,
         Len(k) = At(q) + r
  PROVE  /\ Full(k, q) \in Seq(Seq(S)) /\ Len(Full(k, q)) = q
         /\ Rest(k, q) \in Seq(S) /\ Len(Rest(k, q)) = r
<1>1. At(q) \in Nat /\ r \in Nat \ {0} /\ Len(k) \in Nat
  BY AtType, WrapAssumption
<1>2. ASSUME NEW n \in 1 .. q
      PROVE  SubSeq(k, At(n - 1) + 1, At(n)) \in Seq(S)
  <2>1. n \in Nat /\ n - 1 \in Nat /\ n <= q
    OBVIOUS
  <2>2. At(n - 1) \in Nat /\ At(n) \in Nat /\ At(n) <= At(q)
    BY <2>1, AtType, AtGrows
  <2>3. \A i \in At(n - 1) + 1 .. At(n) : k[i] \in S
    BY <1>1, <2>2
  <2>4. QED
    BY <2>2, <2>3, SubSeqProperties
<1>3. Full(k, q) \in Seq(Seq(S)) /\ Len(Full(k, q)) = q
  BY <1>2 DEF Full
<1>4. \A i \in At(q) + 1 .. Len(k) : k[i] \in S
  BY <1>1
<1>5. Rest(k, q) \in Seq(S)
      /\ Len(Rest(k, q)) = IF At(q) + 1 <= Len(k) THEN Len(k) - (At(q) + 1) + 1 ELSE 0
  <2>1. At(q) + 1 \in Int /\ Len(k) \in Int
    BY <1>1
  <2>2. QED
    BY <1>4, <2>1, SubSeqProperties DEF Rest
<1>6. QED
  BY <1>1, <1>3, <1>5

(* absl::ByLength() cuts all full pieces but the last, which may be full   *)
(* or not but is never empty.                                              *)
LEMMA SubpartsAre ==
  ASSUME NEW S, NEW k \in Seq(S), NEW q \in Nat, NEW r \in 1 .. kLineWrapLength,
         Len(k) = At(q) + r
  PROVE  Subparts(k) = Append(Full(k, q), Rest(k, q))
<1> DEFINE W == kLineWrapLength
           count == (Len(k) + W - 1) \div W
<1>1. At(q) \in Nat /\ W \in Nat \ {0} /\ Len(k) \in Nat
  BY AtType, WrapAssumption
<1>2. count = q + 1
  <2>1. r - 1 \in 0 .. W - 1 /\ q + 1 \in Nat
    BY <1>1
  <2>2. ((q + 1) * W + (r - 1)) \div W = q + 1
    BY <1>1, <2>1, Quotient
  <2>3. (q + 1) * W = At(q) + W
    BY AtNext DEF At
  <2>4. (q + 1) * W + (r - 1) = Len(k) + W - 1
    <3> DEFINE x == (q + 1) * W
    <3>1. x = At(q) + W
      BY <2>3
    <3> HIDE DEF W, x
    <3>2. x + (r - 1) = Len(k) + W - 1
      BY <1>1, <3>1
    <3>3. QED
      BY <3>2 DEF x
  <2> HIDE DEF W
  <2>5. QED
    BY <2>2, <2>4, Zenon
<1>3. Subparts(k) = [n \in 1 .. q + 1 |-> SubSeq(k, At(n - 1) + 1,
                                      IF n = q + 1 THEN Len(k) ELSE At(n))]
  <2>1. Subparts(k) = [n \in 1 .. count |-> SubSeq(k, At(n - 1) + 1,
                                      IF n = count THEN Len(k) ELSE At(n))]
    BY DEF Subparts, At
  <2> HIDE DEF count, W
  <2>2. QED
    BY <1>2, <2>1
<1>4. Full(k, q) \in Seq(Seq(S)) /\ Len(Full(k, q)) = q /\ Rest(k, q) \in Seq(S)
  BY PiecesType
<1> DEFINE piece(n) == SubSeq(k, At(n - 1) + 1, IF n = q + 1 THEN Len(k) ELSE At(n))
<1>5. ASSUME NEW n \in 1 .. q
      PROVE  piece(n) = Full(k, q)[n]
  <2>1. n # q + 1
    OBVIOUS
  <2>2. QED
    BY <2>1, Zenon DEF Full
<1>6. piece(q + 1) = Rest(k, q)
  <2>1. (q + 1) - 1 = q
    OBVIOUS
  <2>2. QED
    BY <2>1 DEF Rest
<1> HIDE DEF piece
<1>7. [n \in 1 .. q + 1 |-> piece(n)] = Append(Full(k, q), Rest(k, q))
  <2> DEFINE pieces == Append(Full(k, q), Rest(k, q))
  <2>1. pieces \in Seq(Seq(S)) /\ Len(pieces) = q + 1 /\ pieces[q + 1] = Rest(k, q)
        /\ \A n \in 1 .. q : pieces[n] = Full(k, q)[n]
    BY <1>4
  <2> HIDE DEF pieces
  <2>2. pieces = [n \in 1 .. q + 1 |-> pieces[n]]
    BY <2>1
  <2>3. \A n \in 1 .. q + 1 : pieces[n] = piece(n)
    <3>1. \A n \in 1 .. q + 1 : n \in 1 .. q \/ n = q + 1
      OBVIOUS
    <3>2. QED
      BY <1>5, <1>6, <2>1, <3>1
  <2>4. QED
    BY <2>2, <2>3, Zenon DEF pieces
<1>8. QED
  BY <1>3, <1>7 DEF piece

(* Every length but 0 is that of some full pieces and a last one.          *)
LEMMA Split ==
  ASSUME NEW S, NEW k \in Seq(S), k # <<>>
  PROVE  \E q \in Nat : \E r \in 1 .. kLineWrapLength : Len(k) = At(q) + r
<1> DEFINE W == kLineWrapLength
           x == Len(k) - 1
           q == x \div W
<1>1. W \in Nat \ {0} /\ x \in Nat
  BY WrapAssumption
<1>2. \A y \in Nat : y \div W \in Nat /\ (y \div W) * W <= y /\ y < (y \div W) * W + W
  BY <1>1
<1>3. q \in Nat /\ At(q) <= x /\ x < At(q) + W
  BY <1>1, <1>2 DEF At
<1>4. At(q) \in Nat
  BY <1>3, AtType
<1> HIDE DEF q, W
<1>5. Len(k) - At(q) \in 1 .. W /\ Len(k) = At(q) + (Len(k) - At(q))
  BY <1>1, <1>3, <1>4
<1>6. QED
  BY <1>3, <1>5 DEF W

(* One more character changes no full piece.                               *)
LEMMA FullKept ==
  ASSUME NEW S, NEW k \in Seq(S), NEW c \in S, NEW q \in Nat, At(q) <= Len(k)
  PROVE  Full(Append(k, c), q) = Full(k, q)
<1>0. \A start \in Nat \ {0} : \A end \in Int : end <= Len(k) =>
        SubSeq(Append(k, c), start, end) = SubSeq(k, start, end)
  BY SubSeqInside
<1>1. ASSUME NEW n \in 1 .. q
      PROVE  SubSeq(Append(k, c), At(n - 1) + 1, At(n)) = SubSeq(k, At(n - 1) + 1, At(n))
  <2>1. n \in Nat /\ n - 1 \in Nat /\ n <= q
    OBVIOUS
  <2>2. At(n - 1) \in Nat /\ At(n) \in Nat /\ At(q) \in Nat /\ At(n) <= At(q)
    BY <2>1, AtType, AtGrows
  <2>3. At(n - 1) + 1 \in Nat \ {0} /\ At(n) \in Int /\ At(n) <= Len(k)
    BY <2>2
  <2>4. QED
    BY <1>0, <2>3
<1>2. QED
  BY <1>1, Zenon DEF Full

(* The next character goes to the last piece while that has room and       *)
(* begins another when it is full.                                         *)
LEMMA SubpartsGrow ==
  ASSUME NEW S, NEW k \in Seq(S), NEW c \in S,
         NEW f \in Seq(Seq(S)), NEW line \in Seq(S), Subparts(k) = Append(f, line),
         k # <<>>
  PROVE  Subparts(Append(k, c)) =
           IF Len(line) = kLineWrapLength THEN Append(Subparts(k), <<c>>)
           ELSE Append(f, Append(line, c))
<1> DEFINE k1 == Append(k, c)
<1>1. PICK q \in Nat, r \in 1 .. kLineWrapLength : Len(k) = At(q) + r
  BY Split
<1>2. kLineWrapLength \in Nat \ {0} /\ At(q) \in Nat /\ Len(k) \in Nat
  BY <1>1, AtType, WrapAssumption
<1>3. /\ Full(k, q) \in Seq(Seq(S)) /\ Len(Full(k, q)) = q
      /\ Rest(k, q) \in Seq(S) /\ Len(Rest(k, q)) = r
  BY <1>1, PiecesType
<1>4. Subparts(k) = Append(Full(k, q), Rest(k, q))
  BY <1>1, SubpartsAre
<1>5. f = Full(k, q) /\ line = Rest(k, q)
  <2>1. Append(f, line) = Append(Full(k, q), Rest(k, q))
    BY <1>4
  <2>2. QED
    BY <1>3, <2>1, AppendInjective
<1>6. k1 \in Seq(S) /\ Len(k1) = Len(k) + 1
  OBVIOUS
<1>7. Full(k1, q) = Full(k, q)
  BY <1>1, <1>2, FullKept
<1>8. CASE r = kLineWrapLength
  <2>1. At(q + 1) = Len(k)
    BY <1>1, <1>2, <1>8, AtNext
  <2>2. 1 \in 1 .. kLineWrapLength /\ q + 1 \in Nat /\ Len(k1) = At(q + 1) + 1
    BY <1>2, <1>6, <2>1
  <2>3. Full(k1, q + 1) \in Seq(Seq(S)) /\ Len(Full(k1, q + 1)) = q + 1
    <3> HIDE DEF k1
    <3>1. QED
      BY <1>6, <2>2, PiecesType
  <2>4. Subparts(k1) = Append(Full(k1, q + 1), Rest(k1, q + 1))
    BY <1>6, <2>2, SubpartsAre
  <2>5. Rest(k1, q + 1) = <<c>>
    <3>1. Len(k) + 1 \in 1 .. Len(k) + 1 /\ Len(k) < Len(k) + 1
      BY <1>2
    <3>2. SubSeq(k1, Len(k) + 1, Len(k) + 1) = Append(SubSeq(k, Len(k) + 1, Len(k)), c)
      BY <3>1, SubSeqToEnd
    <3>3. SubSeq(k, Len(k) + 1, Len(k)) = <<>>
      BY <1>2, <3>1, SubSeqEmpty
    <3>4. Append(<<>>, c) = <<c>>
      OBVIOUS
    <3> HIDE DEF k1
    <3>5. Rest(k1, q + 1) = SubSeq(k1, Len(k) + 1, Len(k) + 1)
      BY <1>6, <2>1 DEF Rest
    <3>6. QED
      BY <3>2, <3>3, <3>4, <3>5
  <2>6. Full(k1, q + 1) = Full(k, q + 1)
    BY <1>2, <2>1, <2>2, FullKept
  <2>7. Full(k, q + 1) = Append(Full(k, q), Rest(k, q))
    <3>0. \A n \in 1 .. q : n \in 1 .. q + 1
      BY <2>2
    <3>1. \A n \in 1 .. q : Full(k, q + 1)[n] = Full(k, q)[n]
      BY <3>0, Zenon DEF Full
    <3>2. Full(k, q + 1)[q + 1] = SubSeq(k, At(q) + 1, At(q + 1))
      <4>1. q + 1 \in 1 .. q + 1 /\ (q + 1) - 1 = q
        OBVIOUS
      <4>2. QED
        BY <4>1 DEF Full
    <3>3. Full(k, q + 1)[q + 1] = Rest(k, q)
      BY <2>1, <3>2 DEF Rest
    <3> HIDE DEF k1
    <3>4. QED
      BY <1>3, <2>3, <2>6, <3>1, <3>3
  <2> HIDE DEF k1
  <2>8. Subparts(k1) = Append(Subparts(k), <<c>>)
    BY <1>4, <2>4, <2>5, <2>6, <2>7
  <2>9. QED
    BY <1>3, <1>5, <1>8, <2>8 DEF k1
<1>9. CASE r # kLineWrapLength
  <2>1. r + 1 \in 1 .. kLineWrapLength /\ Len(k1) = At(q) + (r + 1)
    BY <1>1, <1>2, <1>6, <1>9
  <2>2. Subparts(k1) = Append(Full(k1, q), Rest(k1, q))
    BY <1>6, <2>1, SubpartsAre
  <2>3. Rest(k1, q) = Append(Rest(k, q), c)
    <3>1. At(q) + 1 \in 1 .. Len(k) + 1
      BY <1>1, <1>2
    <3>2. SubSeq(k1, At(q) + 1, Len(k) + 1) = Append(SubSeq(k, At(q) + 1, Len(k)), c)
      BY <3>1, SubSeqToEnd
    <3> HIDE DEF k1
    <3>3. QED
      BY <1>6, <3>2 DEF Rest
  <2> HIDE DEF k1
  <2>4. QED
    BY <1>3, <1>5, <1>7, <1>9, <2>2, <2>3 DEF k1
<1>10. QED
  BY <1>8, <1>9

(* An empty part has no piece.                                             *)
LEMMA SubpartsEmpty == Subparts(<<>>) = <<>>
<1> DEFINE W == kLineWrapLength
<1>1. W \in Nat \ {0}
  BY WrapAssumption
<1>2. (0 * W + (W - 1)) \div W = 0
  BY <1>1, Quotient
<1>3. (Len(<<>>) + W - 1) \div W = 0
  BY <1>1, <1>2
<1>4. QED
  BY <1>3 DEF Subparts

(* A part of one character is one piece.                                   *)
LEMMA SubpartsFirst ==
  ASSUME NEW S, NEW c \in S
  PROVE  Subparts(<<c>>) = <<<<c>>>>
<1> DEFINE k == <<c>>
           W == kLineWrapLength
<1>1. W \in Nat \ {0}
  BY WrapAssumption
<1>3. k \in Seq(S) /\ Len(k) = At(0) + 1 /\ 1 \in 1 .. W /\ Len(k) = 1
        /\ At(0) = 0
  BY <1>1 DEF At
<1>4. /\ Full(k, 0) \in Seq(Seq(S)) /\ Len(Full(k, 0)) = 0
      /\ Rest(k, 0) \in Seq(S)
  <2> HIDE DEF k
  <2>1. QED
    BY <1>3, PiecesType
<1>5. Subparts(k) = Append(Full(k, 0), Rest(k, 0))
  <2> HIDE DEF k
  <2>1. QED
    BY <1>3, SubpartsAre
<1>6. Rest(k, 0) = k
  <2>1. At(0) + 1 = 1
    BY <1>3
  <2> HIDE DEF k
  <2>2. SubSeq(k, 1, Len(k)) = k
    BY <1>3, SubSeqFull
  <2>3. QED
    BY <2>1, <2>2 DEF Rest
<1> HIDE DEF k
<1>7. Full(k, 0) = <<>>
  BY <1>4
<1>8. Subparts(k) = <<k>>
  <2>1. Append(<<>>, k) = <<k>>
    OBVIOUS
  <2>2. QED
    BY <1>5, <1>6, <1>7, <2>1
<1>9. QED
  BY <1>8 DEF k

-----------------------------------------------------------------------------
(* The terminal.                                                           *)

(* What the terminal does with one more character.                         *)
NextScreen(screen, c) ==
  IF c = Newline \/ Len(Last(screen)) = kLineWrapLength
  THEN Front(screen) \o <<Last(screen), IF c = Newline THEN <<>> ELSE <<c>>>>
  ELSE Append(Front(screen), Append(Last(screen), c))

(* s[n] is what it shows of the first n characters of m.                   *)
Shows(s, m) ==
  s = [n \in 0 .. Len(m) |->
         IF n = 0 THEN <<<<>>>> ELSE NextScreen(s[n - 1], m[n])]

(* Shown is the last value of a function that does so; there is but one.   *)
LEMMA ShownIs ==
  ASSUME NEW S, NEW m \in Seq(S), NEW s, Shows(s, m)
  PROVE  Shown(m) = SkipEmpty(s[Len(m)])
<1> DEFINE screen == CHOOSE h : h = [n \in 0 .. Len(m) |->
                       IF n = 0 THEN <<<<>>>> ELSE NextScreen(h[n - 1], m[n])]
<1>1. Len(m) \in Nat
  OBVIOUS
<1>2. Shown(m) = SkipEmpty(screen[Len(m)])
  BY DEF Shown, NextScreen
<1>3. screen = [n \in 0 .. Len(m) |->
                  IF n = 0 THEN <<<<>>>> ELSE NextScreen(screen[n - 1], m[n])]
  BY Zenon DEF Shows
<1>4. s = [n \in 0 .. Len(m) |->
             IF n = 0 THEN <<<<>>>> ELSE NextScreen(s[n - 1], m[n])]
  BY DEF Shows
<1> HIDE DEF screen
<1> DEFINE P == {n \in 0 .. Len(m) : screen[n] = s[n]}
<1>5. 0 \in P
  <2>1. 0 \in 0 .. Len(m)
    BY <1>1
  <2>2. screen[0] = <<<<>>>>
    BY <1>3, <2>1, Zenon
  <2>3. s[0] = <<<<>>>>
    BY <1>4, <2>1, Zenon
  <2>4. QED
    BY <2>1, <2>2, <2>3
<1>6. ASSUME NEW n \in 0 + 1 .. Len(m), n - 1 \in P
      PROVE  n \in P
  <2>1. n \in 0 .. Len(m) /\ n # 0
    BY <1>1
  <2>2. screen[n] = NextScreen(screen[n - 1], m[n])
    BY <1>3, <2>1, Zenon
  <2>3. s[n] = NextScreen(s[n - 1], m[n])
    BY <1>4, <2>1, Zenon
  <2>4. QED
    BY <1>6, <2>1, <2>2, <2>3
<1>7. \A n \in 0 .. Len(m) : n \in P
  <2> HIDE DEF P
  <2>1. QED
    BY <1>1, <1>5, <1>6, Counting
<1>8. QED
  BY <1>1, <1>2, <1>7

(* Such a function goes on with one more character.                        *)
LEMMA ShowsAppend ==
  ASSUME NEW S, NEW m \in Seq(S), NEW c \in S, NEW s, Shows(s, m)
  PROVE  \E s1 : /\ Shows(s1, Append(m, c))
                 /\ s1[Len(m) + 1] = NextScreen(s[Len(m)], c)
<1> DEFINE L == Len(m)
           m1 == Append(m, c)
           new == NextScreen(s[L], c)
           s1 == [n \in 0 .. L + 1 |-> IF n = L + 1 THEN new ELSE s[n]]
<1>1. L \in Nat /\ Len(m1) = L + 1 /\ m1[L + 1] = c /\ \A n \in 1 .. L : m1[n] = m[n]
  OBVIOUS
<1>2. \A n \in 0 .. L : s[n] = IF n = 0 THEN <<<<>>>> ELSE NextScreen(s[n - 1], m[n])
  BY Zenon DEF Shows
<1>3. \A n \in 0 .. L : s1[n] = s[n]
  BY <1>1
<1>4. s1[L + 1] = new
  BY <1>1
<1>5. DOMAIN s1 = 0 .. L + 1 /\ s1 = [n \in 0 .. L + 1 |-> s1[n]]
  OBVIOUS
<1> HIDE DEF s1, m1
<1>6. ASSUME NEW n \in 0 .. L + 1
      PROVE  s1[n] = IF n = 0 THEN <<<<>>>> ELSE NextScreen(s1[n - 1], m1[n])
  <2>1. CASE n = L + 1
    <3>1. L \in 0 .. L /\ n # 0 /\ n - 1 = L
      BY <1>1, <2>1
    <3>2. QED
      BY <1>1, <1>3, <1>4, <2>1, <3>1
  <2>2. CASE n # L + 1
    <3>1. n \in 0 .. L /\ (n # 0 => n \in 1 .. L /\ n - 1 \in 0 .. L)
      BY <1>1, <2>2
    <3>2. QED
      BY <1>1, <1>2, <1>3, <3>1
  <2>3. QED
    BY <2>1, <2>2
<1>7. Shows(s1, m1)
  <2>1. s1 = [n \in 0 .. L + 1 |->
                IF n = 0 THEN <<<<>>>> ELSE NextScreen(s1[n - 1], m1[n])]
    BY <1>5, <1>6, Zenon
  <2>2. QED
    BY <1>1, <2>1 DEF Shows
<1>8. QED
  BY <1>4, <1>7 DEF m1

(* The lines RawTrace makes of parts.                                      *)
Sent(ps) == FlattenSeq([n \in DOMAIN SkipEmpty(ps) |-> Subparts(SkipEmpty(ps)[n])])

(* They are those of the message's parts.                                  *)
LEMMA LinesSent == ASSUME NEW m PROVE Lines(m) = Sent(Raw(m))
BY PartsRaw, Zenon DEF Lines, Sent

(* The pieces of a part are sequences of its characters.                   *)
LEMMA SubpartsType ==
  ASSUME NEW S, NEW k \in Seq(S)
  PROVE  Subparts(k) \in Seq(Seq(S))
<1>1. CASE k = <<>>
  <2>1. <<>> \in Seq(Seq(S))
    OBVIOUS
  <2>2. QED
    BY <1>1, <2>1, SubpartsEmpty, Zenon
<1>2. CASE k # <<>>
  <2>1. PICK q \in Nat, r \in 1 .. kLineWrapLength : Len(k) = At(q) + r
    BY <1>2, Split
  <2>2. Full(k, q) \in Seq(Seq(S)) /\ Rest(k, q) \in Seq(S)
    BY <2>1, PiecesType
  <2>3. Subparts(k) = Append(Full(k, q), Rest(k, q))
    BY <2>1, SubpartsAre
  <2>4. QED
    BY <2>2, <2>3
<1>3. QED
  BY <1>1, <1>2

(* The lines are sequences of the parts' characters.                       *)
LEMMA SentType ==
  ASSUME NEW S, NEW ps \in Seq(Seq(S))
  PROVE  /\ Sent(ps) \in Seq(Seq(S))
         /\ [n \in DOMAIN SkipEmpty(ps) |-> Subparts(SkipEmpty(ps)[n])]
              \in Seq(Seq(Seq(S)))
<1> DEFINE parts == SkipEmpty(ps)
           g == [n \in DOMAIN parts |-> Subparts(parts[n])]
<1>1. parts \in Seq(Seq(S))
  BY SkipEmptyType
<1> HIDE DEF parts
<1>2. \A n \in DOMAIN parts : Subparts(parts[n]) \in Seq(Seq(S))
  <2>1. \A n \in DOMAIN parts : parts[n] \in Seq(S)
    BY <1>1
  <2>2. QED
    BY <2>1, SubpartsType
<1>3. DOMAIN parts = 1 .. Len(parts) /\ Len(parts) \in Nat
  BY <1>1
<1>4. g \in Seq(Seq(Seq(S)))
  BY <1>2, <1>3
<1> HIDE DEF g
<1>5. FlattenSeq(g) \in Seq(Seq(S))
  BY <1>4, FlattenType
<1>6. QED
  BY <1>4, <1>5 DEF Sent, g, parts

(* The pieces of one more part come behind the others.                     *)
LEMMA SentAppend ==
  ASSUME NEW S, NEW ps \in Seq(Seq(S)), NEW p \in Seq(S)
  PROVE  Sent(Append(ps, p)) = IF p = <<>> THEN Sent(ps) ELSE Sent(ps) \o Subparts(p)
<1> DEFINE parts == SkipEmpty(ps)
           g(s) == [n \in DOMAIN s |-> Subparts(s[n])]
<1>1. SkipEmpty(Append(ps, p)) = IF p = <<>> THEN parts ELSE Append(parts, p)
  BY SkipEmptyAppend
<1>2. parts \in Seq(Seq(S))
  BY SkipEmptyType
<1>3. g(parts) \in Seq(Seq(Seq(S)))
  BY SentType
<1>4. Subparts(p) \in Seq(Seq(S))
  BY SubpartsType
<1>5. Sent(ps) = FlattenSeq(g(parts))
      /\ Sent(Append(ps, p)) = FlattenSeq(g(SkipEmpty(Append(ps, p))))
  BY DEF Sent
<1> HIDE DEF parts
<1>6. g(Append(parts, p)) = Append(g(parts), Subparts(p))
  <2>1. Len(parts) \in Nat /\ DOMAIN parts = 1 .. Len(parts)
        /\ DOMAIN Append(parts, p) = 1 .. Len(parts) + 1
        /\ Append(parts, p)[Len(parts) + 1] = p
        /\ \A n \in 1 .. Len(parts) : Append(parts, p)[n] = parts[n]
    BY <1>2
  <2>2. \A n \in 1 .. Len(parts) : g(Append(parts, p))[n] = g(parts)[n]
    BY <2>1
  <2>3. g(Append(parts, p))[Len(parts) + 1] = Subparts(p)
    BY <2>1
  <2>4. DOMAIN g(Append(parts, p)) = 1 .. Len(parts) + 1 /\ DOMAIN g(parts) = 1 .. Len(parts)
        /\ g(Append(parts, p)) = [n \in 1 .. Len(parts) + 1 |-> g(Append(parts, p))[n]]
    BY <2>1
  <2> HIDE DEF g
  <2> DEFINE h == Append(g(parts), Subparts(p))
  <2>5. Len(g(parts)) = Len(parts)
    BY <1>3, <2>1, <2>4
  <2>6. h \in Seq(Seq(Seq(S))) /\ Len(h) = Len(parts) + 1
        /\ h[Len(parts) + 1] = Subparts(p)
        /\ \A n \in 1 .. Len(parts) : h[n] = g(parts)[n]
    BY <1>3, <1>4, <2>5
  <2> HIDE DEF h
  <2>7. h = [n \in 1 .. Len(parts) + 1 |-> h[n]]
    BY <2>6
  <2>8. \A n \in 1 .. Len(parts) + 1 : h[n] = g(Append(parts, p))[n]
    <3>1. \A n \in 1 .. Len(parts) + 1 : n \in 1 .. Len(parts) \/ n = Len(parts) + 1
      BY <2>1
    <3>2. QED
      BY <2>2, <2>3, <2>6, <3>1
  <2>9. QED
    BY <2>4, <2>7, <2>8, Zenon DEF h
<1> HIDE DEF g
<1>7. FlattenSeq(Append(g(parts), Subparts(p))) = FlattenSeq(g(parts)) \o Subparts(p)
  BY <1>3, <1>4, FlattenAppend
<1>8. QED
  BY <1>1, <1>5, <1>6, <1>7

(* Nothing is made of no parts.                                            *)
LEMMA NothingKept == SkipEmpty(<<>>) = <<>> /\ Sent(<<>>) = <<>>
<1>1. \A s : s = <<>> => FlattenSeq(s) = <<>>
  BY DEF FlattenSeq
<1>2. SkipEmpty(<<>>) = <<>>
  BY <1>1 DEF SkipEmpty
<1>3. QED
  BY <1>1, <1>2 DEF Sent

(* The characters of a message.                                            *)
Characters == UNION Alphabets

(* What RawTrace has made of the message and what the terminal shows agree *)
(* while the message is written: raw and k are the finished parts and the  *)
(* one that is written, front and line the finished lines and the one that *)
(* is written. If the part is not empty, the line is its last piece and    *)
(* the lines before are those of the finished parts and of its other       *)
(* pieces.                                                                 *)
Matches(raw, k, front, line) ==
  IF k = <<>>
  THEN line = <<>> /\ SkipEmpty(front) = Sent(raw)
  ELSE line # <<>> /\ \E f \in Seq(Seq(Characters)) :
                         /\ Subparts(k) = Append(f, line)
                         /\ SkipEmpty(front) = Sent(raw) \o f

(* That is so for the message written so far.                              *)
ShownSoFar(s) ==
  \E raw, front \in Seq(Seq(Characters)) : \E k, line \in Seq(Characters) :
    /\ Raw(text) = Append(raw, k)
    /\ s[Len(text)] = Append(front, line)
    /\ Matches(raw, k, front, line)

(* The inductive invariant: there is such a function for the message, and  *)
(* it shows what RawTrace has made of it.                                  *)
WrapInv == IsText /\ \E s : Shows(s, text) /\ ShownSoFar(s)

(* Appending to the second of two sequences appends to both.               *)
LEMMA AppendAfter ==
  ASSUME NEW S, NEW s \in Seq(S), NEW f \in Seq(S), NEW e \in S
  PROVE  s \o Append(f, e) = Append(s \o f, e)
OBVIOUS

(* The three things the terminal may do.                                   *)
LEMMA ScreenStep ==
  ASSUME NEW S, NEW front \in Seq(Seq(S)), NEW line \in Seq(S), NEW c \in S
  PROVE  NextScreen(Append(front, line), c) =
           IF c = Newline THEN Append(Append(front, line), <<>>)
           ELSE IF Len(line) = kLineWrapLength THEN Append(Append(front, line), <<c>>)
           ELSE Append(front, Append(line, c))
<1> DEFINE screen == Append(front, line)
<1>1. screen # <<>> /\ screen \in Seq(Seq(S))
  BY AppendProperties
<1>2. Front(screen) = front /\ Last(screen) = line
  BY DEF Front, Last
<1>3. \A next \in Seq(S) :
        front \o <<line, next>> = Append(Append(front, line), next)
  OBVIOUS
<1>4. <<>> \in Seq(S) /\ <<c>> \in Seq(S)
  OBVIOUS
<1> HIDE DEF screen
<1>5. CASE c = Newline
  <2>1. NextScreen(screen, c) = front \o <<line, <<>>>>
    BY <1>2, <1>5 DEF NextScreen
  <2>2. QED
    BY <1>3, <1>4, <1>5, <2>1 DEF screen
<1>6. CASE c # Newline /\ Len(line) = kLineWrapLength
  <2>1. NextScreen(screen, c) = front \o <<line, <<c>>>>
    BY <1>2, <1>6 DEF NextScreen
  <2>2. QED
    BY <1>3, <1>4, <1>6, <2>1 DEF screen
<1>7. CASE c # Newline /\ Len(line) # kLineWrapLength
  BY <1>2, <1>7 DEF NextScreen, screen
<1>8. QED
  BY <1>5, <1>6, <1>7

(* They go on to agree: a newline finishes the part and the line, a full   *)
(* line begins another piece and another line, and otherwise the last      *)
(* piece and the line get the character.                                   *)
LEMMA MatchesStep ==
  ASSUME NEW raw \in Seq(Seq(Characters)), NEW front \in Seq(Seq(Characters)),
         NEW k \in Seq(Characters), NEW line \in Seq(Characters),
         Matches(raw, k, front, line), NEW c \in Characters
  PROVE  /\ Matches(Append(raw, k), <<>>, Append(front, line), <<>>)
         /\ IF Len(line) = kLineWrapLength
            THEN Matches(raw, Append(k, c), Append(front, line), <<c>>)
            ELSE Matches(raw, Append(k, c), front, Append(line, c))
<1> DEFINE S == Characters
<1>1. /\ Sent(raw) \in Seq(Seq(S)) /\ SkipEmpty(front) \in Seq(Seq(S))
      /\ Subparts(k) \in Seq(Seq(S))
  BY SentType, SkipEmptyType, SubpartsType
<1>2. SkipEmpty(Append(front, line)) =
        IF line = <<>> THEN SkipEmpty(front) ELSE Append(SkipEmpty(front), line)
  BY SkipEmptyAppend
<1>3. Sent(Append(raw, k)) = IF k = <<>> THEN Sent(raw) ELSE Sent(raw) \o Subparts(k)
  BY SentAppend
<1>4. <<c>> \in Seq(S) /\ <<c>> # <<>> /\ Append(k, c) # <<>> /\ Append(line, c) # <<>>
      /\ <<>> \in Seq(Seq(S)) /\ <<>> \in Seq(S)
  <2>1. <<c>> \in Seq(S) /\ <<c>> # <<>>
    OBVIOUS
  <2>2. Append(k, c) # <<>> /\ Append(line, c) # <<>>
    BY AppendProperties, ZenonT(40)
  <2>3. <<>> \in Seq(Seq(S)) /\ <<>> \in Seq(S)
    OBVIOUS
  <2>4. QED
    BY <2>1, <2>2, <2>3
<1>5. ASSUME NEW s \in Seq(Seq(S)), NEW f \in Seq(Seq(S))
      PROVE  s \o Append(f, line) = Append(s \o f, line)
  <2> DEFINE T == Seq(S)
  <2>1. line \in T /\ s \in Seq(T) /\ f \in Seq(T)
    OBVIOUS
  <2> HIDE DEF T
  <2>2. QED
    BY <2>1, AppendAfter, SMTT(30)
<1>6. kLineWrapLength # 0
  BY WrapAssumption
<1>7. CASE k = <<>>
  <2>1. line = <<>> /\ SkipEmpty(front) = Sent(raw) /\ Len(line) = 0
    BY <1>7 DEF Matches
  <2>2. Matches(Append(raw, k), <<>>, Append(front, line), <<>>)
    BY <1>2, <1>3, <1>7, <2>1 DEF Matches
  <2>3. Subparts(<<c>>) = <<<<c>>>>
    BY SubpartsFirst
  <2>4. Append(k, c) = <<c>> /\ Append(line, c) = <<c>>
        /\ <<<<c>>>> = Append(<<>>, <<c>>) /\ Sent(raw) = Sent(raw) \o <<>>
    BY <1>1, <1>7, <2>1
  <2>5. Matches(raw, Append(k, c), front, Append(line, c))
    BY <1>4, <2>1, <2>3, <2>4 DEF Matches
  <2>6. QED
    BY <1>6, <2>1, <2>2, <2>5
<1>8. CASE k # <<>>
  <2>1. PICK f \in Seq(Seq(S)) : /\ Subparts(k) = Append(f, line)
                                 /\ SkipEmpty(front) = Sent(raw) \o f
    BY <1>8 DEF Matches
  <2>2. line # <<>>
    BY <1>8 DEF Matches
  <2>3. SkipEmpty(Append(front, line)) = Sent(raw) \o Subparts(k)
    <3>1. Append(SkipEmpty(front), line) = Sent(raw) \o Append(f, line)
      <4>1. Sent(raw) \o Append(f, line) = Append(Sent(raw) \o f, line)
        BY <1>1, <1>5
      <4>2. QED
        BY <2>1, <4>1
    <3>2. QED
      BY <1>2, <2>1, <2>2, <3>1
  <2>4. Matches(Append(raw, k), <<>>, Append(front, line), <<>>)
    BY <1>3, <1>8, <2>3 DEF Matches
  <2>5. Subparts(Append(k, c)) =
          IF Len(line) = kLineWrapLength THEN Append(Subparts(k), <<c>>)
          ELSE Append(f, Append(line, c))
    BY <1>8, <2>1, SubpartsGrow
  <2>6. CASE Len(line) = kLineWrapLength
    <3>1. Matches(raw, Append(k, c), Append(front, line), <<c>>)
      BY <1>1, <1>4, <2>3, <2>5, <2>6 DEF Matches
    <3>2. QED
      BY <2>4, <2>6, <3>1
  <2>7. CASE Len(line) # kLineWrapLength
    <3>1. Matches(raw, Append(k, c), front, Append(line, c))
      BY <1>1, <1>4, <2>1, <2>5, <2>7 DEF Matches
    <3>2. QED
      BY <2>4, <2>7, <3>1
  <2>8. QED
    BY <2>6, <2>7
<1>9. QED
  BY <1>7, <1>8

(* They agree on the empty message.                                        *)
LEMMA WrapInit == Init => WrapInv
<1> SUFFICES ASSUME Init PROVE WrapInv
  OBVIOUS
<1>1. text = <<>> /\ Len(text) = 0 /\ IsText
  BY DEF Init, IsText
<1> DEFINE s == [n \in 0 .. 0 |-> <<<<>>>>]
<1>2. Shows(s, text)
  <2>1. \A n \in 0 .. 0 : n = 0
    OBVIOUS
  <2>2. s = [n \in 0 .. 0 |-> IF n = 0 THEN <<<<>>>> ELSE NextScreen(s[n - 1], text[n])]
    BY <2>1
  <2> HIDE DEF s
  <2>3. QED
    BY <1>1, <2>2 DEF Shows
<1>3. s[Len(text)] = Append(<<>>, <<>>)
  BY <1>1
<1>4. Raw(text) = Append(<<>>, <<>>)
  BY <1>1, RawEmpty
<1>5. Matches(<<>>, <<>>, <<>>, <<>>)
  BY NothingKept DEF Matches
<1> HIDE DEF s
<1>6. ShownSoFar(s)
  <2>1. <<>> \in Seq(Seq(Characters)) /\ <<>> \in Seq(Characters)
    OBVIOUS
  <2>2. QED
    BY <1>3, <1>4, <1>5, <2>1, Zenon DEF ShownSoFar
<1>7. QED
  BY <1>1, <1>2, <1>6 DEF WrapInv

(* They agree on a message with one more character.                        *)
LEMMA WrapStep == WrapInv /\ [Next]_text => WrapInv'
<1>1. CASE UNCHANGED text
  BY <1>1 DEF WrapInv, IsText, ShownSoFar, Shows
<1> SUFFICES ASSUME WrapInv, NEW c \in Characters, text' = Append(text, c)
             PROVE  WrapInv'
  BY <1>1 DEF Next, Put, Characters
<1> DEFINE S == Characters
<1>2. text \in Seq(S)
  BY DEF WrapInv, IsText, Characters
<1>3. IsText'
  BY <1>2 DEF IsText, Characters
<1>4. PICK s : Shows(s, text) /\ ShownSoFar(s)
  BY DEF WrapInv
<1>5. PICK raw \in Seq(Seq(S)), front \in Seq(Seq(S)), k \in Seq(S), line \in Seq(S) :
        /\ Raw(text) = Append(raw, k)
        /\ s[Len(text)] = Append(front, line)
        /\ Matches(raw, k, front, line)
  BY <1>4 DEF ShownSoFar
<1>6. PICK s1 : /\ Shows(s1, Append(text, c))
                /\ s1[Len(text) + 1] = NextScreen(s[Len(text)], c)
  BY <1>2, <1>4, ShowsAppend
<1>7. Len(text') = Len(text) + 1 /\ Shows(s1, text')
  BY <1>2, <1>6
<1>8. s1[Len(text')] = NextScreen(Append(front, line), c)
  BY <1>5, <1>6, <1>7
<1>9. NextScreen(Append(front, line), c) =
           IF c = Newline THEN Append(Append(front, line), <<>>)
           ELSE IF Len(line) = kLineWrapLength THEN Append(Append(front, line), <<c>>)
           ELSE Append(front, Append(line, c))
  BY ScreenStep, SMTT(30)
<1>10. /\ Matches(Append(raw, k), <<>>, Append(front, line), <<>>)
       /\ IF Len(line) = kLineWrapLength
          THEN Matches(raw, Append(k, c), Append(front, line), <<c>>)
          ELSE Matches(raw, Append(k, c), front, Append(line, c))
  BY <1>5, MatchesStep
<1>11. /\ Append(raw, k) \in Seq(Seq(S)) /\ Append(front, line) \in Seq(Seq(S))
       /\ Append(k, c) \in Seq(S) /\ Append(line, c) \in Seq(S)
       /\ <<c>> \in Seq(S) /\ <<>> \in Seq(S)
  OBVIOUS
<1>12. ShownSoFar(s1)'
  <2> SUFFICES \E raw1, front1 \in Seq(Seq(S)) : \E k1, line1 \in Seq(S) :
                  /\ Raw(text') = Append(raw1, k1)
                  /\ s1[Len(text')] = Append(front1, line1)
                  /\ Matches(raw1, k1, front1, line1)
    BY Zenon DEF ShownSoFar
  <2>1. CASE c = Newline
    <3>1. Raw(text') = Append(Append(raw, k), <<>>)
      BY <1>2, <1>5, <2>1, RawNewline
    <3>2. s1[Len(text')] = Append(Append(front, line), <<>>)
      BY <1>8, <1>9, <2>1
    <3>3. QED
      BY <1>10, <1>11, <3>1, <3>2, Zenon
  <2>2. ASSUME c # Newline
        PROVE  Raw(text') = Append(raw, Append(k, c))
    BY <1>2, <1>5, <2>2, RawLetter
  <2>3. CASE c # Newline /\ Len(line) = kLineWrapLength
    <3>1. s1[Len(text')] = Append(Append(front, line), <<c>>)
      BY <1>8, <1>9, <2>3
    <3>2. Matches(raw, Append(k, c), Append(front, line), <<c>>)
      BY <1>10, <2>3
    <3>3. QED
      BY <1>11, <2>2, <2>3, <3>1, <3>2, Zenon
  <2>4. CASE c # Newline /\ Len(line) # kLineWrapLength
    <3>1. s1[Len(text')] = Append(front, Append(line, c))
      BY <1>8, <1>9, <2>4
    <3>2. Matches(raw, Append(k, c), front, Append(line, c))
      BY <1>10, <2>4
    <3>3. QED
      BY <1>11, <2>2, <2>4, <3>1, <3>2, Zenon
  <2>5. QED
    BY <2>1, <2>3, <2>4
<1>13. (\E s2 : Shows(s2, text) /\ ShownSoFar(s2))'
  BY <1>7, <1>12
<1>14. QED
  BY <1>3, <1>13 DEF WrapInv

(* Where they agree, RawTrace sends what the terminal shows.               *)
LEMMA WrapHolds == WrapInv => WrapsLikeATerminal
<1> SUFFICES ASSUME WrapInv PROVE Lines(text) = Shown(text)
  BY DEF WrapsLikeATerminal
<1> DEFINE S == Characters
<1>1. text \in Seq(S)
  BY DEF WrapInv, IsText, Characters
<1>2. PICK s : Shows(s, text) /\ ShownSoFar(s)
  BY DEF WrapInv
<1>3. PICK raw \in Seq(Seq(S)), front \in Seq(Seq(S)), k \in Seq(S), line \in Seq(S) :
        /\ Raw(text) = Append(raw, k)
        /\ s[Len(text)] = Append(front, line)
        /\ Matches(raw, k, front, line)
  BY <1>2 DEF ShownSoFar
<1>4. Shown(text) = IF line = <<>> THEN SkipEmpty(front) ELSE Append(SkipEmpty(front), line)
  <2>1. Shown(text) = SkipEmpty(Append(front, line))
    BY <1>1, <1>2, <1>3, ShownIs
  <2>2. QED
    BY <2>1, SkipEmptyAppend
<1>5. Lines(text) = IF k = <<>> THEN Sent(raw) ELSE Sent(raw) \o Subparts(k)
  <2>1. Lines(text) = Sent(Append(raw, k))
    BY <1>3, LinesSent
  <2>2. QED
    BY <2>1, SentAppend
<1>6. CASE k = <<>>
  BY <1>3, <1>4, <1>5, <1>6 DEF Matches
<1>7. CASE k # <<>>
  <2>1. line # <<>>
    BY <1>3, <1>7 DEF Matches
  <2>2. PICK f \in Seq(Seq(S)) : /\ Subparts(k) = Append(f, line)
                                 /\ SkipEmpty(front) = Sent(raw) \o f
    BY <1>3, <1>7 DEF Matches
  <2>3. Sent(raw) \in Seq(Seq(S))
    BY SentType
  <2>4. Sent(raw) \o Append(f, line) = Append(Sent(raw) \o f, line)
    <3> DEFINE T == Seq(S)
    <3>1. line \in T /\ Sent(raw) \in Seq(T) /\ f \in Seq(T)
      BY <2>3
    <3> HIDE DEF T
    <3>2. QED
      BY <3>1, AppendAfter, SMTT(30)
  <2>5. QED
    BY <1>4, <1>5, <1>7, <2>1, <2>2, <2>4
<1>8. QED
  BY <1>6, <1>7

(* For every width and every message, however long and wherever its        *)
(* newlines fall, RawTrace sends the lines a terminal of that width would  *)
(* show.                                                                   *)
THEOREM Wraps == Spec => []WrapsLikeATerminal
BY WrapInit, WrapStep, WrapHolds, PTL DEF Spec
=============================================================================
