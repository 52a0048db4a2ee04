--------------------------- MODULE Filters_proofs ---------------------------
(***************************************************************************)
(* What Filter returns, for all sequences and sets.  The recursive         *)
(* function behind it is well defined (PrimitiveRecursion), and its        *)
(* properties follow by induction on the length; both rest on the least    *)
(* element of a set of naturals (WFMin), which needs no operator as a      *)
(* parameter.                                                              *)
(***************************************************************************)
EXTENDS Filters, SequenceTheorems, WellFoundedInduction, TLAPS

-----------------------------------------------------------------------------
(* Induction and recursion.                                                *)

(* Induction over the naturals, with a set for the property: from the     *)
(* least element of what is not in it.                                     *)
LEMMA SetInduction ==
    ASSUME NEW T, 0 \in T, \A n \in Nat : n \in T => n + 1 \in T
    PROVE  \A n \in Nat : n \in T
  <1>. DEFINE R == OpToRel(<, Nat)
              M == Nat \ T
  <1>1. IsWellFoundedOn(R, Nat)
    BY NatLessThanWellFounded
  <1>2. SUFFICES ASSUME M # {} PROVE FALSE
    OBVIOUS
  <1>3. PICK m \in M : \A y \in M : ~ (<<y, m>> \in R)
    <2>. HIDE DEF R
    <2>. QED BY <1>1, <1>2, WFMin, Zenon
  <1>4. m \in Nat /\ m # 0 /\ m - 1 \in Nat
    OBVIOUS
  <1>5. m - 1 \notin T
    BY <1>4
  <1>6. <<m - 1, m>> \in R
    BY <1>4 DEF OpToRel
  <1>. QED BY <1>3, <1>4, <1>5, <1>6

(* f starts at base and goes on by step.                                   *)
IsRecursive(f, V, base, step) ==
    f \in [Nat -> V] /\ f[0] = base /\ \A n \in Nat : f[n + 1] = step[<<f[n], n + 1>>]

(* There is such a function, for every base and every step: the union of   *)
(* its beginnings.                                                         *)
LEMMA PrimitiveRecursion ==
    ASSUME NEW V, NEW base \in V, NEW step \in [V \X Nat -> V]
    PROVE  \E f : IsRecursive(f, V, base, step)
  <1>. DEFINE Upto(g, n) == /\ g \in [0..n -> V] /\ g[0] = base
                            /\ \A i \in 0..(n - 1) : g[i + 1] = step[<<g[i], i + 1>>]
              D == {n \in Nat : \E g : Upto(g, n)}
  <1>1. 0 \in D
    <2>1. Upto([i \in 0..0 |-> base], 0)
      OBVIOUS
    <2>. QED BY <2>1
  <1>2. ASSUME NEW n \in Nat, n \in D PROVE n + 1 \in D
    <2>1. PICK g : Upto(g, n)
      BY <1>2
    <2>. DEFINE h == [i \in 0..(n + 1) |-> IF i <= n THEN g[i] ELSE step[<<g[n], n + 1>>]]
    <2>2. g[n] \in V /\ step[<<g[n], n + 1>>] \in V
      BY <2>1
    <2>3. h \in [0..(n + 1) -> V]
      BY <2>1, <2>2
    <2>4. h[0] = base /\ h[n + 1] = step[<<g[n], n + 1>>] /\ \A i \in 0..n : h[i] = g[i]
      BY <2>1
    <2>5. ASSUME NEW i \in 0..n PROVE h[i + 1] = step[<<h[i], i + 1>>]
      <3>1. CASE i = n
        BY <2>4, <3>1
      <3>2. CASE i # n
        <4>1. i \in 0..(n - 1) /\ i + 1 \in 0..n
          BY <3>2
        <4>. HIDE DEF h
        <4>. QED BY <2>1, <2>4, <4>1
      <3>. QED BY <3>1, <3>2
    <2>6. Upto(h, n + 1)
      <3>. HIDE DEF h
      <3>. QED BY <2>3, <2>4, <2>5
    <2>. HIDE DEF h
    <2>. QED BY <2>6
  <1>3. \A n \in Nat : n \in D
    <2>. HIDE DEF D
    <2>. QED BY <1>1, <1>2, SetInduction, Zenon
  <1>4. ASSUME NEW n \in Nat, NEW m \in Nat, NEW g, NEW h, Upto(g, n), Upto(h, m)
        PROVE  \A i \in Nat : i <= n /\ i <= m => g[i] = h[i]
    <2>. DEFINE E == {i \in Nat : i <= n /\ i <= m => g[i] = h[i]}
    <2>1. 0 \in E
      BY <1>4
    <2>2. ASSUME NEW i \in Nat, i \in E PROVE i + 1 \in E
      <3>. SUFFICES ASSUME i + 1 <= n, i + 1 <= m PROVE g[i + 1] = h[i + 1]
        OBVIOUS
      <3>1. g[i] = h[i] /\ i \in 0..(n - 1) /\ i \in 0..(m - 1)
        BY <2>2
      <3>. QED BY <1>4, <3>1
    <2>3. \A i \in Nat : i \in E
      <3>. HIDE DEF E
      <3>. QED BY <2>1, <2>2, SetInduction, Zenon
    <2>. QED BY <2>3
  <1>. DEFINE G(n) == CHOOSE g : Upto(g, n)
              f == [n \in Nat |-> G(n)[n]]
  <1>5. ASSUME NEW n \in Nat PROVE Upto(G(n), n)
    <2>1. \E g : Upto(g, n)
      BY <1>3
    <2>. HIDE DEF Upto
    <2>. QED BY <2>1
  <1>6. f \in [Nat -> V]
    <2>1. ASSUME NEW n \in Nat PROVE G(n)[n] \in V
      <3>. HIDE DEF G
      <3>. QED BY <1>5
    <2>. HIDE DEF G
    <2>. QED BY <2>1
  <1>7. f[0] = base
    <2>1. Upto(G(0), 0)
      <3>. HIDE DEF G, Upto
      <3>. QED BY <1>5
    <2>2. G(0)[0] = base
      <3>. HIDE DEF G
      <3>. QED BY <2>1
    <2>. HIDE DEF G
    <2>. QED BY <2>2
  <1>8. ASSUME NEW n \in Nat PROVE f[n + 1] = step[<<f[n], n + 1>>]
    <2>1. Upto(G(n), n) /\ Upto(G(n + 1), n + 1)
      <3>1. n + 1 \in Nat
        OBVIOUS
      <3>. HIDE DEF G, Upto
      <3>. QED BY <1>5, <3>1
    <2>2. G(n)[n] = G(n + 1)[n]
      <3>. HIDE DEF Upto, G
      <3>. QED BY <1>4, <2>1
    <2>3. G(n + 1)[n + 1] = step[<<G(n + 1)[n], n + 1>>]
      <3>. HIDE DEF G
      <3>. QED BY <2>1
    <2>. HIDE DEF G, Upto
    <2>. QED BY <2>2, <2>3
  <1>9. IsRecursive(f, V, base, step)
    <2>. HIDE DEF f
    <2>. QED BY <1>6, <1>7, <1>8 DEF IsRecursive
  <1>. QED BY <1>9

(* A sequence is one over any set its elements are in.                     *)
LEMMA SeqOfElements ==
    ASSUME NEW S, NEW s \in Seq(S), NEW T, \A i \in 1..Len(s) : s[i] \in T
    PROVE  s \in Seq(T)
  OBVIOUS

(* The elements of a concatenation and of a part of a sequence.            *)
LEMMA ConcatParts ==
    ASSUME NEW S, NEW a \in Seq(S), NEW b \in Seq(S)
    PROVE  /\ a \o b \in Seq(S) /\ Len(a) \in Nat /\ Len(b) \in Nat
           /\ Len(a \o b) = Len(a) + Len(b)
           /\ \A i \in 1..Len(a) : (a \o b)[i] = a[i]
           /\ \A i \in 1..Len(b) : (a \o b)[Len(a) + i] = b[i]
  BY ConcatProperties

(* Of a part, the elements are those behind where it begins.               *)
LEMMA SubSeqParts ==
    ASSUME NEW S, NEW s \in Seq(S), NEW k \in 0..Len(s), NEW n \in k..Len(s)
    PROVE  /\ SubSeq(s, k + 1, n) \in Seq(S) /\ Len(SubSeq(s, k + 1, n)) = n - k
           /\ \A i \in 1..(n - k) : SubSeq(s, k + 1, n)[i] = s[k + i]
  <1>. DEFINE m == k + 1
              part == SubSeq(s, m, n)
  <1>1. m \in Int /\ n \in Int /\ k \in Int /\ \A i \in m..n : s[i] \in S
    BY LenProperties
  <1>2. /\ part \in Seq(S) /\ Len(part) = IF m <= n THEN n - m + 1 ELSE 0
        /\ \A i \in 1..(n - m + 1) : part[i] = s[m + i - 1]
    <2>. HIDE DEF m
    <2>. QED BY <1>1, SubSeqProperties
  <1>3. n - m + 1 = n - k /\ (m > n => n - k = 0)
    BY <1>1, LenProperties
  <1>. HIDE DEF part
  <1>4. ASSUME NEW i \in 1..(n - k) PROVE part[i] = s[k + i]
    <2>1. m + i - 1 = k + i
      BY <1>1
    <2>2. part[i] = s[m + i - 1]
      <3>. HIDE DEF m
      <3>. QED BY <1>2, <1>3
    <2>. QED BY <2>1, <2>2
  <1>. QED BY <1>1, <1>2, <1>3, <1>4 DEF part

(* What is left when the first k elements of a are taken off a \o b.       *)
LEMMA DropFromFirst ==
    ASSUME NEW S, NEW a \in Seq(S), NEW b \in Seq(S), NEW k \in 0..Len(a)
    PROVE  SubSeq(a, k + 1, Len(a)) \o b = SubSeq(a \o b, k + 1, Len(a \o b))
  <1>. DEFINE ab == a \o b
              rest == SubSeq(a, k + 1, Len(a))
              left == rest \o b
              right == SubSeq(ab, k + 1, Len(ab))
  <1>1. /\ ab \in Seq(S) /\ Len(ab) = Len(a) + Len(b) /\ Len(a) \in Nat /\ Len(b) \in Nat
        /\ \A i \in 1..Len(a) : ab[i] = a[i]
        /\ \A i \in 1..Len(b) : ab[Len(a) + i] = b[i]
    BY ConcatParts
  <1>. HIDE DEF ab
  <1>2. /\ rest \in Seq(S) /\ Len(rest) = Len(a) - k
        /\ \A i \in 1..(Len(a) - k) : rest[i] = a[k + i]
    <2>1. Len(a) \in k..Len(a)
      BY <1>1
    <2>. QED BY <2>1, SubSeqParts
  <1>3. /\ right \in Seq(S) /\ Len(right) = Len(a) + Len(b) - k
        /\ \A i \in 1..(Len(a) + Len(b) - k) : right[i] = ab[k + i]
    <2>. DEFINE n == Len(ab)
    <2>1. k \in 0..n /\ n \in k..n /\ n = Len(a) + Len(b)
      BY <1>1
    <2>2. /\ right \in Seq(S) /\ Len(right) = n - k
          /\ \A i \in 1..(n - k) : right[i] = ab[k + i]
      BY <1>1, <2>1, SubSeqParts
    <2>. HIDE DEF right, n
    <2>. QED BY <2>1, <2>2
  <1>. HIDE DEF rest, right
  <1>4. /\ left \in Seq(S) /\ Len(left) = Len(a) + Len(b) - k
        /\ \A i \in 1..(Len(a) - k) : left[i] = rest[i]
        /\ \A i \in 1..Len(b) : left[Len(a) - k + i] = b[i]
    <2>1. /\ left \in Seq(S) /\ Len(left) = Len(rest) + Len(b)
          /\ \A i \in 1..Len(rest) : left[i] = rest[i]
          /\ \A i \in 1..Len(b) : left[Len(rest) + i] = b[i]
      <3>1. left = rest \o b /\ rest \in Seq(S)
        BY <1>2
      <3>. HIDE DEF left
      <3>. QED BY <3>1, ConcatParts
    <2>. HIDE DEF left
    <2>. QED BY <1>1, <1>2, <2>1
  <1>. HIDE DEF left
  <1>5. ASSUME NEW i \in 1..Len(left) PROVE left[i] = right[i]
    <2>1. CASE i <= Len(a) - k
      BY <1>1, <1>2, <1>3, <1>4, <2>1
    <2>2. CASE i > Len(a) - k
      <3>. DEFINE j == i - (Len(a) - k)
      <3>1. j \in 1..Len(b) /\ i = Len(a) - k + j /\ k + i = Len(a) + j
        BY <1>1, <1>4, <2>2
      <3>. HIDE DEF j
      <3>. QED BY <1>1, <1>3, <1>4, <3>1
    <2>. QED BY <1>1, <1>4, <2>1, <2>2
  <1>6. left = right
    BY <1>3, <1>4, <1>5, SeqEqual
  <1>. QED BY <1>6 DEF left, right, rest, ab

(* The rest of a rest is a rest, and a rest grows as its sequence does.    *)
LEMMA RestOfRest ==
    ASSUME NEW S, NEW s \in Seq(S), NEW n \in 0..Len(s), NEW k \in 0..n,
           NEW u, u = SubSeq(s, k + 1, n), NEW j \in 0..Len(u)
    PROVE  /\ u \in Seq(S) /\ Len(u) = n - k
           /\ k + j \in 0..n /\ SubSeq(u, j + 1, Len(u)) = SubSeq(s, (k + j) + 1, n)
           /\ \A i \in 1..Len(u) : k + i \in 1..n /\ u[i] = s[k + i]
  <1>. DEFINE m == Len(s)
              l == Len(u)
              left == SubSeq(u, j + 1, l)
              right == SubSeq(s, (k + j) + 1, n)
  <1>1. m \in Nat /\ n \in 0..m /\ k \in 0..n
    BY LenProperties
  <1>. HIDE DEF m
  <1>2. /\ u \in Seq(S) /\ l = n - k
        /\ \A i \in 1..(n - k) : u[i] = s[k + i]
    <2>1. k \in 0..m /\ n \in k..m
      BY <1>1
    <2>. QED BY <2>1, SubSeqParts DEF m
  <1>3. l \in Nat /\ j \in 0..l
    BY <1>1, <1>2
  <1>. HIDE DEF l
  <1>4. k + j \in 0..n
    BY <1>1, <1>2, <1>3
  <1>5. /\ left \in Seq(S) /\ Len(left) = l - j
        /\ \A i \in 1..(l - j) : left[i] = u[j + i]
    <2>1. j \in 0..l /\ l \in j..l
      BY <1>3
    <2>. QED BY <1>2, <2>1, SubSeqParts DEF l
  <1>6. /\ right \in Seq(S) /\ Len(right) = n - (k + j)
        /\ \A i \in 1..(n - (k + j)) : right[i] = s[(k + j) + i]
    <2>1. k + j \in 0..m /\ n \in (k + j)..m
      BY <1>1, <1>4
    <2>. QED BY <2>1, SubSeqParts DEF m
  <1>. HIDE DEF left, right
  <1>7. \A i \in 1..(l - j) : left[i] = right[i]
    <2>. SUFFICES ASSUME NEW i \in 1..(l - j) PROVE left[i] = right[i]
      OBVIOUS
    <2>1. j + i \in 1..(n - k) /\ i \in 1..(n - (k + j)) /\ k + (j + i) = (k + j) + i
      BY <1>1, <1>2, <1>3
    <2>. QED BY <1>2, <1>5, <1>6, <2>1
  <1>8. left = right
    <2>1. l - j = n - (k + j)
      BY <1>1, <1>2, <1>3
    <2>. QED BY <1>5, <1>6, <1>7, <2>1, SeqEqual
  <1>9. \A i \in 1..l : k + i \in 1..n /\ u[i] = s[k + i]
    BY <1>1, <1>2
  <1>. QED BY <1>2, <1>4, <1>8, <1>9 DEF left, right, l

(* The same with what is behind the first k of n elements under a name.    *)
Behind(s, k, n) == SubSeq(s, k + 1, n)

(* What is behind j elements of what is behind k.                          *)
LEMMA BehindBehind ==
    ASSUME NEW S, NEW s \in Seq(S), NEW n \in 0..Len(s), NEW k \in 0..n,
           NEW u, u = Behind(s, k, n), NEW j \in 0..Len(u)
    PROVE  k + j \in 0..n /\ Behind(u, j, Len(u)) = Behind(s, k + j, n)
  BY RestOfRest DEF Behind

(* A part grows by the element that follows it.                            *)
LEMMA RestGrows ==
    ASSUME NEW S, NEW s \in Seq(S), NEW n \in 0..(Len(s) - 1), NEW k \in 0..n
    PROVE  Append(SubSeq(s, k + 1, n), s[n + 1]) = SubSeq(s, k + 1, n + 1)
  <1>1. Len(s) \in Nat /\ k + 1 \in 1..Len(s) /\ n + 1 \in (k + 1)..Len(s) /\ (n + 1) - 1 = n
        /\ k \in 0..Len(s) /\ n \in k..Len(s)
    BY LenProperties
  <1>2. SubSeq(s, k + 1, n + 1) = SubSeq(s, k + 1, (n + 1) - 1) \o <<s[n + 1]>>
    BY <1>1, SubSeqRecursiveSecond
  <1>3. SubSeq(s, k + 1, n) \in Seq(S) /\ s[n + 1] \in S
    BY <1>1, SubSeqParts, ElementOfSeq
  <1>4. Append(SubSeq(s, k + 1, n), s[n + 1]) = SubSeq(s, k + 1, n) \o <<s[n + 1]>>
    BY <1>3, AppendIsConcat
  <1>. QED BY <1>1, <1>2, <1>4

-----------------------------------------------------------------------------
(* Filter.                                                                 *)

(* What Kept computes, position by position.                               *)
LEMMA KeptDef ==
    ASSUME NEW S, NEW s \in Seq(S), NEW T
    PROVE  /\ Kept(s, T)[0] = <<>>
           /\ \A n \in 1..Len(s) :
                 Kept(s, T)[n] = IF s[n] \in T THEN Append(Kept(s, T)[n - 1], s[n])
                                 ELSE Kept(s, T)[n - 1]
  <1>. DEFINE Def(g) == [n \in Nat |-> IF n = 0 THEN <<>>
                                       ELSE IF s[n] \in T THEN Append(g[n - 1], s[n]) ELSE g[n - 1]]
  <1>1. \E g : g = Def(g)
    <2>. DEFINE V == Seq(S \cup {s[n] : n \in Nat})
                step == [p \in V \X Nat |-> IF s[p[2]] \in T THEN Append(p[1], s[p[2]]) ELSE p[1]]
    <2>1. <<>> \in V
      OBVIOUS
    <2>2. step \in [V \X Nat -> V]
      <3>1. ASSUME NEW p \in V \X Nat PROVE (IF s[p[2]] \in T THEN Append(p[1], s[p[2]]) ELSE p[1]) \in V
        <4>1. p[1] \in V /\ s[p[2]] \in S \cup {s[n] : n \in Nat}
          OBVIOUS
        <4>. QED BY <4>1, AppendProperties
      <3>. QED BY <3>1
    <2>3. PICK g : IsRecursive(g, V, <<>>, step)
      <3>. HIDE DEF V, step
      <3>. QED BY <2>1, <2>2, PrimitiveRecursion, Zenon
    <2>4. ASSUME NEW n \in Nat, n # 0
          PROVE  g[n] = IF s[n] \in T THEN Append(g[n - 1], s[n]) ELSE g[n - 1]
      <3>1. n - 1 \in Nat /\ (n - 1) + 1 = n
        BY <2>4
      <3>2. g[n] = step[<<g[n - 1], n>>]
        <4>. HIDE DEF step, V
        <4>. QED BY <2>3, <3>1 DEF IsRecursive
      <3>3. <<g[n - 1], n>> \in V \X Nat
        <4>. HIDE DEF V
        <4>. QED BY <2>3, <3>1 DEF IsRecursive
      <3>4. step[<<g[n - 1], n>>] = IF s[n] \in T THEN Append(g[n - 1], s[n]) ELSE g[n - 1]
        <4>. HIDE DEF V
        <4>. QED BY <3>3
      <3>. QED BY <3>2, <3>4
    <2>5. g = Def(g)
      <3>. HIDE DEF V, step
      <3>. QED BY <2>3, <2>4 DEF IsRecursive
    <2>. QED BY <2>5
  <1>2. Kept(s, T) = Def(Kept(s, T))
    <2>1. Kept(s, T) = CHOOSE g : g = Def(g)
      BY DEF Kept
    <2>. HIDE DEF Def
    <2>. QED BY <1>1, <2>1
  <1>3. \A n \in Nat : Kept(s, T)[n] = Def(Kept(s, T))[n]
    <2>. HIDE DEF Def
    <2>. QED BY <1>2
  <1>. QED BY <1>3

(* An induction over the positions of a sequence.                          *)
LEMMA UptoInduction ==
    ASSUME NEW m \in Nat, NEW E, 0 \in E, \A n \in 1..m : n - 1 \in E => n \in E
    PROVE  \A n \in 0..m : n \in E
  <1>. DEFINE D == {n \in Nat : n <= m => n \in E}
  <1>1. 0 \in D
    OBVIOUS
  <1>2. ASSUME NEW n \in Nat, n \in D PROVE n + 1 \in D
    <2>. SUFFICES ASSUME n + 1 <= m PROVE n + 1 \in E
      OBVIOUS
    <2>1. n + 1 \in 1..m /\ (n + 1) - 1 \in E
      BY <1>2
    <2>. QED BY <2>1
  <1>3. \A n \in Nat : n \in D
    <2>. HIDE DEF D
    <2>. QED BY <1>1, <1>2, SetInduction, Zenon
  <1>. QED BY <1>3

(* The same, for one position.                                             *)
LEMMA KeptStep ==
    ASSUME NEW S, NEW s \in Seq(S), NEW T, NEW n \in 1..Len(s)
    PROVE  Kept(s, T)[n] = IF s[n] \in T THEN Append(Kept(s, T)[n - 1], s[n])
                           ELSE Kept(s, T)[n - 1]
  BY KeptDef

(* The beginnings of what is kept are sequences of elements in the set.    *)
LEMMA KeptType ==
    ASSUME NEW S, NEW s \in Seq(S), NEW T
    PROVE  \A n \in 0..Len(s) : Kept(s, T)[n] \in Seq(S \cap T)
  <1>. DEFINE E == {n \in 0..Len(s) : Kept(s, T)[n] \in Seq(S \cap T)}
  <1>1. 0 \in E
    <2>1. Kept(s, T)[0] = <<>> /\ 0 \in 0..Len(s)
      BY KeptDef, LenProperties
    <2>. QED BY <2>1, EmptySeq
  <1>2. ASSUME NEW n \in 1..Len(s), n - 1 \in E PROVE n \in E
    <2>1. s[n] \in S
      BY ElementOfSeq
    <2>2. CASE s[n] \in T
      <3>1. Kept(s, T)[n] = Append(Kept(s, T)[n - 1], s[n])
        BY <2>2, KeptStep
      <3>2. Kept(s, T)[n - 1] \in Seq(S \cap T) /\ s[n] \in S \cap T
        BY <1>2, <2>1, <2>2
      <3>3. Append(Kept(s, T)[n - 1], s[n]) \in Seq(S \cap T)
        BY <3>2, AppendProperties
      <3>4. n \in 0..Len(s)
        BY LenProperties
      <3>. QED BY <3>1, <3>3, <3>4
    <2>3. CASE s[n] \notin T
      <3>1. Kept(s, T)[n] = Kept(s, T)[n - 1]
        BY <2>3, KeptStep
      <3>. QED BY <1>2, <3>1
    <2>. QED BY <2>2, <2>3
  <1>3. \A n \in 0..Len(s) : n \in E
    <2>1. Len(s) \in Nat
      OBVIOUS
    <2>. HIDE DEF E
    <2>. QED BY <1>1, <1>2, <2>1, UptoInduction, Zenon
  <1>. QED BY <1>3

(* Only elements of the sequence, and only those in the set.               *)
LEMMA FilterType ==
    ASSUME NEW S, NEW s \in Seq(S), NEW T
    PROVE  Filter(s, T) \in Seq(S \cap T)
  <1>1. Len(s) \in 0..Len(s)
    BY LenProperties
  <1>. QED BY <1>1, KeptType DEF Filter

(* Nothing of nothing; of one element that or nothing.                     *)
LEMMA FilterShort ==
    ASSUME NEW T, NEW x
    PROVE  Filter(<<>>, T) = <<>> /\ Filter(<<x>>, T) = IF x \in T THEN <<x>> ELSE <<>>
  <1>1. Filter(<<>>, T) = <<>>
    <2>1. <<>> \in Seq({})
      OBVIOUS
    <2>. QED BY <2>1, KeptDef DEF Filter
  <1>. DEFINE one == <<x>>
  <1>2. one \in Seq({x}) /\ Len(one) = 1 /\ one[1] = x /\ Append(<<>>, x) = one
    OBVIOUS
  <1>. HIDE DEF one
  <1>3. Kept(one, T)[0] = <<>>
    BY <1>2, KeptDef
  <1>4. Kept(one, T)[1] = IF one[1] \in T THEN Append(Kept(one, T)[1 - 1], one[1])
                          ELSE Kept(one, T)[1 - 1]
    <2>1. 1 \in 1..Len(one)
      BY <1>2
    <2>. QED BY <1>2, <2>1, KeptStep
  <1>5. Filter(one, T) = IF x \in T THEN one ELSE <<>>
    <2>1. Kept(one, T)[1 - 1] = <<>>
      BY <1>3
    <2>2. Kept(one, T)[1] = IF x \in T THEN one ELSE <<>>
      BY <1>2, <1>4, <2>1
    <2>. QED BY <1>2, <2>2 DEF Filter
  <1>. QED BY <1>1, <1>5 DEF one

(* Concatenation and Append under names of their own: a backend takes the  *)
(* built-in operators apart before it could use an equation about them.    *)
Joined(a, b) == a \o b
Attach(a, x) == Append(a, x)

(* What is appended to a concatenation is appended to its second part.      *)
LEMMA AttachJoined ==
    ASSUME NEW S, NEW a \in Seq(S), NEW b \in Seq(S), NEW x \in S
    PROVE  Attach(Joined(a, b), x) = Joined(a, Attach(b, x))
  BY DEF Joined, Attach

(* So does concatenation: it does not matter where the parts are joined.   *)
LEMMA JoinedJoined ==
    ASSUME NEW S, NEW a \in Seq(S), NEW b \in Seq(S), NEW c \in Seq(S)
    PROVE  Joined(Joined(a, b), c) = Joined(a, Joined(b, c))
  BY ConcatAssociative DEF Joined

(* Attaching one element is joining a sequence of one.                     *)
LEMMA AttachIsJoined ==
    ASSUME NEW S, NEW a \in Seq(S), NEW x \in S
    PROVE  Attach(a, x) = Joined(a, <<x>>)
  BY AppendIsConcat DEF Joined, Attach

(* Joining keeps the type, and an empty sequence changes nothing.          *)
LEMMA JoinedType ==
    ASSUME NEW S, NEW a \in Seq(S), NEW b \in Seq(S)
    PROVE  /\ Joined(a, b) \in Seq(S) /\ Joined(a, <<>>) = a /\ Joined(<<>>, b) = b
  BY ConcatProperties, ConcatEmptySeq DEF Joined

(* The first element of what begins with x is x.                           *)
LEMMA JoinedFirst ==
    ASSUME NEW S, NEW x \in S, NEW b \in Seq(S)
    PROVE  /\ Joined(<<x>>, b) # <<>> /\ Joined(<<x>>, b)[1] = x /\ Tail(Joined(<<x>>, b)) = b
  BY DEF Joined

(* Filter distributes over concatenation.                                  *)
LEMMA FilterConcat ==
    ASSUME NEW S, NEW s \in Seq(S), NEW t \in Seq(S), NEW T
    PROVE  Filter(s \o t, T) = Filter(s, T) \o Filter(t, T)
  <1>. DEFINE st == s \o t
              E == {n \in 0..Len(s) : Kept(st, T)[n] = Kept(s, T)[n]}
              F == {n \in 0..Len(t) : Kept(st, T)[Len(s) + n] = Filter(s, T) \o Kept(t, T)[n]}
  <1>1. /\ st \in Seq(S) /\ Len(st) = Len(s) + Len(t)
        /\ Len(s) \in Nat /\ Len(t) \in Nat
        /\ \A n \in 1..Len(s) : st[n] = s[n]
        /\ \A n \in 1..Len(t) : st[Len(s) + n] = t[n]
    BY ConcatProperties
  <1>. HIDE DEF st
  <1>2. 0 \in E
    BY <1>1, KeptDef
  <1>3. ASSUME NEW n \in 1..Len(s), n - 1 \in E PROVE n \in E
    <2>1. Kept(s, T)[n] = IF s[n] \in T THEN Append(Kept(s, T)[n - 1], s[n]) ELSE Kept(s, T)[n - 1]
      BY KeptStep
    <2>2. Kept(st, T)[n] = IF st[n] \in T THEN Append(Kept(st, T)[n - 1], st[n]) ELSE Kept(st, T)[n - 1]
      <3>1. n \in 1..Len(st) /\ st \in Seq(S)
        BY <1>1
      <3>. QED BY <3>1, KeptStep
    <2>3. Kept(st, T)[n - 1] = Kept(s, T)[n - 1] /\ st[n] = s[n]
      BY <1>1, <1>3
    <2>. QED BY <2>1, <2>2, <2>3
  <1>4. \A n \in 0..Len(s) : n \in E
    <2>. HIDE DEF E
    <2>. QED BY <1>1, <1>2, <1>3, UptoInduction, Zenon
  <1>5. 0 \in F
    <2>1. Kept(st, T)[Len(s)] = Filter(s, T)
      BY <1>1, <1>4 DEF Filter
    <2>2. Filter(s, T) \o <<>> = Filter(s, T)
      BY FilterType, ConcatEmptySeq
    <2>3. Kept(t, T)[0] = <<>> /\ 0 \in 0..Len(t) /\ Len(s) + 0 = Len(s)
      BY <1>1, KeptDef
    <2>. QED BY <2>1, <2>2, <2>3
  <1>6. ASSUME NEW n \in 1..Len(t), n - 1 \in F PROVE n \in F
    <2>1. Kept(t, T)[n] = IF t[n] \in T THEN Append(Kept(t, T)[n - 1], t[n]) ELSE Kept(t, T)[n - 1]
      BY KeptStep
    <2>2. /\ Len(s) + n \in 1..Len(st) /\ (Len(s) + n) - 1 = Len(s) + (n - 1)
          /\ st[Len(s) + n] = t[n]
      BY <1>1
    <2>3. Kept(st, T)[Len(s) + n] = IF t[n] \in T THEN Append(Kept(st, T)[Len(s) + (n - 1)], t[n])
                                   ELSE Kept(st, T)[Len(s) + (n - 1)]
      <3>1. PICK k \in 1..Len(st) : k = Len(s) + n
        BY <2>2
      <3>2. st \in Seq(S)
        BY <1>1
      <3>. HIDE <2>2, <3>1
      <3>3. Kept(st, T)[k] = IF st[k] \in T THEN Append(Kept(st, T)[k - 1], st[k])
                             ELSE Kept(st, T)[k - 1]
        BY <3>2, KeptStep
      <3>. QED BY <2>2, <3>1, <3>3
    <2>4. Kept(st, T)[Len(s) + (n - 1)] = Filter(s, T) \o Kept(t, T)[n - 1]
      BY <1>6
    <2>5. /\ Filter(s, T) \in Seq(S) /\ Kept(t, T)[n - 1] \in Seq(S) /\ t[n] \in S
      <3>1. Filter(s, T) \in Seq(S \cap T)
        BY FilterType
      <3>2. Kept(t, T)[n - 1] \in Seq(S \cap T)
        <4>1. n - 1 \in 0..Len(t)
          BY <1>1
        <4>. QED BY <4>1, KeptType
      <3>3. Seq(S \cap T) \subseteq Seq(S)
        BY SeqMonotonic
      <3>. QED BY <3>1, <3>2, <3>3, ElementOfSeq
    <2>6. Append(Filter(s, T) \o Kept(t, T)[n - 1], t[n]) = Filter(s, T) \o Append(Kept(t, T)[n - 1], t[n])
      <3>1. Attach(Joined(Filter(s, T), Kept(t, T)[n - 1]), t[n])
              = Joined(Filter(s, T), Attach(Kept(t, T)[n - 1], t[n]))
        BY <2>5, AttachJoined
      <3>. QED BY <3>1 DEF Joined, Attach
    <2>7. n \in 0..Len(t)
      BY <1>1
    <2>8. Kept(st, T)[Len(s) + n] = Filter(s, T) \o Kept(t, T)[n]
      <3>1. CASE t[n] \in T
        BY <2>1, <2>3, <2>4, <2>6, <3>1
      <3>2. CASE t[n] \notin T
        BY <2>1, <2>3, <2>4, <3>2
      <3>. QED BY <3>1, <3>2
    <2>. QED BY <2>7, <2>8
  <1>7. \A n \in 0..Len(t) : n \in F
    <2>. HIDE DEF F
    <2>. QED BY <1>1, <1>5, <1>6, UptoInduction, Zenon
  <1>8. Kept(st, T)[Len(s) + Len(t)] = Filter(s, T) \o Kept(t, T)[Len(t)]
    BY <1>1, <1>7
  <1>. QED BY <1>1, <1>8 DEF Filter, st

(* The same in terms of Joined.                                            *)
LEMMA FilterJoined ==
    ASSUME NEW S, NEW s \in Seq(S), NEW t \in Seq(S), NEW T
    PROVE  Filter(Joined(s, t), T) = Joined(Filter(s, T), Filter(t, T))
  BY FilterConcat DEF Joined

(* One element more, at the end.                                           *)
LEMMA FilterAppend ==
    ASSUME NEW S, NEW s \in Seq(S), NEW x \in S, NEW T
    PROVE  Filter(Append(s, x), T) = IF x \in T THEN Append(Filter(s, T), x) ELSE Filter(s, T)
  <1>. DEFINE one == <<x>>
  <1>1. one \in Seq(S) /\ Append(s, x) = s \o one
    BY AppendIsConcat
  <1>2. Filter(one, T) = IF x \in T THEN one ELSE <<>>
    BY FilterShort, Zenon
  <1>3. Filter(s \o one, T) = Filter(s, T) \o Filter(one, T)
    <2>. HIDE DEF one
    <2>. QED BY <1>1, FilterConcat
  <1>4. Filter(s, T) \in Seq(S \cap T)
    BY FilterType
  <1>5. CASE x \in T
    <2>1. Append(Filter(s, T), x) = Filter(s, T) \o one
      BY <1>4, <1>5, AppendIsConcat
    <2>. HIDE DEF one
    <2>. QED BY <1>1, <1>2, <1>3, <1>5, <2>1
  <1>6. CASE x \notin T
    <2>1. Filter(s, T) \o <<>> = Filter(s, T)
      BY <1>4, ConcatEmptySeq
    <2>. HIDE DEF one
    <2>. QED BY <1>1, <1>2, <1>3, <1>6, <2>1
  <1>. QED BY <1>5, <1>6

(* A sequence is its first element and the rest.                           *)
LEMMA FirstAndRest ==
    ASSUME NEW S, NEW s \in Seq(S), s # <<>>
    PROVE  s = <<Head(s)>> \o Tail(s)
  <1>1. s = SubSeq(s, 1, Len(s)) /\ Len(s) \in Nat /\ Len(s) # 0
    BY SubSeqFull, EmptySeq
  <1>2. SubSeq(s, 1, Len(s)) = <<s[1]>> \o SubSeq(s, 1 + 1, Len(s))
    BY <1>1, SubSeqRecursiveFirst
  <1>3. Tail(s) = SubSeq(s, 2, Len(s))
    BY TailIsSubSeq
  <1>. QED BY <1>1, <1>2, <1>3

(* What moves from the front of one part to the end of the other stays in  *)
(* its place.                                                              *)
LEMMA AttachFirst ==
    ASSUME NEW S, NEW a \in Seq(S), NEW x \in S, NEW b \in Seq(S)
    PROVE  Joined(Attach(a, x), b) = Joined(a, Joined(<<x>>, b))
  <1>. DEFINE one == <<x>>
  <1>1. one \in Seq(S) /\ Attach(a, x) = Joined(a, one)
    BY AttachIsJoined
  <1>. HIDE DEF one
  <1>2. Joined(Joined(a, one), b) = Joined(a, Joined(one, b))
    BY <1>1, JoinedJoined
  <1>. QED BY <1>1, <1>2 DEF one

(* The first of the second part may as well end the first.                 *)
LEMMA HeadMoves ==
    ASSUME NEW S, NEW a \in Seq(S), NEW b \in Seq(S), b # <<>>
    PROVE  Joined(Attach(a, Head(b)), Tail(b)) = Joined(a, b)
  <1>1. Head(b) \in S /\ Tail(b) \in Seq(S)
    BY HeadTailProperties
  <1>2. b = Joined(<<Head(b)>>, Tail(b))
    BY FirstAndRest DEF Joined
  <1>. DEFINE h == Head(b)
              r == Tail(b)
  <1>3. h \in S /\ r \in Seq(S)
    BY <1>1
  <1>. HIDE DEF h, r
  <1>4. Joined(Attach(a, h), r) = Joined(a, Joined(<<h>>, r))
    BY <1>3, AttachFirst
  <1>. QED BY <1>2, <1>4 DEF h, r

(* The first element is kept or not, and the rest filtered.                *)
LEMMA FilterFirst ==
    ASSUME NEW S, NEW s \in Seq(S), s # <<>>, NEW T
    PROVE  /\ Head(s) \in T => Filter(s, T) = <<Head(s)>> \o Filter(Tail(s), T)
           /\ Head(s) \notin T => Filter(s, T) = Filter(Tail(s), T)
  <1>. DEFINE one == <<Head(s)>>
              t == Tail(s)
  <1>1. one \in Seq(S) /\ t \in Seq(S)
    BY HeadTailProperties
  <1>2. s = one \o t
    BY FirstAndRest
  <1>3. Filter(one, T) = IF Head(s) \in T THEN one ELSE <<>>
    BY FilterShort, Zenon
  <1>4. Filter(one \o t, T) = Filter(one, T) \o Filter(t, T)
    <2>. HIDE DEF one, t
    <2>. QED BY <1>1, FilterConcat
  <1>5. <<>> \o Filter(t, T) = Filter(t, T)
    <2>1. Filter(t, T) \in Seq(S \cap T)
      <3>. HIDE DEF t
      <3>. QED BY <1>1, FilterType
    <2>. QED BY <2>1, ConcatEmptySeq
  <1>. HIDE DEF one, t
  <1>6. Filter(s, T) = Filter(one, T) \o Filter(t, T)
    BY <1>2, <1>4
  <1>. QED BY <1>3, <1>5, <1>6 DEF one, t

-----------------------------------------------------------------------------
(* The elements of a sequence, and what Filter leaves of them.             *)

Elements(s) == {s[i] : i \in 1..Len(s)}

Distinct(s) == \A i, j \in 1..Len(s) : s[i] = s[j] => i = j

(* A function over 1..n is a sequence of its elements.                     *)
LEMMA FunctionIsSeq ==
    ASSUME NEW n \in Nat, NEW f, f = [i \in 1..n |-> f[i]]
    PROVE  f \in Seq(Elements(f)) /\ Len(f) = n
  <1>1. f \in Seq({f[i] : i \in 1..n})
    OBVIOUS
  <1>2. Len(f) = n
    OBVIOUS
  <1>. QED BY <1>1, <1>2 DEF Elements

(* One element more.                                                       *)
LEMMA ElementsOfAppend ==
    ASSUME NEW S, NEW s \in Seq(S), NEW x \in S
    PROVE  /\ Elements(Append(s, x)) = Elements(s) \cup {x}
           /\ Distinct(s) /\ x \notin Elements(s) => Distinct(Append(s, x))
  <1>. DEFINE t == Append(s, x)
              n == Len(s)
  <1>1. /\ n \in Nat /\ Len(t) = n + 1 /\ t[n + 1] = x
        /\ \A i \in 1..n : t[i] = s[i]
    BY AppendProperties, LenProperties
  <1>. HIDE DEF t, n
  <1>2. Elements(t) = {t[i] : i \in 1..(n + 1)} /\ Elements(s) = {s[i] : i \in 1..n}
        /\ (Distinct(s) <=> \A i, j \in 1..n : s[i] = s[j] => i = j)
        /\ (Distinct(t) <=> \A i, j \in 1..(n + 1) : t[i] = t[j] => i = j)
    BY <1>1 DEF Elements, Distinct, n
  <1>3. 1..(n + 1) = 1..n \cup {n + 1}
    BY <1>1
  <1>4. Elements(t) = Elements(s) \cup {x}
    BY <1>1, <1>2, <1>3
  <1>5. ASSUME Distinct(s), x \notin Elements(s), NEW i \in 1..(n + 1), NEW j \in 1..(n + 1),
               t[i] = t[j]
        PROVE  i = j
    BY <1>1, <1>2, <1>3, <1>5
  <1>. QED BY <1>2, <1>4, <1>5 DEF t

(* What is kept of the first n elements are those that are in the set.     *)
LEMMA KeptElements ==
    ASSUME NEW S, NEW s \in Seq(S), NEW T
    PROVE  \A n \in 0..Len(s) : Elements(Kept(s, T)[n]) = {s[i] : i \in 1..n} \cap T
  <1>. DEFINE E == {n \in 0..Len(s) : Elements(Kept(s, T)[n]) = {s[i] : i \in 1..n} \cap T}
              m == Len(s)
  <1>1. m \in Nat
    BY LenProperties
  <1>2. 0 \in E
    BY <1>1, KeptDef DEF Elements
  <1>3. ASSUME NEW n \in 1..m, n - 1 \in E PROVE n \in E
    <2>. DEFINE k == Kept(s, T)[n - 1]
                first(q) == {s[i] : i \in 1..q}
    <2>1. /\ k \in Seq(S \cap T) /\ Elements(k) = first(n - 1) \cap T
          /\ Kept(s, T)[n] = IF s[n] \in T THEN Append(k, s[n]) ELSE k
      <3>1. n - 1 \in 0..Len(s) /\ n \in 1..Len(s)
        BY <1>1
      <3>2. n - 1 \in 0..Len(s) /\ Kept(s, T)[n - 1] \in Seq(S \cap T)
        BY <3>1, KeptType, Zenon
      <3>3. Kept(s, T)[n] = IF s[n] \in T THEN Append(k, s[n]) ELSE k
        BY <3>1, KeptStep
      <3>. QED BY <1>3, <3>2, <3>3
    <2>2. first(n) = first(n - 1) \cup {s[n]}
      <3>1. 1..n = 1..(n - 1) \cup {n}
        BY <1>1
      <3>. QED BY <3>1
    <2>3. s[n] \in S
      BY ElementOfSeq
    <2>. HIDE DEF k, first
    <2>4. Elements(Kept(s, T)[n]) = first(n) \cap T
      <3>1. CASE s[n] \in T
        <4>1. Elements(Append(k, s[n])) = Elements(k) \cup {s[n]}
          BY <2>1, <2>3, <3>1, ElementsOfAppend
        <4>. QED BY <2>1, <2>2, <3>1, <4>1
      <3>2. CASE s[n] \notin T
        BY <2>1, <2>2, <3>2
      <3>. QED BY <3>1, <3>2
    <2>. QED BY <1>1, <2>4 DEF first
  <1>. HIDE DEF E
  <1>4. \A n \in 0..m : n \in E
    BY <1>1, <1>2, <1>3, UptoInduction
  <1>. QED BY <1>4 DEF E, m

(* Filter keeps the elements that are in the set, and no others.           *)
LEMMA FilterElements ==
    ASSUME NEW S, NEW s \in Seq(S), NEW T
    PROVE  Elements(Filter(s, T)) = Elements(s) \cap T
  <1>1. Len(s) \in 0..Len(s)
    BY LenProperties
  <1>2. Elements(Kept(s, T)[Len(s)]) = {s[i] : i \in 1..Len(s)} \cap T
    BY <1>1, KeptElements
  <1>3. Elements(s) = {s[i] : i \in 1..Len(s)}
    BY DEF Elements
  <1>. QED BY <1>2, <1>3 DEF Filter

(* It repeats none that is not repeated.                                   *)
LEMMA FilterDistinct ==
    ASSUME NEW S, NEW s \in Seq(S), Distinct(s), NEW T
    PROVE  Distinct(Filter(s, T))
  <1>. DEFINE E == {n \in 0..Len(s) : Distinct(Kept(s, T)[n])}
              m == Len(s)
  <1>1. m \in Nat
    BY LenProperties
  <1>2. 0 \in E
    BY <1>1, KeptDef DEF Distinct
  <1>3. ASSUME NEW n \in 1..m, n - 1 \in E PROVE n \in E
    <2>. DEFINE k == Kept(s, T)[n - 1]
    <2>1. /\ k \in Seq(S \cap T) /\ Distinct(k)
          /\ Elements(k) = {s[i] : i \in 1..(n - 1)} \cap T
          /\ Kept(s, T)[n] = IF s[n] \in T THEN Append(k, s[n]) ELSE k
      <3>1. n - 1 \in 0..Len(s) /\ n \in 1..Len(s)
        BY <1>1
      <3>2. k \in Seq(S \cap T)
        BY <3>1, KeptType
      <3>3. Elements(k) = {s[i] : i \in 1..(n - 1)} \cap T
        <4>1. \A q \in 0..Len(s) : Elements(Kept(s, T)[q]) = {s[i] : i \in 1..q} \cap T
          <5>. HIDE DEF E, m, k
          <5>. QED BY KeptElements
        <4>. QED BY <3>1, <4>1, Zenon
      <3>4. Kept(s, T)[n] = IF s[n] \in T THEN Append(k, s[n]) ELSE k
        BY <3>1, KeptStep
      <3>5. Distinct(k)
        BY <1>3
      <3>. QED BY <3>2, <3>3, <3>4, <3>5
    <2>2. s[n] \in S
      BY ElementOfSeq
    <2>3. s[n] \notin {s[i] : i \in 1..(n - 1)}
      BY <1>1 DEF Distinct
    <2>. HIDE DEF k
    <2>4. s[n] \in T => Distinct(Append(k, s[n]))
      BY <2>1, <2>2, <2>3, ElementsOfAppend
    <2>. QED BY <1>1, <2>1, <2>4
  <1>. HIDE DEF E
  <1>4. \A n \in 0..m : n \in E
    BY <1>1, <1>2, <1>3, UptoInduction
  <1>. QED BY <1>1, <1>4 DEF E, m, Filter
=============================================================================
