----------------------------- MODULE DataLemmas -----------------------------
(***************************************************************************)
(* Lemmas about numbers and sequences that the proofs of several parts     *)
(* need: least numbers, in place of induction, FlattenSeq and IsPrefix.    *)
(***************************************************************************)
EXTENDS Integers, Sequences, SequencesExt, SequenceTheorems, WellFoundedInduction, TLAPS

\* Any set of numbers that is not empty has a least one.
LEMMA Smallest ==
    ASSUME NEW T, T \subseteq Nat, T # {}
    PROVE  \E x \in T : \A y \in T : x <= y
<1>1. PICK R : R = {ss \in Nat \X Nat : ss[1] < ss[2]}
  OBVIOUS
<1>2. IsWellFoundedOn(R, Nat)
  BY <1>1, NatLessThanWellFounded, Zenon DEF OpToRel
<1>3. \A x, y \in Nat : x < y => <<x, y>> \in R
  BY <1>1
<1>4. PICK x \in T : \A y \in T : <<y, x>> \notin R
  BY <1>2, WFMin, Zenon
<1>5. ASSUME NEW y \in T PROVE x <= y
  <2>1. x \in Nat /\ y \in Nat
    OBVIOUS
  <2>2. ~(y < x)
    BY <1>3, <1>4, <2>1, Zenon
  <2> QED
    BY <2>1, <2>2
<1> QED
  BY <1>5

\* A set that contains 0, and up to n each number with the one before, contains all of them.
LEMMA UpTo ==
    ASSUME NEW n \in Nat, NEW T, 0 \in T, \A i \in 1 .. n : i - 1 \in T => i \in T
    PROVE  \A i \in 0 .. n : i \in T
<1> DEFINE Bad == {i \in 0 .. n : i \notin T}
<1> SUFFICES ASSUME Bad # {} PROVE FALSE
  OBVIOUS
<1>1. PICK m \in Bad : \A j \in Bad : m <= j
  <2>1. Bad \subseteq Nat
    OBVIOUS
  <2> QED
    BY <2>1, Smallest, Zenon
<1>2. m # 0 /\ m - 1 \in 0 .. n - 1 /\ m - 1 \notin Bad
  BY <1>1
<1> QED
  BY <1>1, <1>2

-----------------------------------------------------------------------------
(* FlattenSeq *)

\* the function that FlattenSeq builds, for the first n sequences
IsFlat(f, ss, n) == f = [i \in 1 .. n |-> IF i = 1 THEN ss[i] ELSE f[i-1] \o ss[i]]

LEMMA FlatExists ==
    ASSUME NEW ss, NEW n \in Nat
    PROVE  \E f : IsFlat(f, ss, n)
<1> DEFINE T == {i \in 0 .. n : \E f : IsFlat(f, ss, i)}
<1>1. 0 \in T
  <2>1. IsFlat([i \in 1 .. 0 |-> 0], ss, 0)
    BY DEF IsFlat
  <2> QED
    BY <2>1
<1>2. ASSUME NEW m \in 1 .. n, m - 1 \in T PROVE m \in T
  <2>1. PICK g : IsFlat(g, ss, m - 1)
    BY <1>2
  <2> DEFINE h == [i \in 1 .. m |-> IF i < m THEN g[i]
                                   ELSE IF i = 1 THEN ss[i] ELSE g[i-1] \o ss[i]]
  <2>2. \A i \in 1 .. m - 1 : g[i] = IF i = 1 THEN ss[i] ELSE g[i-1] \o ss[i]
    BY <2>1 DEF IsFlat
  <2>3. \A i \in 1 .. m : h[i] = IF i = 1 THEN ss[i] ELSE h[i-1] \o ss[i]
    BY <2>2
  <2>4. IsFlat(h, ss, m)
    BY <2>3 DEF IsFlat
  <2> HIDE DEF h
  <2> QED
    BY <2>4
<1> QED
  <2> HIDE DEF T
  <2>1. n \in T
    BY <1>1, <1>2, UpTo
  <2> QED
    BY <2>1 DEF T

\* Two such functions agree as far as their sequences do.
LEMMA FlatAgree ==
    ASSUME NEW n \in Nat, NEW k \in Nat, n <= k, NEW ss, NEW tt, NEW f, NEW g,
           IsFlat(f, ss, n), IsFlat(g, tt, k), \A i \in 1 .. n : ss[i] = tt[i]
    PROVE  \A i \in 1 .. n : f[i] = g[i]
<1> DEFINE T == {i \in 0 .. n : i = 0 \/ f[i] = g[i]}
<1>1. 0 \in T
  OBVIOUS
<1>2. ASSUME NEW i \in 1 .. n, i - 1 \in T PROVE i \in T
  <2>1. f[i] = IF i = 1 THEN ss[i] ELSE f[i - 1] \o ss[i]
    BY DEF IsFlat
  <2>2. i \in 1 .. k
    OBVIOUS
  <2>3. g[i] = IF i = 1 THEN tt[i] ELSE g[i - 1] \o tt[i]
    BY <2>2 DEF IsFlat
  <2> QED
    BY <1>2, <2>1, <2>3
<1>3. \A i \in 0 .. n : i \in T
  <2> HIDE DEF T
  <2> QED
    BY <1>1, <1>2, UpTo
<1> QED
  BY <1>3

LEMMA FlatTyped ==
    ASSUME NEW S, NEW n \in Nat, NEW ss, NEW f, IsFlat(f, ss, n), \A i \in 1 .. n : ss[i] \in Seq(S)
    PROVE  \A i \in 1 .. n : f[i] \in Seq(S)
<1> DEFINE T == {i \in 0 .. n : i = 0 \/ f[i] \in Seq(S)}
<1>1. 0 \in T
  OBVIOUS
<1>2. ASSUME NEW i \in 1 .. n, i - 1 \in T PROVE i \in T
  <2>1. f[i] = IF i = 1 THEN ss[i] ELSE f[i - 1] \o ss[i]
    BY DEF IsFlat
  <2>2. ss[i] \in Seq(S)
    OBVIOUS
  <2>3. CASE i = 1
    BY <2>1, <2>2, <2>3
  <2>4. CASE i # 1
    <3>1. f[i - 1] \in Seq(S)
      BY <1>2, <2>4
    <3>2. f[i] = f[i - 1] \o ss[i]
      BY <2>1, <2>4
    <3>3. f[i] \in Seq(S)
      BY <2>2, <3>1, <3>2, ConcatProperties
    <3> QED
      BY <3>3
  <2> QED
    BY <2>3, <2>4
<1>3. \A i \in 0 .. n : i \in T
  <2> HIDE DEF T
  <2> QED
    BY <1>1, <1>2, UpTo
<1> QED
  BY <1>3

\* FlattenSeq takes the value of such a function at the end.
LEMMA FlatValue ==
    ASSUME NEW S, NEW ss \in Seq(S), NEW n \in Nat, n = Len(ss), n > 0
    PROVE  \E f : IsFlat(f, ss, n) /\ FlattenSeq(ss) = f[n]
<1>1. PICK g : IsFlat(g, ss, n)
  BY FlatExists
<1> DEFINE c == CHOOSE f : IsFlat(f, ss, n)
<1>2. IsFlat(c, ss, n)
  BY <1>1
<1>3. FlattenSeq(ss) = c[n]
  BY DEF FlattenSeq, IsFlat
<1> HIDE DEF c
<1> QED
  BY <1>2, <1>3

LEMMA FlatEmpty == FlattenSeq(<<>>) = <<>>
BY DEF FlattenSeq

LEMMA FlatAppend ==
    ASSUME NEW S, NEW ss \in Seq(Seq(S)), NEW s \in Seq(S)
    PROVE  FlattenSeq(Append(ss, s)) = FlattenSeq(ss) \o s
<1>1. PICK n \in Nat : n = Len(ss)
  BY LenProperties
<1>2. PICK k \in Nat : k = n + 1 /\ n = k - 1 /\ n <= k /\ k > 0 /\ k \in 1 .. k
  OBVIOUS
<1> DEFINE tt == Append(ss, s)
<1>3. /\ tt \in Seq(Seq(S)) /\ Len(tt) = k /\ tt[k] = s
      /\ \A i \in 1 .. n : ss[i] = tt[i]
  BY <1>1, <1>2, AppendProperties
<1> HIDE DEF tt
<1>4. PICK g : IsFlat(g, tt, k) /\ FlattenSeq(tt) = g[k]
  BY <1>2, <1>3, FlatValue
<1>5. g[k] = IF k = 1 THEN s ELSE g[k - 1] \o s
  BY <1>2, <1>3, <1>4 DEF IsFlat
<1>6. CASE n = 0
  <2>1. ss = <<>>
    BY <1>1, <1>6, EmptySeq
  <2>2. FlattenSeq(ss) \o s = s
    BY <2>1, FlatEmpty
  <2>3. k = 1
    BY <1>2, <1>6
  <2> QED
    BY <1>4, <1>5, <2>2, <2>3 DEF tt
<1>7. CASE n > 0
  <2>1. PICK f : IsFlat(f, ss, n) /\ FlattenSeq(ss) = f[n]
    BY <1>1, <1>7, FlatValue
  <2>2. n <= k /\ \A i \in 1 .. n : ss[i] = tt[i]
    BY <1>2, <1>3
  <2>3. \A i \in 1 .. n : f[i] = g[i]
    BY <1>4, <2>1, <2>2, FlatAgree
  <2>4. f[n] = g[n]
    BY <1>7, <2>3
  <2>5. g[k] = g[n] \o s
    <3>1. k # 1 /\ k - 1 = n
      BY <1>2, <1>7
    <3> QED
      BY <1>5, <3>1
  <2> QED
    BY <1>4, <2>1, <2>4, <2>5 DEF tt
<1> QED
  BY <1>6, <1>7

LEMMA FlatType ==
    ASSUME NEW S, NEW ss \in Seq(Seq(S))
    PROVE  FlattenSeq(ss) \in Seq(S)
<1>1. PICK n \in Nat : n = Len(ss)
  BY LenProperties
<1>2. CASE n = 0
  <2>1. ss = <<>>
    BY <1>1, <1>2, EmptySeq
  <2> QED
    BY <2>1, FlatEmpty, EmptySeq
<1>3. CASE n > 0
  <2>1. PICK f : IsFlat(f, ss, n) /\ FlattenSeq(ss) = f[n]
    BY <1>1, <1>3, FlatValue
  <2>2. \A i \in 1 .. n : ss[i] \in Seq(S)
    BY <1>1
  <2>3. \A i \in 1 .. n : f[i] \in Seq(S)
    BY <2>1, <2>2, FlatTyped
  <2> QED
    BY <1>3, <2>1, <2>3
<1> QED
  BY <1>2, <1>3

LEMMA FlatOne ==
    ASSUME NEW S, NEW s \in Seq(S)
    PROVE  FlattenSeq(<<s>>) = s
<1>1. <<s>> = Append(<<>>, s) /\ <<>> \in Seq(Seq(S))
  OBVIOUS
<1>2. FlattenSeq(<<s>>) = <<>> \o s
  BY <1>1, FlatAppend, FlatEmpty
<1> QED
  BY <1>2

LEMMA FlatTwo ==
    ASSUME NEW S, NEW s \in Seq(S), NEW t \in Seq(S)
    PROVE  FlattenSeq(<<s, t>>) = s \o t
<1>1. <<s, t>> = Append(<<s>>, t) /\ <<s>> \in Seq(Seq(S))
  OBVIOUS
<1> QED
  BY <1>1, FlatAppend, FlatOne

-----------------------------------------------------------------------------
(* IsPrefix *)

LEMMA PrefixIs ==
    ASSUME NEW S, NEW s \in Seq(S), NEW t \in Seq(S)
    PROVE  IsPrefix(s, t) <=> Len(s) <= Len(t) /\ \A i \in 1 .. Len(s) : s[i] = t[i]
<1>1. SubSeq(s, 1, Len(s)) = s
  BY SubSeqFull
<1>2. CASE Len(s) <= Len(t)
  <2>1. Len(s) \in Nat /\ Len(t) \in Nat /\ \A i \in 1 .. Len(s) : t[i] \in S
    BY <1>2
  <2>2. SubSeq(t, 1, Len(s)) \in Seq(S) /\ Len(SubSeq(t, 1, Len(s))) = Len(s)
        /\ \A i \in 1 .. Len(s) : SubSeq(t, 1, Len(s))[i] = t[i]
    BY <2>1
  <2>3. s = SubSeq(t, 1, Len(s)) <=> \A i \in 1 .. Len(s) : s[i] = t[i]
    BY <2>2, SeqEqual
  <2> QED
    BY <1>1, <1>2, <2>3 DEF IsPrefix
<1> QED
  BY <1>2 DEF IsPrefix

LEMMA PrefixSelf ==
    ASSUME NEW S, NEW s \in Seq(S)
    PROVE  IsPrefix(s, s)
BY PrefixIs

LEMMA PrefixOfEmpty ==
    ASSUME NEW S, NEW s \in Seq(S), IsPrefix(s, <<>>)
    PROVE  s = <<>>
<1>1. <<>> \in Seq(S) /\ Len(<<>>) = 0
  BY EmptySeq
<1>2. Len(s) <= 0
  BY <1>1, PrefixIs
<1> QED
  BY <1>2, EmptySeq

LEMMA PrefixConcat ==
    ASSUME NEW S, NEW s \in Seq(S), NEW t \in Seq(S), NEW u \in Seq(S), IsPrefix(s, t)
    PROVE  /\ IsPrefix(s, t \o u)
           /\ IsPrefix(u \o s, u \o t)
<1>1. Len(s) \in Nat /\ Len(t) \in Nat /\ Len(u) \in Nat
  OBVIOUS
<1>2. Len(s) <= Len(t) /\ \A i \in 1 .. Len(s) : s[i] = t[i]
  BY PrefixIs
<1>3. /\ t \o u \in Seq(S) /\ Len(t \o u) = Len(t) + Len(u)
      /\ \A i \in 1 .. Len(t) + Len(u) : (t \o u)[i] = IF i <= Len(t) THEN t[i] ELSE u[i - Len(t)]
  BY ConcatProperties
<1>4. /\ u \o s \in Seq(S) /\ Len(u \o s) = Len(u) + Len(s)
      /\ \A i \in 1 .. Len(u) + Len(s) : (u \o s)[i] = IF i <= Len(u) THEN u[i] ELSE s[i - Len(u)]
  BY ConcatProperties
<1>5. /\ u \o t \in Seq(S) /\ Len(u \o t) = Len(u) + Len(t)
      /\ \A i \in 1 .. Len(u) + Len(t) : (u \o t)[i] = IF i <= Len(u) THEN u[i] ELSE t[i - Len(u)]
  BY ConcatProperties
<1>6. IsPrefix(s, t \o u)
  <2>1. Len(s) <= Len(t \o u) /\ \A i \in 1 .. Len(s) : s[i] = (t \o u)[i]
    BY <1>1, <1>2, <1>3
  <2> QED
    BY <1>3, <2>1, PrefixIs
<1>7. IsPrefix(u \o s, u \o t)
  <2>1. Len(u \o s) <= Len(u \o t) /\ \A i \in 1 .. Len(u \o s) : (u \o s)[i] = (u \o t)[i]
    <3>1. ASSUME NEW i \in 1 .. Len(u) + Len(s), i > Len(u) PROVE s[i - Len(u)] = t[i - Len(u)]
      <4>1. i - Len(u) \in 1 .. Len(s)
        BY <1>1, <3>1
      <4> QED
        BY <1>2, <4>1
    <3> QED
      BY <1>1, <1>2, <1>4, <1>5, <3>1
  <2> QED
    BY <1>4, <1>5, <2>1, PrefixIs
<1> QED
  BY <1>6, <1>7

LEMMA PrefixTrans ==
    ASSUME NEW S, NEW s \in Seq(S), NEW t \in Seq(S), NEW u \in Seq(S), IsPrefix(s, t), IsPrefix(t, u)
    PROVE  IsPrefix(s, u)
<1>1. Len(s) <= Len(t) /\ \A i \in 1 .. Len(s) : s[i] = t[i]
  BY PrefixIs
<1>2. Len(t) <= Len(u) /\ \A i \in 1 .. Len(t) : t[i] = u[i]
  BY PrefixIs
<1>3. Len(s) \in Nat /\ Len(t) \in Nat /\ Len(u) \in Nat
  OBVIOUS
<1>4. Len(s) <= Len(u) /\ \A i \in 1 .. Len(s) : s[i] = u[i]
  BY <1>1, <1>2, <1>3
<1> QED
  BY <1>4, PrefixIs

\* What is left of a prefix when its first elements are taken.
LEMMA PrefixRest ==
    ASSUME NEW S, NEW s \in Seq(S), NEW h \in S, NEW t \in Seq(S), IsPrefix(s, <<h>> \o t), s # <<>>
    PROVE  /\ Head(s) = h
           /\ Tail(s) \in Seq(S)
           /\ IsPrefix(Tail(s), t)
           /\ s = <<h>> \o t => Tail(s) = t
<1> DEFINE u == <<h>> \o t
<1>1. /\ u \in Seq(S) /\ Len(u) = Len(t) + 1 /\ u[1] = h
      /\ \A i \in 1 .. Len(t) : u[i + 1] = t[i]
  OBVIOUS
<1> HIDE DEF u
<1>2. Len(s) \in Nat \ {0} /\ Len(t) \in Nat /\ Len(s) <= Len(u) /\ \A i \in 1 .. Len(s) : s[i] = u[i]
  <2>1. IsPrefix(s, u)
    BY DEF u
  <2>2. Len(s) <= Len(u) /\ \A i \in 1 .. Len(s) : s[i] = u[i]
    BY <1>1, <2>1, PrefixIs
  <2>3. Len(s) \in Nat \ {0} /\ Len(t) \in Nat
    BY EmptySeq, LenProperties
  <2> QED
    BY <2>2, <2>3
<1>3. /\ Tail(s) \in Seq(S) /\ Len(Tail(s)) = Len(s) - 1 /\ Head(s) = s[1]
      /\ \A i \in 1 .. Len(s) - 1 : Tail(s)[i] = s[i + 1]
  BY <1>2
<1>4. \A i \in 1 .. Len(s) - 1 : Tail(s)[i] = t[i]
  <2>1. TAKE i \in 1 .. Len(s) - 1
  <2>2. i + 1 \in 1 .. Len(s) /\ i \in 1 .. Len(t)
    BY <1>1, <1>2
  <2> QED
    BY <1>1, <1>2, <1>3, <2>2
<1>5. IsPrefix(Tail(s), t)
  <2>1. Len(Tail(s)) <= Len(t) /\ \A i \in 1 .. Len(Tail(s)) : Tail(s)[i] = t[i]
    BY <1>1, <1>2, <1>3, <1>4
  <2> QED
    BY <1>3, <2>1, PrefixIs
<1>6. s = u => Tail(s) = t
  BY <1>1, <1>2, <1>3, <1>4, SeqEqual
<1>7. Head(s) = h
  <2>1. 1 \in 1 .. Len(s)
    BY <1>2
  <2> QED
    BY <1>1, <1>2, <1>3, <2>1
<1> QED
  BY <1>3, <1>5, <1>6, <1>7 DEF u

LEMMA PrefixCut ==
    ASSUME NEW S, NEW s \in Seq(S), NEW t \in Seq(S), IsPrefix(s, t), NEW k \in 0 .. Len(s)
    PROVE  SubSeq(s, 1, k) \in Seq(S) /\ IsPrefix(SubSeq(s, 1, k), t)
<1>1. Len(s) \in Nat /\ Len(t) \in Nat /\ Len(s) <= Len(t) /\ \A i \in 1 .. Len(s) : s[i] = t[i]
  BY PrefixIs
<1> DEFINE u == SubSeq(s, 1, k)
<1>2. u \in Seq(S) /\ Len(u) = k /\ \A i \in 1 .. k : u[i] = s[i]
  BY <1>1
<1> HIDE DEF u
<1>3. Len(u) <= Len(t) /\ \A i \in 1 .. Len(u) : u[i] = t[i]
  BY <1>1, <1>2
<1>4. IsPrefix(u, t)
  BY <1>2, <1>3, PrefixIs
<1> QED
  BY <1>2, <1>4 DEF u

\* A prefix that is long enough is everything.
LEMMA PrefixWhole ==
    ASSUME NEW S, NEW s \in Seq(S), NEW t \in Seq(S), IsPrefix(s, t), Len(s) >= Len(t)
    PROVE  s = t
<1>1. Len(s) <= Len(t) /\ \A i \in 1 .. Len(s) : s[i] = t[i]
  BY PrefixIs
<1>2. Len(s) = Len(t)
  BY <1>1
<1> QED
  BY <1>1, <1>2, SeqEqual
-----------------------------------------------------------------------------
(* Where the parts of a flattened sequence are. *)

\* the ends of the first n sequences of ss
AreEnds(e, ss, n) == e = [i \in 0 .. n |-> IF i = 0 THEN 0 ELSE e[i - 1] + Len(ss[i])]

LEMMA EndsOfExist ==
    ASSUME NEW ss, NEW n \in Nat
    PROVE  \E e : AreEnds(e, ss, n)
<1> DEFINE T == {i \in 0 .. n : \E e : AreEnds(e, ss, i)}
<1>1. 0 \in T
  <2>1. AreEnds([i \in 0 .. 0 |-> 0], ss, 0)
    BY DEF AreEnds
  <2> QED
    BY <2>1
<1>2. ASSUME NEW m \in 1 .. n, m - 1 \in T PROVE m \in T
  <2>1. PICK g : AreEnds(g, ss, m - 1)
    BY <1>2
  <2> DEFINE h == [i \in 0 .. m |-> IF i < m THEN g[i] ELSE g[i - 1] + Len(ss[i])]
  <2>2. \A i \in 0 .. m - 1 : g[i] = IF i = 0 THEN 0 ELSE g[i - 1] + Len(ss[i])
    BY <2>1 DEF AreEnds
  <2>3. \A i \in 0 .. m : h[i] = IF i = 0 THEN 0 ELSE h[i - 1] + Len(ss[i])
    BY <2>2
  <2>4. AreEnds(h, ss, m)
    BY <2>3 DEF AreEnds
  <2> HIDE DEF h
  <2> QED
    BY <2>4
<1> QED
  <2> HIDE DEF T
  <2>1. n \in T
    BY <1>1, <1>2, UpTo
  <2> QED
    BY <2>1 DEF T

\* What FlatAt says of the sequences up to n: each is where the one before it ends.
Placed(flat, e, ss, n) ==
    /\ e[0] = 0 /\ e[n] = Len(flat)
    /\ \A i \in 0 .. n : e[i] \in Nat /\ e[i] <= Len(flat)
    /\ \A i \in 1 .. n : e[i] = e[i - 1] + Len(ss[i])
    /\ \A i \in 1 .. n : \A p \in 1 .. Len(ss[i]) : flat[e[i - 1] + p] = ss[i][p]

\* A sequence placed after the others.
LEMMA PlacedNext ==
    ASSUME NEW S, NEW m \in Nat \ {0}, NEW ss, NEW e, NEW flat \in Seq(S), Placed(flat, e, ss, m - 1),
           NEW s \in Seq(S), ss[m] = s, e[m] = e[m - 1] + Len(s)
    PROVE  Placed(flat \o s, e, ss, m)
<1>1. PICK l \in Nat, k \in Nat : l = Len(flat) /\ k = Len(s)
  BY LenProperties
<1>2. /\ Len(flat \o s) = l + k
      /\ \A i \in 1 .. l : (flat \o s)[i] = flat[i]
      /\ \A i \in 1 .. k : (flat \o s)[l + i] = s[i]
  <2>1. /\ Len(flat \o s) = l + k
        /\ \A i \in 1 .. l + k : (flat \o s)[i] = IF i <= l THEN flat[i] ELSE s[i - l]
    BY <1>1, ConcatProperties
  <2>2. \A i \in 1 .. l : i \in 1 .. l + k /\ i <= l
    BY <1>1
  <2>3. \A i \in 1 .. k : l + i \in 1 .. l + k /\ ~(l + i <= l) /\ (l + i) - l = i
    BY <1>1
  <2> QED
    BY <2>1, <2>2, <2>3, SMTT(30)
<1>3. /\ e[0] = 0 /\ e[m - 1] = l
      /\ \A i \in 0 .. m - 1 : e[i] \in Nat /\ e[i] <= l
      /\ \A i \in 1 .. m - 1 : e[i] = e[i - 1] + Len(ss[i])
      /\ \A i \in 1 .. m - 1 : \A p \in 1 .. Len(ss[i]) : flat[e[i - 1] + p] = ss[i][p]
  BY <1>1 DEF Placed
<1>4. e[m] = l + k
  BY <1>1, <1>3
<1>5. \A i \in 0 .. m : e[i] \in Nat /\ e[i] <= l + k
  <2>1. \A i \in 0 .. m : i = m \/ i \in 0 .. m - 1
    OBVIOUS
  <2> QED
    BY <1>1, <1>3, <1>4, <2>1
<1>6. \A i \in 1 .. m : i = m \/ i \in 1 .. m - 1
  OBVIOUS
<1>7. \A i \in 1 .. m : e[i] = e[i - 1] + Len(ss[i])
  BY <1>3, <1>6
<1>8. ASSUME NEW i \in 1 .. m, NEW p \in 1 .. Len(ss[i])
      PROVE  (flat \o s)[e[i - 1] + p] = ss[i][p]
  <2>1. CASE i = m
    BY <1>1, <1>2, <1>3, <1>8, <2>1
  <2>2. CASE i # m
    <3>1. i \in 1 .. m - 1 /\ i - 1 \in 0 .. m - 1 /\ i \in 0 .. m - 1
      BY <2>2
    <3>2. e[i] = e[i - 1] + Len(ss[i]) /\ e[i] <= l /\ e[i] \in Nat /\ e[i - 1] \in Nat
      BY <1>3, <3>1
    <3>3. e[i - 1] + p \in 1 .. l
      BY <1>1, <3>2, SMTT(30)
    <3> QED
      BY <1>2, <1>3, <3>1, <3>3
  <2> QED
    BY <2>1, <2>2
<1> QED
  BY <1>1, <1>2, <1>3, <1>4, <1>5, <1>7, <1>8 DEF Placed

LEMMA FlatAt ==
    ASSUME NEW S, NEW ss \in Seq(Seq(S)), NEW n \in Nat, n = Len(ss), NEW e, AreEnds(e, ss, n)
    PROVE  Placed(FlattenSeq(ss), e, ss, n)
<1>1. \A i \in 0 .. n : e[i] = IF i = 0 THEN 0 ELSE e[i - 1] + Len(ss[i])
  BY DEF AreEnds
<1>2. /\ e[0] = 0
      /\ \A i \in 1 .. n : e[i] = e[i - 1] + Len(ss[i]) /\ ss[i] \in Seq(S)
  BY <1>1
<1>3. \A flat \in Seq(S) : Len(flat) = 0 => Placed(flat, e, ss, 0)
  BY <1>2 DEF Placed
<1>4. CASE n = 0
  <2>1. FlattenSeq(ss) = <<>> /\ <<>> \in Seq(S) /\ Len(<<>>) = 0
    BY <1>4, FlatEmpty, EmptySeq
  <2> QED
    BY <1>3, <1>4, <2>1
<1>5. CASE n > 0
  <2>1. PICK f : IsFlat(f, ss, n) /\ FlattenSeq(ss) = f[n]
    BY <1>5, FlatValue
  <2>2. \A i \in 1 .. n : f[i] \in Seq(S) /\ f[i] = IF i = 1 THEN ss[i] ELSE f[i - 1] \o ss[i]
    BY <1>2, <2>1, FlatTyped DEF IsFlat
  <2> DEFINE T == {i \in 0 .. n : i = 0 \/ Placed(f[i], e, ss, i)}
  <2>3. 0 \in T
    OBVIOUS
  <2>4. ASSUME NEW m \in 1 .. n, m - 1 \in T PROVE m \in T
    <3>1. PICK s \in Seq(S) : s = ss[m] /\ e[m] = e[m - 1] + Len(s)
      BY <1>2
    <3>2. m \in Nat \ {0}
      OBVIOUS
    <3>3. CASE m = 1
      <4>0. <<>> \in Seq(S) /\ Len(<<>>) = 0 /\ m - 1 = 0
        BY <3>3, EmptySeq
      <4>1. <<>> \in Seq(S) /\ Placed(<<>>, e, ss, m - 1)
        BY <1>3, <4>0
      <4>2. Placed(<<>> \o s, e, ss, m)
        BY <3>1, <3>2, <4>1, PlacedNext
      <4>3. <<>> \o s = f[m]
        BY <2>2, <3>1, <3>3
      <4> QED
        BY <4>2, <4>3
    <3>4. CASE m # 1
      <4>1. f[m - 1] \in Seq(S) /\ Placed(f[m - 1], e, ss, m - 1)
        BY <2>2, <2>4, <3>4
      <4>2. Placed(f[m - 1] \o s, e, ss, m)
        BY <3>1, <3>2, <4>1, PlacedNext
      <4>3. f[m - 1] \o s = f[m]
        BY <2>2, <3>1, <3>4
      <4> QED
        BY <4>2, <4>3
    <3> QED
      BY <3>3, <3>4
  <2>5. n \in T
    <3> HIDE DEF T
    <3>1. \A i \in 0 .. n : i \in T
      BY <2>3, <2>4, UpTo
    <3> QED
      BY <3>1
  <2> QED
    BY <1>5, <2>1, <2>5
<1> QED
  BY <1>4, <1>5
=============================================================================
