--------------------------- MODULE HashMapProofs ---------------------------
(***************************************************************************)
(* Proofs about HashMap, for every set of keys and of values, every hash   *)
(* function and every size of the array of buckets.                        *)
(***************************************************************************)
EXTENDS HashMap, DataLemmas, FiniteSetTheorems

USE ValuesAssumption, HashAssumption, BucketsAssumption

Node == [key : Keys, value : Values]

\* The nodes of list i: each belongs there, and no two have one key.
ListRight(s, i, n) ==
    /\ \A p \in 1 .. Len(s) : Bucket(s[p].key, n) = i
    /\ \A p \in 1 .. Len(s) : \A q \in 1 .. Len(s) : s[p].key = s[q].key => p = q

\* bs is an array of n lists in which hashmap_get finds every node.
Right(bs, n) ==
    /\ bs \in [0 .. n - 1 -> Seq(Node)]
    /\ \A i \in 0 .. n - 1 : ListRight(bs[i], i, n)

Elements(s) == {s[p] : p \in 1 .. Len(s)}
NodesOf(bs, n) == UNION {Elements(bs[i]) : i \in 0 .. n - 1}

\* What hashmap_get returns for k.
EntryOf(bs, n, k) ==
    LET list == bs[Bucket(k, n)]
    IN IF Places(list, k) = {} THEN NoValue ELSE list[First(Places(list, k))].value

-----------------------------------------------------------------------------
(* Buckets *)

LEMMA BucketRange ==
    ASSUME NEW n \in Nat \ {0}, NEW k \in Keys
    PROVE  Bucket(k, n) \in 0 .. n - 1
<1>1. Hash[k] \in Nat
  OBVIOUS
<1>2. Hash[k] % n \in 0 .. n - 1
  BY <1>1
<1> QED
  BY <1>2 DEF Bucket

LEMMA Counted ==
    ASSUME NEW n \in Nat, NEW bs, DOMAIN bs = 0 .. n - 1
    PROVE  Cardinality(DOMAIN bs) = n
<1>1. Cardinality(0 .. n - 1) = IF 0 > n - 1 THEN 0 ELSE (n - 1) - 0 + 1
  <2>1. 0 \in Int /\ n - 1 \in Int
    OBVIOUS
  <2> QED
    BY <2>1, FS_Interval
<1> QED
  BY <1>1

LEMMA EmptyRight ==
    ASSUME NEW n \in Nat
    PROVE  /\ Right(Empty(n), n)
           /\ NodesOf(Empty(n), n) = {}
<1>1. \A i \in 0 .. n - 1 : Empty(n)[i] = <<>> /\ Len(Empty(n)[i]) = 0
  BY DEF Empty
<1>2. Empty(n) \in [0 .. n - 1 -> Seq(Node)]
  <2>1. <<>> \in Seq(Node)
    BY EmptySeq
  <2> QED
    BY <2>1 DEF Empty
<1>3. \A i \in 0 .. n - 1 : 1 .. Len(Empty(n)[i]) = {}
  BY <1>1
<1> QED
  <2>1. Right(Empty(n), n)
    BY <1>2, <1>3 DEF Right, ListRight
  <2>2. \A i \in 0 .. n - 1 : Elements(Empty(n)[i]) = {}
    BY <1>3 DEF Elements
  <2> QED
    BY <2>1, <2>2 DEF NodesOf

LEMMA NodesType ==
    ASSUME NEW n \in Nat, NEW bs, Right(bs, n)
    PROVE  /\ \A i \in 0 .. n - 1 : \A x \in Elements(bs[i]) : x \in Node /\ Bucket(x.key, n) = i
           /\ \A x \in NodesOf(bs, n) : x \in Node
<1>1. ASSUME NEW i \in 0 .. n - 1, NEW x \in Elements(bs[i])
      PROVE  x \in Node /\ Bucket(x.key, n) = i
  <2>1. bs[i] \in Seq(Node) /\ ListRight(bs[i], i, n)
    BY DEF Right
  <2>2. PICK p \in 1 .. Len(bs[i]) : x = bs[i][p]
    BY DEF Elements
  <2>3. bs[i][p] \in Node
    BY <2>1
  <2> QED
    BY <2>1, <2>2, <2>3 DEF ListRight
<1> QED
  BY <1>1 DEF NodesOf

\* The places of a key in the list it belongs to: one if there is a node for it.
PlacesRight(bs, n, k, list) ==
    /\ list \in Seq(Node) /\ Bucket(k, n) \in 0 .. n - 1
    /\ \A x \in NodesOf(bs, n) : x.key = k =>
          Places(list, k) # {} /\ list[First(Places(list, k))] = x
    /\ Places(list, k) # {} =>
          /\ First(Places(list, k)) \in 1 .. Len(list)
          /\ list[First(Places(list, k))] \in NodesOf(bs, n)
          /\ list[First(Places(list, k))].key = k

LEMMA PlacesOf ==
    ASSUME NEW n \in Nat \ {0}, NEW bs, Right(bs, n), NEW k \in Keys
    PROVE  PlacesRight(bs, n, k, bs[Bucket(k, n)])
<1>0. PICK list : list = bs[Bucket(k, n)]
  OBVIOUS
<1> DEFINE i == Bucket(k, n)
<1>1. i \in 0 .. n - 1
  BY BucketRange
<1>2. list \in Seq(Node) /\ DOMAIN list = 1 .. Len(list)
  BY <1>0, <1>1 DEF Right
<1>3. ListRight(list, i, n)
  BY <1>0, <1>1 DEF Right
<1>4. \A p \in 1 .. Len(list) : list[p] \in NodesOf(bs, n)
  BY <1>0, <1>1 DEF NodesOf, Elements
<1>5. Places(list, k) = {p \in 1 .. Len(list) : list[p].key = k}
  BY <1>2 DEF Places
<1>6. \A p \in Places(list, k) : Places(list, k) = {p}
  BY <1>3, <1>5 DEF ListRight
<1>7. \A p \in Places(list, k) : First(Places(list, k)) = p
  <2> SUFFICES ASSUME NEW p \in Places(list, k)
               PROVE  First(Places(list, k)) = p
    OBVIOUS
  <2>1. p \in Nat /\ p <= p
    BY <1>2, <1>5, LenProperties
  <2>2. Places(list, k) = {p}
    BY <1>6
  <2> QED
    BY <2>1, <2>2 DEF First
<1>8. ASSUME NEW x \in NodesOf(bs, n), x.key = k
      PROVE  Places(list, k) # {} /\ list[First(Places(list, k))] = x
  <2>1. PICK j \in 0 .. n - 1 : \E p \in 1 .. Len(bs[j]) : bs[j][p] = x
    BY DEF NodesOf, Elements
  <2>2. j = i
    BY <1>8, <2>1 DEF Right, ListRight
  <2>3. PICK p \in 1 .. Len(list) : list[p] = x
    BY <1>0, <2>1, <2>2
  <2>4. p \in Places(list, k)
    BY <1>5, <1>8, <2>3
  <2> QED
    BY <1>7, <2>3, <2>4
<1>9. ASSUME Places(list, k) # {}
      PROVE  /\ First(Places(list, k)) \in 1 .. Len(list)
             /\ list[First(Places(list, k))] \in NodesOf(bs, n)
             /\ list[First(Places(list, k))].key = k
  <2>1. PICK p : p \in Places(list, k)
    BY <1>9
  <2> QED
    BY <1>4, <1>5, <1>7, <2>1
<1> QED
  BY <1>0, <1>1, <1>2, <1>8, <1>9 DEF PlacesRight

\* hashmap_get returns the value of the node of k.
LEMMA EntryIs ==
    ASSUME NEW n \in Nat \ {0}, NEW bs, Right(bs, n), NEW k \in Keys
    PROVE  /\ \A x \in NodesOf(bs, n) : x.key = k => EntryOf(bs, n, k) = x.value
           /\ (\A x \in NodesOf(bs, n) : x.key # k) => EntryOf(bs, n, k) = NoValue
<1>1. PICK list : list = bs[Bucket(k, n)]
  OBVIOUS
<1>2. EntryOf(bs, n, k) = IF Places(list, k) = {} THEN NoValue ELSE list[First(Places(list, k))].value
  BY <1>1 DEF EntryOf
<1>3. /\ \A x \in NodesOf(bs, n) : x.key = k =>
            Places(list, k) # {} /\ list[First(Places(list, k))] = x
      /\ Places(list, k) # {} =>
            /\ list[First(Places(list, k))] \in NodesOf(bs, n)
            /\ list[First(Places(list, k))].key = k
  <2>1. PlacesRight(bs, n, k, list)
    BY <1>1, PlacesOf
  <2> QED
    BY <2>1 DEF PlacesRight
<1>4. \A x \in NodesOf(bs, n) : x.key = k => EntryOf(bs, n, k) = x.value
  BY <1>2, <1>3
<1>5. (\A x \in NodesOf(bs, n) : x.key # k) => Places(list, k) = {}
  BY <1>3
<1> QED
  BY <1>2, <1>4, <1>5

\* So it depends on the nodes only.
LEMMA EntrySame ==
    ASSUME NEW n \in Nat \ {0}, NEW bs, Right(bs, n), NEW m \in Nat \ {0}, NEW cs, Right(cs, m),
           NEW k \in Keys, \A x \in Node : x.key = k => (x \in NodesOf(bs, n) <=> x \in NodesOf(cs, m))
    PROVE  EntryOf(bs, n, k) = EntryOf(cs, m, k)
<1>1. NodesOf(bs, n) \subseteq Node /\ NodesOf(cs, m) \subseteq Node
  BY NodesType
<1>2. CASE \E x \in NodesOf(bs, n) : x.key = k
  BY <1>1, <1>2, EntryIs
<1>3. CASE \A x \in NodesOf(bs, n) : x.key # k
  <2>1. \A x \in NodesOf(cs, m) : x.key # k
    BY <1>1, <1>3
  <2> QED
    BY <1>3, <2>1, EntryIs
<1> QED
  BY <1>2, <1>3
-----------------------------------------------------------------------------
(* Changes of one list *)

LEMMA Prepended ==
    ASSUME NEW S, NEW s \in Seq(S), NEW e \in S
    PROVE  /\ <<e>> \o s \in Seq(S)
           /\ Len(<<e>> \o s) = Len(s) + 1
           /\ (<<e>> \o s)[1] = e
           /\ \A p \in 1 .. Len(s) : (<<e>> \o s)[p + 1] = s[p]
<1>1. <<e>> \in Seq(S) /\ Len(<<e>>) = 1 /\ <<e>>[1] = e /\ Len(s) \in Nat
  BY LenProperties
<1>2. /\ <<e>> \o s \in Seq(S)
      /\ Len(<<e>> \o s) = 1 + Len(s)
      /\ \A i \in 1 .. 1 + Len(s) : (<<e>> \o s)[i] = IF i <= 1 THEN <<e>>[i] ELSE s[i - 1]
  BY <1>1, ConcatProperties
<1>3. \A p \in 1 .. Len(s) : p + 1 \in 1 .. 1 + Len(s) /\ ~(p + 1 <= 1) /\ (p + 1) - 1 = p
  BY <1>1
<1>4. 1 \in 1 .. 1 + Len(s)
  BY <1>1
<1> QED
  BY <1>1, <1>2, <1>3, <1>4

\* When one list changes, what the others hold stays.
LEMMA OneList ==
    ASSUME NEW n \in Nat \ {0}, NEW bs, Right(bs, n), NEW i \in 0 .. n - 1,
           NEW t \in Seq(Node), ListRight(t, i, n), NEW cs, cs = [bs EXCEPT ![i] = t]
    PROVE  /\ Right(cs, n)
           /\ \A y : y \in NodesOf(cs, n) <=>
                        y \in Elements(t) \/ (y \in NodesOf(bs, n) /\ y \notin Elements(bs[i]))
<1>1. /\ cs \in [0 .. n - 1 -> Seq(Node)] /\ cs[i] = t
      /\ \A j \in 0 .. n - 1 : j # i => cs[j] = bs[j]
  BY DEF Right
<1>2. Right(cs, n)
  BY <1>1 DEF Right
<1>3. \A j \in 0 .. n - 1 : j # i => \A y \in Elements(bs[j]) : y \notin Elements(bs[i])
  <2>1. \A j \in 0 .. n - 1 : \A x \in Elements(bs[j]) : Bucket(x.key, n) = j
    BY NodesType
  <2> QED
    BY <2>1
<1> QED
  BY <1>1, <1>2, <1>3 DEF NodesOf

\* cs is bs with node x before the others of its list, and no other has its key.
Linked(bs, cs, n, x) ==
    /\ \A y \in NodesOf(bs, n) : y.key # x.key
    /\ cs = [bs EXCEPT ![Bucket(x.key, n)] = <<x>> \o @]

\* A node that becomes the first of its list.
LEMMA InsertRight ==
    ASSUME NEW n \in Nat \ {0}, NEW bs, Right(bs, n), NEW x \in Node, NEW cs, Linked(bs, cs, n, x)
    PROVE  Right(cs, n) /\ NodesOf(cs, n) = NodesOf(bs, n) \cup {x}
<1>1. PICK i \in 0 .. n - 1 : i = Bucket(x.key, n)
  <2>1. x.key \in Keys
    BY DEF Node
  <2> QED
    BY <2>1, BucketRange
<1>2. PICK s \in Seq(Node) : s = bs[i]
  BY <1>1 DEF Right
<1>3. PICK t \in Seq(Node) : t = <<x>> \o s
  BY <1>2, Prepended
<1>4. PICK l \in Nat : l = Len(s)
  BY <1>2, LenProperties
<1>5. /\ Len(t) = l + 1 /\ t[1] = x
      /\ \A p \in 1 .. l : t[p + 1] = s[p]
  BY <1>2, <1>3, <1>4, Prepended
<1>6. ASSUME NEW p \in 1 .. l + 1, p # 1
      PROVE  p - 1 \in 1 .. l /\ t[p] = s[p - 1]
  <2>1. p - 1 \in 1 .. l /\ (p - 1) + 1 = p
    BY <1>4, <1>6
  <2>2. t[(p - 1) + 1] = s[p - 1]
    BY <1>5, <2>1
  <2> QED
    BY <2>1, <2>2
<1>7. Elements(t) = Elements(s) \cup {x}
  <2>1. \A p \in 1 .. l + 1 : t[p] = x \/ t[p] \in {s[q] : q \in 1 .. l}
    BY <1>5, <1>6
  <2>2. x \in {t[p] : p \in 1 .. l + 1}
    <3>1. 1 \in 1 .. l + 1
      BY <1>4
    <3> QED
      BY <1>5, <3>1
  <2>3. \A q \in 1 .. l : s[q] \in {t[p] : p \in 1 .. l + 1}
    <3>1. \A q \in 1 .. l : q + 1 \in 1 .. l + 1
      BY <1>4
    <3> QED
      BY <1>5, <3>1
  <2> QED
    BY <1>4, <1>5, <2>1, <2>2, <2>3 DEF Elements
<1>8. \A p \in 1 .. l : Bucket(s[p].key, n) = i /\ s[p].key # x.key
  <2>1. \A p \in 1 .. l : s[p] \in NodesOf(bs, n)
    BY <1>2, <1>4 DEF NodesOf, Elements
  <2>2. ListRight(s, i, n)
    BY <1>2 DEF Right
  <2> QED
    BY <1>4, <2>1, <2>2 DEF ListRight, Linked
<1>9. ListRight(t, i, n)
  <2>1. ASSUME NEW p \in 1 .. l + 1
        PROVE  Bucket(t[p].key, n) = i
    <3>1. CASE p = 1
      BY <1>1, <1>5, <3>1
    <3>2. CASE p # 1
      BY <1>6, <1>8, <3>2
    <3> QED
      BY <3>1, <3>2
  <2>2. ASSUME NEW p \in 1 .. l + 1, NEW q \in 1 .. l + 1, t[p].key = t[q].key
        PROVE  p = q
    <3>1. CASE p = 1 /\ q # 1
      <4>1. q - 1 \in 1 .. l /\ t[q] = s[q - 1]
        BY <1>6, <3>1
      <4> QED
        BY <1>5, <1>8, <2>2, <3>1, <4>1
    <3>2. CASE p # 1 /\ q = 1
      <4>1. p - 1 \in 1 .. l /\ t[p] = s[p - 1]
        BY <1>6, <3>2
      <4> QED
        BY <1>5, <1>8, <2>2, <3>2, <4>1
    <3>3. CASE p # 1 /\ q # 1
      <4>1. p - 1 \in 1 .. l /\ t[p] = s[p - 1] /\ q - 1 \in 1 .. l /\ t[q] = s[q - 1]
        BY <1>6, <3>3
      <4>2. ListRight(s, i, n)
        BY <1>2 DEF Right
      <4>3. p - 1 = q - 1
        BY <1>4, <2>2, <4>1, <4>2 DEF ListRight
      <4> QED
        BY <1>4, <4>3
    <3> QED
      BY <3>1, <3>2, <3>3
  <2> QED
    BY <1>5, <2>1, <2>2 DEF ListRight
<1>10. cs = [bs EXCEPT ![i] = t]
  BY <1>1, <1>2, <1>3 DEF Linked
<1>11. /\ Right(cs, n)
       /\ \A y : y \in NodesOf(cs, n) <=> y \in Elements(t) \/ (y \in NodesOf(bs, n) /\ y \notin Elements(bs[i]))
  BY <1>9, <1>10, OneList
<1>12. Elements(bs[i]) \subseteq NodesOf(bs, n)
  BY DEF NodesOf
<1> QED
  BY <1>2, <1>7, <1>11, <1>12

\* cs is bs with node x in the place of another of the same key.
Overwritten(bs, cs, i, p, x) ==
    x.key = bs[i][p].key /\ cs = [bs EXCEPT ![i] = [bs[i] EXCEPT ![p] = x]]

\* A node whose value is overwritten.
LEMMA ReplaceRight ==
    ASSUME NEW n \in Nat \ {0}, NEW bs, Right(bs, n), NEW i \in 0 .. n - 1, NEW p \in 1 .. Len(bs[i]),
           NEW x \in Node, NEW cs, Overwritten(bs, cs, i, p, x)
    PROVE  /\ Right(cs, n)
           /\ \A y : y \in NodesOf(cs, n) <=> y = x \/ (y \in NodesOf(bs, n) /\ y.key # bs[i][p].key)
<1>1. PICK s \in Seq(Node) : s = bs[i]
  BY DEF Right
<1>2. s[p] \in Node /\ p \in DOMAIN s /\ DOMAIN s = 1 .. Len(s)
  BY <1>1
<1>4. x.key = s[p].key
  BY <1>1 DEF Overwritten
<1>5. PICK t \in Seq(Node) : t = [s EXCEPT ![p] = x]
  <2>1. [s EXCEPT ![p] = x] \in Seq(Node)
    BY <1>1, <1>2, ExceptSeq
  <2> QED
    BY <2>1
<1>6. /\ Len(t) = Len(s) /\ t[p] = x
      /\ \A q \in 1 .. Len(s) : q # p => t[q] = s[q]
  BY <1>1, <1>2, <1>5, ExceptSeq
<1>7. \A q \in 1 .. Len(s) : t[q].key = s[q].key
  BY <1>4, <1>6
<1>8. ListRight(s, i, n)
  BY <1>1 DEF Right
<1>9. ListRight(t, i, n)
  BY <1>6, <1>7, <1>8 DEF ListRight
<1>10. \A y : y \in Elements(t) <=> y = x \/ (y \in Elements(s) /\ y.key # s[p].key)
  <2>1. \A q \in 1 .. Len(s) : q # p <=> s[q].key # s[p].key
    BY <1>2, <1>8 DEF ListRight
  <2>2. \A y : y \in Elements(t) <=> \E q \in 1 .. Len(s) : y = t[q]
    BY <1>6 DEF Elements
  <2>3. \A y : y \in Elements(s) <=> \E q \in 1 .. Len(s) : y = s[q]
    BY DEF Elements
  <2>4. ASSUME NEW q \in 1 .. Len(s), t[q] # x
        PROVE  t[q] \in Elements(s) /\ t[q].key # s[p].key
    BY <1>6, <2>1, <2>3, <2>4
  <2>5. ASSUME NEW q \in 1 .. Len(s), s[q].key # s[p].key
        PROVE  s[q] \in Elements(t)
    BY <1>6, <2>1, <2>2, <2>5
  <2>6. x \in Elements(t)
    BY <1>1, <1>2, <1>6, <2>2
  <2>7. ASSUME NEW y, y \in Elements(t), y # x
        PROVE  y \in Elements(s) /\ y.key # s[p].key
    BY <2>2, <2>4, <2>7
  <2>8. ASSUME NEW y, y \in Elements(s), y.key # s[p].key
        PROVE  y \in Elements(t)
    BY <2>3, <2>5, <2>8
  <2> QED
    BY <2>6, <2>7, <2>8
<1>11. cs = [bs EXCEPT ![i] = t]
  BY <1>1, <1>5 DEF Overwritten
<1>12. /\ Right(cs, n)
       /\ \A y : y \in NodesOf(cs, n) <=> y \in Elements(t) \/ (y \in NodesOf(bs, n) /\ y \notin Elements(s))
  BY <1>1, <1>9, <1>11, OneList
<1>13. \A y \in NodesOf(bs, n) : y.key = s[p].key => y \in Elements(s)
  BY <1>1, <1>2, <1>8, NodesType DEF NodesOf, ListRight
<1>14. \A y \in Elements(s) : y \in NodesOf(bs, n)
  BY <1>1 DEF NodesOf
<1> QED
  BY <1>1, <1>4, <1>10, <1>12, <1>13, <1>14

LEMMA Removed ==
    ASSUME NEW S, NEW s \in Seq(S), NEW p \in 1 .. Len(s)
    PROVE  /\ RemoveAt(s, p) \in Seq(S)
           /\ Len(RemoveAt(s, p)) = Len(s) - 1
           /\ \A q \in 1 .. Len(s) - 1 : RemoveAt(s, p)[q] = IF q < p THEN s[q] ELSE s[q + 1]
<1>1. Len(s) \in Nat /\ p \in Nat /\ 1 <= p /\ p <= Len(s)
  BY LenProperties
<1> DEFINE t == SubSeq(s, 1, p - 1)
           u == SubSeq(s, p + 1, Len(s))
<1>2. t \in Seq(S) /\ Len(t) = p - 1 /\ \A q \in 1 .. p - 1 : t[q] = s[q]
  BY <1>1
<1>3. u \in Seq(S) /\ Len(u) = Len(s) - p /\ \A q \in 1 .. Len(s) - p : u[q] = s[p + q]
  BY <1>1
<1>4. RemoveAt(s, p) = t \o u
  BY DEF RemoveAt
<1> HIDE DEF t, u
<1>5. /\ t \o u \in Seq(S) /\ Len(t \o u) = Len(t) + Len(u)
      /\ \A q \in 1 .. Len(t) + Len(u) : (t \o u)[q] = IF q <= Len(t) THEN t[q] ELSE u[q - Len(t)]
  BY <1>2, <1>3, ConcatProperties, ZenonT(60)
<1>6. Len(t) + Len(u) = Len(s) - 1
  BY <1>1, <1>2, <1>3
<1>7. ASSUME NEW q \in 1 .. Len(s) - 1
      PROVE  (t \o u)[q] = IF q < p THEN s[q] ELSE s[q + 1]
  <2>1. CASE q < p
    <3>1. q \in 1 .. p - 1 /\ q <= Len(t)
      BY <1>1, <1>2, <2>1
    <3> QED
      BY <1>2, <1>5, <1>6, <2>1, <3>1
  <2>2. CASE ~(q < p)
    <3>1. /\ ~(q <= Len(t)) /\ q - Len(t) = q - (p - 1)
          /\ q - (p - 1) \in 1 .. Len(s) - p /\ p + (q - (p - 1)) = q + 1
      BY <1>1, <1>2, <2>2
    <3>2. (t \o u)[q] = u[q - Len(t)]
      BY <1>5, <1>6, <3>1
    <3>3. u[q - Len(t)] = u[q - (p - 1)]
      BY <3>1
    <3>4. u[q - (p - 1)] = s[p + (q - (p - 1))]
      BY <1>3, <3>1
    <3> QED
      BY <2>2, <3>1, <3>2, <3>3, <3>4
  <2> QED
    BY <2>1, <2>2
<1> QED
  BY <1>4, <1>5, <1>6, <1>7

\* cs is bs without the node at place p of list i.
Unlinked(bs, cs, i, p) == cs = [bs EXCEPT ![i] = RemoveAt(bs[i], p)]

\* A node that is unlinked.
LEMMA RemoveRight ==
    ASSUME NEW n \in Nat \ {0}, NEW bs, Right(bs, n), NEW i \in 0 .. n - 1, NEW p \in 1 .. Len(bs[i]),
           NEW cs, Unlinked(bs, cs, i, p)
    PROVE  /\ Right(cs, n)
           /\ \A y : y \in NodesOf(cs, n) <=> y \in NodesOf(bs, n) /\ y.key # bs[i][p].key
<1>1. PICK s \in Seq(Node) : s = bs[i]
  BY DEF Right
<1>2. PICK l \in Nat : l = Len(s)
  BY <1>1, LenProperties
<1>3. p \in 1 .. l /\ p \in Nat
  BY <1>1, <1>2
<1>4. PICK t \in Seq(Node) : t = RemoveAt(s, p)
  BY <1>1, Removed
<1>5. /\ Len(t) = l - 1
      /\ \A q \in 1 .. l - 1 : t[q] = IF q < p THEN s[q] ELSE s[q + 1]
  BY <1>1, <1>2, <1>4, Removed, ZenonT(60)
<1> DEFINE old(q) == IF q < p THEN q ELSE q + 1
<1>6. \A q \in 1 .. l - 1 : old(q) \in 1 .. l /\ old(q) # p
  BY <1>2, <1>3
<1>7. \A q \in 1 .. l - 1 : t[q] = s[old(q)]
  BY <1>5
<1>8. ASSUME NEW q \in 1 .. l, q # p
      PROVE  \E r \in 1 .. l - 1 : old(r) = q
  <2>1. CASE q < p
    <3>1. q \in 1 .. l - 1 /\ old(q) = q
      BY <1>2, <1>3, <2>1
    <3> QED
      BY <3>1
  <2>2. CASE ~(q < p)
    <3>1. q - 1 \in 1 .. l - 1 /\ old(q - 1) = q
      BY <1>2, <1>3, <1>8, <2>2
    <3> QED
      BY <3>1
  <2> QED
    BY <2>1, <2>2
<1>9. ASSUME NEW q \in 1 .. l - 1, NEW r \in 1 .. l - 1, old(q) = old(r)
      PROVE  q = r
  <2>1. q \in Nat /\ r \in Nat
    BY <1>2
  <2> QED
    BY <1>3, <1>9, <2>1
<1> HIDE DEF old
<1>10. ListRight(s, i, n)
  BY <1>1 DEF Right
<1>11. ListRight(t, i, n)
  <2>1. ASSUME NEW q \in 1 .. l - 1
        PROVE  Bucket(t[q].key, n) = i
    BY <1>2, <1>6, <1>7, <1>10 DEF ListRight
  <2>2. ASSUME NEW q \in 1 .. l - 1, NEW r \in 1 .. l - 1, t[q].key = t[r].key
        PROVE  q = r
    <3>1. /\ old(q) \in 1 .. l /\ old(r) \in 1 .. l
          /\ s[old(q)].key = s[old(r)].key
      BY <1>6, <1>7, <2>2
    <3>2. old(q) = old(r)
      BY <1>2, <1>10, <3>1 DEF ListRight
    <3> QED
      BY <1>9, <3>2
  <2> QED
    BY <1>5, <2>1, <2>2 DEF ListRight
<1>12. \A y : y \in Elements(t) <=> y \in Elements(s) /\ y.key # s[p].key
  <2>1. \A q \in 1 .. l : q # p <=> s[q].key # s[p].key
    BY <1>2, <1>3, <1>10 DEF ListRight
  <2>2. \A y : y \in Elements(t) <=> \E q \in 1 .. l - 1 : y = t[q]
    BY <1>5 DEF Elements
  <2>3. \A y : y \in Elements(s) <=> \E q \in 1 .. l : y = s[q]
    BY <1>2 DEF Elements
  <2>4. ASSUME NEW q \in 1 .. l - 1
        PROVE  t[q] \in Elements(s) /\ t[q].key # s[p].key
    BY <1>6, <1>7, <2>1, <2>3
  <2>5. ASSUME NEW q \in 1 .. l, s[q].key # s[p].key
        PROVE  s[q] \in Elements(t)
    <3>1. PICK r \in 1 .. l - 1 : old(r) = q
      BY <1>8, <2>1, <2>5
    <3> QED
      BY <1>7, <2>2, <3>1
  <2> QED
    BY <2>2, <2>3, <2>4, <2>5
<1>13. cs = [bs EXCEPT ![i] = t]
  BY <1>1, <1>4 DEF Unlinked
<1>14. /\ Right(cs, n)
       /\ \A y : y \in NodesOf(cs, n) <=> y \in Elements(t) \/ (y \in NodesOf(bs, n) /\ y \notin Elements(s))
  BY <1>1, <1>11, <1>13, OneList
<1>15. \A y \in NodesOf(bs, n) : y.key = s[p].key => y \in Elements(s)
  <2>1. Bucket(s[p].key, n) = i
    BY <1>2, <1>3, <1>10 DEF ListRight
  <2> QED
    BY <1>1, <2>1, NodesType DEF NodesOf
<1>16. \A y \in Elements(s) : y \in NodesOf(bs, n)
  BY <1>1 DEF NodesOf
<1> QED
  BY <1>1, <1>12, <1>14, <1>15, <1>16
-----------------------------------------------------------------------------
(* Growing *)

Distinct(s) == \A p \in 1 .. Len(s) : \A q \in 1 .. Len(s) : s[p].key = s[q].key => p = q

LEMMA ConcatDistinct ==
    ASSUME NEW s \in Seq(Node), NEW t \in Seq(Node), Distinct(s), Distinct(t),
           \A x \in Elements(s) : \A y \in Elements(t) : x.key # y.key
    PROVE  /\ s \o t \in Seq(Node) /\ Distinct(s \o t)
           /\ Elements(s \o t) = Elements(s) \cup Elements(t)
<1>1. PICK l \in Nat, m \in Nat : l = Len(s) /\ m = Len(t)
  BY LenProperties
<1>2. PICK u \in Seq(Node) : u = s \o t
  BY ConcatProperties
<1>3. /\ Len(u) = l + m
      /\ \A i \in 1 .. l + m : u[i] = IF i <= l THEN s[i] ELSE t[i - l]
  BY <1>1, <1>2, ConcatProperties
<1>4. ASSUME NEW i \in 1 .. l + m
      PROVE  (i \in 1 .. l /\ u[i] = s[i]) \/ (i - l \in 1 .. m /\ u[i] = t[i - l])
  <2>1. CASE i <= l
    BY <1>1, <1>3, <2>1
  <2>2. CASE ~(i <= l)
    <3>1. i - l \in 1 .. m
      BY <1>1, <2>2
    <3> QED
      BY <1>3, <2>2, <3>1
  <2> QED
    BY <2>1, <2>2
<1>5. ASSUME NEW i \in 1 .. l
      PROVE  i \in 1 .. l + m /\ u[i] = s[i] /\ s[i] \in Elements(s)
  BY <1>1, <1>3 DEF Elements
<1>6. ASSUME NEW i \in 1 .. m
      PROVE  l + i \in 1 .. l + m /\ u[l + i] = t[i] /\ t[i] \in Elements(t)
  <2>1. l + i \in 1 .. l + m /\ ~(l + i <= l) /\ (l + i) - l = i
    BY <1>1
  <2> QED
    BY <1>1, <1>3, <2>1 DEF Elements
<1>7. Elements(u) = Elements(s) \cup Elements(t)
  <2>1. \A i \in 1 .. l + m : u[i] \in Elements(s) \cup Elements(t)
    BY <1>4, <1>5, <1>6
  <2>2. \A i \in 1 .. l : s[i] \in Elements(u)
    BY <1>3, <1>5 DEF Elements
  <2>3. \A i \in 1 .. m : t[i] \in Elements(u)
    BY <1>3, <1>6 DEF Elements
  <2>4. Elements(u) \subseteq Elements(s) \cup Elements(t)
    BY <1>3, <2>1 DEF Elements
  <2>5. Elements(s) \subseteq Elements(u)
    BY <1>1, <2>2 DEF Elements
  <2>6. Elements(t) \subseteq Elements(u)
    BY <1>1, <2>3 DEF Elements
  <2> QED
    BY <2>4, <2>5, <2>6
<1>8. ASSUME NEW p \in 1 .. l + m, NEW q \in 1 .. l + m, u[p].key = u[q].key
      PROVE  p = q
  <2>1. CASE p \in 1 .. l /\ u[p] = s[p] /\ q \in 1 .. l /\ u[q] = s[q]
    BY <1>1, <1>8, <2>1 DEF Distinct
  <2>2. CASE p - l \in 1 .. m /\ u[p] = t[p - l] /\ q - l \in 1 .. m /\ u[q] = t[q - l]
    <3>1. p - l = q - l
      BY <1>1, <1>8, <2>2 DEF Distinct
    <3> QED
      BY <1>1, <3>1
  <2>3. CASE p \in 1 .. l /\ u[p] = s[p] /\ q - l \in 1 .. m /\ u[q] = t[q - l]
    BY <1>5, <1>6, <1>8, <2>3
  <2>4. CASE q \in 1 .. l /\ u[q] = s[q] /\ p - l \in 1 .. m /\ u[p] = t[p - l]
    BY <1>5, <1>6, <1>8, <2>4
  <2> QED
    BY <1>4, <2>1, <2>2, <2>3, <2>4
<1> QED
  BY <1>2, <1>3, <1>7, <1>8 DEF Distinct

\* The old lists one after the other: every node once.
LEMMA AllNodesRight ==
    ASSUME NEW n \in Nat \ {0}, NEW bs, Right(bs, n)
    PROVE  /\ AllNodes(bs) \in Seq(Node) /\ Distinct(AllNodes(bs))
           /\ Elements(AllNodes(bs)) = NodesOf(bs, n)
<1>1. PICK ss : ss = [i \in 1 .. n |-> bs[i - 1]]
  OBVIOUS
<1>2. /\ \A i \in 1 .. n : i - 1 \in 0 .. n - 1 /\ ss[i] = bs[i - 1] /\ ss[i] \in Seq(Node)
      /\ ss \in Seq(Seq(Node)) /\ Len(ss) = n
  <2>1. \A i \in 1 .. n : i - 1 \in 0 .. n - 1
    OBVIOUS
  <2>2. \A i \in 1 .. n : ss[i] = bs[i - 1] /\ ss[i] \in Seq(Node)
    BY <1>1, <2>1 DEF Right
  <2> QED
    BY <1>1, <2>1, <2>2
<1>3. AllNodes(bs) = FlattenSeq(ss)
  <2>1. Cardinality(DOMAIN bs) = n
    <3>1. DOMAIN bs = 0 .. n - 1
      BY DEF Right
    <3> QED
      BY <3>1, Counted
  <2> QED
    BY <1>1, <2>1 DEF AllNodes
<1>4. PICK f : IsFlat(f, ss, n) /\ FlattenSeq(ss) = f[n]
  BY <1>2, FlatValue
<1> DEFINE Before(m) == UNION {Elements(bs[j]) : j \in 0 .. m - 1}
           T == {m \in 0 .. n : m = 0 \/ /\ f[m] \in Seq(Node) /\ Distinct(f[m])
                                         /\ Elements(f[m]) = Before(m)}
<1>5. 0 \in T
  OBVIOUS
<1>6. ASSUME NEW m \in 1 .. n, m - 1 \in T
      PROVE  m \in T
  <2>1. f[m] = IF m = 1 THEN ss[m] ELSE f[m - 1] \o ss[m]
    BY <1>4 DEF IsFlat
  <2>2. m - 1 \in 0 .. n - 1 /\ ss[m] = bs[m - 1] /\ ss[m] \in Seq(Node) /\ ListRight(ss[m], m - 1, n)
    BY <1>2 DEF Right
  <2>3. Distinct(ss[m])
    BY <2>2 DEF ListRight, Distinct
  <2>4. CASE m = 1
    <3>1. Before(m) = Elements(bs[0])
      <4>1. 0 .. m - 1 = {0}
        BY <2>4
      <4> QED
        BY <4>1
    <3> QED
      BY <2>1, <2>2, <2>3, <2>4, <3>1
  <2>5. CASE m # 1
    <3>1. f[m - 1] \in Seq(Node) /\ Distinct(f[m - 1]) /\ Elements(f[m - 1]) = Before(m - 1)
      BY <1>6, <2>5
    <3>2. \A x \in Elements(f[m - 1]) : \A y \in Elements(ss[m]) : x.key # y.key
      <4>1. \A x \in Before(m - 1) : \E j \in 0 .. (m - 1) - 1 : x \in Elements(bs[j])
        OBVIOUS
      <4>2. \A j \in 0 .. (m - 1) - 1 : j \in 0 .. n - 1 /\ j # m - 1
        OBVIOUS
      <4>3. \A i \in 0 .. n - 1 : \A x \in Elements(bs[i]) : Bucket(x.key, n) = i
        BY NodesType
      <4> HIDE DEF Before
      <4> QED
        BY <2>2, <3>1, <4>1, <4>2, <4>3
    <3>3. /\ f[m - 1] \o ss[m] \in Seq(Node) /\ Distinct(f[m - 1] \o ss[m])
          /\ Elements(f[m - 1] \o ss[m]) = Before(m - 1) \cup Elements(ss[m])
      <4> HIDE DEF Before
      <4> QED
        BY <2>2, <2>3, <3>1, <3>2, ConcatDistinct
    <3>4. Before(m) = Before(m - 1) \cup Elements(bs[m - 1])
      <4>1. 0 .. m - 1 = (0 .. (m - 1) - 1) \cup {m - 1}
        OBVIOUS
      <4> QED
        BY <4>1
    <3> HIDE DEF Before
    <3>5. f[m] \in Seq(Node) /\ Distinct(f[m]) /\ Elements(f[m]) = Before(m)
      BY <2>1, <2>2, <2>5, <3>3, <3>4
    <3> QED
      BY <3>5
  <2> QED
    BY <2>4, <2>5
<1>7. n \in T
  <2> HIDE DEF T
  <2>1. \A i \in 0 .. n : i \in T
    BY <1>5, <1>6, UpTo
  <2> QED
    BY <2>1
<1> QED
  BY <1>3, <1>4, <1>7 DEF NodesOf

\* the function that Rehashed builds, for the first l nodes
IsRehash(f, nodes, n, l) ==
    f = [j \in 0 .. l |-> IF j = 0 THEN Empty(n)
                          ELSE [f[j - 1] EXCEPT ![Bucket(nodes[j].key, n)] = <<nodes[j]>> \o @]]

LEMMA RehashExists ==
    ASSUME NEW nodes, NEW n, NEW l \in Nat
    PROVE  \E f : IsRehash(f, nodes, n, l)
<1> DEFINE T == {m \in 0 .. l : \E f : IsRehash(f, nodes, n, m)}
           next(g, j) == [g EXCEPT ![Bucket(nodes[j].key, n)] = <<nodes[j]>> \o @]
<1>0. \A f, m : IsRehash(f, nodes, n, m) <=>
                  f = [j \in 0 .. m |-> IF j = 0 THEN Empty(n) ELSE next(f[j - 1], j)]
  BY DEF IsRehash
<1> HIDE DEF next
<1>1. 0 \in T
  <2>1. PICK g : g = [i \in 0 .. 0 |-> Empty(n)]
    OBVIOUS
  <2>2. g = [j \in 0 .. 0 |-> IF j = 0 THEN Empty(n) ELSE next(g[j - 1], j)]
    BY <2>1
  <2>3. IsRehash(g, nodes, n, 0)
    BY <1>0, <2>2
  <2> QED
    BY <2>3
<1>2. ASSUME NEW m \in 1 .. l, m - 1 \in T PROVE m \in T
  <2>1. PICK g : IsRehash(g, nodes, n, m - 1)
    BY <1>2
  <2>2. g = [j \in 0 .. m - 1 |-> IF j = 0 THEN Empty(n) ELSE next(g[j - 1], j)]
    BY <1>0, <2>1
  <2> DEFINE h == [j \in 0 .. m |-> IF j < m THEN g[j] ELSE next(g[j - 1], j)]
  <2>3. \A j \in 0 .. m - 1 : g[j] = IF j = 0 THEN Empty(n) ELSE next(g[j - 1], j)
    BY <2>2
  <2>4. \A j \in 0 .. m : h[j] = IF j = 0 THEN Empty(n) ELSE next(h[j - 1], j)
    BY <2>3
  <2>5. h = [j \in 0 .. m |-> IF j = 0 THEN Empty(n) ELSE next(h[j - 1], j)]
    BY <2>4
  <2> HIDE DEF h
  <2>6. IsRehash(h, nodes, n, m)
    BY <1>0, <2>5
  <2> QED
    BY <2>6
<1> QED
  <2> HIDE DEF T
  <2>1. l \in T
    BY <1>1, <1>2, UpTo
  <2> QED
    BY <2>1 DEF T

\* Every node goes to the list hashmap_get looks for it in.
LEMMA RehashRight ==
    ASSUME NEW n \in Nat \ {0}, NEW nodes \in Seq(Node), Distinct(nodes)
    PROVE  Right(Rehashed(nodes, n), n) /\ NodesOf(Rehashed(nodes, n), n) = Elements(nodes)
<1>1. PICK l \in Nat : l = Len(nodes)
  BY LenProperties
<1>2. \E f : IsRehash(f, nodes, n, l)
  BY RehashExists
<1>3. PICK e : e = CHOOSE f : IsRehash(f, nodes, n, l)
  OBVIOUS
<1>4. IsRehash(e, nodes, n, l)
  BY <1>2, <1>3
<1>5. Rehashed(nodes, n) = e[l]
  BY <1>1, <1>3 DEF Rehashed, IsRehash
<1> DEFINE Done(m) == {nodes[j] : j \in 1 .. m}
           T == {m \in 0 .. l : Right(e[m], n) /\ NodesOf(e[m], n) = Done(m)}
<1>6. 0 \in T
  <2>1. e[0] = Empty(n)
    BY <1>4 DEF IsRehash
  <2>2. Done(0) = {}
    OBVIOUS
  <2> QED
    BY <2>1, <2>2, EmptyRight
<1>7. ASSUME NEW m \in 1 .. l, m - 1 \in T
      PROVE  m \in T
  <2>1. PICK x \in Node : x = nodes[m]
    BY <1>1
  <2>2. e[m] = [e[m - 1] EXCEPT ![Bucket(x.key, n)] = <<x>> \o @]
    <3>1. \A j \in 0 .. l :
              e[j] = IF j = 0 THEN Empty(n)
                     ELSE [e[j - 1] EXCEPT ![Bucket(nodes[j].key, n)] = <<nodes[j]>> \o @]
      BY <1>4 DEF IsRehash
    <3>2. m \in 0 .. l /\ m # 0
      OBVIOUS
    <3> QED
      BY <2>1, <3>1, <3>2
  <2>3. Right(e[m - 1], n) /\ NodesOf(e[m - 1], n) = Done(m - 1)
    BY <1>7
  <2>4. \A y \in Done(m - 1) : y.key # x.key
    <3>1. ASSUME NEW j \in 1 .. m - 1
          PROVE  nodes[j].key # x.key
      <4>1. j \in 1 .. l /\ j # m
        BY <1>1
      <4> QED
        BY <1>1, <2>1, <4>1 DEF Distinct
    <3> QED
      BY <3>1
  <2>5. Done(m) = Done(m - 1) \cup {x}
    <3>1. 1 .. m = (1 .. m - 1) \cup {m}
      OBVIOUS
    <3> QED
      BY <2>1, <3>1
  <2> HIDE DEF Done
  <2>6. Right(e[m], n) /\ NodesOf(e[m], n) = Done(m - 1) \cup {x}
    <3>1. PICK bs : bs = e[m - 1]
      OBVIOUS
    <3>2. PICK cs : cs = e[m]
      OBVIOUS
    <3>3. Right(bs, n) /\ \A y \in NodesOf(bs, n) : y.key # x.key
      BY <2>3, <2>4, <3>1
    <3>4. cs = [bs EXCEPT ![Bucket(x.key, n)] = <<x>> \o @]
      BY <2>2, <3>1, <3>2
    <3>5. Linked(bs, cs, n, x)
      BY <3>3, <3>4 DEF Linked
    <3>6. Right(cs, n) /\ NodesOf(cs, n) = NodesOf(bs, n) \cup {x}
      BY <3>3, <3>5, InsertRight
    <3> QED
      BY <2>3, <3>1, <3>2, <3>6
  <2>7. m \in 0 .. l
    OBVIOUS
  <2> QED
    BY <2>5, <2>6, <2>7
<1>8. l \in T
  <2> HIDE DEF T
  <2>1. \A i \in 0 .. l : i \in T
    BY <1>6, <1>7, UpTo
  <2> QED
    BY <2>1
<1> QED
  BY <1>1, <1>5, <1>8 DEF Elements

\* Growing doubles the number of lists and keeps the nodes.
LEMMA GrowRight ==
    ASSUME NEW n \in Nat \ {0}, NEW bs, Right(bs, n)
    PROVE  /\ Right(GrowAndRehash(bs), 2 * n)
           /\ NodesOf(GrowAndRehash(bs), 2 * n) = NodesOf(bs, n)
<1>1. Cardinality(DOMAIN bs) = n
  <2>1. DOMAIN bs = 0 .. n - 1
    BY DEF Right
  <2> QED
    BY <2>1, Counted
<1>2. GrowAndRehash(bs) = Rehashed(AllNodes(bs), 2 * n)
  BY <1>1 DEF GrowAndRehash
<1>3. 2 * n \in Nat \ {0}
  OBVIOUS
<1> QED
  BY <1>2, <1>3, AllNodesRight, RehashRight
-----------------------------------------------------------------------------
(* The operations *)

MapInv ==
    /\ buckets_len \in Nat \ {0} /\ buckets_len >= BucketsLen
    /\ Right(buckets, buckets_len)
    /\ len \in Nat
    /\ spent \subseteq Values
    /\ got \in Values \cup {NoValue}
    /\ alive \in BOOLEAN

LEMMA OwnedIs ==
    ASSUME MapInv
    PROVE  Owned = {node.value : node \in NodesOf(buckets, buckets_len)}
<1>1. DOMAIN buckets = 0 .. buckets_len - 1
  BY DEF MapInv, Right
<1>2. \A i \in 0 .. buckets_len - 1 : ToSet(buckets[i]) = Elements(buckets[i])
  <2>1. \A i \in 0 .. buckets_len - 1 : DOMAIN buckets[i] = 1 .. Len(buckets[i])
    BY DEF MapInv, Right
  <2> QED
    BY <2>1 DEF ToSet, Elements
<1>3. UNION {ToSet(buckets[i]) : i \in DOMAIN buckets} = NodesOf(buckets, buckets_len)
  BY <1>1, <1>2 DEF NodesOf
<1> QED
  BY <1>3 DEF Owned

\* A node of k with v in place of the one there was: k is now mapped to v.
LEMMA PutEntry ==
    ASSUME NEW n \in Nat \ {0}, NEW bs, Right(bs, n), NEW m \in Nat \ {0}, NEW cs, Right(cs, m),
           NEW k \in Keys, NEW v \in Values,
           \A y : y \in NodesOf(cs, m) <=>
                     y = [key |-> k, value |-> v] \/ (y \in NodesOf(bs, n) /\ y.key # k)
    PROVE  \A j \in Keys : EntryOf(cs, m, j) = IF j = k THEN v ELSE EntryOf(bs, n, j)
<1>1. PICK x \in Node : x = [key |-> k, value |-> v] /\ x.key = k /\ x.value = v
  <2>1. [key |-> k, value |-> v] \in Node
    BY DEF Node
  <2> QED
    BY <2>1
<1>2. EntryOf(cs, m, k) = v
  <2>1. x \in NodesOf(cs, m)
    BY <1>1
  <2> QED
    BY <1>1, <2>1, EntryIs
<1>3. ASSUME NEW j \in Keys, j # k
      PROVE  EntryOf(cs, m, j) = EntryOf(bs, n, j)
  <2>1. \A y \in Node : y.key = j => (y \in NodesOf(cs, m) <=> y \in NodesOf(bs, n))
    BY <1>1, <1>3
  <2> QED
    BY <2>1, EntrySame
<1> QED
  BY <1>2, <1>3

\* No node of k any more: k is not mapped.
LEMMA DropEntry ==
    ASSUME NEW n \in Nat \ {0}, NEW bs, Right(bs, n), NEW cs, Right(cs, n), NEW k \in Keys,
           \A y : y \in NodesOf(cs, n) <=> y \in NodesOf(bs, n) /\ y.key # k
    PROVE  \A j \in Keys : EntryOf(cs, n, j) = IF j = k THEN NoValue ELSE EntryOf(bs, n, j)
<1>1. EntryOf(cs, n, k) = NoValue
  <2>1. \A x \in NodesOf(cs, n) : x.key # k
    OBVIOUS
  <2> QED
    BY <2>1, EntryIs
<1>2. ASSUME NEW j \in Keys, j # k
      PROVE  EntryOf(cs, n, j) = EntryOf(bs, n, j)
  <2>1. \A y \in Node : y.key = j => (y \in NodesOf(cs, n) <=> y \in NodesOf(bs, n))
    BY <1>2
  <2> QED
    BY <2>1, EntrySame
<1> QED
  BY <1>1, <1>2

\* What the places of k say of its entry.
FoundRight(bs, n, k, i, places) ==
    /\ i \in 0 .. n - 1
    /\ places = {} => EntryOf(bs, n, k) = NoValue /\ \A y \in NodesOf(bs, n) : y.key # k
    /\ places # {} => /\ First(places) \in 1 .. Len(bs[i])
                      /\ bs[i][First(places)].key = k
                      /\ bs[i][First(places)].value = EntryOf(bs, n, k)
                      /\ EntryOf(bs, n, k) \in Values

LEMMA FoundEntry ==
    ASSUME NEW n \in Nat \ {0}, NEW bs, Right(bs, n), NEW k \in Keys
    PROVE  FoundRight(bs, n, k, Bucket(k, n), Places(bs[Bucket(k, n)], k))
<1>0. PICK places : places = Places(bs[Bucket(k, n)], k)
  OBVIOUS
<1>1. PICK list : list = bs[Bucket(k, n)]
  OBVIOUS
<1>2. PlacesRight(bs, n, k, list)
  BY <1>1, PlacesOf
<1>3. EntryOf(bs, n, k) = IF places = {} THEN NoValue ELSE list[First(places)].value
  BY <1>0, <1>1 DEF EntryOf
<1>4. places = {} => \A y \in NodesOf(bs, n) : y.key # k
  BY <1>0, <1>1, <1>2 DEF PlacesRight
<1>5. places # {} => /\ First(places) \in 1 .. Len(list)
                     /\ list[First(places)].key = k
                     /\ list[First(places)] \in Node
  BY <1>0, <1>1, <1>2, NodesType DEF PlacesRight
<1>6. Bucket(k, n) \in 0 .. n - 1
  BY BucketRange
<1>7. places # {} => list[First(places)].value \in Values
  BY <1>5 DEF Node
<1> QED
  BY <1>0, <1>1, <1>3, <1>4, <1>5, <1>6, <1>7 DEF FoundRight

\* hashmap_set, with or without growth, whether the key is there or not.
LEMMA SetNodes ==
    ASSUME MapInv, NEW k \in Keys, NEW v \in Values, Set(k, v)
    PROVE  \E m \in Nat \ {0} :
              /\ m >= BucketsLen /\ Right(buckets', m)
              /\ \A y : y \in NodesOf(buckets', m) <=>
                           y = [key |-> k, value |-> v] \/ (y \in NodesOf(buckets, buckets_len) /\ y.key # k)
              /\ spent' = spent \cup ({EntryOf(buckets, buckets_len, k)} \ {NoValue})
              /\ spent' \subseteq Values
              /\ len' \in Nat
<1>1. PICK n \in Nat \ {0} : n = buckets_len /\ n >= BucketsLen /\ Right(buckets, n)
  BY DEF MapInv
<1>2. PICK bs : bs = buckets
  OBVIOUS
<1>3. PICK g : g = IF Loaded THEN GrowAndRehash(buckets) ELSE buckets
  OBVIOUS
<1>4. PICK m \in Nat \ {0} : m >= n /\ Right(g, m) /\ NodesOf(g, m) = NodesOf(bs, n)
  <2>1. CASE Loaded
    <3>1. Right(g, 2 * n) /\ NodesOf(g, 2 * n) = NodesOf(bs, n)
      BY <1>1, <1>2, <1>3, <2>1, GrowRight
    <3>2. 2 * n \in Nat \ {0} /\ 2 * n >= n
      OBVIOUS
    <3> QED
      BY <3>1, <3>2
  <2>2. CASE ~Loaded
    <3>1. n >= n
      OBVIOUS
    <3> QED
      BY <1>1, <1>2, <1>3, <2>2, <3>1
  <2> QED
    BY <2>1, <2>2
<1>5. Cardinality(DOMAIN g) = m
  <2>1. DOMAIN g = 0 .. m - 1
    BY <1>4 DEF Right
  <2> QED
    BY <2>1, Counted
<1>6. PICK i : i = Bucket(k, m)
  OBVIOUS
<1>7. PICK places : places = Places(g[i], k)
  OBVIOUS
<1>8. \/ /\ places # {}
         /\ spent' = spent \cup {g[i][First(places)].value}
         /\ buckets' = [g EXCEPT ![i][First(places)].value = v]
         /\ len' = len
      \/ /\ places = {}
         /\ buckets' = [g EXCEPT ![i] = <<[key |-> k, value |-> v]>> \o @]
         /\ len' = len + 1
         /\ spent' = spent
  BY <1>3, <1>5, <1>6, <1>7 DEF Set
<1>9. EntryOf(g, m, k) = EntryOf(bs, n, k)
  BY <1>1, <1>2, <1>4, EntrySame
<1>10. /\ i \in 0 .. m - 1
       /\ places = {} => EntryOf(g, m, k) = NoValue /\ \A y \in NodesOf(g, m) : y.key # k
       /\ places # {} => /\ First(places) \in 1 .. Len(g[i])
                         /\ g[i][First(places)].key = k
                         /\ g[i][First(places)].value = EntryOf(g, m, k)
                         /\ EntryOf(g, m, k) \in Values
  <2>1. FoundRight(g, m, k, i, places)
    BY <1>4, <1>6, <1>7, FoundEntry
  <2> QED
    BY <2>1 DEF FoundRight
<1>11. PICK x \in Node : x = [key |-> k, value |-> v] /\ x.key = k
  <2>1. [key |-> k, value |-> v] \in Node
    BY DEF Node
  <2> QED
    BY <2>1
<1>12. PICK cs : cs = buckets'
  OBVIOUS
<1>13. CASE places # {}
  <2>1. PICK p \in 1 .. Len(g[i]) : p = First(places)
    BY <1>10, <1>13
  <2>2. cs = [g EXCEPT ![i] = [g[i] EXCEPT ![p] = x]] /\ x.key = g[i][p].key
    <3>1. g[i] \in Seq(Node) /\ g[i][p] \in Node
      BY <1>4, <1>10, <2>1 DEF Right
    <3>2. g[i][p].key = k
      BY <1>10, <1>13, <2>1
    <3>3. [g[i][p] EXCEPT !.value = v] = x
      BY <1>11, <3>1, <3>2, SMTT(30) DEF Node
    <3>4. cs = [g EXCEPT ![i] = [g[i] EXCEPT ![p] = [g[i][p] EXCEPT !.value = v]]]
      BY <1>8, <1>12, <1>13, <2>1
    <3> QED
      BY <1>11, <3>2, <3>3, <3>4
  <2>3. /\ Right(cs, m)
        /\ \A y : y \in NodesOf(cs, m) <=> y = x \/ (y \in NodesOf(g, m) /\ y.key # g[i][p].key)
    <3>1. Right(g, m) /\ i \in 0 .. m - 1
      BY <1>4, <1>10
    <3>2. Overwritten(g, cs, i, p, x)
      BY <2>2 DEF Overwritten
    <3> QED
      BY <1>11, <2>1, <3>1, <3>2, ReplaceRight
  <2>4. spent' = spent \cup {EntryOf(bs, n, k)} /\ EntryOf(bs, n, k) \in Values /\ len' = len
    BY <1>8, <1>9, <1>10, <1>13
  <2>5. spent' = spent \cup ({EntryOf(bs, n, k)} \ {NoValue}) /\ spent' \subseteq Values /\ len' \in Nat
    BY <2>4 DEF MapInv
  <2>6. \A y : y \in NodesOf(cs, m) <=>
                  y = [key |-> k, value |-> v] \/ (y \in NodesOf(bs, n) /\ y.key # k)
    BY <1>4, <1>11, <2>2, <2>3
  <2>7. m >= BucketsLen
    BY <1>1, <1>4
  <2> QED
    BY <1>1, <1>2, <1>12, <2>3, <2>5, <2>6, <2>7
<1>14. CASE places = {}
  <2>1. cs = [g EXCEPT ![Bucket(x.key, m)] = <<x>> \o @] /\ \A y \in NodesOf(g, m) : y.key # x.key
    BY <1>6, <1>8, <1>10, <1>11, <1>12, <1>14
  <2>2. Right(cs, m) /\ NodesOf(cs, m) = NodesOf(g, m) \cup {x}
    <3>1. Right(g, m) /\ Linked(g, cs, m, x)
      BY <1>4, <2>1 DEF Linked
    <3> QED
      BY <3>1, InsertRight
  <2>3. EntryOf(bs, n, k) = NoValue /\ spent' = spent /\ len' = len + 1
    BY <1>8, <1>9, <1>10, <1>14
  <2>4. spent' = spent \cup ({EntryOf(bs, n, k)} \ {NoValue}) /\ spent' \subseteq Values /\ len' \in Nat
    BY <2>3 DEF MapInv
  <2>5. \A y : y \in NodesOf(cs, m) <=>
                  y = [key |-> k, value |-> v] \/ (y \in NodesOf(bs, n) /\ y.key # k)
    BY <1>4, <1>10, <1>11, <1>14, <2>2
  <2>6. m >= BucketsLen
    BY <1>1, <1>4
  <2> QED
    BY <1>1, <1>2, <1>12, <2>2, <2>4, <2>5, <2>6
<1> QED
  BY <1>13, <1>14

\* hashmap_del, whether the key is there or not.
LEMMA DelNodes ==
    ASSUME MapInv, NEW k \in Keys, Del(k)
    PROVE  /\ Right(buckets', buckets_len)
           /\ \A y : y \in NodesOf(buckets', buckets_len) <=> y \in NodesOf(buckets, buckets_len) /\ y.key # k
           /\ spent' = spent \cup ({EntryOf(buckets, buckets_len, k)} \ {NoValue})
           /\ spent' \subseteq Values
<1>1. PICK n \in Nat \ {0} : n = buckets_len /\ Right(buckets, n)
  BY DEF MapInv
<1>2. PICK bs : bs = buckets
  OBVIOUS
<1>3. PICK cs : cs = buckets'
  OBVIOUS
<1>4. PICK i : i = Bucket(k, n)
  OBVIOUS
<1>5. PICK places : places = Places(bs[i], k)
  OBVIOUS
<1>6. FoundRight(bs, n, k, i, places)
  BY <1>1, <1>2, <1>4, <1>5, FoundEntry
<1>7. Find(k) = places
  BY <1>1, <1>2, <1>4, <1>5 DEF Find
<1>8. IF places = {} THEN cs = bs /\ spent' = spent
      ELSE /\ spent' = spent \cup {bs[i][First(places)].value}
           /\ cs = [bs EXCEPT ![i] = RemoveAt(@, First(places))]
  BY <1>1, <1>2, <1>3, <1>4, <1>7 DEF Del
<1>9. spent \subseteq Values
  BY DEF MapInv
<1>10. CASE places = {}
  <2>1. EntryOf(bs, n, k) = NoValue /\ \A y \in NodesOf(bs, n) : y.key # k
    BY <1>6, <1>10 DEF FoundRight
  <2>2. cs = bs /\ spent' = spent
    BY <1>8, <1>10
  <2> QED
    BY <1>1, <1>2, <1>3, <1>9, <2>1, <2>2
<1>11. CASE places # {}
  <2>1. /\ i \in 0 .. n - 1
        /\ First(places) \in 1 .. Len(bs[i])
        /\ bs[i][First(places)].key = k
        /\ bs[i][First(places)].value = EntryOf(bs, n, k)
        /\ EntryOf(bs, n, k) \in Values
    BY <1>6, <1>11 DEF FoundRight
  <2>2. PICK p \in 1 .. Len(bs[i]) : p = First(places)
    BY <2>1
  <2>3. Unlinked(bs, cs, i, p)
    BY <1>8, <1>11, <2>2 DEF Unlinked
  <2>4. /\ Right(cs, n)
        /\ \A y : y \in NodesOf(cs, n) <=> y \in NodesOf(bs, n) /\ y.key # bs[i][p].key
    BY <1>1, <1>2, <2>1, <2>3, RemoveRight
  <2>5. bs[i][p].key = k
    BY <2>1, <2>2
  <2>6. spent' = spent \cup {EntryOf(bs, n, k)}
    BY <1>8, <1>11, <2>1
  <2>7. spent' = spent \cup ({EntryOf(bs, n, k)} \ {NoValue}) /\ spent' \subseteq Values
    BY <1>9, <2>1, <2>6
  <2> QED
    BY <1>1, <1>2, <1>3, <2>4, <2>5, <2>7
<1> QED
  BY <1>10, <1>11

\* hashmap_get
LEMMA GetIs ==
    ASSUME MapInv, NEW k \in Keys
    PROVE  /\ Entry(k) = EntryOf(buckets, buckets_len, k)
           /\ Entry(k) \in Values \cup {NoValue}
<1>1. PICK n \in Nat \ {0} : n = buckets_len /\ Right(buckets, n)
  BY DEF MapInv
<1>2. Entry(k) = EntryOf(buckets, n, k)
  BY <1>1 DEF Entry, EntryOf, Find
<1>3. PICK bs : bs = buckets
  OBVIOUS
<1>4. EntryOf(bs, n, k) \in Values \cup {NoValue}
  <2>1. PICK i, places : FoundRight(bs, n, k, i, places)
    BY <1>1, <1>3, FoundEntry
  <2> QED
    BY <2>1 DEF FoundRight
<1> QED
  BY <1>1, <1>2, <1>3, <1>4

\* A value that is owned is the entry of its key, and the other way round.
LEMMA OwnedEntries ==
    ASSUME MapInv
    PROVE  /\ \A v : v \in Owned <=> v # NoValue /\ \E k \in Keys : Entry(k) = v
           /\ Owned \subseteq Values
<1>1. PICK n \in Nat \ {0} : n = buckets_len /\ Right(buckets, n)
  BY DEF MapInv
<1>2. PICK bs : bs = buckets
  OBVIOUS
<1>3. \A v : v \in Owned <=> \E x \in NodesOf(bs, n) : v = x.value
  BY <1>1, <1>2, OwnedIs
<1>4. \A x \in NodesOf(bs, n) : x.key \in Keys /\ x.value \in Values /\ EntryOf(bs, n, x.key) = x.value
  <2>1. \A x \in NodesOf(bs, n) : x \in Node
    BY <1>1, <1>2, NodesType
  <2>2. \A x \in NodesOf(bs, n) : x.key \in Keys /\ x.value \in Values
    BY <2>1 DEF Node
  <2> QED
    BY <1>1, <1>2, <2>2, EntryIs
<1>5. \A k \in Keys : EntryOf(bs, n, k) # NoValue => \E x \in NodesOf(bs, n) : EntryOf(bs, n, k) = x.value
  BY <1>1, <1>2, EntryIs
<1>6. \A k \in Keys : Entry(k) = EntryOf(bs, n, k)
  BY <1>1, <1>2, GetIs
<1>7. Owned \subseteq Values
  BY <1>3, <1>4
<1>8. ASSUME NEW v, v \in Owned
      PROVE  v # NoValue /\ \E k \in Keys : Entry(k) = v
  <2>1. PICK x \in NodesOf(bs, n) : v = x.value
    BY <1>3, <1>8
  <2> QED
    BY <1>4, <1>6, <1>7, <1>8, <2>1
<1>9. ASSUME NEW v, v # NoValue, NEW k \in Keys, Entry(k) = v
      PROVE  v \in Owned
  BY <1>3, <1>5, <1>6, <1>9
<1> QED
  BY <1>7, <1>8, <1>9
-----------------------------------------------------------------------------
(* The invariant *)

LEMMA InitMap == Init => MapInv
<1> SUFFICES ASSUME Init PROVE MapInv
  OBVIOUS
<1>1. Right(Empty(BucketsLen), BucketsLen)
  BY EmptyRight
<1>2. DOMAIN buckets = 0 .. BucketsLen - 1
  BY DEF Init, Empty
<1>3. buckets_len = BucketsLen
  BY <1>2, Counted DEF buckets_len
<1> QED
  BY <1>1, <1>3 DEF Init, MapInv

\* Destroying frees every list and keeps the array's length.
LEMMA DestroyNodes ==
    ASSUME MapInv, Destroy
    PROVE  /\ Right(buckets', buckets_len)
           /\ NodesOf(buckets', buckets_len) = {}
           /\ spent' = spent \cup Owned /\ spent' \subseteq Values
<1>1. PICK n \in Nat \ {0} : n = buckets_len
  BY DEF MapInv
<1>2. buckets' = Empty(n)
  BY <1>1 DEF Destroy
<1>3. Right(Empty(n), n) /\ NodesOf(Empty(n), n) = {}
  BY EmptyRight
<1>4. Owned \subseteq Values
  BY OwnedEntries
<1> QED
  BY <1>1, <1>2, <1>3, <1>4 DEF Destroy, MapInv

\* the length of the array after a step
LEMMA LengthNext ==
    ASSUME NEW n \in Nat, Right(buckets', n)
    PROVE  buckets_len' = n
<1>1. PICK cs : cs = buckets'
  OBVIOUS
<1>2. DOMAIN cs = 0 .. n - 1
  BY <1>1 DEF Right
<1>3. Cardinality(DOMAIN cs) = n
  BY <1>2, Counted
<1> QED
  BY <1>1, <1>3 DEF buckets_len

LEMMA NextMap == MapInv /\ [Next]_vars => MapInv'
<1> SUFFICES ASSUME MapInv, [Next]_vars PROVE MapInv'
  OBVIOUS
<1>0. buckets_len \in Nat \ {0} /\ buckets_len >= BucketsLen
  BY DEF MapInv
<1>1. CASE Destroy
  <2>1. Right(buckets', buckets_len) /\ spent' \subseteq Values
    BY <1>1, DestroyNodes
  <2>2. buckets_len' = buckets_len
    BY <1>0, <2>1, LengthNext
  <2>3. Right(buckets, buckets_len)'
    BY <2>1, <2>2
  <2>4. alive' \in BOOLEAN /\ got' = got /\ len' = len
    BY <1>1 DEF Destroy
  <2> QED
    BY <1>0, <2>1, <2>2, <2>3, <2>4 DEF MapInv
<1>2. ASSUME NEW k \in Keys, Get(k)
      PROVE  MapInv'
  <2>1. got' = Entry(k)
    BY <1>2 DEF Get, Entry
  <2>2. got' \in Values \cup {NoValue}
    BY <2>1, GetIs
  <2>3. buckets' = buckets /\ len' = len /\ spent' = spent /\ alive' = alive
    BY <1>2 DEF Get
  <2>4. buckets_len' = buckets_len
    BY <2>3 DEF buckets_len
  <2>5. Right(buckets, buckets_len)'
    BY <2>3, <2>4 DEF MapInv
  <2> QED
    BY <1>0, <2>2, <2>3, <2>4, <2>5 DEF MapInv
<1>3. ASSUME NEW k \in Keys, Del(k)
      PROVE  MapInv'
  <2>1. Right(buckets', buckets_len) /\ spent' \subseteq Values
    BY <1>3, DelNodes
  <2>2. buckets_len' = buckets_len
    BY <1>0, <2>1, LengthNext
  <2>3. Right(buckets, buckets_len)'
    BY <2>1, <2>2
  <2>4. alive' = alive /\ got' = got /\ len' = len
    BY <1>3 DEF Del
  <2> QED
    BY <1>0, <2>1, <2>2, <2>3, <2>4 DEF MapInv
<1>4. ASSUME NEW k \in Keys, NEW v \in Values, Set(k, v)
      PROVE  MapInv'
  <2>1. PICK m \in Nat \ {0} : m >= BucketsLen /\ Right(buckets', m) /\ spent' \subseteq Values /\ len' \in Nat
    BY <1>4, SetNodes
  <2>2. buckets_len' = m
    BY <2>1, LengthNext
  <2>3. Right(buckets, buckets_len)'
    BY <2>1, <2>2
  <2>4. alive' = alive /\ got' = got
    BY <1>4 DEF Set
  <2> QED
    BY <2>1, <2>2, <2>3, <2>4 DEF MapInv
<1>5. CASE UNCHANGED vars
  <2>1. buckets_len' = buckets_len
    BY <1>5 DEF vars, buckets_len
  <2>2. Right(buckets, buckets_len)'
    BY <1>5, <2>1 DEF vars, MapInv
  <2> QED
    BY <1>0, <1>5, <2>1, <2>2 DEF vars, MapInv
<1> QED
  BY <1>1, <1>2, <1>3, <1>4, <1>5 DEF Next

\* In every state of the map, the array is an array of lists of nodes in which hashmap_get
\* finds every node, whatever was set, deleted and grown before.
THEOREM MapInvariant == Spec => []MapInv
  BY InitMap, NextMap, PTL DEF Spec

LEMMA RightIsNodesRight == MapInv => NodesRight
<1> SUFFICES ASSUME MapInv PROVE NodesRight
  OBVIOUS
<1>1. PICK n \in Nat \ {0} : n = buckets_len /\ Right(buckets, n)
  BY DEF MapInv
<1>2. PICK bs : bs = buckets
  OBVIOUS
<1>3. /\ DOMAIN bs = 0 .. n - 1
      /\ \A i \in 0 .. n - 1 : /\ bs[i] \in Seq(Node) /\ DOMAIN bs[i] = 1 .. Len(bs[i])
                               /\ ListRight(bs[i], i, n)
  BY <1>1, <1>2 DEF Right
<1>4. \A i \in 0 .. n - 1 : \A p \in 1 .. Len(bs[i]) : bs[i][p] \in Node
  BY <1>3
<1>5. \A i \in DOMAIN bs : \A p \in DOMAIN bs[i] : bs[i][p].key \in Keys /\ bs[i][p].value \in Values
  BY <1>3, <1>4 DEF Node
<1>6. \A i \in DOMAIN bs : \A p \in DOMAIN bs[i] : Bucket(bs[i][p].key, n) = i
  BY <1>3 DEF ListRight
<1>7. ASSUME NEW k \in Keys, NEW i \in DOMAIN bs
      PROVE  Cardinality(Places(bs[i], k)) <= 1
  <2>1. \A p, q \in Places(bs[i], k) : p = q
    <3>1. PICK s : s = bs[i] /\ DOMAIN s = 1 .. Len(s) /\ ListRight(s, i, n)
      BY <1>3
    <3> QED
      BY <3>1 DEF Places, ListRight
  <2>2. CASE Places(bs[i], k) = {}
    BY <2>2, FS_EmptySet
  <2>3. CASE Places(bs[i], k) # {}
    <3>1. PICK p : p \in Places(bs[i], k)
      BY <2>3
    <3>2. Places(bs[i], k) = {p}
      BY <2>1, <3>1
    <3> QED
      BY <3>2, FS_Singleton, SMTT(30)
  <2> QED
    BY <2>2, <2>3
<1>8. TypeOK
  BY <1>2, <1>5 DEF MapInv, TypeOK
<1>9. InItsBucket
  BY <1>1, <1>2, <1>6, <1>7 DEF InItsBucket
<1> QED
  BY <1>8, <1>9 DEF NodesRight

\* hashmap_set, hashmap_del and the growth of the map keep every node in the list where it
\* is looked for, and a key in one node.
THEOREM NodesRightHolds == Spec => []NodesRight
  BY MapInvariant, RightIsNodesRight, PTL
-----------------------------------------------------------------------------
(* The map implements a partial function *)

LEMMA EntriesSame ==
    ASSUME MapInv, buckets' = buckets
    PROVE  [k \in Keys |-> Entry(k)]' = [k \in Keys |-> Entry(k)]
<1>1. \A k \in Keys : Entry(k)' = Entry(k)
  BY DEF Entry, Find, buckets_len
<1> QED
  BY <1>1

LEMMA InitImplements == Init => Abstract!Init
<1> SUFFICES ASSUME Init PROVE Abstract!Init
  OBVIOUS
<1>1. MapInv
  BY InitMap
<1>2. PICK n \in Nat \ {0} : n = BucketsLen /\ n = buckets_len /\ Right(buckets, n) /\ buckets = Empty(n)
  <2>1. DOMAIN buckets = 0 .. BucketsLen - 1
    BY DEF Init, Empty
  <2>2. buckets_len = BucketsLen
    BY <2>1, Counted DEF buckets_len
  <2> QED
    BY <1>1, <2>2 DEF Init, MapInv
<1>3. NodesOf(buckets, n) = {}
  BY <1>2, EmptyRight
<1>4. \A k \in Keys : Entry(k) = NoValue
  BY <1>1, <1>2, <1>3, GetIs, EntryIs
<1> QED
  BY <1>4 DEF Init, Abstract!Init

LEMMA StepImplements == MapInv /\ MapInv' /\ [Next]_vars => [Abstract!Next]_(Abstract!vars)
<1> SUFFICES ASSUME MapInv, MapInv', [Next]_vars PROVE [Abstract!Next]_(Abstract!vars)
  OBVIOUS
<1> DEFINE entry == [k \in Keys |-> Entry(k)]
<1>0. PICK n \in Nat \ {0} : n = buckets_len /\ Right(buckets, n)
  BY DEF MapInv
<1>1. PICK bs, cs : bs = buckets /\ cs = buckets'
  OBVIOUS
<1>2. PICK m \in Nat \ {0} : m = buckets_len' /\ Right(cs, m)
  BY <1>1 DEF MapInv
<1>3. \A k \in Keys : Entry(k) = EntryOf(bs, n, k)
  BY <1>0, <1>1, GetIs
<1>4. \A k \in Keys : Entry(k)' = EntryOf(cs, m, k)
  <2>1. \A k \in Keys : Entry(k)' = EntryOf(buckets', buckets_len', k)
    BY DEF Entry, EntryOf, Find
  <2> QED
    BY <1>1, <1>2, <2>1
<1>5. CASE Destroy
  <2>1. Right(cs, n) /\ NodesOf(cs, n) = {} /\ spent' = spent \cup Owned
    BY <1>0, <1>1, <1>5, DestroyNodes
  <2>2. m = n
    BY <1>0, <1>1, <1>2, <2>1, LengthNext
  <2>3. \A k \in Keys : EntryOf(cs, m, k) = NoValue
    BY <2>1, <2>2, EntryIs
  <2>4. entry' = [k \in Keys |-> NoValue]
    BY <1>4, <2>3
  <2>5. Owned = UNION {{entry[k]} \ {NoValue} : k \in Keys}
    <3>1. \A v : v \in Owned <=> v # NoValue /\ \E k \in Keys : entry[k] = v
      BY OwnedEntries
    <3> HIDE DEF entry
    <3> QED
      BY <3>1
  <2>6. Abstract!Destroy
    BY <1>5, <2>1, <2>4, <2>5 DEF Destroy, Abstract!Destroy, Abstract!Owned
  <2> QED
    BY <2>6 DEF Abstract!Next
<1>6. ASSUME NEW k \in Keys, Get(k)
      PROVE  [Abstract!Next]_(Abstract!vars)
  <2>1. got' = entry[k]
    BY <1>6 DEF Get, Entry
  <2>2. entry' = entry
    BY <1>6, EntriesSame DEF Get
  <2>3. Abstract!Get(k)
    BY <1>6, <2>1, <2>2 DEF Get, Abstract!Get
  <2> QED
    BY <2>3 DEF Abstract!Next
<1>7. ASSUME NEW k \in Keys, Del(k)
      PROVE  [Abstract!Next]_(Abstract!vars)
  <2>1. /\ Right(cs, n)
        /\ \A y : y \in NodesOf(cs, n) <=> y \in NodesOf(bs, n) /\ y.key # k
        /\ spent' = spent \cup ({EntryOf(bs, n, k)} \ {NoValue})
    BY <1>0, <1>1, <1>7, DelNodes
  <2>2. m = n
    BY <1>0, <1>1, <1>2, <2>1, LengthNext
  <2>3. Right(bs, n)
    BY <1>0, <1>1
  <2>4. \A j \in Keys : EntryOf(cs, n, j) = IF j = k THEN NoValue ELSE EntryOf(bs, n, j)
    BY <2>1, <2>3, DropEntry
  <2>5. entry' = [entry EXCEPT ![k] = NoValue]
    BY <1>3, <1>4, <2>2, <2>4
  <2>6. spent' = spent \cup ({entry[k]} \ {NoValue})
    BY <1>3, <2>1
  <2>7. Abstract!Del(k)
    BY <1>7, <2>5, <2>6 DEF Del, Abstract!Del, Abstract!Owned
  <2> QED
    BY <2>7 DEF Abstract!Next
<1>8. ASSUME NEW k \in Keys, NEW v \in Values, Set(k, v)
      PROVE  [Abstract!Next]_(Abstract!vars)
  <2>1. PICK h \in Nat \ {0} :
            /\ Right(cs, h)
            /\ \A y : y \in NodesOf(cs, h) <=>
                         y = [key |-> k, value |-> v] \/ (y \in NodesOf(bs, n) /\ y.key # k)
            /\ spent' = spent \cup ({EntryOf(bs, n, k)} \ {NoValue})
    BY <1>0, <1>1, <1>8, SetNodes
  <2>2. m = h
    BY <1>1, <1>2, <2>1, LengthNext
  <2>3. Right(bs, n)
    BY <1>0, <1>1
  <2>4. \A j \in Keys : EntryOf(cs, h, j) = IF j = k THEN v ELSE EntryOf(bs, n, j)
    BY <2>1, <2>3, PutEntry
  <2>5. entry' = [entry EXCEPT ![k] = v]
    BY <1>3, <1>4, <2>2, <2>4
  <2>6. spent' = spent \cup ({entry[k]} \ {NoValue})
    BY <1>3, <2>1
  <2>7. v \notin spent /\ \A j \in Keys : entry[j] # v
    <3>1. v \notin Owned /\ v \notin spent /\ v # NoValue
      BY <1>8 DEF Set
    <3> QED
      BY <3>1, OwnedEntries
  <2>8. Abstract!Set(k, v)
    BY <1>8, <2>5, <2>6, <2>7 DEF Set, Abstract!Set, Abstract!Owned
  <2> QED
    BY <2>8 DEF Abstract!Next
<1>9. CASE UNCHANGED vars
  <2>1. entry' = entry
    BY <1>9, EntriesSame DEF vars
  <2> QED
    BY <1>9, <2>1 DEF vars, Abstract!vars
<1> QED
  BY <1>5, <1>6, <1>7, <1>8, <1>9 DEF Next

\* The map implements a partial function: a get returns what was last set for its key and
\* not deleted since, and del_value is called once for every value that leaves the map.
THEOREM ImplementsMapHolds == Spec => ImplementsMap
<1>1. Init => Abstract!Init
  BY InitImplements
<1>2. MapInv /\ MapInv' /\ [Next]_vars => [Abstract!Next]_(Abstract!vars)
  BY StepImplements
<1> QED
  BY <1>1, <1>2, MapInvariant, PTL DEF Spec, ImplementsMap, Abstract!Spec
=============================================================================
