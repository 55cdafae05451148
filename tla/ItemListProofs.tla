--------------------------- MODULE ItemListProofs ---------------------------
(***************************************************************************)
(* Proofs about ItemList, for every set of blocks, of kinds and of names:  *)
(* whatever calls a program makes, the pointers of cJSON represent the     *)
(* lists it has in mind, and what is deleted takes exactly its own along.  *)
(***************************************************************************)
EXTENDS ItemList, SequenceTheorems, WellFoundedInduction, TLAPS

USE NullAssumption

Heaps == [child : Pointers, next : Pointers, prev : Pointers]
Distinct(s) == \A j, k \in DOMAIN s : s[j] = s[k] => j = k
In(x, s) == \E k \in DOMAIN s : s[k] = x
Instead(s, k, r) == [s EXCEPT ![k] = r]

-----------------------------------------------------------------------------
(* One list: the calls turn the pointers of the list s of p into those of  *)
(* a list t, touch no other item and cut off what is in t no more.         *)

Edited(heap, new, p, s, t) ==
    /\ new \in Heaps
    /\ t \in Seq(Items) /\ Distinct(t)
    /\ Linked(new, p, t)
    /\ \A x \in Items : x # p => new.child[x] = heap.child[x]
    /\ \A x \in Items : ~In(x, s) /\ ~In(x, t) => new.next[x] = heap.next[x] /\ new.prev[x] = heap.prev[x]
    /\ \A x \in Items : In(x, s) /\ ~In(x, t) => new.next[x] = Null /\ new.prev[x] = Null

LEMMA Typed ==
    ASSUME NEW heap
    PROVE  heap \in Heaps <=> heap = [child |-> heap.child, next |-> heap.next, prev |-> heap.prev]
                              /\ heap.child \in Pointers /\ heap.next \in Pointers /\ heap.prev \in Pointers
BY DEF Heaps

LEMMA Set ==
    ASSUME NEW f \in Pointers, NEW x \in Items, NEW v \in Items \cup {Null}, NEW g, g = [f EXCEPT ![x] = v]
    PROVE  /\ g \in Pointers
           /\ g[x] = v
           /\ \A y \in Items : y # x => g[y] = f[y]
BY DEF Pointers

LEMMA SetTwo ==
    ASSUME NEW f \in Pointers, NEW x \in Items, NEW v \in Items \cup {Null}, NEW y \in Items, NEW w \in Items \cup {Null},
           x # y, NEW g, g = [f EXCEPT ![x] = v, ![y] = w]
    PROVE  /\ g \in Pointers
           /\ g[x] = v /\ g[y] = w
           /\ \A z \in Items : z # x /\ z # y => g[z] = f[z]
BY DEF Pointers

LEMMA SetThen ==
    ASSUME NEW f \in Pointers, NEW x \in Items, NEW v \in Items \cup {Null}, NEW y \in Items, NEW w \in Items \cup {Null},
           x # y, NEW g, g = [[f EXCEPT ![x] = v] EXCEPT ![y] = w]
    PROVE  /\ g \in Pointers
           /\ g[x] = v /\ g[y] = w
           /\ \A z \in Items : z # x /\ z # y => g[z] = f[z]
BY DEF Pointers

LEMMA Listed ==
    ASSUME NEW s \in Seq(Items)
    PROVE  Len(s) \in Nat /\ DOMAIN s = 1 .. Len(s) /\ \A k \in 1 .. Len(s) : s[k] \in Items
BY LenProperties, ElementOfSeq

LEMMA LinkedIs ==
    ASSUME NEW heap, NEW p, NEW s \in Seq(Items)
    PROVE  Linked(heap, p, s) <=>
               /\ heap.child[p] = IF Len(s) = 0 THEN Null ELSE s[1]
               /\ \A k \in 1 .. Len(s) : /\ heap.next[s[k]] = IF k = Len(s) THEN Null ELSE s[k + 1]
                                         /\ heap.prev[s[k]] = IF k = 1 THEN s[Len(s)] ELSE s[k - 1]
<1>1. s = <<>> <=> Len(s) = 0
  BY EmptySeq
<1>2. DOMAIN s = 1 .. Len(s)
  BY Listed
<1> QED
  BY <1>1, <1>2 DEF Linked

\* cJSON_AddItemToArray appends.
LEMMA AddEdits ==
    ASSUME NEW heap \in Heaps, NEW p \in Items, NEW s \in Seq(Items), Distinct(s), Linked(heap, p, s),
           NEW i \in Items, ~In(i, s), heap.next[i] = Null
    PROVE  Edited(heap, add_item_to_array(heap, p, i), p, s, Append(s, i))
<1>0. SUFFICES ASSUME NEW t, t = Append(s, i), NEW new, new = add_item_to_array(heap, p, i)
              PROVE  Edited(heap, new, p, s, t)
  OBVIOUS
<1>1. /\ Len(s) \in Nat /\ DOMAIN s = 1 .. Len(s) /\ \A k \in 1 .. Len(s) : s[k] \in Items
      /\ t \in Seq(Items) /\ Len(t) = Len(s) + 1 /\ DOMAIN t = 1 .. Len(s) + 1
      /\ \A k \in 1 .. Len(s) : t[k] = s[k]
      /\ t[Len(s) + 1] = i
  BY <1>0, Listed, AppendProperties, LenProperties
<1>2. \A k \in 1 .. Len(s) : s[k] # i
  BY <1>1 DEF In
<1>3. Distinct(t)
  BY <1>1, <1>2 DEF Distinct
<1>4. \A x \in Items : In(x, t) <=> In(x, s) \/ x = i
  BY <1>1 DEF In
<1>5. heap.child \in Pointers /\ heap.next \in Pointers /\ heap.prev \in Pointers
  BY Typed
<1>6. CASE s = <<>>
  <2>1. Len(s) = 0 /\ heap.child[p] = Null
    BY <1>6 DEF Linked
  <2>2. /\ new = [child |-> new.child, next |-> new.next, prev |-> new.prev]
        /\ new.child = [heap.child EXCEPT ![p] = i] /\ new.next = [heap.next EXCEPT ![i] = Null]
        /\ new.prev = [heap.prev EXCEPT ![i] = i]
    BY <1>0, <2>1 DEF add_item_to_array
  <2>3. new \in Heaps
    BY <1>5, <2>2, Typed, Set
  <2>4. new.child[p] = i /\ new.next[i] = Null /\ new.prev[i] = i
    BY <1>5, <2>2, Set
  <2>5. Linked(new, p, t)
    BY <1>1, <2>1, <2>4, LinkedIs
  <2>6. /\ \A x \in Items : x # p => new.child[x] = heap.child[x]
        /\ \A x \in Items : x # i => new.next[x] = heap.next[x] /\ new.prev[x] = heap.prev[x]
    BY <1>5, <2>2, Set
  <2> QED
    BY <1>1, <1>3, <1>4, <2>3, <2>5, <2>6 DEF Edited
<1>7. CASE s # <<>>
  <2>1. Len(s) \in Nat \ {0} /\ s[1] \in Items /\ s[Len(s)] \in Items
    BY <1>1, <1>7, EmptySeq
  <2>2. heap.child[p] = s[1] /\ heap.prev[s[1]] = s[Len(s)]
    BY <2>1, LinkedIs
  <2>3. PICK head, last : head = s[1] /\ last = s[Len(s)]
    OBVIOUS
  <2>4. /\ head \in Items /\ last \in Items /\ head # i /\ last # i /\ head # Null /\ last # Null
        /\ heap.child[p] = head /\ heap.prev[head] = last
    BY <1>1, <1>2, <2>1, <2>2, <2>3
  <2>5. new = [child |-> heap.child, next |-> [heap.next EXCEPT ![last] = i],
               prev  |-> [heap.prev EXCEPT ![i] = last, ![head] = i]]
    BY <1>0, <2>4 DEF add_item_to_array
  <2>6. /\ new.child = heap.child /\ new.next = [heap.next EXCEPT ![last] = i]
        /\ new.prev = [heap.prev EXCEPT ![i] = last, ![head] = i]
    BY <2>5
  <2>7. /\ new.next \in Pointers /\ new.next[last] = i
        /\ \A x \in Items : x # last => new.next[x] = heap.next[x]
    BY <1>5, <2>4, <2>6, Set
  <2>8. /\ new.prev \in Pointers /\ new.prev[head] = i /\ new.prev[i] = last
        /\ \A x \in Items : x # i /\ x # head => new.prev[x] = heap.prev[x]
    BY <1>5, <2>4, <2>6, SetTwo, SMTT(30)
  <2>9. new \in Heaps
    BY <1>5, <2>5, <2>6, <2>7, <2>8 DEF Heaps
  <2>10. \A k \in 1 .. Len(s) : (s[k] = head => k = 1) /\ (s[k] = last => k = Len(s))
    <3>1. 1 \in DOMAIN s /\ Len(s) \in DOMAIN s
      BY <1>1, <2>1
    <3> QED
      BY <1>1, <2>3, <3>1 DEF Distinct
  <2>11. \A k \in 1 .. Len(s) : /\ heap.next[s[k]] = IF k = Len(s) THEN Null ELSE s[k + 1]
                               /\ heap.prev[s[k]] = IF k = 1 THEN s[Len(s)] ELSE s[k - 1]
    BY LinkedIs
  <2>12. \A k \in 1 .. Len(s) : new.next[s[k]] = IF k = Len(s) THEN i ELSE s[k + 1]
    <3>1. TAKE k \in 1 .. Len(s)
    <3>2. CASE k = Len(s)
      BY <2>3, <2>7, <3>2
    <3>3. CASE k # Len(s)
      <4>1. s[k] \in Items /\ s[k] # last
        BY <1>1, <2>10, <3>3
      <4>2. new.next[s[k]] = heap.next[s[k]]
        BY <2>7, <4>1
      <4> QED
        BY <2>11, <3>3, <4>2
    <3> QED
      BY <3>2, <3>3
  <2>13. \A k \in 1 .. Len(s) : new.prev[s[k]] = IF k = 1 THEN i ELSE s[k - 1]
    <3>1. TAKE k \in 1 .. Len(s)
    <3>2. CASE k = 1
      BY <2>3, <2>8, <3>2
    <3>3. CASE k # 1
      <4>1. s[k] \in Items /\ s[k] # head /\ s[k] # i
        BY <1>1, <1>2, <2>10, <3>3 DEF In
      <4>2. new.prev[s[k]] = heap.prev[s[k]]
        BY <2>8, <4>1
      <4> QED
        BY <2>11, <3>3, <4>2
    <3> QED
      BY <3>2, <3>3
  <2>14. new.next[i] = Null
    BY <2>4, <2>7
  <2>15. Linked(new, p, t)
    <3>1. new.child[p] = t[1] /\ Len(t) # 0
      BY <1>1, <2>1, <2>3, <2>4, <2>6
    <3>2. \A k \in 1 .. Len(t) : k = Len(s) + 1 \/ k \in 1 .. Len(s)
      BY <1>1
    <3>3. ASSUME NEW k \in 1 .. Len(s)
          PROVE  /\ new.next[t[k]] = IF k = Len(t) THEN Null ELSE t[k + 1]
                 /\ new.prev[t[k]] = IF k = 1 THEN t[Len(t)] ELSE t[k - 1]
      <4>1. t[k] = s[k] /\ k # Len(t) /\ t[k + 1] = IF k = Len(s) THEN i ELSE s[k + 1]
        BY <1>1
      <4>2. t[Len(t)] = i /\ (k # 1 => t[k - 1] = s[k - 1])
        BY <1>1
      <4> QED
        BY <2>12, <2>13, <4>1, <4>2
    <3>4. ASSUME NEW k \in 1 .. Len(t)
          PROVE  /\ new.next[t[k]] = IF k = Len(t) THEN Null ELSE t[k + 1]
                 /\ new.prev[t[k]] = IF k = 1 THEN t[Len(t)] ELSE t[k - 1]
      <4>1. CASE k = Len(s) + 1
        BY <1>1, <2>1, <2>3, <2>8, <2>14, <4>1
      <4> QED
        BY <3>2, <3>3, <4>1
    <3> QED
      BY <1>1, <3>1, <3>4, LinkedIs
  <2>16. \A x \in Items : ~In(x, s) /\ x # i => new.next[x] = heap.next[x] /\ new.prev[x] = heap.prev[x]
    BY <1>1, <2>1, <2>3, <2>7, <2>8 DEF In
  <2> QED
    BY <1>1, <1>3, <1>4, <2>6, <2>9, <2>15, <2>16 DEF Edited
<1> QED
  BY <1>6, <1>7

-----------------------------------------------------------------------------
(* The lists the other calls make. *)

LEMMA WithList ==
    ASSUME NEW s \in Seq(Items), Distinct(s), NEW k \in 1 .. Len(s) + 1, NEW i \in Items, ~In(i, s),
           NEW t, t = With(s, k, i)
    PROVE  /\ t \in Seq(Items) /\ Len(t) = Len(s) + 1 /\ Distinct(t)
           /\ \A j \in 1 .. Len(s) + 1 : t[j] = IF j < k THEN s[j] ELSE IF j = k THEN i ELSE s[j - 1]
           /\ \A x \in Items : In(x, t) <=> In(x, s) \/ x = i
<1>1. Len(s) \in Nat /\ DOMAIN s = 1 .. Len(s) /\ \A j \in 1 .. Len(s) : s[j] \in Items /\ s[j] # i
  BY Listed DEF In
<1>2. t = [j \in 1 .. Len(s) + 1 |-> IF j < k THEN s[j] ELSE IF j = k THEN i ELSE s[j - 1]]
  BY DEF With
<1>3. /\ DOMAIN t = 1 .. Len(s) + 1
      /\ \A j \in 1 .. Len(s) + 1 : t[j] = IF j < k THEN s[j] ELSE IF j = k THEN i ELSE s[j - 1]
  BY <1>2
<1>4. \A j \in 1 .. Len(s) + 1 : t[j] \in Items
  BY <1>1, <1>3
<1>5. t \in Seq(Items) /\ Len(t) = Len(s) + 1
  BY <1>1, <1>2, <1>4
<1>6. Distinct(t)
  <2>1. \A j, l \in 1 .. Len(s) : s[j] = s[l] => j = l
    BY <1>1 DEF Distinct
  <2>2. ASSUME NEW j \in 1 .. Len(s) + 1, NEW l \in 1 .. Len(s) + 1, t[j] = t[l] PROVE j = l
    <3>1. CASE j = k
      BY <1>1, <1>3, <2>2, <3>1
    <3>2. CASE l = k
      BY <1>1, <1>3, <2>2, <3>2
    <3>3. CASE j < k /\ l # k
      BY <1>1, <1>3, <2>1, <2>2, <3>3
    <3>4. CASE j > k /\ l # k
      BY <1>1, <1>3, <2>1, <2>2, <3>4
    <3> QED
      BY <3>1, <3>2, <3>3, <3>4
  <2> QED
    BY <1>3, <2>2 DEF Distinct
<1>7. ASSUME NEW x \in Items PROVE In(x, t) <=> In(x, s) \/ x = i
  <2>1. ASSUME In(x, t) PROVE In(x, s) \/ x = i
    BY <1>1, <1>3, <2>1, SMTT(30) DEF In
  <2>2. ASSUME x = i PROVE In(x, t)
    BY <1>1, <1>3, <2>2 DEF In
  <2>3. ASSUME NEW j \in 1 .. Len(s), s[j] = x PROVE In(x, t)
    <3>1. CASE j < k
      BY <1>1, <1>3, <2>3, <3>1 DEF In
    <3>2. CASE ~(j < k)
      <4>1. j + 1 \in 1 .. Len(s) + 1 /\ t[j + 1] = s[j]
        BY <1>1, <1>3, <3>2
      <4> QED
        BY <1>3, <2>3, <4>1 DEF In
    <3> QED
      BY <3>1, <3>2
  <2> QED
    BY <1>1, <2>1, <2>2, <2>3 DEF In
<1> QED
  BY <1>3, <1>5, <1>6, <1>7

LEMMA WithoutList ==
    ASSUME NEW s \in Seq(Items), Distinct(s), NEW k \in 1 .. Len(s), NEW t, t = Without(s, k)
    PROVE  /\ t \in Seq(Items) /\ Len(t) = Len(s) - 1 /\ Distinct(t)
           /\ \A j \in 1 .. Len(s) - 1 : t[j] = IF j < k THEN s[j] ELSE s[j + 1]
           /\ \A x \in Items : In(x, t) <=> In(x, s) /\ x # s[k]
<1>1. Len(s) \in Nat /\ DOMAIN s = 1 .. Len(s) /\ \A j \in 1 .. Len(s) : s[j] \in Items
  BY Listed
<1>2. t = [j \in 1 .. Len(s) - 1 |-> IF j < k THEN s[j] ELSE s[j + 1]]
  BY DEF Without
<1>3. DOMAIN t = 1 .. Len(s) - 1 /\ \A j \in 1 .. Len(s) - 1 : t[j] = IF j < k THEN s[j] ELSE s[j + 1]
  BY <1>2
<1>4. \A j \in 1 .. Len(s) - 1 : t[j] \in Items
  BY <1>1, <1>3
<1>5. t \in Seq(Items) /\ Len(t) = Len(s) - 1
  BY <1>1, <1>2, <1>4
<1>6. \A j, l \in 1 .. Len(s) : s[j] = s[l] => j = l
  BY <1>1 DEF Distinct
<1>7. Distinct(t)
  BY <1>1, <1>3, <1>6 DEF Distinct
<1>8. ASSUME NEW x \in Items PROVE In(x, t) <=> In(x, s) /\ x # s[k]
  <2>1. ASSUME NEW j \in 1 .. Len(s) - 1, t[j] = x PROVE In(x, s) /\ x # s[k]
    <3>1. CASE j < k
      BY <1>1, <1>3, <1>6, <2>1, <3>1 DEF In
    <3>2. CASE ~(j < k)
      <4>1. j + 1 \in 1 .. Len(s) /\ t[j] = s[j + 1] /\ j + 1 # k
        BY <1>1, <1>3, <3>2
      <4> QED
        BY <1>1, <1>6, <2>1, <4>1 DEF In
    <3> QED
      BY <3>1, <3>2
  <2>2. ASSUME NEW j \in 1 .. Len(s), s[j] = x, x # s[k] PROVE In(x, t)
    <3>1. CASE j < k
      BY <1>1, <1>3, <2>2, <3>1 DEF In
    <3>2. CASE ~(j < k)
      <4>1. j - 1 \in 1 .. Len(s) - 1 /\ t[j - 1] = s[j]
        BY <1>1, <1>3, <2>2, <3>2
      <4> QED
        BY <1>3, <2>2, <4>1 DEF In
    <3> QED
      BY <3>1, <3>2
  <2> QED
    BY <1>1, <1>3, <2>1, <2>2 DEF In
<1> QED
  BY <1>3, <1>5, <1>7, <1>8

LEMMA ReplacedList ==
    ASSUME NEW s \in Seq(Items), Distinct(s), NEW k \in 1 .. Len(s), NEW r \in Items, ~In(r, s),
           NEW t, t = Instead(s, k, r)
    PROVE  /\ t \in Seq(Items) /\ Len(t) = Len(s) /\ Distinct(t)
           /\ \A j \in 1 .. Len(s) : t[j] = IF j = k THEN r ELSE s[j]
           /\ \A x \in Items : In(x, t) <=> (In(x, s) /\ x # s[k]) \/ x = r
<1>1. Len(s) \in Nat /\ DOMAIN s = 1 .. Len(s) /\ \A j \in 1 .. Len(s) : s[j] \in Items /\ s[j] # r
  BY Listed DEF In
<1>2. /\ t \in Seq(Items) /\ Len(t) = Len(s) /\ DOMAIN t = 1 .. Len(s)
      /\ \A j \in 1 .. Len(s) : t[j] = IF j = k THEN r ELSE s[j]
  BY ExceptSeq, LenProperties DEF Instead
<1>3. \A j, l \in 1 .. Len(s) : s[j] = s[l] => j = l
  BY <1>1 DEF Distinct
<1>4. Distinct(t)
  BY <1>1, <1>2, <1>3 DEF Distinct
<1>5. \A x \in Items : In(x, t) <=> (In(x, s) /\ x # s[k]) \/ x = r
  BY <1>1, <1>2, <1>3 DEF In
<1> QED
  BY <1>2, <1>4, <1>5

-----------------------------------------------------------------------------
(* The calls make these lists. *)

\* cJSON_InsertItemInArray inserts before the item it is given the index of.
LEMMA InsertEdits ==
    ASSUME NEW heap \in Heaps, NEW p \in Items, NEW s \in Seq(Items), Distinct(s), Linked(heap, p, s),
           NEW i \in Items, ~In(i, s), NEW k \in 1 .. Len(s)
    PROVE  Edited(heap, Insert(heap, p, s[k], i), p, s, With(s, k, i))
<1>0. SUFFICES ASSUME NEW t, t = With(s, k, i), NEW new, new = Insert(heap, p, s[k], i)
              PROVE  Edited(heap, new, p, s, t)
  OBVIOUS
<1>1. /\ Len(s) \in Nat \ {0} /\ DOMAIN s = 1 .. Len(s)
      /\ \A j \in 1 .. Len(s) : s[j] \in Items /\ s[j] # i /\ s[j] # Null
  BY Listed DEF In
<1>2. /\ t \in Seq(Items) /\ Len(t) = Len(s) + 1 /\ Distinct(t)
      /\ \A j \in 1 .. Len(s) + 1 : t[j] = IF j < k THEN s[j] ELSE IF j = k THEN i ELSE s[j - 1]
      /\ \A x \in Items : In(x, t) <=> In(x, s) \/ x = i
  BY <1>0, <1>1, WithList
<1>3. heap.child \in Pointers /\ heap.next \in Pointers /\ heap.prev \in Pointers
  BY Typed
<1>4. \A j \in 1 .. Len(s) : /\ heap.next[s[j]] = IF j = Len(s) THEN Null ELSE s[j + 1]
                            /\ heap.prev[s[j]] = IF j = 1 THEN s[Len(s)] ELSE s[j - 1]
  BY LinkedIs
<1>5. heap.child[p] = s[1]
  BY <1>1, LinkedIs
<1>6. \A j, l \in 1 .. Len(s) : s[j] = s[l] => j = l
  BY <1>1 DEF Distinct
<1>7. PICK at, before : at = s[k] /\ before = heap.prev[s[k]]
  OBVIOUS
<1>8. before = IF k = 1 THEN s[Len(s)] ELSE s[k - 1]
  BY <1>4, <1>7
<1>9. at \in Items /\ at # i /\ at # Null /\ before \in Items /\ before # i
  <2>1. Len(s) \in 1 .. Len(s) /\ (k # 1 => k - 1 \in 1 .. Len(s))
    BY <1>1
  <2> QED
    BY <1>1, <1>7, <1>8, <2>1
<1>10. /\ new \in Heaps
       /\ new.child[p] = (IF k = 1 THEN i ELSE s[1]) /\ \A x \in Items : x # p => new.child[x] = heap.child[x]
       /\ new.next[i] = at /\ (k # 1 => new.next[before] = i)
       /\ \A x \in Items : x # i /\ (k = 1 \/ x # before) => new.next[x] = heap.next[x]
       /\ new.prev[i] = before /\ new.prev[at] = i
       /\ \A x \in Items : x # i /\ x # at => new.prev[x] = heap.prev[x]
  <2>1. CASE k = 1
    <3>1. new = [child |-> [heap.child EXCEPT ![p] = i], next |-> [heap.next EXCEPT ![i] = at],
                 prev |-> [heap.prev EXCEPT ![i] = before, ![at] = i]]
      BY <1>0, <1>5, <1>7, <1>9, <2>1 DEF Insert
    <3>2. /\ new.child = [heap.child EXCEPT ![p] = i] /\ new.next = [heap.next EXCEPT ![i] = at]
          /\ new.prev = [heap.prev EXCEPT ![i] = before, ![at] = i]
      BY <3>1
    <3>3. /\ new.child \in Pointers /\ new.child[p] = i /\ \A x \in Items : x # p => new.child[x] = heap.child[x]
      BY <1>3, <3>2, Set
    <3>4. /\ new.next \in Pointers /\ new.next[i] = at /\ \A x \in Items : x # i => new.next[x] = heap.next[x]
      BY <1>3, <1>9, <3>2, Set
    <3>5. /\ new.prev \in Pointers /\ new.prev[i] = before /\ new.prev[at] = i
          /\ \A x \in Items : x # i /\ x # at => new.prev[x] = heap.prev[x]
      BY <1>3, <1>9, <3>2, SetTwo, SMTT(30)
    <3>6. new \in Heaps
      BY <3>1, <3>2, <3>3, <3>4, <3>5 DEF Heaps
    <3> QED
      BY <2>1, <3>3, <3>4, <3>5, <3>6
  <2>2. CASE k # 1
    <3>1. at # s[1]
      BY <1>1, <1>6, <1>7, <2>2
    <3>2. new = [child |-> heap.child, next |-> [heap.next EXCEPT ![i] = at, ![before] = i],
                 prev |-> [heap.prev EXCEPT ![i] = before, ![at] = i]]
      BY <1>0, <1>5, <1>7, <1>9, <3>1 DEF Insert
    <3>3. /\ new.child = heap.child /\ new.next = [heap.next EXCEPT ![i] = at, ![before] = i]
          /\ new.prev = [heap.prev EXCEPT ![i] = before, ![at] = i]
      BY <3>2
    <3>4. /\ new.next \in Pointers /\ new.next[i] = at /\ new.next[before] = i
          /\ \A x \in Items : x # i /\ x # before => new.next[x] = heap.next[x]
      BY <1>3, <1>9, <3>3, SetTwo, SMTT(30)
    <3>5. /\ new.prev \in Pointers /\ new.prev[i] = before /\ new.prev[at] = i
          /\ \A x \in Items : x # i /\ x # at => new.prev[x] = heap.prev[x]
      BY <1>3, <1>9, <3>3, SetTwo, SMTT(30)
    <3>6. new \in Heaps
      BY <1>3, <3>2, <3>3, <3>4, <3>5 DEF Heaps
    <3> QED
      BY <1>5, <2>2, <3>3, <3>4, <3>5, <3>6
  <2> QED
    BY <2>1, <2>2
<1>11. k \in Nat \ {0} /\ Len(s) \in Nat /\ k <= Len(s)
  BY <1>1
<1>12. \A j \in 1 .. Len(s) : (s[j] = at <=> j = k) /\ (k # 1 => (s[j] = before <=> j = k - 1))
  BY <1>1, <1>6, <1>7, <1>8
<1>13. \A j \in 1 .. Len(s) : new.next[s[j]] = IF j = Len(s) THEN Null ELSE IF j + 1 = k THEN i ELSE s[j + 1]
  <2>1. /\ k # 1 => new.next[before] = i
        /\ \A x \in Items : x # i /\ (k = 1 \/ x # before) => new.next[x] = heap.next[x]
    BY <1>10
  <2>2. ASSUME NEW j \in 1 .. Len(s), j + 1 = k PROVE s[j] = before /\ k # 1 /\ j # Len(s)
    <3>1. j = k - 1 /\ k # 1 /\ j # Len(s)
      BY <1>11, <2>2
    <3> QED
      BY <1>12, <3>1
  <2>3. ASSUME NEW j \in 1 .. Len(s), j + 1 # k PROVE s[j] \in Items /\ s[j] # i /\ (k = 1 \/ s[j] # before)
    BY <1>1, <1>11, <1>12, <2>3
  <2> QED
    BY <1>4, <2>1, <2>2, <2>3
<1>14. \A j \in 1 .. Len(s) : new.prev[s[j]] = IF j = k THEN i ELSE IF j = 1 THEN s[Len(s)] ELSE s[j - 1]
  <2>1. new.prev[at] = i /\ \A x \in Items : x # i /\ x # at => new.prev[x] = heap.prev[x]
    BY <1>10
  <2> QED
    BY <1>1, <1>4, <1>12, <2>1
<1>15. ASSUME NEW j \in 1 .. Len(t)
       PROVE  /\ new.next[t[j]] = IF j = Len(t) THEN Null ELSE t[j + 1]
              /\ new.prev[t[j]] = IF j = 1 THEN t[Len(t)] ELSE t[j - 1]
  <2>0. j \in Nat \ {0} /\ j <= Len(s) + 1 /\ Len(t) = Len(s) + 1 /\ Len(s) \in Nat
    BY <1>1, <1>2
  <2>1. t[Len(t)] = s[Len(s)]
    BY <1>1, <1>2
  <2>2. CASE j < k
    <3>1. j \in 1 .. Len(s) /\ t[j] = s[j] /\ j # Len(t) /\ t[j + 1] = IF j + 1 = k THEN i ELSE s[j + 1]
      BY <1>1, <1>2, <2>2
    <3>2. j # 1 => t[j - 1] = s[j - 1]
      BY <1>1, <1>2, <2>2
    <3>3. j # k /\ j # Len(s)
      BY <1>11, <2>0, <2>2
    <3> QED
      BY <1>13, <1>14, <2>1, <3>1, <3>2, <3>3
  <2>3. CASE j = k
    <3>1. t[j] = i /\ j # Len(t) /\ t[j + 1] = at /\ (j # 1 => t[j - 1] = s[k - 1])
      BY <1>1, <1>2, <1>7, <2>3
    <3> QED
      BY <1>8, <1>10, <2>1, <2>3, <3>1
  <2>4. CASE j > k
    <3>1. /\ j - 1 \in 1 .. Len(s) /\ j # 1 /\ j # k
          /\ j - 1 = Len(s) <=> j = Len(t)
          /\ (j - 1) + 1 = j /\ (j - 1 = 1 => j - 1 = k) /\ (j - 1) - 1 = j - 2
      BY <1>11, <2>0, <2>4
    <3>2. t[j] = s[j - 1] /\ t[j - 1] = IF j - 1 = k THEN i ELSE s[j - 2]
      BY <1>2, <1>11, <2>0, <2>4
    <3>3. ASSUME j # Len(t) PROVE t[j + 1] = s[j]
      <4>1. j + 1 \in 1 .. Len(s) + 1 /\ j + 1 > k /\ (j + 1) - 1 = j
        BY <1>11, <2>0, <2>4, <3>3
      <4> QED
        BY <1>2, <1>11, <4>1
    <3> QED
      BY <1>13, <1>14, <3>1, <3>2, <3>3
  <2> QED
    BY <1>11, <2>0, <2>2, <2>3, <2>4
<1>16. new.child[p] = t[1] /\ Len(t) # 0
  BY <1>1, <1>2, <1>10
<1>17. Linked(new, p, t)
  BY <1>2, <1>15, <1>16, LinkedIs
<1>18. \A x \in Items : ~In(x, s) /\ x # i => new.next[x] = heap.next[x] /\ new.prev[x] = heap.prev[x]
  BY <1>1, <1>7, <1>8, <1>10 DEF In
<1> QED
  BY <1>2, <1>10, <1>17, <1>18 DEF Edited

\* At the end of the list it adds.
LEMMA InsertLastEdits ==
    ASSUME NEW heap \in Heaps, NEW p \in Items, NEW s \in Seq(Items), Distinct(s), Linked(heap, p, s),
           NEW i \in Items, ~In(i, s), heap.next[i] = Null
    PROVE  Edited(heap, Insert(heap, p, Null, i), p, s, With(s, Len(s) + 1, i))
<1>1. Insert(heap, p, Null, i) = add_item_to_array(heap, p, i)
  BY DEF Insert
<1>2. PICK t : t = With(s, Len(s) + 1, i)
  OBVIOUS
<1>3. Len(s) \in Nat /\ Len(s) + 1 \in 1 .. Len(s) + 1
  BY Listed
<1>4. /\ t \in Seq(Items) /\ Len(t) = Len(s) + 1
      /\ \A j \in 1 .. Len(s) + 1 : t[j] = IF j < Len(s) + 1 THEN s[j] ELSE IF j = Len(s) + 1 THEN i ELSE s[j - 1]
  BY <1>2, <1>3, WithList
<1>5. /\ Append(s, i) \in Seq(Items) /\ Len(Append(s, i)) = Len(s) + 1
      /\ \A j \in 1 .. Len(s) : Append(s, i)[j] = s[j]
      /\ Append(s, i)[Len(s) + 1] = i
  BY AppendProperties
<1>6. \A j \in 1 .. Len(s) + 1 : Append(s, i)[j] = t[j]
  BY <1>3, <1>4, <1>5
<1>7. Append(s, i) = t
  BY <1>4, <1>5, <1>6, SeqEqual
<1> QED
  BY <1>1, <1>2, <1>7, AddEdits

\* cJSON_DetachItemViaPointer takes out the item it is given.
LEMMA DetachEdits ==
    ASSUME NEW heap \in Heaps, NEW p \in Items, NEW s \in Seq(Items), Distinct(s), Linked(heap, p, s),
           NEW k \in 1 .. Len(s)
    PROVE  Edited(heap, Detach(heap, p, s[k]), p, s, Without(s, k))
<1>0. SUFFICES ASSUME NEW t, t = Without(s, k), NEW new, new = Detach(heap, p, s[k])
              PROVE  Edited(heap, new, p, s, t)
  OBVIOUS
<1>1. /\ Len(s) \in Nat \ {0} /\ DOMAIN s = 1 .. Len(s)
      /\ \A j \in 1 .. Len(s) : s[j] \in Items /\ s[j] # Null
  BY Listed
<1>2. PICK n : n = Len(s)
  OBVIOUS
<1>3. n \in Nat \ {0} /\ k \in Nat \ {0} /\ k <= n
  BY <1>1, <1>2
<1>4. /\ t \in Seq(Items) /\ Len(t) = n - 1 /\ Distinct(t)
      /\ \A j \in 1 .. n - 1 : t[j] = IF j < k THEN s[j] ELSE s[j + 1]
      /\ \A x \in Items : In(x, t) <=> In(x, s) /\ x # s[k]
  BY <1>0, <1>2, WithoutList
<1>5. heap.child \in Pointers /\ heap.next \in Pointers /\ heap.prev \in Pointers
  BY Typed
<1>6. \A j \in 1 .. n : /\ heap.next[s[j]] = IF j = n THEN Null ELSE s[j + 1]
                       /\ heap.prev[s[j]] = IF j = 1 THEN s[n] ELSE s[j - 1]
  <2>1. \A j \in 1 .. Len(s) : /\ heap.next[s[j]] = IF j = Len(s) THEN Null ELSE s[j + 1]
                              /\ heap.prev[s[j]] = IF j = 1 THEN s[Len(s)] ELSE s[j - 1]
    BY LinkedIs
  <2> QED
    BY <1>2, <2>1
<1>7. heap.child[p] = s[1]
  BY <1>1, LinkedIs
<1>8. \A j, l \in 1 .. n : s[j] = s[l] => j = l
  BY <1>1, <1>2 DEF Distinct
<1>9. PICK item, after, before : item = s[k] /\ after = heap.next[item] /\ before = heap.prev[item]
  OBVIOUS
<1>10. /\ item \in Items
       /\ after = IF k = n THEN Null ELSE s[k + 1]
       /\ before = IF k = 1 THEN s[n] ELSE s[k - 1]
  <2>1. k \in 1 .. n
    BY <1>2
  <2> QED
    BY <1>1, <1>6, <1>9, <2>1
<1>11. /\ before \in Items
       /\ k # n => after \in Items /\ after # Null /\ after # item
       /\ k = n => after = Null
       /\ k # 1 => before # item
       /\ k = 1 <=> item = s[1]
  <2>1. /\ 1 \in 1 .. n /\ n \in 1 .. n /\ k \in 1 .. n
        /\ k # n => k + 1 \in 1 .. n /\ k + 1 # k
        /\ k # 1 => k - 1 \in 1 .. n /\ k - 1 # k
    BY <1>3
  <2>2. \A j \in 1 .. n : s[j] \in Items /\ s[j] # Null /\ (s[j] = item => j = k)
    BY <1>1, <1>2, <1>8, <1>9, <2>1
  <2>3. before \in Items /\ (k # 1 => before # item)
    BY <1>10, <2>1, <2>2
  <2>4. /\ k # n => after \in Items /\ after # Null /\ after # item
        /\ k = n => after = Null
    BY <1>10, <2>1, <2>2
  <2>5. k = 1 <=> item = s[1]
    BY <1>9, <2>1, <2>2
  <2> QED
    BY <2>3, <2>4, <2>5
\* The neighbour whose prev changes: the next item, or the first if the last one goes
<1>12. PICK up : up = IF k = n THEN s[1] ELSE s[k + 1]
  OBVIOUS
<1>13. /\ new \in Heaps
       /\ new.child[p] = IF k = 1 THEN after ELSE s[1]
       /\ \A x \in Items : x # p => new.child[x] = heap.child[x]
       /\ new.next[item] = Null
       /\ k # 1 => new.next[before] = after
       /\ \A x \in Items : x # item /\ (k = 1 \/ x # before) => new.next[x] = heap.next[x]
       /\ new.prev[item] = Null
       /\ n # 1 => new.prev[up] = before
       /\ \A x \in Items : x # item /\ (n = 1 \/ x # up) => new.prev[x] = heap.prev[x]
  <2>1. CASE n = 1
    <3>1. k = 1 /\ after = Null
      BY <1>3, <1>11, <2>1
    <3>2. new = [child |-> [heap.child EXCEPT ![p] = after], next |-> [heap.next EXCEPT ![item] = Null],
                 prev |-> [heap.prev EXCEPT ![item] = Null]]
      BY <1>0, <1>7, <1>9, <1>11, <3>1 DEF Detach
    <3>3. /\ new.child = [heap.child EXCEPT ![p] = after] /\ new.next = [heap.next EXCEPT ![item] = Null]
          /\ new.prev = [heap.prev EXCEPT ![item] = Null]
      BY <3>2
    <3>4. new.child \in Pointers /\ new.child[p] = after /\ \A x \in Items : x # p => new.child[x] = heap.child[x]
      BY <1>5, <3>1, <3>3, Set
    <3>5. new.next \in Pointers /\ new.next[item] = Null /\ \A x \in Items : x # item => new.next[x] = heap.next[x]
      BY <1>5, <1>10, <3>3, Set
    <3>6. new.prev \in Pointers /\ new.prev[item] = Null /\ \A x \in Items : x # item => new.prev[x] = heap.prev[x]
      BY <1>5, <1>10, <3>3, Set
    <3>7. new \in Heaps
      BY <3>2, <3>3, <3>4, <3>5, <3>6 DEF Heaps
    <3> QED
      BY <2>1, <3>1, <3>4, <3>5, <3>6, <3>7
  <2>2. CASE n # 1
    <3>1. up \in Items /\ up # item
      <4>1. 1 \in 1 .. n /\ (k = n => k # 1) /\ (k # n => k + 1 \in 1 .. n)
        BY <1>3, <2>2
      <4> QED
        BY <1>1, <1>2, <1>10, <1>11, <1>12, <4>1
    <3>2. PICK child, next : /\ child = IF k = 1 THEN [heap.child EXCEPT ![p] = after] ELSE heap.child
                             /\ next = IF k = 1 THEN [heap.next EXCEPT ![item] = Null]
                                       ELSE [[heap.next EXCEPT ![before] = after] EXCEPT ![item] = Null]
      OBVIOUS
    <3>3. new = [child |-> child, next |-> next, prev |-> [[heap.prev EXCEPT ![up] = before] EXCEPT ![item] = Null]]
      <4>1. CASE k = 1
        <5>1. k # n /\ up = after /\ after # Null /\ item = heap.child[p]
          BY <1>7, <1>10, <1>11, <1>12, <2>2, <4>1
        <5> QED
          BY <1>0, <1>9, <3>2, <4>1, <5>1 DEF Detach
      <4>2. CASE k # 1 /\ k # n
        <5>1. up = after /\ after # Null /\ item # heap.child[p]
          BY <1>7, <1>10, <1>11, <1>12, <4>2
        <5> QED
          BY <1>0, <1>9, <3>2, <4>2, <5>1 DEF Detach
      <4>3. CASE k # 1 /\ k = n
        <5>1. up = heap.child[p] /\ after = Null /\ item # heap.child[p]
          BY <1>7, <1>11, <1>12, <4>3
        <5> QED
          BY <1>0, <1>9, <3>2, <4>3, <5>1 DEF Detach
      <4> QED
        BY <4>1, <4>2, <4>3
    <3>4. new.child = child /\ new.next = next /\ new.prev = [[heap.prev EXCEPT ![up] = before] EXCEPT ![item] = Null]
      BY <3>3
    <3>5. /\ new.prev \in Pointers /\ new.prev[up] = before /\ new.prev[item] = Null
          /\ \A x \in Items : x # up /\ x # item => new.prev[x] = heap.prev[x]
      <4>1. before \in Items \cup {Null} /\ Null \in Items \cup {Null} /\ up # item
        BY <1>11, <3>1
      <4>2. new.prev = [[heap.prev EXCEPT ![up] = before] EXCEPT ![item] = Null] /\ heap.prev \in Pointers
        BY <1>5, <3>4
      <4>3. up \in Items /\ item \in Items
        BY <1>10, <3>1
      <4> QED
        BY <4>1, <4>2, <4>3, SetThen, SMTT(30)
    <3>6. after \in Items \cup {Null}
      BY <1>11
    <3>7. /\ new.child \in Pointers /\ new.child[p] = IF k = 1 THEN after ELSE s[1]
          /\ \A x \in Items : x # p => new.child[x] = heap.child[x]
      <4>1. CASE k = 1
        BY <1>5, <3>2, <3>4, <3>6, <4>1, Set
      <4>2. CASE k # 1
        BY <1>5, <1>7, <3>2, <3>4, <4>2
      <4> QED
        BY <4>1, <4>2
    <3>8. /\ new.next \in Pointers /\ new.next[item] = Null /\ (k # 1 => new.next[before] = after)
          /\ \A x \in Items : x # item /\ (k = 1 \/ x # before) => new.next[x] = heap.next[x]
      <4>1. CASE k = 1
        BY <1>5, <1>10, <3>2, <3>4, <4>1, Set
      <4>2. CASE k # 1
        <5>1. new.next = [[heap.next EXCEPT ![before] = after] EXCEPT ![item] = Null] /\ before # item
          BY <1>11, <3>2, <3>4, <4>2
        <5>2. before \in Items /\ item \in Items /\ Null \in Items \cup {Null}
          BY <1>10, <1>11
        <5>3. /\ new.next \in Pointers /\ new.next[item] = Null /\ new.next[before] = after
              /\ \A x \in Items : x # before /\ x # item => new.next[x] = heap.next[x]
          BY <1>5, <3>6, <5>1, <5>2, SetThen, SMTT(30)
        <5> QED
          BY <4>2, <5>3
      <4> QED
        BY <4>1, <4>2
    <3>9. new \in Heaps
      BY <3>3, <3>4, <3>5, <3>7, <3>8 DEF Heaps
    <3> QED
      BY <2>2, <3>5, <3>7, <3>8, <3>9
  <2> QED
    BY <2>1, <2>2
<1>14. \A m \in 1 .. n : m # k => new.next[s[m]] = IF m + 1 = k THEN after ELSE IF m = n THEN Null ELSE s[m + 1]
  <2>1. ASSUME NEW m \in 1 .. n, m + 1 = k PROVE s[m] = before /\ k # 1
    <3>1. m = k - 1 /\ k # 1
      BY <1>3, <2>1
    <3> QED
      BY <1>10, <3>1
  <2>2. ASSUME NEW m \in 1 .. n, m # k, m + 1 # k PROVE s[m] \in Items /\ s[m] # item /\ (k = 1 \/ s[m] # before)
    <3>1. k \in 1 .. n /\ (k # 1 => k - 1 \in 1 .. n /\ m # k - 1)
      BY <1>3, <2>2
    <3> QED
      BY <1>1, <1>2, <1>8, <1>9, <1>10, <2>2, <3>1
  <2>3. /\ k # 1 => new.next[before] = after
        /\ \A x \in Items : x # item /\ (k = 1 \/ x # before) => new.next[x] = heap.next[x]
    BY <1>13
  <2> QED
    BY <1>6, <2>1, <2>2, <2>3
<1>15. \A m \in 1 .. n : m # k => new.prev[s[m]] = IF m = (IF k = n THEN 1 ELSE k + 1) THEN before
                                                    ELSE IF m = 1 THEN s[n] ELSE s[m - 1]
  <2>1. PICK u : u = IF k = n THEN 1 ELSE k + 1
    OBVIOUS
  <2>2. u \in 1 .. n /\ up = s[u] /\ (n = 1 => u = k)
    BY <1>3, <1>12, <2>1
  <2>3. ASSUME NEW m \in 1 .. n, m # k
        PROVE  /\ s[m] \in Items /\ s[m] # item /\ n # 1
               /\ s[m] = up <=> m = u
    <3>1. k \in 1 .. n /\ n # 1
      BY <1>3, <2>3
    <3> QED
      BY <1>1, <1>2, <1>8, <1>9, <2>2, <2>3, <3>1
  <2>4. /\ n # 1 => new.prev[up] = before
        /\ \A x \in Items : x # item /\ (n = 1 \/ x # up) => new.prev[x] = heap.prev[x]
    BY <1>13
  <2> QED
    BY <1>6, <2>1, <2>3, <2>4
<1>16. ASSUME NEW j \in 1 .. n - 1
       PROVE  /\ new.next[t[j]] = IF j = n - 1 THEN Null ELSE t[j + 1]
              /\ new.prev[t[j]] = IF j = 1 THEN t[n - 1] ELSE t[j - 1]
  <2>1. j \in Nat \ {0} /\ j <= n - 1
    BY <1>3
  <2>2. t[n - 1] = IF k = n THEN s[n - 1] ELSE s[n]
    <3>1. n - 1 \in 1 .. n - 1 /\ (n - 1) + 1 = n /\ (n - 1 < k <=> k = n)
      BY <1>3, <2>1
    <3> QED
      BY <1>4, <3>1
  <2>3. CASE j < k
    <3>1. j \in 1 .. n /\ j # k /\ t[j] = s[j] /\ (j # 1 => t[j - 1] = s[j - 1])
      BY <1>3, <1>4, <2>1, <2>3
    <3>2. j # n - 1 => t[j + 1] = IF j + 1 = k THEN s[j + 2] ELSE s[j + 1]
      <4>1. j # n - 1 => j + 1 \in 1 .. n - 1 /\ (j + 1) + 1 = j + 2 /\ (j + 1 < k <=> j + 1 # k)
        BY <1>3, <2>1, <2>3
      <4> QED
        BY <1>4, <4>1
    <3>3. new.next[s[j]] = IF j = n - 1 THEN Null ELSE t[j + 1]
      <4>1. /\ j + 1 = k => (j = n - 1 <=> k = n) /\ k + 1 = j + 2
            /\ j + 1 # k => j # n - 1 /\ j # n
        BY <1>3, <2>1, <2>3
      <4>2. new.next[s[j]] = IF j + 1 = k THEN after ELSE IF j = n THEN Null ELSE s[j + 1]
        BY <1>14, <3>1
      <4> QED
        BY <1>10, <3>2, <4>1, <4>2
    <3>4. new.prev[s[j]] = IF j = 1 THEN t[n - 1] ELSE t[j - 1]
      <4>1. /\ j # k + 1
            /\ k = n /\ j = 1 => k # 1 /\ k - 1 = n - 1
        BY <1>3, <2>1, <2>3
      <4>2. new.prev[s[j]] = IF j = (IF k = n THEN 1 ELSE k + 1) THEN before ELSE IF j = 1 THEN s[n] ELSE s[j - 1]
        BY <1>15, <3>1
      <4> QED
        BY <1>10, <2>2, <3>1, <4>1, <4>2
    <3> QED
      BY <3>1, <3>3, <3>4
  <2>4. CASE ~(j < k)
    <3>1. PICK m : m = j + 1
      OBVIOUS
    <3>2. /\ m \in 1 .. n /\ m # k /\ m + 1 # k /\ m # 1 /\ k # n /\ m - 1 = j
          /\ j = n - 1 <=> m = n
      BY <1>3, <2>1, <2>4, <3>1
    <3>3. t[j] = s[m]
      BY <1>4, <2>4, <3>1
    <3>4. j # n - 1 => t[j + 1] = s[m + 1]
      <4>1. j # n - 1 => j + 1 \in 1 .. n - 1 /\ ~(j + 1 < k)
        BY <1>3, <2>1, <2>4
      <4> QED
        BY <1>4, <3>1, <4>1
    <3>5. new.next[s[m]] = IF m = n THEN Null ELSE s[m + 1]
      BY <1>14, <3>2
    <3>6. new.prev[s[m]] = IF m = k + 1 THEN before ELSE s[m - 1]
      BY <1>15, <3>2
    <3>7. m = k + 1 => before = IF j = 1 THEN t[n - 1] ELSE t[j - 1]
      <4>1. m = k + 1 => j = k
        BY <1>3, <2>1, <3>1
      <4>2. j = k /\ j # 1 => t[j - 1] = s[k - 1]
        BY <1>3, <1>4, <2>1
      <4> QED
        BY <1>10, <2>2, <3>2, <4>1, <4>2
    <3>8. m # k + 1 => j # 1 /\ t[j - 1] = s[m - 1]
      <4>1. m # k + 1 => j # 1 /\ j - 1 \in 1 .. n - 1 /\ ~(j - 1 < k) /\ (j - 1) + 1 = m - 1
        BY <1>3, <2>1, <2>4, <3>1
      <4> QED
        BY <1>4, <4>1
    <3> QED
      BY <3>2, <3>3, <3>4, <3>5, <3>6, <3>7, <3>8
  <2> QED
    BY <2>3, <2>4
<1>17. Linked(new, p, t)
  <2>1. new.child[p] = IF Len(t) = 0 THEN Null ELSE t[1]
    <3>1. CASE n = 1
      <4>1. k = 1 /\ Len(t) = 0
        BY <1>3, <1>4, <3>1
      <4> QED
        BY <1>11, <1>13, <3>1, <4>1
    <3>2. CASE n # 1
      <4>1. /\ 1 \in 1 .. n - 1 /\ Len(t) # 0 /\ (1 < k <=> k # 1) /\ (k = 1 => k # n /\ k + 1 = 2)
        BY <1>3, <1>4, <3>2
      <4>2. t[1] = IF k # 1 THEN s[1] ELSE s[2]
        BY <1>4, <4>1
      <4> QED
        BY <1>10, <1>13, <4>1, <4>2
    <3> QED
      BY <3>1, <3>2
  <2> QED
    <3>1. \A j \in 1 .. Len(t) : /\ new.next[t[j]] = IF j = Len(t) THEN Null ELSE t[j + 1]
                                /\ new.prev[t[j]] = IF j = 1 THEN t[Len(t)] ELSE t[j - 1]
      BY <1>4, <1>16
    <3> QED
      BY <1>4, <2>1, <3>1, LinkedIs
<1>18. \A x \in Items : ~In(x, s) => new.next[x] = heap.next[x] /\ new.prev[x] = heap.prev[x]
  <2>1. ASSUME NEW x \in Items, ~In(x, s)
        PROVE  x # item /\ (k = 1 \/ x # before) /\ (n = 1 \/ x # up)
    <3>1. /\ k \in 1 .. n /\ (k # 1 => k - 1 \in 1 .. n) /\ (k = n => 1 \in 1 .. n)
          /\ k # n => k + 1 \in 1 .. n
      BY <1>3
    <3>2. \A j \in 1 .. n : s[j] # x
      BY <1>1, <1>2, <2>1 DEF In
    <3> QED
      BY <1>9, <1>10, <1>12, <3>1, <3>2
  <2> QED
    BY <1>13, <2>1
<1> QED
  BY <1>4, <1>9, <1>13, <1>17, <1>18 DEF Edited

\* cJSON_ReplaceItemViaPointer puts the replacement where the item was.
LEMMA ReplaceEdits ==
    ASSUME NEW heap \in Heaps, NEW p \in Items, NEW s \in Seq(Items), Distinct(s), Linked(heap, p, s),
           NEW k \in 1 .. Len(s), NEW r \in Items, ~In(r, s)
    PROVE  Edited(heap, Replace(heap, p, s[k], r), p, s, Instead(s, k, r))
<1>0. SUFFICES ASSUME NEW t, t = Instead(s, k, r), NEW new, new = Replace(heap, p, s[k], r)
              PROVE  Edited(heap, new, p, s, t)
  OBVIOUS
<1>1. /\ Len(s) \in Nat \ {0} /\ DOMAIN s = 1 .. Len(s)
      /\ \A j \in 1 .. Len(s) : s[j] \in Items /\ s[j] # Null /\ s[j] # r
  BY Listed DEF In
<1>2. PICK n : n = Len(s)
  OBVIOUS
<1>3. n \in Nat \ {0} /\ k \in Nat \ {0} /\ k <= n
  BY <1>1, <1>2
<1>4. /\ t \in Seq(Items) /\ Len(t) = n /\ Distinct(t)
      /\ \A j \in 1 .. n : t[j] = IF j = k THEN r ELSE s[j]
      /\ \A x \in Items : In(x, t) <=> (In(x, s) /\ x # s[k]) \/ x = r
  <2>1. /\ t \in Seq(Items) /\ Len(t) = Len(s) /\ Distinct(t)
        /\ \A j \in 1 .. Len(s) : t[j] = IF j = k THEN r ELSE s[j]
        /\ \A x \in Items : In(x, t) <=> (In(x, s) /\ x # s[k]) \/ x = r
    BY <1>0, ReplacedList
  <2> QED
    BY <1>2, <2>1
<1>5. heap.child \in Pointers /\ heap.next \in Pointers /\ heap.prev \in Pointers
  BY Typed
<1>6. \A j \in 1 .. n : /\ heap.next[s[j]] = IF j = n THEN Null ELSE s[j + 1]
                       /\ heap.prev[s[j]] = IF j = 1 THEN s[n] ELSE s[j - 1]
  <2>1. \A j \in 1 .. Len(s) : /\ heap.next[s[j]] = IF j = Len(s) THEN Null ELSE s[j + 1]
                              /\ heap.prev[s[j]] = IF j = 1 THEN s[Len(s)] ELSE s[j - 1]
    BY LinkedIs
  <2> QED
    BY <1>2, <2>1
<1>7. heap.child[p] = s[1]
  BY <1>1, LinkedIs
<1>8. \A j, l \in 1 .. n : s[j] = s[l] => j = l
  BY <1>1, <1>2 DEF Distinct
<1>9. PICK item, after, before : item = s[k] /\ after = heap.next[item] /\ before = heap.prev[item]
  OBVIOUS
\* The neighbour whose prev changes: the next item, or the first if the last one goes
<1>10. PICK u, up : u = (IF k = n THEN 1 ELSE k + 1) /\ up = s[u]
  OBVIOUS
<1>11. /\ 1 \in 1 .. n /\ n \in 1 .. n /\ k \in 1 .. n /\ u \in 1 .. n
       /\ k # n => k + 1 \in 1 .. n /\ k + 1 # k
       /\ k # 1 => k - 1 \in 1 .. n /\ k - 1 # k
       /\ n # 1 <=> u # k
  BY <1>3, <1>10
<1>12. \A j \in 1 .. n : s[j] \in Items /\ s[j] # Null /\ s[j] # r /\ (s[j] = item => j = k)
  BY <1>1, <1>2, <1>8, <1>9, <1>11
<1>13. /\ after = IF k = n THEN Null ELSE s[k + 1]
       /\ before = IF k = 1 THEN s[n] ELSE s[k - 1]
  BY <1>6, <1>9, <1>11
<1>14. /\ item \in Items /\ item # r
       /\ before \in Items /\ before # r /\ before # Null
       /\ after \in Items \cup {Null}
  BY <1>9, <1>11, <1>12, <1>13
<1>15. /\ k = n <=> after = Null
       /\ k = 1 <=> heap.child[p] = item
       /\ k # 1 => before # item
       /\ n # 1 => up # item
       /\ k = 1 /\ n # 1 => before # item
       /\ up \in Items /\ up # r
  BY <1>7, <1>9, <1>10, <1>11, <1>12, <1>13
<1>16. /\ new \in Heaps
       /\ new.child[p] = IF k = 1 THEN r ELSE s[1]
       /\ \A x \in Items : x # p => new.child[x] = heap.child[x]
       /\ new.next[r] = after /\ new.next[item] = Null
       /\ k # 1 => new.next[before] = r
       /\ \A x \in Items : x # item /\ x # r /\ (k = 1 \/ x # before) => new.next[x] = heap.next[x]
       /\ new.prev[r] = (IF n = 1 THEN r ELSE before) /\ new.prev[item] = Null
       /\ n # 1 => new.prev[up] = r
       /\ \A x \in Items : x # item /\ x # r /\ (n = 1 \/ x # up) => new.prev[x] = heap.prev[x]
  <2>1. PICK child, next, prev :
           /\ child = IF k = 1 THEN [heap.child EXCEPT ![p] = r] ELSE heap.child
           /\ next = IF k = 1 THEN [[heap.next EXCEPT ![r] = after] EXCEPT ![item] = Null]
                     ELSE [[[heap.next EXCEPT ![r] = after] EXCEPT ![before] = r] EXCEPT ![item] = Null]
           /\ prev = IF n = 1 THEN [[[heap.prev EXCEPT ![r] = before] EXCEPT ![r] = r] EXCEPT ![item] = Null]
                     ELSE [[[heap.prev EXCEPT ![r] = before] EXCEPT ![up] = r] EXCEPT ![item] = Null]
    OBVIOUS
  <2>2. new = [child |-> child, next |-> next, prev |-> prev]
    <3>1. CASE n = 1
      <4>1. k = 1 /\ after = Null /\ before = item /\ [heap.prev EXCEPT ![r] = before][item] = item
        <5>1. k = 1 /\ after = Null /\ before = item
          BY <1>3, <1>9, <1>13, <3>1
        <5>2. [heap.prev EXCEPT ![r] = before][item] = heap.prev[item]
          BY <1>5, <1>14 DEF Pointers
        <5> QED
          BY <1>9, <5>1, <5>2
      <4> QED
        BY <1>0, <1>9, <1>15, <2>1, <3>1, <4>1 DEF Replace
    <3>2. CASE n # 1 /\ k = 1
      <4>1. k # n /\ up = after /\ after # Null /\ before # item
        BY <1>10, <1>13, <1>15, <3>2
      <4>2. PICK prev2 : prev2 = [[heap.prev EXCEPT ![r] = before] EXCEPT ![up] = r]
        OBVIOUS
      <4>3. prev2[item] = before
        BY <1>5, <1>9, <1>14, <1>15, <3>2, <4>2 DEF Pointers
      <4> QED
        BY <1>0, <1>9, <1>15, <2>1, <3>2, <4>1, <4>2, <4>3 DEF Replace
    <3>3. CASE k # 1 /\ k # n
      <4>1. n # 1 /\ up = after /\ after # Null
        BY <1>3, <1>10, <1>13, <1>15, <3>3
      <4> QED
        BY <1>0, <1>9, <1>14, <1>15, <2>1, <3>3, <4>1 DEF Replace
    <3>4. CASE k # 1 /\ k = n
      <4>1. n # 1 /\ up = heap.child[p] /\ after = Null
        BY <1>3, <1>7, <1>10, <1>13, <1>15, <3>4
      <4> QED
        BY <1>0, <1>9, <1>14, <1>15, <2>1, <3>4, <4>1 DEF Replace
    <3> QED
      BY <3>1, <3>2, <3>3, <3>4
  <2>3. new.child = child /\ new.next = next /\ new.prev = prev
    BY <2>2
  <2>4. r \in Items \cup {Null} /\ Null \in Items \cup {Null} /\ before \in Items \cup {Null}
    BY <1>14
  <2>5. /\ child \in Pointers /\ child[p] = IF k = 1 THEN r ELSE s[1]
        /\ \A x \in Items : x # p => child[x] = heap.child[x]
    <3>1. CASE k = 1
      BY <1>5, <2>1, <2>4, <3>1, Set
    <3>2. CASE k # 1
      BY <1>5, <1>7, <2>1, <3>2
    <3> QED
      BY <3>1, <3>2
  <2>6. /\ next \in Pointers /\ next[r] = after /\ next[item] = Null
        /\ k # 1 => next[before] = r
        /\ \A x \in Items : x # item /\ x # r /\ (k = 1 \/ x # before) => next[x] = heap.next[x]
    <3>1. CASE k = 1
      <4>1. next = [[heap.next EXCEPT ![r] = after] EXCEPT ![item] = Null]
        BY <2>1, <3>1
      <4>2. /\ next \in Pointers /\ next[r] = after /\ next[item] = Null
            /\ \A x \in Items : x # r /\ x # item => next[x] = heap.next[x]
        <5>1. heap.next \in Pointers /\ r # item /\ item \in Items /\ after \in Items \cup {Null}
          BY <1>5, <1>14
        <5> QED
          BY <2>4, <4>1, <5>1, SetThen, SMTT(30)
      <4> QED
        BY <3>1, <4>2
    <3>2. CASE k # 1
      <4>1. /\ next = [[[heap.next EXCEPT ![r] = after] EXCEPT ![before] = r] EXCEPT ![item] = Null]
            /\ before # item
        BY <1>15, <2>1, <3>2
      <4>2. /\ next \in Pointers /\ next[r] = after /\ next[before] = r /\ next[item] = Null
            /\ \A x \in Items : x # r /\ x # before /\ x # item => next[x] = heap.next[x]
        <5>1. PICK f : f = [[heap.next EXCEPT ![r] = after] EXCEPT ![before] = r]
          OBVIOUS
        <5>2. heap.next \in Pointers /\ r # before /\ before \in Items /\ after \in Items \cup {Null} /\ r \in Items \cup {Null}
          BY <1>5, <1>14, <1>15
        <5>3. /\ f \in Pointers /\ f[r] = after /\ f[before] = r
              /\ \A a \in Items : a # r /\ a # before => f[a] = heap.next[a]
          BY <5>1, <5>2, SetThen, SMTT(30)
        <5>4. next = [f EXCEPT ![item] = Null]
          BY <4>1, <5>1
        <5>5. item \in Items /\ r # item /\ before # item
          BY <1>14, <1>15, <3>2, <4>1
        <5>6. /\ next \in Pointers /\ next[item] = Null
              /\ \A a \in Items : a # item => next[a] = f[a]
          BY <2>4, <5>3, <5>4, <5>5 DEF Pointers
        <5> QED
          BY <5>2, <5>3, <5>5, <5>6
      <4> QED
        BY <3>2, <4>2
    <3> QED
      BY <3>1, <3>2
  <2>7. /\ prev \in Pointers /\ prev[r] = (IF n = 1 THEN r ELSE before) /\ prev[item] = Null
        /\ n # 1 => prev[up] = r
        /\ \A x \in Items : x # item /\ x # r /\ (n = 1 \/ x # up) => prev[x] = heap.prev[x]
    <3>1. CASE n = 1
      <4>1. prev = [[heap.prev EXCEPT ![r] = r] EXCEPT ![item] = Null]
        BY <1>5, <2>1, <3>1 DEF Pointers
      <4>2. /\ prev \in Pointers /\ prev[r] = r /\ prev[item] = Null
            /\ \A x \in Items : x # r /\ x # item => prev[x] = heap.prev[x]
        BY <1>5, <1>14, <4>1 DEF Pointers
      <4> QED
        BY <3>1, <4>2
    <3>2. CASE n # 1
      <4>1. prev = [[[heap.prev EXCEPT ![r] = before] EXCEPT ![up] = r] EXCEPT ![item] = Null]
        BY <2>1, <3>2
      <4>2. /\ prev \in Pointers /\ prev[r] = before /\ prev[up] = r /\ prev[item] = Null
            /\ \A x \in Items : x # r /\ x # up /\ x # item => prev[x] = heap.prev[x]
        <5>1. PICK f : f = [[heap.prev EXCEPT ![r] = before] EXCEPT ![up] = r]
          OBVIOUS
        <5>2. heap.prev \in Pointers /\ r # up /\ up \in Items /\ before \in Items \cup {Null} /\ r \in Items \cup {Null}
          BY <1>5, <1>14, <1>15
        <5>3. /\ f \in Pointers /\ f[r] = before /\ f[up] = r
              /\ \A a \in Items : a # r /\ a # up => f[a] = heap.prev[a]
          BY <5>1, <5>2, SetThen, SMTT(30)
        <5>4. prev = [f EXCEPT ![item] = Null]
          BY <4>1, <5>1
        <5>5. item \in Items /\ r # item /\ up # item
          BY <1>14, <1>15, <3>2, <4>1
        <5>6. /\ prev \in Pointers /\ prev[item] = Null
              /\ \A a \in Items : a # item => prev[a] = f[a]
          BY <2>4, <5>3, <5>4, <5>5 DEF Pointers
        <5> QED
          BY <5>2, <5>3, <5>5, <5>6
      <4> QED
        BY <3>2, <4>2
    <3> QED
      BY <3>1, <3>2
  <2>8. new \in Heaps
    BY <2>2, <2>5, <2>6, <2>7 DEF Heaps
  <2> QED
    BY <2>3, <2>5, <2>6, <2>7, <2>8
<1>17. ASSUME NEW j \in 1 .. n
       PROVE  new.next[t[j]] = IF j = n THEN Null ELSE t[j + 1]
  <2>0. j # n => t[j + 1] = IF j + 1 = k THEN r ELSE s[j + 1]
    <3>1. j # n => j + 1 \in 1 .. n
      BY <1>3
    <3> QED
      BY <1>4, <3>1
  <2>1. CASE j = k
    <3>1. k # n => k + 1 # k
      BY <1>3
    <3> QED
      BY <1>4, <1>13, <1>16, <2>0, <2>1, <3>1
  <2>2. CASE j # k /\ j + 1 = k
    <3>1. j = k - 1 /\ k # 1 /\ j # n
      BY <1>3, <2>2
    <3>2. t[j] = before
      BY <1>4, <1>13, <2>2, <3>1
    <3> QED
      BY <1>16, <2>0, <2>2, <3>1, <3>2
  <2>3. CASE j # k /\ j + 1 # k
    <3>1. t[j] = s[j] /\ s[j] \in Items /\ s[j] # item /\ s[j] # r
      BY <1>4, <1>12, <2>3
    <3>2. k = 1 \/ s[j] # before
      <4>1. k # 1 => j # k - 1
        BY <1>3, <2>3
      <4> QED
        BY <1>8, <1>11, <1>13, <4>1
    <3>3. new.next[s[j]] = heap.next[s[j]]
      BY <1>16, <3>1, <3>2
    <3> QED
      BY <1>6, <2>0, <2>3, <3>1, <3>3
  <2> QED
    BY <2>1, <2>2, <2>3
<1>18. ASSUME NEW j \in 1 .. n
       PROVE  new.prev[t[j]] = IF j = 1 THEN t[n] ELSE t[j - 1]
  <2>0. /\ t[n] = IF n = k THEN r ELSE s[n]
        /\ j # 1 => t[j - 1] = IF j - 1 = k THEN r ELSE s[j - 1]
    <3>1. j # 1 => j - 1 \in 1 .. n
      BY <1>3
    <3> QED
      BY <1>4, <1>11, <3>1
  <2>1. CASE j = k
    <3>1. k # 1 => k - 1 # k
      BY <1>3
    <3>2. n = 1 => k = 1
      BY <1>3
    <3> QED
      BY <1>4, <1>13, <1>16, <2>0, <2>1, <3>1, <3>2
  <2>2. CASE j # k /\ j = u
    <3>1. n # 1 /\ t[j] = up
      BY <1>4, <1>10, <1>11, <2>2
    <3>2. IF j = 1 THEN n = k ELSE j - 1 = k
      BY <1>3, <1>10, <2>2
    <3> QED
      BY <1>16, <2>0, <3>1, <3>2
  <2>3. CASE j # k /\ j # u
    <3>1. t[j] = s[j] /\ s[j] \in Items /\ s[j] # item /\ s[j] # r
      BY <1>4, <1>12, <2>3
    <3>2. s[j] # up
      BY <1>8, <1>10, <1>11, <2>3
    <3>3. new.prev[s[j]] = heap.prev[s[j]]
      BY <1>16, <3>1, <3>2
    <3>4. IF j = 1 THEN n # k ELSE j - 1 # k
      BY <1>3, <1>10, <2>3
    <3> QED
      BY <1>6, <2>0, <3>1, <3>3, <3>4
  <2> QED
    BY <2>1, <2>2, <2>3
<1>19. Linked(new, p, t)
  <2>1. new.child[p] = t[1] /\ Len(t) # 0
    BY <1>3, <1>4, <1>11, <1>16
  <2>2. \A j \in 1 .. Len(t) : /\ new.next[t[j]] = IF j = Len(t) THEN Null ELSE t[j + 1]
                              /\ new.prev[t[j]] = IF j = 1 THEN t[Len(t)] ELSE t[j - 1]
    BY <1>4, <1>17, <1>18
  <2> QED
    BY <1>4, <2>1, <2>2, LinkedIs
<1>20. \A x \in Items : ~In(x, s) /\ x # r => new.next[x] = heap.next[x] /\ new.prev[x] = heap.prev[x]
  <2>1. ASSUME NEW x \in Items, ~In(x, s)
        PROVE  x # item /\ x # up /\ (k = 1 \/ x # before)
    <3>1. \A j \in 1 .. n : s[j] # x
      BY <1>1, <1>2, <2>1 DEF In
    <3> QED
      BY <1>9, <1>10, <1>11, <1>13, <3>1
  <2> QED
    BY <1>16, <2>1
<1> QED
  BY <1>4, <1>9, <1>14, <1>16, <1>19, <1>20 DEF Edited

-----------------------------------------------------------------------------
(* All the lists: the items lv with the pointers heap hold the lists ks.   *)

Represents(lv, heap, ks) ==
    /\ lv \subseteq Items /\ heap \in Heaps /\ ks \in [Items -> Seq(Items)]
    /\ \A p \in lv : Linked(heap, p, ks[p])
    /\ \A p \in lv : \A j \in 1 .. Len(ks[p]) : ks[p][j] \in lv
    /\ \A p, q \in lv : \A j \in 1 .. Len(ks[p]), k \in 1 .. Len(ks[q]) : ks[p][j] = ks[q][k] => p = q /\ j = k
    /\ \A i \in lv : (\A p \in lv : ~In(i, ks[p])) => heap.next[i] = Null /\ heap.prev[i] = Null
    /\ \A x \in Items \ lv : heap.child[x] = Null /\ heap.next[x] = Null /\ heap.prev[x] = Null /\ ks[x] = <<>>

LEMMA InIs ==
    ASSUME NEW s \in Seq(Items), NEW x
    PROVE  In(x, s) <=> \E k \in 1 .. Len(s) : s[k] = x
BY Listed DEF In

\* A list is free of repetitions, and no two lists share an item.
LEMMA Apart ==
    ASSUME NEW lv, NEW heap, NEW ks, Represents(lv, heap, ks)
    PROVE  /\ \A p \in lv : ks[p] \in Seq(Items) /\ Distinct(ks[p])
           /\ \A p, q \in lv, x \in Items : In(x, ks[p]) /\ In(x, ks[q]) => p = q
           /\ \A p \in lv, x \in Items : In(x, ks[p]) => x \in lv
<1>1. lv \subseteq Items /\ ks \in [Items -> Seq(Items)]
  BY DEF Represents
<1>2. \A p \in lv : ks[p] \in Seq(Items) /\ Len(ks[p]) \in Nat /\ DOMAIN ks[p] = 1 .. Len(ks[p])
  BY <1>1, Listed
<1>3. \A p, q \in lv : \A j \in 1 .. Len(ks[p]), k \in 1 .. Len(ks[q]) : ks[p][j] = ks[q][k] => p = q /\ j = k
  BY DEF Represents
<1>4. \A p \in lv : \A j \in 1 .. Len(ks[p]) : ks[p][j] \in lv
  BY DEF Represents
<1>5. \A p \in lv : Distinct(ks[p])
  BY <1>2, <1>3 DEF Distinct
<1>6. \A p, q \in lv, x \in Items : In(x, ks[p]) /\ In(x, ks[q]) => p = q
  BY <1>2, <1>3 DEF In
<1>7. \A p \in lv, x \in Items : In(x, ks[p]) => x \in lv
  BY <1>2, <1>4 DEF In
<1> QED
  BY <1>2, <1>5, <1>6, <1>7

\* Where a pointer leads to
LEMMA Leads ==
    ASSUME NEW lv, NEW heap, NEW ks, Represents(lv, heap, ks), NEW x \in lv
    PROVE  /\ heap.child[x] # Null => Len(ks[x]) # 0 /\ heap.child[x] = ks[x][1] /\ In(heap.child[x], ks[x])
           /\ heap.next[x] # Null => \E q \in lv : /\ In(x, ks[q]) /\ In(heap.next[x], ks[q])
                                               /\ \E k \in 1 .. Len(ks[q]) :
                                                     k + 1 \in 1 .. Len(ks[q]) /\ x = ks[q][k] /\ heap.next[x] = ks[q][k + 1]
           /\ heap.prev[x] # Null => \E q \in lv : In(heap.prev[x], ks[q])
<1>1. lv \subseteq Items /\ ks \in [Items -> Seq(Items)]
  BY DEF Represents
<1>2. \A p \in lv : /\ ks[p] \in Seq(Items) /\ Len(ks[p]) \in Nat
                   /\ \A j \in 1 .. Len(ks[p]) : ks[p][j] \in Items
  BY <1>1, Listed
<1>3. \A p \in lv : Linked(heap, p, ks[p])
  BY DEF Represents
<1>4. ASSUME heap.child[x] # Null
      PROVE  Len(ks[x]) # 0 /\ heap.child[x] = ks[x][1] /\ In(heap.child[x], ks[x])
  <2>1. heap.child[x] = IF Len(ks[x]) = 0 THEN Null ELSE ks[x][1]
    BY <1>2, <1>3, LinkedIs
  <2>2. Len(ks[x]) # 0 /\ heap.child[x] = ks[x][1] /\ 1 \in 1 .. Len(ks[x])
    BY <1>2, <1>4, <2>1
  <2> QED
    BY <1>2, <2>2, InIs
<1>5. (\A p \in lv : ~In(x, ks[p])) => heap.next[x] = Null /\ heap.prev[x] = Null
  BY DEF Represents
<1>6. ASSUME NEW q \in lv, In(x, ks[q])
      PROVE  /\ heap.next[x] # Null => /\ In(heap.next[x], ks[q])
                                      /\ \E k \in 1 .. Len(ks[q]) :
                                            k + 1 \in 1 .. Len(ks[q]) /\ x = ks[q][k] /\ heap.next[x] = ks[q][k + 1]
             /\ In(heap.prev[x], ks[q])
  <2>1. PICK k \in 1 .. Len(ks[q]) : x = ks[q][k]
    BY <1>2, <1>6, InIs
  <2>2. /\ heap.next[x] = IF k = Len(ks[q]) THEN Null ELSE ks[q][k + 1]
        /\ heap.prev[x] = IF k = 1 THEN ks[q][Len(ks[q])] ELSE ks[q][k - 1]
    BY <1>2, <1>3, <2>1, LinkedIs
  <2>3. /\ k # Len(ks[q]) => k + 1 \in 1 .. Len(ks[q])
        /\ k # 1 => k - 1 \in 1 .. Len(ks[q])
        /\ Len(ks[q]) \in 1 .. Len(ks[q])
    BY <1>2
  <2>4. In(heap.prev[x], ks[q])
    BY <1>2, <2>2, <2>3, InIs
  <2>5. ASSUME heap.next[x] # Null
        PROVE  k + 1 \in 1 .. Len(ks[q]) /\ heap.next[x] = ks[q][k + 1] /\ In(heap.next[x], ks[q])
    BY <1>2, <2>2, <2>3, <2>5, InIs
  <2> QED
    BY <2>1, <2>4, <2>5
<1> QED
  BY <1>4, <1>5, <1>6

\* An edit of one list leaves the others what they are.
LEMMA Surgery ==
    ASSUME NEW lv, NEW heap, NEW ks, Represents(lv, heap, ks), NEW p \in lv, NEW new, NEW t, Edited(heap, new, p, ks[p], t),
           \A x \in Items : In(x, t) => x \in lv /\ (In(x, ks[p]) \/ \A q \in lv : ~In(x, ks[q])),
           NEW ks2, ks2 = [ks EXCEPT ![p] = t]
    PROVE  Represents(lv, new, ks2)
<1>1. lv \subseteq Items /\ ks \in [Items -> Seq(Items)] /\ p \in Items
  BY DEF Represents
<1>2. new \in Heaps /\ t \in Seq(Items) /\ Distinct(t) /\ Linked(new, p, t)
  BY DEF Edited
<1>3. /\ ks2 \in [Items -> Seq(Items)] /\ ks2[p] = t
      /\ \A q \in Items : q # p => ks2[q] = ks[q]
  BY <1>1, <1>2
<1>4. /\ \A q \in lv : ks[q] \in Seq(Items)
      /\ \A q, r \in lv, x \in Items : In(x, ks[q]) /\ In(x, ks[r]) => q = r
      /\ \A q \in lv, x \in Items : In(x, ks[q]) => x \in lv
  BY Apart
<1>5. \A q \in lv, x \in Items : q # p /\ In(x, ks[q]) => ~In(x, ks[p]) /\ ~In(x, t)
  BY <1>4
<1>6. \A q \in lv : \A j \in 1 .. Len(ks[q]) : ks[q][j] \in Items /\ In(ks[q][j], ks[q])
  BY <1>4, Listed, InIs
<1>7. \A j \in 1 .. Len(t) : t[j] \in Items /\ In(t[j], t)
  BY <1>2, Listed, InIs
<1>8. ASSUME NEW q \in lv, q # p PROVE Linked(new, q, ks[q])
  <2>1. Linked(heap, q, ks[q]) /\ ks[q] \in Seq(Items)
    BY <1>4 DEF Represents
  <2>2. new.child[q] = heap.child[q]
    BY <1>1, <1>8 DEF Edited
  <2>3. \A j \in 1 .. Len(ks[q]) : new.next[ks[q][j]] = heap.next[ks[q][j]] /\ new.prev[ks[q][j]] = heap.prev[ks[q][j]]
    <3>1. \A j \in 1 .. Len(ks[q]) : ks[q][j] \in Items /\ ~In(ks[q][j], ks[p]) /\ ~In(ks[q][j], t)
      BY <1>5, <1>6, <1>8
    <3>2. \A x \in Items : ~In(x, ks[p]) /\ ~In(x, t) => new.next[x] = heap.next[x] /\ new.prev[x] = heap.prev[x]
      BY DEF Edited
    <3> QED
      BY <3>1, <3>2
  <2> QED
    BY <2>1, <2>2, <2>3, LinkedIs
<1>9. \A q \in lv : Linked(new, q, ks2[q])
  BY <1>1, <1>2, <1>3, <1>8
<1>10. \A q \in lv : \A j \in 1 .. Len(ks2[q]) : ks2[q][j] \in lv
  BY <1>1, <1>3, <1>4, <1>6, <1>7
<1>11. ASSUME NEW q \in lv, NEW r \in lv, NEW j \in 1 .. Len(ks2[q]), NEW k \in 1 .. Len(ks2[r]), ks2[q][j] = ks2[r][k]
       PROVE  q = r /\ j = k
  <2>1. CASE q # p /\ r # p
    <3>1. ks2[q] = ks[q] /\ ks2[r] = ks[r]
      BY <1>1, <1>3, <2>1
    <3> QED
      BY <1>11, <3>1 DEF Represents
  <2>2. CASE q = p /\ r = p
    <3>1. DOMAIN t = 1 .. Len(t)
      BY <1>2, Listed
    <3> QED
      BY <1>2, <1>3, <1>11, <2>2, <3>1 DEF Distinct
  <2>3. CASE q = p /\ r # p
    BY <1>1, <1>3, <1>5, <1>6, <1>7, <1>11, <2>3
  <2>4. CASE q # p /\ r = p
    BY <1>1, <1>3, <1>5, <1>6, <1>7, <1>11, <2>4
  <2> QED
    BY <2>1, <2>2, <2>3, <2>4
<1>12. ASSUME NEW i \in lv, \A q \in lv : ~In(i, ks2[q]) PROVE new.next[i] = Null /\ new.prev[i] = Null
  <2>1. i \in Items /\ ~In(i, t) /\ \A q \in lv : q # p => ~In(i, ks[q])
    BY <1>1, <1>3, <1>12
  <2>2. CASE In(i, ks[p])
    BY <2>1, <2>2 DEF Edited
  <2>3. CASE ~In(i, ks[p])
    <3>1. heap.next[i] = Null /\ heap.prev[i] = Null
      BY <2>1, <2>3 DEF Represents
    <3> QED
      BY <2>1, <2>3, <3>1 DEF Edited
  <2> QED
    BY <2>2, <2>3
<1>13. \A x \in Items \ lv : new.child[x] = Null /\ new.next[x] = Null /\ new.prev[x] = Null /\ ks2[x] = <<>>
  <2>1. \A x \in Items \ lv : heap.child[x] = Null /\ heap.next[x] = Null /\ heap.prev[x] = Null /\ ks[x] = <<>>
    BY DEF Represents
  <2>2. \A x \in Items \ lv : ~In(x, ks[p]) /\ ~In(x, t)
    BY <1>4
  <2>3. \A x \in Items \ lv : new.child[x] = heap.child[x]
    BY DEF Edited
  <2>4. \A x \in Items \ lv : new.next[x] = heap.next[x] /\ new.prev[x] = heap.prev[x]
    BY <2>2 DEF Edited
  <2> QED
    BY <1>3, <2>1, <2>3, <2>4
<1> QED
  BY <1>1, <1>2, <1>3, <1>9, <1>10, <1>11, <1>12, <1>13 DEF Represents

-----------------------------------------------------------------------------
(* cJSON_Delete takes the item and what is below it, and nothing else.     *)

\* Any set of numbers that is not empty has a least one.
LEMMA Smallest ==
    ASSUME NEW T, T \subseteq Nat, T # {}
    PROVE  \E x \in T : \A y \in T : x <= y
<1>1. PICK R : R = {ss \in Nat \X Nat : ss[1] < ss[2]}
  OBVIOUS
<1>2. IsWellFoundedOn(R, Nat)
  BY <1>1, NatLessThanWellFounded, Zenon DEF OpToRel
<1>3. \A x, y \in Nat : x < y => <<x, y>> \in R
  BY <1>1
<1>4. PICK x \in T : \A y \in T : <<y, x>> \notin R
  BY <1>2, WFMin, Zenon
<1>5. ASSUME NEW y \in T PROVE x <= y
  <2>1. x \in Nat /\ y \in Nat
    OBVIOUS
  <2>2. ~(y < x)
    BY <1>3, <1>4, <2>1, Zenon
  <2> QED
    BY <2>1, <2>2
<1> QED
  BY <1>5

\* cJSON_Delete stays within each set that its pointers do not leave.
LEMMA FreedIs ==
    ASSUME NEW heap \in Heaps, NEW i \in Items, NEW S, S = Freed(heap, i)
    PROVE  /\ S \subseteq Items /\ i \in S
           /\ \A x \in S : heap.child[x] # Null => heap.child[x] \in S
           /\ \A x \in S : heap.next[x] # Null => heap.next[x] \in S
           /\ \A T \in SUBSET Items : i \in T /\ Closed(heap, T) => S \subseteq T
<1>1. S \subseteq Items /\ \A x \in Items : x \in S <=> \A T \in SUBSET Items : i \in T /\ Closed(heap, T) => x \in T
  BY DEF Freed
<1>2. i \in S
  BY <1>1
<1>3. heap.child \in [Items -> Items \cup {Null}] /\ heap.next \in [Items -> Items \cup {Null}]
  BY Typed DEF Pointers
<1>4. ASSUME NEW x \in S, NEW y, y \in {heap.child[x], heap.next[x]}, y # Null PROVE y \in S
  <2>1. x \in Items /\ y \in Items
    BY <1>1, <1>3, <1>4
  <2>2. ASSUME NEW T \in SUBSET Items, i \in T, Closed(heap, T) PROVE y \in T
    <3>1. x \in T
      BY <1>1, <2>1, <2>2
    <3> QED
      BY <1>4, <2>2, <3>1 DEF Closed
  <2> QED
    BY <1>1, <2>1, <2>2
<1>5. \A T \in SUBSET Items : i \in T /\ Closed(heap, T) => S \subseteq T
  BY <1>1
<1> QED
  BY <1>1, <1>2, <1>4, <1>5

LEMMA Deletion ==
    ASSUME NEW lv, NEW heap, NEW ks, Represents(lv, heap, ks), NEW i \in lv, \A p \in lv : ~In(i, ks[p]),
           NEW S, S = Freed(heap, i)
    PROVE  S \subseteq lv /\ i \in S /\ Represents(lv \ S, Free(heap, S), Wiped(ks, S, <<>>))
<1>1. lv \subseteq Items /\ ks \in [Items -> Seq(Items)] /\ heap \in Heaps /\ i \in Items
  BY DEF Represents
<1>2. S \subseteq Items /\ i \in S
  BY <1>1, FreedIs
<1>3. \A x \in S : heap.child[x] # Null => heap.child[x] \in S
  BY <1>1, FreedIs
<1>4. \A x \in S : heap.next[x] # Null => heap.next[x] \in S
  BY <1>1, FreedIs
<1>5. \A T \in SUBSET Items : i \in T /\ Closed(heap, T) => S \subseteq T
  BY <1>1, FreedIs
<1>6. /\ \A p \in lv : ks[p] \in Seq(Items) /\ Len(ks[p]) \in Nat
      /\ \A p, q \in lv, x \in Items : In(x, ks[p]) /\ In(x, ks[q]) => p = q
      /\ \A p \in lv, x \in Items : In(x, ks[p]) => x \in lv
      /\ \A p \in lv : \A j \in 1 .. Len(ks[p]) : ks[p][j] \in Items /\ In(ks[p][j], ks[p])
  BY Apart, Listed, InIs
<1>7. \A x \in lv : heap.child[x] # Null => In(heap.child[x], ks[x])
  BY Leads
<1>8. \A x \in lv : heap.next[x] # Null => \E q \in lv : In(x, ks[q]) /\ In(heap.next[x], ks[q])
  BY Leads
<1>9. heap.child \in [Items -> Items \cup {Null}] /\ heap.next \in [Items -> Items \cup {Null}]
      /\ heap.prev \in [Items -> Items \cup {Null}]
  BY <1>1, Typed DEF Pointers
<1>10. S \subseteq lv
  <2>1. Closed(heap, lv)
    <3>1. ASSUME NEW x \in lv PROVE heap.child[x] \in lv \cup {Null} /\ heap.next[x] \in lv \cup {Null}
      <4>1. heap.child[x] \in Items \cup {Null} /\ heap.next[x] \in Items \cup {Null}
        BY <1>1, <1>9
      <4>2. heap.child[x] # Null => heap.child[x] \in lv
        BY <1>6, <1>7, <4>1
      <4>3. heap.next[x] # Null => heap.next[x] \in lv
        BY <1>6, <1>8, <4>1
      <4> QED
        BY <4>2, <4>3
    <3> QED
      BY <3>1 DEF Closed
  <2> QED
    BY <1>1, <1>5, <2>1
\* Without the children of p it is still closed, unless p itself goes.
<1>11. ASSUME NEW p \in lv, p \notin S PROVE \A x \in S : ~In(x, ks[p])
  <2>1. PICK T : T = {x \in S : ~In(x, ks[p])}
    OBVIOUS
  <2>2. i \in T /\ T \in SUBSET Items
    BY <1>2, <2>1
  <2>3. ASSUME NEW x \in T PROVE heap.child[x] # Null => heap.child[x] \in T
    <3>1. x \in S /\ x \in lv /\ x # p
      BY <1>10, <1>11, <2>1
    <3>2. heap.child[x] # Null => heap.child[x] \in S /\ heap.child[x] \in Items /\ In(heap.child[x], ks[x])
      BY <1>2, <1>3, <1>7, <3>1
    <3> QED
      BY <1>6, <2>1, <3>1, <3>2
  <2>4. ASSUME NEW x \in T PROVE heap.next[x] # Null => heap.next[x] \in T
    <3>1. x \in S /\ x \in lv /\ x \in Items /\ ~In(x, ks[p])
      BY <1>10, <1>2, <2>1
    <3>2. heap.next[x] # Null => heap.next[x] \in S /\ heap.next[x] \in Items
      BY <1>2, <1>4, <3>1
    <3>3. heap.next[x] # Null => \E q \in lv : In(x, ks[q]) /\ In(heap.next[x], ks[q])
      BY <1>8, <3>1
    <3> QED
      BY <1>6, <2>1, <3>1, <3>2, <3>3
  <2>5. Closed(heap, T)
    BY <2>3, <2>4 DEF Closed
  <2>6. S \subseteq T
    BY <1>5, <2>2, <2>5
  <2> QED
    BY <2>1, <2>6
\* The children of what goes go too: the first by child, each other one by next.
<1>12. ASSUME NEW q \in S PROVE \A k \in 1 .. Len(ks[q]) : ks[q][k] \in S
  <2>1. PICK K : K = {k \in 1 .. Len(ks[q]) : ks[q][k] \notin S}
    OBVIOUS
  <2>2. q \in lv /\ ks[q] \in Seq(Items) /\ Len(ks[q]) \in Nat /\ Linked(heap, q, ks[q])
    BY <1>6, <1>10 DEF Represents
  <2>3. \A k \in 1 .. Len(ks[q]) : ks[q][k] \in Items /\ ks[q][k] # Null
    BY <1>6, <2>2
  <2>4. ASSUME K # {} PROVE FALSE
    <3>1. K \subseteq Nat
      BY <2>1, <2>2
    <3>2. PICK m \in K : \A k \in K : m <= k
      BY <2>4, <3>1, Smallest
    <3>3. m \in 1 .. Len(ks[q]) /\ ks[q][m] \notin S
      BY <2>1, <3>2
    <3>4. CASE m = 1
      <4>1. heap.child[q] = ks[q][1] /\ ks[q][1] # Null
        BY <2>2, <2>3, <3>3, <3>4, LinkedIs
      <4> QED
        BY <1>3, <3>3, <3>4, <4>1
    <3>5. CASE m # 1
      <4>1. PICK j : j = m - 1
        OBVIOUS
      <4>2. j \in 1 .. Len(ks[q]) /\ j # Len(ks[q]) /\ j + 1 = m /\ ~(m <= j)
        BY <2>2, <3>3, <3>5, <4>1
      <4>3. j \notin K
        BY <3>2, <4>2
      <4>4. ks[q][j] \in S
        BY <2>1, <4>2, <4>3
      <4>5. heap.next[ks[q][j]] = ks[q][m]
        BY <2>2, <4>2, LinkedIs
      <4> QED
        BY <1>4, <2>3, <3>3, <4>4, <4>5
    <3> QED
      BY <3>4, <3>5
  <2> QED
    BY <2>1, <2>4
<1>13. PICK rest, new, ks2 : rest = lv \ S /\ new = Free(heap, S) /\ ks2 = Wiped(ks, S, <<>>)
  OBVIOUS
<1>14. /\ new = [child |-> new.child, next |-> new.next, prev |-> new.prev]
       /\ new.child = [x \in Items |-> IF x \in S THEN Null ELSE heap.child[x]]
       /\ new.next = [x \in Items |-> IF x \in S THEN Null ELSE heap.next[x]]
       /\ new.prev = [x \in Items |-> IF x \in S THEN Null ELSE heap.prev[x]]
  BY <1>13 DEF Free, Wiped
<1>15. /\ new.child \in Pointers /\ new.next \in Pointers /\ new.prev \in Pointers
       /\ \A x \in Items \ S : new.child[x] = heap.child[x] /\ new.next[x] = heap.next[x] /\ new.prev[x] = heap.prev[x]
       /\ \A x \in S : new.child[x] = Null /\ new.next[x] = Null /\ new.prev[x] = Null
  <2>1. new.child \in Pointers /\ \A x \in Items : new.child[x] = IF x \in S THEN Null ELSE heap.child[x]
    BY <1>9, <1>14 DEF Pointers
  <2>2. new.next \in Pointers /\ \A x \in Items : new.next[x] = IF x \in S THEN Null ELSE heap.next[x]
    BY <1>9, <1>14 DEF Pointers
  <2>3. new.prev \in Pointers /\ \A x \in Items : new.prev[x] = IF x \in S THEN Null ELSE heap.prev[x]
    BY <1>9, <1>14 DEF Pointers
  <2> QED
    BY <1>2, <2>1, <2>2, <2>3
<1>16. new \in Heaps
  BY <1>14, <1>15 DEF Heaps
<1>17. /\ ks2 \in [Items -> Seq(Items)]
       /\ \A x \in Items \ S : ks2[x] = ks[x]
       /\ \A x \in S : ks2[x] = <<>>
  <2>1. ks2 = [x \in Items |-> IF x \in S THEN <<>> ELSE ks[x]]
    BY <1>13 DEF Wiped
  <2>2. <<>> \in Seq(Items)
    BY EmptySeq
  <2> QED
    BY <1>1, <1>2, <2>1, <2>2
<1>18. \A p \in rest : p \in lv /\ p \in Items \ S /\ ks2[p] = ks[p]
  BY <1>1, <1>13, <1>17
<1>19. \A p \in rest : \A j \in 1 .. Len(ks[p]) : ks[p][j] \in rest /\ ks[p][j] \in Items \ S
  <2>1. ASSUME NEW p \in rest, NEW j \in 1 .. Len(ks[p]) PROVE ks[p][j] \in lv /\ ks[p][j] \notin S
    <3>1. p \in lv /\ p \notin S
      BY <1>18
    <3> QED
      BY <1>6, <1>11, <3>1
  <2> QED
    BY <1>1, <1>13, <2>1
<1>20. ASSUME NEW p \in rest PROVE Linked(new, p, ks[p])
  <2>1. p \in lv /\ ks[p] \in Seq(Items) /\ Linked(heap, p, ks[p]) /\ new.child[p] = heap.child[p]
    BY <1>6, <1>15, <1>18 DEF Represents
  <2>2. \A j \in 1 .. Len(ks[p]) : new.next[ks[p][j]] = heap.next[ks[p][j]] /\ new.prev[ks[p][j]] = heap.prev[ks[p][j]]
    BY <1>15, <1>19
  <2> QED
    BY <2>1, <2>2, LinkedIs, SMTT(30)
<1>21. \A p, q \in rest : \A j \in 1 .. Len(ks[p]), k \in 1 .. Len(ks[q]) : ks[p][j] = ks[q][k] => p = q /\ j = k
  BY <1>18 DEF Represents
<1>22. ASSUME NEW j \in rest, \A p \in rest : ~In(j, ks[p]) PROVE new.next[j] = Null /\ new.prev[j] = Null
  <2>1. \A q \in S : ~In(j, ks[q])
    <3>1. \A q \in S : ks[q] \in Seq(Items)
      BY <1>6, <1>10
    <3>2. j \notin S
      BY <1>18
    <3> QED
      BY <1>12, <3>1, <3>2, InIs
  <2>2. \A p \in lv : ~In(j, ks[p])
    BY <1>13, <1>22, <2>1
  <2>3. heap.next[j] = Null /\ heap.prev[j] = Null
    BY <1>18, <2>2 DEF Represents
  <2> QED
    BY <1>15, <1>18, <2>3
<1>23. \A x \in Items \ rest : new.child[x] = Null /\ new.next[x] = Null /\ new.prev[x] = Null /\ ks2[x] = <<>>
  <2>1. \A x \in Items \ lv : heap.child[x] = Null /\ heap.next[x] = Null /\ heap.prev[x] = Null /\ ks[x] = <<>>
    BY DEF Represents
  <2>2. \A x \in Items \ rest : x \in S \/ x \in (Items \ lv) \cap (Items \ S)
    BY <1>13
  <2> QED
    BY <1>15, <1>17, <2>1, <2>2, ZenonT(60)
<1>24. Represents(rest, new, ks2)
  <2>1. rest \subseteq Items
    BY <1>1, <1>13
  <2>2. \A p \in rest : Linked(new, p, ks2[p])
    BY <1>18, <1>20
  <2>3. \A p \in rest : \A j \in 1 .. Len(ks2[p]) : ks2[p][j] \in rest
    BY <1>18, <1>19
  <2>4. \A p, q \in rest : \A j \in 1 .. Len(ks2[p]), k \in 1 .. Len(ks2[q]) : ks2[p][j] = ks2[q][k] => p = q /\ j = k
    BY <1>18, <1>21
  <2>5. \A j \in rest : (\A p \in rest : ~In(j, ks2[p])) => new.next[j] = Null /\ new.prev[j] = Null
    BY <1>18, <1>22
  <2> QED
    BY <1>16, <1>17, <1>23, <2>1, <2>2, <2>3, <2>4, <2>5 DEF Represents
<1> QED
  BY <1>2, <1>10, <1>13, <1>24

-----------------------------------------------------------------------------
(* New items: cJSON_New_Item returns zeroed memory.                        *)

LEMMA Creation ==
    ASSUME NEW lv, NEW heap, NEW ks, Represents(lv, heap, ks), NEW i \in Items, i \notin lv
    PROVE  Represents(lv \cup {i},
                      [child |-> [heap.child EXCEPT ![i] = Null], next |-> [heap.next EXCEPT ![i] = Null],
                       prev |-> [heap.prev EXCEPT ![i] = Null]],
                      [ks EXCEPT ![i] = <<>>])
<1>1. /\ lv \subseteq Items /\ heap \in Heaps /\ ks \in [Items -> Seq(Items)]
      /\ heap.child[i] = Null /\ heap.next[i] = Null /\ heap.prev[i] = Null /\ ks[i] = <<>>
  BY DEF Represents
<1>2. /\ heap = [child |-> heap.child, next |-> heap.next, prev |-> heap.prev]
      /\ heap.child \in [Items -> Items \cup {Null}] /\ heap.next \in [Items -> Items \cup {Null}]
      /\ heap.prev \in [Items -> Items \cup {Null}]
  BY <1>1, Typed DEF Pointers
<1>3. /\ [heap.child EXCEPT ![i] = Null] = heap.child /\ [heap.next EXCEPT ![i] = Null] = heap.next
      /\ [heap.prev EXCEPT ![i] = Null] = heap.prev
  BY <1>1, <1>2
<1>4. [ks EXCEPT ![i] = <<>>] = ks
  BY <1>1
<1>5. /\ Len(ks[i]) = 0 /\ ks[i] \in Seq(Items)
      /\ \A k \in 1 .. Len(ks[i]) : FALSE
  BY <1>1, EmptySeq
<1>6. Linked(heap, i, ks[i])
  BY <1>1, <1>5, LinkedIs
<1>7. \A p \in lv : \A j \in 1 .. Len(ks[p]) : ks[p][j] \in lv
  BY DEF Represents
<1>8. \A p \in lv \cup {i} : Linked(heap, p, ks[p])
  BY <1>6 DEF Represents
<1>9. \A p \in lv \cup {i} : \A j \in 1 .. Len(ks[p]) : p \in lv /\ ks[p][j] \in lv
  BY <1>5, <1>7
<1>10. \A p, q \in lv \cup {i} : \A j \in 1 .. Len(ks[p]), k \in 1 .. Len(ks[q]) : ks[p][j] = ks[q][k] => p = q /\ j = k
  BY <1>9 DEF Represents
<1>11. \A x \in lv \cup {i} : (\A p \in lv \cup {i} : ~In(x, ks[p])) => heap.next[x] = Null /\ heap.prev[x] = Null
  BY <1>1 DEF Represents
<1>12. \A x \in Items \ (lv \cup {i}) : heap.child[x] = Null /\ heap.next[x] = Null /\ heap.prev[x] = Null /\ ks[x] = <<>>
  BY DEF Represents
<1>13. Represents(lv \cup {i}, heap, ks)
  BY <1>1, <1>8, <1>9, <1>10, <1>11, <1>12 DEF Represents
<1> QED
  BY <1>2, <1>3, <1>4, <1>13

\* cJSON_CreateIntArray and the like
LEMMA Chaining ==
    ASSUME NEW lv, NEW heap, NEW ks, Represents(lv, heap, ks), NEW s \in Seq(Items), Distinct(s),
           NEW S, S = {s[k] : k \in DOMAIN s}, S \cap lv = {}, NEW p \in Items \ (lv \cup S)
    PROVE  Represents(lv \cup {p} \cup S, Chain(heap, p, s), [ks EXCEPT ![p] = s])
<1>1. /\ lv \subseteq Items /\ heap \in Heaps /\ ks \in [Items -> Seq(Items)]
      /\ \A x \in Items \ lv : heap.child[x] = Null /\ heap.next[x] = Null /\ heap.prev[x] = Null /\ ks[x] = <<>>
  BY DEF Represents
<1>2. PICK n : n = Len(s)
  OBVIOUS
<1>3. n \in Nat /\ DOMAIN s = 1 .. n /\ \A k \in 1 .. n : s[k] \in Items
  BY <1>2, Listed
<1>4. \A j, k \in 1 .. n : s[j] = s[k] => j = k
  BY <1>3 DEF Distinct
<1>5. S = {s[k] : k \in 1 .. n} /\ S \subseteq Items
  BY <1>3
<1>6. \A x : In(x, s) <=> x \in S
  BY <1>3, <1>5 DEF In
<1>7. \A k \in 1 .. n : IndexIn(s, s[k]) = k
  BY <1>3, <1>4 DEF IndexIn
<1>8. PICK new, ks2, all : new = Chain(heap, p, s) /\ ks2 = [ks EXCEPT ![p] = s] /\ all = lv \cup {p} \cup S
  OBVIOUS
<1>9. /\ heap.child \in [Items -> Items \cup {Null}] /\ heap.next \in [Items -> Items \cup {Null}]
      /\ heap.prev \in [Items -> Items \cup {Null}]
  BY <1>1, Typed DEF Pointers
<1>10. /\ new = [child |-> new.child, next |-> new.next, prev |-> new.prev]
       /\ new.child = [heap.child EXCEPT ![p] = IF s = <<>> THEN Null ELSE s[1]]
       /\ new.next = [x \in Items |-> IF ~In(x, s) THEN heap.next[x]
                                      ELSE IF IndexIn(s, x) = n THEN Null ELSE s[IndexIn(s, x) + 1]]
       /\ new.prev = [x \in Items |-> IF ~In(x, s) THEN heap.prev[x]
                                      ELSE IF IndexIn(s, x) = 1 THEN s[n] ELSE s[IndexIn(s, x) - 1]]
  BY <1>2, <1>8 DEF Chain, In
<1>11. s = <<>> <=> n = 0
  BY <1>2, EmptySeq
<1>12. /\ new.child \in Pointers /\ new.child[p] = (IF n = 0 THEN Null ELSE s[1])
       /\ \A x \in Items : x # p => new.child[x] = heap.child[x]
  <2>1. PICK v : v = IF s = <<>> THEN Null ELSE s[1]
    OBVIOUS
  <2>2. v \in Items \cup {Null}
    <3>1. n # 0 => 1 \in 1 .. n
      BY <1>3
    <3> QED
      BY <1>3, <1>11, <2>1, <3>1
  <2>3. new.child = [heap.child EXCEPT ![p] = v] /\ heap.child \in Pointers
    BY <1>9, <1>10, <2>1 DEF Pointers
  <2> QED
    BY <1>11, <2>1, <2>2, <2>3 DEF Pointers
<1>13. \A k \in 1 .. n : /\ new.next[s[k]] = IF k = n THEN Null ELSE s[k + 1]
                        /\ new.prev[s[k]] = IF k = 1 THEN s[n] ELSE s[k - 1]
  <2>1. \A k \in 1 .. n : s[k] \in Items /\ In(s[k], s) /\ IndexIn(s, s[k]) = k
    BY <1>3, <1>5, <1>6, <1>7
  <2>2. \A k \in 1 .. n : new.next[s[k]] = IF k = n THEN Null ELSE s[k + 1]
    BY <1>10, <2>1
  <2>3. \A k \in 1 .. n : new.prev[s[k]] = IF k = 1 THEN s[n] ELSE s[k - 1]
    BY <1>10, <2>1
  <2> QED
    BY <2>2, <2>3
<1>14. \A x \in Items : x \notin S => new.next[x] = heap.next[x] /\ new.prev[x] = heap.prev[x]
  BY <1>6, <1>10
<1>15. new.next \in Pointers /\ new.prev \in Pointers
  <2>1. ASSUME NEW x \in Items PROVE new.next[x] \in Items \cup {Null} /\ new.prev[x] \in Items \cup {Null}
    <3>1. CASE x \notin S
      BY <1>9, <1>14, <3>1
    <3>2. CASE x \in S
      <4>1. PICK k \in 1 .. n : x = s[k]
        BY <1>5, <3>2
      <4>2. (k # n => k + 1 \in 1 .. n) /\ (k # 1 => k - 1 \in 1 .. n) /\ n \in 1 .. n
        BY <1>3
      <4> QED
        BY <1>3, <1>13, <4>1, <4>2
    <3> QED
      BY <3>1, <3>2
  <2> QED
    BY <1>10, <2>1 DEF Pointers
<1>16. new \in Heaps
  BY <1>10, <1>12, <1>15 DEF Heaps
<1>17. /\ ks2 \in [Items -> Seq(Items)] /\ ks2[p] = s
       /\ \A x \in Items : x # p => ks2[x] = ks[x]
  BY <1>1, <1>8
<1>18. all \subseteq Items /\ p \in all /\ p \notin lv /\ p \notin S /\ lv \subseteq all /\ S \subseteq all
  BY <1>1, <1>5, <1>8
<1>19. /\ \A x \in lv : x \in Items /\ x # p /\ ks2[x] = ks[x] /\ x \notin S
       /\ \A x \in S : x \in Items /\ x # p /\ x \notin lv /\ ks2[x] = <<>>
  BY <1>1, <1>5, <1>17, <1>18
<1>20. \A q \in lv : ks[q] \in Seq(Items) /\ \A j \in 1 .. Len(ks[q]) : ks[q][j] \in lv
  BY <1>1 DEF Represents
<1>21. <<>> \in Seq(Items) /\ Len(<<>>) = 0 /\ \A j \in 1 .. 0 : FALSE
  BY EmptySeq
<1>22. \A q \in all : Linked(new, q, ks2[q])
  <2>1. ASSUME NEW q \in lv PROVE Linked(new, q, ks[q])
    <3>1. Linked(heap, q, ks[q]) /\ new.child[q] = heap.child[q]
      BY <1>12, <1>19 DEF Represents
    <3>2. \A j \in 1 .. Len(ks[q]) : new.next[ks[q][j]] = heap.next[ks[q][j]] /\ new.prev[ks[q][j]] = heap.prev[ks[q][j]]
      BY <1>14, <1>19, <1>20
    <3>3. PICK l \in Seq(Items) : l = ks[q]
      BY <1>20
    <3>4. /\ heap.child[q] = IF Len(l) = 0 THEN Null ELSE l[1]
          /\ \A k \in 1 .. Len(l) : /\ heap.next[l[k]] = IF k = Len(l) THEN Null ELSE l[k + 1]
                                    /\ heap.prev[l[k]] = IF k = 1 THEN l[Len(l)] ELSE l[k - 1]
      BY <3>1, <3>3, LinkedIs, SMTT(30)
    <3>5. Linked(new, q, l)
      BY <3>1, <3>2, <3>3, <3>4, LinkedIs, SMTT(30)
    <3> QED
      BY <3>3, <3>5
  <2>2. ASSUME NEW q \in S PROVE Linked(new, q, <<>>)
    <3>1. new.child[q] = Null
      BY <1>1, <1>12, <1>19
    <3> QED
      BY <1>21, <3>1, LinkedIs
  <2>3. Linked(new, p, s)
    BY <1>2, <1>12, <1>13, LinkedIs
  <2> QED
    BY <1>8, <1>17, <1>19, <2>1, <2>2, <2>3
<1>23. \A q \in all : \A j \in 1 .. Len(ks2[q]) :
            (q \in lv /\ ks2[q][j] \in lv) \/ (q = p /\ ks2[q][j] \in S)
  <2>1. \A j \in 1 .. n : s[j] \in S
    BY <1>5
  <2>2. ASSUME NEW q \in lv PROVE \A j \in 1 .. Len(ks2[q]) : ks2[q][j] \in lv
    BY <1>19, <1>20
  <2>3. ASSUME NEW q \in S PROVE \A j \in 1 .. Len(ks2[q]) : FALSE
    BY <1>19, <1>21
  <2>4. \A j \in 1 .. Len(ks2[p]) : ks2[p][j] \in S
    BY <1>2, <1>17, <2>1
  <2>5. ASSUME NEW q \in all, NEW j \in 1 .. Len(ks2[q])
        PROVE  (q \in lv /\ ks2[q][j] \in lv) \/ (q = p /\ ks2[q][j] \in S)
    <3>1. CASE q \in lv
      BY <2>2, <3>1
    <3>2. CASE q \in S
      BY <2>3, <3>2
    <3>3. CASE q = p
      BY <2>4, <3>3
    <3> QED
      BY <1>8, <3>1, <3>2, <3>3
  <2> QED
    BY <2>5
<1>24. \A q \in all : \A j \in 1 .. Len(ks2[q]) : ks2[q][j] \in all
  BY <1>18, <1>23
<1>25. ASSUME NEW q \in all, NEW r \in all, NEW j \in 1 .. Len(ks2[q]), NEW k \in 1 .. Len(ks2[r]), ks2[q][j] = ks2[r][k]
       PROVE  q = r /\ j = k
  <2>1. CASE q \in lv /\ r \in lv
    <3>1. ks2[q] = ks[q] /\ ks2[r] = ks[r]
      BY <1>19, <2>1
    <3> QED
      BY <1>25, <2>1, <3>1 DEF Represents
  <2>2. CASE q = p /\ r = p
    BY <1>2, <1>4, <1>17, <1>25, <2>2
  <2> QED
    BY <1>19, <1>23, <1>25, <2>1, <2>2
<1>26. ASSUME NEW i \in all, \A q \in all : ~In(i, ks2[q]) PROVE new.next[i] = Null /\ new.prev[i] = Null
  <2>1. i \notin S /\ \A q \in lv : ~In(i, ks[q])
    BY <1>6, <1>17, <1>18, <1>19, <1>26
  <2>2. heap.next[i] = Null /\ heap.prev[i] = Null
    <3>1. CASE i \in lv
      BY <2>1, <3>1 DEF Represents
    <3> QED
      BY <1>1, <1>18, <3>1
  <2> QED
    BY <1>14, <1>18, <2>1, <2>2
<1>27. \A x \in Items \ all : new.child[x] = Null /\ new.next[x] = Null /\ new.prev[x] = Null /\ ks2[x] = <<>>
  BY <1>1, <1>12, <1>14, <1>17, <1>18
<1>28. Represents(all, new, ks2)
  BY <1>16, <1>17, <1>18, <1>22, <1>24, <1>25, <1>26, <1>27 DEF Represents
<1> QED
  BY <1>8, <1>28

-----------------------------------------------------------------------------
(* The invariant. ListsRight alone is not inductive: a call on one list    *)
(* leaves the others alone only because no two of them share an item, and  *)
(* the item it adds only fits because it has no link to elsewhere.         *)

IInv == TypeOK /\ Represents(live, h, kids)

LEMMA Rooted ==
    ASSUME IInv, NEW i, Root(i)
    PROVE  /\ i \in live /\ i \in Items
           /\ \A q \in live : ~In(i, kids[q])
           /\ h.next[i] = Null /\ h.prev[i] = Null
<1>1. i \in live /\ i \in Items
  BY DEF IInv, TypeOK, Root
<1>2. \A q \in live : ~In(i, kids[q])
  BY DEF Root, Children, In
<1> QED
  BY <1>1, <1>2 DEF IInv, Represents

LEMMA ListOf ==
    ASSUME IInv, NEW p \in live
    PROVE  /\ p \in Items /\ h \in Heaps /\ kids \in [Items -> Seq(Items)]
           /\ kids[p] \in Seq(Items) /\ Distinct(kids[p]) /\ Linked(h, p, kids[p])
           /\ DOMAIN kids[p] = 1 .. Len(kids[p])
           /\ \A k \in 1 .. Len(kids[p]) : kids[p][k] \in live /\ In(kids[p][k], kids[p])
<1>1. Represents(live, h, kids)
  BY DEF IInv
<1>2. p \in Items /\ h \in Heaps /\ kids \in [Items -> Seq(Items)] /\ Linked(h, p, kids[p])
  BY <1>1 DEF Represents
<1>3. kids[p] \in Seq(Items) /\ Distinct(kids[p])
  BY <1>1, Apart
<1>4. \A k \in 1 .. Len(kids[p]) : kids[p][k] \in live /\ In(kids[p][k], kids[p])
  BY <1>1, <1>3, InIs DEF Represents
<1>5. DOMAIN kids[p] = 1 .. Len(kids[p])
  BY <1>3, Listed
<1> QED
  BY <1>2, <1>3, <1>4, <1>5

\* A list that gains the root i
LEMMA Gains ==
    ASSUME IInv, NEW p \in live, NEW i, Root(i), NEW new, NEW t, Edited(h, new, p, kids[p], t),
           \A x \in Items : In(x, t) => In(x, kids[p]) \/ x = i, NEW ks2, ks2 = [kids EXCEPT ![p] = t]
    PROVE  Represents(live, new, ks2)
<1>1. Represents(live, h, kids)
  BY DEF IInv
<1>2. \A x \in Items : In(x, kids[p]) => x \in live
  BY <1>1, Apart
<1>3. \A x \in Items : In(x, t) => x \in live /\ (In(x, kids[p]) \/ \A q \in live : ~In(x, kids[q]))
  BY <1>2, Rooted
<1> QED
  BY <1>1, <1>3, Surgery

LEMMA Adds ==
    ASSUME IInv, NEW p, NEW i, MayAdd(p, i)
    PROVE  Represents(live, add_item_to_array(h, p, i), [kids EXCEPT ![p] = Append(@, i)])
<1>1. p \in live /\ Root(i)
  BY DEF MayAdd
<1>2. PICK s, t, new, ks2 : s = kids[p] /\ t = Append(kids[p], i) /\ new = add_item_to_array(h, p, i) /\ ks2 = [kids EXCEPT ![p] = t]
  OBVIOUS
<1>3. i \in Items /\ ~In(i, s) /\ h.next[i] = Null
  BY <1>1, <1>2, Rooted
<1>4. p \in Items /\ h \in Heaps /\ s \in Seq(Items) /\ Distinct(s) /\ Linked(h, p, s)
  BY <1>1, <1>2, ListOf
<1>5. Edited(h, new, p, s, t)
  BY <1>2, <1>3, <1>4, AddEdits
<1>6. \A x \in Items : In(x, t) => In(x, s) \/ x = i
  <2>1. /\ Len(s) \in Nat /\ DOMAIN s = 1 .. Len(s)
        /\ t \in Seq(Items) /\ Len(t) = Len(s) + 1 /\ DOMAIN t = 1 .. Len(s) + 1
        /\ \A k \in 1 .. Len(s) : t[k] = s[k]
        /\ t[Len(s) + 1] = i
    BY <1>2, <1>3, <1>4, Listed, AppendProperties, LenProperties
  <2> QED
    BY <2>1 DEF In
<1>7. Represents(live, new, ks2)
  BY <1>1, <1>2, <1>5, <1>6, Gains
<1> QED
  BY <1>2, <1>7

LEMMA Inserts ==
    ASSUME IInv, NEW p, NEW i, MayAdd(p, i), NEW k \in 1 .. Len(kids[p]) + 1
    PROVE  Represents(live, Insert(h, p, IF k \in DOMAIN kids[p] THEN kids[p][k] ELSE Null, i), [kids EXCEPT ![p] = With(@, k, i)])
<1>1. p \in live /\ Root(i)
  BY DEF MayAdd
<1>2. PICK s, t, at, ks2 : /\ s = kids[p] /\ t = With(kids[p], k, i) /\ ks2 = [kids EXCEPT ![p] = t]
                           /\ at = IF k \in DOMAIN kids[p] THEN kids[p][k] ELSE Null
  OBVIOUS
<1>3. i \in Items /\ ~In(i, s) /\ h.next[i] = Null
  BY <1>1, <1>2, Rooted
<1>4. p \in Items /\ h \in Heaps /\ s \in Seq(Items) /\ Distinct(s) /\ Linked(h, p, s) /\ DOMAIN s = 1 .. Len(s) /\ Len(s) \in Nat
  BY <1>1, <1>2, ListOf, Listed
<1>5. Edited(h, Insert(h, p, at, i), p, s, t)
  <2>1. CASE k \in 1 .. Len(s)
    BY <1>2, <1>3, <1>4, <2>1, InsertEdits
  <2>2. CASE k = Len(s) + 1
    <3>1. at = Null
      BY <1>2, <1>4, <2>2
    <3> QED
      BY <1>2, <1>3, <1>4, <2>2, <3>1, InsertLastEdits
  <2> QED
    BY <1>2, <1>4, <2>1, <2>2
<1>6. \A x \in Items : In(x, t) => In(x, s) \/ x = i
  <2>1. k \in 1 .. Len(s) + 1
    BY <1>2
  <2> QED
    BY <1>2, <1>3, <1>4, <2>1, WithList
<1>7. Represents(live, Insert(h, p, at, i), ks2)
  BY <1>1, <1>2, <1>5, <1>6, Gains
<1> QED
  BY <1>2, <1>7

LEMMA Detaches ==
    ASSUME IInv, NEW p \in live, NEW k \in 1 .. Len(kids[p]), NEW item, item = kids[p][k],
           NEW ks2, ks2 = [kids EXCEPT ![p] = Without(@, k)]
    PROVE  /\ Represents(live, Detach(h, p, item), ks2)
           /\ item \in live /\ \A q \in live : ~In(item, ks2[q])
<1>1. Represents(live, h, kids)
  BY DEF IInv
<1>2. PICK s, t : s = kids[p] /\ t = Without(kids[p], k)
  OBVIOUS
<1>3. /\ p \in Items /\ h \in Heaps /\ s \in Seq(Items) /\ Distinct(s) /\ Linked(h, p, s) /\ k \in 1 .. Len(s)
      /\ item \in live /\ In(item, s) /\ kids \in [Items -> Seq(Items)]
  BY <1>2, ListOf
<1>4. Edited(h, Detach(h, p, item), p, s, t)
  BY <1>2, <1>3, DetachEdits
<1>5. \A x \in Items : In(x, t) <=> In(x, s) /\ x # item
  BY <1>2, <1>3, WithoutList
<1>6. \A x \in Items : In(x, s) => x \in live
  BY <1>1, <1>2, Apart
<1>7. ks2 = [kids EXCEPT ![p] = t]
  BY <1>2
<1>8. \A x \in Items : In(x, t) => x \in live /\ (In(x, kids[p]) \/ \A q \in live : ~In(x, kids[q]))
  BY <1>2, <1>5, <1>6
<1>9. Represents(live, Detach(h, p, item), ks2)
  BY <1>1, <1>2, <1>4, <1>7, <1>8, Surgery
<1>10. item \in Items /\ live \subseteq Items
  BY <1>1, <1>3 DEF Represents
<1>11. ASSUME NEW q \in live PROVE ~In(item, ks2[q])
  <2>1. CASE q = p
    BY <1>3, <1>5, <1>7, <1>10, <2>1
  <2>2. CASE q # p
    <3>1. ks2[q] = kids[q]
      BY <1>3, <1>7, <1>10, <2>2
    <3>2. ~In(item, kids[q])
      BY <1>1, <1>2, <1>3, <1>10, <2>2, Apart
    <3> QED
      BY <3>1, <3>2
  <2> QED
    BY <2>1, <2>2
<1> QED
  BY <1>3, <1>9, <1>11

LEMMA Replaces ==
    ASSUME IInv, NEW p, NEW r, MayAdd(p, r), NEW k \in 1 .. Len(kids[p]), NEW item, item = kids[p][k],
           NEW ks2, ks2 = [kids EXCEPT ![p] = [@ EXCEPT ![k] = r]]
    PROVE  /\ Represents(live, Replace(h, p, item, r), ks2)
           /\ item \in live /\ \A q \in live : ~In(item, ks2[q])
<1>1. Represents(live, h, kids) /\ p \in live /\ Root(r)
  BY DEF IInv, MayAdd
<1>2. PICK s, t : s = kids[p] /\ t = Instead(kids[p], k, r)
  OBVIOUS
<1>3. /\ p \in Items /\ h \in Heaps /\ s \in Seq(Items) /\ Distinct(s) /\ Linked(h, p, s) /\ k \in 1 .. Len(s)
      /\ item \in live /\ In(item, s) /\ kids \in [Items -> Seq(Items)]
  BY <1>1, <1>2, ListOf
<1>4. r \in Items /\ ~In(r, s) /\ r # item
  BY <1>1, <1>2, <1>3, Rooted
<1>5. Edited(h, Replace(h, p, item, r), p, s, t)
  BY <1>2, <1>3, <1>4, ReplaceEdits
<1>6. \A x \in Items : In(x, t) <=> (In(x, s) /\ x # item) \/ x = r
  BY <1>2, <1>3, <1>4, ReplacedList
<1>7. ks2 = [kids EXCEPT ![p] = t]
  BY <1>2 DEF Instead
<1>8. Represents(live, Replace(h, p, item, r), ks2)
  BY <1>1, <1>2, <1>5, <1>6, <1>7, Gains, ZenonT(60)
<1>9. item \in Items /\ live \subseteq Items
  BY <1>1, <1>3 DEF Represents
<1>10. ASSUME NEW q \in live PROVE ~In(item, ks2[q])
  <2>1. CASE q = p
    BY <1>3, <1>4, <1>6, <1>7, <1>9, <2>1
  <2>2. CASE q # p
    <3>1. ks2[q] = kids[q]
      BY <1>3, <1>7, <1>9, <2>2
    <3>2. ~In(item, kids[q])
      BY <1>1, <1>2, <1>3, <1>9, <2>2, Apart
    <3> QED
      BY <3>1, <3>2
  <2> QED
    BY <2>1, <2>2
<1> QED
  BY <1>3, <1>8, <1>10

-----------------------------------------------------------------------------
(* The calls keep the invariant.                                           *)

\* What the types say of the lists follows from Represents.
LEMMA Types ==
    ASSUME Represents(live', h', kids'), kind' \in [Items -> Kinds \cup {Null}], string' \in [Items -> Names \cup {Null}],
           \A x \in Items : x \in live' <=> kind'[x] # Null
    PROVE  IInv'
<1>1. live' \subseteq Items /\ h' \in [child : Pointers, next : Pointers, prev : Pointers] /\ kids' \in [Items -> Seq(Items)]
  BY DEF Represents, Heaps
<1> QED
  BY <1>1 DEF IInv, TypeOK

LEMMA TypesNow ==
    ASSUME IInv
    PROVE  /\ Represents(live, h, kids) /\ kind \in [Items -> Kinds \cup {Null}] /\ string \in [Items -> Names \cup {Null}]
           /\ \A x \in Items : x \in live <=> kind[x] # Null
BY DEF IInv, TypeOK

LEMMA NewItemKeeps ==
    ASSUME IInv, NEW i \in Items, NEW w \in Kinds, New_Item(i, w)
    PROVE  IInv'
<1>1. Represents(live', h', kids')
  BY TypesNow, Creation DEF New_Item
<1>2. kind' = [kind EXCEPT ![i] = w] /\ string' = [string EXCEPT ![i] = Null] /\ live' = live \cup {i}
  BY DEF New_Item
<1>3. w # Null
  OBVIOUS
<1>4. /\ kind' \in [Items -> Kinds \cup {Null}] /\ string' \in [Items -> Names \cup {Null}]
      /\ \A x \in Items : x \in live' <=> kind'[x] # Null
  BY <1>2, <1>3, TypesNow
<1> QED
  BY <1>1, <1>4, Types

LEMMA CreateArrayOfKeeps ==
    ASSUME IInv, NEW p \in Items \ live, NEW n \in Nat, NEW s \in [1 .. n -> Items \ live], NEW array \in Arrays, NEW element \in Kinds,
           CreateArrayOf(p, s, array, element)
    PROVE  IInv'
<1>1. PICK S : S = {s[k] : k \in DOMAIN s}
  OBVIOUS
<1>2. s \in Seq(Items) /\ DOMAIN s = 1 .. n
  OBVIOUS
<1>3. S \subseteq Items /\ S \cap live = {}
  BY <1>1, <1>2
<1>4. /\ p \in Items \ (live \cup S) /\ Fresh(s) /\ live' = live \cup {p} \cup S /\ h' = Chain(h, p, s)
      /\ kind' = [Wiped(kind, S, element) EXCEPT ![p] = array] /\ kids' = [kids EXCEPT ![p] = s] /\ string' = string
  BY <1>1 DEF CreateArrayOf
<1>5. Distinct(s)
  BY <1>4 DEF Fresh, Distinct
<1>6. Represents(live', h', kids')
  BY <1>1, <1>2, <1>3, <1>4, <1>5, TypesNow, Chaining
<1>7. array \in Kinds /\ array # Null /\ element # Null
  BY ArraysAssumption
<1>8. /\ kind' \in [Items -> Kinds \cup {Null}]
      /\ \A x \in Items : kind'[x] = IF x = p THEN array ELSE IF x \in S THEN element ELSE kind[x]
  BY <1>3, <1>4, <1>7, TypesNow DEF Wiped
<1>9. \A x \in Items : x \in live' <=> kind'[x] # Null
  BY <1>4, <1>7, <1>8, TypesNow
<1> QED
  BY <1>4, <1>6, <1>8, <1>9, TypesNow, Types

LEMMA AddItemToArrayKeeps ==
    ASSUME IInv, NEW p \in Items, NEW i \in Items, AddItemToArray(p, i)
    PROVE  IInv'
<1>1. Represents(live', h', kids')
  BY Adds DEF AddItemToArray
<1> QED
  BY <1>1, TypesNow, Types DEF AddItemToArray

LEMMA AddItemToObjectKeeps ==
    ASSUME IInv, NEW p \in Items, NEW i \in Items, NEW name \in Names, AddItemToObject(p, name, i)
    PROVE  IInv'
<1>1. Represents(live', h', kids')
  BY Adds DEF AddItemToObject
<1>2. string' \in [Items -> Names \cup {Null}] /\ kind' = kind /\ live' = live
  BY TypesNow DEF AddItemToObject
<1> QED
  BY <1>1, <1>2, TypesNow, Types

LEMMA InsertItemInArrayKeeps ==
    ASSUME IInv, NEW p \in Items, NEW i \in Items, NEW k \in 1 .. Len(kids[p]) + 1, InsertItemInArray(p, k, i)
    PROVE  IInv'
<1>1. Represents(live', h', kids')
  BY Inserts DEF InsertItemInArray
<1> QED
  BY <1>1, TypesNow, Types DEF InsertItemInArray

LEMMA DetachItemKeeps ==
    ASSUME IInv, NEW p \in Items, NEW k \in DOMAIN kids[p], DetachItem(p, k)
    PROVE  IInv'
<1>1. p \in live
  BY DEF DetachItem
<1>2. k \in 1 .. Len(kids[p])
  BY <1>1, ListOf
<1>3. Represents(live', h', kids')
  BY <1>1, <1>2, Detaches DEF DetachItem
<1> QED
  BY <1>3, TypesNow, Types DEF DetachItem

\* What goes is wiped, and kind with it.
LEMMA WipedTypes ==
    ASSUME IInv, NEW heap, NEW ks, NEW i, Represents(live, heap, ks), i \in live, \A q \in live : ~In(i, ks[q]),
           NEW S, S = Freed(heap, i), h' = Free(heap, S), live' = live \ S, kids' = Wiped(ks, S, <<>>),
           kind' = Wiped(kind, S, Null), NEW names \in [Items -> Names \cup {Null}], string' = Wiped(names, S, Null)
    PROVE  IInv'
<1>1. Represents(live', h', kids')
  BY Deletion
<1>2. /\ kind' \in [Items -> Kinds \cup {Null}] /\ string' \in [Items -> Names \cup {Null}]
      /\ \A x \in Items : kind'[x] = IF x \in S THEN Null ELSE kind[x]
  BY TypesNow DEF Wiped
<1>3. \A x \in Items : x \in live' <=> kind'[x] # Null
  BY <1>2, TypesNow
<1> QED
  BY <1>1, <1>2, <1>3, Types

LEMMA DeleteItemKeeps ==
    ASSUME IInv, NEW p \in Items, NEW k \in DOMAIN kids[p], DeleteItem(p, k)
    PROVE  IInv'
<1>1. PICK item, heap, ks, S : /\ item = kids[p][k] /\ heap = Detach(h, p, item)
                               /\ ks = [kids EXCEPT ![p] = Without(@, k)] /\ S = Freed(heap, item)
  OBVIOUS
<1>2. p \in live
  BY DEF DeleteItem
<1>3. k \in 1 .. Len(kids[p])
  BY <1>2, ListOf
<1>4. /\ h' = Free(heap, S) /\ live' = live \ S /\ kids' = Wiped(ks, S, <<>>)
      /\ kind' = Wiped(kind, S, Null) /\ string' = Wiped(string, S, Null)
  BY <1>1 DEF DeleteItem
<1>5. Represents(live, heap, ks) /\ item \in live /\ \A q \in live : ~In(item, ks[q])
  BY <1>1, <1>2, <1>3, Detaches
<1> QED
  BY <1>1, <1>4, <1>5, TypesNow, WipedTypes

LEMMA ReplaceItemKeeps ==
    ASSUME IInv, NEW p \in Items, NEW r \in Items, NEW name \in Names \cup {Null}, NEW k \in DOMAIN kids[p], ReplaceItem(p, k, r, name)
    PROVE  IInv'
<1>1. PICK item, heap, ks, S, names : /\ item = kids[p][k] /\ heap = Replace(h, p, item, r)
                                      /\ ks = [kids EXCEPT ![p] = [@ EXCEPT ![k] = r]] /\ S = Freed(heap, item)
                                      /\ names = [string EXCEPT ![r] = name]
  OBVIOUS
<1>2. MayAdd(p, r) /\ p \in live
  BY DEF ReplaceItem, MayAdd
<1>3. k \in 1 .. Len(kids[p])
  BY <1>2, ListOf
<1>4. /\ h' = Free(heap, S) /\ live' = live \ S /\ kids' = Wiped(ks, S, <<>>)
      /\ kind' = Wiped(kind, S, Null) /\ string' = Wiped(names, S, Null)
  BY <1>1 DEF ReplaceItem
<1>5. Represents(live, heap, ks) /\ item \in live /\ \A q \in live : ~In(item, ks[q])
  BY <1>1, <1>2, <1>3, Replaces
<1>6. names \in [Items -> Names \cup {Null}]
  BY <1>1, TypesNow
<1> QED
  BY <1>1, <1>4, <1>5, <1>6, WipedTypes

LEMMA DeleteKeeps ==
    ASSUME IInv, NEW i \in Items, Delete(i)
    PROVE  IInv'
<1>1. PICK S : S = Freed(h, i)
  OBVIOUS
<1>2. /\ Root(i) /\ h' = Free(h, S) /\ live' = live \ S /\ kids' = Wiped(kids, S, <<>>)
      /\ kind' = Wiped(kind, S, Null) /\ string' = Wiped(string, S, Null)
  BY <1>1 DEF Delete
<1>3. i \in live /\ \A q \in live : ~In(i, kids[q])
  BY <1>2, Rooted
<1> QED
  BY <1>1, <1>2, <1>3, TypesNow, WipedTypes

LEMMA InitHolds == Init => IInv
<1> SUFFICES ASSUME Init PROVE IInv
  OBVIOUS
<1>1. /\ live = {} /\ h = [child |-> None, next |-> None, prev |-> None] /\ kind = None /\ string = None
      /\ kids = [x \in Items |-> <<>>]
  BY DEF Init
<1>2. None \in Pointers /\ \A x \in Items : None[x] = Null
  BY DEF None, Pointers
<1>3. h \in Heaps /\ kids \in [Items -> Seq(Items)]
  BY <1>1, <1>2, EmptySeq DEF Heaps
<1>4. Represents(live, h, kids)
  BY <1>1, <1>2, <1>3 DEF Represents
<1>5. kind \in [Items -> Kinds \cup {Null}] /\ string \in [Items -> Names \cup {Null}] /\ \A x \in Items : kind[x] = Null
  BY <1>1 DEF None
<1> QED
  BY <1>1, <1>3, <1>4, <1>5 DEF IInv, TypeOK, Heaps

LEMMA NextKeeps == IInv /\ [Next]_vars => IInv'
<1> SUFFICES ASSUME IInv, [Next]_vars PROVE IInv'
  OBVIOUS
<1>1. CASE \E i \in Items, w \in Kinds : New_Item(i, w)
  BY <1>1, NewItemKeeps
<1>2. CASE \E p \in Items \ live, n \in 0 .. MaxCount :
             \E s \in [1 .. n -> Items \ live], array \in Arrays, element \in Kinds : CreateArrayOf(p, s, array, element)
  <2>1. PICK p \in Items \ live, n \in 0 .. MaxCount :
               \E s \in [1 .. n -> Items \ live], array \in Arrays, element \in Kinds : CreateArrayOf(p, s, array, element)
    BY <1>2
  <2>2. n \in Nat
    BY MaxCountAssumption
  <2> QED
    BY <2>1, <2>2, CreateArrayOfKeeps
<1>3. CASE \E p, i \in Items : AddItemToArray(p, i)
  BY <1>3, AddItemToArrayKeeps
<1>4. CASE \E p, i \in Items, name \in Names : AddItemToObject(p, name, i)
  BY <1>4, AddItemToObjectKeeps
<1>5. CASE \E p, i \in Items : \E k \in 1 .. Len(kids[p]) + 1 : InsertItemInArray(p, k, i)
  BY <1>5, InsertItemInArrayKeeps
<1>6. CASE \E p \in Items : \E k \in DOMAIN kids[p] : DetachItem(p, k) \/ DeleteItem(p, k)
  BY <1>6, DetachItemKeeps, DeleteItemKeeps
<1>7. CASE \E p, r \in Items, name \in Names : \E k \in DOMAIN kids[p] : ReplaceItem(p, k, r, name) \/ ReplaceItem(p, k, r, string[r])
  <2>1. PICK p \in Items, r \in Items, name \in Names :
               \E k \in DOMAIN kids[p] : ReplaceItem(p, k, r, name) \/ ReplaceItem(p, k, r, string[r])
    BY <1>7
  <2>2. name \in Names \cup {Null} /\ string[r] \in Names \cup {Null}
    BY TypesNow
  <2> QED
    BY <2>1, <2>2, ReplaceItemKeeps
<1>8. CASE \E i \in Items : Delete(i)
  BY <1>8, DeleteKeeps
<1>9. CASE UNCHANGED vars
  BY <1>9, TypesNow, Types DEF vars
<1>10. CASE \E p, r \in Items, name \in Names : ReplaceMissing(p, r, name)
  <2>1. PICK r \in Items, name \in Names : string' = [string EXCEPT ![r] = name] /\ UNCHANGED <<live, h, kind, kids>>
    BY <1>10 DEF ReplaceMissing
  <2>2. string' \in [Items -> Names \cup {Null}]
    BY <2>1, TypesNow
  <2> QED
    BY <2>1, <2>2, TypesNow, Types
<1> QED
  BY <1>1, <1>2, <1>3, <1>4, <1>5, <1>6, <1>7, <1>8, <1>9, <1>10 DEF Next

LEMMA Invariance == Spec => []IInv
BY InitHolds, NextKeeps, PTL DEF Spec

-----------------------------------------------------------------------------
(* The theorems                                                            *)

\* The blocks hold what their types say, and exactly the live ones are in use.
THEOREM Typing == Spec => []TypeOK
<1>1. IInv => TypeOK
  BY DEF IInv
<1> QED
  BY <1>1, Invariance, PTL

\* Whatever calls of cJSON_AddItemToArray, InsertItemInArray, Detach, Replace and Delete a
\* program makes, the pointers hold the lists it has in mind.
THEOREM PointersHoldTheLists == Spec => []ListsRight
<1>1. IInv => ListsRight
  BY DEF IInv, Represents, ListsRight
<1> QED
  BY <1>1, Invariance, PTL

\* Each item is reached by one pointer at most: cJSON_Delete frees nothing twice, and what
\* one list loses is not in another.
THEOREM OneWayToEachItem == Spec => []OneWayIn
<1>1. ASSUME IInv PROVE OneWayIn
  <2>1. Represents(live, h, kids) /\ live \subseteq Items /\ h \in Heaps
    BY <1>1 DEF IInv, Represents
  <2>2. h.child \in [Items -> Items \cup {Null}] /\ h.next \in [Items -> Items \cup {Null}]
    BY <2>1, Typed DEF Pointers
  <2>3. \A p, q \in live : \A j \in 1 .. Len(kids[p]), k \in 1 .. Len(kids[q]) : kids[p][j] = kids[q][k] => p = q /\ j = k
    BY <2>1 DEF Represents
  <2>4. \A p \in live : Len(kids[p]) \in Nat
    BY <2>1, Apart, Listed
  <2>5. \A x \in live : h.child[x] # Null => 1 \in 1 .. Len(kids[x]) /\ h.child[x] = kids[x][1]
    BY <2>1, <2>4, Leads
  <2>6. \A x \in live : h.next[x] # Null =>
           \E q \in live : \E k \in 1 .. Len(kids[q]) :
              k + 1 \in 1 .. Len(kids[q]) /\ x = kids[q][k] /\ h.next[x] = kids[q][k + 1]
    BY <2>1, Leads
  <2>7. ASSUME NEW x \in live, NEW y \in live, h.child[x] # Null PROVE h.child[x] # h.next[y]
    <3>1. ASSUME h.child[x] = h.next[y] PROVE FALSE
      <4>1. PICK q \in live, k \in Nat : k \in 1 .. Len(kids[q]) /\ k + 1 \in 1 .. Len(kids[q]) /\ h.next[y] = kids[q][k + 1]
        BY <2>6, <2>7, <3>1
      <4>2. x = q /\ 1 = k + 1
        BY <2>3, <2>5, <2>7, <3>1, <4>1
      <4>3. k # 0
        BY <4>1
      <4> QED
        BY <4>2, <4>3
    <3> QED
      BY <3>1
  <2>8. ASSUME NEW x \in live, NEW y \in live, h.child[x] # Null, h.child[x] = h.child[y] PROVE x = y
    BY <2>3, <2>5, <2>8
  <2>9. ASSUME NEW x \in live, NEW y \in live, h.next[x] # Null, h.next[x] = h.next[y] PROVE x = y
    <3>1. PICK q \in live, k \in Nat : /\ k \in 1 .. Len(kids[q]) /\ k + 1 \in 1 .. Len(kids[q])
                                       /\ x = kids[q][k] /\ h.next[x] = kids[q][k + 1]
      BY <2>6, <2>9
    <3>2. PICK r \in live, l \in Nat : /\ l \in 1 .. Len(kids[r]) /\ l + 1 \in 1 .. Len(kids[r])
                                       /\ y = kids[r][l] /\ h.next[y] = kids[r][l + 1]
      BY <2>6, <2>9
    <3>3. q = r /\ k + 1 = l + 1
      BY <2>3, <2>9, <3>1, <3>2
    <3>4. k = l
      BY <3>3
    <3> QED
      BY <3>1, <3>2, <3>3, <3>4
  <2> QED
    BY <2>7, <2>8, <2>9 DEF OneWayIn
<1> QED
  BY <1>1, Invariance, PTL

\* After any cJSON_Delete or replacement, no pointer of an allocated item leads to a freed one.
THEOREM NothingDangles == Spec => []NoDangling
<1>1. ASSUME IInv PROVE NoDangling
  <2>1. Represents(live, h, kids) /\ live \subseteq Items /\ h \in Heaps
    BY <1>1 DEF IInv, Represents
  <2>2. /\ h.child \in [Items -> Items \cup {Null}] /\ h.next \in [Items -> Items \cup {Null}]
        /\ h.prev \in [Items -> Items \cup {Null}]
    BY <2>1, Typed DEF Pointers
  <2>3. \A p \in live, y \in Items : In(y, kids[p]) => y \in live
    BY <2>1, Apart
  <2>4. ASSUME NEW x \in live PROVE h.child[x] \in live \cup {Null} /\ h.next[x] \in live \cup {Null} /\ h.prev[x] \in live \cup {Null}
    <3>1. h.child[x] \in Items \cup {Null} /\ h.next[x] \in Items \cup {Null} /\ h.prev[x] \in Items \cup {Null}
      BY <2>1, <2>2
    <3>2. h.child[x] # Null => In(h.child[x], kids[x])
      BY <2>1, Leads
    <3>3. h.next[x] # Null => \E q \in live : In(h.next[x], kids[q])
      BY <2>1, Leads
    <3>4. h.prev[x] # Null => \E q \in live : In(h.prev[x], kids[q])
      BY <2>1, Leads
    <3> QED
      BY <2>3, <3>1, <3>2, <3>3, <3>4
  <2> QED
    BY <2>4 DEF NoDangling
<1> QED
  BY <1>1, Invariance, PTL

\* A detached item, or one that was never added, has no link to where it was: it can be added
\* anywhere, and deleting it takes nothing of its former neighbours.
THEOREM DetachedItemsApart == Spec => []RootsApart
<1>1. ASSUME IInv PROVE RootsApart
  BY <1>1, Rooted DEF RootsApart
<1> QED
  BY <1>1, Invariance, PTL

\* All of it: whatever calls of cJSON a program makes, the links of its items are right.
THEOREM LinksCorrect == Spec => []LinksRight
<1>1. TypeOK /\ ListsRight /\ OneWayIn /\ NoDangling /\ RootsApart => LinksRight
  BY DEF LinksRight
<1> QED
  BY <1>1, Typing, PointersHoldTheLists, OneWayToEachItem, NothingDangles, DetachedItemsApart, PTL
=============================================================================
