------------------------------ MODULE ItemList ------------------------------
(***************************************************************************)
(* The items of cJSON: blocks linked by child, next and prev, prev of the  *)
(* first child being the last one, and the calls that create, add, insert, *)
(* detach, replace and delete them. kids is what the caller has in mind:   *)
(* the sequence of the children of each item. Nothing refers to it; the    *)
(* invariant says that the pointers represent it.                          *)
(***************************************************************************)
EXTENDS Integers, Sequences

CONSTANTS
  Items,    \* the blocks an item can be in
  Null,     \* NULL
  Kinds,    \* what an item may be besides its links: type and value
  Arrays,   \* those that may have children: arrays and objects
  Names,    \* names of the children of objects
  MaxCount  \* bound on the elements of an array made at once

ASSUME NullAssumption == Null \notin Items /\ Null \notin Kinds /\ Null \notin Names
ASSUME MaxCountAssumption == MaxCount \in Nat
ASSUME ArraysAssumption == Arrays \subseteq Kinds

VARIABLES
  live,     \* the blocks that are allocated
  h,        \* the pointers in them
  kind, string,
  kids

vars == <<live, h, kind, string, kids>>

None == [x \in Items |-> Null]

-----------------------------------------------------------------------------
(* The calls, as functions on the pointers *)

\* Mutant of add_item_to_array: the first item does not learn of the new last one.
add_item_to_arrayNoLast(heap, array, item) ==
    LET head == heap.child[array] IN
    IF head = Null
    THEN [child |-> [heap.child EXCEPT ![array] = item],
          next  |-> [heap.next EXCEPT ![item] = Null],
          prev  |-> [heap.prev EXCEPT ![item] = item]]
    ELSE [child |-> heap.child,
          next  |-> [heap.next EXCEPT ![heap.prev[head]] = item],
          prev  |-> [heap.prev EXCEPT ![item] = heap.prev[head]]]

add_item_to_array(heap, array, item) ==
    LET head == heap.child[array]
        last == heap.prev[head]
    IN IF head = Null
       THEN [child |-> [heap.child EXCEPT ![array] = item],
             next  |-> [heap.next EXCEPT ![item] = Null],
             prev  |-> [heap.prev EXCEPT ![item] = item]]
       ELSE IF last # Null
       THEN [child |-> heap.child,
             next  |-> [heap.next EXCEPT ![last] = item],
             prev  |-> [heap.prev EXCEPT ![item] = last, ![head] = item]]
       ELSE heap

\* cJSON_DetachItemViaPointer
Detach(heap, parent, item) ==
    LET first == item = heap.child[parent]
        before == heap.prev[item]
        after == heap.next[item]
        prev1 == IF after # Null THEN [heap.prev EXCEPT ![after] = before] ELSE heap.prev
        prev2 == IF ~first /\ after = Null THEN [prev1 EXCEPT ![heap.child[parent]] = before] ELSE prev1
        next1 == IF first THEN heap.next ELSE [heap.next EXCEPT ![before] = after]
    IN [child |-> IF first THEN [heap.child EXCEPT ![parent] = after] ELSE heap.child,
        next  |-> [next1 EXCEPT ![item] = Null],
        prev  |-> [prev2 EXCEPT ![item] = Null]]

\* cJSON_InsertItemInArray before the item get_array_item has found, or at the end
Insert(heap, array, after_inserted, newitem) ==
    LET before == heap.prev[after_inserted] IN
    IF after_inserted = Null THEN add_item_to_array(heap, array, newitem)
    ELSE IF after_inserted = heap.child[array]
    THEN [child |-> [heap.child EXCEPT ![array] = newitem],
          next  |-> [heap.next EXCEPT ![newitem] = after_inserted],
          prev  |-> [heap.prev EXCEPT ![newitem] = before, ![after_inserted] = newitem]]
    ELSE [child |-> heap.child,
          next  |-> [heap.next EXCEPT ![newitem] = after_inserted, ![before] = newitem],
          prev  |-> [heap.prev EXCEPT ![newitem] = before, ![after_inserted] = newitem]]

\* cJSON_ReplaceItemViaPointer up to its cJSON_Delete, replacement being another item
Replace(heap, parent, item, replacement) ==
    LET before == heap.prev[item]
        after == heap.next[item]
        first == heap.child[parent] = item
        prev1 == [heap.prev EXCEPT ![replacement] = before]
        prev2 == IF after # Null THEN [prev1 EXCEPT ![after] = replacement] ELSE prev1
        prev3 == IF first
                 THEN IF prev2[item] = item THEN [prev2 EXCEPT ![replacement] = replacement] ELSE prev2
                 ELSE IF after = Null THEN [prev2 EXCEPT ![heap.child[parent]] = replacement] ELSE prev2
        next1 == [heap.next EXCEPT ![replacement] = after]
        next2 == IF ~first /\ before # Null THEN [next1 EXCEPT ![before] = replacement] ELSE next1
    IN [child |-> IF first THEN [heap.child EXCEPT ![parent] = replacement] ELSE heap.child,
        next  |-> [next2 EXCEPT ![item] = Null],
        prev  |-> [prev3 EXCEPT ![item] = Null]]

\* cJSON_Delete: what it frees, all that child and next lead to
Closed(heap, S) == \A x \in S : {heap.child[x], heap.next[x]} \subseteq S \cup {Null}
Freed(heap, item) == {x \in Items : \A S \in SUBSET Items : item \in S /\ Closed(heap, S) => x \in S}

-----------------------------------------------------------------------------
(* The calls, as actions. kids takes the step the caller has in mind. *)

Children(p) == {kids[p][k] : k \in DOMAIN kids[p]}
Root(i) == i \in live /\ \A p \in live : i \notin Children(p)
Without(s, k) == [j \in 1 .. Len(s) - 1 |-> IF j < k THEN s[j] ELSE s[j + 1]]
With(s, k, x) == [j \in 1 .. Len(s) + 1 |-> IF j < k THEN s[j] ELSE IF j = k THEN x ELSE s[j - 1]]
\* What a freed block holds is nobody's business: the model wipes it.
Wiped(f, S, blank) == [x \in Items |-> IF x \in S THEN blank ELSE f[x]]
Free(heap, S) == [child |-> Wiped(heap.child, S, Null), next |-> Wiped(heap.next, S, Null),
                  prev |-> Wiped(heap.prev, S, Null)]

\* What the caller has to see to: an item is in one list at most, and not below itself.
MayAdd(p, i) == p \in live /\ kind[p] \in Arrays /\ Root(i) /\ i # p /\ p \notin Freed(h, i)

\* The arrays made at once: fresh items put in a chain
IndexIn(s, x) == CHOOSE k \in DOMAIN s : s[k] = x
Chain(heap, array, s) ==
    LET In(x) == \E k \in DOMAIN s : s[k] = x IN
    [child |-> [heap.child EXCEPT ![array] = IF s = <<>> THEN Null ELSE s[1]],
     next  |-> [x \in Items |-> IF ~In(x) THEN heap.next[x]
                                ELSE IF IndexIn(s, x) = Len(s) THEN Null ELSE s[IndexIn(s, x) + 1]],
     prev  |-> [x \in Items |-> IF ~In(x) THEN heap.prev[x]
                                ELSE IF IndexIn(s, x) = 1 THEN s[Len(s)] ELSE s[IndexIn(s, x) - 1]]]

\* The cJSON_Create functions
New_Item(i, w) ==
    /\ i \notin live
    /\ live' = live \cup {i}
    /\ h' = [child |-> [h.child EXCEPT ![i] = Null], next |-> [h.next EXCEPT ![i] = Null],
             prev |-> [h.prev EXCEPT ![i] = Null]]
    /\ kind' = [kind EXCEPT ![i] = w]
    /\ string' = [string EXCEPT ![i] = Null]
    /\ kids' = [kids EXCEPT ![i] = <<>>]

\* cJSON_CreateIntArray and the like: s are the blocks of the elements
Fresh(s) == \A j, k \in DOMAIN s : s[j] \notin live /\ (s[j] = s[k] => j = k)
CreateArrayOf(p, s, array, element) ==
    LET S == {s[k] : k \in DOMAIN s} IN
    /\ p \in Items \ (live \cup S) /\ Fresh(s)
    /\ live' = live \cup {p} \cup S
    /\ h' = Chain(h, p, s)
    /\ kind' = [Wiped(kind, S, element) EXCEPT ![p] = array]
    /\ kids' = [kids EXCEPT ![p] = s]
    /\ UNCHANGED string

AddItemToArray(p, i) ==
    /\ MayAdd(p, i)
    /\ h' = add_item_to_array(h, p, i)
    /\ kids' = [kids EXCEPT ![p] = Append(@, i)]
    /\ UNCHANGED <<live, kind, string>>

AddItemToObject(p, name, i) ==
    /\ MayAdd(p, i)
    /\ h' = add_item_to_array(h, p, i)
    /\ string' = [string EXCEPT ![i] = name]
    /\ kids' = [kids EXCEPT ![p] = Append(@, i)]
    /\ UNCHANGED <<live, kind>>

\* k is the index of after_inserted plus 1, Len + 1 if there is none
InsertItemInArray(p, k, i) ==
    /\ MayAdd(p, i)
    /\ k \in 1 .. Len(kids[p]) + 1
    /\ h' = Insert(h, p, IF k \in DOMAIN kids[p] THEN kids[p][k] ELSE Null, i)
    /\ kids' = [kids EXCEPT ![p] = With(@, k, i)]
    /\ UNCHANGED <<live, kind, string>>

DetachItem(p, k) ==
    /\ p \in live /\ k \in DOMAIN kids[p]
    /\ h' = Detach(h, p, kids[p][k])
    /\ kids' = [kids EXCEPT ![p] = Without(@, k)]
    /\ UNCHANGED <<live, kind, string>>

\* cJSON_DeleteItemFromArray and FromObject: detach, then delete
DeleteItem(p, k) ==
    /\ p \in live /\ k \in DOMAIN kids[p]
    /\ LET detached == Detach(h, p, kids[p][k])
           S == Freed(detached, kids[p][k])
       IN /\ h' = Free(detached, S)
          /\ live' = live \ S
          /\ kids' = Wiped([kids EXCEPT ![p] = Without(@, k)], S, <<>>)
          /\ kind' = Wiped(kind, S, Null)
          /\ string' = Wiped(string, S, Null)

\* The item replaced is deleted. ReplaceItemInObject names the new one first.
ReplaceItem(p, k, r, name) ==
    /\ MayAdd(p, r) /\ k \in DOMAIN kids[p]
    /\ LET replaced == Replace(h, p, kids[p][k], r)
           S == Freed(replaced, kids[p][k])
       IN /\ h' = Free(replaced, S)
          /\ live' = live \ S
          /\ kids' = Wiped([kids EXCEPT ![p] = [@ EXCEPT ![k] = r]], S, <<>>)
          /\ kind' = Wiped(kind, S, Null)
          /\ string' = Wiped([string EXCEPT ![r] = name], S, Null)

\* ReplaceItemInObject without an item of that name: it fails, but the new one is renamed.
\* The search that minds the case ends at an item without a name.
ReplaceMissing(p, r, name) ==
    /\ MayAdd(p, r)
    /\ \A k \in DOMAIN kids[p] : string[kids[p][k]] = name => \E j \in 1 .. k - 1 : string[kids[p][j]] = Null
    /\ string' = [string EXCEPT ![r] = name]
    /\ UNCHANGED <<live, h, kind, kids>>

\* cJSON_Delete of a tree that is in no other
Delete(i) ==
    /\ Root(i)
    /\ LET S == Freed(h, i) IN
       /\ h' = Free(h, S)
       /\ live' = live \ S
       /\ kids' = Wiped(kids, S, <<>>)
       /\ kind' = Wiped(kind, S, Null)
       /\ string' = Wiped(string, S, Null)

Init ==
    /\ live = {}
    /\ h = [child |-> None, next |-> None, prev |-> None]
    /\ kind = None
    /\ string = None
    /\ kids = [x \in Items |-> <<>>]

Next ==
    \/ \E i \in Items, w \in Kinds : New_Item(i, w)
    \/ \E p \in Items \ live, n \in 0 .. MaxCount :
         \E s \in [1 .. n -> Items \ live], array \in Arrays, element \in Kinds : CreateArrayOf(p, s, array, element)
    \/ \E p, i \in Items : AddItemToArray(p, i)
    \/ \E p, i \in Items, name \in Names : AddItemToObject(p, name, i)
    \/ \E p, i \in Items : \E k \in 1 .. Len(kids[p]) + 1 : InsertItemInArray(p, k, i)
    \/ \E p \in Items : \E k \in DOMAIN kids[p] : DetachItem(p, k) \/ DeleteItem(p, k)
    \/ \E p, r \in Items, name \in Names : \E k \in DOMAIN kids[p] :
         ReplaceItem(p, k, r, name) \/ ReplaceItem(p, k, r, string[r])
    \/ \E p, r \in Items, name \in Names : ReplaceMissing(p, r, name)
    \/ \E i \in Items : Delete(i)

Spec == Init /\ [][Next]_vars

-----------------------------------------------------------------------------
(* Properties *)

Pointers == [Items -> Items \cup {Null}]
TypeOK ==
    /\ live \subseteq Items
    /\ h \in [child : Pointers, next : Pointers, prev : Pointers]
    /\ kind \in [Items -> Kinds \cup {Null}]
    /\ string \in [Items -> Names \cup {Null}]
    /\ kids \in [Items -> Seq(Items)]
    /\ \A x \in Items : x \in live <=> kind[x] # Null

\* The list of p: child is the first item, next leads to the next one and NULL ends it,
\* prev leads back and from the first item to the last.
Linked(heap, p, s) ==
    /\ heap.child[p] = IF s = <<>> THEN Null ELSE s[1]
    /\ \A k \in DOMAIN s :
         /\ heap.next[s[k]] = IF k = Len(s) THEN Null ELSE s[k + 1]
         /\ heap.prev[s[k]] = IF k = 1 THEN s[Len(s)] ELSE s[k - 1]

\* Whatever calls were made, in whatever order, the pointers represent the sequences the
\* caller has in mind: nothing is lost, doubled or out of order in any list.
ListsRight == \A p \in live : Linked(h, p, kids[p])

\* One pointer at most leads to an item, from its parent or from the item before it: each
\* item is in one list, and no item that was taken out leads into one.
OneWayIn ==
    \A x, y \in live :
        /\ h.child[x] # Null => h.child[x] # h.next[y] /\ (h.child[x] = h.child[y] => x = y)
        /\ h.next[x] # Null /\ h.next[x] = h.next[y] => x = y

\* No pointer of an allocated item leads to a freed one, after any delete or replace.
NoDangling == \A x \in live : {h.child[x], h.next[x], h.prev[x]} \subseteq live \cup {Null}

\* An item that was detached, or never added, keeps no link to where it was.
RootsApart == \A i \in live : Root(i) => h.next[i] = Null /\ h.prev[i] = Null

\* The links of all items that are allocated.
LinksRight == TypeOK /\ ListsRight /\ OneWayIn /\ NoDangling /\ RootsApart
=============================================================================
