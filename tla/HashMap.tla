------------------------------ MODULE HashMap ------------------------------
(***************************************************************************)
(* hashmap.c: an array of buckets, each a list of nodes whose first is the *)
(* one added last, that doubles when its load factor is three quarters.    *)
(***************************************************************************)
EXTENDS Naturals, Sequences, SequencesExt, FiniteSets

CONSTANTS
  Keys,
  Values,       \* blocks given to the map, each once
  NoValue,      \* NULL
  Hash,         \* map->hash of each key
  BucketsLen,   \* DEFAULT_BUCKETS_LEN, 20
  MaxBuckets    \* bound: no growth beyond this

ASSUME ValuesAssumption  == NoValue \notin Values
ASSUME HashAssumption    == Hash \in [Keys -> Nat]
ASSUME BucketsAssumption == BucketsLen \in Nat \ {0} /\ MaxBuckets \in Nat

VARIABLES
  buckets,   \* buckets[i] is the list at map->buckets[i].next
  len,       \* map->len
  spent,     \* the values del_value was called for
  got,       \* what the last hashmap_get returned
  alive      \* the map is not destroyed

vars == <<buckets, len, spent, got, alive>>

buckets_len == Cardinality(DOMAIN buckets)
Empty(n) == [i \in 0 .. n - 1 |-> <<>>]

-----------------------------------------------------------------------------

Bucket(k, n) == Hash[k] % n

Places(list, k) == {p \in DOMAIN list : list[p].key = k}
Find(k) == Places(buckets[Bucket(k, buckets_len)], k)
First(S) == CHOOSE p \in S : \A q \in S : p <= q

\* loadfactor(map) >= 0.75
Loaded == 4 * len >= 3 * buckets_len

AllNodes(bs) == FlattenSeq([i \in 1 .. Cardinality(DOMAIN bs) |-> bs[i - 1]])

\* Mutant of GrowAndRehash: each list moves as a whole.
GrowWithoutRehash(bs) ==
    LET n == Cardinality(DOMAIN bs)
    IN [i \in 0 .. 2 * n - 1 |-> IF i < n THEN bs[i] ELSE <<>>]

\* The new lists after each node: it becomes the first of its list.
Rehashed(nodes, n) ==
    LET after[j \in 0 .. Len(nodes)] ==
            IF j = 0 THEN Empty(n)
            ELSE [after[j - 1] EXCEPT ![Bucket(nodes[j].key, n)] = <<nodes[j]>> \o @]
    IN after[Len(nodes)]

\* Each node, list after list, goes to its new list.
GrowAndRehash(bs) == Rehashed(AllNodes(bs), 2 * Cardinality(DOMAIN bs))

Owned == {node.value : node \in UNION {ToSet(buckets[i]) : i \in DOMAIN buckets}}

\* Mutant of Set: a key that is there is not looked for.
SetAppends(k, v) ==
    /\ alive
    /\ v \notin spent \cup Owned
    /\ LET grown == IF Loaded THEN GrowAndRehash(buckets) ELSE buckets
           i == Bucket(k, Cardinality(DOMAIN grown))
       IN /\ Cardinality(DOMAIN grown) <= MaxBuckets
          /\ buckets' = [grown EXCEPT ![i] = <<[key |-> k, value |-> v]>> \o @]
          /\ len' = len + 1
    /\ UNCHANGED <<spent, got, alive>>

\* hashmap_set: the map grows first, even if the key is there
Set(k, v) ==
    /\ alive
    /\ v \notin spent \cup Owned
    /\ LET grown == IF Loaded THEN GrowAndRehash(buckets) ELSE buckets
           i == Bucket(k, Cardinality(DOMAIN grown))
           places == Places(grown[i], k)
       IN /\ Cardinality(DOMAIN grown) <= MaxBuckets
          /\ \/ /\ places # {}
                /\ spent' = spent \cup {grown[i][First(places)].value}
                /\ buckets' = [grown EXCEPT ![i][First(places)].value = v]
                /\ UNCHANGED len
             \/ /\ places = {}
                /\ buckets' = [grown EXCEPT ![i] = <<[key |-> k, value |-> v]>> \o @]
                /\ len' = len + 1
                /\ UNCHANGED spent
    /\ UNCHANGED <<got, alive>>

Get(k) ==
    /\ alive
    /\ got' = IF Find(k) = {} THEN NoValue
              ELSE buckets[Bucket(k, buckets_len)][First(Find(k))].value
    /\ UNCHANGED <<buckets, len, spent, alive>>

\* hashmap_del: len stays as it is
Del(k) ==
    /\ alive
    /\ LET i == Bucket(k, buckets_len)
       IN IF Find(k) = {}
          THEN UNCHANGED <<buckets, spent>>
          ELSE /\ spent' = spent \cup {buckets[i][First(Find(k))].value}
               /\ buckets' = [buckets EXCEPT ![i] = RemoveAt(@, First(Find(k)))]
    /\ UNCHANGED <<len, got, alive>>

Destroy ==
    /\ alive
    /\ alive' = FALSE
    /\ spent' = spent \cup Owned
    /\ buckets' = Empty(buckets_len)
    /\ UNCHANGED <<len, got>>

Init ==
    /\ buckets = Empty(BucketsLen)
    /\ len = 0
    /\ spent = {}
    /\ got = NoValue
    /\ alive = TRUE

Next ==
    \/ Destroy
    \/ \E k \in Keys : Get(k) \/ Del(k) \/ \E v \in Values : Set(k, v)

Spec == Init /\ [][Next]_vars

-----------------------------------------------------------------------------
(* Properties *)

TypeOK ==
    /\ buckets_len >= BucketsLen
    /\ \A i \in DOMAIN buckets : \A p \in DOMAIN buckets[i] :
         buckets[i][p].key \in Keys /\ buckets[i][p].value \in Values
    /\ len \in Nat
    /\ spent \subseteq Values
    /\ got \in Values \cup {NoValue}
    /\ alive \in BOOLEAN

\* Every node is in the list hashmap_get looks for it in, whatever the map has grown to,
\* and a key has one node.
InItsBucket ==
    /\ \A i \in DOMAIN buckets : \A p \in DOMAIN buckets[i] : Bucket(buckets[i][p].key, buckets_len) = i
    /\ \A k \in Keys : \A i \in DOMAIN buckets : Cardinality(Places(buckets[i], k)) <= 1

\* The lists of nodes, after any growth.
NodesRight == TypeOK /\ InItsBucket

\* The map is the partial function of Map: a get returns what was last set, and del_value
\* is called once for every value that leaves the map.
Entry(k) == IF Find(k) = {} THEN NoValue
            ELSE buckets[Bucket(k, buckets_len)][First(Find(k))].value
Abstract == INSTANCE Map WITH entry <- [k \in Keys |-> Entry(k)]
ImplementsMap == Abstract!Spec
=============================================================================
