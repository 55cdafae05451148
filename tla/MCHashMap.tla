----------------------------- MODULE MCHashMap -----------------------------
(* HashMap on small instances. *)
EXTENDS HashMap

CONSTANTS k1, k2, k3, k4, v1, v2, v3, v4, v5

\* keys that share a bucket of two, of four and of eight, and one that does not
MCHash == [k \in {k1, k2, k3, k4} |->
             CASE k = k1 -> 1 [] k = k2 -> 9 [] k = k3 -> 3 [] k = k4 -> 2]
=============================================================================
