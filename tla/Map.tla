-------------------------------- MODULE Map --------------------------------
(***************************************************************************)
(* What hashmap.h promises: a partial function from keys to values. A      *)
(* value belongs to the map from hashmap_set until it is overwritten,      *)
(* deleted or destroyed with the map, and then del_value is called for it. *)
(***************************************************************************)
CONSTANTS Keys, Values, NoValue

VARIABLES
  entry,   \* the value of each key, or NoValue
  spent,   \* the values del_value was called for
  got,     \* what the last call returned
  alive    \* the map is not destroyed

vars == <<entry, spent, got, alive>>

Owned(k) == {entry[k]} \ {NoValue}

Init ==
    /\ entry = [k \in Keys |-> NoValue]
    /\ spent = {}
    /\ got = NoValue
    /\ alive = TRUE

Set(k, v) ==
    /\ alive
    /\ v \notin spent /\ \A j \in Keys : entry[j] # v
    /\ entry' = [entry EXCEPT ![k] = v]
    /\ spent' = spent \cup Owned(k)
    /\ UNCHANGED <<got, alive>>

Get(k) ==
    /\ alive
    /\ got' = entry[k]
    /\ UNCHANGED <<entry, spent, alive>>

Del(k) ==
    /\ alive
    /\ entry' = [entry EXCEPT ![k] = NoValue]
    /\ spent' = spent \cup Owned(k)
    /\ UNCHANGED <<got, alive>>

Destroy ==
    /\ alive
    /\ alive' = FALSE
    /\ entry' = [k \in Keys |-> NoValue]
    /\ spent' = spent \cup UNION {Owned(k) : k \in Keys}
    /\ UNCHANGED got

Next ==
    \/ Destroy
    \/ \E k \in Keys : Get(k) \/ Del(k) \/ \E v \in Values : Set(k, v)

Spec == Init /\ [][Next]_vars
=============================================================================
