---------------------------- MODULE ClientStubs ----------------------------
(***************************************************************************)
(* What a generated stub does before and after the call goes over the      *)
(* wire, with client_request_init and read_response where blocks are at    *)
(* stake. id is the number of the call, f the row of the method.           *)
(***************************************************************************)
EXTENDS Stub

CM == INSTANCE ClientMessages

\* What a stub returns when it has nothing to return
Nothing(ret) == IF IsNumber(ret) THEN 0 ELSE Null

Node(id, i) == <<"call", id, "node", i>>
Messages(f) == {i \in DOMAIN f.params : IsMessage(f.params[i])}

\* A stub up to client_call: the array of the arguments, then one argument after the other.
ArgOf(T, x) ==
    [type |-> T, size |-> IF T = "uint64" THEN 8 ELSE 4,
     data |-> IF IsMessage(T)
              THEN IF x = Null THEN Null ELSE Tree(CM!marshals, T, Filled(CM!marshals, T, x))
              ELSE IF x = Null THEN Blank ELSE x]
ArgsOf(f, vals) == [i \in DOMAIN f.params |-> ArgOf(f.params[i], vals[i])]
\* It returns early when the client has an error after the first marshal,
ReturnsEarly(f, m) == Failed(m) /\ Messages(f) # {}
EarlyMemory(id, f, vals, m) ==
    LET i == CHOOSE j \in Messages(f) : \A k \in Messages(f) : j <= k
        n == MarshalMemory(CM!marshals, f.params[i], ArgAt(id, i), vals[i], m)
    IN IF Refuses(CM!marshals, f.params[i], vals[i], m) THEN n ELSE Alloc(n, {Node(id, i)})
\* and else it has trees and texts.
TreeMemory(id, f, vals, m) ==
    LET there == {i \in Messages(f) : vals[i] # Null} IN
    Alloc(FaultIf(there # Messages(f), m, "strlen of NULL"),
          UNION {{Node(id, i), <<"call", id, "text", i>>} : i \in there})
WriteArgs(id, f, vals, m) ==
    LET begun == Alloc(m, {<<"call", id, "args">>}) IN
    IF ReturnsEarly(f, m) THEN EarlyMemory(id, f, vals, begun) ELSE TreeMemory(id, f, vals, begun)

TypeName(id) == <<"call", id, "resp", "type_name">>
Data(id) == <<"call", id, "resp", "data">>

\* read_response, of a server that may go away: after the whole response, or before the
\* type name or the data is complete (cut). bad: frees what it has and
\* keeps the pointers, which lead to Junk.
Cuts == {"whole", "head", "type_name", "data"}
ReadResponse(id, resp, cut, m) ==
    LET lost == [m EXCEPT !.err = "errno"] IN
    CASE cut = "head" -> [type_name |-> Null, data |-> Null, m |-> lost]
      [] cut # "head" /\ resp.kind = "error" -> [type_name |-> Null, data |-> Null, m |-> [m EXCEPT !.err = resp.data]]
      [] cut # "head" /\ resp.kind = "nothing" -> [type_name |-> Null, data |-> Null, m |-> m]
      [] cut = "type_name" /\ resp.kind = "value" -> [type_name |-> Junk, data |-> Null, m |-> lost]
      [] cut = "data" /\ resp.kind = "value" -> [type_name |-> Junk, data |-> Junk, m |-> lost]
      [] OTHER -> [type_name |-> resp.type, data |-> resp.data, m |-> Alloc(m, {TypeName(id), Data(id)})]

\* The rest of a stub, r being what read_response left: the check of the type, the result,
Right(f, r) == ~Failed(r.m) /\ (f.ret # "void" => r.type_name = f.ret)
ResultOf(f, r) ==
    IF ~Right(f, r) \/ f.ret = "void" THEN Nothing(f.ret)
    ELSE IF IsMessage(f.ret) THEN Unmarshal(CM!unmarshals, f.ret, InitValue(CM!inits, f.ret), r.data)
    ELSE r.data
ResultRead(id, f, r) ==
    IF Failed(r.m) THEN r.m
    ELSE IF ~Right(f, r)
    THEN IF r.type_name = Null THEN Fault(r.m, "strcmp of NULL") ELSE [r.m EXCEPT !.err = "garbled"]
    ELSE IF ~IsMessage(f.ret) THEN r.m
    ELSE Alloc(r.m, {ResAt(id)} \cup InitBlocks(CM!inits, f.ret, ResAt(id))
                    \cup UnmarshalBlocks(CM!unmarshals, f.ret, ResAt(id), r.data))
\* and end: with its frees. A string is handed on as it is (free_data = 0).
StubEnds(id, f, r) ==
    LET n == ResultRead(id, f, r)
        kept == Right(f, r) /\ f.ret = "string"
        freed == FreeUnlessNull(IF kept THEN n ELSE FreeUnlessNull(n, r.data, Data(id)), r.type_name, TypeName(id))
    IN [freed EXCEPT !.heap = @ \ {Node(id, i) : i \in DOMAIN f.params}]
\* The check may be the end of the process: it calls errorf when the type is another.
Mistyped(f, r) == ~Failed(r.m) /\ ~Right(f, r) /\ r.type_name # Null
StubOutcomes(id, f, r) == {StubEnds(id, f, r)} \cup (IF Mistyped(f, r) THEN {Fault(r.m, VaList)} ELSE {})

\* What the caller owes: T_delete of a struct, free of a string
DeleteResult(id, f, v, m) ==
    IF IsNumber(f.ret) \/ v = Null THEN m
    ELSE IF f.ret = "string" THEN FreeAll(m, {Data(id)})
    ELSE FreeAll(Destroy(CM!destroys, f.ret, ResAt(id), v, m), {ResAt(id)})
=============================================================================
