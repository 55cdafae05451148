-------------------------------- MODULE Stub --------------------------------
(***************************************************************************)
(* What the code generator writes for every message, as operators on the   *)
(* memory of a process. ServerMessages and ClientMessages say which fields *)
(* of a message each generated function handles; the operators take the    *)
(* functions of one kind for all messages as a table. Structs nest once in *)
(* the examples: ...By takes what is done with a struct inside a struct.   *)
(***************************************************************************)
EXTENDS Integers, Sequences

CONSTANTS
  Null,    \* NULL, and null in a JSON text
  Junk,    \* what memory holds that was not written
  Nan,     \* a float that is no finite number
  IntMax   \* INT_MAX

ASSUME IntMaxAssumption == IntMax \in Nat

Blank == ""   \* the string without a character
Texts == STRING \cup {Blank}

\* The memory of a process: the blocks that are allocated, each known by a path, the first
\* thing it did that C does not define and that ended it, and the error_t at hand, NoError
\* for err.null.
NoError == "no error"
Memory(heap) == [heap |-> heap, fault |-> "none", err |-> NoError]
Fault(m, what) == IF m.fault = "none" THEN [m EXCEPT !.fault = what] ELSE m
FaultIf(condition, m, what) == IF condition THEN Fault(m, what) ELSE m
Alloc(m, blocks) == [m EXCEPT !.heap = @ \cup blocks]
FreeAll(m, blocks) ==
    [FaultIf(~(blocks \subseteq m.heap), m, "free of a freed block") EXCEPT !.heap = @ \ blocks]
FreeUnlessNull(m, pointer, p) == IF pointer = Null THEN m ELSE FreeAll(m, {p})
Failed(m) == m.err # NoError

\* errorf gives snprintf its va_list where the format names strings and numbers, and nothing
\* for the second: the error says anything, or the process ends there.
VaList == "a va_list for a string"
errorf(m) == {[m EXCEPT !.err = "garbled"], Fault(m, VaList)}

\* The blocks of call number id: its i-th argument and its result
ArgAt(id, i) == <<"call", id, "arg", i>>
ResAt(id) == <<"call", id, "res">>

\* The structs: what a field of a message may be, strings and structs being pointers.
Structs == [Account  |-> [userName |-> "string", balance |-> "float"],
            Book     |-> [price |-> "Price", name |-> "string"],
            Price    |-> [unit |-> "string", num |-> "float"],
            Quotient |-> [Quo |-> "uint64", Rem |-> "uint64"],
            TwoNum   |-> [A |-> "int32", B |-> "int32"]]
Fields(T) == DOMAIN Structs[T]
Kind(T, f) == Structs[T][f]
IsMessage(kind) == kind \in DOMAIN Structs
IsNumber(kind) == ~IsMessage(kind) /\ kind \notin {"string", "void"}
\* What a field may hold, by its C type, floats being what a float may be. NULL is none of
\* the other values and no struct.
Scalars(kind, floats) ==
    CASE kind = "string" -> Texts \cup {Null} [] kind = "float" -> floats [] kind = "int32" -> Int [] OTHER -> Nat
ScalarsRight(T, v, floats) == \A f \in Fields(T) : ~IsMessage(Kind(T, f)) => v[f] \in Scalars(Kind(T, f), floats)
WellTyped(T, v, floats) ==
    /\ ScalarsRight(T, v, floats)
    /\ \A f \in Fields(T) : IsMessage(Kind(T, f)) /\ v[f] # Null => ScalarsRight(Kind(T, f), v[f], floats)
AllScalars == Int \cup Texts \cup {Null, Junk, Nan}
ASSUME NullAssumption ==
    /\ Null \notin Int \cup Texts \cup {Junk, Nan} /\ Junk \notin Int
    /\ \A T \in DOMAIN Structs : Null \notin [Fields(T) -> AllScalars \cup [Fields("Price") -> AllScalars]]
Pointers == [T \in DOMAIN Structs |-> {f \in Fields(T) : ~IsNumber(Kind(T, f))}]

\* The blocks that the struct v of message T at path p leads to by the fields in a table.
Parts(table, T, p, v) == {Append(p, f) : f \in {g \in table[T] : v[g] # Null}}
Inner(table, T, v) == {f \in table[T] : IsMessage(Kind(T, f)) /\ v[f] # Null}
Blocks(table, T, p, v) ==
    Parts(table, T, p, v) \cup UNION {Parts(table, Kind(T, f), Append(p, f), v[f]) : f \in Inner(table, T, v)}

\* T_init: strings become NULL, structs are allocated and initialised, numbers left alone.
InitBy(Sub(_), inits, T) ==
    [f \in Fields(T) |-> IF f \notin inits[T] THEN Junk ELSE IF IsMessage(Kind(T, f)) THEN Sub(Kind(T, f)) ELSE Null]
InitFlat(inits, T) == InitBy(LAMBDA U : Junk, inits, T)
InitValue(inits, T) == InitBy(LAMBDA U : InitFlat(inits, U), inits, T)
InitBlocks(inits, T, p) == Blocks(Pointers, T, p, InitValue(inits, T))

\* T_destroy: a NULL struct is read all the same
ReadsNull(destroys, T, v) ==
    /\ destroys[T] # {}
    /\ \/ v = Null
       \/ \E f \in destroys[T] : IsMessage(Kind(T, f)) /\ v[f] = Null /\ destroys[Kind(T, f)] # {}
Destroyed(destroys, T, p, v) == IF v = Null THEN {} ELSE Blocks(destroys, T, p, v)
Destroy(destroys, T, p, v, m) ==
    FreeAll(FaultIf(ReadsNull(destroys, T, v), m, "read of a NULL struct"), Destroyed(destroys, T, p, v))

\* T_clone: every part that is there is copied to a block of its own
Clone(T, p, v, m) == IF v = Null THEN m ELSE Alloc(m, {p} \cup Blocks(Pointers, T, p, v))

\* T_marshal replaces a NULL string in the struct.
FilledBy(Sub(_, _), marshals, T, v) ==
    [f \in Fields(T) |->
       IF f \notin marshals[T] THEN v[f]
       ELSE IF v[f] = Null THEN IF Kind(T, f) = "string" THEN Blank ELSE Null
       ELSE IF IsMessage(Kind(T, f)) THEN Sub(Kind(T, f), v[f]) ELSE v[f]]
FilledFlat(marshals, T, v) == FilledBy(LAMBDA U, w : w, marshals, T, v)
Filled(marshals, T, v) == FilledBy(LAMBDA U, w : FilledFlat(marshals, U, w), marshals, T, v)

\* The tree it makes, the struct being filled. cJSON_Print and cJSON_Parse keep a tree as it
\* is (see CJson), except that a number that is not finite is printed as null.
Printed(kind, x) == IF kind = "float" /\ x = Nan THEN Null ELSE x
TreeBy(Sub(_, _), marshals, T, v) ==
    [f \in Fields(T) |-> IF f \notin marshals[T] \/ v[f] = Null THEN Null
                         ELSE IF IsMessage(Kind(T, f)) THEN Sub(Kind(T, f), v[f]) ELSE Printed(Kind(T, f), v[f])]
TreeFlat(marshals, T, v) == TreeBy(LAMBDA U, w : Null, marshals, T, v)
Tree(marshals, T, v) == TreeBy(LAMBDA U, w : TreeFlat(marshals, U, w), marshals, T, v)

\* NULL after bad:, which "if (!err->null)" names a failure only when there is an error
\* already: then a struct inside ends it, with its item in hand.
Refuses(marshals, T, v, m) == v = Null \/ (Failed(m) /\ Inner(marshals, T, v) # {})
MarshalMemory(marshals, T, p, v, m) ==
    IF Failed(m) /\ Refuses(marshals, T, v, m)
    THEN [Alloc(m, IF v = Null THEN {} ELSE {Append(p, "item")}) EXCEPT !.err = "marshal"]
    ELSE m

\* T_unmarshal stops at the first field that is null and ought not to be. It is called when
\* there is no error, and then sets none.
Reached(unmarshals, T, tree) ==
    LET fields == unmarshals[T]
        Stops(f) == ~IsMessage(Kind(T, f)) /\ tree[f] = Null
    IN {fields[i] : i \in {j \in DOMAIN fields : \A k \in 1 .. j - 1 : ~Stops(fields[k])}}
\* item->valueint and valuedouble, or a copy of valuestring
ReadValue(kind, x) == IF kind \in {"int32", "uint64"} /\ x > IntMax THEN IntMax ELSE x
UnmarshalBy(Sub(_, _, _), unmarshals, T, v, tree) ==
    [f \in Fields(T) |->
       IF f \notin Reached(unmarshals, T, tree) THEN v[f]
       ELSE IF IsMessage(Kind(T, f)) THEN IF tree[f] = Null THEN Null ELSE Sub(Kind(T, f), v[f], tree[f])
       ELSE IF tree[f] = Null THEN v[f] ELSE ReadValue(Kind(T, f), tree[f])]
UnmarshalFlat(unmarshals, T, v, tree) == UnmarshalBy(LAMBDA U, w, t : w, unmarshals, T, v, tree)
Unmarshal(unmarshals, T, v, tree) ==
    UnmarshalBy(LAMBDA U, w, t : UnmarshalFlat(unmarshals, U, w, t), unmarshals, T, v, tree)

\* The blocks it makes: strings, and the text of a struct inside, which is never freed.
StringsRead(unmarshals, T, p, tree) ==
    {Append(p, f) : f \in {g \in Reached(unmarshals, T, tree) : Kind(T, g) = "string" /\ tree[g] # Null}}
StructsRead(unmarshals, T, tree) ==
    {f \in Reached(unmarshals, T, tree) : IsMessage(Kind(T, f)) /\ tree[f] # Null}
UnmarshalBlocks(unmarshals, T, p, tree) ==
    StringsRead(unmarshals, T, p, tree)
    \cup UNION {{Append(p, "text")} \cup StringsRead(unmarshals, Kind(T, f), Append(p, f), tree[f])
                : f \in StructsRead(unmarshals, T, tree)}
=============================================================================
