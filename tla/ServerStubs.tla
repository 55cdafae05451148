---------------------------- MODULE ServerStubs ----------------------------
(***************************************************************************)
(* What the generated handlers do with a request around the call of the    *)
(* application, with request.c, build_resp and send_response where blocks  *)
(* are at stake. id is the number of the call, h the row of the handler.   *)
(***************************************************************************)
EXTENDS Stub

SM == INSTANCE ServerMessages

Size(kind) == IF kind = "uint64" THEN 8 ELSE 4
Structured(h) == {i \in DOMAIN h.params : IsMessage(h.params[i])}

\* parse_args: data of no bytes is no block but NULL
IsEmpty(arg) == arg.type = "string" /\ arg.data = Blank
RequestBlocks(id, args) ==
    {<<"call", id, "type_name", i>> : i \in DOMAIN args}
    \cup {<<"call", id, "data", i>> : i \in {j \in DOMAIN args : ~IsEmpty(args[j])}}
DataOf(arg) == IF IsEmpty(arg) THEN Null ELSE arg.data

\* Mutant of Accepts: the type of an argument is not looked at.
AcceptsAnyType(h, args) == Len(args) = Len(h.params)

\* CHECK_ARG_CNT, CHECK_ARG_TYPE, CHECK_ARG_SIZE
Accepts(h, args) ==
    /\ Len(args) = Len(h.params)
    /\ \A i \in DOMAIN args :
         /\ args[i].type = h.params[i]
         /\ IsNumber(h.params[i]) => args[i].size = Size(h.params[i])

\* A handler up to its call of the application: T_init of every struct, then T_unmarshal.
\* These are the values the application is called with, and the memory then.
ValueRead(T, arg) ==
    IF IsMessage(T) THEN Unmarshal(SM!unmarshals, T, InitValue(SM!inits, T), arg.data) ELSE DataOf(arg)
ReadArgs(h, args) == [i \in DOMAIN args |-> ValueRead(h.params[i], args[i])]
ArgBlocks(id, h, args) ==
    UNION {InitBlocks(SM!inits, h.params[i], ArgAt(id, i))
           \cup UnmarshalBlocks(SM!unmarshals, h.params[i], ArgAt(id, i), args[i].data) : i \in Structured(h)}

\* error: an error is sent from where it is, which is not freed. nothing: TYPE_NORTN
ErrorResponse(msg) == [kind |-> "error", type |-> Blank, data |-> msg]
Response(ret, data) ==
    [kind |-> IF ret = "void" THEN "nothing" ELSE "value", type |-> IF ret = "void" THEN Blank ELSE ret, data |-> data]
ResponseBlocks(id) == {<<"call", id, "resp", "type_name">>, <<"call", id, "resp", "data">>}

\* What a handler makes of the result res of the application: its struct is filled in
\* T_marshal, with blocks of their own for the strings.
ResultFilled(h, res) == IF IsMessage(h.ret) /\ res # Null THEN Filled(SM!marshals, h.ret, res) ELSE res
ResultData(h, res) ==
    IF IsMessage(h.ret) THEN IF res = Null THEN Null ELSE Tree(SM!marshals, h.ret, ResultFilled(h, res))
    ELSE IF h.ret = "string" /\ res = Null THEN Blank ELSE res
ResultMemory(id, h, res, m) ==
    IF ~IsMessage(h.ret) THEN m
    ELSE IF res = Null THEN Fault(m, "strlen of NULL")
    ELSE Alloc(m, {<<"call", id, "text">>} \cup (Blocks(Pointers, h.ret, ResAt(id), ResultFilled(h, res))
                                                  \ Blocks(Pointers, h.ret, ResAt(id), res)))

\* Mutant of WriteResult: the error of the application is not looked at.
WriteResultAnyway(id, h, res, m) ==
    [resp |-> Response(h.ret, ResultData(h, res)), res |-> ResultFilled(h, res),
     m |-> Alloc(ResultMemory(id, h, res, m), ResponseBlocks(id))]

\* build_resp copies type name and data to blocks
WriteResult(id, h, res, m) ==
    IF Failed(m) THEN [resp |-> ErrorResponse(m.err), res |-> res, m |-> m]
    ELSE [resp |-> Response(h.ret, ResultData(h, res)), res |-> ResultFilled(h, res),
          m |-> Alloc(ResultMemory(id, h, res, m), ResponseBlocks(id))]

\* end: the structs of the arguments and the result of the application
CleanUp(id, h, vals, res, m) ==
    LET args == UNION {Destroyed(SM!destroys, h.params[i], ArgAt(id, i), vals[i]) : i \in Structured(h)}
        null == \E i \in Structured(h) : ReadsNull(SM!destroys, h.params[i], vals[i])
        n == FreeAll(FaultIf(null, m, "read of a NULL struct"), args)
    IN IF IsNumber(h.ret) \/ h.ret = "void" \/ res = Null THEN n
       ELSE FreeAll(IF IsMessage(h.ret) THEN Destroy(SM!destroys, h.ret, ResAt(id), res, n) ELSE n, {ResAt(id)})

\* send_response and argument_destroy: an error that was sent is none any more
SendResponse(id, resp, m) == IF resp.kind = "error" THEN [m EXCEPT !.err = NoError] ELSE FreeAll(m, ResponseBlocks(id))

\* The rest of cfd_callback after the checks: they fail, or the application has come to the
\* outcome o, [res, m, store], when called with vals. ran says so.
Refuse(store, m) ==
    {[resp |-> ErrorResponse("garbled"), m |-> [e EXCEPT !.err = NoError], store |-> store, ran |-> <<>>] : e \in errorf(m)}
Finish(id, h, vals, o) ==
    LET w == WriteResult(id, h, o.res, o.m) IN
    [resp |-> w.resp, store |-> o.store, m |-> SendResponse(id, w.resp, CleanUp(id, h, vals, w.res, w.m)),
     ran |-> <<[vals |-> vals, res |-> o.res, err |-> o.m.err]>>]
=============================================================================
