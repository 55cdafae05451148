------------------------------ MODULE Session ------------------------------
(***************************************************************************)
(* A server process and a client process from their creation to their end: *)
(* server_create, server_listen and server_destroy, client_dial and        *)
(* client_destroy with the system calls in them that may fail, and calls   *)
(* through the generated stubs of both ends to the functions of the        *)
(* applications. What is followed is memory: who owns which block and who  *)
(* frees it. Threads are the business of Server and Client.                *)
(***************************************************************************)
EXTENDS ServerStubs, ClientStubs, Examples

CONSTANTS
  Calls,       \* [method, stub, vals, app]: app is "example" or what the application does instead
  MaxCalls,    \* bound on the calls of a client
  MaxListens,  \* bound on the calls of server_listen, and of client_dial
  Losing       \* the server may go away while a response is read

\* server_register_... by the register functions, one after the other
Services ==
    LET book == SM!register_bookMarket_service
        math == SM!register_Math_service
        string == SM!register_string_service
    IN [method \in DOMAIN book \cup DOMAIN math \cup DOMAIN string |->
          IF method \in DOMAIN book THEN book[method] ELSE IF method \in DOMAIN math THEN math[method] ELSE string[method]]
\* The names of types in the tables are strings (the provers take no literal for one).
ASSUME NamesAssumption == \A method \in DOMAIN Services : Services[method].ret \in STRING

ASSUME BoundsAssumption == MaxCalls \in Nat /\ MaxListens \in Nat

VARIABLES
  s,        \* the memory of the server; descriptors and threads are blocks too
  svr,      \* struct server: which lfd, epoll_fd and pool, and the services
  spc,      \* where the server's main is
  listens,  \* how often it called server_listen
  serr,     \* its error_t
  store,    \* book_map
  c,        \* the memory of the client, err being cli->err
  cpc,      \* where the client's main is
  dials, derr,
  call, n,  \* the call in progress and its number
  wire,     \* the request on its way
  resp,     \* the response on its way
  ran,      \* what the application was called with and returned in this call
  v         \* what the stub returned

server == <<s, svr, spc, listens, serr, store>>
client == <<c, cpc, dials, derr, call, n, v>>
vars == <<server, client, wire, resp, ran>>

None == -1
Empty == [kind |-> "none"]   \* no response yet

\* A call of a C function has arguments of the types of its parameters. An application that
\* returns NULL returns a pointer, and one that returns members that are NULL a struct.
IsArg(T, x) ==
    IF IsMessage(T) THEN x = Null \/ WellTyped(T, x, Int \cup {Nan})
    ELSE x \in Scalars(T, Int \cup {Nan})
IsCall(cl) ==
    /\ cl.stub.params \in Seq(STRING) /\ cl.stub.ret \in STRING
    /\ DOMAIN cl.vals = DOMAIN cl.stub.params
    /\ \A i \in DOMAIN cl.vals : IsArg(cl.stub.params[i], cl.vals[i])
    /\ cl.app \in {"example", "refuses", "returns NULL", "NULL members"}
    /\ cl.app = "returns NULL" /\ cl.method \in DOMAIN Services => ~IsNumber(Services[cl.method].ret)
    /\ cl.app = "NULL members" /\ cl.method \in DOMAIN Services => IsMessage(Services[cl.method].ret)
ASSUME CallsAssumption == \A k \in DOMAIN Calls : IsCall(Calls[k])

-----------------------------------------------------------------------------
(* The server *)

server_create ==
    /\ spc = "start"
    /\ spc' = "created"
    /\ s' = Alloc(s, {<<"svr">>, <<"services">>})
    /\ svr' = [lfd |-> None, epoll_fd |-> None, pool |-> Junk, services |-> <<>>]
    /\ UNCHANGED <<listens, serr, store, client, wire, resp, ran>>

\* for all the handlers of the generated register functions, before server_listen
server_register ==
    /\ spc = "created" /\ svr.services = <<>>
    /\ svr' = [svr EXCEPT !.services = Services]
    /\ UNCHANGED <<s, spc, listens, serr, store, client, wire, resp, ran>>

\* parse_addr: without a host the port is not read
Addresses == {"right", "no port", "no ip", "any ip"}
AddressError(addr) == CASE addr = "no port" -> "no port" [] addr = "no ip" -> "garbled" [] OTHER -> NoError
Addressed(addr, m) == {m} \cup (IF addr = "no ip" THEN {Fault(m, VaList)} ELSE {})

\* init: the pool, the listening socket and epoll, up to the system call that fails, "done"
\* if none does. What an earlier server_listen made is overwritten.
Fails == {"socket", "bind", "epoll_create", "epoll_ctl", "done"}
Listens(fails) == fails # "socket"
Polls(fails) == fails \in {"epoll_ctl", "done"}
Made(k, fails) ==
    {<<"pool", k>>}
    \cup (IF Listens(fails) THEN {<<"lfd", k>>} ELSE {})
    \cup (IF Polls(fails) THEN {<<"epoll_fd", k>>, <<"listener", k>>} ELSE {})
init(k, fails) ==
    /\ s' = Alloc(s, Made(k, fails))
    /\ svr' = [lfd      |-> IF Listens(fails) THEN k ELSE svr.lfd,
               epoll_fd |-> IF Polls(fails) THEN k ELSE svr.epoll_fd,
               pool     |-> k,
               services |-> svr.services]
    /\ serr' = IF fails = "done" THEN NoError ELSE "errno"
    /\ spc' = IF fails = "done" THEN "listening" ELSE "stopped"

\* server_listen up to its loop, with an error_t that may still hold an error
server_listen(addr, fresh, fails) ==
    LET err == IF AddressError(addr) # NoError THEN AddressError(addr) ELSE IF fresh THEN NoError ELSE serr IN
    /\ spc \in {"created", "stopped"} /\ s.fault = "none"
    /\ listens < MaxListens
    /\ listens' = listens + 1
    /\ IF err # NoError
       THEN serr' = err /\ spc' = "stopped" /\ s' \in Addressed(addr, s) /\ UNCHANGED svr
       ELSE init(listens + 1, fails)
    /\ UNCHANGED <<store, client, wire, resp, ran>>

\* epoll_wait fails and server_listen returns, unless errorf is the end
EpollFails ==
    /\ spc = "listening" /\ s.fault = "none"
    /\ spc' = "stopped"
    /\ serr' = "garbled"
    /\ s' \in {s, Fault(s, VaList)}
    /\ UNCHANGED <<svr, listens, store, client, wire, resp, ran>>

\* Mutant of Closed: the descriptor of epoll is left open.
ClosedButEpoll == {<<"lfd", svr.lfd>>, <<"pool", svr.pool>>, <<"services">>, <<"svr">>}
\* close unless -1, pool_destory, hashmap_destroy and free
Closed == {<<"lfd", svr.lfd>>, <<"epoll_fd", svr.epoll_fd>>, <<"pool", svr.pool>>, <<"services">>, <<"svr">>}

server_destroy ==
    /\ spc \in {"created", "stopped"} /\ s.fault = "none"
    /\ spc' = "destroyed"
    /\ s' = IF svr.pool = Junk THEN Fault(s, "use of a pool never made")
            ELSE [s EXCEPT !.heap = @ \ Closed]
    /\ UNCHANGED <<svr, listens, serr, store, client, wire, resp, ran>>

\* main returns, after server_destroy or at once after an error
ServerExit ==
    /\ spc \in {"stopped", "destroyed"} /\ s.fault = "none"
    /\ spc' = "exited"
    /\ UNCHANGED <<s, svr, listens, serr, store, client, wire, resp, ran>>

ServerGone == spc = "exited" \/ s.fault # "none"

\* What the application comes to when a handler calls it with vals
Outcomes(h, vals, m) ==
    CASE call.app = "example" -> App(call.method, vals, n, m, store)
      [] call.app = "refuses" -> Out(Null, [m EXCEPT !.err = "refused"], store)
      [] call.app = "returns NULL" -> Out(Null, m, store)
      [] call.app = "NULL members" ->
           Out([f \in Fields(h.ret) |-> IF IsNumber(Kind(h.ret, f)) THEN 0 ELSE Null], Alloc(m, {ResAt(n)}), store)

\* parse_request and the handler: what is sent, and what they leave
Handled(h) ==
    LET m == Alloc(s, RequestBlocks(n, wire))
        vals == ReadArgs(h, wire)
    IN IF Accepts(h, wire)
       THEN {Finish(n, h, vals, o) : o \in Outcomes(h, vals, Alloc(m, ArgBlocks(n, h, wire)))}
       ELSE Refuse(store, m)

\* One request in cfd_callback. A service that is not registered closes the connection.
Serve ==
    /\ wire # Null /\ spc = "listening" /\ ~ServerGone
    /\ wire' = Null
    /\ IF call.method \notin DOMAIN svr.services
       THEN /\ resp' = [kind |-> "closed"]
            /\ s' = [s EXCEPT !.heap = @ \ {<<"conn">>}]
            /\ UNCHANGED <<store, ran>>
       ELSE \E o \in Handled(svr.services[call.method]) :
            /\ s' = o.m
            /\ store' = o.store
            /\ resp' = IF o.m.fault # "none" THEN [kind |-> "closed"] ELSE o.resp
            /\ ran' = o.ran
    /\ UNCHANGED <<svr, spc, listens, serr, client>>

-----------------------------------------------------------------------------
(* The client *)

\* bad: conn_destroy and free
DialBad == {<<"cli">>, <<"conn">>}

\* client_dial with the call that fails, if any, and an error_t that may still hold an error
client_dial(addr, fresh, fails) ==
    LET err == IF AddressError(addr) # NoError THEN AddressError(addr) ELSE IF fresh THEN NoError ELSE derr
        connects == addr = "right" /\ spc = "listening" /\ ~ServerGone
    IN
    /\ cpc \in {"start", "undialled"} /\ c.fault = "none"
    /\ dials < MaxListens
    /\ dials' = dials + 1
    /\ IF err = NoError /\ connects /\ fails = "none"
       THEN /\ derr' = NoError
            /\ cpc' = "idle"
            /\ c' = Alloc(c, {<<"cli">>, <<"conn">>})
            /\ s' = Alloc(s, {<<"conn">>})
       ELSE /\ derr' = IF err = NoError THEN "errno" ELSE err
            /\ cpc' = "undialled"
            /\ c' \in Addressed(addr, [c EXCEPT !.heap =
                     (@ \cup {<<"cli">>} \cup IF fails = "write" /\ err = NoError THEN {<<"conn">>} ELSE {}) \ DialBad])
            /\ UNCHANGED s
    /\ UNCHANGED <<svr, spc, listens, serr, store, call, n, v, wire, resp, ran>>

\* A stub up to the read of the response. client_call sends nothing when there is an error.
Begin(k) ==
    /\ cpc = "idle" /\ c.fault = "none"
    /\ n < MaxCalls
    /\ n' = n + 1
    /\ call' = Calls[k]
    /\ ran' = <<>>
    /\ LET f == Calls[k].stub IN
       /\ c' = WriteArgs(n + 1, f, Calls[k].vals, c)
       /\ IF ReturnsEarly(f, c)
          THEN cpc' = "returned" /\ v' = Nothing(f.ret) /\ UNCHANGED <<wire, resp>>
          ELSE /\ cpc' = "sent"
               /\ wire' = IF Failed(c) \/ c'.fault # "none" THEN Null ELSE ArgsOf(f, Calls[k].vals)
               /\ resp' = IF Failed(c) THEN [kind |-> "unsent"] ELSE Empty
               /\ UNCHANGED v
    /\ UNCHANGED <<server, dials, derr>>

\* The server process is gone, or has closed the connection.
NoAnswer == resp.kind = "closed" \/ (resp.kind = "none" /\ ServerGone)

\* The rest of the stub. A response may be lost from any byte on.
Return(cut) ==
    /\ cpc = "sent" /\ c.fault = "none"
    /\ resp.kind # "none" \/ NoAnswer
    /\ cut # "whole" => NoAnswer \/ (Losing /\ resp.kind # "unsent")
    /\ NoAnswer => cut = "head"
    /\ LET r == IF resp.kind = "unsent" THEN [type_name |-> Null, data |-> Null, m |-> c]
                ELSE ReadResponse(n, resp, cut, c) IN
       /\ c' \in StubOutcomes(n, call.stub, r)
       /\ v' = ResultOf(call.stub, r)
    /\ cpc' = "returned"
    /\ wire' = Null
    /\ resp' = Empty
    /\ UNCHANGED <<server, dials, derr, call, n, ran>>

\* The caller is done with the result.
Delete ==
    /\ cpc = "returned" /\ c.fault = "none"
    /\ c' = DeleteResult(n, call.stub, v, c)
    /\ v' = Null
    /\ cpc' = "idle"
    /\ UNCHANGED <<server, dials, derr, call, n, wire, resp, ran>>

\* client_destroy. The server notices when it listens.
client_destroy ==
    /\ cpc = "idle" /\ c.fault = "none"
    /\ cpc' = "destroyed"
    /\ c' = [c EXCEPT !.heap = @ \ {<<"cli">>, <<"conn">>}]
    /\ s' = IF spc = "listening" /\ ~ServerGone THEN [s EXCEPT !.heap = @ \ {<<"conn">>}] ELSE s
    /\ UNCHANGED <<svr, spc, listens, serr, store, dials, derr, call, n, v, wire, resp, ran>>

-----------------------------------------------------------------------------

Init ==
    /\ s = Memory({}) /\ spc = "start" /\ listens = 0 /\ serr = NoError
    /\ svr = [lfd |-> None, epoll_fd |-> None, pool |-> Junk, services |-> <<>>]
    /\ store = <<>>
    /\ c = Memory({}) /\ cpc = "start" /\ dials = 0 /\ derr = NoError
    /\ call = Null /\ n = 0 /\ v = Null
    /\ wire = Null /\ resp = Empty /\ ran = <<>>

Next ==
    \/ server_create \/ server_register \/ EpollFails \/ server_destroy \/ ServerExit \/ Serve
    \/ \E addr \in Addresses, fresh \in BOOLEAN :
         \/ \E fails \in Fails : server_listen(addr, fresh, fails)
         \/ \E fails \in {"none", "socket", "write"} : client_dial(addr, fresh, fails)
    \/ \E k \in DOMAIN Calls : Begin(k)
    \/ \E cut \in Cuts : Return(cut)
    \/ Delete \/ client_destroy

Spec == Init /\ [][Next]_vars

-----------------------------------------------------------------------------
(* Properties *)

Live(part) == svr[part] \notin {None, Junk} /\ <<part, svr[part]>> \in s.heap

\* A server that listens has its sockets and its pool; every state is one of the program.
TypeOK ==
    /\ spc \in {"start", "created", "listening", "stopped", "destroyed", "exited"}
    /\ cpc \in {"start", "undialled", "idle", "sent", "returned", "destroyed"}
    /\ listens \in 0 .. MaxListens /\ dials \in 0 .. MaxListens /\ n \in 0 .. MaxCalls
    /\ spc = "listening" => Live("lfd") /\ Live("epoll_fd") /\ Live("pool")

Has(kind) == {i \in DOMAIN call.vals : call.stub.params[i] = kind}

\* The calls the generated code and the examples have no answer to.
EmptyString == \E i \in Has("string") : call.vals[i] \in {Null, Blank}
NullStruct == \E i \in UNION {Has(T) : T \in DOMAIN Structs} : call.vals[i] = Null
NoPrice == \/ \E i \in Has("Book") : call.vals[i] # Null /\ call.vals[i].price = Null
           \/ call.app = "NULL members" /\ Services[call.method].ret = "Book"
NullResult == call.app = "returns NULL" /\ IsMessage(Services[call.method].ret)
NoResult == call.stub.ret # "void" /\ Services[call.method].ret = "void"
OtherResult == call.stub.ret # Services[call.method].ret
OtherParams == call.stub.params # Services[call.method].params
Example(those) == call.app = "example" /\ call.method \in those

\* What a call may do to the server that C does not define.
CallFault(what) ==
    \/ what = "strlen of NULL" /\ (NullResult \/ (EmptyString /\ Example({"toupper", "tolower", "concat"})))
    \/ what = "sscanf of NULL" /\ EmptyString /\ Example({"atoi"})
    \/ what = "hash of NULL" /\ EmptyString /\ Example({"getBook", "updateBookPrice"})
    \/ what = "read of a NULL struct" /\ NoPrice
    \/ what = "division by zero" /\ Example({"Divide"}) /\ call.vals[2] = 0
    \/ what = "read past a block" /\ ~EmptyString /\ Example({"concat"})
    \/ what = VaList /\ (OtherParams \/ (Example({"getBook"}) /\ call.vals[1] \notin DOMAIN store))

\* Neither process is ended by something C does not define, whatever fails and in whatever
\* order they are set up and taken down, except by what the README lists: the server by an
\* argument that is NULL or empty where its function uses it, a struct without its price, a
\* result that is NULL, a division by zero, the unterminated result of string_concat, errorf,
\* and server_destroy of a server that made no pool; the client by a struct that is NULL,
\* errorf, a response without the result its stub expects, and one that breaks off behind
\* its head.
OnlyKnownFaults ==
    [][/\ s'.fault # s.fault =>
             \/ s'.fault = "use of a pool never made" /\ svr.pool = Junk /\ spc' = "destroyed"
             \/ s'.fault = VaList /\ spc' = "stopped" /\ serr' = "garbled"
             \/ wire # Null /\ CallFault(s'.fault)
       /\ c'.fault # c.fault =>
             CASE c'.fault = "strlen of NULL" -> NullStruct'
               [] c'.fault = "strcmp of NULL" -> NoResult
               [] c'.fault = VaList -> cpc' = "undialled" \/ OtherResult
               [] c'.fault = "free of a freed block" -> resp.kind = "value" /\ (Return("type_name") \/ Return("data"))
               [] OTHER -> FALSE]_vars

\* What a value is after a marshal and an unmarshal: a NULL string is empty, integers
\* saturate at INT_MAX, and what is not finite leaves the field as it was.
SentBy(Sub(_, _), T, x) ==
    IF x = Null THEN Null
    ELSE [f \in Fields(T) |->
            CASE Kind(T, f) = "string" -> IF x[f] = Null THEN Blank ELSE x[f]
              [] Kind(T, f) = "float" -> IF x[f] = Nan THEN Junk ELSE x[f]
              [] Kind(T, f) \in {"int32", "uint64"} -> IF x[f] > IntMax THEN IntMax ELSE x[f]
              [] OTHER -> Sub(Kind(T, f), x[f])]
SentFlat(T, x) == SentBy(LAMBDA U, w : w, T, x)
Sent(T, x) == SentBy(SentFlat, T, x)

\* The application is called with what the caller passed: through T_marshal of the client,
\* the request and T_unmarshal of the server, for every struct of the examples.
ArgsArrive ==
    ran # <<>> => \A i \in DOMAIN call.vals :
        LET T == call.stub.params[i] IN
        ran[1].vals[i] = IF IsMessage(T) THEN Sent(T, call.vals[i])
                         ELSE IF T = "string" /\ call.vals[i] \in {Null, Blank} THEN Null ELSE call.vals[i]

\* A stub that returns without an error returns what the application returned to this very
\* call, and never what an older one left.
ResultArrives ==
    cpc = "returned" /\ ~Failed(c) /\ c.fault = "none" =>
        /\ ran # <<>>
        /\ LET T == call.stub.ret
               res == ran[1].res
           IN v = CASE IsMessage(T) -> Sent(T, res)
                    [] T = "string" /\ res = Null -> Blank
                    [] T = "void" -> Null
                    [] OTHER -> res

\* Values arrive on both ways.
ValuesArrive == ArgsArrive /\ ResultArrives

\* README: once the application has set an error, its result is not sent, the error is: the
\* caller has the error of the application, unless the response is lost or the server ended
\* by what it does after the call. A stub of a client that failed returns nothing that would
\* have to be freed.
ErrorsArrive ==
    cpc = "returned" =>
        /\ ran # <<>> /\ ran[1].err # NoError =>
              c.err = ran[1].err \/ (c.err = "errno" /\ (Losing \/ s.fault # "none"))
        /\ Failed(c) => v = Nothing(call.stub.ret)

\* A request of a client made from another version of the interface does not reach the
\* application.
OnlyMatchingRun == ran # <<>> => call.stub.params = Services[call.method].params

\* Between two calls the client keeps nothing but what its stubs are known to lose: the
\* array of the arguments and the texts of structs, and after an error the trees.
EndsWith(p, what) == p[3] \in {"arg", "res", "map"} /\ p[Len(p)] = what
ClientLoses(p) ==
    \/ p[3] \in {"args", "text"}
    \/ EndsWith(p, "text")
    \/ Failed(c) /\ (p[3] = "node" \/ EndsWith(p, "item"))
\* The server keeps type names and data of arguments (see Request), texts of structs, and
\* the name of a book that was replaced.
ServerLoses(p) ==
    \/ p[3] \in {"type_name", "data", "text"}
    \/ EndsWith(p, "text")
    \/ p[3] = "map" /\ EndsWith(p, "name")
OfMap(name) == {store[name].at} \cup Blocks(Pointers, "Book", store[name].at, store[name].book)
OnlyKnownLeaks ==
    /\ cpc = "idle" => \A p \in c.heap \ {<<"cli">>, <<"conn">>} : ClientLoses(p)
    /\ s.fault = "none" =>
         \A p \in s.heap : p[1] = "call" => ServerLoses(p) \/ \E name \in DOMAIN store : p \in OfMap(name)

\* README: what a handler stores is cloned. Every block book_map refers to is allocated, and
\* no two books share one.
StoreOwned ==
    s.fault = "none" =>
        /\ \A name \in DOMAIN store : OfMap(name) \subseteq s.heap
        /\ \A x, y \in DOMAIN store : x # y => OfMap(x) \cap OfMap(y) = {}

\* Every block has one owner, which frees it, on both ends.
MemoryOwned == OnlyKnownLeaks /\ StoreOwned

\* A server that called server_listen once has nothing left after server_destroy, however
\* far server_listen came, but the context of the listening socket and its connections.
DestroyReleases ==
    spc = "destroyed" /\ s.fault = "none" /\ listens <= 1 =>
        \A p \in s.heap : p[1] \notin {"svr", "services", "lfd", "epoll_fd", "pool"}

\* client_dial that fails keeps nothing.
DialReleases == cpc = "undialled" => c.heap = {}

\* Server and client have what they need while they run, and nothing when they are done.
LifecycleRight == TypeOK /\ DestroyReleases /\ DialReleases

\* README: members of a result may be NULL.
NullMembersWork ==
    ran # <<>> /\ call.app = "NULL members" => s.fault # "read of a NULL struct"
=============================================================================
