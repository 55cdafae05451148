# rpch-c: specification, model checking and proofs

rpch-c is an RPC framework in C: an epoll reactor hands readable connections to a pool of
threads, which parse requests, call the handlers an application registered and write the
responses; clients share a connection between threads and call through generated stubs, which
turn structs into JSON with a copy of cJSON. This directory models all of it in TLA+, down to
the generated code and cJSON. Line numbers below are those of the files in `src/`.

## 1. The system

| Part | State | Operations | Talks to |
|---|---|---|---|
| thread pool, `threadpool.c` | ring of tasks, mutex, two condition variables, `destroyed` | `pool_init`, `pool_put`, `worker`, `pool_destory` | reactor puts, workers call callbacks |
| reactor, `server.c` | `lfd`, `epoll_fd`, batch of events, services | `server_create`, `server_register`, `server_listen`, `server_destroy` | epoll, pool |
| connections, `server.c`, `evctx.h` | `struct evctx`: descriptor, buffer, request, error | `lfd_callback`, `cfd_callback`, `reset_oneshot`, `send_response` | epoll, kernel descriptors, request parser, handlers |
| buffer, `buffer.c`, `conn.c` | read block with `front`, `rear`, `len`; `wbuf` | `buffer_fill/copy/drop/write/flush` | read, write |
| request parser, `request.c` | state, line, arguments read so far | `read_request`, `request_set_init_state`, `request_destroy` | buffer |
| client, `client.c` | `seq`, `seq_lock`, sticky `err`, write buffer | `client_dial`, `client_call`, `client_destroy` | server, stubs |
| argument, `argument.h` | blocks of a type name and of data | `argument_init`, `argument_destroy` | parser, stubs, `send_response` |
| hash map, `hashmap.c` | buckets, `len` | init, set, get, del, destroy | server (`services`), the book example |
| error, addr: `error.h`, `addr.c` | a flag and a message; none | `errorf`, `parse_addr` | all |
| generated stubs, `examples/*/*.rpch.*.c` | none | per struct: init, destroy, delete, clone, marshal, unmarshal; per method: handler and client stub | client, server, cJSON, application |
| examples, `examples/*/server/main.c` | `book_map` | twelve functions | stubs, hash map |
| cJSON, `cJSON.c` | blocks linked by `child`, `next`, `prev`; the printer's and parser's buffers | create, add, insert, detach, replace, delete, get, print, parse, duplicate, compare, minify | stubs |

What is hard:

- *Concurrency.* Workers, the reactor and the thread that calls `server_destroy` share
  contexts, descriptors and the epoll instance without a lock. Exclusion rests on
  `EPOLLONESHOT` alone: whoever was given the event owns the context until it rearms it, and
  it must not touch it afterwards.
- *Reuse.* The kernel hands out closed descriptor numbers again at once, and other workers
  are accepting.
- *Wakeups.* Two condition variables, signals sent after unlock, `destroyed` written with no
  lock at all.
- *Framing.* TCP cuts requests anywhere. epoll reports new bytes only, so a callback must not
  leave a whole request behind.
- *Failure.* Peers close or reset at any moment, `accept` runs out of descriptors, `epoll_wait`
  fails, a call fails half way with bytes pending, any system call of the set-up fails and the
  caller tries again.
- *Ownership.* Arguments, results, trees and texts pass between stub, library and application, each
  with its own idea of who frees what, and every step can fail with blocks in hand.
- *Links.* cJSON keeps lists that are circular in one direction only; every edit at an end of a
  list has to repair a link at the other.
- *Limits.* A full queue, a full read buffer, a piece that does not fit into the write buffer, a
  printer's buffer that may not grow, a text that ends anywhere, numbers beyond `INT_MAX`.

`PROJECT.json` lists every such place ("hazards") with its line and the properties that cover it.

## 2. Modules

| Module | Models | Kind |
|---|---|---|
| `TaskQueue` | what the pool promises: a bounded FIFO, each task taken once | abstract specification |
| `ThreadPool` | `threadpool.c`, one action for each stretch between lock operations | state machine |
| `Server` | reactor, both callbacks, epoll, descriptors, clients; uses `TaskQueue` | state machine |
| `Buffer` | `buffer_t` as a record with its operations | operators |
| `Request` | `cfd_callback` on one connection: `buffer_fill` and `read_request` byte by byte | state machine |
| `RpcService` | what a shared client promises: calls handled in order, at most once, each with its own result or an error | abstract specification |
| `Client` | `client_call` of several threads, `buffer_write/flush`, `send_response`, the stub's check | state machine |
| `Map`, `HashMap` | the map's promise; `hashmap.c` | abstract and detailed |
| `ServerMessages`, `ClientMessages` | the generated functions of each end as a table: which fields of a message each handles, in the order of the code where it stops half way; which types a handler checks and a stub names | operators |
| `Stub` | what the generator writes around these fields, on the memory of a process | operators |
| `ServerStubs`, `ClientStubs` | handlers with the parts of `request.c` and `server.c` that own blocks; client stubs with `read_response` | operators |
| `Examples` | the twelve server functions of `examples/` | operators |
| `Session` | a server process and a client process from creation to end, with every failing call of the set-up, calls through both stubs; composes the six above | state machine |
| `ItemList` | the items of cJSON and their links under every call that edits them | state machine |
| `CJson` | printer, parser, duplicate, compare, minify, lookup | operators |
| `CJsonUse` | a program that builds any tree and prints, parses, damages and copies it; composes the two | state machine |
| `DataLemmas` | least numbers, flattened sequences and the places of their parts, prefixes | lemmas |
| `ThreadPoolProofs`, `ServerProofs`, `RequestProofs`, `ClientProofs`, `HashMapProofs`, `ItemListProofs`, `SessionProofs` | theorems | proofs |
| `MC...` | instances for TLC | |

How they fit: `ThreadPool` implements `TaskQueue` (checked and proved), and `Server` takes
`TaskQueue` for its pool, so that its runs need not repeat mutex and condition variables.
`Server` shows that one worker at a time has a connection; `Request` therefore models one
connection with one callback at a time, and looks at bytes, which are chunks in `Server`.
`Buffer` is used by `Request` (read side) and by `Client` (write side, on both ends).
`Client` implements `RpcService`: a call gets its own response whole or fails; `Session` takes a call as two
steps, `Begin` and `Return`, and looks at what is in them and at who owns it. `CJsonUse` shows that
a tree that is printed is read back as `Read` says; `Session` takes the tree itself for the text, with
what `Read` says of numbers and missing names.

### State and code

**ThreadPool.** `pc` says where a thread is: `lock` (wants the mutex), `check` (evaluates the
`while` condition), `wait` (found it true, has not yet called `pthread_cond_wait`), asleep,
`test` (after the loop), `signal` (unlocked, about to signal), `run`. `destroyed` is written by
`DestroySet` without the mutex, between any two of these. Spurious wakeups happen at will.

**Server.** A context is named by the connection it was built for. Each connection has
`peer`, `inbox` and `replies` on the wire, `fd`, `buff`, `req`, `magic_read` in its context,
and `heap` says whether the context is allocated, so that an access to a freed one is visible.
`fds` are the kernel's descriptors, `interest` and `armed` the epoll registrations. `wpc` is
the point of a worker inside a callback: one action for each system call or access to shared
state. The parser's part is `NotReady`, `ReadMagic`, `ReadRequestLine`, `ReadArgs`, `Respond`.
After `epoll_wait` has failed the reactor's thread runs `server_destroy`; `DestroyPool` is the
pool's `Close`, and the race inside `pool_destory` is the business of `ThreadPool`.

**Request.** `stream` holds the bytes of a client, each known by its place, `sent` and `got`
count those written and read. `b` is the read buffer, with its block of `Cap` bytes including
stale ones, so that a parser that reads the wrong place gets wrong bytes. `pc` walks through
one `cfd_callback`; `idle` is between two. Whether a line is well formed and what service it
names is part of the message: how `sscanf` takes it apart is not modelled.

**Client.** `wbuf`, `err`, `seq` and the mutex are shared; each thread walks through
`client_call` and then through the stub's unlocked look at `err` (`Check`). A request is written
in pieces, one per `buffer_write`. `Serve` and `ResponseWrites` are the server as its client
sees it, with the real order of writes of `send_response`; `handled` records the calls whose
handlers have run.

**HashMap.** Lists in an array that doubles at three quarters, in the order the code leaves
nodes in. Values are blocks, owned by the map from set to `del_value`.

**Session.** The memory of a process is a record: the set of allocated blocks, each named by the
path through which the code reaches it, the first undefined thing it did (`fault`), and the error
at hand. Descriptors and the pool are blocks too, so that `Closed` and `Made` tell what is left over.
`svr.pool` is `Junk` until `init` has run, as in the code. A path names the call that made a block
and then what it is, `<<"call", 2, "arg", 1, "price", "unit">>` the unit of the price of the first
argument of the second call. A row of `SM!destroys` or `CM!marshals` is what the function of one
message does to its fields, and the operators of `Stub` take such a table: `Destroy(SM!destroys, "Book", ...)`
is `Book_destroy` of the server. Structs nest once in the three interfaces; the operators `...By` take what is
done with the inner one as an argument, so that none of them is recursive and all can be reasoned about.
`Serve` is the whole of `cfd_callback` for a request: checks, reading of the arguments, application,
result, clean-up, response; `Begin` and `Return` are a stub before and after its wait for the response.

**ItemList and CJson.** `h` holds the three pointers of each block and `kids` the sequences a
caller has in mind, which no action reads except to name the item it edits. The printer is a record
with the text so far, the length of its block, how many allocations still succeed, and
whether it wrote outside; the parser has an offset, the blocks it holds and the same.
Every length and offset is compared as the code compares it.

## 3. Runs

Deadlock is not checked in any run: every system here may stop (a pool destroyed, a server
returned, clients that have said all they had to say). Liveness properties say what must not stop.

| Run | Instance | Shows |
|---|---|---|
| `pool_all` | 3 workers, the reactor, queue of 2 | the ring stays a queue and what a thread tested still holds when it acts (`RingSafe`), no lost wakeup on either condition variable, refinement of `TaskQueue`; every task is taken, every put returns, destroy returns outside the race below |
| `pool_destroy` | 2 workers | **violation**: `pool_destory` may never return |
| `server_safety` | 2 connections, 2 workers, 1 descriptor, queue of 1, 2 pipelined requests, the second with a large response, events without `EPOLLIN`, `epoll_wait` may fail | one holder per context, no use after free, descriptors stay one's own, no blocking call, responses in the order of requests and once each, a well-behaved client is hung up on after a response that went past `wbuf` and in no other case |
| `server_live` | 2 connections, 2 workers, 2 descriptors, 3 pipelined requests, the last with a large response | no event is lost; every connection is accepted and each request answered although callbacks stop anywhere between the chunks of the three (`EveryoneServed`); after the large response the connection is given up; every descriptor of a closed peer is closed |
| `request_parsing` | 64 pairs of messages, acceptable or not, with responses that fit into `wbuf` or not, right or wrong magic number, resets, buffer of 4 bytes | bytes are neither lost nor parsed twice (`BufferRight`), handlers get what was sent, no hang-up and no complete request left unhandled before a response that does not fit |
| `request_blocks` | pairs of acceptable messages | **violation**: data of arguments is never freed |
| `client_calls` | 2 threads with 7 calls of every kind, write buffers of 4 bytes, the server may die | requests never mix, each call gets its own answer or fails, nothing is left for the next call, calls that fit succeed, every call returns; refinement of `RpcService`: no call is handled twice, none out of order, none after its caller was told that it failed |
| `client_big` | 1 thread, 2 calls | **violation**: a call fails although the server lives and handles it |
| `hashmap_safety` | 4 keys with colliding hashes, 5 values, 2 to 8 buckets | nodes are where they are looked for, the map is a partial function, values are released once |
| `session` | any 2 of 35 calls, `server_listen` and `client_dial` twice with any address and any failing system call, the response may break off | arguments and results arrive (`ValuesArrive`), errors instead of results, only matching stubs reach the application, every block has one owner, sockets, pool and services of a server that listened once are released, and what C does not define ends a process in the cases of section 5 only, each by its own step |
| `session_members` | 13 calls, one whose result has NULL members | **violation**: a result README.md:140 allows is sent and then ends the server, which reads through the NULL member to free it |
| `cjson` | up to 4 items, every printer with every buffer size, allocations that fail, texts cut at and damaged in every byte | see below |

The invariants of `cjson`: `LinksRight` (pointers are the caller's lists, whatever was called
before), `TextKeepsTree` (printed, minified, read back, a tree is the same), `ParserStrict` (cut
texts are refused, what is accepted is stable under printing, but that a number past the range of a double becomes null), `NothingLost` (a failed parse or copy
has freed what it made), `RoomRight` (no access outside a buffer or text, and room that is there
is used), `AccessRight` (lookup, duplicate and compare agree with the tree).

A property that is a conjunction has its parts as definitions above it, each with its comment.

### Bounds and why they suffice

- *Pool.* Three workers so that two sleep while one runs, capacity two so that the ring wraps and is
  neither only empty nor only full, one putter because only the reactor puts. The theorems hold
  for every number of threads and every capacity.
- *Server.* One descriptor for two connections forces reuse of the number, and makes `accept`
  fail while it is taken; the live run has two, so that both connections are served at once. A
  queue of one makes the reactor block in `pool_put`. The honest client sends two requests (three
  in the live run), the other one chunk of any kind, and both may close or reset at any moment.
  `Large` says which responses go past `wbuf`: the last one of the honest client, so that those before it are
  answered as if there was none and the connection is given up behind it. The theorems hold for any `Large`.
  Workers are interchangeable (`Symmetry`), except in the live run, which uses no symmetry.
  Safety is proved for any number of each.
- *Request.* Lines and data of 1 to 5 bytes against a buffer of 4: below, exactly at and above
  the capacity, with and without arguments, two in a row so that the second starts anywhere in
  the block. A response that does not fit into `wbuf` comes first or second. Heads have 2 bytes instead of 8 and the magic number 2 instead of 4: enough to be cut.
- *Client.* Pieces that fit, that fill the buffer exactly, that overflow it in the middle and at
  the end; every kind of response. Each thread makes at most four calls.
- *HashMap.* `MaxBuckets` 8 lets the map grow twice, with keys that part ways at each growth.
- *Session.* All calls of the example clients, and each kind of edge: NULL and empty strings, NULL
  structs and members, numbers beyond `IntMax` (7) and beyond 32 bits (`U32` is 16), a division by
  zero, an application that refuses or returns NULL, stubs of another version, an unknown
  method. Two calls in a row, since what one call leaves behind (a stored book, a sticky
  error) is met by the next; two calls of `server_listen` for the same reason.
- *cJSON.* Four blocks hold a list of three under a parent, where first, middle and last
  differ, or nesting to depth 3 against a `NestingLimit` of 2. `MaxWeight` and `SmallWeight` keep trees
  with texts, cuts and damage smaller: a number or string counts twice. `DefaultSize` 4 makes
  most texts grow the buffer and `IntMax` 40 lets growth reach its limit. Other texts hold what
  the printer does not write: escapes, a BOM, exponents, fractions, numbers too large and too small, and one a byte
  longer than the 63 (`NumberSize`) the parser looks at. Blocks are
  interchangeable (`Sym`). The links are proved for any set of blocks.

### Fairness

- `ThreadPool`: each worker, each put in progress and a destroy in progress take steps (WF): these are
  runnable threads. Taking the mutex has SF, as spurious wakeups may contend for it for ever and a
  pthread mutex that is released again and again is in practice obtained. Nothing forces a call.
- `Server`: `epoll_wait` returns when something is ready, a put goes on when there is room, and a
  worker takes its next step (WF). This contains that handlers return. Clients owe nothing.
- `Request`: callbacks run when the connection is readable, which is what `Answered` of
  `Server` rests on, and end (WF). The client need not send.
- `Client`: threads run and the server answers complete requests (WF). The mutex need not be
  fair, because the calls are finitely many.
- `HashMap`, `Session` and `CJsonUse` are sequential: nothing there has to happen eventually.

## 4. Proofs

Checked by TLAPS with Z3, Zenon and LS4, for every value of the constants under the named assumptions.

**ThreadPoolProofs** (from `WorkersAssumption`, `PuttersAssumption`, `CapAssumption`,
`NamesAssumption`, `ModeAssumption`). `IInv` adds to the ring's own
invariant that the mutex is held exactly between acquisition and release (`MutexInv`) and that
a thread's finding still holds when it acts (`LoopInv`). Without those a pop could meet an empty
ring. `RingCorrect` and `ThreadsAreWoken` are the run's two invariants. The argument for
lost wakeups counts: while someone sleeps on `not_empty`, the tasks queued are at most the
signals still to be sent plus the workers still to look; each step changes the two sides
together (`Counts`, `OneMore`, `NoFewer`). `Refinement` maps `len` slots from `front` to a sequence and shows
that pop is `Tail` (`PopIsTail`) and push is `Append` (`PushIsAppend`), so `Spec => TaskQueue`.

**ServerProofs** (from the assumptions of `Server`). The four properties that matter,
`OneHolder`, `NoUseAfterFree`, `FdInv` and `NotStranded`, need each other and more: what a
worker holds depends on its point (`HoldInv`); registrations are those of live contexts
(`EpollInv`, `RegisteredInv`); a descriptor just accepted belongs to the one worker accepting
it and to nobody's context (`AcceptInv`); a connection is in the backlog once and then on
one descriptor (`FreshInv`); a reported event is still there when it is handled (`EventInv`), from which
`NeverBlocks` follows. Most actions move a context between places or touch none: the lemmas
`...Placed` treat the places, `...Type` the types, and `QuietStep` the steps
that move nothing. `ThreadPoolProofs` and `ServerProofs` meet in `TaskQueue`: what is
proved of `Server` holds for the real pool by `Refinement`.

The second half is about bytes. `StreamInv` follows the chunks of each connection that has not been given
up: what the server has parsed (`Parsed`, by `magic_read`, the replies and the request at hand), then
`buff`, then the receive queue is what the client has sent, without a gap (`Contiguous`), and the request
being read or answered is the next one (`Current`). It needs `OneHolder` and `FdInv`: a worker that fills,
parses or responds does so on its own connection, so that no other connection's chunks move. An honest
client makes a callback fail when it has closed, or when its last response went past `wbuf` (`CutShort`), so that
`Dropped` implies one of the two, which is `HonestKept`; `InOrder` is what `Current` gives at each response.

**RequestProofs** (from `SizesAssumption`, `FlagsAssumption`, `StreamsAssumption`). The difficulty is that the
stream is a concatenation and the parser a cursor. `Layout` says where every line, head and argument begins
(`Base`, `ArgBase`) and that its bytes stand there; `LayoutRight` derives it from `FlatAt` once, and no
step needs the concatenation again. `Holds` says that the buffer holds the bytes of the stream behind a
place, wherever in the block; `AdjustHolds`, `FilledHolds` and `DropHolds` are the calls of `buffer.c` in
these terms. `IInv` says that it holds what is behind `Pos`, the bytes taken so far (`BytesInv`), that `Pos` is the
place the parser's state stands for (`ParserInv`: the magic number, the line behind the requests served, or an
argument of that request with the earlier ones read right), and that a callback whose client keeps to what is
accepted leaves room (`RoomInv`). The last is why `buffer_fill` never reads into no room, which would look
like a closed peer; a response past `wbuf`, whose flush does look like one, is the other way to fail (`CutShort`). Hence `KeptOpenHolds`. `LineAt` (the first newline buffered ends the line at hand) and `DataSizesAre`
(a head states the size of its own data) are what each step of the parser rests on. `BufferRightHolds` and
`FaithfulHolds` follow, for any number of requests, any sizes and any pieces.

**ClientProofs** (from `CapAssumption`, `CallsAssumption`, `SizesAssumption`). `IInv` says that all threads but
the holder of the lock are outside the critical section (`LockInv`); that `wire` is the requests handled and
the beginning of one more (`WireInv`); that what the holder has written is on the wire up to some byte and
in `wbuf` from there on (`SentInv`); and that the bytes on their way back are a rest of the response to its
own call, none before its request was handled (`OutboxInv`, `OnTimeInv`). When the holder unlocks without an
error nothing is left (`DoneInv`), and without a crash an error comes from a message that does not fit (`FitInv`).
Pieces are given by their ends (`Ends`), so that the next piece extends a request by `Part`.
`WholeRequestsHold`, `OwnAnswerHolds`, `InStepHolds` and `FittingSucceedHolds` are consequences; `Refinement` shows
that each step is one of `RpcService` or a stutter: handling is in order because the wire is.

**HashMapProofs** (from `ValuesAssumption`, `HashAssumption`, `BucketsAssumption`). `MapInv` says that every list holds nodes
that belong there, each key once (`Right`). `InsertRight`, `ReplaceRight` and `RemoveRight` say what
each change of one list does to the set of all nodes (`NodesOf`), and `GrowRight` that growth keeps it:
`AllNodesRight` shows that the nodes taken list after list are all of them and distinct, `RehashRight` that putting
them one after the other at the front of their new lists loses none. What a get returns depends on
that set only (`EntryIs`, `EntrySame`), which gives `ImplementsMapHolds`: growth in the middle of a set is
invisible, and the order of a list never matters.

**ItemListProofs** (from `NullAssumption`, `ArraysAssumption` and `MaxCountAssumption`). `LinksCorrect` says that, whatever calls a
program makes on any number of blocks, `child`, `next` and `prev` are exactly the lists the
caller has in mind; that one pointer at most leads to an item, none to a freed one; and
that an item outside all lists keeps no link. The lists alone are not inductive: an edit of one
would disturb another if they shared an item, a detached item would be appended with its old
links, and a block would be reused with stale ones. So `IInv` is `TypeOK` with `Represents`:
lists are disjoint and without repetition, roots have no links, dead blocks are zero. The argument has
three layers. `AddEdits`, `InsertEdits`, `DetachEdits` and `ReplaceEdits` treat one list: the calls
turn its pointers into those of the list with the item appended, inserted, removed or exchanged,
and touch nothing else. `Surgery` puts such an edit beside the other lists. `Deletion` is about
`cJSON_Delete`: what it frees is the least set with the item that is closed under `child` and
`next`; nothing outside points into it.

**SessionProofs** (from `NullAssumption`, `IntMaxAssumption`, `CallsAssumption`, `BoundsAssumption`, `NamesAssumption`
and `WordsAssumption`). All six properties of the run `session` hold for any list of calls with any arguments, any number
of them, any number of attempts to listen and dial, whatever fails and wherever a response breaks off. `CallsAssumption` is C's typing:
arguments have the types of the stub's parameters, and what an application may return in place of the
examples is what its C type allows. `NullAssumption` says that NULL is no number, no string and no struct.
`NamesAssumption` and `WordsAssumption` say of tables in the modules that they hold strings, which the provers
cannot see. TLC evaluates each of them on the runs. The interfaces are those of `examples/`: five messages, twelve methods.

Three inductive invariants, each with its theorem:

- `CallRight`: a call in progress. What is on the wire is what the stub wrote of the arguments of *this* call (`Sending`),
  what the application was called with is what `T_marshal`, the request and `T_unmarshal` make of them
  (`RanRight`), and the response says what the application returned and is there only if it did not refuse
  (`Underway`). The properties alone are not inductive: they look at the two ends of a call and not at what is on its way.
  The core is `StructArrives`: to unmarshal what was marshalled yields `Sent`, for every message, which needs that the two
  ends handle the same fields and that a field that is null stops only what `T_unmarshal` would not have
  read anyway. `HandledRight` and `CallReturn` carry it through a handler and a stub; `AppRight`
  says that each of the twelve functions returns a value of its type or an error.
- `LifeRight`: `TypeOK`; what the first `server_listen` made is what `svr` points to, so that `Closed` closes all of it
  (`HasMade`); a client not dialled has no block.
- `MemoryRight`: who owns which block. On the client every block is the connection, a known loss, a tree of
  the request on its way or a part of the result the caller owes a `T_delete` for, and such a result is whole (`ClientOwns`).
  On the server every block of a call is a known loss or a part of one book of `book_map`, whose books are whole, have a price,
  and were made by different calls, none later than the last one served (`ServerOwns`): this is why
  no two books share a block and no block is freed twice. That a value on its way is whole (`SentWhole`) ties the two together: a
  `Book` without a price never reaches the client, because the server has crashed on it in `Book_destroy`.
  Blocks are paths, so that who owns a block is read off its path; the lemmas on paths come first.

`FaultsKnown` rests on `CallRight` and `MemoryRight`: its halves `ServerFaults` and `ClientFaults` hold because every free and
every look at a pointer, in handlers, stubs, applications and set-up, is either of an owned block or in the list of section 5. All three
invariants were model-checked on the instance of `session`, too.

**DataLemmas.** The library's induction theorems take an operator as a parameter, which no installed
prover can instantiate. `UpTo` replaces them: a *set* that holds 0 and, with each number, the next one
holds all numbers up to n, from `Smallest`. The lemmas about flattened sequences and about what
`Rehashed` and `Ends` compute rest on it.

Only model-checked:

- all liveness and everything under fairness, which is beyond the proof system (`Served` of `Request` among it);
- the text of cJSON: `TextKeepsTree`, `ParserStrict`, `NothingLost`, `RoomRight` and `AccessRight` of `CJsonUse`. Printer and parser of
  `CJson` recurse over trees of any depth; what a recursive definition computes for every input is an
  induction over data, and tlapm has no SMT backend for recursive operators. `SessionProofs` therefore takes
  from the run, and not from a theorem, that a printed tree is read back.

## 5. What the runs say of the code

Violations of what a comment, a test or the README says:

- `pool_destroy`: `destroyed` is set and broadcast without the mutex (`threadpool.c:88`). A worker
  that has just read it as 0 goes to sleep after the broadcast, and `pthread_join` waits for ever.
- `request_blocks`: `request_set_init_state` frees the array of arguments but not the blocks its elements
  point to (`request.c:133`), against `README.md:115`. Only the request being read when the
  connection ends gets its blocks freed.
- `client_big`: when the last piece overflowed the write buffer it was written directly, and
  the flush that follows writes 0 bytes, which counts as a closed peer (`buffer.c:64`). The
  same happens to the server (`server.c:96`): a response whose data does not fit is sent in full, `send_response` fails, and
  the server closes the connection of a client that did nothing wrong, with its next requests unread. If the type name did not fit
  either, the flush between the two fails and the data is not sent. `FittingSucceed`, `HonestKept`, `KeptOpen` and `EveryoneServed`
  show that it needs a message that does not fit.
- `session_members`: `Book_destroy` follows `price` without a test (`book.rpch.server.c:41`),
  so a result with a NULL member crashes the server, against `README.md:140`.

Cases that passing properties leave out, because the code does not handle them and nothing
promises that it does (`OnlyKnownFaults`, `OnlyKnownLeaks`, `LifecycleRight`, `RoomRight`, `ParserStrict`, `HonestKept`):

- a response past the write buffer, as above;

- an argument of no bytes is NULL to the application (`request.c:80`): the string functions and `book_map` read it;
- a struct argument that is NULL (`strlen` of its text in the client), a `Book` without a price, a handler that returns
  NULL for a struct;
- `errorf`, which hands its `va_list` to `snprintf` as an argument and has nothing for a second one (`error.h:36`): what it writes is
  garbage, or the process ends in it. It is reached when `epoll_wait` fails (`server.c:258`), for an address that is no number
  (`addr.c:22`), at every check of a count, a type or a size (`book.rpch.server.c:83`, `book.rpch.client.c:58`), and for a book
  that is not there (`examples/book/server/main.c:46`);
- `string_concat` of the example returns a block without a terminator (`examples/string/server/main.c:31`): the `strlen` of the handler
  counts what follows into the result or leaves the memory of the process, in every call;
- a division by zero in `Math_Divide`;
- a response that breaks off behind its head: `read_response` frees type name and data and leaves
  the pointers to the stub, which frees them again (`client.c:170`);
- `server_destroy` of a server that never made a pool (`server.c:224`);
- a stub of another version of the interface that expects the result of a method that has none: the response carries no
  type name, and `strcmp` compares with NULL (`book.rpch.client.c:73`, called at line 224);
- a second `server_listen`, which overwrites pool, socket and epoll instance of the first;
- after `server_destroy` the context of the listening socket and the connections that are open (`server.c:217`);
- blocks that stay behind: the array of a client's arguments, the texts of marshalled structs, after
  an error a client's trees, type names and data of a server's arguments, the name of a book that is
  shelved again;
- `cJSON_ParseWithLength` looks one byte too far behind a comma in an object where the text ends
  (`cJSON.c:1656`), and `print` copies one byte of a buffer of size 0 (`cJSON.c:515`);
- a number past the range of a double, such as 1e999, is read as infinite and printed as null (`cJSON.c:344`, `cJSON.c:559`), and
  `compare_double` takes an infinite number for equal to every other one (`cJSON.c:541`);
- `cJSON_ReplaceItemInObject` renames the new item even when it finds none to replace (`cJSON.c:2347`).

## 6. Not modelled

- *Writes.* Short writes (`buffer.c:45` takes any positive count for all), writes that block on a client
  that does not read, SIGPIPE, and writes that fail on a connection that is open (EINTR): a write to a peer that is there succeeds, to one
  that is gone it fails or is lost. The death of the network is to `Client` that of the server.
- *Sizes.* The 32-bit sum of two lengths (`request.c:76`), and messages of an error of 128 bytes and more
  (`client.c:126`, `client.c:136`), which this server never sends.
- *Undefined behaviour outside the models' state.* The error variable of a block that has ended
  (`server.c:242`, `client.c:57`: only when the caller passes NULL). `memcpy` of no bytes from NULL. The copy of an address of 64
  bytes and more (`addr.c:9`). Overlapping `memcpy` in `buffer_adjust` is modelled as an upward copy.
- *addr.* How digits are read; that an address without a host, ":8080", leaves the port unset.
- *server_destroy.* It closes no connection that is still open (`server.c:217`); `Session` lets these blocks stay.
- *Allocation.* Failing `malloc` and `pthread_create`, which the code does not check; in cJSON,
  failures in print, parse and duplicate are modelled, those in create and add calls are not.
- *Numbers in cJSON.* A double is the text that writes it with as many digits as it takes: that 15 digits are written, or 17
  if the first differ by more than an epsilon (`cJSON.c:567-575`, by which the sum of 0.1 and 0.2 is written as 0.3), is not modelled, nor
  that a double rounds what has more digits. `valueint` is followed in `Stub`, not in `CJson`.
- *cJSON.* References, constant strings and names (`StringIsConst`), setters of values, type tests,
  `cJSON_InitHooks`, `global_error`, `cJSON_Duplicate` without children. The stubs use none of them.
- *Examples.* Handlers of several workers in `book_map` at once: the map has no lock, so that any of
  its pointers may be torn, and no property of the application survives that. The clients' `main`
  are the calls of `MCSession`.
- `hashmap_del` does not count `len` down; `HashMap` models it, and growth therefore comes early.

## 7. Plan

1. *cJSON.* The text of trees of bounded depth, unrolled as the structs of `Stub` are, to be proved about as `Session` is.
2. *Shared maps.* `book_map` under a lock, as an application would have to use it.
3. *Blocking writes.* A bound on the data in flight, and what a client that does not read does to the workers.
