------------------------------- MODULE Server -------------------------------
(***************************************************************************)
(* The server of server.c: the reactor thread of server_listen, the pool   *)
(* of workers that run lfd_callback and cfd_callback, the epoll instance   *)
(* with its one-shot registrations, the descriptors the kernel reuses, and *)
(* the clients. The pool is the bounded FIFO TaskQueue that ThreadPool     *)
(* implements.                                                             *)
(*                                                                         *)
(* A struct evctx is named by the connection it was built for, the one of  *)
(* the listening socket by Listener. A connection's bytes are chunks: the  *)
(* magic number, a request line, the arguments of a request, or something  *)
(* the server cannot parse. How lines and arguments are cut out of bytes   *)
(* is not the matter here.                                                 *)
(***************************************************************************)
EXTENDS Naturals, FiniteSets, Sequences

CONSTANTS
  Workers,    \* the threads of the pool
  Conns,      \* the connections clients may open, once each
  Honest,     \* connections whose client sends only well-formed requests
  Listener,   \* the context of the listening socket
  None,       \* no context, no connection
  Fds,        \* descriptor numbers accept can return
  Lfd,        \* svr->lfd
  NoFd,       \* -1
  Cap,        \* capacity of the task queue
  MaxEvents,  \* MAX_EVENTS
  MaxReqs,    \* bound: how many requests any client sends
  Talks,      \* bound: how many requests each client sends
  Large,      \* <<c, n>>: the data of the response to c's n-th request goes past wbuf
  Faults      \* what the system may do: "epoll_fails", "no_epollin"

ASSUME ConnsAssumption  == Honest \subseteq Conns /\ Listener \notin Conns
ASSUME NoneAssumption   == None \notin Conns \cup {Listener}
ASSUME FdsAssumption    == Fds \subseteq Nat /\ Lfd \notin Fds /\ NoFd \notin Fds \cup {Lfd}
ASSUME BoundsAssumption == Cap \in Nat \ {0} /\ MaxEvents \in Nat \ {0} /\ MaxReqs \in Nat
ASSUME TalksAssumption  == Talks \in [Conns -> 0 .. MaxReqs]
ASSUME LargeAssumption  == Large \subseteq Conns \X (1 .. MaxReqs)
ASSUME FaultsAssumption == Faults \subseteq {"epoll_fails", "no_epollin"}

VARIABLES
  \* clients and the kernel
  peer,       \* each client's end: "new", "open" or "closed"
  sent,       \* how many chunks each client has written
  inbox,      \* the chunks in each connection's receive queue
  replies,    \* the seq of each response written to a connection
  backlog,    \* connections accept has not returned yet
  fds,        \* the connection each descriptor is open on, or None
  interest,   \* the context registered with epoll for each descriptor, or None
  armed,      \* descriptors whose one-shot registration is enabled
  \* struct evctx
  heap,       \* "none", "live" or "freed"
  fd,         \* ctx->fd
  magic_read, \* ctx->magic_read
  req,        \* ctx->req
  buff,       \* the chunks in ctx->buff
  \* threads
  reactor,    \* where the thread of server_listen and server_destroy is
  batch,      \* the contexts of evs not yet handed to the pool
  queue,      \* the tasks of the pool, oldest first
  holding,    \* the context each worker runs the callback of, or None
  closed,     \* the pool is being destroyed
  stopped,    \* workers whose thread has ended
  wpc,        \* where each worker is in its callback
  cfd         \* lfd_callback's cfd

clientVars == <<peer, sent, inbox, backlog>>
epollVars  == <<interest, armed>>
ctxVars    == <<heap, fd, magic_read, req, buff>>
reactorVars == <<reactor, batch, queue, closed, stopped>>
vars == <<peer, sent, inbox, replies, backlog, fds, interest, armed, heap, fd, magic_read,
          req, buff, reactor, batch, queue, holding, closed, stopped, wpc, cfd>>

Ctxs   == Conns \cup {Listener}
AllFds == Fds \cup {Lfd}
Pool == INSTANCE TaskQueue WITH Tasks <- Ctxs, NoTask <- None

ReactorPoints == {"loop", "returned", "lfd_closed", "epoll_closed", "joining", "freed"}
LfdOpen   == reactor \in {"loop", "returned"}
EpollOpen == reactor \in {"loop", "returned", "lfd_closed"}

\* the points of lfd_callback and of cfd_callback; "return" is past the last access
\* to the context
ListenerPoints == {"accept", "rearm_listener", "add"}
ConnPoints     == {"fill", "parse", "respond", "rearm", "del", "destroy"}
Points         == ListenerPoints \cup ConnPoints \cup {"idle", "return"}

Chunks   == [kind : {"magic", "line", "no_service", "args", "junk"}, seq : 0 .. MaxReqs]
Requests == [state : {"READING_REQUEST_LINE", "READING_ARGS"}, seq : 0 .. MaxReqs, known : BOOLEAN]
InitReq  == [state |-> "READING_REQUEST_LINE", seq |-> 0, known |-> FALSE]

-----------------------------------------------------------------------------
(* Clients *)

\* the k-th chunk of a client that keeps to the protocol
Proper(k) ==
    CASE k = 0 -> [kind |-> "magic", seq |-> 0]
      [] k % 2 = 1 -> [kind |-> "line", seq |-> (k + 1) \div 2]
      [] OTHER -> [kind |-> "args", seq |-> k \div 2]

Connect(c) ==
    /\ peer[c] = "new"
    /\ LfdOpen
    /\ peer' = [peer EXCEPT ![c] = "open"]
    /\ backlog' = Append(backlog, c)
    /\ UNCHANGED <<sent, inbox, replies, fds, epollVars, ctxVars, reactorVars, holding, wpc, cfd>>

\* what is written after the server has hung up is lost
Send(c) ==
    /\ peer[c] = "open"
    /\ heap[c] # "freed"
    /\ sent[c] <= 2 * Talks[c]
    /\ \E k \in {Proper(sent[c])} \cup
                (IF c \in Honest THEN {} ELSE {[kind |-> x, seq |-> 0] : x \in {"junk", "no_service"}}) :
         inbox' = [inbox EXCEPT ![c] = Append(@, k)]
    /\ sent' = [sent EXCEPT ![c] = @ + 1]
    /\ UNCHANGED <<peer, replies, backlog, fds, epollVars, ctxVars, reactorVars, holding, wpc, cfd>>

Close(c) ==
    /\ peer[c] = "open"
    /\ peer' = [peer EXCEPT ![c] = "closed"]
    /\ UNCHANGED <<sent, inbox, replies, backlog, fds, epollVars, ctxVars, reactorVars, holding, wpc, cfd>>

\* an abortive close: what the server has not read yet is gone
Reset(c) ==
    /\ peer[c] = "open"
    /\ peer' = [peer EXCEPT ![c] = "closed"]
    /\ inbox' = [inbox EXCEPT ![c] = <<>>]
    /\ UNCHANGED <<sent, replies, backlog, fds, epollVars, ctxVars, reactorVars, holding, wpc, cfd>>

-----------------------------------------------------------------------------
(* epoll *)

Readable(c) == inbox[c] # <<>> \/ peer[c] = "closed"
Ready(f) == IF f = Lfd THEN backlog # <<>> ELSE fds[f] # None /\ Readable(fds[f])

\* Mutant of ResetOneshot: the context is passed where the descriptor belongs.
ResetOneshotByContext(c, f) ==
    IF interest[f] = None
    THEN UNCHANGED epollVars
    ELSE /\ interest' = [interest EXCEPT ![f] = c]
         /\ armed' = armed \cup {c}

\* reset_oneshot: EPOLL_CTL_MOD, which fails if the descriptor is not registered
ResetOneshot(c, f) ==
    IF interest[f] = None
    THEN UNCHANGED epollVars
    ELSE /\ interest' = [interest EXCEPT ![f] = c]
         /\ armed' = armed \cup {f}

\* EPOLL_CTL_DEL, and what close does to a registration
Forget(f) ==
    /\ interest' = [interest EXCEPT ![f] = None]
    /\ armed' = armed \ {f}

-----------------------------------------------------------------------------
(* server_listen *)

\* Mutant of EpollWait: the registrations are made without EPOLLONESHOT.
EpollWaitNoOneshot ==
    /\ reactor = "loop"
    /\ batch = {}
    /\ \E S \in SUBSET {f \in armed : Ready(f)} :
         /\ S # {}
         /\ S = {f \in armed : Ready(f)} \/ Cardinality(S) = MaxEvents
         /\ Cardinality(S) <= MaxEvents
         /\ batch' = {interest[f] : f \in S}
    /\ UNCHANGED <<clientVars, replies, fds, epollVars, ctxVars, reactor, queue, closed, stopped, holding, wpc, cfd>>

\* epoll_wait returns: each registration it reports is disabled
EpollWait ==
    /\ reactor = "loop"
    /\ batch = {}
    /\ \E S \in SUBSET {f \in armed : Ready(f)} :
         /\ S # {}
         /\ S = {f \in armed : Ready(f)} \/ Cardinality(S) = MaxEvents
         /\ Cardinality(S) <= MaxEvents
         /\ batch' = {interest[f] : f \in S}
         /\ armed' = armed \ S
    /\ UNCHANGED <<clientVars, replies, fds, interest, ctxVars, reactor, queue, closed, stopped, holding, wpc, cfd>>

EpollFails ==
    /\ "epoll_fails" \in Faults
    /\ reactor = "loop"
    /\ batch = {}
    /\ reactor' = "returned"
    /\ UNCHANGED <<clientVars, replies, fds, epollVars, ctxVars, batch, queue, closed, stopped, holding, wpc, cfd>>

\* pool_put; the reactor blocks while the queue is full
ReactorPut(x) ==
    /\ x \in batch
    /\ Pool!Put(x)
    /\ batch' = batch \ {x}
    /\ UNCHANGED <<clientVars, replies, fds, epollVars, ctxVars, reactor, wpc, cfd>>

\* if (!(evs[i].events & EPOLLIN)) continue
ReactorSkip(x) ==
    /\ "no_epollin" \in Faults
    /\ x \in batch
    /\ batch' = batch \ {x}
    /\ UNCHANGED <<clientVars, replies, fds, epollVars, ctxVars, reactor, queue, closed, stopped, holding, wpc, cfd>>

-----------------------------------------------------------------------------
(* server_destroy, called when server_listen has returned *)

\* connections not accepted are reset by the kernel
CloseListener ==
    /\ reactor = "returned"
    /\ reactor' = "lfd_closed"
    /\ backlog' = <<>>
    /\ Forget(Lfd)
    /\ UNCHANGED <<peer, sent, inbox, replies, fds, ctxVars, batch, queue, closed, stopped, holding, wpc, cfd>>

CloseEpoll ==
    /\ reactor = "lfd_closed"
    /\ reactor' = "epoll_closed"
    /\ interest' = [f \in AllFds |-> None]
    /\ armed' = {}
    /\ UNCHANGED <<clientVars, replies, fds, ctxVars, batch, queue, closed, stopped, holding, wpc, cfd>>

\* pool_destory: the workers finish their callback, what is queued is dropped
DestroyPool ==
    /\ reactor = "epoll_closed"
    /\ Pool!Close
    /\ reactor' = "joining"
    /\ UNCHANGED <<clientVars, replies, fds, epollVars, ctxVars, batch, wpc, cfd>>

Stop(w) ==
    /\ wpc[w] = "idle"
    /\ Pool!Stop(w)
    /\ UNCHANGED <<clientVars, replies, fds, epollVars, ctxVars, reactor, batch, wpc, cfd>>

FreeServer ==
    /\ reactor = "joining"
    /\ stopped = Workers
    /\ reactor' = "freed"
    /\ UNCHANGED <<clientVars, replies, fds, epollVars, ctxVars, batch, queue, closed, stopped, holding, wpc, cfd>>

-----------------------------------------------------------------------------
(* The workers: the pool calls and returns from ctx->callback. *)

Goto(w, point) == wpc' = [wpc EXCEPT ![w] = point]

\* Mutant of Take: lfd_callback enables the listening socket before it accepts.
TakeRearmsFirst(w) ==
    /\ wpc[w] = "idle"
    /\ Pool!Take(w)
    /\ IF Head(queue) = Listener
       THEN Goto(w, "accept") /\ ResetOneshot(Listener, Lfd)
       ELSE Goto(w, "fill") /\ UNCHANGED epollVars
    /\ UNCHANGED <<clientVars, replies, fds, ctxVars, reactor, batch, cfd>>

Take(w) ==
    /\ wpc[w] = "idle"
    /\ Pool!Take(w)
    /\ Goto(w, IF Head(queue) = Listener THEN "accept" ELSE "fill")
    /\ UNCHANGED <<clientVars, replies, fds, epollVars, ctxVars, reactor, batch, cfd>>

Return(w) ==
    /\ wpc[w] = "return"
    /\ Pool!Finish(w)
    /\ Goto(w, "idle")
    /\ UNCHANGED <<clientVars, replies, fds, epollVars, ctxVars, reactor, batch, cfd>>

-----------------------------------------------------------------------------
(* lfd_callback *)

FreeFds == {f \in Fds : fds[f] = None}

\* accept blocks while nothing is in the backlog; the kernel hands out the lowest
\* free descriptor, and fails at once if there is none or lfd is closed
Accept(w) ==
    /\ wpc[w] = "accept"
    /\ \/ /\ FreeFds = {} \/ ~LfdOpen
          /\ cfd' = [cfd EXCEPT ![w] = NoFd]
          /\ UNCHANGED <<backlog, fds>>
       \/ /\ LfdOpen
          /\ backlog # <<>>
          /\ \E f \in FreeFds :
               /\ \A g \in FreeFds : f <= g
               /\ fds' = [fds EXCEPT ![f] = Head(backlog)]
               /\ cfd' = [cfd EXCEPT ![w] = f]
          /\ backlog' = Tail(backlog)
    /\ Goto(w, "rearm_listener")
    /\ UNCHANGED <<peer, sent, inbox, replies, epollVars, ctxVars, reactorVars, holding>>

RearmListener(w) ==
    /\ wpc[w] = "rearm_listener"
    /\ ResetOneshot(Listener, Lfd)
    /\ Goto(w, "add")
    /\ UNCHANGED <<clientVars, replies, fds, ctxVars, reactorVars, holding, cfd>>

\* conn_new, buffer_new, build_evctx, request_new and EPOLL_CTL_ADD; if it
\* fails, with cfd = -1 or a closed epoll_fd, what was built is never reached again
AddConn(w) ==
    /\ wpc[w] = "add"
    /\ \/ /\ cfd[w] = NoFd
          /\ UNCHANGED <<epollVars, ctxVars>>
       \/ /\ cfd[w] # NoFd
          /\ LET f == cfd[w]
                 c == fds[f]
             IN /\ heap' = [heap EXCEPT ![c] = "live"]
                /\ fd' = [fd EXCEPT ![c] = f]
                /\ magic_read' = [magic_read EXCEPT ![c] = FALSE]
                /\ req' = [req EXCEPT ![c] = InitReq]
                /\ buff' = [buff EXCEPT ![c] = <<>>]
                /\ IF EpollOpen
                   THEN /\ interest' = [interest EXCEPT ![f] = c]
                        /\ armed' = armed \cup {f}
                   ELSE UNCHANGED epollVars
    /\ cfd' = [cfd EXCEPT ![w] = NoFd]
    /\ Goto(w, "return")
    /\ UNCHANGED <<clientVars, replies, fds, reactorVars, holding>>

-----------------------------------------------------------------------------
(* cfd_callback *)

\* Mutant of Fill: what did not fit into the buffer is lost.
FillDropsRest(w) ==
    LET c == holding[w]
        s == fds[fd[c]]
    IN /\ wpc[w] = "fill"
       /\ \/ /\ inbox[s] # <<>>
             /\ \E n \in 1 .. Len(inbox[s]) :
                  /\ buff' = [buff EXCEPT ![c] = @ \o SubSeq(inbox[s], 1, n)]
                  /\ inbox' = [inbox EXCEPT ![s] = <<>>]
             /\ Goto(w, "parse")
          \/ /\ inbox[s] = <<>>
             /\ peer[s] = "closed"
             /\ Goto(w, "del")
             /\ UNCHANGED <<buff, inbox>>
       /\ UNCHANGED <<peer, sent, replies, backlog, fds, epollVars, heap, fd, magic_read, req,
                      reactorVars, holding, cfd>>

\* buffer_fill: read blocks while there is nothing to read and the peer is there;
\* it may return less than there is
Fill(w) ==
    LET c == holding[w]
        s == fds[fd[c]]
    IN /\ wpc[w] = "fill"
       /\ \/ /\ inbox[s] # <<>>
             /\ \E n \in 1 .. Len(inbox[s]) :
                  /\ buff' = [buff EXCEPT ![c] = @ \o SubSeq(inbox[s], 1, n)]
                  /\ inbox' = [inbox EXCEPT ![s] = SubSeq(@, n + 1, Len(@))]
             /\ Goto(w, "parse")
          \/ /\ inbox[s] = <<>>
             /\ peer[s] = "closed"
             /\ Goto(w, "del")
             /\ UNCHANGED <<buff, inbox>>
       /\ UNCHANGED <<peer, sent, replies, backlog, fds, epollVars, heap, fd, magic_read, req,
                      reactorVars, holding, cfd>>

\* Mutant of NotReady: a request that has not arrived in full is an error.
NotReadyIsBad(w) ==
    /\ wpc[w] = "parse"
    /\ buff[holding[w]] = <<>>
    /\ Goto(w, IF req[holding[w]].state = "READING_ARGS" THEN "del" ELSE "rearm")
    /\ UNCHANGED <<clientVars, replies, fds, epollVars, ctxVars, reactorVars, holding, cfd>>

\* less is buffered than the magic number or the next part of a request takes
NotReady(w) ==
    /\ wpc[w] = "parse"
    /\ buff[holding[w]] = <<>>
    /\ Goto(w, "rearm")
    /\ UNCHANGED <<clientVars, replies, fds, epollVars, ctxVars, reactorVars, holding, cfd>>

ReadMagic(w) ==
    LET c == holding[w]
    IN /\ wpc[w] = "parse"
       /\ buff[c] # <<>>
       /\ ~magic_read[c]
       /\ \/ /\ Head(buff[c]).kind = "magic"
             /\ buff' = [buff EXCEPT ![c] = Tail(@)]
             /\ magic_read' = [magic_read EXCEPT ![c] = TRUE]
             /\ UNCHANGED wpc
          \/ /\ Head(buff[c]).kind # "magic"
             /\ Goto(w, "del")
             /\ UNCHANGED <<buff, magic_read>>
       /\ UNCHANGED <<clientVars, replies, fds, epollVars, heap, fd, req, reactorVars, holding, cfd>>

\* read_request, READING_REQUEST_LINE
ReadRequestLine(w) ==
    LET c == holding[w]
        k == Head(buff[c])
    IN /\ wpc[w] = "parse"
       /\ buff[c] # <<>>
       /\ magic_read[c]
       /\ req[c].state = "READING_REQUEST_LINE"
       /\ \/ /\ k.kind \in {"line", "no_service"}
             /\ buff' = [buff EXCEPT ![c] = Tail(@)]
             /\ req' = [req EXCEPT ![c] = [state |-> "READING_ARGS", seq |-> k.seq,
                                           known |-> k.kind = "line"]]
             /\ UNCHANGED wpc
          \/ /\ k.kind \notin {"line", "no_service"}
             /\ Goto(w, "del")
             /\ UNCHANGED <<buff, req>>
       /\ UNCHANGED <<clientVars, replies, fds, epollVars, heap, fd, magic_read, reactorVars, holding, cfd>>

\* read_request, READING_ARGS: any bytes are arguments
ReadArgs(w) ==
    LET c == holding[w]
    IN /\ wpc[w] = "parse"
       /\ buff[c] # <<>>
       /\ magic_read[c]
       /\ req[c].state = "READING_ARGS"
       /\ buff' = [buff EXCEPT ![c] = Tail(@)]
       /\ req' = [req EXCEPT ![c].state = "READING_REQUEST_LINE"]
       /\ Goto(w, "respond")
       /\ UNCHANGED <<clientVars, replies, fds, epollVars, heap, fd, magic_read, reactorVars, holding, cfd>>

\* hashmap_get, the handler, send_response and request_set_init_state. A write to a peer
\* that has closed may fail. Data past wbuf is written directly and leaves wbuf empty: the
\* flush that ends the response then writes 0 bytes, which is taken for a closed peer. If
\* the type name went past wbuf too, that flush comes before the data.
Respond(w) ==
    LET c == holding[w]
        s == fds[fd[c]]
        answered == [replies EXCEPT ![s] = Append(@, req[c].seq)]
    IN /\ wpc[w] = "respond"
       /\ \/ /\ req[c].known
             /\ <<s, req[c].seq>> \notin Large
             /\ replies' = answered
             /\ req' = [req EXCEPT ![c] = InitReq]
             /\ Goto(w, "parse")
          \/ /\ req[c].known
             /\ <<s, req[c].seq>> \in Large
             /\ replies' \in {answered, replies}
             /\ Goto(w, "del")
             /\ UNCHANGED req
          \/ /\ ~req[c].known \/ peer[s] = "closed"
             /\ Goto(w, "del")
             /\ UNCHANGED <<replies, req>>
       /\ UNCHANGED <<clientVars, fds, epollVars, heap, fd, magic_read, buff, reactorVars, holding, cfd>>

\* Mutant of Rearm: reset_oneshot is skipped in the middle of a request.
RearmForgotten(w) ==
    LET c == holding[w]
    IN /\ wpc[w] = "rearm"
       /\ IF req[c].state = "READING_ARGS" THEN UNCHANGED epollVars ELSE ResetOneshot(c, fd[c])
       /\ Goto(w, "return")
       /\ UNCHANGED <<clientVars, replies, fds, ctxVars, reactorVars, holding, cfd>>

Rearm(w) ==
    LET c == holding[w]
    IN /\ wpc[w] = "rearm"
       /\ ResetOneshot(c, fd[c])
       /\ Goto(w, "return")
       /\ UNCHANGED <<clientVars, replies, fds, ctxVars, reactorVars, holding, cfd>>

\* Mutant of Del: the descriptor is closed here as well as by evctx_destroy.
DelAndClose(w) ==
    /\ wpc[w] = "del"
    /\ Forget(fd[holding[w]])
    /\ fds' = [fds EXCEPT ![fd[holding[w]]] = None]
    /\ Goto(w, "destroy")
    /\ UNCHANGED <<clientVars, replies, ctxVars, reactorVars, holding, cfd>>

\* bad: EPOLL_CTL_DEL
Del(w) ==
    /\ wpc[w] = "del"
    /\ Forget(fd[holding[w]])
    /\ Goto(w, "destroy")
    /\ UNCHANGED <<clientVars, replies, fds, ctxVars, reactorVars, holding, cfd>>

\* Mutant of Destroy: the context is freed, its descriptor never closed.
DestroyWithoutClose(w) ==
    /\ wpc[w] = "destroy"
    /\ heap' = [heap EXCEPT ![holding[w]] = "freed"]
    /\ Goto(w, "return")
    /\ UNCHANGED <<clientVars, replies, fds, epollVars, fd, magic_read, req, buff, reactorVars, holding, cfd>>

\* bad: evctx_destroy closes the descriptor and frees the context
Destroy(w) ==
    LET c == holding[w]
    IN /\ wpc[w] = "destroy"
       /\ fds' = [fds EXCEPT ![fd[c]] = None]
       /\ Forget(fd[c])
       /\ heap' = [heap EXCEPT ![c] = "freed"]
       /\ Goto(w, "return")
       /\ UNCHANGED <<clientVars, replies, fd, magic_read, req, buff, reactorVars, holding, cfd>>

-----------------------------------------------------------------------------

\* server_listen is about to call epoll_wait for the first time
Init ==
    /\ peer = [c \in Conns |-> "new"]
    /\ sent = [c \in Conns |-> 0]
    /\ inbox = [c \in Conns |-> <<>>]
    /\ replies = [c \in Conns |-> <<>>]
    /\ backlog = <<>>
    /\ fds = [f \in Fds |-> None]
    /\ interest = [f \in AllFds |-> IF f = Lfd THEN Listener ELSE None]
    /\ armed = {Lfd}
    /\ heap = [c \in Conns |-> "none"]
    /\ fd = [c \in Conns |-> NoFd]
    /\ magic_read = [c \in Conns |-> FALSE]
    /\ req = [c \in Conns |-> InitReq]
    /\ buff = [c \in Conns |-> <<>>]
    /\ reactor = "loop"
    /\ batch = {}
    /\ queue = <<>>
    /\ holding = [w \in Workers |-> None]
    /\ closed = FALSE
    /\ stopped = {}
    /\ wpc = [w \in Workers |-> "idle"]
    /\ cfd = [w \in Workers |-> NoFd]

ClientStep(c) == Connect(c) \/ Send(c) \/ Close(c) \/ Reset(c)

ReactorStep ==
    \/ EpollWait
    \/ EpollFails
    \/ CloseListener
    \/ CloseEpoll
    \/ DestroyPool
    \/ FreeServer
    \/ \E x \in batch : ReactorPut(x) \/ ReactorSkip(x)

LfdCallback(w) == Accept(w) \/ RearmListener(w) \/ AddConn(w)

CfdCallback(w) ==
    \/ Fill(w)
    \/ NotReady(w)
    \/ ReadMagic(w)
    \/ ReadRequestLine(w)
    \/ ReadArgs(w)
    \/ Respond(w)
    \/ Rearm(w)
    \/ Del(w)
    \/ Destroy(w)

WorkerStep(w) == Take(w) \/ LfdCallback(w) \/ CfdCallback(w) \/ Return(w) \/ Stop(w)

Next ==
    \/ \E c \in Conns : ClientStep(c)
    \/ ReactorStep
    \/ \E w \in Workers : WorkerStep(w)

Spec == Init /\ [][Next]_vars

\* The reactor and the workers keep running; handlers return and responses are
\* read by their clients. Clients and faults are under no obligation.
Fairness ==
    /\ WF_vars(EpollWait)
    /\ WF_vars(\E x \in batch : ReactorPut(x))
    /\ \A w \in Workers : WF_vars(WorkerStep(w))

FairSpec == Spec /\ Fairness

-----------------------------------------------------------------------------
(* Properties *)

TypeOK ==
    /\ peer \in [Conns -> {"new", "open", "closed"}]
    /\ sent \in [Conns -> 0 .. 2 * MaxReqs + 1]
    /\ inbox \in [Conns -> Seq(Chunks)]
    /\ replies \in [Conns -> Seq(0 .. MaxReqs)]
    /\ backlog \in Seq(Conns)
    /\ fds \in [Fds -> Conns \cup {None}]
    /\ interest \in [AllFds -> Ctxs \cup {None}]
    /\ armed \subseteq AllFds
    /\ heap \in [Conns -> {"none", "live", "freed"}]
    /\ fd \in [Conns -> Fds \cup {NoFd}]
    /\ magic_read \in [Conns -> BOOLEAN]
    /\ req \in [Conns -> Requests]
    /\ buff \in [Conns -> Seq(Chunks)]
    /\ reactor \in ReactorPoints
    /\ batch \subseteq Ctxs
    /\ queue \in Seq(Ctxs)
    /\ holding \in [Workers -> Ctxs \cup {None}]
    /\ closed \in BOOLEAN
    /\ stopped \subseteq Workers
    /\ wpc \in [Workers -> Points]
    /\ cfd \in [Workers -> Fds \cup {NoFd}]

\* Where a context can be found: enabled in epoll, in evs, in the queue of the
\* pool, or in the hands of a worker that may still use it.
Armed == {interest[f] : f \in armed}
Queued == {queue[i] : i \in DOMAIN queue}
Using(w) == wpc[w] \in {"accept", "rearm_listener"} \cup ConnPoints
Used == {holding[w] : w \in {v \in Workers : Using(v)}}

\* A context is in at most one of these places, and there once: two workers never
\* run in one connection, and no event of it is handled while one does.
OneHolder ==
    /\ Armed \cap (batch \cup Queued \cup Used) = {}
    /\ batch \cap (Queued \cup Used) = {}
    /\ Queued \cap Used = {}
    /\ \A i, j \in DOMAIN queue : queue[i] = queue[j] => i = j
    /\ \A v, w \in Workers : Using(v) /\ Using(w) /\ holding[v] = holding[w] => v = w

\* No context is reached after it was freed or before it was built.
NoUseAfterFree ==
    \A c \in Conns : c \in Armed \cup batch \cup Queued \cup Used => heap[c] = "live"

\* The descriptor of a context is open on its own connection for as long as the
\* context lives, however the kernel reuses numbers: no read, write, rearm, DEL or
\* close of a worker reaches another connection.
FdInv ==
    /\ \A c \in Conns : heap[c] = "live" => fd[c] \in Fds /\ fds[fd[c]] = c
    /\ \A f \in Fds : interest[f] # None =>
          /\ interest[f] \in Conns
          /\ heap[interest[f]] = "live"
          /\ fd[interest[f]] = f

\* accept and read are called only when they do not block.
NeverBlocks ==
    \A w \in Workers :
        /\ wpc[w] = "accept" => backlog # <<>> \/ FreeFds = {} \/ ~LfdOpen
        /\ wpc[w] = "fill" => Readable(fds[fd[holding[w]]])

\* An event is never lost: every live context, and the one of the listening socket,
\* is in one of the places, so that its next event is noticed.
NotStranded ==
    "no_epollin" \notin Faults /\ reactor = "loop" =>
        /\ \A c \in Conns : heap[c] = "live" => c \in Armed \cup batch \cup Queued \cup Used
        /\ Listener \in Armed \cup batch \cup Queued \cup Used

\* What makes the properties above inductive. A worker between two callbacks holds no
\* context; one inside a callback holds one of the right kind.
HoldInv ==
    \A w \in Workers :
        /\ wpc[w] = "idle" <=> holding[w] = None
        /\ wpc[w] \in ListenerPoints => holding[w] = Listener
        /\ wpc[w] \in ConnPoints => holding[w] \in Conns

\* An enabled registration exists, and the one of lfd is the listening socket's.
EpollInv ==
    /\ \A f \in armed : interest[f] # None
    /\ interest[Lfd] \in {Listener, None}
    /\ LfdOpen => interest[Lfd] = Listener

\* A registered descriptor is the one its context has, and a context stays registered
\* from EPOLL_CTL_ADD to EPOLL_CTL_DEL while the epoll instance is open.
RegisteredInv ==
    EpollOpen => \A c \in Conns :
        heap[c] = "live" /\ (\A w \in Workers : wpc[w] = "destroy" => holding[w] # c)
            => interest[fd[c]] = c

\* A connection accepted and not yet registered belongs to the one worker accepting it.
AcceptInv ==
    \A w \in Workers : cfd[w] # NoFd =>
        /\ wpc[w] \in {"rearm_listener", "add"}
        /\ fds[cfd[w]] \in Conns
        /\ heap[fds[cfd[w]]] = "none"
        /\ interest[cfd[w]] = None
        /\ \A v \in Workers : cfd[v] = cfd[w] => v = w

\* A connection is in the backlog once and then open on one descriptor.
InBacklog == {backlog[i] : i \in DOMAIN backlog}
FreshInv ==
    /\ \A c \in Conns : peer[c] = "new" \/ c \in InBacklog =>
          heap[c] = "none" /\ \A f \in Fds : fds[f] # c
    /\ \A c \in InBacklog : peer[c] # "new"
    /\ \A i, j \in DOMAIN backlog : backlog[i] = backlog[j] => i = j
    /\ \A f, g \in Fds : fds[f] = fds[g] /\ fds[f] # None => f = g

\* An event that was reported and not yet handled is still there.
EventInv ==
    /\ Listener \in batch \cup Queued \/ (\E w \in Workers : wpc[w] = "accept")
          => backlog # <<>> \/ ~LfdOpen
    /\ \A c \in Conns : c \in batch \cup Queued => Readable(c)
    /\ \A w \in Workers : wpc[w] = "fill" => Readable(holding[w])

IInv ==
    /\ TypeOK
    /\ HoldInv
    /\ EpollInv
    /\ RegisteredInv
    /\ AcceptInv
    /\ FreshInv
    /\ EventInv
    /\ OneHolder
    /\ NoUseAfterFree
    /\ FdInv
    /\ NotStranded

\* The responses of a connection answer its requests in the order they were sent,
\* each once, none before it was sent.
InOrder ==
    \A c \in Conns : /\ 2 * Len(replies[c]) < sent[c] \/ replies[c] = <<>>
                     /\ \A i \in DOMAIN replies[c] : replies[c][i] = i

\* The last response the server gave c, in full or not, is one whose data goes past wbuf.
CutShort(c) ==
    \E n \in 1 .. MaxReqs : /\ <<c, n>> \in Large
                           /\ sent[c] > 2 * n
                           /\ Len(replies[c]) \in {n - 1, n}

\* The server hangs up on a client that keeps to the protocol only after it has, or after
\* a response that went past wbuf.
HonestKept == \A c \in Honest : heap[c] = "freed" => peer[c] = "closed" \/ CutShort(c)

\* A connection asked for has been accepted, whatever the others do.
Accepted == \A c \in Conns : peer[c] # "new" => heap[c] # "none"

\* What becomes of the n-th request of c: an answer, or the connection is given up
\* because the response goes past wbuf.
Settled(c, n) ==
    IF <<c, n>> \in Large THEN heap[c] = "freed" ELSE Len(replies[c]) >= n

\* Every request an honest client has sent, up to the first whose response goes past
\* wbuf, is settled, unless the client has closed.
Answered ==
    \A c \in Honest, n \in 1 .. MaxReqs :
        (\A m \in 1 .. n - 1 : <<c, m>> \notin Large) =>
            (sent[c] > 2 * n => Settled(c, n) \/ peer[c] = "closed")

\* No client waits for ever: each connection is accepted, and the requests of an honest
\* client are answered, however they are pipelined. What a client has asked for and what
\* it has got are never taken back, so this says of each request that it leads to its
\* answer.
EveryoneServed == <>[](Accepted /\ Answered)

\* The descriptor of a connection its client has closed is closed in the end.
Released ==
    <>[](\A c \in Conns : peer[c] = "closed" => \A f \in Fds : fds[f] # c)
=============================================================================
