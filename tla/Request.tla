------------------------------ MODULE Request ------------------------------
(***************************************************************************)
(* How the bytes of one connection become requests: cfd_callback of        *)
(* server.c with buffer_fill of buffer.c and read_request of request.c.    *)
(* The connection's context is in the hands of one worker at a time        *)
(* (OneHolder of Server), so its callbacks follow one another.             *)
(*                                                                         *)
(* A byte is known by its place in what the client writes: the magic       *)
(* number, then for each request a line that ends in a newline and for     *)
(* each argument a head and its data, the type name included. The client   *)
(* writes them in pieces of any size and read returns pieces of any size.  *)
(***************************************************************************)
EXTENDS Naturals, Sequences, FiniteSets, SequencesExt

CONSTANTS
  Cap,        \* capacity of the read buffer, 4096
  MagicSize,  \* MAGIC_SIZE
  HeadSize,   \* the bytes of an argument's head, 8
  Streams,    \* what the client may write: sequences of messages
  Magics,     \* whether it begins with the right magic number
  Resets      \* whether the client may reset the connection

ASSUME SizesAssumption == /\ MagicSize \in 1 .. Cap
                          /\ HeadSize \in 1 .. Cap
                          /\ Cap \in Nat
ASSUME FlagsAssumption == Magics \subseteq BOOLEAN /\ Resets \in BOOLEAN
\* a message: the bytes of its line with the newline, whether the line is well formed and
\* whether it names a registered service, the bytes of data of each argument, and whether
\* the response to it fits into wbuf
Messages == [line : Nat \ {0}, ok : BOOLEAN, known : BOOLEAN, args : Seq(Nat), fits : BOOLEAN]
ASSUME StreamsAssumption == Streams \subseteq Seq(Messages)

VARIABLES
  msgs,       \* the messages the client writes
  stream,     \* their bytes
  sent,       \* how many of them the client has written
  got,        \* how many of them the server has read
  peer,       \* "open", "closed" or "reset"
  b,          \* ctx->buff
  magic_read, \* ctx->magic_read
  req,        \* ctx->req
  blocks,     \* the blocks malloc'ed for data of arguments and not freed
  served,     \* the requests handed to handlers
  pc,         \* where cfd_callback is; "idle" between two callbacks
  err,        \* ctx->err
  ret         \* what the last buffer_fill returned

peerVars == <<msgs, stream, sent, peer>>
vars == <<msgs, stream, sent, got, peer, b, magic_read, req, blocks, served, pc, err, ret>>

Buff == INSTANCE Buffer WITH Garbage <- [kind |-> "garbage", msg |-> 0, arg |-> 0, pos |-> 0]

-----------------------------------------------------------------------------
(* The bytes of the stream *)

Byte(k, m, a, p) == [kind |-> k, msg |-> m, arg |-> a, pos |-> p]

LineBytes(m, n) == [p \in 1 .. n |-> Byte(IF p = n THEN "newline" ELSE "text", m, 0, p)]
HeadBytes(m, a) == [p \in 1 .. HeadSize |-> Byte("head", m, a, p)]
DataBytes(m, a, n) == [p \in 1 .. n |-> Byte("data", m, a, p)]

ArgBytes(m, a, n) == HeadBytes(m, a) \o DataBytes(m, a, n)
ArgsBytes(m, args) == [a \in DOMAIN args |-> ArgBytes(m, a, args[a])]

MsgBytes(m, msg) == LineBytes(m, msg.line) \o FlattenSeq(ArgsBytes(m, msg.args))
MsgsBytes(s) == [m \in DOMAIN s |-> MsgBytes(m, s[m])]

-----------------------------------------------------------------------------
(* The client *)

Send ==
    /\ peer = "open"
    /\ sent' \in sent + 1 .. Len(stream)
    /\ UNCHANGED <<msgs, stream, got, peer, b, magic_read, req, blocks, served, pc, err, ret>>

Hangup ==
    /\ peer = "open"
    /\ peer' \in {"closed"} \cup (IF Resets THEN {"reset"} ELSE {})
    /\ UNCHANGED <<msgs, stream, sent, got, b, magic_read, req, blocks, served, pc, err, ret>>

-----------------------------------------------------------------------------
(* buffer_fill *)

InitReq == [state |-> "READING_REQUEST_LINE", msg |-> 0, argcnt |-> 0, head |-> <<>>, args |-> <<>>]

AfterFill == IF magic_read THEN "request" ELSE "magic"

\* Mutant of Fill: the buffered bytes are never moved to the front.
FillWithoutAdjust ==
    /\ pc = "idle"
    /\ \/ /\ peer # "reset" /\ sent > got /\ b.cap > b.rear
          /\ \E n \in 1 .. Min({sent - got, b.cap - b.rear}) :
               /\ b' = Buff!Filled(b, SubSeq(stream, got + 1, got + n))
               /\ got' = got + n
          /\ ret' = 1
          /\ pc' = AfterFill
          /\ UNCHANGED err
       \/ /\ peer # "reset" /\ (b.cap = b.rear \/ (sent = got /\ peer = "closed"))
          /\ sent > got \/ peer = "closed"
          /\ err' = "peer close connetion"
          /\ ret' = -1
          /\ pc' = "bad"
          /\ UNCHANGED <<b, got>>
       \/ /\ peer = "reset"
          /\ err' = "errno"
          /\ ret' = -1
          /\ pc' = "bad"
          /\ UNCHANGED <<b, got>>
    /\ UNCHANGED <<peerVars, magic_read, req, blocks, served>>

\* epoll has reported the connection. A read into no room returns 0 like one from a
\* connection the client has closed; one from a reset connection fails.
Fill ==
    /\ pc = "idle"
    /\ sent > got \/ peer # "open"
    /\ LET full == IF b.rear = b.cap THEN Buff!Adjust(b) ELSE b
           room == full.cap - full.rear
       IN \/ /\ peer # "reset" /\ sent > got /\ room > 0
             /\ \E n \in 1 .. Min({sent - got, room}) :
                  /\ b' = Buff!Filled(full, SubSeq(stream, got + 1, got + n))
                  /\ got' = got + n
             /\ ret' = 1
             /\ pc' = AfterFill
             /\ UNCHANGED err
          \/ /\ peer # "reset" /\ (sent = got \/ room = 0)
             /\ err' = "peer close connetion"
             /\ ret' = -1
             /\ pc' = "bad"
             /\ b' = full
             /\ UNCHANGED got
          \/ /\ peer = "reset"
             /\ err' = "errno"
             /\ ret' = -1
             /\ pc' = "bad"
             /\ b' = full
             /\ UNCHANGED got
    /\ UNCHANGED <<peerVars, magic_read, req, blocks, served>>

-----------------------------------------------------------------------------
(* cfd_callback and read_request *)

NotReady == pc' = "idle"
Bad(e) == pc' = "bad" /\ err' = e

ReadMagic ==
    /\ pc = "magic"
    /\ \/ /\ Buff!Buffered(b) < MagicSize
          /\ NotReady
          /\ UNCHANGED <<b, magic_read, err>>
       \/ /\ Buff!Buffered(b) >= MagicSize
          /\ Buff!Copy(b, MagicSize) # [p \in 1 .. MagicSize |-> Byte("magic", 0, 0, p)]
          /\ Bad("invalid magic number")
          /\ UNCHANGED <<b, magic_read>>
       \/ /\ Buff!Buffered(b) >= MagicSize
          /\ Buff!Copy(b, MagicSize) = [p \in 1 .. MagicSize |-> Byte("magic", 0, 0, p)]
          /\ b' = Buff!Drop(b, MagicSize)
          /\ magic_read' = TRUE
          /\ pc' = "request"
          /\ UNCHANGED err
    /\ UNCHANGED <<peerVars, got, req, blocks, served, ret>>

Newlines == {i \in 1 .. b.rear - b.front : b.buf[b.front + i - 1].kind = "newline"}

\* what was cut out as a line is the line of message m, and it has the right form
IsLine(line, m) ==
    /\ m \in DOMAIN msgs
    /\ msgs[m].ok
    /\ line = LineBytes(m, msgs[m].line)
    /\ Len(msgs[m].args) < 10

\* parse_request_line
ParseLine ==
    /\ pc = "request"
    /\ req.state = "READING_REQUEST_LINE"
    /\ \/ /\ Newlines = {}
          /\ IF Buff!Available(b) = 0 THEN Bad("invalid request line") ELSE NotReady /\ UNCHANGED err
          /\ UNCHANGED <<b, req>>
       \/ /\ Newlines # {}
          /\ LET n == Min(Newlines)
                 line == Buff!Copy(b, n)
                 m == line[n].msg
             IN IF IsLine(line, m)
                THEN /\ b' = Buff!Drop(b, n)
                     /\ req' = [req EXCEPT !.state = "READING_ARGS", !.msg = m,
                                           !.argcnt = Len(msgs[m].args)]
                     /\ UNCHANGED <<pc, err>>
                ELSE /\ Bad("invalid request line")
                     /\ b' \in {b, Buff!Drop(b, n)}
                     /\ UNCHANGED req
    /\ UNCHANGED <<peerVars, got, magic_read, blocks, served, ret>>

ReadingArg ==
    /\ pc = "request"
    /\ req.state = "READING_ARGS"
    /\ Len(req.args) < req.argcnt

\* Mutant of ReadHead: head_bytes_read is not set, the next callback reads a head again.
ReadHeadTwice ==
    /\ ReadingArg
    /\ req.head = <<>>
    /\ \/ /\ Buff!Buffered(b) < HeadSize
          /\ NotReady
          /\ UNCHANGED <<b, req>>
       \/ /\ Buff!Buffered(b) >= HeadSize
          /\ b' = Buff!Drop(b, HeadSize)
          /\ IF Buff!Buffered(b) = HeadSize
             THEN NotReady /\ UNCHANGED req
             ELSE req' = [req EXCEPT !.head = Buff!Copy(b, HeadSize)] /\ UNCHANGED pc
    /\ UNCHANGED <<peerVars, got, magic_read, blocks, served, err, ret>>

\* parse_args: type_kind, type_name_len and data_len of cur_arg
ReadHead ==
    /\ ReadingArg
    /\ req.head = <<>>
    /\ \/ /\ Buff!Buffered(b) < HeadSize
          /\ NotReady
          /\ UNCHANGED <<b, req>>
       \/ /\ Buff!Buffered(b) >= HeadSize
          /\ b' = Buff!Drop(b, HeadSize)
          /\ req' = [req EXCEPT !.head = Buff!Copy(b, HeadSize)]
          /\ UNCHANGED pc
    /\ UNCHANGED <<peerVars, got, magic_read, blocks, served, err, ret>>

\* The size a head states; eight bytes that are no head state any size.
DataSizes(head) ==
    LET stated == UNION {{msgs[m].args[a] : a \in {x \in DOMAIN msgs[m].args : head = HeadBytes(m, x)}}
                            : m \in DOMAIN msgs}
    IN IF stated # {} THEN stated ELSE 0 .. Cap + 1

\* parse_args: type name and data of cur_arg, copied to blocks of their own
ReadData ==
    LET a == Len(req.args) + 1
    IN /\ ReadingArg
       /\ req.head # <<>>
       /\ \E n \in DataSizes(req.head) :
            \/ /\ Buff!Buffered(b) < n
               /\ NotReady
               /\ UNCHANGED <<b, req, blocks>>
            \/ /\ Buff!Buffered(b) >= n
               /\ b' = Buff!Drop(b, n)
               /\ req' = [req EXCEPT !.args = Append(@, Buff!Copy(b, n)), !.head = <<>>]
               /\ blocks' = IF n = 0 THEN blocks ELSE blocks \cup {<<req.msg, a>>}
               /\ UNCHANGED pc
       /\ UNCHANGED <<peerVars, got, magic_read, served, err, ret>>

Complete ==
    /\ pc = "request"
    /\ req.state = "READING_ARGS"
    /\ Len(req.args) = req.argcnt

\* hashmap_get finds no handler
Refuse ==
    /\ Complete
    /\ ~msgs[req.msg].known
    /\ Bad("no such service")
    /\ UNCHANGED <<peerVars, got, b, magic_read, req, blocks, served, ret>>

\* Mutant of Handle: the callback ends after one request, whatever else is buffered.
HandleOne ==
    /\ Complete
    /\ msgs[req.msg].known
    /\ served' = Append(served, [msg |-> req.msg, args |-> req.args])
    /\ req' = InitReq
    /\ NotReady
    /\ UNCHANGED <<peerVars, got, b, magic_read, blocks, err, ret>>

\* The handler, send_response and request_set_init_state, which frees the array of the
\* arguments and none of the blocks they point to. send_response may fail once the client
\* has hung up, and always does after data past wbuf: its flush then writes 0 bytes.
Handle ==
    /\ Complete
    /\ msgs[req.msg].known
    /\ served' = Append(served, [msg |-> req.msg, args |-> req.args])
    /\ \/ msgs[req.msg].fits /\ req' = InitReq /\ UNCHANGED <<pc, err>>
       \/ ~msgs[req.msg].fits /\ Bad("peer close connetion") /\ UNCHANGED req
       \/ peer # "open" /\ Bad("errno") /\ UNCHANGED req
    /\ UNCHANGED <<peerVars, got, b, magic_read, blocks, ret>>

\* bad: evctx_destroy; request_destroy frees the blocks of the request being read
Destroy ==
    /\ pc = "bad"
    /\ pc' = "closed"
    /\ req' = InitReq
    /\ blocks' = blocks \ {<<req.msg, a>> : a \in DOMAIN req.args}
    /\ UNCHANGED <<peerVars, got, b, magic_read, served, err, ret>>

-----------------------------------------------------------------------------

Init ==
    /\ msgs \in Streams
    /\ \E right \in Magics :
         stream = [p \in 1 .. MagicSize |-> Byte(IF right THEN "magic" ELSE "text", 0, 0, p)]
                     \o FlattenSeq(MsgsBytes(msgs))
    /\ sent = 0
    /\ got = 0
    /\ peer = "open"
    /\ b = Buff!New(Cap)
    /\ magic_read = FALSE
    /\ req = InitReq
    /\ blocks = {}
    /\ served = <<>>
    /\ pc = "idle"
    /\ err = "null"
    /\ ret = 1

CfdCallback == Fill \/ ReadMagic \/ ParseLine \/ ReadHead \/ ReadData \/ Refuse \/ Handle \/ Destroy

Next == Send \/ Hangup \/ CfdCallback

Spec == Init /\ [][Next]_vars

\* Server keeps handing the connection to a worker while it is readable (Answered), and a
\* worker finishes its callback; handlers return. The client need not do anything.
FairSpec == Spec /\ WF_vars(CfdCallback)

-----------------------------------------------------------------------------
(* Properties *)

TypeOK ==
    /\ sent \in 0 .. Len(stream)
    /\ got \in 0 .. sent
    /\ peer \in {"open", "closed", "reset"}
    /\ b.len \in 0 .. Cap /\ b.front \in 0 .. Cap /\ b.rear \in 0 .. Cap /\ b.cap = Cap
    /\ DOMAIN b.buf = 0 .. Cap - 1
    /\ magic_read \in BOOLEAN
    /\ req.state \in {"READING_REQUEST_LINE", "READING_ARGS"}
    /\ req.msg \in 0 .. Len(msgs)
    /\ Len(req.args) <= req.argcnt
    /\ pc \in {"idle", "magic", "request", "bad", "closed"}
    /\ err \in {"null", "peer close connetion", "errno", "invalid magic number", "invalid request line",
                "no such service"}
    /\ ret \in {1, -1}

\* buffer_buffered counts the bytes between front and rear, so that the parser never
\* takes bytes of an earlier request, or bytes it has not been given, for the next one.
CursorInv == b.rear = b.front + b.len /\ b.rear <= b.cap

\* The bytes in the buffer are the last ones read, in the order they were sent, wherever
\* in the block buffer_adjust has moved them.
BufferedInv == Buff!Content(b) = SubSeq(stream, got - b.len + 1, got)

\* Nothing is lost or doubled between read and the parser.
BufferRight == TypeOK /\ CursorInv /\ BufferedInv

\* where each of the sequences of bytes ends when they follow one another
Ends(pieces) ==
    LET end[i \in 0 .. Len(pieces)] == IF i = 0 THEN 0 ELSE end[i - 1] + Len(pieces[i]) IN end

\* Where message m ends in the stream.
End(m) == MagicSize + Ends(MsgsBytes(msgs))[m]

\* A message the server accepts: a known service, a line and data that each fit into the buffer.
Accepted(m) ==
    /\ msgs[m].ok /\ msgs[m].known
    /\ msgs[m].line <= Cap
    /\ Len(msgs[m].args) < 10
    /\ \A a \in DOMAIN msgs[m].args : msgs[m].args[a] <= Cap

\* however the bytes were cut into pieces, the requests handed to handlers are the ones
\* sent: in order, complete, with the data of their own arguments, and only acceptable ones.
Faithful ==
    \A i \in DOMAIN served :
        /\ Accepted(i)
        /\ served[i].msg = i
        /\ served[i].args = [a \in DOMAIN msgs[i].args |-> DataBytes(i, a, msgs[i].args[a])]

AllAccepted == \A m \in DOMAIN msgs : Accepted(m)
RightMagic == stream[1].kind = "magic"

\* The response to the request handled last did not fit into wbuf.
CutShort == served # <<>> /\ ~msgs[Len(served)].fits

\* A client whose requests are acceptable is hung up on only after it has hung up, or
\* after a response that did not fit into wbuf.
KeptOpen ==
    AllAccepted /\ RightMagic /\ pc \in {"bad", "closed"} => peer # "open" \/ CutShort

\* Every acceptable request that was sent in full is handled, unless the client hangs up
\* or the response to an earlier one does not fit into wbuf. epoll reports new bytes only:
\* nobody comes back for a request a callback has left in the buffer.
Served ==
    \A m \in 1 .. 2 :
        (/\ m \in DOMAIN msgs /\ AllAccepted /\ RightMagic /\ sent >= End(m)
         /\ \A k \in 1 .. m - 1 : msgs[k].fits)
            ~> (Len(served) >= m \/ peer # "open")

\* README: the memory of the arguments is freed when the request has ended.
ArgumentsFreed == \A p \in blocks : p[1] = req.msg /\ p[2] \in DOMAIN req.args
=============================================================================
