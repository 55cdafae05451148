------------------------------- MODULE Client -------------------------------
(***************************************************************************)
(* Threads that share one client_t: client_call of client.c on the write   *)
(* side of buffer.c, and what a generated stub does with the outcome. The  *)
(* server is there as its client sees it: it reads requests in order,      *)
(* writes each response with send_response of server.c, and may die.       *)
(*                                                                         *)
(* A call is known by its sequence number. Its request is written in       *)
(* pieces, one for each call of buffer_write; the server's answer is a     *)
(* head and a body. A byte carries the call it belongs to and its place.   *)
(***************************************************************************)
EXTENDS Naturals, Sequences, SequencesExt

CONSTANTS
  Callers,  \* the threads that use the client
  Calls,    \* the calls each of them makes, one after the other
  Cap,      \* capacity of a write buffer, 4096
  Crashes,  \* whether the server may die
  None,     \* no thread, nothing returned yet
  Failed    \* what a stub returns when client_failed

\* a call: the bytes of each piece, and the kind and size of the response's body
CallsOf == [pieces : Seq(Nat), kind : {"value", "nortn", "error"}, size : Nat]

ASSUME CapAssumption     == Cap \in Nat \ {0} /\ Crashes \in BOOLEAN /\ {None, Failed} \cap Callers = {}
ASSUME CallsAssumption   == Calls \in [Callers -> Seq(CallsOf)]
\* a request line has at least its newline, and a handler of no result answers with a head
ASSUME SizesAssumption   ==
    \A t \in Callers : \A i \in DOMAIN Calls[t] :
        /\ \E p \in DOMAIN Calls[t][i].pieces : Calls[t][i].pieces[p] > 0
        /\ Calls[t][i].kind = "nortn" => Calls[t][i].size = 0

VARIABLES
  lock,     \* who holds cli->seq_lock, or None
  seq,      \* cli->seq
  err,      \* cli->err: "null", or what happened
  wbuf,     \* cli->buff->wbuf up to wbuf_len
  pc,       \* where each thread is
  made,     \* how many calls each thread has begun
  cur,      \* the sequence number of the call each thread is in
  at,       \* the piece it writes next
  head,     \* the response head it has read, or None
  resp,     \* what it has read as its response
  issued,   \* the calls that have a sequence number: the one of number s is issued[s + 1]
  result,   \* for each of them None, Failed, or the response the stub returned
  \* the connection and the server
  wire,     \* every byte written to the connection
  taken,    \* how many of them the server has parsed
  outbox,   \* the bytes written by the server and not read yet
  svr,      \* "open", "closed" by the server, or "crashed"
  handled   \* the numbers of the calls whose handlers have run

threadVars == <<pc, made, cur, at, head, resp>>
netVars    == <<wire, taken, outbox, svr, handled>>
vars == <<lock, seq, err, wbuf, threadVars, issued, result, netVars>>

Buff == INSTANCE Buffer WITH Garbage <- None

Points == {"idle", "lock", "write", "flush", "read_head", "read_body", "unlock", "check"}

-----------------------------------------------------------------------------
(* Bytes *)

\* where each piece ends
Ends(pieces) == LET end[i \in 0 .. Len(pieces)] == IF i = 0 THEN 0 ELSE end[i - 1] + pieces[i] IN end
SizeOf(pieces) == Ends(pieces)[Len(pieces)]

\* of the request s the bytes behind i up to j
Part(s, i, j) == [k \in 1 .. j - i |-> <<s, i + k>>]
RequestBytes(s) == Part(s, 0, SizeOf(issued[s + 1].pieces))
Piece(s, i) ==
    LET ends == Ends(issued[s + 1].pieces)
    IN Part(s, ends[i - 1], ends[i])

\* the response to the call c of number s
HeadTo(s, c) == [seq |-> s, kind |-> c.kind, at |-> 0]
BodyTo(s, c) == [k \in 1 .. c.size |-> [HeadTo(s, c) EXCEPT !.at = k]]
HeadOf(s) == HeadTo(s, issued[s + 1])
Body(s) == BodyTo(s, issued[s + 1])

\* conn_write one after the other: how many succeed. One of no bytes returns 0, which
\* counts as a failure; one to a server that is gone may fail or be lost.
Successes(writes) ==
    {j \in 0 .. Len(writes) :
        /\ \A i \in 1 .. j : writes[i] # <<>>
        /\ j < Len(writes) => writes[j + 1] = <<>> \/ svr # "open"}

Goto(t, point) == pc' = [pc EXCEPT ![t] = point]

\* Mutant of Writing: what has been written out stays in the buffer.
WritingKeeps(writes) ==
    \E j \in Successes(writes) :
        /\ wire' = IF svr = "open" THEN wire \o FlattenSeq(SubSeq(writes, 1, j)) ELSE wire
        /\ err' = IF j < Len(writes) THEN "write" ELSE err
        /\ UNCHANGED wbuf

\* The thread writes out these, and goes on; the first that fails sets err.
Writing(writes) ==
    \E j \in Successes(writes) :
        /\ wire' = IF svr = "open" THEN wire \o FlattenSeq(SubSeq(writes, 1, j)) ELSE wire
        /\ err' = IF j < Len(writes) THEN "write" ELSE err
        /\ wbuf' = IF j = 0 THEN wbuf ELSE <<>>

-----------------------------------------------------------------------------
(* client_call *)

Call(t) ==
    /\ pc[t] = "idle"
    /\ made[t] < Len(Calls[t])
    /\ made' = [made EXCEPT ![t] = @ + 1]
    /\ resp' = [resp EXCEPT ![t] = <<>>]
    /\ Goto(t, "lock")
    /\ UNCHANGED <<lock, seq, err, wbuf, cur, at, head, issued, result, netVars>>

\* the number is counted up even when nothing can be sent any more
Lock(t) ==
    /\ pc[t] = "lock"
    /\ lock = None
    /\ lock' = t
    /\ cur' = [cur EXCEPT ![t] = seq]
    /\ seq' = seq + 1
    /\ at' = [at EXCEPT ![t] = 1]
    /\ issued' = Append(issued, Calls[t][made[t]])
    /\ result' = Append(result, None)
    /\ Goto(t, "write")
    /\ UNCHANGED <<err, wbuf, made, head, resp, netVars>>

\* One buffer_write of client_send_request_line or client_send_arguments. Once err is
\* set the others return at once.
Write(t) ==
    /\ pc[t] = "write"
    /\ \/ /\ err # "null"
          /\ Goto(t, "unlock")
          /\ UNCHANGED <<err, wbuf, at, wire>>
       \/ /\ err = "null"
          /\ at[t] > Len(issued[cur[t] + 1].pieces)
          /\ Goto(t, "flush")
          /\ UNCHANGED <<err, wbuf, at, wire>>
       \/ /\ err = "null"
          /\ at[t] <= Len(issued[cur[t] + 1].pieces)
          /\ at' = [at EXCEPT ![t] = @ + 1]
          /\ LET out == Buff!WriteOut(wbuf, Cap, Piece(cur[t], at[t]))
             IN \/ out.writes # <<>> /\ Writing(out.writes)
                \/ out.writes = <<>> /\ wbuf' = out.pending /\ UNCHANGED <<err, wire>>
          /\ UNCHANGED pc
    /\ UNCHANGED <<lock, seq, made, cur, head, resp, issued, result, taken, outbox, svr, handled>>

\* Mutant of Flush: the lock is released while the response is on its way.
FlushUnlocks(t) ==
    /\ pc[t] = "flush"
    /\ Writing(Buff!FlushOut(wbuf).writes)
    /\ lock' = None
    /\ Goto(t, "read_head")
    /\ UNCHANGED <<seq, made, cur, at, head, resp, issued, result, taken, outbox, svr, handled>>

\* whether it fails or not, the response is read next
Flush(t) ==
    /\ pc[t] = "flush"
    /\ Writing(Buff!FlushOut(wbuf).writes)
    /\ Goto(t, "read_head")
    /\ UNCHANGED <<lock, seq, made, cur, at, head, resp, issued, result, taken, outbox, svr, handled>>

\* read_response up to the kind. read_full waits for all of the head; it fails when the
\* server is gone.
ReadHead(t) ==
    /\ pc[t] = "read_head"
    /\ \/ /\ outbox # <<>>
          /\ head' = [head EXCEPT ![t] = Head(outbox)]
          /\ outbox' = Tail(outbox)
          /\ IF err # "null" \/ Head(outbox).kind = "nortn"
             THEN /\ Goto(t, "unlock")
                  /\ resp' = [resp EXCEPT ![t] = IF err # "null" THEN <<>> ELSE <<Head(outbox)>>]
             ELSE Goto(t, "read_body") /\ UNCHANGED resp
          /\ UNCHANGED err
       \/ /\ outbox = <<>>
          /\ svr # "open"
          /\ err' = "read"
          /\ Goto(t, "unlock")
          /\ UNCHANGED <<head, resp, outbox>>
    /\ UNCHANGED <<lock, seq, wbuf, made, cur, at, issued, result, wire, taken, svr, handled>>

\* Mutant of ReadBody: the message of an error is left in the connection.
ReadBodyNoMessage(t) ==
    LET n == issued[head[t].seq + 1].size
    IN /\ pc[t] = "read_body"
       /\ head[t].kind = "error" \/ Len(outbox) >= n
       /\ IF head[t].kind = "error"
          THEN resp' = [resp EXCEPT ![t] = <<head[t]>>] /\ UNCHANGED outbox
          ELSE /\ outbox' = SubSeq(outbox, n + 1, Len(outbox))
               /\ resp' = [resp EXCEPT ![t] = <<head[t]>> \o SubSeq(outbox, 1, n)]
       /\ Goto(t, "unlock")
       /\ UNCHANGED <<lock, seq, err, wbuf, made, cur, at, head, issued, result, wire, taken, svr, handled>>

\* read_err, or the type name and the data
ReadBody(t) ==
    LET n == issued[head[t].seq + 1].size
    IN /\ pc[t] = "read_body"
       /\ \/ /\ Len(outbox) >= n
             /\ outbox' = SubSeq(outbox, n + 1, Len(outbox))
             /\ IF head[t].kind = "error"
                THEN err' = "handler" /\ UNCHANGED resp
                ELSE /\ resp' = [resp EXCEPT ![t] = <<head[t]>> \o SubSeq(outbox, 1, n)]
                     /\ UNCHANGED err
          \/ /\ Len(outbox) < n
             /\ svr # "open"
             /\ outbox' = <<>>
             /\ err' = "read"
             /\ UNCHANGED resp
       /\ Goto(t, "unlock")
       /\ UNCHANGED <<lock, seq, wbuf, made, cur, at, head, issued, result, wire, taken, svr, handled>>

\* Mutant of Unlock: a call that has failed leaves without unlocking.
UnlockUnlessFailed(t) ==
    /\ pc[t] = "unlock"
    /\ lock' = IF err # "null" THEN lock ELSE None
    /\ Goto(t, "check")
    /\ UNCHANGED <<seq, err, wbuf, made, cur, at, head, resp, issued, result, netVars>>

Unlock(t) ==
    /\ pc[t] = "unlock"
    /\ lock' = None
    /\ Goto(t, "check")
    /\ UNCHANGED <<seq, err, wbuf, made, cur, at, head, resp, issued, result, netVars>>

\* The stub looks at client->err without the lock and returns what was read if there is
\* no error of any thread.
Check(t) ==
    /\ pc[t] = "check"
    /\ result' = [result EXCEPT ![cur[t] + 1] = IF err # "null" THEN Failed ELSE resp[t]]
    /\ Goto(t, "idle")
    /\ UNCHANGED <<lock, seq, err, wbuf, made, cur, at, head, resp, issued, netVars>>

-----------------------------------------------------------------------------
(* The server *)

Inbox == SubSeq(wire, taken + 1, Len(wire))

\* the conn_writes of send_response, and those of them that happen: after one of no
\* bytes cfd_callback destroys the context
ResponseWrites(s) ==
    LET first  == Buff!WriteOut(<<>>, Cap, <<HeadOf(s)>>)
        second == Buff!WriteOut(first.pending, Cap, Body(s))
    IN first.writes \o second.writes \o Buff!FlushOut(second.pending).writes

\* cfd_callback: a whole request is answered; what is not one ends the connection
Serve ==
    /\ svr = "open"
    /\ Inbox # <<>>
    /\ LET s == Inbox[1][1]
           n == Len(RequestBytes(s))
           writes == ResponseWrites(s)
       IN /\ Len(Inbox) >= n
          /\ taken' = taken + n
          /\ IF SubSeq(Inbox, 1, n) = RequestBytes(s)
             THEN /\ handled' = Append(handled, s)
                  /\ outbox' = outbox \o FlattenSeq(writes)
                  /\ svr' = IF <<>> \in {writes[i] : i \in DOMAIN writes} THEN "closed" ELSE svr
             ELSE svr' = "closed" /\ UNCHANGED <<outbox, handled>>
    /\ UNCHANGED <<lock, seq, err, wbuf, threadVars, issued, result, wire>>

\* The server dies, or the network: what is on its way may be lost in part.
Crash ==
    /\ Crashes
    /\ svr = "open"
    /\ svr' = "crashed"
    /\ \E k \in 0 .. Len(outbox) : outbox' = SubSeq(outbox, 1, k)
    /\ UNCHANGED <<lock, seq, err, wbuf, threadVars, issued, result, wire, taken, handled>>

-----------------------------------------------------------------------------

\* client_dial has connected and sent the magic number.
Init ==
    /\ lock = None /\ seq = 0 /\ err = "null" /\ wbuf = <<>>
    /\ pc = [t \in Callers |-> "idle"]
    /\ made = [t \in Callers |-> 0]
    /\ cur = [t \in Callers |-> 0]
    /\ at = [t \in Callers |-> 0]
    /\ head = [t \in Callers |-> None]
    /\ resp = [t \in Callers |-> <<>>]
    /\ issued = <<>> /\ result = <<>>
    /\ wire = <<>> /\ taken = 0 /\ outbox = <<>> /\ svr = "open" /\ handled = <<>>

ClientCall(t) ==
    Lock(t) \/ Write(t) \/ Flush(t) \/ ReadHead(t) \/ ReadBody(t) \/ Unlock(t) \/ Check(t)

Next == Serve \/ Crash \/ \E t \in Callers : Call(t) \/ ClientCall(t)

Spec == Init /\ [][Next]_vars

\* Threads run, the server answers what it has got in full. The mutex need not be fair:
\* the threads make finitely many calls.
FairSpec == Spec /\ WF_vars(Serve) /\ \A t \in Callers : WF_vars(ClientCall(t))

-----------------------------------------------------------------------------
(* Properties *)

TypeOK ==
    /\ lock \in Callers \cup {None}
    /\ seq = Len(issued) /\ Len(result) = seq
    /\ err \in {"null", "write", "read", "handler"}
    /\ Len(wbuf) <= Cap
    /\ pc \in [Callers -> Points]
    /\ \A t \in Callers : made[t] \in 0 .. Len(Calls[t]) /\ cur[t] \in 0 .. seq
    /\ taken \in 0 .. Len(wire)
    /\ svr \in {"open", "closed", "crashed"}

\* What reaches the server are whole requests in the order of their numbers, and at the
\* end at most the beginning of one, whatever failed and whichever thread was at it. A
\* thread that waits for its response has sent its whole request.
RequestsUpTo(n) == FlattenSeq([s \in 1 .. n |-> RequestBytes(s - 1)])
WholeRequests ==
    /\ TypeOK
    /\ IsPrefix(wire, RequestsUpTo(Len(issued)))
    /\ \A t \in Callers :
         pc[t] \in {"read_head", "read_body"} /\ err = "null" /\ svr = "open"
            => wire = RequestsUpTo(cur[t] + 1)

AnswerTo(s, c) == <<HeadTo(s, c)>> \o (IF c.kind = "nortn" THEN <<>> ELSE BodyTo(s, c))
Refusing(c) == c.kind = "error"

\* A call that does not fail returns the response to its own request, in full, though
\* nobody compares the number in the response; a call whose handler failed never does.
OwnAnswer ==
    \A s \in 0 .. Len(result) - 1 :
        \/ result[s + 1] \in {None, Failed}
        \/ ~Refusing(issued[s + 1]) /\ result[s + 1] = AnswerTo(s, issued[s + 1])

\* Between two calls of a client that has not failed nothing is left over, of a request in
\* the buffer or of a response in the connection, for the next call to take as its own.
InStep ==
    lock = None /\ err = "null" => wbuf = <<>> /\ outbox = <<>> /\ (svr = "open" => Inbox = <<>>)

\* Writing or reading fails only if the server died: a client whose handlers all succeed
\* has no failed call while the server lives.
NoFalseFailure == err \in {"write", "read"} => svr = "crashed"

\* That much is true as long as every request and every response fit into a write buffer.
Fits(s) == SizeOf(issued[s + 1].pieces) <= Cap /\ issued[s + 1].size < Cap
FittingSucceed == (\A s \in 0 .. seq - 1 : Fits(s)) => NoFalseFailure

\* The threads get what RpcService promises: their calls are handled in the order of their
\* numbers, each at most once, none behind a lost one, and none after its caller was told
\* that it failed; and a result is that of a handler that has run.
RS == INSTANCE RpcService WITH calls <- issued, results <- result,
                               Requests <- UNION {Range(Calls[t]) : t \in Callers}
ImplementsRpcService == RS!Spec

\* Every call returns, with a response or with an error.
CallsReturn == \A t \in Callers : pc[t] # "idle" ~> pc[t] = "idle"
=============================================================================
