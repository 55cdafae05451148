---------------------------- MODULE ClientProofs ----------------------------
(***************************************************************************)
(* Proofs about Client, for any number of threads, any calls and any       *)
(* capacity of the write buffers: requests and responses that share one    *)
(* connection never mix, and the threads get what RpcService promises.     *)
(***************************************************************************)
EXTENDS Client, DataLemmas

Byte     == Nat \X Nat
Answer   == [seq : Nat, kind : {"value", "nortn", "error"}, at : Nat]
Proper   == {c \in CallsOf : /\ \E p \in DOMAIN c.pieces : c.pieces[p] > 0
                             /\ c.kind = "nortn" => c.size = 0}
Holding  == {"write", "flush", "read_head", "read_body", "unlock"}

-----------------------------------------------------------------------------
(* The inductive invariant *)

Types ==
    /\ lock \in Callers \cup {None}
    /\ issued \in Seq(Proper) /\ seq = Len(issued)
    /\ result \in Seq({None, Failed} \cup Seq(Answer)) /\ Len(result) = seq
    /\ err \in {"null", "write", "read", "handler"}
    /\ wbuf \in Seq(Byte) /\ Len(wbuf) <= Cap
    /\ pc \in [Callers -> Points]
    /\ made \in [Callers -> Nat] /\ \A t \in Callers : made[t] <= Len(Calls[t])
    /\ cur \in [Callers -> Nat] /\ \A t \in Callers : cur[t] <= seq
    /\ at \in [Callers -> Nat]
    /\ head \in [Callers -> Answer \cup {None}]
    /\ resp \in [Callers -> Seq(Answer)]
    /\ wire \in Seq(Byte) /\ taken \in 0 .. Len(wire)
    /\ outbox \in Seq(Answer)
    /\ svr \in {"open", "closed", "crashed"}
    /\ handled \in Seq(Nat)

\* The holder of the lock is in the call that was numbered last; a call has no result
\* before its thread is through the stub's check.
LockInv ==
    /\ \A t \in Callers : lock = t <=> pc[t] \in Holding
    /\ \A t \in Callers : pc[t] = "lock" => made[t] > 0
    /\ \A t \in Callers : pc[t] \in Holding => cur[t] + 1 = seq
    /\ \A t \in Callers : pc[t] \in Holding \cup {"check"} => cur[t] < seq /\ result[cur[t] + 1] = None
    /\ \A t, u \in Callers :
         t # u /\ pc[t] \in Holding \cup {"check"} /\ pc[u] \in Holding \cup {"check"} => cur[t] # cur[u]

\* The connection carries the requests handled, which are the first ones, and of the next
\* one the first j bytes.
WireInv ==
    LET h == Len(handled)
    IN /\ h <= seq
       /\ handled = [i \in 1 .. h |-> i - 1]
       /\ taken = Len(RequestsUpTo(h))
       /\ \E j \in 0 .. Len(wire) :
            /\ wire = RequestsUpTo(h) \o Part(h, 0, j)
            /\ IF h = seq THEN j = 0 ELSE j <= SizeOf(issued[h + 1].pieces)

\* What the holder has passed to buffer_write is in the connection up to some byte and
\* in the buffer from there on; it has been written out early only if it does not fit.
SentInv ==
    \A t \in Callers : pc[t] \in {"write", "flush"} /\ err = "null" =>
        LET m == cur[t]
            pieces == issued[m + 1].pieces
        IN /\ at[t] \in 1 .. Len(pieces) + 1
           /\ pc[t] = "flush" => at[t] = Len(pieces) + 1
           /\ svr = "open" =>
                \E j \in 0 .. Ends(pieces)[at[t] - 1] :
                    /\ wire = RequestsUpTo(m) \o Part(m, 0, j)
                    /\ wbuf = Part(m, j, Ends(pieces)[at[t] - 1])
                    /\ j > 0 => ~Fits(m)

\* the response to the call of number s, in full
Response(s) == <<HeadOf(s)>> \o Body(s)

Answering(rest) == IsPrefix(outbox, rest) /\ (svr # "crashed" => outbox = rest)

\* Until the holder has read it, the bytes on their way to the client are those of the
\* response to its call, and there are none before its request was handled.
OutboxInv ==
    \A t \in Callers :
        /\ pc[t] = "flush" => err = "null"
        /\ pc[t] \in {"flush", "read_head"} \/ (pc[t] = "write" /\ err = "null") =>
             \/ Len(handled) = cur[t] /\ outbox = <<>>
             \/ Len(handled) = seq /\ Answering(Response(cur[t]))
        /\ pc[t] = "read_head" /\ err = "null" => wbuf = <<>> /\ (svr = "open" => wire = RequestsUpTo(seq))
        /\ pc[t] = "read_body" =>
             /\ err = "null" /\ wbuf = <<>> /\ (svr = "open" => wire = RequestsUpTo(seq))
             /\ Len(handled) = seq
             /\ head[t] = HeadOf(cur[t]) /\ head[t].kind # "nortn"
             /\ Answering(Body(cur[t]))

\* While nothing has failed, a call leaves nothing behind and has its own answer.
DoneInv ==
    err = "null" =>
        /\ (lock = None \/ \E t \in Callers : pc[t] = "unlock") =>
             wbuf = <<>> /\ outbox = <<>> /\ Len(handled) = seq
        /\ \A t \in Callers : pc[t] \in {"unlock", "check"} =>
             /\ cur[t] < Len(handled)
             /\ ~Refusing(issued[cur[t] + 1])
             /\ resp[t] = AnswerTo(cur[t], issued[cur[t] + 1])

\* Whoever sent a whole request waits for it to be handled.
OnTimeInv ==
    svr = "open" /\ Len(handled) < seq /\ wire = RequestsUpTo(Len(handled) + 1) =>
        \E t \in Callers :
            /\ cur[t] = Len(handled)
            /\ pc[t] \in {"flush", "read_head"} \/ (pc[t] = "write" /\ err = "null")

\* Without a crash something fails only after a call that does not fit.
FitInv ==
    svr = "closed" \/ (err \in {"write", "read"} /\ svr # "crashed") =>
        \E s \in 0 .. seq - 1 : ~Fits(s)

IInv ==
    /\ Types /\ LockInv /\ WireInv /\ SentInv /\ OutboxInv
    /\ DoneInv /\ OnTimeInv /\ FitInv /\ OwnAnswer

-----------------------------------------------------------------------------
(* Bytes *)

\* the function that Ends builds, for the first n pieces
IsEnds(f, pieces, n) == f = [i \in 0 .. n |-> IF i = 0 THEN 0 ELSE f[i - 1] + pieces[i]]

LEMMA EndsExist ==
    ASSUME NEW pieces, NEW n \in Nat
    PROVE  \E f : IsEnds(f, pieces, n)
<1> DEFINE T == {i \in 0 .. n : \E f : IsEnds(f, pieces, i)}
<1>1. 0 \in T
  <2>1. IsEnds([i \in 0 .. 0 |-> 0], pieces, 0)
    BY DEF IsEnds
  <2> QED
    BY <2>1
<1>2. ASSUME NEW m \in 1 .. n, m - 1 \in T PROVE m \in T
  <2>1. PICK g : IsEnds(g, pieces, m - 1)
    BY <1>2
  <2> DEFINE h == [i \in 0 .. m |-> IF i < m THEN g[i] ELSE g[i - 1] + pieces[i]]
  <2>2. \A i \in 0 .. m - 1 : g[i] = IF i = 0 THEN 0 ELSE g[i - 1] + pieces[i]
    BY <2>1 DEF IsEnds
  <2>3. \A i \in 0 .. m : h[i] = IF i = 0 THEN 0 ELSE h[i - 1] + pieces[i]
    BY <2>2
  <2>4. IsEnds(h, pieces, m)
    BY <2>3 DEF IsEnds
  <2> HIDE DEF h
  <2> QED
    BY <2>4
<1> QED
  <2> HIDE DEF T
  <2>1. n \in T
    BY <1>1, <1>2, UpTo
  <2> QED
    BY <2>1 DEF T

LEMMA EndsRight ==
    ASSUME NEW pieces \in Seq(Nat), NEW n, n = Len(pieces)
    PROVE  /\ Ends(pieces)[0] = 0
           /\ \A i \in 1 .. n : Ends(pieces)[i] = Ends(pieces)[i - 1] + pieces[i]
           /\ \A i \in 0 .. n : Ends(pieces)[i] \in Nat
           /\ \A i \in 0 .. n : Ends(pieces)[i] <= SizeOf(pieces)
<1>1. n \in Nat
  BY LenProperties
<1>2. PICK g : IsEnds(g, pieces, n)
  BY <1>1, EndsExist
<1> DEFINE e == CHOOSE f : IsEnds(f, pieces, n)
<1>3. IsEnds(e, pieces, n)
  BY <1>2
<1>4. Ends(pieces) = e
  BY DEF Ends, IsEnds
<1> HIDE DEF e
<1>5. e[0] = 0 /\ \A i \in 1 .. n : e[i] = e[i - 1] + pieces[i]
  BY <1>1, <1>3, SMTT(30) DEF IsEnds
<1>6. \A i \in 0 .. n : e[i] \in Nat
  <2> DEFINE T == {i \in 0 .. n : e[i] \in Nat}
  <2>1. 0 \in T
    BY <1>1, <1>5
  <2>2. ASSUME NEW i \in 1 .. n, i - 1 \in T PROVE i \in T
    BY <1>5, <2>2
  <2> HIDE DEF T
  <2>3. \A i \in 0 .. n : i \in T
    BY <1>1, <2>1, <2>2, UpTo
  <2> QED
    BY <2>3 DEF T
<1>7. \A i \in 0 .. n : e[i] <= e[n]
  <2> DEFINE T == {i \in 0 .. n : \A k \in 0 .. i : e[k] <= e[i]}
  <2>1. 0 \in T
    BY <1>1, <1>5
  <2>2. ASSUME NEW i \in 1 .. n, i - 1 \in T PROVE i \in T
    <3>1. pieces[i] \in Nat /\ e[i - 1] \in Nat /\ e[i] = e[i - 1] + pieces[i]
      BY <1>1, <1>5, <1>6
    <3>2. ASSUME NEW k \in 0 .. i PROVE e[k] <= e[i]
      <4>1. CASE k = i
        BY <1>6, <4>1
      <4>2. CASE k # i
        <5>1. k \in 0 .. i - 1 /\ e[k] \in Nat
          BY <1>1, <1>6, <4>2
        <5>2. e[k] <= e[i - 1]
          BY <2>2, <5>1
        <5> QED
          BY <3>1, <5>1, <5>2
      <4> QED
        BY <4>1, <4>2
    <3> QED
      BY <3>2
  <2>3. n \in T
    <3> HIDE DEF T
    <3>1. \A i \in 0 .. n : i \in T
      BY <1>1, <2>1, <2>2, UpTo
    <3> QED
      BY <1>1, <3>1
  <2> QED
    BY <2>3
<1> QED
  BY <1>4, <1>5, <1>6, <1>7 DEF SizeOf

\* A call of the threads has a request of at least one byte.
LEMMA SizeRight ==
    ASSUME NEW c \in Proper
    PROVE  /\ c.pieces \in Seq(Nat) /\ c.size \in Nat /\ c.kind \in {"value", "nortn", "error"}
           /\ SizeOf(c.pieces) \in Nat /\ SizeOf(c.pieces) > 0
<1>1. c.pieces \in Seq(Nat) /\ c.size \in Nat /\ c.kind \in {"value", "nortn", "error"}
  BY DEF Proper, CallsOf
<1>2. PICK n : n = Len(c.pieces)
  OBVIOUS
<1>3. n \in Nat /\ DOMAIN c.pieces = 1 .. n
  BY <1>1, <1>2
<1>4. PICK p \in 1 .. n : c.pieces[p] > 0
  BY <1>3 DEF Proper
<1>5. /\ Ends(c.pieces)[p] = Ends(c.pieces)[p - 1] + c.pieces[p]
      /\ Ends(c.pieces)[p - 1] \in Nat
      /\ Ends(c.pieces)[p] <= SizeOf(c.pieces)
  <2>1. p \in 0 .. n /\ p - 1 \in 0 .. n
    BY <1>3
  <2> QED
    BY <1>1, <1>2, <2>1, EndsRight
<1>6. SizeOf(c.pieces) \in Nat
  <2>1. n \in 0 .. n
    BY <1>3
  <2> QED
    BY <1>1, <1>2, <2>1, EndsRight DEF SizeOf
<1>7. c.pieces[p] \in Nat
  BY <1>1, <1>2
<1> QED
  BY <1>1, <1>4, <1>5, <1>6, <1>7

LEMMA PartRight ==
    ASSUME NEW s \in Nat, NEW i \in Nat, NEW j \in Nat, i <= j
    PROVE  /\ Part(s, i, j) \in Seq(Byte)
           /\ Len(Part(s, i, j)) = j - i
           /\ \A k \in 1 .. j - i : Part(s, i, j)[k] = <<s, i + k>>
<1>1. j - i \in Nat
  OBVIOUS
<1>2. \A k \in 1 .. j - i : <<s, i + k>> \in Byte
  BY DEF Byte
<1> QED
  BY <1>1, <1>2 DEF Part

LEMMA PartJoin ==
    ASSUME NEW s \in Nat, NEW i \in Nat, NEW j \in Nat, NEW k \in Nat, i <= j, j <= k
    PROVE  Part(s, i, j) \o Part(s, j, k) = Part(s, i, k)
<1> DEFINE a == Part(s, i, j)
           b == Part(s, j, k)
           c == Part(s, i, k)
<1>1. a \in Seq(Byte) /\ Len(a) = j - i /\ \A l \in 1 .. j - i : a[l] = <<s, i + l>>
  BY PartRight
<1>2. b \in Seq(Byte) /\ Len(b) = k - j /\ \A l \in 1 .. k - j : b[l] = <<s, j + l>>
  BY PartRight
<1>3. c \in Seq(Byte) /\ Len(c) = k - i /\ \A l \in 1 .. k - i : c[l] = <<s, i + l>>
  <2>1. i <= k
    OBVIOUS
  <2> QED
    BY <2>1, PartRight
<1> HIDE DEF a, b, c
<1>4. PICK x \in Nat, y \in Nat : x = j - i /\ y = k - j /\ x + y = k - i /\ i + x = j
  OBVIOUS
<1>5. /\ a \o b \in Seq(Byte) /\ Len(a \o b) = x + y
      /\ \A l \in 1 .. x + y : (a \o b)[l] = IF l <= x THEN a[l] ELSE b[l - x]
  <2>1. Len(a) = x /\ Len(b) = y
    BY <1>1, <1>2, <1>4
  <2> QED
    BY <1>1, <1>2, <2>1, ConcatProperties
<1>6. ASSUME NEW l \in 1 .. x + y PROVE (a \o b)[l] = c[l]
  <2>1. c[l] = <<s, i + l>>
    BY <1>3, <1>4
  <2>2. CASE l <= x
    <3>1. l \in 1 .. j - i
      BY <1>4, <2>2
    <3> QED
      BY <1>1, <1>5, <2>1, <2>2, <3>1
  <2>3. CASE ~(l <= x)
    <3>1. PICK m \in 1 .. k - j : m = l - x /\ j + m = i + l
      BY <1>4, <2>3
    <3>2. b[m] = <<s, i + l>>
      BY <1>2, <3>1
    <3> QED
      BY <1>5, <2>1, <2>3, <3>1, <3>2
  <2> QED
    BY <2>2, <2>3
<1>7. a \o b = c
  BY <1>3, <1>4, <1>5, <1>6, SeqEqual
<1> QED
  BY <1>7 DEF a, b, c

LEMMA PartEmpty ==
    ASSUME NEW s \in Nat, NEW i \in Nat, NEW j \in Nat, i <= j
    PROVE  Part(s, i, j) = <<>> <=> i = j
<1>1. Part(s, i, j) \in Seq(Byte) /\ Len(Part(s, i, j)) = j - i
  BY PartRight
<1> QED
  BY <1>1, EmptySeq

-----------------------------------------------------------------------------
(* Requests and responses *)

LEMMA RequestRight ==
    ASSUME issued \in Seq(Proper), NEW s \in 0 .. Len(issued) - 1
    PROVE  /\ s \in Nat /\ issued[s + 1] \in Proper
           /\ SizeOf(issued[s + 1].pieces) \in Nat /\ SizeOf(issued[s + 1].pieces) > 0
           /\ RequestBytes(s) = Part(s, 0, SizeOf(issued[s + 1].pieces))
           /\ RequestBytes(s) \in Seq(Byte)
           /\ Len(RequestBytes(s)) = SizeOf(issued[s + 1].pieces)
<1>1. s \in Nat /\ s + 1 \in 1 .. Len(issued)
  OBVIOUS
<1>2. issued[s + 1] \in Proper
  BY <1>1
<1>3. SizeOf(issued[s + 1].pieces) \in Nat /\ SizeOf(issued[s + 1].pieces) > 0
  BY <1>2, SizeRight
<1>4. RequestBytes(s) = Part(s, 0, SizeOf(issued[s + 1].pieces))
  BY DEF RequestBytes
<1>5. /\ Part(s, 0, SizeOf(issued[s + 1].pieces)) \in Seq(Byte)
      /\ Len(Part(s, 0, SizeOf(issued[s + 1].pieces))) = SizeOf(issued[s + 1].pieces)
  <2>1. PICK z \in Nat : z = SizeOf(issued[s + 1].pieces) /\ 0 <= z /\ z - 0 = z
    BY <1>3
  <2>2. Part(s, 0, z) \in Seq(Byte) /\ Len(Part(s, 0, z)) = z
    BY <1>1, <2>1, PartRight
  <2> QED
    BY <2>1, <2>2
<1> QED
  BY <1>1, <1>2, <1>3, <1>4, <1>5

\* The first n requests are n - 1 requests and one more.
LEMMA RequestsStep ==
    ASSUME issued \in Seq(Proper)
    PROVE  /\ RequestsUpTo(0) = <<>>
           /\ \A n \in 0 .. Len(issued) : RequestsUpTo(n) \in Seq(Byte)
           /\ \A n \in 0 .. Len(issued) - 1 : RequestsUpTo(n + 1) = RequestsUpTo(n) \o RequestBytes(n)
<1> DEFINE All(n) == [s \in 1 .. n |-> RequestBytes(s - 1)]
<1>1. \A n \in 0 .. Len(issued) : All(n) \in Seq(Seq(Byte))
  <2>1. TAKE n \in 0 .. Len(issued)
  <2>2. ASSUME NEW s \in 1 .. n PROVE RequestBytes(s - 1) \in Seq(Byte)
    <3>1. s - 1 \in 0 .. Len(issued) - 1
      OBVIOUS
    <3> QED
      BY <3>1, RequestRight
  <2> QED
    BY <2>2
<1>2. \A n \in 0 .. Len(issued) : RequestsUpTo(n) \in Seq(Byte)
  BY <1>1, FlatType DEF RequestsUpTo
<1>3. RequestsUpTo(0) = <<>>
  <2>1. All(0) = <<>>
    OBVIOUS
  <2> QED
    BY <2>1, FlatEmpty DEF RequestsUpTo
<1>4. ASSUME NEW n \in 0 .. Len(issued) - 1
      PROVE  RequestsUpTo(n + 1) = RequestsUpTo(n) \o RequestBytes(n)
  <2>1. n \in 0 .. Len(issued) /\ n + 1 \in 0 .. Len(issued) /\ n \in Nat
    OBVIOUS
  <2>2. RequestBytes(n) \in Seq(Byte)
    BY RequestRight
  <2>3. All(n) \in Seq(Seq(Byte)) /\ All(n + 1) \in Seq(Seq(Byte)) /\ Len(All(n)) = n /\ Len(All(n + 1)) = n + 1
    BY <1>1, <2>1
  <2>4. All(n + 1) = Append(All(n), RequestBytes(n))
    <3>1. /\ Append(All(n), RequestBytes(n)) \in Seq(Seq(Byte))
          /\ Len(Append(All(n), RequestBytes(n))) = n + 1
          /\ \A i \in 1 .. n : Append(All(n), RequestBytes(n))[i] = All(n)[i]
          /\ Append(All(n), RequestBytes(n))[n + 1] = RequestBytes(n)
      BY <2>2, <2>3, AppendProperties
    <3>2. \A i \in 1 .. n + 1 : All(n + 1)[i] = Append(All(n), RequestBytes(n))[i]
      <4>1. TAKE i \in 1 .. n + 1
      <4>2. CASE i = n + 1
        <5>1. i - 1 = n
          BY <4>2
        <5> QED
          BY <3>1, <4>2, <5>1
      <4>3. CASE i # n + 1
        <5>1. i \in 1 .. n
          BY <4>3
        <5> QED
          BY <3>1, <5>1
      <4> QED
        BY <4>2, <4>3
    <3> HIDE DEF All
    <3> QED
      BY <2>3, <3>1, <3>2, SeqEqual
  <2> HIDE DEF All
  <2>5. FlattenSeq(All(n + 1)) = FlattenSeq(All(n)) \o RequestBytes(n)
    BY <2>2, <2>3, <2>4, FlatAppend
  <2> QED
    BY <2>5 DEF All, RequestsUpTo
<1> QED
  BY <1>2, <1>3, <1>4

LEMMA RequestsPrefix ==
    ASSUME issued \in Seq(Proper), NEW n \in 0 .. Len(issued), NEW h \in 0 .. n
    PROVE  IsPrefix(RequestsUpTo(h), RequestsUpTo(n))
<1> DEFINE T == {i \in 0 .. n : h <= i => IsPrefix(RequestsUpTo(h), RequestsUpTo(i))}
<1>1. \A i \in 0 .. n : RequestsUpTo(i) \in Seq(Byte)
  BY RequestsStep
<1>2. 0 \in T
  <2>1. h <= 0 => h = 0
    OBVIOUS
  <2> QED
    BY <1>1, <2>1, PrefixSelf
<1>3. ASSUME NEW i \in 1 .. n, i - 1 \in T PROVE i \in T
  <2>1. i - 1 \in 0 .. Len(issued) - 1 /\ (i - 1) + 1 = i /\ i - 1 \in 0 .. n
    OBVIOUS
  <2>2. RequestsUpTo(i) = RequestsUpTo(i - 1) \o RequestBytes(i - 1) /\ RequestBytes(i - 1) \in Seq(Byte)
    BY <2>1, RequestsStep, RequestRight
  <2>3. CASE h <= i - 1
    <3>1. IsPrefix(RequestsUpTo(h), RequestsUpTo(i - 1))
      BY <1>3, <2>3
    <3>2. IsPrefix(RequestsUpTo(h), RequestsUpTo(i))
      BY <1>1, <2>1, <2>2, <3>1, PrefixConcat
    <3> QED
      BY <3>2
  <2>4. CASE h = i
    BY <1>1, <2>4, PrefixSelf
  <2>5. CASE h > i
    BY <2>5
  <2> QED
    BY <2>3, <2>4, <2>5
<1>4. n \in T
  <2> HIDE DEF T
  <2>1. \A i \in 0 .. n : i \in T
    BY <1>2, <1>3, UpTo
  <2> QED
    BY <2>1
<1> QED
  BY <1>4

LEMMA ResponseRight ==
    ASSUME NEW s \in Nat, NEW c \in Proper
    PROVE  /\ HeadTo(s, c) \in Answer /\ HeadTo(s, c).seq = s /\ HeadTo(s, c).kind = c.kind
           /\ BodyTo(s, c) \in Seq(Answer) /\ Len(BodyTo(s, c)) = c.size
           /\ c.kind = "nortn" => BodyTo(s, c) = <<>>
           /\ AnswerTo(s, c) = <<HeadTo(s, c)>> \o BodyTo(s, c)
           /\ AnswerTo(s, c) \in Seq(Answer)
<1>1. c.size \in Nat /\ c.kind \in {"value", "nortn", "error"}
  BY SizeRight
<1>2. HeadTo(s, c) \in Answer /\ HeadTo(s, c).seq = s /\ HeadTo(s, c).kind = c.kind
  BY <1>1 DEF HeadTo, Answer
<1>3. \A k \in 1 .. c.size : [HeadTo(s, c) EXCEPT !.at = k] \in Answer
  BY <1>1 DEF HeadTo, Answer
<1>4. BodyTo(s, c) \in Seq(Answer) /\ Len(BodyTo(s, c)) = c.size
  BY <1>1, <1>3 DEF BodyTo
<1>5. c.kind = "nortn" => BodyTo(s, c) = <<>>
  <2>1. c.kind = "nortn" => Len(BodyTo(s, c)) = 0
    BY <1>4 DEF Proper
  <2> QED
    BY <1>4, <2>1, EmptySeq
<1>6. <<HeadTo(s, c)>> \in Seq(Answer)
  BY <1>2
<1>7. AnswerTo(s, c) = <<HeadTo(s, c)>> \o BodyTo(s, c)
  BY <1>5 DEF AnswerTo
<1> QED
  BY <1>2, <1>4, <1>5, <1>6, <1>7, ConcatProperties

\* send_response writes the head and the body, whatever is written directly.
LEMMA ResponseWritten ==
    ASSUME CapAssumption, issued \in Seq(Proper), NEW s \in 0 .. Len(issued) - 1
    PROVE  /\ FlattenSeq(ResponseWrites(s)) = Response(s)
           /\ <<>> \in {ResponseWrites(s)[i] : i \in DOMAIN ResponseWrites(s)} => ~Fits(s)
<1> DEFINE h == <<HeadOf(s)>>
           b == Body(s)
<1>1. s \in Nat /\ issued[s + 1] \in Proper /\ Cap \in Nat /\ Cap > 0
  BY RequestRight DEF CapAssumption
<1>2. h \in Seq(Answer) /\ Len(h) = 1 /\ b \in Seq(Answer) /\ Len(b) = issued[s + 1].size /\ Len(b) \in Nat
  <2>1. HeadOf(s) \in Answer /\ Body(s) \in Seq(Answer) /\ Len(Body(s)) = issued[s + 1].size
    BY <1>1, ResponseRight DEF HeadOf, Body
  <2> QED
    BY <2>1
<1>3. Buff!WriteOut(<<>>, Cap, h) = [writes |-> <<>>, pending |-> h]
  BY <1>1, <1>2 DEF Buff!WriteOut
<1>4. ResponseWrites(s) = (<<>> \o Buff!WriteOut(h, Cap, b).writes)
                              \o <<Buff!WriteOut(h, Cap, b).pending>>
  <2>1. /\ Buff!WriteOut(<<>>, Cap, h).writes = <<>>
        /\ Buff!WriteOut(<<>>, Cap, h).pending = h
    BY <1>3
  <2>2. \A p : Buff!FlushOut(p).writes = <<p>>
    BY DEF Buff!FlushOut
  <2>3. ResponseWrites(s) = (Buff!WriteOut(<<>>, Cap, h).writes
                               \o Buff!WriteOut(Buff!WriteOut(<<>>, Cap, h).pending, Cap, b).writes)
                               \o Buff!FlushOut(Buff!WriteOut(Buff!WriteOut(<<>>, Cap, h).pending, Cap, b).pending).writes
    BY Zenon DEF ResponseWrites
  <2> QED
    BY <2>1, <2>2, <2>3
<1> HIDE DEF h, b
<1>5. CASE 1 + Len(b) > Cap
  <2>1. Buff!WriteOut(h, Cap, b) = [writes |-> <<h, b>>, pending |-> <<>>]
    BY <1>2, <1>5 DEF Buff!WriteOut
  <2>2. ResponseWrites(s) = (<<>> \o <<h, b>>) \o <<<<>>>>
    BY <1>4, <2>1
  <2>3. (<<>> \o <<h, b>>) \o <<<<>>>> = Append(<<h, b>>, <<>>)
    OBVIOUS
  <2>4. FlattenSeq(ResponseWrites(s)) = (h \o b) \o <<>>
    <3>1. <<h, b>> \in Seq(Seq(Answer)) /\ <<>> \in Seq(Answer)
      BY <1>2
    <3>2. FlattenSeq(Append(<<h, b>>, <<>>)) = FlattenSeq(<<h, b>>) \o <<>>
      BY <3>1, FlatAppend, Zenon
    <3>3. FlattenSeq(<<h, b>>) = h \o b
      BY <1>2, FlatTwo
    <3> QED
      BY <2>2, <2>3, <3>2, <3>3
  <2>5. (h \o b) \o <<>> = h \o b
    BY <1>2, ConcatProperties, ConcatEmptySeq
  <2>6. ~Fits(s)
    BY <1>1, <1>2, <1>5, SizeRight DEF Fits
  <2> QED
    BY <2>4, <2>5, <2>6 DEF Response, h, b
<1>6. CASE ~(1 + Len(b) > Cap)
  <2>1. Buff!WriteOut(h, Cap, b) = [writes |-> <<>>, pending |-> h \o b]
    BY <1>2, <1>6 DEF Buff!WriteOut
  <2>2. ResponseWrites(s) = <<h \o b>>
    BY <1>4, <2>1
  <2>3. h \o b \in Seq(Answer) /\ Len(h \o b) > 0
    <3>1. h \o b \in Seq(Answer) /\ Len(h \o b) = Len(h) + Len(b)
      BY <1>2, ConcatProperties
    <3> QED
      BY <1>2, <3>1
  <2>4. h \o b # <<>>
    BY <2>3
  <2>5. FlattenSeq(ResponseWrites(s)) = h \o b
    BY <2>2, <2>3, FlatOne
  <2>6. <<>> \notin {ResponseWrites(s)[i] : i \in DOMAIN ResponseWrites(s)}
    BY <2>2, <2>4
  <2> QED
    BY <2>5, <2>6 DEF Response, h, b
<1> QED
  BY <1>5, <1>6

-----------------------------------------------------------------------------
(* Steps *)

\* What is said of the calls stays true while none is added.
LEMMA SameCalls ==
    ASSUME issued' = issued
    PROVE  /\ \A n : RequestsUpTo(n)' = RequestsUpTo(n)
           /\ \A s : Fits(s)' = Fits(s)
           /\ \A s : HeadOf(s)' = HeadOf(s) /\ Body(s)' = Body(s) /\ Response(s)' = Response(s)
BY DEF RequestsUpTo, RequestBytes, Fits, HeadOf, Body, Response

LEMMA MoreCalls ==
    ASSUME issued \in Seq(Proper), NEW n, n = Len(issued), NEW c \in Proper, issued' = Append(issued, c)
    PROVE  /\ issued' \in Seq(Proper) /\ Len(issued') = n + 1 /\ issued'[n + 1] = c
           /\ \A s \in 0 .. n - 1 : issued'[s + 1] = issued[s + 1]
           /\ \A m \in 0 .. n : RequestsUpTo(m)' = RequestsUpTo(m)
           /\ RequestsUpTo(n + 1)' = RequestsUpTo(n) \o Part(n, 0, SizeOf(c.pieces))
           /\ \A s \in 0 .. n - 1 : Fits(s)' = Fits(s)
<1>1. /\ issued' \in Seq(Proper) /\ Len(issued') = n + 1 /\ issued'[n + 1] = c
      /\ \A i \in 1 .. n : issued'[i] = issued[i]
  BY AppendProperties
<1>2. \A s \in 0 .. n - 1 : issued'[s + 1] = issued[s + 1]
  <2>1. TAKE s \in 0 .. n - 1
  <2>2. s + 1 \in 1 .. n
    OBVIOUS
  <2> QED
    BY <1>1, <2>2
<1>3. \A m \in 0 .. n : RequestsUpTo(m)' = RequestsUpTo(m)
  <2>1. TAKE m \in 0 .. n
  <2>2. \A s \in 1 .. m : issued'[(s - 1) + 1] = issued[(s - 1) + 1]
    BY <1>1
  <2>3. \A s \in 1 .. m : RequestBytes(s - 1)' = RequestBytes(s - 1)
    BY <2>2 DEF RequestBytes
  <2>4. [s \in 1 .. m |-> RequestBytes(s - 1)]' = [s \in 1 .. m |-> RequestBytes(s - 1)]
    BY <2>3
  <2> QED
    BY <2>4 DEF RequestsUpTo
<1>4. \A s \in 0 .. n - 1 : Fits(s)' = Fits(s)
  BY <1>2 DEF Fits
<1>5. RequestsUpTo(n + 1)' = RequestsUpTo(n) \o Part(n, 0, SizeOf(c.pieces))
  <2>1. n \in Nat
    BY LenProperties
  <2> DEFINE old == [s \in 1 .. n |-> RequestBytes(s - 1)]
             new == [s \in 1 .. n + 1 |-> RequestBytes(s - 1)']
             last == Part(n, 0, SizeOf(c.pieces))
  <2>2. last \in Seq(Byte)
    <3>1. SizeOf(c.pieces) \in Nat /\ 0 <= SizeOf(c.pieces) /\ 0 \in Nat
      BY SizeRight
    <3> QED
      BY <2>1, <3>1, PartRight
  <2>3. old \in Seq(Seq(Byte)) /\ Len(old) = n
    <3>1. \A s \in 1 .. n : s - 1 \in 0 .. n - 1
      BY <2>1
    <3>2. \A s \in 1 .. n : RequestBytes(s - 1) \in Seq(Byte)
      BY <3>1, RequestRight
    <3> QED
      BY <2>1, <3>2
  <2>4. ASSUME NEW s \in 1 .. n PROVE RequestBytes(s - 1)' = old[s]
    <3>1. s - 1 \in 0 .. n - 1
      BY <2>1
    <3>2. issued'[(s - 1) + 1] = issued[(s - 1) + 1]
      BY <1>2, <3>1
    <3> QED
      BY <3>2 DEF RequestBytes
  <2>5. RequestBytes((n + 1) - 1)' = last
    <3>1. (n + 1) - 1 = n
      BY <2>1
    <3> QED
      BY <1>1, <2>1, <3>1 DEF RequestBytes
  <2>6. new = Append(old, last)
    <3>1. /\ Append(old, last) \in Seq(Seq(Byte)) /\ Len(Append(old, last)) = n + 1
          /\ \A i \in 1 .. n : Append(old, last)[i] = old[i]
          /\ Append(old, last)[n + 1] = last
      BY <2>2, <2>3, AppendProperties
    <3>2. \A i \in 1 .. n + 1 : new[i] = Append(old, last)[i]
      <4>1. TAKE i \in 1 .. n + 1
      <4>2. CASE i = n + 1
        BY <2>5, <3>1, <4>2
      <4>3. CASE i # n + 1
        <5>1. i \in 1 .. n
          BY <2>1, <4>3
        <5> QED
          BY <2>4, <3>1, <5>1
      <4> QED
        BY <4>2, <4>3
    <3>3. new \in Seq(Seq(Byte)) /\ Len(new) = n + 1
      <4>1. \A i \in 1 .. n + 1 : new[i] \in Seq(Byte)
        <5> HIDE DEF new
        <5>1. Append(old, last) \in Seq(Seq(Byte)) /\ Len(Append(old, last)) = n + 1
          BY <3>1
        <5>2. \A i \in 1 .. n + 1 : Append(old, last)[i] \in Seq(Byte)
          <6> HIDE DEF old, last
          <6> QED
            BY <5>1
        <5> QED
          BY <3>2, <5>2
      <4> QED
        BY <2>1, <4>1
    <3> HIDE DEF new, old, last
    <3> QED
      BY <3>1, <3>2, <3>3, SeqEqual
  <2> HIDE DEF last
  <2>7. FlattenSeq(Append(old, last)) = FlattenSeq(old) \o last
    <3> HIDE DEF old
    <3> QED
      BY <2>2, <2>3, FlatAppend
  <2>8. RequestsUpTo(n + 1)' = FlattenSeq(new) /\ RequestsUpTo(n) = FlattenSeq(old)
    BY DEF RequestsUpTo
  <2> QED
    BY <2>1, <2>6, <2>7, <2>8 DEF last
<1> QED
  BY <1>1, <1>2, <1>3, <1>4, <1>5

\* The holder of the lock is the one thread on its way through client_call.
LEMMA HolderOnly ==
    ASSUME Types, LockInv, NEW t \in Callers, pc[t] \in Holding
    PROVE  /\ lock = t
           /\ cur[t] \in 0 .. Len(issued) - 1 /\ cur[t] + 1 = Len(issued) /\ Len(issued) = seq
           /\ issued[cur[t] + 1] \in Proper
           /\ \A u \in Callers : u # t => pc[u] \notin Holding
<1>1. lock = t /\ cur[t] + 1 = seq /\ seq = Len(issued) /\ cur[t] \in Nat
  BY DEF LockInv, Types
<1>2. cur[t] \in 0 .. Len(issued) - 1
  BY <1>1
<1>3. issued[cur[t] + 1] \in Proper
  BY <1>2, RequestRight DEF Types
<1>4. \A u \in Callers : u # t => pc[u] \notin Holding
  BY <1>1 DEF LockInv
<1> QED
  BY <1>1, <1>2, <1>3, <1>4

LEMMA ResponseType ==
    ASSUME issued \in Seq(Proper), NEW s \in 0 .. Len(issued) - 1
    PROVE  /\ HeadOf(s) \in Answer /\ HeadOf(s).seq = s /\ HeadOf(s).kind = issued[s + 1].kind
           /\ Body(s) \in Seq(Answer) /\ Len(Body(s)) = issued[s + 1].size /\ Len(Body(s)) \in Nat
           /\ Response(s) \in Seq(Answer)
           /\ AnswerTo(s, issued[s + 1]) = Response(s)
<1>1. s \in Nat /\ issued[s + 1] \in Proper
  BY RequestRight
<1>2. issued[s + 1].size \in Nat
  BY <1>1, SizeRight
<1>3. Response(s) = AnswerTo(s, issued[s + 1])
  BY <1>1, ResponseRight DEF Response, HeadOf, Body
<1> QED
  BY <1>1, <1>2, <1>3, ResponseRight DEF HeadOf, Body

LEMMA CrashKeeps ==
    ASSUME IInv, Crash
    PROVE  IInv'
<1> USE DEF IInv
<1>1. PICK k \in 0 .. Len(outbox) : outbox' = SubSeq(outbox, 1, k)
  BY DEF Crash
<1>2. svr = "open" /\ svr' = "crashed" /\ UNCHANGED <<lock, seq, err, wbuf, threadVars, issued, result, wire, taken, handled>>
  BY DEF Crash
<1>3. outbox \in Seq(Answer) /\ outbox' \in Seq(Answer) /\ (outbox = <<>> => outbox' = <<>>)
  BY <1>1 DEF Types
<1>4. Types'
  BY <1>2, <1>3 DEF Types, threadVars
<1>5. LockInv'
  BY <1>2 DEF LockInv, threadVars
<1>6. WireInv'
  BY <1>2, SameCalls DEF WireInv
<1>7. SentInv'
  BY <1>2, SameCalls DEF SentInv, threadVars
<1>8. OutboxInv'
  <2>1. ASSUME NEW rest \in Seq(Answer), Answering(rest) PROVE Answering(rest)'
    BY <1>1, <1>2, <1>3, <2>1, PrefixCut DEF Answering
  <2>2. ASSUME NEW t \in Callers, pc[t] \in Holding
        PROVE  /\ Answering(Response(cur[t])) => Answering(Response(cur[t]))'
               /\ Answering(Body(cur[t])) => Answering(Body(cur[t]))'
    <3>1. cur[t] \in 0 .. Len(issued) - 1 /\ cur' = cur
      BY <1>2, <2>2, HolderOnly DEF threadVars
    <3>2. Response(cur[t]) \in Seq(Answer) /\ Body(cur[t]) \in Seq(Answer)
      BY <3>1, ResponseType DEF Types
    <3>3. Response(cur[t])' = Response(cur[t]) /\ Body(cur[t])' = Body(cur[t])
      BY <1>2, <3>1, SameCalls
    <3> QED
      BY <2>1, <3>2, <3>3 DEF Answering
  <2>3. \A t \in Callers : HeadOf(cur[t])' = HeadOf(cur[t])
    BY <1>2, SameCalls DEF threadVars
  <2> QED
    BY <1>2, <1>3, <2>2, <2>3, SameCalls DEF OutboxInv, threadVars, Holding
<1>9. DoneInv'
  BY <1>2, <1>3 DEF DoneInv, threadVars
<1>10. OnTimeInv'
  BY <1>2 DEF OnTimeInv
<1>11. FitInv'
  BY <1>2, SameCalls DEF FitInv
<1>12. OwnAnswer'
  BY <1>2 DEF OwnAnswer
<1> QED
  BY <1>4, <1>5, <1>6, <1>7, <1>8, <1>9, <1>10, <1>11, <1>12

\* What has not been parsed yet is the beginning of one request.
LEMMA InboxIs ==
    ASSUME Types, WireInv, NEW h, h = Len(handled)
    PROVE  /\ h \in 0 .. Len(issued)
           /\ \E j \in Nat :
                /\ wire = RequestsUpTo(h) \o Part(h, 0, j)
                /\ Inbox = Part(h, 0, j)
                /\ h = Len(issued) => j = 0
                /\ h < Len(issued) => j <= SizeOf(issued[h + 1].pieces)
<1>1. h \in 0 .. Len(issued) /\ seq = Len(issued) /\ h \in Nat
  BY DEF Types, WireInv
<1>2. PICK j \in 0 .. Len(wire) :
        /\ wire = RequestsUpTo(h) \o Part(h, 0, j)
        /\ IF h = seq THEN j = 0 ELSE j <= SizeOf(issued[h + 1].pieces)
  BY DEF WireInv
<1>3. taken = Len(RequestsUpTo(h))
  BY DEF WireInv
<1> DEFINE r == RequestsUpTo(h)
           p == Part(h, 0, j)
<1>4. r \in Seq(Byte) /\ Len(r) \in Nat
  BY <1>1, RequestsStep DEF Types
<1>5. j \in Nat /\ p \in Seq(Byte) /\ Len(p) = j
  <2>1. Len(wire) \in Nat
    BY DEF Types
  <2>2. j \in Nat /\ 0 <= j /\ j - 0 = j
    BY <2>1
  <2> QED
    BY <1>1, <2>2, PartRight
<1>6. Inbox = p
  <2>1. Inbox = SubSeq(r \o p, Len(r) + 1, Len(r \o p))
    BY <1>2, <1>3 DEF Inbox
  <2> HIDE DEF r, p
  <2>2. /\ r \o p \in Seq(Byte) /\ Len(r \o p) = Len(r) + Len(p)
        /\ \A i \in 1 .. Len(r) + Len(p) : (r \o p)[i] = IF i <= Len(r) THEN r[i] ELSE p[i - Len(r)]
    BY <1>4, <1>5, ConcatProperties
  <2>3. CASE j = 0
    <3>1. p = <<>>
      BY <1>5, <2>3, EmptySeq
    <3>2. Len(r \o p) < Len(r) + 1
      BY <1>4, <1>5, <2>2, <2>3
    <3> QED
      BY <1>4, <1>5, <2>1, <2>2, <3>1, <3>2, SubSeqEmpty
  <2>4. CASE j > 0
    <3>1. Len(r) + 1 \in Len(r) + 1 .. Len(r) + Len(p) /\ Len(r) + Len(p) \in Len(r) + 1 .. Len(r) + Len(p)
      BY <1>4, <1>5, <2>4
    <3>2. SubSeq(r \o p, Len(r) + 1, Len(r) + Len(p)) = SubSeq(p, Len(r) + 1 - Len(r), Len(r) + Len(p) - Len(r))
      BY <1>4, <1>5, <3>1, SubSeqOfConcat2
    <3>3. Len(r) + 1 - Len(r) = 1 /\ Len(r) + Len(p) - Len(r) = Len(p)
      BY <1>4, <1>5
    <3>4. SubSeq(p, 1, Len(p)) = p
      BY <1>5, SubSeqFull
    <3> QED
      BY <2>1, <2>2, <3>2, <3>3, <3>4
  <2> QED
    BY <1>5, <2>3, <2>4
<1>7. h = Len(issued) => j = 0
  BY <1>1, <1>2
<1>8. h < Len(issued) => j <= SizeOf(issued[h + 1].pieces)
  BY <1>1, <1>2
<1> QED
  BY <1>1, <1>2, <1>5, <1>6, <1>7, <1>8

\* cfd_callback finds the next request in full and answers it.
LEMMA ServeDoes ==
    ASSUME CapAssumption, Types, WireInv, Serve, NEW h, h = Len(handled)
    PROVE  /\ h \in 0 .. Len(issued) - 1
           /\ wire = RequestsUpTo(h + 1)
           /\ taken' = Len(RequestsUpTo(h + 1))
           /\ handled' = Append(handled, h)
           /\ outbox' = outbox \o Response(h)
           /\ svr' \in {"open", "closed"}
           /\ svr' = "closed" => ~Fits(h)
<1>1. PICK j \in Nat :
        /\ wire = RequestsUpTo(h) \o Part(h, 0, j)
        /\ Inbox = Part(h, 0, j)
        /\ h = Len(issued) => j = 0
        /\ h < Len(issued) => j <= SizeOf(issued[h + 1].pieces)
  BY InboxIs
<1>2. h \in 0 .. Len(issued) /\ issued \in Seq(Proper) /\ Len(issued) \in Nat
  BY InboxIs, SMTT(30) DEF Types
<1>3. /\ Inbox \in Seq(Byte) /\ Len(Inbox) = j /\ Inbox # <<>>
      /\ \A k \in 1 .. j : Inbox[k] = <<h, 0 + k>>
  <2>1. h \in Nat /\ 0 \in Nat /\ 0 <= j /\ j - 0 = j
    BY <1>2
  <2>2. /\ Part(h, 0, j) \in Seq(Byte) /\ Len(Part(h, 0, j)) = j
        /\ \A k \in 1 .. j : Part(h, 0, j)[k] = <<h, 0 + k>>
    <3>1. /\ Part(h, 0, j) \in Seq(Byte) /\ Len(Part(h, 0, j)) = j - 0
          /\ \A k \in 1 .. j - 0 : Part(h, 0, j)[k] = <<h, 0 + k>>
      BY <2>1, PartRight, ZenonT(60)
    <3> QED
      BY <2>1, <3>1
  <2> QED
    BY <1>1, <2>2 DEF Serve
<1>4. j > 0 /\ Inbox[1][1] = h
  BY <1>3, EmptySeq
<1>5. h \in 0 .. Len(issued) - 1
  BY <1>1, <1>2, <1>4
<1> DEFINE n == Len(RequestBytes(h))
<1>6. /\ n = SizeOf(issued[h + 1].pieces) /\ n \in Nat
      /\ RequestBytes(h) = Part(h, 0, n) /\ RequestBytes(h) \in Seq(Byte)
  BY <1>2, <1>5, RequestRight
<1>7. /\ Len(Inbox) >= n
      /\ taken' = taken + n
      /\ IF SubSeq(Inbox, 1, n) = RequestBytes(h)
         THEN /\ handled' = Append(handled, h)
              /\ outbox' = outbox \o FlattenSeq(ResponseWrites(h))
              /\ svr' = IF <<>> \in {ResponseWrites(h)[i] : i \in DOMAIN ResponseWrites(h)} THEN "closed" ELSE svr
         ELSE svr' = "closed" /\ UNCHANGED <<outbox, handled>>
  BY <1>4, Zenon DEF Serve
<1> HIDE DEF n
<1>8. j = n
  BY <1>1, <1>2, <1>3, <1>5, <1>6, <1>7, SMTT(30)
<1>9. SubSeq(Inbox, 1, n) = RequestBytes(h)
  BY <1>1, <1>3, <1>6, <1>8, SubSeqFull
<1>10. RequestsUpTo(h + 1) = RequestsUpTo(h) \o RequestBytes(h) /\ RequestsUpTo(h) \in Seq(Byte)
  BY <1>2, <1>5, RequestsStep
<1>11. wire = RequestsUpTo(h + 1)
  BY <1>1, <1>6, <1>8, <1>10
<1>12. taken' = Len(RequestsUpTo(h + 1))
  <2>1. taken = Len(RequestsUpTo(h))
    BY DEF WireInv
  <2>2. Len(RequestsUpTo(h + 1)) = Len(RequestsUpTo(h)) + Len(RequestBytes(h))
    BY <1>6, <1>10, ConcatProperties
  <2> QED
    BY <1>7, <2>1, <2>2 DEF n
<1>13. /\ FlattenSeq(ResponseWrites(h)) = Response(h)
       /\ <<>> \in {ResponseWrites(h)[i] : i \in DOMAIN ResponseWrites(h)} => ~Fits(h)
  BY <1>2, <1>5, ResponseWritten
<1>14. svr = "open"
  BY DEF Serve
<1> QED
  BY <1>5, <1>7, <1>9, <1>11, <1>12, <1>13, <1>14, Zenon

LEMMA ServeKeeps ==
    ASSUME CapAssumption, IInv, Serve
    PROVE  IInv'
<1> USE DEF IInv
<1>0. PICK h : h = Len(handled)
  OBVIOUS
<1>1. /\ h \in 0 .. Len(issued) - 1
      /\ wire = RequestsUpTo(h + 1)
      /\ taken' = Len(RequestsUpTo(h + 1))
      /\ handled' = Append(handled, h)
      /\ outbox' = outbox \o Response(h)
      /\ svr' \in {"open", "closed"}
      /\ svr' = "closed" => ~Fits(h)
  BY <1>0, ServeDoes
<1>2. /\ svr = "open" /\ seq = Len(issued)
      /\ UNCHANGED <<lock, seq, err, wbuf, threadVars, issued, result, wire>>
  BY DEF Serve, Types
<1>3. PICK t \in Callers : cur[t] = h /\ (pc[t] \in {"flush", "read_head"} \/ (pc[t] = "write" /\ err = "null"))
  BY <1>0, <1>1, <1>2 DEF OnTimeInv
<1>4. /\ pc[t] \in Holding /\ lock = t /\ h + 1 = seq
      /\ \A u \in Callers : u # t => pc[u] \notin Holding
  BY <1>3, HolderOnly DEF Holding
<1>5. outbox = <<>> /\ Response(h) \in Seq(Answer) /\ outbox' = Response(h)
  <2>1. Len(handled) # seq
    BY <1>0, <1>4, <1>1
  <2>2. outbox = <<>>
    BY <1>3, <2>1 DEF OutboxInv
  <2>3. Response(h) \in Seq(Answer)
    BY <1>1, ResponseType DEF Types
  <2> QED
    BY <1>1, <2>2, <2>3, ConcatEmptySeq
<1>6. /\ handled \in Seq(Nat) /\ h \in Nat
      /\ handled' \in Seq(Nat) /\ Len(handled') = h + 1 /\ handled'[h + 1] = h
      /\ \A i \in 1 .. h : handled'[i] = handled[i]
  BY <1>0, <1>1, AppendProperties DEF Types
<1>7. Types'
  <2>1. RequestsUpTo(h + 1) \in Seq(Byte)
    BY <1>1, RequestsStep DEF Types
  <2>2. taken' = Len(wire') /\ Len(wire') \in Nat
    BY <1>1, <1>2, <2>1
  <2>3. taken' \in 0 .. Len(wire') /\ outbox' \in Seq(Answer) /\ svr' \in {"open", "closed", "crashed"}
    BY <1>1, <1>5, <2>2
  <2> QED
    BY <1>2, <1>6, <2>3 DEF Types, threadVars
<1>8. LockInv'
  BY <1>2 DEF LockInv, threadVars
<1>9. WireInv'
  <2>1. handled = [i \in 1 .. h |-> i - 1]
    BY <1>0 DEF WireInv
  <2>2. handled' = [i \in 1 .. h + 1 |-> i - 1]
    BY <1>6, <2>1
  <2>3. Part(h + 1, 0, 0) = <<>> /\ RequestsUpTo(h + 1) \in Seq(Byte)
    BY <1>1, PartEmpty, RequestsStep, SMTT(30) DEF Types
  <2>4. wire' = RequestsUpTo(h + 1)' \o Part(h + 1, 0, 0)
    BY <1>1, <1>2, <2>3, SameCalls, ConcatEmptySeq
  <2>5. 0 \in 0 .. Len(wire')
    BY <1>7 DEF Types
  <2> QED
    BY <1>1, <1>2, <1>4, <1>6, <2>2, <2>4, <2>5, SameCalls, SMTT(30) DEF WireInv
<1>10. SentInv'
  BY <1>2, SameCalls DEF SentInv, threadVars
<1>11. OutboxInv'
  <2>1. Answering(Response(h))'
    BY <1>1, <1>2, <1>5, PrefixSelf, SameCalls DEF Answering
  <2>2. \A u \in Callers : pc[u] # "read_body"
    BY <1>3, <1>4 DEF Holding
  <2>3. \A u \in Callers : pc[u] \in {"flush", "read_head", "write"} => u = t
    BY <1>4 DEF Holding
  <2>4. Len(handled') = seq'
    BY <1>2, <1>4, <1>6
  <2>5. \A u \in Callers :
          /\ pc[u] = "flush" => err = "null"
          /\ pc[u] = "read_head" /\ err = "null" => wbuf = <<>> /\ (svr = "open" => wire = RequestsUpTo(seq))
    BY DEF OutboxInv
  <2> QED
    BY <1>2, <1>3, <2>1, <2>2, <2>3, <2>4, <2>5, SameCalls DEF OutboxInv, threadVars
<1>12. DoneInv'
  <2>1. lock' # None
    BY <1>2, <1>4 DEF CapAssumption
  <2>2. \A u \in Callers : pc[u] # "unlock"
    BY <1>3, <1>4 DEF Holding
  <2>3. \A u \in Callers : cur[u] < Len(handled) => cur[u] < Len(handled')
    BY <1>0, <1>6, SMTT(30) DEF Types
  <2> QED
    BY <1>2, <2>1, <2>2, <2>3 DEF DoneInv, threadVars
<1>13. OnTimeInv'
  <2>1. ~(Len(handled') < seq')
    BY <1>2, <1>4, <1>6
  <2> QED
    BY <2>1 DEF OnTimeInv
<1>14. FitInv'
  <2>1. CASE svr' = "closed"
    BY <1>1, <1>2, <2>1, SameCalls DEF FitInv
  <2>2. CASE svr' = "open"
    BY <1>2, <2>2, SameCalls DEF FitInv
  <2> QED
    BY <1>1, <2>1, <2>2
<1>15. OwnAnswer'
  BY <1>2 DEF OwnAnswer
<1> QED
  BY <1>7, <1>8, <1>9, <1>10, <1>11, <1>12, <1>13, <1>14, <1>15
-----------------------------------------------------------------------------
(* Steps of the threads *)

LEMMA GotoDoes ==
    ASSUME Types, NEW t \in Callers, NEW point \in Points, Goto(t, point)
    PROVE  /\ pc' \in [Callers -> Points]
           /\ pc'[t] = point
           /\ \A u \in Callers : u # t => pc'[u] = pc[u]
BY DEF Types, Goto

\* The holder of the lock stays the one it is.
LEMMA HolderStays ==
    ASSUME Types, LockInv, NEW t \in Callers, pc[t] \in Holding, NEW point \in Holding,
           pc'[t] = point, \A u \in Callers : u # t => pc'[u] = pc[u],
           UNCHANGED <<lock, seq, made, cur, result>>
    PROVE  LockInv'
<1>1. \A u \in Callers : pc'[u] \in Holding <=> pc[u] \in Holding
  OBVIOUS
<1>2. \A u \in Callers : pc'[u] \in Holding \cup {"check"} <=> pc[u] \in Holding \cup {"check"}
  BY DEF Holding
<1>3. \A u \in Callers : pc'[u] = "lock" => pc[u] = "lock"
  BY DEF Holding
<1> QED
  BY <1>1, <1>2, <1>3 DEF LockInv

\* A write of one piece: it fails, and then it had no bytes or the server is gone, or all
\* of it is gone out.
LEMMA WriteOne ==
    ASSUME wire \in Seq(Byte), NEW w \in Seq(Byte), Writing(<<w>>)
    PROVE  \/ err' = "write" /\ wire' = wire /\ wbuf' = wbuf /\ (svr = "open" => w = <<>>)
           \/ err' = err /\ wbuf' = <<>> /\ w # <<>> /\ wire' = IF svr = "open" THEN wire \o w ELSE wire
<1> DEFINE writes == <<w>>
<1>1. Len(writes) = 1 /\ writes[1] = w /\ writes \in Seq(Seq(Byte))
  OBVIOUS
<1>2. FlattenSeq(SubSeq(writes, 1, 0)) = <<>>
  <2>1. SubSeq(writes, 1, 0) = <<>>
    BY <1>1, SubSeqEmpty
  <2> QED
    BY <2>1, FlatEmpty
<1>3. FlattenSeq(SubSeq(writes, 1, 1)) = w
  <2>1. SubSeq(writes, 1, 1) = writes
    BY <1>1, SubSeqFull
  <2> QED
    BY <2>1, FlatOne
<1>4. PICK j \in Successes(writes) :
        /\ wire' = IF svr = "open" THEN wire \o FlattenSeq(SubSeq(writes, 1, j)) ELSE wire
        /\ err' = IF j < Len(writes) THEN "write" ELSE err
        /\ wbuf' = IF j = 0 THEN wbuf ELSE <<>>
  BY DEF Writing
<1> HIDE DEF writes
<1>5. /\ j = 0 \/ j = 1
      /\ j = 1 => w # <<>>
      /\ j = 0 => w = <<>> \/ svr # "open"
  BY <1>1, <1>4 DEF Successes
<1>6. wire \o <<>> = wire
  BY ConcatEmptySeq
<1>7. CASE j = 0
  BY <1>1, <1>2, <1>4, <1>5, <1>6, <1>7
<1>8. CASE j = 1
  BY <1>1, <1>3, <1>4, <1>5, <1>8
<1> QED
  BY <1>5, <1>7, <1>8

LEMMA WriteTwo ==
    ASSUME wire \in Seq(Byte), NEW p \in Seq(Byte), NEW q \in Seq(Byte), q # <<>>, Writing(<<p, q>>)
    PROVE  \/ err' = "write" /\ wire' = wire /\ wbuf' = wbuf /\ (svr = "open" => p = <<>>)
           \/ err' = "write" /\ wire' = wire /\ wbuf' = <<>> /\ svr # "open"
           \/ err' = err /\ wbuf' = <<>> /\ wire' = IF svr = "open" THEN wire \o (p \o q) ELSE wire
<1> DEFINE writes == <<p, q>>
<1>1. Len(writes) = 2 /\ writes[1] = p /\ writes[2] = q /\ writes \in Seq(Seq(Byte))
  OBVIOUS
<1>2. FlattenSeq(SubSeq(writes, 1, 0)) = <<>>
  <2>1. SubSeq(writes, 1, 0) = <<>>
    BY <1>1, SubSeqEmpty
  <2> QED
    BY <2>1, FlatEmpty
<1>3. FlattenSeq(SubSeq(writes, 1, 2)) = p \o q
  <2>1. SubSeq(writes, 1, 2) = writes
    BY <1>1, SubSeqFull
  <2> QED
    BY <2>1, FlatTwo
<1>4. PICK j \in Successes(writes) :
        /\ wire' = IF svr = "open" THEN wire \o FlattenSeq(SubSeq(writes, 1, j)) ELSE wire
        /\ err' = IF j < Len(writes) THEN "write" ELSE err
        /\ wbuf' = IF j = 0 THEN wbuf ELSE <<>>
  BY DEF Writing
<1> HIDE DEF writes
<1>5. /\ j = 0 \/ j = 1 \/ j = 2
      /\ j = 0 => p = <<>> \/ svr # "open"
      /\ j = 1 => svr # "open"
  BY <1>1, <1>4 DEF Successes
<1>6. wire \o <<>> = wire
  BY ConcatEmptySeq
<1>7. CASE j = 0
  BY <1>1, <1>2, <1>4, <1>5, <1>6, <1>7, SMTT(30)
<1>8. CASE j = 1
  BY <1>1, <1>4, <1>5, <1>8
<1>9. CASE j = 2
  <2>1. wire' = IF svr = "open" THEN wire \o (p \o q) ELSE wire
    BY <1>3, <1>4, <1>9, Zenon
  <2>2. err' = err /\ wbuf' = <<>>
    BY <1>1, <1>4, <1>9
  <2> QED
    BY <2>1, <2>2
<1> QED
  BY <1>5, <1>7, <1>8, <1>9

LEMMA CallKeeps ==
    ASSUME IInv, NEW t \in Callers, Call(t)
    PROVE  IInv'
<1> USE DEF IInv
<1>1. /\ pc[t] = "idle" /\ made[t] < Len(Calls[t])
      /\ made' = [made EXCEPT ![t] = @ + 1]
      /\ resp' = [resp EXCEPT ![t] = <<>>]
      /\ Goto(t, "lock")
      /\ UNCHANGED <<lock, seq, err, wbuf, cur, at, head, issued, result, wire, taken, outbox, svr, handled>>
  BY DEF Call, netVars
<1>2. /\ pc' \in [Callers -> Points]
      /\ pc'[t] = "lock"
      /\ \A u \in Callers : u # t => pc'[u] = pc[u]
  BY <1>1, GotoDoes DEF Points
<1>3. /\ made' \in [Callers -> Nat] /\ made'[t] = made[t] + 1 /\ made'[t] <= Len(Calls[t])
      /\ \A u \in Callers : u # t => made'[u] = made[u]
      /\ resp' \in [Callers -> Seq(Answer)]
      /\ \A u \in Callers : u # t => resp'[u] = resp[u]
  <2>1. Len(Calls[t]) \in Nat
    BY CallsAssumption
  <2>2. made \in [Callers -> Nat] /\ resp \in [Callers -> Seq(Answer)]
    BY DEF Types
  <2>3. made' \in [Callers -> Nat] /\ made'[t] = made[t] + 1 /\ made'[t] <= Len(Calls[t])
    BY <1>1, <2>1, <2>2
  <2>4. \A u \in Callers : u # t => made'[u] = made[u] /\ resp'[u] = resp[u]
    BY <1>1, <2>2
  <2>5. resp' \in [Callers -> Seq(Answer)]
    <3>1. <<>> \in Seq(Answer)
      OBVIOUS
    <3> QED
      BY <1>1, <2>2, <3>1
  <2> QED
    BY <2>3, <2>4, <2>5
<1>4. Types'
  BY <1>1, <1>2, <1>3 DEF Types
<1>5. \A u \in Callers : pc'[u] # "lock" \/ u # t => pc'[u] = pc[u]
  BY <1>2
<1>6. LockInv'
  <2>1. \A u \in Callers : pc'[u] \in Holding \cup {"check"} => u # t /\ pc'[u] = pc[u]
    BY <1>2 DEF Holding
  <2>2. \A u \in Callers : pc'[u] \in Holding <=> pc[u] \in Holding
    BY <1>1, <1>2 DEF Holding
  <2>3. \A u \in Callers : pc'[u] = "lock" => made'[u] > 0
    <3>1. made[t] \in Nat /\ made'[t] > 0
      BY <1>3 DEF Types
    <3> QED
      BY <1>2, <1>3, <3>1 DEF LockInv
  <2> QED
    BY <1>1, <2>1, <2>2, <2>3 DEF LockInv
<1>7. WireInv'
  BY <1>1, SameCalls DEF WireInv
<1>8. SentInv'
  BY <1>1, <1>2, SameCalls DEF SentInv
<1>9. OutboxInv'
  BY <1>1, <1>2, SameCalls DEF OutboxInv, Answering
<1>10. DoneInv'
  BY <1>1, <1>2, <1>3 DEF DoneInv
<1>11. OnTimeInv'
  BY <1>1, <1>2, SameCalls DEF OnTimeInv
<1>12. FitInv'
  BY <1>1, SameCalls DEF FitInv
<1>13. OwnAnswer'
  BY <1>1 DEF OwnAnswer
<1> QED
  BY <1>4, <1>6, <1>7, <1>8, <1>9, <1>10, <1>11, <1>12, <1>13

\* Whatever a thread calls has a request of at least one byte.
LEMMA CallProper ==
    ASSUME CallsAssumption, SizesAssumption, NEW t \in Callers, NEW i \in DOMAIN Calls[t]
    PROVE  Calls[t][i] \in Proper
<1>1. Calls[t] \in Seq(CallsOf)
  BY DEF CallsAssumption
<1>2. Calls[t][i] \in CallsOf
  BY <1>1
<1> QED
  BY <1>2 DEF SizesAssumption, Proper

LEMMA LockKeeps ==
    ASSUME CapAssumption, CallsAssumption, SizesAssumption, IInv, NEW t \in Callers, Lock(t)
    PROVE  IInv'
<1> USE DEF IInv
<1>1. PICK n, c : n = Len(issued) /\ c = Calls[t][made[t]]
  OBVIOUS
<1>2. /\ pc[t] = "lock" /\ lock = None /\ lock' = t
      /\ cur' = [cur EXCEPT ![t] = seq]
      /\ seq' = seq + 1
      /\ at' = [at EXCEPT ![t] = 1]
      /\ issued' = Append(issued, c)
      /\ result' = Append(result, None)
      /\ Goto(t, "write")
      /\ UNCHANGED <<err, wbuf, made, head, resp, wire, taken, outbox, svr, handled>>
  BY <1>1 DEF Lock, netVars
<1>3. n \in Nat /\ seq = n /\ Len(result) = n /\ issued \in Seq(Proper)
  BY <1>1 DEF Types
<1>4. c \in Proper
  <2>1. made[t] \in Nat /\ made[t] > 0 /\ made[t] <= Len(Calls[t])
    BY <1>2 DEF LockInv, Types
  <2>2. made[t] \in DOMAIN Calls[t]
    BY <2>1 DEF CallsAssumption
  <2> QED
    BY <1>1, <2>2, CallProper
<1>5. /\ issued' \in Seq(Proper) /\ Len(issued') = n + 1 /\ issued'[n + 1] = c
      /\ \A s \in 0 .. n - 1 : issued'[s + 1] = issued[s + 1]
      /\ \A m \in 0 .. n : RequestsUpTo(m)' = RequestsUpTo(m)
      /\ RequestsUpTo(n + 1)' = RequestsUpTo(n) \o Part(n, 0, SizeOf(c.pieces))
      /\ \A s \in 0 .. n - 1 : Fits(s)' = Fits(s)
  BY <1>1, <1>2, <1>3, <1>4, MoreCalls
<1>6. /\ pc' \in [Callers -> Points]
      /\ pc'[t] = "write"
      /\ \A u \in Callers : u # t => pc'[u] = pc[u]
  BY <1>2, GotoDoes DEF Points
<1>7. \A u \in Callers : pc[u] \notin Holding
  BY <1>2 DEF LockInv, CapAssumption
<1>8. /\ cur' \in [Callers -> Nat] /\ cur'[t] = n
      /\ at' \in [Callers -> Nat] /\ at'[t] = 1
      /\ \A u \in Callers : u # t => cur'[u] = cur[u]
  BY <1>2, <1>3 DEF Types
<1>9. /\ result' \in Seq({None, Failed} \cup Seq(Answer)) /\ Len(result') = n + 1 /\ result'[n + 1] = None
      /\ \A i \in 1 .. n : result'[i] = result[i]
  <2>1. result \in Seq({None, Failed} \cup Seq(Answer)) /\ None \in {None, Failed} \cup Seq(Answer)
    BY DEF Types
  <2> QED
    BY <1>2, <1>3, <2>1, AppendProperties
<1>10. Types'
  <2>1. \A u \in Callers : cur'[u] <= n + 1
    <3>1. \A u \in Callers : cur[u] \in Nat /\ cur[u] <= n
      BY <1>3 DEF Types
    <3>2. TAKE u \in Callers
    <3>3. CASE u = t
      <4>1. cur'[u] = n /\ n \in Nat
        BY <1>3, <1>8, <3>3
      <4> QED
        BY <4>1
    <3>4. CASE u # t
      <4>1. cur'[u] = cur[u] /\ n \in Nat
        BY <1>3, <1>8, <3>4
      <4> QED
        BY <3>1, <4>1
    <3> QED
      BY <3>3, <3>4
  <2> QED
    BY <1>2, <1>3, <1>5, <1>6, <1>8, <1>9, <2>1 DEF Types
<1>11. LockInv'
  <2>1. \A u \in Callers : lock' = u <=> pc'[u] \in Holding
    BY <1>2, <1>6, <1>7 DEF Holding
  <2>2. \A u \in Callers : pc'[u] = "lock" => made'[u] > 0
    BY <1>2, <1>6 DEF LockInv
  <2>3. \A u \in Callers : pc'[u] \in Holding => cur'[u] + 1 = seq'
    BY <1>2, <1>3, <1>6, <1>7, <1>8
  <2>4. ASSUME NEW u \in Callers, u # t, pc'[u] \in Holding \cup {"check"}
        PROVE  cur'[u] \in Nat /\ cur'[u] < n /\ result'[cur'[u] + 1] = None
    <3>1. cur[u] < seq /\ result[cur[u] + 1] = None /\ cur[u] \in Nat
      BY <1>6, <2>4 DEF LockInv, Types
    <3>2. cur[u] + 1 \in 1 .. n
      BY <1>3, <3>1
    <3> QED
      BY <1>3, <1>8, <1>9, <2>4, <3>1, <3>2
  <2>5. \A u \in Callers : pc'[u] \in Holding \cup {"check"} => cur'[u] < seq' /\ result'[cur'[u] + 1] = None
    <3>1. TAKE u \in Callers
    <3>2. CASE u = t
      BY <1>2, <1>3, <1>8, <1>9, <3>2
    <3>3. CASE u # t
      BY <1>2, <1>3, <2>4, <3>3
    <3> QED
      BY <3>2, <3>3
  <2>6. \A u, v \in Callers :
          u # v /\ pc'[u] \in Holding \cup {"check"} /\ pc'[v] \in Holding \cup {"check"} => cur'[u] # cur'[v]
    <3>1. TAKE u, v \in Callers
    <3>2. HAVE u # v /\ pc'[u] \in Holding \cup {"check"} /\ pc'[v] \in Holding \cup {"check"}
    <3>3. CASE u = t \/ v = t
      BY <1>3, <1>8, <2>4, <3>2, <3>3
    <3>4. CASE u # t /\ v # t
      <4>1. pc'[u] = pc[u] /\ pc'[v] = pc[v] /\ cur'[u] = cur[u] /\ cur'[v] = cur[v]
        BY <1>6, <1>8, <3>4
      <4>2. pc[u] \in Holding \cup {"check"} /\ pc[v] \in Holding \cup {"check"} => cur[u] # cur[v]
        BY <3>2, Zenon DEF LockInv
      <4> QED
        BY <3>2, <4>1, <4>2, Zenon
    <3> QED
      BY <3>3, <3>4
  <2> QED
    BY <2>1, <2>2, <2>3, <2>5, <2>6 DEF LockInv
<1>12. PICK h \in 0 .. n : h = Len(handled)
  <2>1. Len(handled) \in Nat
    BY DEF Types
  <2>2. Len(handled) <= seq
    BY DEF WireInv
  <2> QED
    BY <1>3, <2>1, <2>2
<1>13. PICK j \in 0 .. Len(wire) :
         /\ wire = RequestsUpTo(h) \o Part(h, 0, j)
         /\ IF h = n THEN j = 0 ELSE j <= SizeOf(issued[h + 1].pieces)
  BY <1>3, <1>12 DEF WireInv
<1>14. SizeOf(c.pieces) \in Nat /\ SizeOf(c.pieces) > 0 /\ c.pieces \in Seq(Nat)
  BY <1>4, SizeRight
<1>15. WireInv'
  <2>1. IF h = n + 1 THEN j = 0 ELSE j <= SizeOf(issued'[h + 1].pieces)
    <3>1. CASE h = n
      BY <1>3, <1>5, <1>13, <1>14, <3>1
    <3>2. CASE h # n
      <4>1. h \in 0 .. n - 1
        BY <1>3, <1>12, <3>2
      <4> QED
        BY <1>3, <1>5, <1>13, <3>2, <4>1
    <3> QED
      BY <3>1, <3>2
  <2>2. RequestsUpTo(h)' = RequestsUpTo(h)
    BY <1>5, <1>12
  <2>3. h <= seq' /\ handled' = [i \in 1 .. h |-> i - 1] /\ taken' = Len(RequestsUpTo(h)')
    <3>1. handled = [i \in 1 .. h |-> i - 1] /\ taken = Len(RequestsUpTo(h))
      BY <1>12 DEF WireInv
    <3>2. h <= n + 1
      BY <1>3, <1>12
    <3> QED
      BY <1>2, <1>3, <2>2, <3>1, <3>2
  <2>4. wire' = RequestsUpTo(h)' \o Part(h, 0, j) /\ j \in 0 .. Len(wire')
    BY <1>2, <1>13, <2>2
  <2>5. seq' = n + 1 /\ Len(handled') = h
    BY <1>2, <1>3, <1>12
  <2> QED
    BY <2>1, <2>3, <2>4, <2>5 DEF WireInv
<1>16. RequestsUpTo(n) \in Seq(Byte) /\ Part(n, 0, 0) = <<>>
  <2>1. n \in 0 .. Len(issued) /\ 0 \in Nat
    BY <1>1, <1>3
  <2> QED
    BY <1>3, <2>1, RequestsStep, PartEmpty
<1>17. h = n => wire = RequestsUpTo(n)
  BY <1>13, <1>16, ConcatEmptySeq
<1>18. err = "null" => wbuf = <<>> /\ outbox = <<>> /\ h = n
  BY <1>2, <1>3, <1>12 DEF DoneInv
<1>19. SentInv'
  <2>1. SUFFICES ASSUME err' = "null"
                 PROVE  /\ 1 \in 1 .. Len(c.pieces) + 1
                        /\ svr' = "open" =>
                             \E i \in 0 .. Ends(c.pieces)[0] :
                               /\ wire' = RequestsUpTo(n)' \o Part(n, 0, i)
                               /\ wbuf' = Part(n, i, Ends(c.pieces)[0])
                               /\ i > 0 => ~Fits(n)'
    <3>1. \A u \in Callers : pc'[u] \in {"write", "flush"} => u = t
      BY <1>6, <1>7 DEF Holding
    <3>2. 1 - 1 = 0
      OBVIOUS
    <3> QED
      BY <1>5, <1>6, <1>8, <2>1, <3>1, <3>2, ZenonT(60) DEF SentInv
  <2>2. 1 \in 1 .. Len(c.pieces) + 1 /\ Ends(c.pieces)[0] = 0
    BY <1>14, EndsRight, SMTT(30)
  <2>3. RequestsUpTo(n)' = RequestsUpTo(n)
    BY <1>3, <1>5
  <2>4. wire' = RequestsUpTo(n)' \o Part(n, 0, 0) /\ wbuf' = Part(n, 0, 0)
    BY <1>2, <1>13, <1>16, <1>18, <2>1, <2>3
  <2> QED
    BY <2>2, <2>4
<1>20. OutboxInv'
  <2>1. \A u \in Callers : pc'[u] \in {"flush", "read_head", "read_body"} => FALSE
    BY <1>6, <1>7 DEF Holding
  <2>2. err' = "null" => Len(handled') = cur'[t] /\ outbox' = <<>>
    BY <1>2, <1>8, <1>12, <1>18
  <2>3. \A u \in Callers : pc'[u] = "write" => u = t
    BY <1>6, <1>7 DEF Holding
  <2> QED
    BY <2>1, <2>2, <2>3 DEF OutboxInv
<1>21. DoneInv'
  <2>1. lock' # None /\ \A u \in Callers : pc'[u] # "unlock"
    BY <1>2, <1>6, <1>7 DEF Holding, CapAssumption
  <2>2. ASSUME err' = "null", NEW u \in Callers, pc'[u] = "check"
        PROVE  /\ cur'[u] < Len(handled')
               /\ ~Refusing(issued'[cur'[u] + 1])
               /\ resp'[u] = AnswerTo(cur'[u], issued'[cur'[u] + 1])
    <3>1. u # t /\ pc[u] = "check" /\ cur'[u] = cur[u] /\ cur[u] \in Nat
      BY <1>6, <1>8, <2>2 DEF Types
    <3>2. /\ cur[u] < Len(handled)
          /\ ~Refusing(issued[cur[u] + 1])
          /\ resp[u] = AnswerTo(cur[u], issued[cur[u] + 1])
      BY <1>2, <2>2, <3>1 DEF DoneInv
    <3>3. cur[u] \in 0 .. n - 1
      BY <1>3, <1>12, <3>1, <3>2
    <3> QED
      BY <1>2, <1>5, <3>1, <3>2, <3>3
  <2> QED
    BY <2>1, <2>2 DEF DoneInv
<1>22. OnTimeInv'
  <2>1. SUFFICES ASSUME svr' = "open", h < seq', wire' = RequestsUpTo(h + 1)' PROVE FALSE
    BY <1>2, <1>12 DEF OnTimeInv
  <2>2. CASE h = n
    <3>1. wire = RequestsUpTo(n) \o Part(n, 0, SizeOf(c.pieces))
      BY <1>2, <1>5, <2>1, <2>2
    <3>2. 0 \in Nat /\ 0 <= SizeOf(c.pieces) /\ SizeOf(c.pieces) - 0 = SizeOf(c.pieces)
      BY <1>14
    <3>3. Part(n, 0, SizeOf(c.pieces)) \in Seq(Byte) /\ Len(Part(n, 0, SizeOf(c.pieces))) = SizeOf(c.pieces)
      BY <1>3, <1>14, <3>2, PartRight
    <3>4. PICK p \in Seq(Byte) : p = Part(n, 0, SizeOf(c.pieces)) /\ Len(p) > 0
      BY <1>14, <3>3
    <3>5. Len(wire) = Len(RequestsUpTo(n)) + Len(p)
      BY <1>16, <3>1, <3>4, ConcatProperties
    <3>6. Len(RequestsUpTo(n)) \in Nat /\ Len(p) \in Nat
      BY <1>16, <3>4, LenProperties
    <3> QED
      BY <1>17, <2>2, <3>4, <3>5, <3>6
  <2>3. CASE h # n
    <3>1. h + 1 \in 0 .. n /\ h < n
      BY <1>3, <1>12, <2>3
    <3>2. wire = RequestsUpTo(h + 1)
      BY <1>2, <1>5, <2>1, <3>1
    <3> QED
      BY <1>2, <1>3, <1>7, <1>12, <2>1, <3>1, <3>2 DEF OnTimeInv, Holding
  <2> QED
    BY <2>2, <2>3
<1>23. FitInv'
  <2>1. SUFFICES ASSUME NEW s \in 0 .. n - 1, ~Fits(s) PROVE \E r \in 0 .. seq' - 1 : ~Fits(r)'
    BY <1>2, <1>3 DEF FitInv
  <2>2. s \in 0 .. seq' - 1
    BY <1>2, <1>3, SMTT(30)
  <2>3. ~Fits(s)'
    BY <1>5, <2>1
  <2> QED
    BY <2>2, <2>3
<1>24. OwnAnswer'
  <2>1. SUFFICES ASSUME NEW s \in 0 .. n
                 PROVE  \/ result'[s + 1] \in {None, Failed}
                        \/ ~Refusing(issued'[s + 1]) /\ result'[s + 1] = AnswerTo(s, issued'[s + 1])
    BY <1>3, <1>9 DEF OwnAnswer
  <2>2. CASE s = n
    BY <1>9, <2>2
  <2>3. CASE s # n
    <3>1. s \in 0 .. n - 1 /\ s + 1 \in 1 .. n
      BY <1>3, <2>3
    <3> QED
      BY <1>3, <1>5, <1>9, <3>1 DEF OwnAnswer
  <2> QED
    BY <2>2, <2>3
<1> QED
  BY <1>10, <1>11, <1>15, <1>19, <1>20, <1>21, <1>22, <1>23, <1>24

\* The connection holds a whole request of the last call only when all of it was written.
LEMMA WholeOnly ==
    ASSUME issued \in Seq(Proper), NEW m \in 0 .. Len(issued) - 1, NEW size, size = SizeOf(issued[m + 1].pieces),
           NEW j \in 0 .. size
    PROVE  /\ size \in Nat /\ size > 0 /\ m \in Nat
           /\ RequestsUpTo(m) \in Seq(Byte) /\ Part(m, 0, j) \in Seq(Byte)
           /\ RequestsUpTo(m + 1) = RequestsUpTo(m) \o Part(m, 0, size)
           /\ RequestsUpTo(m) \o Part(m, 0, j) = RequestsUpTo(m + 1) => j = size
           /\ Len(RequestsUpTo(m) \o Part(m, 0, j)) = Len(RequestsUpTo(m)) + j
           /\ Len(RequestsUpTo(m)) \in Nat
<1>1. size \in Nat /\ size > 0 /\ RequestBytes(m) = Part(m, 0, size) /\ m \in Nat
  BY RequestRight
<1>2. m \in 0 .. Len(issued)
  BY LenProperties
<1>3. RequestsUpTo(m) \in Seq(Byte) /\ RequestsUpTo(m + 1) = RequestsUpTo(m) \o Part(m, 0, size)
  BY <1>1, <1>2, RequestsStep
<1>4. 0 \in Nat /\ j \in Nat /\ 0 <= j /\ 0 <= size /\ j - 0 = j /\ size - 0 = size
  BY <1>1
<1>5. Part(m, 0, j) \in Seq(Byte) /\ Len(Part(m, 0, j)) = j
  BY <1>1, <1>4, PartRight
<1>6. Part(m, 0, size) \in Seq(Byte) /\ Len(Part(m, 0, size)) = size
  BY <1>1, <1>4, PartRight
<1>7. /\ Len(RequestsUpTo(m) \o Part(m, 0, j)) = Len(RequestsUpTo(m)) + j
      /\ Len(RequestsUpTo(m) \o Part(m, 0, size)) = Len(RequestsUpTo(m)) + size
  <2>1. /\ Len(RequestsUpTo(m) \o Part(m, 0, j)) = Len(RequestsUpTo(m)) + Len(Part(m, 0, j))
        /\ Len(RequestsUpTo(m) \o Part(m, 0, size)) = Len(RequestsUpTo(m)) + Len(Part(m, 0, size))
    BY <1>3, <1>5, <1>6, ConcatProperties, Zenon
  <2> QED
    BY <1>5, <1>6, <2>1
<1>8. Len(RequestsUpTo(m)) \in Nat
  BY <1>3, LenProperties
<1>9. ASSUME RequestsUpTo(m) \o Part(m, 0, j) = RequestsUpTo(m + 1) PROVE j = size
  <2>1. Len(RequestsUpTo(m)) + j = Len(RequestsUpTo(m)) + size
    BY <1>3, <1>7, <1>9
  <2> QED
    BY <1>4, <1>1, <1>8, <2>1
<1> QED
  BY <1>1, <1>3, <1>5, <1>7, <1>8, <1>9

LEMMA MoreWritten ==
    ASSUME issued \in Seq(Proper), NEW m \in 0 .. Len(issued) - 1, NEW j \in Nat, NEW k \in Nat, j <= k
    PROVE  (RequestsUpTo(m) \o Part(m, 0, j)) \o Part(m, j, k) = RequestsUpTo(m) \o Part(m, 0, k)
<1>1. m \in Nat /\ m \in 0 .. Len(issued) /\ 0 \in Nat /\ 0 <= j
  BY LenProperties
<1>2. RequestsUpTo(m) \in Seq(Byte) /\ Part(m, 0, j) \in Seq(Byte) /\ Part(m, j, k) \in Seq(Byte)
  BY <1>1, RequestsStep, PartRight
<1>3. Part(m, 0, j) \o Part(m, j, k) = Part(m, 0, k)
  BY <1>1, PartJoin, ZenonT(60)
<1>4. (RequestsUpTo(m) \o Part(m, 0, j)) \o Part(m, j, k) = RequestsUpTo(m) \o (Part(m, 0, j) \o Part(m, j, k))
  <2>1. PICK a \in Seq(Byte), b \in Seq(Byte), d \in Seq(Byte) :
          a = RequestsUpTo(m) /\ b = Part(m, 0, j) /\ d = Part(m, j, k)
    BY <1>2
  <2>2. (a \o b) \o d = a \o (b \o d)
    BY ConcatAssociative, SMTT(30)
  <2> QED
    BY <2>1, <2>2
<1> QED
  BY <1>3, <1>4

\* Where the holder is while it sends.
LEMMA Sending ==
    ASSUME IInv, NEW t \in Callers, pc[t] \in {"write", "flush"}, err = "null"
    PROVE  LET m == cur[t]
               c == issued[m + 1]
               i == at[t]
               h == Len(handled)
               e == Ends(c.pieces)[i - 1]
           IN /\ m \in 0 .. Len(issued) - 1 /\ m + 1 = Len(issued) /\ seq = m + 1
              /\ c \in Proper /\ i \in 1 .. Len(c.pieces) + 1
              /\ e \in 0 .. SizeOf(c.pieces)
              /\ h \in {m, m + 1}
              /\ svr = "open" =>
                   \E j \in 0 .. e :
                     /\ wire = RequestsUpTo(m) \o Part(m, 0, j)
                     /\ wbuf = Part(m, j, e)
                     /\ j > 0 => ~Fits(m)
                     /\ j < SizeOf(c.pieces) => h = m
<1> DEFINE m == cur[t]
           c == issued[m + 1]
           i == at[t]
           h == Len(handled)
           e == Ends(c.pieces)[i - 1]
<1> USE DEF IInv
<1>1. pc[t] \in Holding
  BY DEF Holding
<1>2. m \in 0 .. Len(issued) - 1 /\ m + 1 = Len(issued) /\ seq = m + 1 /\ c \in Proper
  BY <1>1, HolderOnly
<1>3. c.pieces \in Seq(Nat) /\ SizeOf(c.pieces) \in Nat
  BY <1>2, SizeRight
<1>4. i \in 1 .. Len(c.pieces) + 1
  BY <1>2 DEF SentInv
<1>5. e \in 0 .. SizeOf(c.pieces)
  <2>1. i - 1 \in 0 .. Len(c.pieces)
    BY <1>3, <1>4
  <2>2. e \in Nat /\ e <= SizeOf(c.pieces)
    BY <1>3, <2>1, EndsRight
  <2> QED
    BY <1>3, <2>2
<1>6. h \in {m, m + 1}
  BY <1>2 DEF OutboxInv
<1>7. ASSUME svr = "open"
      PROVE  \E j \in 0 .. e :
                  /\ wire = RequestsUpTo(m) \o Part(m, 0, j)
                  /\ wbuf = Part(m, j, e)
                  /\ j > 0 => ~Fits(m)
                  /\ j < SizeOf(c.pieces) => h = m
  <2>1. PICK j \in 0 .. e :
                  /\ wire = RequestsUpTo(m) \o Part(m, 0, j)
                  /\ wbuf = Part(m, j, e)
                  /\ j > 0 => ~Fits(m)
    BY <1>7 DEF SentInv
  <2>2. ASSUME h # m PROVE j = SizeOf(c.pieces)
    <3>1. h = m + 1 /\ h = Len(issued) /\ h \in 0 .. Len(issued)
      BY <1>2, <1>6, <2>2
    <3>2. wire = RequestsUpTo(h) \o Part(h, 0, 0) /\ h \in Nat
      BY <3>1, InboxIs
    <3>3. Part(h, 0, 0) = <<>> /\ RequestsUpTo(h) \in Seq(Byte)
      BY <3>1, <3>2, PartEmpty, RequestsStep, SMTT(30) DEF Types
    <3>4. wire = RequestsUpTo(m + 1)
      BY <3>1, <3>2, <3>3, ConcatEmptySeq
    <3>5. j \in 0 .. SizeOf(c.pieces) /\ issued \in Seq(Proper)
      BY <1>3, <1>5, SMTT(30) DEF Types
    <3>6. PICK size : size = SizeOf(issued[m + 1].pieces)
      OBVIOUS
    <3>7. RequestsUpTo(m) \o Part(m, 0, j) = RequestsUpTo(m + 1)
      BY <2>1, <3>4
    <3>8. j = size
      BY <1>2, <3>5, <3>6, <3>7, WholeOnly
    <3> QED
      BY <3>6, <3>8
  <2>3. j < SizeOf(c.pieces) => h = m
    BY <1>3, <1>5, <2>2
  <2> QED
    BY <2>1, <2>3
<1> QED
  BY <1>2, <1>4, <1>5, <1>6, <1>7

\* The holder moves on inside client_call and nothing else happens.
LEMMA MoveKeeps ==
    ASSUME CapAssumption, IInv, NEW t \in Callers, pc[t] = "write",
           NEW point \in {"flush", "unlock"}, Goto(t, point),
           point = "flush" => err = "null" /\ at[t] > Len(issued[cur[t] + 1].pieces),
           point = "unlock" => err # "null",
           UNCHANGED <<lock, seq, err, wbuf, made, cur, at, head, resp, issued, result, netVars>>
    PROVE  IInv'
<1> USE DEF IInv
<1>1. /\ pc' \in [Callers -> Points]
      /\ pc'[t] = point
      /\ \A u \in Callers : u # t => pc'[u] = pc[u]
  BY GotoDoes DEF Points
<1>2. UNCHANGED <<lock, seq, err, wbuf, made, cur, at, head, resp, issued, result, wire, taken, outbox, svr, handled>>
  BY DEF netVars
<1>3. pc[t] \in Holding /\ point \in Holding /\ \A u \in Callers : u # t => pc[u] \notin Holding
  BY HolderOnly DEF Holding
<1>4. Types'
  BY <1>1, <1>2 DEF Types
<1>5. LockInv'
  BY <1>1, <1>2, <1>3, HolderStays
<1>6. WireInv'
  BY <1>2, SameCalls DEF WireInv
<1>7. SentInv'
  <2>1. CASE point = "unlock"
    BY <1>1, <1>2, <1>3, <2>1 DEF SentInv, Holding
  <2>2. CASE point = "flush"
    <3>1. at[t] = Len(issued[cur[t] + 1].pieces) + 1
      <4>1. PICK m, c, i : m = cur[t] /\ c = issued[m + 1] /\ i = at[t]
        OBVIOUS
      <4>2. c \in Proper /\ i \in 1 .. Len(c.pieces) + 1
        BY <2>2, <4>1, Sending
      <4>3. Len(c.pieces) \in Nat
        BY <4>2, SizeRight, LenProperties
      <4> QED
        BY <2>2, <4>1, <4>2, <4>3
    <3>2. \A u \in Callers : pc'[u] \in {"write", "flush"} => u = t
      BY <1>1, <1>3 DEF Holding
    <3>3. err' = "null" /\ err = "null"
      BY <1>2, <2>2
    <3> QED
      BY <1>1, <1>2, <3>1, <3>2, <3>3, SameCalls DEF SentInv
  <2> QED
    BY <2>1, <2>2
<1>8. OutboxInv'
  <2>1. \A u \in Callers : u # t => pc'[u] \notin {"write", "flush", "read_head", "read_body"}
    BY <1>1, <1>3 DEF Holding
  <2>2. \/ Len(handled) = cur[t] /\ outbox = <<>>
        \/ Len(handled) = seq /\ Answering(Response(cur[t]))
        \/ point = "unlock"
    BY DEF OutboxInv
  <2>3. Answering(Response(cur[t])) = Answering(Response(cur[t]))'
    BY <1>2, SameCalls DEF Answering
  <2> QED
    BY <1>1, <1>2, <2>1, <2>2, <2>3 DEF OutboxInv
<1>9. DoneInv'
  <2>1. lock # None
    BY <1>3, HolderOnly DEF CapAssumption
  <2>2. err = "null" => \A u \in Callers : pc'[u] \in {"unlock", "check"} => pc[u] = pc'[u]
    BY <1>1
  <2> QED
    BY <1>1, <1>2, <2>1, <2>2 DEF DoneInv
<1>10. OnTimeInv'
  <2>1. \A u \in Callers : pc[u] \in {"flush", "read_head", "write"} => u = t
    BY <1>3 DEF Holding
  <2> QED
    BY <1>1, <1>2, <2>1, SameCalls DEF OnTimeInv
<1>11. FitInv'
  BY <1>2, SameCalls DEF FitInv
<1>12. OwnAnswer'
  BY <1>2 DEF OwnAnswer
<1> QED
  BY <1>4, <1>5, <1>6, <1>7, <1>8, <1>9, <1>10, <1>11, <1>12

LEMMA PieceIs ==
    ASSUME issued \in Seq(Proper), NEW m \in 0 .. Len(issued) - 1, NEW i \in 1 .. Len(issued[m + 1].pieces)
    PROVE  LET c == issued[m + 1]
               e == Ends(c.pieces)[i - 1]
               f == Ends(c.pieces)[i]
           IN /\ e \in Nat /\ f \in Nat /\ e <= f /\ f <= SizeOf(c.pieces)
              /\ Piece(m, i) = Part(m, e, f) /\ Piece(m, i) \in Seq(Byte) /\ Len(Piece(m, i)) = f - e
<1> DEFINE c == issued[m + 1]
           e == Ends(c.pieces)[i - 1]
           f == Ends(c.pieces)[i]
<1>1. c \in Proper /\ m \in Nat
  BY RequestRight
<1>2. Piece(m, i) = Part(m, e, f)
  BY DEF Piece
<1> HIDE DEF c
<1>3. c.pieces \in Seq(Nat)
  BY <1>1, SizeRight
<1>4. i \in 1 .. Len(c.pieces)
  BY DEF c
<1>5. i \in 0 .. Len(c.pieces) /\ i - 1 \in 0 .. Len(c.pieces) /\ c.pieces[i] \in Nat
  BY <1>3, <1>4, SMTT(30)
<1>6. f = e + c.pieces[i]
  BY <1>3, <1>4, EndsRight
<1>7. e \in Nat /\ f \in Nat /\ f <= SizeOf(c.pieces)
  BY <1>3, <1>5, EndsRight
<1> HIDE DEF e, f
<1>8. e <= f
  BY <1>5, <1>6, <1>7
<1>9. Part(m, e, f) \in Seq(Byte) /\ Len(Part(m, e, f)) = f - e
  BY <1>1, <1>7, <1>8, PartRight
<1> QED
  BY <1>2, <1>7, <1>8, <1>9 DEF c, e, f

LEMMA BufferedTypes ==
    ASSUME Types, at' \in [Callers -> Nat], wbuf' \in Seq(Byte), Len(wbuf') <= Cap,
           UNCHANGED <<lock, issued, seq, result, err, pc, made, cur, head, resp, wire, taken, outbox, svr, handled>>
    PROVE  Types'
<1>1. /\ lock' \in Callers \cup {None}
      /\ issued' \in Seq(Proper) /\ seq' = Len(issued')
      /\ result' \in Seq({None, Failed} \cup Seq(Answer)) /\ Len(result') = seq'
      /\ err' \in {"null", "write", "read", "handler"}
      /\ svr' \in {"open", "closed", "crashed"}
  BY DEF Types
<1>2. /\ pc' \in [Callers -> Points]
      /\ made' \in [Callers -> Nat] /\ \A t \in Callers : made'[t] <= Len(Calls[t])
      /\ cur' \in [Callers -> Nat] /\ \A t \in Callers : cur'[t] <= seq'
      /\ head' \in [Callers -> Answer \cup {None}]
      /\ resp' \in [Callers -> Seq(Answer)]
  BY DEF Types
<1>3. wire' \in Seq(Byte) /\ taken' \in 0 .. Len(wire') /\ outbox' \in Seq(Answer) /\ handled' \in Seq(Nat)
  BY DEF Types
<1> QED
  BY <1>1, <1>2, <1>3 DEF Types

\* A piece that fits goes into the buffer.
LEMMA BufferKeeps ==
    ASSUME CapAssumption, IInv, NEW t \in Callers, pc[t] = "write", err = "null",
           at[t] <= Len(issued[cur[t] + 1].pieces),
           at' = [at EXCEPT ![t] = @ + 1],
           Len(wbuf) + Len(Piece(cur[t], at[t])) <= Cap,
           wbuf' = wbuf \o Piece(cur[t], at[t]),
           UNCHANGED <<lock, seq, err, pc, made, cur, head, resp, issued, result, netVars>>
    PROVE  IInv'
<1> USE DEF IInv
<1>1. PICK m, c, i, h, e, f :
        /\ m = cur[t] /\ c = issued[m + 1] /\ i = at[t] /\ h = Len(handled)
        /\ e = Ends(c.pieces)[i - 1] /\ f = Ends(c.pieces)[i]
  OBVIOUS
<1>2. /\ m \in 0 .. Len(issued) - 1 /\ m + 1 = Len(issued) /\ seq = m + 1
      /\ c \in Proper /\ i \in 1 .. Len(c.pieces) + 1
      /\ svr = "open" =>
           \E j \in 0 .. e :
             /\ wire = RequestsUpTo(m) \o Part(m, 0, j)
             /\ wbuf = Part(m, j, e)
             /\ j > 0 => ~Fits(m)
  BY <1>1, Sending
<1>3. c.pieces \in Seq(Nat) /\ i \in 1 .. Len(c.pieces) /\ i <= Len(c.pieces)
  BY <1>1, <1>2, SizeRight
<1>4. /\ e \in Nat /\ f \in Nat /\ e <= f
      /\ Piece(m, i) = Part(m, e, f) /\ Piece(m, i) \in Seq(Byte)
  <2>1. issued \in Seq(Proper)
    BY DEF Types
  <2> QED
    BY <1>1, <1>2, <1>3, <2>1, PieceIs
<1>5. UNCHANGED <<lock, seq, err, pc, made, cur, head, resp, issued, result, wire, taken, outbox, svr, handled>>
  BY DEF netVars
<1>6. at' \in [Callers -> Nat] /\ at'[t] = i + 1 /\ \A u \in Callers : u # t => at'[u] = at[u]
  <2>1. at \in [Callers -> Nat]
    BY DEF Types
  <2> QED
    BY <1>1, <2>1
<1>7. pc[t] \in Holding /\ lock # None /\ \A u \in Callers : u # t => pc[u] \notin Holding
  BY HolderOnly DEF Holding, CapAssumption
<1>8. Types'
  <2>1. wbuf \in Seq(Byte) /\ Len(wbuf \o Piece(m, i)) = Len(wbuf) + Len(Piece(m, i))
    BY <1>4, ConcatProperties DEF Types
  <2>2. wbuf' \in Seq(Byte) /\ Len(wbuf') <= Cap
    BY <1>1, <1>4, <2>1, ConcatProperties
  <2> QED
    BY <1>5, <1>6, <2>2, BufferedTypes
<1>9. LockInv'
  BY <1>5 DEF LockInv
<1>10. WireInv'
  BY <1>5, SameCalls DEF WireInv
<1>11. SentInv'
  <2>1. \A u \in Callers : pc'[u] \in {"write", "flush"} => u = t
    BY <1>5, <1>7 DEF Holding
  <2>2. i + 1 \in 1 .. Len(c.pieces) + 1 /\ (i + 1) - 1 = i
    BY <1>3
  <2>3. ASSUME svr' = "open"
        PROVE  \E j \in 0 .. f :
                 /\ wire' = RequestsUpTo(m)' \o Part(m, 0, j)
                 /\ wbuf' = Part(m, j, f)
                 /\ j > 0 => ~Fits(m)'
    <3>1. PICK j \in 0 .. e :
             /\ wire = RequestsUpTo(m) \o Part(m, 0, j)
             /\ wbuf = Part(m, j, e)
             /\ j > 0 => ~Fits(m)
      BY <1>2, <1>5, <2>3
    <3>2. j \in Nat /\ j <= e /\ m \in Nat
      BY <1>2, <1>4
    <3>3. wbuf' = Part(m, j, f)
      <4>1. wbuf' = Part(m, j, e) \o Part(m, e, f)
        BY <1>1, <1>4, <3>1
      <4> QED
        <5>1. e \in Nat /\ f \in Nat /\ e <= f
          BY <1>4
        <5>2. Part(m, j, e) \o Part(m, e, f) = Part(m, j, f)
          BY <3>2, <5>1, PartJoin
        <5> QED
          BY <4>1, <5>2
    <3>4. j \in 0 .. f
      BY <1>4, <3>2
    <3> QED
      BY <1>5, <3>1, <3>3, <3>4, SameCalls
  <2>4. pc'[t] # "flush"
    BY <1>5
  <2> QED
    BY <1>1, <1>5, <1>6, <2>1, <2>2, <2>3, <2>4, ZenonT(60) DEF SentInv
<1>12. OutboxInv'
  <2>1. \A u \in Callers : pc[u] \notin {"flush", "read_head", "read_body"}
    BY <1>7 DEF Holding
  <2>2. Answering(Response(cur[t])) = Answering(Response(cur[t]))'
    BY <1>5, SameCalls DEF Answering
  <2>3. \A u \in Callers : pc[u] = "write" => u = t
    BY <1>7 DEF Holding
  <2> QED
    BY <1>5, <2>1, <2>2, <2>3 DEF OutboxInv
<1>13. DoneInv'
  <2>1. \A u \in Callers : pc[u] # "unlock"
    BY <1>7 DEF Holding
  <2> QED
    BY <1>5, <1>7, <2>1 DEF DoneInv
<1>14. OnTimeInv'
  BY <1>5, SameCalls DEF OnTimeInv
<1>15. FitInv'
  BY <1>5, SameCalls DEF FitInv
<1>16. OwnAnswer'
  BY <1>5 DEF OwnAnswer
<1> QED
  BY <1>8, <1>9, <1>10, <1>11, <1>12, <1>13, <1>14, <1>15, <1>16

\* A piece that does not fit is written past the buffer, after what is in it.
LEMMA DirectKeeps ==
    ASSUME CapAssumption, IInv, NEW t \in Callers, pc[t] = "write", err = "null",
           at[t] <= Len(issued[cur[t] + 1].pieces),
           at' = [at EXCEPT ![t] = @ + 1],
           Len(wbuf) + Len(Piece(cur[t], at[t])) > Cap,
           Writing(<<wbuf, Piece(cur[t], at[t])>>),
           UNCHANGED <<lock, seq, pc, made, cur, head, resp, issued, result, taken, outbox, svr, handled>>
    PROVE  IInv'
<1> USE DEF IInv
<1>1. PICK m, c, i, h, e, f :
        /\ m = cur[t] /\ c = issued[m + 1] /\ i = at[t] /\ h = Len(handled)
        /\ e = Ends(c.pieces)[i - 1] /\ f = Ends(c.pieces)[i]
  OBVIOUS
<1>2. /\ m \in 0 .. Len(issued) - 1 /\ m + 1 = Len(issued) /\ seq = m + 1
      /\ c \in Proper /\ i \in 1 .. Len(c.pieces) + 1
      /\ svr = "open" =>
           \E j \in 0 .. e :
             /\ wire = RequestsUpTo(m) \o Part(m, 0, j)
             /\ wbuf = Part(m, j, e)
             /\ j > 0 => ~Fits(m)
             /\ j < SizeOf(c.pieces) => h = m
  BY <1>1, Sending
<1>3. c.pieces \in Seq(Nat) /\ i \in 1 .. Len(c.pieces) /\ i <= Len(c.pieces)
  BY <1>1, <1>2, SizeRight
<1>4. PICK size : size = SizeOf(c.pieces)
  OBVIOUS
<1>5. /\ e \in Nat /\ f \in Nat /\ e <= f /\ f <= size /\ size \in Nat
      /\ Piece(m, i) = Part(m, e, f) /\ Piece(m, i) \in Seq(Byte) /\ Len(Piece(m, i)) = f - e
  <2>1. issued \in Seq(Proper)
    BY DEF Types
  <2>2. SizeOf(c.pieces) \in Nat
    BY <1>2, SizeRight
  <2> QED
    BY <1>1, <1>2, <1>3, <1>4, <2>1, <2>2, PieceIs
<1>6. UNCHANGED <<lock, seq, pc, made, cur, head, resp, issued, result, taken, outbox, svr, handled>>
  OBVIOUS
<1>7. /\ Cap \in Nat /\ wbuf \in Seq(Byte) /\ Len(wbuf) \in Nat /\ Len(wbuf) <= Cap
     /\ wire \in Seq(Byte) /\ taken \in 0 .. Len(wire)
  BY DEF Types, CapAssumption
<1>8. at' \in [Callers -> Nat] /\ at'[t] = i + 1 /\ \A u \in Callers : u # t => at'[u] = at[u]
  <2>1. at \in [Callers -> Nat]
    BY DEF Types
  <2> QED
    BY <1>1, <2>1
<1>9. pc[t] \in Holding /\ lock # None /\ \A u \in Callers : u # t => pc[u] \notin Holding
  BY HolderOnly DEF Holding, CapAssumption
<1>10. e < f /\ Piece(m, i) # <<>>
  <2>1. Len(Piece(m, i)) > 0
    <3>1. Len(wbuf) + Len(Piece(m, i)) > Cap
      BY <1>1, Zenon
    <3> QED
      BY <1>5, <1>7, <3>1
  <2> QED
    BY <1>5, <2>1
<1>11. \/ err' = "write" /\ wire' = wire /\ wbuf' = wbuf /\ (svr = "open" => wbuf = <<>>)
       \/ err' = "write" /\ wire' = wire /\ wbuf' = <<>> /\ svr # "open"
       \/ err' = "null" /\ wbuf' = <<>> /\ wire' = IF svr = "open" THEN wire \o (wbuf \o Piece(m, i)) ELSE wire
  <2>1. Writing(<<wbuf, Piece(m, i)>>)
    BY <1>1
  <2> QED
    BY <1>5, <1>7, <1>10, <2>1, WriteTwo
<1>12. svr = "open" =>
           \E j \in 0 .. e :
             /\ wire = RequestsUpTo(m) \o Part(m, 0, j) /\ wbuf = Part(m, j, e)
             /\ Len(wbuf) = e - j /\ j < size /\ h = m
  <2>1. SUFFICES ASSUME svr = "open",
                        NEW j \in 0 .. e,
                        wire = RequestsUpTo(m) \o Part(m, 0, j), wbuf = Part(m, j, e),
                        j < SizeOf(c.pieces) => h = m
                 PROVE  Len(wbuf) = e - j /\ j < size /\ h = m
    BY <1>2
  <2>2. j \in Nat /\ j <= e /\ m \in Nat
    BY <1>2, <1>5
  <2>3. Len(wbuf) = e - j
    BY <1>5, <2>1, <2>2, PartRight
  <2>4. j < size
    BY <1>5, <1>10, <2>2
  <2> QED
    BY <1>4, <2>1, <2>3, <2>4
\* the request does not fit when something has been written out
<1>13. svr = "open" => ~Fits(m)
  <2>1. SUFFICES ASSUME svr = "open" PROVE ~Fits(m)
    OBVIOUS
  <2>2. PICK j \in 0 .. e : Len(wbuf) = e - j
    BY <1>12, <2>1
  <2>3. (e - j) + (f - e) > Cap
    BY <1>1, <1>5, <2>2
  <2>4. size > Cap
    <3>1. /\ e \in Nat /\ f \in Nat /\ size \in Nat /\ f <= size /\ Cap \in Nat
          /\ j \in Nat
      BY <1>5, <1>7
    <3> QED
      BY <2>3, <3>1
  <2> QED
    <3>1. size = SizeOf(issued[m + 1].pieces)
      BY <1>1, <1>4, Zenon
    <3>2. ~(size <= Cap)
      BY <1>5, <1>7, <2>4
    <3> QED
      BY <3>1, <3>2, Zenon DEF Fits
<1>14. Types'
  <2>1. wbuf' \in Seq(Byte) /\ Len(wbuf') <= Cap
    <3>1. wbuf' = wbuf \/ wbuf' = <<>>
      BY <1>11
    <3>2. <<>> \in Seq(Byte) /\ Len(<<>>) = 0 /\ 0 <= Cap
      BY <1>7
    <3> QED
      BY <1>7, <3>1, <3>2
  <2>2. wire' \in Seq(Byte) /\ taken' \in 0 .. Len(wire')
    <3>1. PICK x \in Seq(Byte) : x = wbuf \o Piece(m, i)
      BY <1>5, <1>7, ConcatProperties
    <3>2. wire \o x \in Seq(Byte) /\ Len(wire \o x) = Len(wire) + Len(x)
      BY <1>7, ConcatProperties
    <3>3. Len(x) \in Nat /\ Len(wire) \in Nat
      BY <1>7, LenProperties
    <3>4. wire' = wire \/ wire' = wire \o x
      BY <1>11, <3>1
    <3>5. taken' = taken /\ taken \in 0 .. Len(wire)
      BY <1>6, <1>7
    <3>6. CASE wire' = wire
      BY <1>7, <3>5, <3>6
    <3>7. CASE wire' = wire \o x
      BY <3>2, <3>3, <3>5, <3>7
    <3> QED
      BY <3>4, <3>6, <3>7
  <2>3. err' \in {"null", "write", "read", "handler"}
    BY <1>11
  <2> QED
    <3>1. outbox' \in Seq(Answer) /\ svr' \in {"open", "closed", "crashed"} /\ handled' \in Seq(Nat)
      BY <1>6 DEF Types
    <3>2. \A u \in Callers : made'[u] <= Len(Calls[u]) /\ cur'[u] <= seq'
      BY <1>6 DEF Types
    <3> QED
      BY <1>6, <1>8, <2>1, <2>2, <2>3, <3>1, <3>2 DEF Types
<1>15. LockInv'
  BY <1>6 DEF LockInv
<1>16. ASSUME svr = "open", err' = "null"
       PROVE  /\ h = m /\ wire' = RequestsUpTo(m) \o Part(m, 0, f) /\ wbuf' = Part(m, f, f)
              /\ f \in 0 .. Len(wire')
  <2>1. PICK j \in 0 .. e : wire = RequestsUpTo(m) \o Part(m, 0, j) /\ wbuf = Part(m, j, e) /\ h = m
    BY <1>12, <1>16
  <2>2. j \in Nat /\ j <= e /\ m \in Nat /\ 0 \in Nat /\ 0 <= j
    BY <1>2, <1>5
  <2>3. wbuf \o Piece(m, i) = Part(m, j, f)
    <3>1. e \in Nat /\ f \in Nat /\ e <= f
      BY <1>5
    <3>2. Part(m, j, e) \o Part(m, e, f) = Part(m, j, f)
      BY <2>2, <3>1, PartJoin, ZenonT(60)
    <3> QED
      BY <1>5, <2>1, <3>2
  <2>4. wire' = (RequestsUpTo(m) \o Part(m, 0, j)) \o Part(m, j, f)
    BY <1>11, <1>16, <2>1, <2>3
  <2>5. wire' = RequestsUpTo(m) \o Part(m, 0, f)
    <3>1. j <= f /\ f \in Nat /\ issued \in Seq(Proper)
      BY <1>5, <2>2 DEF Types
    <3> QED
      BY <1>2, <2>2, <2>4, <3>1, MoreWritten
  <2>7. wbuf' = Part(m, f, f)
    BY <1>5, <1>11, <1>16, <2>2, PartEmpty
  <2>8. f \in 0 .. Len(wire')
    <3>1. issued \in Seq(Proper) /\ f \in 0 .. size /\ size = SizeOf(issued[m + 1].pieces)
          /\ m \in 0 .. Len(issued) - 1
      <4>1. issued \in Seq(Proper)
        BY DEF Types
      <4>2. f \in 0 .. size
        BY <1>5
      <4>3. size = SizeOf(issued[m + 1].pieces)
        BY <1>1, <1>4, Zenon
      <4>4. m \in 0 .. Len(issued) - 1
        BY <1>2, Zenon
      <4> QED
        BY <4>1, <4>2, <4>3, <4>4, Zenon
    <3>2. Len(RequestsUpTo(m) \o Part(m, 0, f)) = Len(RequestsUpTo(m)) + f /\ Len(RequestsUpTo(m)) \in Nat
      BY <3>1, WholeOnly
    <3> QED
      BY <1>5, <2>5, <3>2
  <2> QED
    BY <2>1, <2>5, <2>7, <2>8
<1>17. WireInv'
  <2>1. CASE svr = "open" /\ err' = "null"
    <3>1. h <= seq' /\ h # seq' /\ Len(handled') = h
      <4>1. Len(issued) \in Nat
        BY LenProperties DEF Types
      <4>2. m \in Nat /\ seq = m + 1
        BY <1>2, <4>1
      <4>3. h = m /\ Len(handled') = h /\ seq' = seq
        BY <1>1, <1>6, <1>16, <2>1
      <4> QED
        BY <4>2, <4>3
    <3>2. handled' = [k \in 1 .. h |-> k - 1] /\ taken' = Len(RequestsUpTo(h)')
      BY <1>1, <1>6, SameCalls DEF WireInv
    <3>3. wire' = RequestsUpTo(h)' \o Part(h, 0, f)
      BY <1>6, <1>16, <2>1, SameCalls
    <3>4. f <= SizeOf(issued'[h + 1].pieces)
      BY <1>1, <1>4, <1>5, <1>6, <1>16, <2>1
    <3> QED
      BY <1>16, <2>1, <3>1, <3>2, <3>3, <3>4 DEF WireInv
  <2>2. CASE ~(svr = "open" /\ err' = "null")
    <3>1. wire' = wire
      BY <1>11, <2>2
    <3> QED
      BY <1>6, <3>1, SameCalls DEF WireInv
  <2> QED
    BY <2>1, <2>2
<1>18. SentInv'
  <2>1. \A u \in Callers : pc'[u] \in {"write", "flush"} => u = t
    BY <1>6, <1>9 DEF Holding
  <2>2. i + 1 \in 1 .. Len(c.pieces) + 1 /\ (i + 1) - 1 = i
    BY <1>3
  <2>3. ASSUME svr' = "open", err' = "null"
        PROVE  \E j \in 0 .. f :
                 /\ wire' = RequestsUpTo(m)' \o Part(m, 0, j)
                 /\ wbuf' = Part(m, j, f)
                 /\ j > 0 => ~Fits(m)'
    <3>1. ~Fits(m)' /\ f \in 0 .. f /\ RequestsUpTo(m)' = RequestsUpTo(m)
      BY <1>5, <1>6, <1>13, <2>3, SameCalls
    <3> QED
      BY <1>6, <1>16, <2>3, <3>1
  <2>4. pc'[t] # "flush"
    BY <1>6
  <2> QED
    BY <1>1, <1>6, <1>8, <2>1, <2>2, <2>3, <2>4 DEF SentInv
<1>19. OutboxInv'
  <2>1. \A u \in Callers : pc[u] \notin {"flush", "read_head", "read_body"}
    BY <1>9 DEF Holding
  <2>2. Answering(Response(cur[t])) = Answering(Response(cur[t]))'
    BY <1>6, SameCalls DEF Answering
  <2>3. \A u \in Callers : pc[u] = "write" => u = t
    BY <1>9 DEF Holding
  <2> QED
    BY <1>6, <2>1, <2>2, <2>3 DEF OutboxInv
<1>20. DoneInv'
  <2>1. \A u \in Callers : pc[u] # "unlock"
    BY <1>9 DEF Holding
  <2> QED
    BY <1>6, <1>9, <2>1 DEF DoneInv
<1>21. OnTimeInv'
  <2>1. SUFFICES ASSUME svr = "open", h < seq, wire' = RequestsUpTo(h + 1)
                 PROVE  err' = "null" /\ h = m
    BY <1>1, <1>6, SameCalls DEF OnTimeInv
  <2>2. PICK j \in 0 .. e : wire = RequestsUpTo(m) \o Part(m, 0, j) /\ j < size /\ h = m
    BY <1>12, <2>1
  <2>3. ASSUME err' # "null" PROVE FALSE
    <3>1. RequestsUpTo(m) \o Part(m, 0, j) = RequestsUpTo(m + 1)
      BY <1>11, <2>1, <2>2, <2>3
    <3>2. j \in 0 .. size /\ issued \in Seq(Proper)
      BY <1>5, <2>2 DEF Types
    <3>3. j = size
      BY <1>1, <1>2, <1>4, <3>1, <3>2, WholeOnly, ZenonT(60)
    <3> QED
      BY <1>5, <2>2, <3>3
  <2> QED
    BY <2>2, <2>3
<1>22. FitInv'
  <2>1. SUFFICES ASSUME svr # "crashed" PROVE \E s \in 0 .. seq - 1 : ~Fits(s)
    BY <1>6, SameCalls DEF FitInv
  <2>2. CASE svr = "closed"
    BY <2>2 DEF FitInv
  <2>3. CASE svr = "open"
    <3>1. m \in 0 .. seq - 1
      BY <1>2
    <3> QED
      BY <1>13, <2>3, <3>1
  <2> QED
    BY <1>6, <2>1, <2>2, <2>3 DEF Types
<1>23. OwnAnswer'
  BY <1>6 DEF OwnAnswer
<1> QED
  BY <1>14, <1>15, <1>17, <1>18, <1>19, <1>20, <1>21, <1>22, <1>23

LEMMA WriteKeeps ==
    ASSUME CapAssumption, IInv, NEW t \in Callers, Write(t)
    PROVE  IInv'
<1>1. /\ pc[t] = "write"
      /\ UNCHANGED <<lock, seq, made, cur, head, resp, issued, result, taken, outbox, svr, handled>>
  BY DEF Write
<1>2. CASE err # "null" /\ Goto(t, "unlock") /\ UNCHANGED <<err, wbuf, at, wire>>
  BY <1>1, <1>2, MoveKeeps DEF netVars
<1>3. CASE /\ err = "null" /\ at[t] > Len(issued[cur[t] + 1].pieces)
           /\ Goto(t, "flush") /\ UNCHANGED <<err, wbuf, at, wire>>
  BY <1>1, <1>3, MoveKeeps DEF netVars
<1>4. ASSUME err = "null", at[t] <= Len(issued[cur[t] + 1].pieces),
             at' = [at EXCEPT ![t] = @ + 1],
             LET out == Buff!WriteOut(wbuf, Cap, Piece(cur[t], at[t]))
             IN \/ out.writes # <<>> /\ Writing(out.writes)
                \/ out.writes = <<>> /\ wbuf' = out.pending /\ UNCHANGED <<err, wire>>,
             UNCHANGED pc
      PROVE  IInv'
  <2> DEFINE piece == Piece(cur[t], at[t])
             out   == Buff!WriteOut(wbuf, Cap, piece)
  <2>1. CASE Len(wbuf) + Len(piece) > Cap
    <3>1. out.writes = <<wbuf, piece>> /\ out.writes # <<>>
      BY <2>1 DEF Buff!WriteOut
    <3>2. Writing(<<wbuf, piece>>)
      BY <1>4, <3>1
    <3> QED
      BY <1>1, <1>4, <2>1, <3>2, DirectKeeps
  <2>2. CASE ~(Len(wbuf) + Len(piece) > Cap)
    <3>1. out.writes = <<>> /\ out.pending = wbuf \o piece
      BY <2>2 DEF Buff!WriteOut
    <3>2. wbuf' = wbuf \o piece /\ UNCHANGED <<err, wire>>
      BY <1>4, <3>1
    <3>3. Len(wbuf) + Len(piece) <= Cap
      <4>1. piece \in Seq(Byte)
        <5>1. issued \in Seq(Proper) /\ cur[t] \in 0 .. Len(issued) - 1
          BY <1>1, HolderOnly DEF IInv, Types, Holding
        <5>2. at[t] \in 1 .. Len(issued[cur[t] + 1].pieces)
          <6>1. PICK i, l : i = at[t] /\ l = Len(issued[cur[t] + 1].pieces)
            OBVIOUS
          <6>2. i \in 1 .. l + 1 /\ l \in Nat
            <7>1. issued[cur[t] + 1] \in Proper /\ i \in 1 .. l + 1
              BY <1>1, <1>4, <6>1, Sending
            <7>2. l \in Nat
              BY <6>1, <7>1, SizeRight, LenProperties
            <7> QED
              BY <7>1, <7>2
          <6> QED
            BY <1>4, <6>1, <6>2
        <5> QED
          BY <5>1, <5>2, PieceIs
      <4>2. Len(piece) \in Nat /\ Len(wbuf) \in Nat /\ Cap \in Nat
        BY <4>1, LenProperties DEF IInv, Types, CapAssumption
      <4> HIDE DEF piece
      <4> QED
        BY <2>2, <4>2
    <3> QED
      BY <1>1, <1>4, <3>2, <3>3, BufferKeeps DEF netVars
  <2> QED
    BY <2>1, <2>2
<1> QED
  BY <1>2, <1>3, <1>4, Zenon DEF Write

\* The rest of the request is written out.
LEMMA FlushKeeps ==
    ASSUME CapAssumption, IInv, NEW t \in Callers, Flush(t)
    PROVE  IInv'
<1> USE DEF IInv
<1>1. /\ pc[t] = "flush" /\ Goto(t, "read_head") /\ Writing(<<wbuf>>)
  BY DEF Flush, Buff!FlushOut
<1>2. UNCHANGED <<lock, seq, made, cur, at, head, resp, issued, result, taken, outbox, svr, handled>>
  BY DEF Flush
<1>3. err = "null"
  BY <1>1 DEF OutboxInv
<1>4. PICK m, c, h, size : m = cur[t] /\ c = issued[m + 1] /\ h = Len(handled) /\ size = SizeOf(c.pieces)
  OBVIOUS
<1>5. /\ m \in 0 .. Len(issued) - 1 /\ m + 1 = Len(issued) /\ seq = m + 1 /\ m \in Nat
      /\ c \in Proper /\ size \in Nat /\ size > 0 /\ h \in {m, m + 1}
  <2>1. /\ m \in 0 .. Len(issued) - 1 /\ m + 1 = Len(issued) /\ seq = m + 1
        /\ c \in Proper /\ h \in {m, m + 1}
    BY <1>1, <1>3, <1>4, Sending
  <2>2. m \in Nat
    BY <2>1, LenProperties DEF Types
  <2> QED
    BY <1>4, <2>1, <2>2, SizeRight
<1>6. svr = "open" =>
        \E j \in 0 .. size :
          /\ wire = RequestsUpTo(m) \o Part(m, 0, j)
          /\ wbuf = Part(m, j, size)
          /\ j > 0 => ~Fits(m)
          /\ j < size => h = m
  <2>1. at[t] - 1 = Len(c.pieces)
    <3>1. at[t] = Len(c.pieces) + 1
      BY <1>1, <1>3, <1>4 DEF SentInv
    <3>2. Len(c.pieces) \in Nat
      BY <1>5, SizeRight, LenProperties
    <3> QED
      BY <3>1, <3>2
  <2>2. Ends(c.pieces)[at[t] - 1] = size
    BY <1>4, <2>1 DEF SizeOf
  <2> QED
    BY <1>1, <1>3, <1>4, <2>2, Sending
<1>7. wire \in Seq(Byte) /\ wbuf \in Seq(Byte) /\ taken \in 0 .. Len(wire) /\ Cap \in Nat
  BY DEF Types, CapAssumption
<1>8. \/ err' = "write" /\ wire' = wire /\ wbuf' = wbuf /\ (svr = "open" => wbuf = <<>>)
      \/ err' = "null" /\ wbuf' = <<>> /\ wbuf # <<>> /\ wire' = IF svr = "open" THEN wire \o wbuf ELSE wire
  BY <1>1, <1>3, <1>7, WriteOne
<1>9. /\ pc' \in [Callers -> Points]
      /\ pc'[t] = "read_head"
      /\ \A u \in Callers : u # t => pc'[u] = pc[u]
  BY <1>1, GotoDoes DEF Points
<1>10. pc[t] \in Holding /\ lock # None /\ \A u \in Callers : u # t => pc[u] \notin Holding
  BY <1>1, HolderOnly DEF Holding, CapAssumption
<1>11. ASSUME svr = "open"
       PROVE  \/ /\ err' = "write" /\ ~Fits(m)
              \/ /\ err' = "null" /\ h = m
                 /\ wire' = RequestsUpTo(m) \o Part(m, 0, size) /\ wire' = RequestsUpTo(m + 1)
                 /\ size \in 0 .. Len(wire')
  <2>1. PICK j \in 0 .. size :
          /\ wire = RequestsUpTo(m) \o Part(m, 0, j) /\ wbuf = Part(m, j, size)
          /\ j > 0 => ~Fits(m)
          /\ j < size => h = m
    BY <1>6, <1>11
  <2>2. j \in Nat /\ j <= size
    BY <1>5
  <2>3. wbuf = <<>> <=> j = size
    BY <1>5, <2>1, <2>2, PartEmpty
  <2>4. CASE err' = "write" /\ wbuf = <<>>
    BY <1>5, <2>1, <2>3, <2>4
  <2>5. CASE err' = "null" /\ wbuf # <<>> /\ wire' = wire \o wbuf
    <3>1. issued \in Seq(Proper) /\ size \in 0 .. size /\ size = SizeOf(issued[m + 1].pieces)
      BY <1>4, <1>5 DEF Types
    <3>2. wire' = RequestsUpTo(m) \o Part(m, 0, size)
      BY <1>5, <2>1, <2>2, <2>5, <3>1, MoreWritten
    <3>3. /\ RequestsUpTo(m + 1) = RequestsUpTo(m) \o Part(m, 0, size)
          /\ Len(RequestsUpTo(m) \o Part(m, 0, size)) = Len(RequestsUpTo(m)) + size
          /\ Len(RequestsUpTo(m)) \in Nat
      BY <1>5, <3>1, WholeOnly
    <3>4. size \in 0 .. Len(wire')
      BY <1>5, <3>2, <3>3
    <3>5. h = m
      BY <1>5, <2>1, <2>2, <2>3, <2>5
    <3> QED
      BY <2>5, <3>2, <3>3, <3>4, <3>5
  <2> QED
    BY <1>8, <1>11, <2>4, <2>5
<1>12. Types'
  <2>1. wbuf' \in Seq(Byte) /\ Len(wbuf') <= Cap
    <3>1. wbuf' = wbuf \/ wbuf' = <<>>
      BY <1>8
    <3>2. <<>> \in Seq(Byte) /\ Len(<<>>) = 0 /\ 0 <= Cap
      BY <1>7
    <3>3. Len(wbuf) <= Cap
      BY DEF Types
    <3> QED
      BY <1>7, <3>1, <3>2, <3>3
  <2>2. wire' \in Seq(Byte) /\ taken' \in 0 .. Len(wire')
    <3>1. wire \o wbuf \in Seq(Byte) /\ Len(wire \o wbuf) = Len(wire) + Len(wbuf)
      BY <1>7, ConcatProperties
    <3>2. Len(wire) \in Nat /\ Len(wbuf) \in Nat
      BY <1>7, LenProperties
    <3>3. taken' = taken
      BY <1>2
    <3>4. CASE wire' = wire
      BY <1>7, <3>3, <3>4
    <3>5. CASE wire' = wire \o wbuf
      BY <1>7, <3>1, <3>2, <3>3, <3>5
    <3> QED
      BY <1>8, <3>4, <3>5
  <2>3. err' \in {"null", "write", "read", "handler"}
    BY <1>8
  <2>4. outbox' \in Seq(Answer) /\ svr' \in {"open", "closed", "crashed"} /\ handled' \in Seq(Nat)
    BY <1>2 DEF Types
  <2>5. \A u \in Callers : made'[u] <= Len(Calls[u]) /\ cur'[u] <= seq'
    BY <1>2 DEF Types
  <2> QED
    BY <1>2, <1>9, <2>1, <2>2, <2>3, <2>4, <2>5 DEF Types
<1>13. LockInv'
  BY <1>2, <1>9, <1>10, HolderStays DEF Holding
<1>14. WireInv'
  <2>1. CASE svr = "open" /\ err' = "null"
    <3>1. h <= seq' /\ h # seq' /\ Len(handled') = h
      <4>1. h = m /\ Len(handled') = h /\ seq' = m + 1
        BY <1>2, <1>4, <1>5, <1>11, <2>1
      <4> QED
        BY <1>5, <4>1
    <3>2. handled' = [k \in 1 .. h |-> k - 1] /\ taken' = Len(RequestsUpTo(h)')
      BY <1>2, <1>4, SameCalls DEF WireInv
    <3>3. wire' = RequestsUpTo(h)' \o Part(h, 0, size)
      BY <1>2, <1>11, <2>1, SameCalls
    <3>4. size <= SizeOf(issued'[h + 1].pieces)
      BY <1>2, <1>4, <1>5, <1>11, <2>1, SMTT(30)
    <3>5. size \in 0 .. Len(wire')
      BY <1>11, <2>1
    <3> QED
      BY <3>1, <3>2, <3>3, <3>4, <3>5 DEF WireInv
  <2>2. CASE ~(svr = "open" /\ err' = "null")
    <3>1. wire' = wire
      BY <1>8, <2>2
    <3> QED
      BY <1>2, <3>1, SameCalls DEF WireInv
  <2> QED
    BY <2>1, <2>2
<1>15. SentInv'
  BY <1>9, <1>10 DEF SentInv, Holding
<1>16. OutboxInv'
  <2>1. \A u \in Callers : pc'[u] \in {"write", "flush", "read_head", "read_body"} => u = t
    BY <1>9, <1>10 DEF Holding
  <2>2. \/ Len(handled) = cur[t] /\ outbox = <<>>
        \/ Len(handled) = seq /\ Answering(Response(cur[t]))
    BY <1>1 DEF OutboxInv
  <2>3. Answering(Response(cur[t])) = Answering(Response(cur[t]))'
    BY <1>2, SameCalls DEF Answering
  <2>4. err' = "null" => wbuf' = <<>> /\ (svr' = "open" => wire' = RequestsUpTo(seq)')
    BY <1>2, <1>5, <1>8, <1>11, SameCalls
  <2> QED
    BY <1>2, <1>9, <2>1, <2>2, <2>3, <2>4 DEF OutboxInv
<1>17. DoneInv'
  <2>1. \A u \in Callers : pc'[u] # "unlock"
    BY <1>9, <1>10 DEF Holding
  <2>2. \A u \in Callers : pc'[u] = "check" => pc[u] = "check"
    BY <1>9
  <2> QED
    BY <1>2, <1>3, <1>10, <2>1, <2>2 DEF DoneInv
<1>18. OnTimeInv'
  <2>1. ASSUME h < seq PROVE h = m
    BY <1>5, <2>1
  <2> QED
    BY <1>2, <1>4, <1>9, <2>1 DEF OnTimeInv
<1>19. FitInv'
  <2>1. SUFFICES ASSUME svr # "crashed", svr = "closed" \/ err' = "write"
                 PROVE  \E s \in 0 .. seq - 1 : ~Fits(s)
    BY <1>2, <1>8, SameCalls DEF FitInv
  <2>2. CASE svr = "closed"
    BY <2>2 DEF FitInv
  <2>3. CASE svr = "open"
    <3>1. m \in 0 .. seq - 1
      BY <1>5
    <3> QED
      BY <1>11, <2>1, <2>3, <3>1
  <2> QED
    BY <2>1, <2>2, <2>3 DEF Types
<1>20. OwnAnswer'
  BY <1>2 DEF OwnAnswer
<1> QED
  BY <1>12, <1>13, <1>14, <1>15, <1>16, <1>17, <1>18, <1>19, <1>20

\* The head that is read is that of the response to the call of the holder.
LEMMA ReadHeadKeeps ==
    ASSUME CapAssumption, IInv, NEW t \in Callers, ReadHead(t)
    PROVE  IInv'
<1> USE DEF IInv
<1>1. /\ pc[t] = "read_head"
      /\ UNCHANGED <<lock, seq, wbuf, made, cur, at, issued, result, wire, taken, svr, handled>>
  BY DEF ReadHead
<1>2. PICK m, c : m = cur[t] /\ c = issued[m + 1]
  OBVIOUS
<1>3. /\ pc[t] \in Holding /\ lock # None /\ \A u \in Callers : u # t => pc[u] \notin Holding
      /\ m \in 0 .. Len(issued) - 1 /\ m + 1 = Len(issued) /\ seq = m + 1 /\ c \in Proper
  BY <1>1, <1>2, HolderOnly DEF Holding, CapAssumption
<1>4. \/ Len(handled) = m /\ outbox = <<>>
      \/ Len(handled) = seq /\ Answering(Response(m))
  BY <1>1, <1>2 DEF OutboxInv
<1>5. /\ HeadOf(m) \in Answer /\ HeadOf(m).kind = c.kind /\ Body(m) \in Seq(Answer)
      /\ Response(m) = <<HeadOf(m)>> \o Body(m) /\ Response(m) \in Seq(Answer)
      /\ AnswerTo(m, c) = Response(m)
      /\ c.kind = "nortn" => Body(m) = <<>>
  <2>1. issued \in Seq(Proper) /\ m \in Nat
    BY <1>3, LenProperties DEF Types
  <2>2. c.kind = "nortn" => Body(m) = <<>>
    BY <1>2, <1>3, <2>1, ResponseRight DEF Body
  <2> QED
    BY <1>2, <1>3, <2>1, <2>2, ResponseType DEF Response
<1>6. outbox \in Seq(Answer) /\ head \in [Callers -> Answer \cup {None}] /\ resp \in [Callers -> Seq(Answer)]
  BY DEF Types
<1>7. CASE /\ outbox # <<>>
           /\ head' = [head EXCEPT ![t] = Head(outbox)]
           /\ outbox' = Tail(outbox)
           /\ IF err # "null" \/ Head(outbox).kind = "nortn"
              THEN /\ Goto(t, "unlock")
                   /\ resp' = [resp EXCEPT ![t] = IF err # "null" THEN <<>> ELSE <<Head(outbox)>>]
              ELSE Goto(t, "read_body") /\ UNCHANGED resp
           /\ UNCHANGED err
  <2>1. Len(handled) = seq /\ IsPrefix(outbox, <<HeadOf(m)>> \o Body(m))
    BY <1>4, <1>5, <1>7 DEF Answering
  <2>2. /\ Head(outbox) = HeadOf(m) /\ outbox' \in Seq(Answer) /\ IsPrefix(outbox', Body(m))
        /\ outbox = <<HeadOf(m)>> \o Body(m) => outbox' = Body(m)
    BY <1>5, <1>6, <1>7, <2>1, PrefixRest
  <2>3. Answering(Body(m))'
    <3>1. Body(m)' = Body(m)
      BY <1>1, SameCalls
    <3>2. svr' # "crashed" => outbox' = Body(m)
      BY <1>1, <1>4, <1>5, <1>7, <2>2 DEF Answering
    <3> QED
      BY <2>2, <3>1, <3>2 DEF Answering
  <2>4. PICK point \in {"unlock", "read_body"} :
          /\ Goto(t, point)
          /\ point = "read_body" <=> err = "null" /\ c.kind # "nortn"
    BY <1>5, <1>7, <2>2
  <2>5. /\ pc' \in [Callers -> Points]
        /\ pc'[t] = point
        /\ \A u \in Callers : u # t => pc'[u] = pc[u]
    BY <2>4, GotoDoes DEF Points
  <2>6. /\ head' \in [Callers -> Answer \cup {None}] /\ head'[t] = HeadOf(m)
        /\ resp' \in [Callers -> Seq(Answer)]
        /\ \A u \in Callers : u # t => resp'[u] = resp[u]
        /\ point = "unlock" /\ err = "null" => resp'[t] = <<HeadOf(m)>>
    <3>1. <<HeadOf(m)>> \in Seq(Answer) /\ <<>> \in Seq(Answer)
      BY <1>5
    <3>2. head' \in [Callers -> Answer \cup {None}] /\ head'[t] = HeadOf(m)
      BY <1>5, <1>6, <1>7, <2>2
    <3>3. \/ resp' = resp /\ err = "null" /\ c.kind # "nortn"
          \/ resp' = [resp EXCEPT ![t] = <<>>] /\ err # "null"
          \/ resp' = [resp EXCEPT ![t] = <<HeadOf(m)>>] /\ err = "null"
      BY <1>5, <1>7, <2>2
    <3> QED
      BY <1>6, <2>4, <3>1, <3>2, <3>3, ZenonT(60)
  <2>7. err' = err
    BY <1>7
  <2>8. Types'
    BY <1>1, <2>2, <2>5, <2>6, <2>7 DEF Types
  <2>9. LockInv'
    BY <1>1, <1>3, <2>5, HolderStays DEF Holding
  <2>10. WireInv'
    BY <1>1, SameCalls DEF WireInv
  <2>11. SentInv'
    BY <1>3, <2>5 DEF SentInv, Holding
  <2>12. OutboxInv'
    <3>1. \A u \in Callers : pc'[u] \in {"write", "flush", "read_head", "read_body"} => u = t /\ point = "read_body"
      BY <1>3, <2>5 DEF Holding
    <3>2. point = "read_body" =>
             /\ err' = "null" /\ wbuf' = <<>> /\ (svr' = "open" => wire' = RequestsUpTo(seq)')
             /\ Len(handled') = seq'
             /\ head'[t] = HeadOf(cur[t])' /\ head'[t].kind # "nortn"
             /\ Answering(Body(cur[t]))'
      <4>1. HeadOf(m)' = HeadOf(m) /\ RequestsUpTo(seq)' = RequestsUpTo(seq)
        BY <1>1, SameCalls
      <4>2. HeadOf(cur[t])' = HeadOf(m)' /\ Answering(Body(cur[t]))' = Answering(Body(m))'
        BY <1>1, <1>2 DEF HeadOf, Body, Answering
      <4>3. err = "null" => wbuf = <<>> /\ (svr = "open" => wire = RequestsUpTo(seq))
        BY <1>1 DEF OutboxInv
      <4> QED
        BY <1>1, <1>5, <2>1, <2>3, <2>4, <2>6, <2>7, <4>1, <4>2, <4>3
    <3> QED
      BY <2>5, <3>1, <3>2 DEF OutboxInv
  <2>13. DoneInv'
    <3>1. ASSUME point = "unlock", err = "null"
          PROVE  /\ wbuf = <<>> /\ outbox' = <<>>
                 /\ ~Refusing(c) /\ resp'[t] = AnswerTo(m, c)
      <4>1. c.kind = "nortn" /\ Body(m) = <<>>
        BY <1>5, <2>4, <3>1
      <4>2. outbox' = <<>>
        BY <2>2, <4>1, PrefixOfEmpty
      <4>3. resp'[t] = AnswerTo(m, c)
        BY <1>5, <2>6, <3>1, <4>1, ConcatEmptySeq
      <4> QED
        BY <1>1, <3>1, <4>1, <4>2, <4>3 DEF OutboxInv, Refusing
    <3>2. \A u \in Callers : pc'[u] = "unlock" => u = t /\ point = "unlock"
      BY <1>3, <2>5 DEF Holding
    <3>3. \A u \in Callers : pc'[u] = "check" => u # t /\ pc[u] = "check" /\ resp'[u] = resp[u]
      BY <2>5, <2>6
    <3>4. m < Len(handled)
      BY <1>3, <2>1
    <3> QED
      BY <1>1, <1>2, <1>3, <2>1, <2>7, <3>1, <3>2, <3>3, <3>4 DEF DoneInv
  <2>14. OnTimeInv'
    <3>1. ~(Len(handled') < seq')
      BY <1>1, <1>3, <2>1
    <3> QED
      BY <3>1 DEF OnTimeInv
  <2>15. FitInv'
    BY <1>1, <2>7, SameCalls DEF FitInv
  <2>16. OwnAnswer'
    BY <1>1 DEF OwnAnswer
  <2> QED
    BY <2>8, <2>9, <2>10, <2>11, <2>12, <2>13, <2>14, <2>15, <2>16
<1>8. CASE /\ outbox = <<>>
           /\ svr # "open"
           /\ err' = "read"
           /\ Goto(t, "unlock")
           /\ UNCHANGED <<head, resp, outbox>>
  <2>1. /\ pc' \in [Callers -> Points]
        /\ pc'[t] = "unlock"
        /\ \A u \in Callers : u # t => pc'[u] = pc[u]
    BY <1>8, GotoDoes DEF Points
  <2>2. Types'
    BY <1>1, <1>8, <2>1 DEF Types
  <2>3. LockInv'
    BY <1>1, <1>3, <2>1, HolderStays DEF Holding
  <2>4. WireInv'
    BY <1>1, SameCalls DEF WireInv
  <2>5. SentInv'
    BY <1>8 DEF SentInv
  <2>6. OutboxInv'
    <3>1. \A u \in Callers : pc'[u] \notin {"write", "flush", "read_head", "read_body"}
      BY <1>3, <2>1 DEF Holding
    <3> QED
      BY <3>1 DEF OutboxInv
  <2>7. DoneInv'
    BY <1>8 DEF DoneInv
  <2>8. OnTimeInv'
    BY <1>1, <1>8 DEF OnTimeInv
  <2>9. FitInv'
    BY <1>1, <1>8, SameCalls DEF FitInv, Types
  <2>10. OwnAnswer'
    BY <1>1 DEF OwnAnswer
  <2> QED
    BY <2>2, <2>3, <2>4, <2>5, <2>6, <2>7, <2>8, <2>9, <2>10
<1> QED
  BY <1>7, <1>8, Zenon DEF ReadHead

LEMMA UnlockKeeps ==
    ASSUME CapAssumption, IInv, NEW t \in Callers, Unlock(t)
    PROVE  IInv'
<1> USE DEF IInv
<1>1. /\ pc[t] = "unlock" /\ lock' = None /\ Goto(t, "check")
      /\ UNCHANGED <<seq, err, wbuf, made, cur, at, head, resp, issued, result, wire, taken, outbox, svr, handled>>
  BY DEF Unlock, netVars
<1>2. pc[t] \in Holding /\ lock = t /\ \A u \in Callers : u # t => pc[u] \notin Holding
  BY <1>1, HolderOnly DEF Holding
<1>3. /\ pc' \in [Callers -> Points]
      /\ pc'[t] = "check"
      /\ \A u \in Callers : u # t => pc'[u] = pc[u]
  BY <1>1, GotoDoes DEF Points
<1>4. \A u \in Callers : pc'[u] \notin Holding
  BY <1>2, <1>3 DEF Holding
<1>5. Types'
  BY <1>1, <1>3 DEF Types
<1>6. LockInv'
  <2>1. \A u \in Callers : lock' # u
    BY <1>1 DEF CapAssumption
  <2>2. \A u \in Callers : pc'[u] \in Holding \cup {"check"} => pc[u] \in Holding \cup {"check"}
    BY <1>2, <1>3
  <2>3. \A u \in Callers : pc'[u] = "lock" => pc[u] = "lock"
    BY <1>3
  <2> QED
    BY <1>1, <1>4, <2>1, <2>2, <2>3 DEF LockInv
<1>7. WireInv'
  BY <1>1, SameCalls DEF WireInv
<1>8. SentInv'
  BY <1>4 DEF SentInv, Holding
<1>9. OutboxInv'
  BY <1>4 DEF OutboxInv, Holding
<1>10. DoneInv'
  <2>1. \A u \in Callers : pc'[u] \in {"unlock", "check"} => pc[u] \in {"unlock", "check"}
    BY <1>1, <1>3
  <2> QED
    BY <1>1, <2>1 DEF DoneInv
<1>11. OnTimeInv'
  <2>1. \A u \in Callers : pc[u] \notin {"write", "flush", "read_head"}
    BY <1>1, <1>2 DEF Holding
  <2> QED
    BY <1>1, <2>1, SameCalls DEF OnTimeInv
<1>12. FitInv'
  BY <1>1, SameCalls DEF FitInv
<1>13. OwnAnswer'
  BY <1>1 DEF OwnAnswer
<1> QED
  BY <1>5, <1>6, <1>7, <1>8, <1>9, <1>10, <1>11, <1>12, <1>13

\* The stub returns what was read only when nothing has failed.
LEMMA CheckKeeps ==
    ASSUME CapAssumption, IInv, NEW t \in Callers, Check(t)
    PROVE  IInv'
<1> USE DEF IInv
<1>1. /\ pc[t] = "check" /\ Goto(t, "idle")
      /\ result' = [result EXCEPT ![cur[t] + 1] = IF err # "null" THEN Failed ELSE resp[t]]
      /\ UNCHANGED <<lock, seq, err, wbuf, made, cur, at, head, resp, issued, wire, taken, outbox, svr, handled>>
  BY DEF Check, netVars
<1>2. PICK m, r : m = cur[t] /\ r = IF err # "null" THEN Failed ELSE resp[t]
  OBVIOUS
<1>3. /\ pc' \in [Callers -> Points]
      /\ pc'[t] = "idle"
      /\ \A u \in Callers : u # t => pc'[u] = pc[u]
  BY <1>1, GotoDoes DEF Points
<1>4. \A u \in Callers : pc'[u] # "idle" \/ u # t => pc'[u] = pc[u]
  BY <1>3
<1>5. m \in Nat /\ m < seq /\ seq \in Nat /\ Len(result) = seq
  BY <1>1, <1>2 DEF LockInv, Types
<1>6. /\ result' \in Seq({None, Failed} \cup Seq(Answer)) /\ Len(result') = seq
      /\ result'[m + 1] = r
      /\ \A i \in 1 .. seq : i # m + 1 => result'[i] = result[i]
  <2>1. r \in {None, Failed} \cup Seq(Answer)
    BY <1>2 DEF Types
  <2>2. result \in Seq({None, Failed} \cup Seq(Answer)) /\ m + 1 \in 1 .. Len(result)
    BY <1>5 DEF Types
  <2>3. result' = [result EXCEPT ![m + 1] = r]
    BY <1>1, <1>2
  <2> QED
    BY <1>5, <2>1, <2>2, <2>3, ExceptSeq
<1>7. Types'
  BY <1>1, <1>3, <1>5, <1>6 DEF Types
<1>8. LockInv'
  <2>1. \A u \in Callers : pc'[u] \in Holding <=> pc[u] \in Holding
    BY <1>1, <1>3 DEF Holding
  <2>2. \A u \in Callers : pc'[u] \in Holding \cup {"check"} => u # t /\ pc[u] \in Holding \cup {"check"}
    BY <1>3 DEF Holding
  <2>3. \A u \in Callers : pc'[u] = "lock" => pc[u] = "lock"
    BY <1>3
  <2>4. ASSUME NEW u \in Callers, pc'[u] \in Holding \cup {"check"}
        PROVE  cur'[u] < seq' /\ result'[cur'[u] + 1] = None
    <3>1. u # t /\ pc[u] \in Holding \cup {"check"}
      BY <2>2, <2>4
    <3>2. cur[u] < seq /\ result[cur[u] + 1] = None /\ cur[u] \in Nat
      BY <3>1 DEF LockInv, Types
    <3>3. cur[u] # m
      BY <1>1, <1>2, <3>1 DEF LockInv
    <3>4. cur[u] + 1 \in 1 .. seq /\ cur[u] + 1 # m + 1
      BY <1>5, <3>2, <3>3
    <3> QED
      BY <1>1, <1>6, <3>2, <3>4
  <2> QED
    BY <1>1, <2>1, <2>2, <2>3, <2>4 DEF LockInv
<1>9. WireInv'
  BY <1>1, SameCalls DEF WireInv
<1>10. SentInv'
  BY <1>1, <1>3, SameCalls DEF SentInv
<1>11. OutboxInv'
  BY <1>1, <1>3, SameCalls DEF OutboxInv, Answering
<1>12. DoneInv'
  BY <1>1, <1>3 DEF DoneInv
<1>13. OnTimeInv'
  BY <1>1, <1>3, SameCalls DEF OnTimeInv
<1>14. FitInv'
  BY <1>1, SameCalls DEF FitInv
<1>15. OwnAnswer'
  <2>1. SUFFICES ASSUME NEW s \in 0 .. seq - 1
                 PROVE  \/ result'[s + 1] \in {None, Failed}
                        \/ ~Refusing(issued[s + 1]) /\ result'[s + 1] = AnswerTo(s, issued[s + 1])
    BY <1>1, <1>6 DEF OwnAnswer
  <2>2. CASE s = m
    BY <1>1, <1>2, <1>6, <2>2 DEF DoneInv
  <2>3. CASE s # m
    <3>1. s + 1 \in 1 .. seq /\ s + 1 # m + 1
      BY <1>5, <2>3
    <3>2. result'[s + 1] = result[s + 1]
      BY <1>6, <3>1
    <3> QED
      BY <1>5, <3>2 DEF OwnAnswer
  <2> QED
    BY <2>2, <2>3
<1> QED
  BY <1>7, <1>8, <1>9, <1>10, <1>11, <1>12, <1>13, <1>14, <1>15

\* The rest of the response is read, or what there is of it.
LEMMA ReadBodyKeeps ==
    ASSUME CapAssumption, IInv, NEW t \in Callers, ReadBody(t)
    PROVE  IInv'
<1> USE DEF IInv
<1>1. /\ pc[t] = "read_body" /\ Goto(t, "unlock")
      /\ UNCHANGED <<lock, seq, wbuf, made, cur, at, head, issued, result, wire, taken, svr, handled>>
  BY DEF ReadBody
<1>2. PICK m, c : m = cur[t] /\ c = issued[m + 1]
  OBVIOUS
<1>3. /\ pc[t] \in Holding /\ lock # None /\ \A u \in Callers : u # t => pc[u] \notin Holding
      /\ m \in 0 .. Len(issued) - 1 /\ m + 1 = Len(issued) /\ seq = m + 1 /\ c \in Proper
  BY <1>1, <1>2, HolderOnly DEF Holding, CapAssumption
<1>4. /\ err = "null" /\ wbuf = <<>> /\ Len(handled) = seq
      /\ head[t] = HeadOf(m) /\ Answering(Body(m))
  BY <1>1, <1>2 DEF OutboxInv
<1>5. /\ HeadOf(m).seq = m /\ HeadOf(m).kind = c.kind
      /\ Body(m) \in Seq(Answer) /\ Len(Body(m)) = c.size /\ Len(Body(m)) \in Nat
      /\ AnswerTo(m, c) = <<HeadOf(m)>> \o Body(m) /\ AnswerTo(m, c) \in Seq(Answer)
  <2>1. issued \in Seq(Proper)
    BY DEF Types
  <2> QED
    BY <1>2, <1>3, <2>1, ResponseType DEF Response
<1>6. outbox \in Seq(Answer) /\ resp \in [Callers -> Seq(Answer)] /\ Len(outbox) \in Nat
  BY LenProperties DEF Types
<1>7. /\ pc' \in [Callers -> Points]
      /\ pc'[t] = "unlock"
      /\ \A u \in Callers : u # t => pc'[u] = pc[u]
  BY <1>1, GotoDoes DEF Points
<1>8. PICK n : n = issued[head[t].seq + 1].size /\ n = c.size /\ n = Len(Body(m))
  BY <1>2, <1>4, <1>5
<1>9. \/ /\ Len(outbox) >= n
         /\ outbox' = SubSeq(outbox, n + 1, Len(outbox))
         /\ IF head[t].kind = "error"
            THEN err' = "handler" /\ UNCHANGED resp
            ELSE /\ resp' = [resp EXCEPT ![t] = <<head[t]>> \o SubSeq(outbox, 1, n)]
                 /\ UNCHANGED err
      \/ /\ svr # "open"
         /\ outbox' = <<>>
         /\ err' = "read"
         /\ UNCHANGED resp
  BY <1>8, Zenon DEF ReadBody
<1>10. \/ /\ outbox' = <<>>
          /\ \/ err' = "handler" /\ resp' = resp
             \/ /\ err' = "null" /\ ~Refusing(c)
                /\ resp' = [resp EXCEPT ![t] = AnswerTo(m, c)]
       \/ /\ svr # "open" /\ outbox' = <<>> /\ err' = "read" /\ resp' = resp
  <2>1. CASE /\ Len(outbox) >= n
             /\ outbox' = SubSeq(outbox, n + 1, Len(outbox))
             /\ IF head[t].kind = "error"
                THEN err' = "handler" /\ UNCHANGED resp
                ELSE /\ resp' = [resp EXCEPT ![t] = <<head[t]>> \o SubSeq(outbox, 1, n)]
                     /\ UNCHANGED err
    <3>1. outbox = Body(m)
      BY <1>4, <1>5, <1>6, <1>8, <2>1, PrefixWhole DEF Answering
    <3>2. SubSeq(outbox, 1, n) = Body(m)
      BY <1>5, <1>8, <3>1, SubSeqFull
    <3>3. outbox' = <<>>
      <4>1. SubSeq(outbox, n + 1, n) = <<>>
        BY <1>5, <1>6, <1>8, SubSeqEmpty
      <4> QED
        BY <1>8, <2>1, <3>1, <4>1
    <3>4. CASE head[t].kind = "error"
      BY <2>1, <3>3, <3>4
    <3>5. CASE head[t].kind # "error"
      <4>1. ~Refusing(c)
        BY <1>4, <1>5, <3>5 DEF Refusing
      <4>2. resp' = [resp EXCEPT ![t] = AnswerTo(m, c)]
        BY <1>4, <1>5, <2>1, <3>2, <3>5
      <4> QED
        BY <1>4, <2>1, <3>3, <3>5, <4>1, <4>2
    <3> QED
      BY <3>4, <3>5
  <2> QED
    BY <1>9, <2>1
<1>11. /\ resp' \in [Callers -> Seq(Answer)]
       /\ \A u \in Callers : u # t => resp'[u] = resp[u]
       /\ err' = "null" => resp'[t] = AnswerTo(m, c) /\ ~Refusing(c)
  BY <1>5, <1>6, <1>10
<1>12. outbox' = <<>> /\ err' \in {"null", "read", "handler"} /\ (err' = "read" => svr # "open")
  BY <1>10
<1>13. Types'
  <2>1. outbox' \in Seq(Answer)
    BY <1>12
  <2> QED
    BY <1>1, <1>7, <1>11, <1>12, <2>1 DEF Types
<1>14. LockInv'
  <2>1. result' = result /\ UNCHANGED <<lock, seq, made, cur>>
    BY <1>1
  <2> QED
    BY <1>3, <1>7, <2>1, HolderStays DEF Holding
<1>15. WireInv'
  BY <1>1, SameCalls DEF WireInv
<1>16. SentInv'
  BY <1>3, <1>7 DEF SentInv, Holding
<1>17. OutboxInv'
  BY <1>3, <1>7 DEF OutboxInv, Holding
<1>18. DoneInv'
  <2>1. \A u \in Callers : pc'[u] = "check" => u # t /\ pc[u] = "check" /\ resp'[u] = resp[u]
    BY <1>7, <1>11
  <2>2. \A u \in Callers : pc'[u] = "unlock" => u = t
    BY <1>3, <1>7 DEF Holding
  <2>3. m < Len(handled)
    BY <1>3, <1>4
  <2> QED
    BY <1>1, <1>2, <1>4, <1>7, <1>11, <1>12, <2>1, <2>2, <2>3 DEF DoneInv
<1>19. OnTimeInv'
  <2>1. ~(Len(handled') < seq')
    BY <1>1, <1>3, <1>4
  <2> QED
    BY <2>1 DEF OnTimeInv
<1>20. FitInv'
  BY <1>1, <1>12, SameCalls DEF FitInv, Types
<1>21. OwnAnswer'
  BY <1>1 DEF OwnAnswer
<1> QED
  BY <1>13, <1>14, <1>15, <1>16, <1>17, <1>18, <1>19, <1>20, <1>21

-----------------------------------------------------------------------------
(* The invariant holds *)

LEMMA InitHolds ==
    ASSUME CapAssumption, Init
    PROVE  IInv
<1> USE DEF Init
<1>1. issued = <<>> /\ issued \in Seq(Proper) /\ Len(issued) = 0
  OBVIOUS
<1>2. RequestsUpTo(0) = <<>> /\ Part(0, 0, 0) = <<>>
  BY <1>1, RequestsStep, PartEmpty
<1>3. Types
  <2>1. \A t \in Callers : Len(Calls[t]) \in Nat
    BY CallsAssumption, LenProperties
  <2>2. 0 <= Cap /\ Len(wbuf) = 0 /\ Len(wire) = 0 /\ Len(result) = 0
    BY DEF CapAssumption
  <2> QED
    BY <1>1, <2>1, <2>2 DEF Types, Points
<1>4. LockInv
  BY DEF LockInv, Holding, CapAssumption
<1>5. WireInv
  <2>1. Len(handled) = 0 /\ handled = [i \in 1 .. 0 |-> i - 1] /\ Len(wire) = 0 /\ 0 \in 0 .. Len(wire)
    OBVIOUS
  <2>2. wire = RequestsUpTo(0) \o Part(0, 0, 0)
    BY <1>2
  <2> QED
    BY <1>2, <2>1, <2>2 DEF WireInv
<1>6. SentInv
  BY DEF SentInv
<1>7. OutboxInv
  BY DEF OutboxInv
<1>8. DoneInv
  BY DEF DoneInv
<1>9. OnTimeInv
  BY DEF OnTimeInv
<1>10. FitInv
  BY DEF FitInv
<1>11. OwnAnswer
  BY DEF OwnAnswer
<1> QED
  BY <1>3, <1>4, <1>5, <1>6, <1>7, <1>8, <1>9, <1>10, <1>11 DEF IInv

LEMMA StutterKeeps ==
    ASSUME IInv, UNCHANGED vars
    PROVE  IInv'
<1>1. UNCHANGED <<lock, seq, err, wbuf, pc, made, cur, at, head, resp, issued, result,
                  wire, taken, outbox, svr, handled>>
  BY DEF vars, threadVars, netVars
<1>2. Types' /\ LockInv' /\ OwnAnswer'
  BY <1>1 DEF IInv, Types, LockInv, OwnAnswer
<1>3. WireInv' /\ SentInv' /\ OnTimeInv' /\ FitInv'
  BY <1>1, SameCalls DEF IInv, WireInv, SentInv, OnTimeInv, FitInv
<1>4. OutboxInv' /\ DoneInv'
  BY <1>1, SameCalls DEF IInv, OutboxInv, DoneInv, Answering
<1> QED
  BY <1>2, <1>3, <1>4 DEF IInv

LEMMA NextKeeps ==
    ASSUME CapAssumption, CallsAssumption, SizesAssumption, IInv, [Next]_vars
    PROVE  IInv'
<1>1. CASE Serve
  BY <1>1, ServeKeeps
<1>2. CASE Crash
  BY <1>2, CrashKeeps
<1>3. ASSUME NEW t \in Callers, Call(t) \/ ClientCall(t)
      PROVE  IInv'
  <2>1. CASE Call(t)
    BY <2>1, CallKeeps
  <2>2. CASE Lock(t)
    BY <2>2, LockKeeps
  <2>3. CASE Write(t)
    BY <2>3, WriteKeeps
  <2>4. CASE Flush(t)
    BY <2>4, FlushKeeps
  <2>5. CASE ReadHead(t)
    BY <2>5, ReadHeadKeeps
  <2>6. CASE ReadBody(t)
    BY <2>6, ReadBodyKeeps
  <2>7. CASE Unlock(t)
    BY <2>7, UnlockKeeps
  <2>8. CASE Check(t)
    BY <2>8, CheckKeeps
  <2> QED
    BY <1>3, <2>1, <2>2, <2>3, <2>4, <2>5, <2>6, <2>7, <2>8 DEF ClientCall
<1>4. CASE UNCHANGED vars
  BY <1>4, StutterKeeps
<1> QED
  BY <1>1, <1>2, <1>3, <1>4 DEF Next

THEOREM Invariant == Spec => []IInv
<1>1. Init => IInv
  BY CapAssumption, InitHolds
<1>2. IInv /\ [Next]_vars => IInv'
  BY CapAssumption, CallsAssumption, SizesAssumption, NextKeeps
<1> QED
  BY <1>1, <1>2, PTL DEF Spec
-----------------------------------------------------------------------------
(* What follows from it *)

LEMMA TypeFollows ==
    ASSUME IInv
    PROVE  TypeOK
<1>1. Types
  BY DEF IInv
<1>2. \A t \in Callers : made[t] \in 0 .. Len(Calls[t])
  <2>1. TAKE t \in Callers
  <2>2. Len(Calls[t]) \in Nat
    BY CallsAssumption, LenProperties
  <2> QED
    BY <1>1, <2>2 DEF Types
<1>3. \A t \in Callers : cur[t] \in 0 .. seq
  <2>1. seq \in Nat
    BY <1>1, LenProperties DEF Types
  <2> QED
    BY <1>1, <2>1 DEF Types
<1> QED
  BY <1>1, <1>2, <1>3 DEF TypeOK, Types

LEMMA WholeFollows ==
    ASSUME IInv
    PROVE  WholeRequests
<1>1. PICK h, n : h = Len(handled) /\ n = Len(issued)
  OBVIOUS
<1>2. Types /\ WireInv /\ issued \in Seq(Proper) /\ wire \in Seq(Byte) /\ n = seq /\ n \in Nat
  BY <1>1, LenProperties DEF IInv, Types
<1>3. PICK j \in Nat :
        /\ h \in 0 .. n
        /\ wire = RequestsUpTo(h) \o Part(h, 0, j)
        /\ h = n => j = 0
        /\ h < n => j <= SizeOf(issued[h + 1].pieces)
  BY <1>1, <1>2, InboxIs
<1>4. IsPrefix(wire, RequestsUpTo(n))
  <2>1. CASE h = n
    <3>1. RequestsUpTo(n) \in Seq(Byte)
      BY <1>1, <1>2, RequestsStep
    <3>2. Part(n, 0, 0) = <<>>
      BY <1>2, PartEmpty
    <3>3. wire = RequestsUpTo(n)
      BY <1>3, <2>1, <3>1, <3>2, ConcatEmptySeq
    <3> QED
      BY <3>1, <3>3, PrefixSelf
  <2>2. CASE h # n
    <3>1. h \in 0 .. Len(issued) - 1 /\ h + 1 \in 0 .. n /\ h < n
      BY <1>1, <1>2, <1>3, <2>2
    <3>2. PICK size : size = SizeOf(issued[h + 1].pieces)
      OBVIOUS
    <3>3. size \in Nat /\ j \in 0 .. size
      <4>1. size \in Nat
        BY <1>2, <3>1, <3>2, RequestRight
      <4> QED
        BY <1>3, <3>1, <3>2, <4>1
    <3>4. (RequestsUpTo(h) \o Part(h, 0, j)) \o Part(h, j, size) = RequestsUpTo(h) \o Part(h, 0, size)
      <4>1. j <= size
        BY <1>3, <3>1, <3>2
      <4> QED
        BY <1>2, <1>3, <3>1, <3>3, <4>1, MoreWritten
    <3>5. RequestsUpTo(h + 1) = RequestsUpTo(h) \o Part(h, 0, size)
      BY <1>2, <3>1, <3>2, <3>3, WholeOnly
    <3>6. wire \o Part(h, j, size) = RequestsUpTo(h + 1)
      BY <1>3, <3>4, <3>5
    <3>7. Part(h, j, size) \in Seq(Byte)
      <4>1. h \in Nat /\ j <= size
        BY <1>3, <3>1, <3>2
      <4> QED
        BY <1>3, <3>3, <4>1, PartRight
    <3>8. IsPrefix(wire, RequestsUpTo(h + 1))
      <4>1. IsPrefix(wire, wire)
        BY <1>2, PrefixSelf
      <4>2. IsPrefix(wire, wire \o Part(h, j, size))
        BY <1>2, <3>7, <4>1, PrefixConcat
      <4> QED
        BY <3>6, <4>2
    <3>9. IsPrefix(RequestsUpTo(h + 1), RequestsUpTo(n))
      BY <1>1, <1>2, <3>1, RequestsPrefix
    <3>10. RequestsUpTo(h + 1) \in Seq(Byte) /\ RequestsUpTo(n) \in Seq(Byte)
      BY <1>1, <1>2, <3>1, RequestsStep
    <3> QED
      BY <1>2, <3>8, <3>9, <3>10, PrefixTrans
  <2> QED
    BY <2>1, <2>2
<1>5. ASSUME NEW t \in Callers, pc[t] \in {"read_head", "read_body"}, err = "null", svr = "open"
      PROVE  wire = RequestsUpTo(cur[t] + 1)
  <2>1. wire = RequestsUpTo(seq)
    BY <1>5 DEF IInv, OutboxInv
  <2>2. cur[t] + 1 = seq
    BY <1>5 DEF IInv, LockInv, Holding
  <2> QED
    BY <2>1, <2>2
<1> QED
  BY <1>1, <1>4, <1>5, TypeFollows DEF WholeRequests

LEMMA InStepFollows ==
    ASSUME IInv
    PROVE  InStep
<1>1. SUFFICES ASSUME lock = None, err = "null"
               PROVE  wbuf = <<>> /\ outbox = <<>> /\ Inbox = <<>>
  BY DEF InStep
<1>2. wbuf = <<>> /\ outbox = <<>> /\ Len(handled) = seq
  BY <1>1 DEF IInv, DoneInv
<1>3. PICK h : h = Len(handled)
  OBVIOUS
<1>4. h \in Nat /\ h = Len(issued) /\ Types /\ WireInv
  BY <1>2, <1>3, LenProperties DEF IInv, Types
<1>5. Inbox = Part(h, 0, 0)
  BY <1>3, <1>4, InboxIs
<1> QED
  BY <1>2, <1>4, <1>5, PartEmpty

LEMMA FittingFollows ==
    ASSUME IInv
    PROVE  FittingSucceed
BY DEF IInv, FitInv, FittingSucceed, NoFalseFailure

\* Whatever fails and whichever thread is at it, the server gets whole requests in the
\* order of their numbers, and all of the variables keep their types.
THEOREM WholeRequestsHold == Spec => []WholeRequests
<1>1. IInv => WholeRequests
  BY WholeFollows
<1> QED
  BY <1>1, Invariant, PTL

\* client_call never gives a thread a response that is not its own, or part of one.
THEOREM OwnAnswerHolds == Spec => []OwnAnswer
<1>1. IInv => OwnAnswer
  BY DEF IInv
<1> QED
  BY <1>1, Invariant, PTL

\* A client without an error leaves nothing behind between two calls.
THEOREM InStepHolds == Spec => []InStep
<1>1. IInv => InStep
  BY InStepFollows
<1> QED
  BY <1>1, Invariant, PTL

\* As long as everything fits into the buffers, only a dead server makes a call fail.
THEOREM FittingSucceedHolds == Spec => []FittingSucceed
<1>1. IInv => FittingSucceed
  BY FittingFollows
<1> QED
  BY <1>1, Invariant, PTL

-----------------------------------------------------------------------------
(* The threads get what RpcService promises *)

LEMMA InitRefines ==
    ASSUME Init
    PROVE  RS!Init
BY DEF Init, RS!Init

LEMMA CallRefines ==
    ASSUME CallsAssumption, IInv, NEW t \in Callers, Lock(t)
    PROVE  \E r \in UNION {Range(Calls[u]) : u \in Callers} : RS!Call(r)
<1>1. PICK i : i = made[t]
  OBVIOUS
<1>2. i \in DOMAIN Calls[t]
  <2>1. i \in Nat /\ i > 0 /\ i <= Len(Calls[t])
    BY <1>1 DEF IInv, LockInv, Types, Lock
  <2> QED
    BY <2>1 DEF CallsAssumption
<1>3. Calls[t][i] \in Range(Calls[t])
  BY <1>2 DEF Range
<1>4. RS!Call(Calls[t][i])
  BY <1>1 DEF Lock, netVars, RS!Call
<1> QED
  BY <1>3, <1>4

LEMMA ServeRefines ==
    ASSUME CapAssumption, IInv, Serve
    PROVE  \E s \in 0 .. Len(issued) - 1 : RS!Handle(s)
<1>1. PICK h : h = Len(handled)
  OBVIOUS
<1>2. /\ h \in 0 .. Len(issued) - 1
      /\ wire = RequestsUpTo(h + 1)
      /\ handled' = Append(handled, h)
  BY <1>1, ServeDoes DEF IInv
<1>3. /\ svr = "open" /\ seq = Len(issued) /\ seq \in Nat
      /\ UNCHANGED <<issued, result>>
  BY LenProperties DEF Serve, IInv, Types
<1>4. h < seq
  BY <1>2, <1>3
<1>5. PICK t \in Callers : cur[t] = h /\ (pc[t] \in {"flush", "read_head"} \/ (pc[t] = "write" /\ err = "null"))
  BY <1>1, <1>2, <1>3, <1>4 DEF IInv, OnTimeInv
<1>6. result[h + 1] = None
  BY <1>5 DEF IInv, LockInv, Holding
<1> QED
  BY <1>1, <1>2, <1>3, <1>6 DEF RS!Handle

LEMMA CheckRefines ==
    ASSUME CapAssumption, IInv, NEW t \in Callers, Check(t)
    PROVE  \E s \in 0 .. Len(issued) - 1 : RS!Return(s) \/ RS!Fail(s)
<1>1. PICK m : m = cur[t]
  OBVIOUS
<1>2. /\ pc[t] = "check" /\ UNCHANGED <<issued, handled>>
      /\ result' = [result EXCEPT ![m + 1] = IF err # "null" THEN Failed ELSE resp[t]]
  BY <1>1 DEF Check, netVars
<1>3. m \in 0 .. Len(issued) - 1 /\ result[m + 1] = None
  BY <1>1, <1>2, LenProperties DEF IInv, LockInv, Types
<1>4. CASE err # "null"
  <2>1. RS!Fail(m)
    BY <1>2, <1>3, <1>4 DEF RS!Fail
  <2> QED
    BY <1>3, <2>1
<1>5. CASE err = "null"
  <2>1. m < Len(handled) /\ ~Refusing(issued[m + 1]) /\ resp[t] = AnswerTo(m, issued[m + 1])
    BY <1>1, <1>2, <1>5 DEF IInv, DoneInv
  <2>2. m + 1 \in DOMAIN handled /\ handled[m + 1] = m
    <3>1. handled = [i \in 1 .. Len(handled) |-> i - 1] /\ Len(handled) \in Nat
      BY LenProperties DEF IInv, WireInv, Types
    <3>2. m + 1 \in 1 .. Len(handled) /\ (m + 1) - 1 = m
      BY <1>3, <2>1, <3>1
    <3> QED
      BY <3>1, <3>2
  <2>3. RS!Return(m)
    BY <1>2, <1>3, <1>5, <2>1, <2>2 DEF RS!Return
  <2> QED
    BY <1>3, <2>3
<1> QED
  BY <1>4, <1>5

LEMMA StepRefines ==
    ASSUME CapAssumption, CallsAssumption, IInv, [Next]_vars
    PROVE  [RS!Next]_(RS!vars)
<1>1. CASE Serve
  BY <1>1, ServeRefines DEF RS!Next
<1>2. CASE Crash
  BY <1>2 DEF Crash, RS!vars
<1>3. ASSUME NEW t \in Callers, Call(t) \/ ClientCall(t)
      PROVE  [RS!Next]_(RS!vars)
  <2>1. CASE Lock(t)
    BY <2>1, CallRefines DEF RS!Next
  <2>2. CASE Check(t)
    BY <2>2, CheckRefines DEF RS!Next
  <2>3. CASE Call(t)
    BY <2>3 DEF Call, netVars, RS!vars
  <2>4. CASE Write(t)
    BY <2>4 DEF Write, RS!vars
  <2>5. CASE Flush(t)
    BY <2>5 DEF Flush, RS!vars
  <2>6. CASE ReadHead(t)
    BY <2>6 DEF ReadHead, RS!vars
  <2>7. CASE ReadBody(t)
    BY <2>7 DEF ReadBody, RS!vars
  <2>8. CASE Unlock(t)
    BY <2>8 DEF Unlock, netVars, RS!vars
  <2> QED
    BY <1>3, <2>1, <2>2, <2>3, <2>4, <2>5, <2>6, <2>7, <2>8 DEF ClientCall
<1>4. CASE UNCHANGED vars
  BY <1>4 DEF vars, netVars, RS!vars
<1> QED
  BY <1>1, <1>2, <1>3, <1>4 DEF Next

\* client_call implements calls that are numbered, handled in order and answered each by
\* its own handler: every step of the threads and of the server is one of RpcService's, or
\* leaves it where it is.
THEOREM Refinement == Spec => ImplementsRpcService
<1>1. Init => RS!Init
  BY InitRefines
<1>2. IInv /\ [Next]_vars => [RS!Next]_(RS!vars)
  BY CapAssumption, CallsAssumption, StepRefines
<1> QED
  BY <1>1, <1>2, Invariant, PTL DEF Spec, ImplementsRpcService, RS!Spec
=============================================================================
