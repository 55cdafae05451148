--------------------------- MODULE RequestProofs ---------------------------
(***************************************************************************)
(* Proofs about Request, for every capacity of the read buffer, every      *)
(* sequence of messages and every way in which their bytes are cut.        *)
(***************************************************************************)
EXTENDS Request, DataLemmas

USE SizesAssumption, FlagsAssumption

Bytes == [kind : {"magic", "text", "newline", "head", "data"}, msg : Nat, arg : Nat, pos : Nat]
Unread == [kind |-> "garbage", msg |-> 0, arg |-> 0, pos |-> 0]

Buffers == [cap : Nat, len : Nat, front : Nat, rear : Nat, buf : [0 .. Cap - 1 -> Bytes \cup {Unread}]]
Parsing == [state : {"READING_REQUEST_LINE", "READING_ARGS"}, msg : Nat, argcnt : Nat,
            head : Seq(Bytes), args : Seq(Seq(Bytes))]

-----------------------------------------------------------------------------
(* The buffer *)

\* What buffer x holds are the bytes behind place pos of the stream.
Holds(x, pos) ==
    /\ x \in Buffers
    /\ x.cap = Cap /\ x.rear = x.front + x.len /\ x.rear <= Cap
    /\ \A i \in 1 .. x.len : x.buf[x.front + i - 1] = stream[pos + i]

LEMMA AdjustHolds ==
    ASSUME NEW x, NEW pos \in Nat, Holds(x, pos)
    PROVE  Holds(Buff!Adjust(x), pos) /\ Buff!Adjust(x).len = x.len /\ Buff!Adjust(x).rear = x.len
<1>1. x \in Buffers /\ x.cap = Cap /\ x.rear = x.front + x.len /\ x.rear <= Cap
  BY DEF Holds
<1>2. x.len \in Nat /\ x.front \in Nat /\ x.rear \in Nat
  BY <1>1 DEF Buffers
<1>3. CASE x.front = 0
  BY <1>1, <1>2, <1>3 DEF Buff!Adjust
<1>4. CASE x.front # 0
  <2>1. PICK y : y = Buff!Adjust(x)
    OBVIOUS
  <2>2. y = [x EXCEPT !.buf = Buff!Moved(x), !.rear = x.len, !.front = 0]
    BY <1>4, <2>1 DEF Buff!Adjust
  <2>3. x.buf \in [0 .. Cap - 1 -> Bytes \cup {Unread}] /\ DOMAIN x.buf = 0 .. Cap - 1
    BY <1>1 DEF Buffers
  <2>4. PICK buf : buf = Buff!Moved(x)
    OBVIOUS
  <2>5. /\ DOMAIN buf = 0 .. Cap - 1
        /\ \A i \in 0 .. Cap - 1 : buf[i] = IF i < x.len THEN x.buf[x.front + i] ELSE x.buf[i]
        /\ buf = [i \in 0 .. Cap - 1 |-> buf[i]]
    BY <2>3, <2>4 DEF Buff!Moved
  <2>6. \A i \in 0 .. Cap - 1 : i < x.len => x.front + i \in 0 .. Cap - 1
    BY <1>1, <1>2
  <2>7. \A i \in 0 .. Cap - 1 : buf[i] \in Bytes \cup {Unread}
    BY <2>3, <2>5, <2>6
  <2>8. buf \in [0 .. Cap - 1 -> Bytes \cup {Unread}]
    BY <2>5, <2>7
  <2>9. /\ y \in Buffers /\ y.buf = buf /\ y.rear = x.len /\ y.front = 0
        /\ y.len = x.len /\ y.cap = x.cap
    BY <1>1, <2>2, <2>4, <2>8 DEF Buffers
  <2>10. \A i \in 1 .. x.len : buf[0 + i - 1] = stream[pos + i]
    <3>1. \A i \in 1 .. x.len : /\ i - 1 \in 0 .. Cap - 1 /\ i - 1 < x.len
                                /\ x.front + (i - 1) = x.front + i - 1 /\ 0 + i - 1 = i - 1
      BY <1>1, <1>2
    <3>2. \A i \in 1 .. x.len : x.buf[x.front + i - 1] = stream[pos + i]
      BY DEF Holds
    <3> QED
      BY <2>5, <3>1, <3>2
  <2>11. x.len <= Cap
    BY <1>1, <1>2
  <2>12. Holds(y, pos)
    BY <1>1, <1>2, <2>9, <2>10, <2>11 DEF Holds
  <2> QED
    BY <2>1, <2>9, <2>12
<1> QED
  BY <1>3, <1>4

LEMMA FilledHolds ==
    ASSUME NEW x, NEW pos \in Nat, Holds(x, pos), stream \in Seq(Bytes), NEW n \in Nat,
           x.rear + n <= Cap, pos + x.len + n <= Len(stream)
    PROVE  LET y == Buff!Filled(x, SubSeq(stream, pos + x.len + 1, pos + x.len + n))
           IN Holds(y, pos) /\ y.len = x.len + n
<1>1. x \in Buffers /\ x.cap = Cap /\ x.rear = x.front + x.len /\ x.rear <= Cap
  BY DEF Holds
<1>2. PICK len \in Nat, front \in Nat, rear \in Nat : x.len = len /\ x.front = front /\ x.rear = rear
  BY <1>1 DEF Buffers
<1>3. PICK from \in Nat : from = pos + len
  BY <1>2
<1>4. PICK bytes : bytes = SubSeq(stream, from + 1, from + n)
  OBVIOUS
<1>5. PICK size \in Nat : size = Len(stream)
  BY LenProperties
<1>6. Cap \in Nat /\ rear = front + len /\ rear <= Cap /\ rear + n <= Cap /\ from + n <= size
  BY <1>1, <1>2, <1>3, <1>5
<1>7. Len(bytes) = n /\ \A i \in 1 .. n : bytes[i] = stream[from + i] /\ stream[from + i] \in Bytes
  <2>1. from + 1 \in 1 .. size + 1 /\ from + n \in (from + 1) - 1 .. size
    BY <1>6
  <2>2. /\ Len(bytes) = (from + n) - (from + 1) + 1
        /\ \A i \in 1 .. (from + n) - (from + 1) + 1 : bytes[i] = stream[(from + 1) + i - 1]
    BY <1>4, <1>5, <2>1, SubSeqProperties
  <2>3. (from + n) - (from + 1) + 1 = n /\ \A i \in 1 .. n : (from + 1) + i - 1 = from + i
    OBVIOUS
  <2>4. \A i \in 1 .. n : from + i \in 1 .. size
    BY <1>6
  <2>5. \A i \in 1 .. n : stream[from + i] \in Bytes
    <3>1. \A j \in 1 .. size : stream[j] \in Bytes
      BY <1>5, ElementOfSeq
    <3> HIDE DEF Bytes
    <3> QED
      BY <2>4, <3>1
  <2> QED
    BY <2>2, <2>3, <2>5
<1>8. PICK y : y = Buff!Filled(x, bytes)
  OBVIOUS
<1>9. x.buf \in [0 .. Cap - 1 -> Bytes \cup {Unread}] /\ DOMAIN x.buf = 0 .. Cap - 1
  BY <1>1 DEF Buffers
<1>10. PICK buf : buf = [i \in 0 .. Cap - 1 |-> IF i \in rear .. rear + n - 1
                                              THEN bytes[i - rear + 1] ELSE x.buf[i]]
  OBVIOUS
<1>11. y = [x EXCEPT !.buf = buf, !.rear = @ + n, !.len = @ + n]
  BY <1>2, <1>7, <1>8, <1>9, <1>10 DEF Buff!Filled
<1>12. \A i \in rear .. rear + n - 1 : i - rear + 1 \in 1 .. n /\ i \in 0 .. Cap - 1
  BY <1>6
<1>13. \A i \in 0 .. Cap - 1 : buf[i] \in Bytes \cup {Unread}
  BY <1>7, <1>9, <1>10, <1>12
<1>14. buf \in [0 .. Cap - 1 -> Bytes \cup {Unread}]
  BY <1>10, <1>13
<1>15. /\ y \in Buffers /\ y.buf = buf /\ y.rear = rear + n /\ y.len = len + n
       /\ y.front = front /\ y.cap = Cap
  <2>1. rear + n \in Nat /\ len + n \in Nat
    OBVIOUS
  <2> QED
    BY <1>1, <1>2, <1>11, <1>14, <2>1 DEF Buffers
<1>16. ASSUME NEW i \in 1 .. len + n
       PROVE  buf[front + i - 1] = stream[pos + i]
  <2>1. front + i - 1 \in 0 .. Cap - 1
    BY <1>6
  <2>2. CASE i <= len
    <3>1. i \in 1 .. len /\ front + i - 1 \notin rear .. rear + n - 1
      BY <1>6, <2>2
    <3>2. x.buf[front + i - 1] = stream[pos + i]
      BY <1>2, <3>1 DEF Holds
    <3> QED
      BY <1>10, <2>1, <3>1, <3>2
  <2>3. CASE ~(i <= len)
    <3>1. /\ front + i - 1 \in rear .. rear + n - 1
          /\ (front + i - 1) - rear + 1 = i - len
          /\ i - len \in 1 .. n /\ from + (i - len) = pos + i
      BY <1>3, <1>6, <2>3
    <3>2. buf[front + i - 1] = bytes[(front + i - 1) - rear + 1]
      BY <1>10, <2>1, <3>1
    <3> QED
      BY <1>7, <3>1, <3>2
  <2> QED
    BY <2>2, <2>3
<1>17. y.rear = y.front + y.len /\ y.rear <= Cap
  BY <1>6, <1>15
<1>18. \A i \in 1 .. y.len : y.buf[y.front + i - 1] = stream[pos + i]
  BY <1>15, <1>16
<1>19. Holds(y, pos)
  BY <1>15, <1>17, <1>18 DEF Holds
<1> QED
  BY <1>2, <1>3, <1>4, <1>8, <1>15, <1>19

LEMMA DropHolds ==
    ASSUME NEW x, NEW pos \in Nat, Holds(x, pos), NEW n \in Nat, n <= x.len
    PROVE  Holds(Buff!Drop(x, n), pos + n) /\ Buff!Drop(x, n).len = x.len - n
<1>1. x \in Buffers /\ x.cap = Cap /\ x.rear = x.front + x.len /\ x.rear <= Cap
  BY DEF Holds
<1>2. x.len \in Nat /\ x.front \in Nat /\ x.rear \in Nat
  BY <1>1 DEF Buffers
<1>3. PICK y : y = Buff!Drop(x, n)
  OBVIOUS
<1>4. y = [x EXCEPT !.front = @ + n, !.len = @ - n]
  <2>1. (IF x.len < n THEN x.len ELSE n) = n
    BY <1>2
  <2> QED
    BY <1>3, <2>1 DEF Buff!Drop
<1>5. /\ y \in Buffers /\ y.buf = x.buf /\ y.rear = x.rear /\ y.len = x.len - n
      /\ y.front = x.front + n /\ y.cap = x.cap
  <2>1. x.front + n \in Nat /\ x.len - n \in Nat
    BY <1>2
  <2> QED
    BY <1>1, <1>4, <2>1 DEF Buffers
<1>6. ASSUME NEW i \in 1 .. x.len - n
      PROVE  x.buf[(x.front + n) + i - 1] = stream[(pos + n) + i]
  <2>1. n + i \in 1 .. x.len /\ x.front + (n + i) - 1 = (x.front + n) + i - 1 /\ pos + (n + i) = (pos + n) + i
    BY <1>2
  <2>2. x.buf[x.front + (n + i) - 1] = stream[pos + (n + i)]
    BY <2>1 DEF Holds
  <2> QED
    BY <2>1, <2>2
<1>7. y.rear = y.front + y.len /\ y.rear <= Cap /\ y.cap = Cap
  BY <1>1, <1>2, <1>5
<1>8. Holds(y, pos + n)
  BY <1>5, <1>6, <1>7 DEF Holds
<1> QED
  BY <1>3, <1>5, <1>8

LEMMA CopyIs ==
    ASSUME NEW x, NEW pos \in Nat, Holds(x, pos), NEW n \in Nat, n <= x.len
    PROVE  Buff!Copy(x, n) = [i \in 1 .. n |-> stream[pos + i]]
<1>1. x.len \in Nat
  BY DEF Holds, Buffers
<1>2. \A i \in 1 .. n : i \in 1 .. x.len
  BY <1>1
<1>3. \A i \in 1 .. n : x.buf[x.front + i - 1] = stream[pos + i]
  BY <1>2 DEF Holds
<1> QED
  BY <1>3 DEF Buff!Copy

-----------------------------------------------------------------------------
(* The stream *)

\* t stands in s behind place n.
IsAt(t, s, n) == \A p \in 1 .. Len(t) : s[n + p] = t[p]

LEMMA AtParts ==
    ASSUME NEW S, NEW t \in Seq(S), NEW u \in Seq(S), NEW s, NEW n \in Nat, IsAt(t \o u, s, n)
    PROVE  IsAt(t, s, n) /\ IsAt(u, s, n + Len(t))
<1>1. PICK l \in Nat, k \in Nat : l = Len(t) /\ k = Len(u)
  BY LenProperties
<1>2. /\ Len(t \o u) = l + k
      /\ \A i \in 1 .. l + k : (t \o u)[i] = IF i <= l THEN t[i] ELSE u[i - l]
  BY <1>1, ConcatProperties
<1>3. \A i \in 1 .. l + k : s[n + i] = IF i <= l THEN t[i] ELSE u[i - l]
  BY <1>1, <1>2 DEF IsAt
<1>4. \A i \in 1 .. l : i \in 1 .. l + k /\ i <= l
  BY <1>1
<1>5. \A i \in 1 .. k : l + i \in 1 .. l + k /\ ~(l + i <= l) /\ (l + i) - l = i /\ n + (l + i) = (n + l) + i
  BY <1>1
<1>6. \A i \in 1 .. l : s[n + i] = t[i]
  BY <1>3, <1>4
<1>7. \A i \in 1 .. k : s[(n + l) + i] = u[i]
  BY <1>3, <1>5
<1> QED
  BY <1>1, <1>6, <1>7 DEF IsAt

LEMMA AtBehind ==
    ASSUME NEW S, NEW t \in Seq(S), NEW u \in Seq(S), NEW n, n = Len(t)
    PROVE  IsAt(u, t \o u, n)
<1>1. PICK k \in Nat : k = Len(u) /\ n \in Nat
  BY LenProperties
<1>2. /\ \A i \in 1 .. n + k : (t \o u)[i] = IF i <= n THEN t[i] ELSE u[i - n]
  BY <1>1, ConcatProperties
<1>3. \A i \in 1 .. k : n + i \in 1 .. n + k /\ ~(n + i <= n) /\ (n + i) - n = i
  BY <1>1
<1> QED
  BY <1>1, <1>2, <1>3 DEF IsAt

LEMMA AtTrans ==
    ASSUME NEW S, NEW t \in Seq(S), NEW u \in Seq(S), NEW s, NEW n \in Nat, NEW m \in Nat,
           IsAt(t, s, n), IsAt(u, t, m), m + Len(u) <= Len(t)
    PROVE  IsAt(u, s, n + m)
<1>1. PICK l \in Nat, k \in Nat : l = Len(t) /\ k = Len(u)
  BY LenProperties
<1>2. \A p \in 1 .. k : m + p \in 1 .. l /\ n + (m + p) = (n + m) + p
  BY <1>1
<1>3. \A p \in 1 .. l : s[n + p] = t[p]
  BY <1>1 DEF IsAt
<1>4. \A p \in 1 .. k : t[m + p] = u[p]
  BY <1>1 DEF IsAt
<1> QED
  BY <1>1, <1>2, <1>3, <1>4 DEF IsAt

LEMMA ByteType ==
    ASSUME NEW m \in Nat, NEW a \in Nat, NEW n \in Nat
    PROVE  /\ LineBytes(m, n) \in Seq(Bytes) /\ Len(LineBytes(m, n)) = n
           /\ HeadBytes(m, a) \in Seq(Bytes) /\ Len(HeadBytes(m, a)) = HeadSize
           /\ DataBytes(m, a, n) \in Seq(Bytes) /\ Len(DataBytes(m, a, n)) = n
           /\ ArgBytes(m, a, n) \in Seq(Bytes) /\ Len(ArgBytes(m, a, n)) = HeadSize + n
<1>0. HeadSize \in Nat
  OBVIOUS
<1>1. \A h \in {"magic", "text", "newline", "head", "data"}, x \in Nat, y \in Nat, p \in Nat : Byte(h, x, y, p) \in Bytes
  BY DEF Byte, Bytes
<1>2. \A k \in Nat : \A p \in 1 .. k : p \in Nat
  OBVIOUS
<1> HIDE DEF Bytes
<1>3. \A p \in 1 .. n : /\ Byte(IF p = n THEN "newline" ELSE "text", m, 0, p) \in Bytes
                        /\ Byte("data", m, a, p) \in Bytes
  <2>1. \A p \in 1 .. n : (IF p = n THEN "newline" ELSE "text") \in {"magic", "text", "newline", "head", "data"}
    OBVIOUS
  <2> QED
    BY <1>1, <1>2, <2>1
<1>4. \A p \in 1 .. HeadSize : Byte("head", m, a, p) \in Bytes
  BY <1>0, <1>1, <1>2
<1>5. LineBytes(m, n) \in Seq(Bytes) /\ Len(LineBytes(m, n)) = n
  BY <1>3 DEF LineBytes
<1>6. HeadBytes(m, a) \in Seq(Bytes) /\ Len(HeadBytes(m, a)) = HeadSize
  BY <1>0, <1>4 DEF HeadBytes
<1>7. DataBytes(m, a, n) \in Seq(Bytes) /\ Len(DataBytes(m, a, n)) = n
  BY <1>3 DEF DataBytes
<1>8. ArgBytes(m, a, n) \in Seq(Bytes) /\ Len(ArgBytes(m, a, n)) = HeadSize + n
  BY <1>6, <1>7, ConcatProperties DEF ArgBytes
<1> QED
  BY <1>5, <1>6, <1>7, <1>8

LEMMA MagicType ==
    ASSUME NEW kind \in {"magic", "text"}
    PROVE  /\ [p \in 1 .. MagicSize |-> Byte(kind, 0, 0, p)] \in Seq(Bytes)
           /\ Len([p \in 1 .. MagicSize |-> Byte(kind, 0, 0, p)]) = MagicSize
<1>1. MagicSize \in Nat
  OBVIOUS
<1>2. \A p \in 1 .. MagicSize : p \in Nat
  BY <1>1
<1>3. \A p \in 1 .. MagicSize : Byte(kind, 0, 0, p) \in Bytes
  BY <1>2 DEF Byte, Bytes
<1> QED
  BY <1>1, <1>3

LEMMA MsgType ==
    ASSUME NEW m \in Nat, NEW msg \in Messages
    PROVE  /\ msg.line \in Nat \ {0} /\ msg.ok \in BOOLEAN /\ msg.known \in BOOLEAN /\ msg.args \in Seq(Nat)
           /\ ArgsBytes(m, msg.args) \in Seq(Seq(Bytes)) /\ Len(ArgsBytes(m, msg.args)) = Len(msg.args)
           /\ \A a \in 1 .. Len(msg.args) : ArgsBytes(m, msg.args)[a] = ArgBytes(m, a, msg.args[a])
           /\ MsgBytes(m, msg) \in Seq(Bytes)
<1>1. msg.line \in Nat \ {0} /\ msg.ok \in BOOLEAN /\ msg.known \in BOOLEAN /\ msg.args \in Seq(Nat)
  BY DEF Messages
<1>2. PICK args \in Seq(Nat), n \in Nat : args = msg.args /\ n = Len(args) /\ DOMAIN args = 1 .. n
  BY <1>1, LenProperties
<1>3. \A a \in 1 .. n : a \in Nat /\ args[a] \in Nat
  BY <1>2, ElementOfSeq
<1>4. \A a \in 1 .. n : ArgBytes(m, a, args[a]) \in Seq(Bytes)
  BY <1>3, ByteType
<1>5. ArgsBytes(m, args) = [a \in 1 .. n |-> ArgBytes(m, a, args[a])]
  BY <1>2 DEF ArgsBytes
<1>6. ArgsBytes(m, args) \in Seq(Seq(Bytes)) /\ Len(ArgsBytes(m, args)) = n
  BY <1>2, <1>4, <1>5
<1>7. FlattenSeq(ArgsBytes(m, args)) \in Seq(Bytes)
  BY <1>6, FlatType
<1>8. LineBytes(m, msg.line) \in Seq(Bytes)
  BY <1>1, ByteType
<1>9. MsgBytes(m, msg) \in Seq(Bytes)
  BY <1>2, <1>7, <1>8, ConcatProperties DEF MsgBytes
<1> QED
  BY <1>1, <1>2, <1>5, <1>6, <1>9

\* Ends are where FlatAt says they are.
LEMMA EndsRight ==
    ASSUME NEW S, NEW ss \in Seq(Seq(S)), NEW n \in Nat, n = Len(ss)
    PROVE  Placed(FlattenSeq(ss), Ends(ss), ss, n)
<1>1. PICK g : AreEnds(g, ss, n)
  BY EndsOfExist
<1> DEFINE e == CHOOSE f : AreEnds(f, ss, n)
<1>2. AreEnds(e, ss, n)
  BY <1>1
<1>3. Ends(ss) = e
  BY DEF Ends, AreEnds
<1> HIDE DEF e
<1>4. Placed(FlattenSeq(ss), e, ss, n)
  BY <1>2, FlatAt
<1> QED
  BY <1>3, <1>4

\* Message m begins behind place Base(m), its argument a behind ArgBase(m, a).
Base(m) == MagicSize + Ends(MsgsBytes(msgs))[m - 1]
ArgBase(m, a) == Base(m) + msgs[m].line + Ends(ArgsBytes(m, msgs[m].args))[a - 1]

StreamInv ==
    /\ msgs \in Streams
    /\ \E kind \in {"magic", "text"} :
         stream = [p \in 1 .. MagicSize |-> Byte(kind, 0, 0, p)] \o FlattenSeq(MsgsBytes(msgs))

ArgPlaced(m, a) ==
    /\ ArgBase(m, a) \in Nat
    /\ ArgBase(m, a + 1) = ArgBase(m, a) + HeadSize + msgs[m].args[a]
    /\ IsAt(HeadBytes(m, a), stream, ArgBase(m, a))
    /\ IsAt(DataBytes(m, a, msgs[m].args[a]), stream, ArgBase(m, a) + HeadSize)

MsgPlaced(m) ==
    /\ Base(m) \in Nat
    /\ IsAt(LineBytes(m, msgs[m].line), stream, Base(m))
    /\ ArgBase(m, 1) = Base(m) + msgs[m].line
    /\ ArgBase(m, Len(msgs[m].args) + 1) = Base(m + 1)
    /\ \A a \in 1 .. Len(msgs[m].args) : ArgPlaced(m, a)

LEMMA ArgsPlaced ==
    ASSUME NEW m \in Nat \ {0}, msgs[m] \in Messages, Base(m) \in Nat,
           Base(m + 1) = Base(m) + Len(MsgBytes(m, msgs[m])),
           IsAt(MsgBytes(m, msgs[m]), stream, Base(m))
    PROVE  MsgPlaced(m)
<1>0. \A a \in Nat, n \in Nat : /\ HeadBytes(m, a) \in Seq(Bytes) /\ Len(HeadBytes(m, a)) = HeadSize
                                /\ DataBytes(m, a, n) \in Seq(Bytes) /\ Len(DataBytes(m, a, n)) = n
  BY ByteType, ZenonT(60)
<1>1. PICK args \in Seq(Nat), line \in Nat : args = msgs[m].args /\ line = msgs[m].line
  BY MsgType
<1>2. PICK ss \in Seq(Seq(Bytes)), n \in Nat : ss = ArgsBytes(m, args) /\ n = Len(ss) /\ n = Len(args)
  <2>1. ArgsBytes(m, args) \in Seq(Seq(Bytes)) /\ Len(ArgsBytes(m, args)) = Len(args)
    BY <1>1, MsgType
  <2>2. Len(args) \in Nat
    BY LenProperties
  <2> QED
    BY <2>1, <2>2
<1>3. PICK flat \in Seq(Bytes) : flat = FlattenSeq(ss)
  BY FlatType
<1>4. PICK first \in Seq(Bytes) : first = LineBytes(m, line) /\ Len(first) = line
  <2>1. 0 \in Nat
    OBVIOUS
  <2> QED
    BY <2>1, ByteType, ZenonT(60)
<1>5. MsgBytes(m, msgs[m]) = first \o flat
  BY <1>1, <1>2, <1>3, <1>4 DEF MsgBytes
<1>6. PICK base \in Nat : base = Base(m)
  OBVIOUS
<1>7. IsAt(first, stream, base) /\ IsAt(flat, stream, base + line)
  BY <1>4, <1>5, <1>6, AtParts, ZenonT(60)
<1>8. PICK size \in Nat : size = Len(flat)
  BY LenProperties
<1>9. Base(m + 1) = base + line + size
  <2>1. Len(first \o flat) = line + size
    BY <1>4, <1>8, ConcatProperties
  <2> QED
    BY <1>5, <1>6, <2>1
<1>10. PICK e : e = Ends(ss)
  OBVIOUS
<1>11. /\ e[0] = 0 /\ e[n] = size
       /\ \A i \in 0 .. n : e[i] \in Nat /\ e[i] <= size
       /\ \A i \in 1 .. n : e[i] = e[i - 1] + Len(ss[i])
       /\ \A i \in 1 .. n : IsAt(ss[i], flat, e[i - 1])
  <2>1. Placed(flat, e, ss, n)
    BY <1>2, <1>3, <1>10, EndsRight
  <2> QED
    BY <1>8, <2>1 DEF Placed, IsAt
<1>12. \A a : ArgBase(m, a) = base + line + e[a - 1]
  BY <1>1, <1>2, <1>6, <1>10 DEF ArgBase
<1>13. ArgBase(m, 1) = base + line /\ ArgBase(m, n + 1) = Base(m + 1)
  <2>1. 1 - 1 = 0 /\ (n + 1) - 1 = n
    OBVIOUS
  <2>2. ArgBase(m, 1) = base + line + e[0]
    BY <1>12, <2>1
  <2>3. ArgBase(m, n + 1) = base + line + e[n]
    BY <1>12, <2>1
  <2> QED
    BY <1>9, <1>11, <2>2, <2>3
<1>14. ASSUME NEW a \in 1 .. n
       PROVE  ArgPlaced(m, a)
  <2>1. PICK d \in Nat : d = args[a] /\ a \in Nat
    BY <1>2, ElementOfSeq
  <2>2. PICK head \in Seq(Bytes), data \in Seq(Bytes) :
            head = HeadBytes(m, a) /\ data = DataBytes(m, a, d) /\ Len(head) = HeadSize /\ Len(data) = d
    <3>1. m \in Nat /\ a \in Nat /\ d \in Nat
      BY <2>1
    <3> QED
      BY <1>0, <3>1, ZenonT(60)
  <2>3. ss[a] = head \o data
    <3>0. m \in Nat
      OBVIOUS
    <3>1. \A x \in 1 .. Len(args) : ArgsBytes(m, args)[x] = ArgBytes(m, x, args[x])
      BY <1>1, <3>0, MsgType, ZenonT(60)
    <3>2. ss[a] = ArgBytes(m, a, d)
      BY <1>2, <2>1, <3>1
    <3> QED
      BY <2>2, <3>2 DEF ArgBytes
  <2>4. Len(head \o data) = HeadSize + d
    BY <2>2, ConcatProperties
  <2>5. PICK k \in Nat : k = e[a - 1] /\ e[a] = k + (HeadSize + d) /\ e[a] <= size
    <3>1. a - 1 \in 0 .. n /\ a \in 0 .. n
      OBVIOUS
    <3> QED
      BY <1>11, <2>3, <2>4, <3>1
  <2>6. HeadSize \in Nat
    OBVIOUS
  <2>7. IsAt(head \o data, flat, k)
    BY <1>11, <2>3, <2>5
  <2>8. IsAt(head, flat, k) /\ IsAt(data, flat, k + HeadSize)
    BY <2>2, <2>5, <2>7, AtParts
  <2>9. IsAt(head, stream, (base + line) + k) /\ IsAt(data, stream, (base + line) + (k + HeadSize))
    <3>1. base + line \in Nat /\ k + HeadSize \in Nat
      BY <2>6
    <3>2. k + Len(head) <= Len(flat) /\ (k + HeadSize) + Len(data) <= Len(flat)
      <4>1. k + (HeadSize + d) <= size /\ HeadSize \in Nat
        BY <2>5, <2>6
      <4>2. k + HeadSize <= size /\ (k + HeadSize) + d <= size
        BY <4>1
      <4> QED
        BY <1>8, <2>2, <4>2
    <3> QED
      BY <1>7, <2>8, <3>1, <3>2, AtTrans
  <2>10. ArgBase(m, a) = (base + line) + k /\ (base + line) + k \in Nat
    <3>1. ArgBase(m, a) = base + line + e[a - 1]
      BY <1>12
    <3>2. e[a - 1] = k
      BY <2>5
    <3>3. ArgBase(m, a) = base + line + k
      BY <3>1, <3>2, Zenon
    <3> QED
      BY <3>3
  <2>11. (base + line) + (k + HeadSize) = ((base + line) + k) + HeadSize
    BY <2>6
  <2>12. ArgBase(m, a + 1) = ((base + line) + k) + HeadSize + d
    <3>1. (a + 1) - 1 = a
      OBVIOUS
    <3>2. ArgBase(m, a + 1) = base + line + e[a]
      BY <1>12, <3>1
    <3>3. base + line + (k + (HeadSize + d)) = ((base + line) + k) + HeadSize + d
      BY <2>6
    <3> QED
      BY <2>5, <3>2, <3>3
  <2> QED
    BY <1>1, <2>1, <2>2, <2>9, <2>10, <2>11, <2>12 DEF ArgPlaced
<1> QED
  BY <1>1, <1>2, <1>4, <1>6, <1>7, <1>13, <1>14 DEF MsgPlaced

\* The messages follow one another from the magic number to the end of the stream.
Layout ==
    /\ stream \in Seq(Bytes) /\ msgs \in Seq(Messages)
    /\ \E kind \in {"magic", "text"} : IsAt([p \in 1 .. MagicSize |-> Byte(kind, 0, 0, p)], stream, 0)
    /\ Base(1) = MagicSize /\ Base(Len(msgs) + 1) = Len(stream)
    /\ \A m \in 1 .. Len(msgs) : MsgPlaced(m)

LEMMA LayoutRight ==
    ASSUME StreamInv
    PROVE  Layout
<1>1. PICK n \in Nat : msgs \in Seq(Messages) /\ n = Len(msgs) /\ DOMAIN msgs = 1 .. n
  BY StreamsAssumption, LenProperties DEF StreamInv
<1>2. \A m \in 1 .. n : m \in Nat /\ msgs[m] \in Messages
  BY <1>1, ElementOfSeq
<1>3. \A m \in 1 .. n : MsgBytes(m, msgs[m]) \in Seq(Bytes)
  BY <1>2, MsgType
<1>4. PICK ss : ss = MsgsBytes(msgs) /\ ss = [m \in 1 .. n |-> MsgBytes(m, msgs[m])]
  BY <1>1 DEF MsgsBytes
<1>5. ss \in Seq(Seq(Bytes)) /\ Len(ss) = n
  BY <1>3, <1>4
<1>6. PICK flat \in Seq(Bytes), size \in Nat : flat = FlattenSeq(ss) /\ size = Len(flat)
  BY <1>5, FlatType, LenProperties
<1>7. PICK kind \in {"magic", "text"} : stream = [p \in 1 .. MagicSize |-> Byte(kind, 0, 0, p)] \o flat
  BY <1>4, <1>6 DEF StreamInv
<1>8. PICK magic \in Seq(Bytes) : magic = [p \in 1 .. MagicSize |-> Byte(kind, 0, 0, p)] /\ Len(magic) = MagicSize
  BY MagicType
<1>9. stream = magic \o flat
  BY <1>7, <1>8
<1>10. stream \in Seq(Bytes) /\ Len(stream) = MagicSize + size /\ IsAt(flat, stream, MagicSize)
  BY <1>6, <1>8, <1>9, ConcatProperties, AtBehind, SMTT(30)
<1>11. IsAt(magic, stream, 0)
  <2>1. IsAt(stream, stream, 0)
    <3>1. \A p \in 1 .. Len(stream) : 0 + p = p
      BY <1>10, LenProperties
    <3> QED
      BY <3>1 DEF IsAt
  <2> QED
    BY <1>9, <2>1, AtParts
<1>12. PICK e : e = Ends(ss)
  OBVIOUS
<1>13. /\ e[0] = 0 /\ e[n] = size
       /\ \A i \in 0 .. n : e[i] \in Nat /\ e[i] <= size
       /\ \A i \in 1 .. n : e[i] = e[i - 1] + Len(ss[i])
       /\ \A i \in 1 .. n : IsAt(ss[i], flat, e[i - 1])
  <2>1. Placed(flat, e, ss, n)
    BY <1>5, <1>6, <1>12, EndsRight
  <2> QED
    BY <1>6, <2>1 DEF Placed, IsAt
<1>14. \A m : Base(m) = MagicSize + e[m - 1]
  BY <1>4, <1>12 DEF Base
<1>15. Base(1) = MagicSize /\ Base(n + 1) = Len(stream)
  <2>1. 1 - 1 = 0 /\ (n + 1) - 1 = n
    OBVIOUS
  <2>2. Base(1) = MagicSize + e[0] /\ Base(n + 1) = MagicSize + e[n]
    BY <1>14, <2>1
  <2> QED
    BY <1>10, <1>13, <2>2
<1>16. ASSUME NEW m \in 1 .. n
       PROVE  MsgPlaced(m)
  <2>1. m \in Nat \ {0} /\ m - 1 \in 0 .. n /\ m \in 0 .. n /\ (m + 1) - 1 = m
    OBVIOUS
  <2>2. PICK t \in Seq(Bytes), l \in Nat, k \in Nat : t = ss[m] /\ l = Len(t) /\ k = e[m - 1]
    BY <1>5, <1>13, <2>1, ElementOfSeq, LenProperties
  <2>3. t = MsgBytes(m, msgs[m])
    BY <1>4, <2>2
  <2>4. e[m] = k + l /\ e[m] <= size /\ MagicSize \in Nat
    BY <1>13, <2>1, <2>2
  <2>5. Base(m) = MagicSize + k /\ Base(m + 1) = MagicSize + (k + l)
    BY <1>14, <2>1, <2>2, <2>4
  <2>6. IsAt(t, stream, MagicSize + k)
    <3>1. k + Len(t) <= Len(flat)
      BY <1>6, <2>2, <2>4
    <3>2. IsAt(t, flat, k)
      BY <1>13, <2>2
    <3> QED
      BY <1>10, <2>4, <3>1, <3>2, AtTrans
  <2>7. Base(m) \in Nat /\ Base(m + 1) = Base(m) + Len(MsgBytes(m, msgs[m]))
    <3>1. MagicSize + k \in Nat /\ MagicSize + (k + l) = (MagicSize + k) + l
      BY <2>4
    <3>2. Len(MsgBytes(m, msgs[m])) = l
      BY <2>2, <2>3
    <3> QED
      BY <2>5, <3>1, <3>2, Zenon
  <2>8. IsAt(MsgBytes(m, msgs[m]), stream, Base(m))
    BY <2>3, <2>5, <2>6
  <2> QED
    BY <1>2, <2>1, <2>7, <2>8, ArgsPlaced
<1> QED
  BY <1>1, <1>8, <1>10, <1>11, <1>15, <1>16 DEF Layout

-----------------------------------------------------------------------------
(* The invariant *)

\* how many bytes the parser has taken
Pos == got - b.len

Types ==
    /\ got \in Nat /\ sent \in Nat /\ got <= sent /\ sent <= Len(stream)
    /\ peer \in {"open", "closed", "reset"}
    /\ magic_read \in BOOLEAN
    /\ req \in Parsing /\ req.msg <= Len(msgs) /\ Len(req.args) <= req.argcnt
    /\ served \in Seq([msg : Nat, args : Seq(Seq(Bytes))]) /\ Len(served) <= Len(msgs)
    /\ pc \in {"idle", "magic", "request", "bad", "closed"}
    /\ err \in {"null", "peer close connetion", "errno", "invalid magic number", "invalid request line",
                "no such service"}
    /\ ret \in {1, -1}

\* The buffer holds the bytes read and not parsed yet.
BytesInv == b.len <= got /\ Holds(b, Pos)

\* What precedes a line in the stream has been served.
AtLine == req = InitReq /\ Pos = Base(Len(served) + 1)

\* The request at hand is the one behind those served, read up to argument a.
ArgsRead(m, a) ==
    /\ m \in 1 .. Len(msgs)
    /\ msgs[m].ok /\ msgs[m].line <= Cap /\ Len(msgs[m].args) < 10
    /\ req.state = "READING_ARGS" /\ req.msg = m /\ req.argcnt = Len(msgs[m].args)
    /\ a <= Len(msgs[m].args)
    /\ \A i \in 1 .. a : req.args[i] = DataBytes(m, i, msgs[m].args[i]) /\ msgs[m].args[i] <= Cap
    /\ \/ req.head = <<>> /\ Pos = ArgBase(m, a + 1)
       \/ a < Len(msgs[m].args) /\ req.head = HeadBytes(m, a + 1) /\ Pos = ArgBase(m, a + 1) + HeadSize
InArgs == ArgsRead(Len(served) + 1, Len(req.args))

\* Where the parser is between two steps.
Between == IF magic_read THEN AtLine \/ InArgs ELSE req = InitReq /\ Pos = 0 /\ served = <<>>

ParserInv ==
    /\ pc = "magic" => ~magic_read
    /\ pc = "request" => magic_read
    /\ pc \notin {"bad", "closed"} => Between

\* A callback leaves room in the buffer, so that the next one can read.
RoomInv == AllAccepted /\ RightMagic /\ pc = "idle" => b.len < Cap

IInv == StreamInv /\ Types /\ BytesInv /\ ParserInv /\ RoomInv /\ Faithful /\ KeptOpen

LEMMA InitInv == Init => IInv
<1> SUFFICES ASSUME Init PROVE IInv
  OBVIOUS
<1>0. Cap \in Nat /\ Cap > 0 /\ MagicSize \in Nat
  OBVIOUS
<1>1. StreamInv
  <2>1. PICK right \in Magics :
            stream = [p \in 1 .. MagicSize |-> Byte(IF right THEN "magic" ELSE "text", 0, 0, p)]
                        \o FlattenSeq(MsgsBytes(msgs))
    BY DEF Init
  <2>2. (IF right THEN "magic" ELSE "text") \in {"magic", "text"}
    OBVIOUS
  <2> QED
    BY <2>1, <2>2 DEF Init, StreamInv
<1>2. Layout
  BY <1>1, LayoutRight
<1>3. InitReq \in Parsing
  BY EmptySeq DEF InitReq, Parsing
<1>4. Len(stream) \in Nat /\ Len(msgs) \in Nat
  BY <1>2, LenProperties DEF Layout
<1>5. Types
  <2>1. served \in Seq([msg : Nat, args : Seq(Seq(Bytes))]) /\ Len(served) = 0
    BY EmptySeq DEF Init
  <2>2. InitReq.msg = 0 /\ InitReq.argcnt = 0 /\ Len(InitReq.args) = 0
    BY EmptySeq DEF InitReq
  <2>3. /\ sent = 0 /\ got = 0 /\ peer = "open" /\ magic_read = FALSE /\ req = InitReq
        /\ pc = "idle" /\ err = "null" /\ ret = 1
    BY DEF Init
  <2>4. 0 <= Len(msgs) /\ 0 <= Len(stream)
    BY <1>4
  <2>5. req \in Parsing /\ req.msg = 0 /\ req.argcnt = 0 /\ Len(req.args) = 0
    BY <1>3, <2>2, <2>3
  <2>6. got \in Nat /\ sent \in Nat /\ got <= sent /\ sent <= Len(stream)
    BY <2>3, <2>4
  <2>7. req \in Parsing /\ req.msg <= Len(msgs) /\ Len(req.args) <= req.argcnt
    BY <2>4, <2>5
  <2>8. Len(served) <= Len(msgs)
    BY <2>1, <2>4
  <2> QED
    BY <2>1, <2>3, <2>6, <2>7, <2>8 DEF Types
<1>6. BytesInv
  <2>1. b = [cap |-> Cap, len |-> 0, front |-> 0, rear |-> 0, buf |-> [i \in 0 .. Cap - 1 |-> Unread]]
    BY DEF Init, Buff!New, Unread
  <2>2. b \in Buffers
    BY <1>0, <2>1 DEF Buffers
  <2>3. /\ b.cap = Cap /\ b.len = 0 /\ b.front = 0 /\ b.rear = 0
    BY <2>1
  <2>4. b.rear = b.front + b.len /\ b.rear <= Cap /\ b.len <= got
    BY <1>0, <2>3 DEF Init
  <2>5. \A i \in 1 .. b.len : b.buf[b.front + i - 1] = stream[Pos + i]
    BY <2>3
  <2> QED
    BY <2>2, <2>3, <2>4, <2>5 DEF BytesInv, Holds
<1>7. b.len = 0 /\ Pos = 0
  BY DEF Init, Buff!New, Pos
<1>8. ParserInv
  BY <1>7 DEF Init, ParserInv, Between
<1>9. RoomInv /\ KeptOpen
  BY <1>0, <1>7 DEF Init, RoomInv, KeptOpen
<1>10. Faithful
  BY DEF Init, Faithful
<1> QED
  BY <1>1, <1>5, <1>6, <1>8, <1>9, <1>10 DEF IInv

-----------------------------------------------------------------------------
(* What the steps have in common *)

\* The stream stays, and with it every place in it.
LEMMA StreamStays ==
    ASSUME msgs' = msgs, stream' = stream
    PROVE  /\ StreamInv => StreamInv'
           /\ \A m : Base(m)' = Base(m)
           /\ \A m, a : ArgBase(m, a)' = ArgBase(m, a)
           /\ \A m : Accepted(m)' <=> Accepted(m)
           /\ AllAccepted' <=> AllAccepted
           /\ RightMagic' <=> RightMagic
<1>1. StreamInv => StreamInv'
  BY DEF StreamInv
<1>2. \A m : Base(m)' = Base(m)
  BY DEF Base
<1>3. \A m, a : ArgBase(m, a)' = ArgBase(m, a)
  BY <1>2 DEF ArgBase
<1>4. \A m : Accepted(m)' <=> Accepted(m)
  BY DEF Accepted
<1>5. AllAccepted' <=> AllAccepted
  BY <1>4 DEF AllAccepted
<1>6. RightMagic' <=> RightMagic
  BY DEF RightMagic
<1> QED
  BY <1>1, <1>2, <1>3, <1>4, <1>5, <1>6

LEMMA FaithfulStays ==
    ASSUME Faithful, msgs' = msgs, stream' = stream, served' = served
    PROVE  Faithful'
<1>1. \A m : Accepted(m)' <=> Accepted(m)
  BY StreamStays
<1> QED
  BY <1>1 DEF Faithful

LEMMA BytesType ==
    ASSUME IInv
    PROVE  /\ b \in Buffers /\ b.len \in Nat /\ b.front \in Nat /\ b.rear \in Nat /\ got \in Nat
           /\ b.rear = b.front + b.len /\ b.rear <= Cap /\ b.len <= Cap
           /\ Pos \in Nat /\ got = Pos + b.len /\ Pos + b.len <= Len(stream)
<1>1. b \in Buffers /\ b.rear = b.front + b.len /\ b.rear <= Cap /\ b.len <= got
  BY DEF IInv, BytesInv, Holds
<1>2. b.len \in Nat /\ b.front \in Nat /\ b.rear \in Nat
  BY <1>1 DEF Buffers
<1>3. got \in Nat /\ sent \in Nat /\ got <= sent /\ sent <= Len(stream)
  BY DEF IInv, Types
<1>4. Len(stream) \in Nat
  BY LayoutRight, LenProperties DEF IInv, Layout
<1>5. PICK len \in Nat, front \in Nat, rear \in Nat : len = b.len /\ front = b.front /\ rear = b.rear
  BY <1>2
<1>6. len <= Cap
  BY <1>1, <1>5
<1>7. Pos = got - len /\ got - len \in Nat /\ got = (got - len) + len /\ got <= Len(stream)
  BY <1>1, <1>3, <1>4, <1>5, SMTT(30) DEF Pos
<1> QED
  BY <1>1, <1>2, <1>3, <1>5, <1>6, <1>7

LEMMA BytesStay ==
    ASSUME BytesInv, b' = b, got' = got, stream' = stream
    PROVE  BytesInv' /\ Pos' = Pos
  BY DEF BytesInv, Pos, Holds

\* n bytes are dropped, and nothing else moves.
LEMMA BytesDropped ==
    ASSUME IInv, NEW n \in Nat, n <= b.len, b' = Buff!Drop(b, n), got' = got, stream' = stream
    PROVE  /\ BytesInv' /\ Pos' = Pos + n
           /\ b'.len = b.len - n
           /\ Buff!Copy(b, n) = [i \in 1 .. n |-> stream[Pos + i]]
<1>1. PICK pos \in Nat, len \in Nat : pos = Pos /\ len = b.len /\ len <= got /\ got \in Nat /\ Holds(b, pos)
  BY BytesType DEF IInv, BytesInv
<1>2. Holds(Buff!Drop(b, n), pos + n) /\ Buff!Drop(b, n).len = len - n
  BY <1>1, DropHolds
<1>3. PICK c : c = Buff!Drop(b, n)
  OBVIOUS
<1>4. Holds(c, pos + n) /\ c.len = len - n /\ b' = c
  BY <1>2, <1>3
<1>5. Pos' = pos + n
  BY <1>1, <1>4 DEF Pos
<1>6. BytesInv'
  BY <1>1, <1>4, <1>5 DEF BytesInv, Holds
<1>7. Buff!Copy(b, n) = [i \in 1 .. n |-> stream[pos + i]]
  BY <1>1, CopyIs
<1> QED
  BY <1>1, <1>4, <1>5, <1>6, <1>7

LEMMA BetweenStays ==
    ASSUME Between, msgs' = msgs, stream' = stream, req' = req, served' = served,
           magic_read' = magic_read, Pos' = Pos
    PROVE  Between'
<1>1. \A m : Base(m)' = Base(m)
  BY StreamStays
<1>2. \A m, a : ArgBase(m, a)' = ArgBase(m, a)
  BY StreamStays
<1>3. AtLine => AtLine'
  BY <1>1 DEF AtLine
<1>4. InArgs => InArgs'
  <2>1. \A m, a : ArgsRead(m, a) => ArgsRead(m, a)'
    BY <1>2 DEF ArgsRead
  <2> QED
    BY <2>1 DEF InArgs
<1> QED
  BY <1>3, <1>4 DEF Between

\* What is left to show of a step of cfd_callback that stays with the request at hand and
\* the bytes buffered.
LEMMA StillStep ==
    ASSUME IInv, UNCHANGED <<msgs, stream, got, b, magic_read, req, served>>, Types',
           /\ pc' \in {"idle", "magic", "request"} => pc \in {"idle", "magic", "request"}
           /\ pc' = "magic" => ~magic_read
           /\ pc' = "request" => magic_read,
           RoomInv', KeptOpen'
    PROVE  IInv'
<1>1. StreamInv' /\ Faithful'
  BY StreamStays, FaithfulStays DEF IInv
<1>2. BytesInv' /\ Pos' = Pos
  BY BytesStay DEF IInv
<1>3. pc' \notin {"bad", "closed"} => Between'
  <2>1. pc' \in {"idle", "magic", "request", "bad", "closed"} /\ pc \in {"idle", "magic", "request", "bad", "closed"}
    BY DEF Types, IInv
  <2>2. pc' \notin {"bad", "closed"} => Between
    BY <2>1 DEF IInv, ParserInv
  <2> QED
    BY <1>2, <2>2, BetweenStays
<1>4. ParserInv'
  BY <1>3 DEF ParserInv
<1> QED
  BY <1>1, <1>2, <1>4 DEF IInv

-----------------------------------------------------------------------------
(* The steps *)

LEMMA SendStep == IInv /\ Send => IInv'
<1> SUFFICES ASSUME IInv, Send PROVE IInv'
  OBVIOUS
<1>1. Types'
  <2>1. Len(stream) \in Nat
    BY LayoutRight, LenProperties DEF IInv, Layout
  <2>2. PICK s, n : s = sent /\ n = Len(stream) /\ s \in Nat /\ n \in Nat /\ sent' \in s + 1 .. n
    BY <2>1 DEF IInv, Types, Send
  <2>3. sent' \in Nat /\ sent <= sent' /\ sent' <= Len(stream)
    BY <2>2
  <2>4. got \in Nat /\ sent \in Nat /\ got <= sent
    BY DEF IInv, Types
  <2>5. got <= sent'
    BY <2>3, <2>4
  <2> QED
    BY <2>3, <2>5 DEF IInv, Types, Send
<1>2. RoomInv' /\ KeptOpen'
  <2>1. (AllAccepted' <=> AllAccepted) /\ (RightMagic' <=> RightMagic)
    BY StreamStays DEF Send
  <2> QED
    BY <2>1 DEF IInv, RoomInv, KeptOpen, CutShort, Send
<1> QED
  BY <1>1, <1>2, StillStep DEF Send, IInv, ParserInv

LEMMA HangupStep == IInv /\ Hangup => IInv'
<1> SUFFICES ASSUME IInv, Hangup PROVE IInv'
  OBVIOUS
<1>1. peer' \in {"closed", "reset"}
  BY DEF Hangup
<1>2. Types'
  BY <1>1 DEF IInv, Types, Hangup
<1>3. RoomInv' /\ KeptOpen'
  <2>1. (AllAccepted' <=> AllAccepted) /\ (RightMagic' <=> RightMagic)
    BY StreamStays DEF Hangup
  <2> QED
    BY <1>1, <2>1 DEF IInv, RoomInv, KeptOpen, CutShort, Hangup
<1> QED
  BY <1>2, <1>3, StillStep DEF Hangup, IInv, ParserInv

LEMMA RefuseStep == IInv /\ Refuse => IInv'
<1> SUFFICES ASSUME IInv, Refuse PROVE IInv'
  OBVIOUS
<1>1. Types'
  BY DEF IInv, Types, Refuse, Bad, peerVars
<1>2. InArgs
  <2>1. Between /\ magic_read /\ req.state = "READING_ARGS"
    BY DEF IInv, ParserInv, Refuse, Complete
  <2> QED
    BY <2>1 DEF Between, AtLine, InitReq
<1>3. ~AllAccepted
  <2>1. req.msg \in 1 .. Len(msgs) /\ ~msgs[req.msg].known
    BY <1>2 DEF InArgs, ArgsRead, Refuse
  <2>2. DOMAIN msgs = 1 .. Len(msgs)
    BY LayoutRight, LenProperties DEF IInv, Layout
  <2> QED
    BY <2>1, <2>2 DEF AllAccepted, Accepted
<1>4. RoomInv' /\ KeptOpen'
  <2>1. AllAccepted' <=> AllAccepted
    BY StreamStays DEF Refuse, peerVars
  <2> QED
    BY <1>3, <2>1 DEF RoomInv, KeptOpen
<1> QED
  BY <1>1, <1>4, StillStep DEF Refuse, Bad, peerVars

LEMMA DestroyStep == IInv /\ Destroy => IInv'
<1> SUFFICES ASSUME IInv, Destroy PROVE IInv'
  OBVIOUS
<1>1. StreamInv' /\ Faithful'
  BY StreamStays, FaithfulStays DEF IInv, Destroy, peerVars
<1>2. BytesInv'
  BY BytesStay DEF IInv, Destroy, peerVars
<1>3. InitReq \in Parsing /\ InitReq.msg = 0 /\ InitReq.argcnt = 0 /\ Len(InitReq.args) = 0
  BY EmptySeq DEF InitReq, Parsing
<1>4. Len(msgs) \in Nat
  BY LayoutRight, LenProperties DEF IInv, Layout
<1>5. Types'
  <2>1. req' \in Parsing /\ req'.msg <= Len(msgs) /\ Len(req'.args) <= req'.argcnt
    BY <1>3, <1>4 DEF Destroy
  <2> QED
    BY <2>1 DEF IInv, Types, Destroy, peerVars
<1>6. RoomInv' /\ KeptOpen' /\ ParserInv'
  <2>1. (AllAccepted' <=> AllAccepted) /\ (RightMagic' <=> RightMagic)
    BY StreamStays DEF Destroy, peerVars
  <2> QED
    BY <2>1 DEF IInv, RoomInv, KeptOpen, CutShort, Destroy, peerVars, ParserInv
<1> QED
  BY <1>1, <1>2, <1>5, <1>6 DEF IInv

LEMMA MinOfTwo ==
    ASSUME NEW x \in Nat, NEW y \in Nat
    PROVE  Min({x, y}) \in {x, y} /\ Min({x, y}) <= x /\ Min({x, y}) <= y
<1>1. PICK z \in {x, y} : \A w \in {x, y} : z <= w
  <2>1. CASE x <= y
    BY <2>1
  <2>2. CASE y <= x
    BY <2>2
  <2> QED
    BY <2>1, <2>2
<1>2. PICK m : m = Min({x, y})
  OBVIOUS
<1>3. m \in {x, y} /\ \A w \in {x, y} : m <= w
  BY <1>1, <1>2 DEF Min
<1> QED
  BY <1>2, <1>3

LEMMA FillStep == IInv /\ Fill => IInv'
<1> SUFFICES ASSUME IInv, Fill PROVE IInv'
  OBVIOUS
<1>1. PICK pos \in Nat, len \in Nat, size \in Nat, g \in Nat :
          pos = Pos /\ len = b.len /\ g = got /\ g = pos + len /\ size = Len(stream) /\ len <= Cap
  BY BytesType, LayoutRight, LenProperties DEF IInv, Layout
<1>2. Holds(b, pos) /\ stream \in Seq(Bytes) /\ b.cap = Cap
  BY <1>1, LayoutRight DEF IInv, BytesInv, Layout, Holds
<1>3. PICK full : full = IF b.rear = b.cap THEN Buff!Adjust(b) ELSE b
  OBVIOUS
<1>4. Holds(full, pos) /\ full.len = len /\ (full.rear = Cap => len = Cap)
  <2>1. CASE b.rear = b.cap
    BY <1>1, <1>2, <1>3, <2>1, AdjustHolds
  <2>2. CASE b.rear # b.cap
    BY <1>1, <1>2, <1>3, <2>2
  <2> QED
    BY <2>1, <2>2
<1>5. PICK rear \in Nat : rear = full.rear /\ rear <= Cap /\ full.cap = Cap
  BY <1>4 DEF Holds, Buffers
<1>6. PICK s \in Nat : s = sent /\ g <= s /\ s <= size
  BY <1>1 DEF IInv, Types
<1>7. /\ UNCHANGED <<msgs, stream, sent, peer, magic_read, req, blocks, served>>
      /\ pc = "idle" /\ (s > g \/ peer # "open")
  BY <1>1, <1>6 DEF Fill, peerVars
<1>8. /\ StreamInv' /\ Faithful'
      /\ AllAccepted' <=> AllAccepted
      /\ RightMagic' <=> RightMagic
  BY <1>7, StreamStays, FaithfulStays DEF IInv
<1>9. Between
  BY <1>7 DEF IInv, ParserInv
<1>10. \/ /\ peer # "reset" /\ s > g /\ Cap - rear > 0
          /\ \E n \in 1 .. Min({s - g, Cap - rear}) :
               /\ b' = Buff!Filled(full, SubSeq(stream, g + 1, g + n))
               /\ got' = g + n
          /\ ret' = 1
          /\ pc' = AfterFill
          /\ err' = err
       \/ /\ peer # "reset" /\ (s = g \/ Cap - rear = 0)
          /\ err' = "peer close connetion"
          /\ ret' = -1
          /\ pc' = "bad"
          /\ b' = full
          /\ got' = got
       \/ /\ peer = "reset"
          /\ err' = "errno"
          /\ ret' = -1
          /\ pc' = "bad"
          /\ b' = full
          /\ got' = got
  BY <1>1, <1>3, <1>5, <1>6 DEF Fill
<1>11. CASE \E n \in 1 .. Min({s - g, Cap - rear}) :
               /\ s > g /\ Cap - rear > 0
               /\ b' = Buff!Filled(full, SubSeq(stream, g + 1, g + n))
               /\ got' = g + n
               /\ ret' = 1
               /\ pc' = AfterFill
               /\ err' = err
  <2>1. PICK n \in 1 .. Min({s - g, Cap - rear}) :
               /\ s > g /\ Cap - rear > 0
               /\ b' = Buff!Filled(full, SubSeq(stream, g + 1, g + n))
               /\ got' = g + n
               /\ ret' = 1
               /\ pc' = AfterFill
               /\ err' = err
    BY <1>11
  <2>2. Min({s - g, Cap - rear}) \in Nat /\ Min({s - g, Cap - rear}) <= s - g
        /\ Min({s - g, Cap - rear}) <= Cap - rear
    BY <1>5, <1>6, <2>1, MinOfTwo
  <2>3. n \in Nat /\ g + n <= s /\ rear + n <= Cap /\ pos + len + n <= size
    <3>1. PICK k \in Nat : k = Min({s - g, Cap - rear}) /\ k <= s - g /\ k <= Cap - rear
      BY <2>2
    <3>2. n \in Nat /\ n <= k
      BY <3>1
    <3>3. n <= s - g /\ n <= Cap - rear
      BY <1>5, <1>6, <3>1, <3>2
    <3>4. g + n <= s /\ rear + n <= Cap
      BY <1>5, <1>6, <3>2, <3>3
    <3>5. g + n <= size
      BY <1>6, <3>2, <3>4
    <3> QED
      BY <1>1, <3>2, <3>4, <3>5
  <2>4. PICK c : c = Buff!Filled(full, SubSeq(stream, pos + len + 1, pos + len + n))
    OBVIOUS
  <2>5. Holds(c, pos) /\ c.len = len + n
    <3>1. full.rear + n <= Cap /\ pos + full.len + n <= Len(stream)
      BY <1>1, <1>4, <1>5, <2>3
    <3>2. c = Buff!Filled(full, SubSeq(stream, pos + full.len + 1, pos + full.len + n))
      BY <1>4, <2>4
    <3> HIDE DEF Bytes
    <3> QED
      BY <1>2, <1>4, <2>3, <3>1, <3>2, FilledHolds
  <2>6. b' = c
    BY <1>1, <2>1, <2>4
  <2>7. b'.len = len + n /\ Pos' = pos /\ len + n <= got'
    <3>1. b'.len = len + n /\ Pos' = (g + n) - (len + n)
      BY <2>1, <2>5, <2>6, Zenon DEF Pos
    <3>2. (g + n) - (len + n) = pos /\ len + n <= g + n
      BY <1>1, <2>3, SMTT(30)
    <3> QED
      BY <2>1, <3>1, <3>2, Zenon
  <2>8. BytesInv'
    BY <1>7, <2>5, <2>6, <2>7 DEF BytesInv, Holds
  <2>9. Types'
    <3>1. got' \in Nat /\ got' <= sent'
      BY <1>6, <1>7, <2>1, <2>3
    <3>2. pc' \in {"magic", "request"}
      BY <2>1 DEF AfterFill
    <3> QED
      BY <1>7, <2>1, <3>1, <3>2 DEF IInv, Types
  <2>10. Between'
    BY <1>1, <1>7, <1>9, <2>7, BetweenStays
  <2>11. ParserInv' /\ RoomInv' /\ KeptOpen'
    BY <1>7, <2>1, <2>10 DEF ParserInv, RoomInv, KeptOpen, AfterFill
  <2> QED
    BY <1>8, <2>8, <2>9, <2>11 DEF IInv
<1>12. CASE /\ peer = "reset" \/ s = g \/ Cap - rear = 0
            /\ err' \in {"errno", "peer close connetion"}
            /\ ret' = -1
            /\ pc' = "bad"
            /\ b' = full
            /\ got' = got
  <2>1. b'.len = len /\ Pos' = pos /\ len <= got'
    <3>1. b'.len = len /\ Pos' = g - len
      BY <1>1, <1>4, <1>12, Zenon DEF Pos
    <3>2. g - len = pos /\ len <= g
      BY <1>1
    <3> QED
      BY <1>1, <1>12, <3>1, <3>2, Zenon
  <2>2. BytesInv'
    BY <1>4, <1>7, <1>12, <2>1 DEF BytesInv, Holds
  <2>3. Types'
    BY <1>7, <1>12 DEF IInv, Types
  <2>4. KeptOpen'
    <3>1. SUFFICES ASSUME AllAccepted, RightMagic PROVE peer # "open"
      BY <1>7, <1>8 DEF KeptOpen
    <3>2. len < Cap
      BY <1>1, <1>7, <3>1 DEF IInv, RoomInv
    <3>3. rear # Cap
      BY <1>4, <1>5, <3>2
    <3>4. Cap - rear # 0 /\ (s = g => ~(s > g))
      BY <1>5, <3>3
    <3> QED
      BY <1>7, <1>12, <3>4
  <2>5. ParserInv' /\ RoomInv'
    BY <1>12 DEF ParserInv, RoomInv
  <2> QED
    BY <1>8, <2>2, <2>3, <2>4, <2>5 DEF IInv
<1> QED
  BY <1>10, <1>11, <1>12

LEMMA MagicAt ==
    ASSUME StreamInv, RightMagic
    PROVE  \A p \in 1 .. MagicSize : stream[p] = Byte("magic", 0, 0, p)
<1>1. PICK kind \in {"magic", "text"} : IsAt([p \in 1 .. MagicSize |-> Byte(kind, 0, 0, p)], stream, 0)
  BY LayoutRight DEF Layout
<1>2. MagicSize \in Nat /\ 1 \in 1 .. MagicSize /\ \A p \in 1 .. MagicSize : 0 + p = p
  OBVIOUS
<1>3. \A p \in 1 .. MagicSize : stream[p] = Byte(kind, 0, 0, p)
  BY <1>1, <1>2, MagicType DEF IsAt
<1>4. Byte(kind, 0, 0, 1).kind = kind
  BY DEF Byte
<1>5. kind = "magic"
  BY <1>2, <1>3, <1>4 DEF RightMagic
<1> QED
  BY <1>3, <1>5

LEMMA ReadMagicStep == IInv /\ ReadMagic => IInv'
<1> SUFFICES ASSUME IInv, ReadMagic PROVE IInv'
  OBVIOUS
<1>1. /\ UNCHANGED <<msgs, stream, sent, peer, got, req, blocks, served, ret>>
      /\ pc = "magic" /\ ~magic_read
  BY DEF ReadMagic, peerVars, IInv, ParserInv
<1>2. /\ StreamInv' /\ Faithful'
      /\ AllAccepted' <=> AllAccepted
      /\ RightMagic' <=> RightMagic
      /\ \A m : Base(m)' = Base(m)
  BY <1>1, StreamStays, FaithfulStays DEF IInv
<1>3. req = InitReq /\ Pos = 0 /\ served = <<>>
  BY <1>1 DEF IInv, ParserInv, Between
<1>4. PICK len \in Nat : len = b.len
  BY BytesType
<1>5. CASE /\ len < MagicSize
           /\ pc' = "idle"
           /\ UNCHANGED <<b, magic_read, err>>
  <2>1. Types' /\ KeptOpen'
    BY <1>1, <1>5 DEF IInv, Types, KeptOpen
  <2>2. RoomInv'
    BY <1>4, <1>5 DEF RoomInv
  <2> QED
    BY <1>1, <1>5, <2>1, <2>2, StillStep
<1>6. CASE /\ len >= MagicSize
           /\ Buff!Copy(b, MagicSize) # [p \in 1 .. MagicSize |-> Byte("magic", 0, 0, p)]
           /\ Bad("invalid magic number")
           /\ UNCHANGED <<b, magic_read>>
  <2>1. ~RightMagic
    <3>1. SUFFICES ASSUME RightMagic PROVE FALSE
      OBVIOUS
    <3>2. Holds(b, 0) /\ MagicSize \in Nat /\ MagicSize <= b.len
      <4>1. MagicSize \in Nat /\ MagicSize <= len
        <5>1. len >= MagicSize
          BY <1>6, Zenon
        <5> QED
          BY <5>1
      <4>2. Holds(b, Pos)
        BY DEF IInv, BytesInv
      <4> QED
        BY <1>3, <1>4, <4>1, <4>2
    <3>3. Buff!Copy(b, MagicSize) = [p \in 1 .. MagicSize |-> stream[0 + p]]
      BY <3>2, CopyIs
    <3>4. \A p \in 1 .. MagicSize : stream[0 + p] = Byte("magic", 0, 0, p)
      BY <3>1, MagicAt DEF IInv
    <3> QED
      BY <1>6, <3>3, <3>4
  <2>2. Types' /\ KeptOpen' /\ RoomInv'
    BY <1>1, <1>2, <1>6, <2>1 DEF IInv, Types, KeptOpen, RoomInv, Bad
  <2> QED
    BY <1>1, <1>6, <2>2, StillStep DEF Bad
<1>7. CASE /\ len >= MagicSize
           /\ b' = Buff!Drop(b, MagicSize)
           /\ magic_read' = TRUE
           /\ pc' = "request"
           /\ err' = err
  <2>1. BytesInv' /\ Pos' = Pos + MagicSize
    <3>1. MagicSize \in Nat /\ MagicSize <= b.len
      BY <1>4, <1>7
    <3> QED
      BY <1>1, <1>7, <3>1, BytesDropped
  <2>2. Types' /\ KeptOpen' /\ RoomInv'
    BY <1>1, <1>7 DEF IInv, Types, KeptOpen, RoomInv
  <2>3. AtLine'
    <3>1. Len(served) + 1 = 1 /\ 0 + MagicSize = MagicSize
      BY <1>3, EmptySeq
    <3>2. Base(1) = MagicSize
      BY LayoutRight DEF IInv, Layout
    <3>3. Pos' = Base(1) /\ Len(served') + 1 = 1
      BY <1>1, <1>3, <2>1, <3>1, <3>2
    <3> QED
      BY <1>1, <1>2, <1>3, <3>3 DEF AtLine
  <2>4. ParserInv'
    BY <1>7, <2>3 DEF ParserInv, Between
  <2> QED
    BY <1>2, <2>1, <2>2, <2>4 DEF IInv
<1> QED
  BY <1>4, <1>5, <1>6, <1>7 DEF ReadMagic, Buff!Buffered, NotReady

\* At the beginning of a message, the first newline buffered is the end of its line.
LEMMA LineAt ==
    ASSUME IInv, AtLine, NEW m, m = Len(served) + 1
    PROVE  /\ m \in Nat \ {0}
           /\ Newlines = {} =>
                IF m \in 1 .. Len(msgs) THEN msgs[m].line > b.len ELSE b.len = 0
           /\ Newlines # {} =>
                /\ m \in 1 .. Len(msgs)
                /\ msgs[m].line \in Nat \ {0} /\ msgs[m].line <= b.len
                /\ Min(Newlines) = msgs[m].line
                /\ Buff!Copy(b, msgs[m].line) = LineBytes(m, msgs[m].line)
                /\ LineBytes(m, msgs[m].line)[msgs[m].line].msg = m
<1>1. Layout
  BY LayoutRight DEF IInv
<1>2. PICK k \in Nat, count \in Nat : k = Len(msgs) /\ count = Len(served) /\ count <= k
  BY <1>1, LenProperties DEF IInv, Types, Layout
<1>3. PICK pos \in Nat, len \in Nat, size \in Nat, front \in Nat, rear \in Nat :
          /\ pos = Pos /\ len = b.len /\ size = Len(stream) /\ front = b.front /\ rear = b.rear
          /\ pos + len <= size /\ rear = front + len
  BY <1>1, BytesType, LenProperties DEF Layout
<1>4. m \in Nat \ {0} /\ (m \in 1 .. k \/ m = k + 1)
  BY <1>2
<1>5. pos = Base(m)
  BY <1>3 DEF AtLine
<1>6. Holds(b, pos)
  BY <1>3 DEF IInv, BytesInv
<1>7. Newlines = {i \in 1 .. len : stream[pos + i].kind = "newline"}
  <2>1. rear - front = len
    BY <1>3
  <2>2. \A i \in 1 .. len : b.buf[front + i - 1] = stream[pos + i]
    BY <1>3, <1>6 DEF Holds
  <2>3. Newlines = {i \in 1 .. len : b.buf[front + i - 1].kind = "newline"}
    BY <1>3, <2>1 DEF Newlines
  <2> QED
    BY <2>2, <2>3
<1>8. CASE m = k + 1
  <2>1. pos = size
    BY <1>1, <1>2, <1>3, <1>5, <1>8 DEF Layout
  <2>2. len = 0 /\ m \notin 1 .. k
    BY <1>3, <1>8, <2>1
  <2>3. Newlines = {}
    BY <1>7, <2>2
  <2> QED
    BY <1>2, <1>3, <1>4, <2>2, <2>3
<1>9. CASE m \in 1 .. k
  <2>1. msgs[m] \in Messages /\ MsgPlaced(m)
    BY <1>1, <1>2, <1>9, ElementOfSeq DEF Layout
  <2>2. PICK line \in Nat \ {0} : line = msgs[m].line
    BY <2>1 DEF Messages
  <2>3. \A p \in 1 .. line : LineBytes(m, line)[p] = Byte(IF p = line THEN "newline" ELSE "text", m, 0, p)
    BY DEF LineBytes
  <2>4. \A p \in 1 .. line : stream[pos + p] = LineBytes(m, line)[p]
    <3>1. Len(LineBytes(m, line)) = line
      BY <1>4, ByteType
    <3> QED
      BY <1>5, <2>1, <2>2, <3>1 DEF MsgPlaced, IsAt
  <2>0. \A kind, p : Byte(kind, m, 0, p).kind = kind /\ Byte(kind, m, 0, p).msg = m
    BY DEF Byte
  <2>5. \A p \in 1 .. line : stream[pos + p].kind = "newline" <=> p = line
    <3>1. TAKE p \in 1 .. line
    <3>2. PICK kind : kind = IF p = line THEN "newline" ELSE "text"
      OBVIOUS
    <3>3. stream[pos + p] = Byte(kind, m, 0, p)
      BY <2>3, <2>4, <3>2
    <3>4. stream[pos + p].kind = kind
      BY <2>0, <3>3
    <3> QED
      BY <3>2, <3>4
  <2>6. LineBytes(m, line)[line].msg = m
    <3>1. line \in 1 .. line
      OBVIOUS
    <3>2. LineBytes(m, line)[line] = Byte("newline", m, 0, line)
      BY <2>3, <3>1
    <3> QED
      BY <2>0, <3>2
  <2>7. CASE line <= len
    <3>1. line \in Newlines
      BY <1>7, <2>5, <2>7
    <3>2. \A i \in Newlines : line <= i
      <4>1. \A i \in 1 .. len : line <= i \/ (i \in 1 .. line /\ i # line)
        OBVIOUS
      <4> QED
        BY <1>7, <2>5, <4>1
    <3>3. \A i \in Newlines : i <= line => i = line
      <4>1. \A i \in 1 .. len : line <= i /\ i <= line => i = line
        OBVIOUS
      <4> QED
        BY <1>7, <3>2, <4>1
    <3>4. Min(Newlines) = line
      BY <3>1, <3>2, <3>3 DEF Min
    <3>5. Buff!Copy(b, line) = LineBytes(m, line)
      <4>1. Buff!Copy(b, line) = [i \in 1 .. line |-> stream[pos + i]]
        BY <1>3, <1>6, <2>7, CopyIs, SMTT(30)
      <4>2. LineBytes(m, line) = [p \in 1 .. line |-> LineBytes(m, line)[p]]
        BY DEF LineBytes
      <4>3. [i \in 1 .. line |-> stream[pos + i]] = [p \in 1 .. line |-> LineBytes(m, line)[p]]
        BY <2>4
      <4> QED
        BY <4>1, <4>2, <4>3
    <3> QED
      BY <1>2, <1>3, <1>4, <1>9, <2>2, <2>6, <2>7, <3>1, <3>4, <3>5
  <2>8. CASE line > len
    <3>1. \A i \in 1 .. len : i \in 1 .. line /\ i # line
      BY <2>8
    <3>2. Newlines = {}
      BY <1>7, <2>5, <3>1
    <3> QED
      BY <1>2, <1>3, <1>4, <1>9, <2>2, <2>8, <3>2
  <2> QED
    BY <2>7, <2>8
<1> QED
  BY <1>4, <1>8, <1>9

LEMMA ParseLineStep == IInv /\ ParseLine => IInv'
<1> SUFFICES ASSUME IInv, ParseLine PROVE IInv'
  OBVIOUS
<1>1. /\ UNCHANGED <<msgs, stream, sent, peer, got, magic_read, blocks, served, ret>>
      /\ pc = "request" /\ req.state = "READING_REQUEST_LINE"
  BY DEF ParseLine, peerVars
<1>2. /\ StreamInv' /\ Faithful'
      /\ AllAccepted' <=> AllAccepted
      /\ RightMagic' <=> RightMagic
      /\ \A x : Base(x)' = Base(x)
      /\ \A x, a : ArgBase(x, a)' = ArgBase(x, a)
  BY <1>1, StreamStays, FaithfulStays DEF IInv
<1>3. AtLine /\ magic_read
  <2>1. Between /\ magic_read
    BY <1>1 DEF IInv, ParserInv
  <2>2. ~InArgs
    BY <1>1 DEF InArgs, ArgsRead
  <2> QED
    BY <2>1, <2>2 DEF Between
<1>4. PICK m : m = Len(served) + 1
  OBVIOUS
<1>5. PICK len \in Nat, k \in Nat : len = b.len /\ len <= Cap /\ k = Len(msgs) /\ DOMAIN msgs = 1 .. k
  BY BytesType, LayoutRight, LenProperties DEF IInv, Layout
<1>6. /\ m \in Nat \ {0}
      /\ Newlines = {} => IF m \in 1 .. k THEN msgs[m].line > len ELSE len = 0
      /\ Newlines # {} =>
            /\ m \in 1 .. k
            /\ msgs[m].line \in Nat \ {0} /\ msgs[m].line <= len
            /\ Min(Newlines) = msgs[m].line
            /\ Buff!Copy(b, msgs[m].line) = LineBytes(m, msgs[m].line)
            /\ LineBytes(m, msgs[m].line)[msgs[m].line].msg = m
  BY <1>3, <1>4, <1>5, LineAt, Zenon
<1>7. \A x \in 1 .. k : AllAccepted => /\ msgs[x].ok /\ msgs[x].line <= Cap
                                       /\ Len(msgs[x].args) < 10
  BY <1>5 DEF AllAccepted, Accepted
<1>8. \A x \in 1 .. k : msgs[x].line \in Nat /\ msgs[x].args \in Seq(Nat)
  <2>1. \A x \in 1 .. k : msgs[x] \in Messages
    BY <1>5, LayoutRight, ElementOfSeq DEF IInv, Layout
  <2> QED
    BY <2>1 DEF Messages
<1>9. CASE /\ Newlines = {}
           /\ IF Buff!Available(b) = 0 THEN Bad("invalid request line") ELSE NotReady /\ UNCHANGED err
           /\ UNCHANGED <<b, req>>
  <2>1. Buff!Available(b) = Cap - len
    BY <1>5 DEF Buff!Available, IInv, BytesInv, Holds
  <2>2. CASE len = Cap
    <3>0. Buff!Available(b) = 0 /\ len # 0
      BY <2>1, <2>2
    <3>1. Bad("invalid request line")
      BY <1>9, <3>0, Zenon
    <3>2. m \in 1 .. k /\ msgs[m].line > Cap
      BY <1>6, <1>9, <2>2, <3>0
    <3>3. msgs[m].line \in Nat
      BY <1>8, <3>2
    <3>4. ~AllAccepted
      BY <1>7, <3>2, <3>3
    <3>5. Types' /\ KeptOpen' /\ RoomInv'
      BY <1>1, <1>2, <1>9, <3>1, <3>4 DEF IInv, Types, KeptOpen, RoomInv, Bad
    <3> QED
      BY <1>1, <1>9, <3>1, <3>5, StillStep DEF Bad
  <2>3. CASE len # Cap
    <3>0. Buff!Available(b) # 0 /\ len < Cap
      BY <1>5, <2>1, <2>3
    <3>1. pc' = "idle" /\ err' = err
      BY <1>9, <3>0, Zenon DEF NotReady
    <3>2. Types' /\ KeptOpen'
      BY <1>1, <1>9, <3>1 DEF IInv, Types, KeptOpen
    <3>3. RoomInv'
      BY <1>5, <1>9, <3>0 DEF RoomInv
    <3> QED
      BY <1>1, <1>9, <3>1, <3>2, <3>3, StillStep
  <2> QED
    BY <2>2, <2>3
<1>10. CASE /\ Newlines # {}
            /\ LET n == Min(Newlines)
                   line == Buff!Copy(b, n)
                   x == line[n].msg
               IN IF IsLine(line, x)
                  THEN /\ b' = Buff!Drop(b, n)
                       /\ req' = [req EXCEPT !.state = "READING_ARGS", !.msg = x,
                                             !.argcnt = Len(msgs[x].args)]
                       /\ UNCHANGED <<pc, err>>
                  ELSE /\ Bad("invalid request line")
                       /\ b' \in {b, Buff!Drop(b, n)}
                       /\ UNCHANGED req
  <2>1. PICK n \in Nat \ {0} : n = msgs[m].line /\ n <= len
    BY <1>6, <1>10
  <2>2. Min(Newlines) = n /\ Buff!Copy(b, n) = LineBytes(m, n) /\ LineBytes(m, n)[n].msg = m
    BY <1>6, <1>10, <2>1
  <2>3. IF IsLine(LineBytes(m, n), m)
        THEN /\ b' = Buff!Drop(b, n)
             /\ req' = [req EXCEPT !.state = "READING_ARGS", !.msg = m,
                                   !.argcnt = Len(msgs[m].args)]
             /\ UNCHANGED <<pc, err>>
        ELSE /\ Bad("invalid request line")
             /\ b' \in {b, Buff!Drop(b, n)}
             /\ UNCHANGED req
    BY <1>10, <2>2, Zenon
  <2>4. m \in 1 .. k
    BY <1>6, <1>10
  <2>5. ASSUME b' = Buff!Drop(b, n)
        PROVE  BytesInv' /\ Pos' = Pos + n
    <3>1. n \in Nat /\ n <= b.len
      BY <1>5, <2>1
    <3> QED
      BY <1>1, <2>5, <3>1, BytesDropped
  <2>6. CASE IsLine(LineBytes(m, n), m)
    <3>1. /\ b' = Buff!Drop(b, n)
          /\ req' = [req EXCEPT !.state = "READING_ARGS", !.msg = m, !.argcnt = Len(msgs[m].args)]
          /\ pc' = pc /\ err' = err
      BY <2>3, <2>6, Zenon
    <3>2. BytesInv' /\ Pos' = Pos + n
      BY <2>5, <3>1
    <3>3. PICK c \in Nat : c = Len(msgs[m].args) /\ c < 10 /\ msgs[m].ok
      <4>1. msgs[m].args \in Seq(Nat)
        BY <1>8, <2>4
      <4> QED
        BY <2>6, <4>1, LenProperties DEF IsLine
    <3>4. req = InitReq
      BY <1>3 DEF AtLine
    <3>5. req' = [state |-> "READING_ARGS", msg |-> m, argcnt |-> c, head |-> <<>>, args |-> <<>>]
      BY <3>1, <3>3, <3>4 DEF InitReq
    <3>6. Len(req'.args) = 0 /\ req'.head = <<>>
      BY <3>5, EmptySeq
    <3>7. Types'
      <4>1. req' \in Parsing
        BY <1>6, <3>5, EmptySeq DEF Parsing
      <4>2. req'.msg <= Len(msgs) /\ Len(req'.args) <= req'.argcnt
        BY <1>5, <2>4, <3>3, <3>5, <3>6
      <4> QED
        BY <1>1, <3>1, <4>1, <4>2 DEF IInv, Types
    <3>8. Pos' = ArgBase(m, 0 + 1)
      <4>1. MsgPlaced(m) /\ Pos = Base(m)
        BY <1>3, <1>4, <1>5, <2>4, LayoutRight DEF IInv, Layout, AtLine
      <4>2. ArgBase(m, 1) = Base(m) + n /\ 0 + 1 = 1
        BY <2>1, <4>1 DEF MsgPlaced
      <4> QED
        BY <3>2, <4>1, <4>2
    <3>9. InArgs'
      <4>1. Len(served') + 1 = m /\ m \in 1 .. Len(msgs') /\ msgs' = msgs
        BY <1>1, <1>4, <1>5, <2>4
      <4>2. msgs[m].line <= Cap /\ 0 <= c
        BY <1>5, <2>1
      <4>3. \A i \in 1 .. 0 : FALSE
        OBVIOUS
      <4>4. Pos' = ArgBase(m, 0 + 1)'
        BY <1>2, <3>8
      <4>5. ArgsRead(m, 0)'
        BY <3>3, <3>5, <3>6, <4>1, <4>2, <4>3, <4>4 DEF ArgsRead
      <4> QED
        BY <3>6, <4>1, <4>5 DEF InArgs
    <3>10. ParserInv' /\ RoomInv' /\ KeptOpen'
      BY <1>1, <1>3, <3>1, <3>9 DEF ParserInv, Between, RoomInv, KeptOpen
    <3> QED
      BY <1>2, <3>2, <3>7, <3>10 DEF IInv
  <2>7. CASE ~IsLine(LineBytes(m, n), m)
    <3>1. Bad("invalid request line") /\ b' \in {b, Buff!Drop(b, n)} /\ req' = req
      BY <2>3, <2>7, Zenon
    <3>2. ~AllAccepted
      BY <1>5, <1>7, <2>1, <2>4, <2>7 DEF IsLine
    <3>3. Types' /\ KeptOpen' /\ RoomInv' /\ ParserInv'
      BY <1>1, <1>2, <3>1, <3>2 DEF IInv, Types, KeptOpen, RoomInv, ParserInv, Bad
    <3>4. BytesInv'
      <4>1. b' = b => BytesInv'
        BY <1>1, BytesStay DEF IInv
      <4> QED
        BY <2>5, <3>1, <4>1
    <3> QED
      BY <1>2, <3>3, <3>4 DEF IInv
  <2> QED
    BY <2>6, <2>7
<1> QED
  BY <1>9, <1>10 DEF ParseLine

\* While arguments are read, the request at hand is message Len(served) + 1.
LEMMA InArgsAt ==
    ASSUME IInv, pc = "request", req.state = "READING_ARGS"
    PROVE  /\ magic_read /\ InArgs
           /\ Len(served) \in Nat /\ Len(served) + 1 \in 1 .. Len(msgs)
           /\ req.args \in Seq(Seq(Bytes)) /\ Len(req.args) \in Nat
           /\ msgs[Len(served) + 1].args \in Seq(Nat)
           /\ Len(msgs[Len(served) + 1].args) \in Nat
           /\ MsgPlaced(Len(served) + 1)
           /\ AllAccepted => Accepted(Len(served) + 1)
<1>1. magic_read /\ InArgs
  <2>1. Between /\ magic_read
    BY DEF IInv, ParserInv
  <2>2. ~AtLine
    BY DEF AtLine, InitReq
  <2> QED
    BY <2>1, <2>2 DEF Between
<1>2. PICK m : m = Len(served) + 1
  OBVIOUS
<1>3. m \in 1 .. Len(msgs)
  BY <1>1, <1>2 DEF InArgs, ArgsRead
<1>4. msgs \in Seq(Messages) /\ MsgPlaced(m) /\ DOMAIN msgs = 1 .. Len(msgs)
  BY <1>3, LayoutRight, LenProperties DEF IInv, Layout
<1>5. msgs[m].args \in Seq(Nat)
  <2>1. msgs[m] \in Messages
    BY <1>3, <1>4, ElementOfSeq
  <2> QED
    BY <2>1 DEF Messages
<1>6. Len(msgs[m].args) \in Nat
  BY <1>5, LenProperties
<1>7. AllAccepted => Accepted(m)
  BY <1>3, <1>4 DEF AllAccepted
<1>8. req.args \in Seq(Seq(Bytes))
  BY DEF IInv, Types, Parsing
<1>9. Len(req.args) \in Nat
  BY <1>8, LenProperties
<1>10. Len(served) \in Nat
  BY LenProperties DEF IInv, Types
<1> QED
  BY <1>1, <1>2, <1>3, <1>4, <1>5, <1>6, <1>7, <1>8, <1>9, <1>10

LEMMA ReadHeadStep == IInv /\ ReadHead => IInv'
<1> SUFFICES ASSUME IInv, ReadHead PROVE IInv'
  OBVIOUS
<1>1. /\ UNCHANGED <<msgs, stream, sent, peer, got, magic_read, blocks, served, err, ret>>
      /\ pc = "request" /\ req.state = "READING_ARGS" /\ Len(req.args) < req.argcnt /\ req.head = <<>>
  BY DEF ReadHead, ReadingArg, peerVars
<1>2. /\ StreamInv' /\ Faithful'
      /\ \A x, y : ArgBase(x, y)' = ArgBase(x, y)
  BY <1>1, StreamStays, FaithfulStays DEF IInv
<1>3. PICK m \in Nat, a \in Nat, n \in Nat :
          /\ m = Len(served) + 1 /\ a = Len(req.args) /\ n = Len(msgs[m].args)
          /\ m \in 1 .. Len(msgs) /\ msgs[m].args \in Seq(Nat)
          /\ MsgPlaced(m) /\ ArgsRead(m, a) /\ magic_read
  BY <1>1, InArgsAt DEF InArgs
<1>4. PICK len \in Nat : len = b.len
  BY BytesType
<1>5. HeadSize \in Nat /\ HeadSize > 0 /\ HeadSize <= Cap
  OBVIOUS
<1>6. CASE len < HeadSize /\ NotReady /\ UNCHANGED <<b, req>>
  <2>1. Types' /\ KeptOpen'
    BY <1>1, <1>6 DEF IInv, Types, KeptOpen, NotReady
  <2>2. len < Cap
    BY <1>5, <1>6
  <2>3. RoomInv'
    BY <1>4, <1>6, <2>2 DEF RoomInv
  <2> QED
    BY <1>1, <1>6, <2>1, <2>3, StillStep DEF NotReady
<1>7. CASE /\ len >= HeadSize
           /\ b' = Buff!Drop(b, HeadSize)
           /\ req' = [req EXCEPT !.head = Buff!Copy(b, HeadSize)]
           /\ UNCHANGED pc
  <2>1. a < n /\ a + 1 \in 1 .. n
    BY <1>1, <1>3 DEF ArgsRead
  <2>2. PICK pos \in Nat : pos = ArgBase(m, a + 1) /\ IsAt(HeadBytes(m, a + 1), stream, pos)
    BY <1>3, <2>1 DEF MsgPlaced, ArgPlaced
  <2>3. HeadBytes(m, a + 1) \in Seq(Bytes) /\ Len(HeadBytes(m, a + 1)) = HeadSize
    <3>1. m \in Nat /\ a + 1 \in Nat /\ 0 \in Nat
      OBVIOUS
    <3> HIDE DEF Bytes
    <3> QED
      BY <3>1, ByteType
  <2>4. Pos = pos
    <3>1. HeadBytes(m, a + 1) # <<>>
      BY <1>5, <2>3, EmptySeq
    <3> QED
      BY <1>1, <1>3, <2>2, <3>1 DEF ArgsRead
  <2>5. BytesInv' /\ Pos' = pos + HeadSize /\ Buff!Copy(b, HeadSize) = [i \in 1 .. HeadSize |-> stream[pos + i]]
    <3>1. HeadSize <= b.len
      BY <1>4, <1>5, <1>7
    <3> QED
      BY <1>1, <1>5, <1>7, <2>4, <3>1, BytesDropped
  <2>6. Buff!Copy(b, HeadSize) = HeadBytes(m, a + 1)
    <3>1. \A i \in 1 .. HeadSize : stream[pos + i] = HeadBytes(m, a + 1)[i]
      BY <2>2, <2>3 DEF IsAt
    <3>2. HeadBytes(m, a + 1) = [i \in 1 .. HeadSize |-> HeadBytes(m, a + 1)[i]]
      BY DEF HeadBytes
    <3>3. [i \in 1 .. HeadSize |-> stream[pos + i]] = [i \in 1 .. HeadSize |-> HeadBytes(m, a + 1)[i]]
      BY <3>1
    <3> QED
      BY <2>5, <3>2, <3>3
  <2>7. PICK head \in Seq(Bytes) : head = HeadBytes(m, a + 1)
    BY <2>3
  <2>8. req' = [req EXCEPT !.head = head] /\ req \in Parsing
    BY <1>7, <2>6, <2>7 DEF IInv, Types
  <2>9. /\ req' \in Parsing /\ req'.head = head /\ req'.state = req.state /\ req'.msg = req.msg
        /\ req'.argcnt = req.argcnt /\ req'.args = req.args
    BY <2>8 DEF Parsing
  <2>10. Types'
    BY <1>1, <1>7, <2>9 DEF IInv, Types
  <2>11. ArgsRead(m, a)'
    <3>1. Pos' = ArgBase(m, a + 1)' + HeadSize
      BY <1>2, <2>2, <2>5
    <3> QED
      BY <1>1, <1>3, <2>1, <2>7, <2>9, <3>1 DEF ArgsRead
  <2>12. InArgs'
    BY <1>1, <1>3, <2>9, <2>11 DEF InArgs
  <2>13. ParserInv' /\ RoomInv' /\ KeptOpen'
    BY <1>1, <1>3, <1>7, <2>12 DEF ParserInv, Between, RoomInv, KeptOpen
  <2> QED
    BY <1>2, <2>5, <2>10, <2>13 DEF IInv
<1> QED
  BY <1>4, <1>6, <1>7 DEF ReadHead, Buff!Buffered

\* A head states the size of the data of its own argument.
LEMMA DataSizesAre ==
    ASSUME NEW m \in DOMAIN msgs, NEW a \in DOMAIN msgs[m].args
    PROVE  DataSizes(HeadBytes(m, a)) = {msgs[m].args[a]}
<1>1. HeadSize \in Nat /\ 1 \in 1 .. HeadSize
  OBVIOUS
<1>2. \A y, x : HeadBytes(y, x)[1] = Byte("head", y, x, 1)
  BY <1>1 DEF HeadBytes
<1>3. \A y, x : Byte("head", y, x, 1).msg = y /\ Byte("head", y, x, 1).arg = x
  BY DEF Byte
<1>4. \A y, x : HeadBytes(m, a) = HeadBytes(y, x) => y = m /\ x = a
  <2>1. \A y, x : HeadBytes(y, x)[1].msg = y /\ HeadBytes(y, x)[1].arg = x
    BY <1>2, <1>3
  <2> QED
    BY <2>1
<1>5. PICK h : h = HeadBytes(m, a)
  OBVIOUS
<1>6. PICK stated : stated = UNION {{msgs[y].args[z] : z \in {x \in DOMAIN msgs[y].args : h = HeadBytes(y, x)}}
                                      : y \in DOMAIN msgs}
  OBVIOUS
<1>7. ASSUME NEW v \in stated PROVE v = msgs[m].args[a]
  <2>1. PICK y \in DOMAIN msgs :
            v \in {msgs[y].args[z] : z \in {x \in DOMAIN msgs[y].args : h = HeadBytes(y, x)}}
    BY <1>6
  <2>2. PICK z \in DOMAIN msgs[y].args : h = HeadBytes(y, z) /\ v = msgs[y].args[z]
    BY <2>1
  <2>3. y = m /\ z = a
    BY <1>4, <1>5, <2>2
  <2> QED
    BY <2>2, <2>3
<1>8. msgs[m].args[a] \in stated
  <2>1. msgs[m].args[a] \in {msgs[m].args[z] : z \in {x \in DOMAIN msgs[m].args : h = HeadBytes(m, x)}}
    BY <1>5
  <2> QED
    BY <1>6, <2>1
<1>9. stated = {msgs[m].args[a]}
  BY <1>7, <1>8
<1>10. DataSizes(h) = IF stated # {} THEN stated ELSE 0 .. Cap + 1
  BY <1>6 DEF DataSizes
<1>11. stated # {}
  BY <1>8
<1> QED
  BY <1>5, <1>9, <1>10, <1>11

LEMMA ReadDataStep == IInv /\ ReadData => IInv'
<1> SUFFICES ASSUME IInv, ReadData PROVE IInv'
  OBVIOUS
<1>1. /\ UNCHANGED <<msgs, stream, sent, peer, got, magic_read, served, err, ret>>
      /\ pc = "request" /\ req.state = "READING_ARGS" /\ Len(req.args) < req.argcnt /\ req.head # <<>>
  BY DEF ReadData, ReadingArg, peerVars
<1>2. /\ StreamInv' /\ Faithful'
      /\ \A x, y : ArgBase(x, y)' = ArgBase(x, y)
  BY <1>1, StreamStays, FaithfulStays DEF IInv
<1>3. PICK m \in Nat, a \in Nat, count \in Nat :
          /\ m = Len(served) + 1 /\ a = Len(req.args) /\ count = Len(msgs[m].args)
          /\ m \in 1 .. Len(msgs) /\ msgs[m].args \in Seq(Nat)
          /\ MsgPlaced(m) /\ ArgsRead(m, a) /\ magic_read
          /\ AllAccepted => Accepted(m)
  BY <1>1, InArgsAt DEF InArgs
<1>4. PICK len \in Nat : len = b.len /\ len <= Cap
  BY BytesType
<1>5. a + 1 \in 1 .. count /\ DOMAIN msgs[m].args = 1 .. count
  <2>1. a < count
    BY <1>1, <1>3 DEF ArgsRead
  <2> QED
    BY <1>3, <2>1, LenProperties
<1>6. DOMAIN msgs = 1 .. Len(msgs)
  BY LayoutRight, LenProperties DEF IInv, Layout
<1>7. PICK n \in Nat : n = msgs[m].args[a + 1] /\ (AllAccepted => n <= Cap)
  <2>1. msgs[m].args[a + 1] \in Nat
    BY <1>3, <1>5, ElementOfSeq
  <2> QED
    BY <1>3, <1>5, <2>1 DEF Accepted
<1>8. PICK pos \in Nat :
          /\ pos = ArgBase(m, a + 1) + HeadSize /\ IsAt(DataBytes(m, a + 1, n), stream, pos)
          /\ ArgBase(m, (a + 1) + 1) = pos + n
  <2>1. ArgPlaced(m, a + 1)
    BY <1>3, <1>5 DEF MsgPlaced
  <2>2. HeadSize \in Nat
    OBVIOUS
  <2> QED
    BY <1>7, <2>1, <2>2 DEF ArgPlaced
<1>9. req.head = HeadBytes(m, a + 1) /\ Pos = pos
  BY <1>1, <1>3, <1>8 DEF ArgsRead
<1>10. DataSizes(req.head) = {n}
  BY <1>3, <1>5, <1>6, <1>7, <1>9, DataSizesAre
<1>11. \/ /\ len < n
          /\ NotReady
          /\ UNCHANGED <<b, req, blocks>>
       \/ /\ len >= n
          /\ b' = Buff!Drop(b, n)
          /\ req' = [req EXCEPT !.args = Append(@, Buff!Copy(b, n)), !.head = <<>>]
          /\ UNCHANGED pc
  BY <1>4, <1>10 DEF ReadData, Buff!Buffered
<1>12. CASE len < n /\ NotReady /\ UNCHANGED <<b, req, blocks>>
  <2>1. Types' /\ KeptOpen'
    BY <1>1, <1>12 DEF IInv, Types, KeptOpen, NotReady
  <2>2. AllAccepted => len < Cap
    BY <1>7, <1>12
  <2>3. AllAccepted' <=> AllAccepted
    BY <1>1, StreamStays
  <2>4. RoomInv'
    BY <1>4, <1>12, <2>2, <2>3 DEF RoomInv
  <2> QED
    BY <1>1, <1>12, <2>1, <2>4, StillStep DEF NotReady
<1>13. CASE /\ len >= n
            /\ b' = Buff!Drop(b, n)
            /\ req' = [req EXCEPT !.args = Append(@, Buff!Copy(b, n)), !.head = <<>>]
            /\ UNCHANGED pc
  <2>1. DataBytes(m, a + 1, n) \in Seq(Bytes) /\ Len(DataBytes(m, a + 1, n)) = n
    <3>1. m \in Nat /\ a + 1 \in Nat /\ n \in Nat
      OBVIOUS
    <3> HIDE DEF Bytes
    <3> QED
      BY <3>1, ByteType
  <2>2. BytesInv' /\ Pos' = pos + n /\ Buff!Copy(b, n) = [i \in 1 .. n |-> stream[pos + i]]
    <3>1. n <= b.len
      BY <1>4, <1>13
    <3> QED
      BY <1>1, <1>9, <1>13, <3>1, BytesDropped
  <2>3. Buff!Copy(b, n) = DataBytes(m, a + 1, n)
    <3>1. \A i \in 1 .. n : stream[pos + i] = DataBytes(m, a + 1, n)[i]
      BY <1>8, <2>1 DEF IsAt
    <3>2. DataBytes(m, a + 1, n) = [i \in 1 .. n |-> DataBytes(m, a + 1, n)[i]]
      BY DEF DataBytes
    <3>3. [i \in 1 .. n |-> stream[pos + i]] = [i \in 1 .. n |-> DataBytes(m, a + 1, n)[i]]
      BY <3>1
    <3> QED
      BY <2>2, <3>2, <3>3
  <2>4. PICK data \in Seq(Bytes) : data = DataBytes(m, a + 1, n)
    BY <2>1
  <2>5. PICK args \in Seq(Seq(Bytes)) : args = req.args
    BY DEF IInv, Types, Parsing
  <2>6. PICK more \in Seq(Seq(Bytes)) : more = Append(args, data) /\ Len(more) = a + 1
    <3>1. Append(args, data) \in Seq(Seq(Bytes)) /\ Len(Append(args, data)) = Len(args) + 1
      <4> HIDE DEF Bytes
      <4> QED
        BY AppendProperties
    <3> QED
      BY <1>3, <2>5, <3>1
  <2>7. \A i \in 1 .. a : more[i] = args[i]
    BY <1>3, <2>5, <2>6, AppendProperties
  <2>8. more[a + 1] = data
    BY <1>3, <2>5, <2>6, AppendProperties
  <2>9. req' = [req EXCEPT !.args = more, !.head = <<>>] /\ req \in Parsing
    BY <1>13, <2>3, <2>4, <2>5, <2>6 DEF IInv, Types
  <2>10. /\ req' \in Parsing /\ req'.head = <<>> /\ req'.state = req.state /\ req'.msg = req.msg
         /\ req'.argcnt = req.argcnt /\ req'.args = more
    BY <2>9, EmptySeq DEF Parsing
  <2>11. Types'
    <3>1. a + 1 <= req.argcnt
      BY <1>3, <1>5 DEF ArgsRead
    <3> QED
      BY <1>1, <1>13, <2>6, <2>10, <3>1 DEF IInv, Types
  <2>12. ArgsRead(m, a + 1)'
    <3>1. Pos' = ArgBase(m, (a + 1) + 1)'
      BY <1>2, <1>8, <2>2
    <3>2. \A i \in 1 .. a + 1 : more[i] = DataBytes(m, i, msgs[m].args[i]) /\ msgs[m].args[i] <= Cap
      <4>1. \A i \in 1 .. a : args[i] = DataBytes(m, i, msgs[m].args[i]) /\ msgs[m].args[i] <= Cap
        BY <1>3, <2>5 DEF ArgsRead
      <4>2. \A i \in 1 .. a + 1 : i \in 1 .. a \/ i = a + 1
        OBVIOUS
      <4>3. n <= Cap
        BY <1>4, <1>13
      <4> QED
        BY <1>7, <2>4, <2>7, <2>8, <4>1, <4>2, <4>3
    <3>3. a + 1 <= Len(msgs[m].args)
      BY <1>3, <1>5
    <3> QED
      BY <1>1, <1>3, <2>10, <3>1, <3>2, <3>3 DEF ArgsRead
  <2>13. InArgs'
    BY <1>1, <1>3, <2>6, <2>10, <2>12 DEF InArgs
  <2>14. ParserInv' /\ RoomInv' /\ KeptOpen'
    BY <1>1, <1>3, <1>13, <2>13 DEF ParserInv, Between, RoomInv, KeptOpen
  <2> QED
    BY <1>2, <2>2, <2>11, <2>14 DEF IInv
<1> QED
  BY <1>11, <1>12, <1>13

LEMMA HandleStep == IInv /\ Handle => IInv'
<1> SUFFICES ASSUME IInv, Handle PROVE IInv'
  OBVIOUS
<1>1. /\ UNCHANGED <<msgs, stream, sent, peer, got, b, magic_read, blocks, ret>>
      /\ pc = "request" /\ req.state = "READING_ARGS" /\ Len(req.args) = req.argcnt
      /\ msgs[req.msg].known
      /\ served' = Append(served, [msg |-> req.msg, args |-> req.args])
      /\ \/ req' = InitReq /\ pc' = pc /\ err' = err
         \/ ~msgs[req.msg].fits /\ pc' = "bad" /\ err' = "peer close connetion" /\ req' = req
         \/ peer # "open" /\ pc' = "bad" /\ err' = "errno" /\ req' = req
  BY DEF Handle, Complete, Bad, peerVars
<1>2. /\ StreamInv'
      /\ \A x : Base(x)' = Base(x)
      /\ \A x : Accepted(x)' <=> Accepted(x)
  BY <1>1, StreamStays DEF IInv
<1>3. BytesInv' /\ Pos' = Pos
  BY <1>1, BytesStay DEF IInv
<1>4. PICK done \in Nat, m \in Nat, count \in Nat, k \in Nat :
          /\ done = Len(served) /\ m = done + 1 /\ count = Len(msgs[m].args) /\ k = Len(msgs) /\ m <= k
          /\ m \in 1 .. k /\ msgs[m].args \in Seq(Nat)
          /\ MsgPlaced(m) /\ magic_read /\ req.msg = m /\ ArgsRead(m, count)
          /\ Len(req.args) = count /\ req.args \in Seq(Seq(Bytes))
  <2>1. /\ magic_read /\ InArgs
        /\ Len(served) \in Nat /\ Len(served) + 1 \in 1 .. Len(msgs)
        /\ req.args \in Seq(Seq(Bytes)) /\ Len(req.args) \in Nat
        /\ msgs[Len(served) + 1].args \in Seq(Nat)
        /\ Len(msgs[Len(served) + 1].args) \in Nat
        /\ MsgPlaced(Len(served) + 1)
    BY <1>1, InArgsAt, Zenon
  <2>2. PICK done \in Nat, m \in Nat, count \in Nat :
            done = Len(served) /\ m = done + 1 /\ count = Len(msgs[m].args)
    BY <2>1
  <2>3. ArgsRead(m, Len(req.args))
    BY <2>1, <2>2 DEF InArgs
  <2>4. Len(req.args) = count /\ req.msg = m
    BY <1>1, <2>2, <2>3 DEF ArgsRead
  <2>5. PICK k \in Nat : k = Len(msgs)
    BY LayoutRight, LenProperties DEF IInv, Layout
  <2>6. m \in 1 .. k /\ m <= k
    BY <2>1, <2>2, <2>5
  <2> QED
    BY <2>1, <2>2, <2>3, <2>4, <2>5, <2>6
<1>5. DOMAIN msgs[m].args = 1 .. count
  BY <1>4, LenProperties
<1>6. PICK args \in Seq(Seq(Bytes)) : args = req.args /\ DOMAIN args = 1 .. count
  BY <1>4, LenProperties
<1>7. PICK r : r = [msg |-> m, args |-> args]
  OBVIOUS
<1>8. r \in [msg : Nat, args : Seq(Seq(Bytes))] /\ r.msg = m /\ r.args = args
  BY <1>7
<1>9. served' = Append(served, r) /\ served \in Seq([msg : Nat, args : Seq(Seq(Bytes))])
  BY <1>1, <1>4, <1>6, <1>7 DEF IInv, Types
<1>10. /\ served' \in Seq([msg : Nat, args : Seq(Seq(Bytes))]) /\ Len(served') = m
       /\ \A i \in 1 .. done : served'[i] = served[i]
       /\ served'[m] = r
  <2>1. PICK T : T = [msg : Nat, args : Seq(Seq(Bytes))]
    OBVIOUS
  <2>2. r \in T /\ served \in Seq(T)
    BY <1>8, <1>9, <2>1
  <2>3. /\ Append(served, r) \in Seq(T) /\ Len(Append(served, r)) = Len(served) + 1
        /\ \A i \in 1 .. Len(served) : Append(served, r)[i] = served[i]
        /\ Append(served, r)[Len(served) + 1] = r
    BY <2>2, AppendProperties
  <2> QED
    BY <1>4, <1>9, <2>1, <2>3
<1>11. DOMAIN served' = 1 .. m /\ DOMAIN served = 1 .. done
  BY <1>4, <1>9, <1>10, LenProperties
<1>12. Faithful'
  <2>1. \A i \in 1 .. m : i \in 1 .. done \/ i = m
    BY <1>4
  <2>2. \A i \in 1 .. done :
            /\ Accepted(i) /\ served[i].msg = i
            /\ served[i].args = [a \in DOMAIN msgs[i].args |-> DataBytes(i, a, msgs[i].args[a])]
    BY <1>11 DEF IInv, Faithful
  <2>3. \A a \in 1 .. count : args[a] = DataBytes(m, a, msgs[m].args[a]) /\ msgs[m].args[a] <= Cap
    BY <1>4, <1>6 DEF ArgsRead
  <2>4. Accepted(m)
    BY <1>1, <1>4, <1>5, <2>3 DEF Accepted, ArgsRead
  <2>5. args = [a \in DOMAIN msgs[m].args |-> DataBytes(m, a, msgs[m].args[a])]
    <3>1. args = [a \in DOMAIN args |-> args[a]]
      BY LenProperties
    <3> QED
      BY <1>5, <1>6, <2>3, <3>1
  <2>6. \A i \in 1 .. m :
            /\ Accepted(i) /\ served'[i].msg = i
            /\ served'[i].args = [a \in DOMAIN msgs[i].args |-> DataBytes(i, a, msgs[i].args[a])]
    <3>1. TAKE i \in 1 .. m
    <3>2. CASE i \in 1 .. done
      BY <1>10, <2>2, <3>2
    <3>3. CASE i = m
      BY <1>8, <1>10, <2>4, <2>5, <3>3
    <3> QED
      BY <2>1, <3>2, <3>3
  <2>7. \A i \in DOMAIN served' :
            /\ Accepted(i)' /\ served'[i].msg = i
            /\ served'[i].args = [a \in DOMAIN msgs'[i].args |-> DataBytes(i, a, msgs'[i].args[a])]
    <3>1. msgs' = msgs
      BY <1>1
    <3> QED
      BY <1>2, <1>11, <2>6, <3>1
  <2>8. \A i, a, n : DataBytes(i, a, n)' = DataBytes(i, a, n)
    BY DEF DataBytes, Byte
  <2> QED
    BY <2>7 DEF Faithful
<1>13. Types'
  <2>1. InitReq \in Parsing /\ InitReq.msg = 0 /\ InitReq.argcnt = 0 /\ Len(InitReq.args) = 0
    BY EmptySeq DEF InitReq, Parsing
  <2>2. req' \in Parsing /\ req'.msg <= Len(msgs) /\ Len(req'.args) <= req'.argcnt
    <3>1. req \in Parsing /\ req.msg <= Len(msgs) /\ Len(req.args) <= req.argcnt
      BY DEF IInv, Types
    <3>2. InitReq.msg <= Len(msgs) /\ Len(InitReq.args) <= InitReq.argcnt
      BY <1>4, <2>1
    <3> QED
      BY <1>1, <2>1, <3>1, <3>2, Zenon
  <2>3. Len(served') <= Len(msgs')
    BY <1>1, <1>4, <1>10
  <2> QED
    BY <1>1, <1>10, <2>2, <2>3 DEF IInv, Types
<1>14. pc' = pc => AtLine'
  <2>1. SUFFICES ASSUME pc' = pc PROVE AtLine'
    OBVIOUS
  <2>2. req' = InitReq
    BY <1>1, <2>1
  <2>3. Pos = ArgBase(m, count + 1)
    BY <1>4 DEF ArgsRead
  <2>4. Pos = Base(m + 1)
    BY <1>4, <2>3 DEF MsgPlaced
  <2> QED
    BY <1>2, <1>3, <1>10, <2>2, <2>4 DEF AtLine, InitReq
<1>15. ~msgs[req.msg].fits => CutShort'
  <2>1. msgs' = msgs /\ Len(served') = m /\ req.msg = m
    BY <1>1, <1>4, <1>10
  <2>2. served' # <<>>
    <3>1. Len(<<>>) = 0 /\ m # 0
      BY <1>4
    <3> QED
      BY <2>1, <3>1
  <2> QED
    BY <2>1, <2>2 DEF CutShort
<1>16. ParserInv' /\ RoomInv' /\ KeptOpen'
  BY <1>1, <1>4, <1>14, <1>15 DEF ParserInv, Between, RoomInv, KeptOpen
<1> QED
  BY <1>2, <1>3, <1>12, <1>13, <1>16 DEF IInv

LEMMA NextInv == IInv /\ [Next]_vars => IInv'
<1> SUFFICES ASSUME IInv, [Next]_vars PROVE IInv'
  OBVIOUS
<1>1. CASE UNCHANGED vars
  <2>1. Types' /\ RoomInv' /\ KeptOpen'
    <3>1. (AllAccepted' <=> AllAccepted) /\ (RightMagic' <=> RightMagic)
      BY <1>1, StreamStays DEF vars
    <3> QED
      BY <1>1, <3>1, ZenonT(60) DEF vars, IInv, Types, RoomInv, KeptOpen, CutShort
  <2> QED
    BY <1>1, <2>1, StillStep DEF vars, IInv, ParserInv
<1>2. CASE Next
  BY <1>2, SendStep, HangupStep, FillStep, ReadMagicStep, ParseLineStep, ReadHeadStep, ReadDataStep,
     RefuseStep, HandleStep, DestroyStep DEF Next, CfdCallback
<1> QED
  BY <1>1, <1>2

\* The places of the parser in the stream, the bytes in the buffer and the requests served
\* agree after every sequence of steps, for every capacity and every cutting of the stream.
THEOREM Invariant == Spec => []IInv
<1>1. Init => IInv
  BY InitInv
<1>2. IInv /\ [Next]_vars => IInv'
  BY NextInv
<1> QED
  BY <1>1, <1>2, PTL DEF Spec

-----------------------------------------------------------------------------
(* The properties *)

LEMMA BufferIs == IInv => BufferRight
<1> SUFFICES ASSUME IInv PROVE BufferRight
  OBVIOUS
<1>1. Layout /\ Types /\ Holds(b, Pos)
  BY LayoutRight DEF IInv, BytesInv
<1>2. PICK len \in Nat, front \in Nat, rear \in Nat, g \in Nat, pos \in Nat, size \in Nat :
          /\ len = b.len /\ front = b.front /\ rear = b.rear /\ g = got /\ pos = Pos /\ size = Len(stream)
          /\ rear = front + len /\ rear <= Cap /\ len <= Cap /\ g = pos + len /\ pos + len <= size
  BY <1>1, BytesType, LenProperties DEF Layout
<1>3. TypeOK
  <2>1. front <= Cap
    BY <1>2
  <2>2. b.cap = Cap /\ DOMAIN b.buf = 0 .. Cap - 1
    BY <1>1 DEF Holds, Buffers
  <2>3. req.msg \in Nat /\ req.state \in {"READING_REQUEST_LINE", "READING_ARGS"}
    BY <1>1 DEF Types, Parsing
  <2>4. Len(msgs) \in Nat
    BY <1>1, LenProperties DEF Layout
  <2>5. sent \in 0 .. Len(stream) /\ got \in 0 .. sent /\ req.msg \in 0 .. Len(msgs)
    <3>1. /\ sent \in Nat /\ got \in Nat /\ got <= sent /\ sent <= Len(stream)
          /\ req.msg <= Len(msgs)
      BY <1>1 DEF Types
    <3>2. Len(stream) \in Nat
      BY <1>2
    <3> QED
      BY <2>3, <2>4, <3>1, <3>2
  <2>6. b.len \in 0 .. Cap /\ b.front \in 0 .. Cap /\ b.rear \in 0 .. Cap
    BY <1>2, <2>1
  <2> QED
    BY <1>1, <2>2, <2>3, <2>5, <2>6 DEF TypeOK, Types
<1>4. CursorInv
  BY <1>1 DEF Holds, CursorInv
<1>5. BufferedInv
  <2>1. Buff!Content(b) = [i \in 1 .. len |-> stream[pos + i]]
    <3>1. rear - front = len
      BY <1>2
    <3>2. \A i \in 1 .. len : b.buf[front + i - 1] = stream[pos + i]
      BY <1>1, <1>2 DEF Holds
    <3>3. Buff!Content(b) = [i \in 1 .. len |-> b.buf[front + i - 1]]
      BY <1>2, <3>1 DEF Buff!Content
    <3> QED
      BY <3>2, <3>3
  <2>2. SubSeq(stream, pos + 1, pos + len) = [i \in 1 .. len |-> stream[pos + i]]
    <3>1. pos + 1 \in Int /\ pos + len \in Int /\ \A i \in pos + 1 .. pos + len : i \in 1 .. size
      BY <1>2
    <3>2. PICK t : t = SubSeq(stream, pos + 1, pos + len)
      OBVIOUS
    <3>3. stream \in Seq(Bytes)
      BY <1>1 DEF Layout
    <3>4. /\ t \in Seq(Bytes)
          /\ Len(t) = IF pos + 1 <= pos + len THEN (pos + len) - (pos + 1) + 1 ELSE 0
          /\ \A i \in 1 .. (pos + len) - (pos + 1) + 1 : t[i] = stream[(pos + 1) + i - 1]
      <4> HIDE DEF Bytes
      <4>1. \A i \in pos + 1 .. pos + len : stream[i] \in Bytes
        <5>1. \A i \in 1 .. size : stream[i] \in Bytes
          BY <1>2, <3>3, ElementOfSeq
        <5> QED
          BY <3>1, <5>1
      <4> QED
        BY <3>1, <3>2, <4>1, SubSeqProperties
    <3>5. /\ (pos + len) - (pos + 1) + 1 = len /\ \A i \in 1 .. len : (pos + 1) + i - 1 = pos + i
          /\ (IF pos + 1 <= pos + len THEN len ELSE 0) = len
      OBVIOUS
    <3>6. DOMAIN t = 1 .. len /\ t = [i \in DOMAIN t |-> t[i]]
      BY <3>4, <3>5, LenProperties
    <3> QED
      BY <3>2, <3>4, <3>5, <3>6
  <2>3. got - b.len = pos
    BY <1>2
  <2> QED
    BY <1>2, <2>1, <2>2, <2>3 DEF BufferedInv
<1> QED
  BY <1>3, <1>4, <1>5 DEF BufferRight

\* Wherever the block's bytes have been moved, the buffer holds the last bytes read in the
\* order they were sent, and front, rear and len agree about them.
THEOREM BufferRightHolds == Spec => []BufferRight
BY Invariant, BufferIs, PTL

\* The requests handed to handlers are the first ones sent, each with the data of its own
\* arguments and each one the server accepts.
THEOREM FaithfulHolds == Spec => []Faithful
<1>1. IInv => Faithful
  BY DEF IInv
<1> QED
  BY <1>1, Invariant, PTL

\* A client that sends nothing but acceptable requests finds its connection closed only
\* after it has hung up itself, or after a response that did not fit into the server's
\* write buffer.
THEOREM KeptOpenHolds == Spec => []KeptOpen
<1>1. IInv => KeptOpen
  BY DEF IInv
<1> QED
  BY <1>1, Invariant, PTL
=============================================================================
