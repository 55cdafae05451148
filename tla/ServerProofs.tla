---------------------------- MODULE ServerProofs ----------------------------
(***************************************************************************)
(* Proofs about Server, for every set of workers, of connections and of    *)
(* descriptor numbers, every capacity of the queue and every fault.        *)
(***************************************************************************)
EXTENDS Server, SequenceTheorems, TLAPS

USE ConnsAssumption, NoneAssumption, FdsAssumption, BoundsAssumption

\* The variables the placement of contexts depends on, apart from wpc.
coreVars == <<peer, backlog, fds, interest, armed, heap, fd, reactor, batch, queue, holding, cfd>>

-----------------------------------------------------------------------------
(* The elements of a sequence. *)

LEMMA AppendElements ==
    ASSUME NEW S, NEW s \in Seq(S), NEW e \in S
    PROVE  /\ {Append(s, e)[i] : i \in DOMAIN Append(s, e)} = {s[i] : i \in DOMAIN s} \cup {e}
           /\ (\A i, j \in DOMAIN s : s[i] = s[j] => i = j) /\ e \notin {s[i] : i \in DOMAIN s}
              => \A i, j \in DOMAIN Append(s, e) : Append(s, e)[i] = Append(s, e)[j] => i = j
<1>1. /\ Len(s) \in Nat /\ DOMAIN s = 1 .. Len(s) /\ DOMAIN Append(s, e) = 1 .. Len(s) + 1
      /\ \A i \in 1 .. Len(s) : Append(s, e)[i] = s[i]
      /\ Append(s, e)[Len(s) + 1] = e
  BY AppendProperties, LenProperties
<1>2. \A i \in 1 .. Len(s) + 1 : i \in 1 .. Len(s) \/ i = Len(s) + 1
  BY <1>1
<1>3. \A i \in 1 .. Len(s) : i \in 1 .. Len(s) + 1
  BY <1>1
<1>4. Len(s) + 1 \in 1 .. Len(s) + 1
  BY <1>1
<1>5. {Append(s, e)[i] : i \in DOMAIN Append(s, e)} \subseteq {s[i] : i \in DOMAIN s} \cup {e}
  BY <1>1, <1>2
<1>6. {s[i] : i \in DOMAIN s} \cup {e} \subseteq {Append(s, e)[i] : i \in DOMAIN Append(s, e)}
  BY <1>1, <1>3, <1>4
<1>7. ASSUME \A i, j \in DOMAIN s : s[i] = s[j] => i = j, e \notin {s[i] : i \in DOMAIN s},
             NEW i \in DOMAIN Append(s, e), NEW j \in DOMAIN Append(s, e),
             Append(s, e)[i] = Append(s, e)[j]
      PROVE  i = j
  BY <1>1, <1>2, <1>7
<1> QED
  BY <1>5, <1>6, <1>7

LEMMA TailElements ==
    ASSUME NEW S, NEW s \in Seq(S), s # <<>>
    PROVE  /\ {s[i] : i \in DOMAIN s} = {Tail(s)[i] : i \in DOMAIN Tail(s)} \cup {Head(s)}
           /\ (\A i, j \in DOMAIN s : s[i] = s[j] => i = j)
              => /\ Head(s) \notin {Tail(s)[i] : i \in DOMAIN Tail(s)}
                 /\ \A i, j \in DOMAIN Tail(s) : Tail(s)[i] = Tail(s)[j] => i = j
<1>1. /\ Len(s) \in Nat /\ DOMAIN s = 1 .. Len(s)
      /\ Tail(s) \in Seq(S) /\ Len(Tail(s)) = Len(s) - 1 /\ DOMAIN Tail(s) = 1 .. Len(s) - 1
      /\ \A i \in 1 .. Len(s) - 1 : Tail(s)[i] = s[i + 1]
      /\ Head(s) = s[1] /\ Len(s) > 0
  BY HeadTailProperties, LenProperties
<1>2. \A i \in 1 .. Len(s) : i = 1 \/ (i - 1 \in 1 .. Len(s) - 1 /\ (i - 1) + 1 = i)
  BY <1>1
<1>3. \A i \in 1 .. Len(s) - 1 : i + 1 \in 1 .. Len(s) /\ i + 1 # 1
  BY <1>1
<1>4. 1 \in 1 .. Len(s)
  BY <1>1
<1>5. \A i, j \in 1 .. Len(s) - 1 : i + 1 = j + 1 => i = j
  BY <1>1
<1>6. {s[i] : i \in DOMAIN s} = {Tail(s)[i] : i \in DOMAIN Tail(s)} \cup {Head(s)}
  <2>1. ASSUME NEW i \in DOMAIN s PROVE s[i] \in {Tail(s)[j] : j \in DOMAIN Tail(s)} \cup {Head(s)}
    <3>1. CASE i = 1
      BY <1>1, <3>1
    <3>2. CASE i # 1
      <4>1. i - 1 \in DOMAIN Tail(s) /\ Tail(s)[i - 1] = s[i]
        BY <1>1, <1>2, <3>2
      <4> QED
        BY <4>1
    <3> QED
      BY <3>1, <3>2
  <2>2. ASSUME NEW j \in DOMAIN Tail(s) PROVE Tail(s)[j] \in {s[i] : i \in DOMAIN s}
    BY <1>1, <1>3
  <2>3. Head(s) \in {s[i] : i \in DOMAIN s}
    BY <1>1, <1>4
  <2> QED
    BY <2>1, <2>2, <2>3
<1>7. ASSUME \A i, j \in DOMAIN s : s[i] = s[j] => i = j
      PROVE  Head(s) \notin {Tail(s)[i] : i \in DOMAIN Tail(s)}
  BY <1>1, <1>3, <1>4, <1>7
<1>8. ASSUME \A i, j \in DOMAIN s : s[i] = s[j] => i = j
      PROVE  \A i, j \in DOMAIN Tail(s) : Tail(s)[i] = Tail(s)[j] => i = j
  BY <1>1, <1>3, <1>5, <1>8
<1> QED
  BY <1>6, <1>7, <1>8

-----------------------------------------------------------------------------
(* The initial state. *)

LEMMA InitIInv == Init => IInv
<1> SUFFICES ASSUME Init PROVE IInv
  OBVIOUS
<1>1. TypeOK
  <2>1. <<>> \in Seq(Conns) /\ <<>> \in Seq(Chunks) /\ <<>> \in Seq(0 .. MaxReqs) /\ <<>> \in Seq(Ctxs)
    OBVIOUS
  <2>2. InitReq \in Requests
    BY DEF InitReq, Requests
  <2>3. sent \in [Conns -> 0 .. 2 * MaxReqs + 1]
    BY DEF Init
  <2>4. "none" \in {"none", "live", "freed"} /\ "idle" \in Points /\ "loop" \in ReactorPoints
    BY DEF Points, ReactorPoints
  <2> QED
    BY <2>1, <2>2, <2>3, <2>4 DEF Init, TypeOK, AllFds, Ctxs
<1>2. HoldInv /\ EpollInv /\ RegisteredInv /\ AcceptInv /\ EventInv
  BY DEF Init, HoldInv, EpollInv, RegisteredInv, AcceptInv, EventInv, Queued, LfdOpen, AllFds,
     ListenerPoints, ConnPoints
<1>3. FreshInv /\ NoUseAfterFree /\ FdInv /\ NotStranded /\ OneHolder
  BY DEF Init, FreshInv, InBacklog, NoUseAfterFree, FdInv, NotStranded, OneHolder, Armed, Queued, Used,
     Using, AllFds, ConnPoints
<1> QED
  BY <1>1, <1>2, <1>3 DEF IInv

-----------------------------------------------------------------------------
(* Types. *)

LEMMA ExceptType ==
    ASSUME NEW D, NEW R, NEW f \in [D -> R], NEW d, NEW r \in R, NEW g,
           g = f \/ g = [f EXCEPT ![d] = r]
    PROVE  g \in [D -> R]
OBVIOUS

LEMMA ProperChunk ==
    ASSUME NEW n \in Nat, n <= MaxReqs, NEW k \in 0 .. 2 * n
    PROVE  Proper(k) \in Chunks
<1>1. n \in 0 .. MaxReqs
  OBVIOUS
<1>2. CASE k = 0
  BY <1>2 DEF Proper, Chunks
<1>3. CASE k # 0 /\ k % 2 = 1
  <2>1. (k + 1) \div 2 \in 0 .. n
    BY <1>3
  <2> QED
    BY <1>1, <1>3, <2>1 DEF Proper, Chunks
<1>4. CASE k # 0 /\ k % 2 # 1
  <2>1. k \div 2 \in 0 .. n
    BY <1>4
  <2> QED
    BY <1>1, <1>4, <2>1 DEF Proper, Chunks
<1> QED
  BY <1>2, <1>3, <1>4

LEMMA SendChunk ==
    ASSUME TypeOK, NEW c \in Conns, Send(c)
    PROVE  /\ sent[c] \in 0 .. 2 * MaxReqs
           /\ \E k \in Chunks : inbox' = [inbox EXCEPT ![c] = Append(@, k)]
<1>1. Talks[c] \in Nat /\ Talks[c] <= MaxReqs /\ sent[c] \in 0 .. 2 * Talks[c]
  <2>1. Talks[c] \in 0 .. MaxReqs
    BY TalksAssumption
  <2>2. sent[c] \in Nat /\ sent[c] <= 2 * Talks[c]
    BY DEF TypeOK, Send
  <2> QED
    BY <2>1, <2>2
<1>2. Proper(sent[c]) \in Chunks
  BY <1>1, ProperChunk
<1>3. \A x \in {"junk", "no_service"} : [kind |-> x, seq |-> 0] \in Chunks
  BY DEF Chunks
<1>4. sent[c] \in 0 .. 2 * MaxReqs
  BY <1>1
<1>5. \E k \in Chunks : inbox' = [inbox EXCEPT ![c] = Append(@, k)]
  BY <1>2, <1>3 DEF Send
<1> QED
  BY <1>4, <1>5

LEMMA ClientType ==
    ASSUME TypeOK, NEW c \in Conns, ClientStep(c)
    PROVE  TypeOK'
<1> USE DEF reactorVars, epollVars, ctxVars
<1>1. CASE Connect(c)
  <2>1. backlog' \in Seq(Conns)
    BY <1>1 DEF Connect, TypeOK
  <2>2. peer' \in [Conns -> {"new", "open", "closed"}]
    BY <1>1 DEF Connect, TypeOK
  <2> QED
    BY <1>1, <2>1, <2>2 DEF Connect, TypeOK
<1>2. CASE Send(c)
  <2>1. sent[c] \in 0 .. 2 * MaxReqs
    BY <1>2, SendChunk
  <2>2. PICK k \in Chunks : inbox' = [inbox EXCEPT ![c] = Append(@, k)]
    BY <1>2, SendChunk
  <2>3. inbox' \in [Conns -> Seq(Chunks)]
    BY <2>2 DEF TypeOK
  <2>4. sent' \in [Conns -> 0 .. 2 * MaxReqs + 1]
    <3>1. sent[c] + 1 \in 0 .. 2 * MaxReqs + 1
      BY <2>1
    <3> QED
      BY <1>2, <3>1 DEF Send, TypeOK
  <2> QED
    BY <1>2, <2>3, <2>4 DEF Send, TypeOK
<1>3. CASE Close(c)
  BY <1>3 DEF Close, TypeOK
<1>4. CASE Reset(c)
  <2>1. <<>> \in Seq(Chunks)
    OBVIOUS
  <2> QED
    BY <1>4, <2>1 DEF Reset, TypeOK
<1> QED
  BY <1>1, <1>2, <1>3, <1>4 DEF ClientStep

LEMMA ReactorType ==
    ASSUME TypeOK, EpollInv, ReactorStep
    PROVE  TypeOK'
<1> USE DEF TypeOK, clientVars, epollVars, ctxVars, ReactorPoints
<1>1. CASE EpollWait
  <2>1. \A f \in armed : interest[f] \in Ctxs
    BY DEF EpollInv
  <2>2. batch' \subseteq Ctxs /\ armed' \subseteq AllFds
    BY <1>1, <2>1 DEF EpollWait
  <2> QED
    BY <1>1, <2>2 DEF EpollWait
<1>2. CASE EpollFails
  BY <1>2 DEF EpollFails
<1>3. ASSUME NEW x \in batch, ReactorPut(x) PROVE TypeOK'
  BY <1>3 DEF ReactorPut, Pool!Put
<1>4. ASSUME NEW x \in batch, ReactorSkip(x) PROVE TypeOK'
  BY <1>4 DEF ReactorSkip
<1>5. CASE CloseListener
  <2>1. <<>> \in Seq(Conns)
    OBVIOUS
  <2>2. interest' \in [AllFds -> Ctxs \cup {None}] /\ armed' \subseteq AllFds
    BY <1>5 DEF CloseListener, Forget
  <2> QED
    BY <1>5, <2>1, <2>2 DEF CloseListener
<1>6. CASE CloseEpoll
  BY <1>6 DEF CloseEpoll
<1>7. CASE DestroyPool
  BY <1>7 DEF DestroyPool, Pool!Close
<1>8. CASE FreeServer
  BY <1>8 DEF FreeServer
<1> QED
  BY <1>1, <1>2, <1>3, <1>4, <1>5, <1>6, <1>7, <1>8 DEF ReactorStep

\* What a worker in cfd_callback has in hand.
LEMMA InHand ==
    ASSUME IInv, NEW w \in Workers, wpc[w] \in ConnPoints
    PROVE  /\ holding[w] \in Conns
           /\ heap[holding[w]] = "live"
           /\ fd[holding[w]] \in Fds
           /\ fds[fd[holding[w]]] = holding[w]
           /\ holding[w] \notin Armed \cup batch \cup Queued
           /\ \A v \in Workers : Using(v) /\ holding[v] = holding[w] => v = w
<1>1. holding[w] \in Conns
  BY DEF IInv, HoldInv
<1>2. Using(w) /\ holding[w] \in Used
  BY DEF Using, Used
<1>3. heap[holding[w]] = "live"
  BY <1>1, <1>2 DEF IInv, NoUseAfterFree
<1> QED
  BY <1>1, <1>2, <1>3 DEF IInv, FdInv, OneHolder

LEMMA LfdType ==
    ASSUME IInv, NEW w \in Workers, LfdCallback(w)
    PROVE  TypeOK'
<1> USE DEF clientVars, epollVars, ctxVars, reactorVars
<1>0. TypeOK /\ \A point \in Points : [wpc EXCEPT ![w] = point] \in [Workers -> Points]
  BY DEF IInv, TypeOK
<1>1. CASE Accept(w)
  <2>1. "rearm_listener" \in Points
    BY DEF Points, ListenerPoints
  <2>2. CASE cfd' = [cfd EXCEPT ![w] = NoFd] /\ UNCHANGED <<backlog, fds>>
    BY <1>0, <1>1, <2>1, <2>2 DEF Accept, Goto, TypeOK
  <2>3. CASE /\ backlog # <<>> /\ backlog' = Tail(backlog)
             /\ \E f \in FreeFds : /\ fds' = [fds EXCEPT ![f] = Head(backlog)]
                                   /\ cfd' = [cfd EXCEPT ![w] = f]
    <3>1. Head(backlog) \in Conns /\ Tail(backlog) \in Seq(Conns)
      BY <1>0, <2>3, HeadTailProperties DEF TypeOK
    <3>2. PICK f \in Fds : fds' = [fds EXCEPT ![f] = Head(backlog)] /\ cfd' = [cfd EXCEPT ![w] = f]
      BY <2>3 DEF FreeFds
    <3>3. fds' \in [Fds -> Conns \cup {None}] /\ cfd' \in [Workers -> Fds \cup {NoFd}]
      BY <1>0, <3>1, <3>2 DEF TypeOK
    <3> QED
      BY <1>0, <1>1, <2>1, <2>3, <3>1, <3>3 DEF Accept, Goto, TypeOK
  <2> QED
    BY <1>1, <2>2, <2>3 DEF Accept
<1>2. CASE RearmListener(w)
  <2>1. "add" \in Points
    BY DEF Points, ListenerPoints
  <2> QED
    BY <1>0, <1>2, <2>1, ZenonT(60) DEF RearmListener, ResetOneshot, Goto, Ctxs, AllFds, TypeOK
<1>3. CASE AddConn(w)
  <2>1. "return" \in Points
    BY DEF Points
  <2>2. CASE cfd[w] = NoFd
    BY <1>0, <1>3, <2>1, <2>2 DEF AddConn, Goto, TypeOK
  <2>3. CASE cfd[w] # NoFd
    <3>1. cfd[w] \in Fds /\ fds[cfd[w]] \in Conns
      BY <1>0, <2>3 DEF IInv, AcceptInv, TypeOK
    <3>2. InitReq \in Requests /\ <<>> \in Seq(Chunks)
      BY DEF InitReq, Requests
    <3>3. heap' \in [Conns -> {"none", "live", "freed"}] /\ fd' \in [Conns -> Fds \cup {NoFd}]
      <4>1. heap' = [heap EXCEPT ![fds[cfd[w]]] = "live"] /\ fd' = [fd EXCEPT ![fds[cfd[w]]] = cfd[w]]
        BY <1>3, <2>3 DEF AddConn
      <4> QED
        BY <1>0, <3>1, <4>1 DEF TypeOK
    <3>4. magic_read' \in [Conns -> BOOLEAN] /\ req' \in [Conns -> Requests] /\ buff' \in [Conns -> Seq(Chunks)]
      <4>1. /\ magic_read' = [magic_read EXCEPT ![fds[cfd[w]]] = FALSE]
            /\ req' = [req EXCEPT ![fds[cfd[w]]] = InitReq]
            /\ buff' = [buff EXCEPT ![fds[cfd[w]]] = <<>>]
        BY <1>3, <2>3 DEF AddConn
      <4> QED
        BY <1>0, <3>2, <4>1 DEF TypeOK
    <3>5. interest' \in [AllFds -> Ctxs \cup {None}] /\ armed' \subseteq AllFds
      <4>1. \/ interest' = [interest EXCEPT ![cfd[w]] = fds[cfd[w]]] /\ armed' = armed \cup {cfd[w]}
            \/ interest' = interest /\ armed' = armed
        BY <1>3, <2>3 DEF AddConn
      <4> QED
        BY <1>0, <3>1, <4>1 DEF AllFds, Ctxs, TypeOK
    <3>6. cfd' \in [Workers -> Fds \cup {NoFd}] /\ wpc' \in [Workers -> Points]
      BY <1>0, <1>3, <2>1 DEF AddConn, Goto, TypeOK
    <3> QED
      BY <1>0, <1>3, <3>3, <3>4, <3>5, <3>6 DEF AddConn, TypeOK
  <2> QED
    BY <2>2, <2>3
<1> QED
  BY <1>1, <1>2, <1>3 DEF LfdCallback

LEMMA CfdType ==
    ASSUME IInv, NEW w \in Workers, CfdCallback(w)
    PROVE  TypeOK'
<1> USE DEF clientVars, epollVars, ctxVars, reactorVars
<1> DEFINE c == holding[w]
<1>0. /\ TypeOK
      /\ {"parse", "rearm", "del", "destroy", "respond", "return"} \subseteq Points
      /\ \A point \in Points : [wpc EXCEPT ![w] = point] \in [Workers -> Points]
  BY DEF IInv, TypeOK, Points, ConnPoints
<1>1. /\ wpc[w] \in ConnPoints /\ c \in Conns /\ fd[c] \in Fds /\ fds[fd[c]] = c
  <2>1. wpc[w] \in ConnPoints
    BY DEF CfdCallback, Fill, NotReady, ReadMagic, ReadRequestLine, ReadArgs, Respond, Rearm, Del,
       Destroy, ConnPoints
  <2> QED
    BY <2>1, InHand
<1>2. CASE Fill(w)
  <2>1. ASSUME \E n \in 1 .. Len(inbox[c]) :
                 /\ buff' = [buff EXCEPT ![c] = @ \o SubSeq(inbox[c], 1, n)]
                 /\ inbox' = [inbox EXCEPT ![c] = SubSeq(@, n + 1, Len(@))]
        PROVE  buff' \in [Conns -> Seq(Chunks)] /\ inbox' \in [Conns -> Seq(Chunks)]
    <3>1. PICK n \in 1 .. Len(inbox[c]) :
               /\ buff' = [buff EXCEPT ![c] = @ \o SubSeq(inbox[c], 1, n)]
               /\ inbox' = [inbox EXCEPT ![c] = SubSeq(@, n + 1, Len(@))]
      BY <2>1
    <3>2. inbox[c] \in Seq(Chunks) /\ buff[c] \in Seq(Chunks)
      BY <1>0, <1>1 DEF TypeOK
    <3>3. SubSeq(inbox[c], 1, n) \in Seq(Chunks) /\ SubSeq(inbox[c], n + 1, Len(inbox[c])) \in Seq(Chunks)
      <4>1. n \in Int /\ n + 1 \in Int /\ Len(inbox[c]) \in Int
        BY <3>2, LenProperties
      <4>2. \A i \in 1 .. Len(inbox[c]) : inbox[c][i] \in Chunks
        BY <3>2, ElementOfSeq
      <4>3. \A i \in 1 .. n : inbox[c][i] \in Chunks
        BY <4>1, <4>2
      <4>4. \A i \in n + 1 .. Len(inbox[c]) : inbox[c][i] \in Chunks
        BY <4>1, <4>2
      <4> HIDE DEF c
      <4> QED
        BY <4>1, <4>3, <4>4, SubSeqProperties
    <3>4. buff[c] \o SubSeq(inbox[c], 1, n) \in Seq(Chunks)
      BY <3>2, <3>3, ConcatProperties
    <3>5. buff \in [Conns -> Seq(Chunks)] /\ inbox \in [Conns -> Seq(Chunks)]
      BY <1>0 DEF TypeOK
    <3>6. buff' \in [Conns -> Seq(Chunks)]
      BY <3>1, <3>4, <3>5, ExceptType
    <3>7. inbox' \in [Conns -> Seq(Chunks)]
      BY <3>1, <3>3, <3>5, ExceptType
    <3> QED
      BY <3>6, <3>7
  <2>2. ASSUME UNCHANGED <<buff, inbox>>
        PROVE  buff' \in [Conns -> Seq(Chunks)] /\ inbox' \in [Conns -> Seq(Chunks)]
    BY <1>0, <2>2 DEF TypeOK
  <2>3. buff' \in [Conns -> Seq(Chunks)] /\ inbox' \in [Conns -> Seq(Chunks)]
    BY <1>1, <1>2, <2>1, <2>2 DEF Fill
  <2>4. wpc' \in [Workers -> Points]
    BY <1>0, <1>2 DEF Fill, Goto
  <2>5. UNCHANGED <<peer, sent, replies, backlog, fds, epollVars, heap, fd, magic_read, req,
                    reactorVars, holding, cfd>>
    BY <1>2 DEF Fill
  <2> QED
    BY <1>0, <2>3, <2>4, <2>5 DEF TypeOK
<1>3. CASE NotReady(w)
  BY <1>0, <1>3 DEF NotReady, Goto, TypeOK
<1>4. ASSUME buff[c] # <<>> PROVE Tail(buff[c]) \in Seq(Chunks) /\ Head(buff[c]) \in Chunks
  BY <1>0, <1>1, <1>4, HeadTailProperties DEF TypeOK
<1>5. CASE ReadMagic(w)
  <2>1. buff' \in [Conns -> Seq(Chunks)] /\ magic_read' \in [Conns -> BOOLEAN]
    <3>1. /\ buff[c] # <<>>
          /\ buff' = buff \/ buff' = [buff EXCEPT ![c] = Tail(buff[c])]
          /\ magic_read' = magic_read \/ magic_read' = [magic_read EXCEPT ![c] = TRUE]
      BY <1>5 DEF ReadMagic
    <3>2. buff \in [Conns -> Seq(Chunks)] /\ magic_read \in [Conns -> BOOLEAN]
      BY <1>0 DEF TypeOK
    <3>3. buff' \in [Conns -> Seq(Chunks)]
      <4>1. PICK r \in Seq(Chunks) : buff' = buff \/ buff' = [buff EXCEPT ![c] = r]
        BY <1>4, <3>1
      <4> QED
        BY <3>2, <4>1, ExceptType
    <3>4. magic_read' \in [Conns -> BOOLEAN]
      BY <3>1, <3>2, ExceptType
    <3> QED
      BY <3>3, <3>4
  <2>2. wpc' \in [Workers -> Points]
    BY <1>0, <1>5 DEF ReadMagic, Goto, TypeOK
  <2> QED
    BY <1>0, <1>5, <2>1, <2>2 DEF ReadMagic, TypeOK
<1>6. CASE ReadRequestLine(w)
  <2>1. buff' \in [Conns -> Seq(Chunks)]
    <3>1. buff[c] # <<>> /\ (buff' = [buff EXCEPT ![c] = Tail(buff[c])] \/ buff' = buff)
      BY <1>6 DEF ReadRequestLine
    <3> QED
      BY <1>0, <1>4, <3>1 DEF TypeOK
  <2>2. req' \in [Conns -> Requests]
    <3>1. Head(buff[c]).seq \in 0 .. MaxReqs
      BY <1>4, <1>6 DEF ReadRequestLine, Chunks
    <3>2. [state |-> "READING_ARGS", seq |-> Head(buff[c]).seq, known |-> Head(buff[c]).kind = "line"]
             \in Requests
      BY <3>1 DEF Requests
    <3>3. \/ req' = [req EXCEPT ![c] = [state |-> "READING_ARGS", seq |-> Head(buff[c]).seq,
                                      known |-> Head(buff[c]).kind = "line"]]
          \/ req' = req
      BY <1>6 DEF ReadRequestLine
    <3> QED
      BY <1>0, <3>2, <3>3, ZenonT(60) DEF TypeOK
  <2>3. wpc' \in [Workers -> Points]
    BY <1>0, <1>6 DEF ReadRequestLine, Goto, TypeOK
  <2> QED
    BY <1>0, <1>6, <2>1, <2>2, <2>3 DEF ReadRequestLine, TypeOK
<1>7. CASE ReadArgs(w)
  <2>1. buff' \in [Conns -> Seq(Chunks)]
    <3>1. buff[c] # <<>> /\ buff' = [buff EXCEPT ![c] = Tail(buff[c])]
      BY <1>7 DEF ReadArgs
    <3> QED
      BY <1>0, <1>4, <3>1 DEF TypeOK
  <2>2. req' \in [Conns -> Requests]
    <3>1. req' = [req EXCEPT ![c].state = "READING_REQUEST_LINE"]
      BY <1>7 DEF ReadArgs
    <3>2. req \in [Conns -> Requests] /\ req[c] \in Requests
      BY <1>0, <1>1 DEF TypeOK
    <3>3. [req[c] EXCEPT !.state = "READING_REQUEST_LINE"] \in Requests
      BY <3>2 DEF Requests
    <3>4. req' = [req EXCEPT ![c] = [req[c] EXCEPT !.state = "READING_REQUEST_LINE"]]
      BY <3>1
    <3> QED
      BY <3>2, <3>3, <3>4, ExceptType
  <2>3. wpc' \in [Workers -> Points]
    BY <1>0, <1>7 DEF ReadArgs, Goto
  <2> QED
    BY <1>0, <1>7, <2>1, <2>2, <2>3 DEF ReadArgs, TypeOK
<1>8. CASE Respond(w)
  <2>1. req[c].seq \in 0 .. MaxReqs /\ InitReq \in Requests /\ replies[c] \in Seq(0 .. MaxReqs)
    BY <1>0, <1>1 DEF TypeOK, Requests, InitReq
  <2>2. replies' \in [Conns -> Seq(0 .. MaxReqs)] /\ req' \in [Conns -> Requests]
    <3>1. /\ replies' = replies \/ replies' = [replies EXCEPT ![c] = Append(replies[c], req[c].seq)]
          /\ req' = req \/ req' = [req EXCEPT ![c] = InitReq]
      BY <1>1, <1>8 DEF Respond
    <3>2. Append(replies[c], req[c].seq) \in Seq(0 .. MaxReqs)
      BY <2>1
    <3>3. replies \in [Conns -> Seq(0 .. MaxReqs)] /\ req \in [Conns -> Requests]
      BY <1>0 DEF TypeOK
    <3>4. replies' \in [Conns -> Seq(0 .. MaxReqs)]
      <4>1. PICK r \in Seq(0 .. MaxReqs) : replies' = replies \/ replies' = [replies EXCEPT ![c] = r]
        BY <3>1, <3>2
      <4> QED
        BY <3>3, <4>1, ExceptType
    <3>5. req' \in [Conns -> Requests]
      BY <2>1, <3>1, <3>3, ExceptType
    <3> QED
      BY <3>4, <3>5
  <2>3. wpc' \in [Workers -> Points]
    BY <1>0, <1>8 DEF Respond, Goto
  <2>4. UNCHANGED <<clientVars, fds, epollVars, heap, fd, magic_read, buff, reactorVars, holding, cfd>>
    BY <1>8 DEF Respond
  <2> QED
    BY <1>0, <2>2, <2>3, <2>4 DEF TypeOK
<1>9. CASE Rearm(w)
  <2>1. interest' \in [AllFds -> Ctxs \cup {None}] /\ armed' \subseteq AllFds
    <3>1. /\ interest' = interest \/ interest' = [interest EXCEPT ![fd[c]] = c]
          /\ armed' = armed \/ armed' = armed \cup {fd[c]}
      BY <1>9 DEF Rearm, ResetOneshot
    <3>2. /\ interest \in [AllFds -> Ctxs \cup {None}] /\ armed \subseteq AllFds
          /\ c \in Ctxs \cup {None} /\ fd[c] \in AllFds
      BY <1>0, <1>1 DEF TypeOK, AllFds, Ctxs
    <3> QED
      BY <3>1, <3>2, ExceptType
  <2> QED
    BY <1>0, <1>9, <2>1 DEF Rearm, Goto, TypeOK
<1>10. CASE Del(w)
  <2>1. interest' \in [AllFds -> Ctxs \cup {None}] /\ armed' \subseteq AllFds
    BY <1>0, <1>10 DEF Del, Forget, TypeOK
  <2> QED
    BY <1>0, <1>10, <2>1 DEF Del, Goto, TypeOK
<1>11. CASE Destroy(w)
  <2>1. interest' \in [AllFds -> Ctxs \cup {None}] /\ armed' \subseteq AllFds
    BY <1>0, <1>11 DEF Destroy, Forget, TypeOK
  <2>2. fds' \in [Fds -> Conns \cup {None}] /\ heap' \in [Conns -> {"none", "live", "freed"}]
    BY <1>0, <1>11 DEF Destroy, TypeOK
  <2> QED
    BY <1>0, <1>11, <2>1, <2>2 DEF Destroy, Goto, TypeOK
<1> QED
  BY <1>2, <1>3, <1>5, <1>6, <1>7, <1>8, <1>9, <1>10, <1>11 DEF CfdCallback

LEMMA TaskType ==
    ASSUME IInv, NEW w \in Workers, Take(w) \/ Return(w) \/ Stop(w)
    PROVE  TypeOK'
<1> USE DEF clientVars, epollVars, ctxVars
<1>0. TypeOK /\ {"idle", "accept", "fill"} \subseteq Points
  BY DEF IInv, Points, ListenerPoints, ConnPoints
<1>1. CASE Take(w)
  <2>1. Head(queue) \in Ctxs /\ Tail(queue) \in Seq(Ctxs)
    BY <1>0, <1>1, HeadTailProperties DEF Take, Pool!Take, TypeOK
  <2>2. holding' \in [Workers -> Ctxs \cup {None}] /\ wpc' \in [Workers -> Points]
    BY <1>0, <1>1, <2>1 DEF Take, Pool!Take, Goto, TypeOK
  <2> QED
    BY <1>0, <1>1, <2>1, <2>2 DEF Take, Pool!Take, TypeOK
<1>2. CASE Return(w)
  BY <1>0, <1>2 DEF Return, Pool!Finish, Goto, TypeOK
<1>3. CASE Stop(w)
  BY <1>0, <1>3 DEF Stop, Pool!Stop, TypeOK
<1> QED
  BY <1>1, <1>2, <1>3

LEMMA TypeNext ==
    ASSUME IInv, [Next]_vars
    PROVE  TypeOK'
<1>0. TypeOK /\ EpollInv
  BY DEF IInv
<1>1. CASE UNCHANGED vars
  BY <1>0, <1>1 DEF vars, TypeOK
<1>2. ASSUME NEW w \in Workers, WorkerStep(w) PROVE TypeOK'
  BY <1>2, LfdType, CfdType, TaskType DEF WorkerStep
<1> QED
  BY <1>0, <1>1, <1>2, ClientType, ReactorType DEF Next

-----------------------------------------------------------------------------
(* Where contexts are. *)

\* What IInv says besides the types.
Placed ==
    /\ HoldInv
    /\ EpollInv
    /\ RegisteredInv
    /\ AcceptInv
    /\ FreshInv
    /\ EventInv
    /\ OneHolder
    /\ NoUseAfterFree
    /\ FdInv
    /\ NotStranded

\* A context is registered with one descriptor, its own.
LEMMA RegisteredOnce ==
    ASSUME IInv
    PROVE  /\ \A f \in armed : f \in AllFds /\ interest[f] \in Ctxs
           /\ \A f \in armed : interest[f] = Listener => f = Lfd
           /\ \A f \in armed : interest[f] \in Conns =>
                 f \in Fds /\ fd[interest[f]] = f /\ fds[f] = interest[f]
           /\ \A f, g \in armed : interest[f] = interest[g] => f = g
<1>1. \A f \in armed : f \in AllFds /\ interest[f] # None /\ interest[f] \in Ctxs
  BY DEF IInv, TypeOK, EpollInv
<1>2. \A f \in armed : f = Lfd => interest[f] = Listener
  BY <1>1 DEF IInv, EpollInv
<1>3. \A f \in armed : f \in Fds => interest[f] \in Conns /\ fd[interest[f]] = f /\ fds[f] = interest[f]
  BY <1>1 DEF IInv, FdInv
<1> QED
  BY <1>1, <1>2, <1>3 DEF AllFds, Ctxs

\* The context registered with the descriptor of a context in hand is that context,
\* and it is not enabled.
LEMMA OwnRegistration ==
    ASSUME IInv, NEW w \in Workers, wpc[w] \in ConnPoints
    PROVE  /\ interest[fd[holding[w]]] \in {holding[w], None}
           /\ fd[holding[w]] \notin armed
           /\ \A d \in Conns : heap[d] = "live" /\ d # holding[w] => fd[d] # fd[holding[w]]
<1>1. /\ holding[w] \in Conns /\ fd[holding[w]] \in Fds /\ fds[fd[holding[w]]] = holding[w]
      /\ holding[w] \notin Armed
  BY InHand
<1>2. interest[fd[holding[w]]] \in {holding[w], None}
  BY <1>1 DEF IInv, FdInv
<1>3. fd[holding[w]] \notin armed
  BY <1>1, <1>2 DEF IInv, EpollInv, Armed
<1>4. \A d \in Conns : heap[d] = "live" => fds[fd[d]] = d
  BY DEF IInv, FdInv
<1> QED
  BY <1>1, <1>2, <1>3, <1>4

\* A step that leaves every context where it is: workers move inside cfd_callback, and
\* nothing is read from a connection whose event is still to be handled.
QuietMove ==
    \A w \in Workers :
        \/ wpc'[w] = wpc[w]
        \/ wpc[w] \in ConnPoints \ {"destroy"} /\ wpc'[w] \in ConnPoints \ {"destroy"}
QuietRead ==
    /\ \A d \in batch \cup Queued : d \in Conns /\ Readable(d) => Readable(d)'
    /\ \A w \in Workers : wpc'[w] = "fill" => wpc[w] = "fill" /\ Readable(holding[w])'

LEMMA QuietStep ==
    ASSUME IInv, TypeOK', UNCHANGED coreVars, QuietMove, QuietRead
    PROVE  Placed'
<1> USE DEF coreVars, QuietMove, QuietRead
<1>1. HoldInv'
  BY DEF IInv, HoldInv, ConnPoints, ListenerPoints
<1>2. EpollInv' /\ FreshInv' /\ FdInv'
  BY DEF IInv, EpollInv, FreshInv, InBacklog, FdInv, LfdOpen
<1>3. RegisteredInv'
  BY DEF IInv, RegisteredInv, EpollOpen
<1>4. AcceptInv'
  BY DEF IInv, AcceptInv, ConnPoints
<1>5. \A w \in Workers : Using(w)' <=> Using(w)
  BY DEF Using
<1>6. Armed' = Armed /\ Queued' = Queued /\ Used' = Used
  BY <1>5 DEF Armed, Queued, Used
<1>7. OneHolder'
  BY <1>5, <1>6 DEF IInv, OneHolder
<1>8. NoUseAfterFree' /\ NotStranded'
  BY <1>6 DEF IInv, NoUseAfterFree, NotStranded
<1>9. EventInv'
  BY <1>6 DEF IInv, EventInv, LfdOpen, ConnPoints
<1> QED
  BY <1>1, <1>2, <1>3, <1>4, <1>7, <1>8, <1>9 DEF Placed

LEMMA QuietActions ==
    ASSUME IInv, TypeOK', NEW w \in Workers,
           Fill(w) \/ NotReady(w) \/ ReadMagic(w) \/ ReadRequestLine(w) \/ ReadArgs(w) \/ Respond(w)
    PROVE  Placed'
<1> DEFINE c == holding[w]
<1>0. TypeOK
  BY DEF IInv
<1>1. /\ wpc[w] \in {"fill", "parse", "respond"} /\ wpc[w] \in ConnPoints
      /\ wpc' = wpc \/ \E point \in ConnPoints \ {"destroy", "fill"} : wpc' = [wpc EXCEPT ![w] = point]
  BY DEF Fill, NotReady, ReadMagic, ReadRequestLine, ReadArgs, Respond, Goto, ConnPoints
<1>2. UNCHANGED coreVars
  BY DEF Fill, NotReady, ReadMagic, ReadRequestLine, ReadArgs, Respond, coreVars, clientVars, epollVars,
     ctxVars, reactorVars
<1>3. /\ c \in Conns /\ fds[fd[c]] = c /\ c \notin batch \cup Queued
      /\ \A v \in Workers : Using(v) /\ holding[v] = c => v = w
  BY <1>1, InHand
<1>4. \A v \in Workers : \/ wpc'[v] = wpc[v]
                         \/ wpc[v] \in ConnPoints \ {"destroy"} /\ wpc'[v] \in ConnPoints \ {"destroy"}
  BY <1>0, <1>1 DEF TypeOK
<1>5. \A d \in Conns : d # c => inbox'[d] = inbox[d]
  BY <1>0, <1>3 DEF Fill, NotReady, ReadMagic, ReadRequestLine, ReadArgs, Respond, clientVars, TypeOK
<1>6. \A d \in batch \cup Queued : d \in Conns /\ Readable(d) => Readable(d)'
  BY <1>2, <1>3, <1>5 DEF Readable, coreVars
<1>7. \A v \in Workers : wpc'[v] = "fill" => wpc[v] = "fill" /\ Readable(holding[v])'
  <2> SUFFICES ASSUME NEW v \in Workers, wpc'[v] = "fill"
               PROVE  wpc[v] = "fill" /\ Readable(holding[v])'
    OBVIOUS
  <2>1. wpc[v] = "fill"
    BY <1>0, <1>1 DEF TypeOK
  <2>2. holding[v] \in Conns /\ Readable(holding[v]) /\ Using(v)
    BY <2>1 DEF IInv, HoldInv, EventInv, Using, ConnPoints
  <2>3. CASE v = w
    <3>1. wpc[w] = "fill" /\ wpc'[w] = "fill"
      BY <2>1, <2>3
    <3>2. Fill(w)
      BY <3>1 DEF NotReady, ReadMagic, ReadRequestLine, ReadArgs, Respond
    <3>3. wpc' = [wpc EXCEPT ![w] = "parse"] \/ wpc' = [wpc EXCEPT ![w] = "del"]
      BY <3>2 DEF Fill, Goto
    <3> QED
      BY <1>0, <3>1, <3>3 DEF TypeOK
  <2>4. CASE v # w
    <3>1. holding[v] # c
      BY <1>3, <2>2, <2>4
    <3>2. inbox'[holding[v]] = inbox[holding[v]] /\ peer' = peer /\ holding' = holding
      BY <1>2, <1>5, <2>2, <3>1 DEF coreVars
    <3> QED
      BY <2>1, <2>2, <3>2 DEF Readable
  <2> QED
    BY <2>3, <2>4
<1>8. QuietMove /\ QuietRead
  BY <1>4, <1>6, <1>7 DEF QuietMove, QuietRead
<1> QED
  BY <1>2, <1>8, QuietStep

LEMMA ClientPlaced ==
    ASSUME IInv, TypeOK', NEW c \in Conns, ClientStep(c)
    PROVE  Placed'
<1> USE DEF reactorVars, epollVars, ctxVars
<1>0. TypeOK
  BY DEF IInv
<1>1. /\ UNCHANGED <<fds, interest, armed, heap, fd, reactor, batch, queue, holding, closed, stopped, wpc, cfd>>
      /\ peer[c] = "new" \/ peer[c] = "open"
  BY DEF ClientStep, Connect, Send, Close, Reset
<1>2. Armed' = Armed /\ Queued' = Queued /\ Used' = Used /\ \A w \in Workers : Using(w)' <=> Using(w)
  BY <1>1 DEF Armed, Queued, Used, Using
<1>3. HoldInv' /\ EpollInv' /\ FdInv' /\ AcceptInv'
  BY <1>1 DEF IInv, HoldInv, EpollInv, FdInv, AcceptInv, LfdOpen
<1>4. OneHolder' /\ NoUseAfterFree' /\ NotStranded' /\ RegisteredInv'
  BY <1>1, <1>2 DEF IInv, OneHolder, NoUseAfterFree, NotStranded, RegisteredInv, EpollOpen
<1>5. FreshInv'
  <2>1. CASE Connect(c)
    <3>1. peer[c] = "new" /\ c \notin InBacklog /\ peer' = [peer EXCEPT ![c] = "open"] /\ backlog' = Append(backlog, c)
      BY <2>1 DEF Connect, IInv, FreshInv
    <3>2. backlog \in Seq(Conns)
      BY <1>0 DEF TypeOK
    <3>3. InBacklog' = InBacklog \cup {c}
      BY <3>1, <3>2, AppendElements DEF InBacklog
    <3>4. \A i, j \in DOMAIN backlog' : backlog'[i] = backlog'[j] => i = j
      BY <3>1, <3>2, AppendElements DEF InBacklog, IInv, FreshInv
    <3>5. \A d \in Conns : peer'[d] # "new" <=> peer[d] # "new" \/ d = c
      BY <1>0, <3>1 DEF TypeOK
    <3>6. InBacklog \subseteq Conns
      BY <3>2, ElementOfSeq, LenProperties DEF InBacklog
    <3> QED
      BY <1>1, <3>1, <3>3, <3>4, <3>5, <3>6 DEF IInv, FreshInv
  <2>2. CASE Send(c) \/ Close(c) \/ Reset(c)
    <3>1. backlog' = backlog /\ InBacklog' = InBacklog
      BY <2>2 DEF Send, Close, Reset, InBacklog
    <3>2. \A d \in Conns : peer'[d] # "new" <=> peer[d] # "new"
      BY <1>0, <2>2 DEF TypeOK, Send, Close, Reset
    <3>3. InBacklog \subseteq Conns
      <4>1. backlog \in Seq(Conns)
        BY <1>0 DEF TypeOK
      <4> QED
        BY <4>1, ElementOfSeq, LenProperties DEF InBacklog
    <3> QED
      BY <1>1, <3>1, <3>2, <3>3 DEF IInv, FreshInv
  <2> QED
    BY <2>1, <2>2 DEF ClientStep
<1>6. EventInv'
  <2>1. \A d \in Conns : Readable(d) => Readable(d)'
    <3> SUFFICES ASSUME NEW d \in Conns, Readable(d) PROVE Readable(d)'
      OBVIOUS
    <3>1. CASE Connect(c)
      BY <1>0, <3>1 DEF Connect, Readable, TypeOK
    <3>2. CASE Send(c)
      <4>1. inbox[c] \in Seq(Chunks) /\ peer' = peer
        BY <1>0, <3>2 DEF TypeOK, Send
      <4>2. \E k \in Chunks : inbox' = [inbox EXCEPT ![c] = Append(inbox[c], k)]
        BY <1>0, <3>2, SendChunk
      <4>3. \E k \in Chunks : inbox'[c] = Append(inbox[c], k)
        BY <1>0, <4>2 DEF TypeOK
      <4>4. inbox'[c] # <<>>
        <5>1. PICK k \in Chunks : inbox'[c] = Append(inbox[c], k)
          BY <4>3
        <5>2. Append(inbox[c], k) # <<>>
          BY <4>1, AppendProperties
        <5> QED
          BY <5>1, <5>2
      <4>5. d # c => inbox'[d] = inbox[d]
        BY <1>0, <4>2 DEF TypeOK
      <4> QED
        BY <4>1, <4>4, <4>5 DEF Readable
    <3>3. CASE Close(c) \/ Reset(c)
      BY <1>0, <3>3 DEF Close, Reset, Readable, TypeOK
    <3> QED
      BY <3>1, <3>2, <3>3 DEF ClientStep
  <2>2. backlog # <<>> => backlog' # <<>>
    <3>1. backlog \in Seq(Conns) /\ (backlog' = backlog \/ backlog' = Append(backlog, c))
      BY <1>0 DEF TypeOK, ClientStep, Connect, Send, Close, Reset
    <3> QED
      BY <3>1
  <2>3. \A w \in Workers : wpc[w] = "fill" => holding[w] \in Conns
    BY DEF IInv, HoldInv, ConnPoints
  <2> QED
    BY <1>1, <1>2, <2>1, <2>2, <2>3 DEF IInv, EventInv, LfdOpen
<1> QED
  BY <1>3, <1>4, <1>5, <1>6 DEF Placed

LEMMA EpollWaitPlaced ==
    ASSUME IInv, EpollWait
    PROVE  Placed'
<1> USE DEF clientVars, epollVars, ctxVars
<1>1. PICK S \in SUBSET {f \in armed : Ready(f)} : batch' = {interest[f] : f \in S} /\ armed' = armed \ S
  BY DEF EpollWait
<1>2. /\ UNCHANGED <<peer, inbox, backlog, fds, interest, heap, fd, reactor, queue, holding, wpc, cfd>>
      /\ batch = {}
  BY DEF EpollWait
<1>3. /\ Armed' \cap batch' = {} /\ Armed' \cup batch' = Armed \cup batch
      /\ Queued' = Queued /\ Used' = Used /\ \A w \in Workers : Using(w)' <=> Using(w)
  <2>1. Armed' = {interest[f] : f \in armed \ S}
    BY <1>1, <1>2 DEF Armed
  <2>2. Armed' \cap batch' = {}
    BY <1>1, <2>1, RegisteredOnce
  <2>3. Armed' \cup batch' = Armed \cup batch
    BY <1>1, <1>2, <2>1 DEF Armed
  <2>4. Queued' = Queued /\ Used' = Used /\ \A w \in Workers : Using(w)' <=> Using(w)
    BY <1>2 DEF Queued, Used, Using
  <2> QED
    BY <2>2, <2>3, <2>4
<1>4. HoldInv' /\ RegisteredInv' /\ AcceptInv' /\ FreshInv' /\ FdInv'
  BY <1>2 DEF IInv, HoldInv, RegisteredInv, AcceptInv, FreshInv, InBacklog, FdInv, EpollOpen
<1>5. EpollInv'
  BY <1>1, <1>2 DEF IInv, EpollInv, LfdOpen
<1>6. OneHolder'
  BY <1>2, <1>3 DEF IInv, OneHolder
<1>7. NoUseAfterFree' /\ NotStranded'
  <2>1. (Armed \cup batch \cup Queued \cup Used)' = Armed \cup batch \cup Queued \cup Used
    BY <1>3
  <2> QED
    BY <1>2, <2>1 DEF IInv, NoUseAfterFree, NotStranded
<1>8. EventInv'
  <2>1. Listener \in batch' => backlog # <<>>
    BY <1>1, RegisteredOnce DEF Ready
  <2>2. \A c \in Conns : c \in batch' => Readable(c)
    <3> SUFFICES ASSUME NEW c \in Conns, c \in batch' PROVE Readable(c)
      OBVIOUS
    <3>1. PICK f \in S : c = interest[f]
      BY <1>1
    <3>2. f \in Fds /\ fds[f] = c /\ Ready(f)
      BY <1>1, <3>1, RegisteredOnce
    <3> QED
      BY <3>2 DEF Ready
  <2>3. \A c \in Conns : Readable(c)' <=> Readable(c)
    BY <1>2 DEF Readable
  <2>4. \A w \in Workers : wpc[w] = "fill" => holding[w] \in Conns
    BY DEF IInv, HoldInv, ConnPoints
  <2> QED
    BY <1>2, <1>3, <2>1, <2>2, <2>3, <2>4 DEF IInv, EventInv, LfdOpen
<1> QED
  BY <1>4, <1>5, <1>6, <1>7, <1>8 DEF Placed

LEMMA PutPlaced ==
    ASSUME IInv, NEW x \in batch, ReactorPut(x)
    PROVE  Placed'
<1> USE DEF clientVars, epollVars, ctxVars
<1>1. /\ UNCHANGED <<peer, inbox, backlog, fds, interest, armed, heap, fd, reactor, holding, wpc, cfd>>
      /\ batch' = batch \ {x} /\ queue' = Append(queue, x)
  BY DEF ReactorPut, Pool!Put
<1>2. queue \in Seq(Ctxs) /\ x \in Ctxs
  BY DEF IInv, TypeOK
<1>3. /\ Queued' = Queued \cup {x} /\ Armed' = Armed /\ Used' = Used
      /\ \A w \in Workers : Using(w)' <=> Using(w)
  BY <1>1, <1>2, AppendElements DEF Queued, Armed, Used, Using
<1>4. HoldInv' /\ EpollInv' /\ RegisteredInv' /\ AcceptInv' /\ FreshInv' /\ FdInv'
  BY <1>1 DEF IInv, HoldInv, EpollInv, RegisteredInv, AcceptInv, FreshInv, InBacklog, FdInv, EpollOpen,
     LfdOpen
<1>5. OneHolder'
  <2>1. x \notin Queued /\ \A i, j \in DOMAIN queue : queue[i] = queue[j] => i = j
    BY DEF IInv, OneHolder
  <2>2. \A i, j \in DOMAIN queue' : queue'[i] = queue'[j] => i = j
    BY <1>1, <1>2, <2>1, AppendElements DEF Queued
  <2> QED
    BY <1>1, <1>3, <2>1, <2>2 DEF IInv, OneHolder
<1>6. NoUseAfterFree' /\ NotStranded'
  BY <1>1, <1>3 DEF IInv, NoUseAfterFree, NotStranded
<1>7. EventInv'
  <2>1. \A c \in Conns : Readable(c)' <=> Readable(c)
    BY <1>1 DEF Readable
  <2>2. \A w \in Workers : wpc[w] = "fill" => holding[w] \in Conns
    BY DEF IInv, HoldInv, ConnPoints
  <2> QED
    BY <1>1, <1>3, <2>1, <2>2 DEF IInv, EventInv, LfdOpen
<1> QED
  BY <1>4, <1>5, <1>6, <1>7 DEF Placed

\* The other steps of the reactor take contexts away or leave them where they are, and
\* those that take them away are about to stop the server or are the skipped events.
LEMMA ReactorPlaced ==
    ASSUME IInv, ReactorStep
    PROVE  Placed'
<1> USE DEF clientVars, epollVars, ctxVars
<1>0. TypeOK /\ HoldInv
  BY DEF IInv
<1>1. CASE EpollWait \/ \E x \in batch : ReactorPut(x)
  BY <1>1, EpollWaitPlaced, PutPlaced
<1>2. CASE \/ EpollFails \/ CloseListener \/ CloseEpoll \/ DestroyPool \/ FreeServer
           \/ \E x \in batch : ReactorSkip(x)
  <2>1. /\ UNCHANGED <<peer, inbox, fds, heap, fd, queue, holding, wpc, cfd>>
        /\ batch' \subseteq batch /\ armed' \subseteq armed
        /\ \A f \in AllFds : interest'[f] = interest[f] \/ interest'[f] = None
        /\ \A f \in armed' : interest'[f] = interest[f]
    BY <1>0, <1>2 DEF EpollFails, CloseListener, CloseEpoll, DestroyPool, FreeServer, ReactorSkip, Forget,
       Pool!Close, TypeOK
  <2>2. /\ LfdOpen' => LfdOpen /\ backlog' = backlog /\ interest'[Lfd] = interest[Lfd]
        /\ EpollOpen' => EpollOpen /\ \A f \in Fds : interest'[f] = interest[f]
        /\ backlog' = backlog \/ backlog' = <<>>
    BY <1>0, <1>2 DEF EpollFails, CloseListener, CloseEpoll, DestroyPool, FreeServer, ReactorSkip, Forget,
       Pool!Close, TypeOK, LfdOpen, EpollOpen, AllFds
  <2>3. "no_epollin" \in Faults \/ reactor' # "loop"
    BY <1>2 DEF EpollFails, CloseListener, CloseEpoll, DestroyPool, FreeServer, ReactorSkip
  <2>4. /\ Armed' \subseteq Armed /\ Queued' = Queued /\ Used' = Used
        /\ \A w \in Workers : Using(w)' <=> Using(w)
    BY <2>1 DEF Armed, Queued, Used, Using
  <2>5. HoldInv' /\ NotStranded'
    BY <1>0, <2>1, <2>3 DEF HoldInv, NotStranded
  <2>6. EpollInv'
    BY <1>0, <2>1, <2>2 DEF IInv, EpollInv, AllFds
  <2>7. RegisteredInv'
    <3>1. \A c \in Conns : heap[c] = "live" => fd[c] \in Fds
      BY DEF IInv, FdInv
    <3> QED
      BY <2>1, <2>2, <3>1 DEF IInv, RegisteredInv
  <2>8. AcceptInv'
    <3>1. \A w \in Workers : cfd[w] # NoFd => cfd[w] \in AllFds
      BY <1>0 DEF TypeOK, AllFds
    <3> QED
      BY <2>1, <3>1 DEF IInv, AcceptInv
  <2>9. FreshInv'
    <3>1. CASE backlog' = backlog
      BY <2>1, <3>1 DEF IInv, FreshInv, InBacklog
    <3>2. CASE backlog' = <<>>
      <4>1. DOMAIN backlog' = {}
        BY <3>2
      <4>2. InBacklog' = {}
        BY <4>1 DEF InBacklog
      <4> QED
        BY <2>1, <4>1, <4>2 DEF IInv, FreshInv
    <3> QED
      BY <2>2, <3>1, <3>2
  <2>10. EventInv'
    <3>1. \A c \in Conns : Readable(c)' <=> Readable(c)
      BY <2>1 DEF Readable
    <3>2. \A w \in Workers : wpc[w] = "fill" => holding[w] \in Conns
      BY <1>0 DEF HoldInv, ConnPoints
    <3> QED
      BY <2>1, <2>2, <2>4, <3>1, <3>2 DEF IInv, EventInv
  <2>11. OneHolder'
    BY <2>1, <2>4 DEF IInv, OneHolder
  <2>12. NoUseAfterFree'
    BY <2>1, <2>4 DEF IInv, NoUseAfterFree
  <2>13. FdInv'
    <3>1. \A f \in Fds : interest'[f] # None => interest'[f] = interest[f]
      BY <2>1 DEF AllFds
    <3> QED
      BY <2>1, <3>1 DEF IInv, FdInv
  <2> QED
    BY <2>5, <2>6, <2>7, <2>8, <2>9, <2>10, <2>11, <2>12, <2>13 DEF Placed
<1> QED
  BY <1>1, <1>2 DEF ReactorStep

LEMMA TakePlaced ==
    ASSUME IInv, NEW w \in Workers, Take(w)
    PROVE  Placed'
<1> USE DEF clientVars, epollVars, ctxVars
<1> DEFINE x == Head(queue)
<1>0. TypeOK /\ HoldInv
  BY DEF IInv
<1>1. /\ UNCHANGED <<peer, inbox, backlog, fds, interest, armed, heap, fd, reactor, batch, cfd>>
      /\ queue # <<>> /\ queue' = Tail(queue)
      /\ holding' = [holding EXCEPT ![w] = x]
      /\ wpc[w] = "idle" /\ wpc' = [wpc EXCEPT ![w] = IF x = Listener THEN "accept" ELSE "fill"]
  BY DEF Take, Pool!Take, Goto
<1>2. queue \in Seq(Ctxs) /\ x \in Ctxs
  BY <1>0, <1>1, HeadTailProperties DEF TypeOK
<1>3. /\ Queued = Queued' \cup {x} /\ x \notin Queued'
      /\ \A i, j \in DOMAIN queue' : queue'[i] = queue'[j] => i = j
  <2>1. \A i, j \in DOMAIN queue : queue[i] = queue[j] => i = j
    BY DEF IInv, OneHolder
  <2>2. /\ {queue[i] : i \in DOMAIN queue} = {Tail(queue)[i] : i \in DOMAIN Tail(queue)} \cup {Head(queue)}
        /\ Head(queue) \notin {Tail(queue)[i] : i \in DOMAIN Tail(queue)}
        /\ \A i, j \in DOMAIN Tail(queue) : Tail(queue)[i] = Tail(queue)[j] => i = j
    BY <1>1, <1>2, <2>1, TailElements
  <2> QED
    BY <1>1, <2>2, ZenonT(60) DEF Queued
<1>4. /\ holding'[w] = x /\ wpc'[w] \in {"accept", "fill"} /\ (wpc'[w] = "accept" <=> x = Listener)
      /\ \A v \in Workers : v # w => holding'[v] = holding[v] /\ wpc'[v] = wpc[v]
  BY <1>0, <1>1 DEF TypeOK
<1>5. ~Using(w) /\ Using(w)' /\ \A v \in Workers : v # w => (Using(v)' <=> Using(v))
  BY <1>1, <1>4 DEF Using, ConnPoints
<1>6. Used' = Used \cup {x} /\ Armed' = Armed
  <2>1. Armed' = Armed
    BY <1>1 DEF Armed
  <2>2. \A v \in Workers : Using(v)' <=> Using(v) \/ v = w
    BY <1>5
  <2>3. \A y : y \in Used' <=> \E v \in Workers : Using(v)' /\ holding'[v] = y
    BY DEF Used
  <2>4. \A y : y \in Used <=> \E v \in Workers : Using(v) /\ holding[v] = y
    BY DEF Used
  <2> QED
    BY <1>4, <1>5, <2>1, <2>2, <2>3, <2>4
<1>7. HoldInv'
  BY <1>0, <1>2, <1>4 DEF HoldInv, Ctxs, ConnPoints, ListenerPoints
<1>8. EpollInv' /\ FreshInv' /\ FdInv'
  BY <1>1 DEF IInv, EpollInv, FreshInv, InBacklog, FdInv, LfdOpen
<1>9. RegisteredInv'
  BY <1>1, <1>4 DEF IInv, RegisteredInv, EpollOpen
<1>10. AcceptInv'
  BY <1>1, <1>4 DEF IInv, AcceptInv
<1>11. OneHolder'
  <2>1. x \in Queued /\ x \notin Armed \cup batch \cup Used
    BY <1>3 DEF IInv, OneHolder
  <2>2. \A v \in Workers : Using(v) => holding[v] # x
    BY <2>1 DEF Used
  <2> QED
    BY <1>1, <1>3, <1>4, <1>5, <1>6, <2>1, <2>2 DEF IInv, OneHolder
<1>12. NoUseAfterFree' /\ NotStranded'
  BY <1>1, <1>3, <1>6 DEF IInv, NoUseAfterFree, NotStranded
<1>13. EventInv'
  <2>1. \A c \in Conns : Readable(c)' <=> Readable(c)
    BY <1>1 DEF Readable
  <2>2. \A v \in Workers : wpc[v] = "fill" => holding[v] \in Conns
    BY <1>0 DEF HoldInv, ConnPoints
  <2>3. x # Listener => x \in Conns
    BY <1>2 DEF Ctxs
  <2> QED
    BY <1>1, <1>3, <1>4, <2>1, <2>2, <2>3 DEF IInv, EventInv, LfdOpen
<1> QED
  BY <1>7, <1>8, <1>9, <1>10, <1>11, <1>12, <1>13 DEF Placed

LEMMA ReturnPlaced ==
    ASSUME IInv, NEW w \in Workers, Return(w)
    PROVE  Placed'
<1> USE DEF clientVars, epollVars, ctxVars
<1>0. TypeOK /\ HoldInv
  BY DEF IInv
<1>1. /\ UNCHANGED <<peer, inbox, backlog, fds, interest, armed, heap, fd, reactor, batch, queue, cfd>>
      /\ holding' = [holding EXCEPT ![w] = None]
      /\ wpc[w] = "return" /\ wpc' = [wpc EXCEPT ![w] = "idle"]
  BY DEF Return, Pool!Finish, Goto
<1>2. /\ holding'[w] = None /\ wpc'[w] = "idle"
      /\ \A v \in Workers : v # w => holding'[v] = holding[v] /\ wpc'[v] = wpc[v]
  BY <1>0, <1>1 DEF TypeOK
<1>3. ~Using(w) /\ \A v \in Workers : (Using(v)' <=> Using(v)) /\ (Using(v) => holding'[v] = holding[v])
  BY <1>1, <1>2 DEF Using, ConnPoints
<1>4. Used' = Used /\ Armed' = Armed /\ Queued' = Queued
  BY <1>1, <1>3 DEF Used, Armed, Queued
<1>5. HoldInv'
  BY <1>0, <1>2 DEF HoldInv, ConnPoints, ListenerPoints
<1>6. EpollInv' /\ FreshInv' /\ FdInv'
  BY <1>1 DEF IInv, EpollInv, FreshInv, InBacklog, FdInv, LfdOpen
<1>7. RegisteredInv' /\ AcceptInv'
  BY <1>1, <1>2 DEF IInv, RegisteredInv, AcceptInv, EpollOpen
<1>8. OneHolder' /\ NoUseAfterFree' /\ NotStranded'
  BY <1>1, <1>3, <1>4 DEF IInv, OneHolder, NoUseAfterFree, NotStranded
<1>9. EventInv'
  <2>1. \A c \in Conns : Readable(c)' <=> Readable(c)
    BY <1>1 DEF Readable
  <2>2. \A v \in Workers : wpc[v] = "fill" => holding[v] \in Conns
    BY <1>0 DEF HoldInv, ConnPoints
  <2> QED
    BY <1>1, <1>2, <1>4, <2>1, <2>2 DEF IInv, EventInv, LfdOpen
<1> QED
  BY <1>5, <1>6, <1>7, <1>8, <1>9 DEF Placed

LEMMA StopPlaced ==
    ASSUME IInv, TypeOK', NEW w \in Workers, Stop(w)
    PROVE  Placed'
<1>1. UNCHANGED coreVars /\ wpc' = wpc /\ inbox' = inbox
  BY DEF Stop, Pool!Stop, coreVars, clientVars, epollVars, ctxVars
<1>2. QuietMove
  BY <1>1 DEF QuietMove
<1>3. QuietRead
  <2>1. \A v \in Workers : wpc[v] = "fill" => holding[v] \in Conns /\ Readable(holding[v])
    BY DEF IInv, HoldInv, EventInv, ConnPoints
  <2>2. UNCHANGED <<peer, inbox, holding>>
    BY <1>1 DEF coreVars
  <2> QED
    BY <1>1, <2>1, <2>2 DEF QuietRead, Readable
<1> QED
  BY <1>1, <1>2, <1>3, QuietStep

-----------------------------------------------------------------------------
(* lfd_callback *)

\* What a worker has in hand before the listening socket is enabled again.
LEMMA ListenerInHand ==
    ASSUME IInv, NEW w \in Workers, wpc[w] \in {"accept", "rearm_listener"}
    PROVE  /\ holding[w] = Listener /\ Using(w)
           /\ Listener \notin Armed \cup batch \cup Queued
           /\ \A v \in Workers : Using(v) /\ holding[v] = Listener => v = w
<1>1. holding[w] = Listener /\ Using(w) /\ Listener \in Used
  BY DEF IInv, HoldInv, ListenerPoints, Using, Used
<1> QED
  BY <1>1 DEF IInv, OneHolder

LEMMA AcceptPlaced ==
    ASSUME IInv, NEW w \in Workers, Accept(w)
    PROVE  Placed'
<1> USE DEF epollVars, ctxVars, reactorVars
<1>0. TypeOK /\ HoldInv /\ AcceptInv
  BY DEF IInv
<1>1. /\ UNCHANGED <<peer, inbox, interest, armed, heap, fd, reactor, batch, queue, holding>>
      /\ wpc[w] = "accept" /\ wpc' = [wpc EXCEPT ![w] = "rearm_listener"]
  BY DEF Accept, Goto
<1>2. /\ wpc'[w] = "rearm_listener"
      /\ \A v \in Workers : v # w => wpc'[v] = wpc[v] /\ cfd'[v] = cfd[v]
      /\ cfd[w] = NoFd
  <2>1. cfd' = [cfd EXCEPT ![w] = NoFd] \/ \E f \in Fds : cfd' = [cfd EXCEPT ![w] = f]
    BY DEF Accept, FreeFds
  <2>2. cfd[w] = NoFd
    BY <1>0, <1>1 DEF AcceptInv
  <2>3. \A v \in Workers : v # w => cfd'[v] = cfd[v]
    BY <1>0, <2>1 DEF TypeOK
  <2>4. wpc'[w] = "rearm_listener" /\ \A v \in Workers : v # w => wpc'[v] = wpc[v]
    BY <1>0, <1>1 DEF TypeOK
  <2> QED
    BY <2>2, <2>3, <2>4
<1>3. \A v \in Workers : Using(v)' <=> Using(v)
  BY <1>1, <1>2 DEF Using
<1>4. Armed' = Armed /\ Queued' = Queued /\ Used' = Used
  BY <1>1, <1>3 DEF Armed, Queued, Used
<1>5. HoldInv' /\ EpollInv' /\ RegisteredInv'
  BY <1>0, <1>1, <1>2 DEF IInv, HoldInv, EpollInv, RegisteredInv, LfdOpen, EpollOpen, ListenerPoints,
     ConnPoints
<1>6. OneHolder' /\ NoUseAfterFree' /\ NotStranded'
  BY <1>1, <1>3, <1>4 DEF IInv, OneHolder, NoUseAfterFree, NotStranded
<1>7. EventInv'
  <2>1. Listener \notin batch \cup Queued /\ \A v \in Workers : wpc'[v] # "accept"
    <3>1. \A v \in Workers : wpc[v] = "accept" => v = w
      BY <1>0, <1>1, ListenerInHand
    <3> QED
      BY <1>1, <1>2, <3>1, ListenerInHand
  <2>2. \A c \in Conns : Readable(c)' <=> Readable(c)
    BY <1>1 DEF Readable
  <2>3. \A v \in Workers : wpc[v] = "fill" => holding[v] \in Conns
    BY <1>0 DEF HoldInv, ConnPoints
  <2> QED
    BY <1>1, <1>2, <1>4, <2>1, <2>2, <2>3 DEF IInv, EventInv
<1>8. CASE cfd' = [cfd EXCEPT ![w] = NoFd] /\ UNCHANGED <<backlog, fds>>
  <2>1. cfd'[w] = NoFd
    BY <1>0, <1>8 DEF TypeOK
  <2>2. FreshInv' /\ FdInv'
    BY <1>1, <1>8 DEF IInv, FreshInv, InBacklog, FdInv
  <2>3. AcceptInv'
    BY <1>0, <1>1, <1>2, <1>8, <2>1 DEF AcceptInv
  <2> QED
    BY <1>5, <1>6, <1>7, <2>2, <2>3 DEF Placed
<1>9. ASSUME backlog # <<>>, backlog' = Tail(backlog), NEW f \in FreeFds,
             fds' = [fds EXCEPT ![f] = Head(backlog)], cfd' = [cfd EXCEPT ![w] = f]
      PROVE  Placed'
  <2> DEFINE c == Head(backlog)
  <2>1. f \in Fds /\ fds[f] = None /\ c \in Conns
    BY <1>0, <1>9, HeadTailProperties DEF FreeFds, TypeOK
  <2>2. /\ cfd'[w] = f /\ f # NoFd
        /\ fds'[f] = c /\ \A g \in Fds : g # f => fds'[g] = fds[g]
    BY <1>0, <1>9, <2>1 DEF TypeOK
  <2>3. /\ InBacklog = InBacklog' \cup {c} /\ c \notin InBacklog'
        /\ \A i, j \in DOMAIN backlog' : backlog'[i] = backlog'[j] => i = j
    <3>1. \A i, j \in DOMAIN backlog : backlog[i] = backlog[j] => i = j
      BY DEF IInv, FreshInv
    <3>2. backlog \in Seq(Conns)
      BY <1>0 DEF TypeOK
    <3>3. /\ {backlog[i] : i \in DOMAIN backlog}
               = {Tail(backlog)[i] : i \in DOMAIN Tail(backlog)} \cup {Head(backlog)}
          /\ Head(backlog) \notin {Tail(backlog)[i] : i \in DOMAIN Tail(backlog)}
          /\ \A i, j \in DOMAIN Tail(backlog) : Tail(backlog)[i] = Tail(backlog)[j] => i = j
      BY <1>9, <3>1, <3>2, TailElements
    <3> QED
      BY <1>9, <3>3 DEF InBacklog
  <2>4. heap[c] = "none" /\ peer[c] # "new" /\ \A g \in Fds : fds[g] # c
    BY <2>1, <2>3 DEF IInv, FreshInv
  <2> HIDE DEF c
  <2>5. FreshInv'
    <3>1. \A d \in Conns : peer[d] = "new" \/ d \in InBacklog' => heap[d] = "none" /\ d # c /\ \A g \in Fds : fds[g] # d
      BY <2>3, <2>4 DEF IInv, FreshInv
    <3>2. \A d \in Conns : peer[d] = "new" \/ d \in InBacklog' => heap[d] = "none" /\ \A g \in Fds : fds'[g] # d
      BY <2>2, <3>1
    <3>3. \A d \in InBacklog' : peer[d] # "new"
      BY <2>3 DEF IInv, FreshInv
    <3>4. \A g, h \in Fds : fds'[g] = fds'[h] /\ fds'[g] # None => g = h
      BY <2>2, <2>4 DEF IInv, FreshInv
    <3> QED
      BY <1>1, <2>3, <3>2, <3>3, <3>4 DEF FreshInv
  <2>6. FdInv'
    <3>1. \A d \in Conns : heap[d] = "live" => fd[d] \in Fds /\ fd[d] # f
      BY <2>1 DEF IInv, FdInv
    <3> QED
      BY <1>1, <2>2, <3>1 DEF IInv, FdInv
  <2>7. AcceptInv'
    <3>1. interest[f] = None
      BY <2>1 DEF IInv, FdInv
    <3>2. \A v \in Workers : cfd[v] # NoFd => cfd[v] # f /\ cfd[v] \in Fds
      BY <1>0, <2>1 DEF AcceptInv, TypeOK
    <3>3. /\ fds'[f] \in Conns /\ heap[fds'[f]] = "none"
          /\ \A v \in Workers : v # w /\ cfd[v] # NoFd => fds'[cfd[v]] = fds[cfd[v]]
      BY <2>1, <2>2, <2>4, <3>2
    <3> QED
      BY <1>0, <1>1, <1>2, <2>2, <3>1, <3>2, <3>3 DEF AcceptInv
  <2> QED
    BY <1>5, <1>6, <1>7, <2>5, <2>6, <2>7 DEF Placed
<1> QED
  BY <1>8, <1>9 DEF Accept

LEMMA RearmListenerPlaced ==
    ASSUME IInv, NEW w \in Workers, RearmListener(w)
    PROVE  Placed'
<1> USE DEF clientVars, ctxVars, reactorVars
<1>0. TypeOK /\ HoldInv
  BY DEF IInv
<1>1. /\ UNCHANGED <<peer, inbox, backlog, fds, heap, fd, reactor, batch, queue, holding, cfd>>
      /\ wpc[w] = "rearm_listener" /\ wpc' = [wpc EXCEPT ![w] = "add"]
  BY DEF RearmListener, Goto
<1>2. wpc'[w] = "add" /\ \A v \in Workers : v # w => wpc'[v] = wpc[v]
  BY <1>0, <1>1 DEF TypeOK
<1>3. /\ interest' = interest
      /\ IF interest[Lfd] = None THEN armed' = armed ELSE interest[Lfd] = Listener /\ armed' = armed \cup {Lfd}
  <2>1. interest[Lfd] \in {Listener, None} /\ interest \in [AllFds -> Ctxs \cup {None}] /\ Lfd \in AllFds
    BY <1>0 DEF IInv, EpollInv, TypeOK, AllFds
  <2>2. interest[Lfd] = Listener => [interest EXCEPT ![Lfd] = Listener] = interest
    BY <2>1
  <2> QED
    BY <2>1, <2>2 DEF RearmListener, ResetOneshot, epollVars
<1>4. /\ Using(w) /\ ~Using(w)' /\ holding[w] = Listener
      /\ \A v \in Workers : v # w => (Using(v)' <=> Using(v)) /\ (Using(v) => holding[v] # Listener)
      /\ Listener \notin Armed \cup batch \cup Queued
  BY <1>1, <1>2, ListenerInHand DEF Using, ConnPoints
<1>5. Used = Used' \cup {Listener} /\ Listener \notin Used'
  <2>1. \A y : y \in Used' <=> \E v \in Workers : Using(v)' /\ holding[v] = y
    BY <1>1 DEF Used
  <2>2. \A y : y \in Used <=> \E v \in Workers : Using(v) /\ holding[v] = y
    BY DEF Used
  <2> QED
    BY <1>4, <2>1, <2>2
<1>6. /\ Armed' = Armed \/ Armed' = Armed \cup {Listener}
      /\ reactor = "loop" => Armed' = Armed \cup {Listener}
      /\ Queued' = Queued
  <2>1. reactor = "loop" => interest[Lfd] = Listener
    BY DEF IInv, EpollInv, LfdOpen
  <2>2. CASE armed' = armed /\ interest[Lfd] = None
    BY <1>1, <1>3, <2>1, <2>2 DEF Armed, Queued
  <2>3. CASE interest[Lfd] = Listener /\ armed' = armed \cup {Lfd}
    BY <1>1, <1>3, <2>3 DEF Armed, Queued
  <2> QED
    BY <1>3, <2>2, <2>3
<1>7. HoldInv'
  BY <1>0, <1>1, <1>2, <1>4 DEF HoldInv, ListenerPoints, ConnPoints
<1>8. EpollInv' /\ FreshInv' /\ FdInv'
  BY <1>1, <1>3 DEF IInv, EpollInv, FreshInv, InBacklog, FdInv, LfdOpen
<1>9. RegisteredInv' /\ AcceptInv'
  BY <1>1, <1>2, <1>3 DEF IInv, RegisteredInv, AcceptInv, EpollOpen
<1>10. OneHolder'
  BY <1>1, <1>4, <1>5, <1>6 DEF IInv, OneHolder
<1>11. NoUseAfterFree' /\ NotStranded'
  <2>1. Listener \notin Conns
    OBVIOUS
  <2> QED
    BY <1>1, <1>5, <1>6, <2>1 DEF IInv, NoUseAfterFree, NotStranded
<1>12. EventInv'
  <2>1. \A c \in Conns : Readable(c)' <=> Readable(c)
    BY <1>1 DEF Readable
  <2>2. \A v \in Workers : wpc[v] = "fill" => holding[v] \in Conns
    BY <1>0 DEF HoldInv, ConnPoints
  <2> QED
    BY <1>1, <1>2, <1>6, <2>1, <2>2 DEF IInv, EventInv, LfdOpen
<1> QED
  BY <1>7, <1>8, <1>9, <1>10, <1>11, <1>12 DEF Placed

LEMMA AddConnPlaced ==
    ASSUME IInv, NEW w \in Workers, AddConn(w)
    PROVE  Placed'
<1> USE DEF clientVars, ctxVars, reactorVars
<1> DEFINE f == cfd[w]
           c == fds[f]
<1>0. TypeOK /\ HoldInv /\ AcceptInv
  BY DEF IInv
<1>1. /\ UNCHANGED <<peer, inbox, backlog, fds, reactor, batch, queue, holding>>
      /\ wpc[w] = "add" /\ wpc' = [wpc EXCEPT ![w] = "return"] /\ cfd' = [cfd EXCEPT ![w] = NoFd]
  BY DEF AddConn, Goto
<1>2. /\ wpc'[w] = "return" /\ cfd'[w] = NoFd
      /\ \A v \in Workers : v # w => wpc'[v] = wpc[v] /\ cfd'[v] = cfd[v]
  BY <1>0, <1>1 DEF TypeOK
<1>3. \A v \in Workers : Using(v)' <=> Using(v)
  BY <1>1, <1>2 DEF Using, ConnPoints
<1>4. Queued' = Queued /\ Used' = Used
  BY <1>1, <1>3 DEF Queued, Used
<1>5. HoldInv'
  BY <1>0, <1>1, <1>2 DEF HoldInv, ListenerPoints, ConnPoints
<1>6. EventInv'
  <2>1. \A d \in Conns : Readable(d)' <=> Readable(d)
    BY <1>1 DEF Readable
  <2>2. \A v \in Workers : wpc[v] = "fill" => holding[v] \in Conns
    BY <1>0 DEF HoldInv, ConnPoints
  <2> QED
    BY <1>1, <1>2, <1>4, <2>1, <2>2 DEF IInv, EventInv, LfdOpen
<1>7. CASE f = NoFd
  <2>1. UNCHANGED <<interest, armed, heap, fd>>
    BY <1>7 DEF AddConn, epollVars
  <2>2. Armed' = Armed
    BY <2>1 DEF Armed
  <2>3. EpollInv' /\ FreshInv' /\ FdInv' /\ RegisteredInv' /\ AcceptInv'
    BY <1>1, <1>2, <2>1 DEF IInv, EpollInv, FreshInv, InBacklog, FdInv, LfdOpen, RegisteredInv, EpollOpen,
       AcceptInv
  <2>4. OneHolder' /\ NoUseAfterFree' /\ NotStranded'
    BY <1>1, <1>3, <1>4, <2>1, <2>2 DEF IInv, OneHolder, NoUseAfterFree, NotStranded
  <2> QED
    BY <1>5, <1>6, <2>3, <2>4 DEF Placed
<1>8. CASE f # NoFd
  <2>1. /\ f \in Fds /\ c \in Conns /\ heap[c] = "none" /\ interest[f] = None
        /\ \A v \in Workers : cfd[v] = f => v = w
    BY <1>0, <1>8 DEF AcceptInv, TypeOK
  <2>2. /\ heap' = [heap EXCEPT ![c] = "live"] /\ fd' = [fd EXCEPT ![c] = f]
        /\ IF EpollOpen
           THEN interest' = [interest EXCEPT ![f] = c] /\ armed' = armed \cup {f}
           ELSE interest' = interest /\ armed' = armed
    BY <1>8 DEF AddConn, epollVars
  <2>3. /\ heap'[c] = "live" /\ fd'[c] = f
        /\ \A d \in Conns : d # c => heap'[d] = heap[d] /\ fd'[d] = fd[d]
    BY <1>0, <2>1, <2>2 DEF TypeOK
  <2>4. /\ c \notin Armed \cup batch \cup Queued \cup Used
        /\ f \notin armed
        /\ \A g \in Fds : g # f => fds[g] # c
    BY <2>1 DEF IInv, NoUseAfterFree, EpollInv, FreshInv
  <2>5. /\ \A g \in AllFds : g # f => interest'[g] = interest[g]
        /\ IF EpollOpen THEN interest'[f] = c /\ armed' = armed \cup {f}
                        ELSE interest'[f] = None /\ armed' = armed
        /\ f # Lfd /\ Lfd \in AllFds
    BY <1>0, <2>1, <2>2 DEF TypeOK, AllFds
  <2>6. Armed' = IF EpollOpen THEN Armed \cup {c} ELSE Armed
    <3>1. \A g \in armed : g \in AllFds /\ interest'[g] = interest[g]
      BY <1>0, <2>4, <2>5 DEF TypeOK
    <3>2. CASE EpollOpen
      <4>1. armed' = armed \cup {f} /\ interest'[f] = c
        BY <2>5, <3>2
      <4> HIDE DEF c, f
      <4> QED
        BY <3>1, <3>2, <4>1 DEF Armed
    <3>3. CASE ~EpollOpen
      BY <2>5, <3>1, <3>3 DEF Armed
    <3> QED
      BY <3>2, <3>3
  <2>7. EpollInv'
    <3>1. \A g \in armed' : interest'[g] # None
      <4>1. \A g \in armed : g \in AllFds /\ g # f /\ interest[g] # None
        BY <1>0, <2>4 DEF IInv, EpollInv, TypeOK
      <4>2. c # None
        BY <2>1
      <4> QED
        BY <2>5, <4>1, <4>2
    <3> QED
      BY <1>1, <2>5, <3>1 DEF IInv, EpollInv, LfdOpen
  <2>8. FdInv'
    <3>1. \A d \in Conns : heap'[d] = "live" => fd'[d] \in Fds /\ fds[fd'[d]] = d
      BY <2>1, <2>3 DEF IInv, FdInv
    <3>2. ASSUME NEW g \in Fds, interest'[g] # None
          PROVE  interest'[g] \in Conns /\ heap'[interest'[g]] = "live" /\ fd'[interest'[g]] = g
      <4>1. CASE g = f
        BY <2>1, <2>3, <2>5, <3>2, <4>1
      <4>2. CASE g # f
        <5>1. interest'[g] = interest[g] /\ interest[g] \in Conns /\ heap[interest[g]] = "live" /\ fd[interest[g]] = g
          BY <2>5, <3>2, <4>2 DEF AllFds, IInv, FdInv
        <5>2. interest[g] # c
          BY <2>1, <5>1
        <5> QED
          BY <2>3, <5>1, <5>2
      <4> QED
        BY <4>1, <4>2
    <3> QED
      BY <1>1, <3>1, <3>2 DEF FdInv
  <2>9. FreshInv'
    <3>1. \A d \in Conns : peer[d] = "new" \/ d \in InBacklog => d # c
      BY <2>1 DEF IInv, FreshInv
    <3>2. InBacklog' = InBacklog
      BY <1>1 DEF InBacklog
    <3> QED
      BY <1>1, <2>3, <3>1, <3>2 DEF IInv, FreshInv
  <2>10. AcceptInv'
    <3> SUFFICES ASSUME NEW v \in Workers, cfd'[v] # NoFd
                 PROVE  /\ wpc'[v] \in {"rearm_listener", "add"}
                        /\ fds[cfd'[v]] \in Conns
                        /\ heap'[fds[cfd'[v]]] = "none"
                        /\ interest'[cfd'[v]] = None
                        /\ \A u \in Workers : cfd'[u] = cfd'[v] => u = v
      BY <1>1 DEF AcceptInv
    <3>1. v # w /\ cfd'[v] = cfd[v] /\ wpc'[v] = wpc[v] /\ cfd[v] \in Fds
      BY <1>0, <1>2 DEF TypeOK
    <3>2. /\ wpc[v] \in {"rearm_listener", "add"} /\ fds[cfd[v]] \in Conns /\ heap[fds[cfd[v]]] = "none"
          /\ interest[cfd[v]] = None /\ \A u \in Workers : cfd[u] = cfd[v] => u = v
      BY <1>0, <3>1 DEF AcceptInv
    <3>3. cfd[v] # f
      BY <2>1, <3>1
    <3>4. fds[cfd[v]] # c /\ interest'[cfd[v]] = interest[cfd[v]]
      BY <2>4, <2>5, <3>1, <3>3 DEF AllFds
    <3> QED
      BY <1>2, <2>3, <3>1, <3>2, <3>4
  <2>11. RegisteredInv'
    <3> SUFFICES ASSUME EpollOpen, NEW d \in Conns, heap'[d] = "live",
                        \A v \in Workers : wpc'[v] = "destroy" => holding[v] # d
                 PROVE  interest'[fd'[d]] = d
      BY <1>1 DEF RegisteredInv, EpollOpen
    <3>1. CASE d = c
      BY <2>3, <2>5, <3>1
    <3>2. CASE d # c
      <4>1. heap[d] = "live" /\ fd'[d] = fd[d] /\ fd[d] \in Fds
        BY <2>3, <3>2 DEF IInv, FdInv
      <4>2. \A v \in Workers : wpc[v] = "destroy" => holding[v] # d
        BY <1>1, <1>2
      <4>3. interest[fd[d]] = d
        BY <4>1, <4>2 DEF IInv, RegisteredInv
      <4>4. fd[d] # f
        BY <2>1, <4>3
      <4> QED
        BY <2>5, <4>1, <4>3, <4>4 DEF AllFds
    <3> QED
      BY <3>1, <3>2
  <2>12. OneHolder'
    BY <1>1, <1>3, <1>4, <2>4, <2>6 DEF IInv, OneHolder
  <2>13. NoUseAfterFree'
    BY <1>1, <1>4, <2>3, <2>6 DEF IInv, NoUseAfterFree
  <2>14. NotStranded'
    <3>1. reactor = "loop" => EpollOpen
      BY DEF EpollOpen
    <3> QED
      BY <1>1, <1>4, <2>3, <2>6, <3>1 DEF IInv, NotStranded
  <2> QED
    BY <1>5, <1>6, <2>7, <2>8, <2>9, <2>10, <2>11, <2>12, <2>13, <2>14 DEF Placed
<1> QED
  BY <1>7, <1>8

-----------------------------------------------------------------------------
(* The end of cfd_callback. *)

LEMMA RearmPlaced ==
    ASSUME IInv, NEW w \in Workers, Rearm(w)
    PROVE  Placed'
<1> USE DEF clientVars, ctxVars, reactorVars
<1> DEFINE c == holding[w]
           f == fd[c]
<1>0. TypeOK /\ HoldInv
  BY DEF IInv
<1>1. /\ UNCHANGED <<peer, inbox, backlog, fds, heap, fd, reactor, batch, queue, holding, cfd>>
      /\ wpc[w] = "rearm" /\ wpc[w] \in ConnPoints /\ wpc' = [wpc EXCEPT ![w] = "return"]
  BY DEF Rearm, Goto, ConnPoints
<1>2. wpc'[w] = "return" /\ \A v \in Workers : v # w => wpc'[v] = wpc[v]
  BY <1>0, <1>1 DEF TypeOK
<1>3. /\ c \in Conns /\ heap[c] = "live" /\ f \in Fds /\ interest[f] \in {c, None}
      /\ c \notin Armed \cup batch \cup Queued
      /\ \A v \in Workers : Using(v) /\ holding[v] = c => v = w
  BY <1>1, InHand, OwnRegistration
<1>4. interest' = interest /\ armed' = IF interest[f] = None THEN armed ELSE armed \cup {f}
  <2>1. interest \in [AllFds -> Ctxs \cup {None}] /\ f \in AllFds
    BY <1>0, <1>3 DEF TypeOK, AllFds
  <2>2. interest[f] = c => [interest EXCEPT ![f] = c] = interest
    BY <2>1
  <2> QED
    BY <1>3, <2>2 DEF Rearm, ResetOneshot, epollVars
<1>5. /\ Using(w) /\ ~Using(w)'
      /\ \A v \in Workers : v # w => (Using(v)' <=> Using(v)) /\ (Using(v) => holding[v] # c)
  BY <1>1, <1>2, <1>3 DEF Using, ConnPoints
<1>6. Used = Used' \cup {c} /\ c \notin Used'
  <2>1. \A y : y \in Used' <=> \E v \in Workers : Using(v)' /\ holding[v] = y
    BY <1>1 DEF Used
  <2>2. \A y : y \in Used <=> \E v \in Workers : Using(v) /\ holding[v] = y
    BY DEF Used
  <2> QED
    BY <1>5, <2>1, <2>2
<1>7. /\ Queued' = Queued
      /\ Armed' = IF interest[f] = None THEN Armed ELSE Armed \cup {c}
      /\ reactor = "loop" => interest[f] = c
  <2>1. interest[f] = None => Armed' = Armed
    BY <1>4 DEF Armed
  <2>2. interest[f] # None => Armed' = Armed \cup {c}
    <3>1. interest[f] # None => interest[f] = c /\ armed' = armed \cup {f}
      BY <1>3, <1>4
    <3> QED
      BY <1>4, <3>1 DEF Armed
  <2>3. reactor = "loop" => interest[f] = c
    <3>1. \A v \in Workers : wpc[v] = "destroy" => holding[v] # c
      BY <1>1, <1>3 DEF Using, ConnPoints
    <3> QED
      BY <1>3, <3>1 DEF IInv, RegisteredInv, EpollOpen
  <2> QED
    BY <1>1, <2>1, <2>2, <2>3 DEF Queued
<1>8. HoldInv'
  BY <1>0, <1>1, <1>2, <1>3 DEF HoldInv, ListenerPoints, ConnPoints
<1>9. EpollInv' /\ FreshInv' /\ FdInv'
  BY <1>1, <1>3, <1>4 DEF IInv, EpollInv, FreshInv, InBacklog, FdInv, LfdOpen
<1>10. RegisteredInv' /\ AcceptInv'
  BY <1>1, <1>2, <1>4 DEF IInv, RegisteredInv, AcceptInv, EpollOpen
<1>11. OneHolder'
  BY <1>1, <1>3, <1>5, <1>6, <1>7 DEF IInv, OneHolder
<1>12. NoUseAfterFree' /\ NotStranded'
  BY <1>1, <1>3, <1>6, <1>7 DEF IInv, NoUseAfterFree, NotStranded
<1>13. EventInv'
  <2>1. \A d \in Conns : Readable(d)' <=> Readable(d)
    BY <1>1 DEF Readable
  <2>2. \A v \in Workers : wpc[v] = "fill" => holding[v] \in Conns
    BY <1>0 DEF HoldInv, ConnPoints
  <2> QED
    BY <1>1, <1>2, <1>7, <2>1, <2>2 DEF IInv, EventInv, LfdOpen
<1> QED
  BY <1>8, <1>9, <1>10, <1>11, <1>12, <1>13 DEF Placed

LEMMA DelPlaced ==
    ASSUME IInv, NEW w \in Workers, Del(w)
    PROVE  Placed'
<1> USE DEF clientVars, ctxVars, reactorVars
<1> DEFINE c == holding[w]
           f == fd[c]
<1>0. TypeOK /\ HoldInv
  BY DEF IInv
<1>1. /\ UNCHANGED <<peer, inbox, backlog, fds, heap, fd, reactor, batch, queue, holding, cfd>>
      /\ wpc[w] = "del" /\ wpc[w] \in ConnPoints /\ wpc' = [wpc EXCEPT ![w] = "destroy"]
      /\ interest' = [interest EXCEPT ![f] = None] /\ armed' = armed \ {f}
  BY DEF Del, Forget, Goto, ConnPoints
<1>2. wpc'[w] = "destroy" /\ \A v \in Workers : v # w => wpc'[v] = wpc[v]
  BY <1>0, <1>1 DEF TypeOK
<1>3. /\ c \in Conns /\ heap[c] = "live" /\ f \in Fds /\ f \notin armed
      /\ \A d \in Conns : heap[d] = "live" /\ d # c => fd[d] # f
  BY <1>1, InHand, OwnRegistration
<1>4. /\ armed' = armed /\ interest'[f] = None /\ f # Lfd
      /\ \A g \in AllFds : g # f => interest'[g] = interest[g]
  BY <1>0, <1>1, <1>3 DEF TypeOK, AllFds
<1>5. \A v \in Workers : Using(v)' <=> Using(v)
  BY <1>1, <1>2 DEF Using, ConnPoints
<1>6. Armed' = Armed /\ Queued' = Queued /\ Used' = Used
  <2>1. \A g \in armed : interest'[g] = interest[g]
    BY <1>0, <1>3, <1>4 DEF TypeOK
  <2> QED
    BY <1>1, <1>4, <1>5, <2>1 DEF Armed, Queued, Used
<1>7. HoldInv'
  BY <1>0, <1>1, <1>2, <1>3 DEF HoldInv, ListenerPoints, ConnPoints
<1>8. EpollInv'
  <2>1. \A g \in armed : g \in AllFds /\ g # f
    BY <1>0, <1>3 DEF TypeOK
  <2> QED
    BY <1>1, <1>4, <2>1 DEF IInv, EpollInv, LfdOpen, AllFds
<1>9. FreshInv'
  BY <1>1 DEF IInv, FreshInv, InBacklog
<1>10. FdInv'
  BY <1>1, <1>4 DEF IInv, FdInv, AllFds
<1>11. RegisteredInv'
  <2> SUFFICES ASSUME EpollOpen, NEW d \in Conns, heap[d] = "live",
                      \A v \in Workers : wpc'[v] = "destroy" => holding[v] # d
               PROVE  interest'[fd[d]] = d
    BY <1>1 DEF RegisteredInv, EpollOpen
  <2>1. d # c
    BY <1>2
  <2>2. \A v \in Workers : wpc[v] = "destroy" => holding[v] # d
    BY <1>1, <1>2
  <2>3. interest[fd[d]] = d /\ fd[d] \in Fds
    BY <2>2 DEF IInv, RegisteredInv, FdInv
  <2>4. fd[d] # f
    BY <1>3, <2>1
  <2> QED
    BY <1>4, <2>3, <2>4 DEF AllFds
<1>12. AcceptInv'
  <2>1. \A v \in Workers : cfd[v] # NoFd => cfd[v] \in AllFds /\ (interest[cfd[v]] = None => interest'[cfd[v]] = None)
    BY <1>0, <1>4 DEF TypeOK, AllFds
  <2>2. \A v \in Workers : cfd[v] # NoFd => wpc'[v] = wpc[v]
    BY <1>1, <1>2 DEF IInv, AcceptInv
  <2> QED
    BY <1>1, <2>1, <2>2 DEF IInv, AcceptInv
<1>13. OneHolder' /\ NoUseAfterFree' /\ NotStranded'
  BY <1>1, <1>5, <1>6 DEF IInv, OneHolder, NoUseAfterFree, NotStranded
<1>14. EventInv'
  <2>1. \A d \in Conns : Readable(d)' <=> Readable(d)
    BY <1>1 DEF Readable
  <2>2. \A v \in Workers : wpc[v] = "fill" => holding[v] \in Conns
    BY <1>0 DEF HoldInv, ConnPoints
  <2> QED
    BY <1>1, <1>2, <1>6, <2>1, <2>2 DEF IInv, EventInv, LfdOpen
<1> QED
  BY <1>7, <1>8, <1>9, <1>10, <1>11, <1>12, <1>13, <1>14 DEF Placed

LEMMA DestroyPlaced ==
    ASSUME IInv, NEW w \in Workers, Destroy(w)
    PROVE  Placed'
<1> USE DEF clientVars, reactorVars
<1> DEFINE c == holding[w]
           f == fd[c]
<1>0. TypeOK /\ HoldInv
  BY DEF IInv
<1>1. /\ UNCHANGED <<peer, inbox, backlog, fd, reactor, batch, queue, holding, cfd>>
      /\ wpc[w] = "destroy" /\ wpc[w] \in ConnPoints /\ wpc' = [wpc EXCEPT ![w] = "return"]
      /\ interest' = [interest EXCEPT ![f] = None] /\ armed' = armed \ {f}
      /\ fds' = [fds EXCEPT ![f] = None] /\ heap' = [heap EXCEPT ![c] = "freed"]
  BY DEF Destroy, Forget, Goto, ConnPoints
<1>2. wpc'[w] = "return" /\ \A v \in Workers : v # w => wpc'[v] = wpc[v]
  BY <1>0, <1>1 DEF TypeOK
<1>3. /\ c \in Conns /\ heap[c] = "live" /\ f \in Fds /\ fds[f] = c /\ f \notin armed
      /\ c \notin Armed \cup batch \cup Queued
      /\ \A v \in Workers : Using(v) /\ holding[v] = c => v = w
      /\ \A d \in Conns : heap[d] = "live" /\ d # c => fd[d] # f
  BY <1>1, InHand, OwnRegistration
<1>4. /\ armed' = armed /\ interest'[f] = None /\ f # Lfd
      /\ \A g \in AllFds : g # f => interest'[g] = interest[g]
  BY <1>0, <1>1, <1>3 DEF TypeOK, AllFds
<1>5. /\ fds'[f] = None /\ \A g \in Fds : g # f => fds'[g] = fds[g]
      /\ heap'[c] = "freed" /\ \A d \in Conns : d # c => heap'[d] = heap[d]
  BY <1>0, <1>1, <1>3 DEF TypeOK
<1>6. /\ Using(w) /\ ~Using(w)'
      /\ \A v \in Workers : v # w => (Using(v)' <=> Using(v)) /\ (Using(v) => holding[v] # c)
  BY <1>1, <1>2, <1>3 DEF Using, ConnPoints
<1>7. Used = Used' \cup {c} /\ c \notin Used'
  <2>1. \A y : y \in Used' <=> \E v \in Workers : Using(v)' /\ holding[v] = y
    BY <1>1 DEF Used
  <2>2. \A y : y \in Used <=> \E v \in Workers : Using(v) /\ holding[v] = y
    BY DEF Used
  <2> QED
    BY <1>6, <2>1, <2>2
<1>8. Armed' = Armed /\ Queued' = Queued
  <2>1. \A g \in armed : interest'[g] = interest[g]
    BY <1>0, <1>3, <1>4 DEF TypeOK
  <2> QED
    BY <1>1, <1>4, <2>1 DEF Armed, Queued
<1>9. HoldInv'
  BY <1>0, <1>1, <1>2, <1>3 DEF HoldInv, ListenerPoints, ConnPoints
<1>10. EpollInv'
  <2>1. \A g \in armed : g \in AllFds /\ g # f
    BY <1>0, <1>3 DEF TypeOK
  <2> QED
    BY <1>1, <1>4, <2>1 DEF IInv, EpollInv, LfdOpen, AllFds
<1>11. FreshInv'
  <2>1. \A d \in Conns : peer[d] = "new" \/ d \in InBacklog => d # c
    BY <1>3 DEF IInv, FreshInv
  <2>2. InBacklog' = InBacklog
    BY <1>1 DEF InBacklog
  <2>3. \A d \in Conns : peer[d] = "new" \/ d \in InBacklog => heap'[d] = "none" /\ \A g \in Fds : fds'[g] # d
    BY <1>5, <2>1 DEF IInv, FreshInv
  <2>4. \A g, h \in Fds : fds'[g] = fds'[h] /\ fds'[g] # None => g = h
    BY <1>5 DEF IInv, FreshInv
  <2> QED
    BY <1>1, <2>2, <2>3, <2>4 DEF IInv, FreshInv
<1>12. FdInv'
  <2>1. \A d \in Conns : heap'[d] = "live" => fd[d] \in Fds /\ fds'[fd[d]] = d
    <3> SUFFICES ASSUME NEW d \in Conns, heap'[d] = "live" PROVE fd[d] \in Fds /\ fds'[fd[d]] = d
      OBVIOUS
    <3>1. d # c /\ heap[d] = "live"
      BY <1>5
    <3>2. fd[d] \in Fds /\ fds[fd[d]] = d /\ fd[d] # f
      BY <1>3, <3>1 DEF IInv, FdInv
    <3> QED
      BY <1>5, <3>2
  <2>2. ASSUME NEW g \in Fds, interest'[g] # None
        PROVE  interest'[g] \in Conns /\ heap'[interest'[g]] = "live" /\ fd[interest'[g]] = g
    <3>1. g # f /\ interest'[g] = interest[g]
      BY <1>4, <2>2 DEF AllFds
    <3>2. interest[g] \in Conns /\ heap[interest[g]] = "live" /\ fd[interest[g]] = g
      BY <2>2, <3>1 DEF IInv, FdInv
    <3>3. interest[g] # c
      BY <3>1, <3>2
    <3> QED
      BY <1>5, <3>1, <3>2, <3>3
  <2> QED
    BY <1>1, <2>1, <2>2 DEF FdInv
<1>13. RegisteredInv'
  <2> SUFFICES ASSUME EpollOpen, NEW d \in Conns, heap'[d] = "live",
                      \A v \in Workers : wpc'[v] = "destroy" => holding[v] # d
               PROVE  interest'[fd[d]] = d
    BY <1>1 DEF RegisteredInv, EpollOpen
  <2>1. d # c /\ heap[d] = "live"
    BY <1>5
  <2>2. \A v \in Workers : wpc[v] = "destroy" => holding[v] # d
    BY <1>2, <2>1
  <2>3. interest[fd[d]] = d /\ fd[d] \in Fds
    BY <2>1, <2>2 DEF IInv, RegisteredInv, FdInv
  <2>4. fd[d] # f
    BY <1>3, <2>1
  <2> QED
    BY <1>4, <2>3, <2>4 DEF AllFds
<1>14. AcceptInv'
  <2> SUFFICES ASSUME NEW v \in Workers, cfd[v] # NoFd
               PROVE  /\ wpc'[v] \in {"rearm_listener", "add"}
                      /\ fds'[cfd[v]] \in Conns
                      /\ heap'[fds'[cfd[v]]] = "none"
                      /\ interest'[cfd[v]] = None
                      /\ \A u \in Workers : cfd[u] = cfd[v] => u = v
    BY <1>1 DEF AcceptInv
  <2>1. /\ wpc[v] \in {"rearm_listener", "add"} /\ fds[cfd[v]] \in Conns /\ heap[fds[cfd[v]]] = "none"
        /\ interest[cfd[v]] = None /\ \A u \in Workers : cfd[u] = cfd[v] => u = v
        /\ cfd[v] \in Fds
    BY <1>0 DEF IInv, AcceptInv, TypeOK
  <2>2. v # w /\ cfd[v] # f /\ fds[cfd[v]] # c
    BY <1>1, <1>3, <2>1
  <2> QED
    BY <1>2, <1>4, <1>5, <2>1, <2>2, ZenonT(60) DEF AllFds
<1>15. OneHolder'
  BY <1>1, <1>6, <1>7, <1>8 DEF IInv, OneHolder
<1>16. NoUseAfterFree' /\ NotStranded'
  BY <1>1, <1>3, <1>5, <1>7, <1>8 DEF IInv, NoUseAfterFree, NotStranded
<1>17. EventInv'
  <2>1. \A d \in Conns : Readable(d)' <=> Readable(d)
    BY <1>1 DEF Readable
  <2>2. \A v \in Workers : wpc[v] = "fill" => holding[v] \in Conns
    BY <1>0 DEF HoldInv, ConnPoints
  <2> QED
    BY <1>1, <1>2, <1>8, <2>1, <2>2 DEF IInv, EventInv, LfdOpen
<1> QED
  BY <1>9, <1>10, <1>11, <1>12, <1>13, <1>14, <1>15, <1>16, <1>17 DEF Placed

-----------------------------------------------------------------------------
(* The theorems. *)

LEMMA NextIInv ==
    ASSUME IInv, [Next]_vars
    PROVE  IInv'
<1>1. TypeOK'
  BY TypeNext
<1>2. CASE UNCHANGED vars
  <2>1. UNCHANGED coreVars /\ wpc' = wpc /\ inbox' = inbox
    BY <1>2 DEF vars, coreVars
  <2>2. \A v \in Workers : wpc[v] = "fill" => holding[v] \in Conns /\ Readable(holding[v])
    BY DEF IInv, HoldInv, EventInv, ConnPoints
  <2>3. QuietMove /\ QuietRead
    BY <2>1, <2>2 DEF QuietMove, QuietRead, Readable, coreVars
  <2> QED
    BY <1>1, <2>1, <2>3, QuietStep DEF IInv, Placed
<1>3. ASSUME NEW c \in Conns, ClientStep(c) PROVE Placed'
  BY <1>1, <1>3, ClientPlaced
<1>4. CASE ReactorStep
  BY <1>1, <1>4, ReactorPlaced DEF IInv, Placed
<1>5. ASSUME NEW w \in Workers, WorkerStep(w) PROVE Placed'
  <2>1. CASE Take(w) \/ Return(w) \/ Stop(w)
    BY <1>1, <2>1, TakePlaced, ReturnPlaced, StopPlaced
  <2>2. CASE LfdCallback(w)
    BY <2>2, AcceptPlaced, RearmListenerPlaced, AddConnPlaced DEF LfdCallback
  <2>3. CASE CfdCallback(w)
    BY <1>1, <2>3, QuietActions, RearmPlaced, DelPlaced, DestroyPlaced DEF CfdCallback
  <2> QED
    BY <1>5, <2>1, <2>2, <2>3 DEF WorkerStep
<1> QED
  BY <1>1, <1>2, <1>3, <1>4, <1>5 DEF Next, IInv, Placed

\* IInv is an invariant of the server.
THEOREM InductiveInvariant == Spec => []IInv
<1>1. Init => IInv
  BY InitIInv
<1>2. IInv /\ [Next]_vars => IInv'
  BY NextIInv
<1> QED
  BY <1>1, <1>2, PTL DEF Spec

\* Every variable keeps its type.
THEOREM TypeCorrect == Spec => []TypeOK
<1>1. IInv => TypeOK
  BY DEF IInv
<1> QED
  BY <1>1, InductiveInvariant, PTL

\* No two workers ever run in one connection, whatever the interleaving of the reactor,
\* the workers, the clients and server_destroy: EPOLLONESHOT and the order of
\* lfd_callback and cfd_callback, which enable a context last, are enough.
THEOREM Exclusive == Spec => []OneHolder
<1>1. IInv => OneHolder
  BY DEF IInv
<1> QED
  BY <1>1, InductiveInvariant, PTL

\* evctx_destroy never frees a context that epoll, the reactor, the pool or another
\* worker still reaches.
THEOREM MemorySafe == Spec => []NoUseAfterFree
<1>1. IInv => NoUseAfterFree
  BY DEF IInv
<1> QED
  BY <1>1, InductiveInvariant, PTL

\* A descriptor number that the kernel hands out again is never used for the
\* connection it belonged to before.
THEOREM OwnDescriptor == Spec => []FdInv
<1>1. IInv => FdInv
  BY DEF IInv
<1> QED
  BY <1>1, InductiveInvariant, PTL

\* accept and read never block a worker.
THEOREM NonBlocking == Spec => []NeverBlocks
<1>1. IInv => NeverBlocks
  <2> SUFFICES ASSUME IInv, NEW w \in Workers
               PROVE  /\ wpc[w] = "accept" => backlog # <<>> \/ FreeFds = {} \/ ~LfdOpen
                      /\ wpc[w] = "fill" => Readable(fds[fd[holding[w]]])
    BY DEF NeverBlocks
  <2>1. wpc[w] = "accept" => backlog # <<>> \/ ~LfdOpen
    BY DEF IInv, EventInv
  <2>2. wpc[w] = "fill" => Readable(holding[w]) /\ fds[fd[holding[w]]] = holding[w]
    BY InHand DEF IInv, EventInv, ConnPoints
  <2> QED
    BY <2>1, <2>2
<1> QED
  BY <1>1, InductiveInvariant, PTL

\* No connection and not the listening socket is ever forgotten while the server runs.
THEOREM NoLostEvent == Spec => []NotStranded
<1>1. IInv => NotStranded
  BY DEF IInv
<1> QED
  BY <1>1, InductiveInvariant, PTL

-----------------------------------------------------------------------------
(* The bytes of the connections: responses answer the requests in their order, and an honest *)
(* client is not hung up on.                                                                 *)

\* A worker is between the last byte of a request of c and its response.
Answering(c) == \E w \in Workers : wpc[w] = "respond" /\ holding[w] = c

\* The server has given the connection up.
Dropped(c) ==
    \/ heap[c] = "freed"
    \/ \E w \in Workers : wpc[w] \in {"del", "destroy"} /\ holding[w] = c

\* What the k-th chunk of a client can be.
Allowed(c, k) ==
    {Proper(k)} \cup
    (IF c \in Honest THEN {} ELSE {[kind |-> x, seq |-> 0] : x \in {"junk", "no_service"}})

\* How many chunks of c the server has parsed.
Parsed(c) ==
    IF ~magic_read[c] THEN 0
    ELSE 1 + 2 * Len(replies[c]) + (IF req[c].state = "READING_ARGS" THEN 1
                                    ELSE IF Answering(c) THEN 2 ELSE 0)

\* What is buffered continues what was parsed, and what is in the receive queue
\* continues what is buffered; nothing is missing unless the client has closed.
Contiguous(c) ==
    /\ Parsed(c) + Len(buff[c]) + Len(inbox[c]) <= sent[c]
    /\ peer[c] # "closed" => Parsed(c) + Len(buff[c]) + Len(inbox[c]) = sent[c]
    /\ \A i \in 1 .. Len(buff[c]) : buff[c][i] \in Allowed(c, Parsed(c) + i - 1)
    /\ \A i \in 1 .. Len(inbox[c]) :
          inbox[c][i] \in Allowed(c, Parsed(c) + Len(buff[c]) + i - 1)

\* A request being read or answered is the next one of its connection.
Current(c) ==
    /\ Answering(c) => magic_read[c] /\ req[c].state = "READING_REQUEST_LINE"
    /\ req[c].state = "READING_ARGS" \/ Answering(c) =>
          /\ req[c].known => req[c].seq = Len(replies[c]) + 1
          /\ c \in Honest => req[c].known

\* A connection's context starts from nothing, and nothing precedes the magic number.
Fresh(c) ==
    /\ heap[c] = "none" => buff[c] = <<>> /\ ~magic_read[c] /\ req[c] = InitReq
    /\ ~magic_read[c] => replies[c] = <<>> /\ req[c].state = "READING_REQUEST_LINE"

Ordered(c) ==
    /\ 2 * Len(replies[c]) < sent[c] \/ replies[c] = <<>>
    /\ \A i \in 1 .. Len(replies[c]) : replies[c][i] = i

StreamOf(c) ==
    /\ Fresh(c)
    /\ Ordered(c)
    /\ ~Dropped(c) => Contiguous(c) /\ Current(c)
    /\ c \in Honest /\ Dropped(c) => peer[c] = "closed" \/ CutShort(c)

StreamInv == \A c \in Conns : StreamOf(c)

-----------------------------------------------------------------------------
(* What a step leaves alone. *)

\* The k-th chunk, by what it carries.
LEMMA ProperValue ==
    /\ Proper(0) = [kind |-> "magic", seq |-> 0]
    /\ \A n \in Nat : Proper(1 + 2 * n) = [kind |-> "line", seq |-> n + 1]
<1>1. Proper(0) = [kind |-> "magic", seq |-> 0]
  BY DEF Proper
<1>2. ASSUME NEW n \in Nat
      PROVE  Proper(1 + 2 * n) = [kind |-> "line", seq |-> n + 1]
  <2>1. /\ 1 + 2 * n # 0
        /\ (1 + 2 * n) % 2 = 1
        /\ ((1 + 2 * n) + 1) \div 2 = n + 1
    OBVIOUS
  <2> QED
    BY <2>1 DEF Proper
<1> QED
  BY <1>1, <1>2

\* The stream of c is the same to a step that changes nothing of it.
SameStream(c) ==
    /\ sent'[c] = sent[c]
    /\ inbox'[c] = inbox[c]
    /\ replies'[c] = replies[c]
    /\ magic_read'[c] = magic_read[c]
    /\ req'[c] = req[c]
    /\ buff'[c] = buff[c]

LEMMA StreamFrame ==
    ASSUME NEW c \in Conns, StreamOf(c), SameStream(c),
           heap'[c] = "none" => heap[c] = "none",
           peer[c] = "closed" => peer'[c] = "closed",
           Answering(c)' <=> Answering(c),
           Dropped(c)' <=> Dropped(c)
    PROVE  StreamOf(c)'
<1>1. Parsed(c)' = Parsed(c)
  BY DEF Parsed, SameStream
<1>2. Fresh(c)' /\ Ordered(c)'
  BY DEF StreamOf, Fresh, Ordered, SameStream
<1>3. ~Dropped(c) => Contiguous(c)'
  <2> SUFFICES ASSUME ~Dropped(c)
               PROVE  Contiguous(c)'
    OBVIOUS
  <2> DEFINE P == Parsed(c)
  <2>1. P' = P
    BY <1>1
  <2> HIDE DEF P
  <2> QED
    <3>1. Contiguous(c)
      BY DEF StreamOf
    <3> QED
      BY <1>1, <3>1 DEF Contiguous, Allowed, Proper, SameStream
<1>4. ~Dropped(c) => Current(c)'
  BY DEF StreamOf, Current, SameStream
<1>5. CutShort(c)' <=> CutShort(c)
  BY DEF CutShort, SameStream
<1> QED
  BY <1>2, <1>3, <1>4, <1>5 DEF StreamOf

\* Who answers c and who gives it up, when no worker enters or leaves these points.
LEMMA SamePlaces ==
    ASSUME NEW c \in Conns,
           heap'[c] = "freed" <=> heap[c] = "freed",
           \A w \in Workers :
               wpc[w] \in {"respond", "del", "destroy"} \/ wpc'[w] \in {"respond", "del", "destroy"}
                   => wpc'[w] = wpc[w] /\ holding'[w] = holding[w]
    PROVE  /\ Answering(c)' <=> Answering(c)
           /\ Dropped(c)' <=> Dropped(c)
  BY DEF Answering, Dropped

\* A worker that moves in the callback of one connection changes nothing for another.
LEMMA OtherPlaces ==
    ASSUME TypeOK, NEW w \in Workers, NEW c \in Conns, holding[w] # c, holding' = holding,
           heap'[c] = heap[c], NEW point, wpc' = wpc \/ wpc' = [wpc EXCEPT ![w] = point]
    PROVE  /\ Answering(c)' <=> Answering(c)
           /\ Dropped(c)' <=> Dropped(c)
<1>1. \A v \in Workers : v # w => wpc'[v] = wpc[v]
  BY DEF TypeOK
<1>2. \A v \in Workers : holding[v] = c => wpc'[v] = wpc[v]
  BY <1>1
<1> QED
  BY <1>2 DEF Answering, Dropped

\* Only the worker that has a connection in hand answers it or gives it up.
LEMMA OwnPlaces ==
    ASSUME IInv, NEW w \in Workers, wpc[w] \in ConnPoints
    PROVE  /\ Answering(holding[w]) <=> wpc[w] = "respond"
           /\ Dropped(holding[w]) <=> wpc[w] \in {"del", "destroy"}
<1>1. /\ heap[holding[w]] = "live"
      /\ \A v \in Workers : Using(v) /\ holding[v] = holding[w] => v = w
  BY InHand
<1>2. \A v \in Workers : wpc[v] \in {"respond", "del", "destroy"} => Using(v)
  BY DEF Using, ConnPoints
<1> QED
  BY <1>1, <1>2 DEF Answering, Dropped

\* A step that moves no byte.
LEMMA StillStep ==
    ASSUME StreamInv, UNCHANGED <<sent, inbox, replies, magic_read, req, buff>>,
           \A c \in Conns : /\ heap'[c] = "none" => heap[c] = "none"
                            /\ heap'[c] = "freed" <=> heap[c] = "freed"
                            /\ peer[c] = "closed" => peer'[c] = "closed",
           \A w \in Workers :
               wpc[w] \in {"respond", "del", "destroy"} \/ wpc'[w] \in {"respond", "del", "destroy"}
                   => wpc'[w] = wpc[w] /\ holding'[w] = holding[w]
    PROVE  StreamInv'
<1> SUFFICES ASSUME NEW c \in Conns
             PROVE  StreamOf(c)'
  BY DEF StreamInv
<1>1. StreamOf(c) /\ SameStream(c)
  BY DEF StreamInv, SameStream
<1>2. (Answering(c)' <=> Answering(c)) /\ (Dropped(c)' <=> Dropped(c))
  BY SamePlaces
<1> QED
  BY <1>1, <1>2, StreamFrame

\* The types of the numbers that Contiguous adds.
LEMMA Counts ==
    ASSUME TypeOK, NEW c \in Conns
    PROVE  /\ Len(buff[c]) \in Nat /\ Len(inbox[c]) \in Nat /\ Len(replies[c]) \in Nat
           /\ sent[c] \in Nat /\ Parsed(c) \in Nat
           /\ buff[c] \in Seq(Chunks) /\ inbox[c] \in Seq(Chunks)
<1>1. /\ buff[c] \in Seq(Chunks) /\ inbox[c] \in Seq(Chunks) /\ replies[c] \in Seq(0 .. MaxReqs)
      /\ sent[c] \in Nat
  BY DEF TypeOK
<1>2. Len(buff[c]) \in Nat /\ Len(inbox[c]) \in Nat /\ Len(replies[c]) \in Nat
  BY <1>1, LenProperties
<1>3. PICK n \in Nat : n = Len(replies[c])
  BY <1>2
<1>4. Parsed(c) = 0 \/ Parsed(c) = 1 + 2 * n + 1 \/ Parsed(c) = 1 + 2 * n + 2 \/ Parsed(c) = 1 + 2 * n + 0
  BY <1>3 DEF Parsed
<1>5. Parsed(c) \in Nat
  BY <1>4
<1> QED
  BY <1>1, <1>2, <1>5

-----------------------------------------------------------------------------
(* Clients. *)

LEMMA ConnectStream ==
    ASSUME TypeOK, StreamInv, NEW c \in Conns, Connect(c)
    PROVE  StreamInv'
<1>1. UNCHANGED <<sent, inbox, replies, magic_read, req, buff, heap, wpc, holding>>
  BY DEF Connect, ctxVars, reactorVars
<1>2. \A d \in Conns : peer[d] = "closed" => peer'[d] = "closed"
  BY DEF Connect, TypeOK
<1> QED
  BY <1>1, <1>2, StillStep

LEMMA CloseStream ==
    ASSUME TypeOK, StreamInv, NEW c \in Conns, Close(c)
    PROVE  StreamInv'
<1>1. UNCHANGED <<sent, inbox, replies, magic_read, req, buff, heap, wpc, holding>>
  BY DEF Close, ctxVars, reactorVars
<1>2. \A d \in Conns : peer[d] = "closed" => peer'[d] = "closed"
  BY DEF Close, TypeOK
<1> QED
  BY <1>1, <1>2, StillStep

\* What a reset takes away is the end of the stream.
LEMMA ResetStream ==
    ASSUME TypeOK, StreamInv, NEW c \in Conns, Reset(c)
    PROVE  StreamInv'
<1>1. /\ UNCHANGED <<sent, replies, magic_read, req, buff, heap, wpc, holding>>
      /\ peer' = [peer EXCEPT ![c] = "closed"]
      /\ inbox' = [inbox EXCEPT ![c] = <<>>]
  BY DEF Reset, ctxVars, reactorVars
<1> SUFFICES ASSUME NEW d \in Conns
             PROVE  StreamOf(d)'
  BY DEF StreamInv
<1>2. StreamOf(d)
  BY DEF StreamInv
<1>3. (Answering(d)' <=> Answering(d)) /\ (Dropped(d)' <=> Dropped(d))
  BY <1>1, SamePlaces
<1>4. CASE d # c
  <2>1. SameStream(d) /\ peer'[d] = peer[d]
    BY <1>1, <1>4 DEF SameStream, TypeOK
  <2> QED
    BY <1>1, <1>2, <1>3, <2>1, StreamFrame
<1>5. CASE d = c
  <2>1. peer'[d] = "closed" /\ inbox'[d] = <<>> /\ Len(inbox'[d]) = 0
    BY <1>1, <1>5 DEF TypeOK
  <2>2. Parsed(d)' = Parsed(d)
    BY <1>1, <1>3 DEF Parsed
  <2>3. Fresh(d)' /\ Ordered(d)' /\ (~Dropped(d) => Current(d)')
    BY <1>1, <1>2, <1>3 DEF StreamOf, Fresh, Ordered, Current
  <2>4. ASSUME ~Dropped(d)
        PROVE  Contiguous(d)'
    <3>1. Contiguous(d)
      BY <1>2, <2>4 DEF StreamOf
    <3>2. /\ Parsed(d)' + Len(buff[d])' + Len(inbox'[d]) <= sent'[d]
      <4>1. Len(inbox[d]) \in Nat /\ Len(buff[d]) \in Nat /\ sent[d] \in Nat /\ Len(replies[d]) \in Nat
        BY LenProperties DEF TypeOK
      <4>2. Parsed(d) \in Nat
        BY Counts
      <4>3. Parsed(d) + Len(buff[d]) + 0 <= sent[d]
        BY <3>1, <4>1, <4>2 DEF Contiguous
      <4> QED
        BY <1>1, <2>1, <2>2, <4>3
    <3>3. \A i \in 1 .. Len(buff'[d]) : buff'[d][i] \in Allowed(d, Parsed(d)' + i - 1)
      BY <1>1, <2>2, <3>1 DEF Contiguous
    <3> QED
      BY <2>1, <3>2, <3>3 DEF Contiguous, Allowed, Proper
  <2> QED
    BY <1>3, <2>1, <2>3, <2>4 DEF StreamOf
<1> QED
  BY <1>4, <1>5

\* A client adds the next chunk of its stream at the end of the receive queue.
LEMMA SendStream ==
    ASSUME TypeOK, StreamInv, NEW c \in Conns, Send(c)
    PROVE  StreamInv'
<1>1. /\ UNCHANGED <<replies, magic_read, req, buff, heap, wpc, holding, peer>>
      /\ peer[c] = "open"
      /\ sent' = [sent EXCEPT ![c] = @ + 1]
      /\ \E k \in Allowed(c, sent[c]) : inbox' = [inbox EXCEPT ![c] = Append(@, k)]
  BY DEF Send, ctxVars, reactorVars, Allowed
<1>2. PICK k \in Allowed(c, sent[c]) : inbox' = [inbox EXCEPT ![c] = Append(@, k)]
  BY <1>1
<1>3. k \in Chunks
  <2>1. Talks[c] \in Nat /\ Talks[c] <= MaxReqs /\ sent[c] \in 0 .. 2 * Talks[c]
    <3>1. Talks[c] \in 0 .. MaxReqs
      BY TalksAssumption
    <3>2. sent[c] \in Nat /\ sent[c] <= 2 * Talks[c]
      BY DEF TypeOK, Send
    <3> QED
      BY <3>1, <3>2
  <2>2. Proper(sent[c]) \in Chunks
    BY <2>1, ProperChunk
  <2>3. \A x \in {"junk", "no_service"} : [kind |-> x, seq |-> 0] \in Chunks
    <3>1. 0 \in 0 .. MaxReqs
      BY BoundsAssumption
    <3> QED
      BY <3>1 DEF Chunks
  <2> QED
    BY <1>2, <2>2, <2>3 DEF Allowed
<1> SUFFICES ASSUME NEW d \in Conns
             PROVE  StreamOf(d)'
  BY DEF StreamInv
<1>4. StreamOf(d)
  BY DEF StreamInv
<1>5. (Answering(d)' <=> Answering(d)) /\ (Dropped(d)' <=> Dropped(d))
  BY <1>1, SamePlaces
<1>6. CASE d # c
  <2>1. SameStream(d)
    BY <1>1, <1>2, <1>6 DEF SameStream, TypeOK
  <2> QED
    BY <1>1, <1>4, <1>5, <2>1, StreamFrame
<1>7. CASE d = c
  <2>0. /\ Len(buff[d]) \in Nat /\ Len(inbox[d]) \in Nat /\ Len(replies[d]) \in Nat
        /\ sent[d] \in Nat /\ Parsed(d) \in Nat /\ inbox[d] \in Seq(Chunks)
    BY Counts
  <2>1. /\ sent'[d] = sent[d] + 1 /\ inbox'[d] = Append(inbox[d], k)
    BY <1>1, <1>2, <1>7 DEF TypeOK
  <2>2. /\ Len(inbox'[d]) = Len(inbox[d]) + 1
        /\ \A i \in 1 .. Len(inbox[d]) : inbox'[d][i] = inbox[d][i]
        /\ inbox'[d][Len(inbox[d]) + 1] = k
    BY <1>3, <2>0, <2>1, AppendProperties
  <2>3. Parsed(d)' = Parsed(d)
    BY <1>1, <1>5 DEF Parsed
  <2>4. Fresh(d)' /\ (~Dropped(d) => Current(d)')
    BY <1>1, <1>4, <1>5 DEF StreamOf, Fresh, Current
  <2>5. Ordered(d)'
    <3>1. Ordered(d)
      BY <1>4 DEF StreamOf
    <3> QED
      BY <1>1, <2>0, <2>1, <3>1 DEF Ordered
  <2>6. ASSUME ~Dropped(d)
        PROVE  Contiguous(d)'
    <3>1. Contiguous(d) /\ peer[d] # "closed"
      BY <1>1, <1>4, <1>7, <2>6 DEF StreamOf
    <3>2. Parsed(d) + Len(buff[d]) + Len(inbox[d]) = sent[d]
      BY <3>1 DEF Contiguous
    <3>3. Parsed(d) + Len(buff[d]) + Len(inbox'[d]) = sent'[d]
      <4>1. Len(inbox'[d]) = Len(inbox[d]) + 1 /\ sent'[d] = sent[d] + 1
        BY <2>1, <2>2
      <4>2. PICK a \in Nat, b \in Nat, n \in Nat : a = Parsed(d) /\ b = Len(buff[d]) /\ n = Len(inbox[d])
        BY <2>0
      <4>3. a + b + n = sent[d]
        BY <3>2, <4>2
      <4>4. a + b + (n + 1) = sent[d] + 1
        BY <4>3, <2>0
      <4> QED
        BY <4>1, <4>2, <4>4
    <3>4. \A i \in 1 .. Len(inbox'[d]) :
              inbox'[d][i] \in Allowed(d, Parsed(d) + Len(buff[d]) + i - 1)
      <4> SUFFICES ASSUME NEW i \in 1 .. Len(inbox'[d])
                   PROVE  inbox'[d][i] \in Allowed(d, Parsed(d) + Len(buff[d]) + i - 1)
        OBVIOUS
      <4>1. i \in 1 .. Len(inbox[d]) \/ i = Len(inbox[d]) + 1
        BY <2>0, <2>2
      <4>2. CASE i \in 1 .. Len(inbox[d])
        BY <2>2, <3>1, <4>2 DEF Contiguous
      <4>3. CASE i = Len(inbox[d]) + 1
        <5>1. Parsed(d) + Len(buff[d]) + i - 1 = sent[d]
          BY <2>0, <3>2, <4>3
        <5> QED
          BY <1>2, <1>7, <2>2, <4>3, <5>1
      <4> QED
        BY <4>1, <4>2, <4>3
    <3>5. \A i \in 1 .. Len(buff[d]) : buff[d][i] \in Allowed(d, Parsed(d) + i - 1)
      BY <3>1 DEF Contiguous
    <3>6. sent'[d] <= sent'[d]
      BY <2>0, <2>1
    <3> QED
      BY <1>1, <2>3, <3>3, <3>4, <3>5, <3>6 DEF Contiguous, Allowed, Proper
  <2>7. CutShort(d) => CutShort(d)'
    <3>1. ASSUME NEW n \in 1 .. MaxReqs, sent[d] > 2 * n
          PROVE  sent'[d] > 2 * n
      BY <2>0, <2>1, <3>1
    <3> QED
      BY <1>1, <3>1 DEF CutShort
  <2> QED
    BY <1>1, <1>4, <1>5, <2>4, <2>5, <2>6, <2>7 DEF StreamOf
<1> QED
  BY <1>6, <1>7

-----------------------------------------------------------------------------
(* The reactor, the pool and lfd_callback. *)

LEMMA ReactorStream ==
    ASSUME StreamInv, ReactorStep
    PROVE  StreamInv'
<1> USE DEF clientVars, ctxVars, epollVars
<1>1. /\ UNCHANGED <<sent, inbox, replies, magic_read, req, buff, heap, wpc, peer>>
      /\ \A w \in Workers : wpc[w] \in {"respond", "del", "destroy"} => holding'[w] = holding[w]
  <2>1. CASE EpollWait \/ EpollFails \/ CloseListener \/ CloseEpoll \/ FreeServer
    BY <2>1 DEF EpollWait, EpollFails, CloseListener, CloseEpoll, FreeServer
  <2>2. CASE DestroyPool
    BY <2>2 DEF DestroyPool, Pool!Close
  <2>3. CASE \E x \in batch : ReactorPut(x) \/ ReactorSkip(x)
    BY <2>3 DEF ReactorPut, ReactorSkip, Pool!Put
  <2> QED
    BY <2>1, <2>2, <2>3 DEF ReactorStep
<1> QED
  BY <1>1, StillStep

\* Between two callbacks a worker touches no connection.
LEMMA TaskStream ==
    ASSUME TypeOK, StreamInv, NEW w \in Workers, Take(w) \/ Return(w) \/ Stop(w)
    PROVE  StreamInv'
<1> USE DEF clientVars, ctxVars, epollVars
<1>1. /\ UNCHANGED <<sent, inbox, replies, magic_read, req, buff, heap, peer>>
      /\ wpc[w] \in {"idle", "return"}
      /\ \/ wpc' = wpc /\ holding' = holding
         \/ /\ \E point \in {"accept", "fill", "idle"} : wpc' = [wpc EXCEPT ![w] = point]
            /\ \E x : holding' = [holding EXCEPT ![w] = x]
  <2>1. CASE Take(w)
    BY <2>1 DEF Take, Goto, Pool!Take
  <2>2. CASE Return(w)
    BY <2>2 DEF Return, Goto, Pool!Finish
  <2>3. CASE Stop(w)
    BY <2>3 DEF Stop, Pool!Stop
  <2> QED
    BY <2>1, <2>2, <2>3
<1>2. \A v \in Workers : v # w => wpc'[v] = wpc[v] /\ holding'[v] = holding[v]
  BY <1>1 DEF TypeOK
<1>3. wpc'[w] \in {"accept", "fill", "idle", "return"}
  BY <1>1 DEF TypeOK
<1> QED
  BY <1>1, <1>2, <1>3, StillStep

\* A context is built from nothing: its connection has no stream yet.
LEMMA ListenerStream ==
    ASSUME IInv, StreamInv, NEW w \in Workers, LfdCallback(w)
    PROVE  StreamInv'
<1> USE DEF clientVars, ctxVars, epollVars, reactorVars
<1>0. TypeOK
  BY DEF IInv
<1>1. /\ UNCHANGED <<sent, inbox, replies, peer, holding>>
      /\ wpc[w] \in ListenerPoints
      /\ \E point \in {"rearm_listener", "add", "return"} : wpc' = [wpc EXCEPT ![w] = point]
  BY DEF LfdCallback, Accept, RearmListener, AddConn, Goto, ListenerPoints
<1>2. \A v \in Workers :
          wpc[v] \in {"respond", "del", "destroy"} \/ wpc'[v] \in {"respond", "del", "destroy"}
              => wpc'[v] = wpc[v] /\ holding'[v] = holding[v]
  BY <1>0, <1>1 DEF TypeOK, ListenerPoints
<1>3. /\ UNCHANGED <<magic_read, req, buff>>
      /\ \A c \in Conns : /\ heap'[c] = "none" => heap[c] = "none"
                          /\ heap'[c] = "freed" <=> heap[c] = "freed"
  <2>1. CASE Accept(w) \/ RearmListener(w) \/ (AddConn(w) /\ cfd[w] = NoFd)
    BY <2>1 DEF Accept, RearmListener, AddConn
  <2>2. CASE AddConn(w) /\ cfd[w] # NoFd
    <3> DEFINE c == fds[cfd[w]]
    <3>1. c \in Conns /\ heap[c] = "none"
      BY <2>2 DEF IInv, AcceptInv
    <3>2. buff[c] = <<>> /\ magic_read[c] = FALSE /\ req[c] = InitReq
      <4>1. StreamOf(c)
        BY <3>1 DEF StreamInv
      <4>2. magic_read[c] \in BOOLEAN
        BY <1>0, <3>1 DEF TypeOK
      <4> QED
        BY <3>1, <4>1, <4>2 DEF StreamOf, Fresh
    <3>3. /\ heap' = [heap EXCEPT ![c] = "live"]
          /\ magic_read' = [magic_read EXCEPT ![c] = FALSE]
          /\ req' = [req EXCEPT ![c] = InitReq]
          /\ buff' = [buff EXCEPT ![c] = <<>>]
      BY <2>2 DEF AddConn
    <3> HIDE DEF c
    <3>4. magic_read' = magic_read /\ req' = req /\ buff' = buff
      BY <1>0, <3>1, <3>2, <3>3 DEF TypeOK
    <3> QED
      BY <1>0, <3>1, <3>3, <3>4 DEF TypeOK
  <2> QED
    BY <2>1, <2>2 DEF LfdCallback
<1> QED
  BY <1>1, <1>2, <1>3, StillStep
-----------------------------------------------------------------------------
(* cfd_callback. *)

\* What the worker that has a connection in hand does to the places of it.
LEMMA HandPlaces ==
    ASSUME IInv, NEW w \in Workers, wpc[w] \in ConnPoints, holding' = holding,
           NEW point, wpc' = wpc \/ wpc' = [wpc EXCEPT ![w] = point]
    PROVE  /\ Answering(holding[w])' <=> wpc'[w] = "respond"
           /\ Dropped(holding[w])' <=> heap'[holding[w]] = "freed" \/ wpc'[w] \in {"del", "destroy"}
<1>1. PICK c \in Conns : c = holding[w]
  BY InHand
<1>2. \A v \in Workers : Using(v) /\ holding[v] = c => v = w
  BY <1>1, InHand
<1>3. \A v \in Workers : wpc[v] \in {"respond", "del", "destroy"} => Using(v)
  BY DEF Using, ConnPoints
<1>4. \A v \in Workers : v # w => wpc'[v] = wpc[v]
  BY DEF IInv, TypeOK
<1>5. \A v \in Workers : wpc'[v] \in {"respond", "del", "destroy"} /\ holding'[v] = c => v = w
  BY <1>2, <1>3, <1>4
<1>6. holding'[w] = c
  BY <1>1
<1>7. (\E v \in Workers : wpc'[v] = "respond" /\ holding'[v] = c) <=> wpc'[w] = "respond"
  BY <1>5, <1>6
<1>8. (\E v \in Workers : wpc'[v] \in {"del", "destroy"} /\ holding'[v] = c) <=> wpc'[w] \in {"del", "destroy"}
  BY <1>5, <1>6
<1> QED
  BY <1>1, <1>7, <1>8 DEF Answering, Dropped

\* The steps of cfd_callback, by what they leave alone.
LEMMA HandStep ==
    ASSUME IInv, NEW w \in Workers, CfdCallback(w)
    PROVE  /\ wpc[w] \in ConnPoints
           /\ peer' = peer /\ sent' = sent /\ holding' = holding
           /\ wpc' = wpc \/ \E point \in ConnPoints \cup {"return"} : wpc' = [wpc EXCEPT ![w] = point]
           /\ \A d \in Conns : d # holding[w] => SameStream(d) /\ heap'[d] = heap[d]
<1> USE DEF clientVars, ctxVars, epollVars, reactorVars
<1>0. TypeOK
  BY DEF IInv
<1>1. /\ wpc[w] \in ConnPoints
      /\ peer' = peer /\ sent' = sent /\ holding' = holding
      /\ wpc' = wpc \/ \E point \in ConnPoints \cup {"return"} : wpc' = [wpc EXCEPT ![w] = point]
  BY DEF CfdCallback, Fill, NotReady, ReadMagic, ReadRequestLine, ReadArgs, Respond, Rearm, Del, Destroy,
     Goto, ConnPoints
<1>2. PICK c \in Conns : c = holding[w] /\ fds[fd[c]] = c
  BY <1>1, InHand
<1>3. ASSUME NEW d \in Conns, d # c
      PROVE  SameStream(d) /\ heap'[d] = heap[d]
  <2>1. CASE Fill(w)
    BY <1>0, <1>2, <1>3, <2>1 DEF Fill, SameStream, TypeOK
  <2>2. CASE NotReady(w) \/ ReadMagic(w)
    BY <1>0, <1>2, <1>3, <2>2 DEF NotReady, ReadMagic, SameStream, TypeOK
  <2>3. CASE ReadRequestLine(w) \/ ReadArgs(w)
    BY <1>0, <1>2, <1>3, <2>3 DEF ReadRequestLine, ReadArgs, SameStream, TypeOK
  <2>4. CASE Respond(w)
    BY <1>0, <1>2, <1>3, <2>4 DEF Respond, SameStream, TypeOK
  <2>5. CASE Rearm(w) \/ Del(w) \/ Destroy(w)
    BY <1>0, <1>2, <1>3, <2>5 DEF Rearm, Del, Destroy, SameStream, TypeOK
  <2> QED
    BY <2>1, <2>2, <2>3, <2>4, <2>5 DEF CfdCallback
<1> QED
  BY <1>1, <1>2, <1>3

\* So only the stream of the connection in hand has to be looked at.
LEMMA HandStream ==
    ASSUME IInv, StreamInv, NEW w \in Workers, CfdCallback(w), StreamOf(holding[w])'
    PROVE  StreamInv'
<1>1. /\ peer' = peer /\ holding' = holding
      /\ wpc' = wpc \/ \E point \in ConnPoints \cup {"return"} : wpc' = [wpc EXCEPT ![w] = point]
      /\ \A d \in Conns : d # holding[w] => SameStream(d) /\ heap'[d] = heap[d]
  BY HandStep
<1>2. PICK c : c = holding[w]
  OBVIOUS
<1>3. c' = holding'[w]
  BY <1>1, <1>2
<1>4. StreamOf(c)'
  BY <1>1, <1>2
<1> SUFFICES ASSUME NEW d \in Conns
             PROVE  StreamOf(d)'
  BY DEF StreamInv
<1>5. CASE d # c
  <2>1. SameStream(d) /\ heap'[d] = heap[d]
    BY <1>1, <1>2, <1>5
  <2>2. PICK point : wpc' = wpc \/ wpc' = [wpc EXCEPT ![w] = point]
    BY <1>1
  <2>3. (Answering(d)' <=> Answering(d)) /\ (Dropped(d)' <=> Dropped(d))
    BY <1>1, <1>2, <1>5, <2>1, <2>2, OtherPlaces DEF IInv
  <2> QED
    BY <1>1, <2>1, <2>3, StreamFrame DEF StreamInv
<1> QED
  BY <1>4, <1>5

\* A connection may be given up with its stream as it is; an honest client's only when the
\* client has closed or its last response went past wbuf.
LEMMA GiveUp ==
    ASSUME NEW c \in Conns, StreamOf(c), SameStream(c), peer' = peer,
           heap'[c] = "none" => heap[c] = "none", Dropped(c)',
           c \in Honest => peer[c] = "closed" \/ CutShort(c)
    PROVE  StreamOf(c)'
<1>1. Fresh(c)' /\ Ordered(c)'
  BY DEF StreamOf, Fresh, Ordered, SameStream
<1>2. CutShort(c) => CutShort(c)'
  BY DEF CutShort, SameStream
<1> QED
  BY <1>1, <1>2 DEF StreamOf

\* Parsing takes the next chunk of the stream.
LEMMA HeadAllowed ==
    ASSUME TypeOK, NEW c \in Conns, Contiguous(c), buff[c] # <<>>
    PROVE  Head(buff[c]) \in Allowed(c, Parsed(c))
<1>1. PICK b \in Seq(Chunks) : b = buff[c]
  BY Counts
<1>2. Head(b) = b[1] /\ Len(b) \in Nat /\ 1 \in 1 .. Len(b)
  BY <1>1, HeadTailProperties, LenProperties
<1>3. Parsed(c) + 1 - 1 = Parsed(c)
  BY Counts
<1>4. buff[c][1] \in Allowed(c, Parsed(c) + 1 - 1)
  BY <1>1, <1>2 DEF Contiguous
<1> QED
  BY <1>1, <1>2, <1>3, <1>4

LEMMA TailContiguous ==
    ASSUME TypeOK, NEW c \in Conns, Contiguous(c), buff[c] # <<>>, buff'[c] = Tail(buff[c]),
           UNCHANGED <<sent, inbox, peer>>, Parsed(c)' = Parsed(c) + 1
    PROVE  Contiguous(c)'
<1>1. PICK b \in Seq(Chunks), p \in Nat : b = buff[c] /\ p = Parsed(c)
  BY Counts
<1>2. PICK m \in Nat, l \in Nat, n \in Nat : m = Len(b) /\ l = Len(inbox[c]) /\ n = sent[c]
  BY <1>1, Counts
<1>3. /\ m > 0 /\ Len(Tail(b)) = m - 1
      /\ \A i \in 1 .. m - 1 : Tail(b)[i] = b[i + 1]
  BY <1>1, <1>2, HeadTailProperties
<1>4. /\ p + m + l <= n
      /\ peer[c] # "closed" => p + m + l = n
      /\ \A i \in 1 .. m : b[i] \in Allowed(c, p + i - 1)
      /\ \A i \in 1 .. l : inbox[c][i] \in Allowed(c, p + m + i - 1)
  BY <1>1, <1>2 DEF Contiguous
<1>5. /\ (p + 1) + (m - 1) + l <= n
      /\ peer[c] # "closed" => (p + 1) + (m - 1) + l = n
  BY <1>4
<1>6. ASSUME NEW i \in 1 .. m - 1
      PROVE  Tail(b)[i] \in Allowed(c, (p + 1) + i - 1)
  <2>1. i + 1 \in 1 .. m /\ p + (i + 1) - 1 = (p + 1) + i - 1
    OBVIOUS
  <2> QED
    BY <1>3, <1>4, <2>1
<1>7. ASSUME NEW i \in 1 .. l
      PROVE  inbox[c][i] \in Allowed(c, (p + 1) + (m - 1) + i - 1)
  <2>1. p + m + i - 1 = (p + 1) + (m - 1) + i - 1
    OBVIOUS
  <2> QED
    BY <1>4, <2>1
<1>8. Parsed(c)' = p + 1 /\ buff'[c] = Tail(b) /\ Len(buff'[c]) = m - 1 /\ sent'[c] = n /\ inbox'[c] = inbox[c]
      /\ Len(inbox'[c]) = l /\ peer'[c] = peer[c]
  BY <1>1, <1>2, <1>3
<1> QED
  BY <1>5, <1>6, <1>7, <1>8 DEF Contiguous, Allowed, Proper

\* buffer_fill moves a first part of the receive queue to the end of the buffer.
LEMMA FillSeq ==
    ASSUME NEW S, NEW b \in Seq(S), NEW s \in Seq(S), NEW n \in 1 .. Len(s)
    PROVE  /\ Len(b \o SubSeq(s, 1, n)) = Len(b) + n
           /\ Len(SubSeq(s, n + 1, Len(s))) = Len(s) - n
           /\ \A i \in 1 .. Len(b) : (b \o SubSeq(s, 1, n))[i] = b[i]
           /\ \A i \in 1 .. n : (b \o SubSeq(s, 1, n))[Len(b) + i] = s[i]
           /\ \A i \in 1 .. Len(s) - n : SubSeq(s, n + 1, Len(s))[i] = s[n + i]
<1>1. Len(s) \in Nat /\ Len(b) \in Nat /\ n \in Nat /\ 1 <= n /\ n <= Len(s)
  BY LenProperties
<1>2. \A i \in 1 .. Len(s) : s[i] \in S
  BY ElementOfSeq
<1> DEFINE t == SubSeq(s, 1, n)
           u == SubSeq(s, n + 1, Len(s))
<1>3. t \in Seq(S) /\ Len(t) = n /\ \A i \in 1 .. n : t[i] = s[i]
  OBVIOUS
<1>4. u \in Seq(S) /\ Len(u) = Len(s) - n /\ \A i \in 1 .. Len(s) - n : u[i] = s[n + i]
  OBVIOUS
<1> HIDE DEF t, u
<1>5. /\ Len(b \o t) = Len(b) + n
      /\ \A i \in 1 .. Len(b) + n : (b \o t)[i] = IF i <= Len(b) THEN b[i] ELSE t[i - Len(b)]
  BY <1>3, ConcatProperties, ZenonT(60)
<1>6. \A i \in 1 .. Len(b) : (b \o t)[i] = b[i]
  BY <1>1, <1>5
<1>7. \A i \in 1 .. n : (b \o t)[Len(b) + i] = s[i]
  BY <1>1, <1>3, <1>5
<1> QED
  BY <1>4, <1>5, <1>6, <1>7 DEF t, u

LEMMA FillStream ==
    ASSUME IInv, StreamInv, NEW w \in Workers, Fill(w)
    PROVE  StreamOf(holding[w])'
<1> USE DEF ctxVars, epollVars, reactorVars
<1>0. TypeOK /\ wpc[w] = "fill" /\ wpc[w] \in ConnPoints
  BY DEF IInv, Fill, ConnPoints
<1>1. PICK c \in Conns : c = holding[w] /\ fds[fd[c]] = c /\ heap[c] = "live"
  BY <1>0, InHand
<1>2. UNCHANGED <<peer, sent, replies, heap, magic_read, req, holding>>
  BY DEF Fill
<1>3. StreamOf(c) /\ ~Dropped(c) /\ ~Answering(c)
  BY <1>0, <1>1, OwnPlaces DEF StreamInv
<1>4. SUFFICES StreamOf(c)'
  BY <1>1, <1>2
<1>5. CASE /\ \E n \in 1 .. Len(inbox[c]) :
                /\ buff' = [buff EXCEPT ![c] = @ \o SubSeq(inbox[c], 1, n)]
                /\ inbox' = [inbox EXCEPT ![c] = SubSeq(@, n + 1, Len(@))]
           /\ wpc' = [wpc EXCEPT ![w] = "parse"]
  <2>0. wpc'[w] = "parse" /\ heap'[c] = "live"
    BY <1>0, <1>1, <1>2, <1>5 DEF TypeOK
  <2>1. ~Answering(c)' /\ ~Dropped(c)'
    <3>1. /\ Answering(holding[w])' <=> wpc'[w] = "respond"
          /\ Dropped(holding[w])' <=> heap'[holding[w]] = "freed" \/ wpc'[w] \in {"del", "destroy"}
      BY <1>0, <1>2, <1>5, HandPlaces
    <3> QED
      BY <1>1, <1>2, <2>0, <3>1
  <2>2. Parsed(c)' = Parsed(c) /\ Ordered(c)' /\ Fresh(c)' /\ Current(c)'
    BY <1>1, <1>2, <1>3, <2>1 DEF Parsed, StreamOf, Ordered, Fresh, Current
  <2>3. PICK n \in 1 .. Len(inbox[c]) : /\ buff'[c] = buff[c] \o SubSeq(inbox[c], 1, n)
                                        /\ inbox'[c] = SubSeq(inbox[c], n + 1, Len(inbox[c]))
    BY <1>0, <1>5 DEF TypeOK
  <2>4. PICK b \in Seq(Chunks), s \in Seq(Chunks), p \in Nat, m \in Nat :
             b = buff[c] /\ s = inbox[c] /\ p = Parsed(c) /\ m = sent[c]
    BY <1>0, Counts
  <2>5. PICK lb \in Nat, ls \in Nat : lb = Len(b) /\ ls = Len(s)
    BY <2>4, LenProperties
  <2>6. n \in 1 .. Len(s) /\ n \in 1 .. ls
    BY <2>3, <2>4, <2>5
  <2>7. /\ Len(buff'[c]) = lb + n /\ Len(inbox'[c]) = ls - n
        /\ \A i \in 1 .. lb : buff'[c][i] = b[i]
        /\ \A i \in 1 .. n : buff'[c][lb + i] = s[i]
        /\ \A i \in 1 .. ls - n : inbox'[c][i] = s[n + i]
    BY <2>3, <2>4, <2>5, <2>6, FillSeq, SMTT(30)
  <2>8. /\ p + lb + ls <= m
        /\ peer[c] # "closed" => p + lb + ls = m
        /\ \A i \in 1 .. lb : b[i] \in Allowed(c, p + i - 1)
        /\ \A i \in 1 .. ls : s[i] \in Allowed(c, p + lb + i - 1)
    BY <1>3, <2>4, <2>5 DEF StreamOf, Contiguous
  <2>9. /\ p + (lb + n) + (ls - n) <= m
        /\ peer[c] # "closed" => p + (lb + n) + (ls - n) = m
    BY <2>6, <2>8
  <2>10. ASSUME NEW i \in 1 .. lb + n
         PROVE  buff'[c][i] \in Allowed(c, p + i - 1)
    <3>1. CASE i \in 1 .. lb
      BY <2>7, <2>8, <3>1
    <3>2. CASE i \notin 1 .. lb
      <4>1. PICK j \in 1 .. n : i = lb + j
        <5>1. i - lb \in 1 .. n /\ i = lb + (i - lb)
          BY <2>6, <3>2
        <5> QED
          BY <5>1
      <4>2. j \in 1 .. ls /\ p + lb + j - 1 = p + i - 1
        BY <2>6, <4>1
      <4> QED
        BY <2>7, <2>8, <4>1, <4>2
    <3> QED
      BY <3>1, <3>2
  <2>11. ASSUME NEW i \in 1 .. ls - n
         PROVE  inbox'[c][i] \in Allowed(c, p + (lb + n) + i - 1)
    <3>1. n + i \in 1 .. ls /\ p + lb + (n + i) - 1 = p + (lb + n) + i - 1
      BY <2>6
    <3> QED
      BY <2>7, <2>8, <3>1
  <2>12. Contiguous(c)'
    <3>1. Parsed(c)' = p /\ sent'[c] = m /\ peer'[c] = peer[c]
      BY <1>2, <2>2, <2>4
    <3> QED
      BY <2>7, <2>9, <2>10, <2>11, <3>1 DEF Contiguous, Allowed, Proper
  <2> QED
    BY <2>1, <2>2, <2>12 DEF StreamOf
<1>6. CASE /\ peer[c] = "closed" /\ wpc' = [wpc EXCEPT ![w] = "del"]
           /\ UNCHANGED <<buff, inbox>>
  <2>1. Dropped(holding[w])' <=> heap'[holding[w]] = "freed" \/ wpc'[w] \in {"del", "destroy"}
    BY <1>0, <1>2, <1>6, HandPlaces
  <2>2. wpc'[w] = "del"
    BY <1>0, <1>6 DEF TypeOK
  <2>3. Dropped(c)' /\ SameStream(c)
    BY <1>1, <1>2, <1>6, <2>1, <2>2 DEF SameStream
  <2> QED
    BY <1>2, <1>3, <1>6, <2>3, GiveUp
<1> QED
  BY <1>1, <1>5, <1>6 DEF Fill, Goto

\* Steps of cfd_callback that parse nothing: waiting, enabling, hanging up.
LEMMA QuietStream ==
    ASSUME IInv, StreamInv, NEW w \in Workers, NotReady(w) \/ Rearm(w) \/ Del(w) \/ Destroy(w)
    PROVE  StreamOf(holding[w])'
<1> USE DEF ctxVars, clientVars, epollVars, reactorVars
<1>0. TypeOK /\ wpc[w] \in ConnPoints
  BY DEF IInv, NotReady, Rearm, Del, Destroy, ConnPoints
<1>1. PICK c \in Conns : c = holding[w] /\ heap[c] = "live"
  BY <1>0, InHand
<1>2. UNCHANGED <<peer, sent, inbox, replies, magic_read, req, buff, holding>> /\ SameStream(c)
  BY DEF NotReady, Rearm, Del, Destroy, SameStream
<1>3. StreamOf(c) /\ (Answering(c) <=> wpc[w] = "respond") /\ (Dropped(c) <=> wpc[w] \in {"del", "destroy"})
  BY <1>0, <1>1, OwnPlaces DEF StreamInv
<1>4. \E point : wpc' = [wpc EXCEPT ![w] = point]
  BY DEF NotReady, Rearm, Del, Destroy, Goto
<1>5. /\ Answering(c)' <=> wpc'[w] = "respond"
      /\ Dropped(c)' <=> heap'[c] = "freed" \/ wpc'[w] \in {"del", "destroy"}
  <2>1. /\ Answering(holding[w])' <=> wpc'[w] = "respond"
        /\ Dropped(holding[w])' <=> heap'[holding[w]] = "freed" \/ wpc'[w] \in {"del", "destroy"}
    <3>1. PICK point : wpc' = [wpc EXCEPT ![w] = point]
      BY <1>4
    <3> QED
      BY <1>0, <1>2, <3>1, HandPlaces
  <2> QED
    BY <1>1, <1>2, <2>1
<1>6. SUFFICES StreamOf(c)'
  BY <1>1, <1>2
<1>7. CASE NotReady(w) \/ Rearm(w)
  <2>1. wpc[w] \in {"parse", "rearm"} /\ wpc'[w] \in {"rearm", "return"} /\ heap' = heap
    BY <1>0, <1>7 DEF NotReady, Rearm, Goto, TypeOK
  <2>2. (Answering(c)' <=> Answering(c)) /\ (Dropped(c)' <=> Dropped(c))
    BY <1>1, <1>3, <1>5, <2>1
  <2> QED
    BY <1>2, <1>3, <2>1, <2>2, StreamFrame
<1>8. CASE Del(w) \/ Destroy(w)
  <2>1. wpc[w] \in {"del", "destroy"} /\ (wpc'[w] = "destroy" \/ heap'[c] = "freed")
    BY <1>0, <1>1, <1>8 DEF Del, Destroy, Goto, TypeOK
  <2>2. heap'[c] = "none" => heap[c] = "none"
    BY <1>0, <1>1, <1>8 DEF Del, Destroy, TypeOK
  <2>3. Dropped(c)' /\ (c \in Honest => peer[c] = "closed" \/ CutShort(c))
    BY <1>3, <1>5, <2>1 DEF StreamOf
  <2> QED
    BY <1>2, <1>3, <2>2, <2>3, GiveUp
<1> QED
  BY <1>7, <1>8

\* read_request and handle_request: a chunk of the wrong kind, an unknown service or a
\* lost peer ends the connection, the expected chunk is taken from the buffer.
LEMMA ReadMagicStream ==
    ASSUME IInv, StreamInv, NEW w \in Workers, ReadMagic(w)
    PROVE  StreamOf(holding[w])'
<1> USE DEF clientVars, epollVars, reactorVars
<1>0. TypeOK /\ wpc[w] = "parse" /\ wpc[w] \in ConnPoints
  BY DEF IInv, ReadMagic, ConnPoints
<1>1. PICK c \in Conns : c = holding[w] /\ heap[c] = "live"
  BY <1>0, InHand
<1>2. /\ UNCHANGED <<peer, sent, inbox, replies, heap, req, holding>>
      /\ buff[c] # <<>> /\ ~magic_read[c]
  BY <1>1 DEF ReadMagic
<1>3. StreamOf(c) /\ ~Dropped(c) /\ ~Answering(c)
  BY <1>0, <1>1, OwnPlaces DEF StreamInv
<1>4. SUFFICES StreamOf(c)'
  BY <1>1, <1>2
<1>5. Parsed(c) = 0 /\ Head(buff[c]) \in Allowed(c, 0)
  BY <1>0, <1>2, <1>3, HeadAllowed DEF Parsed, StreamOf
<1>6. CASE /\ buff' = [buff EXCEPT ![c] = Tail(@)]
           /\ magic_read' = [magic_read EXCEPT ![c] = TRUE]
           /\ wpc' = wpc
  <2>1. ~Answering(c)' /\ ~Dropped(c)'
    <3>1. /\ Answering(holding[w])' <=> wpc'[w] = "respond"
          /\ Dropped(holding[w])' <=> heap'[holding[w]] = "freed" \/ wpc'[w] \in {"del", "destroy"}
      BY <1>0, <1>2, <1>6, HandPlaces
    <3> QED
      BY <1>0, <1>1, <1>2, <1>6, <3>1
  <2>2. buff'[c] = Tail(buff[c]) /\ magic_read'[c]
    BY <1>0, <1>6 DEF TypeOK
  <2>3. Fresh(c)' /\ Ordered(c)'
    BY <1>1, <1>2, <1>3, <2>2 DEF StreamOf, Fresh, Ordered
  <2>4. replies[c] = <<>> /\ req[c].state = "READING_REQUEST_LINE"
    BY <1>2, <1>3 DEF StreamOf, Fresh
  <2>5. Parsed(c)' = Parsed(c) + 1
    <3>1. Len(replies'[c]) = 0 /\ req'[c].state # "READING_ARGS"
      BY <1>2, <2>4
    <3>2. PICK n \in Nat : n = Len(replies'[c]) /\ n = 0
      BY <3>1
    <3>3. Parsed(c)' = 1 + 2 * n + 0
      BY <2>1, <2>2, <3>1, <3>2 DEF Parsed
    <3>4. Parsed(c)' = 1
      BY <3>2, <3>3
    <3> QED
      BY <1>5, <3>4
  <2>6. Contiguous(c)'
    BY <1>0, <1>2, <1>3, <2>2, <2>5, TailContiguous DEF StreamOf
  <2>7. Current(c)'
    BY <1>2, <2>1, <2>2, <2>4 DEF Current
  <2> QED
    BY <2>1, <2>3, <2>6, <2>7 DEF StreamOf
<1>7. CASE /\ Head(buff[c]).kind # "magic" /\ wpc' = [wpc EXCEPT ![w] = "del"]
           /\ UNCHANGED <<buff, magic_read>>
  <2>1. Dropped(holding[w])' <=> heap'[holding[w]] = "freed" \/ wpc'[w] \in {"del", "destroy"}
    BY <1>0, <1>2, <1>7, HandPlaces
  <2>2. wpc'[w] = "del"
    BY <1>0, <1>7 DEF TypeOK
  <2>3. Dropped(c)' /\ SameStream(c)
    BY <1>1, <1>2, <1>7, <2>1, <2>2 DEF SameStream
  <2>4. c \notin Honest
    BY <1>5, <1>7, ProperValue DEF Allowed
  <2> QED
    BY <1>2, <1>3, <2>3, <2>4, GiveUp
<1> QED
  BY <1>1, <1>6, <1>7 DEF ReadMagic, Goto

\* The request a line starts is the next one.
LEMMA ReadRequestLineStream ==
    ASSUME IInv, StreamInv, NEW w \in Workers, ReadRequestLine(w)
    PROVE  StreamOf(holding[w])'
<1> USE DEF clientVars, epollVars, reactorVars
<1>0. TypeOK /\ wpc[w] = "parse" /\ wpc[w] \in ConnPoints
  BY DEF IInv, ReadRequestLine, ConnPoints
<1>1. PICK c \in Conns : c = holding[w] /\ heap[c] = "live"
  BY <1>0, InHand
<1>2. /\ UNCHANGED <<peer, sent, inbox, replies, heap, magic_read, holding>>
      /\ buff[c] # <<>> /\ magic_read[c] /\ req[c].state = "READING_REQUEST_LINE"
  BY <1>1 DEF ReadRequestLine
<1>3. StreamOf(c) /\ ~Dropped(c) /\ ~Answering(c)
  BY <1>0, <1>1, OwnPlaces DEF StreamInv
<1>4. SUFFICES StreamOf(c)'
  BY <1>1, <1>2
<1>5. PICK n \in Nat : n = Len(replies[c])
  BY <1>0, Counts
<1>6. PICK k : k = Head(buff[c])
  OBVIOUS
<1>7. Parsed(c) = 1 + 2 * n /\ k \in Allowed(c, 1 + 2 * n)
  <2>1. Parsed(c) = 1 + 2 * n + 0
    BY <1>2, <1>3, <1>5 DEF Parsed
  <2>2. Parsed(c) = 1 + 2 * n
    BY <2>1
  <2> QED
    BY <1>0, <1>2, <1>3, <1>6, <2>2, HeadAllowed DEF StreamOf
<1>8. CASE /\ k.kind \in {"line", "no_service"}
           /\ buff' = [buff EXCEPT ![c] = Tail(@)]
           /\ req' = [req EXCEPT ![c] = [state |-> "READING_ARGS", seq |-> k.seq, known |-> k.kind = "line"]]
           /\ wpc' = wpc
  <2>1. ~Answering(c)' /\ ~Dropped(c)'
    <3>1. /\ Answering(holding[w])' <=> wpc'[w] = "respond"
          /\ Dropped(holding[w])' <=> heap'[holding[w]] = "freed" \/ wpc'[w] \in {"del", "destroy"}
      BY <1>0, <1>2, <1>8, HandPlaces
    <3> QED
      BY <1>0, <1>1, <1>2, <1>8, <3>1
  <2>2. /\ buff'[c] = Tail(buff[c])
        /\ req'[c] = [state |-> "READING_ARGS", seq |-> k.seq, known |-> k.kind = "line"]
    BY <1>0, <1>8 DEF TypeOK
  <2>3. Fresh(c)' /\ Ordered(c)'
    BY <1>1, <1>2, <1>3 DEF StreamOf, Fresh, Ordered
  <2>4. Parsed(c)' = Parsed(c) + 1
    <3>1. Parsed(c)' = 1 + 2 * n + 1
      BY <1>2, <1>5, <2>2 DEF Parsed
    <3> QED
      BY <1>7, <3>1
  <2>5. Contiguous(c)'
    BY <1>0, <1>2, <1>3, <2>2, <2>4, TailContiguous DEF StreamOf
  <2>6. /\ k.kind = "line" => k.seq = n + 1
        /\ c \in Honest => k.kind = "line"
    <3>1. Proper(1 + 2 * n) = [kind |-> "line", seq |-> n + 1]
      BY <1>5, ProperValue
    <3>2. PICK q : q = Proper(1 + 2 * n)
      OBVIOUS
    <3>3. k = q \/ (c \notin Honest /\ k.kind \in {"junk", "no_service"})
      BY <1>7, <3>2 DEF Allowed
    <3>4. q.kind = "line" /\ q.seq = n + 1
      BY <3>1, <3>2
    <3> QED
      BY <3>3, <3>4
  <2>7. Current(c)'
    <3>0. PICK b : b = (k.kind = "line")
      OBVIOUS
    <3>1. /\ req'[c].state = "READING_ARGS" /\ req'[c].seq = k.seq
          /\ req'[c].known <=> k.kind = "line"
      <4>1. req'[c] = [state |-> "READING_ARGS", seq |-> k.seq, known |-> b]
        BY <2>2, <3>0, Zenon
      <4>2. req'[c].state = "READING_ARGS" /\ req'[c].seq = k.seq /\ req'[c].known = b
        BY <4>1
      <4> QED
        BY <3>0, <4>2, Zenon
    <3>2. /\ req'[c].known => req'[c].seq = Len(replies[c]) + 1
          /\ c \in Honest => req'[c].known
      BY <1>5, <2>6, <3>1
    <3> QED
      BY <1>2, <2>1, <3>2 DEF Current
  <2> QED
    BY <2>1, <2>3, <2>5, <2>7 DEF StreamOf
<1>9. CASE /\ k.kind \notin {"line", "no_service"} /\ wpc' = [wpc EXCEPT ![w] = "del"]
           /\ UNCHANGED <<buff, req>>
  <2>1. Dropped(holding[w])' <=> heap'[holding[w]] = "freed" \/ wpc'[w] \in {"del", "destroy"}
    BY <1>0, <1>2, <1>9, HandPlaces
  <2>2. wpc'[w] = "del"
    BY <1>0, <1>9 DEF TypeOK
  <2>3. Dropped(c)' /\ SameStream(c)
    BY <1>1, <1>2, <1>9, <2>1, <2>2 DEF SameStream
  <2>4. c \notin Honest
    <3>1. Proper(1 + 2 * n) = [kind |-> "line", seq |-> n + 1]
      BY <1>5, ProperValue
    <3>2. PICK q : q = Proper(1 + 2 * n)
      OBVIOUS
    <3>3. q.kind = "line" /\ (c \in Honest => k = q)
      BY <1>7, <3>1, <3>2 DEF Allowed
    <3> QED
      BY <1>9, <3>3
  <2> QED
    BY <1>2, <1>3, <2>3, <2>4, GiveUp
<1> QED
  BY <1>1, <1>6, <1>8, <1>9 DEF ReadRequestLine, Goto

LEMMA ReadArgsStream ==
    ASSUME IInv, StreamInv, NEW w \in Workers, ReadArgs(w)
    PROVE  StreamOf(holding[w])'
<1> USE DEF clientVars, epollVars, reactorVars
<1>0. TypeOK /\ wpc[w] = "parse" /\ wpc[w] \in ConnPoints
  BY DEF IInv, ReadArgs, ConnPoints
<1>1. PICK c \in Conns : c = holding[w] /\ heap[c] = "live"
  BY <1>0, InHand
<1>2. /\ UNCHANGED <<peer, sent, inbox, replies, heap, magic_read, holding>>
      /\ buff[c] # <<>> /\ magic_read[c] /\ req[c].state = "READING_ARGS"
      /\ buff' = [buff EXCEPT ![c] = Tail(@)]
      /\ req' = [req EXCEPT ![c].state = "READING_REQUEST_LINE"]
      /\ wpc' = [wpc EXCEPT ![w] = "respond"]
  BY <1>1 DEF ReadArgs, Goto
<1>3. StreamOf(c) /\ ~Dropped(c) /\ ~Answering(c)
  BY <1>0, <1>1, OwnPlaces DEF StreamInv
<1>4. SUFFICES StreamOf(c)'
  BY <1>1, <1>2
<1>5. PICK n \in Nat : n = Len(replies[c])
  BY <1>0, Counts
<1>6. Answering(c)' /\ ~Dropped(c)'
  <2>1. /\ Answering(holding[w])' <=> wpc'[w] = "respond"
        /\ Dropped(holding[w])' <=> heap'[holding[w]] = "freed" \/ wpc'[w] \in {"del", "destroy"}
    BY <1>0, <1>2, HandPlaces
  <2>2. wpc'[w] = "respond"
    BY <1>0, <1>2 DEF TypeOK
  <2> QED
    BY <1>1, <1>2, <2>1, <2>2
<1>7. /\ buff'[c] = Tail(buff[c])
      /\ req'[c].state = "READING_REQUEST_LINE" /\ req'[c].seq = req[c].seq /\ req'[c].known = req[c].known
  BY <1>0, <1>2 DEF TypeOK, Requests
<1>8. Fresh(c)' /\ Ordered(c)'
  BY <1>1, <1>2, <1>3 DEF StreamOf, Fresh, Ordered
<1>9. Parsed(c)' = Parsed(c) + 1
  <2>1. Parsed(c) = 1 + 2 * n + 1 /\ Parsed(c)' = 1 + 2 * n + 2
    BY <1>2, <1>5, <1>6, <1>7 DEF Parsed
  <2> QED
    BY <2>1
<1>10. Contiguous(c)'
  BY <1>0, <1>2, <1>3, <1>7, <1>9, TailContiguous DEF StreamOf
<1>11. Current(c)'
  BY <1>2, <1>3, <1>7 DEF StreamOf, Current
<1> QED
  BY <1>6, <1>8, <1>10, <1>11 DEF StreamOf

\* A request being answered is the next one, and all of it was sent.
LEMMA NextRequest ==
    ASSUME TypeOK, NEW c \in Conns, Contiguous(c), Current(c), Answering(c), req[c].known
    PROVE  req[c].seq = Len(replies[c]) + 1 /\ sent[c] > 2 * req[c].seq
<1>1. PICK n \in Nat, lb \in Nat, li \in Nat, m \in Nat :
          n = Len(replies[c]) /\ lb = Len(buff[c]) /\ li = Len(inbox[c]) /\ m = sent[c]
  BY Counts
<1>2. magic_read[c] /\ req[c].state = "READING_REQUEST_LINE" /\ req[c].seq = n + 1
  BY <1>1 DEF Current
<1>3. 2 * (n + 1) < m
  <2>1. Parsed(c) = 1 + 2 * n + 2
    BY <1>1, <1>2 DEF Parsed
  <2>2. (1 + 2 * n + 2) + lb + li <= m
    BY <1>1, <2>1 DEF Contiguous
  <2>3. n \in Nat /\ lb \in Nat /\ li \in Nat /\ m \in Nat
    BY <1>1
  <2> QED
    BY <2>2, <2>3
<1>4. m > 2 * (n + 1)
  BY <1>3
<1> QED
  BY <1>1, <1>2, <1>4

\* Its response, when written in full, is the next one.
LEMMA NextResponse ==
    ASSUME TypeOK, NEW c \in Conns, Ordered(c), Contiguous(c), Current(c), Answering(c),
           req[c].known, replies' = [replies EXCEPT ![c] = Append(@, req[c].seq)], sent' = sent
    PROVE  Len(replies'[c]) = Len(replies[c]) + 1 /\ Ordered(c)'
<1>1. PICK n \in Nat, m \in Nat : n = Len(replies[c]) /\ m = sent[c]
  BY Counts
<1>2. req[c].seq = n + 1 /\ 2 * (n + 1) < m
  <2>1. req[c].seq = n + 1 /\ m > 2 * (n + 1)
    BY <1>1, NextRequest
  <2> QED
    BY <1>1, <2>1
<1>3. /\ Len(replies'[c]) = n + 1
      /\ \A i \in 1 .. n : replies'[c][i] = replies[c][i]
      /\ replies'[c][n + 1] = n + 1
  <2>1. replies[c] \in Seq(0 .. MaxReqs) /\ n + 1 \in 0 .. MaxReqs
    BY <1>2 DEF TypeOK, Requests
  <2>2. replies'[c] = Append(replies[c], n + 1)
    BY <1>2 DEF TypeOK
  <2> QED
    BY <1>1, <2>1, <2>2, AppendProperties
<1>4. \A i \in 1 .. n + 1 : replies'[c][i] = i
  <2>1. \A i \in 1 .. n : replies[c][i] = i
    BY <1>1 DEF Ordered
  <2>2. \A i \in 1 .. n + 1 : i \in 1 .. n \/ i = n + 1
    OBVIOUS
  <2> QED
    BY <1>3, <2>1, <2>2
<1> QED
  BY <1>1, <1>2, <1>3, <1>4 DEF Ordered

\* The response is the next one; one that goes past wbuf is the last.
LEMMA RespondStream ==
    ASSUME IInv, StreamInv, NEW w \in Workers, Respond(w)
    PROVE  StreamOf(holding[w])'
<1> USE DEF clientVars, epollVars, reactorVars
<1>0. TypeOK /\ wpc[w] = "respond" /\ wpc[w] \in ConnPoints
  BY DEF IInv, Respond, ConnPoints
<1>1. PICK c \in Conns : c = holding[w] /\ fds[fd[c]] = c /\ heap[c] = "live"
  BY <1>0, InHand
<1>2. UNCHANGED <<peer, sent, inbox, heap, magic_read, buff, holding>>
  BY DEF Respond
<1>3. StreamOf(c) /\ ~Dropped(c) /\ Answering(c)
  BY <1>0, <1>1, OwnPlaces DEF StreamInv
<1>4. SUFFICES StreamOf(c)'
  BY <1>1, <1>2
<1>5. Fresh(c) /\ Ordered(c) /\ Contiguous(c) /\ Current(c)
  BY <1>3 DEF StreamOf
<1>6. /\ magic_read[c] /\ req[c].state = "READING_REQUEST_LINE"
      /\ req[c].known => req[c].seq = Len(replies[c]) + 1
      /\ c \in Honest => req[c].known
  BY <1>3, <1>5 DEF Current
<1>7. ASSUME replies' = [replies EXCEPT ![c] = Append(@, req[c].seq)], req[c].known
      PROVE  Len(replies'[c]) = Len(replies[c]) + 1 /\ Ordered(c)'
  BY <1>0, <1>2, <1>3, <1>5, <1>7, NextResponse
<1>8. ASSUME wpc' = [wpc EXCEPT ![w] = "del"]
      PROVE  Dropped(c)'
  <2>1. Dropped(holding[w])' <=> heap'[holding[w]] = "freed" \/ wpc'[w] \in {"del", "destroy"}
    BY <1>0, <1>2, <1>8, HandPlaces
  <2>2. wpc'[w] = "del"
    BY <1>0, <1>8 DEF TypeOK
  <2> QED
    BY <1>1, <1>2, <2>1, <2>2
<1>9. CASE /\ req[c].known
           /\ replies' = [replies EXCEPT ![c] = Append(@, req[c].seq)]
           /\ req' = [req EXCEPT ![c] = InitReq]
           /\ wpc' = [wpc EXCEPT ![w] = "parse"]
  <2>1. ~Answering(c)' /\ ~Dropped(c)'
    <3>1. /\ Answering(holding[w])' <=> wpc'[w] = "respond"
          /\ Dropped(holding[w])' <=> heap'[holding[w]] = "freed" \/ wpc'[w] \in {"del", "destroy"}
      BY <1>0, <1>2, <1>9, HandPlaces
    <3>2. wpc'[w] = "parse"
      BY <1>0, <1>9 DEF TypeOK
    <3> QED
      BY <1>1, <1>2, <3>1, <3>2
  <2>2. req'[c] = InitReq
    BY <1>0, <1>9 DEF TypeOK
  <2>3. Len(replies'[c]) = Len(replies[c]) + 1 /\ Ordered(c)'
    BY <1>7, <1>9
  <2>4. Parsed(c)' = Parsed(c)
    <3>1. PICK n \in Nat : n = Len(replies[c])
      BY <1>0, Counts
    <3>2. Parsed(c) = 1 + 2 * n + 2
      BY <1>3, <1>6, <3>1 DEF Parsed
    <3>3. Parsed(c)' = 1 + 2 * (n + 1) + 0
      BY <1>2, <1>6, <2>1, <2>2, <2>3, <3>1 DEF Parsed, InitReq
    <3> QED
      BY <3>2, <3>3
  <2>5. Contiguous(c)'
    BY <1>2, <1>5, <2>4 DEF Contiguous, Allowed, Proper
  <2>6. Fresh(c)' /\ Current(c)'
    BY <1>1, <1>2, <1>6, <2>1, <2>2 DEF Fresh, Current, InitReq
  <2> QED
    BY <2>1, <2>3, <2>5, <2>6 DEF StreamOf
<1>10. CASE /\ req[c].known
            /\ <<c, req[c].seq>> \in Large
            /\ replies' \in {[replies EXCEPT ![c] = Append(@, req[c].seq)], replies}
            /\ wpc' = [wpc EXCEPT ![w] = "del"]
            /\ UNCHANGED req
  <2>1. req[c].seq \in 1 .. MaxReqs
    BY <1>10, LargeAssumption
  <2>2. Fresh(c)' /\ Ordered(c)'
    <3>1. Fresh(c)'
      BY <1>1, <1>2, <1>6, <1>10 DEF Fresh
    <3>2. CASE replies' = replies
      BY <1>2, <1>5, <3>1, <3>2 DEF Ordered
    <3>3. CASE replies' = [replies EXCEPT ![c] = Append(@, req[c].seq)]
      BY <1>7, <1>10, <3>1, <3>3
    <3> QED
      BY <1>10, <3>1, <3>2, <3>3
  <2>3. CutShort(c)'
    <3>1. PICK n \in Nat : n = Len(replies[c])
      BY <1>0, Counts
    <3>2. req[c].seq = n + 1 /\ sent[c] > 2 * req[c].seq
      BY <1>0, <1>3, <1>5, <1>10, <3>1, NextRequest
    <3>3. Len(replies'[c]) \in {req[c].seq - 1, req[c].seq}
      <4>1. Len(replies'[c]) = n \/ Len(replies'[c]) = n + 1
        BY <1>7, <1>10, <3>1
      <4>2. (n + 1) - 1 = n
        OBVIOUS
      <4> QED
        BY <3>2, <4>1, <4>2
    <3> QED
      <4>1. sent'[c] > 2 * req[c].seq
        BY <1>2, <3>2
      <4> QED
        BY <1>10, <2>1, <3>3, <4>1 DEF CutShort
  <2> QED
    BY <1>8, <1>10, <2>2, <2>3 DEF StreamOf
<1>11. CASE /\ ~req[c].known \/ peer[c] = "closed"
            /\ wpc' = [wpc EXCEPT ![w] = "del"]
            /\ UNCHANGED <<replies, req>>
  <2>1. Dropped(c)' /\ SameStream(c)
    BY <1>2, <1>8, <1>11 DEF SameStream
  <2> QED
    BY <1>2, <1>3, <1>6, <1>11, <2>1, GiveUp
<1> QED
  BY <1>1, <1>9, <1>10, <1>11 DEF Respond, Goto

-----------------------------------------------------------------------------
(* The theorems. *)

LEMMA InitStream == Init => StreamInv
<1> SUFFICES ASSUME Init, NEW c \in Conns
             PROVE  StreamOf(c)
  BY DEF StreamInv
<1>1. /\ heap[c] = "none" /\ buff[c] = <<>> /\ inbox[c] = <<>> /\ replies[c] = <<>> /\ sent[c] = 0
      /\ ~magic_read[c] /\ req[c] = InitReq /\ peer[c] = "new"
      /\ \A w \in Workers : wpc[w] = "idle"
  BY DEF Init
<1>2. Len(buff[c]) = 0 /\ Len(inbox[c]) = 0 /\ Len(replies[c]) = 0
  BY <1>1
<1>3. ~Answering(c) /\ ~Dropped(c) /\ Parsed(c) = 0
  BY <1>1 DEF Answering, Dropped, Parsed
<1>4. Fresh(c) /\ Ordered(c) /\ Current(c)
  BY <1>1, <1>2, <1>3 DEF Fresh, Ordered, Current, InitReq
<1>5. Contiguous(c)
  BY <1>1, <1>2, <1>3 DEF Contiguous
<1> QED
  BY <1>3, <1>4, <1>5 DEF StreamOf

LEMMA NextStream ==
    ASSUME IInv, StreamInv, [Next]_vars
    PROVE  StreamInv'
<1>0. TypeOK
  BY DEF IInv
<1>1. ASSUME NEW c \in Conns, ClientStep(c)
      PROVE  StreamInv'
  BY <1>0, <1>1, ConnectStream, SendStream, CloseStream, ResetStream DEF ClientStep
<1>2. CASE ReactorStep
  BY <1>2, ReactorStream
<1>3. ASSUME NEW w \in Workers, WorkerStep(w)
      PROVE  StreamInv'
  <2>1. CASE Take(w) \/ Return(w) \/ Stop(w)
    BY <1>0, <2>1, TaskStream
  <2>2. CASE LfdCallback(w)
    BY <2>2, ListenerStream
  <2>3. CASE CfdCallback(w)
    <3>1. StreamOf(holding[w])'
      BY <2>3, FillStream, QuietStream, ReadMagicStream, ReadRequestLineStream, ReadArgsStream,
         RespondStream DEF CfdCallback
    <3> QED
      BY <2>3, <3>1, HandStream
  <2> QED
    BY <1>3, <2>1, <2>2, <2>3 DEF WorkerStep
<1>4. CASE UNCHANGED vars
  BY <1>4, StillStep DEF vars
<1> QED
  BY <1>1, <1>2, <1>3, <1>4 DEF Next

\* IInv and StreamInv together are an invariant of the server.
THEOREM StreamsContiguous == Spec => [](IInv /\ StreamInv)
<1>1. Init => IInv /\ StreamInv
  BY InitIInv, InitStream
<1>2. (IInv /\ StreamInv) /\ [Next]_vars => (IInv /\ StreamInv)'
  BY NextIInv, NextStream
<1> QED
  BY <1>1, <1>2, PTL DEF Spec

\* cfd_callback answers the requests of a connection in the order they were sent, each once
\* and none before it was sent in full, however read cuts the bytes and whichever worker
\* runs the callback.
THEOREM ResponsesInOrder == Spec => []InOrder
<1>1. IInv /\ StreamInv => InOrder
  <2> SUFFICES ASSUME IInv, StreamInv, NEW c \in Conns
               PROVE  /\ 2 * Len(replies[c]) < sent[c] \/ replies[c] = <<>>
                      /\ \A i \in DOMAIN replies[c] : replies[c][i] = i
    BY DEF InOrder
  <2>1. replies[c] \in Seq(0 .. MaxReqs)
    BY DEF IInv, TypeOK
  <2>2. DOMAIN replies[c] = 1 .. Len(replies[c])
    BY <2>1
  <2> QED
    BY <2>2 DEF StreamInv, StreamOf, Ordered
<1> QED
  BY <1>1, StreamsContiguous, PTL

\* The bad path of cfd_callback is taken for a client that keeps to the protocol only when
\* it has closed or the response just given went past wbuf: nothing is ever misread.
THEOREM HonestClientsKept == Spec => []HonestKept
<1>1. IInv /\ StreamInv => HonestKept
  BY ConnsAssumption DEF HonestKept, StreamInv, StreamOf, Dropped
<1> QED
  BY <1>1, StreamsContiguous, PTL
=============================================================================
