-------------------------- MODULE ThreadPoolProofs --------------------------
(***************************************************************************)
(* Proofs about ThreadPool, for every set of workers, of putters, of tasks *)
(* and every capacity.                                                     *)
(***************************************************************************)
EXTENDS ThreadPool, FiniteSetTheorems, SequenceTheorems, TLAPS

USE CapAssumption, NamesAssumption, ModeAssumption, PuttersAssumption

-----------------------------------------------------------------------------
(* Arithmetic of the ring and of the sets of threads. *)

\* An index of the ring is at most one turn ahead.
LEMMA Wrap ==
    \A a \in 0 .. 2 * Cap - 1 : a % Cap = IF a < Cap THEN a ELSE a - Cap
<1> TAKE a \in 0 .. 2 * Cap - 1
<1>1. CASE a < Cap
  BY <1>1
<1>2. CASE a >= Cap
  BY <1>2
<1> QED
  BY <1>1, <1>2

\* The first slot of a ring that is not empty holds a task.
LEMMA HeadIsTask ==
    ASSUME TypeOK, RingInv, len > 0
    PROVE  slots[front] \in Tasks
<1>1. front \in 0 .. Cap - 1 /\ len \in 0 .. Cap
  BY DEF TypeOK
<1>2. Occupied(0) \in Tasks
  BY <1>1 DEF RingInv
<1>3. front + 0 = front /\ front % Cap = front
  BY <1>1, Wrap
<1> QED
  BY <1>2, <1>3 DEF Occupied

LEMMA ThreadsFinite == IsFiniteSet(Threads)
BY WorkersAssumption, FS_Union DEF Threads

\* Every set of threads at some point is finite, so that it can be counted.
LEMMA AtFinite ==
    ASSUME NEW S, S \subseteq Threads
    PROVE  IsFiniteSet(S) /\ Cardinality(S) \in Nat
BY ThreadsFinite, FS_Subset, FS_CardinalityType

\* One thread more, and one thread fewer.
LEMMA OneMore ==
    ASSUME NEW S, NEW T, NEW x, S \subseteq Threads, T \subseteq Threads,
           T = S \cup {x}, x \notin S
    PROVE  Cardinality(T) = Cardinality(S) + 1
BY AtFinite, FS_AddElement

LEMMA NoFewer ==
    ASSUME NEW S, NEW T, S \subseteq T, T \subseteq Threads
    PROVE  Cardinality(S) <= Cardinality(T)
BY AtFinite, FS_Subset

-----------------------------------------------------------------------------
(* The part of the invariant that does not count threads. *)

Base == TypeOK /\ MutexInv /\ LoopInv /\ ArgInv

LEMMA InitBase == Init => Base /\ RingInv
<1> SUFFICES ASSUME Init PROVE Base /\ RingInv
  OBVIOUS
<1>1. TypeOK
  <2>1. 0 \in 0 .. Cap - 1 /\ 0 \in 0 .. Cap
    OBVIOUS
  <2>2. pc \in [Threads -> WorkerPoints \cup PutterPoints]
    BY DEF Init, Threads, WorkerPoints, PutterPoints
  <2>3. (\A w \in Workers : pc[w] \in WorkerPoints) /\ (\A p \in Putters : pc[p] \in PutterPoints)
    BY DEF Init, Threads, WorkerPoints, PutterPoints
  <2> QED
    BY <2>1, <2>2, <2>3 DEF Init, QueueInit, TypeOK, DestroyPoints
<1>2. MutexInv /\ LoopInv /\ ArgInv
  BY DEF Init, QueueInit, MutexInv, LoopInv, ArgInv, Threads
<1>3. RingInv
  BY Wrap DEF Init, QueueInit, RingInv
<1> QED
  BY <1>1, <1>2, <1>3 DEF Base

LEMMA AcquireBase ==
    ASSUME Base, NEW t \in Threads, Acquire(t)
    PROVE  Base'
BY DEF Base, TypeOK, MutexInv, LoopInv, ArgInv, Acquire, Threads, WorkerPoints, PutterPoints

LEMMA CondWaitBase ==
    ASSUME Base, NEW t \in Threads, CondWait(t)
    PROVE  Base'
BY DEF Base, TypeOK, MutexInv, LoopInv, ArgInv, CondWait, Threads, WorkerPoints, PutterPoints

LEMMA SpuriousWakeupBase ==
    ASSUME Base, NEW t \in Threads, SpuriousWakeup(t)
    PROVE  Base'
BY DEF Base, TypeOK, MutexInv, LoopInv, ArgInv, SpuriousWakeup, Threads, WorkerPoints, PutterPoints

LEMMA WorkerBase ==
    ASSUME Base, RingInv, NEW w \in Workers, WorkerStep(w)
    PROVE  Base'
<1> USE DEF Base, TypeOK, MutexInv, LoopInv, ArgInv, Threads, WorkerPoints, PutterPoints
<1>1. CASE Acquire(w)
  BY <1>1, AcquireBase
<1>2. CASE WorkerCheck(w)
  BY <1>2 DEF WorkerCheck
<1>3. CASE CondWait(w)
  BY <1>3, CondWaitBase
<1>4. CASE WorkerExit(w)
  BY <1>4 DEF WorkerExit
<1>5. CASE WorkerPop(w)
  <2>1. len > 0
    BY <1>5 DEF WorkerPop
  <2>2. slots[front] \in Tasks
    BY <2>1, HeadIsTask
  <2>3. front' \in 0 .. Cap - 1 /\ len' \in 0 .. Cap
    BY <1>5, <2>1 DEF WorkerPop, QueuePop
  <2> QED
    BY <1>5, <2>2, <2>3 DEF WorkerPop, QueuePop
<1>6. CASE WorkerSignal(w)
  BY <1>6 DEF WorkerSignal, SignalOne, NotFullWaiters, At
<1>7. CASE WorkerRun(w)
  BY <1>7 DEF WorkerRun
<1> QED
  BY <1>1, <1>2, <1>3, <1>4, <1>5, <1>6, <1>7 DEF WorkerStep

LEMMA PutBase ==
    ASSUME Base, NEW p \in Putters, PutStep(p)
    PROVE  Base'
<1> USE DEF Base, TypeOK, MutexInv, LoopInv, ArgInv, Threads, WorkerPoints, PutterPoints
<1>1. CASE Acquire(p)
  BY <1>1, AcquireBase
<1>2. CASE PutCheck(p)
  BY <1>2 DEF PutCheck
<1>3. CASE CondWait(p)
  BY <1>3, CondWaitBase
<1>4. CASE PutAbandon(p)
  BY <1>4 DEF PutAbandon
<1>5. CASE PutPush(p)
  <2>1. len < Cap /\ arg[p] \in Tasks
    BY <1>5 DEF PutPush
  <2>2. rear' \in 0 .. Cap - 1 /\ len' \in 0 .. Cap /\ len' > 0
    BY <1>5, <2>1 DEF PutPush, QueuePush
  <2> QED
    BY <1>5, <2>1, <2>2 DEF PutPush, QueuePush
<1>6. CASE PutSignal(p)
  BY <1>6 DEF PutSignal, SignalOne, NotEmptyWaiters, At
<1> QED
  BY <1>1, <1>2, <1>3, <1>4, <1>5, <1>6 DEF PutStep

LEMMA PutCallBase ==
    ASSUME Base, NEW p \in Putters, NEW t \in Tasks, PutCall(p, t)
    PROVE  Base'
BY DEF Base, TypeOK, MutexInv, LoopInv, ArgInv, PutCall, Threads, WorkerPoints, PutterPoints

LEMMA DestroyBase ==
    ASSUME Base, DestroyStep
    PROVE  Base'
<1> USE DEF Base, TypeOK, MutexInv, LoopInv, ArgInv, Threads, WorkerPoints, PutterPoints, DestroyPoints
<1>1. CASE DestroySet
  BY <1>1 DEF DestroySet
<1>2. CASE DestroyWakePutters
  BY <1>2 DEF DestroyWakePutters, WakeAll, NotFullWaiters, At
<1>3. CASE DestroyWakeWorkers
  BY <1>3 DEF DestroyWakeWorkers, WakeAll, NotEmptyWaiters, At
<1>4. CASE DestroyFree
  BY <1>4 DEF DestroyFree
<1> QED
  BY <1>1, <1>2, <1>3, <1>4 DEF DestroyStep

-----------------------------------------------------------------------------
(* The ring. Only the pop of a worker and the push of a putter change it.  *)

LEMMA PopRing ==
    ASSUME TypeOK, RingInv, len > 0, QueuePop
    PROVE  RingInv'
<1> DEFINE wrap(a) == IF a < Cap THEN a ELSE a - Cap
<1>1. front \in 0 .. Cap - 1 /\ len \in 1 .. Cap
  BY DEF TypeOK
<1>2. len' = len - 1 /\ slots' = slots /\ rear' = rear
  BY DEF QueuePop
<1>3. front' = wrap(front + 1)
  BY <1>1, Wrap DEF QueuePop
<1>4. ASSUME NEW i \in 0 .. len'
      PROVE  (front' + i) % Cap = (front + (i + 1)) % Cap
  <2>1. front' + i \in 0 .. 2 * Cap - 1 /\ front + (i + 1) \in 0 .. 2 * Cap - 1
    BY <1>1, <1>2, <1>3
  <2>2. (front' + i) % Cap = wrap(front' + i) /\ (front + (i + 1)) % Cap = wrap(front + (i + 1))
    BY <2>1, Wrap
  <2>3. wrap(front' + i) = wrap(front + (i + 1))
    BY <1>1, <1>2, <1>3
  <2> QED
    BY <2>2, <2>3
<1>5. rear' = (front' + len') % Cap
  <2>1. rear' = (front + len) % Cap
    BY <1>2 DEF RingInv
  <2>2. len' \in 0 .. len' /\ len' + 1 = len
    BY <1>1, <1>2
  <2> QED
    BY <1>4, <2>1, <2>2
<1>6. ASSUME NEW i \in 0 .. len' - 1
      PROVE  Occupied(i)' \in Tasks
  <2>1. i \in 0 .. len' /\ i + 1 \in 0 .. len - 1
    BY <1>1, <1>2
  <2>2. Occupied(i)' = Occupied(i + 1)
    BY <1>2, <1>4, <2>1 DEF Occupied
  <2> QED
    BY <2>1, <2>2 DEF RingInv
<1> QED
  BY <1>5, <1>6 DEF RingInv

LEMMA PushRing ==
    ASSUME TypeOK, RingInv, NEW t \in Tasks, len < Cap, QueuePush(t)
    PROVE  RingInv'
<1> DEFINE wrap(a) == IF a < Cap THEN a ELSE a - Cap
<1>1. front \in 0 .. Cap - 1 /\ len \in 0 .. Cap - 1
  BY DEF TypeOK
<1>2. len' = len + 1 /\ front' = front
  BY DEF QueuePush
<1>3. \A i \in 0 .. len + 1 : (front + i) % Cap = wrap(front + i)
  <2>1. \A i \in 0 .. len + 1 : front + i \in 0 .. 2 * Cap - 1
    BY <1>1
  <2> QED
    BY <2>1, Wrap
<1>4. rear = wrap(front + len)
  <2>1. len \in 0 .. len + 1
    BY <1>1
  <2> QED
    BY <1>3, <2>1 DEF RingInv
<1>5. ASSUME NEW i \in 0 .. len - 1
      PROVE  Occupied(i)' \in Tasks
  <2>1. wrap(front + i) \in 0 .. Cap - 1 /\ wrap(front + i) # rear
    BY <1>1, <1>4
  <2>2. (front + i) % Cap = wrap(front + i)
    BY <1>1, <1>3
  <2>3. slots'[(front + i) % Cap] = slots[(front + i) % Cap]
    BY <2>1, <2>2 DEF QueuePush, TypeOK
  <2>4. Occupied(i)' = Occupied(i)
    BY <1>2, <2>3 DEF Occupied
  <2> QED
    BY <2>4 DEF RingInv
<1>6. ASSUME NEW i, i = len
      PROVE  Occupied(i)' \in Tasks
  <2>1. (front + i) % Cap = rear
    BY <1>6 DEF RingInv
  <2>2. slots'[rear] = t
    BY DEF QueuePush, TypeOK
  <2> QED
    BY <1>2, <2>1, <2>2 DEF Occupied
<1>7. rear' = (front' + len') % Cap
  <2>1. rear + 1 \in 0 .. 2 * Cap - 1
    BY <1>1, <1>4
  <2>2. rear' = wrap(rear + 1)
    <3>1. rear' = (rear + 1) % Cap
      BY DEF QueuePush
    <3>2. (rear + 1) % Cap = wrap(rear + 1)
      BY <2>1, Wrap
    <3> QED
      BY <3>1, <3>2
  <2>3. len + 1 \in 0 .. len + 1
    BY <1>1
  <2>4. (front + (len + 1)) % Cap = wrap(front + (len + 1))
    BY <1>3, <2>3
  <2>5. wrap(rear + 1) = wrap(front + (len + 1))
    BY <1>1, <1>4
  <2> QED
    BY <1>2, <2>2, <2>4, <2>5
<1>8. \A i \in 0 .. len' - 1 : Occupied(i)' \in Tasks
  <2>1. \A i \in 0 .. len' - 1 : i \in 0 .. len - 1 \/ i = len
    BY <1>1, <1>2
  <2> QED
    BY <1>5, <1>6, <2>1
<1> QED
  BY <1>7, <1>8 DEF RingInv

-----------------------------------------------------------------------------
(* Wakeups. A sleeping worker is owed a wakeup by every queued task:       *)
(* either the set of putters about to signal or the set of takers counts   *)
(* for it. The lemmas follow that debt through every step.                 *)

Signallers == At(Putters, "signal")
Poppers    == At(Workers, "signal")

LEMMA Subsets ==
    /\ Signallers \subseteq Threads /\ Takers \subseteq Threads
    /\ Poppers \subseteq Threads /\ Givers \subseteq Threads
    /\ Signallers' \subseteq Threads /\ Takers' \subseteq Threads
    /\ Poppers' \subseteq Threads /\ Givers' \subseteq Threads
BY DEF Signallers, Poppers, Takers, Givers, At, Threads

LEMMA Counts ==
    /\ Cardinality(Signallers) \in Nat /\ Cardinality(Takers) \in Nat
    /\ Cardinality(Poppers) \in Nat /\ Cardinality(Givers) \in Nat
    /\ Cardinality(Signallers') \in Nat /\ Cardinality(Takers') \in Nat
    /\ Cardinality(Poppers') \in Nat /\ Cardinality(Givers') \in Nat
BY Subsets, AtFinite

\* A step that neither lengthens the queue nor takes away a wakeup or a taker.
LEMMA NotEmptyFrame ==
    ASSUME TypeOK, TypeOK', NoLostNotEmpty, destroyed => destroyed',
           len' <= len,
           Signallers \subseteq Signallers', Takers \subseteq Takers',
           NotEmptyWaiters' \subseteq NotEmptyWaiters
    PROVE  NoLostNotEmpty'
<1>1. len \in Nat /\ len' \in Nat
  BY DEF TypeOK
<1>2. Cardinality(Signallers) <= Cardinality(Signallers') /\ Cardinality(Takers) <= Cardinality(Takers')
  BY Subsets, NoFewer
<1> QED
  BY <1>1, <1>2, Counts DEF NoLostNotEmpty, Signallers

\* The same for the putters: a step that does not shorten the queue.
LEMMA NotFullFrame ==
    ASSUME TypeOK, TypeOK', NoLostNotFull, destroyed => destroyed',
           len <= len',
           Poppers \subseteq Poppers', Givers \subseteq Givers',
           NotFullWaiters' \subseteq NotFullWaiters
    PROVE  NoLostNotFull'
<1>1. len \in Nat /\ len' \in Nat
  BY DEF TypeOK
<1>2. Cardinality(Poppers) <= Cardinality(Poppers') /\ Cardinality(Givers) <= Cardinality(Givers')
  BY Subsets, NoFewer
<1> QED
  BY <1>1, <1>2, Counts, CapAssumption DEF NoLostNotFull, Poppers

Lost == NoLostNotEmpty /\ NoLostNotFull

LEMMA AcquireLost ==
    ASSUME Base, Base', Lost, NEW t \in Threads, Acquire(t) \/ SpuriousWakeup(t)
    PROVE  Lost'
<1> USE DEF Base, TypeOK
<1>1. len' = len /\ destroyed' = destroyed
  BY DEF Acquire, SpuriousWakeup
<1>2. Signallers \subseteq Signallers' /\ Takers \subseteq Takers' /\ NotEmptyWaiters' \subseteq NotEmptyWaiters
  BY DEF Acquire, SpuriousWakeup, Signallers, Takers, NotEmptyWaiters, At, Threads
<1>3. Poppers \subseteq Poppers' /\ Givers \subseteq Givers' /\ NotFullWaiters' \subseteq NotFullWaiters
  BY DEF Acquire, SpuriousWakeup, Poppers, Givers, NotFullWaiters, At, Threads
<1> QED
  BY <1>1, <1>2, <1>3, NotEmptyFrame, NotFullFrame DEF Lost

\* A worker that goes to sleep has found the queue empty: nothing is owed.
LEMMA WorkerSleepsLost ==
    ASSUME Base, Base', Lost, NEW w \in Workers, len = 0, len' = len,
           destroyed' = destroyed,
           pc' = [pc EXCEPT ![w] = "wait"] \/ pc' = [pc EXCEPT ![w] = "sleep"],
           pc[w] \in {"check", "wait"}
    PROVE  Lost'
<1> USE DEF Base, TypeOK
<1>1. NoLostNotEmpty'
  BY Counts DEF NoLostNotEmpty, Signallers
<1>2. Poppers \subseteq Poppers' /\ Givers \subseteq Givers' /\ NotFullWaiters' \subseteq NotFullWaiters
  BY DEF Poppers, Givers, NotFullWaiters, At, Threads
<1>3. NoLostNotFull'
  BY <1>2, NotFullFrame DEF Lost
<1> QED
  BY <1>1, <1>3 DEF Lost

\* A pop pays for one task with the worker that pops, and owes the putters one
\* signal more.
LEMMA PopLost ==
    ASSUME Base, Base', Lost, NEW w \in Workers, WorkerPop(w)
    PROVE  Lost'
<1> USE DEF Base, TypeOK
<1>1. len \in Nat /\ len' \in Nat /\ len' = len - 1 /\ ~destroyed /\ ~destroyed'
  BY DEF WorkerPop, QueuePop
<1>2. Cardinality(Takers) = Cardinality(Takers') + 1
  <2>1. Takers = Takers' \cup {w} /\ w \notin Takers'
    BY DEF WorkerPop, Takers, At, Threads
  <2> QED
    BY <2>1, Subsets, OneMore
<1>3. Signallers' = Signallers /\ NotEmptyWaiters' = NotEmptyWaiters
  BY DEF WorkerPop, Signallers, NotEmptyWaiters, At, Threads
<1>4. NoLostNotEmpty'
  BY <1>1, <1>2, <1>3, Counts, SMTT(30) DEF Lost, NoLostNotEmpty, Signallers
<1>5. Cardinality(Poppers') = Cardinality(Poppers) + 1
  <2>1. Poppers' = Poppers \cup {w} /\ w \notin Poppers
    BY DEF WorkerPop, Poppers, At, Threads
  <2> QED
    BY <2>1, Subsets, OneMore
<1>6. Givers' = Givers /\ NotFullWaiters' = NotFullWaiters
  BY DEF WorkerPop, Givers, NotFullWaiters, At, Threads
<1>7. NoLostNotFull'
  BY <1>1, <1>5, <1>6, Counts, SMTT(30) DEF Lost, NoLostNotFull, Poppers
<1> QED
  BY <1>4, <1>7 DEF Lost

\* A signal to not_full trades a worker about to signal for a putter awake.
LEMMA WorkerSignalLost ==
    ASSUME Base, Base', Lost, NEW w \in Workers, WorkerSignal(w)
    PROVE  Lost'
<1> USE DEF Base, TypeOK
<1>1. len' = len /\ len \in Nat /\ destroyed' = destroyed
  BY DEF WorkerSignal
<1>2. NoLostNotEmpty'
  <2>1. Signallers \subseteq Signallers' /\ Takers \subseteq Takers' /\ NotEmptyWaiters' \subseteq NotEmptyWaiters
    BY DEF WorkerSignal, SignalOne, Signallers, Takers, NotEmptyWaiters, NotFullWaiters, At, Threads
  <2> QED
    BY <1>1, <2>1, NotEmptyFrame DEF Lost
<1>3. NoLostNotFull'
  <2>1. CASE NotFullWaiters = {}
    <3>1. NotFullWaiters' = {}
      BY <2>1 DEF WorkerSignal, SignalOne, NotFullWaiters, At, Threads
    <3> QED
      BY <3>1 DEF NoLostNotFull
  <2>2. CASE NotFullWaiters # {}
    <3>1. PICK u \in NotFullWaiters : pc' = [pc EXCEPT ![w] = "run", ![u] = "lock"]
      BY <2>2 DEF WorkerSignal, SignalOne
    <3>2. Poppers = Poppers' \cup {w} /\ w \notin Poppers'
      BY <3>1 DEF WorkerSignal, Poppers, NotFullWaiters, At, Threads
    <3>3. Givers' = Givers \cup {u} /\ u \notin Givers
      BY <3>1 DEF WorkerSignal, Givers, NotFullWaiters, At, Threads
    <3>4. Cardinality(Poppers) = Cardinality(Poppers') + 1
      BY <3>2, Subsets, OneMore
    <3>5. Cardinality(Givers') = Cardinality(Givers) + 1
      BY <3>3, Subsets, OneMore
    <3> QED
      BY <1>1, <2>2, <3>4, <3>5, Counts, SMTT(30) DEF Lost, NoLostNotFull, Poppers
  <2> QED
    BY <2>1, <2>2
<1> QED
  BY <1>2, <1>3 DEF Lost

LEMMA WorkerLost ==
    ASSUME Base, Base', Lost, NEW w \in Workers, WorkerStep(w)
    PROVE  Lost'
<1> USE DEF Base, TypeOK, Threads
<1>1. CASE Acquire(w)
  BY <1>1, AcquireLost
<1>2. CASE WorkerCheck(w)
  <2>1. CASE len = 0 /\ ~destroyed
    BY <1>2, <2>1, WorkerSleepsLost DEF WorkerCheck
  <2>2. CASE ~(len = 0 /\ ~destroyed)
    <3>1. pc' = [pc EXCEPT ![w] = "test"] /\ len' = len /\ destroyed' = destroyed /\ pc[w] = "check"
      BY <1>2, <2>2 DEF WorkerCheck
    <3>2. Signallers \subseteq Signallers' /\ Takers \subseteq Takers' /\ NotEmptyWaiters' \subseteq NotEmptyWaiters
      BY <3>1 DEF Signallers, Takers, NotEmptyWaiters, At
    <3>3. Poppers \subseteq Poppers' /\ Givers \subseteq Givers' /\ NotFullWaiters' \subseteq NotFullWaiters
      BY <3>1 DEF Poppers, Givers, NotFullWaiters, At
    <3> QED
      BY <3>1, <3>2, <3>3, NotEmptyFrame, NotFullFrame DEF Lost
  <2> QED
    BY <2>1, <2>2
<1>3. CASE CondWait(w)
  BY <1>3, WorkerSleepsLost DEF CondWait, LoopInv
<1>4. CASE WorkerExit(w)
  BY <1>4 DEF WorkerExit, Lost, NoLostNotEmpty, NoLostNotFull
<1>5. CASE WorkerPop(w)
  BY <1>5, PopLost
<1>6. CASE WorkerSignal(w)
  BY <1>6, WorkerSignalLost
<1>7. CASE WorkerRun(w)
  <2>1. Signallers \subseteq Signallers' /\ Takers \subseteq Takers' /\ NotEmptyWaiters' \subseteq NotEmptyWaiters
    BY <1>7 DEF WorkerRun, Signallers, Takers, NotEmptyWaiters, At
  <2>2. Poppers \subseteq Poppers' /\ Givers \subseteq Givers' /\ NotFullWaiters' \subseteq NotFullWaiters
    BY <1>7 DEF WorkerRun, Poppers, Givers, NotFullWaiters, At
  <2> QED
    BY <1>7, <2>1, <2>2, NotEmptyFrame, NotFullFrame DEF WorkerRun, Lost
<1> QED
  BY <1>1, <1>2, <1>3, <1>4, <1>5, <1>6, <1>7 DEF WorkerStep

\* A putter that goes to sleep has found the queue full: no room is owed.
LEMMA PutSleepsLost ==
    ASSUME Base, Base', Lost, NEW p \in Putters, len = Cap, len' = len,
           destroyed' = destroyed,
           pc' = [pc EXCEPT ![p] = "wait"] \/ pc' = [pc EXCEPT ![p] = "sleep"],
           pc[p] \in {"check", "wait"}
    PROVE  Lost'
<1> USE DEF Base, TypeOK
<1>1. NoLostNotFull'
  BY Counts DEF NoLostNotFull, Poppers
<1>2. Signallers \subseteq Signallers' /\ Takers \subseteq Takers' /\ NotEmptyWaiters' \subseteq NotEmptyWaiters
  BY DEF Signallers, Takers, NotEmptyWaiters, At, Threads
<1>3. NoLostNotEmpty'
  BY <1>2, NotEmptyFrame DEF Lost
<1> QED
  BY <1>1, <1>3 DEF Lost

\* A push pays for one free slot with the putter that pushes, and owes the
\* workers one signal more.
LEMMA PushLost ==
    ASSUME Base, Base', Lost, NEW p \in Putters, PutPush(p)
    PROVE  Lost'
<1> USE DEF Base, TypeOK
<1>1. len \in Nat /\ len' \in Nat /\ len' = len + 1 /\ ~destroyed /\ ~destroyed'
  BY DEF PutPush, QueuePush
<1>2. Cardinality(Givers) = Cardinality(Givers') + 1
  <2>1. Givers = Givers' \cup {p} /\ p \notin Givers'
    BY DEF PutPush, Givers, At, Threads
  <2> QED
    BY <2>1, Subsets, OneMore
<1>3. Poppers' = Poppers /\ NotFullWaiters' = NotFullWaiters
  BY DEF PutPush, Poppers, NotFullWaiters, At, Threads
<1>4. NoLostNotFull'
  BY <1>1, <1>2, <1>3, Counts, SMTT(30) DEF Lost, NoLostNotFull, Poppers
<1>5. Cardinality(Signallers') = Cardinality(Signallers) + 1
  <2>1. Signallers' = Signallers \cup {p} /\ p \notin Signallers
    BY DEF PutPush, Signallers, At, Threads
  <2> QED
    BY <2>1, Subsets, OneMore
<1>6. Takers' = Takers /\ NotEmptyWaiters' = NotEmptyWaiters
  BY DEF PutPush, Takers, NotEmptyWaiters, At, Threads
<1>7. NoLostNotEmpty'
  BY <1>1, <1>5, <1>6, Counts, SMTT(30) DEF Lost, NoLostNotEmpty, Signallers
<1> QED
  BY <1>4, <1>7 DEF Lost

\* A signal to not_empty trades a putter about to signal for a worker awake.
LEMMA PutSignalDebt ==
    ASSUME Base, Base', Lost, NEW p \in Putters, PutSignal(p)
    PROVE  Lost'
<1> USE DEF Base, TypeOK
<1>1. len' = len /\ len \in Nat /\ destroyed' = destroyed
  BY DEF PutSignal
<1>2. NoLostNotFull'
  <2>1. Poppers \subseteq Poppers' /\ Givers \subseteq Givers' /\ NotFullWaiters' \subseteq NotFullWaiters
    BY DEF PutSignal, SignalOne, Poppers, Givers, NotEmptyWaiters, NotFullWaiters, At, Threads
  <2> QED
    BY <1>1, <2>1, NotFullFrame DEF Lost
<1>3. NoLostNotEmpty'
  <2>1. CASE NotEmptyWaiters = {}
    <3>1. NotEmptyWaiters' = {}
      BY <2>1 DEF PutSignal, SignalOne, NotEmptyWaiters, At, Threads
    <3> QED
      BY <3>1 DEF NoLostNotEmpty
  <2>2. CASE NotEmptyWaiters # {}
    <3>1. PICK u \in NotEmptyWaiters : pc' = [pc EXCEPT ![p] = "idle", ![u] = "lock"]
      BY <2>2 DEF PutSignal, SignalOne
    <3>2. Signallers = Signallers' \cup {p} /\ p \notin Signallers'
      BY <3>1 DEF PutSignal, Signallers, NotEmptyWaiters, At, Threads
    <3>3. Takers' = Takers \cup {u} /\ u \notin Takers
      BY <3>1 DEF PutSignal, Takers, NotEmptyWaiters, At, Threads
    <3>4. Cardinality(Signallers) = Cardinality(Signallers') + 1
      BY <3>2, Subsets, OneMore
    <3>5. Cardinality(Takers') = Cardinality(Takers) + 1
      BY <3>3, Subsets, OneMore
    <3> QED
      BY <1>1, <2>2, <3>4, <3>5, Counts, SMTT(30) DEF Lost, NoLostNotEmpty, Signallers
  <2> QED
    BY <2>1, <2>2
<1> QED
  BY <1>2, <1>3 DEF Lost

LEMMA PutLost ==
    ASSUME Base, Base', Lost, NEW p \in Putters, PutStep(p)
    PROVE  Lost'
<1> USE DEF Base, TypeOK, Threads
<1>1. CASE Acquire(p)
  BY <1>1, AcquireLost
<1>2. CASE PutCheck(p)
  <2>1. CASE Cap = len /\ ~destroyed
    BY <1>2, <2>1, PutSleepsLost DEF PutCheck
  <2>2. CASE ~(Cap = len /\ ~destroyed)
    <3>1. pc' = [pc EXCEPT ![p] = "test"] /\ len' = len /\ destroyed' = destroyed /\ pc[p] = "check"
      BY <1>2, <2>2 DEF PutCheck
    <3>2. Signallers \subseteq Signallers' /\ Takers \subseteq Takers' /\ NotEmptyWaiters' \subseteq NotEmptyWaiters
      BY <3>1 DEF Signallers, Takers, NotEmptyWaiters, At
    <3>3. Poppers \subseteq Poppers' /\ Givers \subseteq Givers' /\ NotFullWaiters' \subseteq NotFullWaiters
      BY <3>1 DEF Poppers, Givers, NotFullWaiters, At
    <3> QED
      BY <3>1, <3>2, <3>3, NotEmptyFrame, NotFullFrame DEF Lost
  <2> QED
    BY <2>1, <2>2
<1>3. CASE CondWait(p)
  BY <1>3, PutSleepsLost DEF CondWait, LoopInv
<1>4. CASE PutAbandon(p)
  BY <1>4 DEF PutAbandon, Lost, NoLostNotEmpty, NoLostNotFull
<1>5. CASE PutPush(p)
  BY <1>5, PushLost
<1>6. CASE PutSignal(p)
  BY <1>6, PutSignalDebt
<1> QED
  BY <1>1, <1>2, <1>3, <1>4, <1>5, <1>6 DEF PutStep

LEMMA PutCallLost ==
    ASSUME Base, Base', Lost, NEW p \in Putters, NEW t \in Tasks, PutCall(p, t)
    PROVE  Lost'
<1> USE DEF Base, TypeOK, Threads
<1>1. Signallers \subseteq Signallers' /\ Takers \subseteq Takers' /\ NotEmptyWaiters' \subseteq NotEmptyWaiters
  BY DEF PutCall, Signallers, Takers, NotEmptyWaiters, At
<1>2. Poppers \subseteq Poppers' /\ Givers \subseteq Givers' /\ NotFullWaiters' \subseteq NotFullWaiters
  BY DEF PutCall, Poppers, Givers, NotFullWaiters, At
<1> QED
  BY <1>1, <1>2, NotEmptyFrame, NotFullFrame DEF PutCall, Lost

\* pool_destory sets destroyed first, and from then on nothing is owed.
LEMMA DestroyLost ==
    ASSUME Base, Lost, DestroyStep, dpc # "none" => destroyed
    PROVE  Lost'
BY DEF DestroyStep, DestroySet, DestroyWakePutters, DestroyWakeWorkers, DestroyFree,
       Lost, NoLostNotEmpty, NoLostNotFull

-----------------------------------------------------------------------------
(* The inductive invariant and what follows from it. *)

LEMMA InitIInv == Init => IInv
<1> SUFFICES ASSUME Init PROVE IInv
  OBVIOUS
<1>1. Base /\ RingInv
  BY InitBase
<1>2. DestroyInv
  BY DEF Init, DestroyInv
<1>3. NotEmptyWaiters = {} /\ NotFullWaiters = {}
  BY DEF Init, NotEmptyWaiters, NotFullWaiters, At, Threads
<1> QED
  BY <1>1, <1>2, <1>3 DEF IInv, Base, NoLostNotEmpty, NoLostNotFull

LEMMA NextIInv == IInv /\ [Next]_vars => IInv'
<1> SUFFICES ASSUME IInv, [Next]_vars PROVE IInv'
  OBVIOUS
<1> USE DEF IInv, Lost
<1>0. Base /\ Lost
  BY DEF Base
<1>1. ASSUME NEW w \in Workers, WorkerStep(w) PROVE IInv'
  <2>1. Base'
    BY <1>0, <1>1, WorkerBase
  <2>2. Lost'
    BY <1>0, <1>1, <2>1, WorkerLost
  <2>3. DestroyInv'
    BY <1>1 DEF DestroyInv, WorkerStep, Acquire, WorkerCheck, CondWait, WorkerExit, WorkerPop,
       WorkerSignal, WorkerRun
  <2>4. RingInv'
    <3>1. CASE WorkerPop(w)
      <4>1. len > 0 /\ QueuePop
        BY <3>1 DEF WorkerPop, LoopInv
      <4> QED
        BY <4>1, PopRing
    <3>2. CASE ~WorkerPop(w)
      <4>1. UNCHANGED queueVars
        BY <1>1, <3>2 DEF queueVars, WorkerStep, Acquire, WorkerCheck, CondWait, WorkerExit,
           WorkerSignal, WorkerRun
      <4> QED
        BY <4>1 DEF queueVars, RingInv, Occupied
    <3> QED
      BY <3>1, <3>2
  <2> QED
    BY <2>1, <2>2, <2>3, <2>4 DEF Base
<1>2. ASSUME NEW p \in Putters, PutStep(p) PROVE IInv'
  <2>1. Base'
    BY <1>0, <1>2, PutBase
  <2>2. Lost'
    BY <1>0, <1>2, <2>1, PutLost
  <2>3. DestroyInv'
    BY <1>2 DEF DestroyInv, PutStep, Acquire, PutCheck, CondWait, PutAbandon, PutPush, PutSignal
  <2>4. RingInv'
    <3>1. CASE PutPush(p)
      <4>1. len < Cap /\ arg[p] \in Tasks /\ QueuePush(arg[p])
        BY <3>1 DEF PutPush, LoopInv, ArgInv
      <4> QED
        BY <4>1, PushRing
    <3>2. CASE ~PutPush(p)
      <4>1. UNCHANGED queueVars
        BY <1>2, <3>2 DEF queueVars, PutStep, Acquire, PutCheck, CondWait, PutAbandon, PutSignal
      <4> QED
        BY <4>1 DEF queueVars, RingInv, Occupied
    <3> QED
      BY <3>1, <3>2
  <2> QED
    BY <2>1, <2>2, <2>3, <2>4 DEF Base
<1>3. ASSUME NEW p \in Putters, NEW t \in Tasks, PutCall(p, t) PROVE IInv'
  <2>1. Base'
    BY <1>0, <1>3, PutCallBase
  <2>2. Lost'
    BY <1>0, <1>3, <2>1, PutCallLost
  <2>3. DestroyInv' /\ RingInv'
    BY <1>3 DEF PutCall, DestroyInv, RingInv, Occupied
  <2> QED
    BY <2>1, <2>2, <2>3 DEF Base
<1>4. ASSUME NEW t \in Threads, SpuriousWakeup(t) PROVE IInv'
  <2>1. Base'
    BY <1>0, <1>4, SpuriousWakeupBase
  <2>2. Lost'
    BY <1>0, <1>4, <2>1, AcquireLost
  <2>3. DestroyInv' /\ RingInv'
    BY <1>4 DEF SpuriousWakeup, DestroyInv, RingInv, Occupied
  <2> QED
    BY <2>1, <2>2, <2>3 DEF Base
<1>5. CASE DestroyStep
  <2>1. Base'
    BY <1>0, <1>5, DestroyBase
  <2>2. Lost'
    BY <1>0, <1>5, DestroyLost DEF DestroyInv
  <2>3. DestroyInv' /\ RingInv'
    BY <1>5 DEF DestroyStep, DestroySet, DestroyWakePutters, DestroyWakeWorkers, DestroyFree,
       DestroyInv, RingInv, Occupied
  <2> QED
    BY <2>1, <2>2, <2>3 DEF Base
<1>6. CASE UNCHANGED vars
  BY <1>6 DEF vars, TypeOK, MutexInv, LoopInv, ArgInv, DestroyInv, RingInv, Occupied,
     NoLostNotEmpty, NoLostNotFull, NotEmptyWaiters, NotFullWaiters, Takers, Givers, At
<1> QED
  BY <1>1, <1>2, <1>3, <1>4, <1>5, <1>6 DEF Next

\* The conjunction of everything below is an invariant of the pool.
THEOREM InductiveInvariant == Spec => []IInv
BY InitIInv, NextIInv, PTL DEF Spec

\* The ring of struct queue: every index stays inside it, len never passes the capacity, it
\* holds exactly the tasks put and not yet taken, and a pop finds a task and a push finds
\* room, whatever woke the thread up.
THEOREM RingCorrect == Spec => []RingSafe
<1>1. IInv => RingSafe
  BY DEF IInv, RingSafe
<1> QED
  BY <1>1, InductiveInvariant, PTL

\* No wakeup is lost between pool_put and a worker asleep on not_empty, nor between a
\* worker's pop and pool_put asleep on not_full.
THEOREM ThreadsAreWoken == Spec => []NoLostWakeup
<1>1. IInv => NoLostWakeup
  BY DEF IInv, NoLostWakeup
<1> QED
  BY <1>1, InductiveInvariant, PTL

-----------------------------------------------------------------------------
(* Refinement: every step of the pool is a step of TaskQueue or a stutter. *)

LEMMA QueuedIsSeq == TypeOK /\ RingInv => Queued \in Seq(Tasks) /\ Len(Queued) = len
<1> SUFFICES ASSUME TypeOK, RingInv PROVE Queued \in Seq(Tasks) /\ Len(Queued) = len
  OBVIOUS
<1>1. len \in Nat
  BY DEF TypeOK
<1>2. \A i \in 1 .. len : Occupied(i - 1) \in Tasks
  <2>1. \A i \in 1 .. len : i - 1 \in 0 .. len - 1
    BY <1>1
  <2> QED
    BY <2>1 DEF RingInv
<1> QED
  BY <1>1, <1>2 DEF Queued

\* The same of the state after a step.
LEMMA QueuedIsSeqNext == (TypeOK /\ RingInv => Queued \in Seq(Tasks) /\ Len(Queued) = len)'
BY QueuedIsSeq, PTL

\* Queued is a function of the ring alone.
LEMMA QueuedFrame ==
    ASSUME UNCHANGED queueVars
    PROVE  Queued' = Queued
BY DEF queueVars, Queued, Occupied

LEMMA PopIsTail ==
    ASSUME TypeOK, RingInv, TypeOK', RingInv', len > 0, QueuePop
    PROVE  Queued # <<>> /\ slots[front] = Head(Queued) /\ Queued' = Tail(Queued)
<1>1. len \in 1 .. Cap /\ front \in 0 .. Cap - 1 /\ len' = len - 1 /\ slots' = slots
  BY DEF TypeOK, QueuePop
<1>2. Queued \in Seq(Tasks) /\ Len(Queued) = len
  BY QueuedIsSeq
<1>3. Head(Queued) = slots[front]
  <2>1. Head(Queued) = Occupied(0)
    BY <1>1, <1>2 DEF Queued
  <2>2. front + 0 = front /\ front % Cap = front
    BY <1>1, Wrap
  <2> QED
    BY <2>1, <2>2 DEF Occupied
<1>4. ASSUME NEW i \in 0 .. len' - 1
      PROVE  Occupied(i)' = Occupied(i + 1)
  <2> DEFINE wrap(a) == IF a < Cap THEN a ELSE a - Cap
  <2>1. front' = wrap(front + 1)
    BY <1>1, Wrap DEF QueuePop
  <2>2. front' + i \in 0 .. 2 * Cap - 1 /\ front + (i + 1) \in 0 .. 2 * Cap - 1
    BY <1>1, <2>1
  <2>3. (front' + i) % Cap = wrap(front' + i) /\ (front + (i + 1)) % Cap = wrap(front + (i + 1))
    BY <2>2, Wrap
  <2>4. wrap(front' + i) = wrap(front + (i + 1))
    BY <1>1, <2>1
  <2> QED
    BY <1>1, <2>3, <2>4 DEF Occupied
<1>5. Queued' \in Seq(Tasks) /\ Len(Queued') = len'
  BY QueuedIsSeqNext
<1>6. /\ Queued # <<>> /\ Tail(Queued) \in Seq(Tasks)
      /\ Len(Tail(Queued)) = len - 1
      /\ \A i \in 1 .. len - 1 : Tail(Queued)[i] = Queued[i + 1]
  <2>1. Queued # <<>>
    BY <1>1, <1>2
  <2> QED
    BY <1>2, <2>1, HeadTailProperties
<1>7. ASSUME NEW i \in 1 .. len - 1
      PROVE  Queued'[i] = Queued[i + 1]
  <2>1. i - 1 \in 0 .. len' - 1 /\ i + 1 \in 1 .. len /\ (i + 1) - 1 = (i - 1) + 1 /\ i \in 1 .. len'
    BY <1>1
  <2>2. Occupied(i - 1)' = Occupied((i - 1) + 1)
    BY <1>4, <2>1
  <2> QED
    BY <2>1, <2>2 DEF Queued
<1>8. Queued' = Tail(Queued)
  <2>1. Len(Queued') = Len(Tail(Queued))
    BY <1>1, <1>5, <1>6
  <2>2. \A i \in 1 .. Len(Queued') : Queued'[i] = Tail(Queued)[i]
    BY <1>1, <1>5, <1>6, <1>7
  <2> QED
    BY <1>5, <1>6, <2>1, <2>2, SeqEqual
<1> QED
  BY <1>1, <1>3, <1>6, <1>8

LEMMA PushIsAppend ==
    ASSUME TypeOK, RingInv, TypeOK', RingInv', NEW t \in Tasks, len < Cap, QueuePush(t)
    PROVE  Queued' = Append(Queued, t)
<1>1. len \in 0 .. Cap - 1 /\ front \in 0 .. Cap - 1 /\ len' = len + 1 /\ front' = front
  BY DEF TypeOK, QueuePush
<1>2. Queued \in Seq(Tasks) /\ Len(Queued) = len
  BY QueuedIsSeq
<1>3. slots' = [slots EXCEPT ![rear] = t] /\ rear = (front + len) % Cap
  BY DEF QueuePush, RingInv
<1>4. ASSUME NEW i \in 0 .. len - 1
      PROVE  Occupied(i)' = Occupied(i)
  <2> DEFINE wrap(a) == IF a < Cap THEN a ELSE a - Cap
  <2>1. front + i \in 0 .. 2 * Cap - 1 /\ front + len \in 0 .. 2 * Cap - 1
    BY <1>1
  <2>2. (front + i) % Cap = wrap(front + i) /\ rear = wrap(front + len)
    BY <1>3, <2>1, Wrap
  <2>3. wrap(front + i) # wrap(front + len)
    BY <1>1
  <2>4. slots'[(front + i) % Cap] = slots[(front + i) % Cap]
    <3>1. (front + i) % Cap # rear /\ (front + i) % Cap \in 0 .. Cap - 1
      BY <1>1, <2>2, <2>3
    <3> QED
      BY <1>3, <3>1 DEF TypeOK
  <2> QED
    BY <1>1, <2>4 DEF Occupied
<1>5. ASSUME NEW i, i = len
      PROVE  Occupied(i)' = t
  BY <1>1, <1>3, <1>5 DEF Occupied, TypeOK
<1>6. Queued' \in Seq(Tasks) /\ Len(Queued') = len'
  BY QueuedIsSeqNext
<1>7. /\ Append(Queued, t) \in Seq(Tasks)
      /\ Len(Append(Queued, t)) = len + 1
      /\ \A i \in 1 .. len : Append(Queued, t)[i] = Queued[i]
      /\ Append(Queued, t)[len + 1] = t
  BY <1>2, AppendProperties
<1>8. ASSUME NEW i \in 1 .. len + 1
      PROVE  Queued'[i] = Append(Queued, t)[i]
  <2>1. i \in 1 .. len' /\ i - 1 \in 0 .. len
    BY <1>1
  <2>2. Queued'[i] = Occupied(i - 1)'
    BY <2>1 DEF Queued
  <2>3. CASE i = len + 1
    <3>1. i - 1 = len
      BY <1>1, <2>3
    <3> QED
      BY <1>5, <1>7, <2>2, <2>3, <3>1
  <2>4. CASE i # len + 1
    <3>1. i - 1 \in 0 .. len - 1 /\ i \in 1 .. len
      BY <1>1, <2>4
    <3>2. Queued[i] = Occupied(i - 1)
      BY <3>1 DEF Queued
    <3> QED
      BY <1>4, <1>7, <2>2, <3>1, <3>2
  <2> QED
    BY <2>3, <2>4
<1> QED
  <2>1. Len(Queued') = Len(Append(Queued, t))
    BY <1>1, <1>6, <1>7
  <2>2. \A i \in 1 .. Len(Queued') : Queued'[i] = Append(Queued, t)[i]
    BY <1>1, <1>6, <1>8
  <2> QED
    BY <1>6, <1>7, <2>1, <2>2, SeqEqual

LEMMA InitRefines == Init => TQ!Init
BY DEF Init, QueueInit, TQ!Init, Queued, Holding, Stopped, At, Threads

LEMMA WorkerRefines ==
    ASSUME IInv, IInv', NEW w \in Workers, WorkerStep(w)
    PROVE  [TQ!Next]_TQ!vars
<1> USE DEF IInv
<1>0. pc \in [Threads -> WorkerPoints \cup PutterPoints] /\ w \in Threads
  BY DEF TypeOK, Threads
<1>1. CASE WorkerPop(w)
  <2>1. len > 0 /\ ~destroyed /\ QueuePop /\ len \in Nat
    BY <1>1 DEF WorkerPop, LoopInv, TypeOK
  <2>2. Queued # <<>> /\ slots[front] = Head(Queued) /\ Queued' = Tail(Queued)
    BY <2>1, PopIsTail
  <2>3. Holding[w] = NoTask /\ Holding' = [Holding EXCEPT ![w] = slots[front]]
    BY <1>0, <1>1 DEF WorkerPop, Holding, TypeOK, Threads
  <2>4. w \notin Stopped /\ Stopped' = Stopped
    BY <1>0, <1>1 DEF WorkerPop, Stopped, At, Threads
  <2>5. TQ!Take(w)
    BY <1>1, <2>1, <2>2, <2>3, <2>4 DEF WorkerPop, TQ!Take
  <2> QED
    BY <2>5 DEF TQ!Next
<1>2. CASE WorkerRun(w)
  <2>1. Queued' = Queued
    BY <1>2, QueuedFrame DEF WorkerRun, queueVars
  <2>2. Holding[w] # NoTask /\ Holding' = [Holding EXCEPT ![w] = NoTask]
    BY <1>0, <1>2 DEF WorkerRun, Holding, ArgInv, TypeOK, Threads
  <2>3. Stopped' = Stopped
    BY <1>0, <1>2 DEF WorkerRun, Stopped, At, Threads
  <2>4. TQ!Finish(w)
    BY <1>2, <2>1, <2>2, <2>3 DEF WorkerRun, TQ!Finish
  <2> QED
    BY <2>4 DEF TQ!Next
<1>3. CASE WorkerExit(w)
  <2>1. Queued' = Queued
    BY <1>3, QueuedFrame DEF WorkerExit, queueVars
  <2>2. Holding[w] = NoTask /\ Holding' = Holding
    BY <1>0, <1>3 DEF WorkerExit, Holding, TypeOK, Threads
  <2>3. w \notin Stopped /\ Stopped' = Stopped \cup {w}
    BY <1>0, <1>3 DEF WorkerExit, Stopped, At, Threads
  <2>4. TQ!Stop(w)
    BY <1>3, <2>1, <2>2, <2>3 DEF WorkerExit, TQ!Stop
  <2> QED
    BY <2>4 DEF TQ!Next
<1>4. CASE Acquire(w) \/ WorkerCheck(w) \/ CondWait(w) \/ WorkerSignal(w)
  <2>1. Queued' = Queued
    BY <1>4, QueuedFrame DEF Acquire, WorkerCheck, CondWait, WorkerSignal, queueVars
  <2>2. Holding' = Holding
    BY <1>0, <1>4 DEF Acquire, WorkerCheck, CondWait, WorkerSignal, SignalOne, NotFullWaiters, At,
       Holding, TypeOK, Threads
  <2>3. Stopped' = Stopped
    BY <1>0, <1>4 DEF Acquire, WorkerCheck, CondWait, WorkerSignal, SignalOne, NotFullWaiters, At,
       Stopped, Threads
  <2> QED
    BY <1>4, <2>1, <2>2, <2>3 DEF Acquire, WorkerCheck, CondWait, WorkerSignal, TQ!vars
<1> QED
  BY <1>1, <1>2, <1>3, <1>4 DEF WorkerStep

LEMMA PutRefines ==
    ASSUME IInv, IInv', NEW p \in Putters, PutStep(p)
    PROVE  [TQ!Next]_TQ!vars
<1> USE DEF IInv
<1>0. pc \in [Threads -> WorkerPoints \cup PutterPoints] /\ p \in Threads /\ p \notin Workers
  BY DEF TypeOK, Threads
<1>1. CASE PutPush(p)
  <2>1. len < Cap /\ ~destroyed /\ arg[p] \in Tasks /\ QueuePush(arg[p])
    BY <1>1 DEF PutPush, LoopInv, ArgInv
  <2>2. Queued' = Append(Queued, arg[p]) /\ Len(Queued) = len
    BY <2>1, PushIsAppend, QueuedIsSeq
  <2>3. Holding' = Holding /\ Stopped' = Stopped
    BY <1>0, <1>1 DEF PutPush, Holding, Stopped, At, TypeOK, Threads
  <2>4. TQ!Put(arg[p])
    BY <1>1, <2>1, <2>2, <2>3 DEF PutPush, TQ!Put
  <2> QED
    BY <2>1, <2>4 DEF TQ!Next
<1>2. CASE Acquire(p) \/ PutCheck(p) \/ CondWait(p) \/ PutAbandon(p) \/ PutSignal(p)
  <2>1. Queued' = Queued
    BY <1>2, QueuedFrame DEF Acquire, PutCheck, CondWait, PutAbandon, PutSignal, queueVars
  <2>2. Holding' = Holding
    BY <1>0, <1>2 DEF Acquire, PutCheck, CondWait, PutAbandon, PutSignal, SignalOne, NotEmptyWaiters,
       At, Holding, TypeOK, Threads
  <2>3. Stopped' = Stopped
    BY <1>0, <1>2 DEF Acquire, PutCheck, CondWait, PutAbandon, PutSignal, SignalOne, NotEmptyWaiters,
       At, Stopped, Threads
  <2> QED
    BY <1>2, <2>1, <2>2, <2>3 DEF Acquire, PutCheck, CondWait, PutAbandon, PutSignal, TQ!vars
<1> QED
  BY <1>1, <1>2 DEF PutStep

LEMMA OtherRefines ==
    ASSUME IInv, IInv',
           \/ \E p \in Putters, t \in Tasks : PutCall(p, t)
           \/ \E t \in Threads : SpuriousWakeup(t)
           \/ DestroyStep
    PROVE  [TQ!Next]_TQ!vars
<1> USE DEF IInv
<1>0. pc \in [Threads -> WorkerPoints \cup PutterPoints]
  BY DEF TypeOK
<1>1. Queued' = Queued
  BY QueuedFrame DEF PutCall, SpuriousWakeup, DestroyStep, DestroySet, DestroyWakePutters,
     DestroyWakeWorkers, DestroyFree, queueVars
<1>2. Holding' = Holding
  BY <1>0 DEF PutCall, SpuriousWakeup, DestroyStep, DestroySet, DestroyWakePutters,
     DestroyWakeWorkers, DestroyFree, WakeAll, NotFullWaiters, NotEmptyWaiters, At, Holding,
     TypeOK, Threads
<1>3. Stopped' = Stopped
  BY <1>0 DEF PutCall, SpuriousWakeup, DestroyStep, DestroySet, DestroyWakePutters,
     DestroyWakeWorkers, DestroyFree, WakeAll, NotFullWaiters, NotEmptyWaiters, At, Stopped, Threads
<1>4. CASE DestroySet
  <2>1. TQ!Close
    BY <1>1, <1>2, <1>3, <1>4 DEF DestroySet, DestroyInv, TQ!Close
  <2> QED
    BY <2>1 DEF TQ!Next
<1>5. CASE ~DestroySet
  <2>1. destroyed' = destroyed
    BY <1>5 DEF PutCall, SpuriousWakeup, DestroyStep, DestroyWakePutters, DestroyWakeWorkers, DestroyFree
  <2> QED
    BY <1>1, <1>2, <1>3, <2>1 DEF TQ!vars
<1> QED
  BY <1>4, <1>5

\* The pool implements the bounded FIFO of TaskQueue.
THEOREM Refinement == Spec => ImplementsTaskQueue
<1>1. IInv /\ IInv' /\ [Next]_vars => [TQ!Next]_TQ!vars
  <2> SUFFICES ASSUME IInv, IInv', [Next]_vars PROVE [TQ!Next]_TQ!vars
    OBVIOUS
  <2>1. CASE UNCHANGED vars
    BY <2>1 DEF vars, TQ!vars, Queued, Occupied, Holding, Stopped, At
  <2> QED
    BY <2>1, WorkerRefines, PutRefines, OtherRefines DEF Next
<1> QED
  BY <1>1, InitRefines, InductiveInvariant, PTL DEF Spec, TQ!Spec, ImplementsTaskQueue
=============================================================================
