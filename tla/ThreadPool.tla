----------------------------- MODULE ThreadPool -----------------------------
(***************************************************************************)
(* The thread pool of threadpool.c at the grain of its mutex and its two   *)
(* condition variables: the workers' loop, pool_put and pool_destory.      *)
(*                                                                         *)
(* A thread is at one of these points:                                     *)
(*   idle    a putter outside pool_put                                     *)
(*   lock    about to take pool->lock, or woken up inside                  *)
(*           pthread_cond_wait and about to take it again                  *)
(*   check   holds the lock, about to evaluate the while condition         *)
(*   wait    holds the lock, found the condition true, about to call       *)
(*           pthread_cond_wait                                             *)
(*   sleep   blocked inside pthread_cond_wait, the lock released           *)
(*   test    holds the lock, out of the loop, about to test destroyed      *)
(*   signal  has released the lock, about to call pthread_cond_signal      *)
(*   run     a worker inside the callback of its task                      *)
(*   exited  a worker whose thread has ended                               *)
(* What is done between taking and releasing the lock is one action where  *)
(* it touches only data the lock protects. pool->destroyed is the          *)
(* exception: pool_destory writes it without the lock, so every read of it *)
(* is an action of its own.                                                *)
(***************************************************************************)
EXTENDS Naturals, FiniteSets, Sequences

CONSTANTS
  Workers,          \* the threads pool_init creates
  Putters,          \* the threads that call pool_put
  Tasks,            \* the (callback, argument) pairs that can be put
  NoTask,           \* a slot never written, or no task
  Cap,              \* taskq.cap, DEFAULT_QUEUE_CAP in the code
  Nobody,           \* the owner of a free mutex
  PutsDuringDestroy \* FALSE: as server.c, nobody is in pool_put any more when
                    \* pool_destory is called; TRUE: puts go on meanwhile

ASSUME WorkersAssumption == IsFiniteSet(Workers) /\ Workers # {}
ASSUME PuttersAssumption == IsFiniteSet(Putters) /\ Workers \cap Putters = {}
ASSUME CapAssumption     == Cap \in Nat \ {0}
ASSUME NamesAssumption   == NoTask \notin Tasks /\ Nobody \notin Workers \cup Putters
ASSUME ModeAssumption    == PutsDuringDestroy \in BOOLEAN

VARIABLES
  slots,      \* taskq.taskq
  front,      \* taskq.front, the slot to pop next
  rear,       \* taskq.rear, the slot to push next
  len,        \* taskq.len
  lock,       \* the owner of pool->lock
  destroyed,  \* pool->destroyed
  pc,         \* where each thread is
  arg,        \* the task a putter puts or a worker has popped
  dpc         \* where the caller of pool_destory is

queueVars == <<slots, front, rear, len>>
vars == <<slots, front, rear, len, lock, destroyed, pc, arg, dpc>>

Threads == Workers \cup Putters
WorkerPoints == {"lock", "check", "wait", "sleep", "test", "signal", "run", "exited"}
PutterPoints == {"idle", "lock", "check", "wait", "sleep", "test", "signal"}
DestroyPoints == {"none", "bcast_not_full", "bcast_not_empty", "join", "freed"}

At(S, point) == {t \in S : pc[t] = point}

\* the threads blocked on pool->not_empty and on pool->not_full
NotEmptyWaiters == At(Workers, "sleep")
NotFullWaiters  == At(Putters, "sleep")

-----------------------------------------------------------------------------
(* struct queue *)

QueueInit ==
    /\ slots = [i \in 0 .. Cap - 1 |-> NoTask]
    /\ front = 0
    /\ rear = 0
    /\ len = 0

QueuePop ==
    /\ front' = (front + 1) % Cap
    /\ len' = len - 1
    /\ UNCHANGED <<slots, rear>>

\* Mutant of QueuePush: rear is advanced before the slot is written.
QueuePushAfter(t) ==
    /\ rear' = (rear + 1) % Cap
    /\ slots' = [slots EXCEPT ![rear'] = t]
    /\ len' = len + 1
    /\ UNCHANGED front

QueuePush(t) ==
    /\ slots' = [slots EXCEPT ![rear] = t]
    /\ rear' = (rear + 1) % Cap
    /\ len' = len + 1
    /\ UNCHANGED front

-----------------------------------------------------------------------------
(* pthreads *)

\* pthread_mutex_lock, and the second half of pthread_cond_wait
Acquire(t) ==
    /\ pc[t] = "lock"
    /\ lock = Nobody
    /\ lock' = t
    /\ pc' = [pc EXCEPT ![t] = "check"]
    /\ UNCHANGED <<slots, front, rear, len, destroyed, arg, dpc>>

\* the first half of pthread_cond_wait: release the lock and block, atomically
CondWait(t) ==
    /\ pc[t] = "wait"
    /\ lock' = Nobody
    /\ pc' = [pc EXCEPT ![t] = "sleep"]
    /\ UNCHANGED <<slots, front, rear, len, destroyed, arg, dpc>>

\* pthread_cond_wait may return without a signal
SpuriousWakeup(t) ==
    /\ pc[t] = "sleep"
    /\ pc' = [pc EXCEPT ![t] = "lock"]
    /\ UNCHANGED <<slots, front, rear, len, lock, destroyed, arg, dpc>>

\* pthread_cond_signal: thread t goes on to next, one of the waiters wakes up
SignalOne(t, next, waiters) ==
    IF waiters = {}
    THEN pc' = [pc EXCEPT ![t] = next]
    ELSE \E u \in waiters : pc' = [pc EXCEPT ![t] = next, ![u] = "lock"]

\* pthread_cond_broadcast
WakeAll(waiters) ==
    pc' = [t \in Threads |-> IF t \in waiters THEN "lock" ELSE pc[t]]

-----------------------------------------------------------------------------
(* worker *)

\* while (pool->taskq.len == 0 && !pool->destroyed)
WorkerCheck(w) ==
    /\ pc[w] = "check"
    /\ pc' = [pc EXCEPT ![w] = IF len = 0 /\ ~destroyed THEN "wait" ELSE "test"]
    /\ UNCHANGED <<slots, front, rear, len, lock, destroyed, arg, dpc>>

WorkerExit(w) ==
    /\ pc[w] = "test"
    /\ destroyed
    /\ lock' = Nobody
    /\ pc' = [pc EXCEPT ![w] = "exited"]
    /\ UNCHANGED <<slots, front, rear, len, destroyed, arg, dpc>>

\* Mutant of WorkerPop: destroyed is not tested again after the loop.
WorkerPopDestroyed(w) ==
    /\ pc[w] = "test"
    /\ len > 0
    /\ arg' = [arg EXCEPT ![w] = slots[front]]
    /\ QueuePop
    /\ lock' = Nobody
    /\ pc' = [pc EXCEPT ![w] = "signal"]
    /\ UNCHANGED <<destroyed, dpc>>

WorkerPop(w) ==
    /\ pc[w] = "test"
    /\ ~destroyed
    /\ arg' = [arg EXCEPT ![w] = slots[front]]
    /\ QueuePop
    /\ lock' = Nobody
    /\ pc' = [pc EXCEPT ![w] = "signal"]
    /\ UNCHANGED <<destroyed, dpc>>

\* Mutant of WorkerSignal: the signal goes to not_empty.
WorkerSignalWrong(w) ==
    /\ pc[w] = "signal"
    /\ SignalOne(w, "run", NotEmptyWaiters)
    /\ UNCHANGED <<slots, front, rear, len, lock, destroyed, arg, dpc>>

WorkerSignal(w) ==
    /\ pc[w] = "signal"
    /\ SignalOne(w, "run", NotFullWaiters)
    /\ UNCHANGED <<slots, front, rear, len, lock, destroyed, arg, dpc>>

\* t.cb(t.arg) returns
WorkerRun(w) ==
    /\ pc[w] = "run"
    /\ arg' = [arg EXCEPT ![w] = NoTask]
    /\ pc' = [pc EXCEPT ![w] = "lock"]
    /\ UNCHANGED <<slots, front, rear, len, lock, destroyed, dpc>>

-----------------------------------------------------------------------------
(* pool_put. Nothing is modelled of a putter once the pool is freed.       *)

PutCall(p, t) ==
    /\ pc[p] = "idle"
    /\ dpc = "none" \/ (PutsDuringDestroy /\ dpc # "freed")
    /\ arg' = [arg EXCEPT ![p] = t]
    /\ pc' = [pc EXCEPT ![p] = "lock"]
    /\ UNCHANGED <<slots, front, rear, len, lock, destroyed, dpc>>

\* while (pool->taskq.cap == pool->taskq.len && !pool->destroyed)
PutCheck(p) ==
    /\ pc[p] = "check"
    /\ pc' = [pc EXCEPT ![p] = IF Cap = len /\ ~destroyed THEN "wait" ELSE "test"]
    /\ UNCHANGED <<slots, front, rear, len, lock, destroyed, arg, dpc>>

PutAbandon(p) ==
    /\ pc[p] = "test"
    /\ destroyed
    /\ lock' = Nobody
    /\ arg' = [arg EXCEPT ![p] = NoTask]
    /\ pc' = [pc EXCEPT ![p] = "idle"]
    /\ UNCHANGED <<slots, front, rear, len, destroyed, dpc>>

PutPush(p) ==
    /\ pc[p] = "test"
    /\ ~destroyed
    /\ QueuePush(arg[p])
    /\ lock' = Nobody
    /\ arg' = [arg EXCEPT ![p] = NoTask]
    /\ pc' = [pc EXCEPT ![p] = "signal"]
    /\ UNCHANGED <<destroyed, dpc>>

\* Mutant of PutSignal: the signal is forgotten.
PutSignalLost(p) ==
    /\ pc[p] = "signal"
    /\ pc' = [pc EXCEPT ![p] = "idle"]
    /\ UNCHANGED <<slots, front, rear, len, lock, destroyed, arg, dpc>>

PutSignal(p) ==
    /\ pc[p] = "signal"
    /\ SignalOne(p, "idle", NotEmptyWaiters)
    /\ UNCHANGED <<slots, front, rear, len, lock, destroyed, arg, dpc>>

-----------------------------------------------------------------------------
(* pool_destory, called once *)

DestroySet ==
    /\ dpc = "none"
    /\ PutsDuringDestroy \/ \A p \in Putters : pc[p] = "idle"
    /\ destroyed' = TRUE
    /\ dpc' = "bcast_not_full"
    /\ UNCHANGED <<slots, front, rear, len, lock, pc, arg>>

DestroyWakePutters ==
    /\ dpc = "bcast_not_full"
    /\ WakeAll(NotFullWaiters)
    /\ dpc' = "bcast_not_empty"
    /\ UNCHANGED <<slots, front, rear, len, lock, destroyed, arg>>

\* Mutant of DestroyWakeWorkers: pthread_cond_signal for pthread_cond_broadcast.
DestroyWakeOneWorker ==
    /\ dpc = "bcast_not_empty"
    /\ \E w \in Workers : WakeAll({w} \cap NotEmptyWaiters)
    /\ dpc' = "join"
    /\ UNCHANGED <<slots, front, rear, len, lock, destroyed, arg>>

DestroyWakeWorkers ==
    /\ dpc = "bcast_not_empty"
    /\ WakeAll(NotEmptyWaiters)
    /\ dpc' = "join"
    /\ UNCHANGED <<slots, front, rear, len, lock, destroyed, arg>>

\* every pthread_join has returned; the pool is freed
DestroyFree ==
    /\ dpc = "join"
    /\ \A w \in Workers : pc[w] = "exited"
    /\ dpc' = "freed"
    /\ UNCHANGED <<slots, front, rear, len, lock, destroyed, pc, arg>>

-----------------------------------------------------------------------------

\* pool_init has returned: the queue is empty, every worker has been created
Init ==
    /\ QueueInit
    /\ lock = Nobody
    /\ destroyed = FALSE
    /\ pc = [t \in Threads |-> IF t \in Workers THEN "lock" ELSE "idle"]
    /\ arg = [t \in Threads |-> NoTask]
    /\ dpc = "none"

WorkerStep(w) ==
    \/ Acquire(w)
    \/ WorkerCheck(w)
    \/ CondWait(w)
    \/ WorkerExit(w)
    \/ WorkerPop(w)
    \/ WorkerSignal(w)
    \/ WorkerRun(w)

\* a put in progress
PutStep(p) ==
    /\ dpc # "freed"
    /\ \/ Acquire(p)
       \/ PutCheck(p)
       \/ CondWait(p)
       \/ PutAbandon(p)
       \/ PutPush(p)
       \/ PutSignal(p)

DestroyStep ==
    \/ DestroySet
    \/ DestroyWakePutters
    \/ DestroyWakeWorkers
    \/ DestroyFree

Next ==
    \/ \E w \in Workers : WorkerStep(w)
    \/ \E p \in Putters : PutStep(p)
    \/ \E p \in Putters, t \in Tasks : PutCall(p, t)
    \/ \E t \in Threads : SpuriousWakeup(t)
    \/ DestroyStep

Spec == Init /\ [][Next]_vars

\* Every thread that can run does: no step of a worker (its callback included:
\* handlers return), of a put in progress or of a pool_destory in progress is
\* delayed for ever. A thread that wants the mutex gets it if the mutex is freed
\* again and again, whatever spurious wakeups contend for it. Nothing forces a
\* put or a destroy to be called, or a blocked thread to wake up spuriously.
Fairness ==
    /\ \A w \in Workers : WF_vars(WorkerStep(w)) /\ SF_vars(Acquire(w))
    /\ \A p \in Putters : WF_vars(PutStep(p)) /\ SF_vars(dpc # "freed" /\ Acquire(p))
    /\ WF_vars(dpc # "none" /\ DestroyStep)

FairSpec == Spec /\ Fairness

-----------------------------------------------------------------------------
(* Properties *)

TypeOK ==
    /\ slots \in [0 .. Cap - 1 -> Tasks \cup {NoTask}]
    /\ front \in 0 .. Cap - 1
    /\ rear \in 0 .. Cap - 1
    /\ len \in 0 .. Cap
    /\ lock \in Threads \cup {Nobody}
    /\ destroyed \in BOOLEAN
    /\ pc \in [Threads -> WorkerPoints \cup PutterPoints]
    /\ \A w \in Workers : pc[w] \in WorkerPoints
    /\ \A p \in Putters : pc[p] \in PutterPoints
    /\ arg \in [Threads -> Tasks \cup {NoTask}]
    /\ dpc \in DestroyPoints

\* The ring of struct queue stays a queue: rear is front advanced by len, and
\* each of the len slots from front holds a task that was put. A pop from an
\* empty ring or a push into a full one breaks it.
Occupied(i) == slots[(front + i) % Cap]
RingInv ==
    /\ rear = (front + len) % Cap
    /\ \A i \in 0 .. len - 1 : Occupied(i) \in Tasks

\* Workers that will look at the queue before they sleep, and putters that
\* will look at the room in it.
Takers == At(Workers, "lock") \cup At(Workers, "check") \cup At(Workers, "test")
Givers == At(Putters, "lock") \cup At(Putters, "check") \cup At(Putters, "test")

\* No wakeup is lost between a put and a sleeping worker: while a worker sleeps
\* on not_empty, every queued task has a signal still to be sent or an awake
\* worker still to look at the queue.
NoLostNotEmpty ==
    ~destroyed /\ NotEmptyWaiters # {} =>
        len <= Cardinality(At(Putters, "signal")) + Cardinality(Takers)

\* No wakeup is lost between a pop and a sleeping putter: while pool_put sleeps
\* on not_full, every free slot has a signal still to be sent or an awake
\* putter still to look at the room.
NoLostNotFull ==
    ~destroyed /\ NotFullWaiters # {} =>
        Cap - len <= Cardinality(At(Workers, "signal")) + Cardinality(Givers)

\* No wakeup is lost, on either condition variable.
NoLostWakeup == NoLostNotEmpty /\ NoLostNotFull

\* What makes the properties above inductive: the mutex is held exactly between
\* its acquisition and its release; what a thread found in the while condition
\* still holds when it acts on it; a task in hand is a task that was put.
MutexInv == \A t \in Threads : pc[t] \in {"check", "wait", "test"} <=> lock = t
LoopInv ==
    /\ \A w \in Workers : /\ pc[w] = "wait" => len = 0
                          /\ pc[w] = "test" /\ ~destroyed => len > 0
    /\ \A p \in Putters : /\ pc[p] = "wait" => len = Cap
                          /\ pc[p] = "test" /\ ~destroyed => len < Cap
ArgInv ==
    /\ \A w \in Workers : pc[w] \in {"signal", "run"} => arg[w] \in Tasks
    /\ \A p \in Putters : pc[p] \notin {"idle", "signal"} => arg[p] \in Tasks
DestroyInv == destroyed <=> dpc # "none"
IInv ==
    /\ TypeOK
    /\ MutexInv
    /\ LoopInv
    /\ ArgInv
    /\ DestroyInv
    /\ RingInv
    /\ NoLostNotEmpty
    /\ NoLostNotFull

\* The ring stays within its bounds and a queue, and no thread acts on what no longer holds:
\* a pop finds a task and a push finds room, whatever woke the thread up.
RingSafe == TypeOK /\ RingInv /\ LoopInv

\* The pool implements the bounded FIFO of TaskQueue: a task is taken once, by
\* one worker, in the order of the puts, and none once destroyed is set.
Queued  == [i \in 1 .. len |-> Occupied(i - 1)]
Holding == [w \in Workers |-> IF pc[w] \in {"signal", "run"} THEN arg[w] ELSE NoTask]
Stopped == At(Workers, "exited")
TQ == INSTANCE TaskQueue WITH queue <- Queued, holding <- Holding,
                              closed <- destroyed, stopped <- Stopped
ImplementsTaskQueue == TQ!Spec

\* The task at the head of the queue is popped, or the pool is destroyed.
TasksAreTaken ==
    \A i \in 0 .. Cap - 1 : (len > 0 /\ front = i) ~> (front # i \/ destroyed)

\* pool_put returns, however full the queue was.
PutReturns == \A p \in Putters : pc[p] # "idle" ~> pc[p] = "idle"

\* pool_destory returns when no worker is between finding the queue empty and
\* blocking at the moment destroyed is set: the broadcast and the second test of
\* destroyed are enough for every worker that is blocked, running or contending.
DestroyReturnsUnlessRace ==
    (dpc = "bcast_not_full" /\ At(Workers, "wait") = {}) ~> dpc = "freed"

\* pool_destory returns once it is called.
DestroyReturns == dpc # "none" ~> dpc = "freed"
=============================================================================
