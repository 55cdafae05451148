------------------------------ MODULE TaskQueue ------------------------------
(***************************************************************************)
(* What the thread pool of threadpool.c promises to the reactor: a bounded *)
(* FIFO of tasks. A task that was put is taken by one worker, once, in the *)
(* order of the puts, and after the pool is closed nothing is put or taken *)
(* any more. Mutexes, condition variables and the ring of slots are not    *)
(* mentioned: ThreadPool refines this module.                              *)
(***************************************************************************)
EXTENDS Naturals, Sequences

CONSTANTS Workers,   \* the threads that take tasks
          Tasks,     \* what can be put
          NoTask,    \* what a worker holds between two tasks
          Cap        \* the most tasks the queue holds

VARIABLES queue,     \* tasks put and not yet taken, oldest first
          holding,   \* the task each worker is running, or NoTask
          closed,    \* the pool is being destroyed
          stopped    \* workers whose thread has ended

vars == <<queue, holding, closed, stopped>>

Init ==
    /\ queue = <<>>
    /\ holding = [w \in Workers |-> NoTask]
    /\ closed = FALSE
    /\ stopped = {}

Put(t) ==
    /\ ~closed
    /\ Len(queue) < Cap
    /\ queue' = Append(queue, t)
    /\ UNCHANGED <<holding, closed, stopped>>

Take(w) ==
    /\ ~closed
    /\ holding[w] = NoTask
    /\ w \notin stopped
    /\ queue # <<>>
    /\ holding' = [holding EXCEPT ![w] = Head(queue)]
    /\ queue' = Tail(queue)
    /\ UNCHANGED <<closed, stopped>>

Finish(w) ==
    /\ holding[w] # NoTask
    /\ holding' = [holding EXCEPT ![w] = NoTask]
    /\ UNCHANGED <<queue, closed, stopped>>

Close ==
    /\ ~closed
    /\ closed' = TRUE
    /\ UNCHANGED <<queue, holding, stopped>>

Stop(w) ==
    /\ closed
    /\ holding[w] = NoTask
    /\ w \notin stopped
    /\ stopped' = stopped \cup {w}
    /\ UNCHANGED <<queue, holding, closed>>

Next ==
    \/ \E t \in Tasks : Put(t)
    \/ \E w \in Workers : Take(w) \/ Finish(w) \/ Stop(w)
    \/ Close

Spec == Init /\ [][Next]_vars
=============================================================================
