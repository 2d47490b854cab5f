------------------------------- MODULE KSched -------------------------------
(***************************************************************************)
(* The weenix thread scheduler (proc/sched.c) as operators on its state.   *)
(*                                                                         *)
(* The kernel has one processor and does not preempt: the current thread   *)
(* runs until it calls sched_switch.  A scheduler state is a record        *)
(*    queue         the threads on each ktqueue, first to be woken first   *)
(*    kt_state      the state of each thread                               *)
(*    kt_wchan      the queue each thread is linked on, or NoQueue         *)
(*    kt_cancelled  the threads that have been cancelled                   *)
(*    curthr        the thread that runs, or NoThread inside sched_switch  *)
(* ktqueue_enqueue inserts at the head of the list and ktqueue_dequeue     *)
(* takes the tail; the sequences here list the same threads from tail to   *)
(* head.  Masking interrupts around the run queue is what makes each of    *)
(* these operators one step.                                               *)
(***************************************************************************)
EXTENDS Integers, Sequences

CONSTANTS Threads,    \* the kernel threads
          WaitQueues, \* every ktqueue but the run queue
          NoThread,   \* NULL as a thread
          NoQueue     \* NULL as a queue

kt_runq == "kt_runq"
Queues  == WaitQueues \union {kt_runq}

ASSUME KSchedAssumption ==
    /\ NoThread \notin Threads
    /\ kt_runq \notin WaitQueues
    /\ NoQueue \notin Queues

KtStates == {"KT_NO_STATE", "KT_RUN", "KT_SLEEP", "KT_SLEEP_CANCELLABLE", "KT_EXITED"}
Asleep   == {"KT_SLEEP", "KT_SLEEP_CANCELLABLE"}

SchedState ==
    [queue        : [Queues -> Seq(Threads)],
     kt_state     : [Threads -> KtStates],
     kt_wchan     : [Threads -> Queues \union {NoQueue}],
     kt_cancelled : SUBSET Threads,
     curthr       : Threads \union {NoThread}]

(* A sequence without its i-th element.                                    *)
Without(seq, i) ==
    [j \in 1 .. (Len(seq) - 1) |-> IF j < i THEN seq[j] ELSE seq[j + 1]]

OnQueueOf(seq, t) == \E i \in 1 .. Len(seq) : seq[i] = t

-----------------------------------------------------------------------------
ktqueue_enqueue(s, q, t) ==
    [s EXCEPT !.queue[q] = Append(@, t), !.kt_wchan[t] = q]

ktqueue_dequeue(s, q) ==
    [s EXCEPT !.queue[q] = Tail(@), !.kt_wchan[Head(s.queue[q])] = NoQueue]

ktqueue_remove(s, q, t) ==
    LET i == CHOOSE i \in 1 .. Len(s.queue[q]) : s.queue[q][i] = t
    IN  [s EXCEPT !.queue[q] = Without(@, i), !.kt_wchan[t] = NoQueue]

sched_queue_empty(s, q) == s.queue[q] = <<>>

sched_make_runnable(s, t) ==
    ktqueue_enqueue([s EXCEPT !.kt_state[t] = "KT_RUN"], kt_runq, t)

(* sched_switch in two steps: the caller gives up the processor, and the   *)
(* loop of sched_switch goes on as soon as the run queue holds a thread.   *)
sched_switch(s) == [s EXCEPT !.curthr = NoThread]

CanDispatch(s) == s.curthr = NoThread /\ ~sched_queue_empty(s, kt_runq)

Dispatch(s) ==
    [ktqueue_dequeue(s, kt_runq) EXCEPT !.curthr = Head(s.queue[kt_runq])]

(* sched_sleep_on and sched_cancellable_sleep_on up to their sched_switch; *)
(* what follows it belongs to the caller's continuation.                   *)
SleepAs(s, q, state) ==
    sched_switch(ktqueue_enqueue([s EXCEPT !.kt_state[s.curthr] = state],
                                 q, s.curthr))
sched_sleep_on(s, q)             == SleepAs(s, q, "KT_SLEEP")
sched_cancellable_sleep_on(s, q) == SleepAs(s, q, "KT_SLEEP_CANCELLABLE")

(* What sched_cancellable_sleep_on returns when thread t runs again.       *)
SleepResult(s, t) == IF t \in s.kt_cancelled THEN "-EINTR" ELSE "0"

(* Mutant: the thread is made runnable where it sleeps.                    *)
sched_wakeup_on_StillQueued(s, q) ==
    IF sched_queue_empty(s, q) THEN s ELSE sched_make_runnable(s, Head(s.queue[q]))

sched_wakeup_on(s, q) ==
    IF sched_queue_empty(s, q)
    THEN s
    ELSE sched_make_runnable(ktqueue_dequeue(s, q), Head(s.queue[q]))

(* Every thread on the queue is made runnable, in the order of the queue.  *)
sched_broadcast_on(s, q) ==
    LET woken(t) == OnQueueOf(s.queue[q], t)
        queues   == [s.queue EXCEPT ![kt_runq] = @ \o s.queue[q], ![q] = <<>>]
    IN  [s EXCEPT !.queue    = queues,
                  !.kt_state = [t \in Threads |-> IF woken(t) THEN "KT_RUN" ELSE @[t]],
                  !.kt_wchan = [t \in Threads |-> IF woken(t) THEN kt_runq ELSE @[t]]]

(* Mutant: the cancelled thread stays on the queue it sleeps on.           *)
sched_cancel_StillQueued(s, t) ==
    LET c == [s EXCEPT !.kt_cancelled = @ \union {t}]
    IN  IF s.kt_state[t] = "KT_SLEEP_CANCELLABLE" THEN sched_make_runnable(c, t) ELSE c

(* kthread_cancel of another thread ends in sched_cancel.                  *)
sched_cancel(s, t) ==
    LET c == [s EXCEPT !.kt_cancelled = @ \union {t}]
    IN  IF s.kt_state[t] = "KT_SLEEP_CANCELLABLE"
        THEN sched_make_runnable(ktqueue_remove(c, c.kt_wchan[t], t), t)
        ELSE c

(* Mutant: the yielding thread stays first on the run queue.               *)
Yield_StaysFirst(s) ==
    sched_switch([s EXCEPT !.queue[kt_runq] = <<s.curthr>> \o @,
                           !.kt_wchan[s.curthr] = kt_runq])

(* The current thread gives the processor to the next runnable one.        *)
Yield(s) == sched_switch(sched_make_runnable(s, s.curthr))

(* kthread_exit of the current thread as far as the scheduler is concerned *)
ThreadExit(s) == sched_switch([s EXCEPT !.kt_state[s.curthr] = "KT_EXITED"])

-----------------------------------------------------------------------------
(* "unless the thread is in the KT_NO_STATE or KT_EXITED state, it should  *)
(* be on some queue. Otherwise, it will never be run again" (sched.c, line *)
(* 193): a thread other than the current one is linked on exactly the      *)
(* queue kt_wchan names, once, and its state agrees with that queue.       *)
OnQueue(s, t, q) == \E i \in 1 .. Len(s.queue[q]) : s.queue[q][i] = t

LinkedOnce(queue, wchan) ==
    /\ \A q \in Queues : \A i \in 1 .. Len(queue[q]) :
          /\ wchan[queue[q][i]] = q
          /\ \A j \in 1 .. Len(queue[q]) : queue[q][i] = queue[q][j] => i = j
    /\ \A t \in Threads : wchan[t] # NoQueue =>
          \E i \in 1 .. Len(queue[wchan[t]]) : queue[wchan[t]][i] = t

ThreadsPlacedIn(s) ==
    /\ LinkedOnce(s.queue, s.kt_wchan)
    /\ \A t \in Threads :
          /\ s.kt_state[t] = "KT_RUN" <=> t = s.curthr \/ s.kt_wchan[t] = kt_runq
          /\ s.kt_state[t] \in Asleep <=> s.kt_wchan[t] \in WaitQueues
    /\ s.curthr # NoThread => s.kt_wchan[s.curthr] = NoQueue
=============================================================================
