------------------------------- MODULE KMutex -------------------------------
(***************************************************************************)
(* The weenix kernel mutex (proc/kmutex.c) used by any number of threads   *)
(* that may be cancelled at any time.  kmutex_unlock hands the mutex over: *)
(* the thread at the head of km_waitq becomes the holder while it is only  *)
(* runnable, and runs the rest of its lock call later.                     *)
(***************************************************************************)
EXTENDS KSched

CONSTANT RunOrder \* the order in which the threads first run

VARIABLES sched,     \* the scheduler state of KSched
          km_holder, \* the mutex's holder, or NoThread
          pc         \* what each thread believes and is about to do

vars == <<sched, km_holder, pc>>

km_waitq == "km_waitq"
ASSUME KMutexAssumption ==
    /\ km_waitq \in WaitQueues
    /\ RunOrder \in Seq(Threads)
    /\ \A t \in Threads : \E i \in 1 .. Len(RunOrder) : RunOrder[i] = t
    /\ \A i, j \in 1 .. Len(RunOrder) : RunOrder[i] = RunOrder[j] => i = j

Labels == {"out", "lock", "lock_cancellable", "in", "eintr", "exited"}

Runs(t, l) == sched.curthr = t /\ pc[t] = l
Goto(t, l) == pc' = [pc EXCEPT ![t] = l]

-----------------------------------------------------------------------------
(* A free mutex is taken at once; KASSERT(curthr != mtx->km_holder) holds  *)
(* because a thread that is "out" has not locked the mutex.                *)
Take(t) ==
    /\ km_holder = NoThread
    /\ km_holder' = t
    /\ Goto(t, "in")
    /\ UNCHANGED sched

kmutex_lock(t) ==
    /\ Runs(t, "out")
    /\ \/ Take(t)
       \/ /\ km_holder # NoThread
          /\ sched' = sched_sleep_on(sched, km_waitq)
          /\ Goto(t, "lock")
          /\ UNCHANGED km_holder

(* The rest of kmutex_lock once sched_sleep_on returns.                    *)
kmutex_lock_return(t) ==
    /\ Runs(t, "lock")
    /\ km_holder' = t
    /\ Goto(t, "in")
    /\ UNCHANGED sched

kmutex_lock_cancellable(t) ==
    /\ Runs(t, "out")
    /\ \/ Take(t)
       \/ /\ km_holder # NoThread
          /\ sched' = sched_cancellable_sleep_on(sched, km_waitq)
          /\ Goto(t, "lock_cancellable")
          /\ UNCHANGED km_holder

(* Mutant: the result of sched_cancellable_sleep_on is ignored.            *)
kmutex_lock_cancellable_return_Ignores(t) ==
    /\ Runs(t, "lock_cancellable")
    /\ km_holder' = t
    /\ Goto(t, "in")
    /\ UNCHANGED sched

(* The rest of kmutex_lock_cancellable: 0 or -EINTR.                       *)
kmutex_lock_cancellable_return(t) ==
    /\ Runs(t, "lock_cancellable")
    /\ \/ /\ SleepResult(sched, t) = "0"
          /\ km_holder' = t
          /\ Goto(t, "in")
       \/ /\ SleepResult(sched, t) = "-EINTR"
          /\ Goto(t, "eintr")
          /\ UNCHANGED km_holder
    /\ UNCHANGED sched

(* Mutant: the mutex is free until the woken thread takes it.              *)
kmutex_unlock_NotHandedOver(t) ==
    /\ Runs(t, "in")
    /\ km_holder' = NoThread
    /\ sched' = sched_wakeup_on(sched, km_waitq)
    /\ Goto(t, "out")

(* Mutant: the new holder is not woken.                                    *)
kmutex_unlock_NotWoken(t) ==
    /\ Runs(t, "in")
    /\ IF sched_queue_empty(sched, km_waitq)
       THEN km_holder' = NoThread
       ELSE km_holder' = Head(sched.queue[km_waitq])
    /\ UNCHANGED sched
    /\ Goto(t, "out")

kmutex_unlock(t) ==
    /\ Runs(t, "in")
    /\ IF sched_queue_empty(sched, km_waitq)
       THEN km_holder' = NoThread
       ELSE km_holder' = Head(sched.queue[km_waitq])
    /\ sched' = sched_wakeup_on(sched, km_waitq)
    /\ Goto(t, "out")

-----------------------------------------------------------------------------
(* What else the current thread may do, with or without the mutex: let     *)
(* another thread run, cancel another thread, exit.  A thread whose lock   *)
(* call was cancelled unwinds and exits.                                   *)
yield(t) ==
    /\ sched.curthr = t
    /\ pc[t] \in {"out", "in"}
    /\ sched' = Yield(sched)
    /\ UNCHANGED <<km_holder, pc>>

kthread_cancel(t, u) ==
    /\ sched.curthr = t
    /\ pc[t] \in {"out", "in"}
    /\ u # t
    /\ sched.kt_state[u] # "KT_EXITED"
    /\ sched' = sched_cancel(sched, u)
    /\ UNCHANGED <<km_holder, pc>>

kthread_exit(t) ==
    /\ sched.curthr = t
    /\ pc[t] \in {"out", "eintr"}
    /\ sched' = ThreadExit(sched)
    /\ Goto(t, "exited")
    /\ UNCHANGED km_holder

dispatch ==
    /\ CanDispatch(sched)
    /\ sched' = Dispatch(sched)
    /\ UNCHANGED <<km_holder, pc>>

-----------------------------------------------------------------------------
(* Mutant: km_holder is never set and holds garbage, NoQueue here.         *)
kmutex_init_Garbage == km_holder = NoQueue

(* kmutex_init leaves the mutex free.                                      *)
kmutex_init == km_holder = NoThread

(* Every thread is on the run queue.                                       *)
Init ==
    /\ kmutex_init
    /\ sched = [queue        |-> [q \in Queues |-> IF q = kt_runq THEN RunOrder ELSE <<>>],
                kt_state     |-> [t \in Threads |-> "KT_RUN"],
                kt_wchan     |-> [t \in Threads |-> kt_runq],
                kt_cancelled |-> {},
                curthr       |-> NoThread]
    /\ pc = [t \in Threads |-> "out"]

Next ==
    \/ dispatch
    \/ \E t \in Threads :
          \/ kmutex_lock(t) \/ kmutex_lock_return(t)
          \/ kmutex_lock_cancellable(t) \/ kmutex_lock_cancellable_return(t)
          \/ kmutex_unlock(t) \/ yield(t) \/ kthread_exit(t)
          \/ \E u \in Threads : kthread_cancel(t, u)

Spec == Init /\ [][Next]_vars

(* The scheduler keeps dispatching, a lock call that has been woken        *)
(* returns, no thread keeps the processor for ever without yielding it,    *)
(* and a thread that holds the mutex and keeps running unlocks it.         *)
Fairness ==
    /\ WF_vars(dispatch)
    /\ \A t \in Threads :
          /\ WF_vars(kmutex_lock_return(t))
          /\ WF_vars(kmutex_lock_cancellable_return(t))
          /\ WF_vars(yield(t))
          /\ WF_vars(kthread_exit(t) /\ pc[t] = "eintr")
          /\ SF_vars(kmutex_unlock(t))

FairSpec == Spec /\ Fairness

-----------------------------------------------------------------------------
(* Properties                                                              *)

(* The scheduler state, the holder and the control points have their types *)
TypeOK ==
    /\ sched \in SchedState
    /\ km_holder \in Threads \union {NoThread}
    /\ pc \in [Threads -> Labels]

(* Sleeping, waking, handing over and cancelling never lose a thread and   *)
(* never put it on two queues.                                             *)
ThreadsPlaced == ThreadsPlacedIn(sched)

(* At most one thread has returned from a lock call and not yet unlocked,  *)
(* although the mutex changes hands before the new holder runs.            *)
MutualExclusion ==
    \A t, u \in Threads : pc[t] = "in" /\ pc[u] = "in" => t = u

(* Threads wait in km_waitq only while the mutex is held: otherwise no     *)
(* kmutex_unlock would ever wake them.                                     *)
WaitersHaveHolder == sched.queue[km_waitq] # <<>> => km_holder # NoThread

(* The mutex belongs to the thread inside and, after a hand-over, to the   *)
(* thread that kmutex_unlock took off km_waitq.                            *)
HandedOver ==
    \A t \in Threads :
        /\ pc[t] = "in" => km_holder = t
        /\ sched.kt_wchan[t] # km_waitq =>
              /\ pc[t] = "lock" => km_holder = t
              /\ pc[t] = "lock_cancellable" /\ t \notin sched.kt_cancelled => km_holder = t

(* The threads on km_waitq are those inside a lock call, and only those in *)
(* the cancellable one can be cancelled in their sleep.                    *)
WaitersLock ==
    \A t \in Threads :
        /\ sched.kt_wchan[t] = km_waitq => pc[t] \in {"lock", "lock_cancellable"}
        /\ sched.kt_state[t] = "KT_SLEEP_CANCELLABLE" => pc[t] = "lock_cancellable"

(* The inductive invariant behind the theorems of KMutexProofs.            *)
IInv == TypeOK /\ ThreadsPlaced /\ WaitersHaveHolder /\ HandedOver /\ WaitersLock

(* The holder was handed the mutex but its lock call failed.               *)
Leaked == \E t \in Threads : km_holder = t /\ pc[t] \in {"eintr", "exited"}

(* A thread in an uncancellable kmutex_lock gets the mutex, unless a       *)
(* cancelled lock call has leaked it.                                      *)
LockGranted == \A t \in Threads : pc[t] = "lock" ~> pc[t] = "in" \/ Leaked

(* "0 if the current thread now holds the mutex and -EINTR if the sleep    *)
(* was cancelled and this thread does not hold the mutex" (kmutex.h, lines *)
(* 37-38): what kmutex_lock_cancellable promises.                          *)
EintrMeansNotHeld == \A t \in Threads : pc[t] = "eintr" => km_holder # t
=============================================================================
