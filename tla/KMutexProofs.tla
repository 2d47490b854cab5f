---------------------------- MODULE KMutexProofs ----------------------------
(***************************************************************************)
(* The safety properties of the kernel mutex, proved for any set of        *)
(* threads and any order of their first runs.                              *)
(***************************************************************************)
EXTENDS KMutex, KSchedProofs

(* kmutex_init and the first run queue satisfy the invariant.              *)
LEMMA InitIInv == Init => IInv
<1> SUFFICES ASSUME Init PROVE IInv
  OBVIOUS
<1> DEFINE Q0 == [q \in Queues |-> IF q = kt_runq THEN RunOrder ELSE <<>>]
           W0 == [t \in Threads |-> kt_runq]
<1>1. /\ sched = [queue        |-> Q0,
                  kt_state     |-> [t \in Threads |-> "KT_RUN"],
                  kt_wchan     |-> W0,
                  kt_cancelled |-> {},
                  curthr       |-> NoThread]
      /\ km_holder = NoThread
      /\ pc = [t \in Threads |-> "out"]
  BY DEF Init, kmutex_init
<1>2. kt_runq \in Queues /\ km_waitq \in Queues /\ km_waitq # kt_runq
  BY KMutexAssumption, KSchedAssumption DEF Queues
<1>3. Q0 \in Links /\ W0 \in Wchans
  BY <1>2, KMutexAssumption DEF Links, Wchans
<1>4. LinkedOnce(Q0, W0)
  BY <1>2, KMutexAssumption, KSchedAssumption DEF LinkedOnce
<1>5. TypeOK
  <2> HIDE DEF Q0, W0
  <2> QED BY <1>1, <1>3 DEF TypeOK, SchedState, Links, Wchans, KtStates, Labels
<1>6. ThreadsPlaced
  <2>1. LinkedOnce(sched.queue, sched.kt_wchan)
    BY <1>1, <1>4, Zenon
  <2> QED BY <1>1, <2>1, <1>2, KSchedAssumption DEF ThreadsPlaced, ThreadsPlacedIn, Queues, Asleep
<1>7. WaitersHaveHolder
  BY <1>1, <1>2 DEF WaitersHaveHolder
<1>8. HandedOver /\ WaitersLock
  BY <1>1, <1>2 DEF HandedOver, WaitersLock
<1> QED BY <1>5, <1>6, <1>7, <1>8 DEF IInv

(* What every step starts from.                                            *)
LEMMA IInvFacts ==
    ASSUME IInv
    PROVE  /\ SchedInv(sched)
           /\ km_holder \in Threads \union {NoThread}
           /\ pc \in [Threads -> Labels]
           /\ sched.queue \in Links /\ sched.kt_wchan \in Wchans
           /\ sched.kt_state \in [Threads -> KtStates]
           /\ kt_runq \in Queues /\ km_waitq \in Queues /\ km_waitq # kt_runq
           /\ km_waitq # NoQueue /\ NoThread \notin Threads
           /\ sched.curthr \in Threads => sched.kt_wchan[sched.curthr] = NoQueue
                                          /\ sched.kt_state[sched.curthr] = "KT_RUN"
           /\ WaitersHaveHolder /\ HandedOver /\ WaitersLock
  BY KMutexAssumption, KSchedAssumption, ZenonT(30)
     DEF IInv, TypeOK, ThreadsPlaced, ThreadsPlacedIn, SchedInv, SchedState, Queues, Links,
         Wchans

(* sched_switch gives the processor to a thread: it leaves the run queue,  *)
(* and nothing about the mutex changes.                                    *)
LEMMA DispatchIInv == IInv /\ dispatch => IInv'
<1> SUFFICES ASSUME IInv, dispatch PROVE IInv'
  OBVIOUS
<1>1. CanDispatch(sched) /\ sched' = Dispatch(sched) /\ UNCHANGED <<km_holder, pc>>
  BY DEF dispatch
<1> DEFINE h == Head(sched.queue[kt_runq])
<1>2. /\ h \in Threads /\ sched.kt_wchan[h] = kt_runq
      /\ sched'.queue = [sched.queue EXCEPT ![kt_runq] = Tail(@)]
      /\ sched'.kt_wchan = [sched.kt_wchan EXCEPT ![h] = NoQueue]
      /\ sched'.kt_state = sched.kt_state
      /\ sched'.kt_cancelled = sched.kt_cancelled
      /\ SchedInv(sched')
  BY <1>1, IInvFacts, DispatchKeeps
<1> HIDE DEF h
<1>3. TypeOK' /\ ThreadsPlaced'
  BY <1>1, <1>2, IInvFacts DEF TypeOK, ThreadsPlaced, SchedInv
<1>4. WaitersHaveHolder'
  BY <1>1, <1>2, IInvFacts DEF WaitersHaveHolder, Links
<1>5. HandedOver' /\ WaitersLock'
  BY <1>1, <1>2, IInvFacts DEF HandedOver, WaitersLock, Wchans
<1> QED BY <1>3, <1>4, <1>5 DEF IInv

(* A thread goes to sleep on km_waitq inside kmutex_lock or inside         *)
(* kmutex_lock_cancellable.                                                *)
LEMMA BlockIInv ==
    ASSUME IInv, NEW t \in Threads, Runs(t, "out"), km_holder # NoThread,
           NEW state, NEW l, UNCHANGED km_holder, Goto(t, l),
           \/ state = "KT_SLEEP" /\ l = "lock"
           \/ state = "KT_SLEEP_CANCELLABLE" /\ l = "lock_cancellable",
           sched' = SleepAs(sched, km_waitq, state)
    PROVE  IInv'
<1>1. sched.curthr = t /\ pc[t] = "out" /\ pc' = [pc EXCEPT ![t] = l]
  BY DEF Runs, Goto
<1>2. state \in Asleep /\ km_waitq \in WaitQueues /\ sched.curthr # NoThread
  BY <1>1, KMutexAssumption, KSchedAssumption DEF Asleep
<1>3. /\ sched'.queue = [sched.queue EXCEPT ![km_waitq] = Append(@, t)]
      /\ sched'.kt_wchan = [sched.kt_wchan EXCEPT ![t] = km_waitq]
      /\ sched'.kt_state = [sched.kt_state EXCEPT ![t] = state]
      /\ sched'.kt_cancelled = sched.kt_cancelled
      /\ SchedInv(sched')
  BY <1>1, <1>2, IInvFacts, SleepKeeps
<1>4. TypeOK' /\ ThreadsPlaced'
  BY <1>1, <1>3, IInvFacts DEF TypeOK, ThreadsPlaced, SchedInv, Labels
<1>5. WaitersHaveHolder'
  BY IInvFacts DEF WaitersHaveHolder
<1>6. HandedOver' /\ WaitersLock'
  BY <1>1, <1>3, IInvFacts DEF HandedOver, WaitersLock, Wchans
<1> QED BY <1>4, <1>5, <1>6 DEF IInv

(* A free mutex is taken at once: nobody waited and nobody was inside.     *)
LEMMA TakeIInv ==
    ASSUME IInv, NEW t \in Threads, Runs(t, "out"), Take(t)
    PROVE  IInv'
<1>1. /\ sched.curthr = t /\ pc[t] = "out" /\ pc' = [pc EXCEPT ![t] = "in"]
      /\ km_holder = NoThread /\ km_holder' = t /\ sched' = sched
  BY DEF Runs, Goto, Take
<1>2. TypeOK' /\ ThreadsPlaced'
  BY <1>1, IInvFacts DEF IInv, TypeOK, ThreadsPlaced, SchedInv, Labels
<1>3. WaitersHaveHolder'
  BY <1>1, IInvFacts DEF WaitersHaveHolder
<1>4. HandedOver' /\ WaitersLock'
  BY <1>1, IInvFacts DEF HandedOver, WaitersLock
<1> QED BY <1>2, <1>3, <1>4 DEF IInv

(* The mutex already belongs to a thread whose lock call returns 0.        *)
LEMMA ReturnIInv ==
    ASSUME IInv, NEW t \in Threads,
           kmutex_lock_return(t) \/ kmutex_lock_cancellable_return(t)
    PROVE  IInv'
<1>1. sched.curthr = t /\ sched' = sched /\ sched.kt_wchan[t] = NoQueue
  BY IInvFacts DEF kmutex_lock_return, kmutex_lock_cancellable_return, Runs
<1>2. \/ pc' = [pc EXCEPT ![t] = "in"] /\ km_holder = t /\ km_holder' = t
      \/ pc' = [pc EXCEPT ![t] = "eintr"] /\ km_holder' = km_holder
  BY <1>1, IInvFacts DEF kmutex_lock_return, kmutex_lock_cancellable_return, Runs, Goto,
                         HandedOver, SleepResult
<1>3. km_holder' = km_holder
  BY <1>2
<1>4. TypeOK' /\ ThreadsPlaced'
  BY <1>1, <1>2, IInvFacts DEF IInv, TypeOK, ThreadsPlaced, SchedInv, Labels
<1>5. WaitersHaveHolder'
  BY <1>1, <1>3, IInvFacts DEF WaitersHaveHolder
<1>6. HandedOver' /\ WaitersLock'
  BY <1>1, <1>2, IInvFacts DEF HandedOver, WaitersLock
<1> QED BY <1>4, <1>5, <1>6 DEF IInv

(* The hand-over: the first waiter, if there is one, becomes the holder.   *)
LEMMA UnlockIInv ==
    ASSUME IInv, NEW t \in Threads, kmutex_unlock(t)
    PROVE  IInv'
<1>1. /\ sched.curthr = t /\ pc[t] = "in" /\ pc' = [pc EXCEPT ![t] = "out"]
      /\ km_holder' = IF sched_queue_empty(sched, km_waitq) THEN NoThread
                      ELSE Head(sched.queue[km_waitq])
      /\ sched' = sched_wakeup_on(sched, km_waitq)
  BY DEF kmutex_unlock, Runs, Goto
<1>2. km_holder = t /\ sched.kt_wchan[t] = NoQueue
  BY <1>1, IInvFacts DEF HandedOver
<1>3. CASE sched.queue[km_waitq] = <<>>
  <2>1. sched' = sched /\ km_holder' = NoThread
    BY <1>1, <1>3 DEF sched_wakeup_on, sched_queue_empty
  <2>2. TypeOK' /\ ThreadsPlaced'
    BY <1>1, <2>1, IInvFacts DEF IInv, TypeOK, ThreadsPlaced, SchedInv, Labels
  <2>3. WaitersHaveHolder'
    BY <1>3, <2>1 DEF WaitersHaveHolder
  <2>4. HandedOver' /\ WaitersLock'
    BY <1>1, <1>2, <2>1, IInvFacts DEF HandedOver, WaitersLock
  <2> QED BY <2>2, <2>3, <2>4 DEF IInv
<1>4. CASE sched.queue[km_waitq] # <<>>
  <2> DEFINE h == Head(sched.queue[km_waitq])
  <2>1. km_holder' = h
    BY <1>1, <1>4 DEF sched_queue_empty
  <2>2. /\ h \in Threads /\ sched.kt_wchan[h] = km_waitq
        /\ sched'.kt_wchan = [sched.kt_wchan EXCEPT ![h] = kt_runq]
        /\ sched'.kt_state = [sched.kt_state EXCEPT ![h] = "KT_RUN"]
        /\ sched'.kt_cancelled = sched.kt_cancelled
        /\ SchedInv(sched')
    <3>1. km_waitq \in WaitQueues /\ SchedInv(sched)
      BY IInvFacts, KMutexAssumption
    <3>2. sched' = sched_wakeup_on(sched, km_waitq)
      BY <1>1, <1>4 DEF sched_queue_empty
    <3> QED BY <1>4, <3>1, <3>2, WakeupKeeps, SMTT(30)
  <2> HIDE DEF h
  <2>3. h # t
    BY <1>2, <2>2, IInvFacts
  <2>4. TypeOK' /\ ThreadsPlaced'
    BY <1>1, <2>1, <2>2, IInvFacts DEF TypeOK, ThreadsPlaced, SchedInv, Labels
  <2>5. WaitersHaveHolder'
    BY <2>1, <2>2, KSchedAssumption DEF WaitersHaveHolder
  <2>6. HandedOver' /\ WaitersLock'
    BY <1>1, <1>2, <2>1, <2>2, <2>3, IInvFacts DEF HandedOver, WaitersLock, Wchans
  <2> QED BY <2>4, <2>5, <2>6 DEF IInv
<1> QED BY <1>3, <1>4

(* A thread that yields, inside or outside, goes to the run queue only.    *)
LEMMA YieldIInv ==
    ASSUME IInv, NEW t \in Threads, yield(t)
    PROVE  IInv'
<1>1. /\ sched.curthr = t /\ pc' = pc /\ km_holder' = km_holder
      /\ sched' = Yield(sched) /\ sched.curthr # NoThread
      /\ pc[t] \in {"out", "in"}
  BY KSchedAssumption DEF yield
<1>2. /\ sched'.queue = [sched.queue EXCEPT ![kt_runq] = Append(@, t)]
      /\ sched'.kt_wchan = [sched.kt_wchan EXCEPT ![t] = kt_runq]
      /\ sched'.kt_state = sched.kt_state
      /\ sched'.kt_cancelled = sched.kt_cancelled
      /\ SchedInv(sched')
  BY <1>1, IInvFacts, YieldKeeps
<1>3. TypeOK' /\ ThreadsPlaced'
  BY <1>1, <1>2, IInvFacts DEF TypeOK, ThreadsPlaced, SchedInv
<1>4. WaitersHaveHolder'
  BY <1>1, <1>2, IInvFacts DEF WaitersHaveHolder, Links
<1>5. HandedOver' /\ WaitersLock'
  BY <1>1, <1>2, IInvFacts DEF HandedOver, WaitersLock, Wchans
<1> QED BY <1>3, <1>4, <1>5 DEF IInv

(* A thread that exits was on no queue and not inside.                     *)
LEMMA ExitIInv ==
    ASSUME IInv, NEW t \in Threads, kthread_exit(t)
    PROVE  IInv'
<1>1. /\ sched.curthr = t /\ pc' = [pc EXCEPT ![t] = "exited"] /\ km_holder' = km_holder
      /\ sched' = ThreadExit(sched) /\ sched.curthr # NoThread
      /\ sched.kt_wchan[t] = NoQueue
  BY KSchedAssumption, IInvFacts DEF kthread_exit, Goto
<1>2. /\ sched'.queue = sched.queue
      /\ sched'.kt_wchan = sched.kt_wchan
      /\ sched'.kt_state = [sched.kt_state EXCEPT ![t] = "KT_EXITED"]
      /\ sched'.kt_cancelled = sched.kt_cancelled
      /\ SchedInv(sched')
  BY <1>1, IInvFacts, ExitKeeps
<1>3. TypeOK' /\ ThreadsPlaced'
  BY <1>1, <1>2, IInvFacts DEF TypeOK, ThreadsPlaced, SchedInv, Labels
<1>4. WaitersHaveHolder'
  BY <1>1, <1>2, IInvFacts DEF WaitersHaveHolder
<1>5. HandedOver' /\ WaitersLock'
  BY <1>1, <1>2, IInvFacts DEF HandedOver, WaitersLock
<1> QED BY <1>3, <1>4, <1>5 DEF IInv

(* Cancellation takes a thread off km_waitq only inside the cancellable    *)
(* lock call, and never leaves it with the mutex it waited for.            *)
LEMMA CancelIInv ==
    ASSUME IInv, NEW t \in Threads, NEW u \in Threads, kthread_cancel(t, u)
    PROVE  IInv'
<1>1. pc' = pc /\ km_holder' = km_holder /\ sched' = sched_cancel(sched, u)
  BY DEF kthread_cancel
<1>2. CASE sched.kt_state[u] = "KT_SLEEP_CANCELLABLE"
  <2>1. SchedInv(sched)
    BY IInvFacts
  <2>2. /\ sched.kt_wchan[u] \in WaitQueues
        /\ sched.queue[sched.kt_wchan[u]] # <<>>
        /\ \A r \in WaitQueues \ {sched.kt_wchan[u]} : sched'.queue[r] = sched.queue[r]
        /\ sched'.kt_wchan = [sched.kt_wchan EXCEPT ![u] = kt_runq]
        /\ sched'.kt_state = [sched.kt_state EXCEPT ![u] = "KT_RUN"]
        /\ sched'.kt_cancelled = sched.kt_cancelled \union {u}
        /\ SchedInv(sched')
    BY <1>1, <1>2, <2>1, CancelKeeps
  <2>3. pc[u] = "lock_cancellable"
    BY <1>2, IInvFacts DEF WaitersLock
  <2>4. TypeOK' /\ ThreadsPlaced'
    BY <1>1, <2>2, IInvFacts DEF TypeOK, ThreadsPlaced, SchedInv
  <2>5. WaitersHaveHolder'
    <3>1. sched'.queue[km_waitq] # <<>> => sched.queue[km_waitq] # <<>>
      BY <2>2, KMutexAssumption
    <3> QED BY <1>1, <3>1, IInvFacts DEF WaitersHaveHolder
  <2>6. HandedOver' /\ WaitersLock'
    BY <1>1, <2>2, <2>3, IInvFacts DEF HandedOver, WaitersLock, Wchans
  <2> QED BY <2>4, <2>5, <2>6 DEF IInv
<1>3. CASE sched.kt_state[u] # "KT_SLEEP_CANCELLABLE"
  <2>1. /\ sched'.queue = sched.queue
        /\ sched'.kt_wchan = sched.kt_wchan
        /\ sched'.kt_state = sched.kt_state
        /\ sched'.kt_cancelled = sched.kt_cancelled \union {u}
        /\ SchedInv(sched')
    BY <1>1, <1>3, IInvFacts, MarkKeeps
  <2>2. TypeOK' /\ ThreadsPlaced'
    BY <1>1, <2>1, IInvFacts DEF TypeOK, ThreadsPlaced, SchedInv
  <2>3. WaitersHaveHolder'
    BY <1>1, <2>1, IInvFacts DEF WaitersHaveHolder
  <2>4. HandedOver' /\ WaitersLock'
    BY <1>1, <2>1, IInvFacts DEF HandedOver, WaitersLock
  <2> QED BY <2>2, <2>3, <2>4 DEF IInv
<1> QED BY <1>2, <1>3

(* Every step of the mutex and the scheduler keeps the invariant.          *)
LEMMA NextIInv == IInv /\ [Next]_vars => IInv'
<1> SUFFICES ASSUME IInv, [Next]_vars PROVE IInv'
  OBVIOUS
<1>1. CASE dispatch
  BY <1>1, DispatchIInv
<1>2. ASSUME NEW t \in Threads, kmutex_lock(t) PROVE IInv'
  <2>1. Runs(t, "out")
    BY <1>2 DEF kmutex_lock
  <2>2. CASE Take(t)
    BY <2>1, <2>2, TakeIInv
  <2>3. CASE ~Take(t)
    <3>1. /\ km_holder # NoThread /\ sched' = SleepAs(sched, km_waitq, "KT_SLEEP")
          /\ Goto(t, "lock") /\ UNCHANGED km_holder
      BY <1>2, <2>3 DEF kmutex_lock, sched_sleep_on
    <3> QED BY <2>1, <3>1, BlockIInv
  <2> QED BY <2>2, <2>3
<1>3. ASSUME NEW t \in Threads, kmutex_lock_cancellable(t) PROVE IInv'
  <2>1. Runs(t, "out")
    BY <1>3 DEF kmutex_lock_cancellable
  <2>2. CASE Take(t)
    BY <2>1, <2>2, TakeIInv
  <2>3. CASE ~Take(t)
    <3>1. /\ km_holder # NoThread
          /\ sched' = SleepAs(sched, km_waitq, "KT_SLEEP_CANCELLABLE")
          /\ Goto(t, "lock_cancellable") /\ UNCHANGED km_holder
      BY <1>3, <2>3 DEF kmutex_lock_cancellable, sched_cancellable_sleep_on
    <3> QED BY <2>1, <3>1, BlockIInv
  <2> QED BY <2>2, <2>3
<1>4. ASSUME NEW t \in Threads,
             kmutex_lock_return(t) \/ kmutex_lock_cancellable_return(t)
      PROVE  IInv'
  BY <1>4, ReturnIInv
<1>5. ASSUME NEW t \in Threads, kmutex_unlock(t) PROVE IInv'
  BY <1>5, UnlockIInv
<1>6. ASSUME NEW t \in Threads, yield(t) PROVE IInv'
  BY <1>6, YieldIInv
<1>7. ASSUME NEW t \in Threads, kthread_exit(t) PROVE IInv'
  BY <1>7, ExitIInv
<1>8. ASSUME NEW t \in Threads, NEW u \in Threads, kthread_cancel(t, u) PROVE IInv'
  BY <1>8, CancelIInv
<1>9. CASE UNCHANGED vars
  BY <1>9 DEF vars, IInv, TypeOK, ThreadsPlaced, WaitersHaveHolder, HandedOver, WaitersLock
<1> QED BY <1>1, <1>2, <1>3, <1>4, <1>5, <1>6, <1>7, <1>8, <1>9 DEF Next

(* The invariant holds in every reachable state.                           *)
LEMMA InductiveInvariant == Spec => []IInv
  BY InitIInv, NextIInv, PTL DEF Spec

-----------------------------------------------------------------------------
(* Every variable of the mutex and of the scheduler keeps its type.        *)
THEOREM TypeCorrect == Spec => []TypeOK
<1>1. IInv => TypeOK
  BY DEF IInv
<1> QED BY <1>1, InductiveInvariant, PTL

(* sched.c's sleeping, waking and cancelling, as the mutex uses them, keep *)
(* every thread on the one queue its kt_wchan names, or on none.           *)
THEOREM NoThreadLost == Spec => []ThreadsPlaced
<1>1. IInv => ThreadsPlaced
  BY DEF IInv
<1> QED BY <1>1, InductiveInvariant, PTL

(* kmutex_lock, kmutex_lock_cancellable and kmutex_unlock never let two    *)
(* threads in, however the hand-over, the return of the lock call and      *)
(* cancellation interleave.                                                *)
THEOREM MutexExcludes == Spec => []MutualExclusion
<1>1. IInv => MutualExclusion
  BY DEF IInv, HandedOver, MutualExclusion
<1> QED BY <1>1, InductiveInvariant, PTL

(* No thread sleeps on the queue of a free mutex: kmutex_unlock always     *)
(* finds the waiters.                                                      *)
THEOREM WaitersAreServed == Spec => []WaitersHaveHolder
<1>1. IInv => WaitersHaveHolder
  BY DEF IInv
<1> QED BY <1>1, InductiveInvariant, PTL
=============================================================================
