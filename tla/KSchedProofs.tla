---------------------------- MODULE KSchedProofs ----------------------------
(***************************************************************************)
(* What the scheduler's operators preserve, for any number of threads and  *)
(* queues: the types of its state, and ThreadsPlacedIn.                    *)
(***************************************************************************)
EXTENDS KSched, SequenceTheorems, TLAPS

Links  == [Queues -> Seq(Threads)]
Wchans == [Threads -> Queues \union {NoQueue}]

(* ktqueue_enqueue: linking a thread that is on no queue at the end of q.  *)
LEMMA LinkAppend ==
    ASSUME NEW queue \in Links, NEW wchan \in Wchans, LinkedOnce(queue, wchan),
           NEW q \in Queues, NEW t \in Threads, wchan[t] = NoQueue
    PROVE  /\ [queue EXCEPT ![q] = Append(@, t)] \in Links
           /\ [wchan EXCEPT ![t] = q] \in Wchans
           /\ LinkedOnce([queue EXCEPT ![q] = Append(@, t)], [wchan EXCEPT ![t] = q])
<1> DEFINE Q == [queue EXCEPT ![q] = Append(@, t)]
           W == [wchan EXCEPT ![t] = q]
<1>1. Q \in Links /\ W \in Wchans
  BY DEF Links, Wchans
<1>2. /\ queue[q] \in Seq(Threads)
      /\ Len(Q[q]) = Len(queue[q]) + 1
      /\ Q[q][Len(queue[q]) + 1] = t
      /\ \A i \in 1 .. Len(queue[q]) : Q[q][i] = queue[q][i]
      /\ \A r \in Queues \ {q} : Q[r] = queue[r]
  BY DEF Links
<1>3. \A r \in Queues : \A i \in 1 .. Len(queue[r]) : queue[r][i] \in Threads \ {t}
  BY KSchedAssumption DEF LinkedOnce, Links
<1>4. \A r \in Queues : \A i \in 1 .. Len(Q[r]) :
          /\ W[Q[r][i]] = r
          /\ \A j \in 1 .. Len(Q[r]) : Q[r][i] = Q[r][j] => i = j
  BY <1>2, <1>3 DEF LinkedOnce, Links, Wchans
<1>5. ASSUME NEW u \in Threads, W[u] # NoQueue
      PROVE  \E i \in 1 .. Len(Q[W[u]]) : Q[W[u]][i] = u
  <2>1. CASE u = t
    BY <2>1, <1>2 DEF Wchans
  <2>2. CASE u # t
    <3>1. W[u] = wchan[u] /\ wchan[u] \in Queues
      BY <1>5, <2>2 DEF Wchans
    <3>2. PICK i \in 1 .. Len(queue[wchan[u]]) : queue[wchan[u]][i] = u
      BY <1>5, <3>1 DEF LinkedOnce
    <3>3. i \in 1 .. Len(Q[wchan[u]]) /\ Q[wchan[u]][i] = u
      BY <3>1, <3>2, <1>2 DEF Links
    <3> QED BY <3>1, <3>3
  <2> QED BY <2>1, <2>2
<1> QED BY <1>1, <1>4, <1>5 DEF LinkedOnce

(* ktqueue_remove: unlinking the i-th thread of q.                         *)
LEMMA LinkWithout ==
    ASSUME NEW queue \in Links, NEW wchan \in Wchans, LinkedOnce(queue, wchan),
           NEW q \in Queues, NEW i \in 1 .. Len(queue[q])
    PROVE  /\ [queue EXCEPT ![q] = Without(@, i)] \in Links
           /\ [wchan EXCEPT ![queue[q][i]] = NoQueue] \in Wchans
           /\ LinkedOnce([queue EXCEPT ![q] = Without(@, i)],
                         [wchan EXCEPT ![queue[q][i]] = NoQueue])
<1> DEFINE t == queue[q][i]
           R == Without(queue[q], i)
           Q == [queue EXCEPT ![q] = R]
           W == [wchan EXCEPT ![t] = NoQueue]
<1>1. queue[q] \in Seq(Threads) /\ t \in Threads
  BY DEF Links
<1>2. /\ R \in Seq(Threads)
      /\ Len(R) = Len(queue[q]) - 1
      /\ \A j \in 1 .. Len(R) : R[j] = IF j < i THEN queue[q][j] ELSE queue[q][j + 1]
  BY <1>1 DEF Without
<1>3. /\ Q \in Links /\ W \in Wchans
      /\ Q[q] = R
      /\ \A r \in Queues \ {q} : Q[r] = queue[r]
      /\ W[t] = NoQueue
      /\ \A u \in Threads \ {t} : W[u] = wchan[u]
  BY <1>1, <1>2 DEF Links, Wchans
<1>4. \A r \in Queues \ {q} : \A j \in 1 .. Len(queue[r]) : queue[r][j] \in Threads \ {t}
  BY DEF LinkedOnce, Links
<1>5. \A j \in 1 .. Len(R) :
          /\ R[j] \in Threads \ {t}
          /\ W[R[j]] = q
          /\ \A k \in 1 .. Len(R) : R[j] = R[k] => j = k
  BY <1>1, <1>2, <1>3 DEF LinkedOnce
<1>6. \A r \in Queues : \A j \in 1 .. Len(Q[r]) :
          /\ W[Q[r][j]] = r
          /\ \A k \in 1 .. Len(Q[r]) : Q[r][j] = Q[r][k] => j = k
  BY <1>3, <1>4, <1>5 DEF LinkedOnce
<1>7. ASSUME NEW u \in Threads, W[u] # NoQueue
      PROVE  \E j \in 1 .. Len(Q[W[u]]) : Q[W[u]][j] = u
  <2>1. u # t /\ W[u] = wchan[u] /\ wchan[u] \in Queues
    BY <1>3, <1>7 DEF Wchans
  <2>2. PICK j \in 1 .. Len(queue[wchan[u]]) : queue[wchan[u]][j] = u
    BY <1>7, <2>1 DEF LinkedOnce
  <2>3. CASE wchan[u] = q
    <3>1. j # i
      BY <2>1, <2>2, <2>3
    <3>2. CASE j < i
      BY <3>2, <2>1, <2>2, <2>3, <1>1, <1>2, <1>3
    <3>3. CASE j > i
      <4>1. j - 1 \in 1 .. Len(R) /\ R[j - 1] = u
        BY <3>3, <2>2, <2>3, <1>1, <1>2
      <4> QED BY <4>1, <2>1, <2>3, <1>3
    <3> QED BY <3>1, <3>2, <3>3, <1>1
  <2>4. CASE wchan[u] # q
    BY <2>1, <2>2, <2>4, <1>3
  <2> QED BY <2>3, <2>4
<1> QED BY <1>1, <1>3, <1>6, <1>7 DEF LinkedOnce

(* ktqueue_dequeue: unlinking the first thread of q.                       *)
LEMMA LinkTail ==
    ASSUME NEW queue \in Links, NEW wchan \in Wchans, LinkedOnce(queue, wchan),
           NEW q \in Queues, queue[q] # <<>>
    PROVE  /\ Head(queue[q]) \in Threads /\ wchan[Head(queue[q])] = q
           /\ [queue EXCEPT ![q] = Tail(@)] \in Links
           /\ [wchan EXCEPT ![Head(queue[q])] = NoQueue] \in Wchans
           /\ LinkedOnce([queue EXCEPT ![q] = Tail(@)],
                         [wchan EXCEPT ![Head(queue[q])] = NoQueue])
<1>1. /\ queue[q] \in Seq(Threads)
      /\ 1 \in 1 .. Len(queue[q])
      /\ Head(queue[q]) = queue[q][1]
  <2>1. queue[q] \in Seq(Threads)
    BY DEF Links
  <2> QED BY <2>1
<1>a. Tail(queue[q]) = Without(queue[q], 1)
  <2> DEFINE T == Tail(queue[q])
  <2>1. /\ T \in Seq(Threads) /\ Len(T) = Len(queue[q]) - 1
        /\ \A j \in 1 .. Len(T) : T[j] = queue[q][j + 1]
    BY <1>1, HeadTailProperties
  <2>2. T = [j \in 1 .. Len(T) |-> T[j]]
    BY <2>1
  <2> HIDE DEF T
  <2>3. T = [j \in 1 .. (Len(queue[q]) - 1) |-> queue[q][j + 1]]
    BY <2>1, <2>2
  <2>4. Without(queue[q], 1) = [j \in 1 .. (Len(queue[q]) - 1) |-> queue[q][j + 1]]
    BY <1>1 DEF Without
  <2> QED BY <2>3, <2>4 DEF T
<1>2. wchan[queue[q][1]] = q /\ queue[q][1] \in Threads
  BY <1>1 DEF LinkedOnce
<1> QED BY <1>1, <1>a, <1>2, LinkWithout

(* Moving every thread of q, in order, to the end of another queue.        *)
LEMMA LinkConcat ==
    ASSUME NEW queue \in Links, NEW wchan \in Wchans, LinkedOnce(queue, wchan),
           NEW q \in Queues, NEW r \in Queues, q # r
    PROVE  LET Q == [queue EXCEPT ![r] = @ \o queue[q], ![q] = <<>>]
               W == [t \in Threads |-> IF wchan[t] = q THEN r ELSE wchan[t]]
           IN  Q \in Links /\ W \in Wchans /\ LinkedOnce(Q, W)
<1> DEFINE Q == [queue EXCEPT ![r] = @ \o queue[q], ![q] = <<>>]
           W == [t \in Threads |-> IF wchan[t] = q THEN r ELSE wchan[t]]
           m == Len(queue[r])
           n == Len(queue[q])
<1>1. queue[q] \in Seq(Threads) /\ queue[r] \in Seq(Threads) /\ m \in Nat /\ n \in Nat
  BY DEF Links
<1>2. /\ queue[r] \o queue[q] \in Seq(Threads)
      /\ Len(queue[r] \o queue[q]) = m + n
      /\ \A i \in 1 .. m + n : (queue[r] \o queue[q])[i] =
            IF i <= m THEN queue[r][i] ELSE queue[q][i - m]
  BY <1>1, ConcatProperties
<1>3. /\ Q \in Links /\ W \in Wchans
      /\ Q[r] = queue[r] \o queue[q] /\ Q[q] = <<>>
      /\ \A p \in Queues \ {q, r} : Q[p] = queue[p]
      /\ \A t \in Threads : W[t] = IF wchan[t] = q THEN r ELSE wchan[t]
  <2>1. <<>> \in Seq(Threads)
    OBVIOUS
  <2> QED BY <1>2, <2>1 DEF Links, Wchans
<1> HIDE DEF Q, W, m, n
<1>a. /\ Len(Q[r]) = m + n
      /\ \A i \in 1 .. m : i \in 1 .. m + n /\ Q[r][i] = queue[r][i]
      /\ \A i \in 1 .. m + n : i > m => i - m \in 1 .. n /\ Q[r][i] = queue[q][i - m]
      /\ \A i \in 1 .. n : i + m \in 1 .. m + n /\ Q[r][i + m] = queue[q][i]
  <2>1. \A i \in 1 .. m : i \in 1 .. m + n /\ i <= m
    BY <1>1
  <2>2. \A i \in 1 .. m + n : i > m => i - m \in 1 .. n /\ ~(i <= m)
    BY <1>1
  <2>3. \A i \in 1 .. n : i + m \in 1 .. m + n /\ ~(i + m <= m) /\ (i + m) - m = i
    BY <1>1
  <2> QED BY <1>2, <1>3, <2>1, <2>2, <2>3
<1>b. \A i \in 1 .. m + n : i > m \/ i \in 1 .. m
  BY <1>1
<1>4. /\ \A i \in 1 .. m : queue[r][i] \in Threads /\ wchan[queue[r][i]] = r
      /\ \A i \in 1 .. n : queue[q][i] \in Threads /\ wchan[queue[q][i]] = q
  BY <1>1 DEF LinkedOnce, m, n
<1>c. /\ \A i, j \in 1 .. m : queue[r][i] = queue[r][j] => i = j
      /\ \A i, j \in 1 .. n : queue[q][i] = queue[q][j] => i = j
  BY DEF LinkedOnce, m, n
<1>d. ASSUME NEW i \in 1 .. Len(Q[r]) PROVE Q[r][i] \in Threads /\ wchan[Q[r][i]] \in {q, r}
  <2>0. i \in 1 .. m + n
    BY <1>a
  <2>1. CASE i \in 1 .. m
    BY <1>a, <1>4, <2>1
  <2>2. CASE i > m
    BY <1>a, <1>4, <2>0, <2>2
  <2> QED BY <1>b, <2>0, <2>1, <2>2
<1>5. \A i \in 1 .. Len(Q[r]) : W[Q[r][i]] = r
  BY <1>3, <1>d
<1>6. ASSUME NEW i \in 1 .. Len(Q[r]), NEW j \in 1 .. Len(Q[r]), Q[r][i] = Q[r][j]
      PROVE  i = j
  <2>1. i \in 1 .. m + n /\ j \in 1 .. m + n
    BY <1>a
  <2>2. CASE i \in 1 .. m /\ j \in 1 .. m
    BY <1>6, <1>a, <1>c, <2>2
  <2>3. CASE i > m /\ j > m
    <3>1. i - m = j - m
      BY <1>6, <1>a, <1>c, <2>1, <2>3
    <3> QED BY <3>1, <2>1, <1>1
  <2>4. CASE i \in 1 .. m /\ j > m
    BY <1>6, <1>a, <1>4, <2>1, <2>4
  <2>5. CASE i > m /\ j \in 1 .. m
    BY <1>6, <1>a, <1>4, <2>1, <2>5
  <2> QED BY <2>1, <2>2, <2>3, <2>4, <2>5, <1>b
<1>7. \A p \in Queues \ {q, r} : \A i \in 1 .. Len(Q[p]) :
          /\ W[Q[p][i]] = p
          /\ \A j \in 1 .. Len(Q[p]) : Q[p][i] = Q[p][j] => i = j
  <2>1. \A p \in Queues \ {q, r} : \A i \in 1 .. Len(queue[p]) :
            queue[p][i] \in Threads /\ wchan[queue[p][i]] = p
    BY DEF LinkedOnce, Links
  <2> QED BY <2>1, <1>3 DEF LinkedOnce
<1>8. \A i \in 1 .. Len(Q[q]) : FALSE
  BY <1>3
<1>9. ASSUME NEW u \in Threads, W[u] # NoQueue
      PROVE  \E i \in 1 .. Len(Q[W[u]]) : Q[W[u]][i] = u
  <2>1. CASE wchan[u] = q
    <3>1. PICK i \in 1 .. n : queue[q][i] = u
      BY <2>1, KSchedAssumption DEF LinkedOnce, n
    <3>2. i + m \in 1 .. Len(Q[r]) /\ Q[r][i + m] = u
      BY <3>1, <1>a
    <3> QED BY <3>2, <2>1, <1>3
  <2>2. CASE wchan[u] = r
    <3>1. PICK i \in 1 .. m : queue[r][i] = u
      BY <2>2, KSchedAssumption DEF LinkedOnce, m
    <3>2. i \in 1 .. Len(Q[r]) /\ Q[r][i] = u
      BY <3>1, <1>a
    <3> QED BY <3>2, <2>2, <1>3
  <2>3. CASE wchan[u] \notin {q, r}
    <3>1. W[u] = wchan[u] /\ wchan[u] \in Queues \ {q, r}
      BY <1>3, <1>9, <2>3 DEF Wchans
    <3> QED BY <3>1, <1>3, <1>9 DEF LinkedOnce
  <2> QED BY <2>1, <2>2, <2>3
<1>10. LinkedOnce(Q, W)
  <2>1. ASSUME NEW p \in Queues, NEW i \in 1 .. Len(Q[p])
        PROVE  /\ W[Q[p][i]] = p
               /\ \A j \in 1 .. Len(Q[p]) : Q[p][i] = Q[p][j] => i = j
    <3>1. CASE p = r
      BY <3>1, <1>5, <1>6
    <3>2. CASE p # r
      BY <3>2, <1>7, <1>8
    <3> QED BY <3>1, <3>2
  <2> QED BY <2>1, <1>9 DEF LinkedOnce
<1> QED BY <1>3, <1>10 DEF Q, W

-----------------------------------------------------------------------------
(* The operators that begin and end in a state where every thread is       *)
(* placed: each keeps that, and changes only the fields it is shown to     *)
(* change.                                                                 *)

SchedInv(s) == s \in SchedState /\ ThreadsPlacedIn(s)

(* sched_switch, second half: the first thread of the run queue runs.      *)
LEMMA DispatchKeeps ==
    ASSUME NEW s, SchedInv(s), CanDispatch(s)
    PROVE  LET h == Head(s.queue[kt_runq]) IN
           /\ h \in Threads /\ s.kt_wchan[h] = kt_runq
           /\ Dispatch(s).queue = [s.queue EXCEPT ![kt_runq] = Tail(@)]
           /\ Dispatch(s).kt_wchan = [s.kt_wchan EXCEPT ![h] = NoQueue]
           /\ Dispatch(s).kt_state = s.kt_state
           /\ Dispatch(s).kt_cancelled = s.kt_cancelled
           /\ Dispatch(s).curthr = h
           /\ SchedInv(Dispatch(s))
<1> DEFINE h == Head(s.queue[kt_runq])
<1>1. /\ s \in SchedState /\ s.queue \in Links /\ s.kt_wchan \in Wchans
      /\ LinkedOnce(s.queue, s.kt_wchan)
      /\ kt_runq \in Queues /\ s.queue[kt_runq] # <<>> /\ s.curthr = NoThread
  BY DEF SchedInv, SchedState, ThreadsPlacedIn, CanDispatch, sched_queue_empty,
         Links, Wchans, Queues
<1>2. h \in Threads /\ s.kt_wchan[h] = kt_runq
  BY <1>1, LinkTail
<1>3. /\ Dispatch(s).queue = [s.queue EXCEPT ![kt_runq] = Tail(@)]
      /\ Dispatch(s).kt_wchan = [s.kt_wchan EXCEPT ![h] = NoQueue]
      /\ Dispatch(s).kt_state = s.kt_state
      /\ Dispatch(s).kt_cancelled = s.kt_cancelled
      /\ Dispatch(s).curthr = h
  BY <1>1 DEF Dispatch, ktqueue_dequeue, SchedState
<1>4. LinkedOnce(Dispatch(s).queue, Dispatch(s).kt_wchan)
  <2>1. LinkedOnce([s.queue EXCEPT ![kt_runq] = Tail(@)], [s.kt_wchan EXCEPT ![h] = NoQueue])
    BY <1>1, LinkTail
  <2> QED BY <1>3, <2>1, Zenon
<1>5. Dispatch(s) \in SchedState
  BY <1>1, <1>2, LinkTail DEF Dispatch, ktqueue_dequeue, SchedState, Links, Wchans
<1>6. ThreadsPlacedIn(Dispatch(s))
  BY <1>1, <1>2, <1>3, <1>4, KSchedAssumption
     DEF SchedInv, ThreadsPlacedIn, SchedState, Queues, Wchans, KtStates, Asleep
<1> QED BY <1>2, <1>3, <1>5, <1>6 DEF SchedInv

(* sched_sleep_on and sched_cancellable_sleep_on: the current thread goes  *)
(* to the end of q.                                                        *)
LEMMA SleepKeeps ==
    ASSUME NEW s, SchedInv(s), s.curthr # NoThread, NEW q \in WaitQueues,
           NEW state \in Asleep
    PROVE  /\ s.curthr \in Threads
           /\ SleepAs(s, q, state).queue = [s.queue EXCEPT ![q] = Append(@, s.curthr)]
           /\ SleepAs(s, q, state).kt_wchan = [s.kt_wchan EXCEPT ![s.curthr] = q]
           /\ SleepAs(s, q, state).kt_state = [s.kt_state EXCEPT ![s.curthr] = state]
           /\ SleepAs(s, q, state).kt_cancelled = s.kt_cancelled
           /\ SleepAs(s, q, state).curthr = NoThread
           /\ SchedInv(SleepAs(s, q, state))
<1> DEFINE z == SleepAs(s, q, state)
<1>1. /\ s \in SchedState /\ s.queue \in Links /\ s.kt_wchan \in Wchans
      /\ LinkedOnce(s.queue, s.kt_wchan)
      /\ q \in Queues /\ s.curthr \in Threads /\ s.kt_wchan[s.curthr] = NoQueue
      /\ state \in KtStates
  BY DEF SchedInv, SchedState, ThreadsPlacedIn, Links, Wchans, Queues, KtStates, Asleep
<1>2. /\ z.queue = [s.queue EXCEPT ![q] = Append(@, s.curthr)]
      /\ z.kt_wchan = [s.kt_wchan EXCEPT ![s.curthr] = q]
      /\ z.kt_state = [s.kt_state EXCEPT ![s.curthr] = state]
      /\ z.kt_cancelled = s.kt_cancelled
      /\ z.curthr = NoThread
  BY <1>1 DEF SleepAs, sched_switch, ktqueue_enqueue, SchedState
<1>3. LinkedOnce(z.queue, z.kt_wchan)
  <2>1. LinkedOnce([s.queue EXCEPT ![q] = Append(@, s.curthr)],
                   [s.kt_wchan EXCEPT ![s.curthr] = q])
    BY <1>1, LinkAppend
  <2> QED BY <1>2, <2>1, Zenon
<1>4. z \in SchedState
  BY <1>1, LinkAppend DEF SleepAs, sched_switch, ktqueue_enqueue, SchedState, Links, Wchans
<1>5. ThreadsPlacedIn(z)
  BY <1>1, <1>2, <1>3, KSchedAssumption
     DEF SchedInv, ThreadsPlacedIn, SchedState, Queues, Wchans, KtStates, Asleep
<1> QED BY <1>1, <1>2, <1>4, <1>5 DEF SchedInv

(* Yielding puts the current thread at the end of the run queue.           *)
LEMMA YieldKeeps ==
    ASSUME NEW s, SchedInv(s), s.curthr # NoThread
    PROVE  /\ s.curthr \in Threads
           /\ Yield(s).queue = [s.queue EXCEPT ![kt_runq] = Append(@, s.curthr)]
           /\ Yield(s).kt_wchan = [s.kt_wchan EXCEPT ![s.curthr] = kt_runq]
           /\ Yield(s).kt_state = s.kt_state
           /\ Yield(s).kt_cancelled = s.kt_cancelled
           /\ Yield(s).curthr = NoThread
           /\ SchedInv(Yield(s))
<1>1. /\ s \in SchedState /\ s.queue \in Links /\ s.kt_wchan \in Wchans
      /\ LinkedOnce(s.queue, s.kt_wchan)
      /\ kt_runq \in Queues /\ s.curthr \in Threads /\ s.kt_wchan[s.curthr] = NoQueue
      /\ s.kt_state[s.curthr] = "KT_RUN"
  BY DEF SchedInv, SchedState, ThreadsPlacedIn, Links, Wchans, Queues
<1>2. /\ Yield(s).queue = [s.queue EXCEPT ![kt_runq] = Append(@, s.curthr)]
      /\ Yield(s).kt_wchan = [s.kt_wchan EXCEPT ![s.curthr] = kt_runq]
      /\ Yield(s).kt_state = s.kt_state
      /\ Yield(s).kt_cancelled = s.kt_cancelled
      /\ Yield(s).curthr = NoThread
  BY <1>1 DEF Yield, sched_make_runnable, sched_switch, ktqueue_enqueue, SchedState
<1>3. LinkedOnce(Yield(s).queue, Yield(s).kt_wchan)
  <2>1. LinkedOnce([s.queue EXCEPT ![kt_runq] = Append(@, s.curthr)],
                   [s.kt_wchan EXCEPT ![s.curthr] = kt_runq])
    BY <1>1, LinkAppend
  <2> QED BY <1>2, <2>1, Zenon
<1>4. Yield(s) \in SchedState
  BY <1>1, LinkAppend
     DEF Yield, sched_make_runnable, sched_switch, ktqueue_enqueue, SchedState, Links,
         Wchans, KtStates
<1>5. ThreadsPlacedIn(Yield(s))
  BY <1>1, <1>2, <1>3, KSchedAssumption
     DEF SchedInv, ThreadsPlacedIn, SchedState, Queues, Wchans, KtStates, Asleep
<1> QED BY <1>1, <1>2, <1>4, <1>5 DEF SchedInv

(* kthread_exit takes the current thread off the processor for good.       *)
LEMMA ExitKeeps ==
    ASSUME NEW s, SchedInv(s), s.curthr # NoThread
    PROVE  /\ ThreadExit(s).queue = s.queue
           /\ ThreadExit(s).kt_wchan = s.kt_wchan
           /\ ThreadExit(s).kt_state = [s.kt_state EXCEPT ![s.curthr] = "KT_EXITED"]
           /\ ThreadExit(s).kt_cancelled = s.kt_cancelled
           /\ ThreadExit(s).curthr = NoThread
           /\ SchedInv(ThreadExit(s))
<1>1. s \in SchedState
  BY DEF SchedInv
<1>2. /\ ThreadExit(s).queue = s.queue
      /\ ThreadExit(s).kt_wchan = s.kt_wchan
      /\ ThreadExit(s).kt_state = [s.kt_state EXCEPT ![s.curthr] = "KT_EXITED"]
      /\ ThreadExit(s).kt_cancelled = s.kt_cancelled
      /\ ThreadExit(s).curthr = NoThread
  BY <1>1 DEF ThreadExit, sched_switch, SchedState
<1>3. ThreadExit(s) \in SchedState
  BY <1>1 DEF ThreadExit, sched_switch, SchedState, KtStates
<1>4. ThreadsPlacedIn(ThreadExit(s))
  BY <1>1, <1>2, KSchedAssumption
     DEF SchedInv, ThreadsPlacedIn, SchedState, Queues, KtStates, Asleep
<1> QED BY <1>2, <1>3, <1>4 DEF SchedInv

(* sched_wakeup_on moves the first thread of q to the run queue.           *)
LEMMA WakeupKeeps ==
    ASSUME NEW s, SchedInv(s), NEW q \in WaitQueues, s.queue[q] # <<>>
    PROVE  LET h == Head(s.queue[q])
               w == sched_wakeup_on(s, q) IN
           /\ h \in Threads /\ s.kt_wchan[h] = q
           /\ w.queue[q] = Tail(s.queue[q])
           /\ \A r \in WaitQueues \ {q} : w.queue[r] = s.queue[r]
           /\ w.kt_wchan = [s.kt_wchan EXCEPT ![h] = kt_runq]
           /\ w.kt_state = [s.kt_state EXCEPT ![h] = "KT_RUN"]
           /\ w.kt_cancelled = s.kt_cancelled
           /\ w.curthr = s.curthr
           /\ SchedInv(w)
<1> DEFINE h  == Head(s.queue[q])
           w  == sched_wakeup_on(s, q)
           Q1 == [s.queue EXCEPT ![q] = Tail(@)]
           W1 == [s.kt_wchan EXCEPT ![h] = NoQueue]
           Q2 == [Q1 EXCEPT ![kt_runq] = Append(@, h)]
           W2 == [W1 EXCEPT ![h] = kt_runq]
<1>1. /\ s \in SchedState /\ s.queue \in Links /\ s.kt_wchan \in Wchans
      /\ LinkedOnce(s.queue, s.kt_wchan)
      /\ q \in Queues /\ kt_runq \in Queues
  BY DEF SchedInv, SchedState, ThreadsPlacedIn, Links, Wchans, Queues
<1>2. /\ h \in Threads /\ s.kt_wchan[h] = q
      /\ Q1 \in Links /\ W1 \in Wchans /\ LinkedOnce(Q1, W1)
  BY <1>1, LinkTail
<1>3. W1[h] = NoQueue /\ W2 = [s.kt_wchan EXCEPT ![h] = kt_runq]
  BY <1>1, <1>2 DEF Wchans
<1>4. Q2 \in Links /\ W2 \in Wchans /\ LinkedOnce(Q2, W2)
  <2> HIDE DEF Q1, W1
  <2> QED BY <1>1, <1>2, <1>3, LinkAppend
<1>5. /\ w.queue = Q2
      /\ w.kt_wchan = W2
      /\ w.kt_state = [s.kt_state EXCEPT ![h] = "KT_RUN"]
      /\ w.kt_cancelled = s.kt_cancelled
      /\ w.curthr = s.curthr
  BY <1>1, <1>2 DEF sched_wakeup_on, sched_make_runnable, sched_queue_empty, ktqueue_enqueue,
                    ktqueue_dequeue, SchedState
<1>6. w = [queue |-> Q2, kt_wchan |-> W2,
           kt_state |-> [s.kt_state EXCEPT ![h] = "KT_RUN"],
           kt_cancelled |-> s.kt_cancelled, curthr |-> s.curthr]
  BY <1>1, <1>2 DEF sched_wakeup_on, sched_make_runnable, sched_queue_empty, ktqueue_enqueue,
                    ktqueue_dequeue, SchedState
<1>7. w \in SchedState
  <2> HIDE DEF w, Q2, W2, h
  <2> QED BY <1>1, <1>4, <1>6 DEF SchedState, Links, Wchans, KtStates
<1>8. LinkedOnce(w.queue, w.kt_wchan)
  <2> HIDE DEF w, Q2, W2
  <2> QED BY <1>4, <1>5, Zenon
<1>9. ThreadsPlacedIn(w)
  <2> HIDE DEF w, Q2, W2, h
  <2>1. w.kt_wchan = [s.kt_wchan EXCEPT ![h] = kt_runq]
    BY <1>3, <1>5
  <2> QED BY <1>1, <1>2, <1>5, <1>8, <2>1, KSchedAssumption
             DEF SchedInv, ThreadsPlacedIn, SchedState, Queues, Wchans, KtStates, Asleep
<1>10. /\ w.queue[q] = Tail(s.queue[q])
       /\ \A r \in WaitQueues \ {q} : w.queue[r] = s.queue[r]
  <2> HIDE DEF w, h
  <2> QED BY <1>1, <1>5, KSchedAssumption DEF Links, Queues
<1> QED BY <1>2, <1>3, <1>5, <1>7, <1>9, <1>10 DEF SchedInv

(* sched_broadcast_on moves every thread of q to the run queue.            *)
LEMMA BroadcastKeeps ==
    ASSUME NEW s, SchedInv(s), NEW q \in WaitQueues
    PROVE  LET b == sched_broadcast_on(s, q) IN
           /\ b.kt_wchan = [t \in Threads |-> IF s.kt_wchan[t] = q THEN kt_runq
                                               ELSE s.kt_wchan[t]]
           /\ b.kt_state = [t \in Threads |-> IF s.kt_wchan[t] = q THEN "KT_RUN"
                                               ELSE s.kt_state[t]]
           /\ b.kt_cancelled = s.kt_cancelled
           /\ b.curthr = s.curthr
           /\ SchedInv(b)
<1> DEFINE b == sched_broadcast_on(s, q)
           Q == [s.queue EXCEPT ![kt_runq] = @ \o s.queue[q], ![q] = <<>>]
           W == [t \in Threads |-> IF s.kt_wchan[t] = q THEN kt_runq ELSE s.kt_wchan[t]]
           K == [t \in Threads |-> IF s.kt_wchan[t] = q THEN "KT_RUN" ELSE s.kt_state[t]]
<1>1. /\ s \in SchedState /\ s.queue \in Links /\ s.kt_wchan \in Wchans
      /\ LinkedOnce(s.queue, s.kt_wchan)
      /\ q \in Queues /\ kt_runq \in Queues /\ q # kt_runq /\ q # NoQueue
  BY KSchedAssumption DEF SchedInv, SchedState, ThreadsPlacedIn, Links, Wchans, Queues
<1>2. ASSUME NEW t \in Threads
      PROVE  OnQueueOf(s.queue[q], t) <=> s.kt_wchan[t] = q
  BY <1>1 DEF LinkedOnce, OnQueueOf
<1>3. b = [queue |-> Q, kt_wchan |-> W, kt_state |-> K,
           kt_cancelled |-> s.kt_cancelled, curthr |-> s.curthr]
  <2>1. /\ W = [t \in Threads |-> IF OnQueueOf(s.queue[q], t) THEN kt_runq ELSE s.kt_wchan[t]]
        /\ K = [t \in Threads |-> IF OnQueueOf(s.queue[q], t) THEN "KT_RUN" ELSE s.kt_state[t]]
    BY <1>2
  <2> HIDE DEF W, K
  <2>2. /\ b.queue = Q /\ b.kt_wchan = W /\ b.kt_state = K
        /\ b.kt_cancelled = s.kt_cancelled /\ b.curthr = s.curthr
    BY <1>1, <2>1 DEF sched_broadcast_on, SchedState
  <2> HIDE DEF Q, W, K
  <2>3. b = [s EXCEPT !.queue = Q, !.kt_state = K, !.kt_wchan = W]
    BY <2>1 DEF sched_broadcast_on, Q
  <2>4. s = [queue |-> s.queue, kt_wchan |-> s.kt_wchan, kt_state |-> s.kt_state,
             kt_cancelled |-> s.kt_cancelled, curthr |-> s.curthr]
    BY <1>1 DEF SchedState
  <2> HIDE DEF b
  <2> QED BY <2>3, <2>4
<1>4. Q \in Links /\ W \in Wchans /\ LinkedOnce(Q, W)
  BY <1>1, LinkConcat
<1>5. K \in [Threads -> KtStates]
  BY <1>1 DEF SchedState, KtStates
<1>6. b \in SchedState
  <2> HIDE DEF b, Q, W, K
  <2> QED BY <1>1, <1>3, <1>4, <1>5 DEF SchedState, Links, Wchans
<1>7. /\ b.kt_wchan = W /\ b.kt_state = K /\ b.queue = Q
      /\ b.kt_cancelled = s.kt_cancelled /\ b.curthr = s.curthr
  <2> HIDE DEF b, Q, W, K
  <2> QED BY <1>3
<1>8. LinkedOnce(b.queue, b.kt_wchan)
  <2> HIDE DEF b, Q, W, K
  <2> QED BY <1>4, <1>7, Zenon
<1>9. ThreadsPlacedIn(b)
  <2> HIDE DEF b, Q
  <2> QED BY <1>1, <1>7, <1>8, KSchedAssumption
             DEF SchedInv, ThreadsPlacedIn, SchedState, Queues, Wchans, KtStates, Asleep
<1> QED BY <1>6, <1>7, <1>9 DEF SchedInv

(* sched_cancel moves a thread in a cancellable sleep to the run queue.    *)
LEMMA CancelKeeps ==
    ASSUME NEW s, SchedInv(s), NEW t \in Threads, s.kt_state[t] = "KT_SLEEP_CANCELLABLE"
    PROVE  LET q == s.kt_wchan[t]
               c == sched_cancel(s, t) IN
           /\ q \in WaitQueues
           /\ s.queue[q] # <<>>
           /\ \A r \in WaitQueues \ {q} : c.queue[r] = s.queue[r]
           /\ c.kt_wchan = [s.kt_wchan EXCEPT ![t] = kt_runq]
           /\ c.kt_state = [s.kt_state EXCEPT ![t] = "KT_RUN"]
           /\ c.kt_cancelled = s.kt_cancelled \union {t}
           /\ c.curthr = s.curthr
           /\ SchedInv(c)
<1> DEFINE q  == s.kt_wchan[t]
           c  == sched_cancel(s, t)
           i  == CHOOSE i \in 1 .. Len(s.queue[q]) : s.queue[q][i] = t
           Q1 == [s.queue EXCEPT ![q] = Without(@, i)]
           W1 == [s.kt_wchan EXCEPT ![t] = NoQueue]
           Q2 == [Q1 EXCEPT ![kt_runq] = Append(@, t)]
           W2 == [W1 EXCEPT ![t] = kt_runq]
<1>1. /\ s \in SchedState /\ s.queue \in Links /\ s.kt_wchan \in Wchans
      /\ LinkedOnce(s.queue, s.kt_wchan)
      /\ q \in WaitQueues /\ q \in Queues /\ kt_runq \in Queues /\ q # NoQueue
  BY KSchedAssumption DEF SchedInv, SchedState, ThreadsPlacedIn, Links, Wchans, Queues, Asleep
<1>2. i \in 1 .. Len(s.queue[q]) /\ s.queue[q][i] = t
  BY <1>1 DEF LinkedOnce
<1>3. Q1 \in Links /\ W1 \in Wchans /\ LinkedOnce(Q1, W1)
  <2> HIDE DEF i
  <2>1. W1 = [s.kt_wchan EXCEPT ![s.queue[q][i]] = NoQueue]
    BY <1>2
  <2>2. /\ Q1 \in Links
        /\ [s.kt_wchan EXCEPT ![s.queue[q][i]] = NoQueue] \in Wchans
        /\ LinkedOnce(Q1, [s.kt_wchan EXCEPT ![s.queue[q][i]] = NoQueue])
    BY <1>1, <1>2, LinkWithout
  <2> HIDE DEF Q1, W1
  <2> QED BY <2>1, <2>2, Zenon
<1>4. W1[t] = NoQueue /\ W2 = [s.kt_wchan EXCEPT ![t] = kt_runq]
  BY <1>1 DEF Wchans
<1>5. Q2 \in Links /\ W2 \in Wchans /\ LinkedOnce(Q2, W2)
  <2> HIDE DEF Q1, W1
  <2> QED BY <1>1, <1>3, <1>4, LinkAppend
<1>6. c = [queue |-> Q2, kt_wchan |-> W2,
           kt_state |-> [s.kt_state EXCEPT ![t] = "KT_RUN"],
           kt_cancelled |-> s.kt_cancelled \union {t}, curthr |-> s.curthr]
  BY <1>1 DEF sched_cancel, sched_make_runnable, ktqueue_enqueue, ktqueue_remove, SchedState
<1>7. /\ c.queue = Q2
      /\ c.kt_wchan = W2
      /\ c.kt_state = [s.kt_state EXCEPT ![t] = "KT_RUN"]
      /\ c.kt_cancelled = s.kt_cancelled \union {t}
      /\ c.curthr = s.curthr
  <2> HIDE DEF c, Q2, W2
  <2> QED BY <1>6
<1>8. c \in SchedState
  <2> HIDE DEF c, Q2, W2
  <2> QED BY <1>1, <1>5, <1>6 DEF SchedState, Links, Wchans, KtStates
<1>9. LinkedOnce(c.queue, c.kt_wchan)
  <2> HIDE DEF c, Q2, W2
  <2> QED BY <1>5, <1>7, Zenon
<1>10. ThreadsPlacedIn(c)
  <2> HIDE DEF c, Q2, W2
  <2>1. c.kt_wchan = [s.kt_wchan EXCEPT ![t] = kt_runq]
    BY <1>4, <1>7
  <2> QED BY <1>1, <1>7, <1>9, <2>1, KSchedAssumption
             DEF SchedInv, ThreadsPlacedIn, SchedState, Queues, Wchans, KtStates, Asleep
<1>11. /\ s.queue[q] # <<>>
       /\ \A r \in WaitQueues \ {q} : c.queue[r] = s.queue[r]
  <2> HIDE DEF c, i
  <2> QED BY <1>1, <1>2, <1>7, KSchedAssumption DEF Links, Queues
<1> QED BY <1>1, <1>4, <1>7, <1>8, <1>10, <1>11 DEF SchedInv

(* Cancelling a thread that does not sleep cancellably only marks it.      *)
LEMMA MarkKeeps ==
    ASSUME NEW s, SchedInv(s), NEW t \in Threads, s.kt_state[t] # "KT_SLEEP_CANCELLABLE"
    PROVE  LET c == sched_cancel(s, t) IN
           /\ c.queue = s.queue /\ c.kt_wchan = s.kt_wchan /\ c.kt_state = s.kt_state
           /\ c.kt_cancelled = s.kt_cancelled \union {t}
           /\ c.curthr = s.curthr
           /\ SchedInv(c)
<1> DEFINE c == sched_cancel(s, t)
<1>1. s \in SchedState
  BY DEF SchedInv
<1>2. /\ c.queue = s.queue /\ c.kt_wchan = s.kt_wchan /\ c.kt_state = s.kt_state
      /\ c.kt_cancelled = s.kt_cancelled \union {t}
      /\ c.curthr = s.curthr
      /\ c \in SchedState
  BY <1>1 DEF sched_cancel, SchedState
<1>3. ThreadsPlacedIn(c)
  <2> HIDE DEF c
  <2> QED BY <1>2 DEF SchedInv, ThreadsPlacedIn, LinkedOnce
<1> QED BY <1>2, <1>3 DEF SchedInv

(* A thread is linked on the queue that its kt_wchan names.                *)
LEMMA OnQueueIsWchan ==
    ASSUME NEW s, SchedInv(s), NEW t \in Threads, NEW q \in Queues
    PROVE  OnQueue(s, t, q) <=> s.kt_wchan[t] = q
<1>1. LinkedOnce(s.queue, s.kt_wchan) /\ q # NoQueue
  BY KSchedAssumption DEF SchedInv, ThreadsPlacedIn
<1> QED BY <1>1 DEF LinkedOnce, OnQueue

(* The first run of a thread that has not run before.                      *)
LEMMA StartKeeps ==
    ASSUME NEW s, SchedInv(s), NEW t \in Threads, s.kt_state[t] = "KT_NO_STATE"
    PROVE  LET m == sched_make_runnable(s, t) IN
           /\ m.kt_wchan = [s.kt_wchan EXCEPT ![t] = kt_runq]
           /\ m.kt_state = [s.kt_state EXCEPT ![t] = "KT_RUN"]
           /\ m.kt_cancelled = s.kt_cancelled
           /\ m.curthr = s.curthr
           /\ SchedInv(m)
<1> DEFINE m == sched_make_runnable(s, t)
           Q == [s.queue EXCEPT ![kt_runq] = Append(@, t)]
           W == [s.kt_wchan EXCEPT ![t] = kt_runq]
<1>1. /\ s \in SchedState /\ s.queue \in Links /\ s.kt_wchan \in Wchans
      /\ LinkedOnce(s.queue, s.kt_wchan)
      /\ kt_runq \in Queues /\ s.kt_wchan[t] = NoQueue
  <2>1. s.kt_wchan[t] \in Queues \union {NoQueue}
    BY DEF SchedInv, SchedState
  <2> QED BY <2>1 DEF SchedInv, SchedState, ThreadsPlacedIn, Links, Wchans, Queues, Asleep
<1>2. /\ m.queue = Q /\ m.kt_wchan = W
      /\ m.kt_state = [s.kt_state EXCEPT ![t] = "KT_RUN"]
      /\ m.kt_cancelled = s.kt_cancelled /\ m.curthr = s.curthr
  BY <1>1 DEF sched_make_runnable, ktqueue_enqueue, SchedState
<1>3. Q \in Links /\ W \in Wchans /\ LinkedOnce(Q, W)
  BY <1>1, LinkAppend
<1>4. m \in SchedState
  <2>1. [s.kt_state EXCEPT ![t] = "KT_RUN"] \in [Threads -> KtStates]
    BY <1>1 DEF SchedState, KtStates
  <2> QED BY <1>1, <1>3, <2>1
             DEF sched_make_runnable, ktqueue_enqueue, SchedState, Links, Wchans
<1>5. ThreadsPlacedIn(m)
  <2>1. LinkedOnce(m.queue, m.kt_wchan)
    <3> HIDE DEF m, Q, W
    <3> QED BY <1>2, <1>3
  <2>2. /\ s.curthr # NoThread => s.kt_wchan[s.curthr] = NoQueue
        /\ t # s.curthr
    BY DEF SchedInv, ThreadsPlacedIn
  <2>3. \A u \in Threads :
          /\ m.kt_state[u] = "KT_RUN" <=> u = m.curthr \/ m.kt_wchan[u] = kt_runq
          /\ m.kt_state[u] \in Asleep <=> m.kt_wchan[u] \in WaitQueues
    <3> HIDE DEF m
    <3> QED BY <1>1, <1>2, KSchedAssumption
               DEF SchedInv, ThreadsPlacedIn, SchedState, Asleep, KtStates
  <2> HIDE DEF m
  <2>4. m.curthr # NoThread => m.kt_wchan[m.curthr] = NoQueue
    BY <1>1, <1>2, <2>2 DEF SchedState
  <2> QED BY <2>1, <2>3, <2>4 DEF ThreadsPlacedIn
<1> QED BY <1>2, <1>4, <1>5 DEF SchedInv

(* A thread that has exited is freed.                                      *)
LEMMA FreeKeeps ==
    ASSUME NEW s, SchedInv(s), NEW t \in Threads, s.kt_state[t] = "KT_EXITED"
    PROVE  LET f == [s EXCEPT !.kt_state[t] = "KT_NO_STATE"] IN
           /\ f.kt_wchan = s.kt_wchan
           /\ f.kt_state = [s.kt_state EXCEPT ![t] = "KT_NO_STATE"]
           /\ f.curthr = s.curthr
           /\ SchedInv(f)
<1> DEFINE f == [s EXCEPT !.kt_state[t] = "KT_NO_STATE"]
<1>1. s \in SchedState
  BY DEF SchedInv
<1>2. /\ f.queue = s.queue /\ f.kt_wchan = s.kt_wchan
      /\ f.kt_state = [s.kt_state EXCEPT ![t] = "KT_NO_STATE"]
      /\ f.curthr = s.curthr
  BY <1>1 DEF SchedState
<1>3. f \in SchedState
  BY <1>1 DEF SchedState, KtStates
<1>4. ThreadsPlacedIn(f)
  <2> HIDE DEF f
  <2> QED BY <1>1, <1>2, KSchedAssumption
             DEF SchedInv, ThreadsPlacedIn, SchedState, Asleep, KtStates
<1> QED BY <1>2, <1>3, <1>4 DEF SchedInv
=============================================================================
