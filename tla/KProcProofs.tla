----------------------------- MODULE KProcProofs -----------------------------
(***************************************************************************)
(* The safety properties of the process life cycle, proved for any number  *)
(* of processes and pids.                                                  *)
(***************************************************************************)
EXTENDS KProc, KSchedProofs, FiniteSetTheorems, NaturalsInduction

-----------------------------------------------------------------------------
(* Lists on which everything is at most once                               *)

Once(seq) == \A i, j \in 1 .. Len(seq) : seq[i] = seq[j] => i = j

LEMMA ListRange ==
    ASSUME NEW seq \in Seq(Threads)
    PROVE  /\ \A y : y \in Range(seq) <=> \E i \in 1 .. Len(seq) : seq[i] = y
           /\ \A y \in Range(seq) : y \in Threads
           /\ Len(seq) \in Nat
<1>1. Len(seq) \in Nat /\ DOMAIN seq = 1 .. Len(seq)
  OBVIOUS
<1>2. \A i \in 1 .. Len(seq) : seq[i] \in Threads
  OBVIOUS
<1> QED BY <1>1, <1>2 DEF Range

LEMMA AppendOnce ==
    ASSUME NEW seq \in Seq(Threads), NEW x \in Threads, Once(seq), x \notin Range(seq)
    PROVE  /\ Append(seq, x) \in Seq(Threads) /\ Once(Append(seq, x))
           /\ Range(Append(seq, x)) = Range(seq) \union {x}
<1> DEFINE a == Append(seq, x)
           n == Len(seq)
<1>1. /\ a \in Seq(Threads) /\ Len(a) = n + 1 /\ n \in Nat
      /\ \A i \in 1 .. n : a[i] = seq[i]
      /\ a[n + 1] = x
  BY AppendProperties
<1>2. \A y : y \in Range(seq) <=> \E i \in 1 .. n : seq[i] = y
  BY ListRange
<1>3. \A y : y \in Range(a) <=> \E i \in 1 .. n + 1 : a[i] = y
  <2> HIDE DEF a
  <2>1. \A y : y \in Range(a) <=> \E i \in 1 .. Len(a) : a[i] = y
    BY <1>1, ListRange
  <2> QED BY <1>1, <2>1
<1> HIDE DEF a, n
<1>4. \A i \in 1 .. n : a[i] # x
  BY <1>1, <1>2
<1>5. \A i, j \in 1 .. n : seq[i] = seq[j] => i = j
  BY DEF Once, n
<1>6. Once(a)
  <2> SUFFICES ASSUME NEW i \in 1 .. n + 1, NEW j \in 1 .. n + 1, a[i] = a[j] PROVE i = j
    BY <1>1 DEF Once
  <2>1. CASE i \in 1 .. n /\ j \in 1 .. n
    BY <1>1, <1>5, <2>1
  <2>2. CASE i \notin 1 .. n \/ j \notin 1 .. n
    BY <1>1, <1>4, <2>2
  <2> QED BY <2>1, <2>2
<1>7. Range(a) = Range(seq) \union {x}
  <2>1. \A i \in 1 .. n + 1 : i \in 1 .. n \/ i = n + 1
    BY <1>1
  <2>2. \A i \in 1 .. n : i \in 1 .. n + 1
    BY <1>1
  <2>3. n + 1 \in 1 .. n + 1
    BY <1>1
  <2> QED BY <1>1, <1>2, <1>3, <2>1, <2>2, <2>3
<1> QED BY <1>1, <1>6, <1>7 DEF a

LEMMA UnlinkOnce ==
    ASSUME NEW seq \in Seq(Threads), NEW x \in Range(seq), Once(seq)
    PROVE  /\ Unlinked(seq, x) \in Seq(Threads) /\ Once(Unlinked(seq, x))
           /\ Range(Unlinked(seq, x)) = Range(seq) \ {x}
<1> DEFINE u == Unlinked(seq, x)
           n == Len(seq)
           k == CHOOSE i \in 1 .. n : seq[i] = x
<1>1. /\ \A y : y \in Range(seq) <=> \E i \in 1 .. n : seq[i] = y
      /\ n \in Nat
  BY ListRange
<1>2. k \in 1 .. n /\ seq[k] = x
  BY <1>1
<1>3. u = [j \in 1 .. n - 1 |-> IF j < k THEN seq[j] ELSE seq[j + 1]]
  BY DEF Unlinked, Without
<1>4. \A i \in 1 .. n : seq[i] \in Threads
  BY ElementOfSeq
<1>5. \A i, j \in 1 .. n : seq[i] = seq[j] => i = j
  BY DEF Once
<1> HIDE DEF u, n, k
<1>6. /\ u \in [1 .. n - 1 -> Threads] /\ n - 1 \in Nat
  BY <1>1, <1>2, <1>3, <1>4
<1>7. u \in Seq(Threads) /\ Len(u) = n - 1
  BY <1>6
<1>8. \A j \in 1 .. n - 1 :
        /\ (IF j < k THEN j ELSE j + 1) \in 1 .. n
        /\ (IF j < k THEN j ELSE j + 1) # k
        /\ u[j] = seq[IF j < k THEN j ELSE j + 1]
  BY <1>1, <1>2, <1>3
<1>9. Once(u)
  <2> SUFFICES ASSUME NEW i \in 1 .. n - 1, NEW j \in 1 .. n - 1, u[i] = u[j] PROVE i = j
    BY <1>7 DEF Once
  <2> DEFINE i1 == IF i < k THEN i ELSE i + 1
             j1 == IF j < k THEN j ELSE j + 1
  <2>1. i1 = j1
    BY <1>5, <1>8
  <2> QED BY <1>1, <1>2, <2>1
<1>10. \A y : y \in Range(u) <=> \E i \in 1 .. n - 1 : u[i] = y
  BY <1>7, ListRange
<1>11. ASSUME NEW y PROVE y \in Range(u) <=> y \in Range(seq) \ {x}
  <2>1. ASSUME y \in Range(u) PROVE y \in Range(seq) \ {x}
    <3>1. PICK j \in 1 .. n - 1 : y = u[j]
      BY <1>10, <2>1
    <3> DEFINE j1 == IF j < k THEN j ELSE j + 1
    <3>2. j1 \in 1 .. n /\ j1 # k /\ y = seq[j1]
      BY <1>8, <3>1
    <3> QED BY <1>1, <1>2, <1>5, <3>2
  <2>2. ASSUME y \in Range(seq), y # x PROVE y \in Range(u)
    <3>1. PICK i \in 1 .. n : y = seq[i]
      BY <1>1, <2>2
    <3>2. i # k
      BY <1>2, <2>2, <3>1
    <3> DEFINE j == IF i < k THEN i ELSE i - 1
    <3>3. j \in 1 .. n - 1 /\ (IF j < k THEN j ELSE j + 1) = i
      BY <1>1, <1>2, <3>2
    <3>4. u[j] = y
      BY <1>8, <3>1, <3>3
    <3> QED BY <1>10, <3>3, <3>4
  <2> QED BY <2>1, <2>2
<1> QED BY <1>7, <1>9, <1>11 DEF u

LEMMA JoinOnce ==
    ASSUME NEW s1 \in Seq(Threads), NEW s2 \in Seq(Threads), Once(s1), Once(s2),
           Range(s1) \intersect Range(s2) = {}
    PROVE  /\ s1 \o s2 \in Seq(Threads) /\ Once(s1 \o s2)
           /\ Range(s1 \o s2) = Range(s1) \union Range(s2)
<1> DEFINE c == s1 \o s2
           m == Len(s1)
           n == Len(s2)
<1>1. /\ c \in Seq(Threads) /\ Len(c) = m + n /\ m \in Nat /\ n \in Nat
      /\ \A i \in 1 .. m + n : c[i] = IF i <= m THEN s1[i] ELSE s2[i - m]
  BY ConcatProperties, LenProperties
<1>2. /\ \A y : y \in Range(s1) <=> \E i \in 1 .. m : s1[i] = y
      /\ \A y : y \in Range(s2) <=> \E i \in 1 .. n : s2[i] = y
  BY ListRange
<1>3. \A y : y \in Range(c) <=> \E i \in 1 .. m + n : c[i] = y
  <2> HIDE DEF c
  <2>1. \A y : y \in Range(c) <=> \E i \in 1 .. Len(c) : c[i] = y
    BY <1>1, ListRange
  <2> QED BY <1>1, <2>1
<1>4. \A i, j \in 1 .. m : s1[i] = s1[j] => i = j
  BY DEF Once
<1>5. \A i, j \in 1 .. n : s2[i] = s2[j] => i = j
  BY DEF Once
<1> HIDE DEF c, m, n
<1>6. \A i \in 1 .. m, j \in 1 .. n : s1[i] # s2[j]
  BY <1>2
<1>7. Once(c)
  <2> SUFFICES ASSUME NEW i \in 1 .. m + n, NEW j \in 1 .. m + n, c[i] = c[j] PROVE i = j
    BY <1>1 DEF Once
  <2>1. \A l \in 1 .. m + n : IF l <= m THEN l \in 1 .. m ELSE l - m \in 1 .. n
    BY <1>1
  <2>2. CASE i <= m /\ j <= m
    BY <1>1, <1>4, <2>1, <2>2
  <2>3. CASE ~(i <= m) /\ ~(j <= m)
    <3>1. i - m = j - m
      BY <1>1, <1>5, <2>1, <2>3
    <3> QED BY <1>1, <3>1
  <2>4. CASE i <= m /\ ~(j <= m)
    BY <1>1, <1>6, <2>1, <2>4
  <2>5. CASE ~(i <= m) /\ j <= m
    BY <1>1, <1>6, <2>1, <2>5
  <2> QED BY <2>2, <2>3, <2>4, <2>5
<1>8. ASSUME NEW y PROVE y \in Range(c) <=> y \in Range(s1) \union Range(s2)
  <2>1. ASSUME y \in Range(c) PROVE y \in Range(s1) \union Range(s2)
    <3>1. PICK i \in 1 .. m + n : y = c[i]
      BY <1>3, <2>1
    <3>2. IF i <= m THEN i \in 1 .. m /\ y = s1[i] ELSE i - m \in 1 .. n /\ y = s2[i - m]
      BY <1>1, <3>1
    <3> QED BY <1>2, <3>2
  <2>2. ASSUME y \in Range(s1) PROVE y \in Range(c)
    <3>1. PICK i \in 1 .. m : y = s1[i]
      BY <1>2, <2>2
    <3>2. i \in 1 .. m + n /\ c[i] = y
      BY <1>1, <3>1
    <3> QED BY <1>3, <3>2
  <2>3. ASSUME y \in Range(s2) PROVE y \in Range(c)
    <3>1. PICK i \in 1 .. n : y = s2[i]
      BY <1>2, <2>3
    <3>2. m + i \in 1 .. m + n /\ c[m + i] = y
      <4>1. m + i \in 1 .. m + n /\ ~(m + i <= m) /\ (m + i) - m = i
        BY <1>1
      <4> QED BY <1>1, <3>1, <4>1
    <3> QED BY <1>3, <3>2
  <2> QED BY <2>1, <2>2, <2>3
<1> QED BY <1>1, <1>7, <1>8 DEF c
-----------------------------------------------------------------------------
(* Pids                                                                    *)

(* Counting up from next_pid meets every pid once.                         *)
LEMMA PidsDiffer ==
    ASSUME NEW M \in Nat, NEW n \in 0 .. M - 1, NEW j \in 0 .. M - 1, NEW k \in 0 .. M - 1,
           (n + j) % M = (n + k) % M
    PROVE  j = k
<1>1. ASSUME NEW a \in 0 .. M - 1 PROVE (n + a) % M = IF n + a < M THEN n + a ELSE n + a - M
  OBVIOUS
<1> QED BY <1>1

LEMMA PidOfK ==
    ASSUME NEW M \in Nat, M > 0, NEW a \in Nat
    PROVE  a % M \in 0 .. M - 1
OBVIOUS

(* The pigeonhole principle, with only the hypotheses it needs in sight.   *)
LEMMA TwoAlike ==
    ASSUME NEW S, IsFiniteSet(S), NEW T, IsFiniteSet(T), Cardinality(T) < Cardinality(S),
           NEW f \in [S -> T]
    PROVE  \E x, y \in S : x # y /\ f[x] = f[y]
BY FS_PigeonHole

(* A search finds the first of what it looks for.                          *)
LEMMA LeastOne ==
    ASSUME NEW Z, Z \subseteq Nat, Z # {}
    PROVE  \E m \in Z : \A k \in Z : m <= k
<1>1. PICK m \in Z : \A k \in Z : ~(<<k, m>> \in OpToRel(<, Nat))
  BY NatLessThanWellFounded, WFMin
<1>2. \A k \in Z : ~(k < m)
  BY <1>1 DEF OpToRel
<1>3. \A k \in Z : m <= k
  BY <1>2
<1> QED BY <1>3

(* There are more pids than processes, so the search of _proc_getid ends,  *)
(* with a pid that no process on _proc_list has.                           *)
LEMMA FreshPid ==
    ASSUME p_pid \in [Threads -> 0 .. PROC_MAX_COUNT - 1], proc_list \in Seq(Threads),
           next_pid \in 0 .. PROC_MAX_COUNT - 1
    PROVE  /\ proc_getid \in 0 .. PROC_MAX_COUNT - 1
           /\ NextPid(proc_getid) \in 0 .. PROC_MAX_COUNT - 1
           /\ \A p \in Range(proc_list) : p_pid[p] # proc_getid
<1> DEFINE M == PROC_MAX_COUNT
           n == next_pid
           used(k) == \E p \in Range(proc_list) : p_pid[p] = (n + k) % M
           free == {k \in 0 .. M - 1 : ~used(k)}
           first(k) == ~used(k) /\ \A j \in 0 .. k - 1 : used(j)
           k0 == CHOOSE k \in 0 .. M - 1 : first(k)
<1>1. M \in Nat /\ M > 0 /\ n \in 0 .. M - 1 /\ n \in Nat
  <2>1. Cardinality(Threads) \in Nat
    BY KProcAssumption, FS_CardinalityType
  <2> QED BY <2>1, KProcAssumption
<1>2. \A p \in Range(proc_list) : p \in Threads
  BY ListRange
<1>3. free # {}
  <2> SUFFICES ASSUME \A k \in 0 .. M - 1 : used(k) PROVE FALSE
    OBVIOUS
  <2> DEFINE f == [k \in 0 .. M - 1 |-> CHOOSE p \in Range(proc_list) : p_pid[p] = (n + k) % M]
  <2>1. \A k \in 0 .. M - 1 : f[k] \in Range(proc_list) /\ p_pid[f[k]] = (n + k) % M
    OBVIOUS
  <2>2. f \in [0 .. M - 1 -> Threads]
    BY <1>2, <2>1
  <2>3. IsFiniteSet(0 .. M - 1) /\ Cardinality(0 .. M - 1) = M
    <3>1. 0 \in Int /\ M - 1 \in Int
      BY <1>1
    <3>2. IsFiniteSet(0 .. M - 1) /\ Cardinality(0 .. M - 1) = IF 0 > M - 1 THEN 0 ELSE M - 1 - 0 + 1
      BY <3>1, FS_Interval
    <3> QED BY <1>1, <3>2
  <2> HIDE DEF f
  <2>4. \E j, k \in 0 .. M - 1 : j # k /\ f[j] = f[k]
    <3>1. IsFiniteSet(Threads) /\ Cardinality(Threads) < Cardinality(0 .. M - 1)
      <4>1. Cardinality(Threads) \in Nat
        BY KProcAssumption, FS_CardinalityType
      <4> QED BY <2>3, <4>1, KProcAssumption
    <3> DEFINE D == 0 .. M - 1
    <3>2. f \in [D -> Threads] /\ IsFiniteSet(D) /\ Cardinality(Threads) < Cardinality(D)
      BY <2>2, <2>3, <3>1
    <3> HIDE DEF D
    <3>3. \E x, y \in D : x # y /\ f[x] = f[y]
      BY <3>2, KProcAssumption, TwoAlike
    <3> QED BY <3>3 DEF D
  <2>5. PICK j \in 0 .. M - 1, k \in 0 .. M - 1 : j # k /\ f[j] = f[k]
    BY <2>4
  <2>6. (n + j) % M = (n + k) % M
    BY <2>1, <2>5
  <2> HIDE DEF M, n
  <2> QED BY <1>1, <2>5, <2>6, PidsDiffer
<1>4. \E k \in 0 .. M - 1 : first(k)
  <2>1. free \subseteq Nat
    BY <1>1
  <2>2. PICK m \in free : \A k \in free : m <= k
    <3> HIDE DEF free
    <3> QED BY <1>3, <2>1, LeastOne
  <2>3. \A j \in 0 .. m - 1 : j \notin free /\ j \in 0 .. M - 1
    BY <1>1, <2>1, <2>2
  <2> QED BY <2>2, <2>3
<1>5. k0 \in 0 .. M - 1 /\ ~used(k0)
  <2> HIDE DEF used
  <2> QED BY <1>4
<1>6. proc_getid = (n + k0) % M
  BY DEF proc_getid
<1> HIDE DEF k0, M, n
<1>7. proc_getid \in 0 .. M - 1
  BY <1>1, <1>5, <1>6, PidOfK
<1>8. NextPid(proc_getid) \in 0 .. M - 1
  BY <1>1, <1>7, PidOfK DEF NextPid, M
<1>9. \A p \in Range(proc_list) : p_pid[p] # proc_getid
  BY <1>5, <1>6
<1> QED BY <1>7, <1>8, <1>9 DEF M
-----------------------------------------------------------------------------
(* What every step starts from                                             *)

ProcStates == {"none", "PROC_RUNNING", "PROC_DEAD"}
Waits      == Threads \union {NotWaiting, AnyChild}
Pids       == 0 .. PROC_MAX_COUNT - 1

(* A state of the thread and a state of the process that fit together.     *)
Fits(kt, ps) ==
    /\ ps = "PROC_DEAD" <=> kt = "KT_EXITED"
    /\ ps = "PROC_RUNNING" <=> kt \in {"KT_RUN"} \union Asleep

LEMMA Names ==
    /\ kt_runq \notin Threads /\ NoQueue \notin Threads /\ NoThread \notin Threads
    /\ NotWaiting \notin Threads /\ AnyChild \notin Threads /\ NotWaiting # AnyChild
    /\ WaitQueues = Threads /\ Idle \in Threads /\ InitProc \in Threads /\ Idle # InitProc
    /\ \A t \in Threads : t \in Queues
  BY KProcAssumption, KSchedAssumption DEF Queues, NotWaiting, AnyChild

LEMMA ProcFacts ==
    ASSUME ProcIInv
    PROVE  /\ SchedInv(sched)
           /\ sched.kt_wchan \in Wchans /\ sched.kt_state \in [Threads -> KtStates]
           /\ sched.curthr \in Threads \union {NoThread}
           /\ p_state \in [Threads -> ProcStates]
           /\ p_pid \in [Threads -> Pids]
           /\ p_pproc \in [Threads -> Threads \union {NoThread}]
           /\ p_children \in [Threads -> Seq(Threads)]
           /\ proc_list \in Seq(Threads)
           /\ next_pid \in Pids
           /\ waiting \in [Threads -> Waits]
           /\ \A t \in Threads : Fits(sched.kt_state[t], p_state[t])
<1>1. TypeOK /\ ThreadsPlaced
  BY DEF ProcIInv
<1> QED BY <1>1 DEF TypeOK, ThreadsPlaced, SchedInv, SchedState, Wchans, ProcStates, Pids,
                    Waits, Fits, Live

LEMMA PlacedAgain ==
    ASSUME SchedInv(sched'), \A t \in Threads : Fits(sched'.kt_state[t], p_state'[t])
    PROVE  ThreadsPlaced'
BY DEF SchedInv, ThreadsPlaced, Fits, Live

(* Asleep on its own p_wait: linked on it.                                 *)
LEMMA SleepsOn ==
    ASSUME SchedInv(sched), NEW p \in Threads
    PROVE  OnQueue(sched, p, p) <=> sched.kt_wchan[p] = p
BY OnQueueIsWchan, Names

(* The current process has not exited, and is on no queue.                 *)
LEMMA CurrentRuns ==
    ASSUME ProcIInv, NEW p \in Threads, sched.curthr = p
    PROVE  /\ p_state[p] = "PROC_RUNNING" /\ sched.kt_state[p] = "KT_RUN"
           /\ sched.kt_wchan[p] = NoQueue /\ sched.curthr # NoThread
<1>1. SchedInv(sched) /\ Fits(sched.kt_state[p], p_state[p])
  BY ProcFacts
<1>2. sched.curthr # NoThread
  BY Names
<1> QED BY <1>1, <1>2 DEF SchedInv, ThreadsPlacedIn, Fits

-----------------------------------------------------------------------------
(* The steps that move threads only                                        *)

LEMMA QuietStep ==
    ASSUME ProcIInv, UNCHANGED <<procs, waiting>>, SchedInv(sched'),
           sched'.kt_state = sched.kt_state,
           \A t \in Threads : sched'.kt_wchan[t] \in Threads =>
                                  sched'.kt_wchan[t] = sched.kt_wchan[t]
    PROVE  ProcIInv'
<1>1. UNCHANGED <<p_state, p_pid, p_pproc, p_children, proc_list, next_pid, waiting>>
  BY DEF procs
<1>2. TypeOK'
  BY <1>1 DEF ProcIInv, TypeOK, SchedInv
<1>3. ThreadsPlaced'
  BY <1>1, ProcFacts, PlacedAgain
<1>4. FamilyTree' /\ LivePidsDiffer' /\ ListedOnce' /\ DescendFromInit' /\ InitExitsLast'
  BY <1>1 DEF ProcIInv, FamilyTree, LivePidsDiffer, ListedOnce, DescendFromInit, InitExitsLast,
              Live, Closed
<1>5. SleepersHaveReason'
  <2> SUFFICES ASSUME NEW p \in Threads \ {InitProc}, OnQueue(sched, p, p)'
               PROVE  waiting[p] # NotWaiting /\ ~CanReap(p, waiting[p])
    BY <1>1 DEF SleepersHaveReason, CanReap, Zombies
  <2>1. sched'.kt_wchan[p] = p
    <3>1. OnQueue(sched', p, p)
      BY DEF OnQueue
    <3> QED BY <3>1, OnQueueIsWchan, Names
  <2>2. OnQueue(sched, p, p)
    BY <2>1, ProcFacts, SleepsOn
  <2> QED BY <2>2 DEF ProcIInv, SleepersHaveReason
<1>6. WaitersKnown'
  BY <1>1 DEF ProcIInv, WaitersKnown, Live
<1> QED BY <1>2, <1>3, <1>4, <1>5, <1>6 DEF ProcIInv

LEMMA DispatchStep == ProcIInv /\ dispatch => ProcIInv'
<1> SUFFICES ASSUME ProcIInv, dispatch PROVE ProcIInv'
  OBVIOUS
<1> DEFINE h == Head(sched.queue[kt_runq])
           z == Dispatch(sched)
<1>1. SchedInv(sched) /\ CanDispatch(sched) /\ sched' = z /\ UNCHANGED <<procs, waiting>>
      /\ sched.kt_wchan \in Wchans
  BY ProcFacts DEF dispatch
<1>2. /\ h \in Threads /\ z.kt_wchan = [sched.kt_wchan EXCEPT ![h] = NoQueue]
      /\ z.kt_state = sched.kt_state /\ SchedInv(z)
  BY <1>1, DispatchKeeps
<1> HIDE DEF h, z
<1>3. \A t \in Threads : z.kt_wchan[t] \in Threads => z.kt_wchan[t] = sched.kt_wchan[t]
  BY <1>1, <1>2, Names DEF Wchans
<1> QED BY <1>1, <1>2, <1>3, QuietStep

LEMMA YieldStep ==
    ASSUME ProcIInv, NEW p \in Threads, yield(p)
    PROVE  ProcIInv'
<1> DEFINE z == Yield(sched)
<1>1. SchedInv(sched) /\ sched.curthr = p /\ sched' = z /\ UNCHANGED <<procs, waiting>>
      /\ sched.kt_wchan \in Wchans /\ sched.curthr # NoThread
  BY ProcFacts, Names DEF yield, Runs
<1>2. /\ sched.curthr \in Threads /\ z.kt_wchan = [sched.kt_wchan EXCEPT ![sched.curthr] = kt_runq]
      /\ z.kt_state = sched.kt_state /\ SchedInv(z)
  BY <1>1, YieldKeeps
<1> HIDE DEF z
<1>3. \A t \in Threads : z.kt_wchan[t] \in Threads => z.kt_wchan[t] = sched.kt_wchan[t]
  BY <1>1, <1>2, Names DEF Wchans
<1> QED BY <1>1, <1>2, <1>3, QuietStep

(* Going to sleep moves the current thread only.                           *)
LEMMA SleepMovesOne ==
    ASSUME NEW s, SchedInv(s), s.curthr # NoThread, NEW q \in WaitQueues,
           NEW state \in Asleep
    PROVE  /\ \A t \in Threads \ {s.curthr} :
                  /\ SleepAs(s, q, state).kt_wchan[t] = s.kt_wchan[t]
                  /\ SleepAs(s, q, state).kt_state[t] = s.kt_state[t]
           /\ SleepAs(s, q, state).kt_wchan[s.curthr] = q
           /\ SleepAs(s, q, state).kt_state[s.curthr] = state
           /\ SchedInv(SleepAs(s, q, state))
<1> DEFINE z == SleepAs(s, q, state)
<1>1. /\ s.curthr \in Threads
      /\ z.queue = [s.queue EXCEPT ![q] = Append(@, s.curthr)]
      /\ z.kt_wchan = [s.kt_wchan EXCEPT ![s.curthr] = q]
      /\ z.kt_state = [s.kt_state EXCEPT ![s.curthr] = state]
      /\ z.kt_cancelled = s.kt_cancelled
      /\ z.curthr = NoThread
      /\ SchedInv(z)
  BY SleepKeeps
<1>2. s.kt_wchan \in Wchans /\ s.kt_state \in [Threads -> KtStates]
  BY DEF SchedInv, SchedState, Wchans
<1> HIDE DEF z
<1> QED BY <1>1, <1>2 DEF Wchans, z

(* do_waitpid goes to sleep: what it waits for has not exited.             *)
LEMMA SleepStep ==
    ASSUME ProcIInv, NEW p \in Threads, sched.curthr = p, NEW w \in Threads \union {AnyChild},
           ~CanReap(p, w), w \in Threads => w \in Range(p_children[p]),
           sched' = sched_sleep_on(sched, p), waiting' = [waiting EXCEPT ![p] = w],
           UNCHANGED procs
    PROVE  ProcIInv'
<1> DEFINE z == sched_sleep_on(sched, p)
<1>1. /\ SchedInv(sched) /\ sched.kt_wchan \in Wchans /\ sched.curthr # NoThread
      /\ sched.kt_state \in [Threads -> KtStates] /\ waiting \in [Threads -> Waits]
      /\ p_state[p] = "PROC_RUNNING" /\ p \in WaitQueues
      /\ \A t \in Threads : Fits(sched.kt_state[t], p_state[t])
  BY ProcFacts, CurrentRuns, Names
<1>2. /\ \A t \in Threads \ {p} : z.kt_wchan[t] = sched.kt_wchan[t]
                                /\ z.kt_state[t] = sched.kt_state[t]
      /\ z.kt_wchan[p] = p /\ z.kt_state[p] = "KT_SLEEP" /\ SchedInv(z)
  <2>1. "KT_SLEEP" \in Asleep
    BY DEF Asleep
  <2> QED BY <1>1, <2>1, SleepMovesOne DEF sched_sleep_on
<1> HIDE DEF z
<1>3. UNCHANGED <<p_state, p_pid, p_pproc, p_children, proc_list, next_pid>>
  BY DEF procs
<1>4. /\ \A t \in Threads \ {p} : waiting'[t] = waiting[t]
      /\ waiting'[p] = w /\ waiting' \in [Threads -> Waits]
  BY <1>1 DEF Waits
<1>5. TypeOK'
  BY <1>2, <1>3, <1>4 DEF z, ProcIInv, TypeOK, SchedInv, Waits
<1>6. ThreadsPlaced'
  <2>1. \A t \in Threads : Fits(sched'.kt_state[t], p_state'[t])
    BY <1>1, <1>2, <1>3 DEF z, Fits, Asleep
  <2> QED BY <1>2, <2>1, PlacedAgain DEF z
<1>7. FamilyTree' /\ LivePidsDiffer' /\ ListedOnce' /\ DescendFromInit' /\ InitExitsLast'
  BY <1>3 DEF ProcIInv, FamilyTree, LivePidsDiffer, ListedOnce, DescendFromInit, InitExitsLast,
              Live, Closed
<1>8. SleepersHaveReason'
  <2> SUFFICES ASSUME NEW q \in Threads \ {InitProc}, OnQueue(sched, q, q)'
               PROVE  waiting'[q] # NotWaiting /\ ~CanReap(q, waiting'[q])
    BY <1>3 DEF SleepersHaveReason, CanReap, Zombies
  <2>1. CASE q = p
    BY <1>4, <2>1, Names
  <2>2. CASE q # p
    <3>1. OnQueue(sched', q, q) /\ SchedInv(sched')
      BY <1>2 DEF OnQueue, z
    <3>2. sched'.kt_wchan[q] = q
      BY <3>1, OnQueueIsWchan, Names
    <3>3. OnQueue(sched, q, q)
      BY <1>1, <1>2, <2>2, <3>2, SleepsOn DEF z
    <3>4. waiting[q] # NotWaiting /\ ~CanReap(q, waiting[q])
      BY <3>3 DEF ProcIInv, SleepersHaveReason
    <3>5. waiting'[q] = waiting[q]
      BY <1>4, <2>2
    <3> QED BY <3>4, <3>5
  <2> QED BY <2>1, <2>2
<1>9. WaitersKnown'
  <2> SUFFICES ASSUME NEW q \in Threads
               PROVE  /\ z.kt_wchan[q] \in Threads => z.kt_wchan[q] = q /\ waiting'[q] # NotWaiting
                      /\ waiting'[q] # NotWaiting => p_state[q] = "PROC_RUNNING"
                      /\ waiting'[q] \in Threads => waiting'[q] \in Range(p_children[q])
    BY <1>3 DEF WaitersKnown, Live, z
  <2>1. CASE q = p
    BY <1>1, <1>2, <1>4, <2>1, Names
  <2>2. CASE q # p
    BY <1>2, <1>4, <2>2 DEF ProcIInv, WaitersKnown, Live
  <2> QED BY <2>1, <2>2
<1> QED BY <1>5, <1>6, <1>7, <1>8, <1>9 DEF ProcIInv
-----------------------------------------------------------------------------
(* proc_create                                                             *)

(* No process that q waits for exits: q still has to wait.                 *)
LEMMA StillWaits ==
    ASSUME ProcIInv, NEW q \in Threads, NEW w \in Threads \union {AnyChild},
           w \in Threads => w \in Range(p_children[q]),
           p_children'[q] = p_children[q],
           \A t \in Range(p_children[q]) : p_state'[t] = "PROC_DEAD" => p_state[t] = "PROC_DEAD",
           CanReap(q, w)'
    PROVE  CanReap(q, w)
<1>1. \A i \in 1 .. Len(p_children[q]) : p_children[q][i] \in Range(p_children[q])
  <2>1. p_children[q] \in Seq(Threads)
    BY ProcFacts
  <2> QED BY <2>1, ListRange
<1> QED BY <1>1 DEF CanReap, Zombies

(* A sleeper of the next state that slept before, with nothing new to wait *)
(* for.                                                                    *)
LEMMA SleepersKept ==
    ASSUME ProcIInv, SchedInv(sched'),
           \A q \in Threads \ {InitProc} : sched'.kt_wchan[q] = q =>
               /\ sched.kt_wchan[q] = q
               /\ waiting'[q] = waiting[q]
               /\ p_children'[q] = p_children[q]
               /\ \A t \in Range(p_children[q]) :
                      p_state'[t] = "PROC_DEAD" => p_state[t] = "PROC_DEAD"
    PROVE  SleepersHaveReason'
<1> SUFFICES ASSUME NEW q \in Threads \ {InitProc}, OnQueue(sched', q, q)
             PROVE  waiting'[q] # NotWaiting /\ ~CanReap(q, waiting[q])'
  BY DEF SleepersHaveReason, OnQueue
<1>1. sched'.kt_wchan[q] = q
  BY OnQueueIsWchan, Names
<1>2. OnQueue(sched, q, q)
  BY <1>1, ProcFacts, SleepsOn
<1>3. waiting[q] # NotWaiting /\ ~CanReap(q, waiting[q])
  BY <1>2 DEF ProcIInv, SleepersHaveReason
<1>4. PICK w \in Threads \union {AnyChild} : w = waiting[q]
  BY <1>3, ProcFacts DEF Waits
<1>5. w \in Threads => w \in Range(p_children[q])
  BY <1>4 DEF ProcIInv, WaitersKnown
<1>6. ~CanReap(q, w)'
  BY <1>1, <1>3, <1>4, <1>5, StillWaits
<1>7. w = waiting'[q]
  BY <1>1, <1>4
<1>8. ~CanReap(q, waiting[q])'
  BY <1>6, <1>7 DEF CanReap, Zombies
<1> QED BY <1>1, <1>3, <1>8

LEMMA CreateStep ==
    ASSUME ProcIInv, NEW p \in Threads, NEW c \in Threads, proc_create(p, c)
    PROVE  ProcIInv'
<1> DEFINE z == sched_make_runnable(sched, c)
           pid == proc_getid
<1>1. /\ sched.curthr = p /\ waiting[p] = NotWaiting /\ p # Idle /\ p_state[c] = "none"
      /\ p_pid' = [p_pid EXCEPT ![c] = pid] /\ next_pid' = NextPid(pid)
      /\ p_state' = [p_state EXCEPT ![c] = "PROC_RUNNING"]
      /\ p_pproc' = [p_pproc EXCEPT ![c] = p]
      /\ p_children' = [p_children EXCEPT ![p] = Append(p_children[p], c), ![c] = <<>>]
      /\ proc_list' = Append(proc_list, c)
      /\ sched' = z /\ waiting' = waiting
  <2>1. p # c => p_children' = [p_children EXCEPT ![p] = Append(p_children[p], c), ![c] = <<>>]
    BY DEF proc_create
  <2>2. sched.curthr = p /\ p_state[c] = "none"
    BY DEF proc_create, Runs
  <2>3. p # c
    BY <2>2, CurrentRuns
  <2> QED BY <2>1, <2>3 DEF proc_create, Runs
<1>2. /\ SchedInv(sched) /\ sched.kt_wchan \in Wchans /\ sched.kt_state \in [Threads -> KtStates]
      /\ p_state \in [Threads -> ProcStates] /\ p_pid \in [Threads -> Pids]
      /\ p_pproc \in [Threads -> Threads \union {NoThread}]
      /\ p_children \in [Threads -> Seq(Threads)] /\ proc_list \in Seq(Threads)
      /\ next_pid \in Pids /\ waiting \in [Threads -> Waits]
      /\ \A t \in Threads : Fits(sched.kt_state[t], p_state[t])
  BY ProcFacts
<1>3. p_state[p] = "PROC_RUNNING" /\ sched.kt_wchan[p] = NoQueue /\ p # c
  BY <1>1, CurrentRuns
<1>4. c # Idle /\ c # InitProc /\ p_state[Idle] = "PROC_RUNNING"
      /\ p_state[InitProc] = "PROC_RUNNING" /\ p_pproc[Idle] = NoThread
  BY <1>1, <1>3 DEF ProcIInv, InitExitsLast, Live
<1>5. sched.kt_state[c] = "KT_NO_STATE"
  <2>1. sched.kt_state[c] \in KtStates /\ Fits(sched.kt_state[c], "none")
    BY <1>1, <1>2
  <2> QED BY <2>1 DEF Fits, KtStates, Asleep
<1>6. /\ z.kt_wchan = [sched.kt_wchan EXCEPT ![c] = kt_runq]
      /\ z.kt_state = [sched.kt_state EXCEPT ![c] = "KT_RUN"] /\ SchedInv(z)
  BY <1>2, <1>5, StartKeeps
<1>7. pid \in Pids /\ NextPid(pid) \in Pids /\ \A q \in Range(proc_list) : p_pid[q] # pid
  BY <1>2, FreshPid DEF Pids
<1> HIDE DEF z, pid
<1>8. /\ z.kt_wchan[c] = kt_runq /\ z.kt_state[c] = "KT_RUN"
      /\ \A t \in Threads \ {c} : z.kt_wchan[t] = sched.kt_wchan[t] /\ z.kt_state[t] = sched.kt_state[t]
  BY <1>2, <1>6 DEF Wchans
<1>9. /\ p_state'[c] = "PROC_RUNNING" /\ p_pproc'[c] = p /\ p_pid'[c] = pid
      /\ \A t \in Threads \ {c} : /\ p_state'[t] = p_state[t] /\ p_pproc'[t] = p_pproc[t]
                                  /\ p_pid'[t] = p_pid[t]
  BY <1>1, <1>2
<1>10. /\ \A q, x \in Threads : x \in Range(p_children[q]) <=>
                                p_state[x] # "none" /\ x # Idle /\ p_pproc[x] = q
       /\ \A q \in Threads : Once(p_children[q])
       /\ \A x \in Threads : p_state[x] # "none" /\ x # Idle =>
              p_pproc[x] \in Threads /\ p_state[p_pproc[x]] = "PROC_RUNNING"
       /\ Range(proc_list) = {q \in Threads : p_state[q] = "PROC_RUNNING"} /\ Once(proc_list)
       /\ \A q, r \in Threads : /\ p_state[q] = "PROC_RUNNING" /\ p_state[r] = "PROC_RUNNING"
                                /\ q # r
                                => p_pid[q] # p_pid[r]
  BY DEF ProcIInv, FamilyTree, LivePidsDiffer, ListedOnce, Live, Once
<1>11. /\ p_children'[p] = Append(p_children[p], c) /\ p_children'[c] = <<>>
       /\ \A q \in Threads \ {p, c} : p_children'[q] = p_children[q]
  BY <1>1, <1>2, <1>3
<1>12. /\ Append(p_children[p], c) \in Seq(Threads) /\ Once(Append(p_children[p], c))
       /\ Range(Append(p_children[p], c)) = Range(p_children[p]) \union {c}
  <2>1. p_children[p] \in Seq(Threads) /\ Once(p_children[p]) /\ c \notin Range(p_children[p])
    BY <1>1, <1>2, <1>10
  <2> QED BY <2>1, AppendOnce
<1>13. /\ proc_list' \in Seq(Threads) /\ Once(proc_list')
       /\ Range(proc_list') = Range(proc_list) \union {c}
  <2>1. c \notin Range(proc_list)
    BY <1>1, <1>10
  <2> QED BY <1>1, <1>2, <1>10, <2>1, AppendOnce
<1>14. TypeOK'
  <2>1. p_children' \in [Threads -> Seq(Threads)]
    <3> DEFINE a == Append(p_children[p], c)
               f == [p_children EXCEPT ![p] = a]
    <3>1. p_children' = [f EXCEPT ![c] = <<>>]
      BY <1>1
    <3>2. a \in Seq(Threads) /\ <<>> \in Seq(Threads)
      BY <1>12
    <3> HIDE DEF a
    <3>3. f \in [Threads -> Seq(Threads)]
      BY <1>2, <3>2
    <3> HIDE DEF f
    <3> QED BY <3>1, <3>2, <3>3
  <2>2. /\ p_state' \in [Threads -> ProcStates] /\ p_pid' \in [Threads -> Pids]
        /\ p_pproc' \in [Threads -> Threads \union {NoThread}]
    BY <1>1, <1>2, <1>7 DEF ProcStates
  <2>3. sched' \in SchedState
    BY <1>1, <1>6 DEF SchedInv
  <2>4. next_pid' \in Pids /\ waiting' \in [Threads -> Waits] /\ proc_list' \in Seq(Threads)
    BY <1>1, <1>2, <1>7, <1>13
  <2> QED BY <2>1, <2>2, <2>3, <2>4 DEF TypeOK, ProcStates, Pids, Waits
<1>15. ThreadsPlaced'
  <2>1. \A t \in Threads : Fits(z.kt_state[t], p_state'[t])
    BY <1>2, <1>8, <1>9 DEF Fits, Asleep
  <2> QED BY <1>1, <1>6, <2>1, PlacedAgain
<1>16. FamilyTree'
  <2>1. \A q \in Threads : Once(p_children'[q])
    <3> TAKE q \in Threads
    <3>1. Once(<<>>)
      BY DEF Once
    <3>2. CASE q = p
      BY <1>11, <1>12, <3>2
    <3>3. CASE q = c
      BY <1>11, <3>1, <3>3
    <3>4. CASE q \notin {p, c}
      BY <1>10, <1>11, <3>4
    <3> QED BY <3>2, <3>3, <3>4
  <2>2. ASSUME NEW q \in Threads, NEW x \in Threads
        PROVE  x \in Range(p_children'[q]) <=> p_state'[x] # "none" /\ x # Idle /\ p_pproc'[x] = q
    <3>1. CASE q = p
      <4>1. x \in Range(p_children'[p]) <=> x \in Range(p_children[p]) \/ x = c
        BY <1>11, <1>12
      <4>2. x \in Range(p_children[p]) <=> p_state[x] # "none" /\ x # Idle /\ p_pproc[x] = p
        BY <1>10
      <4> QED BY <1>1, <1>4, <1>9, <3>1, <4>1, <4>2
    <3>2. CASE q = c
      <4>1. Range(<<>>) = {}
        BY DEF Range
      <4>2. x \notin Range(p_children'[q])
        BY <1>11, <3>2, <4>1
      <4>3. ASSUME p_state'[x] # "none", x # Idle PROVE p_pproc'[x] # c
        <5>1. CASE x = c
          BY <1>3, <1>9, <5>1
        <5>2. CASE x # c
          <6>1. p_state[p_pproc[x]] = "PROC_RUNNING"
            BY <1>9, <1>10, <4>3, <5>2
          <6> QED BY <1>1, <1>9, <5>2, <6>1
        <5> QED BY <5>1, <5>2
      <4> QED BY <3>2, <4>2, <4>3
    <3>3. CASE q # p /\ q # c
      <4>1. p_children'[q] = p_children[q]
        BY <1>11, <3>3
      <4>2. x \in Range(p_children[q]) <=> p_state[x] # "none" /\ x # Idle /\ p_pproc[x] = q
        BY <1>10
      <4>3. CASE x = c
        BY <1>1, <1>9, <3>3, <4>1, <4>2, <4>3
      <4>4. CASE x # c
        BY <1>9, <4>1, <4>2, <4>4
      <4> QED BY <4>3, <4>4
    <3> QED BY <3>1, <3>2, <3>3
  <2>3. ASSUME NEW x \in Threads, p_state'[x] # "none", x # Idle
        PROVE  p_pproc'[x] \in Threads /\ p_state'[p_pproc'[x]] = "PROC_RUNNING"
    BY <1>1, <1>3, <1>9, <1>10, <2>3
  <2> QED BY <2>1, <2>2, <2>3 DEF FamilyTree, Live, Once
<1>17. LivePidsDiffer'
  <2>1. Range(proc_list') = {q \in Threads : p_state'[q] = "PROC_RUNNING"}
    BY <1>9, <1>10, <1>13
  <2>2. ASSUME NEW q \in Threads, NEW r \in Threads, p_state'[q] = "PROC_RUNNING",
               p_state'[r] = "PROC_RUNNING", q # r
        PROVE  p_pid'[q] # p_pid'[r]
    BY <1>7, <1>9, <1>10, <2>2
  <2> QED BY <2>1, <2>2 DEF LivePidsDiffer, Live
<1>18. SleepersHaveReason'
  <2>1. ASSUME NEW q \in Threads \ {InitProc}, z.kt_wchan[q] = q
        PROVE  /\ sched.kt_wchan[q] = q /\ p_children'[q] = p_children[q]
    BY <1>3, <1>8, <1>11, <2>1, Names
  <2>2. \A t \in Threads : p_state'[t] = "PROC_DEAD" => p_state[t] = "PROC_DEAD"
    BY <1>9
  <2>3. \A q \in Threads : \A t \in Range(p_children[q]) : t \in Threads
    BY <1>2, ListRange
  <2> QED BY <1>1, <1>6, <2>1, <2>2, <2>3, SleepersKept
<1>19. WaitersKnown'
  <2> SUFFICES ASSUME NEW q \in Threads
               PROVE  /\ z.kt_wchan[q] \in Threads => z.kt_wchan[q] = q /\ waiting[q] # NotWaiting
                      /\ waiting[q] # NotWaiting => p_state'[q] = "PROC_RUNNING"
                      /\ waiting[q] \in Threads => waiting[q] \in Range(p_children'[q])
    BY <1>1 DEF WaitersKnown, Live
  <2>1. /\ sched.kt_wchan[q] \in Threads => sched.kt_wchan[q] = q /\ waiting[q] # NotWaiting
        /\ waiting[q] # NotWaiting => p_state[q] = "PROC_RUNNING"
        /\ waiting[q] \in Threads => waiting[q] \in Range(p_children[q])
    BY DEF ProcIInv, WaitersKnown, Live
  <2>2. q # c => Range(p_children[q]) \subseteq Range(p_children'[q])
    BY <1>11, <1>12
  <2> QED BY <1>1, <1>8, <1>9, <2>1, <2>2, Names
<1>20. DescendFromInit'
  <2> SUFFICES ASSUME NEW S \in SUBSET Threads, Closed(S)'
               PROVE  \A x \in Threads \ {Idle} : p_state'[x] # "none" => x \in S
    BY DEF DescendFromInit
  <2>1. InitProc \in S /\ \A x \in Threads : p_state'[x] # "none" /\ p_pproc'[x] \in S => x \in S
    BY DEF Closed
  <2>2. Closed(S)
    BY <1>1, <1>9, <2>1 DEF Closed
  <2>3. \A x \in Threads \ {Idle} : p_state[x] # "none" => x \in S
    BY <2>2 DEF ProcIInv, DescendFromInit
  <2>4. c \in S
    BY <1>1, <1>3, <1>9, <2>1, <2>3
  <2> QED BY <1>9, <2>3, <2>4
<1>21. ListedOnce' /\ InitExitsLast'
  <2>1. ListedOnce'
    BY <1>13 DEF ListedOnce, Once
  <2>2. InitExitsLast'
    BY <1>4, <1>9, Names DEF InitExitsLast, Live
  <2> QED BY <2>1, <2>2
<1> QED BY <1>14, <1>15, <1>16, <1>17, <1>18, <1>19, <1>20, <1>21 DEF ProcIInv-----------------------------------------------------------------------------
(* do_exit                                                                 *)

(* The exit of p wakes q if q sleeps on its p_wait, where nobody else can  *)
(* sleep, and moves nobody else.                                           *)
LEMMA ExitWakes ==
    ASSUME ProcIInv, NEW p \in Threads, sched.curthr = p, NEW q \in Threads
    PROVE  LET z == sched_wakeup_on(ThreadExit(sched), q) IN
           /\ SchedInv(z)
           /\ \A t \in Threads :
                 /\ z.kt_wchan[t] = IF t = q /\ sched.kt_wchan[q] = q THEN kt_runq
                                    ELSE sched.kt_wchan[t]
                 /\ z.kt_state[t] = IF t = p THEN "KT_EXITED"
                                    ELSE IF t = q /\ sched.kt_wchan[q] = q THEN "KT_RUN"
                                    ELSE sched.kt_state[t]
<1> DEFINE x == ThreadExit(sched)
           z == sched_wakeup_on(x, q)
           h == Head(x.queue[q])
<1>1. /\ SchedInv(sched) /\ sched.kt_wchan \in Wchans /\ sched.kt_state \in [Threads -> KtStates]
      /\ sched.curthr # NoThread /\ sched.kt_wchan[p] = NoQueue
      /\ q \in WaitQueues /\ q # NoQueue /\ p \in Threads
  BY ProcFacts, CurrentRuns, Names
<1>2. /\ x.queue = sched.queue /\ x.kt_wchan = sched.kt_wchan
      /\ x.kt_state = [sched.kt_state EXCEPT ![sched.curthr] = "KT_EXITED"]
      /\ SchedInv(x)
  BY <1>1, ExitKeeps
<1> HIDE DEF x
<1>3. /\ x.kt_state[p] = "KT_EXITED" /\ x.kt_state \in [Threads -> KtStates]
      /\ \A t \in Threads \ {p} : x.kt_state[t] = sched.kt_state[t]
  BY <1>1, <1>2 DEF KtStates
<1>4. CASE x.queue[q] = <<>>
  <2>1. sched.kt_wchan[q] # q
    <3>1. ~OnQueue(sched, q, q)
      BY <1>2, <1>4 DEF OnQueue
    <3> QED BY <1>1, <3>1, SleepsOn
  <2>2. z = x
    BY <1>4 DEF sched_wakeup_on, sched_queue_empty
  <2> QED BY <1>2, <1>3, <2>1, <2>2 DEF x
<1>5. CASE x.queue[q] # <<>>
  <2>1. /\ h \in Threads /\ x.kt_wchan[h] = q
        /\ z.kt_wchan = [x.kt_wchan EXCEPT ![h] = kt_runq]
        /\ z.kt_state = [x.kt_state EXCEPT ![h] = "KT_RUN"]
        /\ SchedInv(z)
    <3>1. q \in WaitQueues /\ SchedInv(x)
      BY <1>1, <1>2
    <3> QED BY <1>5, <3>1, WakeupKeeps
  <2> HIDE DEF h, z
  <2>2. h = q
    <3>1. sched.kt_wchan[h] = q
      BY <1>2, <2>1
    <3> QED BY <2>1, <3>1 DEF ProcIInv, WaitersKnown
  <2>3. sched.kt_wchan[q] = q /\ q # p
    BY <1>1, <1>2, <2>1, <2>2
  <2>4. \A t \in Threads : z.kt_wchan[t] = IF t = q THEN kt_runq ELSE sched.kt_wchan[t]
    BY <1>1, <1>2, <2>1, <2>2 DEF Wchans
  <2>5. \A t \in Threads : z.kt_state[t] = IF t = q THEN "KT_RUN" ELSE x.kt_state[t]
    BY <1>3, <2>1, <2>2
  <2> QED BY <1>3, <2>1, <2>3, <2>4, <2>5 DEF z, x
<1> QED BY <1>4, <1>5 DEF x

(* Nobody but idle is left when the init process has no children.          *)
LEMMA InitLast ==
    ASSUME ProcIInv, p_children[InitProc] = <<>>
    PROVE  \A c \in Threads \ {Idle} : p_state[c] # "none" => c = InitProc
<1>1. \A c \in Threads : p_state[c] # "none" /\ p_pproc[c] = InitProc => c = Idle
  <2>1. Range(p_children[InitProc]) = {}
    BY DEF Range
  <2>2. \A c \in Threads : c \in Range(p_children[InitProc]) <=>
                           p_state[c] # "none" /\ c # Idle /\ p_pproc[c] = InitProc
    BY Names DEF ProcIInv, FamilyTree
  <2> QED BY <2>1, <2>2
<1>2. p_pproc[Idle] # InitProc
  BY Names DEF ProcIInv, InitExitsLast
<1>3. Closed({InitProc})
  BY <1>1, <1>2 DEF Closed
<1>4. {InitProc} \in SUBSET Threads
  BY Names
<1> QED BY <1>3, <1>4 DEF ProcIInv, DescendFromInit

(* No process is its own parent.                                           *)
LEMMA NotOwnParent ==
    ASSUME ProcIInv, NEW p \in Threads, p # Idle, p_state[p] # "none",
           p = InitProc => p_children[p] = <<>>
    PROVE  p_pproc[p] # p /\ p_pproc[p] \in Threads /\ p_state[p_pproc[p]] = "PROC_RUNNING"
<1>1. p_pproc[p] \in Threads /\ p_state[p_pproc[p]] = "PROC_RUNNING"
  BY DEF ProcIInv, FamilyTree, Live
<1>2. CASE p = InitProc
  <2>1. Range(p_children[p]) = {}
    BY <1>2 DEF Range
  <2>2. p \in Range(p_children[p]) <=> p_state[p] # "none" /\ p # Idle /\ p_pproc[p] = p
    BY DEF ProcIInv, FamilyTree
  <2> QED BY <1>1, <2>1, <2>2
<1>3. CASE p # InitProc
  <2> SUFFICES ASSUME p_pproc[p] = p PROVE FALSE
    BY <1>1
  <2>1. Closed(Threads \ {p})
    BY <1>3, Names DEF Closed
  <2> QED BY <2>1 DEF ProcIInv, DescendFromInit
<1> QED BY <1>2, <1>3
(* What the exit does to the children lists and the parents.               *)
LEMMA ExitFamily ==
    ASSUME ProcIInv, NEW p \in Threads, sched.curthr = p, p # Idle,
           p = InitProc => p_children[p] = <<>>, proc_cleanup(p)
    PROVE  /\ p_children' \in [Threads -> Seq(Threads)]
           /\ p_pproc' \in [Threads -> Threads \union {NoThread}]
           /\ \A q \in Threads : Once(p_children'[q])
           /\ Range(p_children'[p]) = {}
           /\ p # InitProc => Range(p_children'[InitProc]) =
                              Range(p_children[InitProc]) \union Range(p_children[p])
           /\ \A q \in Threads \ {p, InitProc} : p_children'[q] = p_children[q]
           /\ \A c \in Range(p_children[p]) : p_pproc'[c] = InitProc /\ p # InitProc
           /\ \A c \in Threads \ Range(p_children[p]) : p_pproc'[c] = p_pproc[c]
<1>1. /\ p_children \in [Threads -> Seq(Threads)]
      /\ p_pproc \in [Threads -> Threads \union {NoThread}]
      /\ p_children[p] \in Seq(Threads) /\ p_children[InitProc] \in Seq(Threads)
      /\ p_children[InitProc] \o p_children[p] \in Seq(Threads)
  BY ProcFacts, Names
<1>2. /\ p_children' = [p_children EXCEPT ![InitProc] = @ \o p_children[p], ![p] = <<>>]
      /\ p_pproc' = [c \in Threads |-> IF c \in Range(p_children[p]) THEN InitProc
                                       ELSE p_pproc[c]]
  BY DEF proc_cleanup, Reparented
<1>3. /\ p_children'[p] = <<>>
      /\ p # InitProc => p_children'[InitProc] = p_children[InitProc] \o p_children[p]
      /\ \A q \in Threads \ {p, InitProc} : p_children'[q] = p_children[q]
      /\ p_children' \in [Threads -> Seq(Threads)]
  <2> DEFINE a == p_children[InitProc] \o p_children[p]
             f == [p_children EXCEPT ![InitProc] = a]
  <2>1. p_children' = [f EXCEPT ![p] = <<>>]
    BY <1>2
  <2>2. a \in Seq(Threads) /\ <<>> \in Seq(Threads)
    BY <1>1
  <2> HIDE DEF a
  <2>3. /\ f \in [Threads -> Seq(Threads)] /\ f[InitProc] = a
        /\ \A q \in Threads \ {InitProc} : f[q] = p_children[q]
    BY <1>1, <2>2, Names
  <2> HIDE DEF f
  <2>4. /\ p_children' \in [Threads -> Seq(Threads)] /\ p_children'[p] = <<>>
        /\ \A q \in Threads \ {p} : p_children'[q] = f[q]
    BY <2>1, <2>2, <2>3
  <2> QED BY <2>3, <2>4, Names DEF a
<1>4. /\ \A q \in Threads : Once(p_children[q])
      /\ \A q, x \in Threads : x \in Range(p_children[q]) =>
                               p_state[x] # "none" /\ x # Idle /\ p_pproc[x] = q
  BY DEF ProcIInv, FamilyTree, Once
<1>5. Once(<<>>) /\ Range(<<>>) = {}
  BY DEF Once, Range
<1>6. p # InitProc => /\ Once(p_children'[InitProc])
                      /\ Range(p_children'[InitProc]) =
                         Range(p_children[InitProc]) \union Range(p_children[p])
  <2> SUFFICES ASSUME p # InitProc
               PROVE  /\ Once(p_children[InitProc] \o p_children[p])
                      /\ Range(p_children[InitProc] \o p_children[p]) =
                         Range(p_children[InitProc]) \union Range(p_children[p])
    BY <1>3
  <2>1. Range(p_children[InitProc]) \intersect Range(p_children[p]) = {}
    <3>1. \A x \in Range(p_children[p]) : x \in Threads
      BY <1>1, ListRange
    <3> QED BY <1>4, <3>1, Names
  <2>2. Once(p_children[InitProc]) /\ Once(p_children[p])
    BY <1>4, Names
  <2> QED BY <1>1, <2>1, <2>2, JoinOnce
<1>7. \A q \in Threads : Once(p_children'[q])
  BY <1>3, <1>4, <1>5, <1>6
<1>8. \A c \in Range(p_children[p]) : c \in Threads /\ p # InitProc
  BY <1>1, <1>5, ListRange
<1>9. p_pproc' \in [Threads -> Threads \union {NoThread}]
  BY <1>1, <1>2, Names
<1>10. /\ \A c \in Range(p_children[p]) : p_pproc'[c] = InitProc /\ p # InitProc
       /\ \A c \in Threads \ Range(p_children[p]) : p_pproc'[c] = p_pproc[c]
  BY <1>2, <1>8
<1> QED BY <1>3, <1>5, <1>6, <1>7, <1>9, <1>10
LEMMA ExitStep ==
    ASSUME ProcIInv, NEW p \in Threads, do_exit(p)
    PROVE  ProcIInv'
<1> DEFINE w == p_pproc[p]
           woken == sched.kt_wchan[w] = w
<1>1. /\ sched.curthr = p /\ waiting[p] = NotWaiting /\ p # Idle
      /\ p = InitProc => p_children[p] = <<>>
      /\ proc_cleanup(p) /\ waiting' = waiting
  BY DEF do_exit, Runs
<1>2. /\ SchedInv(sched) /\ sched.kt_wchan \in Wchans /\ sched.kt_state \in [Threads -> KtStates]
      /\ p_state \in [Threads -> ProcStates] /\ p_pid \in [Threads -> Pids]
      /\ p_children \in [Threads -> Seq(Threads)] /\ proc_list \in Seq(Threads)
      /\ next_pid \in Pids /\ waiting \in [Threads -> Waits]
      /\ \A t \in Threads : Fits(sched.kt_state[t], p_state[t])
  BY ProcFacts
<1>3. p_state[p] = "PROC_RUNNING" /\ sched.kt_wchan[p] = NoQueue
  BY <1>1, CurrentRuns
<1>4. w # p /\ w \in Threads /\ p_state[w] = "PROC_RUNNING"
  BY <1>1, <1>3, NotOwnParent
<1>5. /\ p_state' = [p_state EXCEPT ![p] = "PROC_DEAD"]
      /\ proc_list' = Unlinked(proc_list, p)
      /\ sched' = sched_wakeup_on(ThreadExit(sched), w)
      /\ p_pid' = p_pid /\ next_pid' = next_pid
  BY <1>1 DEF proc_cleanup, LeaveProcessor
<1>6. /\ SchedInv(sched')
      /\ \A t \in Threads :
            /\ sched'.kt_wchan[t] = IF t = w /\ woken THEN kt_runq ELSE sched.kt_wchan[t]
            /\ sched'.kt_state[t] = IF t = p THEN "KT_EXITED"
                                    ELSE IF t = w /\ woken THEN "KT_RUN"
                                    ELSE sched.kt_state[t]
  BY <1>1, <1>4, <1>5, ExitWakes
<1>7. /\ p_children' \in [Threads -> Seq(Threads)]
      /\ p_pproc' \in [Threads -> Threads \union {NoThread}]
      /\ \A q \in Threads : Once(p_children'[q])
      /\ Range(p_children'[p]) = {}
      /\ p # InitProc => Range(p_children'[InitProc]) =
                         Range(p_children[InitProc]) \union Range(p_children[p])
      /\ \A q \in Threads \ {p, InitProc} : p_children'[q] = p_children[q]
      /\ \A c \in Range(p_children[p]) : p_pproc'[c] = InitProc /\ p # InitProc
      /\ \A c \in Threads \ Range(p_children[p]) : p_pproc'[c] = p_pproc[c]
  BY <1>1, ExitFamily
<1>8. /\ p_state'[p] = "PROC_DEAD"
      /\ \A t \in Threads \ {p} : p_state'[t] = p_state[t]
      /\ p_state' \in [Threads -> ProcStates]
  BY <1>2, <1>5 DEF ProcStates
<1>9. /\ \A q, x \in Threads : x \in Range(p_children[q]) <=>
                               p_state[x] # "none" /\ x # Idle /\ p_pproc[x] = q
      /\ \A x \in Threads : p_state[x] # "none" /\ x # Idle =>
             p_pproc[x] \in Threads /\ p_state[p_pproc[x]] = "PROC_RUNNING"
      /\ Range(proc_list) = {q \in Threads : p_state[q] = "PROC_RUNNING"} /\ Once(proc_list)
      /\ \A q, r \in Threads : /\ p_state[q] = "PROC_RUNNING" /\ p_state[r] = "PROC_RUNNING"
                               /\ q # r
                               => p_pid[q] # p_pid[r]
      /\ p_state[Idle] = "PROC_RUNNING" /\ p_pproc[Idle] = NoThread
  BY DEF ProcIInv, FamilyTree, LivePidsDiffer, ListedOnce, InitExitsLast, Live, Once
<1>10. p # InitProc => p_state[InitProc] = "PROC_RUNNING"
  BY <1>1, <1>3 DEF ProcIInv, InitExitsLast, Live
<1>11. /\ proc_list' \in Seq(Threads) /\ Once(proc_list')
       /\ Range(proc_list') = Range(proc_list) \ {p}
  <2>1. p \in Range(proc_list)
    BY <1>3, <1>9
  <2> QED BY <1>2, <1>5, <1>9, <2>1, UnlinkOnce
<1>12. Idle \notin Range(p_children[p])
  BY <1>9, Names
<1> HIDE DEF w, woken
<1>13. TypeOK'
  BY <1>1, <1>2, <1>5, <1>6, <1>7, <1>8, <1>11
     DEF TypeOK, ProcStates, Pids, Waits, SchedInv
<1>14. ThreadsPlaced'
  <2>1. \A t \in Threads : Fits(sched'.kt_state[t], p_state'[t])
    BY <1>2, <1>4, <1>6, <1>8 DEF Fits, Asleep
  <2> QED BY <1>6, <2>1, PlacedAgain
<1>15. FamilyTree'
  <2>1. ASSUME NEW q \in Threads, NEW x \in Threads
        PROVE  x \in Range(p_children'[q]) <=> p_state'[x] # "none" /\ x # Idle /\ p_pproc'[x] = q
    <3>1. p_state'[x] # "none" <=> p_state[x] # "none"
      BY <1>3, <1>8
    <3>2. /\ x \in Range(p_children[q]) <=> p_state[x] # "none" /\ x # Idle /\ p_pproc[x] = q
          /\ x \in Range(p_children[p]) <=> p_state[x] # "none" /\ x # Idle /\ p_pproc[x] = p
      BY <1>9
    <3>3. x \in Range(p_children[p]) => p_pproc'[x] = InitProc /\ p # InitProc
      BY <1>7
    <3>4. x \notin Range(p_children[p]) => p_pproc'[x] = p_pproc[x]
      BY <1>7
    <3>5. CASE q = p
      <4>1. x \notin Range(p_children'[q])
        BY <1>7, <3>5
      <4> QED BY <3>1, <3>2, <3>3, <3>4, <3>5, <4>1
    <3>6. CASE q # p /\ q = InitProc
      <4>1. x \in Range(p_children'[q]) <=>
            x \in Range(p_children[q]) \/ x \in Range(p_children[p])
        BY <1>7, <3>6
      <4> QED BY <3>1, <3>2, <3>3, <3>4, <3>6, <4>1
    <3>7. CASE q # p /\ q # InitProc
      <4>1. p_children'[q] = p_children[q]
        BY <1>7, <3>7
      <4> QED BY <3>1, <3>2, <3>3, <3>4, <3>7, <4>1
    <3> QED BY <3>5, <3>6, <3>7
  <2>2. ASSUME NEW x \in Threads, p_state'[x] # "none", x # Idle
        PROVE  p_pproc'[x] \in Threads /\ p_state'[p_pproc'[x]] = "PROC_RUNNING"
    <3>1. p_state[x] # "none"
      BY <1>3, <1>8, <2>2
    <3>2. CASE x \in Range(p_children[p])
      BY <1>7, <1>8, <1>10, <3>2, Names
    <3>3. CASE x \notin Range(p_children[p])
      <4>1. p_pproc'[x] = p_pproc[x] /\ p_pproc[x] \in Threads
            /\ p_state[p_pproc[x]] = "PROC_RUNNING" /\ p_pproc[x] # p
        BY <1>7, <1>9, <2>2, <3>1, <3>3
      <4> QED BY <1>8, <4>1
    <3> QED BY <3>2, <3>3
  <2> QED BY <1>7, <2>1, <2>2 DEF FamilyTree, Live, Once
<1>16. LivePidsDiffer'
  <2>1. Range(proc_list') = {q \in Threads : p_state'[q] = "PROC_RUNNING"}
    BY <1>8, <1>9, <1>11
  <2>2. ASSUME NEW q \in Threads, NEW r \in Threads, p_state'[q] = "PROC_RUNNING",
               p_state'[r] = "PROC_RUNNING", q # r
        PROVE  p_pid'[q] # p_pid'[r]
    BY <1>5, <1>8, <1>9, <2>2
  <2> QED BY <2>1, <2>2 DEF LivePidsDiffer, Live
<1>17. SleepersHaveReason'
  <2>1. ASSUME NEW q \in Threads \ {InitProc}, sched'.kt_wchan[q] = q
        PROVE  /\ sched.kt_wchan[q] = q /\ p_children'[q] = p_children[q]
               /\ \A t \in Range(p_children[q]) :
                      p_state'[t] = "PROC_DEAD" => p_state[t] = "PROC_DEAD"
    <3>1. sched.kt_wchan[q] = q /\ ~(q = w /\ woken)
      BY <1>6, <2>1, Names
    <3>2. q # p /\ q # w
      BY <1>3, <3>1, Names DEF woken
    <3>3. p \notin Range(p_children[q])
      BY <1>9, <3>2 DEF w
    <3>4. \A t \in Range(p_children[q]) : t \in Threads
      BY <1>2, ListRange
    <3> QED BY <1>7, <1>8, <3>1, <3>2, <3>3, <3>4
  <2> QED BY <1>1, <1>6, <2>1, SleepersKept
<1>18. WaitersKnown'
  <2> SUFFICES ASSUME NEW q \in Threads
               PROVE  /\ sched'.kt_wchan[q] \in Threads =>
                            sched'.kt_wchan[q] = q /\ waiting[q] # NotWaiting
                      /\ waiting[q] # NotWaiting => p_state'[q] = "PROC_RUNNING"
                      /\ waiting[q] \in Threads => waiting[q] \in Range(p_children'[q])
    BY <1>1 DEF WaitersKnown, Live
  <2>1. /\ sched.kt_wchan[q] \in Threads => sched.kt_wchan[q] = q /\ waiting[q] # NotWaiting
        /\ waiting[q] # NotWaiting => p_state[q] = "PROC_RUNNING"
        /\ waiting[q] \in Threads => waiting[q] \in Range(p_children[q])
    BY DEF ProcIInv, WaitersKnown, Live
  <2>2. q # p => Range(p_children[q]) \subseteq Range(p_children'[q])
    BY <1>7
  <2> QED BY <1>1, <1>6, <1>8, <2>1, <2>2, Names
<1>19. DescendFromInit'
  <2> SUFFICES ASSUME NEW S \in SUBSET Threads, Closed(S)'
               PROVE  \A x \in Threads \ {Idle} : p_state'[x] # "none" => x \in S
    BY DEF DescendFromInit
  <2>1. InitProc \in S /\ \A x \in Threads : p_state'[x] # "none" /\ p_pproc'[x] \in S => x \in S
    BY DEF Closed
  <2>2. \A x \in Threads : p_state'[x] # "none" <=> p_state[x] # "none"
    BY <1>3, <1>8
  <2>3. Closed(S)
    BY <1>7, <2>1, <2>2 DEF Closed
  <2> QED BY <2>2, <2>3 DEF ProcIInv, DescendFromInit
<1>20. ListedOnce' /\ InitExitsLast'
  <2>1. ListedOnce'
    BY <1>11 DEF ListedOnce, Once
  <2>2. p_state'[Idle] = "PROC_RUNNING" /\ p_pproc'[Idle] = NoThread
    BY <1>1, <1>7, <1>8, <1>9, <1>12, Names
  <2>3. ASSUME NEW c \in Threads \ {Idle, InitProc}, p_state'[c] # "none"
        PROVE  p_state'[InitProc] = "PROC_RUNNING"
    <3>1. p_state[c] # "none"
      BY <1>3, <1>8, <2>3
    <3>2. p # InitProc
      BY <1>1, <3>1, InitLast
    <3> QED BY <1>8, <1>10, <3>2, Names
  <2> QED BY <2>1, <2>2, <2>3 DEF InitExitsLast, Live
<1> QED BY <1>13, <1>14, <1>15, <1>16, <1>17, <1>18, <1>19, <1>20 DEF ProcIInv-----------------------------------------------------------------------------
(* do_waitpid                                                              *)

LEMMA ReapStep ==
    ASSUME ProcIInv, NEW p \in Threads, sched.curthr = p, NEW c \in Range(p_children[p]),
           p_state[c] = "PROC_DEAD", Reap(p, c)
    PROVE  ProcIInv'
<1>1. /\ SchedInv(sched) /\ sched.kt_wchan \in Wchans /\ sched.kt_state \in [Threads -> KtStates]
      /\ p_state \in [Threads -> ProcStates] /\ p_pid \in [Threads -> Pids]
      /\ p_pproc \in [Threads -> Threads \union {NoThread}]
      /\ p_children \in [Threads -> Seq(Threads)] /\ proc_list \in Seq(Threads)
      /\ next_pid \in Pids /\ waiting \in [Threads -> Waits]
      /\ \A t \in Threads : Fits(sched.kt_state[t], p_state[t])
  BY ProcFacts
<1>2. c \in Threads
  BY <1>1, ListRange
<1>3. p_state[p] = "PROC_RUNNING" /\ sched.kt_wchan[p] = NoQueue /\ p # c
  BY CurrentRuns
<1>4. /\ p_children' = [p_children EXCEPT ![p] = Unlinked(p_children[p], c)]
      /\ p_state' = [p_state EXCEPT ![c] = "none"]
      /\ waiting' = [waiting EXCEPT ![p] = NotWaiting]
      /\ sched' = [sched EXCEPT !.kt_state[c] = "KT_NO_STATE"]
      /\ p_pid' = p_pid /\ p_pproc' = p_pproc /\ proc_list' = proc_list /\ next_pid' = next_pid
  BY DEF Reap
<1>5. /\ sched'.kt_wchan = sched.kt_wchan
      /\ sched'.kt_state = [sched.kt_state EXCEPT ![c] = "KT_NO_STATE"]
      /\ SchedInv(sched')
  <2>1. sched.kt_state[c] = "KT_EXITED"
    BY <1>1, <1>2 DEF Fits
  <2> QED BY <1>1, <1>2, <1>4, <2>1, FreeKeeps
<1>6. /\ p_state'[c] = "none" /\ p_state' \in [Threads -> ProcStates]
      /\ \A t \in Threads \ {c} : p_state'[t] = p_state[t]
      /\ waiting'[p] = NotWaiting /\ waiting' \in [Threads -> Waits]
      /\ \A t \in Threads \ {p} : waiting'[t] = waiting[t]
      /\ sched'.kt_state[c] = "KT_NO_STATE"
      /\ \A t \in Threads \ {c} : sched'.kt_state[t] = sched.kt_state[t]
  <2>1. p_state'[c] = "none" /\ p_state' \in [Threads -> ProcStates]
        /\ \A t \in Threads \ {c} : p_state'[t] = p_state[t]
    BY <1>1, <1>2, <1>4 DEF ProcStates
  <2>2. waiting'[p] = NotWaiting /\ waiting' \in [Threads -> Waits]
        /\ \A t \in Threads \ {p} : waiting'[t] = waiting[t]
    BY <1>1, <1>4 DEF Waits
  <2>3. sched'.kt_state[c] = "KT_NO_STATE"
        /\ \A t \in Threads \ {c} : sched'.kt_state[t] = sched.kt_state[t]
    BY <1>1, <1>2, <1>5
  <2> QED BY <2>1, <2>2, <2>3
<1>7. /\ \A q, x \in Threads : x \in Range(p_children[q]) <=>
                               p_state[x] # "none" /\ x # Idle /\ p_pproc[x] = q
      /\ \A q \in Threads : Once(p_children[q])
      /\ \A x \in Threads : p_state[x] # "none" /\ x # Idle =>
             p_pproc[x] \in Threads /\ p_state[p_pproc[x]] = "PROC_RUNNING"
      /\ Range(proc_list) = {q \in Threads : p_state[q] = "PROC_RUNNING"} /\ Once(proc_list)
      /\ \A q, r \in Threads : /\ p_state[q] = "PROC_RUNNING" /\ p_state[r] = "PROC_RUNNING"
                               /\ q # r
                               => p_pid[q] # p_pid[r]
      /\ p_state[Idle] = "PROC_RUNNING" /\ p_pproc[Idle] = NoThread
  BY DEF ProcIInv, FamilyTree, LivePidsDiffer, ListedOnce, InitExitsLast, Live, Once
<1>8. /\ Unlinked(p_children[p], c) \in Seq(Threads) /\ Once(Unlinked(p_children[p], c))
      /\ Range(Unlinked(p_children[p], c)) = Range(p_children[p]) \ {c}
  BY <1>1, <1>7, UnlinkOnce
<1>9. /\ p_children' \in [Threads -> Seq(Threads)]
      /\ Once(p_children'[p]) /\ Range(p_children'[p]) = Range(p_children[p]) \ {c}
      /\ \A q \in Threads \ {p} : p_children'[q] = p_children[q]
  <2> DEFINE a == Unlinked(p_children[p], c)
  <2>1. a \in Seq(Threads) /\ p_children' = [p_children EXCEPT ![p] = a]
    BY <1>4, <1>8
  <2>2. /\ p_children' \in [Threads -> Seq(Threads)] /\ p_children'[p] = a
        /\ \A q \in Threads \ {p} : p_children'[q] = p_children[q]
    <3> HIDE DEF a
    <3> QED BY <1>1, <2>1
  <2> QED BY <1>8, <2>2
<1>10. TypeOK'
  BY <1>1, <1>4, <1>5, <1>6, <1>9 DEF TypeOK, ProcStates, Pids, Waits, SchedInv
<1>11. ThreadsPlaced'
  <2>1. \A t \in Threads : Fits(sched'.kt_state[t], p_state'[t])
    BY <1>1, <1>6 DEF Fits, Asleep
  <2> QED BY <1>5, <2>1, PlacedAgain
<1>12. FamilyTree'
  <2>1. \A q \in Threads : Once(p_children'[q])
    BY <1>7, <1>9
  <2>2. ASSUME NEW q \in Threads, NEW x \in Threads
        PROVE  x \in Range(p_children'[q]) <=> p_state'[x] # "none" /\ x # Idle /\ p_pproc[x] = q
    <3>1. x \in Range(p_children[q]) <=> p_state[x] # "none" /\ x # Idle /\ p_pproc[x] = q
      BY <1>7
    <3>2. x \in Range(p_children'[q]) <=> x \in Range(p_children[q]) /\ x # c
      <4>1. CASE q = p
        BY <1>9, <4>1
      <4>2. CASE q # p
        <5>1. c \notin Range(p_children[q])
          BY <1>2, <1>7, <4>2
        <5> QED BY <1>9, <4>2, <5>1
      <4> QED BY <4>1, <4>2
    <3>3. p_state'[x] # "none" <=> p_state[x] # "none" /\ x # c
      BY <1>6
    <3> QED BY <3>1, <3>2, <3>3
  <2>3. ASSUME NEW x \in Threads, p_state'[x] # "none", x # Idle
        PROVE  p_pproc[x] \in Threads /\ p_state'[p_pproc[x]] = "PROC_RUNNING"
    <3>1. p_pproc[x] \in Threads /\ p_state[p_pproc[x]] = "PROC_RUNNING"
      BY <1>6, <1>7, <2>3
    <3> QED BY <1>6, <3>1
  <2> QED BY <1>4, <2>1, <2>2, <2>3 DEF FamilyTree, Live, Once
<1>13. LivePidsDiffer' /\ ListedOnce'
  <2>1. \A q \in Threads : p_state'[q] = "PROC_RUNNING" <=> p_state[q] = "PROC_RUNNING"
    BY <1>6
  <2> QED BY <1>4, <1>7, <2>1 DEF LivePidsDiffer, ListedOnce, Live, Once
<1>14. SleepersHaveReason'
  <2>1. ASSUME NEW q \in Threads \ {InitProc}, sched'.kt_wchan[q] = q
        PROVE  /\ sched.kt_wchan[q] = q /\ waiting'[q] = waiting[q]
               /\ p_children'[q] = p_children[q]
               /\ \A t \in Range(p_children[q]) :
                      p_state'[t] = "PROC_DEAD" => p_state[t] = "PROC_DEAD"
    <3>1. q # p /\ sched.kt_wchan[q] = q
      BY <1>3, <1>5, <2>1, Names
    <3>2. \A t \in Range(p_children[q]) : t \in Threads
      BY <1>1, ListRange
    <3> QED BY <1>6, <1>9, <3>1, <3>2
  <2> QED BY <1>5, <2>1, SleepersKept
<1>15. WaitersKnown'
  <2> SUFFICES ASSUME NEW q \in Threads
               PROVE  /\ sched.kt_wchan[q] \in Threads =>
                            sched.kt_wchan[q] = q /\ waiting'[q] # NotWaiting
                      /\ waiting'[q] # NotWaiting => p_state'[q] = "PROC_RUNNING"
                      /\ waiting'[q] \in Threads => waiting'[q] \in Range(p_children'[q])
    BY <1>5 DEF WaitersKnown, Live
  <2>1. /\ sched.kt_wchan[q] \in Threads => sched.kt_wchan[q] = q /\ waiting[q] # NotWaiting
        /\ waiting[q] # NotWaiting => p_state[q] = "PROC_RUNNING"
        /\ waiting[q] \in Threads => waiting[q] \in Range(p_children[q])
    BY DEF ProcIInv, WaitersKnown, Live
  <2>2. CASE q = p
    BY <1>3, <1>6, <2>2, Names
  <2>3. CASE q # p
    <3>1. waiting'[q] = waiting[q] /\ p_children'[q] = p_children[q]
      BY <1>6, <1>9, <2>3
    <3>2. p_state[q] = "PROC_RUNNING" => p_state'[q] = "PROC_RUNNING"
      BY <1>6
    <3> QED BY <2>1, <3>1, <3>2
  <2> QED BY <2>2, <2>3
<1>16. DescendFromInit'
  <2> SUFFICES ASSUME NEW S \in SUBSET Threads, Closed(S)'
               PROVE  \A x \in Threads \ {Idle} : p_state'[x] # "none" => x \in S
    BY DEF DescendFromInit
  <2>1. InitProc \in S /\ \A x \in Threads : p_state'[x] # "none" /\ p_pproc[x] \in S => x \in S
    BY <1>4 DEF Closed
  <2>2. \A x \in Threads : p_state[x] # "none" => p_pproc[x] # c
    BY <1>2, <1>7, Names
  <2>3. Closed(S \union {c})
    BY <1>6, <2>1, <2>2 DEF Closed
  <2>4. S \union {c} \in SUBSET Threads
    BY <1>2
  <2>5. \A x \in Threads \ {Idle} : p_state[x] # "none" => x \in S \union {c}
    BY <2>3, <2>4 DEF ProcIInv, DescendFromInit
  <2> QED BY <1>6, <2>5
<1>17. InitExitsLast'
  <2>1. c # Idle
    BY <1>2, <1>7
  <2>2. ASSUME NEW x \in Threads \ {Idle, InitProc}, p_state'[x] # "none"
        PROVE  p_state'[InitProc] = "PROC_RUNNING"
    <3>1. p_state[InitProc] = "PROC_RUNNING"
      BY <1>6, <2>2 DEF ProcIInv, InitExitsLast, Live
    <3> QED BY <1>6, <3>1, Names
  <2> QED BY <1>4, <1>6, <1>7, <2>1, <2>2, Names DEF InitExitsLast, Live
<1> QED BY <1>10, <1>11, <1>12, <1>13, <1>14, <1>15, <1>16, <1>17 DEF ProcIInv
(* The loops of do_waitpid find a child.                                   *)
LEMMA FirstFound ==
    ASSUME NEW seq \in Seq(Threads), NEW Z, Z \subseteq 1 .. Len(seq), Z # {}
    PROVE  /\ (CHOOSE i \in Z : \A j \in Z : i <= j) \in Z
           /\ seq[CHOOSE i \in Z : \A j \in Z : i <= j] \in Range(seq)
<1>1. Len(seq) \in Nat /\ \A i \in 1 .. Len(seq) : seq[i] \in Range(seq)
  BY ListRange
<1>2. Z \subseteq Nat
  BY <1>1
<1>3. \E i \in Z : \A j \in Z : i <= j
  BY <1>2, LeastOne
<1> QED BY <1>1, <1>3

LEMMA LoopStep ==
    ASSUME ProcIInv, NEW p \in Threads, sched.curthr = p, NEW w \in Threads \union {AnyChild},
           w \in Threads => w \in Range(p_children[p]), WaitLoop(p, w)
    PROVE  ProcIInv'
<1>1. CASE CanReap(p, w)
  <2> DEFINE c == IF w = AnyChild THEN FirstZombie(p) ELSE w
  <2>1. Reap(p, c)
    BY <1>1 DEF WaitLoop
  <2>2. c \in Range(p_children[p]) /\ p_state[c] = "PROC_DEAD"
    <3>1. CASE w = AnyChild
      <4>1. p_children[p] \in Seq(Threads)
        BY ProcFacts
      <4>2. Zombies(p) # {} /\ Zombies(p) \subseteq 1 .. Len(p_children[p])
        BY <1>1, <3>1 DEF CanReap, Zombies
      <4> DEFINE i == CHOOSE i \in Zombies(p) : \A j \in Zombies(p) : i <= j
      <4>3. i \in Zombies(p) /\ p_children[p][i] \in Range(p_children[p])
        BY <4>1, <4>2, FirstFound
      <4>4. FirstZombie(p) = p_children[p][i]
        BY DEF FirstZombie
      <4> HIDE DEF i
      <4>5. p_state[p_children[p][i]] = "PROC_DEAD"
        BY <4>3 DEF Zombies
      <4> QED BY <3>1, <4>3, <4>4, <4>5
    <3>2. CASE w # AnyChild
      BY <1>1, <3>2 DEF CanReap
    <3> QED BY <3>1, <3>2
  <2> HIDE DEF c
  <2> QED BY <2>1, <2>2, ReapStep
<1>2. CASE ~CanReap(p, w)
  <2>1. /\ sched' = sched_sleep_on(sched, p) /\ waiting' = [waiting EXCEPT ![p] = w]
        /\ UNCHANGED procs
    BY <1>2 DEF WaitLoop
  <2> QED BY <1>2, <2>1, SleepStep
<1> QED BY <1>1, <1>2

LEMMA WaitStep ==
    ASSUME ProcIInv, NEW p \in Threads,
           \/ do_waitpid_any(p)
           \/ waitpid_wakeup(p)
           \/ \E pid \in 1 .. PROC_MAX_COUNT - 1 : do_waitpid(p, pid)
    PROVE  ProcIInv'
<1>1. CASE do_waitpid_any(p)
  <2>1. sched.curthr = p /\ WaitLoop(p, AnyChild)
    BY <1>1 DEF do_waitpid_any, Runs
  <2> QED BY <2>1, Names, LoopStep
<1>2. CASE waitpid_wakeup(p)
  <2>1. sched.curthr = p /\ waiting[p] # NotWaiting /\ WaitLoop(p, waiting[p])
    BY <1>2 DEF waitpid_wakeup
  <2>2. PICK w \in Threads \union {AnyChild} : w = waiting[p]
    BY <2>1, ProcFacts DEF Waits
  <2>3. w \in Threads => w \in Range(p_children[p])
    BY <2>2 DEF ProcIInv, WaitersKnown
  <2> QED BY <2>1, <2>2, <2>3, LoopStep
<1>3. ASSUME NEW pid \in 1 .. PROC_MAX_COUNT - 1, do_waitpid(p, pid) PROVE ProcIInv'
  <2> DEFINE Z == HasPid(p, pid)
             i == CHOOSE i \in Z : \A j \in Z : i <= j
             w == p_children[p][i]
  <2>1. sched.curthr = p /\ Z # {} /\ WaitLoop(p, w)
    BY <1>3 DEF do_waitpid, Runs
  <2>2. p_children[p] \in Seq(Threads) /\ Z \subseteq 1 .. Len(p_children[p])
    BY ProcFacts DEF HasPid
  <2> HIDE DEF Z
  <2>3. w \in Range(p_children[p])
    BY <2>1, <2>2, FirstFound
  <2>4. w \in Threads
    BY <2>2, <2>3, ListRange
  <2> HIDE DEF w
  <2> QED BY <2>1, <2>3, <2>4, LoopStep
<1> QED BY <1>1, <1>2, <1>3
-----------------------------------------------------------------------------
(* The invariant                                                           *)

LEMMA ProcStep == ProcIInv /\ [Next]_vars => ProcIInv'
<1> SUFFICES ASSUME ProcIInv, [Next]_vars PROVE ProcIInv'
  OBVIOUS
<1>1. CASE dispatch
  BY <1>1, DispatchStep
<1>2. ASSUME NEW p \in Threads, do_exit(p) PROVE ProcIInv'
  BY <1>2, ExitStep
<1>3. ASSUME NEW p \in Threads, do_waitpid_any(p) PROVE ProcIInv'
  BY <1>3, WaitStep
<1>4. ASSUME NEW p \in Threads, waitpid_wakeup(p) PROVE ProcIInv'
  BY <1>4, WaitStep
<1>5. ASSUME NEW p \in Threads, yield(p) PROVE ProcIInv'
  BY <1>5, YieldStep
<1>6. ASSUME NEW p \in Threads, NEW c \in Threads, proc_create(p, c) PROVE ProcIInv'
  BY <1>6, CreateStep
<1>7. ASSUME NEW p \in Threads, NEW pid \in 1 .. PROC_MAX_COUNT - 1, do_waitpid(p, pid)
      PROVE  ProcIInv'
  BY <1>7, WaitStep
<1>8. CASE UNCHANGED vars
  <2>1. UNCHANGED <<procs, waiting>> /\ sched' = sched
    BY <1>8 DEF vars
  <2>2. SchedInv(sched')
    BY <2>1, ProcFacts
  <2> QED BY <2>1, <2>2, QuietStep
<1> QED BY <1>1, <1>2, <1>3, <1>4, <1>5, <1>6, <1>7, <1>8 DEF Next
(* The idle and the init process are two, so there are three pids at       *)
(* least.                                                                  *)
LEMMA ThreePids == PROC_MAX_COUNT \in Nat /\ PROC_MAX_COUNT > 2
<1>1. IsFiniteSet({Idle}) /\ Cardinality({Idle}) = 1
  BY FS_Singleton
<1>2. Cardinality({Idle} \union {InitProc}) = 2
  <2>1. InitProc \notin {Idle}
    BY Names
  <2> QED BY <1>1, <2>1, FS_AddElement
<1>3. Cardinality({Idle} \union {InitProc}) <= Cardinality(Threads)
  <2>1. {Idle} \union {InitProc} \subseteq Threads
    BY Names
  <2> QED BY <2>1, KProcAssumption, FS_Subset
<1>4. Cardinality(Threads) \in Nat
  BY KProcAssumption, FS_CardinalityType
<1> QED BY <1>2, <1>3, <1>4, KProcAssumption

LEMMA ProcInit == Init => ProcIInv
<1> SUFFICES ASSUME Init PROVE ProcIInv
  OBVIOUS
<1>1. /\ kt_runq \notin Threads /\ NoQueue \notin Queues /\ NoThread \notin Threads
      /\ NotWaiting \notin Threads /\ AnyChild \notin Threads /\ NotWaiting # AnyChild
      /\ WaitQueues = Threads /\ Idle \in Threads /\ InitProc \in Threads /\ Idle # InitProc
      /\ Queues = Threads \union {kt_runq}
  BY Names, KSchedAssumption DEF Queues
<1>2. /\ sched.queue = [q \in Queues |-> CASE q = kt_runq -> <<InitProc>>
                                           [] q = Idle    -> <<Idle>>
                                           [] OTHER       -> <<>>]
      /\ sched.kt_state = [t \in Threads |-> CASE t = InitProc -> "KT_RUN"
                                               [] t = Idle     -> "KT_SLEEP"
                                               [] OTHER        -> "KT_NO_STATE"]
      /\ sched.kt_wchan = [t \in Threads |-> CASE t = InitProc -> kt_runq
                                               [] t = Idle     -> Idle
                                               [] OTHER        -> NoQueue]
      /\ sched.kt_cancelled = {} /\ sched.curthr = NoThread
      /\ sched = [queue |-> sched.queue, kt_state |-> sched.kt_state,
                  kt_wchan |-> sched.kt_wchan, kt_cancelled |-> sched.kt_cancelled,
                  curthr |-> sched.curthr]
  BY DEF Init
<1>3. /\ p_state = [p \in Threads |-> IF p \in {Idle, InitProc} THEN "PROC_RUNNING" ELSE "none"]
      /\ p_pid = [p \in Threads |-> IF p = InitProc THEN PID_INIT ELSE PID_IDLE]
      /\ p_pproc = [p \in Threads |-> IF p = InitProc THEN Idle ELSE NoThread]
      /\ p_children = [p \in Threads |-> IF p = Idle THEN <<InitProc>> ELSE <<>>]
      /\ proc_list = <<Idle, InitProc>> /\ next_pid = 2
      /\ waiting = [p \in Threads |-> IF p = Idle THEN AnyChild ELSE NotWaiting]
  BY DEF Init
<1>4. /\ sched.queue[kt_runq] = <<InitProc>> /\ sched.queue[Idle] = <<Idle>>
      /\ \A q \in Queues \ {kt_runq, Idle} : sched.queue[q] = <<>>
      /\ sched.queue \in [Queues -> Seq(Threads)]
  <2>1. <<InitProc>> \in Seq(Threads) /\ <<Idle>> \in Seq(Threads) /\ <<>> \in Seq(Threads)
    BY <1>1
  <2>2. kt_runq \in Queues /\ Idle \in Queues /\ kt_runq # Idle
    BY <1>1
  <2> QED BY <1>2, <2>1, <2>2
<1>5. /\ sched.kt_state[InitProc] = "KT_RUN" /\ sched.kt_state[Idle] = "KT_SLEEP"
      /\ \A t \in Threads \ {Idle, InitProc} : sched.kt_state[t] = "KT_NO_STATE"
      /\ sched.kt_state \in [Threads -> KtStates]
      /\ sched.kt_wchan[InitProc] = kt_runq /\ sched.kt_wchan[Idle] = Idle
      /\ \A t \in Threads \ {Idle, InitProc} : sched.kt_wchan[t] = NoQueue
      /\ sched.kt_wchan \in [Threads -> Queues \union {NoQueue}]
  BY <1>1, <1>2 DEF KtStates
<1>6. \A p \in Threads : p_state[p] # "none" => p \in {Idle, InitProc} /\ p_state[p] = "PROC_RUNNING"
  BY <1>3
<1>7. /\ p_children[Idle] = <<InitProc>> /\ \A p \in Threads \ {Idle} : p_children[p] = <<>>
      /\ Range(<<InitProc>>) = {InitProc} /\ Range(<<>>) = {}
  BY <1>1, <1>3 DEF Range
<1>8. SchedInv(sched)
  <2>1. sched \in SchedState
    BY <1>2, <1>4, <1>5 DEF SchedState
  <2>2. LinkedOnce(sched.queue, sched.kt_wchan)
    <3>1. ASSUME NEW q \in Queues, NEW i \in 1 .. Len(sched.queue[q])
          PROVE  /\ sched.kt_wchan[sched.queue[q][i]] = q
                 /\ \A j \in 1 .. Len(sched.queue[q]) :
                        sched.queue[q][i] = sched.queue[q][j] => i = j
      <4>1. CASE q = kt_runq
        BY <1>4, <1>5, <3>1, <4>1
      <4>2. CASE q = Idle
        BY <1>4, <1>5, <3>1, <4>2
      <4>3. CASE q # kt_runq /\ q # Idle
        BY <1>4, <3>1, <4>3
      <4> QED BY <4>1, <4>2, <4>3
    <3>2. ASSUME NEW t \in Threads, sched.kt_wchan[t] # NoQueue
          PROVE  \E i \in 1 .. Len(sched.queue[sched.kt_wchan[t]]) :
                     sched.queue[sched.kt_wchan[t]][i] = t
      <4>1. CASE t = InitProc
        <5>1. 1 \in 1 .. Len(<<InitProc>>) /\ <<InitProc>>[1] = t
          BY <4>1
        <5> QED BY <1>4, <1>5, <4>1, <5>1
      <4>2. CASE t = Idle
        <5>1. 1 \in 1 .. Len(<<Idle>>) /\ <<Idle>>[1] = t
          BY <4>2
        <5> QED BY <1>4, <1>5, <4>2, <5>1
      <4>3. CASE t # InitProc /\ t # Idle
        BY <1>5, <3>2, <4>3
      <4> QED BY <4>1, <4>2, <4>3
    <3> QED BY <3>1, <3>2 DEF LinkedOnce
  <2>3. ASSUME NEW t \in Threads
        PROVE  /\ sched.kt_state[t] = "KT_RUN" <=> t = sched.curthr \/ sched.kt_wchan[t] = kt_runq
               /\ sched.kt_state[t] \in Asleep <=> sched.kt_wchan[t] \in WaitQueues
    <3>1. kt_runq \notin WaitQueues /\ NoQueue \notin WaitQueues /\ NoQueue # kt_runq
          /\ t # sched.curthr
      BY <1>1, <1>2
    <3> QED BY <1>1, <1>5, <3>1 DEF Asleep
  <2> QED BY <1>2, <2>1, <2>2, <2>3 DEF SchedInv, ThreadsPlacedIn
<1>9. TypeOK
  <2>1. p_state \in [Threads -> {"none", "PROC_RUNNING", "PROC_DEAD"}]
        /\ p_pproc \in [Threads -> Threads \union {NoThread}]
        /\ waiting \in [Threads -> Threads \union {NotWaiting, AnyChild}]
    BY <1>1, <1>3
  <2>2. p_pid \in [Threads -> 0 .. PROC_MAX_COUNT - 1] /\ next_pid \in 0 .. PROC_MAX_COUNT - 1
    BY <1>3, ThreePids DEF PID_INIT, PID_IDLE
  <2>3. p_children \in [Threads -> Seq(Threads)] /\ proc_list \in Seq(Threads)
    <3>1. <<InitProc>> \in Seq(Threads) /\ <<>> \in Seq(Threads) /\ <<Idle, InitProc>> \in Seq(Threads)
      BY <1>1
    <3> QED BY <1>3, <3>1
  <2> QED BY <1>8, <2>1, <2>2, <2>3 DEF TypeOK, SchedInv
<1>10. ThreadsPlaced
  BY <1>1, <1>3, <1>5, <1>8 DEF ThreadsPlaced, SchedInv, Live, Asleep
<1>11. FamilyTree
  <2>1. \A p \in Threads : \A i, j \in 1 .. Len(p_children[p]) :
            p_children[p][i] = p_children[p][j] => i = j
    BY <1>7
  <2>2. \A p, c \in Threads : c \in Range(p_children[p]) <=>
                              p_state[c] # "none" /\ c # Idle /\ p_pproc[c] = p
    BY <1>1, <1>3, <1>7
  <2>3. \A c \in Threads : p_state[c] # "none" /\ c # Idle =>
            p_pproc[c] \in Threads /\ Live(p_pproc[c])
    BY <1>1, <1>3 DEF Live
  <2> QED BY <2>1, <2>2, <2>3 DEF FamilyTree
<1>12. LivePidsDiffer /\ ListedOnce
  <2>1. Range(proc_list) = {Idle, InitProc}
    BY <1>3 DEF Range
  <2>2. ListedOnce
    BY <1>1, <1>3 DEF ListedOnce
  <2>3. \A p \in Threads : p_state[p] = "PROC_RUNNING" <=> p \in {Idle, InitProc}
    BY <1>1, <1>3
  <2>4. Range(proc_list) = {p \in Threads : p_state[p] = "PROC_RUNNING"}
    BY <1>1, <2>1, <2>3
  <2>5. p_pid[InitProc] = 1 /\ p_pid[Idle] = 0
    BY <1>1, <1>3 DEF PID_INIT, PID_IDLE
  <2>6. \A p, q \in Threads : p_state[p] = "PROC_RUNNING" /\ p_state[q] = "PROC_RUNNING"
                             /\ p # q => p_pid[p] # p_pid[q]
    BY <2>3, <2>5
  <2> QED BY <2>2, <2>4, <2>6 DEF LivePidsDiffer, Live
<1>13. SleepersHaveReason
  <2> SUFFICES ASSUME NEW p \in Threads \ {InitProc}, OnQueue(sched, p, p)
               PROVE  waiting[p] # NotWaiting /\ ~CanReap(p, waiting[p])
    BY DEF SleepersHaveReason
  <2>1. p = Idle
    <3>1. sched.kt_wchan[p] = p
      BY <1>8, SleepsOn
    <3> QED BY <1>1, <1>5, <3>1
  <2>2. Zombies(p) = {}
    BY <1>6, <1>7, <1>1, <2>1 DEF Zombies
  <2> QED BY <1>1, <1>3, <2>1, <2>2 DEF CanReap
<1>14. WaitersKnown
  BY <1>1, <1>3, <1>5 DEF WaitersKnown, Live
<1>15. DescendFromInit /\ InitExitsLast
  BY <1>1, <1>3 DEF DescendFromInit, InitExitsLast, Closed, Live
<1> QED BY <1>9, <1>10, <1>11, <1>12, <1>13, <1>14, <1>15 DEF ProcIInv

(* The process table stays consistent whatever the processes do: every     *)
(* part of the invariant holds in every state.                             *)
THEOREM ProcInvariant == Spec => []ProcIInv
<1>1. Init => ProcIInv
  BY ProcInit
<1>2. ProcIInv /\ [Next]_vars => ProcIInv'
  BY ProcStep
<1> QED BY <1>1, <1>2, PTL DEF Spec

(* Creating, exiting, reparenting and waiting never lose a thread, and     *)
(* every exited process is a thread that has left the scheduler.           *)
THEOREM ThreadsKept == Spec => []ThreadsPlaced
<1>1. ProcIInv => ThreadsPlaced
  BY DEF ProcIInv
<1> QED BY <1>1, ProcInvariant, PTL

(* p_pproc and p_children describe one tree, in which every process but    *)
(* idle hangs once, below a process that has not exited: proc_cleanup      *)
(* leaves no child without a parent that can wait for it.                  *)
THEOREM OneFamily == Spec => []FamilyTree
<1>1. ProcIInv => FamilyTree
  BY DEF ProcIInv
<1> QED BY <1>1, ProcInvariant, PTL

(* _proc_getid never hands out the pid of a process that has not exited,   *)
(* and _proc_list holds exactly these processes.                           *)
THEOREM PidsUnique == Spec => []LivePidsDiffer
<1>1. ProcIInv => LivePidsDiffer
  BY DEF ProcIInv
<1> QED BY <1>1, ProcInvariant, PTL

(* No wakeup of do_waitpid is lost: while a process other than init sleeps *)
(* on its p_wait, nothing it waits for has exited.                         *)
THEOREM NoLostExit == Spec => []SleepersHaveReason
<1>1. ProcIInv => SleepersHaveReason
  BY DEF ProcIInv
<1> QED BY <1>1, ProcInvariant, PTL

(* Every variable keeps its type; the pids stay below PROC_MAX_COUNT.      *)
THEOREM ProcTypes == Spec => []TypeOK
<1>1. ProcIInv => TypeOK
  BY DEF ProcIInv
<1> QED BY <1>1, ProcInvariant, PTL
=============================================================================
