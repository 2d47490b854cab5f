-------------------------- MODULE VNodeCacheProofs --------------------------
(***************************************************************************)
(* The safety properties of the vnode cache, proved for any number of      *)
(* threads, vnodes, page frames, inodes and references.                    *)
(***************************************************************************)
EXTENDS VNodeCache, KSchedProofs, FiniteSetTheorems

HeldType  == [Threads -> [Vnodes -> 0 .. MaxHeld]]
PfFlags   == {"clean", "dirty", "busy"}
FrameType == [Frames -> [pf_obj : Vnodes \union {NULL}, pf_flags : PfFlags]]

(* The references of all threads to v, and those of one thread.            *)
Refs(h, v) == {r \in Threads \X (1 .. MaxHeld) : r[2] <= h[r[1]][v]}
Slots(hu)  == {r \in Vnodes \X (1 .. MaxHeld) : r[2] <= hu[r[1]]}
Pages(fr, v) == {f \in Frames : fr[f].pf_obj = v}

(* The changes to them that the actions make.                              *)
OneMore(h, t, v) == [h EXCEPT ![t][v] = @ + 1]
OneLess(h, t, v) == [h EXCEPT ![t][v] = @ - 1]
PageIn(fr, f, v, flags) == [fr EXCEPT ![f] = [pf_obj |-> v, pf_flags |-> flags]]
PageOut(fr, f) == [fr EXCEPT ![f] = FreeFrame]
Flagged(fr, f, flags) == [fr EXCEPT ![f].pf_flags = flags]

(* The sets that are counted are finite.                                   *)
LEMMA CountedSets ==
    ASSUME NEW h, NEW v, NEW fr, NEW hu
    PROVE  /\ IsFiniteSet(Refs(h, v)) /\ Cardinality(Refs(h, v)) \in Nat
           /\ IsFiniteSet(Slots(hu)) /\ Cardinality(Slots(hu)) \in Nat
           /\ IsFiniteSet(Pages(fr, v)) /\ Cardinality(Pages(fr, v)) \in Nat
<1>1. IsFiniteSet(1 .. MaxHeld)
  BY VNodeCacheAssumption, FS_Interval
<1>2. IsFiniteSet(Threads \X (1 .. MaxHeld)) /\ IsFiniteSet(Vnodes \X (1 .. MaxHeld))
  BY <1>1, VNodeCacheAssumption, FS_Product
<1>3. /\ Refs(h, v) \in SUBSET (Threads \X (1 .. MaxHeld))
      /\ Slots(hu) \in SUBSET (Vnodes \X (1 .. MaxHeld))
      /\ Pages(fr, v) \in SUBSET Frames
  BY DEF Refs, Slots, Pages
<1>4. IsFiniteSet(Refs(h, v)) /\ IsFiniteSet(Slots(hu)) /\ IsFiniteSet(Pages(fr, v))
  BY <1>2, <1>3, VNodeCacheAssumption, FS_Subset
<1> QED BY <1>4, FS_CardinalityType

(* One more reference of t to v is one more reference to v.                *)
LEMMA RefsUp ==
    ASSUME NEW h \in HeldType, NEW t \in Threads, NEW v \in Vnodes, h[t][v] < MaxHeld,
           NEW h2, h2 = OneMore(h, t, v)
    PROVE  /\ h2 \in HeldType
           /\ h2[t][v] = h[t][v] + 1
           /\ Cardinality(Refs(h2, v)) = Cardinality(Refs(h, v)) + 1
           /\ \A w \in Vnodes \ {v} : Refs(h2, w) = Refs(h, w) /\ h2[t][w] = h[t][w]
           /\ \A u \in Threads \ {t} : h2[u] = h[u]
<1>1. MaxHeld \in Nat /\ h[t][v] \in 0 .. MaxHeld
  BY VNodeCacheAssumption DEF HeldType
<1>2. /\ h2 \in HeldType /\ h2[t][v] = h[t][v] + 1
      /\ \A w \in Vnodes \ {v} : h2[t][w] = h[t][w]
      /\ \A u \in Threads \ {t} : h2[u] = h[u]
  BY <1>1 DEF HeldType, OneMore, OneLess
<1>3. ASSUME NEW w \in Vnodes \ {v} PROVE Refs(h2, w) = Refs(h, w)
  <2>1. \A u \in Threads : h2[u][w] = h[u][w]
    BY <1>2
  <2> QED BY <2>1 DEF Refs
<1>4. Refs(h2, v) = Refs(h, v) \union {<<t, h[t][v] + 1>>}
  <2>1. \A u \in Threads : h[u][v] \in 0 .. MaxHeld
    BY DEF HeldType
  <2> QED BY <1>1, <1>2, <2>1 DEF Refs
<1>5. <<t, h[t][v] + 1>> \notin Refs(h, v)
  BY <1>1 DEF Refs
<1>6. Cardinality(Refs(h2, v)) = Cardinality(Refs(h, v)) + 1
  <2>1. IsFiniteSet(Refs(h, v))
    BY CountedSets
  <2> DEFINE R == Refs(h, v)
             x == <<t, h[t][v] + 1>>
  <2> HIDE DEF R, x
  <2>2. Cardinality(R \union {x}) = IF x \in R THEN Cardinality(R) ELSE Cardinality(R) + 1
    BY <2>1, FS_AddElement DEF R
  <2> QED BY <1>4, <1>5, <2>2 DEF R, x
<1> QED BY <1>2, <1>3, <1>6

(* One reference less.                                                     *)
LEMMA RefsDown ==
    ASSUME NEW h \in HeldType, NEW t \in Threads, NEW v \in Vnodes, h[t][v] > 0,
           NEW h2, h2 = OneLess(h, t, v)
    PROVE  /\ h2 \in HeldType
           /\ Cardinality(Refs(h, v)) = Cardinality(Refs(h2, v)) + 1
           /\ \A w \in Vnodes \ {v} : Refs(h2, w) = Refs(h, w)
           /\ \A u \in Threads \ {t} : h2[u] = h[u]
<1>1. MaxHeld \in Nat /\ h[t][v] \in 0 .. MaxHeld
  BY VNodeCacheAssumption DEF HeldType
<1>2. /\ h2 \in HeldType /\ h2[t][v] = h[t][v] - 1
      /\ \A w \in Vnodes \ {v} : h2[t][w] = h[t][w]
      /\ \A u \in Threads \ {t} : h2[u] = h[u]
  BY <1>1 DEF HeldType, OneMore, OneLess
<1>3. ASSUME NEW w \in Vnodes \ {v} PROVE Refs(h2, w) = Refs(h, w)
  <2>1. \A u \in Threads : h2[u][w] = h[u][w]
    BY <1>2
  <2> QED BY <2>1 DEF Refs
<1>4. Refs(h2, v) = Refs(h, v) \ {<<t, h[t][v]>>}
  <2>1. \A u \in Threads : h[u][v] \in 0 .. MaxHeld
    BY DEF HeldType
  <2> QED BY <1>1, <1>2, <2>1 DEF Refs
<1>5. <<t, h[t][v]>> \in Refs(h, v)
  BY <1>1 DEF Refs
<1>6. Cardinality(Refs(h2, v)) = Cardinality(Refs(h, v)) - 1
  <2>1. IsFiniteSet(Refs(h, v))
    BY CountedSets
  <2> DEFINE R == Refs(h, v)
             x == <<t, h[t][v]>>
  <2> HIDE DEF R, x
  <2>2. Cardinality(R \ {x}) = IF x \in R THEN Cardinality(R) - 1 ELSE Cardinality(R)
    BY <2>1, FS_RemoveElement DEF R
  <2> QED BY <1>4, <1>5, <2>2 DEF R, x
<1>7. Cardinality(Refs(h2, v)) \in Nat /\ Cardinality(Refs(h, v)) \in Nat
  BY CountedSets
<1> QED BY <1>2, <1>3, <1>6, <1>7

(* A vnode that a thread holds has a reference.                            *)
LEMMA RefsPositive ==
    ASSUME NEW h \in HeldType, NEW t \in Threads, NEW v \in Vnodes, h[t][v] > 0
    PROVE  Cardinality(Refs(h, v)) > 0
<1> DEFINE h2 == OneLess(h, t, v)
<1>1. Cardinality(Refs(h, v)) = Cardinality(Refs(h2, v)) + 1
  BY RefsDown
<1>2. Cardinality(Refs(h2, v)) \in Nat
  BY CountedSets
<1> QED BY <1>1, <1>2

(* A thread with room for a reference has room for one to each vnode.      *)
LEMMA RoomForOne ==
    ASSUME NEW hu \in [Vnodes -> 0 .. MaxHeld], Cardinality(Slots(hu)) < MaxHeld,
           NEW v \in Vnodes
    PROVE  hu[v] < MaxHeld
<1> SUFFICES ASSUME hu[v] >= MaxHeld PROVE FALSE
  BY VNodeCacheAssumption
<1>1. MaxHeld \in Nat /\ hu[v] = MaxHeld
  BY VNodeCacheAssumption
<1> DEFINE S == {v} \X (1 .. MaxHeld)
<1>2. S \in SUBSET Slots(hu)
  BY <1>1 DEF Slots
<1>3. /\ IsFiniteSet({v}) /\ Cardinality({v}) = 1
      /\ IsFiniteSet(1 .. MaxHeld) /\ Cardinality(1 .. MaxHeld) = MaxHeld
  <2>1. IsFiniteSet({v}) /\ Cardinality({v}) = 1
    BY FS_Singleton
  <2>2. /\ IsFiniteSet(1 .. MaxHeld)
        /\ Cardinality(1 .. MaxHeld) = IF 1 > MaxHeld THEN 0 ELSE MaxHeld - 1 + 1
    BY <1>1, FS_Interval
  <2> QED BY <1>1, <2>1, <2>2
<1>4. Cardinality(S) = 1 * MaxHeld
  <2> DEFINE V == {v}
             N == 1 .. MaxHeld
  <2>1. IsFiniteSet(V) /\ IsFiniteSet(N)
    BY <1>3
  <2> HIDE DEF V, N
  <2>2. Cardinality(V \X N) = Cardinality(V) * Cardinality(N)
    BY <2>1, FS_Product
  <2> QED BY <2>2, <1>3 DEF V, N
<1>5. Cardinality(S) <= Cardinality(Slots(hu))
  <2>1. IsFiniteSet(Slots(hu))
    BY CountedSets
  <2> HIDE DEF S
  <2> QED BY <1>2, <2>1, FS_Subset
<1>6. Cardinality(Slots(hu)) \in Nat
  BY CountedSets
<1> QED BY <1>1, <1>4, <1>5, <1>6

(* A free frame becomes a page of v.                                       *)
LEMMA PageComes ==
    ASSUME NEW fr \in FrameType, NEW f \in Frames, NEW v \in Vnodes, fr[f].pf_obj = NULL,
           NEW flags \in {"clean", "dirty", "busy"},
           NEW fr2, fr2 = PageIn(fr, f, v, flags)
    PROVE  /\ fr2 \in FrameType
           /\ Cardinality(Pages(fr2, v)) = Cardinality(Pages(fr, v)) + 1
           /\ \A w \in Vnodes \ {v} : Pages(fr2, w) = Pages(fr, w)
<1>1. /\ fr2 \in FrameType /\ fr2[f].pf_obj = v
      /\ \A g \in Frames \ {f} : fr2[g] = fr[g]
  BY DEF FrameType, PfFlags, PageIn, Flagged
<1>2. Pages(fr2, v) = Pages(fr, v) \union {f} /\ f \notin Pages(fr, v)
  BY <1>1, VNodeCacheAssumption DEF Pages
<1>3. \A w \in Vnodes \ {v} : Pages(fr2, w) = Pages(fr, w)
  BY <1>1, VNodeCacheAssumption DEF Pages
<1> QED BY <1>1, <1>2, <1>3, CountedSets, FS_AddElement

(* A page of v is freed.                                                   *)
LEMMA PageGoes ==
    ASSUME NEW fr \in FrameType, NEW f \in Frames, NEW v \in Vnodes, fr[f].pf_obj = v,
           NEW fr2, fr2 = PageOut(fr, f)
    PROVE  /\ fr2 \in FrameType
           /\ Cardinality(Pages(fr, v)) = Cardinality(Pages(fr2, v)) + 1
           /\ \A w \in Vnodes \ {v} : Pages(fr2, w) = Pages(fr, w)
<1>1. /\ fr2 \in FrameType /\ fr2[f].pf_obj = NULL
      /\ \A g \in Frames \ {f} : fr2[g] = fr[g]
  BY DEF FrameType, PfFlags, FreeFrame, PageOut
<1>2. Pages(fr, v) = Pages(fr2, v) \union {f} /\ f \notin Pages(fr2, v)
  BY <1>1, VNodeCacheAssumption DEF Pages
<1>3. \A w \in Vnodes \ {v} : Pages(fr2, w) = Pages(fr, w)
  BY <1>1, VNodeCacheAssumption DEF Pages
<1>4. Cardinality(Pages(fr2, v) \union {f}) = Cardinality(Pages(fr2, v)) + 1
  <2>1. IsFiniteSet(Pages(fr2, v))
    BY CountedSets
  <2> QED BY <1>2, <2>1, FS_AddElement
<1> QED BY <1>1, <1>2, <1>3, <1>4

(* The flags of a page change.                                             *)
LEMMA PageFlagged ==
    ASSUME NEW fr \in FrameType, NEW f \in Frames, NEW flags \in PfFlags,
           NEW fr2, fr2 = Flagged(fr, f, flags)
    PROVE  /\ fr2 \in FrameType
           /\ fr2[f].pf_obj = fr[f].pf_obj /\ fr2[f].pf_flags = flags
           /\ \A g \in Frames \ {f} : fr2[g] = fr[g]
           /\ \A w \in Vnodes : Pages(fr2, w) = Pages(fr, w)
<1>1. /\ fr2 \in FrameType
      /\ fr2[f].pf_obj = fr[f].pf_obj /\ fr2[f].pf_flags = flags
      /\ \A g \in Frames \ {f} : fr2[g] = fr[g]
  BY DEF FrameType, PfFlags, PageIn, Flagged
<1>2. \A w \in Vnodes : Pages(fr2, w) = Pages(fr, w)
  BY <1>1 DEF Pages
<1> QED BY <1>1, <1>2
-----------------------------------------------------------------------------
(* The scheduler, as far as sleepers on vnodes are concerned.              *)

(* Nobody goes to sleep on a vnode.                                        *)
NoNewSleeper(s, z) ==
    /\ SchedInv(z)
    /\ \A u \in Threads : z.kt_wchan[u] \in Vnodes => z.kt_wchan[u] = s.kt_wchan[u]

LEMMA NotVnodes ==
    /\ kt_runq \notin Vnodes /\ NoQueue \notin Vnodes
    /\ Vnodes \subseteq WaitQueues /\ Frames \subseteq WaitQueues \ Vnodes
    /\ Threads \subseteq WaitQueues \ Vnodes /\ pageoutd_waitq \in WaitQueues \ Vnodes
    /\ Vnodes \subseteq Queues
  BY VNodeCacheAssumption, KSchedAssumption DEF Queues

LEMMA QuietDispatch ==
    ASSUME NEW s, SchedInv(s), CanDispatch(s)
    PROVE  NoNewSleeper(s, Dispatch(s))
<1> DEFINE h == Head(s.queue[kt_runq])
           z == Dispatch(s)
<1>1. h \in Threads /\ z.kt_wchan = [s.kt_wchan EXCEPT ![h] = NoQueue] /\ SchedInv(z)
  BY DispatchKeeps
<1>2. s.kt_wchan \in Wchans
  BY DEF SchedInv, SchedState, Wchans
<1> HIDE DEF h, z
<1> QED BY <1>1, <1>2, NotVnodes DEF NoNewSleeper, Wchans, z

LEMMA QuietYield ==
    ASSUME NEW s, SchedInv(s), s.curthr # NoThread
    PROVE  NoNewSleeper(s, Yield(s))
<1> DEFINE z == Yield(s)
<1>1. s.curthr \in Threads /\ z.kt_wchan = [s.kt_wchan EXCEPT ![s.curthr] = kt_runq] /\ SchedInv(z)
  BY YieldKeeps
<1>2. s.kt_wchan \in Wchans
  BY DEF SchedInv, SchedState, Wchans
<1> HIDE DEF z
<1> QED BY <1>1, <1>2, NotVnodes DEF NoNewSleeper, Wchans, z

LEMMA SleepMoves ==
    ASSUME NEW s, SchedInv(s), s.curthr # NoThread, NEW q \in WaitQueues, NEW state \in Asleep
    PROVE  /\ s.curthr \in Threads
           /\ SleepAs(s, q, state).kt_wchan = [s.kt_wchan EXCEPT ![s.curthr] = q]
           /\ SchedInv(SleepAs(s, q, state))
<1>1. /\ s.curthr \in Threads
      /\ SleepAs(s, q, state).queue = [s.queue EXCEPT ![q] = Append(@, s.curthr)]
      /\ SleepAs(s, q, state).kt_wchan = [s.kt_wchan EXCEPT ![s.curthr] = q]
      /\ SleepAs(s, q, state).kt_state = [s.kt_state EXCEPT ![s.curthr] = state]
      /\ SleepAs(s, q, state).kt_cancelled = s.kt_cancelled
      /\ SleepAs(s, q, state).curthr = NoThread
      /\ SchedInv(SleepAs(s, q, state))
  BY SleepKeeps
<1> QED BY <1>1

LEMMA QuietSleep ==
    ASSUME NEW s, SchedInv(s), s.curthr # NoThread, NEW q \in WaitQueues, q \notin Vnodes,
           NEW state \in Asleep
    PROVE  NoNewSleeper(s, SleepAs(s, q, state))
<1> DEFINE z == SleepAs(s, q, state)
<1>1. s.curthr \in Threads /\ z.kt_wchan = [s.kt_wchan EXCEPT ![s.curthr] = q] /\ SchedInv(z)
  BY SleepMoves
<1>2. s.kt_wchan \in Wchans
  BY DEF SchedInv, SchedState, Wchans
<1> HIDE DEF z
<1> QED BY <1>1, <1>2, NotVnodes DEF NoNewSleeper, Wchans, z

LEMMA QuietWakeup ==
    ASSUME NEW s, SchedInv(s), NEW q \in WaitQueues, s.queue[q] # <<>>
    PROVE  NoNewSleeper(s, sched_wakeup_on(s, q))
<1> DEFINE z == sched_wakeup_on(s, q)
           h == Head(s.queue[q])
<1>1. h \in Threads /\ z.kt_wchan = [s.kt_wchan EXCEPT ![h] = kt_runq] /\ SchedInv(z)
  BY WakeupKeeps
<1>2. s.kt_wchan \in Wchans
  BY DEF SchedInv, SchedState, Wchans
<1> HIDE DEF h, z
<1> QED BY <1>1, <1>2, NotVnodes DEF NoNewSleeper, Wchans, z

(* A broadcast leaves nobody on its queue.                                 *)
LEMMA QuietBroadcast ==
    ASSUME NEW s, SchedInv(s), NEW q \in WaitQueues
    PROVE  /\ NoNewSleeper(s, sched_broadcast_on(s, q))
           /\ \A u \in Threads : sched_broadcast_on(s, q).kt_wchan[u] # q
<1> DEFINE z == sched_broadcast_on(s, q)
<1>1. /\ z.kt_wchan = [t \in Threads |-> IF s.kt_wchan[t] = q THEN kt_runq ELSE s.kt_wchan[t]]
      /\ SchedInv(z)
  BY BroadcastKeeps
<1>2. q # kt_runq
  BY KSchedAssumption
<1> HIDE DEF z
<1> QED BY <1>1, <1>2, NotVnodes DEF NoNewSleeper, z

-----------------------------------------------------------------------------
(* What every step starts from.                                            *)
VnodeType == [Vnodes -> [vn_vno : Inos \union {NULL}, busy : BOOLEAN, vn_refcount : Nat]]
PcType == [Threads -> [at  : {"user", "find", "read", "delete", "drain",
                              "fill", "dirty", "redirty", "clean"},
                       vn  : Vnodes \union {NULL}, pf : Frames \union {NULL},
                       ino : Inos \union {NULL}]]

LEMMA CacheFacts ==
    ASSUME CacheIInv
    PROVE  /\ SchedInv(sched)
           /\ vnode \in VnodeType /\ vnode_inuse_list \in SUBSET Vnodes
           /\ frame \in FrameType /\ linked \in SUBSET Inos
           /\ pc \in PcType /\ held \in HeldType
           /\ \A v \in Vnodes : vnode[v].vn_refcount =
                  Cardinality(Refs(held, v)) + Cardinality(Pages(frame, v))
           /\ \A t \in Threads : HeldBy(t) = Cardinality(Slots(held[t]))
           /\ OneVnodePerInode /\ ReferencedIffReady /\ KeptAcrossSleeps
           /\ \A t \in Threads, v \in Vnodes : sched.kt_wchan[t] = v =>
                  v \in vnode_inuse_list /\ pc[t].at = "find" /\ pc[t].ino = vnode[v].vn_vno
           /\ sched.curthr \in Threads => sched.kt_wchan[sched.curthr] = NoQueue
           /\ panic \notin {"vref", "vput"}
<1>1. SchedInv(sched)
  BY DEF CacheIInv, CacheTypeOK, SchedInv
<1>2. /\ vnode \in VnodeType /\ vnode_inuse_list \in SUBSET Vnodes
      /\ frame \in FrameType /\ linked \in SUBSET Inos
      /\ pc \in PcType /\ held \in HeldType
  BY DEF CacheIInv, CacheTypeOK, PageOps, VnodeType, FrameType, PfFlags, PcType, HeldType
<1>3. \A v \in Vnodes : vnode[v].vn_refcount =
          Cardinality(Refs(held, v)) + Cardinality(Pages(frame, v))
  BY DEF CacheIInv, RefcountExact, Refs, Pages, PagesOf
<1>4. \A t \in Threads : HeldBy(t) = Cardinality(Slots(held[t]))
  BY DEF HeldBy, Slots
<1>5. \A t \in Threads, v \in Vnodes : sched.kt_wchan[t] = v =>
          v \in vnode_inuse_list /\ pc[t].at = "find" /\ pc[t].ino = vnode[v].vn_vno
  BY <1>1, OnQueueIsWchan, NotVnodes DEF CacheIInv, SleepersOnLiveVnode
<1>6. sched.curthr \in Threads => sched.kt_wchan[sched.curthr] = NoQueue
  BY KSchedAssumption DEF CacheIInv, ThreadsPlacedIn
<1> QED BY <1>1, <1>2, <1>3, <1>4, <1>5, <1>6 DEF CacheIInv, AssertionsHold

(* The invariant after a step, from what the step lemmas establish.        *)
LEMMA CacheAfter ==
    ASSUME SchedInv(sched'),
           vnode' \in VnodeType, vnode_inuse_list' \in SUBSET Vnodes,
           frame' \in FrameType, linked' \in SUBSET Inos,
           pc' \in PcType, held' \in HeldType,
           \A v \in Vnodes : vnode'[v].vn_refcount =
               Cardinality(Refs(held', v)) + Cardinality(Pages(frame', v)),
           OneVnodePerInode', ReferencedIffReady', KeptAcrossSleeps',
           \A t \in Threads, v \in Vnodes : sched'.kt_wchan[t] = v =>
               v \in vnode_inuse_list' /\ pc'[t].at = "find" /\ pc'[t].ino = vnode'[v].vn_vno,
           panic' \notin {"vref", "vput"}
    PROVE  CacheIInv'
<1>1. CacheTypeOK' /\ ThreadsPlacedIn(sched)'
  BY DEF CacheTypeOK, PageOps, VnodeType, FrameType, PfFlags, PcType, HeldType, SchedInv
<1>2. RefcountExact'
  BY DEF RefcountExact, Refs, Pages, PagesOf
<1>3. SleepersOnLiveVnode'
  BY OnQueueIsWchan, NotVnodes DEF SleepersOnLiveVnode
<1> QED BY <1>1, <1>2, <1>3 DEF CacheIInv, AssertionsHold
(* A step that changes nothing but the scheduler and the names, and one    *)
(* that ends in another assertion.                                         *)
LEMMA QuietStep ==
    ASSUME CacheIInv, NoNewSleeper(sched, sched'), linked' \in SUBSET Inos,
           UNCHANGED <<vnode, vnode_inuse_list, frame, pc, held>>,
           panic' \notin {"vref", "vput"}
    PROVE  CacheIInv'
<1>1. OneVnodePerInode' /\ ReferencedIffReady'
  BY CacheFacts DEF OneVnodePerInode, ReferencedIffReady
<1>2. KeptAcrossSleeps'
  <2>1. \A u \in Threads : HeldBy(u)' = HeldBy(u)
    BY DEF HeldBy
  <2> QED BY <2>1, CacheFacts DEF KeptAcrossSleeps, OnVnode, OnPage, PageOps
<1>3. \A t \in Threads, v \in Vnodes : sched'.kt_wchan[t] = v =>
          v \in vnode_inuse_list' /\ pc'[t].at = "find" /\ pc'[t].ino = vnode'[v].vn_vno
  BY CacheFacts DEF NoNewSleeper
<1> QED BY <1>1, <1>2, <1>3, CacheFacts, CacheAfter DEF NoNewSleeper

(* The search of vget waits: on the queue of a vnode of its inode, or for  *)
(* its next turn.                                                          *)
SearchSleeps(ino) ==
    NoNewSleeper(sched, sched') \/ \E v \in Cached(ino) : sched' = sched_sleep_on(sched, v)

LEMMA SearchWaits ==
    ASSUME CacheIInv, NEW t \in Threads, sched.curthr = t, NEW ino \in Inos,
           HeldBy(t) < MaxHeld,
           pc' = [pc EXCEPT ![t] = At("find", NULL, NULL, ino)],
           SearchSleeps(ino),
           UNCHANGED <<vnode, vnode_inuse_list, frame, linked, held, panic>>
    PROVE  CacheIInv'
<1> DEFINE w == At("find", NULL, NULL, ino)
<1>0. /\ w.at = "find" /\ w.ino = ino
      /\ pc' \in PcType /\ pc'[t] = w /\ \A u \in Threads \ {t} : pc'[u] = pc[u]
  BY CacheFacts DEF At, PcType
<1>1. OneVnodePerInode' /\ ReferencedIffReady'
  BY CacheFacts DEF OneVnodePerInode, ReferencedIffReady
<1>2. KeptAcrossSleeps'
  <2> HIDE DEF w
  <2>1. \A u \in Threads : HeldBy(u)' = HeldBy(u)
    BY DEF HeldBy
  <2> QED BY <1>0, <2>1, CacheFacts DEF KeptAcrossSleeps, OnVnode, OnPage, PageOps
<1>3. /\ SchedInv(sched')
      /\ \A u \in Threads, v \in Vnodes : sched'.kt_wchan[u] = v =>
          v \in vnode_inuse_list' /\ pc'[u].at = "find" /\ pc'[u].ino = vnode'[v].vn_vno
  <2>1. CASE NoNewSleeper(sched, sched')
    <3> HIDE DEF w
    <3> QED BY <1>0, <2>1, CacheFacts, NotVnodes DEF NoNewSleeper
  <2>2. ASSUME NEW v \in Cached(ino), sched' = sched_sleep_on(sched, v)
        PROVE  <1>3!1 /\ <1>3!2
    <3>1. v \in Vnodes /\ v \in vnode_inuse_list /\ vnode[v].vn_vno = ino /\ v \in WaitQueues
      BY CacheFacts, NotVnodes DEF Cached
    <3>2. /\ sched.curthr # NoThread /\ SchedInv(sched) /\ "KT_SLEEP" \in Asleep
          /\ sched.kt_wchan \in Wchans
      BY CacheFacts, KSchedAssumption DEF Asleep, SchedInv, SchedState, Wchans
    <3>3. sched'.kt_wchan = [sched.kt_wchan EXCEPT ![t] = v] /\ SchedInv(sched')
      <4>1. sched' = SleepAs(sched, v, "KT_SLEEP")
        BY <2>2 DEF sched_sleep_on
      <4>2. v \in WaitQueues
        BY <3>1
      <4> QED BY <4>1, <4>2, <3>2, SleepMoves
    <3> HIDE DEF w
    <3> QED BY <1>0, <3>1, <3>2, <3>3, CacheFacts DEF Wchans
  <2> QED BY <2>1, <2>2 DEF SearchSleeps
<1> QED BY <1>0, <1>1, <1>2, <1>3, CacheFacts, CacheAfter

(* vput goes to wait for a busy page of the vnode it puts.                 *)
LEMMA DrainWaits ==
    ASSUME CacheIInv, NEW t \in Threads, sched.curthr = t, NEW v \in Vnodes, NEW vp \in Frames,
           held[t][v] > 0, WaitForPage(t, v, vp)
    PROVE  CacheIInv'
<1> DEFINE w == At("drain", v, vp, NULL)
<1>0. /\ w.at = "drain" /\ w.vn = v /\ w.pf = vp
      /\ pc' \in PcType /\ pc'[t] = w /\ \A u \in Threads \ {t} : pc'[u] = pc[u]
      /\ UNCHANGED <<vnode, vnode_inuse_list, frame, linked, held, panic>>
  BY CacheFacts DEF At, PcType, WaitForPage, Goto
<1>1. OneVnodePerInode' /\ ReferencedIffReady'
  BY <1>0, CacheFacts DEF OneVnodePerInode, ReferencedIffReady
<1>2. KeptAcrossSleeps'
  <2> HIDE DEF w
  <2>1. \A u \in Threads : HeldBy(u)' = HeldBy(u)
    BY <1>0 DEF HeldBy
  <2> QED BY <1>0, <2>1, CacheFacts DEF KeptAcrossSleeps, OnVnode, OnPage, PageOps
<1>3. NoNewSleeper(sched, sched')
  <2>1. sched.curthr # NoThread /\ SchedInv(sched) /\ "KT_SLEEP" \in Asleep
    BY CacheFacts, KSchedAssumption DEF Asleep
  <2>2. vp \in WaitQueues /\ vp \notin Vnodes
    BY NotVnodes
  <2> QED BY <2>1, <2>2, QuietSleep DEF WaitForPage, sched_sleep_on
<1>4. \A u \in Threads, x \in Vnodes : sched'.kt_wchan[u] = x =>
          x \in vnode_inuse_list' /\ pc'[u].at = "find" /\ pc'[u].ino = vnode'[x].vn_vno
  <2> HIDE DEF w
  <2> QED BY <1>0, <1>3, CacheFacts, NotVnodes DEF NoNewSleeper
<1> QED BY <1>0, <1>1, <1>2, <1>3, <1>4, CacheFacts, CacheAfter DEF NoNewSleeper
(* What the current thread leaves alone is kept.                           *)
LEMMA KeptAfter ==
    ASSUME CacheIInv, NEW t \in Threads,
           \A u \in Threads \ {t} :
               /\ pc'[u] = pc[u] /\ held'[u] = held[u]
               /\ OnVnode(u) => pc[u].vn \in vnode_inuse_list' /\ vnode'[pc[u].vn].busy
               /\ OnPage(u) => frame'[pc[u].pf].pf_obj # NULL /\ frame'[pc[u].pf].pf_flags = "busy",
           pc'[t].at \in {"find", "read"} =>
               Cardinality(Slots(held'[t])) < MaxHeld /\ pc'[t].ino \in Inos,
           pc'[t].at # "drain",
           pc'[t].at \in {"read", "delete"} =>
               /\ pc'[t].vn \in vnode_inuse_list' /\ vnode'[pc'[t].vn].busy
               /\ \A u \in Threads \ {t} : OnVnode(u) => pc[u].vn # pc'[t].vn,
           pc'[t].at \in {"fill", "dirty", "redirty", "clean"} =>
               /\ pc'[t].pf \in Frames /\ frame'[pc'[t].pf].pf_obj # NULL
               /\ frame'[pc'[t].pf].pf_flags = "busy"
               /\ \A u \in Threads \ {t} : OnPage(u) => pc[u].pf # pc'[t].pf
    PROVE  KeptAcrossSleeps'
<1>1. \A u \in Threads : HeldBy(u)' = Cardinality(Slots(held'[u]))
  BY DEF HeldBy, Slots
<1>2. \A u \in Threads \ {t} : HeldBy(u)' = HeldBy(u)
  BY <1>1, CacheFacts
<1> QED BY <1>1, <1>2, CacheFacts DEF KeptAcrossSleeps, OnVnode, OnPage, PageOps

(* Sleepers on the vnodes that stay as they are.                           *)
LEMMA SleepersAfter ==
    ASSUME CacheIInv, NoNewSleeper(sched, sched'),
           \A u \in Threads : pc'[u] = pc[u] \/ u = sched.curthr,
           \A u \in Threads, v \in vnode_inuse_list : sched'.kt_wchan[u] = v =>
               v \in vnode_inuse_list' /\ vnode'[v].vn_vno = vnode[v].vn_vno
    PROVE  /\ SchedInv(sched')
           /\ \A u \in Threads, v \in Vnodes : sched'.kt_wchan[u] = v =>
               v \in vnode_inuse_list' /\ pc'[u].at = "find" /\ pc'[u].ino = vnode'[v].vn_vno
  BY CacheFacts, NotVnodes DEF NoNewSleeper

(* Nothing happens to the scheduler.                                       *)
LEMMA SchedStays ==
    ASSUME CacheIInv, sched' = sched
    PROVE  NoNewSleeper(sched, sched')
  BY CacheFacts DEF NoNewSleeper

(* vref, of a vnode found in the cache or of one already held.             *)
LEMMA VrefStep ==
    ASSUME CacheIInv, NEW t \in Threads, sched.curthr = t, NEW v \in vnode_inuse_list,
           ~vnode[v].busy, HeldBy(t) < MaxHeld, vref(t, v),
           pc' = [pc EXCEPT ![t] = User] \/ (pc' = pc /\ pc[t].at = "user"),
           UNCHANGED <<sched, vnode_inuse_list, frame, linked, panic>>
    PROVE  CacheIInv'
<1>0. /\ v \in Vnodes /\ held[t] \in [Vnodes -> 0 .. MaxHeld]
      /\ Cardinality(Slots(held[t])) < MaxHeld
  BY CacheFacts DEF HeldType
<1>1. held[t][v] < MaxHeld
  BY <1>0, RoomForOne
<1>2. held' = OneMore(held, t, v)
  BY DEF vref, OneMore
<1>3. /\ held' \in HeldType
      /\ Cardinality(Refs(held', v)) = Cardinality(Refs(held, v)) + 1
      /\ \A w \in Vnodes \ {v} : Refs(held', w) = Refs(held, w)
      /\ \A u \in Threads \ {t} : held'[u] = held[u]
  BY <1>0, <1>1, <1>2, RefsUp, CacheFacts
<1>4. /\ vnode' \in VnodeType
      /\ vnode'[v].vn_refcount = vnode[v].vn_refcount + 1
      /\ \A w \in Vnodes : vnode'[w].vn_vno = vnode[w].vn_vno /\ vnode'[w].busy = vnode[w].busy
      /\ \A w \in Vnodes \ {v} : vnode'[w].vn_refcount = vnode[w].vn_refcount
  BY <1>0, CacheFacts DEF vref, VnodeType
<1>5. /\ pc' \in PcType /\ pc'[t].at = "user"
      /\ \A u \in Threads \ {t} : pc'[u] = pc[u]
  BY CacheFacts DEF PcType, User, At
<1>6. \A w \in Vnodes : vnode'[w].vn_refcount =
          Cardinality(Refs(held', w)) + Cardinality(Pages(frame', w))
  <2>1. \A w \in Vnodes : Cardinality(Refs(held, w)) \in Nat /\ Cardinality(Pages(frame, w)) \in Nat
    BY CountedSets
  <2> QED BY <1>0, <1>3, <1>4, <2>1, CacheFacts
<1>7. OneVnodePerInode'
  BY <1>4, CacheFacts DEF OneVnodePerInode
<1>8. ReferencedIffReady'
  BY <1>0, <1>4, CacheFacts DEF ReferencedIffReady, VnodeType
<1>9. KeptAcrossSleeps'
  <2>1. \A u \in Threads \ {t} :
            /\ OnVnode(u) => pc[u].vn \in vnode_inuse_list /\ pc[u].vn \in Vnodes
                             /\ vnode[pc[u].vn].busy
            /\ OnPage(u) => frame[pc[u].pf].pf_obj # NULL /\ frame[pc[u].pf].pf_flags = "busy"
    BY CacheFacts DEF KeptAcrossSleeps
  <2> QED BY <1>3, <1>4, <1>5, <2>1, KeptAfter
<1>10. NoNewSleeper(sched, sched')
  BY SchedStays
<1>11. /\ SchedInv(sched')
       /\ \A u \in Threads, w \in Vnodes : sched'.kt_wchan[u] = w =>
           w \in vnode_inuse_list' /\ pc'[u].at = "find" /\ pc'[u].ino = vnode'[w].vn_vno
  BY <1>4, <1>5, <1>10, CacheFacts, SleepersAfter
<1> QED BY <1>3, <1>4, <1>5, <1>6, <1>7, <1>8, <1>9, <1>11, CacheFacts, CacheAfter
(* What the other threads rely on, as each step meets it.                  *)
LEMMA OthersKeep ==
    ASSUME CacheIInv, NEW t \in Threads
    PROVE  /\ OnVnode(t) => pc[t].vn \in vnode_inuse_list /\ pc[t].vn \in Vnodes
                            /\ vnode[pc[t].vn].busy /\ vnode[pc[t].vn].vn_refcount = 0
           /\ OnPage(t) => pc[t].pf \in Frames /\ frame[pc[t].pf].pf_obj \in Vnodes
                           /\ frame[pc[t].pf].pf_flags = "busy"
           /\ \A u \in Threads \ {t} :
                 /\ OnVnode(t) /\ OnVnode(u) => pc[t].vn # pc[u].vn
                 /\ OnPage(t) /\ OnPage(u) => pc[t].pf # pc[u].pf
<1>1. /\ KeptAcrossSleeps /\ ReferencedIffReady /\ vnode \in VnodeType
      /\ vnode_inuse_list \in SUBSET Vnodes /\ frame \in FrameType
  BY CacheFacts
<1>2. \A v \in Vnodes : vnode[v].vn_refcount \in Nat /\ vnode[v].busy \in BOOLEAN
  BY <1>1 DEF VnodeType
<1>3. \A f \in Frames : frame[f].pf_obj \in Vnodes \union {NULL}
  BY <1>1 DEF FrameType
<1> QED BY <1>1, <1>2, <1>3 DEF KeptAcrossSleeps, ReferencedIffReady

(* A vnode that somebody holds, or that has a page, is in use and ready.   *)
LEMMA InUse ==
    ASSUME CacheIInv, NEW v \in Vnodes
    PROVE  /\ (\E t \in Threads : held[t][v] > 0) \/ (\E f \in Frames : frame[f].pf_obj = v) =>
                 /\ vnode[v].vn_refcount > 0
                 /\ v \in vnode_inuse_list /\ ~vnode[v].busy /\ vnode[v].vn_vno # NULL
           /\ (\E t \in Threads : held[t][v] > 0) =>
                 Cardinality(Pages(frame, v)) < vnode[v].vn_refcount
<1>1. /\ held \in HeldType /\ frame \in FrameType /\ ReferencedIffReady
      /\ vnode[v].vn_refcount = Cardinality(Refs(held, v)) + Cardinality(Pages(frame, v))
      /\ Cardinality(Refs(held, v)) \in Nat /\ Cardinality(Pages(frame, v)) \in Nat
  BY CacheFacts, CountedSets
<1>2. ASSUME NEW t \in Threads, held[t][v] > 0
      PROVE  Cardinality(Refs(held, v)) > 0
  BY <1>1, <1>2, RefsPositive
<1>3. ASSUME NEW f \in Frames, frame[f].pf_obj = v
      PROVE  Cardinality(Pages(frame, v)) > 0
  <2>1. Cardinality(Pages(frame, v)) = Cardinality(Pages(PageOut(frame, f), v)) + 1
    BY <1>1, <1>3, PageGoes
  <2>2. Cardinality(Pages(PageOut(frame, f), v)) \in Nat
    BY CountedSets
  <2> QED BY <2>1, <2>2
<1>4. (\E t \in Threads : held[t][v] > 0) \/ (\E f \in Frames : frame[f].pf_obj = v) =>
          vnode[v].vn_refcount > 0
  BY <1>1, <1>2, <1>3
<1>5. (\E t \in Threads : held[t][v] > 0) => Cardinality(Pages(frame, v)) < vnode[v].vn_refcount
  BY <1>1, <1>2
<1> QED BY <1>1, <1>4, <1>5 DEF ReferencedIffReady

(* vget makes a vnode for an inode that has none.                          *)
LEMMA AllocStep ==
    ASSUME CacheIInv, NEW t \in Threads, sched.curthr = t, NEW ino \in Inos,
           Cached(ino) = {}, HeldBy(t) < MaxHeld, NEW v \in FreeVnodes, Alloc(t, ino, v)
    PROVE  CacheIInv'
<1>0. /\ v \in Vnodes /\ vnode[v].vn_vno = NULL /\ v \notin vnode_inuse_list
      /\ vnode[v].vn_refcount = 0 /\ ino # NULL
      /\ UNCHANGED <<sched, frame, linked, held, panic>>
      /\ vnode_inuse_list' = vnode_inuse_list \union {v}
  BY CacheFacts, VNodeCacheAssumption DEF FreeVnodes, ReferencedIffReady, VnodeType, Alloc
<1>1. /\ vnode' \in VnodeType
      /\ vnode'[v].vn_vno = ino /\ vnode'[v].busy /\ vnode'[v].vn_refcount = 0
      /\ \A w \in Vnodes \ {v} : vnode'[w] = vnode[w]
  BY <1>0, CacheFacts DEF Alloc, VnodeType, FreeVnode
<1>2. /\ pc' \in PcType /\ pc'[t].at = "read" /\ pc'[t].vn = v /\ pc'[t].ino = ino
      /\ \A u \in Threads \ {t} : pc'[u] = pc[u]
  BY <1>0, CacheFacts DEF Alloc, Goto, At, PcType
<1>3. \A w \in Vnodes : vnode'[w].vn_refcount =
          Cardinality(Refs(held', w)) + Cardinality(Pages(frame', w))
  BY <1>0, <1>1, CacheFacts
<1>4. OneVnodePerInode'
  <2>1. \A w \in Vnodes : vnode[w].vn_vno # ino
    BY <1>0, CacheFacts DEF Cached, ReferencedIffReady
  <2> QED BY <1>0, <1>1, <2>1, CacheFacts DEF OneVnodePerInode
<1>5. ReferencedIffReady'
  BY <1>0, <1>1, CacheFacts DEF ReferencedIffReady
<1>6. KeptAcrossSleeps'
  <2>1. Cardinality(Slots(held'[t])) < MaxHeld
    BY <1>0, CacheFacts
  <2>2. \A u \in Threads \ {t} : OnVnode(u) => pc[u].vn # v /\ vnode'[pc[u].vn].busy
    BY <1>0, <1>1, OthersKeep
  <2>3. \A u \in Threads \ {t} : OnPage(u) =>
            frame'[pc[u].pf].pf_obj # NULL /\ frame'[pc[u].pf].pf_flags = "busy"
    BY <1>0, OthersKeep, VNodeCacheAssumption
  <2> QED BY <1>0, <1>1, <1>2, <2>1, <2>2, <2>3, OthersKeep, KeptAfter
<1>7. NoNewSleeper(sched, sched')
  BY <1>0, SchedStays
<1>8. /\ SchedInv(sched')
      /\ \A u \in Threads, w \in Vnodes : sched'.kt_wchan[u] = w =>
          w \in vnode_inuse_list' /\ pc'[u].at = "find" /\ pc'[u].ino = vnode'[w].vn_vno
  BY <1>0, <1>1, <1>2, <1>7, CacheFacts, SleepersAfter
<1> QED BY <1>0, <1>1, <1>2, <1>3, <1>4, <1>5, <1>6, <1>8, CacheFacts, CacheAfter

(* read_vnode returns: the vnode is ready and has its first reference.     *)
LEMMA ReadStep ==
    ASSUME CacheIInv, NEW t \in Threads, read_vnode_returns(t), pc[t].ino \in linked
    PROVE  CacheIInv'
<1> DEFINE v == pc[t].vn
<1>a. /\ sched.curthr = t /\ pc[t].at = "read"
      /\ UNCHANGED <<sched, vnode_inuse_list, frame, linked, panic>>
  BY DEF read_vnode_returns, Runs
<1>0. /\ v \in vnode_inuse_list /\ v \in Vnodes /\ vnode[v].busy /\ vnode[v].vn_refcount = 0
      /\ Cardinality(Slots(held[t])) < MaxHeld /\ held[t] \in [Vnodes -> 0 .. MaxHeld]
  BY <1>a, CacheFacts, OthersKeep DEF KeptAcrossSleeps, OnVnode, HeldType
<1>1. held[t][v] < MaxHeld
  BY <1>0, RoomForOne
<1>2. held' = OneMore(held, t, v)
  BY DEF OneMore, read_vnode_returns
<1>3. \A u \in Threads \ {t} : OnVnode(u) => pc[u].vn # v
  BY <1>a, OthersKeep DEF OnVnode
<1>4. /\ vnode' \in VnodeType
      /\ vnode'[v].vn_refcount = 1 /\ ~vnode'[v].busy /\ vnode'[v].vn_vno = vnode[v].vn_vno
      /\ \A w \in Vnodes \ {v} : vnode'[w] = vnode[w]
  BY <1>0, CacheFacts DEF VnodeType, read_vnode_returns
<1>5. /\ pc' \in PcType /\ pc'[t].at = "user"
      /\ \A u \in Threads \ {t} : pc'[u] = pc[u]
  BY CacheFacts DEF PcType, User, At, Goto, read_vnode_returns
<1> HIDE DEF v
<1>6. /\ held' \in HeldType
      /\ Cardinality(Refs(held', v)) = Cardinality(Refs(held, v)) + 1
      /\ \A w \in Vnodes \ {v} : Refs(held', w) = Refs(held, w)
      /\ \A u \in Threads \ {t} : held'[u] = held[u]
  BY <1>0, <1>1, <1>2, RefsUp, CacheFacts
<1>7. \A w \in Vnodes : vnode'[w].vn_refcount =
          Cardinality(Refs(held', w)) + Cardinality(Pages(frame', w))
  <2>1. \A w \in Vnodes : Cardinality(Refs(held, w)) \in Nat /\ Cardinality(Pages(frame, w)) \in Nat
    BY CountedSets
  <2> QED BY <1>a, <1>0, <1>4, <1>6, <2>1, CacheFacts
<1>8. OneVnodePerInode' /\ ReferencedIffReady'
  BY <1>a, <1>0, <1>4, CacheFacts DEF OneVnodePerInode, ReferencedIffReady
<1>9. KeptAcrossSleeps'
  <2>1. \A u \in Threads \ {t} : OnVnode(u) => pc[u].vn \in vnode_inuse_list'
                                               /\ vnode'[pc[u].vn].busy
    BY <1>a, <1>3, <1>4, OthersKeep
  <2>2. \A u \in Threads \ {t} : OnPage(u) =>
            frame'[pc[u].pf].pf_obj # NULL /\ frame'[pc[u].pf].pf_flags = "busy"
    BY <1>a, OthersKeep, VNodeCacheAssumption
  <2> QED BY <1>5, <1>6, <2>1, <2>2, KeptAfter
<1>10. NoNewSleeper(sched, sched')
  BY <1>a, SchedStays
<1>11. /\ SchedInv(sched')
       /\ \A u \in Threads, w \in Vnodes : sched'.kt_wchan[u] = w =>
           w \in vnode_inuse_list' /\ pc'[u].at = "find" /\ pc'[u].ino = vnode'[w].vn_vno
  BY <1>a, <1>4, <1>5, <1>10, CacheFacts, SleepersAfter
<1> QED BY <1>a, <1>4, <1>5, <1>6, <1>7, <1>8, <1>9, <1>11, CacheFacts, CacheAfter
(* A reference to v goes, and v with it when it was the last one.          *)
LEMMA ReleaseStep ==
    ASSUME CacheIInv, NEW t \in Threads, sched.curthr = t,
           NEW v \in vnode_inuse_list, ~vnode[v].busy, NEW n \in Nat, n > 0, Release(t, v, n),
           frame' \in FrameType, held' \in HeldType,
           n - 1 = Cardinality(Refs(held', v)) + Cardinality(Pages(frame', v)),
           \A w \in Vnodes \ {v} : Refs(held', w) = Refs(held, w) /\ Pages(frame', w) = Pages(frame, w),
           \A u \in Threads \ {t} :
               held'[u] = held[u] /\ (OnPage(u) => frame'[pc[u].pf] = frame[pc[u].pf]),
           UNCHANGED <<sched, vnode_inuse_list, linked, panic>>
    PROVE  CacheIInv'
<1>0. v \in Vnodes
  BY CacheFacts
<1>1. /\ vnode' \in VnodeType
      /\ vnode'[v].vn_refcount = n - 1 /\ (vnode'[v].busy <=> n = 1)
      /\ vnode'[v].vn_vno = vnode[v].vn_vno
      /\ \A w \in Vnodes \ {v} : vnode'[w] = vnode[w]
  <2> DEFINE b == n = 1
             c == n - 1
  <2>1. b \in BOOLEAN /\ c \in Nat
    OBVIOUS
  <2>2. vnode' = [vnode EXCEPT ![v].vn_refcount = c, ![v].busy = b]
    BY DEF Release
  <2> HIDE DEF b, c
  <2>3. /\ vnode' \in VnodeType
        /\ vnode'[v].vn_refcount = c /\ vnode'[v].busy = b
        /\ vnode'[v].vn_vno = vnode[v].vn_vno
        /\ \A w \in Vnodes \ {v} : vnode'[w] = vnode[w]
    BY <1>0, <2>1, <2>2, CacheFacts DEF VnodeType
  <2> QED BY <2>3 DEF b, c
<1>2. /\ pc' \in PcType /\ \A u \in Threads \ {t} : pc'[u] = pc[u]
      /\ n = 1 => pc'[t].at = "delete" /\ pc'[t].vn = v
      /\ n # 1 => pc'[t].at = "user"
  BY <1>0, CacheFacts DEF Release, Goto, At, User, PcType
<1>3. \A w \in Vnodes : vnode'[w].vn_refcount =
          Cardinality(Refs(held', w)) + Cardinality(Pages(frame', w))
  BY <1>0, <1>1, CacheFacts
<1>4. OneVnodePerInode'
  BY <1>0, <1>1, CacheFacts DEF OneVnodePerInode
<1>5. ReferencedIffReady'
  <2>1. vnode[v].vn_vno # NULL /\ (n - 1 > 0 <=> n # 1)
    BY <1>0, CacheFacts DEF ReferencedIffReady
  <2> QED BY <1>0, <1>1, <2>1, CacheFacts DEF ReferencedIffReady
<1>6. KeptAcrossSleeps'
  <2>1. \A u \in Threads \ {t} : OnVnode(u) =>
            pc[u].vn # v /\ pc[u].vn \in vnode_inuse_list' /\ vnode'[pc[u].vn].busy
    BY <1>1, OthersKeep
  <2>2. \A u \in Threads \ {t} : OnPage(u) =>
            frame'[pc[u].pf].pf_obj # NULL /\ frame'[pc[u].pf].pf_flags = "busy"
    BY OthersKeep, VNodeCacheAssumption
  <2>3. CASE n = 1
    BY <1>1, <1>2, <2>1, <2>2, <2>3, KeptAfter
  <2>4. CASE n # 1
    BY <1>1, <1>2, <2>1, <2>2, <2>4, KeptAfter
  <2> QED BY <2>3, <2>4
<1>7. NoNewSleeper(sched, sched')
  BY SchedStays
<1>8. /\ SchedInv(sched')
      /\ \A u \in Threads, w \in Vnodes : sched'.kt_wchan[u] = w =>
          w \in vnode_inuse_list' /\ pc'[u].at = "find" /\ pc'[u].ino = vnode'[w].vn_vno
  BY <1>0, <1>1, <1>2, <1>7, CacheFacts, SleepersAfter
<1> QED BY <1>1, <1>2, <1>3, <1>4, <1>5, <1>6, <1>8, CacheFacts, CacheAfter

(* vput of a vnode whose page, if it has one, stays.                       *)
LEMMA PutStep ==
    ASSUME CacheIInv, NEW t \in Users, sched.curthr = t, NEW v \in Vnodes, held[t][v] > 0,
           Release(t, v, vnode[v].vn_refcount),
           UNCHANGED <<sched, vnode_inuse_list, frame, linked, panic>>
    PROVE  CacheIInv'
<1> DEFINE n == vnode[v].vn_refcount
<1>1. t \in Threads /\ n \in Nat /\ n > 0 /\ v \in vnode_inuse_list /\ ~vnode[v].busy
  BY InUse, CacheFacts DEF VnodeType, Users
<1>2. held' = OneLess(held, t, v)
  BY DEF Release, Drop, OneLess
<1>3. /\ held' \in HeldType
      /\ Cardinality(Refs(held, v)) = Cardinality(Refs(held', v)) + 1
      /\ \A w \in Vnodes \ {v} : Refs(held', w) = Refs(held, w)
      /\ \A u \in Threads \ {t} : held'[u] = held[u]
  BY <1>1, <1>2, RefsDown, CacheFacts
<1>4. /\ n = Cardinality(Refs(held, v)) + Cardinality(Pages(frame, v))
      /\ Cardinality(Refs(held', v)) \in Nat /\ Cardinality(Pages(frame, v)) \in Nat
  BY CacheFacts, CountedSets
<1>5. Release(t, v, n) /\ frame' = frame
  OBVIOUS
<1> HIDE DEF n
<1>6. n - 1 = Cardinality(Refs(held', v)) + Cardinality(Pages(frame', v))
  BY <1>3, <1>4, <1>5
<1> QED BY <1>1, <1>3, <1>5, <1>6, CacheFacts, ReleaseStep

(* vput frees the last page of a vnode that nothing else refers to.        *)
LEMMA DrainStep ==
    ASSUME CacheIInv, NEW t \in Users, sched.curthr = t, NEW v \in Vnodes, held[t][v] > 0,
           NEW vp \in Frames, frame[vp].pf_obj = v, frame[vp].pf_flags # "busy",
           vnode[v].vn_refcount = 2, FreeAndRelease(t, v, vp)
    PROVE  CacheIInv'
<1>1. t \in Threads /\ v \in vnode_inuse_list /\ ~vnode[v].busy
  BY InUse DEF Users
<1>2. /\ held' = OneLess(held, t, v) /\ frame' = PageOut(frame, vp) /\ Release(t, v, 1)
      /\ UNCHANGED <<sched, vnode_inuse_list, linked, panic>>
  BY DEF FreeAndRelease, Release, Drop, OneLess, PageOut
<1>3. /\ held' \in HeldType
      /\ Cardinality(Refs(held, v)) = Cardinality(Refs(held', v)) + 1
      /\ \A w \in Vnodes \ {v} : Refs(held', w) = Refs(held, w)
      /\ \A u \in Threads \ {t} : held'[u] = held[u]
  BY <1>1, <1>2, RefsDown, CacheFacts
<1>4. /\ frame' \in FrameType
      /\ Cardinality(Pages(frame, v)) = Cardinality(Pages(frame', v)) + 1
      /\ \A w \in Vnodes \ {v} : Pages(frame', w) = Pages(frame, w)
  BY <1>2, PageGoes, CacheFacts
<1>5. \A u \in Threads : OnPage(u) => frame'[pc[u].pf] = frame[pc[u].pf]
  <2>1. \A f \in Frames \ {vp} : frame'[f] = frame[f]
    BY <1>2, CacheFacts DEF PageOut, FrameType
  <2> QED BY <2>1, OthersKeep
<1>6. 1 - 1 = Cardinality(Refs(held', v)) + Cardinality(Pages(frame', v))
  <2>1. /\ 2 = Cardinality(Refs(held, v)) + Cardinality(Pages(frame, v))
        /\ Cardinality(Refs(held', v)) \in Nat /\ Cardinality(Pages(frame', v)) \in Nat
    BY CacheFacts, CountedSets
  <2> QED BY <1>3, <1>4, <2>1
<1> QED BY <1>1, <1>2, <1>3, <1>4, <1>5, <1>6, ReleaseStep

(* The pageout daemon frees a clean page.                                  *)
LEMMA DaemonFreesStep ==
    ASSUME CacheIInv, sched.curthr = pageoutd, NEW f \in Frames, NEW v \in Vnodes,
           frame[f].pf_obj = v, frame[f].pf_flags = "clean",
           pframe_free(pageoutd, f, v)
    PROVE  CacheIInv'
<1> DEFINE n == vnode[v].vn_refcount
<1>1. /\ pageoutd \in Threads /\ pageoutd \notin Users
      /\ n \in Nat /\ n > 0 /\ v \in vnode_inuse_list /\ ~vnode[v].busy
  BY InUse, CacheFacts, VNodeCacheAssumption DEF VnodeType, Users
<1>2. PutOK(v, n, 0)
  BY <1>1 DEF PutOK
<1>3. /\ held' = held /\ frame' = PageOut(frame, f) /\ Release(pageoutd, v, n)
      /\ UNCHANGED <<sched, vnode_inuse_list, linked, panic>>
  BY <1>1, <1>2 DEF pframe_free, Release, Drop, PageOut
<1>4. /\ frame' \in FrameType
      /\ Cardinality(Pages(frame, v)) = Cardinality(Pages(frame', v)) + 1
      /\ \A w \in Vnodes \ {v} : Pages(frame', w) = Pages(frame, w)
  BY <1>3, PageGoes, CacheFacts
<1>5. \A u \in Threads : OnPage(u) => frame'[pc[u].pf] = frame[pc[u].pf]
  <2>1. \A g \in Frames \ {f} : frame'[g] = frame[g]
    BY <1>3, CacheFacts DEF PageOut, FrameType
  <2> QED BY <2>1, OthersKeep
<1>6. n - 1 = Cardinality(Refs(held', v)) + Cardinality(Pages(frame', v))
  <2>1. /\ n = Cardinality(Refs(held, v)) + Cardinality(Pages(frame, v))
        /\ Cardinality(Refs(held, v)) \in Nat /\ Cardinality(Pages(frame', v)) \in Nat
    BY CacheFacts, CountedSets
  <2> HIDE DEF n
  <2> QED BY <1>3, <1>4, <2>1
<1> HIDE DEF n
<1> QED BY <1>1, <1>3, <1>4, <1>5, <1>6, CacheFacts, ReleaseStep
(* delete_vnode returns: whoever waited for the vnode is woken before it   *)
(* is freed.                                                               *)
LEMMA DeleteStep ==
    ASSUME CacheIInv, NEW t \in Threads, delete_vnode_returns(t)
    PROVE  CacheIInv'
<1> DEFINE v == pc[t].vn
<1>0. /\ sched.curthr = t /\ pc[t].at = "delete"
      /\ UNCHANGED <<frame, linked, held, panic>>
      /\ sched' = sched_broadcast_on(sched, v)
      /\ vnode_inuse_list' = vnode_inuse_list \ {v}
  BY DEF delete_vnode_returns, Runs
<1>1. v \in vnode_inuse_list /\ v \in Vnodes /\ vnode[v].busy /\ vnode[v].vn_refcount = 0
  BY <1>0, OthersKeep DEF OnVnode
<1>2. \A u \in Threads \ {t} : OnVnode(u) => pc[u].vn # v
  BY <1>0, OthersKeep DEF OnVnode
<1>3. /\ vnode' \in VnodeType
      /\ vnode'[v].vn_refcount = 0 /\ vnode'[v].vn_vno = NULL
      /\ \A w \in Vnodes \ {v} : vnode'[w] = vnode[w]
  BY <1>1, CacheFacts DEF delete_vnode_returns, VnodeType, FreeVnode
<1>4. /\ pc' \in PcType /\ pc'[t].at = "user"
      /\ \A u \in Threads \ {t} : pc'[u] = pc[u]
  BY CacheFacts DEF PcType, User, At, Goto, delete_vnode_returns
<1> HIDE DEF v
<1>5. NoNewSleeper(sched, sched') /\ \A u \in Threads : sched'.kt_wchan[u] # v
  <2>1. v \in WaitQueues /\ SchedInv(sched)
    BY <1>1, NotVnodes, CacheFacts
  <2> QED BY <1>0, <2>1, QuietBroadcast
<1>6. \A w \in Vnodes : vnode'[w].vn_refcount =
          Cardinality(Refs(held', w)) + Cardinality(Pages(frame', w))
  BY <1>0, <1>1, <1>3, CacheFacts
<1>7. OneVnodePerInode' /\ ReferencedIffReady'
  BY <1>0, <1>1, <1>3, CacheFacts DEF OneVnodePerInode, ReferencedIffReady
<1>8. KeptAcrossSleeps'
  <2>1. \A u \in Threads \ {t} : OnVnode(u) => pc[u].vn \in vnode_inuse_list'
                                               /\ vnode'[pc[u].vn].busy
    BY <1>0, <1>2, <1>3, OthersKeep
  <2>2. \A u \in Threads \ {t} : OnPage(u) =>
            frame'[pc[u].pf].pf_obj # NULL /\ frame'[pc[u].pf].pf_flags = "busy"
    BY <1>0, OthersKeep, VNodeCacheAssumption
  <2> QED BY <1>0, <1>4, <2>1, <2>2, KeptAfter
<1>9. /\ SchedInv(sched')
      /\ \A u \in Threads, w \in Vnodes : sched'.kt_wchan[u] = w =>
          w \in vnode_inuse_list' /\ pc'[u].at = "find" /\ pc'[u].ino = vnode'[w].vn_vno
  BY <1>0, <1>3, <1>4, <1>5, CacheFacts, SleepersAfter
<1> QED BY <1>0, <1>3, <1>4, <1>6, <1>7, <1>8, <1>9, CacheFacts, CacheAfter

(* A page operation begins or ends: the frames and the page of t change,   *)
(* and the count of v when the page is new.                                *)
LEMMA PageStep ==
    ASSUME CacheIInv, NEW t \in Threads, sched.curthr = t, NoNewSleeper(sched, sched'),
           NEW f \in Frames, frame' \in FrameType,
           \A g \in Frames \ {f} : frame'[g] = frame[g],
           \A u \in Threads \ {t} : OnPage(u) => pc[u].pf # f,
           pc' \in PcType, \A u \in Threads \ {t} : pc'[u] = pc[u],
           \/ pc'[t].at = "user"
           \/ /\ pc'[t].at \in {"fill", "dirty", "redirty", "clean"} /\ pc'[t].pf = f
              /\ frame'[f].pf_obj # NULL /\ frame'[f].pf_flags = "busy",
           vnode' \in VnodeType,
           \A w \in Vnodes : /\ vnode'[w].vn_vno = vnode[w].vn_vno
                             /\ vnode'[w].busy = vnode[w].busy
                             /\ vnode'[w].vn_refcount > 0 <=> vnode[w].vn_refcount > 0
                             /\ vnode'[w].vn_refcount =
                                    Cardinality(Refs(held, w)) + Cardinality(Pages(frame', w)),
           UNCHANGED <<vnode_inuse_list, linked, held, panic>>
    PROVE  CacheIInv'
<1>1. OneVnodePerInode' /\ ReferencedIffReady'
  BY CacheFacts DEF OneVnodePerInode, ReferencedIffReady
<1>2. KeptAcrossSleeps'
  <2>1. \A u \in Threads \ {t} : OnVnode(u) => pc[u].vn \in vnode_inuse_list'
                                               /\ vnode'[pc[u].vn].busy
    BY OthersKeep
  <2>2. \A u \in Threads \ {t} : OnPage(u) =>
            frame'[pc[u].pf].pf_obj # NULL /\ frame'[pc[u].pf].pf_flags = "busy"
    BY OthersKeep, VNodeCacheAssumption
  <2> QED BY <2>1, <2>2, KeptAfter
<1>3. /\ SchedInv(sched')
      /\ \A u \in Threads, w \in Vnodes : sched'.kt_wchan[u] = w =>
          w \in vnode_inuse_list' /\ pc'[u].at = "find" /\ pc'[u].ino = vnode'[w].vn_vno
  BY CacheFacts, SleepersAfter
<1> QED BY <1>1, <1>2, <1>3, CacheFacts, CacheAfter

(* pframe_fill: a new page of a vnode that t holds.                        *)
LEMMA FillStep ==
    ASSUME CacheIInv, NEW t \in Threads, NEW v \in Vnodes, NEW f \in Frames, pframe_fill(t, v, f)
    PROVE  CacheIInv'
<1>1. /\ sched.curthr = t /\ held[t][v] > 0 /\ frame[f].pf_obj = NULL
      /\ frame' = PageIn(frame, f, v, "busy")
      /\ UNCHANGED <<vnode_inuse_list, linked, held, panic>>
  BY DEF pframe_fill, Runs, PageIn
<1>2. /\ frame' \in FrameType
      /\ Cardinality(Pages(frame', v)) = Cardinality(Pages(frame, v)) + 1
      /\ \A w \in Vnodes \ {v} : Pages(frame', w) = Pages(frame, w)
  BY <1>1, PageComes, CacheFacts
<1>3. /\ frame'[f].pf_obj = v /\ frame'[f].pf_flags = "busy"
      /\ \A g \in Frames \ {f} : frame'[g] = frame[g]
  BY <1>1, CacheFacts DEF PageIn, FrameType
<1>4. /\ vnode' \in VnodeType
      /\ vnode'[v].vn_refcount = vnode[v].vn_refcount + 1
      /\ \A w \in Vnodes : vnode'[w].vn_vno = vnode[w].vn_vno /\ vnode'[w].busy = vnode[w].busy
      /\ \A w \in Vnodes \ {v} : vnode'[w].vn_refcount = vnode[w].vn_refcount
  BY CacheFacts DEF pframe_fill, VnodeType
<1>5. /\ pc' \in PcType /\ pc'[t].at = "fill" /\ pc'[t].pf = f
      /\ \A u \in Threads \ {t} : pc'[u] = pc[u]
  BY CacheFacts DEF pframe_fill, Goto, At, PcType
<1>6. NoNewSleeper(sched, sched')
  <2>1. SchedInv(sched) /\ pageoutd_waitq \in WaitQueues
    BY CacheFacts, NotVnodes
  <2>2. sched' = sched \/ sched' = sched_broadcast_on(sched, pageoutd_waitq)
    BY DEF pframe_fill
  <2>3. NoNewSleeper(sched, sched_broadcast_on(sched, pageoutd_waitq))
    BY <2>1, QuietBroadcast
  <2> QED BY <2>2, <2>3, SchedStays
<1>7. \A u \in Threads \ {t} : OnPage(u) => pc[u].pf # f
  BY <1>1, OthersKeep, VNodeCacheAssumption
<1>8. \A w \in Vnodes : /\ vnode'[w].vn_refcount > 0 <=> vnode[w].vn_refcount > 0
                        /\ vnode'[w].vn_refcount =
                               Cardinality(Refs(held, w)) + Cardinality(Pages(frame', w))
  <2>1. \A w \in Vnodes :
            /\ vnode[w].vn_refcount = Cardinality(Refs(held, w)) + Cardinality(Pages(frame, w))
            /\ Cardinality(Refs(held, w)) \in Nat /\ Cardinality(Pages(frame, w)) \in Nat
    BY CacheFacts, CountedSets
  <2>2. vnode[v].vn_refcount > 0
    BY <1>1, InUse
  <2> QED BY <1>2, <1>4, <2>1, <2>2
<1>9. frame'[f].pf_obj # NULL
  BY <1>3, VNodeCacheAssumption
<1> QED BY <1>1, <1>2, <1>3, <1>4, <1>5, <1>6, <1>7, <1>8, <1>9, PageStep

(* A page that is not busy is marked busy.                                 *)
LEMMA MarkBusyStep ==
    ASSUME CacheIInv, NEW t \in Threads, sched.curthr = t, NEW f \in Frames,
           NEW where \in {"dirty", "redirty", "clean"},
           frame[f].pf_obj # NULL, frame[f].pf_flags # "busy",
           frame' = Flagged(frame, f, "busy"), Goto(t, At(where, NULL, f, NULL)),
           UNCHANGED <<sched, vnode, vnode_inuse_list, linked, held, panic>>
    PROVE  CacheIInv'
<1>1. /\ frame' \in FrameType
      /\ frame'[f].pf_obj = frame[f].pf_obj /\ frame'[f].pf_flags = "busy"
      /\ \A g \in Frames \ {f} : frame'[g] = frame[g]
      /\ \A w \in Vnodes : Pages(frame', w) = Pages(frame, w)
  <2>1. frame \in FrameType /\ "busy" \in PfFlags
    BY CacheFacts DEF PfFlags
  <2> QED BY <2>1, PageFlagged
<1>2. /\ pc' \in PcType /\ pc'[t].at = where /\ pc'[t].pf = f
      /\ \A u \in Threads \ {t} : pc'[u] = pc[u]
  BY CacheFacts DEF Goto, At, PcType
<1>3. NoNewSleeper(sched, sched')
  BY SchedStays
<1>4. \A u \in Threads \ {t} : OnPage(u) => pc[u].pf # f
  BY OthersKeep
<1>5. \A w \in Vnodes : /\ vnode'[w].vn_refcount > 0 <=> vnode[w].vn_refcount > 0
                        /\ vnode'[w].vn_refcount =
                               Cardinality(Refs(held, w)) + Cardinality(Pages(frame', w))
  BY <1>1, CacheFacts
<1> QED BY <1>1, <1>2, <1>3, <1>4, <1>5, CacheFacts, PageStep

(* A page operation is over: whoever waits for the page is woken.          *)
LEMMA PageDoneStep ==
    ASSUME CacheIInv, NEW t \in Threads, page_done(t)
    PROVE  CacheIInv'
<1> DEFINE f == pc[t].pf
<1>0. PICK flags \in FlagsAfter(pc[t].at) : frame' = Flagged(frame, f, flags)
  BY DEF page_done, Flagged
<1>1. /\ sched.curthr = t /\ OnPage(t)
      /\ frame' = Flagged(frame, f, flags) /\ flags \in PfFlags
      /\ sched' = sched_broadcast_on(sched, f)
      /\ UNCHANGED <<vnode, vnode_inuse_list, linked, held, panic>>
  BY <1>0 DEF page_done, OnPage, PageOps, FlagsAfter, PfFlags
<1>2. f \in Frames /\ f \in WaitQueues
  BY <1>1, OthersKeep, NotVnodes
<1>3. \A u \in Threads \ {t} : OnPage(u) => pc[u].pf # f
  BY <1>1, OthersKeep
<1>4. /\ pc' \in PcType /\ pc'[t].at = "user"
      /\ \A u \in Threads \ {t} : pc'[u] = pc[u]
  BY CacheFacts DEF page_done, Goto, At, User, PcType
<1> HIDE DEF f
<1>5. /\ frame' \in FrameType
      /\ \A g \in Frames \ {f} : frame'[g] = frame[g]
      /\ \A w \in Vnodes : Pages(frame', w) = Pages(frame, w)
  <2>1. frame \in FrameType
    BY CacheFacts
  <2> QED BY <1>1, <1>2, <2>1, PageFlagged
<1>6. NoNewSleeper(sched, sched')
  BY <1>1, <1>2, QuietBroadcast, CacheFacts
<1>7. \A w \in Vnodes : /\ vnode'[w].vn_refcount > 0 <=> vnode[w].vn_refcount > 0
                        /\ vnode'[w].vn_refcount =
                               Cardinality(Refs(held, w)) + Cardinality(Pages(frame', w))
  BY <1>1, <1>5, CacheFacts
<1> QED BY <1>1, <1>2, <1>3, <1>4, <1>5, <1>6, <1>7, CacheFacts, PageStep
-----------------------------------------------------------------------------
(* The first run queue holds every thread but the daemon, once.            *)
FirstRunq == CHOOSE s \in [1 .. Cardinality(Users) -> Users] : \A t \in Users : OnQueueOf(s, t)

LEMMA FirstQueue ==
    /\ FirstRunq \in Seq(Users)
    /\ \A i, j \in 1 .. Len(FirstRunq) : FirstRunq[i] = FirstRunq[j] => i = j
    /\ \A t \in Users : \E i \in 1 .. Len(FirstRunq) : FirstRunq[i] = t
<1> DEFINE s == FirstRunq
           n == Cardinality(Users)
           I == 1 .. n
<1>1. IsFiniteSet(Users)
  BY VNodeCacheAssumption, FS_Difference DEF Users
<1>2. n \in Nat /\ ExistsBijection(I, Users)
  BY <1>1, FS_CardinalityType
<1>3. IsFiniteSet(I) /\ Cardinality(I) = n
  <2>1. IsFiniteSet(1 .. n) /\ Cardinality(1 .. n) = IF 1 > n THEN 0 ELSE n - 1 + 1
    BY <1>2, FS_Interval
  <2> QED BY <1>2, <2>1
<1> HIDE DEF n
<1>4. \E x \in [I -> Users] : \A t \in Users : OnQueueOf(x, t)
  <2>1. PICK x \in Bijection(I, Users) : TRUE
    BY <1>2 DEF ExistsBijection
  <2>2. x \in [I -> Users] /\ \A t \in Users : \E i \in I : x[i] = t
    BY <2>1 DEF Bijection, Surjection, Injection
  <2>3. Len(x) = n
    BY <1>2, <2>2
  <2> QED BY <2>2, <2>3 DEF OnQueueOf
<1>5. s \in [I -> Users] /\ \A t \in Users : OnQueueOf(s, t)
  BY <1>4 DEF n, FirstRunq
<1> HIDE DEF s
<1>6. Len(s) = n /\ s \in Seq(Users)
  BY <1>2, <1>5
<1>7. s \in Surjection(I, Users)
  BY <1>5, <1>6 DEF Surjection, OnQueueOf
<1>8. s \in Injection(I, Users)
  <2>1. Cardinality(I) = Cardinality(Users)
    BY <1>3 DEF n
  <2> HIDE DEF I
  <2> QED BY <1>3, <1>7, <2>1, FS_SurjSameCardinalityImpliesInj
<1>9. \A i, j \in 1 .. Len(s) : s[i] = s[j] => i = j
  BY <1>6, <1>8 DEF Injection, IsInjective
<1> QED BY <1>5, <1>6, <1>9 DEF s, OnQueueOf

LEMMA InitCache == Init => CacheIInv
<1> SUFFICES ASSUME Init PROVE CacheIInv
  OBVIOUS
<1> DEFINE r == FirstRunq
           Q0 == [q \in Queues |-> IF q = pageoutd_waitq THEN <<pageoutd>>
                                   ELSE IF q # kt_runq THEN <<>> ELSE r]
           W0 == [t \in Threads |-> IF t = pageoutd THEN pageoutd_waitq ELSE kt_runq]
           K0 == [t \in Threads |-> IF t = pageoutd THEN "KT_SLEEP_CANCELLABLE" ELSE "KT_RUN"]
<1>1. /\ sched = [queue |-> Q0, kt_state |-> K0, kt_wchan |-> W0, kt_cancelled |-> {},
                  curthr |-> NoThread]
      /\ vnode = [v \in Vnodes |-> FreeVnode] /\ vnode_inuse_list = {}
      /\ frame = [f \in Frames |-> FreeFrame] /\ linked = Inos
      /\ pc = [t \in Threads |-> User] /\ held = [t \in Threads |-> [v \in Vnodes |-> 0]]
      /\ panic = "no"
  BY Zenon DEF Init, FirstRunq
<1>2. /\ r \in Seq(Users)
      /\ \A i, j \in 1 .. Len(r) : r[i] = r[j] => i = j
      /\ \A t \in Users : \E i \in 1 .. Len(r) : r[i] = t
  BY FirstQueue
<1> HIDE DEF r
<1>3. /\ kt_runq \in Queues /\ pageoutd_waitq \in Queues /\ pageoutd_waitq # kt_runq
      /\ pageoutd \in Threads /\ pageoutd_waitq \in WaitQueues /\ kt_runq \notin WaitQueues
      /\ Threads = Users \union {pageoutd} /\ pageoutd \notin Users
      /\ kt_runq # NoQueue /\ pageoutd_waitq # NoQueue
  BY VNodeCacheAssumption, KSchedAssumption DEF Queues, Users
<1>4. r \in Seq(Threads) /\ \A i \in 1 .. Len(r) : r[i] \in Users
  BY <1>2, <1>3
<1>5. Q0 \in Links /\ W0 \in Wchans /\ K0 \in [Threads -> KtStates]
  <2>1. <<pageoutd>> \in Seq(Threads) /\ <<>> \in Seq(Threads)
    BY <1>3
  <2> QED BY <1>3, <1>4, <2>1 DEF Links, Wchans, KtStates
<1>6. /\ Q0[kt_runq] = r /\ Q0[pageoutd_waitq] = <<pageoutd>>
      /\ \A q \in Queues \ {kt_runq, pageoutd_waitq} : Q0[q] = <<>>
      /\ W0[pageoutd] = pageoutd_waitq /\ \A t \in Users : W0[t] = kt_runq
      /\ K0[pageoutd] = "KT_SLEEP_CANCELLABLE" /\ \A t \in Users : K0[t] = "KT_RUN"
  BY <1>3
<1> HIDE DEF Q0, W0, K0
<1>7. LinkedOnce(Q0, W0)
  <2>1. ASSUME NEW q \in Queues, NEW i \in 1 .. Len(Q0[q])
        PROVE  /\ W0[Q0[q][i]] = q
               /\ \A j \in 1 .. Len(Q0[q]) : Q0[q][i] = Q0[q][j] => i = j
    <3>1. CASE q = kt_runq
      BY <3>1, <1>2, <1>4, <1>6
    <3>2. CASE q = pageoutd_waitq
      <4>1. Len(<<pageoutd>>) = 1 /\ <<pageoutd>>[1] = pageoutd
        OBVIOUS
      <4> QED BY <3>2, <4>1, <1>6
    <3>3. CASE q \notin {kt_runq, pageoutd_waitq}
      BY <3>3, <1>6
    <3> QED BY <3>1, <3>2, <3>3
  <2>2. ASSUME NEW t \in Threads
        PROVE  \E i \in 1 .. Len(Q0[W0[t]]) : Q0[W0[t]][i] = t
    <3>1. CASE t = pageoutd
      <4>1. 1 \in 1 .. Len(<<pageoutd>>) /\ <<pageoutd>>[1] = pageoutd
        OBVIOUS
      <4> QED BY <3>1, <4>1, <1>6
    <3>2. CASE t \in Users
      BY <3>2, <1>2, <1>6
    <3> QED BY <3>1, <3>2, <1>3
  <2> QED BY <2>1, <2>2 DEF LinkedOnce
<1>8. sched \in SchedState
  BY <1>1, <1>5 DEF SchedState, Links, Wchans
<1>9. ThreadsPlacedIn(sched)
  <2>1. LinkedOnce(sched.queue, sched.kt_wchan)
    BY <1>1, <1>7, Zenon
  <2>2. sched.curthr = NoThread /\ sched.kt_state = K0 /\ sched.kt_wchan = W0
    BY <1>1
  <2> QED BY <2>1, <2>2, <1>3, <1>6, KSchedAssumption DEF ThreadsPlacedIn, Asleep
<1>10. CacheTypeOK
  <2>1. vnode \in VnodeType /\ frame \in FrameType
    BY <1>1 DEF VnodeType, FrameType, FreeVnode, FreeFrame, PfFlags
  <2>2. pc \in PcType /\ held \in HeldType
    BY <1>1, VNodeCacheAssumption DEF PcType, HeldType, User, At
  <2> QED BY <1>1, <1>8, <2>1, <2>2
          DEF CacheTypeOK, PageOps, VnodeType, FrameType, PfFlags, PcType, HeldType
<1>11. OneVnodePerInode /\ ReferencedIffReady
  BY <1>1 DEF OneVnodePerInode, ReferencedIffReady, FreeVnode
<1>12. RefcountExact
  <2> SUFFICES ASSUME NEW v \in Vnodes
               PROVE  vnode[v].vn_refcount =
                        Cardinality({x \in Threads \X (1 .. MaxHeld) : x[2] <= held[x[1]][v]})
                        + Cardinality(PagesOf(v))
    BY DEF RefcountExact
  <2>1. {x \in Threads \X (1 .. MaxHeld) : x[2] <= held[x[1]][v]} = {}
    BY <1>1, VNodeCacheAssumption
  <2>2. PagesOf(v) = {}
    BY <1>1, VNodeCacheAssumption DEF PagesOf, FreeFrame
  <2>3. vnode[v].vn_refcount = 0
    BY <1>1 DEF FreeVnode
  <2> QED BY <2>1, <2>2, <2>3, FS_EmptySet
<1>13. KeptAcrossSleeps
  BY <1>1 DEF KeptAcrossSleeps, User, At, OnVnode, OnPage, PageOps
<1>14. SleepersOnLiveVnode
  <2>1. SchedInv(sched) /\ sched.kt_wchan = W0
    BY <1>1, <1>8, <1>9 DEF SchedInv
  <2>2. \A t \in Threads : W0[t] \notin Vnodes
    BY <1>3, <1>6, NotVnodes
  <2> QED BY <2>1, <2>2, OnQueueIsWchan, NotVnodes DEF SleepersOnLiveVnode
<1> QED BY <1>1, <1>9, <1>10, <1>11, <1>12, <1>13, <1>14 DEF CacheIInv, AssertionsHold
-----------------------------------------------------------------------------
(* From the label find of vget on.                                         *)
LEMMA SearchStep ==
    ASSUME CacheIInv, NEW t \in Threads, sched.curthr = t, NEW ino \in Inos,
           HeldBy(t) < MaxHeld, VgetLoop(t, ino)
    PROVE  CacheIInv'
<1>1. ASSUME NEW v \in Cached(ino), Find(t, ino, v) PROVE CacheIInv'
  <2>1. v \in vnode_inuse_list /\ v \in Vnodes
    BY CacheFacts DEF Cached
  <2>2. CASE vnode[v].busy
    <3>1. /\ pc' = [pc EXCEPT ![t] = At("find", NULL, NULL, ino)]
          /\ UNCHANGED <<vnode, vnode_inuse_list, frame, linked, held, panic>>
      BY <1>1, <2>2 DEF Find, Goto
    <3>2. SearchSleeps(ino)
      BY <1>1, <2>2 DEF Find, SearchSleeps
    <3> QED BY <3>1, <3>2, SearchWaits
  <2>3. CASE ~vnode[v].busy
    <3>1. vnode[v].vn_refcount # 0
      BY <2>1, <2>3, CacheFacts DEF ReferencedIffReady
    <3>2. /\ vref(t, v) /\ pc' = [pc EXCEPT ![t] = User]
          /\ UNCHANGED <<sched, vnode_inuse_list, frame, linked, panic>>
      BY <1>1, <2>3, <3>1 DEF Find, Goto
    <3> QED BY <2>1, <2>3, <3>2, VrefStep
  <2> QED BY <2>2, <2>3
<1>2. ASSUME Cached(ino) = {}, NEW v \in FreeVnodes, Alloc(t, ino, v) PROVE CacheIInv'
  BY <1>2, AllocStep
<1>3. ASSUME sched' = Yield(sched), Goto(t, At("find", NULL, NULL, ino)),
             UNCHANGED <<vnode, vnode_inuse_list, frame, linked, held, panic>>
      PROVE  CacheIInv'
  <2>1. NoNewSleeper(sched, sched')
    BY <1>3, CacheFacts, KSchedAssumption, QuietYield
  <2>2. SearchSleeps(ino)
    BY <2>1 DEF SearchSleeps
  <2> QED BY <1>3, <2>2, SearchWaits DEF Goto
<1> QED BY <1>1, <1>2, <1>3 DEF VgetLoop

(* The loop of vput over the page of the vnode.                            *)
LEMMA DrainLoopStep ==
    ASSUME CacheIInv, NEW t \in Users, sched.curthr = t, NEW v \in Vnodes, held[t][v] > 0,
           NEW vp \in Frames, frame[vp].pf_obj = v, Drain(t, v, vp)
    PROVE  CacheIInv'
<1>0. t \in Threads
  BY DEF Users
<1>1. ASSUME WaitForPage(t, v, vp) PROVE CacheIInv'
  BY <1>0, <1>1, DrainWaits
<1>2. ASSUME frame[vp].pf_flags # "busy", vnode[v].vn_refcount # 2, Fails("drained")
      PROVE  CacheIInv'
  BY <1>2, CacheFacts, SchedStays, QuietStep DEF Fails
<1>3. ASSUME frame[vp].pf_flags # "busy", vnode[v].vn_refcount = 2, FreeAndRelease(t, v, vp)
      PROVE  CacheIInv'
  BY <1>3, DrainStep
<1> QED BY <1>1, <1>2, <1>3 DEF Drain

LEMMA VputStep ==
    ASSUME CacheIInv, NEW t \in Users, NEW v \in Vnodes, vput(t, v)
    PROVE  CacheIInv'
<1>1. t \in Threads /\ sched.curthr = t /\ held[t][v] > 0
  BY DEF vput, Runs, Users
<1>2. PutOK(v, vnode[v].vn_refcount, Cardinality(PagesOf(v)))
  <2>1. PagesOf(v) = Pages(frame, v)
    BY DEF PagesOf, Pages
  <2> QED BY <1>1, <2>1, InUse DEF PutOK
<1>3. ASSUME NEW vp \in PagesOf(v), Drain(t, v, vp) PROVE CacheIInv'
  <2>1. vp \in Frames /\ frame[vp].pf_obj = v
    BY DEF PagesOf
  <2> QED BY <1>1, <1>3, <2>1, DrainLoopStep
<1>4. ASSUME Release(t, v, vnode[v].vn_refcount),
             UNCHANGED <<sched, vnode_inuse_list, frame, linked, panic>>
      PROVE  CacheIInv'
  BY <1>1, <1>4, PutStep
<1> QED BY <1>2, <1>3, <1>4 DEF vput

(* One turn of the pageout daemon.                                         *)
LEMMA DaemonStep ==
    ASSUME CacheIInv, NEW f \in Frames, pageoutd_run(f)
    PROVE  CacheIInv'
<1>1. /\ pageoutd \in Threads /\ sched.curthr = pageoutd
      /\ frame[f].pf_obj # NULL /\ frame[f].pf_obj \in Vnodes
  <2>1. frame[f].pf_obj \in Vnodes \union {NULL}
    BY CacheFacts DEF FrameType
  <2> QED BY <2>1, VNodeCacheAssumption DEF pageoutd_run, Runs
<1>2. ASSUME sched' = sched_sleep_on(sched, f),
             UNCHANGED <<vnode, vnode_inuse_list, frame, linked, pc, held, panic>>
      PROVE  CacheIInv'
  <2>1. /\ sched.curthr # NoThread /\ SchedInv(sched) /\ "KT_SLEEP" \in Asleep
        /\ f \in WaitQueues /\ f \notin Vnodes
    BY <1>1, CacheFacts, NotVnodes, KSchedAssumption DEF Asleep
  <2>2. NoNewSleeper(sched, sched')
    BY <1>2, <2>1, QuietSleep DEF sched_sleep_on
  <2> QED BY <1>2, <2>2, CacheFacts, QuietStep
<1>3. ASSUME frame[f].pf_flags = "dirty", frame' = [frame EXCEPT ![f].pf_flags = "busy"],
             Goto(pageoutd, At("clean", NULL, f, NULL)),
             UNCHANGED <<sched, vnode, vnode_inuse_list, linked, held, panic>>
      PROVE  CacheIInv'
  <2>1. frame' = Flagged(frame, f, "busy") /\ frame[f].pf_flags # "busy"
    BY <1>3 DEF Flagged
  <2> QED BY <1>1, <1>3, <2>1, MarkBusyStep
<1>4. ASSUME frame[f].pf_flags = "clean", pframe_free(pageoutd, f, frame[f].pf_obj)
      PROVE  CacheIInv'
  BY <1>1, <1>4, DaemonFreesStep
<1> QED BY <1>2, <1>3, <1>4 DEF pageoutd_run

(* Every step of a user thread outside the cache.                          *)
LEMMA UserStep ==
    ASSUME CacheIInv, NEW t \in Users, Step(t)
    PROVE  CacheIInv'
<1>0. t \in Threads
  BY DEF Users
<1>1. ASSUME NEW ino \in Inos, vget(t, ino) PROVE CacheIInv'
  BY <1>0, <1>1, SearchStep DEF vget, Runs
<1>2. ASSUME NEW ino \in Inos, create(t, ino) PROVE CacheIInv'
  BY <1>2, CacheFacts, SchedStays, QuietStep DEF create
<1>3. ASSUME NEW v \in Vnodes, vput(t, v) PROVE CacheIInv'
  BY <1>3, VputStep
<1>4. ASSUME NEW v \in Vnodes, vref_held(t, v) PROVE CacheIInv'
  <2>1. v \in vnode_inuse_list /\ ~vnode[v].busy
    BY <1>0, <1>4, InUse DEF vref_held
  <2> QED BY <1>0, <1>4, <2>1, VrefStep DEF vref_held, Runs
<1>5. ASSUME NEW v \in Vnodes, unlink(t, v) PROVE CacheIInv'
  BY <1>5, CacheFacts, SchedStays, QuietStep DEF unlink
<1>6. ASSUME NEW f \in Frames, pframe_dirty(t, f) PROVE CacheIInv'
  <2> DEFINE where == IF frame[f].pf_flags = "dirty" THEN "redirty" ELSE "dirty"
  <2>1. /\ sched.curthr = t /\ frame[f].pf_obj # NULL /\ frame[f].pf_flags # "busy"
        /\ frame' = Flagged(frame, f, "busy") /\ Goto(t, At(where, NULL, f, NULL))
        /\ UNCHANGED <<sched, vnode, vnode_inuse_list, linked, held, panic>>
    BY <1>6, VNodeCacheAssumption DEF pframe_dirty, Runs, Flagged
  <2>2. where \in {"dirty", "redirty", "clean"}
    OBVIOUS
  <2> HIDE DEF where
  <2> QED BY <1>0, <2>1, <2>2, MarkBusyStep
<1>7. ASSUME NEW v \in Vnodes, NEW f \in Frames, pframe_fill(t, v, f) PROVE CacheIInv'
  BY <1>0, <1>7, FillStep
<1>8. ASSUME yield(t) PROVE CacheIInv'
  <2>1. NoNewSleeper(sched, sched')
    BY <1>0, <1>8, CacheFacts, KSchedAssumption, QuietYield DEF yield, Runs
  <2> QED BY <1>8, <2>1, CacheFacts, QuietStep DEF yield
<1> QED BY <1>1, <1>2, <1>3, <1>4, <1>5, <1>6, <1>7, <1>8 DEF Step

LEMMA NextCache == CacheIInv /\ [Next]_vars => CacheIInv'
<1> SUFFICES ASSUME CacheIInv, [Next]_vars PROVE CacheIInv'
  OBVIOUS
<1>1. ASSUME NEW t \in Users, Step(t) PROVE CacheIInv'
  BY <1>1, UserStep
<1>2. ASSUME NEW t \in Users, vget_again(t) PROVE CacheIInv'
  <2>1. t \in Threads /\ sched.curthr = t /\ pc[t].at = "find" /\ VgetLoop(t, pc[t].ino)
    BY <1>2 DEF vget_again, Runs, Users
  <2>2. pc[t].ino \in Inos /\ HeldBy(t) < MaxHeld
    BY <2>1, CacheFacts DEF KeptAcrossSleeps
  <2> QED BY <2>1, <2>2, SearchStep
<1>3. ASSUME NEW t \in Users, read_vnode_returns(t) PROVE CacheIInv'
  <2>0. t \in Threads
    BY DEF Users
  <2>1. CASE pc[t].ino \in linked
    BY <1>3, <2>0, <2>1, ReadStep
  <2>2. CASE pc[t].ino \notin linked
    BY <1>3, <2>2, CacheFacts, SchedStays, QuietStep DEF read_vnode_returns, Fails
  <2> QED BY <2>1, <2>2
<1>4. ASSUME NEW t \in Users, vput_drain(t) PROVE CacheIInv'
  <2>1. t \in Threads /\ sched.curthr = t /\ pc[t].at = "drain"
    BY <1>4 DEF vput_drain, Runs, Users
  <2>2. pc[t].vn \in Vnodes /\ pc[t].pf \in Frames /\ held[t][pc[t].vn] > 0
    BY <2>1, CacheFacts DEF KeptAcrossSleeps
  <2>3. CASE frame[pc[t].pf].pf_obj # pc[t].vn
    BY <1>4, <2>3, CacheFacts, SchedStays, QuietStep DEF vput_drain, Fails
  <2>4. CASE frame[pc[t].pf].pf_obj = pc[t].vn
    BY <1>4, <2>1, <2>2, <2>4, DrainLoopStep DEF vput_drain
  <2> QED BY <2>3, <2>4
<1>5. ASSUME NEW t \in Threads, delete_vnode_returns(t) PROVE CacheIInv'
  BY <1>5, DeleteStep
<1>6. ASSUME NEW t \in Threads, page_done(t) PROVE CacheIInv'
  BY <1>6, PageDoneStep
<1>7. ASSUME NEW t \in Threads, fs_sleep(t) PROVE CacheIInv'
  <2>1. /\ sched.curthr # NoThread /\ SchedInv(sched) /\ "KT_SLEEP" \in Asleep
        /\ t \in WaitQueues /\ t \notin Vnodes
    BY <1>7, CacheFacts, NotVnodes, KSchedAssumption DEF Asleep, fs_sleep
  <2>2. NoNewSleeper(sched, sched')
    BY <1>7, <2>1, QuietSleep DEF sched_sleep_on, fs_sleep
  <2> QED BY <1>7, <2>2, CacheFacts, QuietStep DEF fs_sleep
<1>8. ASSUME NEW t \in Threads, fs_wakeup(t) PROVE CacheIInv'
  <2>1. SchedInv(sched) /\ t \in WaitQueues /\ sched.queue[t] # <<>>
    BY <1>8, CacheFacts, NotVnodes DEF fs_wakeup, sched_queue_empty
  <2>2. NoNewSleeper(sched, sched')
    BY <1>8, <2>1, QuietWakeup DEF fs_wakeup
  <2> QED BY <1>8, <2>2, CacheFacts, QuietStep DEF fs_wakeup
<1>9. ASSUME NEW f \in Frames, pageoutd_run(f) PROVE CacheIInv'
  BY <1>9, DaemonStep
<1>10. ASSUME pageoutd_sleep PROVE CacheIInv'
  <2>1. /\ sched.curthr # NoThread /\ SchedInv(sched) /\ "KT_SLEEP_CANCELLABLE" \in Asleep
        /\ pageoutd_waitq \in WaitQueues /\ pageoutd_waitq \notin Vnodes
    BY <1>10, CacheFacts, NotVnodes, KSchedAssumption, VNodeCacheAssumption
       DEF Asleep, pageoutd_sleep, Runs
  <2>2. NoNewSleeper(sched, sched')
    BY <1>10, <2>1, QuietSleep DEF sched_cancellable_sleep_on, pageoutd_sleep
  <2> QED BY <1>10, <2>2, CacheFacts, QuietStep DEF pageoutd_sleep
<1>11. ASSUME dispatch PROVE CacheIInv'
  <2>1. NoNewSleeper(sched, sched')
    BY <1>11, CacheFacts, QuietDispatch DEF dispatch
  <2> QED BY <1>11, <2>1, CacheFacts, QuietStep DEF dispatch
<1>12. CASE UNCHANGED vars
  BY <1>12, CacheFacts, SchedStays, QuietStep DEF vars
<1> QED BY <1>1, <1>2, <1>3, <1>4, <1>5, <1>6, <1>7, <1>8, <1>9, <1>10, <1>11, <1>12 DEF Next

(* The invariant holds in every state of the cache.                        *)
THEOREM CacheInvariant == Spec => []CacheIInv
  BY InitCache, NextCache, PTL DEF Spec

(* However vget, read_vnode, vput and delete_vnode interleave, an inode    *)
(* never has two vnodes.                                                   *)
THEOREM OneVnode == Spec => []OneVnodePerInode
  BY CacheInvariant, PTL DEF CacheIInv

(* vn_refcount is the number of references that threads and pages hold, so *)
(* vput frees no vnode that somebody still uses.                           *)
THEOREM RefcountsRight == Spec => []RefcountExact
  BY CacheInvariant, PTL DEF CacheIInv

(* A thread that waits in vget waits on a vnode that is in use.            *)
THEOREM NobodyLeftBehind == Spec => []SleepersOnLiveVnode
  BY CacheInvariant, PTL DEF CacheIInv

(* The assertions at the start of vref and vput never fail.                *)
THEOREM RefAssertions == Spec => []AssertionsHold
  BY CacheInvariant, PTL DEF CacheIInv
=============================================================================
