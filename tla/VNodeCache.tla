----------------------------- MODULE VNodeCache -----------------------------
(***************************************************************************)
(* The vnode cache (vget, vref and vput of fs/vnode.c) over a file system  *)
(* that blocks, with the page frames that hold references to vnodes        *)
(* (mm/pframe.c) and the pageout daemon, on the scheduler of KSched.       *)
(*                                                                         *)
(* A thread runs alone until it sleeps.  What it has still to do then is   *)
(* in pc: "find" inside vget, to search again; "read" and "delete" inside  *)
(* read_vnode and delete_vnode; "drain" inside vput, waiting for a busy    *)
(* page; "fill", "dirty", "redirty" and "clean" inside an operation on a   *)
(* page that it has marked busy; "user" outside the cache.  The file       *)
(* system and the disk are external: a thread inside them may sleep any    *)
(* number of times, on a queue of its own.                                 *)
(* A vnode has at most one resident page.                                  *)
(***************************************************************************)
EXTENDS KSched, FiniteSets

CONSTANTS
    Vnodes,   \* the vnode objects of the slab allocator
    Frames,   \* the page frames
    Inos,     \* inode numbers of the file system
    pageoutd, \* the thread of the pageout daemon
    pageoutd_waitq,
    NULL,     \* no vnode, no frame, no inode
    MaxHeld   \* references a thread keeps at most

Users == Threads \ {pageoutd}

ASSUME VNodeCacheAssumption ==
    /\ pageoutd \in Threads
    /\ WaitQueues = Vnodes \union Frames \union Threads \union {pageoutd_waitq}
    /\ Vnodes \intersect (Frames \union Threads \union {pageoutd_waitq}) = {}
    /\ NULL \notin Vnodes \union Frames \union Inos
    /\ IsFiniteSet(Threads) /\ IsFiniteSet(Vnodes) /\ IsFiniteSet(Frames)
    /\ MaxHeld \in Nat

VARIABLES
    sched,
    vnode,            \* vn_vno, VN_BUSY and vn_refcount of each object
    vnode_inuse_list, \* the objects on it
    frame,            \* pf_obj and the flags of each frame
    linked,           \* the inodes that have a name
    pc, held,         \* what each thread does, and the references it holds
    panic             \* the assertion that failed, or "no"

vars == <<sched, vnode, vnode_inuse_list, frame, linked, pc, held, panic>>

FreeVnode == [vn_vno |-> NULL, busy |-> FALSE, vn_refcount |-> 0]
FreeFrame == [pf_obj |-> NULL, pf_flags |-> "clean"]
At(where, vn, pf, ino) == [at |-> where, vn |-> vn, pf |-> pf, ino |-> ino]
User == At("user", NULL, NULL, NULL)

Running == panic = "no"
Runs(t, where) == Running /\ sched.curthr = t /\ pc[t].at = where
PagesOf(v) == {f \in Frames : frame[f].pf_obj = v}
If(b) == IF b THEN 1 ELSE 0
HeldBy(t) == Cardinality({r \in Vnodes \X (1 .. MaxHeld) : r[2] <= held[t][r[1]]})

(* KASSERT failed: the kernel stops.                                       *)
Fails(what) ==
    /\ panic' = what
    /\ UNCHANGED <<sched, vnode, vnode_inuse_list, frame, linked, pc, held>>

Goto(t, where) == pc' = [pc EXCEPT ![t] = where]

-----------------------------------------------------------------------------
(* vget                                                                    *)
Cached(ino) == {v \in vnode_inuse_list : vnode[v].vn_vno = ino}

vref(t, v) ==
    /\ vnode' = [vnode EXCEPT ![v].vn_refcount = @ + 1]
    /\ held' = [held EXCEPT ![t][v] = @ + 1]

(* The search has met the inode: wait while it is brought in or on its way *)
(* out, and then search again.                                             *)
Find(t, ino, v) ==
    \/ /\ vnode[v].busy
       /\ sched' = sched_sleep_on(sched, v)
       /\ Goto(t, At("find", NULL, NULL, ino))
       /\ UNCHANGED <<vnode, vnode_inuse_list, frame, linked, held, panic>>
    \/ /\ ~vnode[v].busy
       /\ IF vnode[v].vn_refcount = 0 THEN Fails("vref")
          ELSE /\ vref(t, v)
               /\ Goto(t, User)
               /\ UNCHANGED <<sched, vnode_inuse_list, frame, linked, panic>>

(* Mutant: the new vnode can be found only once it has been read.          *)
Alloc_Hidden(t, ino, v) ==
    /\ vnode' = [vnode EXCEPT ![v] = [FreeVnode EXCEPT !.vn_vno = ino, !.busy = TRUE]]
    /\ Goto(t, At("read", v, NULL, ino))
    /\ UNCHANGED <<sched, vnode_inuse_list, frame, linked, held, panic>>

(* A new vnode, busy and on the list while the file system reads it.       *)
Alloc(t, ino, v) ==
    /\ vnode' = [vnode EXCEPT ![v] = [FreeVnode EXCEPT !.vn_vno = ino, !.busy = TRUE]]
    /\ vnode_inuse_list' = vnode_inuse_list \union {v}
    /\ Goto(t, At("read", v, NULL, ino))
    /\ UNCHANGED <<sched, frame, linked, held, panic>>

(* Another reference to a vnode that t holds already.                      *)
vref_held(t, v) ==
    /\ Runs(t, "user") /\ held[t][v] > 0 /\ HeldBy(t) < MaxHeld
    /\ vref(t, v)
    /\ UNCHANGED <<sched, vnode_inuse_list, frame, linked, pc, panic>>

FreeVnodes == {v \in Vnodes : vnode[v].vn_vno = NULL}

(* From the label find on.  Kernel memory may be exhausted at any time;    *)
(* the thread yields then and tries again.                                 *)
VgetLoop(t, ino) ==
    \/ \E v \in Cached(ino) : Find(t, ino, v)
    \/ /\ Cached(ino) = {}
       /\ \E v \in FreeVnodes : Alloc(t, ino, v)
    \/ /\ Cached(ino) = {}
       /\ sched' = Yield(sched)
       /\ Goto(t, At("find", NULL, NULL, ino))
       /\ UNCHANGED <<vnode, vnode_inuse_list, frame, linked, held, panic>>

vget(t, ino) == Runs(t, "user") /\ ino \in linked /\ HeldBy(t) < MaxHeld /\ VgetLoop(t, ino)

vget_again(t) == Runs(t, "find") /\ VgetLoop(t, pc[t].ino)

(* read_vnode has returned.  The flag is cleared and nobody is woken.  An  *)
(* inode that has lost its last name in the meantime cannot be read.       *)
read_vnode_returns(t) ==
    /\ Runs(t, "read")
    /\ IF pc[t].ino \notin linked THEN Fails("read_vnode")
       ELSE /\ vnode' = [vnode EXCEPT ![pc[t].vn].busy = FALSE,
                                      ![pc[t].vn].vn_refcount = 1]
            /\ held' = [held EXCEPT ![t][pc[t].vn] = @ + 1]
            /\ Goto(t, User)
            /\ UNCHANGED <<sched, vnode_inuse_list, frame, linked, panic>>

-----------------------------------------------------------------------------
(* vput                                                                    *)

(* A reference of t to v goes: one that t holds, or that of a page.        *)
Drop(t, v) ==
    held' = IF t \in Users THEN [held EXCEPT ![t][v] = @ - 1] ELSE held

(* Mutant: the vnode is not marked while it is taken away.                 *)
Release_NotBusy(t, v, n) ==
    /\ vnode' = [vnode EXCEPT ![v].vn_refcount = n - 1]
    /\ Drop(t, v)
    /\ Goto(t, IF n = 1 THEN At("delete", v, NULL, NULL) ELSE User)

(* The count is n before the reference goes; the last one deletes.         *)
Release(t, v, n) ==
    /\ vnode' = [vnode EXCEPT ![v].vn_refcount = n - 1, ![v].busy = n = 1]
    /\ Drop(t, v)
    /\ Goto(t, IF n = 1 THEN At("delete", v, NULL, NULL) ELSE User)

(* vn is becoming passively referenced and has no name left.               *)
Unreachable(v, n, pages) == n - 1 = pages /\ vnode[v].vn_vno \notin linked

(* Mutant: the page's reference is not given back.                         *)
FreeAndRelease_KeepsRef(t, v, vp) ==
    /\ frame' = [frame EXCEPT ![vp] = FreeFrame]
    /\ Release(t, v, vnode[v].vn_refcount)
    /\ UNCHANGED <<sched, vnode_inuse_list, linked, panic>>

(* pframe_free(vp) inside vput gives back the reference of the page.       *)
FreeAndRelease(t, v, vp) ==
    /\ frame' = [frame EXCEPT ![vp] = FreeFrame]
    /\ Release(t, v, vnode[v].vn_refcount - 1)
    /\ UNCHANGED <<sched, vnode_inuse_list, linked, panic>>

WaitForPage(t, v, vp) ==
    /\ sched' = sched_sleep_on(sched, vp)
    /\ Goto(t, At("drain", v, vp, NULL))
    /\ UNCHANGED <<vnode, vnode_inuse_list, frame, linked, held, panic>>

(* Free the page once it is not busy; after the loop one reference is left *)
(* or an assertion fails.                                                  *)
Drain(t, v, vp) ==
    \/ frame[vp].pf_flags = "busy" /\ WaitForPage(t, v, vp)
    \/ /\ frame[vp].pf_flags # "busy"
       /\ IF vnode[v].vn_refcount # 2 THEN Fails("drained")
          ELSE FreeAndRelease(t, v, vp)

PutOK(v, n, pages) == pages < n /\ ~vnode[v].busy

vput(t, v) ==
    /\ Runs(t, "user") /\ held[t][v] > 0
    /\ IF ~PutOK(v, vnode[v].vn_refcount, Cardinality(PagesOf(v))) THEN Fails("vput")
       ELSE IF /\ Unreachable(v, vnode[v].vn_refcount, Cardinality(PagesOf(v)))
               /\ PagesOf(v) # {}
            THEN \E vp \in PagesOf(v) : Drain(t, v, vp)
            ELSE /\ Release(t, v, vnode[v].vn_refcount)
                 /\ UNCHANGED <<sched, vnode_inuse_list, frame, linked, panic>>

(* The wait for a busy page is over.  Whoever had it busy has freed it,    *)
(* perhaps, and it may serve another vnode by now.                         *)
vput_drain(t) ==
    /\ Runs(t, "drain")
    /\ IF frame[pc[t].pf].pf_obj # pc[t].vn THEN Fails("pframe_free")
       ELSE Drain(t, pc[t].vn, pc[t].pf)

(* Mutant: nobody is woken.                                                *)
delete_vnode_returns_Silent(t) ==
    /\ Runs(t, "delete")
    /\ vnode' = [vnode EXCEPT ![pc[t].vn] = FreeVnode]
    /\ vnode_inuse_list' = vnode_inuse_list \ {pc[t].vn}
    /\ Goto(t, User)
    /\ UNCHANGED <<sched, frame, linked, held, panic>>

(* delete_vnode has returned: wake whoever waits, and free the vnode.      *)
delete_vnode_returns(t) ==
    /\ Runs(t, "delete")
    /\ sched' = sched_broadcast_on(sched, pc[t].vn)
    /\ vnode' = [vnode EXCEPT ![pc[t].vn] = FreeVnode]
    /\ vnode_inuse_list' = vnode_inuse_list \ {pc[t].vn}
    /\ Goto(t, User)
    /\ UNCHANGED <<frame, linked, held, panic>>

-----------------------------------------------------------------------------
(* Pages of a vnode.  An operation marks its page busy, goes through the   *)
(* file system, and wakes whoever waits for the page.                      *)
(* pframe_alloc, pframe_fill; pframe_get may wake the pageout daemon.      *)
pframe_fill(t, v, f) ==
    /\ Runs(t, "user") /\ held[t][v] > 0
    /\ PagesOf(v) = {} /\ frame[f].pf_obj = NULL
    /\ frame' = [frame EXCEPT ![f] = [pf_obj |-> v, pf_flags |-> "busy"]]
    /\ vnode' = [vnode EXCEPT ![v].vn_refcount = @ + 1]
    /\ Goto(t, At("fill", NULL, f, NULL))
    /\ sched' \in {sched, sched_broadcast_on(sched, pageoutd_waitq)}
    /\ UNCHANGED <<vnode_inuse_list, linked, held, panic>>

(* pframe_dirty of a page that is dirty already is "redirty".              *)
pframe_dirty(t, f) ==
    /\ Runs(t, "user")
    /\ \E v \in Vnodes : held[t][v] > 0 /\ frame[f].pf_obj = v
    /\ frame[f].pf_flags # "busy"
    /\ frame' = [frame EXCEPT ![f].pf_flags = "busy"]
    /\ Goto(t, At(IF frame[f].pf_flags = "dirty" THEN "redirty" ELSE "dirty", NULL, f, NULL))
    /\ UNCHANGED <<sched, vnode, vnode_inuse_list, linked, held, panic>>

PageOps == {"fill", "dirty", "redirty", "clean"}

(* What an operation may leave.  One that fails to dirty a page leaves the *)
(* dirty bit as it was; one that fails to clean it sets the bit again.     *)
FlagsAfter(op) ==
    (IF op = "redirty" THEN {} ELSE {"clean"}) \union (IF op = "fill" THEN {} ELSE {"dirty"})

(* The page operation has returned.                                        *)
page_done(t) ==
    /\ Running /\ sched.curthr = t
    /\ pc[t].at \in PageOps
    /\ \E flags \in FlagsAfter(pc[t].at) :
          frame' = [frame EXCEPT ![pc[t].pf].pf_flags = flags]
    /\ sched' = sched_broadcast_on(sched, pc[t].pf)
    /\ Goto(t, User)
    /\ UNCHANGED <<vnode, vnode_inuse_list, linked, held, panic>>

(* pframe_free by the daemon: the page's reference goes with it.           *)
pframe_free(t, f, v) ==
    IF ~PutOK(v, vnode[v].vn_refcount, 0) THEN Fails("vput")
    ELSE /\ frame' = [frame EXCEPT ![f] = FreeFrame]
         /\ Release(t, v, vnode[v].vn_refcount)
         /\ UNCHANGED <<sched, vnode_inuse_list, linked, panic>>

(* One turn of the daemon's loop with some page of the allocated ones (the *)
(* order of alloc_list is left open).                                      *)
pageoutd_run(f) ==
    /\ Runs(pageoutd, "user") /\ frame[f].pf_obj # NULL
    /\ \/ /\ frame[f].pf_flags = "busy"
          /\ sched' = sched_sleep_on(sched, f)
          /\ UNCHANGED <<vnode, vnode_inuse_list, frame, linked, pc, held, panic>>
       \/ /\ frame[f].pf_flags = "dirty"
          /\ frame' = [frame EXCEPT ![f].pf_flags = "busy"]
          /\ Goto(pageoutd, At("clean", NULL, f, NULL))
          /\ UNCHANGED <<sched, vnode, vnode_inuse_list, linked, held, panic>>
       \/ /\ frame[f].pf_flags = "clean"
          /\ pframe_free(pageoutd, f, frame[f].pf_obj)

(* Enough pages are free: the daemon sleeps until it is needed.            *)
pageoutd_sleep ==
    /\ Runs(pageoutd, "user")
    /\ sched' = sched_cancellable_sleep_on(sched, pageoutd_waitq)
    /\ UNCHANGED <<vnode, vnode_inuse_list, frame, linked, pc, held, panic>>

-----------------------------------------------------------------------------
(* External: the file system sleeps and goes on, threads yield, and names  *)
(* are removed and made.                                                   *)
InFs(t) == pc[t].at \in {"read", "delete"} \union PageOps

fs_sleep(t) ==
    /\ Running /\ sched.curthr = t /\ InFs(t)
    /\ sched' = sched_sleep_on(sched, t)
    /\ UNCHANGED <<vnode, vnode_inuse_list, frame, linked, pc, held, panic>>

fs_wakeup(t) ==
    /\ Running /\ ~sched_queue_empty(sched, t)
    /\ sched' = sched_wakeup_on(sched, t)
    /\ UNCHANGED <<vnode, vnode_inuse_list, frame, linked, pc, held, panic>>

yield(t) ==
    /\ Runs(t, "user") /\ t \in Users
    /\ sched' = Yield(sched)
    /\ UNCHANGED <<vnode, vnode_inuse_list, frame, linked, pc, held, panic>>

dispatch ==
    /\ Running /\ CanDispatch(sched)
    /\ sched' = Dispatch(sched)
    /\ UNCHANGED <<vnode, vnode_inuse_list, frame, linked, pc, held, panic>>

unlink(t, v) ==
    /\ Runs(t, "user") /\ held[t][v] > 0
    /\ linked' = linked \ {vnode[v].vn_vno}
    /\ UNCHANGED <<sched, vnode, vnode_inuse_list, frame, pc, held, panic>>

(* A free inode is given a name.                                           *)
create(t, ino) ==
    /\ Runs(t, "user") /\ ino \notin linked /\ Cached(ino) = {}
    /\ linked' = linked \union {ino}
    /\ UNCHANGED <<sched, vnode, vnode_inuse_list, frame, pc, held, panic>>

Init ==
    /\ sched = [queue        |-> [q \in Queues |-> IF q = pageoutd_waitq THEN <<pageoutd>>
                                  ELSE IF q # kt_runq THEN <<>>
                                  ELSE CHOOSE s \in [1 .. Cardinality(Users) -> Users] :
                                           \A t \in Users : OnQueueOf(s, t)],
                kt_state     |-> [t \in Threads |-> IF t = pageoutd THEN "KT_SLEEP_CANCELLABLE"
                                                    ELSE "KT_RUN"],
                kt_wchan     |-> [t \in Threads |-> IF t = pageoutd THEN pageoutd_waitq
                                                    ELSE kt_runq],
                kt_cancelled |-> {},
                curthr       |-> NoThread]
    /\ vnode = [v \in Vnodes |-> FreeVnode]
    /\ vnode_inuse_list = {}
    /\ frame = [f \in Frames |-> FreeFrame]
    /\ linked = Inos
    /\ pc = [t \in Threads |-> User]
    /\ held = [t \in Threads |-> [v \in Vnodes |-> 0]]
    /\ panic = "no"

Step(t) ==
    \/ \E ino \in Inos : vget(t, ino) \/ create(t, ino)
    \/ \E v \in Vnodes : vput(t, v) \/ vref_held(t, v) \/ unlink(t, v)
    \/ \E f \in Frames : pframe_dirty(t, f)
    \/ \E v \in Vnodes, f \in Frames : pframe_fill(t, v, f)
    \/ yield(t)

Next ==
    \/ \E t \in Users : Step(t) \/ vget_again(t) \/ read_vnode_returns(t) \/ vput_drain(t)
    \/ \E t \in Threads : delete_vnode_returns(t) \/ page_done(t) \/ fs_sleep(t) \/ fs_wakeup(t)
    \/ \E f \in Frames : pageoutd_run(f)
    \/ pageoutd_sleep
    \/ dispatch

Spec == Init /\ [][Next]_vars

-----------------------------------------------------------------------------
(* vget never makes a second vnode for an inode, however the searches of   *)
(* several threads interleave with reading it in and taking it away.       *)
OneVnodePerInode ==
    \A v, w \in Vnodes : vnode[v].vn_vno = vnode[w].vn_vno /\ v # w => vnode[v].vn_vno = NULL

(* vn_refcount "counts every memory reference to the relevant vnode"       *)
(* (vnode.h, line 265): it is what the threads hold and the resident page, *)
(* so a vnode is never freed while somebody holds it.                      *)
RefcountExact ==
    \A v \in Vnodes :
        vnode[v].vn_refcount =
            Cardinality({r \in Threads \X (1 .. MaxHeld) : r[2] <= held[r[1]][v]})
            + Cardinality(PagesOf(v))

(* A thread asleep in vget sleeps on a vnode of the inode it wants, which  *)
(* is still in use: none is left behind on the queue of a freed vnode.     *)
SleepersOnLiveVnode ==
    \A t \in Threads, v \in Vnodes : OnQueue(sched, t, v) =>
        v \in vnode_inuse_list /\ pc[t].at = "find" /\ pc[t].ino = vnode[v].vn_vno

(* The assertions at the start of vref and vput hold: nobody takes or puts *)
(* a reference of a vnode that is busy or has none left.  (Others do fail: *)
(* the page vput waits for may be freed by the daemon, and a late vget may *)
(* meet an inode that is deleted or about to be.)                          *)
AssertionsHold == panic \notin {"vref", "vput"}

-----------------------------------------------------------------------------
(* The inductive invariant behind these properties.                        *)
CacheTypeOK ==
    /\ sched \in SchedState
    /\ vnode \in [Vnodes -> [vn_vno : Inos \union {NULL}, busy : BOOLEAN, vn_refcount : Nat]]
    /\ vnode_inuse_list \in SUBSET Vnodes
    /\ frame \in [Frames -> [pf_obj   : Vnodes \union {NULL},
                            pf_flags : {"clean", "dirty", "busy"}]]
    /\ linked \in SUBSET Inos
    /\ pc \in [Threads -> [at  : {"user", "find", "read", "delete", "drain"} \union PageOps,
                          vn  : Vnodes \union {NULL}, pf : Frames \union {NULL},
                          ino : Inos \union {NULL}]]
    /\ held \in [Threads -> [Vnodes -> 0 .. MaxHeld]]

(* A vnode that is listed and not busy has references, and no other has.   *)
ReferencedIffReady ==
    \A v \in Vnodes :
        /\ v \in vnode_inuse_list <=> vnode[v].vn_vno # NULL
        /\ vnode[v].vn_refcount > 0 <=> v \in vnode_inuse_list /\ ~vnode[v].busy

OnVnode(t) == pc[t].at \in {"read", "delete"}
OnPage(t)  == pc[t].at \in PageOps

(* What a thread relies on across its sleeps: room for one more reference, *)
(* its reference to the vnode it puts, and the vnode or page it has marked *)
(* busy, which no other thread has marked.                                 *)
KeptAcrossSleeps ==
    \A t \in Threads :
        /\ pc[t].at \in {"find", "read"} => HeldBy(t) < MaxHeld /\ pc[t].ino \in Inos
        /\ pc[t].at = "drain" =>
              pc[t].vn \in Vnodes /\ pc[t].pf \in Frames /\ held[t][pc[t].vn] > 0
        /\ OnVnode(t) => pc[t].vn \in vnode_inuse_list /\ vnode[pc[t].vn].busy
        /\ OnPage(t) => /\ pc[t].pf \in Frames /\ frame[pc[t].pf].pf_obj # NULL
                        /\ frame[pc[t].pf].pf_flags = "busy"
        /\ \A u \in Threads \ {t} :
              /\ OnVnode(t) /\ OnVnode(u) => pc[t].vn # pc[u].vn
              /\ OnPage(t) /\ OnPage(u) => pc[t].pf # pc[u].pf

CacheIInv ==
    /\ CacheTypeOK /\ ThreadsPlacedIn(sched)
    /\ OneVnodePerInode /\ RefcountExact /\ ReferencedIffReady /\ KeptAcrossSleeps
    /\ SleepersOnLiveVnode /\ AssertionsHold

(* "queue of threads waiting for vnode to become not busy" (vnode.h, line  *)
(* 253): nobody waits for a vnode that is not busy.                        *)
WaitersWaitForBusy ==
    \A t \in Threads, v \in Vnodes : OnQueue(sched, t, v) => vnode[v].busy
=============================================================================
