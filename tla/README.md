# Verification of the course projects

The repository collects course projects. The ones with protocol state of their own are
the C programs under `Operating Systems/` (the multi-threaded token bucket filter of
Warmup Assignment 2 and the student part of the weenix kernel, Kernel Assignments 1
to 3) and the directory and file servers under `Computer Network/Project`; the checkers
program under `Artificial Intelligence/CS561-HW4` is a search whose pruning is worth
checking. This project models them in TLA+, checks them with TLC on small instances, and
proves central safety properties with TLAPS for every value of the constants.

Paths below are relative to the repository. `warmup2.c` is
`Operating Systems/Warmup Assignment/Warmup Assignment 2/warmup2.c`; `proc/`, `vm/` and
`fs/vnode.c` are those of
`Operating Systems/Kernel Assignment/Kernel Assignment 3/vm/kernel/`, the last version of
these files. The file system calls follow
`Operating Systems/Kernel Assignment/Kernel Assignment 2/vfs/kernel/fs/`, where ramfs is
the root file system; `file.c`, `vfs.c`, `ramfs.c` and `pframe.c` are those of
`Operating Systems/Kernel Assignment/weenix/kernel/`.

## Inventory

| Part | State | Operations | What is hard | What makes it correct |
|---|---|---|---|---|
| Token bucket filter (`warmup2.c`) | four lists, the bucket, `Queue_Amount_Guard`, counters, one mutex, one condition variable | packet, token and server threads, batch thread | conditional broadcasts, a counter kept beside a list, the shortcut past Q1, the end of the emulation | no packet lost, doubled or overtaken; tokens conserved; no lost wake-up; the emulation ends with complete statistics |
| `<Cntrl+C>` in `warmup2.c` | `Server_Stop`, `Extra_Packet_Stop`, pending signals | SIGINT thread, two signal handlers | handlers run anywhere and unlock a mutex they may not own | nobody dies with the mutex; arrivals stop; statistics are printed |
| `My402List` | links and a length | append, prepend, unlink, insert | pointer order | refines a sequence |
| Scheduler (`sched.c`) | run queue, wait queues, thread states | sleep, cancellable sleep, wake-up, cancel, switch | a thread must always be on the queue its `kt_wchan` names | no thread lost, none on two queues |
| Mutex (`kmutex.c`) | holder, wait queue | init, lock, cancellable lock, unlock | hand-over before the new holder runs, cancellation in between | exclusion, waiters are served, a failed lock holds nothing |
| Processes (`proc.c`, `kthread.c`) | process list, family tree, pids, exit states | create, exit, clean-up, waitpid, kill | reparenting, sleeping parents, pids that wrap around | the tree is a tree, waits end, the status arrives |
| Vnode cache (`fs/vnode.c`) | reference counts, `VN_BUSY` | vget, vref, vput, flush | sleeping while a vnode is loaded or evicted | counts match the users, nobody sleeps for ever |
| Open files (`fs/open.c`, `fs/vfs_syscall.c`, `fs/namev.c`) | descriptor tables, file and vnode counts | open, close, dup, dup2, link, ... | error paths that must give back what they took | counts balance on every path |
| ramfs (`fs/ramfs/ramfs.c`) | inodes, entries, link counts, lengths kept twice | create, mknod, mkdir, link, unlink, rmdir, read, write | what a name, an open file and a removed directory keep alive | no name and no file refers to a freed inode |
| Memory maps (`vm/vmmap.c`, `mmap.c`, `brk.c`, the copy in `fork.c`) | list of areas | insert, find a range, map, remove, break, clone | boundaries of ranges, the order of the list | agree with a map from pages to contents |
| Memory objects (`vm/anon.c`, `vm/shadow.c`, `vm/pagefault.c`) | reference counts, shadow chains | ref, put, lookup, fault | the last reference, chains | counts match, copy on write |
| Directory and file servers (`Computer Network/Project`) | the directory's list, sockets, children | register, request, answer, connect, send | datagrams lost or reordered, nobody repeats one, servers that register before they listen | the nearest holder serves; nobody waits for ever without a loss |
| Checkers (`csci561_hw4.cpp`) | board, alpha, beta | jumps, moves, alpha-beta search | equal values and cut-offs, code written twice for the two sides | the decision is optimal, the sides are alike |

The threads of `warmup2.c` interact only through the lists, the bucket and the two
stop flags, under one mutex; the kernel parts interact by calls on one processor that
never preempts, so control changes hands only in `sched_switch`. The three network
programs share nothing but messages. The list of hazards, each at its line, is in
`PROJECT.json`, with the properties that would catch it going wrong. Some have none, and a
note says why: most of these are faults that the code has, which the models contain and the
properties except (see "What the properties leave out").

## Modules

**`TokenBucket`** models `packet_arrival`, `token_arrival`, `server`,
`packet_statistics` and `prepare_extra_packet`. A thread takes `Mutex` in one step
(`Lock`) and runs its critical section in later ones, so the other threads interleave
everywhere outside critical sections; the server's test, its `pthread_cond_wait` and
its wake-up (also a spurious one) are separate steps. The lists are sequences of packet
numbers; `packet`, `serving` and `batch` are the locals that survive a step. `Init`
chooses the mode and the token needs and holds what `prepare_packet` leaves. Times are
abstracted: a sleep is a thread that has not yet taken its next step.

**`TokenBucketSignals`** extends it with `sigint_handler` and the handlers
`packet_cleanup` and `token_cleanup`. Each step of the SIGINT thread is an action,
because a handler may release the mutex it believes to own. A handler interrupts its
thread at any control point, inside the region where it owns `Mutex` too. What a
handler would see in the middle of a list operation is left out (a critical section is
one step). Two windows at start and end are left out as well: a signal before
`sigaction` has installed the handler, and `pthread_kill` of a joined thread.
`pthread_mutex_unlock` by a thread that is not the owner frees the mutex, which is what
glibc's default mutex does; the standard leaves it undefined.

**`KSched`** has the scheduler's functions as operators on a record: queues,
`kt_state`, `kt_wchan`, the cancelled threads and the current thread. `sched_switch` is
two steps: the caller leaves the processor, and `Dispatch` goes on once the run queue
is not empty (the loop around `intr_wait`). Interrupt levels are not modelled.

**`KMutex`** puts `kmutex.c` on top of it: any thread locks, locks cancellably,
unlocks, yields, cancels others and exits. What a lock call does after its sleep is an
action of its own. **`KProc`** puts `proc.c` on top of it: a process is identified with
its one thread; the child list, the process list and the pids are as in the code. A
reaped process object becomes available again. Open files and memory maps are left out
here, so clean-up does not block. The exit status is left out: the parent always reads
the 0 that the clean-up of `kthread_exit` passes.

**`VNodeCache`** puts `vget`, `vref` and `vput` on `KSched`, over an external file
system and disk in which a thread may sleep at any time, together with page frames
(each resident page holds a reference to its vnode) and the pageout daemon. What a
thread has still to do after it slept is in `pc`. Some assertions of the code can fail
(the page `vput` waits for is freed by the daemon, a late `vget` meets a vnode that is
being drained); the model goes there, records it in `panic` and stops. A page operation
may fail: a page that could not be dirtied keeps its dirty bit as it was, one that could
not be cleaned gets it back.

**`Ramfs`** has the in-memory file system and the vnode operations as it uses them,
as operators on a record; **`VFS`** puts descriptors, open files, path resolution, all
file system calls, process creation and exit, and the shutdown on top of it. Ramfs never
blocks, so a call is one step. Calls that end in undefined behaviour (`create` failing
inside `open_namev`, `dup2` to `NFILES`, a write behind the page) set `panic`.
`lost` counts the vnode references that `do_mknod` forgets. `dir_namev` puts a directory on
the way before it looks into it (`namev.c`, lines 231 and 232), which may have freed the
vnode; that is harmless, since a freed object keeps its contents and nothing is allocated
before the last look at it, and the model treats it so. Names are never too long here. A
device special file is always refused: the drivers of this kernel are
`NOT_YET_IMPLEMENTED`, so that no device can be registered.

**`VMMap`** has the list of areas in the order of `vmm_list` and the operations on it as
the code does them, wrapped unsigned differences and the list head read as an area
included. `do_mmap`, `do_munmap`, `do_brk` and the copy of `do_fork` are its actions.
Memory may run out: `vmmap_remove` then returns in the middle of its loop, `vmmap_map`
writes to the area it did not get and `do_fork` to the map (`panic`). An offset that is not
page aligned reaches the assertion in `vmmap_map`, as `do_mmap` does not check it.
After an assertion has failed, or after `vmmap_find_range` has chosen a range that is in
use (`misplaced`), nothing more is claimed. **`PageMap`** is what an address space
promises: a function from pages to contents, changed only by mapping a range, unmapping
one and growing an area. `VMMap` implements it with the page table read off by
`vmmap_lookup`. An offset is the number in `vma_off`, to which both modules add pages, as
the code does: `vmmap_map` stores bytes there, though `vmmap.h` says pages, so that only
for the offset 0, the only aligned one of the run, the number names the page meant.

**`FileSharing`** models `directory_server.c`, `file_server.c` and `client.c`. A step is
the code between two calls that communicate. Datagrams form a set from which any may be
received or lost (a datagram that comes before its port is bound is lost); connections
wait in a backlog; a file server's children answer on their own. A process may fail at
each call that may fail: a failed `fork` or `send` of a file server closes the connection
(`closed`), a failed `recv` ends it with all its connections, and a client that could not
send its request waits for an answer all the same (`"unsent"`). The client takes the end of
a connection for a document, as the code does. `fault` records losses, failed servers,
requests that were not sent and the use of the index that was never set.

**`Checkers`** has the moves, the end of the game and the alpha-beta search of
`csci561_hw4.cpp` as (recursive) operators; `process` decides a board. The reference is
`MinMax`, the search without pruning. As in the code, nobody is crowned.

The `MC...` modules instantiate the models for TLC.
Operators named `X_Something` and marked "Mutant" are faulty variants of `X`, kept to
show that a property would notice the fault; no specification uses them.

The `...Proofs` modules hold the theorems: **`TokenBucketProofs`** (of `TokenBucket` and of
`TokenBucketSignals`, which share the lemmas on lists), **`KSchedProofs`** (lemmas on the
scheduler's operators that the next three share), **`KMutexProofs`**, **`KProcProofs`**,
**`VNodeCacheProofs`**, **`VFSProofs`**, **`VMMapProofs`** and **`FileSharingProofs`**.

## Runs

| Run | Instance | Shows |
|---|---|---|
| `token_bucket` | B = 2, 3 packets, needs 0..3, batches of 1, both modes | types, `GuardCountsQ2`, `NoLostWakeup`, `PacketsInOrder`, `PacketsConserved`, `TokensConserved`, `StatisticsComplete`, `EmulationCompletes` |
| `ctrl_c` | B = 1, 3 packets in batches of 2 | `NoOrphanedMutex`, `PacketsInOrder`, `CtrlCStopsArrivals` |
| `kmutex` | 3 threads | `ThreadsPlaced`, `MutualExclusion`, `WaitersHaveHolder`, `LockGranted` |
| `kproc` | idle, init and 3 processes, 6 pids | `ThreadsPlaced`, `FamilyTree`, `LivePidsDiffer`, `SleepersHaveReason`, `WaitReturns` |
| `vfs` | 1 process, 2 descriptors, 3 inodes, 3 entries a directory, pages of 1 byte | `FileRefsExact`, `VnodeRefsExact`, `LinksKeepInodes`, `LengthsAgree` |
| `vnode` | 3 users and the pageout daemon, 2 vnodes, 1 frame, 2 inodes | `OneVnodePerInode`, `RefcountExact`, `SleepersOnLiveVnode`, `AssertionsHold` |
| `vmmap` | 5 pages of 2 bytes, up to 3 areas before a step, ranges of 1 to 3 pages, offsets aligned and not | `AreasDisjoint`, `FindRangeRight`, `RemoveExact`, `ImplementsPageMap` |
| `file_sharing` | 3 file servers, 2 clients | `AnswersAfterRegistration`, `ServedByNearest`, `ClientsEnd` |
| `checkers` | all boards of 4 by 4 squares with 2 or 3 pieces, depth 4 | `DecisionOptimal`, `SidesEqual` |
| `ctrl_c_statistics` | violated | the server sleeps through the stop broadcast |
| `kmutex_eintr` | violated | a cancelled lock call keeps the mutex |
| `vnode_waiters` | violated | a thread sleeps on a vnode that is no longer busy |

The three violated runs state what a comment of the code promises; `PROJECT.json`
quotes the comment and says what happens instead.

### What the properties leave out

Some properties hold only beside faults of the code. What they except is in the models, so
that a trace may go there; these are the exceptions.

- `FindRangeRight` says that a range found (high to low) is free, in memory and in the
  highest gap that fits, and that one is found whenever there is one above the first area.
  The comment of `vmmap_find_range` (`vmmap.c`, lines 184 to 190) says more, that -1 is
  returned only if no range is free: an empty address space and a gap below the first area
  are missed, the latter because the list head is read as an area. It is stated for lists in
  order; `vmmap_insert` does not keep a list of three areas sorted, and a range chosen from
  such a list may be in use.
- `DecisionOptimal` says nothing when every move loses. The comment of `alpha_beta`
  (`csci561_hw4.cpp`, line 973) asks for the best move there too, but no value is above the
  alpha it starts from, and a decision that was never set is printed.
- `ImplementsPageMap` takes a mapping that fails after the old one was removed for a step
  that unmaps; the comment of `vmmap_map` (`vmmap.c`, lines 388 to 390) asks for all or
  nothing.
- `EmulationCompletes` and `StatisticsComplete` are about packets that are loaded before the
  start: with batches the packet thread may exit while one is still to come.
- `SleepersHaveReason` and `WaitReturns` except init, which may sleep although it has
  inherited an exited child.
- `RefcountExact` and `AssertionsHold` end where `vput`, waiting for a page, finds it freed
  or its vnode taken again, and the kernel stops.
- `FileRefsExact` ends at `dup2` to `NFILES`, which writes behind the descriptor table.
- `VnodeRefsExact` has a term for the references that `do_mknod` forgets.
- `ClientsEnd` excepts lost datagrams, servers that fail before they have registered,
  a directory server that fails and a request that could not be sent; a connection that is
  refused or closed is an end.
- `SidesEqual` compares the loops, orders of moves and bounds that the search has for each
  side, the value of a board and the end of the game. The copies of the code for a move are
  one definition in the model.

`LinksKeepInodes` holds for paths that do not end in `.` or `..` (`NoDotPaths`; names
inside a path are free). With such paths it does not (TLC finds this as well): `do_unlink`
lacks the test of the last component that `do_rmdir` makes (`vfs_syscall.c`, line 440).
After `mkdir /a`, `mkdir /a/b`, `chdir /a/b`, `rmdir /a/b` and `rmdir /a`, the entry `..`
of the working directory names a freed inode; `open` with `O_CREAT` gives that inode to a
new file, and `unlink ..` then takes the file's link, so it is freed while its name is in
use. The other three properties of `vfs`, and that an open file's inode is never free, are
proved with any paths.

### Bounds and fairness

Bounds. Three packets are enough for one to be served, one in Q2 or Q1 and one to
arrive; needs run from nothing to more than the bucket holds. `MaxDiscard` bounds the
tokens that reach a full bucket while no packet waits: nothing but two counters changes
then. Three threads give a holder, a waiter and a third party for the mutex. Three
processes below init give a grandparent, a parent and a child; with six pids and five
processes pids wrap around. Three users and the daemon give a thread that loads or drops a
vnode, two that meet it busy, and one that frees its page; two vnode objects let one be
used again for another inode. In `vfs` three inodes are a root, a directory and a file,
and a third entry per directory is the first free one, so that both run out; `MaxLost`
and `MaxLinks` bound the two counts that only grow. In `vmmap` five pages hold the data
segment and ranges on both sides of it; the lengths 0, 3 and 4 bytes give one, two and
three pages, the last one page more than asked for. The documents and costs in
`file_sharing` are those that tell the holders apart: the nearest one last or in the middle,
alone or not, two equally near, and no holder at all. Three file servers are the number in
the program, and so are two clients, which compete for a server. Four
squares a side leave room for jumps in every direction and for boards without a move.
Deadlock is not checked: all these systems may come to their end.

Fairness. `TokenBucket`: every thread that can go on does, and one that finds the mutex
free again and again gets it (strong fairness per thread); the threads sleep between
their rounds and hold the mutex only for a few statements. A spurious wake-up is never
assumed. `TokenBucketSignals` adds the SIGINT thread and the pending handlers, but never
assumes that `<Cntrl+C>` is pressed. `KMutex` and `KProc`: the scheduler dispatches,
woken calls return, and no thread keeps the processor for ever, which in a kernel
without preemption is a demand on the threads; `LockGranted` also needs holders that
unlock. `FileSharing`: every process that can go on does (weak fairness); a datagram that
is not lost is received, and nobody is assumed to repeat one. That `recvfrom`, `recv` or a
directory server's `sendto` fails is never assumed. A file server may fail at any request,
without a fault: its clients see their connections closed.

## Proofs

Each theorem is `Spec => []Inv`, or a refinement, for every value of the constants that the
module's assumption admits; the properties they state are checked by the runs as well. Each
component has one inductive invariant, a conjunction of named parts, of which the properties
are parts or consequences.

**Token bucket** (`TokenBucketAssumption`: sizes are natural numbers).
`TypeCorrect`, `QueuesProtected`, `GuardCorrect` and `WakeupsSuffice` follow from `IInv`:
the types, `ControlOK`, `MutualExclusion`, `GuardCountsQ2` and `NoLostWakeup`. None is
inductive alone: `NoLostWakeup` needs that the server's test and its wait see the same Q2,
hence mutual exclusion, and that the guard it tests is the length of Q2.
`OrderKept` and `NothingLost` rest on `FlowOK` and `PipelineOK`: the lists, read as one
pipeline from the report back to `Packet_List`, increase and hold created packets only; a
step moves a packet across one border, appends a batch at the end, or drops one. They need
no mutual exclusion. `ReportComplete` adds `ServiceOK` (a packet the bucket cannot pay for
never gets past `packet_arrival`; the server that leaves has seen every list empty, and none
grows again). `TokensAccounted` needs what the packets of a list cost; `Cost` is a recursive
function over sequences, and the proof adds up prefixes by induction on their length.

**`<Cntrl+C>`.** `SigTypeCorrect`, `MutexNotOrphaned` and `OrderKeptUnderSignals` come
from `SigIInv`: `FlowOK` and `PipelineOK` again, the types, and `OwnerActive` (the owner of
`Mutex` is at a point from which it will unlock it). Mutual exclusion and the guard are not
parts of it: the handlers break them, and the order of the packets survives that.

**Scheduler and mutex** (`KSchedAssumption`, `KMutexAssumption`: `NoThread` is no thread,
`NoQueue` no queue, the run queue no wait queue). `KSchedProofs`: linking, unlinking and
joining queues keep `LinkedOnce`, and each operator of the scheduler keeps `ThreadsPlacedIn`
and changes only the fields it should. `KMutexProofs`: `TypeCorrect`, `NoThreadLost`,
`MutexExcludes`, `WaitersAreServed`, from these properties with `HandedOver` (a waiter that
left `km_waitq` without being cancelled is the holder) and `WaitersLock` (only lock calls
wait, and only the cancellable one is cancelled asleep).

**Processes** (`KProcAssumption`: finitely many process objects, idle and init among them
and different, and more pids than objects, where the code has far more). `ProcTypes`,
`ThreadsKept`, `OneFamily`, `PidsUnique`, `NoLostExit`. `ProcIInv` joins the five properties
with four parts. `ListedOnce`: taking a process off `_proc_list` takes it off for good.
`WaitersKnown`: whoever sleeps on a `p_wait` is its own process, inside `do_waitpid`, for a
child of its own, so the one that `proc_cleanup` wakes is the parent. `DescendFromInit`: a
set that holds init and is closed under "child of" holds every process but idle. This is
the tree without cycles, stated so that a step can be proved by choosing the set; it shows
that no process is its own parent, and with `InitExitsLast` that somebody is there to
inherit the children. `PidsUnique` also needs that the search of `_proc_getid` ends: if
every pid it can try were taken, two of them would belong to one process (the pigeonhole
principle), and counting up from `next_pid` meets each pid once.

**Vnode cache** (`VNodeCacheAssumption`: finite sets of threads, vnodes and frames, whose
queues differ, and a bound on the references a thread holds). `OneVnode`, `RefcountsRight`,
`NobodyLeftBehind`, `RefAssertions`. `CacheIInv` adds to the properties `CacheTypeOK`,
`ReferencedIffReady` (a vnode has references exactly when it is listed and not busy),
`KeptAcrossSleeps` (what a thread that sleeps relies on when it goes on: its reference, and
the vnode or page it marked busy, which nobody else has marked) and the placing of the
threads. `OneVnode` is the consequence of busy vnodes staying on the list while they are
read or taken away; the counts are sums over threads and frames, and a step changes them at
one thread.

**Directory and file servers** (`FileSharingAssumption`: costs are positive, which the code
needs because it takes -1 for "none yet"). `AnswersCompleteList`, `NearestServes`.
`ShareIInv`: `ShareTypeOK`; `RegistrationsCounted` (the directory counts every file server
once, which holds because nobody repeats a datagram); `AnswersDecided` (an answer on its
way, and what a client was told, came from the complete list, also if the client has
failed since); `ConnectionsExpected` (a server has connections only with clients that were
told to come). The search for the
cheapest server is `contained_server_id`, a recursive function over the servers; that it
finds a nearest holder is proved by looking at the first server at which it would be wrong.

**Files and ramfs** (`VFSAssumption`: finitely many processes, paths of non-empty names, flags
and modes as the calls can get them). `SettledAlways`, `TypeCorrect`, `FileRefsExactThm`,
`VnodeRefsExactThm`, `LinksKeepInodesThm`, `LengthsAgreeThm`, `DescriptorsLiveThm`. The
inductive invariant `IInv` is `Settled(st)`. It joins the four properties with the types and
three parts: `FreeEmpty` (a free inode has no size and no links), `InUse` (a cached vnode has
an inode that is not free) and `FilesOK` (a file in use has a vnode, a closed one has none).
A call is a chain of operators on the record, and inside it the counts are not exact, so each
operator is proved to follow from what it gets with the references as they were (`Even`),
with one more (`Up`) or with one less (`Down`) to one vnode, and the calls are proved by
adding these up: `Midway(s, y, d)` is the invariant with a file `y` that is being opened or
closed and a reference to `d` in hand. That an error path forgets a `vput` would show as a
chain that does not end in `Settled`. What an exhausted table does is part of it: a file is
free when a descriptor is, because there are as many files as descriptors of all processes
(the pigeonhole principle), and its count is then 0. The loops, over the components of a path
and over the descriptors of an exiting process, are recursive functions in the model, and
what each keeps is shown at the first index at which it would fail. `LinksKeepInodes` cannot
be proved without the counts of vnodes: the link that a cached vnode holds is dropped by the
`vput` that takes its count to 0.

**Memory maps** (`VMMapAssumption`: page 0 is not user memory, the break lies in it, a
page has at least a byte). `VMInvariant`, `NoOverlap`, `RemovesExactly`, `FindsRange`,
`RefinesPageMap`. `VMIInv` is `AreasDisjoint` with the types of areas, which may be empty
(`vmmap_remove` leaves one when the range ends where the area does) and occur twice. The
heart is `vmmap_remove`: `CutUpTo` says of its loop that after k areas what is left covers
exactly the pages of the others and those of the first k outside the range, each showing
what it showed, and that the areas to come are still listed; the four cases keep it
because no page has two areas. Shown so, the result does not depend on the order of the
list. From it and from `vmmap_is_range_empty` (no area touches the range), each operation
unmaps, remaps or grows one range, which is a step of `PageMap`. When memory runs out in
`vmmap_remove`, `CutUpTo` of the areas before says that nothing has changed: the area that
is split is the only one that the range touches. `FindsRange` needs the order of the list as
a hypothesis, and no invariant gives it: `vmmap_insert` puts a new area after the first that
starts below it, so lists get out of order. That the highest gap is taken is shown from
`FreeIsInGap`: a free range above the first area lies in the gap above the last area that
ends below it.

Out of the prover's reach and only model-checked: the liveness properties
(`EmulationCompletes`, `CtrlCStopsArrivals`, `LockGranted`, `WaitReturns`, `ClientsEnd`) and
the two properties of `Checkers` (`DecisionOptimal`, `SidesEqual`), whose search is
recursive. Every other property of a passing run is a theorem, and so is `LinksKeepInodes`
under its condition on paths. Where an argument is an
induction over data (the prefixes in `TokensAccounted`, the servers in `NearestServes`, the
areas in `RemovesExactly`, the loops of `VFS`), it is made by the least counterexample,
which exists because the natural numbers are well-founded.

## Plan

1. Done: `TokenBucket`, `TokenBucketSignals`, `KSched`, `KMutex`, `KProc`, `VNodeCache`,
   `Ramfs`, `VFS`, `VMMap` with `PageMap`, `FileSharing`, `Checkers`.
2. Proved: every safety property that a passing run checks, except those of `Checkers`, and
   that `VMMap` implements `PageMap`.
3. Left: a violated run for the paths that end in `..`; memory objects (`anon.c`,
   `shadow.c`) with `do_fork`, once a child can run; `vnode_flush_all` with the cache.

## Not modelled

- Memory objects and page faults: only user programs reach them, and `do_fork` never
  makes a child runnable; `vmmap_read` and `vmmap_write` copy bytes.
- `proc_kill` and `proc_kill_all`, which free a thread that may be linked on a queue: what
  follows is undefined. `kthread_clone` is called by `do_fork` only. `vnode_flush_all` runs
  once, when the file system is unmounted.
- The system call layer and `kmain.c` (argument copying, boot and test programs), and
  what the course provides of weenix: page and slab allocators, drivers, S5FS, the ELF
  headers, the C library and user programs. This is most of the lines of the repository;
  the student code that the models cover is a small part of it, and Kernel
  Assignments 1 and 2 repeat it in earlier states.
- Warmup Assignment 1 and the pointers of `My402List`: sequential list code.
- The other AI homeworks, and the database and web exercises: sequential batch programs
  without protocol state, best tested on their sample inputs.
- Data races: where the code writes through a pointer it should not have, the models
  stop.

Weak points of the code that no property is about: `sched_switch` restores the old
thread's interrupt level before the context switch (`sched.c`, line 278); `_proc_getid`
returns -1 when every pid is in use and `proc_create` takes it as a pid (`proc.c`,
line 99); the exit status is written twice, the second time as 0 (`proc.c`, line 353);
`vnode_flush_all` frees pages while it walks the lists they are on (`vnode.c`, line 397);
`vma_off` is set in bytes and moved in pages (`vmmap.c`, line 456); `do_fork` gives every
private area of the child the same object (`fork.c`, line 86); the idle and the init
process share one reference to the root (`kmain.c` of assignment 2, line 220); the
directory server cuts a character off lines that end in LF alone
(`directory_server.c`, line 195); the checkers program crowns nobody.
