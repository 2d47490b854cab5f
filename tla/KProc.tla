------------------------------- MODULE KProc -------------------------------
(***************************************************************************)
(* The life cycle of weenix processes (proc/proc.c, proc/kthread.c):       *)
(* creation, exit, reparenting to the init process and do_waitpid, on the  *)
(* scheduler of KSched.  A process has one thread (no MTP), so a member of *)
(* Threads stands for a process object together with its thread, and it    *)
(* also names the process's p_wait queue.  Open files and memory maps are  *)
(* left out: closing them does not block here.  proc_kill is left out too. *)
(***************************************************************************)
EXTENDS KSched, FiniteSets, Functions

CONSTANTS
    Idle, InitProc,  \* the idle process and proc_initproc
    PROC_MAX_COUNT   \* number of pids

PID_IDLE == 0
PID_INIT == 1

NotWaiting == "not waiting"
AnyChild   == "any child"

ASSUME KProcAssumption ==
    /\ WaitQueues = Threads
    /\ Idle \in Threads /\ InitProc \in Threads /\ Idle # InitProc
    /\ IsFiniteSet(Threads)
    /\ PROC_MAX_COUNT \in Nat /\ PROC_MAX_COUNT > Cardinality(Threads)
    /\ {NotWaiting, AnyChild} \intersect Threads = {}

VARIABLES
    sched,
    p_state,    \* "none" (not allocated), "PROC_RUNNING" or "PROC_DEAD"
    p_pid, p_pproc, p_children,
    proc_list,  \* _proc_list
    next_pid,
    waiting     \* the local of do_waitpid: nothing, any child, or one child

procs == <<p_state, p_pid, p_pproc, p_children, proc_list, next_pid>>
vars  == <<sched, procs, waiting>>

(* A list after the one link of p has been taken out of it.                *)
Unlinked(seq, p) == Without(seq, CHOOSE i \in 1 .. Len(seq) : seq[i] = p)

(* Process p executes kernel code and is not inside do_waitpid.            *)
Runs(p) == sched.curthr = p /\ waiting[p] = NotWaiting /\ p # Idle

-----------------------------------------------------------------------------
(* Mutant: pids are not compared with those in use.                        *)
proc_getid_Unchecked == next_pid

(* _proc_getid: the first pid from next_pid on that no process of          *)
(* _proc_list has.                                                         *)
proc_getid ==
    LET used(k) == \E p \in Range(proc_list) :
                      p_pid[p] = (next_pid + k) % PROC_MAX_COUNT
        k == CHOOSE k \in 0 .. PROC_MAX_COUNT - 1 :
                /\ ~used(k)
                /\ \A j \in 0 .. k - 1 : used(j)
    IN  (next_pid + k) % PROC_MAX_COUNT

(* Mutant: next_pid does not wrap around.                                  *)
NextPid_Unwrapped(pid) == pid + 1

NextPid(pid) == (pid + 1) % PROC_MAX_COUNT

(* proc_create, kthread_create and sched_make_runnable: process p starts   *)
(* a child c.                                                              *)
proc_create(p, c) ==
    /\ Runs(p)
    /\ p_state[c] = "none"
    /\ p_pid' = [p_pid EXCEPT ![c] = proc_getid]
    /\ next_pid' = NextPid(proc_getid)
    /\ p_state' = [p_state EXCEPT ![c] = "PROC_RUNNING"]
    /\ p_pproc' = [p_pproc EXCEPT ![c] = p]
    /\ p_children' = [p_children EXCEPT ![p] = Append(@, c), ![c] = <<>>]
    /\ proc_list' = Append(proc_list, c)
    /\ sched' = sched_make_runnable(sched, c)
    /\ UNCHANGED waiting

(* Mutant: the init process does not learn of its new children.            *)
Reparented_Unlinked(p) == [p_children EXCEPT ![p] = <<>>]

(* The children lists after p has given its children to the init process;  *)
(* the list of p keeps stale links that nobody follows any more.           *)
Reparented(p) ==
    [p_children EXCEPT ![InitProc] = @ \o p_children[p], ![p] = <<>>]

(* Mutant: the parent is not woken.                                        *)
LeaveProcessor_Silent(p) == ThreadExit(sched)

(* The scheduler after p has woken its parent and left the processor.      *)
LeaveProcessor(p) == sched_wakeup_on(ThreadExit(sched), p_pproc[p])

(* proc_cleanup of the current process p: wake the parent if it waits,     *)
(* give the children to the init process, become a zombie and leave the    *)
(* processor for good.                                                     *)
proc_cleanup(p) ==
    /\ p_children' = Reparented(p)
    /\ p_pproc' = [c \in Threads |-> IF c \in Range(p_children[p]) THEN InitProc
                                     ELSE p_pproc[c]]
    /\ p_state' = [p_state EXCEPT ![p] = "PROC_DEAD"]
    /\ proc_list' = Unlinked(proc_list, p)
    /\ sched' = LeaveProcessor(p)
    /\ UNCHANGED <<p_pid, next_pid>>

(* do_exit sets p_status, but the kthread_exit it calls ends in            *)
(* proc_thread_exited, which cleans the process up with status 0: p_status *)
(* is 0 whatever the argument, and is left out.  The init process exits    *)
(* only when it has no children.                                           *)
do_exit(p) ==
    /\ Runs(p)
    /\ p = InitProc => p_children[p] = <<>>
    /\ proc_cleanup(p)
    /\ UNCHANGED waiting

-----------------------------------------------------------------------------
(* do_waitpid                                                              *)

Zombies(p) == {i \in 1 .. Len(p_children[p]) : p_state[p_children[p][i]] = "PROC_DEAD"}

(* The child the loop of do_waitpid disposes of when it waits for w: the   *)
(* first exited one, or w itself.                                          *)
FirstZombie(p) ==
    p_children[p][CHOOSE i \in Zombies(p) : \A j \in Zombies(p) : i <= j]

CanReap(p, w) ==
    IF w = AnyChild THEN Zombies(p) # {} ELSE p_state[w] = "PROC_DEAD"

(* Dispose of child c: unlink it and free the process object.              *)
Reap(p, c) ==
    /\ p_children' = [p_children EXCEPT ![p] = Unlinked(@, c)]
    /\ p_state' = [p_state EXCEPT ![c] = "none"]
    /\ waiting' = [waiting EXCEPT ![p] = NotWaiting]
    /\ sched' = [sched EXCEPT !.kt_state[c] = "KT_NO_STATE"]
    /\ UNCHANGED <<p_pid, p_pproc, proc_list, next_pid>>

(* One turn of the loop: dispose of the child or sleep on p_wait.          *)
WaitLoop(p, w) ==
    \/ /\ CanReap(p, w)
       /\ Reap(p, IF w = AnyChild THEN FirstZombie(p) ELSE w)
    \/ /\ ~CanReap(p, w)
       /\ sched' = sched_sleep_on(sched, p)
       /\ waiting' = [waiting EXCEPT ![p] = w]
       /\ UNCHANGED procs

(* The first child with this pid; without one, or without any child, the   *)
(* call returns -ECHILD and changes nothing.                               *)
HasPid(p, pid) == {i \in 1 .. Len(p_children[p]) : p_pid[p_children[p][i]] = pid}

do_waitpid_any(p) ==
    /\ Runs(p)
    /\ p_children[p] # <<>>
    /\ WaitLoop(p, AnyChild)

do_waitpid(p, pid) ==
    /\ Runs(p)
    /\ HasPid(p, pid) # {}
    /\ LET i == CHOOSE i \in HasPid(p, pid) : \A j \in HasPid(p, pid) : i <= j
       IN  WaitLoop(p, p_children[p][i])

(* sched_sleep_on returns inside do_waitpid.                               *)
waitpid_wakeup(p) ==
    /\ sched.curthr = p
    /\ waiting[p] # NotWaiting
    /\ WaitLoop(p, waiting[p])

-----------------------------------------------------------------------------
yield(p) ==
    /\ Runs(p)
    /\ sched' = Yield(sched)
    /\ UNCHANGED <<procs, waiting>>

dispatch ==
    /\ CanDispatch(sched)
    /\ sched' = Dispatch(sched)
    /\ UNCHANGED <<procs, waiting>>

(* The idle process has created the init process and waits for it.         *)
Init ==
    /\ sched = [queue        |-> [q \in Queues |-> CASE q = kt_runq -> <<InitProc>>
                                                   [] q = Idle    -> <<Idle>>
                                                   [] OTHER       -> <<>>],
                kt_state     |-> [t \in Threads |-> CASE t = InitProc -> "KT_RUN"
                                                      [] t = Idle     -> "KT_SLEEP"
                                                      [] OTHER        -> "KT_NO_STATE"],
                kt_wchan     |-> [t \in Threads |-> CASE t = InitProc -> kt_runq
                                                      [] t = Idle     -> Idle
                                                      [] OTHER        -> NoQueue],
                kt_cancelled |-> {},
                curthr       |-> NoThread]
    /\ p_state = [p \in Threads |-> IF p \in {Idle, InitProc} THEN "PROC_RUNNING" ELSE "none"]
    /\ p_pid = [p \in Threads |-> IF p = InitProc THEN PID_INIT ELSE PID_IDLE]
    /\ p_pproc = [p \in Threads |-> IF p = InitProc THEN Idle ELSE NoThread]
    /\ p_children = [p \in Threads |-> IF p = Idle THEN <<InitProc>> ELSE <<>>]
    /\ proc_list = <<Idle, InitProc>>
    /\ next_pid = 2
    /\ waiting = [p \in Threads |-> IF p = Idle THEN AnyChild ELSE NotWaiting]

Next ==
    \/ dispatch
    \/ \E p \in Threads :
          \/ do_exit(p) \/ do_waitpid_any(p) \/ waitpid_wakeup(p) \/ yield(p)
          \/ \E c \in Threads : proc_create(p, c)
          \/ \E pid \in 1 .. PROC_MAX_COUNT - 1 : do_waitpid(p, pid)

Spec == Init /\ [][Next]_vars

(* The scheduler keeps dispatching, a woken do_waitpid goes on, and no     *)
(* process keeps the processor for ever.                                   *)
Fairness ==
    /\ WF_vars(dispatch)
    /\ \A p \in Threads : WF_vars(waitpid_wakeup(p)) /\ WF_vars(yield(p))

FairSpec == Spec /\ Fairness

-----------------------------------------------------------------------------
(* Properties                                                              *)

Live(p) == p_state[p] = "PROC_RUNNING"

(* Every variable has its type.                                            *)
TypeOK ==
    /\ sched \in SchedState
    /\ p_state \in [Threads -> {"none", "PROC_RUNNING", "PROC_DEAD"}]
    /\ p_pid \in [Threads -> 0 .. PROC_MAX_COUNT - 1]
    /\ p_pproc \in [Threads -> Threads \union {NoThread}]
    /\ p_children \in [Threads -> Seq(Threads)]
    /\ proc_list \in Seq(Threads)
    /\ next_pid \in 0 .. PROC_MAX_COUNT - 1
    /\ waiting \in [Threads -> Threads \union {NotWaiting, AnyChild}]

(* Creating, exiting, reparenting and waiting never lose a thread; a       *)
(* zombie's thread has exited and is on no queue (the KASSERT of           *)
(* do_waitpid), a process that has not exited can still run.               *)
ThreadsPlaced ==
    /\ ThreadsPlacedIn(sched)
    /\ \A p \in Threads :
          /\ p_state[p] = "PROC_DEAD" <=> sched.kt_state[p] = "KT_EXITED"
          /\ Live(p) <=> sched.kt_state[p] \in {"KT_RUN"} \union Asleep

(* The family tree: p_pproc and p_children describe the same tree, every   *)
(* process but idle hangs below a process that has not exited, once, and   *)
(* zombies have no children.                                               *)
FamilyTree ==
    /\ \A p \in Threads : \A i, j \in 1 .. Len(p_children[p]) :
          p_children[p][i] = p_children[p][j] => i = j
    /\ \A p, c \in Threads :
          c \in Range(p_children[p]) <=> p_state[c] # "none" /\ c # Idle /\ p_pproc[c] = p
    /\ \A c \in Threads : p_state[c] # "none" /\ c # Idle =>
          p_pproc[c] \in Threads /\ Live(p_pproc[c])

(* Processes that have not exited have different pids, and proc_lookup     *)
(* finds exactly these processes.                                          *)
LivePidsDiffer ==
    /\ Range(proc_list) = {p \in Threads : Live(p)}
    /\ \A p, q \in Threads : Live(p) /\ Live(q) /\ p # q => p_pid[p] # p_pid[q]

(* A process asleep in do_waitpid sleeps for a reason: what it waits for   *)
(* has not exited.  The init process is the exception: it may inherit an   *)
(* exited child in its sleep, and proc_cleanup has woken only the parent.  *)
SleepersHaveReason ==
    \A p \in Threads \ {InitProc} :
        OnQueue(sched, p, p) => waiting[p] # NotWaiting /\ ~CanReap(p, waiting[p])

(* The inductive invariant has four more parts: a process is on _proc_list *)
(* once ...                                                                *)
ListedOnce ==
    \A i, j \in 1 .. Len(proc_list) : proc_list[i] = proc_list[j] => i = j

(* ... on a p_wait sleeps only its own process, inside do_waitpid; whoever *)
(* is inside do_waitpid has not exited, and waits for a child of its own   *)
(* ...                                                                     *)
WaitersKnown ==
    \A p \in Threads :
        /\ sched.kt_wchan[p] \in Threads =>
              sched.kt_wchan[p] = p /\ waiting[p] # NotWaiting
        /\ waiting[p] # NotWaiting => Live(p)
        /\ waiting[p] \in Threads => waiting[p] \in Range(p_children[p])

(* ... everybody descends from the init process: a set that holds it, and  *)
(* with a process all its children, holds them all but idle ...            *)
Closed(S) ==
    InitProc \in S /\ \A c \in Threads : p_state[c] # "none" /\ p_pproc[c] \in S => c \in S

DescendFromInit ==
    \A S \in SUBSET Threads : Closed(S) =>
        \A c \in Threads \ {Idle} : p_state[c] # "none" => c \in S

(* ... and the init process, the only one that may lack a parent to        *)
(* inherit its children, exits last.                                       *)
InitExitsLast ==
    /\ Live(Idle) /\ p_pproc[Idle] = NoThread
    /\ \A c \in Threads \ {Idle, InitProc} : p_state[c] # "none" => Live(InitProc)

ProcIInv ==
    /\ TypeOK /\ ThreadsPlaced /\ FamilyTree /\ LivePidsDiffer /\ SleepersHaveReason
    /\ ListedOnce /\ WaitersKnown /\ DescendFromInit /\ InitExitsLast

(* do_waitpid returns: a process that waits for a child that has exited    *)
(* disposes of it.                                                         *)
WaitReturns ==
    \A p \in Threads \ {InitProc} :
        waiting[p] # NotWaiting /\ CanReap(p, waiting[p]) ~> waiting[p] = NotWaiting
=============================================================================
