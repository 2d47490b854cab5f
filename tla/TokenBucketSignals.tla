------------------------ MODULE TokenBucketSignals -------------------------
(***************************************************************************)
(* <Cntrl+C> in warmup2.c: the thread that waits for SIGINT, and the       *)
(* signal handlers packet_cleanup and token_cleanup it triggers in the     *)
(* packet and token threads.  A handler runs at whatever point its thread  *)
(* has reached, after it has locked Mutex too; a critical section itself   *)
(* is one step here, so a handler never sees half of one.  It tries to     *)
(* lock Mutex, ignores the result, and unlocks it: when another thread is  *)
(* the owner, the build's (glibc's normal) mutex becomes free all the      *)
(* same.                                                                   *)
(***************************************************************************)
EXTENDS TokenBucket

VARIABLES
    int_pc,   \* where sigint_handler is
    pending,  \* threads with a SIGUSR1 or SIGUSR2 not yet delivered
    crashed   \* the process died of a NULL dereference

sigvars == <<int_pc, pending, crashed>>
allvars == <<vars, sigvars>>

unlocked == <<inputs, Bucket, counters, extras, served, packet>>

-----------------------------------------------------------------------------
(* sigint_handler                                                          *)

(* The user presses <Cntrl+C>; sigwait returns.                            *)
IntCatch ==
    /\ int_pc = "sigwait"
    /\ int_pc' = "lock"
    /\ UNCHANGED <<vars, pending, crashed>>

IntLock ==
    /\ int_pc = "lock"
    /\ mutex = "none"
    /\ mutex' = "sigint"
    /\ int_pc' = "kill_packet"
    /\ UNCHANGED <<unlocked, queues, Queue_Amount_Guard, stops, pc, pending, crashed>>

(* pthread_kill; to a thread that has exited it does nothing.              *)
Kill(t) == pending' = IF pc[t] = "done" THEN pending ELSE pending \union {t}

IntKillPacket ==
    /\ int_pc = "kill_packet"
    /\ Extra_Packet_Stop' = TRUE
    /\ Kill("packet")
    /\ int_pc' = "kill_token"
    /\ UNCHANGED <<unlocked, queues, Queue_Amount_Guard, Server_Stop, mutex, pc, crashed>>

(* Mutant: the token thread is left alone.                                 *)
IntKillToken_Forgotten ==
    /\ int_pc = "kill_token"
    /\ int_pc' = "stop"
    /\ UNCHANGED <<vars, pending, crashed>>

IntKillToken ==
    /\ int_pc = "kill_token"
    /\ Kill("token")
    /\ int_pc' = "stop"
    /\ UNCHANGED <<vars, crashed>>

IntStop ==
    /\ int_pc = "stop"
    /\ Server_Stop' = TRUE
    /\ int_pc' = "broadcast"
    /\ UNCHANGED <<unlocked, queues, Queue_Amount_Guard, Extra_Packet_Stop, mutex, pc,
                   pending, crashed>>

IntBroadcast ==
    /\ int_pc = "broadcast"
    /\ pc' = IF Q2 = <<>> THEN Broadcast(pc) ELSE pc
    /\ Unlock
    /\ int_pc' = "done"
    /\ UNCHANGED <<unlocked, queues, Queue_Amount_Guard, stops, pending, crashed>>

IntThread ==
    IntLock \/ IntKillPacket \/ IntKillToken \/ IntStop \/ IntBroadcast

-----------------------------------------------------------------------------
(* packet_cleanup and token_cleanup                                        *)

Trylock(t) == mutex' = IF mutex = "none" THEN t ELSE mutex

(* The handler interrupts thread t wherever it is.                         *)
Interrupt(t) ==
    /\ t \in pending
    /\ pc[t] \notin {"cleanup", "done"}
    /\ Trylock(t)
    /\ Goto(t, "cleanup")
    /\ UNCHANGED <<unlocked, stops, sigvars>>

PacketCleanup ==
    /\ Interrupt("packet")
    /\ Packet_List' = <<>> /\ Q1' = <<>>
    /\ UNCHANGED <<Q2, Queue_Amount_Guard>>

TokenCleanup ==
    /\ Interrupt("token")
    /\ Q2' = <<>>
    /\ Queue_Amount_Guard' = 0
    /\ UNCHANGED <<Packet_List, Q1>>

(* Mutant: the handler exits with Mutex locked.                            *)
CleanupExit_Locked(t) ==
    /\ pc[t] = "cleanup"
    /\ Goto(t, "done")
    /\ pending' = pending \ {t}
    /\ UNCHANGED <<unlocked, queues, Queue_Amount_Guard, stops, mutex, int_pc, crashed>>

(* The handler's last steps: unlock Mutex, whoever owns it, and exit.      *)
CleanupExit(t) ==
    /\ pc[t] = "cleanup"
    /\ Unlock
    /\ Goto(t, "done")
    /\ pending' = pending \ {t}
    /\ UNCHANGED <<unlocked, queues, Queue_Amount_Guard, stops, int_pc, crashed>>

Handlers == PacketCleanup \/ TokenCleanup \/ \E t \in {"packet", "token"} : CleanupExit(t)

(* The server dereferences My402ListFirst(&Q2) of an empty list.           *)
ServerCrash ==
    /\ pc["server"] = "take"
    /\ Q2 = <<>>
    /\ crashed' = TRUE
    /\ UNCHANGED <<vars, int_pc, pending>>

-----------------------------------------------------------------------------
SigInit ==
    /\ Init
    /\ int_pc = "sigwait"
    /\ pending = {}
    /\ crashed = FALSE

Emulate == Next /\ UNCHANGED sigvars

SigNext ==
    /\ ~crashed
    /\ Emulate \/ IntCatch \/ IntThread \/ Handlers \/ ServerCrash

SigSpec == SigInit /\ [][SigNext]_allvars

Runs(A) == ~crashed /\ A /\ UNCHANGED sigvars

(* As in TokenBucket; the SIGINT thread and pending handlers run too, but  *)
(* nobody has to press <Cntrl+C>.                                          *)
SigFairness ==
    /\ SF_allvars(Runs(PacketThread)) /\ SF_allvars(Runs(TokenThread))
    /\ SF_allvars(Runs(ServerThread)) /\ SF_allvars(Runs(ExtraThread))
    /\ SF_allvars(~crashed /\ IntThread)
    /\ WF_allvars(~crashed /\ Handlers)
    /\ WF_allvars(~crashed /\ ServerCrash)

SigFairSpec == SigSpec /\ SigFairness

-----------------------------------------------------------------------------
(* Properties                                                              *)

(* The SIGINT thread, the pending signals and the owner of Mutex have      *)
(* their types.                                                            *)
SigTypeOK ==
    /\ int_pc \in {"sigwait", "lock", "kill_packet", "kill_token", "stop",
                   "broadcast", "done"}
    /\ pending \subseteq {"packet", "token"}
    /\ crashed \in BOOLEAN
    /\ mutex \in Threads \union {"sigint", "none"}
    /\ pc \in [Threads -> Labels \union {"cleanup"}]
    /\ Bucket \in 0 .. B

(* However the handlers interrupt a thread, no thread exits and leaves     *)
(* Mutex locked behind it.                                                 *)
NoOrphanedMutex ==
    /\ mutex \in Threads => pc[mutex] # "done"
    /\ mutex = "sigint" => int_pc # "done"

(* The owner of Mutex is always at a point from which it will unlock it.   *)
OwnerActive ==
    /\ \A t \in Threads : mutex = t => InCriticalSection(t) \/ pc[t] = "cleanup"
    /\ mutex = "sigint" => int_pc \in {"kill_packet", "kill_token", "stop", "broadcast"}

(* The inductive invariant behind the theorems of TokenBucketProofs.       *)
SigIInv == FlowOK /\ PipelineOK /\ SigTypeOK /\ OwnerActive

(* <Cntrl+C> stops the arrivals: once SIGINT has been taken, the packet,   *)
(* token and batch threads all come to their end (or the process dies).    *)
CtrlCStopsArrivals ==
    int_pc = "lock" ~> \/ crashed
                       \/ \A t \in {"packet", "token", "extra"} : pc[t] = "done"

(* "server threads must finish serving its current packet must print       *)
(* statistics for all packet seen" (warmup2.c, line 810): after <Cntrl+C>  *)
(* the server comes to packet_statistics.                                  *)
CtrlCPrintsStatistics == Server_Stop ~> pc["server"] = "done"
=============================================================================
