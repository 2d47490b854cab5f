---------------------------- MODULE TokenBucket ----------------------------
(***************************************************************************)
(* The multi-threaded token bucket filter of Warmup Assignment 2           *)
(* (warmup2.c) while nobody presses <Cntrl+C>: the packet arrival thread,  *)
(* the token arrival thread, the server and the thread that prepares       *)
(* packets in batches when there are more than MAX_PROCESS_NUM of them.    *)
(* TokenBucketSignals adds the SIGINT thread and the signal handlers.      *)
(*                                                                         *)
(* A thread acquires Mutex in one step and runs the critical section in    *)
(* later steps.  The sleeps are arbitrarily long: a thread that sleeps     *)
(* simply has not taken its next step yet.  Packets are numbered in the    *)
(* order in which they are created.                                        *)
(***************************************************************************)
EXTENDS Integers, Sequences, FiniteSets, Functions

CONSTANTS
    B,               \* token bucket capacity (-B)
    Num,             \* number of packets (-n, or the lines of the trace file)
    MAX_PROCESS_NUM, \* size of a batch of prepared packets (warmup2.h)
    Needs,           \* the token requirements a packet may have (-P, or the trace)
    Modes,           \* the run modes considered
    MaxDiscard       \* bound: tokens that may arrive to find a full bucket

RunModes == {"DETERMINISTIC", "TRACE_DRIVEN"}

ASSUME TokenBucketAssumption ==
    /\ B \in Nat
    /\ Num \in Nat
    /\ MAX_PROCESS_NUM \in Nat \ {0}
    /\ Needs \subseteq Nat
    /\ Modes \subseteq RunModes
    /\ MaxDiscard \in Nat

VARIABLES
    Mode, tokens_need,                    \* fixed by the command line or the trace
    Packet_List, Q1, Q2, Collect_List,    \* the four My402Lists
    Bucket, Queue_Amount_Guard, Left_Num,
    Total_Packet, Discard_Packet, Total_Token, Discard_Token,
    Server_Stop, Extra_Packet_Stop,
    mutex,     \* the thread that owns Mutex, or "none"
    packet,    \* packet_arrival's local: the packet it sleeps for
    serving,   \* server's local: <<the packet it transmits>>, or <<>>
    batch,     \* prepare_extra_packet's local num
    Reported,  \* what packet_statistics covered when the server stopped
    pc         \* where each thread is

queues   == <<Packet_List, Q1, Q2>>
counters == <<Total_Packet, Discard_Packet, Total_Token, Discard_Token>>
inputs   == <<Mode, tokens_need>>
stops    == <<Server_Stop, Extra_Packet_Stop>>
extras   == <<Left_Num, batch>>
served   == <<serving, Collect_List, Reported>>
vars     == <<inputs, queues, Bucket, Queue_Amount_Guard, counters, stops,
              extras, served, mutex, packet, pc>>

Packets == 1 .. Num
Threads == {"packet", "token", "server", "extra"}
Labels  == {"lock", "next", "sleep", "arrive", "tick", "check", "take", "wait",
            "blocked", "wakeup", "serve", "test", "add", "done"}
NoPacket == 0

Smaller(m, n) == IF m < n THEN m ELSE n
(* The packets that have been created: the others are still in Left_Num.   *)
Created == Num - Left_Num - batch
Numbers(lo, hi) == [i \in 1 .. (hi - lo) |-> lo + i]

-----------------------------------------------------------------------------
(* Where threads are, and what they may touch there.                       *)

InCriticalSection(t) ==
    pc[t] \in {"next", "arrive", "tick", "check", "take", "wait", "add"}

Goto(t, l) == pc' = [pc EXCEPT ![t] = l]

Lock(t, from, to) ==
    /\ pc[t] = from
    /\ mutex = "none"
    /\ mutex' = t
    /\ Goto(t, to)
    /\ UNCHANGED <<inputs, queues, Bucket, Queue_Amount_Guard, counters, stops,
                   extras, served, packet>>

Unlock == mutex' = "none"

(* pthread_cond_broadcast: only the server ever waits on the condition.    *)
Broadcast(newpc) ==
    IF newpc["server"] = "blocked" THEN [newpc EXCEPT !["server"] = "wakeup"]
                                   ELSE newpc

(* Mutant: the guard is counted only together with the broadcast.          *)
MoveToQ2_CountsOnce(p, t, l) ==
    /\ Q2' = Append(Q2, p)
    /\ Queue_Amount_Guard' = Queue_Amount_Guard + (IF Q2 = <<>> THEN 1 ELSE 0)
    /\ pc' = IF Q2 = <<>> THEN Broadcast([pc EXCEPT ![t] = l])
                          ELSE [pc EXCEPT ![t] = l]

(* Mutant: Q2 is tested after the packet has been appended to it.          *)
MoveToQ2_TestsLate(p, t, l) ==
    /\ Q2' = Append(Q2, p)
    /\ Queue_Amount_Guard' = Queue_Amount_Guard + 1
    /\ pc' = IF Q2' = <<>> THEN Broadcast([pc EXCEPT ![t] = l])
                           ELSE [pc EXCEPT ![t] = l]

(* Packet p enters Q2 and thread t goes on to l; the server is woken when  *)
(* Q2 was empty before.                                                    *)
MoveToQ2(p, t, l) ==
    /\ Q2' = Append(Q2, p)
    /\ Queue_Amount_Guard' = Queue_Amount_Guard + 1
    /\ pc' = IF Q2 = <<>> THEN Broadcast([pc EXCEPT ![t] = l])
                          ELSE [pc EXCEPT ![t] = l]

-----------------------------------------------------------------------------
(* packet_arrival                                                          *)

PacketLockNext == Lock("packet", "lock", "next")

PacketNext ==
    /\ pc["packet"] = "next"
    /\ Unlock
    /\ \/ /\ Packet_List = <<>>
          /\ Goto("packet", "done")
          /\ UNCHANGED <<packet, Total_Packet>>
       \/ /\ Packet_List # <<>>
          /\ packet' = Head(Packet_List)
          /\ Total_Packet' = Total_Packet + 1
          /\ Goto("packet", "sleep")
    /\ UNCHANGED <<inputs, queues, Bucket, Queue_Amount_Guard, Discard_Packet,
                   Total_Token, Discard_Token, stops, extras, served>>

PacketLockArrive == Lock("packet", "sleep", "arrive")

(* Mutant: a dropped packet is not counted.                                *)
PacketDrop_Uncounted ==
    /\ tokens_need[packet] > B
    /\ Goto("packet", "lock")
    /\ UNCHANGED <<Q1, Q2, Bucket, Queue_Amount_Guard, Discard_Packet>>

(* A packet that needs more tokens than the bucket can ever hold.          *)
PacketDrop ==
    /\ tokens_need[packet] > B
    /\ Discard_Packet' = Discard_Packet + 1
    /\ Goto("packet", "lock")
    /\ UNCHANGED <<Q1, Q2, Bucket, Queue_Amount_Guard>>

PacketWaitInQ1 ==
    /\ tokens_need[packet] <= B
    /\ ~(Bucket >= tokens_need[packet] /\ Len(Append(Q1, packet)) = 1)
    /\ Q1' = Append(Q1, packet)
    /\ Goto("packet", "lock")
    /\ UNCHANGED <<Q2, Bucket, Queue_Amount_Guard, Discard_Packet>>

(* Mutant: a packet passes Q1 although others wait in it.                  *)
PacketPassQ1_Overtakes ==
    /\ tokens_need[packet] <= B
    /\ Bucket >= tokens_need[packet]
    /\ Bucket' = Bucket - tokens_need[packet]
    /\ MoveToQ2(packet, "packet", "lock")
    /\ UNCHANGED <<Q1, Discard_Packet>>

(* Mutant: the tokens of a packet that passes Q1 stay in the bucket.       *)
PacketPassQ1_Unpaid ==
    /\ tokens_need[packet] <= B
    /\ Bucket >= tokens_need[packet] /\ Len(Append(Q1, packet)) = 1
    /\ MoveToQ2(packet, "packet", "lock")
    /\ UNCHANGED <<Q1, Bucket, Discard_Packet>>

(* Mutant: the bucket is not consulted.                                    *)
PacketPassQ1_OnCredit ==
    /\ tokens_need[packet] <= B
    /\ Len(Append(Q1, packet)) = 1
    /\ Bucket' = Bucket - tokens_need[packet]
    /\ MoveToQ2(packet, "packet", "lock")
    /\ UNCHANGED <<Q1, Discard_Packet>>

PacketPassQ1 ==
    /\ tokens_need[packet] <= B
    /\ Bucket >= tokens_need[packet] /\ Len(Append(Q1, packet)) = 1
    /\ Bucket' = Bucket - tokens_need[packet]
    /\ MoveToQ2(packet, "packet", "lock")
    /\ UNCHANGED <<Q1, Discard_Packet>>

(* Mutant: the packet stays in Packet_List.                                *)
PacketArrive_NotUnlinked ==
    /\ pc["packet"] = "arrive"
    /\ PacketDrop \/ PacketWaitInQ1 \/ PacketPassQ1
    /\ Unlock
    /\ UNCHANGED <<inputs, Packet_List, Total_Packet, Total_Token, Discard_Token,
                   stops, extras, served, packet>>

PacketArrive ==
    /\ pc["packet"] = "arrive"
    /\ PacketDrop \/ PacketWaitInQ1 \/ PacketPassQ1
    /\ Packet_List' = Tail(Packet_List)
    /\ Unlock
    /\ UNCHANGED <<inputs, Total_Packet, Total_Token, Discard_Token, stops,
                   extras, served, packet>>

PacketThread == PacketLockNext \/ PacketNext \/ PacketLockArrive \/ PacketArrive

-----------------------------------------------------------------------------
(* token_arrival                                                           *)

(* Bound: a token that would only be dropped arrives MaxDiscard times.     *)
TokenWithinBound ==
    \/ Bucket < B
    \/ Q1 # <<>>
    \/ Packet_List = <<>>
    \/ Discard_Token < MaxDiscard

TokenWake ==
    /\ pc["token"] = "sleep"
    /\ TokenWithinBound
    /\ Total_Token' = Total_Token + 1
    /\ Goto("token", "lock")
    /\ UNCHANGED <<inputs, queues, Bucket, Queue_Amount_Guard, Total_Packet,
                   Discard_Packet, Discard_Token, stops, extras, served, mutex,
                   packet>>

TokenLock == Lock("token", "lock", "tick")

(* Mutant: the bucket has no limit.                                        *)
Deposited_Unbounded == Bucket + 1

(* The bucket after one more token has arrived.                            *)
Deposited == IF Bucket < B THEN Bucket + 1 ELSE Bucket

HeadAffordable == Q1 # <<>> /\ Deposited >= tokens_need[Head(Q1)]

(* Mutant: the server is not told that no packet will come.                *)
TokenStop_Silent ==
    /\ Packet_List = <<>> /\ Q1 = <<>>
    /\ Goto("token", "done")
    /\ UNCHANGED <<Q1, Q2, Bucket, Queue_Amount_Guard, Discard_Token>>

(* Nothing is left that needs tokens: wake an idle server and stop.        *)
TokenStop ==
    /\ Packet_List = <<>> /\ Q1 = <<>>
    /\ pc' = IF Q2 = <<>> THEN Broadcast([pc EXCEPT !["token"] = "done"])
                          ELSE [pc EXCEPT !["token"] = "done"]
    /\ UNCHANGED <<Q1, Q2, Bucket, Queue_Amount_Guard, Discard_Token>>

TokenDeposit ==
    /\ ~(Packet_List = <<>> /\ Q1 = <<>>)
    /\ Discard_Token' = Discard_Token + (IF Bucket < B THEN 0 ELSE 1)
    /\ \/ /\ HeadAffordable
          /\ Bucket' = Deposited - tokens_need[Head(Q1)]
          /\ Q1' = Tail(Q1)
          /\ MoveToQ2(Head(Q1), "token", "sleep")
       \/ /\ ~HeadAffordable
          /\ Bucket' = Deposited
          /\ Goto("token", "sleep")
          /\ UNCHANGED <<Q1, Q2, Queue_Amount_Guard>>

TokenTick ==
    /\ pc["token"] = "tick"
    /\ TokenStop \/ TokenDeposit
    /\ Unlock
    /\ UNCHANGED <<inputs, Packet_List, Total_Packet, Discard_Packet, Total_Token,
                   stops, extras, served, packet>>

TokenThread == TokenWake \/ TokenLock \/ TokenTick

-----------------------------------------------------------------------------
(* server and packet_statistics                                            *)

AllEmpty == Packet_List = <<>> /\ Q1 = <<>> /\ Q2 = <<>>

ServerLock == Lock("server", "lock", "check")

(* Mutant: packets that still wait for tokens are forgotten.               *)
ServerLeaves_IgnoresQ1 ==
    \/ Server_Stop
    \/ Queue_Amount_Guard <= 0 /\ Packet_List = <<>> /\ Q2 = <<>>

(* The tests of the loop around pthread_cond_wait and of Server_Stop.      *)
ServerLeaves ==
    \/ Server_Stop
    \/ Queue_Amount_Guard <= 0 /\ AllEmpty

ServerCheck ==
    /\ pc["server"] = "check"
    /\ ~ServerLeaves
    /\ Goto("server", IF Queue_Amount_Guard > 0 THEN "take" ELSE "wait")
    /\ UNCHANGED <<inputs, queues, Bucket, Queue_Amount_Guard, counters, stops,
                   extras, served, mutex, packet>>

(* packet_statistics: release Mutex, report Collect_List, exit.            *)
ServerStatistics ==
    /\ pc["server"] = "check"
    /\ ServerLeaves
    /\ Queue_Amount_Guard' = IF Q2 = <<>> THEN 0 ELSE Queue_Amount_Guard
    /\ Unlock
    /\ Reported' = Collect_List
    /\ Collect_List' = <<>>
    /\ Goto("server", "done")
    /\ UNCHANGED <<inputs, queues, Bucket, counters, stops, extras, serving, packet>>

(* pthread_cond_wait releases Mutex and blocks in one step.                *)
ServerWait ==
    /\ pc["server"] = "wait"
    /\ Unlock
    /\ Goto("server", "blocked")
    /\ UNCHANGED <<inputs, queues, Bucket, Queue_Amount_Guard, counters, stops,
                   extras, served, packet>>

(* pthread_cond_wait may return without a broadcast.                       *)
ServerSpuriousWakeup ==
    /\ pc["server"] = "blocked"
    /\ Goto("server", "wakeup")
    /\ UNCHANGED <<inputs, queues, Bucket, Queue_Amount_Guard, counters, stops,
                   extras, served, mutex, packet>>

ServerRelock == Lock("server", "wakeup", "check")

ServerTake ==
    /\ pc["server"] = "take"
    /\ Q2 # <<>>
    /\ serving' = <<Head(Q2)>>
    /\ Q2' = Tail(Q2)
    /\ Queue_Amount_Guard' = Queue_Amount_Guard - 1
    /\ Unlock
    /\ Goto("server", "serve")
    /\ UNCHANGED <<inputs, Packet_List, Q1, Bucket, counters, stops, extras,
                   Collect_List, Reported, packet>>

ServerEject ==
    /\ pc["server"] = "serve"
    /\ Collect_List' = Collect_List \o serving
    /\ serving' = <<>>
    /\ Goto("server", "lock")
    /\ UNCHANGED <<inputs, queues, Bucket, Queue_Amount_Guard, counters, stops,
                   extras, Reported, mutex, packet>>

ServerThread ==
    \/ ServerLock \/ ServerCheck \/ ServerStatistics \/ ServerWait
    \/ ServerRelock \/ ServerTake \/ ServerEject

-----------------------------------------------------------------------------
(* prepare_extra_packet                                                    *)

(* Left_Num is read and decreased outside the critical section.            *)
ExtraTest ==
    /\ pc["extra"] = "test"
    /\ \/ /\ Left_Num > 0 /\ ~Extra_Packet_Stop
          /\ batch' = Smaller(Left_Num, MAX_PROCESS_NUM)
          /\ Left_Num' = Left_Num - batch'
          /\ Goto("extra", "lock")
       \/ /\ ~(Left_Num > 0 /\ ~Extra_Packet_Stop)
          /\ Goto("extra", "done")
          /\ UNCHANGED extras
    /\ UNCHANGED <<inputs, queues, Bucket, Queue_Amount_Guard, counters, stops,
                   served, mutex, packet>>

ExtraLock == Lock("extra", "lock", "add")

ExtraAdd ==
    /\ pc["extra"] = "add"
    /\ Packet_List' = Packet_List \o Numbers(Created, Created + batch)
    /\ batch' = 0
    /\ Unlock
    /\ Goto("extra", "test")
    /\ UNCHANGED <<inputs, Q1, Q2, Bucket, Queue_Amount_Guard, counters, stops,
                   Left_Num, served, packet>>

ExtraThread == ExtraTest \/ ExtraLock \/ ExtraAdd

-----------------------------------------------------------------------------
(* prepare_packet: a trace is read to the end; otherwise the first batch   *)
(* is created, all packets have the same requirement P, and the extra      *)
(* thread exists when packets are left.                                    *)
Prepared ==
    \/ /\ Mode = "TRACE_DRIVEN"
       /\ tokens_need \in [Packets -> Needs]
       /\ Packet_List = Numbers(0, Num)
       /\ Left_Num = 0
    \/ /\ Mode = "DETERMINISTIC"
       /\ \E P \in Needs : tokens_need = [p \in Packets |-> P]
       /\ Packet_List = Numbers(0, Smaller(Num, MAX_PROCESS_NUM))
       /\ Left_Num = Num - Smaller(Num, MAX_PROCESS_NUM)

Init ==
    /\ Mode \in Modes
    /\ Prepared
    /\ Q1 = <<>> /\ Q2 = <<>> /\ Collect_List = <<>>
    /\ Bucket = 0 /\ Queue_Amount_Guard = 0
    /\ Total_Packet = 0 /\ Discard_Packet = 0
    /\ Total_Token = 0 /\ Discard_Token = 0
    /\ Server_Stop = FALSE /\ Extra_Packet_Stop = FALSE
    /\ mutex = "none"
    /\ packet = NoPacket /\ serving = <<>> /\ batch = 0 /\ Reported = <<>>
    /\ pc = [t \in Threads |->
               CASE t = "packet" -> "lock"
                 [] t = "token"  -> "sleep"
                 [] t = "server" -> "lock"
                 [] t = "extra"  -> IF Left_Num > 0 THEN "test" ELSE "done"]

Next ==
    \/ PacketThread
    \/ TokenThread
    \/ ServerThread
    \/ ServerSpuriousWakeup
    \/ ExtraThread

Spec == Init /\ [][Next]_vars

(* A thread that is not blocked eventually runs, and one that keeps        *)
(* finding Mutex free eventually gets it; nothing forces a spurious wakeup *)
(* of the server.                                                          *)
Fairness ==
    /\ SF_vars(PacketThread) /\ SF_vars(TokenThread)
    /\ SF_vars(ServerThread) /\ SF_vars(ExtraThread)

FairSpec == Spec /\ Fairness

-----------------------------------------------------------------------------
(* Properties                                                              *)

(* Every variable has its type; in particular the bucket never holds more  *)
(* than B tokens and never goes negative.                                  *)
TypeOK ==
    /\ Mode \in RunModes
    /\ tokens_need \in [Packets -> Nat]
    /\ Packet_List \in Seq(Packets) /\ Q1 \in Seq(Packets) /\ Q2 \in Seq(Packets)
    /\ Collect_List \in Seq(Packets) /\ Reported \in Seq(Packets)
    /\ Bucket \in 0 .. B
    /\ Queue_Amount_Guard \in Nat
    /\ Left_Num \in 0 .. Num /\ batch \in 0 .. Num /\ Left_Num + batch <= Num
    /\ Total_Packet \in Nat /\ Discard_Packet \in Nat
    /\ Total_Token \in Nat /\ Discard_Token \in Nat
    /\ Server_Stop \in BOOLEAN /\ Extra_Packet_Stop \in BOOLEAN
    /\ mutex \in Threads \union {"none"}
    /\ packet \in Packets \union {NoPacket}
    /\ serving \in Seq(Packets)
    /\ pc \in [Threads -> Labels]

(* At most one thread is between pthread_mutex_lock and unlock, and it is  *)
(* the owner of Mutex: Q1, Q2, Packet_List and Bucket are protected.       *)
MutualExclusion == \A t \in Threads : InCriticalSection(t) => mutex = t

(* Queue_Amount_Guard, the counter the server's wait loop tests instead of *)
(* the list, always is the number of packets in Q2, so the server never    *)
(* dereferences the first element of an empty Q2.                          *)
GuardCountsQ2 ==
    /\ Queue_Amount_Guard = Len(Q2)
    /\ pc["server"] = "take" => Q2 # <<>>

(* The broadcasts that are sent only when Q2 was empty before are enough:  *)
(* the server is never left blocked while Q2 holds a packet.               *)
NoLostWakeup == pc["server"] \in {"wait", "blocked"} => Q2 = <<>>

(* The packets in the program, those nearest to the exit first.            *)
Pipeline == Reported \o Collect_List \o serving \o Q2 \o Q1 \o Packet_List

(* Packets never overtake each other and none is in two places: neither    *)
(* the packet thread's shortcut past Q1 nor the token thread's move        *)
(* reorders them.                                                          *)
PacketsInOrder ==
    \A i, j \in 1 .. Len(Pipeline) : i < j => Pipeline[i] < Pipeline[j]

(* A packet that has been created disappears only by being counted in      *)
(* Discard_Packet, and only when it can never be paid for.                 *)
PacketsConserved ==
    LET lost == (1 .. Created) \ Range(Pipeline)
    IN  /\ Discard_Packet = Cardinality(lost)
        /\ \A p \in lost : tokens_need[p] > B

(* The tokens the packets of a list need together.                         *)
Cost(need, list) ==
    LET upTo[n \in 0 .. Len(list)] ==
            IF n = 0 THEN 0 ELSE upTo[n - 1] + need[list[n]]
    IN  upTo[Len(list)]

(* The packets that have been paid for, those served first in front.       *)
Paid == Reported \o Collect_List \o serving \o Q2

(* Every token that arrived is in the bucket, was dropped, or paid for     *)
(* exactly one packet; the token thread has at most one token in hand when *)
(* it waits for Mutex, and the one it holds when it stops is not used.     *)
TokensConserved ==
    LET inHand == IF pc["token"] = "sleep" THEN 0 ELSE 1
    IN  Total_Token = Bucket + Discard_Token + inHand + Cost(tokens_need, Paid)

(* The control points of each thread, and what its locals mean there.      *)
ControlOK ==
    /\ pc["packet"] \in {"lock", "next", "sleep", "arrive", "done"}
    /\ pc["token"] \in {"sleep", "lock", "tick", "done"}
    /\ pc["server"] \in {"lock", "check", "take", "wait", "blocked", "wakeup",
                         "serve", "done"}
    /\ pc["extra"] \in {"test", "lock", "add", "done"}
    /\ pc["packet"] \in {"sleep", "arrive"} =>
           Packet_List # <<>> /\ packet = Head(Packet_List)

(* The inductive invariant behind the theorems of TokenBucketProofs.       *)
IInv == TypeOK /\ ControlOK /\ MutualExclusion /\ GuardCountsQ2 /\ NoLostWakeup

(* What the lists hold and what the threads' locals mean, whoever owns     *)
(* Mutex: the part of the invariant that signal handlers preserve too.     *)
FlowOK ==
    /\ tokens_need \in [Packets -> Nat]
    /\ Packet_List \in Seq(Packets) /\ Q1 \in Seq(Packets) /\ Q2 \in Seq(Packets)
    /\ Collect_List \in Seq(Packets) /\ Reported \in Seq(Packets)
    /\ serving \in Seq(Packets)
    /\ Left_Num \in 0 .. Num /\ batch \in 0 .. Num /\ Left_Num + batch <= Num
    /\ pc \in [Threads -> Labels \union {"cleanup"}]
    /\ pc["packet"] \in {"sleep", "arrive"} =>
           Packet_List # <<>> /\ packet = Head(Packet_List)
    /\ pc["server"] # "serve" => serving = <<>>
    /\ pc["server"] # "done" => Reported = <<>>
    /\ pc["extra"] \notin {"lock", "add"} => batch = 0

(* The pipeline holds packets that have been created, in their order.      *)
PipelineOK == PacketsInOrder /\ Range(Pipeline) \subseteq 1 .. Created

(* No batch of packets is prepared while the threads run.                  *)
LoadedUpFront == Mode = "TRACE_DRIVEN" \/ Num <= MAX_PROCESS_NUM

(* When all packets were prepared before the threads started, the server   *)
(* stops, and prints the statistics, only after it has served every packet *)
(* the bucket can pay for, in the order of arrival.                        *)
StatisticsComplete ==
    LoadedUpFront /\ pc["server"] = "done" =>
        /\ Range(Reported) = {p \in Packets : tokens_need[p] <= B}
        /\ Packet_List = <<>> /\ Q1 = <<>> /\ Q2 = <<>>

(* The bucket can hold what each packet of a list needs.                   *)
Payable(list) == \A p \in Range(list) : tokens_need[p] <= B

(* What StatisticsComplete rests on: nobody asks the threads to stop, an   *)
(* unpayable packet never gets past packet_arrival, and the server that    *)
(* leaves has seen every list empty and, with all packets prepared, no     *)
(* list grows again.                                                       *)
ServiceOK ==
    /\ ~Server_Stop /\ ~Extra_Packet_Stop
    /\ Payable(Q1) /\ Payable(Q2) /\ Payable(serving)
    /\ Payable(Collect_List) /\ Payable(Reported)
    /\ LoadedUpFront => Left_Num = 0 /\ pc["extra"] = "done"
    /\ LoadedUpFront /\ pc["server"] = "done" => AllEmpty /\ Collect_List = <<>>

(* The emulation ends: when all packets were prepared before the threads   *)
(* started, the three threads process() joins all finish.                  *)
EmulationCompletes ==
    LoadedUpFront ~> \A t \in {"packet", "token", "server"} : pc[t] = "done"
=============================================================================
