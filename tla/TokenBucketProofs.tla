------------------------- MODULE TokenBucketProofs -------------------------
(***************************************************************************)
(* Proofs about TokenBucket, and after them about TokenBucketSignals, for  *)
(* every bucket capacity, number of packets, batch size and choice of      *)
(* token requirements.                                                     *)
(***************************************************************************)
EXTENDS TokenBucketSignals, SequenceTheorems, FiniteSetTheorems, TLAPS

(* A freshly prepared run of consecutive packets is a list of packets.     *)
LEMMA NumbersType ==
    ASSUME NEW lo \in Nat, NEW hi \in Nat, lo <= hi, hi <= Num, Num \in Nat
    PROVE  Numbers(lo, hi) \in Seq(Packets)
  <1> DEFINE n == hi - lo
  <1>1. n \in Nat
    OBVIOUS
  <1>2. \A i \in 1 .. n : lo + i \in Packets
    BY DEF Packets
  <1>3. [i \in 1 .. n |-> lo + i] \in [1 .. n -> Packets]
    BY <1>2
  <1> QED
    BY <1>1, <1>3 DEF Numbers

(* What removing the first and adding a last element does to a list.       *)
LEMMA ListOps ==
    ASSUME NEW S, NEW s \in Seq(S)
    PROVE  /\ Len(s) \in Nat
           /\ s = <<>> <=> Len(s) = 0
           /\ s # <<>> => /\ Head(s) \in S
                          /\ Tail(s) \in Seq(S)
                          /\ Len(Tail(s)) = Len(s) - 1
           /\ \A x \in S : /\ Append(s, x) \in Seq(S)
                            /\ Len(Append(s, x)) = Len(s) + 1
                            /\ Append(s, x) # <<>>
  OBVIOUS

(* The threads start in a state that satisfies the inductive invariant.    *)
LEMMA InitIInv == Init => IInv
  <1> SUFFICES ASSUME Init PROVE IInv
    OBVIOUS
  <1> USE TokenBucketAssumption
  <1>1. Smaller(Num, MAX_PROCESS_NUM) \in 0 .. Num
    BY DEF Smaller
  <1>2. /\ tokens_need \in [Packets -> Nat]
        /\ Packet_List \in Seq(Packets)
        /\ Left_Num \in 0 .. Num
    <2>1. Numbers(0, Num) \in Seq(Packets)
      BY NumbersType
    <2>2. Numbers(0, Smaller(Num, MAX_PROCESS_NUM)) \in Seq(Packets)
      BY <1>1, NumbersType
    <2>3. Num - Smaller(Num, MAX_PROCESS_NUM) \in 0 .. Num
      BY <1>1
    <2>4. Packet_List \in Seq(Packets) /\ Left_Num \in 0 .. Num
      BY <2>1, <2>2, <2>3 DEF Init, Prepared
    <2>5. tokens_need \in [Packets -> Nat]
      BY DEF Init, Prepared
    <2> QED
      BY <2>4, <2>5
  <1>3. Mode \in RunModes
    BY DEF Init
  <1>4. pc \in [Threads -> Labels]
    BY DEF Init, Threads, Labels
  <1>5. Bucket \in 0 .. B /\ batch \in 0 .. Num /\ Left_Num + batch <= Num
    <2>1. Bucket = 0 /\ batch = 0
      BY DEF Init
    <2> QED
      BY <1>2, <2>1
  <1>6. <<>> \in Seq(Packets)
    OBVIOUS
  <1>7. TypeOK
    BY <1>2, <1>3, <1>4, <1>5, <1>6 DEF Init, TypeOK, NoPacket
  <1>8. ControlOK /\ MutualExclusion /\ GuardCountsQ2 /\ NoLostWakeup
    BY DEF Init, Threads, ControlOK, MutualExclusion, InCriticalSection,
           GuardCountsQ2, NoLostWakeup
  <1> QED
    BY <1>7, <1>8 DEF IInv

(* The places where a thread locks Mutex: the thread, where it waits for   *)
(* Mutex, and where it goes on.                                            *)
LockPoints ==
    {<<"packet", "lock", "next">>, <<"packet", "sleep", "arrive">>,
     <<"token", "lock", "tick">>, <<"server", "lock", "check">>,
     <<"server", "wakeup", "check">>, <<"extra", "lock", "add">>}

(* Taking Mutex preserves the inductive invariant.                         *)
LEMMA LockIInv ==
    ASSUME IInv, NEW t, NEW from, NEW to, <<t, from, to>> \in LockPoints,
           Lock(t, from, to)
    PROVE  IInv'
  <1> USE DEF Lock, Goto, LockPoints, Threads, Labels, InCriticalSection, queues,
              counters, inputs, stops, extras, served
  <1>0. TypeOK /\ ControlOK /\ MutualExclusion /\ GuardCountsQ2 /\ NoLostWakeup
    BY DEF IInv
  <1>1. TypeOK'
    BY <1>0 DEF TypeOK
  <1>2. ControlOK'
    BY <1>0 DEF TypeOK, ControlOK
  <1>3. MutualExclusion'
    BY <1>0 DEF TypeOK, ControlOK, MutualExclusion
  <1>4. GuardCountsQ2' /\ NoLostWakeup'
    BY <1>0 DEF TypeOK, GuardCountsQ2, NoLostWakeup
  <1> QED
    BY <1>1, <1>2, <1>3, <1>4 DEF IInv

(* Every step of every thread preserves the inductive invariant.           *)
LEMMA NextIInv == IInv /\ [Next]_vars => IInv'
  <1> SUFFICES ASSUME IInv, [Next]_vars PROVE IInv'
    OBVIOUS
  <1> USE TokenBucketAssumption
  <1> USE DEF Threads, Labels, InCriticalSection, Goto, Unlock, queues, counters,
              inputs, stops, extras, served
  <1>0. TypeOK /\ ControlOK /\ MutualExclusion /\ GuardCountsQ2 /\ NoLostWakeup
    BY DEF IInv
  <1>1. CASE PacketLockNext
    BY <1>1, LockIInv DEF PacketLockNext, LockPoints
  <1>2. CASE PacketLockArrive
    BY <1>2, LockIInv DEF PacketLockArrive, LockPoints
  <1>3. CASE TokenLock
    BY <1>3, LockIInv DEF TokenLock, LockPoints
  <1>4. CASE ServerLock
    BY <1>4, LockIInv DEF ServerLock, LockPoints
  <1>5. CASE ServerRelock
    BY <1>5, LockIInv DEF ServerRelock, LockPoints
  <1>6. CASE ExtraLock
    BY <1>6, LockIInv DEF ExtraLock, LockPoints
  <1>7. CASE PacketNext
    <2> USE <1>7 DEF PacketNext
    <2>1. TypeOK'
      BY <1>0, ListOps DEF TypeOK
    <2>2. ControlOK'
      BY <1>0 DEF TypeOK, ControlOK
    <2>3. MutualExclusion'
      BY <1>0 DEF TypeOK, ControlOK, MutualExclusion
    <2>4. GuardCountsQ2'
      BY <1>0 DEF TypeOK, ControlOK, MutualExclusion, GuardCountsQ2
    <2>5. NoLostWakeup'
      BY <1>0 DEF TypeOK, ControlOK, MutualExclusion, NoLostWakeup
    <2> QED
      BY <2>1, <2>2, <2>3, <2>4, <2>5 DEF IInv
  <1>8. CASE PacketArrive
    <2> USE <1>8 DEF PacketArrive
    <2>1. /\ packet \in Packets /\ tokens_need[packet] \in Nat
          /\ Tail(Packet_List) \in Seq(Packets)
          /\ Append(Q1, packet) \in Seq(Packets)
          /\ Append(Q2, packet) \in Seq(Packets)
          /\ Len(Append(Q2, packet)) = Len(Q2) + 1 /\ Append(Q2, packet) # <<>>
      <3>1. Packet_List # <<>> /\ packet = Head(Packet_List)
        BY <1>0 DEF ControlOK
      <3>2. packet \in Packets /\ Tail(Packet_List) \in Seq(Packets)
        BY <1>0, <3>1, ListOps DEF TypeOK
      <3>3. tokens_need[packet] \in Nat
        BY <1>0, <3>2 DEF TypeOK
      <3>4. Q1 \in Seq(Packets) /\ Q2 \in Seq(Packets)
        BY <1>0 DEF TypeOK
      <3> QED
        BY <3>2, <3>3, <3>4, ListOps
    <2>2. mutex = "packet"
      BY <1>0 DEF MutualExclusion
    <2>3. CASE PacketDrop
      <3>1. TypeOK'
        BY <1>0, <2>1, <2>3, SMTT(30) DEF TypeOK, PacketDrop
      <3> QED
        BY <1>0, <2>2, <2>3, <3>1 DEF IInv, TypeOK, ControlOK, MutualExclusion,
           GuardCountsQ2, NoLostWakeup, PacketDrop
    <2>4. CASE PacketWaitInQ1
      <3>1. TypeOK'
        BY <1>0, <2>1, <2>4 DEF TypeOK, PacketWaitInQ1
      <3> QED
        BY <1>0, <2>2, <2>4, <3>1 DEF IInv, TypeOK, ControlOK, MutualExclusion,
           GuardCountsQ2, NoLostWakeup, PacketWaitInQ1
    <2>5. CASE PacketPassQ1
      <3>0. /\ Bucket \in 0 .. B /\ Queue_Amount_Guard \in Nat
            /\ Bucket >= tokens_need[packet]
            /\ Bucket' = Bucket - tokens_need[packet]
            /\ Queue_Amount_Guard' = Queue_Amount_Guard + 1
        BY <1>0, <2>5 DEF TypeOK, PacketPassQ1, MoveToQ2
      <3>1. Bucket' \in 0 .. B /\ Queue_Amount_Guard' \in Nat
        BY <2>1, <3>0
      <3>2. /\ pc' \in [Threads -> Labels]
            /\ pc'["packet"] = "lock" /\ pc'["token"] = pc["token"]
            /\ pc'["extra"] = pc["extra"]
            /\ pc'["server"] = IF Q2 = <<>> /\ pc["server"] = "blocked"
                               THEN "wakeup" ELSE pc["server"]
        BY <1>0, <2>5 DEF TypeOK, PacketPassQ1, MoveToQ2, Broadcast
      <3>3. TypeOK'
        BY <1>0, <2>1, <2>5, <3>1, <3>2 DEF TypeOK, PacketPassQ1, MoveToQ2
      <3>4. pc["server"] \notin {"check", "take", "wait"}
        BY <1>0, <2>2 DEF MutualExclusion
      <3>5. ControlOK' /\ MutualExclusion'
        BY <1>0, <2>2, <3>2 DEF ControlOK, MutualExclusion
      <3>6. GuardCountsQ2'
        BY <1>0, <2>1, <2>5, <3>2, <3>4 DEF GuardCountsQ2, PacketPassQ1, MoveToQ2
      <3>7. NoLostWakeup'
        BY <1>0, <2>5, <3>2, <3>4 DEF NoLostWakeup, PacketPassQ1, MoveToQ2
      <3> QED
        BY <3>3, <3>5, <3>6, <3>7 DEF IInv
    <2> QED
      BY <2>3, <2>4, <2>5
  <1>9. CASE TokenWake
    <2> USE <1>9 DEF TokenWake
    <2>1. TypeOK'
      BY <1>0 DEF TypeOK
    <2>2. ControlOK'
      BY <1>0 DEF TypeOK, ControlOK
    <2>3. MutualExclusion'
      BY <1>0 DEF TypeOK, ControlOK, MutualExclusion
    <2>4. GuardCountsQ2'
      BY <1>0 DEF TypeOK, ControlOK, MutualExclusion, GuardCountsQ2
    <2>5. NoLostWakeup'
      BY <1>0 DEF TypeOK, ControlOK, MutualExclusion, NoLostWakeup
    <2> QED
      BY <2>1, <2>2, <2>3, <2>4, <2>5 DEF IInv
  <1>10. CASE TokenTick
    <2> USE <1>10 DEF TokenTick
    <2>1. mutex = "token"
      BY <1>0 DEF MutualExclusion
    <2>2. pc["server"] \notin {"check", "take", "wait"} /\ pc["packet"] # "arrive"
      BY <1>0, <2>1 DEF MutualExclusion
    <2>3. CASE TokenStop
      <3>1. /\ pc' \in [Threads -> Labels]
            /\ pc'["token"] = "done" /\ pc'["packet"] = pc["packet"]
            /\ pc'["extra"] = pc["extra"]
            /\ pc'["server"] = IF Q2 = <<>> /\ pc["server"] = "blocked"
                               THEN "wakeup" ELSE pc["server"]
        BY <1>0, <2>3 DEF TypeOK, TokenStop, Broadcast
      <3>2. TypeOK'
        BY <1>0, <2>3, <3>1 DEF TypeOK, TokenStop
      <3> QED
        BY <1>0, <2>1, <2>2, <2>3, <3>1, <3>2 DEF IInv, ControlOK, MutualExclusion,
           GuardCountsQ2, NoLostWakeup, TokenStop
    <2>4. CASE TokenDeposit
      <3>1. Deposited \in 0 .. B
        BY <1>0 DEF TypeOK, Deposited
      <3>2. Discard_Token' \in Nat
        BY <1>0, <2>4 DEF TypeOK, TokenDeposit
      <3>3. CASE HeadAffordable
        <4>1. /\ Bucket' = Deposited - tokens_need[Head(Q1)]
              /\ Q1' = Tail(Q1)
              /\ MoveToQ2(Head(Q1), "token", "sleep")
          BY <2>4, <3>3 DEF TokenDeposit
        <4>2. /\ Head(Q1) \in Packets /\ Tail(Q1) \in Seq(Packets)
              /\ Append(Q2, Head(Q1)) \in Seq(Packets)
              /\ Len(Append(Q2, Head(Q1))) = Len(Q2) + 1
              /\ Append(Q2, Head(Q1)) # <<>>
          BY <1>0, <3>3, ListOps, ZenonT(30) DEF TypeOK, HeadAffordable
        <4>3. Bucket' \in 0 .. B
          <5>1. tokens_need[Head(Q1)] \in Nat /\ Deposited >= tokens_need[Head(Q1)]
            BY <1>0, <3>3, <4>2 DEF TypeOK, HeadAffordable
          <5> QED
            BY <3>1, <4>1, <5>1
        <4>4. /\ pc' \in [Threads -> Labels]
              /\ pc'["token"] = "sleep" /\ pc'["packet"] = pc["packet"]
              /\ pc'["extra"] = pc["extra"]
              /\ pc'["server"] = IF Q2 = <<>> /\ pc["server"] = "blocked"
                                 THEN "wakeup" ELSE pc["server"]
          BY <1>0, <4>1 DEF TypeOK, MoveToQ2, Broadcast
        <4>5. TypeOK'
          BY <1>0, <3>2, <4>1, <4>2, <4>3, <4>4, SMTT(30) DEF TypeOK, MoveToQ2
        <4>6. ControlOK' /\ MutualExclusion'
          BY <1>0, <2>1, <4>4 DEF ControlOK, MutualExclusion
        <4>7. GuardCountsQ2' /\ NoLostWakeup'
          BY <1>0, <2>2, <4>1, <4>2, <4>4 DEF GuardCountsQ2, NoLostWakeup, MoveToQ2
        <4> QED
          BY <4>5, <4>6, <4>7 DEF IInv
      <3>4. CASE ~HeadAffordable
        <4>1. /\ Bucket' = Deposited /\ pc' = [pc EXCEPT !["token"] = "sleep"]
              /\ UNCHANGED <<Q1, Q2, Queue_Amount_Guard>>
          BY <2>4, <3>4 DEF TokenDeposit
        <4>2. TypeOK'
          BY <1>0, <3>1, <3>2, <4>1 DEF TypeOK
        <4> QED
          BY <1>0, <2>1, <2>2, <4>1, <4>2 DEF IInv, TypeOK, ControlOK,
             MutualExclusion, GuardCountsQ2, NoLostWakeup
      <3> QED
        BY <3>3, <3>4
    <2> QED
      BY <2>3, <2>4
  <1>11. CASE ServerCheck
    <2> USE <1>11 DEF ServerCheck
    <2>1. TypeOK'
      BY <1>0 DEF TypeOK, ServerLeaves, AllEmpty
    <2>2. ControlOK'
      BY <1>0 DEF TypeOK, ControlOK, ServerLeaves, AllEmpty
    <2>3. MutualExclusion'
      BY <1>0 DEF TypeOK, ControlOK, MutualExclusion, ServerLeaves, AllEmpty
    <2>4. GuardCountsQ2'
      BY <1>0 DEF TypeOK, ControlOK, MutualExclusion, GuardCountsQ2, ServerLeaves, AllEmpty
    <2>5. NoLostWakeup'
      BY <1>0 DEF TypeOK, ControlOK, MutualExclusion, GuardCountsQ2, NoLostWakeup, ServerLeaves, AllEmpty
    <2> QED
      BY <2>1, <2>2, <2>3, <2>4, <2>5 DEF IInv
  <1>12. CASE ServerStatistics
    <2> USE <1>12 DEF ServerStatistics
    <2>1. TypeOK'
      BY <1>0, SMTT(30) DEF TypeOK, ServerLeaves, AllEmpty
    <2>2. ControlOK'
      BY <1>0 DEF TypeOK, ControlOK, ServerLeaves, AllEmpty
    <2>3. MutualExclusion'
      BY <1>0 DEF TypeOK, ControlOK, MutualExclusion, ServerLeaves, AllEmpty
    <2>4. GuardCountsQ2'
      BY <1>0 DEF TypeOK, ControlOK, MutualExclusion, GuardCountsQ2, ServerLeaves, AllEmpty
    <2>5. NoLostWakeup'
      BY <1>0 DEF TypeOK, ControlOK, MutualExclusion, NoLostWakeup, ServerLeaves, AllEmpty
    <2> QED
      BY <2>1, <2>2, <2>3, <2>4, <2>5 DEF IInv
  <1>13. CASE ServerWait
    <2> USE <1>13 DEF ServerWait
    <2>1. TypeOK'
      BY <1>0 DEF TypeOK
    <2>2. ControlOK'
      BY <1>0 DEF TypeOK, ControlOK
    <2>3. MutualExclusion'
      BY <1>0 DEF TypeOK, ControlOK, MutualExclusion
    <2>4. GuardCountsQ2'
      BY <1>0 DEF TypeOK, ControlOK, MutualExclusion, GuardCountsQ2
    <2>5. NoLostWakeup'
      BY <1>0 DEF TypeOK, ControlOK, MutualExclusion, NoLostWakeup
    <2> QED
      BY <2>1, <2>2, <2>3, <2>4, <2>5 DEF IInv
  <1>14. CASE ServerSpuriousWakeup
    <2> USE <1>14 DEF ServerSpuriousWakeup
    <2>1. TypeOK'
      BY <1>0 DEF TypeOK
    <2>2. ControlOK'
      BY <1>0 DEF TypeOK, ControlOK
    <2>3. MutualExclusion'
      BY <1>0 DEF TypeOK, ControlOK, MutualExclusion
    <2>4. GuardCountsQ2'
      BY <1>0 DEF TypeOK, ControlOK, MutualExclusion, GuardCountsQ2
    <2>5. NoLostWakeup'
      BY <1>0 DEF TypeOK, ControlOK, MutualExclusion, NoLostWakeup
    <2> QED
      BY <2>1, <2>2, <2>3, <2>4, <2>5 DEF IInv
  <1>15. CASE ServerTake
    <2> USE <1>15 DEF ServerTake
    <2>1. TypeOK'
      <3>1. /\ Head(Q2) \in Packets /\ Tail(Q2) \in Seq(Packets)
            /\ Queue_Amount_Guard - 1 \in Nat
        BY <1>0, ListOps DEF TypeOK, GuardCountsQ2
      <3>2. <<Head(Q2)>> \in Seq(Packets)
        BY <3>1
      <3> QED
        BY <1>0, <3>1, <3>2 DEF TypeOK
    <2>2. ControlOK'
      BY <1>0 DEF TypeOK, ControlOK
    <2>3. MutualExclusion'
      BY <1>0 DEF TypeOK, ControlOK, MutualExclusion
    <2>4. GuardCountsQ2'
      BY <1>0 DEF TypeOK, ControlOK, MutualExclusion, GuardCountsQ2
    <2>5. NoLostWakeup'
      BY <1>0 DEF TypeOK, ControlOK, MutualExclusion, NoLostWakeup
    <2> QED
      BY <2>1, <2>2, <2>3, <2>4, <2>5 DEF IInv
  <1>16. CASE ServerEject
    <2> USE <1>16 DEF ServerEject
    <2>1. TypeOK'
      BY <1>0, SMTT(30) DEF TypeOK
    <2>2. ControlOK'
      BY <1>0 DEF TypeOK, ControlOK
    <2>3. MutualExclusion'
      BY <1>0 DEF TypeOK, ControlOK, MutualExclusion
    <2>4. GuardCountsQ2'
      BY <1>0 DEF TypeOK, ControlOK, MutualExclusion, GuardCountsQ2
    <2>5. NoLostWakeup'
      BY <1>0 DEF TypeOK, ControlOK, MutualExclusion, NoLostWakeup
    <2> QED
      BY <2>1, <2>2, <2>3, <2>4, <2>5 DEF IInv
  <1>17. CASE ExtraTest
    <2> USE <1>17 DEF ExtraTest
    <2>1. TypeOK'
      <3>1. /\ Left_Num' \in 0 .. Num /\ batch' \in 0 .. Num
            /\ Left_Num' + batch' <= Num
        BY <1>0, SMTT(30) DEF TypeOK, Smaller
      <3>2. pc' \in [Threads -> Labels]
        BY <1>0 DEF TypeOK
      <3> QED
        BY <1>0, <3>1, <3>2 DEF TypeOK
    <2>2. ControlOK'
      BY <1>0 DEF TypeOK, ControlOK, Smaller
    <2>3. MutualExclusion'
      BY <1>0 DEF TypeOK, ControlOK, MutualExclusion, Smaller
    <2>4. GuardCountsQ2'
      BY <1>0 DEF TypeOK, ControlOK, MutualExclusion, GuardCountsQ2, Smaller
    <2>5. NoLostWakeup'
      BY <1>0 DEF TypeOK, ControlOK, MutualExclusion, NoLostWakeup, Smaller
    <2> QED
      BY <2>1, <2>2, <2>3, <2>4, <2>5 DEF IInv
  <1>18. CASE ExtraAdd
    <2> USE <1>18 DEF ExtraAdd
    <2>1. TypeOK'
      <3>1. Created \in Nat /\ Created + batch \in Nat /\ Created + batch <= Num
        BY <1>0 DEF TypeOK, Created
      <3>2. Numbers(Created, Created + batch) \in Seq(Packets)
        BY <1>0, <3>1, NumbersType DEF TypeOK
      <3>3. Packet_List' \in Seq(Packets)
        BY <1>0, <3>2 DEF TypeOK
      <3> QED
        BY <1>0, <3>3 DEF TypeOK
    <2>2. ControlOK'
      BY <1>0 DEF TypeOK, ControlOK, Created
    <2>3. MutualExclusion'
      BY <1>0 DEF TypeOK, ControlOK, MutualExclusion, Created
    <2>4. GuardCountsQ2'
      BY <1>0 DEF TypeOK, ControlOK, MutualExclusion, GuardCountsQ2, Created
    <2>5. NoLostWakeup'
      BY <1>0 DEF TypeOK, ControlOK, MutualExclusion, NoLostWakeup, Created
    <2> QED
      BY <2>1, <2>2, <2>3, <2>4, <2>5 DEF IInv
  <1>19. CASE UNCHANGED vars
    BY <1>0, <1>19 DEF vars, IInv, TypeOK, ControlOK, MutualExclusion, GuardCountsQ2,
       NoLostWakeup
  <1> QED
    BY <1>1, <1>2, <1>3, <1>4, <1>5, <1>6, <1>7, <1>8, <1>9, <1>10, <1>11,
       <1>12, <1>13, <1>14, <1>15, <1>16, <1>17, <1>18, <1>19
       DEF Next, PacketThread, TokenThread, ServerThread, ExtraThread

(* The inductive invariant holds in every reachable state.                 *)
LEMMA InductiveInvariant == Spec => []IInv
  BY InitIInv, NextIInv, PTL DEF Spec

-----------------------------------------------------------------------------
(* Whatever the threads do, the variables keep their types and the bucket  *)
(* holds between 0 and B tokens.                                           *)
THEOREM TypeCorrect == Spec => []TypeOK
  <1>1. IInv => TypeOK
    BY DEF IInv
  <1> QED
    BY <1>1, InductiveInvariant, PTL

(* Mutex protects the queues and the bucket: a thread between              *)
(* pthread_mutex_lock and pthread_mutex_unlock is the only one.            *)
THEOREM QueuesProtected == Spec => []MutualExclusion
  <1>1. IInv => MutualExclusion
    BY DEF IInv
  <1> QED
    BY <1>1, InductiveInvariant, PTL

(* The counter in the server's wait loop is the length of Q2, and the      *)
(* server never takes a packet from an empty Q2.                           *)
THEOREM GuardCorrect == Spec => []GuardCountsQ2
  <1>1. IInv => GuardCountsQ2
    BY DEF IInv
  <1> QED
    BY <1>1, InductiveInvariant, PTL

(* Broadcasting only when Q2 was empty never leaves the server blocked     *)
(* while a packet waits in Q2.                                             *)
THEOREM WakeupsSuffice == Spec => []NoLostWakeup
  <1>1. IInv => NoLostWakeup
    BY DEF IInv
  <1> QED
    BY <1>1, InductiveInvariant, PTL

-----------------------------------------------------------------------------
(* The packets' way through the lists.                                     *)

(* A list is its head followed by its tail.                                *)
LEMMA HeadThenTail ==
    ASSUME NEW S, NEW c \in Seq(S), c # <<>>
    PROVE  /\ Head(c) \in S /\ <<Head(c)>> \in Seq(S) /\ Tail(c) \in Seq(S)
           /\ <<Head(c)>> \o Tail(c) = c
  <1>1. Head(c) \in S /\ <<Head(c)>> \in Seq(S) /\ Tail(c) \in Seq(S)
    BY HeadTailProperties
  <1>2. Len(c) \in Nat /\ Len(c) >= 1
    BY EmptySeq
  <1>3. 1 \in 1 .. Len(c) /\ Len(c) \in 1 .. Len(c)
    BY <1>2
  <1>4. SubSeq(c, 1, Len(c)) = <<c[1]>> \o SubSeq(c, 1 + 1, Len(c))
    BY <1>3, SubSeqRecursiveFirst
  <1>5. SubSeq(c, 1, Len(c)) = c
    BY SubSeqFull
  <1>6. Tail(c) = SubSeq(c, 2, Len(c)) /\ Head(c) = c[1]
    BY TailIsSubSeq
  <1> QED
    BY <1>1, <1>4, <1>5, <1>6

(* Moving the head of a list of packets to the end of the list before it   *)
(* leaves their concatenation as it was.                                   *)
LEMMA MoveHead ==
    ASSUME NEW a \in Seq(Packets), NEW c \in Seq(Packets), c # <<>>
    PROVE  Append(a, Head(c)) \o Tail(c) = a \o c
  <1> DEFINE h == <<Head(c)>>
             t == Tail(c)
  <1>1. Head(c) \in Packets /\ h \in Seq(Packets) /\ t \in Seq(Packets) /\ h \o t = c
    BY HeadThenTail
  <1>2. Append(a, Head(c)) = a \o h
    BY <1>1, AppendIsConcat
  <1> HIDE DEF h, t
  <1>3. (a \o h) \o t = a \o (h \o t)
    <2>1. h \in Seq(Packets) /\ t \in Seq(Packets)
      BY <1>1
    <2> QED
      BY <2>1, ConcatAssociative, SMTT(30)
  <1> QED
    BY <1>1, <1>2, <1>3 DEF t

(* The same behind a list that is not touched.                             *)
LEMMA MoveHeadBehind ==
    ASSUME NEW a \in Seq(Packets), NEW b \in Seq(Packets), NEW c \in Seq(Packets),
           c # <<>>
    PROVE  (a \o Append(b, Head(c))) \o Tail(c) = (a \o b) \o c
  <1>1. Head(c) \in Packets /\ <<Head(c)>> \in Seq(Packets) /\ a \o b \in Seq(Packets)
    BY HeadThenTail, ConcatProperties
  <1>2. a \o Append(b, Head(c)) = Append(a \o b, Head(c))
    <2>1. Append(b, Head(c)) = b \o <<Head(c)>>
      BY <1>1, AppendIsConcat
    <2>2. Append(a \o b, Head(c)) = (a \o b) \o <<Head(c)>>
      BY <1>1, AppendIsConcat
    <2>3. (a \o b) \o <<Head(c)>> = a \o (b \o <<Head(c)>>)
      BY <1>1, ConcatAssociative
    <2> QED
      BY <2>1, <2>2, <2>3
  <1> QED
    BY <1>1, <1>2, MoveHead, ZenonT(30)

(* A list of packets in strictly increasing order.                         *)
Increasing(s) == \A i, j \in 1 .. Len(s) : i < j => s[i] < s[j]

(* Dropping the first packet of the last list keeps the order, removes     *)
(* that packet and no other.                                               *)
LEMMA DropHead ==
    ASSUME NEW a \in Seq(Packets), NEW c \in Seq(Packets), c # <<>>,
           Num \in Nat, Increasing(a \o c)
    PROVE  /\ Increasing(a \o Tail(c))
           /\ Head(c) \in Range(a \o c)
           /\ Range(a \o Tail(c)) = Range(a \o c) \ {Head(c)}
  <1>1. /\ Head(c) = c[1] /\ Tail(c) \in Seq(Packets)
        /\ Len(Tail(c)) = Len(c) - 1 /\ Len(c) \in Nat \ {0} /\ Len(a) \in Nat
        /\ \A i \in 1 .. Len(c) - 1 : Tail(c)[i] = c[i + 1]
    BY HeadTailProperties, LenProperties, EmptySeq
  <1> DEFINE s == a \o c
             t == a \o Tail(c)
             la == Len(a)
             n == la + Len(c)
  <1>2. /\ s \in Seq(Packets) /\ Len(s) = n
        /\ \A i \in 1 .. n : s[i] = IF i <= la THEN a[i] ELSE c[i - la]
    BY ConcatProperties
  <1>3. /\ t \in Seq(Packets) /\ Len(t) = n - 1
        /\ \A i \in 1 .. n - 1 : t[i] = IF i <= la THEN a[i] ELSE Tail(c)[i - la]
    BY <1>1, ConcatProperties
  <1>4. la \in Nat /\ n \in Nat /\ la < n
    BY <1>1
  <1>5. \A i \in 1 .. n - 1 : t[i] = IF i <= la THEN s[i] ELSE s[i + 1]
    <2> SUFFICES ASSUME NEW i \in 1 .. n - 1
                 PROVE  t[i] = IF i <= la THEN s[i] ELSE s[i + 1]
      OBVIOUS
    <2>1. CASE i <= la
      BY <1>2, <1>3, <1>4, <2>1
    <2>2. CASE i > la
      <3>1. t[i] = Tail(c)[i - la] /\ i - la \in 1 .. Len(c) - 1
        BY <1>1, <1>3, <1>4, <2>2
      <3>2. Tail(c)[i - la] = c[(i - la) + 1]
        BY <1>1, <3>1
      <3>3. s[i + 1] = c[(i + 1) - la]
        BY <1>2, <1>4, <2>2
      <3>4. (i + 1) - la = (i - la) + 1
        BY <1>4
      <3> QED
        BY <1>4, <2>2, <3>1, <3>2, <3>3, <3>4
    <2> QED
      BY <1>4, <2>1, <2>2
  <1>6. s[la + 1] = Head(c)
    BY <1>1, <1>2, <1>4
  <1>7. \A i \in 1 .. n : s[i] \in Nat
    BY <1>2, ElementOfSeq DEF Packets
  <1>8. Increasing(s)
    OBVIOUS
  <1> HIDE DEF s, t, la, n
  <1>9. \A i, j \in 1 .. n : i < j => s[i] < s[j]
    BY <1>2, <1>8 DEF Increasing
  <1>10. Increasing(t)
    <2> SUFFICES ASSUME NEW i \in 1 .. n - 1, NEW j \in 1 .. n - 1, i < j
                 PROVE  t[i] < t[j]
      BY <1>3 DEF Increasing
    <2>1. /\ i \in 1 .. n /\ j \in 1 .. n /\ i + 1 \in 1 .. n /\ j + 1 \in 1 .. n
          /\ i < j + 1 /\ i + 1 < j + 1
      BY <1>4
    <2>2. s[i] < s[j] /\ s[i] < s[j + 1] /\ s[i + 1] < s[j + 1]
      BY <1>9, <2>1
    <2>3. i > la => j > la
      BY <1>4
    <2>4. /\ t[i] = IF i <= la THEN s[i] ELSE s[i + 1]
          /\ t[j] = IF j <= la THEN s[j] ELSE s[j + 1]
      BY <1>5
    <2>5. s[i] \in Nat /\ s[j] \in Nat /\ s[i + 1] \in Nat /\ s[j + 1] \in Nat
      BY <1>7, <2>1
    <2>6. CASE i <= la
      BY <2>2, <2>4, <2>6
    <2>7. CASE ~(i <= la)
      <3>1. ~(j <= la)
        BY <1>4, <2>7
      <3> QED
        BY <2>2, <2>4, <2>7, <3>1
    <2> QED
      BY <2>6, <2>7
  <1>11. Range(s) = {s[i] : i \in 1 .. n} /\ Range(t) = {t[i] : i \in 1 .. n - 1}
    BY <1>2, <1>3, RangeEquality
  <1>12. Head(c) \in Range(s)
    BY <1>4, <1>6, <1>11, SMTT(30)
  <1>13. Range(t) \subseteq Range(s) \ {Head(c)}
    BY <1>4, <1>5, <1>6, <1>7, <1>9, <1>11, SMTT(30)
  <1>14. Range(s) \ {Head(c)} \subseteq Range(t)
    <2> SUFFICES ASSUME NEW i \in 1 .. n, s[i] # Head(c) PROVE s[i] \in Range(t)
      BY <1>11
    <2>1. i # la + 1
      BY <1>6
    <2>2. CASE i <= la
      <3>1. i \in 1 .. n - 1 /\ t[i] = s[i]
        BY <1>4, <1>5, <2>2
      <3> QED
        BY <1>11, <3>1
    <2>3. CASE i > la + 1
      <3>1. i - 1 \in 1 .. n - 1 /\ t[i - 1] = s[(i - 1) + 1] /\ (i - 1) + 1 = i
        BY <1>4, <1>5, <2>3
      <3> QED
        BY <1>11, <3>1
    <2> QED
      BY <1>4, <2>1, <2>2, <2>3
  <1> QED
    BY <1>10, <1>12, <1>13, <1>14 DEF s, t

(* A freshly prepared batch lies behind the packets created before it.     *)
LEMMA AddBatch ==
    ASSUME NEW s \in Seq(Packets), NEW lo \in Nat, NEW hi \in Nat, lo <= hi,
           hi <= Num, Num \in Nat, Increasing(s), Range(s) \subseteq 1 .. lo
    PROVE  /\ Increasing(s \o Numbers(lo, hi))
           /\ Range(s \o Numbers(lo, hi)) = Range(s) \union ((lo + 1) .. hi)
  <1> DEFINE b == Numbers(lo, hi)
             k == hi - lo
             n == Len(s)
  <1>1. /\ k \in Nat /\ n \in Nat /\ b \in Seq(Packets)
        /\ Len(b) = k /\ \A i \in 1 .. k : b[i] = lo + i
    <2>1. k \in Nat /\ n \in Nat /\ b \in Seq(Packets)
      BY NumbersType, LenProperties
    <2>2. b = [i \in 1 .. k |-> lo + i]
      BY DEF Numbers
    <2> HIDE DEF b, k
    <2> QED
      BY <2>1, <2>2
  <1> HIDE DEF b
  <1>2. /\ s \o b \in Seq(Packets) /\ Len(s \o b) = n + k
        /\ \A i \in 1 .. n + k : (s \o b)[i] = IF i <= n THEN s[i] ELSE b[i - n]
    <2> HIDE DEF k
    <2> QED
      BY <1>1, ConcatProperties
  <1>3. \A i \in 1 .. n : s[i] \in 1 .. lo
    BY RangeEquality
  <1> HIDE DEF k, n
  <1>4. \A i \in 1 .. n + k : (s \o b)[i] = IF i <= n THEN s[i] ELSE lo + (i - n)
    BY <1>1, <1>2
  <1>5. Increasing(s \o b)
    <2>1. \A i, j \in 1 .. n : i < j => s[i] < s[j]
      BY DEF Increasing, n
    <2> SUFFICES ASSUME NEW i \in 1 .. n + k, NEW j \in 1 .. n + k, i < j
                 PROVE  (s \o b)[i] < (s \o b)[j]
      BY <1>2 DEF Increasing
    <2>2. /\ (s \o b)[i] = IF i <= n THEN s[i] ELSE lo + (i - n)
          /\ (s \o b)[j] = IF j <= n THEN s[j] ELSE lo + (j - n)
      BY <1>4
    <2>3. CASE j <= n
      BY <1>1, <2>1, <2>2, <2>3
    <2>4. CASE i <= n /\ j > n
      BY <1>1, <1>3, <2>2, <2>4
    <2>5. CASE i > n
      BY <1>1, <2>2, <2>5
    <2>6. i \in Int /\ j \in Int /\ n \in Int
      BY <1>1
    <2>7. j <= n \/ (i <= n /\ j > n) \/ i > n
      BY <2>6
    <2> QED
      BY <2>3, <2>4, <2>5, <2>7
  <1>6. Range(b) = (lo + 1) .. hi
    <2>1. Range(b) = {b[i] : i \in 1 .. k}
      BY <1>1, RangeEquality
    <2>2. \A i \in 1 .. k : b[i] \in (lo + 1) .. hi
      BY <1>1 DEF k
    <2>3. \A x \in (lo + 1) .. hi : x - lo \in 1 .. k /\ b[x - lo] = x
      BY <1>1 DEF k
    <2> QED
      BY <2>1, <2>2, <2>3
  <1> QED
    BY <1>1, <1>5, <1>6, RangeConcatenation DEF b

(* Every step of every thread keeps the lists and the locals as FlowOK     *)
(* says, even when Mutex protects nothing.                                 *)
LEMMA FlowStep ==
    ASSUME FlowOK, [Next]_vars
    PROVE  FlowOK' /\ tokens_need' = tokens_need
  <1> USE TokenBucketAssumption
  <1> USE DEF FlowOK, Threads, Labels, Goto, queues, counters, inputs, stops,
              extras, served
  <1>1. CASE PacketLockNext \/ PacketLockArrive \/ TokenLock \/ ServerLock
             \/ ServerRelock \/ ExtraLock
    BY <1>1, ZenonT(30) DEF PacketLockNext, PacketLockArrive, TokenLock, ServerLock,
       ServerRelock, ExtraLock, Lock
  <1>2. CASE PacketNext
    BY <1>2 DEF PacketNext
  <1>3. CASE PacketArrive
    <2>1. Packet_List # <<>> /\ packet = Head(Packet_List)
      BY <1>3 DEF PacketArrive
    <2>2. /\ packet \in Packets /\ Tail(Packet_List) \in Seq(Packets)
          /\ Append(Q1, packet) \in Seq(Packets) /\ Append(Q2, packet) \in Seq(Packets)
      BY <2>1, ListOps
    <2>3. /\ Q1' \in Seq(Packets) /\ Q2' \in Seq(Packets)
          /\ Packet_List' \in Seq(Packets)
      BY <1>3, <2>2 DEF PacketArrive, PacketDrop, PacketWaitInQ1, PacketPassQ1, MoveToQ2
    <2>4. /\ pc' \in [Threads -> Labels \union {"cleanup"}]
          /\ pc'["packet"] = "lock" /\ pc'["extra"] = pc["extra"]
          /\ pc'["server"] = "serve" <=> pc["server"] = "serve"
          /\ pc'["server"] = "done" <=> pc["server"] = "done"
      BY <1>3 DEF PacketArrive, PacketDrop, PacketWaitInQ1, PacketPassQ1, MoveToQ2,
         Broadcast
    <2> QED
      BY <1>3, <2>3, <2>4 DEF PacketArrive
  <1>4. CASE TokenWake
    BY <1>4 DEF TokenWake
  <1>5. CASE TokenTick
    <2>1. /\ Q1' \in Seq(Packets) /\ Q2' \in Seq(Packets)
      <3>1. CASE HeadAffordable /\ TokenDeposit
        <4>1. Head(Q1) \in Packets /\ Tail(Q1) \in Seq(Packets)
          BY <3>1, ListOps DEF HeadAffordable
        <4>2. Append(Q2, Head(Q1)) \in Seq(Packets)
          BY <4>1, ListOps
        <4> QED
          BY <3>1, <4>1, <4>2 DEF TokenDeposit, MoveToQ2
      <3>2. CASE ~HeadAffordable \/ TokenStop
        BY <1>5, <3>2 DEF TokenTick, TokenStop, TokenDeposit
      <3> QED
        BY <1>5, <3>1, <3>2 DEF TokenTick
    <2>2. /\ pc' \in [Threads -> Labels \union {"cleanup"}]
          /\ pc'["packet"] = pc["packet"] /\ pc'["extra"] = pc["extra"]
          /\ pc'["server"] = "serve" <=> pc["server"] = "serve"
          /\ pc'["server"] = "done" <=> pc["server"] = "done"
      BY <1>5, ZenonT(30) DEF TokenTick, TokenStop, TokenDeposit, MoveToQ2, Broadcast
    <2> QED
      BY <1>5, <2>1, <2>2 DEF TokenTick
  <1>6. CASE ServerCheck \/ ServerWait \/ ServerSpuriousWakeup
    BY <1>6, ZenonT(30) DEF ServerCheck, ServerWait, ServerSpuriousWakeup
  <1>7. CASE ServerStatistics
    <2>1. <<>> \in Seq(Packets)
      OBVIOUS
    <2> QED
      BY <1>7, <2>1 DEF ServerStatistics
  <1>8. CASE ServerTake
    <2>1. Head(Q2) \in Packets /\ Tail(Q2) \in Seq(Packets)
      BY <1>8, ListOps DEF ServerTake
    <2>2. <<Head(Q2)>> \in Seq(Packets)
      BY <2>1
    <2> QED
      BY <1>8, <2>1, <2>2 DEF ServerTake
  <1>9. CASE ServerEject
    <2>1. Collect_List \o serving \in Seq(Packets) /\ <<>> \in Seq(Packets)
      BY ConcatProperties
    <2> QED
      BY <1>9, <2>1 DEF ServerEject
  <1>10. CASE ExtraTest
    <2>1. /\ Left_Num' \in 0 .. Num /\ batch' \in 0 .. Num
          /\ Left_Num' + batch' <= Num
      <3>1. CASE batch' = Smaller(Left_Num, MAX_PROCESS_NUM)
                 /\ Left_Num' = Left_Num - batch'
        <4>1. Smaller(Left_Num, MAX_PROCESS_NUM) \in 0 .. Left_Num
          BY DEF Smaller
        <4> HIDE DEF FlowOK
        <4>2. Left_Num \in 0 .. Num
          BY DEF FlowOK
        <4> QED
          BY <3>1, <4>1, <4>2
      <3> QED
        BY <1>10, <3>1 DEF ExtraTest
    <2>2. /\ pc' \in [Threads -> Labels \union {"cleanup"}]
          /\ pc'["packet"] = pc["packet"] /\ pc'["server"] = pc["server"]
          /\ pc'["extra"] \in {"lock", "done"}
      BY <1>10 DEF ExtraTest
    <2>3. pc'["extra"] = "done" => batch' = 0
      BY <1>10 DEF ExtraTest
    <2> QED
      BY <1>10, <2>1, <2>2, <2>3 DEF ExtraTest
  <1>11. CASE ExtraAdd
    <2>1. Created \in Nat /\ Created + batch \in Nat /\ Created + batch <= Num
      BY DEF Created
    <2>2. Numbers(Created, Created + batch) \in Seq(Packets)
      BY <2>1, NumbersType
    <2>3. Packet_List \o Numbers(Created, Created + batch) \in Seq(Packets)
      BY <2>2, ConcatProperties
    <2>4. Packet_List # <<>> => /\ Packet_List' # <<>>
                                /\ Head(Packet_List') = Head(Packet_List)
      <3> DEFINE b == Numbers(Created, Created + batch)
      <3> HIDE DEF b
      <3> QED
        BY <1>11, <2>2 DEF ExtraAdd, b
    <2> QED
      BY <1>11, <2>3, <2>4 DEF ExtraAdd
  <1>12. CASE UNCHANGED vars
    BY <1>12 DEF vars
  <1> QED
    BY <1>1, <1>2, <1>3, <1>4, <1>5, <1>6, <1>7, <1>8, <1>9, <1>10, <1>11, <1>12
       DEF Next, PacketThread, TokenThread, ServerThread, ExtraThread

(* The packets that have left Packet_List.                                 *)
Front == Reported \o Collect_List \o serving \o Q2 \o Q1

(* What a step may do to the packets in the program: move them within the  *)
(* pipeline, drop the one the packet thread has in hand, or create some.   *)
PipelineKept ==
    /\ Pipeline' = Pipeline
    /\ Created' = Created /\ Discard_Packet' = Discard_Packet

PipelineDrops ==
    /\ Packet_List # <<>> /\ tokens_need[Head(Packet_List)] > B
    /\ Pipeline' = Front \o Tail(Packet_List)
    /\ Created' = Created /\ Discard_Packet' = Discard_Packet + 1

PipelineGrows ==
    /\ Pipeline' = Pipeline \o Numbers(Created, Created + batch)
    /\ Created' = Created + batch /\ Discard_Packet' = Discard_Packet

(* Every beginning of the pipeline is a list of packets.                   *)
LEMMA PipelineType ==
    ASSUME FlowOK
    PROVE  /\ Reported \o Collect_List \in Seq(Packets)
           /\ Reported \o Collect_List \o serving \in Seq(Packets)
           /\ Reported \o Collect_List \o serving \o Q2 \in Seq(Packets)
           /\ Front \in Seq(Packets)
           /\ Pipeline \in Seq(Packets) /\ Pipeline = Front \o Packet_List
           /\ Created \in Nat /\ Created + batch \in Nat /\ Created + batch <= Num
           /\ Packet_List \in Seq(Packets) /\ batch \in Nat
  <1> USE DEF FlowOK
  <1>1. Reported \o Collect_List \in Seq(Packets)
    BY ConcatProperties
  <1>2. Reported \o Collect_List \o serving \in Seq(Packets)
    BY <1>1, ConcatProperties
  <1>3. Reported \o Collect_List \o serving \o Q2 \in Seq(Packets)
    BY <1>2, ConcatProperties
  <1>4. Front \in Seq(Packets)
    BY <1>3, ConcatProperties DEF Front
  <1>5. Pipeline \in Seq(Packets) /\ Pipeline = Front \o Packet_List
    BY <1>4, ConcatProperties DEF Front, Pipeline
  <1>6. Created \in Nat /\ Created + batch \in Nat /\ Created + batch <= Num
    BY TokenBucketAssumption DEF Created
  <1> QED
    BY <1>1, <1>2, <1>3, <1>4, <1>5, <1>6

(* No step of any thread does anything else to the packets: neither the    *)
(* shortcut past Q1, nor the token thread's move, nor the server's reorders*)
(* or loses one.                                                           *)
LEMMA PipelineStep ==
    ASSUME FlowOK, [Next]_vars
    PROVE  PipelineKept \/ PipelineDrops \/ PipelineGrows
  <1> USE DEF queues, counters, inputs, stops, extras, served
  <1> DEFINE r  == Reported \o Collect_List
             rs == Reported \o Collect_List \o serving
             rq == Reported \o Collect_List \o serving \o Q2
  <1>0. /\ r \in Seq(Packets) /\ rs \in Seq(Packets) /\ rq \in Seq(Packets)
        /\ Front \in Seq(Packets)
        /\ Packet_List \in Seq(Packets) /\ Q1 \in Seq(Packets) /\ Q2 \in Seq(Packets)
        /\ Collect_List \in Seq(Packets) /\ serving \in Seq(Packets)
        /\ Reported \in Seq(Packets)
    BY PipelineType DEF FlowOK, Front
  <1>p. /\ Pipeline = Front \o Packet_List /\ Front = rq \o Q1
        /\ rq = rs \o Q2 /\ rs = r \o serving
    BY PipelineType DEF Front
  <1> HIDE DEF r, rs, rq
  <1>1. CASE PacketLockNext \/ PacketLockArrive \/ TokenLock \/ ServerLock
             \/ ServerRelock \/ ExtraLock
    BY <1>1 DEF PipelineKept, Pipeline, Created, PacketLockNext, PacketLockArrive,
       TokenLock, ServerLock, ServerRelock, ExtraLock, Lock
  <1>2. CASE PacketNext \/ TokenWake
    BY <1>2 DEF PipelineKept, Pipeline, Created, PacketNext, TokenWake
  <1>3. CASE ServerCheck \/ ServerWait \/ ServerSpuriousWakeup
    BY <1>3 DEF PipelineKept, Pipeline, Created, ServerCheck, ServerWait,
       ServerSpuriousWakeup
  <1>4. CASE PacketArrive
    <2>1. Packet_List # <<>> /\ packet = Head(Packet_List)
      BY <1>4 DEF PacketArrive, FlowOK
    <2>2. /\ UNCHANGED <<Reported, Collect_List, serving>>
          /\ Packet_List' = Tail(Packet_List) /\ Created' = Created
      BY <1>4 DEF PacketArrive, Created
    <2>3. CASE PacketDrop
      <3>1. Pipeline' = Front \o Tail(Packet_List)
        BY <2>2, <2>3 DEF Pipeline, Front, PacketDrop
      <3> QED
        BY <2>1, <2>2, <2>3, <3>1 DEF PipelineDrops, PacketDrop
    <2>4. CASE PacketWaitInQ1
      <3>1. Pipeline' = (rq \o Append(Q1, Head(Packet_List))) \o Tail(Packet_List)
        BY <2>1, <2>2, <2>4 DEF Pipeline, PacketWaitInQ1, rq
      <3>2. Pipeline' = Pipeline
        <4>0. rq \in Seq(Packets) /\ Q1 \in Seq(Packets) /\ Packet_List \in Seq(Packets)
          BY <1>0
        <4>1. (rq \o Append(Q1, Head(Packet_List))) \o Tail(Packet_List)
                = (rq \o Q1) \o Packet_List
          BY <2>1, <4>0, MoveHeadBehind
        <4> QED
          BY <1>p, <3>1, <4>1
      <3> QED
        BY <2>2, <2>4, <3>2 DEF PipelineKept, PacketWaitInQ1
    <2>5. CASE PacketPassQ1
      <3>1. Q1 = <<>> /\ Q1' = <<>>
        <4>1. Head(Packet_List) \in Packets
          BY <1>0, <2>1, ListOps
        <4> QED
          BY <1>0, <2>1, <2>5, <4>1, ListOps DEF PacketPassQ1
      <3>2. Pipeline' = ((rs \o Append(Q2, Head(Packet_List))) \o <<>>)
                        \o Tail(Packet_List)
        BY <2>1, <2>2, <2>5, <3>1 DEF Pipeline, PacketPassQ1, MoveToQ2, rs
      <3>3. rs \o Append(Q2, Head(Packet_List)) \in Seq(Packets)
        BY <1>0, <2>1, HeadTailProperties, AppendProperties, ConcatProperties
      <3>4. Pipeline' = (rs \o Append(Q2, Head(Packet_List))) \o Tail(Packet_List)
        BY <3>2, <3>3, ConcatEmptySeq
      <3>5. Pipeline' = (rs \o Q2) \o Packet_List
        <4>0. rs \in Seq(Packets) /\ Q2 \in Seq(Packets) /\ Packet_List \in Seq(Packets)
          BY <1>0
        <4>1. (rs \o Append(Q2, Head(Packet_List))) \o Tail(Packet_List)
                = (rs \o Q2) \o Packet_List
          BY <2>1, <4>0, MoveHeadBehind
        <4> QED
          BY <3>4, <4>1
      <3>6. Front = rs \o Q2
        BY <1>0, <1>p, <3>1, ConcatEmptySeq
      <3> QED
        BY <1>p, <2>2, <2>5, <3>5, <3>6 DEF PipelineKept, PacketPassQ1
    <2> QED
      BY <1>4, <2>3, <2>4, <2>5 DEF PacketArrive
  <1>5. CASE TokenTick
    <2>1. /\ UNCHANGED <<Reported, Collect_List, serving, Packet_List, Discard_Packet>>
          /\ Created' = Created
      BY <1>5 DEF TokenTick, Created
    <2>2. CASE HeadAffordable /\ TokenDeposit
      <3>1. Q1 # <<>>
        BY <2>2 DEF HeadAffordable
      <3>2. Pipeline' = ((rs \o Append(Q2, Head(Q1))) \o Tail(Q1)) \o Packet_List
        BY <2>1, <2>2 DEF Pipeline, TokenDeposit, MoveToQ2, rs
      <3>3. Pipeline' = Pipeline
        <4>0. rs \in Seq(Packets) /\ Q2 \in Seq(Packets) /\ Q1 \in Seq(Packets)
          BY <1>0
        <4>1. (rs \o Append(Q2, Head(Q1))) \o Tail(Q1) = (rs \o Q2) \o Q1
          BY <3>1, <4>0, MoveHeadBehind
        <4> QED
          BY <1>p, <3>2, <4>1
      <3> QED
        BY <2>1, <3>3 DEF PipelineKept
    <2>3. CASE ~HeadAffordable \/ TokenStop
      <3>1. UNCHANGED <<Q1, Q2>>
        BY <1>5, <2>3 DEF TokenTick, TokenStop, TokenDeposit
      <3> QED
        BY <2>1, <3>1 DEF PipelineKept, Pipeline
    <2> QED
      BY <1>5, <2>2, <2>3 DEF TokenTick
  <1>6. CASE ServerStatistics
    <2>1. Reported = <<>>
      BY <1>6 DEF ServerStatistics, FlowOK
    <2>2. Pipeline' = Collect_List \o <<>> \o serving \o Q2 \o Q1 \o Packet_List
      BY <1>6 DEF ServerStatistics, Pipeline
    <2>3. Collect_List \o <<>> = Collect_List /\ <<>> \o Collect_List = Collect_List
      BY <1>0, ConcatEmptySeq
    <2>4. Pipeline' = Pipeline
      BY <2>1, <2>2, <2>3 DEF Pipeline
    <2> QED
      BY <1>6, <2>4 DEF ServerStatistics, PipelineKept, Created
  <1>7. CASE ServerTake
    <2>1. serving = <<>> /\ Q2 # <<>>
      BY <1>7 DEF ServerTake, FlowOK
    <2>2. Pipeline' = (r \o <<Head(Q2)>>) \o Tail(Q2) \o Q1 \o Packet_List
      BY <1>7 DEF ServerTake, Pipeline, r
    <2>3. r \o <<Head(Q2)>> = Append(r, Head(Q2)) /\ rs = r
      BY <1>0, <1>p, <2>1, HeadTailProperties, AppendIsConcat, ConcatEmptySeq
    <2>4. Append(r, Head(Q2)) \o Tail(Q2) = r \o Q2
      BY <1>0, <2>1, MoveHead
    <2>5. Pipeline' = Pipeline
      BY <1>p, <2>2, <2>3, <2>4
    <2> QED
      BY <1>7, <2>5 DEF ServerTake, PipelineKept, Created
  <1>8. CASE ServerEject
    <2>1. Pipeline' = (Reported \o (Collect_List \o serving)) \o <<>>
                      \o Q2 \o Q1 \o Packet_List
      BY <1>8 DEF ServerEject, Pipeline
    <2>2. Reported \o (Collect_List \o serving) = rs
      <3>1. (Reported \o Collect_List) \o serving = Reported \o (Collect_List \o serving)
        <4>0. /\ Reported \in Seq(Packets) /\ Collect_List \in Seq(Packets)
              /\ serving \in Seq(Packets)
          BY <1>0
        <4> QED
          BY <4>0, ConcatAssociative
      <3> QED
        BY <3>1 DEF rs
    <2>3. rs \o <<>> = rs
      BY <1>0, ConcatEmptySeq
    <2>4. Pipeline' = Pipeline
      BY <1>p, <2>1, <2>2, <2>3
    <2> QED
      BY <1>8, <2>4 DEF ServerEject, PipelineKept, Created
  <1>9. CASE ExtraTest
    <2>1. batch = 0
      BY <1>9 DEF ExtraTest, FlowOK
    <2>2. Created' = Created
      <3>1. Num \in Nat /\ Left_Num \in Nat
        BY TokenBucketAssumption DEF FlowOK
      <3>2. \/ batch' = 0 /\ Left_Num' = Left_Num
            \/ /\ batch' = Smaller(Left_Num, MAX_PROCESS_NUM)
               /\ Left_Num' = Left_Num - batch'
        BY <1>9, <2>1 DEF ExtraTest
      <3>3. Smaller(Left_Num, MAX_PROCESS_NUM) \in Nat
        BY <3>1, TokenBucketAssumption DEF Smaller
      <3> QED
        BY <2>1, <3>1, <3>2, <3>3 DEF Created
    <2> QED
      BY <1>9, <2>2 DEF ExtraTest, PipelineKept, Pipeline
  <1>10. CASE ExtraAdd
    <2> DEFINE b == Numbers(Created, Created + batch)
    <2>1. b \in Seq(Packets)
      BY PipelineType, NumbersType, TokenBucketAssumption DEF FlowOK
    <2>2. Pipeline' = Front \o (Packet_List \o b)
      BY <1>10 DEF ExtraAdd, Pipeline, Front
    <2> HIDE DEF b
    <2>3. Pipeline' = Pipeline \o b
      <3>1. (Front \o Packet_List) \o b = Front \o (Packet_List \o b)
        <4>0. Front \in Seq(Packets) /\ Packet_List \in Seq(Packets)
          BY <1>0
        <4> QED
          BY <2>1, <4>0, ConcatAssociative, SMTT(30)
      <3> QED
        BY <1>p, <2>2, <3>1
    <2>4. Created' = Created + batch
      <3>1. batch' = 0 /\ Left_Num' = Left_Num
        BY <1>10 DEF ExtraAdd
      <3>2. Num \in Int /\ Left_Num \in Int /\ batch \in Int
        BY TokenBucketAssumption DEF FlowOK
      <3> QED
        BY <3>1, <3>2 DEF Created
    <2> QED
      BY <1>10, <2>3, <2>4 DEF ExtraAdd, PipelineGrows, b
  <1>11. CASE UNCHANGED vars
    BY <1>11 DEF vars, PipelineKept, Pipeline, Created
  <1> QED
    BY <1>1, <1>2, <1>3, <1>4, <1>5, <1>6, <1>7, <1>8, <1>9, <1>10, <1>11
       DEF Next, PacketThread, TokenThread, ServerThread, ExtraThread

(* The threads start with the first packets in Packet_List, in order.      *)
LEMMA InitFlow == Init => FlowOK /\ PipelineOK /\ PacketsConserved
  <1> SUFFICES ASSUME Init PROVE FlowOK /\ PipelineOK /\ PacketsConserved
    OBVIOUS
  <1> USE TokenBucketAssumption
  <1>1. FlowOK
    <2>1. TypeOK
      BY InitIInv DEF IInv
    <2>2. \A t \in Threads : pc[t] \in Labels \union {"cleanup"}
      BY <2>1 DEF TypeOK
    <2>3. pc \in [Threads -> Labels \union {"cleanup"}]
      BY <2>1, <2>2 DEF TypeOK
    <2>4. pc["packet"] = "lock" /\ serving = <<>> /\ Reported = <<>> /\ batch = 0
      BY DEF Init, Threads
    <2> QED
      BY <2>1, <2>3, <2>4 DEF FlowOK, TypeOK
  <1>2. Created \in Nat /\ Created <= Num /\ Packet_List = Numbers(0, Created)
    <2>1. batch = 0 /\ Num \in Nat
      BY DEF Init
    <2>2. CASE Packet_List = Numbers(0, Num) /\ Left_Num = 0
      <3>1. Created = Num
        BY <2>1, <2>2 DEF Created
      <3> QED
        BY <2>1, <2>2, <3>1
    <2>3. CASE /\ Packet_List = Numbers(0, Smaller(Num, MAX_PROCESS_NUM))
               /\ Left_Num = Num - Smaller(Num, MAX_PROCESS_NUM)
      <3>1. Smaller(Num, MAX_PROCESS_NUM) \in 0 .. Num
        BY DEF Smaller
      <3>2. Created = Smaller(Num, MAX_PROCESS_NUM)
        BY <2>1, <2>3, <3>1 DEF Created
      <3> QED
        BY <2>1, <2>3, <3>1, <3>2
    <2> QED
      BY <2>2, <2>3 DEF Init, Prepared
  <1>3. Pipeline = <<>> \o Packet_List
    <2>1. <<>> \o <<>> = <<>>
      BY ConcatEmptySeq
    <2> QED
      BY <2>1 DEF Init, Pipeline
  <1>4. Increasing(Pipeline) /\ Range(Pipeline) = 1 .. Created
    <2>1. <<>> \in Seq(Packets) /\ Increasing(<<>>) /\ Range(<<>>) = {}
      BY DEF Increasing, Range
    <2>2. /\ Increasing(<<>> \o Numbers(0, Created))
          /\ Range(<<>> \o Numbers(0, Created)) = {} \union ((0 + 1) .. Created)
      <3> DEFINE c == Created
      <3>1. c \in Nat /\ 0 <= c /\ c <= Num /\ 0 \in Nat /\ Num \in Nat
        BY <1>2
      <3> HIDE DEF c
      <3>2. Range(<<>>) \subseteq 1 .. 0
        BY <2>1
      <3>3. /\ Increasing(<<>> \o Numbers(0, c))
            /\ Range(<<>> \o Numbers(0, c)) = Range(<<>>) \union ((0 + 1) .. c)
        BY <2>1, <3>1, <3>2, AddBatch
      <3> QED
        BY <2>1, <3>3 DEF c
    <2> QED
      BY <1>2, <1>3, <2>2
  <1>5. PipelineOK
    BY <1>4 DEF PipelineOK, PacketsInOrder, Increasing
  <1>6. PacketsConserved
    <2>1. (1 .. Created) \ Range(Pipeline) = {} /\ Discard_Packet = 0
      BY <1>4 DEF Init
    <2> QED
      BY <2>1, FS_EmptySet DEF PacketsConserved
  <1> QED
    BY <1>1, <1>5, <1>6

(* What a new batch adds to a pipeline in order.                           *)
LEMMA GrowFacts ==
    ASSUME FlowOK, Increasing(Pipeline), Range(Pipeline) \subseteq 1 .. Created
    PROVE  /\ Increasing(Pipeline \o Numbers(Created, Created + batch))
           /\ Range(Pipeline \o Numbers(Created, Created + batch))
                = Range(Pipeline) \union ((Created + 1) .. (Created + batch))
  <1> DEFINE s  == Pipeline
             lo == Created
             hi == Created + batch
  <1>1. /\ s \in Seq(Packets) /\ lo \in Nat /\ hi \in Nat /\ hi <= Num
        /\ batch \in Nat
    BY PipelineType
  <1>2. lo <= hi
    BY <1>1
  <1>3. Increasing(s) /\ Range(s) \subseteq 1 .. lo
    OBVIOUS
  <1> HIDE DEF s, lo, hi
  <1>4. /\ Increasing(s \o Numbers(lo, hi))
        /\ Range(s \o Numbers(lo, hi)) = Range(s) \union ((lo + 1) .. hi)
    BY <1>1, <1>2, <1>3, AddBatch, TokenBucketAssumption
  <1> QED
    BY <1>4 DEF s, lo, hi

(* No step reorders or duplicates packets.                                 *)
LEMMA OrderStep ==
    ASSUME FlowOK, PipelineOK, [Next]_vars
    PROVE  PipelineOK'
  <1> USE TokenBucketAssumption
  <1>1. /\ Front \in Seq(Packets) /\ Packet_List \in Seq(Packets)
        /\ Pipeline \in Seq(Packets) /\ Pipeline = Front \o Packet_List
        /\ Created \in Nat /\ Created + batch \in Nat /\ Created + batch <= Num
        /\ batch \in Nat
    BY PipelineType
  <1>2. Increasing(Pipeline) /\ Range(Pipeline) \subseteq 1 .. Created
    BY DEF PipelineOK, PacketsInOrder, Increasing
  <1>3. SUFFICES Increasing(Pipeline') /\ Range(Pipeline') \subseteq 1 .. Created'
    BY <1>3 DEF PipelineOK, PacketsInOrder, Increasing
  <1>4. CASE PipelineKept
    BY <1>2, <1>4 DEF PipelineKept
  <1>5. CASE PipelineDrops
    <2>1. /\ Increasing(Front \o Tail(Packet_List))
          /\ Range(Front \o Tail(Packet_List)) = Range(Pipeline) \ {Head(Packet_List)}
      BY <1>1, <1>2, <1>5, DropHead DEF PipelineDrops
    <2> QED
      BY <1>2, <1>5, <2>1 DEF PipelineDrops
  <1>6. CASE PipelineGrows
    <2>1. /\ Increasing(Pipeline \o Numbers(Created, Created + batch))
          /\ Range(Pipeline \o Numbers(Created, Created + batch))
               = Range(Pipeline) \union ((Created + 1) .. (Created + batch))
      BY <1>2, GrowFacts
    <2>2. 1 .. Created \subseteq 1 .. (Created + batch)
      BY <1>1
    <2>3. (Created + 1) .. (Created + batch) \subseteq 1 .. (Created + batch)
      BY <1>1
    <2> QED
      BY <1>2, <1>6, <2>1, <2>2, <2>3 DEF PipelineGrows
  <1> QED
    BY <1>4, <1>5, <1>6, PipelineStep

(* No step loses a packet without counting it.                             *)
LEMMA ConservedStep ==
    ASSUME FlowOK, PipelineOK, PacketsConserved, [Next]_vars
    PROVE  PacketsConserved'
  <1> USE TokenBucketAssumption
  <1> DEFINE lost == (1 .. Created) \ Range(Pipeline)
  <1>1. /\ Front \in Seq(Packets) /\ Packet_List \in Seq(Packets)
        /\ Pipeline \in Seq(Packets) /\ Pipeline = Front \o Packet_List
        /\ Created \in Nat /\ Created + batch \in Nat /\ Created + batch <= Num
        /\ batch \in Nat
    BY PipelineType
  <1>2. Increasing(Pipeline) /\ Range(Pipeline) \subseteq 1 .. Created
    BY DEF PipelineOK, PacketsInOrder, Increasing
  <1>3. /\ Discard_Packet = Cardinality(lost)
        /\ \A p \in lost : tokens_need[p] > B
    BY DEF PacketsConserved
  <1>4. IsFiniteSet(lost) /\ Cardinality(lost) \in Nat
    <2>1. IsFiniteSet(1 .. Created)
      BY <1>1, FS_Interval
    <2>2. lost \in SUBSET (1 .. Created)
      OBVIOUS
    <2>3. IsFiniteSet(lost)
      BY <2>1, <2>2, FS_Subset
    <2> QED
      BY <2>3, FS_CardinalityType
  <1>5. tokens_need' = tokens_need
    BY FlowStep
  <1>6. SUFFICES /\ Discard_Packet' = Cardinality((1 .. Created') \ Range(Pipeline'))
                 /\ \A p \in (1 .. Created') \ Range(Pipeline') : tokens_need[p] > B
    BY <1>5, <1>6 DEF PacketsConserved
  <1>7. CASE PipelineKept
    BY <1>3, <1>7 DEF PipelineKept
  <1>8. CASE PipelineDrops
    <2> DEFINE h == Head(Packet_List)
    <2>1. h \in Range(Pipeline) /\ Range(Pipeline') = Range(Pipeline) \ {h}
      BY <1>1, <1>2, <1>8, DropHead DEF PipelineDrops
    <2>2. (1 .. Created') \ Range(Pipeline') = lost \union {h} /\ h \notin lost
      BY <1>2, <1>8, <2>1 DEF PipelineDrops
    <2>3. Cardinality(lost \union {h}) = Cardinality(lost) + 1
      BY <1>4, <2>2, FS_AddElement
    <2> QED
      BY <1>3, <1>8, <2>2, <2>3 DEF PipelineDrops
  <1>9. CASE PipelineGrows
    <2>1. Range(Pipeline') = Range(Pipeline) \union ((Created + 1) .. (Created + batch))
      BY <1>2, <1>9, GrowFacts DEF PipelineGrows
    <2>2. 1 .. (Created + batch) = (1 .. Created) \union ((Created + 1) .. (Created + batch))
      BY <1>1
    <2>3. (1 .. Created) \intersect ((Created + 1) .. (Created + batch)) = {}
      BY <1>1
    <2>4. (1 .. Created') \ Range(Pipeline') = lost
      BY <1>9, <2>1, <2>2, <2>3 DEF PipelineGrows
    <2> QED
      BY <1>3, <1>9, <2>4 DEF PipelineGrows
  <1> QED
    BY <1>7, <1>8, <1>9, PipelineStep

(* The packets' invariant holds in every reachable state.                  *)
LEMMA FlowInvariant == Spec => [](FlowOK /\ PipelineOK /\ PacketsConserved)
  <1>1. FlowOK /\ PipelineOK /\ PacketsConserved /\ [Next]_vars
          => (FlowOK /\ PipelineOK /\ PacketsConserved)'
    BY FlowStep, OrderStep, ConservedStep
  <1> QED
    BY <1>1, InitFlow, PTL DEF Spec

(* Packets never overtake each other: along the report, the served ones,   *)
(* the one being transmitted, Q2, Q1 and Packet_List, packet numbers       *)
(* always increase.                                                        *)
THEOREM OrderKept == Spec => []PacketsInOrder
  <1>1. FlowOK /\ PipelineOK /\ PacketsConserved => PacketsInOrder
    BY DEF PipelineOK
  <1> QED
    BY <1>1, FlowInvariant, PTL

(* The program loses no packet: Discard_Packet counts exactly the created  *)
(* packets that are in no list, and each of those needs more than B tokens.*)
THEOREM NothingLost == Spec => []PacketsConserved
  <1>1. FlowOK /\ PipelineOK /\ PacketsConserved => PacketsConserved
    OBVIOUS
  <1> QED
    BY <1>1, FlowInvariant, PTL

-----------------------------------------------------------------------------
(* What the server has done when it prints the statistics.                 *)

(* The packets of a list after its head is gone, or one has been appended. *)
LEMMA RangeOps ==
    ASSUME NEW q \in Seq(Packets)
    PROVE  /\ Range(q) \subseteq Packets
           /\ q # <<>> => Head(q) \in Range(q) /\ Range(Tail(q)) \subseteq Range(q)
           /\ \A p \in Packets : /\ Range(Append(q, p)) = Range(q) \union {p}
                                  /\ Range(<<p>>) = {p}
           /\ Range(<<>>) = {}
  <1>1. ASSUME NEW p \in Packets PROVE Range(<<p>>) = {p} /\ <<p>> \in Seq(Packets)
    BY DEF Range
  <1>2. q # <<>> => Head(q) \in Range(q) /\ Range(Tail(q)) \subseteq Range(q)
    <2> SUFFICES ASSUME q # <<>>
                 PROVE  Head(q) \in Range(q) /\ Range(Tail(q)) \subseteq Range(q)
      OBVIOUS
    <2> DEFINE h == <<Head(q)>>
               t == Tail(q)
    <2>1. Head(q) \in Packets /\ h \in Seq(Packets) /\ t \in Seq(Packets) /\ h \o t = q
      BY HeadThenTail
    <2>2. Range(h) = {Head(q)}
      BY <1>1, <2>1
    <2> HIDE DEF h, t
    <2>3. Range(h \o t) = Range(h) \union Range(t)
      BY <2>1, RangeConcatenation, ZenonT(30)
    <2> QED
      BY <2>1, <2>2, <2>3 DEF t
  <1>3. ASSUME NEW p \in Packets PROVE Range(Append(q, p)) = Range(q) \union {p}
    <2> DEFINE e == <<p>>
    <2>1. Append(q, p) = q \o e
      BY AppendIsConcat
    <2>2. e \in Seq(Packets) /\ Range(e) = {p}
      BY <1>1
    <2> HIDE DEF e
    <2>3. Range(q \o e) = Range(q) \union Range(e)
      BY <2>2, RangeConcatenation
    <2> QED
      BY <2>1, <2>2, <2>3
  <1>4. Range(q) \subseteq Packets
    BY RangeOfSeq
  <1>5. Range(<<>>) = {}
    BY DEF Range
  <1> QED
    BY <1>1, <1>2, <1>3, <1>4, <1>5

(* No packet has been served when the threads start.                       *)
LEMMA InitService == Init => ServiceOK
  <1> SUFFICES ASSUME Init PROVE ServiceOK
    OBVIOUS
  <1>1. Range(<<>>) = {}
    BY DEF Range
  <1>2. LoadedUpFront => Left_Num = 0
    <2> SUFFICES ASSUME Num <= MAX_PROCESS_NUM PROVE Smaller(Num, MAX_PROCESS_NUM) = Num
      BY TokenBucketAssumption DEF LoadedUpFront, Init, Prepared
    <2> QED
      BY TokenBucketAssumption DEF Smaller
  <1>3. /\ pc["server"] = "lock"
        /\ Left_Num = 0 => pc["extra"] = "done"
    BY DEF Init, Threads
  <1> QED
    BY <1>1, <1>2, <1>3 DEF Init, ServiceOK, Payable

(* Every step keeps unpayable packets out of the queues, and nothing is    *)
(* added behind the server that has left.                                  *)
LEMMA ServiceStep ==
    ASSUME FlowOK, ServiceOK, [Next]_vars
    PROVE  ServiceOK'
  <1> USE DEF Threads, Goto, queues, counters, inputs, stops, extras, served, Payable
  <1>0. /\ pc \in [Threads -> Labels \union {"cleanup"}]
        /\ Packet_List \in Seq(Packets) /\ Q1 \in Seq(Packets) /\ Q2 \in Seq(Packets)
        /\ Collect_List \in Seq(Packets) /\ serving \in Seq(Packets)
        /\ tokens_need \in [Packets -> Nat]
    BY DEF FlowOK
  <1>1. CASE PacketLockNext \/ PacketLockArrive \/ TokenLock \/ ServerLock
             \/ ServerRelock \/ ExtraLock
    BY <1>0, <1>1 DEF PacketLockNext, PacketLockArrive, TokenLock, ServerLock,
       ServerRelock, ExtraLock, Lock, ServiceOK, LoadedUpFront, AllEmpty
  <1>2. CASE PacketNext \/ TokenWake
    BY <1>0, <1>2, SMTT(30) DEF PacketNext, TokenWake, ServiceOK, LoadedUpFront, AllEmpty
  <1>3. CASE PacketArrive
    <2>1. Packet_List # <<>> /\ packet = Head(Packet_List)
      BY <1>3 DEF PacketArrive, FlowOK
    <2>2. /\ packet \in Packets
          /\ Range(Append(Q1, packet)) = Range(Q1) \union {packet}
          /\ Range(Append(Q2, packet)) = Range(Q2) \union {packet}
      BY <1>0, <2>1, HeadTailProperties, RangeOps
    <2>3. /\ \A p \in Range(Q1') : tokens_need[p] <= B
          /\ \A p \in Range(Q2') : tokens_need[p] <= B
      BY <1>3, <2>2 DEF PacketArrive, PacketDrop, PacketWaitInQ1, PacketPassQ1,
         MoveToQ2, ServiceOK
    <2>4. /\ pc'["server"] = "done" <=> pc["server"] = "done"
          /\ pc'["extra"] = pc["extra"]
      BY <1>0, <1>3 DEF PacketArrive, PacketDrop, PacketWaitInQ1, PacketPassQ1,
         MoveToQ2, Broadcast
    <2>5. LoadedUpFront => pc["server"] # "done"
      BY <2>1 DEF ServiceOK, AllEmpty
    <2> QED
      BY <1>3, <2>3, <2>4, <2>5 DEF PacketArrive, ServiceOK, LoadedUpFront
  <1>4. CASE TokenTick
    <2>1. /\ pc'["server"] = "done" <=> pc["server"] = "done"
          /\ pc'["extra"] = pc["extra"]
      BY <1>0, <1>4 DEF TokenTick, TokenStop, TokenDeposit, MoveToQ2, Broadcast
    <2>2. CASE HeadAffordable /\ TokenDeposit
      <3>1. Q1 # <<>>
        BY <2>2 DEF HeadAffordable
      <3>2. /\ Head(Q1) \in Packets /\ Head(Q1) \in Range(Q1)
            /\ Range(Tail(Q1)) \subseteq Range(Q1)
            /\ Range(Append(Q2, Head(Q1))) = Range(Q2) \union {Head(Q1)}
        BY <1>0, <3>1, HeadTailProperties, RangeOps
      <3>3. /\ \A p \in Range(Q1') : tokens_need[p] <= B
            /\ \A p \in Range(Q2') : tokens_need[p] <= B
        BY <2>2, <3>2 DEF TokenDeposit, MoveToQ2, ServiceOK
      <3>4. LoadedUpFront => pc["server"] # "done"
        BY <3>1 DEF ServiceOK, AllEmpty
      <3> QED
        BY <1>4, <2>1, <3>3, <3>4 DEF TokenTick, ServiceOK, LoadedUpFront
    <2>3. CASE ~HeadAffordable \/ TokenStop
      <3>1. UNCHANGED <<Q1, Q2>>
        BY <1>4, <2>3 DEF TokenTick, TokenStop, TokenDeposit
      <3> QED
        BY <1>4, <2>1, <3>1 DEF TokenTick, ServiceOK, LoadedUpFront, AllEmpty
    <2> QED
      BY <1>4, <2>2, <2>3 DEF TokenTick
  <1>5. CASE ServerCheck \/ ServerWait \/ ServerSpuriousWakeup
    BY <1>0, <1>5 DEF ServerCheck, ServerWait, ServerSpuriousWakeup, ServiceOK,
       LoadedUpFront, AllEmpty
  <1>6. CASE ServerStatistics
    <2>1. AllEmpty
      BY <1>6 DEF ServerStatistics, ServerLeaves, ServiceOK
    <2>2. Range(<<>>) = {}
      BY DEF Range
    <2> QED
      BY <1>0, <1>6, <2>1, <2>2 DEF ServerStatistics, ServiceOK, LoadedUpFront, AllEmpty
  <1>7. CASE ServerTake
    <2>1. /\ Head(Q2) \in Packets /\ Head(Q2) \in Range(Q2)
          /\ Range(Tail(Q2)) \subseteq Range(Q2) /\ Range(<<Head(Q2)>>) = {Head(Q2)}
      BY <1>0, <1>7, HeadTailProperties, RangeOps DEF ServerTake
    <2> QED
      BY <1>0, <1>7, <2>1 DEF ServerTake, ServiceOK, LoadedUpFront, AllEmpty
  <1>8. CASE ServerEject
    <2>1. /\ Range(Collect_List \o serving) = Range(Collect_List) \union Range(serving)
          /\ Range(<<>>) = {}
      BY <1>0, RangeConcatenation, RangeOps
    <2> QED
      BY <1>0, <1>8, <2>1 DEF ServerEject, ServiceOK, LoadedUpFront, AllEmpty
  <1>9. CASE ExtraTest \/ ExtraAdd
    <2>1. ~LoadedUpFront
      BY <1>9 DEF ExtraTest, ExtraAdd, ServiceOK
    <2>2. ~LoadedUpFront'
      BY <1>9, <2>1 DEF ExtraTest, ExtraAdd, LoadedUpFront
    <2> QED
      BY <1>9, <2>2 DEF ExtraTest, ExtraAdd, ServiceOK
  <1>10. CASE UNCHANGED vars
    BY <1>10 DEF vars, ServiceOK, LoadedUpFront, AllEmpty
  <1> QED
    BY <1>1, <1>2, <1>3, <1>4, <1>5, <1>6, <1>7, <1>8, <1>9, <1>10
       DEF Next, PacketThread, TokenThread, ServerThread, ExtraThread

(* With all packets prepared before the threads start, the server leaves,  *)
(* and prints the statistics, only when it has served exactly the packets  *)
(* the bucket can pay for.                                                 *)
THEOREM ReportComplete == Spec => []StatisticsComplete
  <1>1. FlowOK /\ ServiceOK /\ [Next]_vars => (FlowOK /\ ServiceOK)'
    BY FlowStep, ServiceStep
  <1>2. Spec => [](FlowOK /\ ServiceOK)
    BY <1>1, InitFlow, InitService, PTL DEF Spec
  <1>3. FlowOK /\ ServiceOK /\ PacketsConserved => StatisticsComplete
    <2> SUFFICES ASSUME FlowOK, ServiceOK, PacketsConserved, LoadedUpFront,
                        pc["server"] = "done"
                 PROVE  /\ Range(Reported) = {p \in Packets : tokens_need[p] <= B}
                        /\ Packet_List = <<>> /\ Q1 = <<>> /\ Q2 = <<>>
      BY DEF StatisticsComplete
    <2>1. /\ Packet_List = <<>> /\ Q1 = <<>> /\ Q2 = <<>> /\ Collect_List = <<>>
          /\ serving = <<>> /\ Reported \in Seq(Packets)
      BY DEF ServiceOK, AllEmpty, FlowOK
    <2>2. Pipeline = Reported
      <3>1. Reported \o <<>> = Reported
        BY <2>1, ConcatEmptySeq
      <3> QED
        BY <2>1, <3>1 DEF Pipeline
    <2>3. Created = Num
      BY TokenBucketAssumption DEF Created, ServiceOK, FlowOK
    <2>4. \A p \in Packets \ Range(Reported) : tokens_need[p] > B
      BY <2>2, <2>3 DEF PacketsConserved, Packets
    <2>5. /\ Range(Reported) \subseteq Packets
          /\ \A p \in Range(Reported) : tokens_need[p] <= B
      BY <2>1, RangeOfSeq DEF ServiceOK, Payable
    <2>6. \A p \in Packets : tokens_need[p] \in Nat /\ B \in Nat
      BY TokenBucketAssumption DEF FlowOK
    <2> QED
      BY <2>1, <2>4, <2>5, <2>6
  <1> QED
    BY <1>2, <1>3, FlowInvariant, PTL

-----------------------------------------------------------------------------
(* Where the tokens are.                                                   *)

(* A non-empty set of natural numbers has a smallest element.              *)
LEMMA Smallest ==
    ASSUME NEW T \in SUBSET Nat, T # {}
    PROVE  \E m \in T : \A k \in T : m <= k
  <1>1. PICK m \in T : \A k \in T : ~(<<k, m>> \in OpToRel(<, Nat))
    BY NatLessThanWellFounded, WFMin
  <1>2. \A k \in T : ~(k < m)
    BY <1>1 DEF OpToRel
  <1> QED
    BY <1>2

(* f holds the partial sums of the first n packets of a list.              *)
SumsTo(f, need, list, n) ==
    /\ f \in [0 .. n -> Nat]
    /\ f[0] = 0
    /\ \A k \in 1 .. n : f[k] = f[k - 1] + need[list[k]]

(* Partial sums exist: the recursion in Cost is well founded.              *)
LEMMA SumsExist ==
    ASSUME NEW need \in [Packets -> Nat], NEW list \in Seq(Packets),
           NEW n \in 0 .. Len(list)
    PROVE  \E f : SumsTo(f, need, list, n)
  <1> DEFINE T == {k \in 0 .. Len(list) : ~ \E f : SumsTo(f, need, list, k)}
  <1> SUFFICES T = {}
    OBVIOUS
  <1>0. Len(list) \in Nat
    BY LenProperties
  <1>1. SUFFICES ASSUME T # {} PROVE FALSE
    OBVIOUS
  <1>2. T \subseteq Nat
    BY <1>0
  <1>3. PICK m \in T : \A k \in T : m <= k
    BY <1>1, <1>2, Smallest
  <1>4. m \in 0 .. Len(list)
    OBVIOUS
  <1>5. CASE m = 0
    <2>1. SumsTo([k \in 0 .. 0 |-> 0], need, list, 0)
      BY DEF SumsTo
    <2> QED
      BY <1>5, <2>1
  <1>6. CASE m > 0
    <2>1. m - 1 \in 0 .. Len(list) /\ m - 1 \notin T
      BY <1>0, <1>3, <1>4, <1>6
    <2>2. PICK f : SumsTo(f, need, list, m - 1)
      BY <2>1
    <2> DEFINE g == [k \in 0 .. m |-> IF k = m THEN f[m - 1] + need[list[m]] ELSE f[k]]
    <2>3. need[list[m]] \in Nat /\ f[m - 1] \in Nat
      <3>1. m \in 1 .. Len(list)
        BY <1>0, <1>4, <1>6
      <3>2. list[m] \in Packets
        BY <3>1, ElementOfSeq
      <3> QED
        BY <1>0, <1>4, <1>6, <2>2, <3>2 DEF SumsTo
    <2>4. g \in [0 .. m -> Nat]
      BY <1>0, <1>4, <2>2, <2>3 DEF SumsTo
    <2>5. g[0] = 0
      BY <1>0, <1>4, <1>6, <2>2 DEF SumsTo
    <2>6. ASSUME NEW k \in 1 .. m PROVE g[k] = g[k - 1] + need[list[k]]
      <3>1. g[k - 1] = f[k - 1]
        BY <1>0, <1>4
      <3>2. CASE k = m
        BY <1>0, <1>4, <1>6, <3>1, <3>2
      <3>3. CASE k < m
        BY <1>0, <1>4, <2>2, <3>1, <3>3 DEF SumsTo
      <3> QED
        BY <1>0, <1>4, <3>2, <3>3
    <2>7. SumsTo(g, need, list, m)
      <3> HIDE DEF g
      <3> QED
        BY <2>4, <2>5, <2>6 DEF SumsTo
    <2> QED
      BY <2>7
  <1> QED
    BY <1>0, <1>4, <1>5, <1>6

(* Partial sums depend only on the packets summed up.                      *)
LEMMA SumsAgree ==
    ASSUME NEW need \in [Packets -> Nat], NEW l1 \in Seq(Packets),
           NEW l2 \in Seq(Packets), NEW n \in Nat, NEW f, NEW g,
           SumsTo(f, need, l1, n), SumsTo(g, need, l2, n),
           \A k \in 1 .. n : l1[k] = l2[k]
    PROVE  f[n] = g[n]
  <1> DEFINE T == {k \in 0 .. n : f[k] # g[k]}
  <1>1. SUFFICES ASSUME T # {} PROVE FALSE
    BY SMTT(30)
  <1>2. T \subseteq Nat
    OBVIOUS
  <1>3. PICK m \in T : \A k \in T : m <= k
    BY <1>1, <1>2, Smallest
  <1>4. m # 0
    BY DEF SumsTo
  <1>5. m - 1 \in 0 .. n /\ m \in 1 .. n /\ m - 1 \notin T
    BY <1>3, <1>4
  <1>6. f[m - 1] = g[m - 1]
    BY <1>5
  <1>7. f[m] = f[m - 1] + need[l1[m]] /\ g[m] = g[m - 1] + need[l2[m]] /\ l1[m] = l2[m]
    BY <1>5 DEF SumsTo
  <1> QED
    BY <1>6, <1>7

(* Cost is the last of the partial sums.                                   *)
LEMMA CostIsSum ==
    ASSUME NEW need \in [Packets -> Nat], NEW list \in Seq(Packets)
    PROVE  \E f : SumsTo(f, need, list, Len(list)) /\ Cost(need, list) = f[Len(list)]
  <1> DEFINE L == Len(list)
             Eq(f) == f = [n \in 0 .. L |-> IF n = 0 THEN 0 ELSE f[n - 1] + need[list[n]]]
             c == CHOOSE f : Eq(f)
  <1>1. L \in Nat
    BY LenProperties
  <1>2. PICK f : SumsTo(f, need, list, L)
    BY <1>1, SumsExist
  <1>3. Eq(f)
    <2> HIDE DEF L
    <2>1. \A n \in 0 .. L : f[n] = IF n = 0 THEN 0 ELSE f[n - 1] + need[list[n]]
      BY <1>1, <1>2 DEF SumsTo
    <2> QED
      BY <1>2, <2>1 DEF SumsTo
  <1>4. Eq(c)
    BY <1>3
  <1>5. Cost(need, list) = c[L]
    BY DEF Cost
  <1> HIDE DEF c, L
  <1>6. c[0] = 0 /\ \A k \in 1 .. L : c[k] = c[k - 1] + need[list[k]]
    BY <1>1, <1>4
  <1>7. DOMAIN c = 0 .. L /\ c = [n \in 0 .. L |-> c[n]]
    BY <1>4
  <1>8. \A k \in 0 .. L : c[k] = f[k]
    <2> DEFINE T == {k \in 0 .. L : c[k] # f[k]}
    <2>1. SUFFICES ASSUME T # {} PROVE FALSE
      OBVIOUS
    <2>2. T \subseteq Nat
      BY <1>1
    <2>3. PICK m \in T : \A k \in T : m <= k
      BY <2>1, <2>2, Smallest
    <2>4. m # 0
      BY <1>2, <1>6 DEF SumsTo
    <2>5. m - 1 \in 0 .. L /\ m \in 1 .. L /\ m - 1 \notin T
      BY <1>1, <2>3, <2>4
    <2>6. c[m - 1] = f[m - 1]
      BY <2>5
    <2> QED
      BY <1>2, <1>6, <2>5, <2>6 DEF SumsTo
  <1>9. Cost(need, list) = f[L]
    BY <1>1, <1>5, <1>8
  <1> QED
    BY <1>2, <1>9 DEF L

(* A list costs a natural number of tokens.                                *)
LEMMA CostType ==
    ASSUME NEW need \in [Packets -> Nat], NEW list \in Seq(Packets)
    PROVE  Cost(need, list) \in Nat
  <1>1. PICK f : SumsTo(f, need, list, Len(list)) /\ Cost(need, list) = f[Len(list)]
    BY CostIsSum
  <1> QED
    BY <1>1, LenProperties DEF SumsTo

(* No packets cost nothing.                                                *)
LEMMA CostOfNone ==
    ASSUME NEW need \in [Packets -> Nat]
    PROVE  Cost(need, <<>>) = 0
  <1>1. <<>> \in Seq(Packets) /\ Len(<<>>) = 0
    OBVIOUS
  <1>2. PICK f : SumsTo(f, need, <<>>, 0) /\ Cost(need, <<>>) = f[0]
    BY <1>1, CostIsSum
  <1> QED
    BY <1>2 DEF SumsTo

(* One more packet costs its own requirement.                              *)
LEMMA CostOfAppend ==
    ASSUME NEW need \in [Packets -> Nat], NEW list \in Seq(Packets), NEW p \in Packets
    PROVE  /\ Cost(need, list) \in Nat
           /\ Cost(need, Append(list, p)) = Cost(need, list) + need[p]
  <1> DEFINE L == Len(list)
             more == Append(list, p)
  <1>1. /\ L \in Nat /\ more \in Seq(Packets) /\ Len(more) = L + 1
        /\ more[L + 1] = p /\ \A k \in 1 .. L : more[k] = list[k]
    BY LenProperties, AppendProperties
  <1> HIDE DEF L, more
  <1>2. PICK f : SumsTo(f, need, list, L) /\ Cost(need, list) = f[L]
    BY CostIsSum DEF L
  <1>3. PICK g : SumsTo(g, need, more, L + 1) /\ Cost(need, more) = g[L + 1]
    BY <1>1, CostIsSum
  <1>4. PICK h : SumsTo(h, need, more, L)
    <2>1. L \in 0 .. Len(more)
      BY <1>1
    <2> QED
      BY <1>1, <2>1, SumsExist
  <1>5. h[L] = f[L]
    BY <1>1, <1>2, <1>4, SumsAgree
  <1> DEFINE r == [k \in 0 .. L |-> g[k]]
  <1>6. SumsTo(r, need, more, L)
    <2>1. r \in [0 .. L -> Nat]
      BY <1>1, <1>3 DEF SumsTo
    <2>2. r[0] = 0
      BY <1>1, <1>3 DEF SumsTo
    <2>3. ASSUME NEW k \in 1 .. L PROVE r[k] = r[k - 1] + need[more[k]]
      <3>1. k \in 1 .. L + 1 /\ k \in 0 .. L /\ k - 1 \in 0 .. L
        BY <1>1
      <3>2. g[k] = g[k - 1] + need[more[k]]
        BY <1>3, <3>1 DEF SumsTo
      <3> QED
        BY <3>1, <3>2
    <2> HIDE DEF r
    <2> QED
      BY <2>1, <2>2, <2>3 DEF SumsTo
  <1>7. r[L] = h[L] /\ r[L] = g[L]
    <2>1. r[L] = g[L]
      BY <1>1
    <2> HIDE DEF r
    <2> QED
      BY <1>1, <1>4, <1>6, <2>1, SumsAgree
  <1>8. g[L + 1] = g[L] + need[p]
    <2>1. L + 1 \in 1 .. L + 1 /\ (L + 1) - 1 = L
      BY <1>1
    <2> QED
      BY <1>1, <1>3, <2>1 DEF SumsTo
  <1>9. f[L] \in Nat
    BY <1>1, <1>2 DEF SumsTo
  <1> QED
    BY <1>2, <1>3, <1>5, <1>7, <1>8, <1>9 DEF more

(* Only paying for a packet changes the list of packets paid for.          *)
LEMMA PaidStep ==
    ASSUME FlowOK, [Next]_vars
    PROVE  \/ /\ PacketArrive /\ PacketPassQ1 /\ packet \in Packets
              /\ Paid' = Append(Paid, packet)
           \/ /\ TokenTick /\ TokenDeposit /\ HeadAffordable /\ Head(Q1) \in Packets
              /\ Paid' = Append(Paid, Head(Q1))
           \/ /\ ~(PacketArrive /\ PacketPassQ1)
              /\ ~(TokenTick /\ TokenDeposit /\ HeadAffordable)
              /\ Paid' = Paid
  <1> USE DEF queues, counters, inputs, stops, extras, served
  <1> DEFINE r  == Reported \o Collect_List
             rs == Reported \o Collect_List \o serving
  <1>0. /\ r \in Seq(Packets) /\ rs \in Seq(Packets)
        /\ Packet_List \in Seq(Packets) /\ Q1 \in Seq(Packets) /\ Q2 \in Seq(Packets)
        /\ Collect_List \in Seq(Packets) /\ serving \in Seq(Packets)
        /\ Reported \in Seq(Packets)
    BY PipelineType DEF FlowOK
  <1>p. Paid = rs \o Q2 /\ rs = r \o serving
    BY DEF Paid
  <1>q. ASSUME NEW p \in Packets PROVE rs \o Append(Q2, p) = Append(Paid, p)
    <2> DEFINE e == <<p>>
    <2>1. e \in Seq(Packets) /\ rs \in Seq(Packets) /\ Q2 \in Seq(Packets)
      BY <1>0
    <2>2. Append(Q2, p) = Q2 \o e
      BY <2>1, AppendIsConcat
    <2>3. rs \o Q2 \in Seq(Packets)
      BY <2>1, ConcatProperties
    <2>4. Append(rs \o Q2, p) = (rs \o Q2) \o e
      BY <2>3, AppendIsConcat
    <2> HIDE DEF e, rs
    <2>5. (rs \o Q2) \o e = rs \o (Q2 \o e)
      BY <2>1, ConcatAssociative
    <2> QED
      BY <1>p, <2>2, <2>4, <2>5
  <1> HIDE DEF r, rs
  <1>1. CASE PacketArrive /\ PacketPassQ1
    <2>1. packet \in Packets
      BY <1>0, <1>1, HeadTailProperties DEF PacketArrive, FlowOK
    <2>2. Paid' = rs \o Append(Q2, packet)
      BY <1>1 DEF PacketArrive, PacketPassQ1, MoveToQ2, Paid, rs
    <2> QED
      BY <1>1, <1>q, <2>1, <2>2
  <1>2. CASE TokenTick /\ TokenDeposit /\ HeadAffordable
    <2>1. Head(Q1) \in Packets
      BY <1>0, <1>2, HeadTailProperties DEF HeadAffordable
    <2>2. Paid' = rs \o Append(Q2, Head(Q1))
      BY <1>2 DEF TokenTick, TokenDeposit, MoveToQ2, Paid, rs
    <2> QED
      BY <1>2, <1>q, <2>1, <2>2
  <1>3. CASE ~(PacketArrive /\ PacketPassQ1) /\ ~(TokenTick /\ TokenDeposit /\ HeadAffordable)
    <2> SUFFICES Paid' = Paid
      BY <1>3
    <2>1. CASE PacketArrive
      BY <1>3, <2>1 DEF PacketArrive, PacketDrop, PacketWaitInQ1, Paid
    <2>2. CASE TokenTick
      BY <1>3, <2>2 DEF TokenTick, TokenStop, TokenDeposit, Paid
    <2>3. CASE ServerStatistics
      <3>1. Reported = <<>>
        BY <2>3 DEF ServerStatistics, FlowOK
      <3>2. Paid' = Collect_List \o <<>> \o serving \o Q2
        BY <2>3 DEF ServerStatistics, Paid
      <3>3. Collect_List \o <<>> = Collect_List /\ <<>> \o Collect_List = Collect_List
        BY <1>0, ConcatEmptySeq
      <3> QED
        BY <3>1, <3>2, <3>3 DEF Paid
    <2>4. CASE ServerTake
      <3>1. serving = <<>> /\ Q2 # <<>>
        BY <2>4 DEF ServerTake, FlowOK
      <3>2. Paid' = (r \o <<Head(Q2)>>) \o Tail(Q2)
        BY <2>4 DEF ServerTake, Paid, r
      <3>3. r \o <<Head(Q2)>> = Append(r, Head(Q2)) /\ rs = r
        BY <1>0, <1>p, <3>1, HeadTailProperties, AppendIsConcat, ConcatEmptySeq
      <3>4. Append(r, Head(Q2)) \o Tail(Q2) = r \o Q2
        BY <1>0, <3>1, MoveHead
      <3> QED
        BY <1>p, <3>2, <3>3, <3>4
    <2>5. CASE ServerEject
      <3>1. Paid' = (Reported \o (Collect_List \o serving)) \o <<>> \o Q2
        BY <2>5 DEF ServerEject, Paid
      <3>2. (Reported \o Collect_List) \o serving = Reported \o (Collect_List \o serving)
        <4>1. /\ Reported \in Seq(Packets) /\ Collect_List \in Seq(Packets)
              /\ serving \in Seq(Packets)
          BY <1>0
        <4> QED
          BY <4>1, ConcatAssociative
      <3>3. rs \o <<>> = rs
        BY <1>0, ConcatEmptySeq
      <3> QED
        BY <1>p, <3>1, <3>2, <3>3 DEF rs
    <2>6. CASE PacketLockNext \/ PacketLockArrive \/ TokenLock \/ ServerLock
               \/ ServerRelock \/ ExtraLock
      BY <2>6 DEF PacketLockNext, PacketLockArrive, TokenLock, ServerLock,
         ServerRelock, ExtraLock, Lock, Paid
    <2>7. CASE PacketNext \/ TokenWake \/ ServerCheck \/ ServerWait
               \/ ServerSpuriousWakeup \/ ExtraTest \/ ExtraAdd
      BY <2>7 DEF PacketNext, TokenWake, ServerCheck, ServerWait,
         ServerSpuriousWakeup, ExtraTest, ExtraAdd, Paid
    <2>8. CASE UNCHANGED vars
      BY <2>8 DEF vars, Paid
    <2> QED
      BY <2>1, <2>2, <2>3, <2>4, <2>5, <2>6, <2>7, <2>8
         DEF Next, PacketThread, TokenThread, ServerThread, ExtraThread
  <1> QED
    BY <1>1, <1>2, <1>3

(* No step creates or loses a token.                                       *)
LEMMA TokensStep ==
    ASSUME IInv, FlowOK, TokensConserved, [Next]_vars
    PROVE  TokensConserved'
  <1> USE DEF Threads, Goto, queues, counters, inputs, stops, extras, served
  <1> DEFINE cost == Cost(tokens_need, Paid)
             hand == IF pc["token"] = "sleep" THEN 0 ELSE 1
             Cost1 == Cost(tokens_need', Paid')
             hand1 == IF pc'["token"] = "sleep" THEN 0 ELSE 1
  <1>0. /\ tokens_need \in [Packets -> Nat] /\ Paid \in Seq(Packets)
        /\ Bucket \in Nat /\ Discard_Token \in Nat /\ Total_Token \in Nat
        /\ pc \in [Threads -> Labels] /\ B \in Nat /\ tokens_need' = tokens_need
    BY PipelineType, FlowStep, TokenBucketAssumption DEF FlowOK, IInv, TypeOK, Paid
  <1>1. Total_Token = Bucket + Discard_Token + hand + cost
    BY DEF TokensConserved
  <1>2. SUFFICES Total_Token' = Bucket' + Discard_Token' + hand1 + Cost1
    BY <1>2 DEF TokensConserved
  <1>3. CASE PacketArrive /\ PacketPassQ1 /\ packet \in Packets
             /\ Paid' = Append(Paid, packet)
    <2>1. cost \in Nat /\ Cost1 = cost + tokens_need[packet] /\ tokens_need[packet] \in Nat
      BY <1>0, <1>3, CostOfAppend
    <2>2. hand1 = hand /\ hand \in Nat
      BY <1>0, <1>3 DEF PacketArrive, PacketPassQ1, MoveToQ2, Broadcast
    <2>3. /\ Bucket' = Bucket - tokens_need[packet]
          /\ Discard_Token' = Discard_Token /\ Total_Token' = Total_Token
      BY <1>3 DEF PacketArrive, PacketPassQ1
    <2>4. Bucket \in Nat /\ Discard_Token \in Nat /\ Total_Token \in Nat
      BY <1>0
    <2> HIDE DEF cost, hand, Cost1, hand1
    <2> QED
      BY <1>1, <2>1, <2>2, <2>3, <2>4
  <1>4. CASE TokenTick /\ TokenDeposit /\ HeadAffordable /\ Head(Q1) \in Packets
             /\ Paid' = Append(Paid, Head(Q1))
    <2> DEFINE h == tokens_need[Head(Q1)]
    <2>1. cost \in Nat /\ Cost1 = cost + h /\ h \in Nat
      BY <1>0, <1>4, CostOfAppend
    <2>2. hand1 = 0 /\ hand = 1
      BY <1>0, <1>4 DEF TokenTick, TokenDeposit, MoveToQ2, Broadcast
    <2>3. /\ Bucket' = Deposited - h /\ Total_Token' = Total_Token
          /\ Discard_Token' = Discard_Token + (IF Bucket < B THEN 0 ELSE 1)
      BY <1>4 DEF TokenTick, TokenDeposit
    <2>4. Deposited + Discard_Token' = Bucket + Discard_Token + 1 /\ Deposited \in Nat
      BY <1>0, <2>3 DEF Deposited
    <2>5. Discard_Token' \in Nat
      BY <1>0, <2>3
    <2> HIDE DEF cost, hand, Cost1, hand1, h
    <2> QED
      BY <1>0, <1>1, <2>1, <2>2, <2>3, <2>4, <2>5
  <1>5. CASE /\ ~(PacketArrive /\ PacketPassQ1)
             /\ ~(TokenTick /\ TokenDeposit /\ HeadAffordable)
             /\ Paid' = Paid
    <2>1. Cost1 = cost
      BY <1>0, <1>5
    <2> HIDE DEF cost, Cost1
    <2>2. CASE TokenTick /\ TokenDeposit
      <3>1. hand1 = 0 /\ hand = 1
        BY <1>0, <1>5, <2>2 DEF TokenTick, TokenDeposit
      <3>2. /\ Bucket' = Deposited /\ Total_Token' = Total_Token
            /\ Discard_Token' = Discard_Token + (IF Bucket < B THEN 0 ELSE 1)
        BY <1>5, <2>2 DEF TokenTick, TokenDeposit
      <3>3. Bucket' + Discard_Token' = Bucket + Discard_Token + 1
        BY <1>0, <3>2 DEF Deposited
      <3>4. cost \in Nat
        BY <1>0, CostType DEF cost
      <3>5. Bucket' \in Nat /\ Discard_Token' \in Nat
        BY <1>0, <3>2 DEF Deposited
      <3> HIDE DEF hand, hand1
      <3> QED
        BY <1>0, <1>1, <2>1, <3>1, <3>2, <3>3, <3>4, <3>5
    <2>3. CASE TokenTick /\ TokenStop
      BY <1>0, <1>1, <2>1, <2>3 DEF TokenTick, TokenStop, Broadcast
    <2>4. CASE TokenWake
      <3>1. hand = 0 /\ hand1 = 1
        BY <1>0, <2>4 DEF TokenWake
      <3>2. /\ Total_Token' = Total_Token + 1
            /\ Bucket' = Bucket /\ Discard_Token' = Discard_Token
        BY <2>4 DEF TokenWake
      <3>3. cost \in Nat
        BY <1>0, CostType DEF cost
      <3> HIDE DEF hand, hand1
      <3> QED
        BY <1>0, <1>1, <2>1, <3>1, <3>2, <3>3
    <2>5. CASE ~TokenTick /\ ~TokenWake
      <3>1. /\ Total_Token' = Total_Token /\ Bucket' = Bucket
            /\ Discard_Token' = Discard_Token
            /\ pc'["token"] = "sleep" <=> pc["token"] = "sleep"
        <4>1. CASE PacketLockNext \/ PacketLockArrive \/ TokenLock \/ ServerLock
                   \/ ServerRelock \/ ExtraLock
          BY <1>0, <4>1 DEF PacketLockNext, PacketLockArrive, TokenLock, ServerLock,
             ServerRelock, ExtraLock, Lock
        <4>2. CASE PacketArrive
          BY <1>0, <1>5, <4>2 DEF PacketArrive, PacketDrop, PacketWaitInQ1
        <4>3. CASE PacketNext \/ ServerCheck \/ ServerWait
                   \/ ServerSpuriousWakeup \/ ExtraTest \/ ExtraAdd
          BY <1>0, <4>3 DEF PacketNext, ServerCheck, ServerWait,
             ServerSpuriousWakeup, ExtraTest, ExtraAdd
        <4>4. CASE ServerStatistics \/ ServerTake \/ ServerEject
          BY <1>0, <4>4 DEF ServerStatistics, ServerTake, ServerEject
        <4>5. CASE UNCHANGED vars
          BY <4>5 DEF vars
        <4> QED
          BY <2>5, <4>1, <4>2, <4>3, <4>4, <4>5
             DEF Next, PacketThread, TokenThread, ServerThread, ExtraThread
      <3> QED
        BY <1>1, <2>1, <3>1
    <2> QED
      BY <2>2, <2>3, <2>4, <2>5 DEF TokenTick
  <1> QED
    BY <1>3, <1>4, <1>5, PaidStep

(* Every token the token thread ever counted is in the bucket, in its      *)
(* hand, was dropped because the bucket was full, or was spent on exactly  *)
(* one packet.                                                             *)
THEOREM TokensAccounted == Spec => []TokensConserved
  <1>1. Init => TokensConserved
    <2> SUFFICES ASSUME Init PROVE TokensConserved
      OBVIOUS
    <2>1. tokens_need \in [Packets -> Nat]
      BY InitFlow DEF FlowOK
    <2>2. Paid = <<>>
      <3>1. <<>> \o <<>> = <<>>
        BY ConcatEmptySeq
      <3> QED
        BY <3>1 DEF Paid, Init
    <2>3. Cost(tokens_need, Paid) = 0
      BY <2>1, <2>2, CostOfNone
    <2>4. pc["token"] = "sleep"
      BY DEF Init, Threads
    <2> QED
      BY <2>3, <2>4 DEF Init, TokensConserved
  <1>2. IInv /\ FlowOK /\ TokensConserved /\ [Next]_vars
          => (IInv /\ FlowOK /\ TokensConserved)'
    BY NextIInv, FlowStep, TokensStep
  <1>3. Init => IInv /\ FlowOK
    BY InitIInv, InitFlow
  <1> QED
    BY <1>1, <1>2, <1>3, PTL DEF Spec
-----------------------------------------------------------------------------
(***************************************************************************)
(* TokenBucketSignals: what survives when the handlers for <Cntrl+C> take  *)
(* the lists and Mutex away from the threads at any point.                 *)
(***************************************************************************)
(* Emptying a list in the middle of the pipeline keeps the others' order.  *)
LEMMA DropMiddle ==
    ASSUME NEW a \in Seq(Packets), NEW b \in Seq(Packets), NEW c \in Seq(Packets),
           Increasing((a \o b) \o c)
    PROVE  /\ Increasing(a \o c)
           /\ Range(a \o c) \subseteq Range((a \o b) \o c)
  <1> DEFINE la == Len(a)
             lb == Len(b)
             lc == Len(c)
             s == (a \o b) \o c
             t == a \o c
  <1>1. la \in Nat /\ lb \in Nat /\ lc \in Nat
    BY LenProperties
  <1>2. /\ a \o b \in Seq(Packets) /\ Len(a \o b) = la + lb
        /\ \A i \in 1 .. la + lb : (a \o b)[i] = IF i <= la THEN a[i] ELSE b[i - la]
    BY ConcatProperties
  <1>3. /\ s \in Seq(Packets) /\ Len(s) = (la + lb) + lc
        /\ \A i \in 1 .. (la + lb) + lc :
               s[i] = IF i <= la + lb THEN (a \o b)[i] ELSE c[i - (la + lb)]
    BY <1>2, ConcatProperties
  <1>4. /\ t \in Seq(Packets) /\ Len(t) = la + lc
        /\ \A i \in 1 .. la + lc : t[i] = IF i <= la THEN a[i] ELSE c[i - la]
    BY ConcatProperties
  <1>5. Increasing(s)
    OBVIOUS
  <1> HIDE DEF la, lb, lc, s, t
  <1>6. ASSUME NEW i \in 1 .. la + lc
        PROVE  t[i] = s[IF i <= la THEN i ELSE i + lb]
    <2>1. CASE i <= la
      <3>1. i \in 1 .. la + lb /\ i \in 1 .. (la + lb) + lc /\ i <= la + lb
        BY <1>1, <2>1
      <3> QED
        BY <1>2, <1>3, <1>4, <2>1, <3>1
    <2>2. CASE i > la
      <3>1. /\ i + lb \in 1 .. (la + lb) + lc /\ ~(i + lb <= la + lb)
            /\ (i + lb) - (la + lb) = i - la /\ ~(i <= la)
        BY <1>1, <2>2
      <3> QED
        BY <1>3, <1>4, <3>1
    <2> QED
      BY <1>1, <2>1, <2>2
  <1>7. Increasing(t)
    <2> SUFFICES ASSUME NEW i \in 1 .. la + lc, NEW j \in 1 .. la + lc, i < j
                 PROVE  t[i] < t[j]
      BY <1>4 DEF Increasing
    <2> DEFINE i1 == IF i <= la THEN i ELSE i + lb
               j1 == IF j <= la THEN j ELSE j + lb
    <2>1. i1 \in 1 .. (la + lb) + lc /\ j1 \in 1 .. (la + lb) + lc /\ i1 < j1
      BY <1>1
    <2>2. t[i] = s[i1] /\ t[j] = s[j1]
      BY <1>6
    <2> HIDE DEF i1, j1
    <2> QED
      BY <1>3, <1>5, <2>1, <2>2 DEF Increasing
  <1>8. Range(t) \subseteq Range(s)
    <2>1. Range(s) = {s[i] : i \in 1 .. (la + lb) + lc} /\ Range(t) = {t[i] : i \in 1 .. la + lc}
      BY <1>3, <1>4, RangeEquality
    <2>2. ASSUME NEW i \in 1 .. la + lc PROVE t[i] \in Range(s)
      <3> DEFINE i1 == IF i <= la THEN i ELSE i + lb
      <3>1. i1 \in 1 .. (la + lb) + lc
        BY <1>1
      <3>2. t[i] = s[i1]
        BY <1>6
      <3> HIDE DEF i1
      <3> QED
        BY <2>1, <3>1, <3>2
    <2> QED
      BY <2>1, <2>2
  <1> QED
    BY <1>7, <1>8 DEF s, t

(* The threads' own steps keep the types and Mutex's owner active.         *)
LEMMA EmulateStep ==
    ASSUME SigIInv, Emulate
    PROVE  SigTypeOK' /\ OwnerActive'
  <1> USE TokenBucketAssumption
  <1> USE DEF Emulate, sigvars, Threads, Labels, InCriticalSection, Goto, Unlock, queues,
              counters, inputs, stops, extras, served
  <1>0. FlowOK /\ SigTypeOK /\ OwnerActive
    BY DEF SigIInv
  <1>1. /\ pc \in [Threads -> Labels \union {"cleanup"}]
        /\ mutex \in Threads \union {"sigint", "none"} /\ Bucket \in 0 .. B /\ B \in Nat
    BY <1>0 DEF SigTypeOK
  <1>2. SUFFICES /\ mutex' \in Threads \union {"sigint", "none"} /\ Bucket' \in 0 .. B
                 /\ pc' \in [Threads -> Labels \union {"cleanup"}]
                 /\ OwnerActive'
    BY <1>0, <1>2 DEF SigTypeOK
  <1>3. CASE PacketLockNext \/ PacketLockArrive \/ TokenLock \/ ServerLock
             \/ ServerRelock \/ ExtraLock
    BY <1>0, <1>1, <1>3 DEF PacketLockNext, PacketLockArrive, TokenLock, ServerLock,
       ServerRelock, ExtraLock, Lock, OwnerActive
  <1>4. CASE PacketNext \/ TokenWake
    BY <1>0, <1>1, <1>4 DEF PacketNext, TokenWake, OwnerActive
  <1>5. CASE PacketArrive
    <2>1. Bucket' \in 0 .. B
      <3>1. Packet_List # <<>> /\ packet = Head(Packet_List)
        BY <1>0, <1>5 DEF PacketArrive, FlowOK
      <3>2. packet \in Packets
        BY <1>0, <3>1, HeadTailProperties DEF FlowOK
      <3>3. tokens_need[packet] \in Nat
        BY <1>0, <3>2 DEF FlowOK
      <3>4. \/ Bucket' = Bucket
            \/ Bucket >= tokens_need[packet] /\ Bucket' = Bucket - tokens_need[packet]
        BY <1>5 DEF PacketArrive, PacketDrop, PacketWaitInQ1, PacketPassQ1
      <3> QED
        BY <1>1, <3>3, <3>4
    <2>2. pc' \in [Threads -> Labels \union {"cleanup"}] /\ mutex' = "none"
      BY <1>1, <1>5 DEF PacketArrive, PacketDrop, PacketWaitInQ1, PacketPassQ1,
         MoveToQ2, Broadcast
    <2> QED
      BY <2>1, <2>2 DEF OwnerActive
  <1>6. CASE TokenTick
    <2>1. Bucket' \in 0 .. B
      <3>1. Deposited \in 0 .. B
        BY <1>1 DEF Deposited
      <3>2. CASE HeadAffordable /\ TokenDeposit
        <4>1. Head(Q1) \in Packets
          BY <1>0, <3>2, HeadTailProperties DEF FlowOK, HeadAffordable
        <4>2. tokens_need[Head(Q1)] \in Nat
          BY <1>0, <4>1 DEF FlowOK
        <4>3. /\ Deposited >= tokens_need[Head(Q1)]
              /\ Bucket' = Deposited - tokens_need[Head(Q1)]
          BY <3>2 DEF TokenDeposit, HeadAffordable
        <4> QED
          BY <1>1, <3>1, <4>2, <4>3
      <3>3. CASE ~HeadAffordable \/ TokenStop
        <4>1. Bucket' = Bucket \/ Bucket' = Deposited
          BY <1>6, <3>3 DEF TokenTick, TokenStop, TokenDeposit
        <4> QED
          BY <1>1, <3>1, <4>1
      <3> QED
        BY <1>6, <3>2, <3>3 DEF TokenTick
    <2>2. pc' \in [Threads -> Labels \union {"cleanup"}] /\ mutex' = "none"
      BY <1>1, <1>6 DEF TokenTick, TokenStop, TokenDeposit, MoveToQ2, Broadcast
    <2> QED
      BY <2>1, <2>2 DEF OwnerActive
  <1>7. CASE ServerCheck \/ ServerSpuriousWakeup \/ ServerEject
    BY <1>0, <1>1, <1>7 DEF ServerCheck, ServerSpuriousWakeup, ServerEject, OwnerActive
  <1>8. CASE ServerStatistics \/ ServerWait \/ ServerTake
    BY <1>0, <1>1, <1>8 DEF ServerStatistics, ServerWait, ServerTake, OwnerActive
  <1>9. CASE ExtraTest \/ ExtraAdd
    BY <1>0, <1>1, <1>9 DEF ExtraTest, ExtraAdd, OwnerActive
  <1> QED
    BY <1>3, <1>4, <1>5, <1>6, <1>7, <1>8, <1>9
       DEF Next, PacketThread, TokenThread, ServerThread, ExtraThread

(* The handlers throw lists away, and change nothing else of the packets.  *)
LEMMA CleanupOrder ==
    ASSUME FlowOK, PipelineOK
    PROVE  /\ PacketCleanup => PipelineOK'
           /\ TokenCleanup => PipelineOK'
  <1> USE DEF Interrupt, unlocked, queues, served, extras
  <1> DEFINE rs == Reported \o Collect_List \o serving
             rest == Q1 \o Packet_List
             none == <<>>
  <1>1. /\ rs \in Seq(Packets) /\ Q1 \in Seq(Packets) /\ Packet_List \in Seq(Packets)
        /\ Q2 \in Seq(Packets) /\ Paid \in Seq(Packets) /\ Paid = rs \o Q2
        /\ rest \in Seq(Packets) /\ none \in Seq(Packets)
    BY PipelineType, ConcatProperties DEF FlowOK, Paid
  <1>2. Increasing(Pipeline) /\ Range(Pipeline) \subseteq 1 .. Created
    BY DEF PipelineOK, PacketsInOrder, Increasing
  <1>3. Pipeline = Paid \o Q1 \o Packet_List
    BY DEF Pipeline, Paid
  <1> HIDE DEF rs, none
  <1>4. (Paid \o Q1) \o Packet_List = Paid \o rest
    <2>1. Paid \in Seq(Packets) /\ Q1 \in Seq(Packets) /\ Packet_List \in Seq(Packets)
      BY <1>1
    <2> QED
      BY <2>1, ConcatAssociative
  <1> HIDE DEF rest
  <1>5. ASSUME PacketCleanup PROVE PipelineOK'
    <2>1. Pipeline' = (Paid \o none) \o none /\ Created' = Created
      BY <1>5 DEF PacketCleanup, Pipeline, Paid, Created, none
    <2>2. Paid \o none = Paid
      BY <1>1, ConcatEmptySeq DEF none
    <2>3. Pipeline = (Paid \o rest) \o none
      <3>1. Paid \o rest \in Seq(Packets)
        BY <1>1, ConcatProperties
      <3>2. (Paid \o rest) \o none = Paid \o rest
        BY <3>1, ConcatEmptySeq DEF none
      <3> QED
        BY <1>3, <1>4, <3>2
    <2>4. /\ Increasing(Paid \o none)
          /\ Range(Paid \o none) \subseteq Range((Paid \o rest) \o none)
      BY <1>1, <1>2, <2>3, DropMiddle
    <2>5. Increasing(Pipeline') /\ Range(Pipeline') \subseteq 1 .. Created'
      BY <1>2, <2>1, <2>2, <2>3, <2>4
    <2> QED
      BY <2>5 DEF PipelineOK, PacketsInOrder, Increasing
  <1>6. ASSUME TokenCleanup PROVE PipelineOK'
    <2>1. Pipeline' = ((rs \o <<>>) \o Q1) \o Packet_List /\ Created' = Created
      BY <1>6 DEF TokenCleanup, Pipeline, Created, rs
    <2>2. rs \o <<>> = rs
      BY <1>1, ConcatEmptySeq
    <2>3. (rs \o Q1) \o Packet_List = rs \o rest
      <3>1. rs \in Seq(Packets) /\ Q1 \in Seq(Packets) /\ Packet_List \in Seq(Packets)
        BY <1>1
      <3> QED
        BY <3>1, ConcatAssociative DEF rest
    <2>4. Pipeline = (rs \o Q2) \o rest
      BY <1>1, <1>3, <1>4
    <2>5. Increasing(rs \o rest) /\ Range(rs \o rest) \subseteq Range((rs \o Q2) \o rest)
      BY <1>1, <1>2, <2>4, DropMiddle
    <2>6. Increasing(Pipeline') /\ Range(Pipeline') \subseteq 1 .. Created'
      BY <1>2, <2>1, <2>2, <2>3, <2>4, <2>5
    <2> QED
      BY <2>6 DEF PipelineOK, PacketsInOrder, Increasing
  <1> QED
    BY <1>5, <1>6

(* Every step of the threads, the SIGINT thread and the handlers preserves *)
(* the inductive invariant.                                                *)
LEMMA SigNextIInv == SigIInv /\ [SigNext]_allvars => SigIInv'
  <1> SUFFICES ASSUME SigIInv, [SigNext]_allvars PROVE SigIInv'
    OBVIOUS
  <1> USE DEF sigvars, unlocked, Threads, Labels, InCriticalSection, Goto, Unlock,
              queues, counters, inputs, stops, extras, served
  <1>0. FlowOK /\ PipelineOK /\ SigTypeOK /\ OwnerActive
    BY DEF SigIInv
  <1>e. <<>> \in Seq(Packets)
    OBVIOUS
  <1>1. CASE Emulate
    <2>1. FlowOK' /\ PipelineOK'
      BY <1>0, <1>1, FlowStep, OrderStep DEF Emulate
    <2> QED
      BY <1>1, <2>1, EmulateStep DEF SigIInv
  <1>2. CASE IntCatch \/ IntLock \/ IntKillPacket \/ IntKillToken \/ IntStop \/ ServerCrash
    <2>1. FlowOK' /\ PipelineOK'
      BY <1>0, <1>2 DEF IntCatch, IntLock, IntKillPacket, IntKillToken, IntStop,
         ServerCrash, FlowOK, PipelineOK, PacketsInOrder, Pipeline, Created, vars
    <2>2. SigTypeOK'
      BY <1>0, <1>2 DEF IntCatch, IntLock, IntKillPacket, IntKillToken, IntStop, Kill,
         ServerCrash, SigTypeOK, vars
    <2>3. OwnerActive'
      BY <1>0, <1>2 DEF IntCatch, IntLock, IntKillPacket, IntKillToken, IntStop, Kill,
         ServerCrash, SigTypeOK, OwnerActive, vars
    <2> QED
      BY <2>1, <2>2, <2>3 DEF SigIInv
  <1>3. CASE IntBroadcast
    <2>1. /\ pc' \in [Threads -> Labels \union {"cleanup"}]
          /\ pc'["packet"] = pc["packet"] /\ pc'["extra"] = pc["extra"]
          /\ pc'["server"] = "serve" <=> pc["server"] = "serve"
          /\ pc'["server"] = "done" <=> pc["server"] = "done"
      BY <1>0, <1>3 DEF IntBroadcast, Broadcast, SigTypeOK
    <2>2. FlowOK'
      BY <1>0, <1>3, <2>1 DEF IntBroadcast, FlowOK
    <2>3. PipelineOK'
      BY <1>0, <1>3, SMTT(30) DEF IntBroadcast, PipelineOK, PacketsInOrder, Pipeline, Created
    <2>4. SigTypeOK' /\ OwnerActive'
      BY <1>0, <1>3, <2>1 DEF IntBroadcast, SigTypeOK, OwnerActive
    <2> QED
      BY <2>2, <2>3, <2>4 DEF SigIInv
  <1>4. CASE PacketCleanup \/ TokenCleanup
    <2>0. PICK t \in {"packet", "token"} : Interrupt(t)
      BY <1>4 DEF PacketCleanup, TokenCleanup
    <2> USE DEF Interrupt, Trylock
    <2>1. FlowOK'
      <3>1. /\ pc' \in [Threads -> Labels \union {"cleanup"}]
            /\ pc'["extra"] = pc["extra"] /\ pc'["server"] = pc["server"]
            /\ pc'["packet"] = "cleanup" \/ pc'["packet"] = pc["packet"]
            /\ PacketCleanup => pc'["packet"] = "cleanup"
        BY <1>0, <1>4, <2>0 DEF PacketCleanup, SigTypeOK
      <3>2. /\ Packet_List' \in Seq(Packets) /\ Q1' \in Seq(Packets)
            /\ Q2' \in Seq(Packets)
            /\ ~PacketCleanup => Packet_List' = Packet_List
        BY <1>0, <1>4, <1>e DEF PacketCleanup, TokenCleanup, FlowOK
      <3> QED
        BY <1>0, <2>0, <3>1, <3>2 DEF FlowOK
    <2>2. PipelineOK'
      BY <1>0, <1>4, CleanupOrder
    <2>3. SigTypeOK'
      BY <1>0, <2>0 DEF SigTypeOK
    <2>4. OwnerActive'
      BY <1>0, <2>0 DEF SigTypeOK, OwnerActive
    <2> QED
      BY <2>1, <2>2, <2>3, <2>4 DEF SigIInv
  <1>5. CASE \E t \in {"packet", "token"} : CleanupExit(t)
    <2>1. FlowOK'
      BY <1>0, <1>5, SMTT(30) DEF CleanupExit, FlowOK
    <2>2. PipelineOK'
      BY <1>0, <1>5 DEF CleanupExit, PipelineOK, PacketsInOrder, Pipeline, Created
    <2>3. SigTypeOK' /\ OwnerActive'
      BY <1>0, <1>5 DEF CleanupExit, SigTypeOK, OwnerActive
    <2> QED
      BY <2>1, <2>2, <2>3 DEF SigIInv
  <1>6. CASE UNCHANGED allvars
    <2>1. UNCHANGED vars /\ UNCHANGED <<int_pc, pending, crashed>>
      BY <1>6 DEF allvars
    <2>2. FlowOK'
      BY <1>0, <2>1 DEF vars, FlowOK
    <2>3. PipelineOK'
      BY <1>0, <2>1, SMTT(30) DEF vars, PipelineOK, PacketsInOrder, Pipeline, Created
    <2>4. SigTypeOK' /\ OwnerActive'
      BY <1>0, <2>1 DEF vars, SigTypeOK, OwnerActive
    <2> QED
      BY <2>2, <2>3, <2>4 DEF SigIInv
  <1> QED
    BY <1>1, <1>2, <1>3, <1>4, <1>5, <1>6 DEF SigNext, IntThread, Handlers

(* The inductive invariant holds in every reachable state.                 *)
LEMMA SigInvariant == SigSpec => []SigIInv
  <1>1. SigInit => SigIInv
    <2> SUFFICES ASSUME SigInit PROVE SigIInv
      OBVIOUS
    <2>1. FlowOK /\ PipelineOK
      BY InitFlow DEF SigInit
    <2>2. TypeOK /\ mutex = "none"
      BY InitIInv DEF SigInit, IInv, Init
    <2>3. SigTypeOK
      BY <2>1, <2>2 DEF SigInit, SigTypeOK, TypeOK, FlowOK
    <2>4. OwnerActive
      BY <2>2 DEF OwnerActive, Threads
    <2> QED
      BY <2>1, <2>3, <2>4 DEF SigIInv
  <1> QED
    BY <1>1, SigNextIInv, PTL DEF SigSpec

-----------------------------------------------------------------------------
(* With the handlers too, the bucket holds between 0 and B tokens, and     *)
(* the SIGINT thread, the pending signals and Mutex's owner keep their     *)
(* types.                                                                  *)
THEOREM SigTypeCorrect == SigSpec => []SigTypeOK
  <1>1. SigIInv => SigTypeOK
    BY DEF SigIInv
  <1> QED
    BY <1>1, SigInvariant, PTL

(* A handler interrupts its thread anywhere, ignores whether it got Mutex  *)
(* and unlocks it all the same; still no thread that has exited owns it.   *)
THEOREM MutexNotOrphaned == SigSpec => []NoOrphanedMutex
  <1>1. SigIInv => NoOrphanedMutex
    BY DEF SigIInv, OwnerActive, NoOrphanedMutex, InCriticalSection
  <1> QED
    BY <1>1, SigInvariant, PTL

(* Although handlers free Mutex while another thread relies on it, no      *)
(* packet overtakes another or is in two places.                           *)
THEOREM OrderKeptUnderSignals == SigSpec => []PacketsInOrder
  <1>1. SigIInv => PacketsInOrder
    BY DEF SigIInv, PipelineOK
  <1> QED
    BY <1>1, SigInvariant, PTL
=============================================================================
