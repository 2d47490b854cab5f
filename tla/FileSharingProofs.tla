------------------------- MODULE FileSharingProofs -------------------------
(***************************************************************************)
(* Proofs about FileSharing, for every number of file servers and clients, *)
(* every placement of the documents and every topology, whatever datagrams *)
(* are lost, delayed or overtaken.                                         *)
(***************************************************************************)
EXTENDS FileSharing, FiniteSetTheorems, SequenceTheorems, NaturalsInduction, TLAPS

Founds == [mincost : Int, id : Servers \union {NoServer}]

(* f holds what the loop of the directory server has found after each of   *)
(* the first n servers.                                                    *)
SearchedTo(f, c, n) ==
    /\ f \in [0 .. n -> Founds]
    /\ f[0] = NothingFound
    /\ \A k \in 1 .. n : f[k] = Visit(f[k - 1], k, c)

(* A set of naturals that is not empty has a least member.                 *)
LEMMA LeastOne ==
    ASSUME NEW T \in SUBSET Nat, T # {}
    PROVE  \E m \in T : \A k \in T : m <= k
<1>1. PICK m \in T : \A k \in T : ~(<<k, m>> \in OpToRel(<, Nat))
  BY NatLessThanWellFounded, WFMin
<1>2. \A k \in T : ~(k < m)
  BY <1>1 DEF OpToRel
<1> QED BY <1>2

LEMMA VisitType ==
    ASSUME ShareTypeOK, NEW c \in Clients, NEW k \in Servers, NEW b \in Founds
    PROVE  Visit(b, k, c) \in Founds
<1>1. topology[c][k] \in Int
  BY DEF ShareTypeOK
<1> QED BY <1>1 DEF Visit, Founds

(* The loop is well founded.                                               *)
LEMMA SearchExists ==
    ASSUME ShareTypeOK, NEW c \in Clients
    PROVE  \E f : SearchedTo(f, c, FILE_SERVER_COUNT)
<1> DEFINE T == {k \in 0 .. FILE_SERVER_COUNT : ~ \E f : SearchedTo(f, c, k)}
<1>0. FILE_SERVER_COUNT \in Nat
  BY FileSharingAssumption
<1> SUFFICES ASSUME T # {} PROVE FALSE
  BY <1>0
<1>1. PICK m \in T : \A k \in T : m <= k
  <2>1. T \subseteq Nat
    BY <1>0
  <2> HIDE DEF T
  <2> QED BY <2>1, LeastOne
<1>2. m \in 0 .. FILE_SERVER_COUNT /\ ~ \E f : SearchedTo(f, c, m)
  OBVIOUS
<1>3. NothingFound \in Founds
  BY DEF NothingFound, Founds
<1>4. CASE m = 0
  <2>1. SearchedTo([k \in 0 .. 0 |-> NothingFound], c, 0)
    BY <1>3 DEF SearchedTo
  <2> QED BY <1>2, <1>4, <2>1
<1>5. CASE m > 0
  <2>1. m - 1 \in 0 .. FILE_SERVER_COUNT /\ m - 1 \notin T /\ m \in Servers
    BY <1>0, <1>1, <1>2, <1>5 DEF Servers
  <2>2. PICK f : SearchedTo(f, c, m - 1)
    BY <2>1
  <2> DEFINE v == Visit(f[m - 1], m, c)
             g == [k \in 0 .. m |-> IF k = m THEN v ELSE f[k]]
  <2>3. f \in [0 .. m - 1 -> Founds] /\ m - 1 \in 0 .. m - 1
    BY <1>0, <1>2, <1>5, <2>2 DEF SearchedTo
  <2>4. v \in Founds
    BY <2>1, <2>3, VisitType
  <2> HIDE DEF v
  <2>5. g \in [0 .. m -> Founds]
    <3>1. \A k \in 0 .. m : k # m => k \in 0 .. m - 1
      BY <1>0, <1>2
    <3> QED BY <2>3, <2>4, <3>1
  <2>6. g[0] = NothingFound
    BY <1>2, <1>5, <2>2 DEF SearchedTo
  <2>7. ASSUME NEW k \in 1 .. m PROVE g[k] = Visit(g[k - 1], k, c)
    <3>1. g[k - 1] = f[k - 1] /\ k \in 0 .. m
      BY <1>0, <1>2
    <3>2. CASE k = m
      BY <3>1, <3>2 DEF v
    <3>3. CASE k # m
      <4>1. k \in 1 .. m - 1
        BY <1>0, <1>2, <3>3
      <4>2. f[k] = Visit(f[k - 1], k, c)
        BY <2>2, <4>1 DEF SearchedTo
      <4> QED BY <3>1, <3>3, <4>2
    <3> QED BY <3>2, <3>3
  <2> HIDE DEF g
  <2>8. SearchedTo(g, c, m)
    BY <2>5, <2>6, <2>7 DEF SearchedTo
  <2> QED BY <1>2, <2>8
<1> QED BY <1>0, <1>2, <1>4, <1>5

(* contained_server_id is what the loop has found at its end.              *)
LEMMA SearchIsLoop ==
    ASSUME ShareTypeOK, NEW c \in Clients
    PROVE  \E f : SearchedTo(f, c, FILE_SERVER_COUNT) /\ contained_server_id(c) = f[FILE_SERVER_COUNT].id
<1> DEFINE N == FILE_SERVER_COUNT
           Eq(f) == f = [k \in 0 .. N |-> IF k = 0 THEN NothingFound ELSE Visit(f[k - 1], k, c)]
           b == CHOOSE f : Eq(f)
<1>1. N \in Nat
  BY FileSharingAssumption
<1>2. PICK f : SearchedTo(f, c, N)
  BY SearchExists
<1>3. Eq(f)
  <2>1. \A k \in 0 .. N : f[k] = IF k = 0 THEN NothingFound ELSE Visit(f[k - 1], k, c)
    BY <1>1, <1>2 DEF SearchedTo
  <2> QED BY <1>2, <2>1 DEF SearchedTo
<1>4. Eq(b)
  BY <1>3
<1>5. contained_server_id(c) = b[N].id
  BY DEF contained_server_id
<1> HIDE DEF b
<1>6. DOMAIN b = 0 .. N /\ b[0] = NothingFound
      /\ \A k \in 1 .. N : b[k] = Visit(b[k - 1], k, c)
  BY <1>1, <1>4
<1>7. \A k \in 0 .. N : b[k] = f[k]
  <2> DEFINE T == {k \in 0 .. N : b[k] # f[k]}
  <2>1. SUFFICES ASSUME T # {} PROVE FALSE
    OBVIOUS
  <2>2. PICK m \in T : \A k \in T : m <= k
    <3>1. T \subseteq Nat
      BY <1>1
    <3> QED BY <2>1, <3>1, LeastOne
  <2>3. m # 0
    BY <1>2, <1>6 DEF SearchedTo
  <2>4. m - 1 \in 0 .. N /\ m \in 1 .. N /\ m - 1 \notin T
    BY <1>1, <2>2, <2>3
  <2>5. b[m - 1] = f[m - 1]
    BY <2>4
  <2> QED BY <1>2, <1>6, <2>4, <2>5 DEF SearchedTo
<1> QED BY <1>1, <1>2, <1>5, <1>7
(* What the search knows after the first k servers: that none of them has  *)
(* the document, or the nearest one that has it.                           *)
FoundUpTo(b, c, k) ==
    \/ b = NothingFound /\ \A t \in 1 .. k : request_doc(c) \notin resource[t]
    \/ /\ b.id \in 1 .. k
       /\ request_doc(c) \in resource[b.id]
       /\ b.mincost = topology[c][b.id]
       /\ \A t \in 1 .. k : request_doc(c) \in resource[t] => b.mincost <= topology[c][t]

LEMMA VisitFinds ==
    ASSUME ShareTypeOK, NEW c \in Clients, NEW k \in Servers, NEW b, FoundUpTo(b, c, k - 1)
    PROVE  FoundUpTo(Visit(b, k, c), c, k)
<1>1. /\ k \in Nat /\ k >= 1 /\ 1 .. k = (1 .. k - 1) \union {k} /\ k \in 1 .. k
      /\ 1 .. k \subseteq Servers
  BY FileSharingAssumption DEF Servers
<1>2. \A t \in Servers : topology[c][t] \in Nat \ {0}
  BY DEF ShareTypeOK
<1> DEFINE d == request_doc(c)
           cost == topology[c]
<1> HIDE DEF d, cost
<1>3. CASE d \notin resource[k]
  <2>1. Visit(b, k, c) = b
    BY <1>3 DEF Visit, d
  <2> QED BY <1>1, <1>3, <2>1 DEF FoundUpTo, d
<1>4. CASE d \in resource[k] /\ b = NothingFound
  <2>1. Visit(b, k, c) = [mincost |-> cost[k], id |-> k]
    BY <1>4 DEF Visit, NothingFound, d, cost
  <2>2. \A t \in 1 .. k - 1 : d \notin resource[t]
    <3>1. ~(b.id \in 1 .. k - 1)
      BY <1>4, FileSharingAssumption, <1>1 DEF NothingFound, Servers
    <3> QED BY <3>1 DEF FoundUpTo, d
  <2> QED BY <1>1, <1>2, <1>4, <2>1, <2>2 DEF FoundUpTo, d, cost
<1>5. CASE d \in resource[k] /\ b # NothingFound
  <2>1. /\ b.id \in 1 .. k - 1 /\ d \in resource[b.id] /\ b.mincost = cost[b.id]
        /\ \A t \in 1 .. k - 1 : d \in resource[t] => b.mincost <= cost[t]
    BY <1>5 DEF FoundUpTo, d, cost
  <2>2. b.mincost \in Nat /\ b.mincost # -1 /\ cost[k] \in Nat
        /\ \A t \in 1 .. k : cost[t] \in Nat
    BY <1>1, <1>2, <2>1 DEF cost
  <2>3. CASE cost[k] < b.mincost
    <3>1. Visit(b, k, c) = [mincost |-> cost[k], id |-> k]
      BY <1>5, <2>3 DEF Visit, d, cost
    <3>2. \A t \in 1 .. k : d \in resource[t] => cost[k] <= cost[t]
      BY <1>1, <2>1, <2>2, <2>3
    <3> QED BY <1>1, <1>5, <3>1, <3>2 DEF FoundUpTo, d, cost
  <2>4. CASE ~(cost[k] < b.mincost)
    <3>1. Visit(b, k, c) = b
      BY <2>2, <2>4 DEF Visit, d, cost
    <3>2. \A t \in 1 .. k : d \in resource[t] => b.mincost <= cost[t]
      BY <1>1, <2>1, <2>2, <2>4
    <3> QED BY <1>1, <2>1, <3>1, <3>2 DEF FoundUpTo, d, cost
  <2> QED BY <2>3, <2>4
<1> QED BY <1>3, <1>4, <1>5

(* The server that is chosen is a nearest one, whenever there is one.      *)
LEMMA ChoosesNearest ==
    ASSUME ShareTypeOK, NEW c \in Clients
    PROVE  /\ contained_server_id(c) \in Servers \union {NoServer}
           /\ Holders(request_doc(c)) # {} => Nearest(c, contained_server_id(c))
<1> DEFINE N == FILE_SERVER_COUNT
<1>1. PICK f : SearchedTo(f, c, N) /\ contained_server_id(c) = f[N].id
  BY SearchIsLoop
<1>2. N \in Nat
  BY FileSharingAssumption
<1> HIDE DEF N
<1>3. f[N] \in Founds
  BY <1>1, <1>2 DEF SearchedTo
<1>4. FoundUpTo(f[N], c, N)
  <2> DEFINE T == {k \in 0 .. N : ~FoundUpTo(f[k], c, k)}
  <2>1. SUFFICES ASSUME T # {} PROVE FALSE
    BY <1>2
  <2>2. PICK m \in T : \A k \in T : m <= k
    <3>1. T \subseteq Nat
      BY <1>2
    <3> HIDE DEF T
    <3> QED BY <2>1, <3>1, LeastOne
  <2>3. m # 0
    <3>1. FoundUpTo(NothingFound, c, 0)
      BY DEF FoundUpTo
    <3>2. f[0] = NothingFound
      BY <1>1 DEF SearchedTo
    <3> QED BY <2>2, <3>1, <3>2
  <2>4. m - 1 \in 0 .. N /\ m \in 1 .. N /\ m - 1 \notin T
    BY <1>2, <2>2, <2>3
  <2>5. m \in Servers /\ FoundUpTo(f[m - 1], c, m - 1)
    BY <2>4 DEF Servers, N
  <2>6. f[m] = Visit(f[m - 1], m, c)
    BY <1>1, <2>4 DEF SearchedTo
  <2>7. FoundUpTo(f[m], c, m)
    BY <2>5, <2>6, VisitFinds
  <2> QED BY <2>2, <2>7
<1>5. ASSUME Holders(request_doc(c)) # {} PROVE Nearest(c, f[N].id)
  <2>1. \E t \in 1 .. N : request_doc(c) \in resource[t]
    BY <1>5 DEF Holders, Servers, N
  <2>2. /\ f[N].id \in 1 .. N
        /\ request_doc(c) \in resource[f[N].id]
        /\ f[N].mincost = topology[c][f[N].id]
        /\ \A t \in 1 .. N : request_doc(c) \in resource[t] => f[N].mincost <= topology[c][t]
    BY <1>4, <2>1 DEF FoundUpTo
  <2> QED BY <2>2 DEF Nearest, Holders, Servers, N
<1> QED BY <1>1, <1>3, <1>5 DEF Founds
-----------------------------------------------------------------------------
(* The inductive invariant                                                 *)

LEMMA ServersCounted ==
    /\ IsFiniteSet(Servers) /\ Cardinality(Servers) = FILE_SERVER_COUNT
    /\ 0 \notin Clients
<1>1. FILE_SERVER_COUNT \in Nat /\ CLIENT_COUNT \in Nat
  BY FileSharingAssumption
<1>2. IsFiniteSet(Servers) /\ Cardinality(Servers) = FILE_SERVER_COUNT
  BY <1>1, FS_Interval DEF Servers
<1> QED BY <1>1, <1>2 DEF Clients

LEMMA InitShare == Init => ShareIInv
<1> SUFFICES ASSUME Init PROVE ShareIInv
  OBVIOUS
<1>1. ShareTypeOK
  <2>1. resource \in [Servers -> SUBSET Docs] /\ topology \in [Clients -> [Servers -> Nat \ {0}]]
    BY FileSharingAssumption DEF Init
  <2> QED BY <2>1 DEF Init, ShareTypeOK, DirState
<1>2. RegistrationsCounted
  BY DEF Init, RegistrationsCounted
<1>3. AnswersDecided
  <2>1. "start" \notin Told
    BY DEF Told
  <2> QED BY <2>1 DEF Init, AnswersDecided
<1>4. ConnectionsExpected
  <2>1. \A s \in Servers : Range(backlog[s]) = {}
    BY DEF Init, Range
  <2> QED BY <2>1 DEF Init, ConnectionsExpected
<1> QED BY <1>1, <1>2, <1>3, <1>4 DEF ShareIInv

(* A decision stands: the files are read once, and the list only grows.    *)
LEMMA DecisionsStand ==
    ASSUME UNCHANGED files, dir.list = Servers => dir'.list = Servers
    PROVE  \A c \in Clients, s \in Servers \union {NoServer} : Decided(c, s) => Decided(c, s)'
BY DEF files, Decided, Nearest, Holders

(* The steps that let only answers on their way come or go, and leave      *)
(* alone what the clients know and the connections.                        *)
LEMMA DirectoryStep ==
    ASSUME ShareIInv, ShareTypeOK', RegistrationsCounted',
           UNCHANGED <<servers, clients, files>>,
           dir.list = Servers => dir'.list = Servers,
           \A c \in Clients, s \in Servers \union {NoServer} :
               Answer(c, s) \in net' => Answer(c, s) \in net \/ Decided(c, s)'
    PROVE  ShareIInv'
<1>1. \A c \in Clients, s \in Servers \union {NoServer} : Decided(c, s) => Decided(c, s)'
  <2>1. UNCHANGED files
    OBVIOUS
  <2> QED BY <2>1, DecisionsStand
<1>2. /\ UNCHANGED <<fserver, backlog, serving, closed>>
      /\ UNCHANGED <<client, told, got>>
  BY DEF servers, clients
<1>3. AnswersDecided'
  <2>1. \A c \in Clients : told[c] \in Servers \union {NoServer}
    BY DEF ShareIInv, ShareTypeOK
  <2> QED BY <1>1, <1>2, <2>1 DEF ShareIInv, AnswersDecided
<1>4. ConnectionsExpected'
  <2>1. \A s \in Servers : Visitors(s)' = Visitors(s)
    BY <1>2 DEF Visitors
  <2> QED BY <1>2, <2>1 DEF ShareIInv, ConnectionsExpected
<1> QED BY <1>3, <1>4 DEF ShareIInv

LEMMA BindStep ==
    ASSUME ShareIInv, bind_phase1 \/ bind_phase2 \/ dir_fails
    PROVE  ShareIInv'
<1>1. PICK pc \in {"registrations", "requests", "failed"} :
        /\ \/ dir' = [dir EXCEPT !.pc = pc, !.i = 0]
           \/ dir' = [dir EXCEPT !.pc = pc] /\ pc = "failed"
        /\ pc = "registrations" => dir.pc = "start"
        /\ pc = "requests" => dir.pc = "between"
  BY DEF bind_phase1, bind_phase2, Bind, dir_fails
<1>2. UNCHANGED <<net, servers, clients, files>>
  BY DEF bind_phase1, bind_phase2, Bind, dir_fails
<1>3. dir \in DirState
  BY DEF ShareIInv, ShareTypeOK
<1>4. dir'.list = dir.list /\ dir'.pc = pc /\ (pc # "failed" => dir'.i = 0)
  BY <1>1, <1>3 DEF DirState
<1>5. dir' \in DirState
  <2>1. CASE dir' = [dir EXCEPT !.pc = pc, !.i = 0]
    BY <1>3, <2>1 DEF DirState
  <2>2. CASE dir' = [dir EXCEPT !.pc = pc]
    BY <1>3, <2>2 DEF DirState
  <2> QED BY <1>1, <2>1, <2>2
<1>6. ShareTypeOK'
  BY <1>2, <1>5 DEF ShareIInv, ShareTypeOK, servers, clients, files
<1>7. RegistrationsCounted'
  <2>1. Cardinality({}) = 0
    BY FS_EmptySet
  <2>2. pc = "registrations" => dir'.i = Cardinality(dir.list)
    BY <1>1, <1>4, <2>1 DEF ShareIInv, RegistrationsCounted
  <2> QED BY <1>1, <1>2, <1>4, <2>2 DEF ShareIInv, RegistrationsCounted, servers
<1> QED BY <1>2, <1>4, <1>6, <1>7, DirectoryStep

(* The last registration completes the list: the number of datagrams read  *)
(* is the number of servers that sent one.                                 *)
LEMMA RecvRegisterStep ==
    ASSUME ShareIInv, NEW s \in Servers, recv_register(s)
    PROVE  ShareIInv'
<1>1. /\ dir.pc = "registrations" /\ Register(s) \in net
      /\ net' = net \ {Register(s)} /\ dir' = Registered(s)
      /\ UNCHANGED <<servers, clients, files>>
  BY DEF recv_register
<1>2. /\ dir \in DirState /\ s \notin dir.list /\ fserver[s] # "start"
      /\ dir.i = Cardinality(dir.list) /\ dir.list \subseteq Servers /\ dir.i \in Nat
  BY <1>1 DEF ShareIInv, ShareTypeOK, RegistrationsCounted, DirState
<1> DEFINE last == dir.i + 1 = FILE_SERVER_COUNT
           list == dir.list \union {s}
<1>3. /\ dir'.i = dir.i + 1 /\ dir'.list = list
      /\ dir'.pc = IF last THEN "between" ELSE "registrations"
      /\ dir' \in DirState
  <2>1. DOMAIN dir = {"pc", "i", "list"}
    BY <1>2 DEF DirState
  <2>2. dir' = [pc |-> IF last THEN "between" ELSE "registrations", i |-> dir.i + 1,
                list |-> list]
    BY <1>1, <1>2, <2>1 DEF Registered, DirState
  <2> QED BY <1>2, <2>2 DEF DirState
<1>4. Cardinality(list) = dir.i + 1
  <2>1. IsFiniteSet(dir.list)
    BY <1>2, ServersCounted, FS_Subset
  <2> QED BY <1>2, <2>1, FS_AddElement
<1>5. last => list = Servers
  <2>1. list \subseteq Servers
    BY <1>2
  <2> QED BY <1>4, <2>1, ServersCounted, FS_Subset
<1> HIDE DEF last, list
<1>6. RegistrationsCounted'
  <2>1. \A t \in Servers : Register(t) \in net' => t \notin dir'.list /\ fserver[t] # "start"
    BY <1>1, <1>3 DEF ShareIInv, RegistrationsCounted, Register, list
  <2>2. \A t \in dir'.list : fserver[t] # "start"
    BY <1>2, <1>3 DEF ShareIInv, RegistrationsCounted, list
  <2>3. fserver' = fserver
    BY <1>1 DEF servers
  <2> QED BY <1>3, <1>4, <1>5, <2>1, <2>2, <2>3 DEF RegistrationsCounted
<1>7. ShareTypeOK'
  BY <1>1, <1>3 DEF ShareIInv, ShareTypeOK, servers, clients, files
<1>8. dir.list = Servers => dir'.list = Servers
  BY <1>2
<1>9. net' \subseteq net
  BY <1>1
<1> QED BY <1>1, <1>6, <1>7, <1>8, <1>9, DirectoryStep

(* The answer names a nearest server: the list is complete when the first  *)
(* request is read.                                                        *)
LEMMA RecvRequestStep ==
    ASSUME ShareIInv, NEW c \in Clients, recv_request(c)
    PROVE  ShareIInv'
<1> DEFINE id == contained_server_id(c)
<1>1. /\ dir.pc = "requests"
      /\ \/ dir' = Answered
         \/ dir' = [dir EXCEPT !.pc = "failed"]
      /\ UNCHANGED <<servers, clients, files>>
  BY DEF recv_request
<1>2. dir \in DirState /\ dir.list = Servers
  BY <1>1 DEF ShareIInv, ShareTypeOK, RegistrationsCounted
<1>3. dir' \in DirState /\ dir'.list = Servers /\ dir'.pc \in {"requests", "done", "failed"}
  <2>1. CASE dir' = Answered
    <3>1. DOMAIN dir = {"pc", "i", "list"} /\ dir.i \in Nat
      BY <1>2 DEF DirState
    <3>2. dir' = [pc |-> IF dir.i + 1 = CLIENT_COUNT THEN "done" ELSE "requests",
                  i |-> dir.i + 1, list |-> dir.list]
      BY <1>1, <1>2, <2>1, <3>1 DEF Answered, DirState
    <3> QED BY <1>2, <3>1, <3>2 DEF DirState
  <2>2. CASE dir' = [dir EXCEPT !.pc = "failed"]
    BY <1>2, <2>2 DEF DirState
  <2> QED BY <1>1, <2>1, <2>2
<1>4. ShareTypeOK'
  BY <1>1, <1>3 DEF ShareIInv, ShareTypeOK, servers, clients, files
<1>5. \/ net' = net \ {Request(c)}
      \/ \E s \in Servers \union {NoServer} :
            /\ net' = (net \ {Request(c)}) \union {Answer(c, Stored(s))}
            /\ s = id \/ id = NoServer
  <2>1. id \in Servers \union {NoServer}
    BY ChoosesNearest DEF ShareIInv
  <2> QED BY <2>1 DEF recv_request
<1>6. RegistrationsCounted'
  <2>1. \A t \in Servers : Register(t) \in net' => Register(t) \in net
    BY <1>5 DEF Register, Answer
  <2> QED BY <1>1, <1>2, <1>3, <2>1 DEF ShareIInv, RegistrationsCounted, servers
<1>7. ASSUME NEW d \in Clients, NEW s \in Servers \union {NoServer}, Answer(d, s) \in net',
             Answer(d, s) \notin net
      PROVE  Decided(d, s)'
  <2>1. PICK t \in Servers \union {NoServer} :
          Answer(d, s) = Answer(c, Stored(t)) /\ (t = id \/ id = NoServer)
    BY <1>5, <1>7
  <2>2. d = c /\ s = Stored(t)
    BY <2>1 DEF Answer
  <2>3. s = t
    BY <1>2, <2>2 DEF Stored
  <2>4. Holders(request_doc(c)) # {} => Nearest(c, id) /\ id \in Servers
    BY ChoosesNearest DEF ShareIInv, Nearest, Holders
  <2>5. Decided(d, s)
    BY <1>2, <2>1, <2>2, <2>3, <2>4, FileSharingAssumption DEF Decided
  <2>6. UNCHANGED files
    BY <1>1
  <2> QED BY <1>3, <2>5, <2>6, DecisionsStand
<1> QED BY <1>1, <1>2, <1>3, <1>4, <1>6, <1>7, DirectoryStep
(* The steps of the file servers and of the clients.                       *)
LEMMA PeerStep ==
    ASSUME ShareIInv, ShareTypeOK', RegistrationsCounted', ConnectionsExpected',
           UNCHANGED <<dir, files>>,
           \A c \in Clients, s \in Servers \union {NoServer} :
               Answer(c, s) \in net' => Answer(c, s) \in net,
           \A c \in Clients :
               \/ client'[c] = client[c] /\ told'[c] = told[c]
               \/ /\ client'[c] \in {"start", "waiting"} => told'[c] = NoServer
                  /\ client'[c] \in Told \/ told'[c] # NoServer =>
                         \/ /\ client[c] \in Told \/ told[c] # NoServer
                            /\ told'[c] = told[c]
                         \/ Decided(c, told'[c])
    PROVE  ShareIInv'
<1>1. UNCHANGED files /\ (dir.list = Servers => dir'.list = Servers)
  OBVIOUS
<1>2. \A c \in Clients, s \in Servers \union {NoServer} : Decided(c, s) => Decided(c, s)'
  BY <1>1, DecisionsStand
<1>3. \A c \in Clients : told'[c] \in Servers \union {NoServer}
  BY DEF ShareTypeOK
<1>4. AnswersDecided'
  <2>1. ASSUME NEW c \in Clients, NEW s \in Servers \union {NoServer}, Answer(c, s) \in net'
        PROVE  Decided(c, s)'
    BY <1>2, <2>1 DEF ShareIInv, AnswersDecided
  <2>2. ASSUME NEW c \in Clients, client'[c] \in Told \/ told'[c] # NoServer
        PROVE  Decided(c, told[c])'
    <3>1. PICK t \in Servers \union {NoServer} : t = told'[c]
      BY <1>3
    <3>2. Decided(c, t)
      BY <2>2, <3>1 DEF ShareIInv, AnswersDecided
    <3>3. Decided(c, t)'
      BY <1>2, <3>2
    <3> QED BY <3>1, <3>3 DEF Decided
  <2>3. \A c \in Clients : client'[c] \in {"start", "waiting"} => told'[c] = NoServer
    BY DEF ShareIInv, AnswersDecided
  <2> QED BY <2>1, <2>2, <2>3 DEF AnswersDecided
<1> QED BY <1>4 DEF ShareIInv

LEMMA SendRegisterStep ==
    ASSUME ShareIInv, NEW s \in Servers, send_register(s)
    PROVE  ShareIInv'
<1>1. /\ fserver[s] = "start"
      /\ net' = net \union {Register(s)} \/ net' = net
      /\ net' = net \union {Register(s)} => fserver'[s] # "start"
      /\ UNCHANGED <<dir, backlog, serving, closed, clients, files>>
      /\ fserver \in [Servers -> {"start", "registered", "listening", "failed"}]
  BY DEF send_register, ShareIInv, ShareTypeOK
<1>2. /\ fserver' \in [Servers -> {"start", "registered", "listening", "failed"}]
      /\ fserver'[s] # "start" /\ \A t \in Servers \ {s} : fserver'[t] = fserver[t]
  BY <1>1 DEF send_register
<1>3. ShareTypeOK'
  BY <1>1, <1>2 DEF ShareIInv, ShareTypeOK, clients, files
<1>4. RegistrationsCounted'
  <2>1. s \notin dir.list
    BY <1>1 DEF ShareIInv, RegistrationsCounted
  <2>2. ASSUME NEW t \in Servers, Register(t) \in net'
        PROVE  t \notin dir.list /\ fserver'[t] # "start"
    <3>1. CASE t = s
      BY <1>2, <2>1, <3>1
    <3>2. CASE t # s
      BY <1>1, <1>2, <2>2, <3>2 DEF ShareIInv, RegistrationsCounted, Register
    <3> QED BY <3>1, <3>2
  <2>3. \A t \in dir.list : fserver'[t] # "start"
    BY <1>2, <2>1 DEF ShareIInv, RegistrationsCounted, ShareTypeOK, DirState
  <2> QED BY <1>1, <2>2, <2>3 DEF ShareIInv, RegistrationsCounted
<1>5. ConnectionsExpected'
  <2>1. \A t \in Servers : Visitors(t)' = Visitors(t)
    BY <1>1 DEF Visitors, clients
  <2> QED BY <1>1, <2>1 DEF ShareIInv, ConnectionsExpected, clients
<1>6. \A c \in Clients, t \in Servers \union {NoServer} : Answer(c, t) \in net' => Answer(c, t) \in net
  BY <1>1 DEF Answer, Register
<1> QED BY <1>1, <1>3, <1>4, <1>5, <1>6, PeerStep DEF clients

LEMMA ListenStep ==
    ASSUME ShareIInv, NEW s \in Servers, listen(s)
    PROVE  ShareIInv'
<1>1. /\ fserver[s] = "registered"
      /\ UNCHANGED <<net, dir, backlog, serving, closed, clients, files>>
      /\ fserver \in [Servers -> {"start", "registered", "listening", "failed"}]
  BY DEF listen, ShareIInv, ShareTypeOK
<1>2. /\ fserver' \in [Servers -> {"start", "registered", "listening", "failed"}]
      /\ fserver'[s] # "start" /\ \A t \in Servers \ {s} : fserver'[t] = fserver[t]
  BY <1>1 DEF listen
<1>3. ShareTypeOK'
  BY <1>1, <1>2 DEF ShareIInv, ShareTypeOK, clients, files
<1>4. RegistrationsCounted'
  <2>1. \A t \in Servers : fserver[t] # "start" => fserver'[t] # "start"
    BY <1>2
  <2>2. dir.list \subseteq Servers
    BY DEF ShareIInv, ShareTypeOK, DirState
  <2> QED BY <1>1, <2>1, <2>2 DEF ShareIInv, RegistrationsCounted
<1>5. ConnectionsExpected'
  <2>1. \A t \in Servers : Visitors(t)' = Visitors(t)
    BY <1>1 DEF Visitors, clients
  <2> QED BY <1>1, <2>1 DEF ShareIInv, ConnectionsExpected, clients
<1> QED BY <1>1, <1>3, <1>4, <1>5, PeerStep DEF clients

(* A connection moves from the backlog to recv, and on to a child, or it   *)
(* is closed.                                                              *)
LEMMA ConnectionMoves ==
    ASSUME ShareIInv, NEW s \in Servers, accept(s) \/ recv_fork(s) \/ recv_fails(s)
    PROVE  ShareIInv'
<1>1. /\ UNCHANGED <<net, dir, clients, files>>
      /\ fserver' = fserver \/ fserver' = [fserver EXCEPT ![s] = "failed"]
  BY DEF accept, recv_fork, recv_fails
<1> DEFINE Slots == [reading : Clients \union {0}, children : SUBSET Clients]
<1>2. /\ backlog \in [Servers -> Seq(Clients)] /\ serving \in [Servers -> Slots]
      /\ Range(backlog[s]) \subseteq Visitors(s)
      /\ serving[s].reading # 0 => serving[s].reading \in Visitors(s)
      /\ serving[s].children \subseteq Visitors(s)
  BY DEF ShareIInv, ShareTypeOK, ConnectionsExpected
<1>3. /\ backlog' \in [Servers -> Seq(Clients)] /\ serving' \in [Servers -> Slots]
      /\ \A t \in Servers \ {s} : backlog'[t] = backlog[t] /\ serving'[t] = serving[t]
      /\ Range(backlog'[s]) \subseteq Visitors(s)
      /\ serving'[s].reading # 0 => serving'[s].reading \in Visitors(s)
      /\ serving'[s].children \subseteq Visitors(s)
  <2>1. CASE accept(s)
    <3>1. /\ backlog[s] \in Seq(Clients) /\ backlog[s] # <<>>
          /\ serving' = [serving EXCEPT ![s].reading = Head(backlog[s])]
          /\ backlog' = [backlog EXCEPT ![s] = Tail(backlog[s])]
      BY <1>2, <2>1 DEF accept
    <3>2. /\ Head(backlog[s]) \in Clients /\ Tail(backlog[s]) \in Seq(Clients)
          /\ Head(backlog[s]) \in Range(backlog[s])
          /\ Range(Tail(backlog[s])) \subseteq Range(backlog[s])
      <4>1. /\ Head(backlog[s]) = backlog[s][1] /\ 1 \in 1 .. Len(backlog[s])
            /\ DOMAIN backlog[s] = 1 .. Len(backlog[s]) /\ backlog[s][1] \in Clients
        BY <3>1
      <4>2. /\ Tail(backlog[s]) \in Seq(Clients)
            /\ Len(Tail(backlog[s])) = Len(backlog[s]) - 1
            /\ \A i \in 1 .. Len(backlog[s]) - 1 : Tail(backlog[s])[i] = backlog[s][i + 1]
            /\ Len(backlog[s]) \in Nat
        BY <3>1, HeadTailProperties
      <4>3. \A i \in 1 .. Len(backlog[s]) - 1 : i + 1 \in 1 .. Len(backlog[s])
        BY <4>2
      <4>4. DOMAIN Tail(backlog[s]) = 1 .. Len(backlog[s]) - 1
        BY <4>2
      <4> QED BY <4>1, <4>2, <4>3, <4>4 DEF Range
    <3>3. /\ backlog' \in [Servers -> Seq(Clients)] /\ backlog'[s] = Tail(backlog[s])
          /\ \A t \in Servers \ {s} : backlog'[t] = backlog[t]
      BY <1>2, <3>1, <3>2
    <3>4. /\ serving' \in [Servers -> Slots]
          /\ serving'[s].reading = Head(backlog[s]) /\ serving'[s].children = serving[s].children
          /\ \A t \in Servers \ {s} : serving'[t] = serving[t]
      BY <1>2, <3>1, <3>2
    <3> QED BY <1>2, <3>2, <3>3, <3>4
  <2>2. CASE recv_fork(s)
    <3>1. PICK c \in Clients :
            /\ c = serving[s].reading /\ UNCHANGED backlog
            /\ \/ serving' = [serving EXCEPT ![s] = [reading |-> 0,
                                                    children |-> serving[s].children \union {c}]]
               \/ serving' = [serving EXCEPT ![s].reading = 0]
      BY <1>2, <2>2 DEF recv_fork
    <3>2. c \in Visitors(s)
      BY <1>2, <3>1, ServersCounted
    <3>3. /\ serving' \in [Servers -> Slots]
          /\ serving'[s].reading = 0
          /\ serving'[s].children \subseteq serving[s].children \union {c}
          /\ \A t \in Servers \ {s} : serving'[t] = serving[t]
      <4>1. CASE serving' = [serving EXCEPT ![s].reading = 0]
        BY <1>2, <4>1
      <4>2. CASE serving' = [serving EXCEPT ![s] = [reading |-> 0,
                                                   children |-> serving[s].children \union {c}]]
        BY <1>2, <4>2
      <4> QED BY <3>1, <4>1, <4>2
    <3> QED BY <1>2, <3>1, <3>2, <3>3
  <2>3. CASE recv_fails(s)
    <3>1. /\ backlog' = [backlog EXCEPT ![s] = <<>>]
          /\ serving' = [serving EXCEPT ![s].reading = 0]
      BY <2>3 DEF recv_fails
    <3>2. Range(<<>>) = {} /\ <<>> \in Seq(Clients)
      BY DEF Range
    <3>3. /\ backlog' \in [Servers -> Seq(Clients)] /\ backlog'[s] = <<>>
          /\ \A t \in Servers \ {s} : backlog'[t] = backlog[t]
      BY <1>2, <3>1, <3>2
    <3>4. /\ serving' \in [Servers -> Slots]
          /\ serving'[s].reading = 0 /\ serving'[s].children = serving[s].children
          /\ \A t \in Servers \ {s} : serving'[t] = serving[t]
      BY <1>2, <3>1
    <3> QED BY <1>2, <3>2, <3>3, <3>4
  <2> QED BY <2>1, <2>2, <2>3
<1>4. ShareTypeOK'
  <2>1. fserver' \in [Servers -> {"start", "registered", "listening", "failed"}]
    BY <1>1 DEF ShareIInv, ShareTypeOK
  <2>2. closed' \subseteq Clients
    <3>1. closed \subseteq Clients /\ Range(backlog[s]) \subseteq Clients
      BY <1>2 DEF ShareIInv, ShareTypeOK, Visitors
    <3>2. serving[s].reading # 0 => serving[s].reading \in Clients
      BY <1>2
    <3> QED BY <3>1, <3>2 DEF accept, recv_fork, recv_fails
  <2> QED BY <1>1, <1>3, <2>1, <2>2 DEF ShareIInv, ShareTypeOK, clients, files
<1>5. RegistrationsCounted'
  <2>1. \A t \in Servers : fserver[t] # "start" => fserver'[t] # "start"
    BY <1>1 DEF ShareIInv, ShareTypeOK
  <2>2. dir.list \subseteq Servers
    BY DEF ShareIInv, ShareTypeOK, DirState
  <2> QED BY <1>1, <2>1, <2>2 DEF ShareIInv, RegistrationsCounted
<1>6. ConnectionsExpected'
  <2>1. \A t \in Servers : Visitors(t)' = Visitors(t)
    BY <1>1 DEF Visitors, clients
  <2>2. ASSUME NEW t \in Servers
        PROVE  /\ Range(backlog'[t]) \subseteq Visitors(t)
               /\ serving'[t].reading # 0 => serving'[t].reading \in Visitors(t)
               /\ serving'[t].children \subseteq Visitors(t)
    BY <1>3 DEF ShareIInv, ConnectionsExpected
  <2>3. \A c \in Clients : \A r \in got[c] : r = <<request_doc(c), told[c]>>
    BY DEF ShareIInv, ConnectionsExpected
  <2> QED BY <1>1, <2>1, <2>2, <2>3 DEF ConnectionsExpected, clients
<1> QED BY <1>1, <1>4, <1>5, <1>6, PeerStep DEF clients

ClientPcs == {"start", "waiting", "failed"} \union Told

(* A child's document goes to a client that was told to come to its server.*)
LEMMA ChildSendStep ==
    ASSUME ShareIInv, NEW s \in Servers, NEW c \in Clients, child_send(s, c)
    PROVE  ShareIInv'
<1> DEFINE Slots == [reading : Clients \union {0}, children : SUBSET Clients]
<1>1. /\ c \in serving[s].children
      /\ serving' = [serving EXCEPT ![s].children = serving[s].children \ {c}]
      /\ \/ got' = [got EXCEPT ![c] = got[c] \union {<<request_doc(c), s>>}]
         \/ got' = got
      /\ closed' = closed \/ closed' = closed \union {c}
      /\ UNCHANGED <<net, dir, fserver, backlog, client, told, files>>
      /\ serving \in [Servers -> Slots] /\ got \in [Clients -> SUBSET (Docs \X Servers)]
  BY DEF child_send, ShareIInv, ShareTypeOK
<1>2. /\ serving' \in [Servers -> Slots]
      /\ \A t \in Servers : /\ serving'[t].reading = serving[t].reading
                            /\ serving'[t].children \subseteq serving[t].children
  BY <1>1
<1>3. c \in Visitors(s)
  BY <1>1 DEF ShareIInv, ConnectionsExpected
<1>4. /\ got' \in [Clients -> SUBSET (Docs \X Servers)]
      /\ got'[c] \subseteq got[c] \union {<<request_doc(c), s>>}
      /\ \A d \in Clients \ {c} : got'[d] = got[d]
  BY <1>1 DEF request_doc, Docs
<1>5. ShareTypeOK'
  BY <1>1, <1>2, <1>4 DEF ShareIInv, ShareTypeOK, files
<1>6. RegistrationsCounted'
  BY <1>1 DEF ShareIInv, RegistrationsCounted
<1>7. ConnectionsExpected'
  <2>1. \A t \in Servers : Visitors(t)' = Visitors(t)
    BY <1>1 DEF Visitors
  <2>2. ASSUME NEW t \in Servers
        PROVE  /\ Range(backlog[t]) \subseteq Visitors(t)
               /\ serving'[t].reading # 0 => serving'[t].reading \in Visitors(t)
               /\ serving'[t].children \subseteq Visitors(t)
    BY <1>2 DEF ShareIInv, ConnectionsExpected
  <2>3. ASSUME NEW d \in Clients, NEW r \in got'[d]
        PROVE  r = <<request_doc(d), told[d]>>
    <3>1. CASE r \in got[d]
      BY <3>1 DEF ShareIInv, ConnectionsExpected
    <3>2. CASE r \notin got[d]
      <4>1. d = c /\ r = <<request_doc(c), s>>
        BY <1>4, <2>3, <3>2
      <4> QED BY <1>3, <4>1 DEF Visitors
    <3> QED BY <3>1, <3>2
  <2> QED BY <1>1, <2>1, <2>2, <2>3 DEF ConnectionsExpected
<1> QED BY <1>1, <1>5, <1>6, <1>7, PeerStep

(* The steps of a client that touch no connection.                         *)
LEMMA ClientMoves ==
    ASSUME ShareIInv, NEW c \in Clients, NEW to \in ClientPcs,
           client' = [client EXCEPT ![c] = to],
           to \in {"start", "waiting"} => client[c] = "start",
           to \in Told \/ told'[c] # NoServer =>
               \/ client[c] \in Told \/ (told[c] # NoServer /\ client[c] # "waiting")
               \/ Decided(c, told'[c]),
           told' = told \/ (client[c] = "waiting" /\ \E s \in Servers \union {NoServer} :
                                                       told' = [told EXCEPT ![c] = s]),
           \A m : m \in net' => m \in net \/ m = Request(c),
           UNCHANGED <<dir, servers, got, files>>
    PROVE  ShareIInv'
<1>1. /\ client \in [Clients -> ClientPcs] /\ told \in [Clients -> Servers \union {NoServer}]
  BY DEF ShareIInv, ShareTypeOK, ClientPcs
<1>2. /\ client' \in [Clients -> ClientPcs] /\ client'[c] = to
      /\ \A d \in Clients \ {c} : client'[d] = client[d]
  BY <1>1
<1>3. /\ told' \in [Clients -> Servers \union {NoServer}]
      /\ \A d \in Clients \ {c} : told'[d] = told[d]
      /\ client[c] # "waiting" => told'[c] = told[c]
      /\ client[c] \in {"start", "waiting"} => told[c] = NoServer
  BY <1>1 DEF ShareIInv, AnswersDecided
<1>4. ShareTypeOK'
  BY <1>2, <1>3 DEF ShareIInv, ShareTypeOK, ClientPcs, servers, files
<1>5. RegistrationsCounted'
  <2>1. \A s \in Servers : Register(s) \in net' => Register(s) \in net
    BY DEF Register, Request
  <2> QED BY <2>1 DEF ShareIInv, RegistrationsCounted, servers
<1>6. ConnectionsExpected'
  <2>1. \A d \in Clients : told[d] # NoServer => told'[d] = told[d]
    BY <1>3
  <2>2. \A s \in Servers : Visitors(s) \subseteq Visitors(s)'
    BY <2>1, FileSharingAssumption DEF Visitors
  <2>3. ASSUME NEW d \in Clients, NEW r \in got[d] PROVE r = <<request_doc(d), told'[d]>>
    <3>1. r = <<request_doc(d), told[d]>> /\ r \in Docs \X Servers
      BY DEF ShareIInv, ShareTypeOK, ConnectionsExpected
    <3> QED BY <2>1, <3>1, FileSharingAssumption
  <2> QED BY <2>2, <2>3 DEF ShareIInv, ConnectionsExpected, servers
<1>7. \A d \in Clients, s \in Servers \union {NoServer} : Answer(d, s) \in net' => Answer(d, s) \in net
  BY DEF Answer, Request
<1>8. ASSUME NEW d \in Clients
      PROVE  \/ client'[d] = client[d] /\ told'[d] = told[d]
             \/ /\ client'[d] \in {"start", "waiting"} => told'[d] = NoServer
                /\ client'[d] \in Told \/ told'[d] # NoServer =>
                       \/ /\ client[d] \in Told \/ told[d] # NoServer
                          /\ told'[d] = told[d]
                       \/ Decided(d, told'[d])
  <2>1. CASE d # c
    BY <1>2, <1>3, <2>1
  <2>2. CASE d = c
    <3>1. to \in {"start", "waiting"} => told'[c] = NoServer
      BY <1>3 DEF Told
    <3>2. "waiting" \notin Told
      BY DEF Told
    <3> QED BY <1>2, <1>3, <2>2, <3>1, <3>2
  <2> QED BY <2>1, <2>2
<1> QED BY <1>4, <1>5, <1>6, <1>7, <1>8, PeerStep

LEMMA ClientStepKeeps ==
    ASSUME ShareIInv, NEW c \in Clients,
           \/ send_request(c) \/ recv_answer(c) \/ send_doc_request(c) \/ recv_doc(c)
           \/ client_fails(c)
    PROVE  ShareIInv'
<1>0. client[c] \in {"start", "waiting"} => told[c] = NoServer
  BY DEF ShareIInv, AnswersDecided
<1>1. CASE send_request(c)
  <2>1. PICK to \in {"waiting", "failed"} : At(c, "start", to)
    BY <1>1 DEF send_request
  <2>2. /\ client' = [client EXCEPT ![c] = to] /\ client[c] = "start" /\ to \in ClientPcs
        /\ to \notin Told
    BY <2>1 DEF At, ClientPcs, Told
  <2>3. \A m : m \in net' => m \in net \/ m = Request(c)
    BY <1>1 DEF send_request
  <2>4. UNCHANGED <<dir, servers, told, got, files>>
    BY <1>1 DEF send_request
  <2> QED BY <1>0, <2>2, <2>3, <2>4, ClientMoves
<1>2. CASE recv_answer(c)
  <2>1. PICK s \in Servers \union {NoServer} :
          /\ Answer(c, s) \in net /\ At(c, "waiting", "told")
          /\ net' = net \ {Answer(c, s)} /\ told' = [told EXCEPT ![c] = s]
          /\ UNCHANGED <<dir, servers, got, files>>
    BY <1>2 DEF recv_answer
  <2>2. /\ client' = [client EXCEPT ![c] = "told"] /\ client[c] = "waiting"
        /\ "told" \in ClientPcs
    BY <2>1 DEF At, ClientPcs, Told
  <2>3. told'[c] = s
    BY <2>1 DEF ShareIInv, ShareTypeOK
  <2>4. Decided(c, told'[c])
    BY <2>1, <2>3 DEF ShareIInv, AnswersDecided
  <2>5. \A m : m \in net' => m \in net \/ m = Request(c)
    BY <2>1
  <2> QED BY <2>1, <2>2, <2>4, <2>5, ClientMoves
<1>3. CASE send_doc_request(c) \/ recv_doc(c) \/ client_fails(c)
  <2>1. PICK to \in {"sent", "unsent", "done", "failed"} :
          /\ client' = [client EXCEPT ![c] = to]
          /\ client[c] \in Told \/ (client[c] = "waiting" /\ to = "failed")
          /\ UNCHANGED <<net, dir, servers, told, got, files>>
    BY <1>3 DEF send_doc_request, recv_doc, client_fails, At, Told
  <2>2. to \in ClientPcs /\ to # "start" /\ to # "waiting" /\ "failed" \notin Told
    BY <2>1 DEF ClientPcs, Told
  <2> QED BY <1>0, <2>1, <2>2, ClientMoves
<1> QED BY <1>1, <1>2, <1>3

(* A client is put in the backlog of the server it was told.               *)
LEMMA ConnectStep ==
    ASSUME ShareIInv, NEW c \in Clients, connect(c)
    PROVE  ShareIInv'
<1>1. CASE UNCHANGED backlog /\ At(c, "told", "failed")
  <2>1. /\ client' = [client EXCEPT ![c] = "failed"] /\ client[c] = "told"
        /\ "failed" \in ClientPcs /\ client[c] \in Told
    BY <1>1 DEF At, ClientPcs, Told
  <2>2. UNCHANGED <<net, dir, servers, told, got, files>>
    BY <1>1 DEF connect, servers
  <2> QED BY <2>1, <2>2, ClientMoves
<1>2. CASE /\ told[c] \in Servers /\ At(c, "told", "connected")
           /\ backlog' = [backlog EXCEPT ![told[c]] = Append(backlog[told[c]], c)]
  <2>0. PICK s \in Servers : s = told[c]
    BY <1>2
  <2>1. /\ client' = [client EXCEPT ![c] = "connected"] /\ client[c] = "told"
        /\ UNCHANGED <<net, dir, fserver, serving, closed, told, got, files>>
        /\ s \in Servers /\ backlog' = [backlog EXCEPT ![s] = Append(backlog[s], c)]
    BY <1>2, <2>0 DEF connect, At
  <2>2. client \in [Clients -> ClientPcs] /\ backlog \in [Servers -> Seq(Clients)]
    BY DEF ShareIInv, ShareTypeOK, ClientPcs
  <2>3. client' \in [Clients -> ClientPcs] /\ client'[c] = "connected"
        /\ \A d \in Clients \ {c} : client'[d] = client[d]
    BY <2>1, <2>2 DEF ClientPcs, Told
  <2>4. /\ Append(backlog[s], c) \in Seq(Clients)
        /\ Range(Append(backlog[s], c)) \subseteq Range(backlog[s]) \union {c}
    <3>1. backlog[s] \in Seq(Clients)
      BY <2>1, <2>2
    <3>2. /\ Append(backlog[s], c) \in Seq(Clients)
          /\ Len(Append(backlog[s], c)) = Len(backlog[s]) + 1
          /\ \A i \in 1 .. Len(backlog[s]) : Append(backlog[s], c)[i] = backlog[s][i]
          /\ Append(backlog[s], c)[Len(backlog[s]) + 1] = c
          /\ Len(backlog[s]) \in Nat
      BY <3>1, AppendProperties
    <3>3. /\ DOMAIN Append(backlog[s], c) = 1 .. Len(backlog[s]) + 1
          /\ DOMAIN backlog[s] = 1 .. Len(backlog[s])
      BY <3>1, <3>2
    <3> QED BY <3>2, <3>3 DEF Range
  <2>5. /\ backlog' \in [Servers -> Seq(Clients)]
        /\ Range(backlog'[s]) \subseteq Range(backlog[s]) \union {c}
        /\ \A t \in Servers \ {s} : backlog'[t] = backlog[t]
    BY <2>1, <2>2, <2>4
  <2>6. ShareTypeOK'
    BY <2>1, <2>3, <2>5 DEF ShareIInv, ShareTypeOK, ClientPcs, files
  <2>7. RegistrationsCounted'
    BY <2>1 DEF ShareIInv, RegistrationsCounted
  <2>8. ConnectionsExpected'
    <3>1. \A t \in Servers : Visitors(t) \subseteq Visitors(t)'
      BY <2>1, <2>3 DEF Visitors
    <3>2. c \in Visitors(s)'
      BY <2>0, <2>1, <2>3 DEF Visitors
    <3>3. ASSUME NEW t \in Servers
          PROVE  /\ Range(backlog'[t]) \subseteq Visitors(t)'
                 /\ serving[t].reading # 0 => serving[t].reading \in Visitors(t)'
                 /\ serving[t].children \subseteq Visitors(t)'
      <4>1. /\ Range(backlog[t]) \subseteq Visitors(t)'
            /\ serving[t].reading # 0 => serving[t].reading \in Visitors(t)'
            /\ serving[t].children \subseteq Visitors(t)'
        <5>1. /\ Range(backlog[t]) \subseteq Visitors(t)
              /\ serving[t].reading # 0 => serving[t].reading \in Visitors(t)
              /\ serving[t].children \subseteq Visitors(t)
          BY DEF ShareIInv, ConnectionsExpected
        <5>2. Visitors(t) \subseteq Visitors(t)'
          BY <3>1
        <5> QED BY <5>1, <5>2
      <4>2. CASE t = s
        BY <2>5, <3>2, <4>1, <4>2
      <4>3. CASE t # s
        BY <2>5, <4>1, <4>3
      <4> QED BY <4>1, <4>2, <4>3
    <3>4. \A d \in Clients : \A r \in got[d] :
            r = <<request_doc(d), told[d]>>
      BY DEF ShareIInv, ConnectionsExpected
    <3> QED BY <2>1, <3>3, <3>4 DEF ConnectionsExpected
  <2>9. \A d \in Clients :
          \/ client'[d] = client[d] /\ told'[d] = told[d]
          \/ client'[d] = "connected" /\ client[d] \in Told /\ told'[d] = told[d]
    BY <2>1, <2>3 DEF Told
  <2> QED BY <2>1, <2>6, <2>7, <2>8, <2>9, PeerStep
<1> QED BY <1>1, <1>2 DEF connect

LEMMA LoseStep ==
    ASSUME ShareIInv, lose
    PROVE  ShareIInv'
<1>1. /\ net' \subseteq net /\ UNCHANGED <<dir, servers, clients, files>>
  BY DEF lose
<1>2. ShareTypeOK'
  BY <1>1 DEF ShareIInv, ShareTypeOK, servers, clients, files
<1>3. RegistrationsCounted'
  BY <1>1 DEF ShareIInv, RegistrationsCounted, servers
<1> QED BY <1>1, <1>2, <1>3, DirectoryStep

LEMMA NextShare == ShareIInv /\ [Next]_vars => ShareIInv'
<1> SUFFICES ASSUME ShareIInv, [Next]_vars PROVE ShareIInv'
  OBVIOUS
<1>1. CASE DirStep \/ dir_fails
  BY <1>1, BindStep, RecvRegisterStep, RecvRequestStep DEF DirStep
<1>2. CASE lose
  BY <1>2, LoseStep
<1>3. ASSUME NEW s \in Servers, ServerStep(s) \/ recv_fails(s) PROVE ShareIInv'
  BY <1>3, SendRegisterStep, ListenStep, ConnectionMoves DEF ServerStep
<1>4. ASSUME NEW s \in Servers, ChildStep(s) PROVE ShareIInv'
  BY <1>4, ChildSendStep DEF ChildStep
<1>5. ASSUME NEW c \in Clients, ClientStep(c) \/ client_fails(c) PROVE ShareIInv'
  BY <1>5, ClientStepKeeps, ConnectStep DEF ClientStep
<1>6. CASE UNCHANGED vars
  <2>1. UNCHANGED <<net, dir, servers, clients, files>>
    BY <1>6 DEF vars
  <2>2. ShareTypeOK'
    BY <2>1 DEF ShareIInv, ShareTypeOK, servers, clients, files
  <2>3. RegistrationsCounted'
    BY <2>1 DEF ShareIInv, RegistrationsCounted, servers
  <2> QED BY <2>1, <2>2, <2>3, DirectoryStep
<1> QED BY <1>1, <1>2, <1>3, <1>4, <1>5, <1>6 DEF Next

(* The inductive invariant.                                                *)
THEOREM ShareInvariant == Spec => []ShareIInv
<1> QED BY InitShare, NextShare, PTL DEF Spec

(* No client is answered before every file server is known, and an answer  *)
(* names a server whenever one has the document, for every number of       *)
(* servers and clients and whatever datagrams are lost or overtaken.       *)
THEOREM AnswersCompleteList == Spec => []AnswersAfterRegistration
<1>1. ShareIInv => AnswersAfterRegistration
  <2> SUFFICES ASSUME ShareIInv PROVE AnswersAfterRegistration
    OBVIOUS
  <2>1. ASSUME NEW c \in Clients, NEW s \in Servers \union {NoServer},
               Answer(c, s) \in net \/ client[c] \in Told
        PROVE  /\ dir.list = Servers
               /\ Holders(request_doc(c)) # {} => Answer(c, NoServer) \notin net
    <3>1. dir.list = Servers
      BY <2>1 DEF ShareIInv, AnswersDecided, Decided
    <3>2. NoServer \notin Holders(request_doc(c))
      BY FileSharingAssumption DEF Holders
    <3>3. Answer(c, NoServer) \in net => Decided(c, NoServer)
      BY DEF ShareIInv, AnswersDecided
    <3> QED BY <3>1, <3>2, <3>3 DEF Decided, Nearest
  <2> QED BY <2>1 DEF AnswersAfterRegistration
<1> QED BY <1>1, ShareInvariant, PTL

(* Every document that arrives comes from the server its client was told,  *)
(* a nearest one of those that have the document: the search of the        *)
(* directory server is right for every topology and placement.             *)
THEOREM NearestServes == Spec => []ServedByNearest
<1>1. ShareIInv => ServedByNearest
  <2> SUFFICES ASSUME ShareIInv, NEW c \in Clients, NEW r \in got[c]
               PROVE  /\ r = <<request_doc(c), told[c]>>
                      /\ Holders(request_doc(c)) # {} => Nearest(c, told[c])
    BY DEF ServedByNearest
  <2>1. r = <<request_doc(c), told[c]>> /\ r \in Docs \X Servers
    BY DEF ShareIInv, ShareTypeOK, ConnectionsExpected
  <2>2. told[c] # NoServer
    BY <2>1, FileSharingAssumption
  <2> QED BY <2>1, <2>2 DEF ShareIInv, AnswersDecided, Decided
<1> QED BY <1>1, ShareInvariant, PTL
=============================================================================
