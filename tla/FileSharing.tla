---------------------------- MODULE FileSharing ----------------------------
(***************************************************************************)
(* The file sharing network of the EE450 project: a directory server that  *)
(* learns of the file servers (phase 1) and tells each client the nearest  *)
(* one that has its file (phase 2), over UDP, and file servers that give   *)
(* the files to the clients over TCP (phase 3).                            *)
(*                                                                         *)
(* UDP datagrams may be delayed, overtake each other or be lost (one that  *)
(* comes before its port is bound is), and nobody sends one again.  A step *)
(* stands for the code between two calls that communicate; a call that     *)
(* receives may fail, and then the process ends.  fault is history: a      *)
(* datagram has been lost, the directory server or a file server that had  *)
(* not registered has stopped, a request was not sent on a connection, or  *)
(* the directory server has used an index it had never set.                *)
(***************************************************************************)
EXTENDS Integers, Sequences, FiniteSets, Functions

CONSTANTS
    FILE_SERVER_COUNT, CLIENT_COUNT,
    Resources,   \* possible contents of resource.txt: the documents of each server
    Topologies,  \* possible contents of topology.txt: costs per client and server
    NoServer     \* what an answer with an unset index names

Servers == 1 .. FILE_SERVER_COUNT
Clients == 1 .. CLIENT_COUNT
Docs    == Clients

(* Client i requests document i.                                           *)
request_doc(c) == c

ASSUME FileSharingAssumption ==
    /\ FILE_SERVER_COUNT \in Nat /\ CLIENT_COUNT \in Nat
    /\ Resources \subseteq [Servers -> SUBSET Docs]
    /\ Topologies \subseteq [Clients -> [Servers -> Nat \ {0}]]
    /\ NoServer \notin Servers

VARIABLES
    net,        \* datagrams on their way
    dir,        \* the directory server: where it is, the datagrams it has counted, its list
    fserver,    \* the file servers: where each is
    backlog,    \* connections each has not accepted yet
    serving,    \* the connections of each that are read (first) or answered (children)
    closed,     \* clients whose connection was closed without an answer
    client,     \* the clients: where each is
    told,       \* the server each was told
    got,        \* the documents each has received, with the server they came from
    resource, topology,
    fault

files == <<resource, topology>>
servers == <<fserver, backlog, serving, closed>>
clients == <<client, told, got>>
vars  == <<net, dir, servers, clients, files, fault>>

Register(s)  == [type |-> "register", server |-> s]
Request(c)   == [type |-> "request", client |-> c]
Answer(c, s) == [type |-> "answer", client |-> c, server |-> s]

-----------------------------------------------------------------------------
(* The directory server                                                    *)

(* A socket could be bound, or main returns.                               *)
Bind(from, to) ==
    /\ dir.pc = from
    /\ \/ dir' = [dir EXCEPT !.pc = to, !.i = 0] /\ UNCHANGED fault
       \/ dir' = [dir EXCEPT !.pc = "failed"] /\ fault' = TRUE
    /\ UNCHANGED <<net, servers, clients, files>>

bind_phase1 == Bind("start", "registrations")

(* Both files are read between the phases.                                 *)
bind_phase2 == Bind("between", "requests")

(* Mutant: a registration too few is waited for.                           *)
Registered_Early(s) ==
    [dir EXCEPT !.i = @ + 1, !.list = @ \union {s},
                !.pc = IF dir.i + 2 = FILE_SERVER_COUNT THEN "between" ELSE @]

(* One more registration has come: its server is known, and the socket is  *)
(* closed with the last one.                                               *)
Registered(s) ==
    [dir EXCEPT !.i = @ + 1, !.list = @ \union {s},
                !.pc = IF dir.i + 1 = FILE_SERVER_COUNT THEN "between" ELSE @]

recv_register(s) ==
    /\ dir.pc = "registrations"
    /\ Register(s) \in net
    /\ net' = net \ {Register(s)}
    /\ dir' = Registered(s)
    /\ UNCHANGED <<servers, clients, files, fault>>

(* Mutant: the first server that has the document is taken.                *)
Visit_First(best, k, c) ==
    IF request_doc(c) \in resource[k] /\ best.mincost = -1
    THEN [mincost |-> topology[c][k], id |-> k]
    ELSE best

(* Server k in the search of the nearest one for c.                        *)
Visit(best, k, c) ==
    IF request_doc(c) \in resource[k] /\ (best.mincost = -1 \/ topology[c][k] < best.mincost)
    THEN [mincost |-> topology[c][k], id |-> k]
    ELSE best

(* The loop over the servers, which starts with nothing found.             *)
NothingFound == [mincost |-> -1, id |-> NoServer]

contained_server_id(c) ==
    LET best[k \in 0 .. FILE_SERVER_COUNT] ==
            IF k = 0 THEN NothingFound ELSE Visit(best[k - 1], k, c)
    IN  best[FILE_SERVER_COUNT].id

(* Mutant: a request too few is answered.                                  *)
Answered_Early == [dir EXCEPT !.i = @ + 1, !.pc = IF dir.i + 2 = CLIENT_COUNT THEN "done" ELSE @]

Answered == [dir EXCEPT !.i = @ + 1, !.pc = IF dir.i + 1 = CLIENT_COUNT THEN "done" ELSE @]

(* The name and port of server s; of a server that has not registered they *)
(* were never stored.                                                      *)
Stored(s) == IF s \in dir.list THEN s ELSE NoServer

(* When nobody has the document contained_server_id was never set: the     *)
(* entry of some server, no sense at all, or the end of the program.       *)
recv_request(c) ==
    /\ dir.pc = "requests"
    /\ Request(c) \in net
    /\ \/ /\ contained_server_id(c) # NoServer
          /\ net' = (net \ {Request(c)}) \union {Answer(c, Stored(contained_server_id(c)))}
          /\ dir' = Answered
          /\ UNCHANGED fault
       \/ /\ contained_server_id(c) = NoServer
          /\ \/ /\ \E s \in Servers \union {NoServer} :
                      net' = (net \ {Request(c)}) \union {Answer(c, Stored(s))}
                /\ dir' = Answered
             \/ /\ net' = net \ {Request(c)}
                /\ dir' = [dir EXCEPT !.pc = "failed"]
          /\ fault' = TRUE
    /\ UNCHANGED <<servers, clients, files>>

(* recvfrom or sendto fails, and main exits.                               *)
dir_fails ==
    /\ dir.pc \in {"registrations", "requests"}
    /\ dir' = [dir EXCEPT !.pc = "failed"]
    /\ fault' = TRUE
    /\ UNCHANGED <<net, servers, clients, files>>

-----------------------------------------------------------------------------
(* The file servers, one process each                                      *)

(* The registration is sent, or main has returned before.                  *)
send_register(s) ==
    /\ fserver[s] = "start"
    /\ \/ net' = net \union {Register(s)} /\ fserver' = [fserver EXCEPT ![s] = "registered"]
          /\ UNCHANGED fault
       \/ fserver' = [fserver EXCEPT ![s] = "failed"] /\ fault' = TRUE /\ UNCHANGED net
    /\ UNCHANGED <<dir, backlog, serving, closed, clients, files>>

(* Only now the TCP socket is bound and listens, or main returns.          *)
listen(s) ==
    /\ fserver[s] = "registered"
    /\ fserver' \in {[fserver EXCEPT ![s] = "listening"], [fserver EXCEPT ![s] = "failed"]}
    /\ UNCHANGED <<net, dir, backlog, serving, closed, clients, files, fault>>

(* The next connection; recv blocks the server until its request comes.    *)
accept(s) ==
    /\ fserver[s] = "listening"
    /\ serving[s].reading = 0
    /\ backlog[s] # <<>>
    /\ serving' = [serving EXCEPT ![s].reading = Head(backlog[s])]
    /\ backlog' = [backlog EXCEPT ![s] = Tail(@)]
    /\ UNCHANGED <<net, dir, fserver, closed, clients, files, fault>>

(* The request, or the end of the connection, has been read; a child is to *)
(* answer it, or fork fails and the server closes the connection.          *)
recv_fork(s) == LET c == serving[s].reading IN
    /\ c # 0
    /\ client[c] \in {"sent", "failed"}
    /\ \/ /\ serving' = [serving EXCEPT ![s] = [reading |-> 0, children |-> @.children \union {c}]]
          /\ UNCHANGED closed
       \/ /\ serving' = [serving EXCEPT ![s].reading = 0]
          /\ closed' = closed \union {c}
    /\ UNCHANGED <<net, dir, fserver, backlog, clients, files, fault>>

(* recv fails, and the server exits: its connections are closed, but not   *)
(* those of its children.                                                  *)
recv_fails(s) ==
    /\ serving[s].reading # 0
    /\ fserver' = [fserver EXCEPT ![s] = "failed"]
    /\ backlog' = [backlog EXCEPT ![s] = <<>>]
    /\ serving' = [serving EXCEPT ![s].reading = 0]
    /\ closed' = closed \union Range(backlog[s]) \union {serving[s].reading}
    /\ UNCHANGED <<net, dir, clients, files, fault>>

(* A child sends the document that was requested, which the server need    *)
(* not have, and exits; or send fails, and it exits.                       *)
child_send(s, c) ==
    /\ c \in serving[s].children
    /\ serving' = [serving EXCEPT ![s].children = @ \ {c}]
    /\ \/ /\ client[c] = "sent"
          /\ got' = [got EXCEPT ![c] = @ \union {<<request_doc(c), s>>}]
          /\ UNCHANGED closed
       \/ closed' = closed \union {c} /\ UNCHANGED got
    /\ UNCHANGED <<net, dir, fserver, backlog, client, told, files, fault>>

-----------------------------------------------------------------------------
(* The clients, one process each                                           *)

At(c, from, to) == client[c] = from /\ client' = [client EXCEPT ![c] = to]

(* The request is sent, or main has returned before.                       *)
send_request(c) ==
    /\ \/ At(c, "start", "waiting") /\ net' = net \union {Request(c)}
       \/ At(c, "start", "failed") /\ UNCHANGED net
    /\ UNCHANGED <<dir, servers, told, got, files, fault>>

recv_answer(c) == \E s \in Servers \union {NoServer} :
    /\ Answer(c, s) \in net
    /\ At(c, "waiting", "told")
    /\ net' = net \ {Answer(c, s)}
    /\ told' = [told EXCEPT ![c] = s]
    /\ UNCHANGED <<dir, servers, got, files, fault>>

(* Refused unless the server listens.                                      *)
connect(c) ==
    /\ \/ /\ told[c] \in Servers /\ fserver[told[c]] = "listening"
          /\ At(c, "told", "connected")
          /\ backlog' = [backlog EXCEPT ![told[c]] = Append(@, c)]
       \/ /\ told[c] \in Servers => fserver[told[c]] # "listening"
          /\ At(c, "told", "failed")
          /\ UNCHANGED backlog
    /\ UNCHANGED <<net, dir, fserver, serving, closed, told, got, files, fault>>

(* When send fails the client goes on, and waits for an answer all the     *)
(* same.                                                                   *)
send_doc_request(c) ==
    /\ \/ At(c, "connected", "sent") /\ UNCHANGED fault
       \/ At(c, "connected", "unsent") /\ fault' = TRUE
    /\ UNCHANGED <<net, dir, servers, told, got, files>>

(* The document, or the end of the connection, which the client takes for  *)
(* a document, unless recv says that it was reset.                         *)
recv_doc(c) == \E from \in {"sent", "unsent"} :
    /\ \/ got[c] # {} /\ At(c, from, "done")
       \/ c \in closed /\ (At(c, from, "done") \/ At(c, from, "failed"))
    /\ UNCHANGED <<net, dir, servers, told, got, files, fault>>

(* A call fails, and the client exits.                                     *)
client_fails(c) == \E from \in {"waiting", "told", "sent", "unsent"} :
    /\ At(c, from, "failed")
    /\ UNCHANGED <<net, dir, servers, told, got, files, fault>>

-----------------------------------------------------------------------------
lose == \E m \in net :
    /\ net' = net \ {m}
    /\ fault' = TRUE
    /\ UNCHANGED <<dir, servers, clients, files>>

Init ==
    /\ net = {}
    /\ dir = [pc |-> "start", i |-> 0, list |-> {}]
    /\ fserver = [s \in Servers |-> "start"]
    /\ backlog = [s \in Servers |-> <<>>]
    /\ serving = [s \in Servers |-> [reading |-> 0, children |-> {}]]
    /\ closed = {}
    /\ client = [c \in Clients |-> "start"]
    /\ told = [c \in Clients |-> NoServer]
    /\ got = [c \in Clients |-> {}]
    /\ resource \in Resources
    /\ topology \in Topologies
    /\ fault = FALSE

DirStep    == bind_phase1 \/ bind_phase2 \/ (\E s \in Servers : recv_register(s))
                          \/ (\E c \in Clients : recv_request(c))
ServerStep(s) == send_register(s) \/ listen(s) \/ accept(s) \/ recv_fork(s)
ChildStep(s)  == \E c \in Clients : child_send(s, c)
ClientStep(c) == send_request(c) \/ recv_answer(c) \/ connect(c) \/ send_doc_request(c)
                                 \/ recv_doc(c)

Next ==
    \/ DirStep \/ dir_fails \/ lose
    \/ \E s \in Servers : ServerStep(s) \/ ChildStep(s) \/ recv_fails(s)
    \/ \E c \in Clients : ClientStep(c) \/ client_fails(c)

Spec == Init /\ [][Next]_vars

(* Every process that has been started goes on while it can.  Nothing need *)
(* fail, and a datagram need not be lost.                                  *)
Fairness ==
    /\ WF_vars(DirStep)
    /\ \A s \in Servers : WF_vars(ServerStep(s)) /\ WF_vars(ChildStep(s))
    /\ \A c \in Clients : WF_vars(ClientStep(c))

FairSpec == Spec /\ Fairness

-----------------------------------------------------------------------------
(* Where a client is that has been told a server and has not failed.       *)
Told == {"told", "connected", "sent", "unsent", "done"}

Holders(d) == {s \in Servers : d \in resource[s]}

(* "the directory server should keep track of the file servers that        *)
(* contact it before it can respond to any messages from the clients"      *)
(* (README.md, line 65): whatever is delayed or lost, an answer is sent    *)
(* only when all file servers are known, and it names one of them unless   *)
(* nobody has the document.                                                *)
AnswersAfterRegistration ==
    \A c \in Clients, s \in Servers \union {NoServer} :
        Answer(c, s) \in net \/ client[c] \in Told =>
            /\ dir.list = Servers
            /\ Holders(request_doc(c)) # {} => Answer(c, NoServer) \notin net

(* Server s has the document of c and is as near to c as any that has it.  *)
Nearest(c, s) ==
    /\ s \in Holders(request_doc(c))
    /\ \A t \in Holders(request_doc(c)) : topology[c][s] <= topology[c][t]

(* A client receives its document from one server only, which has it and   *)
(* is as near as any other that has it, if anybody has it.                 *)
ServedByNearest ==
    \A c \in Clients : \A r \in got[c] :
        /\ r = <<request_doc(c), told[c]>>
        /\ Holders(request_doc(c)) # {} => Nearest(c, told[c])

DirState ==
    [pc : {"start", "registrations", "between", "requests", "done", "failed"},
     i : Nat, list : SUBSET Servers]

(* The inductive invariant, in its parts: every variable has its type ...  *)
ShareTypeOK ==
    /\ dir \in DirState
    /\ fserver \in [Servers -> {"start", "registered", "listening", "failed"}]
    /\ backlog \in [Servers -> Seq(Clients)]
    /\ serving \in [Servers -> [reading : Clients \union {0}, children : SUBSET Clients]]
    /\ closed \subseteq Clients
    /\ client \in [Clients -> {"start", "waiting", "failed"} \union Told]
    /\ told \in [Clients -> Servers \union {NoServer}]
    /\ got \in [Clients -> SUBSET (Docs \X Servers)]
    /\ resource \in [Servers -> SUBSET Docs]
    /\ topology \in [Clients -> [Servers -> Nat \ {0}]]

(* ... the directory server counts every file server once: a datagram on   *)
(* its way comes from a server not yet counted ...                         *)
RegistrationsCounted ==
    /\ \A s \in Servers : Register(s) \in net => s \notin dir.list /\ fserver[s] # "start"
    /\ \A s \in dir.list : fserver[s] # "start"
    /\ dir.pc = "start" => dir.list = {}
    /\ dir.pc = "registrations" => dir.i = Cardinality(dir.list)
    /\ dir.pc \in {"between", "requests", "done"} => dir.list = Servers

(* ... what a client is told, or is about to be told, was decided from the *)
(* complete list ...                                                       *)
Decided(c, s) == dir.list = Servers /\ (Holders(request_doc(c)) # {} => Nearest(c, s))

AnswersDecided ==
    \A c \in Clients :
        /\ \A s \in Servers \union {NoServer} : Answer(c, s) \in net => Decided(c, s)
        /\ client[c] \in {"start", "waiting"} => told[c] = NoServer
        /\ client[c] \in Told \/ told[c] # NoServer => Decided(c, told[c])

(* ... and a server has connections, in its backlog, in recv or in a       *)
(* child, only with clients that were told to come to it.                  *)
Visitors(s) == {c \in Clients : told[c] = s}

ConnectionsExpected ==
    /\ \A s \in Servers :
          /\ Range(backlog[s]) \subseteq Visitors(s)
          /\ serving[s].reading # 0 => serving[s].reading \in Visitors(s)
          /\ serving[s].children \subseteq Visitors(s)
    /\ \A c \in Clients : \A r \in got[c] : r = <<request_doc(c), told[c]>>

ShareIInv ==
    ShareTypeOK /\ RegistrationsCounted /\ AnswersDecided /\ ConnectionsExpected

(* Without a fault every client gets its document, fails, or finds that    *)
(* the server does not listen or has closed the connection: nobody waits   *)
(* for ever, though nothing is ever sent twice and the server of a client  *)
(* may exit at any time.                                                   *)
ClientsEnd ==
    \A c \in Clients : <>(client[c] \in {"done", "failed"} \/ fault)
=============================================================================
