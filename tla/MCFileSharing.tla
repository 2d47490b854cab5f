--------------------------- MODULE MCFileSharing ---------------------------
(* A small instance of FileSharing for TLC: three servers, two clients.    *)
EXTENDS FileSharing

(* Document 1 on one, two or all servers, document 2 everywhere; document  *)
(* 2 nowhere.                                                              *)
MCResources ==
    {[s \in Servers |-> IF s \in H THEN {1, 2} ELSE {2}] : H \in {{3}, {1, 2}, {1, 3}, Servers}}
        \union {[s \in Servers |-> {1}]}

(* The last server is the nearest to client 1, or the second; two of the   *)
(* costs may be equal.                                                     *)
MCTopologies ==
    {[c \in Clients |-> IF c = 1 THEN near ELSE <<2, 1, 1>>] :
        near \in {<<3, 2, 1>>, <<2, 1, 2>>}}
=============================================================================
