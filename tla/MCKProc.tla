------------------------------ MODULE MCKProc ------------------------------
(* A small instance of KProc for TLC: idle, init and three processes.      *)
EXTENDS KProc, TLC

CONSTANTS p1, p2, p3

Users     == {p1, p2, p3}
MCThreads == Users \union {Idle, InitProc}
Symmetry  == Permutations(Users)
=============================================================================
