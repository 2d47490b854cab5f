------------------------------ MODULE MCVMMap ------------------------------
(* A small instance of VMMap for TLC.                                      *)
EXTENDS VMMap
CONSTANTS f1
=============================================================================
