---------------------------- MODULE MCVNodeCache ----------------------------
(* A small instance of VNodeCache for TLC.                                 *)
EXTENDS VNodeCache, TLC

CONSTANTS t1, t2, t3, v1, v2, f1, i1, i2

MCThreads == {t1, t2, t3, pageoutd}
MCVnodes  == {v1, v2}
MCFrames  == {f1}
MCInos    == {i1, i2}
MCQueues  == MCVnodes \union MCFrames \union MCThreads \union {pageoutd_waitq}
Symmetry  == Permutations(MCVnodes) \union Permutations(MCInos)
=============================================================================
