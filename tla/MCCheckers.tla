----------------------------- MODULE MCCheckers -----------------------------
(* A small instance of Checkers for TLC.                                   *)
EXTENDS Checkers

(* All boards with at most MaxPieces pieces, some of each side.            *)
CONSTANT MaxPieces

Placements == {S \in SUBSET Dark : Cardinality(S) \in 2 .. MaxPieces}
MCBoards ==
    UNION {{[p \in Dark |-> IF p \in Q THEN f[p] ELSE "O"] :
               f \in {h \in [Q -> {"A", "B", "k", "K"}] :
                         /\ Range(h) \intersect Side("ALICE") # {}
                         /\ Range(h) \intersect Side("BILL") # {}}} : Q \in Placements}
=============================================================================
