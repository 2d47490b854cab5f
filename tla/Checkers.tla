------------------------------ MODULE Checkers ------------------------------
(***************************************************************************)
(* The checkers program of CSCI 561 homework 4: for a board it searches    *)
(* MAX_SEARCH_DEPTH moves with alpha-beta pruning and tells Alice, who     *)
(* moves up the board, her best move.                                      *)
(*                                                                         *)
(* A board is a function on the dark squares <<i, j>>: "O" empty, "A" and  *)
(* "B" pieces, "k" Alice's king and "K" Bill's.  The printed trace of the  *)
(* search is left out.                                                     *)
(***************************************************************************)
EXTENDS Integers, FiniteSets, SequencesExt

CONSTANTS
    GAME_GRID_NUM,    \* 8 in the program
    MAX_SEARCH_DEPTH, \* 4 in the program
    Boards            \* the boards of the input file

KING_VALUE == 2
INFINITY   == 9999
Rows == 0 .. GAME_GRID_NUM - 1
Dark == {p \in Rows \X Rows : (p[1] + p[2]) % 2 = 1}

ASSUME CheckersAssumption ==
    /\ GAME_GRID_NUM \in Nat /\ MAX_SEARCH_DEPTH \in Nat
    /\ Boards \subseteq [Dark -> {"O", "A", "B", "k", "K"}]

VARIABLES game,     \* the board of the case
          done,     \* its move has been printed
          decision  \* that move, in a set: empty if it was never assigned

vars == <<game, done, decision>>

-----------------------------------------------------------------------------
(* Moves                                                                   *)

Other(move) == IF move = "ALICE" THEN "BILL" ELSE "ALICE"
Side(move)  == IF move = "ALICE" THEN {"A", "k"} ELSE {"B", "K"}

Top == << <<-1, 1>>, <<-1, -1>> >>
Bot == << <<1, 1>>, <<1, -1>> >>

(* What may move up, and down.                                             *)
CanGo(piece, dir) ==
    IF dir \in Range(Top) THEN piece \in {"A", "k", "K"} ELSE piece \in {"B", "k", "K"}

To(from, dir, steps) == <<from[1] + steps * dir[1], from[2] + steps * dir[2]>>

(* Every square, row by row, with the directions in the order of move.     *)
Dirs(move) == IF move = "ALICE" THEN Top \o Bot ELSE Bot \o Top
Square(n) == <<n \div GAME_GRID_NUM, n % GAME_GRID_NUM>>
Tries(move, steps) ==
    [n \in 1 .. 4 * GAME_GRID_NUM * GAME_GRID_NUM |->
        [from |-> Square((n - 1) \div 4), dir |-> Dirs(move)[((n - 1) % 4) + 1],
         steps |-> steps]]

Target(op) == To(op.from, op.dir, op.steps)
Middle(op) == To(op.from, op.dir, 1)

(* op puts a piece of move on an empty square, in a direction it may go.   *)
Possible(g, move, op) ==
    /\ op.from \in Dark /\ g[op.from] \in Side(move)
    /\ CanGo(g[op.from], op.dir)
    /\ Target(op) \in Dark
    /\ g[Target(op)] = "O"

(* check_jump and check_move: op_list, in the order of the program.        *)
check_jump(g, move) ==
    SelectSeq(Tries(move, 2),
              LAMBDA op : Possible(g, move, op) /\ g[Middle(op)] \in Side(Other(move)))
check_move(g, move) == SelectSeq(Tries(move, 1), LAMBDA op : Possible(g, move, op))

(* Jumping is mandatory.                                                   *)
op_list(g, move) == IF check_jump(g, move) # <<>> THEN check_jump(g, move)
                    ELSE check_move(g, move)

(* Nobody is crowned at the far end of the board.                          *)
apply_movement(g, op) ==
    [p \in Dark |-> IF p = Target(op) THEN g[op.from]
                    ELSE IF p = op.from \/ (op.steps = 2 /\ p = Middle(op)) THEN "O"
                    ELSE g[p]]

-----------------------------------------------------------------------------
(* Utility and end of the game                                             *)

Count(g, piece) == Cardinality({p \in Dark : g[p] = piece})
Material(g, move) ==
    IF move = "ALICE" THEN Count(g, "A") + KING_VALUE * Count(g, "k")
    ELSE Count(g, "B") + KING_VALUE * Count(g, "K")

(* Mutant: only Alice loses by having no move.                             *)
terminal_test_AliceOnly(g, move) ==
    \/ Material(g, "ALICE") = 0 \/ Material(g, "BILL") = 0
    \/ move = "ALICE" /\ op_list(g, move) = <<>>

terminal_test(g, move) ==
    \/ Material(g, "ALICE") = 0 \/ Material(g, "BILL") = 0
    \/ op_list(g, move) = <<>>

(* The _utility that terminal_test sets.                                   *)
utility(g, move) ==
    CASE Material(g, "ALICE") = 0     -> -INFINITY
      [] Material(g, "ALICE") # 0 /\ Material(g, "BILL") = 0 -> INFINITY
      [] OTHER -> IF ~terminal_test(g, move) THEN Material(g, "ALICE") - Material(g, "BILL")
                  ELSE IF move = "ALICE" THEN -INFINITY ELSE INFINITY

-----------------------------------------------------------------------------
(* The search                                                              *)

RECURSIVE minmax_value(_, _, _, _, _)
RECURSIVE MaxOver(_, _, _, _, _)
RECURSIVE MinOver(_, _, _, _, _)

(* The loops over op_list, with the rest of the list.                      *)
Raised(alpha, value) == IF value > alpha THEN value ELSE alpha

Lowered(beta, value) == IF value < beta THEN value ELSE beta

MaxOver(g, ops, it, alpha, beta) ==
    IF ops = <<>> THEN alpha
    ELSE LET a == Raised(alpha, minmax_value(apply_movement(g, Head(ops)), "BILL", it, alpha, beta))
         IN  IF a >= beta THEN beta ELSE MaxOver(g, Tail(ops), it, a, beta)

MinOver(g, ops, it, alpha, beta) ==
    IF ops = <<>> THEN beta
    ELSE LET b == Lowered(beta, minmax_value(apply_movement(g, Head(ops)), "ALICE", it, alpha, beta))
         IN  IF alpha >= b THEN alpha ELSE MinOver(g, Tail(ops), it, alpha, b)

minmax_value(g, move, it, alpha, beta) ==
    IF terminal_test(g, move) \/ it + 1 > MAX_SEARCH_DEPTH THEN utility(g, move)
    ELSE IF move = "ALICE" THEN MaxOver(g, op_list(g, move), it + 1, alpha, beta)
    ELSE MinOver(g, op_list(g, move), it + 1, alpha, beta)

(* Mutant: a move with the same value replaces the decision, though a move *)
(* that was pruned has the value alpha too.                                *)
Better_NotWorse(g, best, op) ==
    LET value == minmax_value(apply_movement(g, op), "BILL", 1, best.alpha, INFINITY)
    IN  IF value >= best.alpha THEN [alpha |-> value, op |-> {op}] ELSE best

(* The loop of alpha_beta: the first operation with the highest value.     *)
Better(g, best, op) ==
    LET value == minmax_value(apply_movement(g, op), "BILL", 1, best.alpha, INFINITY)
    IN  IF value > best.alpha THEN [alpha |-> value, op |-> {op}] ELSE best

alpha_beta(g) ==
    FoldLeft(LAMBDA best, op : Better(g, best, op), [alpha |-> -INFINITY, op |-> {}],
             op_list(g, "ALICE")).op

process ==
    /\ ~done
    /\ done' = TRUE
    /\ decision' = alpha_beta(game)
    /\ UNCHANGED game

Init == game \in Boards /\ done = FALSE /\ decision = {}
Spec == Init /\ [][process]_vars

-----------------------------------------------------------------------------
(* The value of a board without any pruning.                               *)
RECURSIVE MinMax(_, _, _)
MinMax(g, move, it) ==
    IF terminal_test(g, move) \/ it + 1 > MAX_SEARCH_DEPTH THEN utility(g, move)
    ELSE LET values == {MinMax(apply_movement(g, op), Other(move), it + 1) :
                           op \in Range(op_list(g, move))}
         IN  CHOOSE v \in values :
                \A w \in values : IF move = "ALICE" THEN v >= w ELSE v <= w

After(g, op) == MinMax(apply_movement(g, op), "BILL", 1)

(* Pruning loses nothing: the move that alpha_beta decides on is as good   *)
(* as any, by the full search to the same depth.  Nothing is said when     *)
(* every move loses: -INFINITY is not above the alpha that alpha_beta      *)
(* starts from, and decision is printed without having been set, although  *)
(* the comment above alpha_beta asks for the best move there too.          *)
DecisionOptimal ==
    done =>
        LET values == {After(game, op) : op \in Range(op_list(game, "ALICE"))}
        IN  \/ values \subseteq {-INFINITY}
            \/ \E op \in decision : \A v \in values : v <= After(game, op)

(* The board from the other side.                                          *)
Swap(piece) == CASE piece = "A" -> "B" [] piece = "B" -> "A"
                 [] piece = "k" -> "K" [] piece = "K" -> "k" [] OTHER -> piece
Turned(g) ==
    [p \in Dark |-> Swap(g[<<GAME_GRID_NUM - 1 - p[1], GAME_GRID_NUM - 1 - p[2]>>])]

(* Alice and Bill are treated alike, though each has a loop, an order of   *)
(* the moves and bounds of its own: from the other side of the board every *)
(* search has the opposite value.  The two copies of the code for a move   *)
(* and for the end of the game were compared when they were translated:    *)
(* here they are one definition, with the side as a parameter.             *)
SidesEqual ==
    minmax_value(Turned(game), "BILL", 1, -INFINITY, INFINITY)
        = -minmax_value(game, "ALICE", 1, -INFINITY, INFINITY)
=============================================================================
