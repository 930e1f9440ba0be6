----------------------------- MODULE MCTicTacToe -----------------------------
(***************************************************************************)
(* Instances of TicTacToe for TLC.                                         *)
(***************************************************************************)
EXTENDS TicTacToe, TLC

(* The board of index.html, with the lines in evaluate_board's order. *)
CONSTANTS a0b0, a0b1, a0b2, a1b0, a1b1, a1b2, a2b0, a2b1, a2b2

matrix == <<<<a0b0, a0b1, a0b2>>, <<a1b0, a1b1, a1b2>>, <<a2b0, a2b1, a2b2>>>>
Row(i) == {matrix[i][j] : j \in 1 .. 3}
Column(j) == {matrix[i][j] : i \in 1 .. 3}

RealCells == {matrix[i][j] : i, j \in 1 .. 3}
RealLines == <<Row(1), Row(2), Row(3), Column(1), Column(2), Column(3),
               {matrix[i][i] : i \in 1 .. 3}, {matrix[i][4 - i] : i \in 1 .. 3}>>

(* Boards that end after one or two moves, for the runs where pages leave. *)
(* On two squares of which the first is a line, X wins with its first move *)
(* or O with the last; with no line the game is drawn.                     *)
OneCell == {a0b0}
TwoCells == {a0b0, a0b1}
OneLine == <<{a0b0}>>
NoLines == <<>>

OnlyWhole == {Whole}
CutOrPlain == {Cut, Plain}

Symmetry == Permutations(Pages) \cup Permutations(Addrs)

(* The states TLC expands in the run about matches that are still sound. *)
Sound == up /\ fault = "none"

(* The states TLC expands in the runs that go on after a fault: frames to  *)
(* any page, sent through a stale pointer, would make the queues unbounded.*)
Defined == ~Undefined
=============================================================================
