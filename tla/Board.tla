-------------------------------- MODULE Board --------------------------------
(***************************************************************************)
(* The board of a match and its evaluation: evaluate_board and areEqual of *)
(* TicTacToe/Server/server.c, createMatch's blank board, and the board the *)
(* browser shows (Client/scripts.js, Client/index.html).                   *)
(*                                                                         *)
(* A board is a function from cells to marks.  Lines lists the winning     *)
(* lines in the order evaluate_board tests them: rows, columns, diagonals. *)
(***************************************************************************)
EXTENDS Naturals, Sequences, FiniteSets

CONSTANTS Cells,     \* the squares of the board
          Lines      \* the sequence of winning lines, each a set of squares

ASSUME BoardAssumption ==
  /\ IsFiniteSet(Cells) /\ Cells # {}
  /\ Lines \in Seq(SUBSET Cells)
  /\ \A k \in DOMAIN Lines : Lines[k] # {}

Marks == {"X", "O"}
Blank == " "
NoWinner == "*"

Boards == [Cells -> Marks \cup {Blank}]
EmptyBoard == [c \in Cells |-> Blank]

Other(m) == IF m = "X" THEN "O" ELSE "X"

Complete(board, line) == \E m \in Marks : \A c \in line : board[c] = m

(* The lines a player has completed, by their position in the code. *)
CompleteLines(board) == {k \in DOMAIN Lines : Complete(board, Lines[k])}

(* The mark on the first complete line, "*" when there is none. *)
NoLastLineMutant(board) ==
  IF CompleteLines(board) \ {Len(Lines)} = {} THEN NoWinner
  ELSE CHOOSE m \in Marks : \E k \in CompleteLines(board) : \A c \in Lines[k] : board[c] = m

AlwaysXMutant(board) == IF CompleteLines(board) = {} THEN NoWinner ELSE "X"

evaluate_board(board) ==
  IF CompleteLines(board) = {} THEN NoWinner
  ELSE LET first == CHOOSE k \in CompleteLines(board) :
                      \A other \in CompleteLines(board) : k <= other
       IN  CHOOSE m \in Marks : \A c \in Lines[first] : board[c] = m

Count(board, m) == Cardinality({c \in Cells : board[c] = m})

(* The mark whose turn it is when X opened and the marks alternate. *)
ToMove(board) == IF Count(board, "X") = Count(board, "O") THEN "X" ELSE "O"

Full(moves) == moves = Cardinality(Cells)

(* The match ends with this board and this number of moves. *)
Decided(board, moves) == evaluate_board(board) # NoWinner \/ Full(moves)
=============================================================================
