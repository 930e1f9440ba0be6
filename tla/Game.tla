-------------------------------- MODULE Game ---------------------------------
(***************************************************************************)
(* What one match promises its players, with no server, sockets or pages:  *)
(* it is opened by X, joined by O, played in alternation on blank squares, *)
(* and over at the first complete line, at the full board, or when a       *)
(* player leaves.  TicTacToe implements it, one instance for each match id.*)
(*                                                                         *)
(* "undefined" is the C standard's way out: once the program has executed  *)
(* undefined behaviour, or sent a frame to a socket number that no longer  *)
(* belongs to the player, the match promises nothing.                      *)
(***************************************************************************)
EXTENDS Board

VARIABLES phase,   \* "none", "waiting", "playing", "over" or "undefined"
          board,   \* the squares, blank unless the match is being played
          result   \* "" until a game ends, then the winner, "draw" or "left"

gameVars == <<phase, board, result>>

Phases == {"none", "waiting", "playing", "over", "undefined"}

GameTypeOK == /\ phase \in Phases
              /\ board \in Boards
              /\ result \in Marks \cup {"", "draw", "left"}

GameInit == phase = "none" /\ board = EmptyBoard /\ result = ""

(* X creates the match. *)
Open == /\ phase = "none"
        /\ phase' = "waiting"
        /\ UNCHANGED <<board, result>>

(* O joins it. *)
Start == /\ phase = "waiting"
         /\ phase' = "playing"
         /\ UNCHANGED <<board, result>>

Outcome(b) == IF evaluate_board(b) # NoWinner THEN evaluate_board(b) ELSE "draw"

(* The player whose turn it is marks a blank square.  A finished board is  *)
(* cleared, as the pages clear theirs and the server frees its match.      *)
Place(c) ==
  LET next == [board EXCEPT ![c] = ToMove(board)]
      moves == Count(next, "X") + Count(next, "O")
  IN  /\ phase = "playing"
      /\ board[c] = Blank
      /\ IF Decided(next, moves)
         THEN phase' = "over" /\ board' = EmptyBoard /\ result' = Outcome(next)
         ELSE phase' = phase /\ board' = next /\ result' = result

(* A player leaves: the other one wins. *)
Leave == /\ phase = "playing"
         /\ phase' = "over" /\ board' = EmptyBoard /\ result' = "left"

Undefined == phase' = "undefined" /\ board' = EmptyBoard /\ result' = ""

GameNext == Open \/ Start \/ (\E c \in Cells : Place(c)) \/ Leave \/ Undefined

GameSpec == GameInit /\ [][GameNext]_gameVars
-----------------------------------------------------------------------------
(* What a match being played looks like, and what a step that ends a game  *)
(* announces; TicTacToe states both of every match id.                     *)
OpenBoard ==
  phase = "playing" =>
    /\ CompleteLines(board) = {}
    /\ \E c \in Cells : board[c] = Blank
    /\ Count(board, "X") - Count(board, "O") \in {0, 1}

FairVerdict ==
  (result = "" /\ phase' = "over" /\ result' # "left") =>
    LET last == {c \in Cells : board[c] = Blank}
        won == \E c \in last : CompleteLines([board EXCEPT ![c] = ToMove(board)]) # {}
    IN  /\ result' # "draw" => won /\ result' = ToMove(board)
        /\ result' = "draw" => Cardinality(last) = 1 /\ ~won
=============================================================================
