---------------------------- MODULE TicTacToePage ----------------------------
(***************************************************************************)
(* The browser's half of the game: TicTacToe/Client/scripts.js and         *)
(* index.html.  One action per event handler.                              *)
(***************************************************************************)
EXTENDS Board, Sockets

CONSTANTS JoinLimit,   \* the join form accepts the ids 0 .. JoinLimit - 1 (1000 in the code)
          Requests,    \* what a page may open its connection with, see below
          MaxCreates   \* bound: CREATE_MATCH requests sent in a behaviour

VARIABLES page,     \* what each displayed page shows and remembers
          creates   \* bound: how many CREATE_MATCH requests were sent

pageVars == <<page, creates>>

Ids == 0 .. JoinLimit - 1
Undef == "undefined"
NoId == -1

(***************************************************************************)
(* player, mid  the script's globals player and match_id                   *)
(* open         the WebSocket's handshake is complete                      *)
(* lobby        the Create and Join buttons are enabled                    *)
(* view         the text of the cells                                      *)
(* turn         the blank cells are enabled (enableRemaining was the last  *)
(*              to touch them; a marked cell is always disabled)           *)
(***************************************************************************)
FreshPage == [player |-> Undef, mid |-> NoId, open |-> FALSE, lobby |-> FALSE,
              view |-> EmptyBoard, turn |-> FALSE]

PageInit == /\ page = [p \in Pages |-> FreshPage]
            /\ creates = 0

(* socket.send() on a socket that is closing or closed discards the data. *)
socket_send(p, frame) ==
  c2s' = IF link[p] = "up" THEN [c2s EXCEPT ![p] = Append(@, frame)] ELSE c2s

(***************************************************************************)
(* Connecting.  TCP may deliver the upgrade request whole or cut in two:   *)
(* HEAD names both headers the server looks for, TAIL ends the key's line. *)
(* The port can also be visited by a client that is not a WebSocket.       *)
(***************************************************************************)
Whole == <<[code |-> "UPGRADE"]>>
Cut   == <<[code |-> "HEAD"], [code |-> "TAIL"]>>
Plain == <<[code |-> "GET"]>>

ASSUME PageAssumption ==
  /\ JoinLimit \in Nat /\ MaxCreates \in Nat
  /\ Requests \subseteq {Whole, Cut, Plain}

Connect(p) ==
  /\ link[p] = "none"
  /\ link' = [link EXCEPT ![p] = "syn"]
  /\ \E request \in Requests : c2s' = [c2s EXCEPT ![p] = request]
  /\ UNCHANGED <<s2c, pageVars>>

(***************************************************************************)
(* Leaving: the tab is closed or reloaded, and the browser sends a Close   *)
(* frame before it closes; or the process or the network goes away and the *)
(* kernel only closes.  Bytes the page never read turn the close into a    *)
(* reset.                                                                  *)
(***************************************************************************)
Disconnect(p) ==
  /\ \/ link[p] = "up" /\ \E end \in {"fin"} \cup (IF s2c[p] = <<>> THEN {} ELSE {"rst"}) :
          link' = [link EXCEPT ![p] = end]
     \/ link[p] \in {"down", "gone"} /\ link' = [link EXCEPT ![p] = "none"]
  /\ s2c' = [s2c EXCEPT ![p] = <<>>]
  /\ page' = [page EXCEPT ![p] = FreshPage]
  /\ UNCHANGED creates

CloseTab(p) == /\ page[p].open
               /\ socket_send(p, [code |-> "CLOSE"])
               /\ Disconnect(p)

Vanish(p) == Disconnect(p) /\ UNCHANGED c2s

(* socket.onclose and socket.onerror: the connection is over. *)
onclose(p) ==
  /\ link[p] = "down"
  /\ link' = [link EXCEPT ![p] = "gone"]
  /\ s2c' = [s2c EXCEPT ![p] = <<>>]
  /\ page' = [page EXCEPT ![p].lobby = FALSE, ![p].open = FALSE]
  /\ UNCHANGED <<c2s, creates>>

(* clearAndDisableAll and the lobby's buttons, after GAME_OVER. *)
NoDisableMutant(pg) == [pg EXCEPT !.view = EmptyBoard, !.lobby = TRUE]
NoLobbyMutant(pg)   == [pg EXCEPT !.view = EmptyBoard, !.turn = FALSE]
OnGameOver(pg)      == [pg EXCEPT !.view = EmptyBoard, !.turn = FALSE, !.lobby = TRUE]

(* The opponent's move: show it and enable the cells that are left. *)
OwnMarkMutant(pg, m) == [pg EXCEPT !.view[m.message] = pg.player, !.turn = TRUE]
OnMove(pg, m)        == [pg EXCEPT !.view[m.message] = m.player, !.turn = TRUE]

(* The match starts: only X may move. *)
InitForNoneMutant(pg) == pg
InitForBothMutant(pg) == [pg EXCEPT !.turn = TRUE]
OnInitBoard(pg)       == [pg EXCEPT !.turn = @ \/ pg.player = "X"]

NoRetryMutant(pg) == pg
OnJoinFailed(pg)  == [pg EXCEPT !.lobby = TRUE]

(* The page after a frame, by the frame's code. *)
AfterFrame(pg, m) ==
  CASE m.code = "OPEN"       -> [pg EXCEPT !.open = TRUE, !.lobby = TRUE]
    [] m.code \in {"MATCH_CREATED", "MATCH_JOINED"} -> [pg EXCEPT !.mid = m.mid]
    [] m.code = "MATCH_JOIN_FAILED" -> OnJoinFailed(pg)
    [] m.code = "MOVE"       -> OnMove(pg, m)
    [] m.code = "INIT_BOARD" -> OnInitBoard(pg)
    [] m.code = "GAME_OVER"  -> OnGameOver(pg)
    [] OTHER -> pg

(* onopen, for the handshake's answer, and onmessage. *)
onmessage(p) ==
  /\ link[p] \in {"up", "down"} /\ s2c[p] # <<>>
  /\ s2c' = [s2c EXCEPT ![p] = Tail(@)]
  /\ page' = [page EXCEPT ![p] = AfterFrame(@, Head(s2c[p]))]
  /\ UNCHANGED <<link, c2s, creates>>

(* A click on Create or Join disables the lobby and sets the page's mark. *)
NoMarkMutant(pg, mark) == [pg EXCEPT !.lobby = FALSE]
Asking(pg, mark)       == [pg EXCEPT !.lobby = FALSE, !.player = mark]

create_click(p) ==
  /\ page[p].lobby /\ creates < MaxCreates
  /\ creates' = creates + 1
  /\ page' = [page EXCEPT ![p] = Asking(@, "X")]
  /\ socket_send(p, [code |-> "CREATE_MATCH"])
  /\ UNCHANGED <<link, s2c>>

join_click(p, id) ==
  /\ page[p].lobby /\ id \in Ids
  /\ page' = [page EXCEPT ![p] = Asking(@, "O")]
  /\ socket_send(p, [code |-> "JOIN_MATCH", message |-> id])
  /\ UNCHANGED <<link, s2c, creates>>

(* A click on a cell shows the page's mark, if it has one, and disables the board. *)
MarkOf(pg, c) == IF pg.player = Undef THEN pg.view[c] ELSE pg.player
Clicked(pg, c) == [pg EXCEPT !.view[c] = MarkOf(pg, c), !.turn = FALSE]

(* A move sent before player and match_id are set lacks those members. *)
handleMove(p, c) ==
  LET defined == page[p].player # Undef /\ page[p].mid # NoId
  IN  /\ page[p].turn /\ page[p].view[c] = Blank
      /\ page' = [page EXCEPT ![p] = Clicked(@, c)]
      /\ socket_send(p, IF defined THEN [code |-> "MOVE", player |-> page[p].player, message |-> c]
                        ELSE [code |-> "MOVE_INCOMPLETE"])
      /\ UNCHANGED <<link, s2c, creates>>

PageNext == \E p \in Pages :
  \/ Connect(p) \/ CloseTab(p) \/ Vanish(p)
  \/ onclose(p) \/ onmessage(p) \/ create_click(p)
  \/ (\E id \in Ids : join_click(p, id))
  \/ (\E c \in Cells : handleMove(p, c))
=============================================================================
