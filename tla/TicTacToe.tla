------------------------------ MODULE TicTacToe ------------------------------
(***************************************************************************)
(* The whole game: pages, connections and the server.                      *)
(***************************************************************************)
EXTENDS TicTacToePage, TicTacToeServer

(* The page and the server agree on how many matches there can be. *)
ASSUME IdAssumption == JoinLimit <= MaxMatches

vars == <<netVars, pageVars, serverVars>>

Init == SocketsInit /\ PageInit /\ ServerInit

(* A connection is refused once the listening socket is gone. *)
Refused == ~up /\ \E p \in Pages : link[p] # "syn" /\ link'[p] = "syn"

Next == \/ PageNext /\ ~Refused /\ UNCHANGED serverVars
        \/ ServerNext /\ UNCHANGED pageVars

Spec == Init /\ [][Next]_vars
-----------------------------------------------------------------------------
ServerFrames ==
  [code : {"OPEN", "REJECT", "MATCH_JOIN_FAILED", "INIT_BOARD"}]
    \cup [code : {"MATCH_CREATED", "MATCH_JOINED"}, mid : MatchIds]
    \cup [code : {"MOVE"}, player : Marks, message : Cells]
    \cup [code : {"GAME_OVER"}, message : Marks \cup {"draw", "left"}]

PageFrames ==
  [code : {"UPGRADE", "HEAD", "TAIL", "GET", "CLOSE", "CREATE_MATCH", "MOVE_INCOMPLETE"}]
    \cup [code : {"JOIN_MATCH"}, message : Ids]
    \cup [code : {"MOVE"}, player : Marks, message : Cells]

PageStates == [player : Marks \cup {Undef}, mid : MatchIds \cup {NoId}, open : BOOLEAN,
               lobby : BOOLEAN, view : Boards, turn : BOOLEAN]

MatchStates == [matchID : MatchIds, playerX : Fds, playerO : Fds \cup {NoFd},
                board : Boards, moves : Nat, players : {1, 2}]

ClientStates == [page : Pages, handshake : BOOLEAN, currentMatch : Addrs \cup {NULL},
                 meant : MatchIds \cup {NoFd}, seat : Marks \cup {Blank}]

TypeOK ==
  /\ link \in [Pages -> Links]
  /\ c2s \in [Pages -> Seq(PageFrames)]
  /\ s2c \in [Pages -> Seq(ServerFrames)]
  /\ page \in [Pages -> PageStates]
  /\ creates \in 0 .. MaxCreates
  /\ up \in BOOLEAN
  /\ match_id \in 0 .. MaxIds
  /\ matches \in [Slots -> Addrs \cup {NULL}]
  /\ heap \in [Addrs -> MatchStates \cup {Free}]
  /\ client \in [Fds -> ClientStates \cup {NoClient}]
  /\ fault \in Faults
  /\ outcome \in [MatchIds -> Marks \cup {"", "draw", "left"}]
-----------------------------------------------------------------------------
(* The table and the heap mirror each other until behaviour is undefined,  *)
(* also after frames went astray and stale pointers reached a match that   *)
(* was allocated since: a registered address is allocated and holds the    *)
(* match of its slot, every allocated match that has a slot is in it, ids  *)
(* are handed out once and slots above match_id are empty.  So JOIN_MATCH, *)
(* which dereferences matches[idx], reads freed memory only once a client  *)
(* has followed a pointer into it (server.c 372-416, 162-206, 417-491).    *)
SlotsAreAllocated ==
  \A i \in Slots : matches[i] # NULL => Live(matches[i]) /\ heap[matches[i]].matchID = i
MatchesAreRegistered ==
  \A a \in Addrs : Live(a) /\ heap[a].matchID \in Slots => matches[heap[a].matchID] = a
IdsAreHandedOut ==
  /\ \A a \in Addrs : Live(a) => heap[a].matchID < match_id
  /\ \A i \in Slots : i >= match_id => matches[i] = NULL

RegistryInOrder == SlotsAreAllocated /\ MatchesAreRegistered /\ IdsAreHandedOut
RegistryMirrorsHeap == fault # "undefined" => RegistryInOrder
-----------------------------------------------------------------------------
(* A match in play: both players hold a sound pointer to it, both pages    *)
(* are connected, and its board is not decided.                            *)
Present(fd, a, mark) == IsOpen(fd) /\ IsPlayer(client[fd], a, mark) /\ link[client[fd].page] = "up"
InPlay(a) ==
  /\ Live(a) /\ ~Decided(heap[a].board, heap[a].moves)
  /\ Present(heap[a].playerX, a, "X") /\ Present(heap[a].playerO, a, "O")

PageX(a) == client[heap[a].playerX].page
PageO(a) == client[heap[a].playerO].page

Positions(queue, code) == {k \in DOMAIN queue : queue[k].code = code}

(* The turns of a match: enabled cells, moves under way in either          *)
(* direction, and the INIT_BOARD that gives X the first move.              *)
Turns(a) ==
  {<<"cells", p>> : p \in {q \in {PageX(a), PageO(a)} : page[q].turn}}
    \cup (UNION {{<<"sent", p, k>> : k \in Positions(c2s[p], "MOVE")} : p \in {PageX(a), PageO(a)}})
    \cup (UNION {{<<"relayed", p, k>> : k \in Positions(s2c[p], "MOVE")} : p \in {PageX(a), PageO(a)}})
    \cup {<<"init", k>> : k \in Positions(s2c[PageX(a)], "INIT_BOARD")}

(* Alternation of the players is nowhere in the server: it rests on every  *)
(* frame giving the turn to one page only (scripts.js 50-66, 106-122,      *)
(* 184-200; server.c 417-424).  In every match in play there is exactly    *)
(* one turn: never two players who can move, never none.                   *)
OneTurn == fault = "none" => \A a \in Addrs : InPlay(a) => Cardinality(Turns(a)) = 1

(* The board after the moves of a queue. *)
AfterMoves(board, queue) ==
  [c \in Cells |->
     LET marks == {queue[k].player : k \in {j \in Positions(queue, "MOVE") : queue[j].message = c}}
     IN  IF marks = {} THEN board[c] ELSE CHOOSE m \in marks : TRUE]

(* The server's board and each page's cells are three copies of one board  *)
(* that are updated at different times: the page that moves (scripts.js    *)
(* 186), the server after the relay (server.c 428-433), the other page     *)
(* (scripts.js 110).  They differ by the moves under way and nothing else. *)
ViewsAgree ==
  fault = "none" => \A a \in Addrs : InPlay(a) => \A p \in {PageX(a), PageO(a)} :
    AfterMoves(page[p].view, s2c[p]) = AfterMoves(heap[a].board, c2s[p])

(* A page and the server agree on the page's mark and on its match id: the *)
(* page is X exactly in the seat playerX, and what MATCH_CREATED or        *)
(* MATCH_JOINED told it, or is about to, is the id of the match it is in.  *)
SeatsAgree ==
  fault = "none" => \A a \in Addrs : InPlay(a) =>
    /\ PageX(a) # PageO(a)
    /\ page[PageX(a)].player = "X" /\ page[PageO(a)].player = "O"
    /\ \A p \in {PageX(a), PageO(a)} :
         LET told == {k \in DOMAIN s2c[p] : s2c[p][k].code \in {"MATCH_CREATED", "MATCH_JOINED"}}
         IN  {heap[a].matchID} = IF told = {} THEN {page[p].mid} ELSE {s2c[p][k].mid : k \in told}
-----------------------------------------------------------------------------
(* Every match is a Game as long as the process lives and no fault has     *)
(* happened: the server checks neither the turn nor the square of a    *)
(* MOVE, yet moves alternate and go to blank squares.                      *)
DecidedAt(i) == matches[i] # NULL /\ Decided(heap[matches[i]].board, heap[matches[i]].moves)

PhaseOf(i) ==
  CASE ~up \/ fault # "none" -> "undefined"
    [] up /\ fault = "none" /\ i >= match_id -> "none"
    [] up /\ fault = "none" /\ i < match_id /\ (matches[i] = NULL \/ DecidedAt(i)) -> "over"
    [] OTHER -> IF heap[matches[i]].players = 1 THEN "waiting" ELSE "playing"

Match(i) == INSTANCE Game WITH
  phase  <- PhaseOf(i),
  board  <- IF PhaseOf(i) = "playing" THEN heap[matches[i]].board ELSE EmptyBoard,
  result <- IF PhaseOf(i) = "undefined" THEN "" ELSE outcome[i]

(* The refinement: \A i \in Slots : Match(i)!GameSpec, with the quantifier   *)
(* moved inside [] so that TLC can evaluate it.                            *)
EveryMatchIsAGame ==
  /\ \A i \in Slots : Match(i)!GameInit
  /\ [][\A i \in Slots : [Match(i)!GameNext]_(Match(i)!gameVars)]_vars

(* The board of a match being played has no complete line and a blank      *)
(* square left, and X is level or one move ahead: evaluate_board and the   *)
(* move count end the match in time (server.c 64-97, 433-469).             *)
OpenWhilePlayed == \A i \in Slots : Match(i)!OpenBoard

(* The winner announced is the player who has just moved, whichever of the *)
(* complete lines evaluate_board meets first; a draw fills the board and   *)
(* completes no line (server.c 433-469).                                   *)
MoverWins == [][\A i \in Slots : Match(i)!FairVerdict]_vars
-----------------------------------------------------------------------------
(* Fairness.  epoll is level-triggered and nothing in a handler blocks     *)
(* (every socket is O_NONBLOCK), so a socket that stays ready is handled;  *)
(* a browser delivers the frames and the close event it has received.      *)
(* Players and the network owe nothing: no fairness on clicks or leaving.  *)
ServerFairness ==
  /\ \A p \in Pages : WF_vars(Accept(p) /\ UNCHANGED pageVars)
  /\ \A fd \in Fds : WF_vars(handle(fd) /\ UNCHANGED pageVars)

BrowserFairness == \A p \in Pages : WF_vars((onmessage(p) \/ onclose(p)) /\ UNCHANGED serverVars)

FairSpec == Spec /\ ServerFairness /\ BrowserFairness

(* A handler has used freed memory: nothing is promised from there on. *)
Undefined == fault = "undefined"

(* A connection is answered: it becomes a WebSocket or is closed, also     *)
(* when its request comes in pieces or is no upgrade (server.c 286-326).   *)
ConnectionsResolve ==
  \A p \in Pages : link[p] = "syn" ~> page[p].open \/ link[p] \notin {"syn", "up"} \/ Undefined

(* A descriptor never outlives its page: once the page's end is closed the *)
(* server closes its own, whichever of the three ways out it takes         *)
(* (server.c 262-267, 332-336, 341-354), or the process dies, which closes *)
(* it too; also when another match has gone astray meanwhile.              *)
DepartedAreForgotten ==
  \A p \in Pages : link[p] \in {"fin", "rst"} ~> link[p] = "none" \/ Undefined

(* A page that asked for a match is answered: it learns its match id or    *)
(* gets its buttons back.                                                  *)
RequestsAnswered ==
  \A p \in Pages :
    (\E k \in DOMAIN c2s[p] : c2s[p][k].code \in {"CREATE_MATCH", "JOIN_MATCH"})
      ~> page[p].mid # NoId \/ page[p].lobby \/ link[p] # "up" \/ Undefined

(* The turn arrives: in a match in play some player can move sooner or     *)
(* later, or the match is over, or a player has left.                      *)
TurnArrives ==
  \A a \in Addrs : (InPlay(a) /\ fault = "none")
    ~> \/ fault # "none" \/ ~InPlay(a)
       \/ page[PageX(a)].turn \/ page[PageO(a)].turn

(* The verdict reaches both: when a match is decided and both its players  *)
(* stay connected, each page gets its buttons back.                        *)
SeatedIn(p, i) == \E fd \in Fds : IsOpen(fd) /\ client[fd].page = p /\ client[fd].meant = i
Paired(p, q, i) == /\ p # q /\ SeatedIn(p, i) /\ SeatedIn(q, i)
                   /\ link[p] = "up" /\ link[q] = "up"

VerdictReachesBoth ==
  \A i \in Slots, p, q \in Pages :
    (outcome[i] # "" /\ Paired(p, q, i) /\ fault = "none")
      ~> page[p].lobby \/ ~Paired(p, q, i) \/ fault # "none"
-----------------------------------------------------------------------------
(* The game as long as nobody leaves, and the loser does not click in the  *)
(* instant between the winning move and the GAME_OVER that follows it:     *)
(* OnMove has enabled the blank cells and the match is already freed.      *)
Prompt(p) == Positions(s2c[p], "GAME_OVER") = {}

StayNext == \/ /\ \E p \in Pages :
                  \/ Connect(p) \/ onmessage(p) \/ onclose(p) \/ create_click(p)
                  \/ (\E id \in Ids : join_click(p, id))
                  \/ (Prompt(p) /\ \E c \in Cells : handleMove(p, c))
               /\ ~Refused
               /\ UNCHANGED serverVars
            \/ ServerNext /\ UNCHANGED pageVars

StaySpec == Init /\ [][StayNext]_vars

(* Without departures and late clicks the pointers that dangle after a     *)
(* game (server.c 464 and 490 free the match, both clients keep it) are    *)
(* never followed, no frame is misdirected and the process never dies.     *)
FaultsNeedDepartures == fault = "none" /\ up
-----------------------------------------------------------------------------
(* What a comment of the code says and the code does not do.               *)

Grows(p, code) ==
  /\ Len(s2c'[p]) > Len(s2c[p])
  /\ \E k \in Len(s2c[p]) + 1 .. Len(s2c'[p]) : s2c'[p][k].code = code

(* server.c 177, "Opponent wins by disconnect": when the server closes the *)
(* connection of a player of a match in play, its opponent is told.        *)
OpponentWinsByDisconnect ==
  [][\A a \in Addrs, gone, other \in Fds :
       (/\ Live(a) /\ heap[a].players = 2 /\ up'
        /\ {gone, other} = {heap[a].playerX, heap[a].playerO} /\ gone # other
        /\ IsOpen(gone) /\ Owns(client[gone], a) /\ client'[gone] = NoClient
        /\ IsOpen(other) /\ Owns(client[other], a) /\ link[client[other].page] = "up")
         => Grows(client[other].page, "GAME_OVER")]_vars
=============================================================================
