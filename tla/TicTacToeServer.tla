--------------------------- MODULE TicTacToeServer ---------------------------
(***************************************************************************)
(* TicTacToe/Server/server.c: one thread, an epoll loop, a table of        *)
(* matches and a heap of match records.  One action per way through the    *)
(* loop's body; the epoll batch only fixes an order between the ready      *)
(* sockets, and each handler frees its own Client only.                    *)
(***************************************************************************)
EXTENDS Board, Sockets

CONSTANTS Fds,         \* the descriptors accept() hands out
          Addrs,       \* the addresses malloc() hands out for a Match
          MaxMatches,  \* MAX_MATCHES
          MaxIds,      \* bound: the match ids handed out are 0 .. MaxIds - 1
          NULL         \* the null pointer

NoFd == -1

ASSUME ServerAssumption ==
  /\ Fds \subseteq Nat
  /\ MaxMatches \in Nat /\ MaxIds \in Nat /\ MaxMatches <= MaxIds
  /\ NULL \notin Addrs

VARIABLES up,        \* the process is running
          match_id,  \* the next id to hand out
          matches,   \* the table: an address, or NULL
          heap,      \* the Match at each address, or Free
          client,    \* the Client of each descriptor, or NoClient
          fault,     \* history: what last went wrong, see below
          outcome    \* history: how each match was first decided

serverVars == <<up, match_id, matches, heap, client, fault, outcome>>

Slots == 0 .. MaxMatches - 1
MatchIds == 0 .. MaxIds - 1
Free == [matchID |-> NoFd]      \* memory that is not allocated
NoClient == [page |-> NULL]     \* a descriptor that is not open

(***************************************************************************)
(* fault stays "none" until the program sends to a descriptor that no      *)
(* longer belongs to the player it was stored for ("stray"), follows a     *)
(* stale pointer into the match that was allocated there since ("alias"),  *)
(* or reads a freed or null Match or writes past the table ("undefined").  *)
(* What follows the first two is defined; "undefined" stays noted.         *)
(***************************************************************************)
Faults == {"none", "stray", "alias", "undefined"}
Noting(what) == IF fault = "undefined" THEN fault ELSE what

ServerInit == /\ up = TRUE
              /\ match_id = 0
              /\ matches = [i \in Slots |-> NULL]
              /\ heap = [a \in Addrs |-> Free]
              /\ client = [fd \in Fds |-> NoClient]
              /\ fault = "none"
              /\ outcome = [i \in MatchIds |-> ""]

IsOpen(fd) == fd \in Fds /\ client[fd] # NoClient
Live(a) == a \in Addrs /\ heap[a] # Free

createMatchMutant(fd, id) ==
  [matchID |-> id, playerX |-> fd, playerO |-> NoFd, board |-> EmptyBoard, moves |-> 1, players |-> 0]

createMatch(fd, id) ==
  [matchID |-> id, playerX |-> fd, playerO |-> NoFd, board |-> EmptyBoard, moves |-> 0, players |-> 0]

(* meant and seat are history: the id and the mark of the player that the *)
(* client's pointer was set for.                                           *)
createClient(p) ==
  [page |-> p, handshake |-> FALSE, currentMatch |-> NULL, meant |-> NoFd, seat |-> Blank]

Seated(c, a, id, mark) == [c EXCEPT !.currentMatch = a, !.meant = id, !.seat = mark]

(* The client is the player of match a, and its pointer still points to it. *)
Owns(c, a) == c.currentMatch = a /\ Live(a) /\ c.meant = heap[a].matchID
IsPlayer(c, a, mark) == Owns(c, a) /\ c.seat = mark

(***************************************************************************)
(* send_response: one frame to descriptor to, stored as player mark of     *)
(* match a.  A closed descriptor is EBADF; an open one that is not that    *)
(* player receives a frame that was meant for somebody else.               *)
(***************************************************************************)
send_response(t, clients, a, mark, to, frame) ==
  IF to \in Fds /\ clients[to] # NoClient
  THEN send([t EXCEPT !.stray = @ \/ ~IsPlayer(clients[to], a, mark)], clients[to].page, frame)
  ELSE {[t EXCEPT !.last = "failed"]}

(* The next frame of a handler: not sent once a send has failed. *)
ThenSend(ts, clients, a, mark, to, frame) ==
  UNION {IF t.last = "ok" THEN send_response(t, clients, a, mark, to, frame) ELSE {t} : t \in ts}

(* The network after the sends of trace t. *)
Sent(t) == link' = t.link /\ s2c' = t.s2c

(* The process dies after the sends of trace t: everything it held is gone. *)
Die(t) ==
  /\ up' = FALSE
  /\ matches' = [i \in Slots |-> NULL]
  /\ heap' = [a \in Addrs |-> Free]
  /\ client' = [fd \in Fds |-> NoClient]
  /\ link' = AllClosed(t.link)
  /\ c2s' = [p \in Pages |-> <<>>]
  /\ s2c' = t.s2c
  /\ UNCHANGED <<match_id, outcome>>

(* What the process does next unless SIGPIPE killed it in a send. *)
Survives(t) == t.last # "killed"
KilledBySIGPIPE(t) == t.last = "killed" /\ Die(t)

StrayFault(t) == fault' = IF t.stray THEN Noting("stray") ELSE fault

(* close_connection: the descriptor and its Client, never the match. *)
close_connection(fd, clients, links) ==
  LET p == client[fd].page
  IN  /\ client' = [clients EXCEPT ![fd] = NoClient]
      /\ link' = [links EXCEPT ![p] = Closed(@)]
      /\ c2s' = [c2s EXCEPT ![p] = <<>>]
-----------------------------------------------------------------------------
(* accept(): the lowest descriptor that is free. *)
Accept(p) ==
  /\ up /\ link[p] = "syn"
  /\ \E fd \in Fds :
       /\ ~IsOpen(fd) /\ \A lower \in Fds : lower < fd => IsOpen(lower)
       /\ client' = [client EXCEPT ![fd] = createClient(p)]
  /\ link' = [link EXCEPT ![p] = "up"]
  /\ UNCHANGED <<c2s, s2c, up, match_id, matches, heap, fault, outcome>>

PeerGoneMutant(fd) ==
  /\ up /\ IsOpen(fd)
  /\ HungUp(client[fd].page)
  /\ close_connection(fd, client, link)
  /\ UNCHANGED <<s2c, up, match_id, matches, heap, fault, outcome>>

(* EPOLLERR or EPOLLHUP, and a recv() of a handshaken socket that returns  *)
(* no byte: the connection is closed and nobody is told.                   *)
PeerGone(fd) ==
  /\ up /\ IsOpen(fd)
  /\ LET p == client[fd].page
     IN  HungUp(p) \/ (link[p] = "fin" /\ c2s[p] = <<>> /\ client[fd].handshake)
  /\ close_connection(fd, client, link)
  /\ UNCHANGED <<s2c, up, match_id, matches, heap, fault, outcome>>

(* The handshake needs the request in one recv(): the header's names in    *)
(* the first piece make the server wait, and what it has read is lost.     *)
Upgrade(got) == got = <<[code |-> "UPGRADE"]>> \/ got = <<[code |-> "HEAD"], [code |-> "TAIL"]>>
PartialMutant(got) == got # <<>> /\ ~Upgrade(got)

Partial(got) == got = <<[code |-> "HEAD"]>>

Handshake(fd) ==
  LET p == client[fd].page
  IN  /\ up /\ IsOpen(fd) /\ ~client[fd].handshake /\ Readable(p)
      /\ \E n \in (IF c2s[p] = <<>> THEN {0} ELSE 1 .. Len(c2s[p])) :
           LET got  == SubSeq(c2s[p], 1, n)
               rest == [c2s EXCEPT ![p] = SubSeq(@, n + 1, Len(@))]
           IN  /\ n = 0 => link[p] = "fin"
               /\ \/ /\ Upgrade(got)
                     /\ \E t \in send(Trace, p, [code |-> "OPEN"]) : Sent(t)
                     /\ client' = [client EXCEPT ![fd].handshake = TRUE]
                     /\ c2s' = rest
                  \/ /\ Partial(got)
                     /\ c2s' = rest
                     /\ UNCHANGED <<client, link, s2c>>
                  \/ /\ ~Upgrade(got)
                     /\ \E t \in send(Trace, p, [code |-> "REJECT"]) :
                          s2c' = t.s2c /\ close_connection(fd, client, t.link)
  /\ UNCHANGED <<up, match_id, matches, heap, fault, outcome>>
-----------------------------------------------------------------------------
(* recv() takes every byte that has arrived, parse_frame the first frame   *)
(* of them: frames received together with the first are lost.              *)
Receive(fd, frame) ==
  /\ up /\ IsOpen(fd) /\ client[fd].handshake
  /\ LET p == client[fd].page
     IN  Readable(p) /\ c2s[p] # <<>> /\ frame = Head(c2s[p])

Received(fd) ==
  LET p == client[fd].page
  IN  \E n \in 1 .. Len(c2s[p]) : c2s' = [c2s EXCEPT ![p] = SubSeq(@, n + 1, Len(@))]

(* A pointer that was freed and not handed out again as a Match: it leads  *)
(* to the bytes of the old match, of a frame, a message or a Client.       *)
Dangling(c) == c.currentMatch # NULL /\ ~Live(c.currentMatch)

(* A pointer whose address was handed out again aliases another match. *)
Aliasing(c) == Live(c.currentMatch) /\ ~Owns(c, c.currentMatch)

PtrFault(c, t) == fault' = IF Aliasing(c) THEN Noting("alias")
                           ELSE IF t.stray THEN Noting("stray") ELSE fault

ForgetMutant(a) == heap' = [heap EXCEPT ![a] = Free] /\ UNCHANGED matches

Forget(a) ==
  /\ heap' = [heap EXCEPT ![a] = Free]
  /\ matches' = [i \in Slots |-> IF i = heap[a].matchID THEN NULL ELSE matches[i]]

(* How a match ended is recorded once. *)
Record(id, how) == outcome' = [outcome EXCEPT ![id] = IF @ = "" THEN how ELSE @]

(* The table with the match at address a stored in slot id, if it has one. *)
Store(id, a) == [i \in Slots |-> IF i = id THEN a ELSE matches[i]]

(* malloc returns an address that is free, unless one was freed twice. *)
Allocatable(a) == ~Live(a) \/ fault = "undefined"

create_match(fd) ==
  /\ Receive(fd, [code |-> "CREATE_MATCH"])
  /\ match_id < MaxIds
  /\ \/ \E a \in Addrs :
          LET clients == [client EXCEPT ![fd] = Seated(@, a, match_id, "X")]
          IN  /\ Allocatable(a)
              /\ heap' = [heap EXCEPT ![a] = [createMatch(fd, match_id) EXCEPT !.players = 1]]
              /\ matches' = Store(match_id, a)
              /\ match_id' = match_id + 1
              /\ fault' = IF match_id \in Slots THEN fault ELSE Noting("undefined")
              /\ client' = clients
              /\ \E t \in send(Trace, client[fd].page, [code |-> "MATCH_CREATED", mid |-> match_id]) :
                   Sent(t)
          /\ Received(fd)
          /\ UNCHANGED <<up, outcome>>
     \/ /\ match_id \notin Slots       \* the store past the table faults
        /\ fault' = Noting("undefined")
        /\ Die(Trace)

JoinableMutant(id) == matches[id] # NULL

(* A match that waits for its second player.  Only memory that was freed   *)
(* twice can be freed while it is in the table: it is then taken for a     *)
(* match that cannot be joined.                                            *)
Joinable(id) ==
  /\ matches[id] # NULL /\ Live(matches[id])
  /\ LET m == heap[matches[id]] IN m.playerX # NoFd /\ m.playerO = NoFd /\ m.players # 2

SecondPlayer(match, fd) == [match EXCEPT !.playerO = fd, !.players = @ + 1]

InitBoard == [code |-> "INIT_BOARD"]

join_match(fd, id) ==
  LET p == client[fd].page
      a == matches[id]
      clients == [client EXCEPT ![fd] = Seated(@, a, id, "O")]
      joined == send(Trace, p, [code |-> "MATCH_JOINED", mid |-> id])
      toX == ThenSend(joined, clients, a, "X", heap[a].playerX, InitBoard)
      toO == ThenSend(toX, clients, a, "O", fd, InitBoard)
  IN  /\ Receive(fd, [code |-> "JOIN_MATCH", message |-> id])
      /\ \/ /\ Joinable(id)
            /\ \E t \in toO :
                 /\ StrayFault(t)
                 /\ \/ KilledBySIGPIPE(t)
                    \/ /\ Survives(t) /\ Sent(t) /\ Received(fd)
                       /\ heap' = [heap EXCEPT ![a] = SecondPlayer(@, fd)]
                       /\ client' = clients
                       /\ UNCHANGED <<up, match_id, matches, outcome>>
         \/ /\ ~Joinable(id)
            /\ \E t \in send(Trace, p, [code |-> "MATCH_JOIN_FAILED"]) : Sent(t)
            /\ Received(fd)
            /\ UNCHANGED <<up, match_id, matches, heap, client, fault, outcome>>

GameOver(text) == [code |-> "GAME_OVER", message |-> text]

(* What GAME_OVER announces for a decided board. *)
Verdict(board) ==
  IF evaluate_board(board) # NoWinner THEN evaluate_board(board) ELSE "draw"

Marked(match, board) == [match EXCEPT !.board = board, !.moves = @ + 1]

(* MOVE, for a pointer to allocated memory: relay the frame, mark the      *)
(* board, and when that decides the match tell X, tell O and free it.  A   *)
(* send that fails ends the handler where it stands.                       *)
move(fd, m) ==
  LET c == client[fd]
      a == c.currentMatch
      match == heap[a]
      receiver == IF m.player = "X" THEN match.playerO ELSE match.playerX
      board == [match.board EXCEPT ![m.message] = m.player]
      decided == Decided(board, match.moves + 1)
      relayed == ThenSend({Trace}, client, a, Other(m.player), receiver, m)
      toX == ThenSend(relayed, client, a, "X", match.playerX, GameOver(Verdict(board)))
      toO == ThenSend(toX, client, a, "O", match.playerO, GameOver(Verdict(board)))
      Mark == /\ heap' = [heap EXCEPT ![a] = Marked(@, board)]
              /\ UNCHANGED matches
  IN  /\ Receive(fd, m) /\ m.code = "MOVE" /\ Live(a)
      /\ \E t \in (IF decided THEN toO ELSE relayed) :
           /\ PtrFault(c, t)
           /\ \/ KilledBySIGPIPE(t)
              \/ /\ Survives(t) /\ Sent(t) /\ Received(fd)
                 /\ \/ t.sent = 0 /\ UNCHANGED <<heap, matches, outcome>>
                    \/ t.sent > 0 /\ ~decided /\ Mark /\ UNCHANGED outcome
                    \/ /\ t.sent > 0 /\ decided
                       /\ IF t.last = "ok" THEN Forget(a) ELSE Mark
                       /\ Record(match.matchID, Verdict(board))
                 /\ UNCHANGED <<up, match_id, client>>

(* send_peer_close_response_to_another_peer: the sends, and the free. *)
Opponent(fd, m) == IF m.playerX = fd THEN m.playerO ELSE m.playerX

PeerCloseSends(fd, a) ==
  IF heap[a].players = 2
  THEN ThenSend({Trace}, client, a, IF heap[a].playerX = fd THEN "O" ELSE "X",
                Opponent(fd, heap[a]), GameOver("left"))
  ELSE {Trace}

PeerCloseFrees(a) ==
  IF heap[a].players = 2
  THEN Forget(a) /\ Record(heap[a].matchID, "left")
  ELSE UNCHANGED <<heap, matches, outcome>>

(* A Close frame (opcode 8). *)
close_frame(fd) ==
  LET c == client[fd]
      a == c.currentMatch
  IN  /\ Receive(fd, [code |-> "CLOSE"])
      /\ ~Dangling(c)
      /\ \E t \in (IF a = NULL THEN {Trace} ELSE PeerCloseSends(fd, a)) :
           /\ PtrFault(c, t)
           /\ \/ KilledBySIGPIPE(t)
              \/ /\ Survives(t)
                 /\ IF a = NULL THEN UNCHANGED <<heap, matches, outcome>> ELSE PeerCloseFrees(a)
                 /\ s2c' = t.s2c
                 /\ close_connection(fd, client, t.link)
                 /\ UNCHANGED <<up, match_id>>

(***************************************************************************)
(* MOVE and Close through a pointer to freed memory.  The players, the     *)
(* opponent and the slot are whatever that memory holds now: a frame may   *)
(* go to any descriptor, any slot of the table may be emptied, and the     *)
(* memory may be freed once more, which the allocator answers by an abort  *)
(* or by handing it out twice later.  What the handler writes into the     *)
(* memory's new owner when that is a frame, a message or a Client, or      *)
(* beyond the table, is not tracked: no property says anything of a        *)
(* process that has come this far.                                         *)
(***************************************************************************)
Misdirected(ts, frame) ==
  UNION {ThenSend(ts, client, NULL, Blank, to, frame) : to \in Fds \cup {NoFd}}

StaleVerdicts(ts) ==
  UNION {Misdirected(Misdirected(ts, GameOver(text)), GameOver(text)) : text \in Marks \cup {"draw"}}

StaleSends(m) ==
  IF m.code = "CLOSE" THEN {Trace} \cup Misdirected({Trace}, GameOver("left"))
  ELSE LET relayed == Misdirected({Trace}, m) IN relayed \cup StaleVerdicts(relayed)

(* A Close looks at no send, a MOVE frees after its relay and two verdicts. *)
StaleFrees(m, t) == m.code = "CLOSE" \/ t.sent = 3
Emptied == {matches} \cup {[matches EXCEPT ![i] = NULL] : i \in Slots}

stale_match(fd, m) ==
  \E t \in StaleSends(m) :
    \/ Die(t)
    \/ /\ Survives(t)
       /\ matches' \in (IF StaleFrees(m, t) THEN Emptied ELSE {matches})
       /\ s2c' = t.s2c
       /\ \/ m.code = "CLOSE" /\ close_connection(fd, client, t.link)
          \/ m.code = "MOVE" /\ link' = t.link /\ Received(fd) /\ UNCHANGED client
       /\ UNCHANGED <<up, match_id, heap, outcome>>

(* The stale pointers; MOVE through NULL, and parse_json_string on a frame *)
(* that lacks a member it searches for, which end the process.             *)
undefined_behaviour(fd) ==
  LET c == client[fd]
      m == Head(c2s[c.page])
  IN  /\ up /\ IsOpen(fd) /\ c.handshake /\ Readable(c.page) /\ c2s[c.page] # <<>>
      /\ fault' = Noting("undefined")
      /\ \/ m.code \in {"MOVE", "CLOSE"} /\ Dangling(c) /\ stale_match(fd, m)
         \/ m.code = "MOVE" /\ c.currentMatch = NULL /\ Die(Trace)
         \/ m.code = "MOVE_INCOMPLETE" /\ Die(Trace)

handle(fd) ==
  \/ PeerGone(fd) \/ Handshake(fd) \/ create_match(fd)
  \/ (\E id \in Slots : join_match(fd, id))
  \/ (\E cell \in Cells, mark \in Marks : move(fd, [code |-> "MOVE", player |-> mark, message |-> cell]))
  \/ close_frame(fd) \/ undefined_behaviour(fd)

ServerNext == (\E p \in Pages : Accept(p)) \/ (\E fd \in Fds : handle(fd))
=============================================================================
