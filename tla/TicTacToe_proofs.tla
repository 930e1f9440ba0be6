--------------------------- MODULE TicTacToe_proofs ---------------------------
(***************************************************************************)
(* Proofs about TicTacToe, for any pages, descriptors, addresses, boards   *)
(* and table size: the type invariant and, from it, that the table of      *)
(* matches and the heap mirror each other.                                 *)
(*                                                                         *)
(* The last parts define what it is for a match to be in order and show    *)
(* what the pages, the connections and the server's handlers up to the     *)
(* start of a match do to it; TicTacToeMatches_proofs has MOVE, the        *)
(* departures and the results.                                             *)
(***************************************************************************)
EXTENDS TicTacToe, TLAPS, SequenceTheorems, FiniteSetTheorems, WellFoundedInduction

(***************************************************************************)
(* The board.                                                              *)
(***************************************************************************)
(* A nonempty set of naturals has a least element. *)
LEMMA LeastElement ==
  ASSUME NEW S \in SUBSET Nat, S # {}
  PROVE  \E k \in S : \A other \in S : k <= other
<1>1. PICK k \in S : \A other \in S : <<other, k>> \notin OpToRel(<, Nat)
  BY NatLessThanWellFounded, WFMin
<1>2. \A other \in S : ~(other < k)
  BY <1>1 DEF OpToRel
<1> QED
  BY <1>2

(* When a line is complete, evaluate_board has a first one, and a mark on it. *)
LEMMA FirstLine ==
  ASSUME NEW board, CompleteLines(board) # {}
  PROVE  \E k \in DOMAIN Lines :
           /\ Complete(board, Lines[k])
           /\ \A j \in DOMAIN Lines : Complete(board, Lines[j]) => k <= j
           /\ evaluate_board(board) \in Marks
           /\ \A c \in Lines[k] : board[c] = evaluate_board(board)
<1> DEFINE first == CHOOSE k \in CompleteLines(board) :
                      \A other \in CompleteLines(board) : k <= other
<1>1. CompleteLines(board) \in SUBSET Nat
  <2>1. Lines \in Seq(SUBSET Cells)
    BY BoardAssumption
  <2>2. DOMAIN Lines = 1 .. Len(Lines) /\ Len(Lines) \in Nat
    BY <2>1, LenProperties
  <2> QED
    BY <2>2 DEF CompleteLines
<1>2. first \in CompleteLines(board) /\ \A other \in CompleteLines(board) : first <= other
  BY <1>1, LeastElement
<1>3. \E m \in Marks : \A c \in Lines[first] : board[c] = m
  BY <1>2 DEF CompleteLines, Complete
<1>4. evaluate_board(board) = CHOOSE m \in Marks : \A c \in Lines[first] : board[c] = m
  BY DEF evaluate_board
<1>5. evaluate_board(board) \in Marks /\ \A c \in Lines[first] : board[c] = evaluate_board(board)
  BY <1>3, <1>4
<1> HIDE DEF first
<1> QED
  BY <1>2, <1>5 DEF CompleteLines

(* evaluate_board (server.c 64-97), for every board and every list of      *)
(* lines: it returns a mark exactly when that mark fills some line and no  *)
(* line before it is complete, and "*" exactly when no line is complete.   *)
THEOREM EvaluateBoardFirst ==
  ASSUME NEW board
  PROVE  /\ evaluate_board(board) \in Marks \cup {NoWinner}
         /\ evaluate_board(board) = NoWinner <=> \A k \in DOMAIN Lines : ~Complete(board, Lines[k])
         /\ \A m \in Marks :
              evaluate_board(board) = m
                <=> \E k \in DOMAIN Lines :
                      /\ \A c \in Lines[k] : board[c] = m
                      /\ \A j \in DOMAIN Lines : j < k => ~Complete(board, Lines[j])
<1>0. \A m \in Marks : m # NoWinner
  BY DEF Marks, NoWinner
<1>1. CASE CompleteLines(board) = {}
  <2>1. evaluate_board(board) = NoWinner
    BY <1>1 DEF evaluate_board
  <2>2. \A k \in DOMAIN Lines : ~Complete(board, Lines[k])
    BY <1>1 DEF CompleteLines
  <2>3. \A k \in DOMAIN Lines, m \in Marks : ~(\A c \in Lines[k] : board[c] = m)
    BY <2>2 DEF Complete
  <2> QED
    BY <1>0, <2>1, <2>2, <2>3
<1>2. CASE CompleteLines(board) # {}
  <2>1. PICK k \in DOMAIN Lines :
          /\ Complete(board, Lines[k])
          /\ \A j \in DOMAIN Lines : Complete(board, Lines[j]) => k <= j
          /\ evaluate_board(board) \in Marks
          /\ \A c \in Lines[k] : board[c] = evaluate_board(board)
    BY <1>2, FirstLine
  <2>2. DOMAIN Lines \subseteq Nat
    <3>1. Lines \in Seq(SUBSET Cells)
      BY BoardAssumption
    <3> QED
      BY <3>1, LenProperties
  <2>3. \A j \in DOMAIN Lines : j < k => ~Complete(board, Lines[j])
    BY <2>1, <2>2
  <2>4. ASSUME NEW m \in Marks, NEW i \in DOMAIN Lines,
               \A c \in Lines[i] : board[c] = m,
               \A j \in DOMAIN Lines : j < i => ~Complete(board, Lines[j])
        PROVE  evaluate_board(board) = m
    <3>1. Complete(board, Lines[i])
      BY <2>4 DEF Complete
    <3>2. i = k
      <4>1. k <= i /\ ~(k < i)
        BY <2>1, <2>4, <3>1
      <4> QED
        BY <2>2, <4>1
    <3>3. PICK c \in Lines[k] : TRUE
      BY BoardAssumption
    <3> QED
      BY <2>1, <2>4, <3>2, <3>3
  <2> QED
    BY <1>0, <2>1, <2>3, <2>4
<1> QED
  BY <1>1, <1>2

(* The text of GAME_OVER is a mark or "draw". *)
LEMMA VerdictType ==
  ASSUME NEW board
  PROVE  Verdict(board) \in Marks \cup {"draw"}
BY EvaluateBoardFirst DEF Verdict

(* Marking a square leaves a board. *)
LEMMA MarkedBoard ==
  ASSUME NEW board \in Boards, NEW c \in Cells, NEW m \in Marks
  PROVE  [board EXCEPT ![c] = m] \in Boards
BY DEF Boards
-----------------------------------------------------------------------------
(***************************************************************************)
(* The sends of a handler.                                                 *)
(***************************************************************************)
Traces == [link : [Pages -> Links], s2c : [Pages -> Seq(ServerFrames)], sent : Nat,
           last : {"ok", "failed", "killed"}, stray : BOOLEAN]

ClientTables == [Fds -> ClientStates \cup {NoClient}]

(* A handler starts from the network as it is. *)
LEMMA TraceType == TypeOK => Trace \in Traces
BY DEF TypeOK, Trace, Traces

(* A send leaves a well-formed network, however it ends. *)
LEMMA SendType ==
  ASSUME NEW t \in Traces, NEW p \in Pages, NEW frame \in ServerFrames
  PROVE  send(t, p, frame) \subseteq Traces
<1>1. t.s2c[p] \in Seq(ServerFrames)
  BY DEF Traces
<1>2. Append(t.s2c[p], frame) \in Seq(ServerFrames)
  BY <1>1, AppendProperties
<1>3. \A u \in Traces : SendOk(u) \in Traces
  <2> TAKE u \in Traces
  <2>1. u.sent + 1 \in Nat
    BY DEF Traces
  <2>2. "ok" \in {"ok", "failed", "killed"}
    OBVIOUS
  <2> QED
    BY <2>1, <2>2, Zenon DEF SendOk, Traces
<1>4. [t EXCEPT !.s2c[p] = Append(@, frame)] \in Traces
  BY <1>2 DEF Traces
<1>5. [t EXCEPT !.link[p] = "rst"] \in Traces
  BY DEF Traces, Links
<1>6. [t EXCEPT !.last = "failed"] \in Traces /\ [t EXCEPT !.last = "killed"] \in Traces
  BY DEF Traces
<1> QED
  BY <1>3, <1>4, <1>5, <1>6 DEF send

LEMMA SendResponseType ==
  ASSUME NEW t \in Traces, NEW clients \in ClientTables, NEW a, NEW mark, NEW to,
         NEW frame \in ServerFrames
  PROVE  send_response(t, clients, a, mark, to, frame) \subseteq Traces
<1>1. CASE to \in Fds /\ clients[to] # NoClient
  <2>1. clients[to].page \in Pages
    BY <1>1 DEF ClientTables, ClientStates
  <2> DEFINE u == [t EXCEPT !.stray = @ \/ ~IsPlayer(clients[to], a, mark)]
  <2>2. u \in Traces
    BY DEF Traces
  <2>3. send(u, clients[to].page, frame) \subseteq Traces
    BY <2>1, <2>2, SendType
  <2> QED
    BY <1>1, <2>3 DEF send_response
<1>2. CASE ~(to \in Fds /\ clients[to] # NoClient)
  <2>1. [t EXCEPT !.last = "failed"] \in Traces
    BY DEF Traces
  <2> QED
    BY <1>2, <2>1 DEF send_response
<1> QED
  BY <1>1, <1>2

LEMMA ThenSendType ==
  ASSUME NEW ts \in SUBSET Traces, NEW clients \in ClientTables, NEW a, NEW mark, NEW to,
         NEW frame \in ServerFrames
  PROVE  ThenSend(ts, clients, a, mark, to, frame) \in SUBSET Traces
BY SendResponseType DEF ThenSend

(* The network that a trace describes is well-formed. *)
LEMMA SentType ==
  ASSUME NEW t \in Traces
  PROVE  t.link \in [Pages -> Links] /\ t.s2c \in [Pages -> Seq(ServerFrames)]
BY DEF Traces
-----------------------------------------------------------------------------
(***************************************************************************)
(* Steps that several handlers share.                                      *)
(***************************************************************************)
(* What the pages see and what the history records. *)
PagesOK == /\ page \in [Pages -> PageStates]
           /\ creates \in 0 .. MaxCreates

(* Receiving any prefix of a queue leaves a queue. *)
LEMMA RestType ==
  ASSUME TypeOK, NEW p \in Pages, NEW n \in Nat
  PROVE  [c2s EXCEPT ![p] = SubSeq(@, n + 1, Len(@))] \in [Pages -> Seq(PageFrames)]
<1>1. c2s[p] \in Seq(PageFrames)
  BY DEF TypeOK
<1>2. SubSeq(c2s[p], n + 1, Len(c2s[p])) \in Seq(PageFrames)
  <2>1. Len(c2s[p]) \in Nat
    BY <1>1, LenProperties
  <2>2. \A i \in n + 1 .. Len(c2s[p]) : c2s[p][i] \in PageFrames
    BY <1>1, <2>1, ElementOfSeq
  <2> HIDE DEF PageFrames
  <2> QED
    BY <2>1, <2>2, SubSeqProperties
<1> QED
  BY <1>2 DEF TypeOK

LEMMA ReceivedType ==
  ASSUME TypeOK, NEW fd \in Fds, IsOpen(fd), Received(fd)
  PROVE  c2s' \in [Pages -> Seq(PageFrames)]
<1>1. client[fd].page \in Pages
  BY DEF TypeOK, IsOpen, ClientStates
<1>2. PICK n \in 1 .. Len(c2s[client[fd].page]) :
        c2s' = [c2s EXCEPT ![client[fd].page] = SubSeq(@, n + 1, Len(@))]
  BY DEF Received
<1>3. n \in Nat
  BY <1>2
<1> QED
  BY <1>1, <1>2, <1>3, RestType

(* Closing a descriptor leaves a well-formed table and network. *)
LEMMA CloseType ==
  ASSUME TypeOK, NEW fd \in Fds, IsOpen(fd), NEW links \in [Pages -> Links],
         close_connection(fd, client, links)
  PROVE  /\ client' \in ClientTables
         /\ link' \in [Pages -> Links]
         /\ c2s' \in [Pages -> Seq(PageFrames)]
<1>1. client[fd].page \in Pages
  BY DEF TypeOK, IsOpen, ClientStates
<1>2. Closed(links[client[fd].page]) \in Links
  BY <1>1 DEF Closed, Links
<1>3. << >> \in Seq(PageFrames)
  BY EmptySeq
<1> QED
  BY <1>1, <1>2, <1>3 DEF close_connection, ClientTables, TypeOK

(* So does the death of the process. *)
LEMMA DieType ==
  ASSUME TypeOK, NEW t \in Traces, Die(t), fault' \in Faults, UNCHANGED pageVars
  PROVE  TypeOK'
<1>1. AllClosed(t.link) \in [Pages -> Links]
  BY SentType DEF AllClosed, Links
<1>2. [p \in Pages |-> <<>>] \in [Pages -> Seq(PageFrames)]
  BY EmptySeq
<1>3. t.s2c \in [Pages -> Seq(ServerFrames)]
  BY SentType
<1> QED
  BY <1>1, <1>2, <1>3 DEF Die, TypeOK, pageVars

LEMMA NotingType ==
  ASSUME TypeOK, NEW what \in Faults
  PROVE  Noting(what) \in Faults
BY DEF Noting, TypeOK, Faults
-----------------------------------------------------------------------------
(***************************************************************************)
(* The page's handlers keep the types.                                     *)
(***************************************************************************)
LEMMA ServerFrameFields ==
  ASSUME NEW m \in ServerFrames
  PROVE  /\ m.code = "MOVE" => m.player \in Marks /\ m.message \in Cells
         /\ m.code \in {"MATCH_CREATED", "MATCH_JOINED"} => m.mid \in MatchIds
BY DEF ServerFrames

LEMMA AfterFrameType ==
  ASSUME NEW pg \in PageStates, NEW m \in ServerFrames
  PROVE  AfterFrame(pg, m) \in PageStates
<1>1. CASE m.code = "OPEN"
  BY <1>1 DEF AfterFrame, PageStates
<1>2. CASE m.code \in {"MATCH_CREATED", "MATCH_JOINED"}
  <2>1. m.mid \in MatchIds
    BY <1>2, ServerFrameFields
  <2> QED
    BY <1>2, <2>1 DEF AfterFrame, PageStates
<1>3. CASE m.code = "MATCH_JOIN_FAILED"
  BY <1>3 DEF AfterFrame, OnJoinFailed, PageStates
<1>4. CASE m.code = "MOVE"
  <2>1. m.player \in Marks /\ m.message \in Cells
    BY <1>4, ServerFrameFields
  <2>2. pg.view \in Boards
    BY DEF PageStates
  <2>3. [pg.view EXCEPT ![m.message] = m.player] \in Boards
    BY <2>1, <2>2, MarkedBoard
  <2> QED
    BY <1>4, <2>3 DEF AfterFrame, OnMove, PageStates
<1>5. CASE m.code = "INIT_BOARD"
  BY <1>5 DEF AfterFrame, OnInitBoard, PageStates
<1>6. CASE m.code = "GAME_OVER"
  <2>1. EmptyBoard \in Boards
    BY DEF EmptyBoard, Boards
  <2> QED
    BY <1>6, <2>1 DEF AfterFrame, OnGameOver, PageStates
<1>7. CASE m.code \notin {"OPEN", "MATCH_CREATED", "MATCH_JOINED", "MATCH_JOIN_FAILED", "MOVE",
                          "INIT_BOARD", "GAME_OVER"}
  BY <1>7 DEF AfterFrame
<1> QED
  BY <1>1, <1>2, <1>3, <1>4, <1>5, <1>6, <1>7

LEMMA FreshPageType == FreshPage \in PageStates
BY DEF FreshPage, PageStates, EmptyBoard, Boards

LEMMA SocketSendType ==
  ASSUME TypeOK, NEW p \in Pages, NEW frame \in PageFrames, socket_send(p, frame)
  PROVE  c2s' \in [Pages -> Seq(PageFrames)]
<1>1. c2s[p] \in Seq(PageFrames)
  BY DEF TypeOK
<1>2. Append(c2s[p], frame) \in Seq(PageFrames)
  BY <1>1, AppendProperties
<1> QED
  BY <1>2 DEF TypeOK, socket_send

LEMMA DisconnectType ==
  ASSUME TypeOK, NEW p \in Pages, Disconnect(p)
  PROVE  /\ link' \in [Pages -> Links]
         /\ s2c' \in [Pages -> Seq(ServerFrames)]
         /\ PagesOK'
<1>1. link' \in [Pages -> Links]
  BY DEF Disconnect, TypeOK, Links
<1>2. s2c' \in [Pages -> Seq(ServerFrames)]
  BY EmptySeq DEF Disconnect, TypeOK
<1>3. PagesOK'
  BY FreshPageType DEF Disconnect, TypeOK, PagesOK
<1> QED
  BY <1>1, <1>2, <1>3

LEMMA PageType ==
  ASSUME TypeOK, PageNext, UNCHANGED serverVars
  PROVE  TypeOK'
<1> USE DEF serverVars
<1>1. ASSUME NEW p \in Pages, Connect(p) PROVE TypeOK'
  <2>1. \A r \in Requests : r \in Seq(PageFrames)
    <3>1. \A name \in {"UPGRADE", "HEAD", "TAIL", "GET"} : [code |-> name] \in PageFrames
      BY DEF PageFrames
    <3> HIDE DEF PageFrames
    <3>2. Whole \in Seq(PageFrames) /\ Cut \in Seq(PageFrames) /\ Plain \in Seq(PageFrames)
      BY <3>1 DEF Whole, Cut, Plain
    <3> QED
      BY <3>2, PageAssumption
  <2>2. "syn" \in Links
    BY DEF Links
  <2> QED
    BY <1>1, <2>1, <2>2 DEF Connect, TypeOK, pageVars
<1>2. ASSUME NEW p \in Pages, CloseTab(p) PROVE TypeOK'
  <2>1. [code |-> "CLOSE"] \in PageFrames
    BY DEF PageFrames
  <2>2. c2s' \in [Pages -> Seq(PageFrames)]
    BY <1>2, <2>1, SocketSendType DEF CloseTab
  <2> QED
    BY <1>2, <2>2, DisconnectType DEF CloseTab, TypeOK, PagesOK
<1>3. ASSUME NEW p \in Pages, Vanish(p) PROVE TypeOK'
  BY <1>3, DisconnectType DEF Vanish, TypeOK, PagesOK
<1>4. ASSUME NEW p \in Pages, onclose(p) PROVE TypeOK'
  <2>1. page' \in [Pages -> PageStates]
    <3>1. [page[p] EXCEPT !.lobby = FALSE, !.open = FALSE] \in PageStates
      BY DEF TypeOK, PageStates
    <3>2. page' = [page EXCEPT ![p] = [page[p] EXCEPT !.lobby = FALSE, !.open = FALSE]]
      BY <1>4 DEF onclose, TypeOK
    <3> QED
      BY <3>1, <3>2 DEF TypeOK
  <2>2. "gone" \in Links /\ << >> \in Seq(ServerFrames)
    BY EmptySeq DEF Links
  <2> QED
    BY <1>4, <2>1, <2>2 DEF onclose, TypeOK
<1>5. ASSUME NEW p \in Pages, onmessage(p) PROVE TypeOK'
  <2>1. s2c[p] \in Seq(ServerFrames) /\ s2c[p] # <<>>
    BY <1>5 DEF onmessage, TypeOK
  <2>2. Head(s2c[p]) \in ServerFrames /\ Tail(s2c[p]) \in Seq(ServerFrames)
    BY <2>1, HeadTailProperties
  <2>3. AfterFrame(page[p], Head(s2c[p])) \in PageStates
    BY <2>2, AfterFrameType DEF TypeOK
  <2> QED
    BY <1>5, <2>2, <2>3 DEF onmessage, TypeOK
<1>6. ASSUME NEW p \in Pages, create_click(p) PROVE TypeOK'
  <2>1. [code |-> "CREATE_MATCH"] \in PageFrames
    BY DEF PageFrames
  <2>2. c2s' \in [Pages -> Seq(PageFrames)]
    BY <1>6, <2>1, SocketSendType DEF create_click
  <2>3. Asking(page[p], "X") \in PageStates
    BY DEF Asking, PageStates, TypeOK, Marks
  <2>4. creates' \in 0 .. MaxCreates
    <3>1. creates < MaxCreates /\ creates' = creates + 1
      BY <1>6 DEF create_click
    <3>2. creates \in 0 .. MaxCreates /\ MaxCreates \in Nat
      BY PageAssumption DEF TypeOK
    <3> QED
      BY <3>1, <3>2
  <2> QED
    BY <1>6, <2>2, <2>3, <2>4 DEF create_click, TypeOK
<1>7. ASSUME NEW p \in Pages, NEW id \in Ids, join_click(p, id) PROVE TypeOK'
  <2>1. [code |-> "JOIN_MATCH", message |-> id] \in PageFrames
    BY DEF PageFrames
  <2>2. c2s' \in [Pages -> Seq(PageFrames)]
    BY <1>7, <2>1, SocketSendType DEF join_click
  <2>3. Asking(page[p], "O") \in PageStates
    BY DEF Asking, PageStates, TypeOK, Marks
  <2> QED
    BY <1>7, <2>2, <2>3 DEF join_click, TypeOK
<1>8. ASSUME NEW p \in Pages, NEW c \in Cells, handleMove(p, c) PROVE TypeOK'
  <2> DEFINE frame == IF page[p].player # Undef /\ page[p].mid # NoId
                      THEN [code |-> "MOVE", player |-> page[p].player, message |-> c]
                      ELSE [code |-> "MOVE_INCOMPLETE"]
  <2>0. page[p] \in PageStates
    BY DEF TypeOK
  <2>1. frame \in PageFrames
    BY <2>0 DEF PageFrames, PageStates
  <2>2. c2s' \in [Pages -> Seq(PageFrames)]
    BY <1>8, <2>1, SocketSendType DEF handleMove
  <2>3. [page[p].view EXCEPT ![c] = MarkOf(page[p], c)] \in Boards
    BY <2>0 DEF MarkOf, PageStates, Boards
  <2>4. Clicked(page[p], c) \in PageStates
    BY <2>0, <2>3 DEF Clicked, PageStates
  <2> QED
    BY <1>8, <2>2, <2>4 DEF handleMove, TypeOK
<1> QED
  BY <1>1, <1>2, <1>3, <1>4, <1>5, <1>6, <1>7, <1>8 DEF PageNext
-----------------------------------------------------------------------------
(***************************************************************************)
(* The server's handlers keep the types.                                   *)
(***************************************************************************)
(* An open descriptor has a Client, and its page. *)
LEMMA ClientType ==
  ASSUME TypeOK, NEW fd \in Fds, IsOpen(fd)
  PROVE  client[fd] \in ClientStates /\ client[fd].page \in Pages
BY DEF TypeOK, IsOpen, ClientStates

LEMMA MatchType ==
  ASSUME TypeOK, NEW a, Live(a)
  PROVE  a \in Addrs /\ heap[a] \in MatchStates
BY DEF TypeOK, Live

(* A slot is the id of a match: the table is no larger than the id bound. *)
LEMMA SlotType ==
  /\ Slots \subseteq MatchIds
  /\ \A i \in Slots : i \in Nat
BY ServerAssumption DEF Slots, MatchIds

LEMMA SeatedType ==
  ASSUME NEW c \in ClientStates, NEW a \in Addrs, NEW id \in MatchIds, NEW mark \in Marks
  PROVE  Seated(c, a, id, mark) \in ClientStates
BY DEF Seated, ClientStates

LEMMA AcceptType ==
  ASSUME TypeOK, NEW p \in Pages, Accept(p), UNCHANGED pageVars
  PROVE  TypeOK'
<1>1. createClient(p) \in ClientStates
  BY DEF createClient, ClientStates
<1>2. client' \in [Fds -> ClientStates \cup {NoClient}]
  BY <1>1 DEF Accept, TypeOK
<1>3. link' \in [Pages -> Links]
  BY DEF Accept, TypeOK, Links
<1> QED
  BY <1>2, <1>3 DEF Accept, TypeOK, pageVars

LEMMA PeerGoneType ==
  ASSUME TypeOK, NEW fd \in Fds, PeerGone(fd), UNCHANGED pageVars
  PROVE  TypeOK'
<1>1. IsOpen(fd) /\ close_connection(fd, client, link)
  BY DEF PeerGone
<1>2. link \in [Pages -> Links]
  BY DEF TypeOK
<1> QED
  BY <1>1, <1>2, CloseType DEF PeerGone, TypeOK, pageVars, ClientTables

LEMMA HandshakeType ==
  ASSUME TypeOK, NEW fd \in Fds, Handshake(fd), UNCHANGED pageVars
  PROVE  TypeOK'
<1> DEFINE p == client[fd].page
<1>1. IsOpen(fd)
  BY DEF Handshake
<1>2. p \in Pages /\ client[fd] \in ClientStates
  BY <1>1, ClientType
<1>3. Len(c2s[p]) \in Nat
  BY <1>2, LenProperties DEF TypeOK
<1>4. PICK n \in (IF c2s[p] = <<>> THEN {0} ELSE 1 .. Len(c2s[p])) :
        LET got  == SubSeq(c2s[p], 1, n)
            rest == [c2s EXCEPT ![p] = SubSeq(@, n + 1, Len(@))]
        IN  \/ /\ Upgrade(got)
               /\ \E t \in send(Trace, p, [code |-> "OPEN"]) : Sent(t)
               /\ client' = [client EXCEPT ![fd].handshake = TRUE]
               /\ c2s' = rest
            \/ /\ Partial(got)
               /\ c2s' = rest
               /\ UNCHANGED <<client, link, s2c>>
            \/ /\ ~Upgrade(got)
               /\ \E t \in send(Trace, p, [code |-> "REJECT"]) :
                    s2c' = t.s2c /\ close_connection(fd, client, t.link)
  BY DEF Handshake
<1> DEFINE got  == SubSeq(c2s[p], 1, n)
           rest == [c2s EXCEPT ![p] = SubSeq(@, n + 1, Len(@))]
<1>5. rest \in [Pages -> Seq(PageFrames)]
  <2>1. n \in Nat
    BY <1>3, <1>4
  <2> QED
    BY <1>2, <2>1, RestType
<1>6. /\ send(Trace, p, [code |-> "OPEN"]) \subseteq Traces
      /\ send(Trace, p, [code |-> "REJECT"]) \subseteq Traces
  BY <1>2, TraceType, SendType DEF ServerFrames
<1>7. UNCHANGED <<up, match_id, matches, heap, fault, outcome, page, creates>>
  BY DEF Handshake, pageVars
<1>8. ASSUME client' \in ClientTables, link' \in [Pages -> Links],
             s2c' \in [Pages -> Seq(ServerFrames)], c2s' \in [Pages -> Seq(PageFrames)]
      PROVE  TypeOK'
  BY <1>7, <1>8 DEF TypeOK, ClientTables
<1>a. CASE /\ Upgrade(got)
           /\ \E t \in send(Trace, p, [code |-> "OPEN"]) : Sent(t)
           /\ client' = [client EXCEPT ![fd].handshake = TRUE]
           /\ c2s' = rest
  <2>1. [client[fd] EXCEPT !.handshake = TRUE] \in ClientStates
    BY <1>2 DEF ClientStates
  <2>2. client' \in ClientTables
    BY <1>a, <2>1 DEF ClientTables, TypeOK
  <2>3. link' \in [Pages -> Links] /\ s2c' \in [Pages -> Seq(ServerFrames)]
    BY <1>a, <1>6, SentType DEF Sent
  <2> QED
    BY <1>a, <1>5, <1>8, <2>2, <2>3
<1>b. CASE /\ Partial(got)
           /\ c2s' = rest
           /\ UNCHANGED <<client, link, s2c>>
  BY <1>b, <1>5, <1>8 DEF TypeOK, ClientTables
<1>c. CASE /\ ~Upgrade(got)
           /\ \E t \in send(Trace, p, [code |-> "REJECT"]) :
                s2c' = t.s2c /\ close_connection(fd, client, t.link)
  <2>1. PICK t \in Traces : s2c' = t.s2c /\ close_connection(fd, client, t.link)
    BY <1>c, <1>6
  <2>2. t.link \in [Pages -> Links] /\ t.s2c \in [Pages -> Seq(ServerFrames)]
    BY SentType
  <2>3. /\ client' \in ClientTables /\ link' \in [Pages -> Links]
        /\ c2s' \in [Pages -> Seq(PageFrames)]
    BY <1>1, <2>1, <2>2, CloseType
  <2> QED
    BY <1>8, <2>1, <2>2, <2>3
<1> QED
  BY <1>4, <1>a, <1>b, <1>c

LEMMA CreateMatchType ==
  ASSUME TypeOK, NEW fd \in Fds, create_match(fd), UNCHANGED pageVars
  PROVE  TypeOK'
<1>1. IsOpen(fd) /\ match_id < MaxIds
  BY DEF create_match, Receive
<1>2. client[fd].page \in Pages /\ client[fd] \in ClientStates
  BY <1>1, ClientType
<1>3. match_id \in MatchIds /\ match_id + 1 \in 0 .. MaxIds
  <2>1. match_id \in 0 .. MaxIds
    BY DEF TypeOK
  <2> QED
    BY <1>1, <2>1, ServerAssumption DEF MatchIds
<1>4. CASE /\ \E a \in Addrs :
                LET clients == [client EXCEPT ![fd] = Seated(@, a, match_id, "X")]
                IN  /\ Allocatable(a)
                    /\ heap' = [heap EXCEPT ![a] = [createMatch(fd, match_id) EXCEPT !.players = 1]]
                    /\ matches' = Store(match_id, a)
                    /\ match_id' = match_id + 1
                    /\ fault' = IF match_id \in Slots THEN fault ELSE Noting("undefined")
                    /\ client' = clients
                    /\ \E t \in send(Trace, client[fd].page,
                                     [code |-> "MATCH_CREATED", mid |-> match_id]) : Sent(t)
           /\ Received(fd)
           /\ UNCHANGED <<up, outcome>>
  <2>1. PICK a \in Addrs :
          /\ heap' = [heap EXCEPT ![a] = [createMatch(fd, match_id) EXCEPT !.players = 1]]
          /\ matches' = Store(match_id, a)
          /\ match_id' = match_id + 1
          /\ fault' = IF match_id \in Slots THEN fault ELSE Noting("undefined")
          /\ client' = [client EXCEPT ![fd] = Seated(@, a, match_id, "X")]
          /\ \E t \in send(Trace, client[fd].page,
                           [code |-> "MATCH_CREATED", mid |-> match_id]) : Sent(t)
    BY <1>4
  <2>2. [code |-> "MATCH_CREATED", mid |-> match_id] \in ServerFrames
    BY <1>3 DEF ServerFrames
  <2>3. link' \in [Pages -> Links] /\ s2c' \in [Pages -> Seq(ServerFrames)]
    BY <1>2, <2>1, <2>2, TraceType, SendType, SentType DEF Sent
  <2>4. c2s' \in [Pages -> Seq(PageFrames)]
    BY <1>1, <1>4, ReceivedType
  <2>5. heap' \in [Addrs -> MatchStates \cup {Free}]
    <3>1. EmptyBoard \in Boards
      BY DEF EmptyBoard, Boards
    <3>2. [createMatch(fd, match_id) EXCEPT !.players = 1] \in MatchStates
      BY <1>3, <3>1 DEF createMatch, MatchStates
    <3> QED
      BY <2>1, <3>2 DEF TypeOK
  <2>6. matches' \in [Slots -> Addrs \cup {NULL}]
    BY <2>1 DEF Store, TypeOK
  <2>7. client' \in [Fds -> ClientStates \cup {NoClient}]
    <3>1. Seated(client[fd], a, match_id, "X") \in ClientStates
      BY <1>2, <1>3, SeatedType DEF Marks
    <3> QED
      BY <2>1, <3>1 DEF TypeOK
  <2>8. fault' \in Faults
    BY <2>1, NotingType DEF TypeOK, Faults
  <2> QED
    BY <1>3, <1>4, <2>1, <2>3, <2>4, <2>5, <2>6, <2>7, <2>8 DEF TypeOK, pageVars
<1>5. CASE match_id \notin Slots /\ fault' = Noting("undefined") /\ Die(Trace)
  <2>1. fault' \in Faults
    BY <1>5, NotingType DEF Faults
  <2> QED
    BY <1>5, <2>1, TraceType, DieType
<1> QED
  BY <1>4, <1>5 DEF create_match

(* The traces of the sends of JOIN_MATCH, MOVE and a Close frame. *)
LEMMA JoinTraces ==
  ASSUME TypeOK, NEW fd \in Fds, IsOpen(fd), NEW id \in Slots, NEW a \in Addrs, Live(a)
  PROVE  LET clients == [client EXCEPT ![fd] = Seated(@, a, id, "O")]
             joined == send(Trace, client[fd].page, [code |-> "MATCH_JOINED", mid |-> id])
             toX == ThenSend(joined, clients, a, "X", heap[a].playerX, InitBoard)
             toO == ThenSend(toX, clients, a, "O", fd, InitBoard)
         IN  clients \in ClientTables /\ toO \in SUBSET Traces
<1> DEFINE clients == [client EXCEPT ![fd] = Seated(@, a, id, "O")]
           joined == send(Trace, client[fd].page, [code |-> "MATCH_JOINED", mid |-> id])
           toX == ThenSend(joined, clients, a, "X", heap[a].playerX, InitBoard)
           toO == ThenSend(toX, clients, a, "O", fd, InitBoard)
<1>1. id \in MatchIds
  BY SlotType
<1>2. clients \in ClientTables
  <2>1. Seated(client[fd], a, id, "O") \in ClientStates
    BY <1>1, ClientType, SeatedType DEF Marks
  <2> QED
    BY <2>1 DEF TypeOK, ClientTables
<1>3. [code |-> "MATCH_JOINED", mid |-> id] \in ServerFrames /\ InitBoard \in ServerFrames
  BY <1>1 DEF ServerFrames, InitBoard
<1>4. joined \in SUBSET Traces
  BY <1>3, TraceType, SendType, ClientType
<1> HIDE DEF clients, joined
<1>5. toX \in SUBSET Traces
  BY <1>2, <1>3, <1>4, ThenSendType
<1> HIDE DEF toX
<1>6. toO \in SUBSET Traces
  BY <1>2, <1>3, <1>5, ThenSendType
<1> QED
  BY <1>2, <1>6 DEF clients, joined, toX

LEMMA GameOverType ==
  ASSUME NEW text \in Marks \cup {"draw", "left"}
  PROVE  GameOver(text) \in ServerFrames
BY DEF GameOver, ServerFrames

LEMMA MoveTraces ==
  ASSUME TypeOK, NEW a, Live(a), NEW m \in [code : {"MOVE"}, player : Marks, message : Cells],
         NEW receiver, NEW board
  PROVE  LET relayed == ThenSend({Trace}, client, a, Other(m.player), receiver, m)
             toX == ThenSend(relayed, client, a, "X", heap[a].playerX, GameOver(Verdict(board)))
             toO == ThenSend(toX, client, a, "O", heap[a].playerO, GameOver(Verdict(board)))
         IN  relayed \in SUBSET Traces /\ toO \in SUBSET Traces
<1> DEFINE relayed == ThenSend({Trace}, client, a, Other(m.player), receiver, m)
           toX == ThenSend(relayed, client, a, "X", heap[a].playerX, GameOver(Verdict(board)))
           toO == ThenSend(toX, client, a, "O", heap[a].playerO, GameOver(Verdict(board)))
<1>1. client \in ClientTables
  BY DEF TypeOK, ClientTables
<1>2. m \in ServerFrames
  BY DEF ServerFrames
<1>3. GameOver(Verdict(board)) \in ServerFrames
  BY VerdictType, GameOverType
<1>4. relayed \in SUBSET Traces
  BY <1>1, <1>2, TraceType, ThenSendType
<1> HIDE DEF relayed
<1>5. toX \in SUBSET Traces
  BY <1>1, <1>3, <1>4, ThenSendType
<1> HIDE DEF toX
<1>6. toO \in SUBSET Traces
  BY <1>1, <1>3, <1>5, ThenSendType
<1> QED
  BY <1>4, <1>6 DEF relayed, toX

LEMMA SecondPlayerType ==
  ASSUME NEW match \in MatchStates, match.players = 1, NEW fd \in Fds
  PROVE  SecondPlayer(match, fd) \in MatchStates
<1> DEFINE n == match.players + 1
<1>1. n \in {1, 2}
  OBVIOUS
<1> HIDE DEF n
<1>2. [match EXCEPT !.playerO = fd, !.players = n] \in MatchStates
  BY <1>1 DEF MatchStates
<1> QED
  BY <1>2 DEF SecondPlayer, n

LEMMA MarkedType ==
  ASSUME NEW match \in MatchStates, NEW board \in Boards
  PROVE  Marked(match, board) \in MatchStates
<1> DEFINE n == match.moves + 1
<1>1. n \in Nat
  BY DEF MatchStates
<1> HIDE DEF n
<1>2. [match EXCEPT !.board = board, !.moves = n] \in MatchStates
  BY <1>1 DEF MatchStates
<1> QED
  BY <1>2 DEF Marked, n

LEMMA JoinMatchType ==
  ASSUME TypeOK, NEW fd \in Fds, NEW id \in Slots, join_match(fd, id),
         UNCHANGED pageVars
  PROVE  TypeOK'
<1> DEFINE a == matches[id]
           clients == [client EXCEPT ![fd] = Seated(@, a, id, "O")]
           joined == send(Trace, client[fd].page, [code |-> "MATCH_JOINED", mid |-> id])
           toX == ThenSend(joined, clients, a, "X", heap[a].playerX, InitBoard)
           toO == ThenSend(toX, clients, a, "O", fd, InitBoard)
<1>1. IsOpen(fd)
  BY DEF join_match, Receive
<1>2. CASE /\ Joinable(id)
           /\ \E t \in toO :
                /\ StrayFault(t)
                /\ \/ KilledBySIGPIPE(t)
                   \/ /\ Survives(t) /\ Sent(t) /\ Received(fd)
                      /\ heap' = [heap EXCEPT ![a] = SecondPlayer(@, fd)]
                      /\ client' = clients
                      /\ UNCHANGED <<up, match_id, matches, outcome>>
  <2>1. a \in Addrs /\ Live(a)
    BY <1>2 DEF Joinable, Live
  <2>2. clients \in ClientTables /\ toO \in SUBSET Traces
    BY <1>1, <2>1, JoinTraces
  <2>3. PICK t \in Traces :
          /\ StrayFault(t)
          /\ \/ KilledBySIGPIPE(t)
             \/ /\ Survives(t) /\ Sent(t) /\ Received(fd)
                /\ heap' = [heap EXCEPT ![a] = SecondPlayer(@, fd)]
                /\ client' = clients
                /\ UNCHANGED <<up, match_id, matches, outcome>>
    <3> HIDE DEF toO, clients
    <3> QED
      BY <1>2, <2>2
  <2>4. fault' \in Faults
    BY <2>3, NotingType DEF StrayFault, TypeOK, Faults
  <2>5. CASE KilledBySIGPIPE(t)
    BY <2>4, <2>5, DieType DEF KilledBySIGPIPE
  <2>6. CASE /\ Survives(t) /\ Sent(t) /\ Received(fd)
             /\ heap' = [heap EXCEPT ![a] = SecondPlayer(@, fd)]
             /\ client' = clients
             /\ UNCHANGED <<up, match_id, matches, outcome>>
    <3>1. heap[a] \in MatchStates /\ heap[a].players = 1
      <4>1. heap[a] \in MatchStates
        BY <2>1, MatchType
      <4>2. heap[a].players # 2
        BY <1>2 DEF Joinable
      <4> QED
        BY <4>1, <4>2 DEF MatchStates
    <3>2. SecondPlayer(heap[a], fd) \in MatchStates
      BY <3>1, SecondPlayerType
    <3>3. heap' \in [Addrs -> MatchStates \cup {Free}]
      BY <2>1, <2>6, <3>2 DEF TypeOK
    <3>4. c2s' \in [Pages -> Seq(PageFrames)]
      BY <1>1, <2>6, ReceivedType
    <3>5. link' \in [Pages -> Links] /\ s2c' \in [Pages -> Seq(ServerFrames)]
      BY <2>6, SentType DEF Sent
    <3> QED
      BY <2>2, <2>4, <2>6, <3>3, <3>4, <3>5 DEF TypeOK, ClientTables, pageVars
  <2> QED
    BY <2>3, <2>5, <2>6
<1>3. CASE /\ ~Joinable(id)
           /\ \E t \in send(Trace, client[fd].page, [code |-> "MATCH_JOIN_FAILED"]) : Sent(t)
           /\ Received(fd)
           /\ UNCHANGED <<up, match_id, matches, heap, client, fault, outcome>>
  <2>1. [code |-> "MATCH_JOIN_FAILED"] \in ServerFrames
    BY DEF ServerFrames
  <2>2. link' \in [Pages -> Links] /\ s2c' \in [Pages -> Seq(ServerFrames)]
    BY <1>1, <1>3, <2>1, ClientType, TraceType, SendType, SentType DEF Sent
  <2>3. c2s' \in [Pages -> Seq(PageFrames)]
    BY <1>1, <1>3, ReceivedType
  <2> QED
    BY <1>3, <2>2, <2>3 DEF TypeOK, pageVars
<1> QED
  BY <1>2, <1>3 DEF join_match

LEMMA RecordType ==
  ASSUME TypeOK, NEW id \in MatchIds, NEW how \in Marks \cup {"draw", "left"}, Record(id, how)
  PROVE  outcome' \in [MatchIds -> Marks \cup {"", "draw", "left"}]
BY DEF Record, TypeOK

LEMMA ForgetType ==
  ASSUME TypeOK, NEW a \in Addrs, Forget(a)
  PROVE  /\ heap' \in [Addrs -> MatchStates \cup {Free}]
         /\ matches' \in [Slots -> Addrs \cup {NULL}]
BY DEF Forget, TypeOK

LEMMA PtrFaultType ==
  ASSUME TypeOK, NEW c, NEW t, PtrFault(c, t)
  PROVE  fault' \in Faults
BY NotingType DEF PtrFault, TypeOK, Faults

LEMMA MoveType ==
  ASSUME TypeOK, NEW fd \in Fds, NEW m \in [code : {"MOVE"}, player : Marks, message : Cells],
         move(fd, m), UNCHANGED pageVars
  PROVE  TypeOK'
<1> DEFINE c == client[fd]
           a == c.currentMatch
           match == heap[a]
           receiver == IF m.player = "X" THEN match.playerO ELSE match.playerX
           board == [match.board EXCEPT ![m.message] = m.player]
           decided == Decided(board, match.moves + 1)
           relayed == ThenSend({Trace}, client, a, Other(m.player), receiver, m)
           toX == ThenSend(relayed, client, a, "X", match.playerX, GameOver(Verdict(board)))
           toO == ThenSend(toX, client, a, "O", match.playerO, GameOver(Verdict(board)))
           Mark == heap' = [heap EXCEPT ![a] = Marked(@, board)] /\ UNCHANGED matches
<1>1. IsOpen(fd) /\ Live(a)
  BY DEF move, Receive
<1>2. a \in Addrs /\ match \in MatchStates
  BY <1>1, MatchType
<1>3. board \in Boards
  BY <1>2, MarkedBoard DEF MatchStates
<1>4. relayed \in SUBSET Traces /\ toO \in SUBSET Traces
  BY <1>1, MoveTraces
<1>5. PICK t \in (IF decided THEN toO ELSE relayed) :
        /\ PtrFault(c, t)
        /\ \/ KilledBySIGPIPE(t)
           \/ /\ Survives(t) /\ Sent(t) /\ Received(fd)
              /\ \/ t.sent = 0 /\ UNCHANGED <<heap, matches, outcome>>
                 \/ t.sent > 0 /\ ~decided /\ Mark /\ UNCHANGED outcome
                 \/ /\ t.sent > 0 /\ decided
                    /\ IF t.last = "ok" THEN Forget(a) ELSE Mark
                    /\ Record(match.matchID, Verdict(board))
              /\ UNCHANGED <<up, match_id, client>>
  BY DEF move
<1>6. t \in Traces
  BY <1>4, <1>5
<1>7. fault' \in Faults
  BY <1>5, PtrFaultType
<1>8. CASE KilledBySIGPIPE(t)
  BY <1>6, <1>7, <1>8, DieType DEF KilledBySIGPIPE
<1>9. CASE ~KilledBySIGPIPE(t)
  <2>1. link' \in [Pages -> Links] /\ s2c' \in [Pages -> Seq(ServerFrames)]
    BY <1>5, <1>6, <1>9, SentType DEF Sent
  <2>2. c2s' \in [Pages -> Seq(PageFrames)]
    BY <1>1, <1>5, <1>9, ReceivedType
  <2>3. Mark => heap' \in [Addrs -> MatchStates \cup {Free}] /\ matches' = matches
    <3>1. Marked(match, board) \in MatchStates
      BY <1>2, <1>3, MarkedType
    <3> QED
      BY <1>2, <3>1 DEF TypeOK
  <2>4. Record(match.matchID, Verdict(board))
          => outcome' \in [MatchIds -> Marks \cup {"", "draw", "left"}]
    <3>1. match.matchID \in MatchIds
      BY <1>2 DEF MatchStates
    <3>2. Verdict(board) \in Marks \cup {"draw", "left"}
      BY VerdictType
    <3> HIDE DEF match, board
    <3> QED
      BY <3>1, <3>2, RecordType
  <2>5. /\ heap' \in [Addrs -> MatchStates \cup {Free}]
        /\ matches' \in [Slots -> Addrs \cup {NULL}]
        /\ outcome' \in [MatchIds -> Marks \cup {"", "draw", "left"}]
    <3> HIDE DEF decided, Mark
    <3>1. CASE UNCHANGED <<heap, matches, outcome>>
      BY <3>1 DEF TypeOK
    <3>2. CASE Mark /\ UNCHANGED outcome
      BY <2>3, <3>2 DEF TypeOK
    <3>3. CASE (IF t.last = "ok" THEN Forget(a) ELSE Mark) /\ Record(match.matchID, Verdict(board))
      <4>1. CASE Forget(a)
        BY <1>2, <2>4, <3>3, <4>1, ForgetType
      <4>2. CASE Mark
        BY <2>3, <2>4, <3>3, <4>2 DEF TypeOK
      <4> QED
        BY <3>3, <4>1, <4>2
    <3> QED
      BY <1>5, <1>9, <3>1, <3>2, <3>3
  <2> QED
    BY <1>5, <1>7, <1>9, <2>1, <2>2, <2>5 DEF TypeOK, pageVars
<1> QED
  BY <1>8, <1>9

LEMMA CloseFrameType ==
  ASSUME TypeOK, NEW fd \in Fds, close_frame(fd), UNCHANGED pageVars
  PROVE  TypeOK'
<1> DEFINE c == client[fd]
           a == c.currentMatch
<1>1. IsOpen(fd) /\ ~Dangling(c)
  BY DEF close_frame, Receive
<1>2. a # NULL => Live(a)
  BY <1>1 DEF Dangling
<1>3. {Trace} \in SUBSET Traces /\ (a # NULL => PeerCloseSends(fd, a) \in SUBSET Traces)
  <2>1. client \in ClientTables
    BY DEF TypeOK, ClientTables
  <2>2. GameOver("left") \in ServerFrames
    BY GameOverType
  <2>3. {Trace} \in SUBSET Traces
    BY TraceType
  <2> QED
    BY <2>1, <2>2, <2>3, ThenSendType DEF PeerCloseSends
<1>4. PICK t \in (IF a = NULL THEN {Trace} ELSE PeerCloseSends(fd, a)) :
        /\ PtrFault(c, t)
        /\ \/ KilledBySIGPIPE(t)
           \/ /\ Survives(t)
              /\ IF a = NULL THEN UNCHANGED <<heap, matches, outcome>> ELSE PeerCloseFrees(a)
              /\ s2c' = t.s2c
              /\ close_connection(fd, client, t.link)
              /\ UNCHANGED <<up, match_id>>
  BY DEF close_frame
<1>5. t \in Traces
  BY <1>3, <1>4
<1>6. fault' \in Faults
  BY <1>4, PtrFaultType
<1>7. CASE KilledBySIGPIPE(t)
  BY <1>5, <1>6, <1>7, DieType DEF KilledBySIGPIPE
<1>8. CASE ~KilledBySIGPIPE(t)
  <2>1. t.link \in [Pages -> Links] /\ t.s2c \in [Pages -> Seq(ServerFrames)]
    BY <1>5, SentType
  <2>2. /\ client' \in ClientTables /\ link' \in [Pages -> Links]
        /\ c2s' \in [Pages -> Seq(PageFrames)]
    BY <1>1, <1>4, <1>8, <2>1, CloseType
  <2>3. /\ heap' \in [Addrs -> MatchStates \cup {Free}]
        /\ matches' \in [Slots -> Addrs \cup {NULL}]
        /\ outcome' \in [MatchIds -> Marks \cup {"", "draw", "left"}]
    <3>1. CASE UNCHANGED <<heap, matches, outcome>>
      BY <3>1 DEF TypeOK
    <3>2. CASE a # NULL /\ Forget(a) /\ Record(heap[a].matchID, "left")
      <4>1. a \in Addrs /\ heap[a].matchID \in MatchIds
        BY <1>2, <3>2, MatchType DEF MatchStates
      <4>2. outcome' \in [MatchIds -> Marks \cup {"", "draw", "left"}]
        BY <3>2, <4>1, RecordType
      <4> QED
        BY <3>2, <4>1, <4>2, ForgetType
    <3> QED
      BY <1>4, <1>8, <3>1, <3>2 DEF PeerCloseFrees
  <2> QED
    BY <1>4, <1>6, <1>8, <2>1, <2>2, <2>3 DEF TypeOK, ClientTables, pageVars
<1> QED
  BY <1>7, <1>8

(* Frames sent to any descriptor. *)
LEMMA MisdirectedType ==
  ASSUME TypeOK, NEW ts \in SUBSET Traces, NEW frame \in ServerFrames
  PROVE  Misdirected(ts, frame) \in SUBSET Traces
<1>1. client \in ClientTables
  BY DEF TypeOK, ClientTables
<1>2. \A to \in Fds \cup {NoFd} :
         ThenSend(ts, client, NULL, Blank, to, frame) \in SUBSET Traces
  BY <1>1, ThenSendType
<1> QED
  BY <1>2, Zenon DEF Misdirected

LEMMA StaleSendsType ==
  ASSUME TypeOK, NEW m \in PageFrames, m.code \in {"MOVE", "CLOSE"}
  PROVE  StaleSends(m) \in SUBSET Traces
<1>1. {Trace} \in SUBSET Traces
  BY TraceType
<1>2. \A text \in Marks \cup {"draw", "left"} : GameOver(text) \in ServerFrames
  BY DEF GameOver, ServerFrames
<1>3. CASE m.code = "CLOSE"
  <2>1. Misdirected({Trace}, GameOver("left")) \in SUBSET Traces
    BY <1>1, <1>2, MisdirectedType
  <2> QED
    BY <1>1, <1>3, <2>1 DEF StaleSends
<1>4. CASE m.code = "MOVE"
  <2>1. m \in ServerFrames
    BY <1>4 DEF PageFrames, ServerFrames
  <2>2. PICK relayed \in SUBSET Traces : relayed = Misdirected({Trace}, m)
    BY <1>1, <2>1, MisdirectedType
  <2>3. \A text \in Marks \cup {"draw"} :
           Misdirected(Misdirected(relayed, GameOver(text)), GameOver(text)) \in SUBSET Traces
    BY <1>2, MisdirectedType
  <2>4. StaleVerdicts(relayed) \in SUBSET Traces
    BY <2>3 DEF StaleVerdicts
  <2>5. StaleSends(m) = relayed \cup StaleVerdicts(relayed)
    BY <1>4, <2>2 DEF StaleSends
  <2> QED
    BY <2>4, <2>5
<1> QED
  BY <1>3, <1>4

LEMMA UndefinedType ==
  ASSUME TypeOK, NEW fd \in Fds, undefined_behaviour(fd), UNCHANGED pageVars
  PROVE  TypeOK'
<1> DEFINE p == client[fd].page
           m == Head(c2s[p])
<1>1. IsOpen(fd)
  BY DEF undefined_behaviour
<1>2. fault' \in Faults
  BY NotingType DEF undefined_behaviour, Faults
<1>3. CASE Die(Trace)
  BY <1>2, <1>3, TraceType, DieType
<1>4. CASE m.code \in {"MOVE", "CLOSE"} /\ stale_match(fd, m)
  <2>1. m \in PageFrames
    <3>1. c2s[p] \in Seq(PageFrames) /\ c2s[p] # <<>>
      BY <1>1, ClientType DEF undefined_behaviour, TypeOK
    <3> QED
      BY <3>1, HeadTailProperties
  <2> HIDE DEF m
  <2>2. PICK t \in Traces :
          \/ Die(t)
          \/ /\ Survives(t)
             /\ matches' \in (IF StaleFrees(m, t) THEN Emptied ELSE {matches})
             /\ s2c' = t.s2c
             /\ \/ m.code = "CLOSE" /\ close_connection(fd, client, t.link)
                \/ m.code = "MOVE" /\ link' = t.link /\ Received(fd) /\ UNCHANGED client
             /\ UNCHANGED <<up, match_id, heap, outcome>>
    BY <1>4, <2>1, StaleSendsType DEF stale_match
  <2>3. CASE Die(t)
    BY <1>2, <2>3, DieType
  <2>4. CASE /\ matches' \in (IF StaleFrees(m, t) THEN Emptied ELSE {matches})
             /\ s2c' = t.s2c
             /\ \/ m.code = "CLOSE" /\ close_connection(fd, client, t.link)
                \/ m.code = "MOVE" /\ link' = t.link /\ Received(fd) /\ UNCHANGED client
             /\ UNCHANGED <<up, match_id, heap, outcome>>
    <3>1. matches' \in [Slots -> Addrs \cup {NULL}]
      BY <2>4 DEF Emptied, TypeOK
    <3>2. t.link \in [Pages -> Links] /\ t.s2c \in [Pages -> Seq(ServerFrames)]
      BY SentType
    <3>3. /\ client' \in ClientTables /\ link' \in [Pages -> Links]
          /\ c2s' \in [Pages -> Seq(PageFrames)]
      <4>1. CASE close_connection(fd, client, t.link)
        BY <1>1, <3>2, <4>1, CloseType
      <4>2. CASE link' = t.link /\ Received(fd) /\ UNCHANGED client
        BY <1>1, <3>2, <4>2, ReceivedType DEF TypeOK, ClientTables
      <4> QED
        BY <2>4, <4>1, <4>2
    <3> QED
      BY <1>2, <2>4, <3>1, <3>2, <3>3 DEF TypeOK, ClientTables, pageVars
  <2> QED
    BY <2>2, <2>3, <2>4
<1> QED
  BY <1>3, <1>4 DEF undefined_behaviour
-----------------------------------------------------------------------------
(***************************************************************************)
(* The table of matches and the heap.  Four kinds of step touch them.      *)
(***************************************************************************)
Registry == <<matches, heap, match_id>>

LEMMA RegistryUnchanged ==
  ASSUME RegistryInOrder, UNCHANGED Registry
  PROVE  RegistryInOrder'
BY DEF RegistryInOrder, SlotsAreAllocated, MatchesAreRegistered, IdsAreHandedOut, Live,
       Registry

(* The process dies: the table and the heap are both empty. *)
LEMMA RegistryDies ==
  ASSUME NEW t, Die(t)
  PROVE  RegistryInOrder'
BY DEF Die, RegistryInOrder, SlotsAreAllocated, MatchesAreRegistered, IdsAreHandedOut, Live

(* A match record is overwritten in place and keeps its id. *)
LEMMA RegistryOverwrites ==
  ASSUME TypeOK, RegistryInOrder, NEW a, Live(a), NEW match \in MatchStates,
         match.matchID = heap[a].matchID, heap' = [heap EXCEPT ![a] = match],
         UNCHANGED <<matches, match_id>>
  PROVE  RegistryInOrder'
<1>1. a \in Addrs /\ match # Free
  <2>1. match.matchID # NoFd
    BY DEF MatchStates, MatchIds, NoFd
  <2> QED
    BY <2>1 DEF Live, Free
<1>2. \A b \in Addrs : Live(b)' = Live(b) /\ heap'[b].matchID = heap[b].matchID
  BY <1>1 DEF Live, TypeOK
<1>3. \A b : Live(b) => b \in Addrs
  BY DEF Live
<1>4. \A b : Live(b)' => b \in Addrs
  BY DEF Live
<1> QED
  BY <1>2, <1>3, <1>4 DEF RegistryInOrder, SlotsAreAllocated, MatchesAreRegistered,
                          IdsAreHandedOut

(* A match is freed: its slot, if it has one, is emptied in the same step. *)
LEMMA RegistryForgets ==
  ASSUME TypeOK, RegistryInOrder, NEW a, Live(a), Forget(a), match_id' = match_id
  PROVE  RegistryInOrder'
<1>1. a \in Addrs /\ heap' = [heap EXCEPT ![a] = Free]
  BY DEF Forget, Live
<1>2. \A b \in Addrs : b # a => (Live(b)' = Live(b) /\ heap'[b] = heap[b])
  BY <1>1 DEF Live, TypeOK
<1>3. ~Live(a)'
  BY <1>1 DEF Live, TypeOK
<1>4. \A i \in Slots : matches'[i] = IF i = heap[a].matchID THEN NULL ELSE matches[i]
  BY DEF Forget
<1>5. SlotsAreAllocated'
  <2> SUFFICES ASSUME NEW i \in Slots, matches'[i] # NULL
               PROVE  Live(matches[i])' /\ heap'[matches'[i]].matchID = i
    BY DEF SlotsAreAllocated, Live
  <2>1. i # heap[a].matchID /\ matches'[i] = matches[i]
    BY <1>4
  <2>2. Live(matches[i]) /\ heap[matches[i]].matchID = i
    BY <2>1 DEF RegistryInOrder, SlotsAreAllocated
  <2>3. matches[i] # a /\ matches[i] \in Addrs
    BY <2>1, <2>2 DEF Live
  <2> QED
    BY <1>2, <2>1, <2>2, <2>3 DEF Live
<1>6. MatchesAreRegistered'
  <2> SUFFICES ASSUME NEW b \in Addrs, Live(b)', heap'[b].matchID \in Slots
               PROVE  matches'[heap'[b].matchID] = b
    BY DEF MatchesAreRegistered, Slots
  <2>1. b # a
    BY <1>3
  <2>2. Live(b) /\ heap'[b] = heap[b]
    BY <1>2, <2>1
  <2>3. matches[heap[b].matchID] = b
    BY <2>2 DEF RegistryInOrder, MatchesAreRegistered
  <2>4. heap[b].matchID # heap[a].matchID
    <3> SUFFICES ASSUME heap[b].matchID = heap[a].matchID PROVE FALSE
      OBVIOUS
    <3>1. matches[heap[a].matchID] = a
      BY <2>2 DEF RegistryInOrder, MatchesAreRegistered, Live
    <3> QED
      BY <2>1, <2>3, <3>1
  <2> QED
    BY <1>4, <2>2, <2>3, <2>4
<1>7. IdsAreHandedOut'
  <2>1. \A b \in Addrs : Live(b)' => heap'[b].matchID < match_id'
    BY <1>2, <1>3 DEF RegistryInOrder, IdsAreHandedOut
  <2>2. \A i \in Slots : i >= match_id' => matches'[i] = NULL
    BY <1>4 DEF RegistryInOrder, IdsAreHandedOut
  <2> QED
    BY <2>1, <2>2 DEF IdsAreHandedOut, Live
<1> QED
  BY <1>5, <1>6, <1>7 DEF RegistryInOrder

(* A match is created: the id is fresh, so its slot was empty. *)
LEMMA RegistryCreates ==
  ASSUME TypeOK, RegistryInOrder, NEW a \in Addrs, ~Live(a), NEW match,
         match.matchID = match_id, match # Free,
         heap' = [heap EXCEPT ![a] = match],
         matches' = Store(match_id, a), match_id' = match_id + 1
  PROVE  RegistryInOrder'
<1>0. match_id \in Nat
  <2>1. match_id \in 0 .. MaxIds
    BY DEF TypeOK
  <2> QED
    BY <2>1, ServerAssumption
<1>1. \A b \in Addrs : b # a => (Live(b)' = Live(b) /\ heap'[b] = heap[b])
  BY DEF Live, TypeOK
<1>2. Live(a)' /\ heap'[a] = match
  BY DEF Live, TypeOK
<1>3. \A i \in Slots : matches'[i] = IF i = match_id THEN a ELSE matches[i]
  BY DEF Store
<1>4. \A b \in Addrs : Live(b) => heap[b].matchID < match_id
  BY DEF RegistryInOrder, IdsAreHandedOut
<1>5. SlotsAreAllocated'
  <2> SUFFICES ASSUME NEW i \in Slots, matches'[i] # NULL
               PROVE  Live(matches[i])' /\ heap'[matches'[i]].matchID = i
    BY DEF SlotsAreAllocated, Live
  <2>1. CASE i = match_id
    BY <1>2, <1>3, <2>1 DEF Live
  <2>2. CASE i # match_id
    <3>1. matches'[i] = matches[i]
      BY <1>3, <2>2
    <3>2. Live(matches[i]) /\ heap[matches[i]].matchID = i
      BY <3>1 DEF RegistryInOrder, SlotsAreAllocated
    <3>3. matches[i] # a /\ matches[i] \in Addrs
      BY <3>2 DEF Live
    <3> QED
      BY <1>1, <3>1, <3>2, <3>3 DEF Live
  <2> QED
    BY <2>1, <2>2
<1>6. MatchesAreRegistered'
  <2> SUFFICES ASSUME NEW b \in Addrs, Live(b)', heap'[b].matchID \in Slots
               PROVE  matches'[heap'[b].matchID] = b
    BY DEF MatchesAreRegistered, Slots
  <2>1. CASE b = a
    BY <1>2, <1>3, <2>1
  <2>2. CASE b # a
    <3>1. Live(b) /\ heap'[b] = heap[b]
      BY <1>1, <2>2
    <3>2. matches[heap[b].matchID] = b
      BY <3>1 DEF RegistryInOrder, MatchesAreRegistered
    <3>3. heap[b].matchID # match_id
      BY <1>0, <1>4, <3>1, SlotType
    <3> QED
      BY <1>3, <3>1, <3>2, <3>3
  <2> QED
    BY <2>1, <2>2
<1>7. IdsAreHandedOut'
  <2>1. \A b \in Addrs : Live(b)' => heap'[b].matchID < match_id'
    <3> SUFFICES ASSUME NEW b \in Addrs, Live(b)' PROVE heap'[b].matchID < match_id + 1
      OBVIOUS
    <3>1. CASE b = a
      BY <1>0, <1>2, <3>1
    <3>2. CASE b # a
      <4>1. Live(b) /\ heap'[b] = heap[b]
        BY <1>1, <3>2
      <4>2. heap[b].matchID \in Nat
        BY <4>1, MatchType DEF MatchStates, MatchIds
      <4> QED
        BY <1>0, <1>4, <4>1, <4>2
    <3> QED
      BY <3>1, <3>2
  <2>2. \A i \in Slots : i >= match_id' => matches'[i] = NULL
    <3> SUFFICES ASSUME NEW i \in Slots, i >= match_id + 1 PROVE matches'[i] = NULL
      OBVIOUS
    <3>1. i # match_id /\ i >= match_id
      BY <1>0, SlotType
    <3> QED
      BY <1>3, <3>1 DEF RegistryInOrder, IdsAreHandedOut
  <2> QED
    BY <2>1, <2>2 DEF IdsAreHandedOut, Live
<1> QED
  BY <1>5, <1>6, <1>7 DEF RegistryInOrder
-----------------------------------------------------------------------------
(***************************************************************************)
(* Each handler keeps the table and the heap in step.                      *)
(***************************************************************************)
LEMMA CreateMatchRegistry ==
  ASSUME TypeOK, RegistryInOrder, fault # "undefined", NEW fd \in Fds, create_match(fd)
  PROVE  RegistryInOrder'
<1>1. CASE \E t : Die(t)
  BY <1>1, RegistryDies
<1>2. CASE \E a \in Addrs :
             /\ ~Live(a)
             /\ heap' = [heap EXCEPT ![a] = [createMatch(fd, match_id) EXCEPT !.players = 1]]
             /\ matches' = Store(match_id, a)
             /\ match_id' = match_id + 1
  <2> DEFINE match == [createMatch(fd, match_id) EXCEPT !.players = 1]
  <2>1. match.matchID = match_id
    BY DEF createMatch
  <2>2. match # Free
    <3>1. match_id # NoFd
      <4>1. match_id \in 0 .. MaxIds
        BY DEF TypeOK
      <4> QED
        BY <4>1, ServerAssumption DEF NoFd
    <3> QED
      BY <2>1, <3>1 DEF Free
  <2> HIDE DEF match
  <2> QED
    BY <1>2, <2>1, <2>2, RegistryCreates DEF match
<1> QED
  BY <1>1, <1>2 DEF create_match, Allocatable

LEMMA JoinMatchRegistry ==
  ASSUME TypeOK, RegistryInOrder, NEW fd \in Fds, NEW id \in Slots, join_match(fd, id)
  PROVE  RegistryInOrder'
<1>1. CASE \E t : Die(t)
  BY <1>1, RegistryDies
<1>2. CASE UNCHANGED Registry
  BY <1>2, RegistryUnchanged
<1>3. CASE /\ Joinable(id)
           /\ heap' = [heap EXCEPT ![matches[id]] = SecondPlayer(@, fd)]
           /\ UNCHANGED <<matches, match_id>>
  <2>1. Live(matches[id])
    BY <1>3 DEF Joinable
  <2>2. heap[matches[id]] \in MatchStates /\ heap[matches[id]].players = 1
    <3>1. heap[matches[id]] \in MatchStates
      BY <2>1, MatchType
    <3>2. heap[matches[id]].players # 2
      BY <1>3 DEF Joinable
    <3> QED
      BY <3>1, <3>2 DEF MatchStates
  <2>3. /\ SecondPlayer(heap[matches[id]], fd) \in MatchStates
        /\ SecondPlayer(heap[matches[id]], fd).matchID = heap[matches[id]].matchID
    BY <2>2, SecondPlayerType DEF SecondPlayer, MatchStates
  <2> QED
    BY <1>3, <2>1, <2>3, RegistryOverwrites
<1> QED
  BY <1>1, <1>2, <1>3 DEF join_match, KilledBySIGPIPE, Registry

LEMMA MoveRegistry ==
  ASSUME TypeOK, RegistryInOrder, NEW fd \in Fds,
         NEW m \in [code : {"MOVE"}, player : Marks, message : Cells], move(fd, m)
  PROVE  RegistryInOrder'
<1> DEFINE a == client[fd].currentMatch
           board == [heap[a].board EXCEPT ![m.message] = m.player]
<1>1. Live(a)
  BY DEF move
<1>2. CASE \E t : Die(t)
  BY <1>2, RegistryDies
<1>3. CASE UNCHANGED Registry
  BY <1>3, RegistryUnchanged
<1>4. CASE /\ heap' = [heap EXCEPT ![a] = Marked(@, board)]
           /\ UNCHANGED <<matches, match_id>>
  <2>1. heap[a] \in MatchStates /\ board \in Boards
    <3>1. heap[a] \in MatchStates
      BY <1>1, MatchType
    <3> QED
      BY <3>1, MarkedBoard DEF MatchStates
  <2>2. /\ Marked(heap[a], board) \in MatchStates
        /\ Marked(heap[a], board).matchID = heap[a].matchID
    BY <2>1, MarkedType DEF Marked, MatchStates
  <2> QED
    BY <1>1, <1>4, <2>2, RegistryOverwrites
<1>5. CASE Forget(a) /\ match_id' = match_id
  BY <1>1, <1>5, RegistryForgets
<1> QED
  BY <1>2, <1>3, <1>4, <1>5 DEF move, KilledBySIGPIPE, Registry

LEMMA CloseFrameRegistry ==
  ASSUME TypeOK, RegistryInOrder, NEW fd \in Fds, close_frame(fd)
  PROVE  RegistryInOrder'
<1> DEFINE a == client[fd].currentMatch
<1>1. a # NULL => Live(a)
  BY DEF close_frame, Dangling
<1>2. CASE \E t : Die(t)
  BY <1>2, RegistryDies
<1>3. CASE UNCHANGED Registry
  BY <1>3, RegistryUnchanged
<1>4. CASE a # NULL /\ Forget(a) /\ match_id' = match_id
  BY <1>1, <1>4, RegistryForgets
<1> QED
  BY <1>2, <1>3, <1>4 DEF close_frame, PeerCloseFrees, KilledBySIGPIPE, Registry
-----------------------------------------------------------------------------
(***************************************************************************)
(* The inductive invariant: the table's soundness needs the types, and it  *)
(* is kept by every step that leaves the behaviour defined.                *)
(***************************************************************************)
IInv == TypeOK /\ RegistryMirrorsHeap

(* A fault that is undefined stays noted. *)
LEMMA UndefinedStays ==
  ASSUME ServerNext, fault' # "undefined"
  PROVE  fault # "undefined"
<1>1. \A p \in Pages : Accept(p) => fault' = fault
  BY DEF Accept
<1>2. \A fd \in Fds : handle(fd) => fault' = fault \/ \E what : fault' = Noting(what)
  <2> SUFFICES ASSUME NEW fd \in Fds, handle(fd)
               PROVE  fault' = fault \/ \E what : fault' = Noting(what)
    OBVIOUS
  <2>1. CASE PeerGone(fd) \/ Handshake(fd)
    BY <2>1 DEF PeerGone, Handshake
  <2>2. CASE create_match(fd)
    BY <2>2 DEF create_match
  <2>3. CASE \E id \in Slots : join_match(fd, id)
    <3>1. fault' = fault \/ \E t : StrayFault(t)
      BY <2>3 DEF join_match
    <3> QED
      BY <3>1 DEF StrayFault
  <2>4. CASE (\E m : move(fd, m)) \/ close_frame(fd)
    <3>1. \E t : PtrFault(client[fd], t)
      BY <2>4 DEF move, close_frame
    <3> QED
      BY <3>1 DEF PtrFault
  <2>5. CASE undefined_behaviour(fd)
    BY <2>5 DEF undefined_behaviour
  <2> QED
    BY <2>1, <2>2, <2>3, <2>4, <2>5 DEF handle
<1> QED
  BY <1>1, <1>2 DEF ServerNext, Noting

LEMMA InitIInv == Init => IInv
<1> SUFFICES ASSUME Init PROVE IInv
  OBVIOUS
<1>1. TypeOK
  <2>1. << >> \in Seq(PageFrames) /\ << >> \in Seq(ServerFrames)
    BY EmptySeq
  <2>2. 0 \in 0 .. MaxCreates /\ 0 \in 0 .. MaxIds
    BY PageAssumption, ServerAssumption
  <2>3. FreshPage \in PageStates
    BY FreshPageType
  <2> QED
    BY <2>1, <2>2, <2>3 DEF Init, SocketsInit, PageInit, ServerInit, TypeOK, Links, Faults
<1>2. RegistryMirrorsHeap
  BY DEF Init, ServerInit, RegistryMirrorsHeap, RegistryInOrder, SlotsAreAllocated, MatchesAreRegistered,
         IdsAreHandedOut, Live
<1> QED
  BY <1>1, <1>2 DEF IInv

LEMMA ServerType ==
  ASSUME TypeOK, ServerNext, UNCHANGED pageVars
  PROVE  TypeOK'
<1>1. ASSUME NEW p \in Pages, Accept(p) PROVE TypeOK'
  BY <1>1, AcceptType
<1>2. ASSUME NEW fd \in Fds, handle(fd) PROVE TypeOK'
  <2>1. CASE PeerGone(fd)
    BY <2>1, PeerGoneType
  <2>2. CASE Handshake(fd)
    BY <2>2, HandshakeType
  <2>3. CASE create_match(fd)
    BY <2>3, CreateMatchType
  <2>4. CASE \E id \in Slots : join_match(fd, id)
    BY <2>4, JoinMatchType
  <2>5. ASSUME NEW cell \in Cells, NEW mark \in Marks,
               move(fd, [code |-> "MOVE", player |-> mark, message |-> cell])
        PROVE  TypeOK'
    <3>1. [code |-> "MOVE", player |-> mark, message |-> cell]
            \in [code : {"MOVE"}, player : Marks, message : Cells]
      OBVIOUS
    <3> QED
      BY <2>5, <3>1, MoveType
  <2>6. CASE close_frame(fd)
    BY <2>6, CloseFrameType
  <2>7. CASE undefined_behaviour(fd)
    BY <2>7, UndefinedType
  <2> QED
    BY <1>2, <2>1, <2>2, <2>3, <2>4, <2>5, <2>6, <2>7 DEF handle
<1> QED
  BY <1>1, <1>2 DEF ServerNext

LEMMA ServerRegistry ==
  ASSUME TypeOK, RegistryInOrder, fault' # "undefined", ServerNext
  PROVE  RegistryInOrder'
<1>0. fault # "undefined"
  BY UndefinedStays
<1>1. ASSUME NEW p \in Pages, Accept(p) PROVE RegistryInOrder'
  BY <1>1, RegistryUnchanged DEF Accept, Registry
<1>2. ASSUME NEW fd \in Fds, handle(fd) PROVE RegistryInOrder'
  <2>1. CASE PeerGone(fd) \/ Handshake(fd)
    BY <2>1, RegistryUnchanged DEF PeerGone, Handshake, Registry
  <2>2. CASE create_match(fd)
    BY <1>0, <2>2, CreateMatchRegistry
  <2>3. CASE \E id \in Slots : join_match(fd, id)
    BY <2>3, JoinMatchRegistry
  <2>4. ASSUME NEW cell \in Cells, NEW mark \in Marks,
               move(fd, [code |-> "MOVE", player |-> mark, message |-> cell])
        PROVE  RegistryInOrder'
    <3>1. [code |-> "MOVE", player |-> mark, message |-> cell]
            \in [code : {"MOVE"}, player : Marks, message : Cells]
      OBVIOUS
    <3> QED
      BY <2>4, <3>1, MoveRegistry
  <2>5. CASE close_frame(fd)
    BY <2>5, CloseFrameRegistry
  <2>6. CASE undefined_behaviour(fd)
    BY <1>0, <2>6 DEF undefined_behaviour, Noting
  <2> QED
    BY <1>2, <2>1, <2>2, <2>3, <2>4, <2>5, <2>6 DEF handle
<1> QED
  BY <1>1, <1>2 DEF ServerNext

LEMMA NextIInv == IInv /\ [Next]_vars => IInv'
<1> SUFFICES ASSUME IInv, [Next]_vars PROVE IInv'
  OBVIOUS
<1>1. CASE PageNext /\ UNCHANGED serverVars
  <2>1. TypeOK'
    BY <1>1, PageType DEF IInv
  <2>2. RegistryMirrorsHeap'
    BY <1>1, RegistryUnchanged DEF IInv, RegistryMirrorsHeap, serverVars, Registry
  <2> QED
    BY <2>1, <2>2 DEF IInv
<1>2. CASE ServerNext /\ UNCHANGED pageVars
  <2>1. TypeOK'
    BY <1>2, ServerType DEF IInv
  <2>2. RegistryMirrorsHeap'
    BY <1>2, ServerRegistry, UndefinedStays DEF IInv, RegistryMirrorsHeap
  <2> QED
    BY <2>1, <2>2 DEF IInv
<1>3. CASE UNCHANGED vars
  <2>1. TypeOK'
    BY <1>3 DEF IInv, TypeOK, vars, netVars, pageVars, serverVars
  <2>2. RegistryMirrorsHeap'
    BY <1>3, RegistryUnchanged DEF IInv, RegistryMirrorsHeap, vars, serverVars, Registry
  <2> QED
    BY <2>1, <2>2 DEF IInv
<1> QED
  BY <1>1, <1>2, <1>3 DEF Next

(* Every step of the game keeps the table, the heap and the types sound.   *)
THEOREM Inductive == Spec => []IInv
<1> QED
  BY InitIInv, NextIInv, PTL DEF Spec

(* Types: in particular the bytes that reach a page always form one of the *)
(* server's frames, and a match's record is never half written.            *)
THEOREM TypeCorrect == Spec => []TypeOK
<1>1. IInv => TypeOK
  BY DEF IInv
<1> QED
  BY <1>1, Inductive, PTL

(* The table of matches points to no freed memory and loses no match       *)
(* (server.c 359-372, 463-464, 489-490) as long as no handler has used     *)
(* freed memory itself: closing and moving in every order, misdirected     *)
(* frames and stale pointers into a match that was allocated since do not  *)
(* break it, so the first use of freed memory is never JOIN_MATCH's.       *)
THEOREM RegistryIsSound == Spec => []RegistryMirrorsHeap
<1>1. IInv => RegistryMirrorsHeap
  BY DEF IInv
<1> QED
  BY <1>1, Inductive, PTL

LEMMA CalmRegistry ==
  ASSUME IInv, fault # "undefined"
  PROVE  TypeOK /\ RegistryInOrder
BY DEF IInv, RegistryMirrorsHeap
-----------------------------------------------------------------------------
(***************************************************************************)
(* A match in good order: an inductive invariant of the behaviours in      *)
(* which nothing stray or undefined has happened and the process lives.    *)
(*                                                                         *)
(* It is stated of one page at a time, by what the page shows (pg), what   *)
(* it has sent (cq) and what it has not read (sq), and of one match at a   *)
(* time.                                                                   *)
(***************************************************************************)
Calm == up /\ fault = "none"

Openers == {"UPGRADE", "HEAD", "TAIL", "GET"}
Asks    == {"CREATE_MATCH", "JOIN_MATCH"}
Tells   == {"MATCH_CREATED", "MATCH_JOINED"}
Refusals == {"OPEN", "MATCH_JOIN_FAILED"}
Ends    == Refusals \cup {"GAME_OVER"}
Plays   == {"MOVE", "INIT_BOARD"}
Starts(s) == IF s = "X" THEN Plays ELSE {"MOVE"}

(* Queues, by the frames that are in them and by which are last or alone.  *)
Queued(q) == {q[k] : k \in DOMAIN q}
Has(q, codes) == \E f \in Queued(q) : f.code \in codes
OnlyLast(q, codes) == \A k \in DOMAIN q : q[k].code \in codes => k = Len(q)
MovesOnce(q) ==
  \A j, k \in DOMAIN q : q[j].code = "MOVE" /\ q[k].code = "MOVE" => j = k
AskedLast(q) ==
  \A j, k \in DOMAIN q : q[j].code \in Asks /\ j < k => q[k].code = "CLOSE"

(* A page that is in the lobby, has asked for a match, or will be in the   *)
(* lobby once it has read its frames.                                      *)
Cleared(pg) == ~pg.turn /\ pg.view = EmptyBoard
Resting(pg, cq, sq) == pg.lobby \/ Has(cq, Asks) \/ Has(sq, Ends)

(* The lobby's buttons work only when nothing else is under way.           *)
Convo(pg, cq, sq) ==
  /\ pg.lobby => sq = <<>> /\ ~Has(cq, Asks) /\ Cleared(pg)
  /\ Has(cq, Asks) => ~pg.lobby /\ sq = <<>> /\ Cleared(pg)
  /\ OnlyLast(cq, Asks)
  /\ \A f \in Queued(cq) : /\ f.code = "CREATE_MATCH" => pg.player = "X"
                           /\ f.code = "JOIN_MATCH" => pg.player = "O"
  /\ Has(sq, Ends) => ~pg.lobby /\ ~Has(cq, Asks)
  /\ OnlyLast(sq, Ends)
  /\ Has(sq, Refusals) => Len(sq) = 1 /\ Cleared(pg)

(* The page of a player of match m with mark s, whose connection is in     *)
(* state l; answered: the other player's connection still works.           *)
Token(pg, cq, sq, s) == pg.turn \/ Has(cq, {"MOVE"}) \/ Has(sq, Starts(s))

Engaged(pg, cq, sq, l, m, s, answered) ==
  /\ Resting(pg, cq, sq) => /\ m.players = 2 /\ ~answered
                            /\ ~pg.turn /\ ~Has(cq, {"MOVE"}) /\ ~Has(sq, Plays)
  /\ \A f \in Queued(cq) : f.code = "MOVE" => f.player = s
  /\ MovesOnce(cq)
  /\ pg.turn \/ Has(cq, {"MOVE"}) => sq = <<>>
  /\ pg.turn => ~Has(cq, {"MOVE"})
  /\ OnlyLast(sq, Starts(s))
  /\ l = "up" /\ ~Resting(pg, cq, sq) =>
       /\ pg.player = s
       /\ \A f \in Queued(sq) : f.code \in Tells => f.mid = m.matchID
       /\ Has(sq, Tells) \/ pg.mid = m.matchID
  /\ m.players = 1 => ~Token(pg, cq, sq, s) /\ pg.view = EmptyBoard

(* When both connections work, the page's board is the server's after the  *)
(* move under way, and only the player to move has a turn.                 *)
Agrees(pg, cq, sq, l, m, s) ==
  /\ Token(pg, cq, sq, s) => ToMove(m.board) = s
  /\ \A f \in Queued(cq) : f.code = "MOVE" =>
       /\ m.board[f.message] = Blank
       /\ l = "up" => pg.view = [m.board EXCEPT ![f.message] = s]
  /\ \A f \in Queued(sq) : f.code = "MOVE" =>
       /\ f.player = Other(s)
       /\ m.board = [pg.view EXCEPT ![f.message] = Other(s)]
  /\ l = "up" /\ ~Has(cq, {"MOVE"}) /\ ~Has(sq, {"MOVE"}) => pg.view = m.board
-----------------------------------------------------------------------------
Attached ==
  /\ \A fd \in Fds : IsOpen(fd) => link[client[fd].page] \in {"up", "fin", "rst"}
  /\ \A fd, gd \in Fds :
       IsOpen(fd) /\ IsOpen(gd) /\ client[fd].page = client[gd].page => fd = gd

Blanks ==
  \A p \in Pages :
    /\ link[p] \in {"none", "syn", "fin", "rst"} => page[p] = FreshPage /\ s2c[p] = <<>>
    /\ link[p] = "syn" => c2s[p] \in Requests

Greets(p) == /\ page[p] = FreshPage /\ s2c[p] = <<>>
             /\ \A f \in Queued(c2s[p]) : f.code \in Openers
Greeting ==
  \A fd \in Fds : IsOpen(fd) /\ ~client[fd].handshake =>
    client[fd].currentMatch = NULL /\ Greets(client[fd].page)

Rests == \A p \in Pages : /\ link[p] = "up" => Convo(page[p], c2s[p], s2c[p])
                          /\ AskedLast(c2s[p])

Seat(a, s) == IF s = "X" THEN heap[a].playerX ELSE heap[a].playerO
Held(a, s) == IsOpen(Seat(a, s)) /\ IsPlayer(client[Seat(a, s)], a, s)
PageAt(a, s) == client[Seat(a, s)].page
Talks(a, s) == Held(a, s) /\ link[PageAt(a, s)] \in {"up", "fin"}
Both(a) == heap[a].players = 2 /\ Talks(a, "X") /\ Talks(a, "O")

PointerOK(fd) ==
  /\ client[fd].currentMatch # NULL => client[fd].meant < match_id
  /\ \A a \in Addrs : Owns(client[fd], a) =>
       client[fd].seat \in Marks /\ Seat(a, client[fd].seat) = fd

Pointers == \A fd \in Fds : IsOpen(fd) => PointerOK(fd)

EngagedAt(a, s, p) == Engaged(page[p], c2s[p], s2c[p], link[p], heap[a], s, Talks(a, Other(s)))
AgreesAt(a, s, p)  == Agrees(page[p], c2s[p], s2c[p], link[p], heap[a], s)
TokenAt(s, p)      == Token(page[p], c2s[p], s2c[p], s)

(* The record of a match m, whose players both have working connections or *)
(* do not (both), and which has ended in some way (how) or has not.        *)
RecordOK(m, both, how) ==
  /\ m.players = 1 <=> m.playerO = NoFd
  /\ m.playerX # m.playerO
  /\ m.players = 1 => m.board = EmptyBoard
  /\ m.moves = Count(m.board, "X") + Count(m.board, "O")
  /\ Count(m.board, "X") - Count(m.board, "O") \in {0, 1}
  /\ Decided(m.board, m.moves) => m.players = 2 /\ ~both
  /\ how = "" <=> ~Decided(m.board, m.moves)

MatchOK(a) ==
  /\ RecordOK(heap[a], Both(a), outcome[heap[a].matchID])
  /\ \A s \in Marks : Held(a, s) => EngagedAt(a, s, PageAt(a, s))
  /\ Both(a) =>
       /\ \A s \in Marks : AgreesAt(a, s, PageAt(a, s))
       /\ (\A s \in Marks : link[PageAt(a, s)] = "up")
            => \E s \in Marks : TokenAt(s, PageAt(a, s))

FreshIds == /\ match_id <= MaxMatches
            /\ \A i \in MatchIds : i >= match_id => outcome[i] = ""

Wired == Attached /\ Blanks /\ Greeting /\ Rests /\ Pointers /\ FreshIds
Orderly == \A a \in Addrs : Live(a) => MatchOK(a)

GInv == Calm => Wired /\ Orderly
-----------------------------------------------------------------------------
(***************************************************************************)
(* Queues.                                                                 *)
(***************************************************************************)
LEMMA EmptyQueue ==
  /\ Queued(<<>>) = {}
  /\ \A codes : ~Has(<<>>, codes) /\ OnlyLast(<<>>, codes)
  /\ MovesOnce(<<>>) /\ AskedLast(<<>>)
<1>1. DOMAIN <<>> = {}
  OBVIOUS
<1> QED
  BY <1>1 DEF Queued, Has, OnlyLast, MovesOnce, AskedLast

(* A frame is added at the end. *)
LEMMA AppendQueue ==
  ASSUME NEW S, NEW q \in Seq(S), NEW f \in S
  PROVE  /\ Append(q, f) \in Seq(S) /\ Append(q, f) # <<>>
         /\ Len(Append(q, f)) = Len(q) + 1
         /\ Queued(Append(q, f)) = Queued(q) \cup {f}
         /\ \A codes : Has(Append(q, f), codes) <=> Has(q, codes) \/ f.code \in codes
         /\ \A codes : ~Has(q, codes) => OnlyLast(Append(q, f), codes)
         /\ MovesOnce(q) /\ (f.code # "MOVE" \/ ~Has(q, {"MOVE"})) => MovesOnce(Append(q, f))
         /\ AskedLast(q) /\ (f.code = "CLOSE" \/ ~Has(q, Asks)) => AskedLast(Append(q, f))
<1> DEFINE r == Append(q, f)
<1>1. PICK l \in Nat : l = Len(q) /\ DOMAIN q = 1 .. l
  BY LenProperties
<1>2. /\ r \in Seq(S) /\ r # <<>> /\ Len(r) = l + 1 /\ DOMAIN r = 1 .. l + 1
      /\ \A k \in 1 .. l : r[k] = q[k]
      /\ r[l + 1] = f
  BY <1>1, AppendProperties, LenProperties
<1> HIDE DEF r
<1>3. \A k \in DOMAIN r : k \in DOMAIN q \/ k = l + 1
  BY <1>1, <1>2
<1>4. \A k \in DOMAIN q : k \in DOMAIN r /\ k < l + 1
  BY <1>1, <1>2
<1>5. l + 1 \in DOMAIN r
  BY <1>1, <1>2
<1>6. Queued(r) = Queued(q) \cup {f}
  BY <1>1, <1>2, <1>3, <1>4, <1>5 DEF Queued
<1>7. \A codes : Has(r, codes) <=> Has(q, codes) \/ f.code \in codes
  BY <1>6 DEF Has
<1>8. ASSUME NEW codes, ~Has(q, codes) PROVE OnlyLast(r, codes)
  <2>1. \A k \in DOMAIN q : q[k].code \notin codes
    BY <1>8 DEF Has, Queued
  <2> QED
    BY <1>1, <1>2, <1>3, <2>1 DEF OnlyLast
<1>9. ASSUME MovesOnce(q), f.code # "MOVE" \/ ~Has(q, {"MOVE"}) PROVE MovesOnce(r)
  <2>1. f.code = "MOVE" => \A k \in DOMAIN q : q[k].code # "MOVE"
    BY <1>9 DEF Has, Queued
  <2> QED
    BY <1>1, <1>2, <1>3, <1>9, <2>1 DEF MovesOnce
<1>10. ASSUME AskedLast(q), f.code = "CLOSE" \/ ~Has(q, Asks) PROVE AskedLast(r)
  <2>1. f.code # "CLOSE" => \A k \in DOMAIN q : q[k].code \notin Asks
    BY <1>10 DEF Has, Queued
  <2> SUFFICES ASSUME NEW j \in DOMAIN r, NEW k \in DOMAIN r, r[j].code \in Asks, j < k
               PROVE  r[k].code = "CLOSE"
    BY DEF AskedLast
  <2>2. j \in DOMAIN q
    BY <1>1, <1>2, <1>3
  <2> QED
    BY <1>1, <1>2, <1>3, <1>10, <2>1, <2>2 DEF AskedLast
<1> QED
  BY <1>1, <1>2, <1>6, <1>7, <1>8, <1>9, <1>10 DEF r

(* The frame at the head is taken. *)
LEMMA TailQueue ==
  ASSUME NEW S, NEW q \in Seq(S), q # <<>>
  PROVE  /\ Head(q) \in S /\ Tail(q) \in Seq(S)
         /\ Queued(q) = {Head(q)} \cup Queued(Tail(q))
         /\ \A codes : Has(q, codes) <=> Head(q).code \in codes \/ Has(Tail(q), codes)
         /\ \A codes : OnlyLast(q, codes) =>
              OnlyLast(Tail(q), codes) /\ (Head(q).code \in codes => Tail(q) = <<>>)
         /\ Len(q) = 1 => Tail(q) = <<>>
<1> DEFINE r == Tail(q)
           h == Head(q)
<1>1. PICK l \in Nat \ {0} : l = Len(q) /\ DOMAIN q = 1 .. l
  BY LenProperties, EmptySeq
<1>2. /\ r \in Seq(S) /\ h \in S /\ Len(r) = l - 1 /\ DOMAIN r = 1 .. l - 1
      /\ \A k \in 1 .. l - 1 : r[k] = q[k + 1]
      /\ h = q[1]
  BY <1>1, HeadTailProperties, LenProperties
<1>0. Len(r) = 0 => r = <<>>
  BY <1>2, EmptySeq
<1> HIDE DEF r, h
<1>3. \A k \in DOMAIN q : k = 1 \/ (k - 1 \in DOMAIN r /\ q[k] = r[k - 1])
  <2> TAKE k \in DOMAIN q
  <2>1. k \in Int /\ 1 <= k /\ k <= l
    BY <1>1
  <2>2. CASE k # 1
    <3>1. k - 1 \in 1 .. l - 1 /\ (k - 1) + 1 = k
      BY <2>1, <2>2
    <3> QED
      BY <3>1, <1>2
  <2> QED
    BY <2>2
<1>4. \A k \in DOMAIN r : k + 1 \in DOMAIN q /\ r[k] = q[k + 1]
  BY <1>1, <1>2
<1>5. 1 \in DOMAIN q
  BY <1>1
<1>6. Queued(q) = {h} \cup Queued(r)
  <2>1. \A f \in Queued(q) : f \in {h} \cup Queued(r)
    BY <1>2, <1>3 DEF Queued
  <2>2. \A f \in Queued(r) : f \in Queued(q)
    BY <1>4 DEF Queued
  <2>3. h \in Queued(q)
    BY <1>2, <1>5 DEF Queued
  <2> QED
    BY <2>1, <2>2, <2>3
<1>7. \A codes : Has(q, codes) <=> h.code \in codes \/ Has(r, codes)
  BY <1>6 DEF Has
<1>8. ASSUME NEW codes, OnlyLast(q, codes)
      PROVE  OnlyLast(r, codes) /\ (h.code \in codes => r = <<>>)
  <2>1. ASSUME NEW k \in DOMAIN r, r[k].code \in codes PROVE k = Len(r)
    <3>1. k + 1 = l
      BY <1>1, <1>4, <1>8, <2>1 DEF OnlyLast
    <3> QED
      BY <1>2, <2>1, <3>1
  <2>2. ASSUME h.code \in codes PROVE r = <<>>
    <3>1. 1 = l
      BY <1>1, <1>2, <1>5, <1>8, <2>2 DEF OnlyLast
    <3> QED
      BY <1>0, <1>2, <3>1
  <2> QED
    BY <2>1, <2>2 DEF OnlyLast
<1>9. Len(q) = 1 => r = <<>>
  BY <1>0, <1>1, <1>2
<1> QED
  BY <1>2, <1>6, <1>7, <1>8, <1>9 DEF r, h

(* recv() takes n frames or more, of which the server parses the first.    *)
LEMMA DropQueue ==
  ASSUME NEW S, NEW q \in Seq(S), NEW n \in 1 .. Len(q)
  PROVE  LET r == SubSeq(q, n + 1, Len(q))
         IN  /\ r \in Seq(S)
             /\ Queued(r) \subseteq Queued(q) /\ Head(q) \in Queued(q)
             /\ \A codes : Has(r, codes) => Has(q, codes)
             /\ \A codes : OnlyLast(q, codes) =>
                  OnlyLast(r, codes) /\ (Head(q).code \in codes => r = <<>>)
             /\ MovesOnce(q) => MovesOnce(r)
             /\ MovesOnce(q) /\ Head(q).code = "MOVE" => ~Has(r, {"MOVE"})
             /\ AskedLast(q) => AskedLast(r)
             /\ AskedLast(q) /\ Head(q).code \in Asks => \A f \in Queued(r) : f.code = "CLOSE"
<1> DEFINE r == SubSeq(q, n + 1, Len(q))
           h == Head(q)
<1>1. PICK l \in Nat : l = Len(q) /\ DOMAIN q = 1 .. l
  BY LenProperties
<1>2. n \in Nat /\ 1 <= n /\ n <= l
  BY <1>1
<1>3. q # <<>> /\ h = q[1] /\ 1 \in DOMAIN q
  BY <1>1, <1>2, EmptySeq
<1>4. /\ r \in Seq(S) /\ Len(r) = l - n /\ DOMAIN r = 1 .. l - n
      /\ \A k \in 1 .. l - n : r[k] = q[k + n]
  <2>1. \A k \in n + 1 .. l : q[k] \in S
    BY <1>1, <1>2, ElementOfSeq
  <2>2. n + 1 \in Int /\ l \in Int
    BY <1>1, <1>2
  <2>3. /\ r \in Seq(S)
        /\ Len(r) = IF n + 1 <= l THEN l - (n + 1) + 1 ELSE 0
        /\ \A k \in 1 .. l - (n + 1) + 1 : r[k] = q[n + 1 + k - 1]
    BY <1>1, <2>1, <2>2, SubSeqProperties
  <2>4. l - (n + 1) + 1 = l - n /\ \A k \in 1 .. l - n : n + 1 + k - 1 = k + n
    BY <1>1, <1>2
  <2>5. Len(r) = l - n
    BY <1>1, <1>2, <2>3
  <2> QED
    BY <2>3, <2>4, <2>5, LenProperties
<1>0. Len(r) = 0 => r = <<>>
  BY <1>4, EmptySeq
<1> HIDE DEF r, h
<1>5. \A k \in DOMAIN r : /\ k + n \in DOMAIN q /\ r[k] = q[k + n]
                          /\ k \in Int /\ 1 < k + n /\ (k + n = l => k = Len(r))
  BY <1>1, <1>2, <1>4
<1>6. Queued(r) \subseteq Queued(q) /\ h \in Queued(q)
  BY <1>3, <1>5 DEF Queued
<1>7. \A codes : Has(r, codes) => Has(q, codes)
  BY <1>6 DEF Has
<1>8. ASSUME NEW codes, OnlyLast(q, codes)
      PROVE  OnlyLast(r, codes) /\ (h.code \in codes => r = <<>>)
  <2>1. ASSUME NEW k \in DOMAIN r, r[k].code \in codes PROVE k = Len(r)
    BY <1>1, <1>5, <1>8, <2>1 DEF OnlyLast
  <2>2. ASSUME h.code \in codes PROVE r = <<>>
    <3>1. 1 = l
      BY <1>1, <1>3, <1>8, <2>2 DEF OnlyLast
    <3>2. l - n = 0
      BY <1>2, <3>1
    <3> QED
      BY <1>0, <1>4, <3>2
  <2> QED
    BY <2>1, <2>2 DEF OnlyLast
<1>9. MovesOnce(q) => MovesOnce(r)
  <2> SUFFICES ASSUME MovesOnce(q), NEW j \in DOMAIN r, NEW k \in DOMAIN r,
                      r[j].code = "MOVE", r[k].code = "MOVE"
               PROVE  j = k
    BY DEF MovesOnce
  <2>1. j + n = k + n
    BY <1>5 DEF MovesOnce
  <2> QED
    BY <1>2, <1>5, <2>1
<1>10. MovesOnce(q) /\ h.code = "MOVE" => ~Has(r, {"MOVE"})
  <2> SUFFICES ASSUME MovesOnce(q), h.code = "MOVE", NEW k \in DOMAIN r, r[k].code = "MOVE"
               PROVE  FALSE
    BY DEF Has, Queued
  <2>1. k + n = 1
    BY <1>3, <1>5 DEF MovesOnce
  <2> QED
    BY <1>5, <2>1
<1>11. AskedLast(q) => AskedLast(r)
  <2> SUFFICES ASSUME AskedLast(q), NEW j \in DOMAIN r, NEW k \in DOMAIN r,
                      r[j].code \in Asks, j < k
               PROVE  r[k].code = "CLOSE"
    BY DEF AskedLast
  <2>1. j + n < k + n
    BY <1>2, <1>5
  <2> QED
    BY <1>5, <2>1 DEF AskedLast
<1>12. AskedLast(q) /\ h.code \in Asks => \A f \in Queued(r) : f.code = "CLOSE"
  BY <1>3, <1>5 DEF AskedLast, Queued
<1> QED
  BY <1>4, <1>6, <1>7, <1>8, <1>9, <1>10, <1>11, <1>12 DEF r, h
-----------------------------------------------------------------------------
(***************************************************************************)
(* What a page does to its own view and queues.                            *)
(***************************************************************************)
LEMMA FrameCodes ==
  /\ \A f \in ServerFrames : f.code \in Refusals \cup Tells \cup Plays \cup {"GAME_OVER", "REJECT"}
  /\ \A f \in PageFrames :
       f.code \in Openers \cup Asks \cup {"CLOSE", "MOVE", "MOVE_INCOMPLETE"}
BY DEF ServerFrames, PageFrames, Refusals, Tells, Plays, Openers, Asks

(* The fields of a page after a frame. *)
LEMMA AfterFrameFields ==
  ASSUME NEW pg \in PageStates, NEW h \in ServerFrames
  PROVE  LET new == AfterFrame(pg, h)
         IN  /\ new.player = pg.player
             /\ h.code \in Refusals => /\ new.lobby /\ new.turn = pg.turn
                                       /\ new.view = pg.view /\ new.mid = pg.mid
             /\ h.code \in Tells => /\ new.lobby = pg.lobby /\ new.turn = pg.turn
                                    /\ new.view = pg.view /\ new.mid = h.mid
             /\ h.code = "MOVE" => /\ new.lobby = pg.lobby /\ new.turn /\ new.mid = pg.mid
                                   /\ new.view = [pg.view EXCEPT ![h.message] = h.player]
             /\ h.code = "INIT_BOARD" => /\ new.lobby = pg.lobby /\ new.mid = pg.mid
                                         /\ new.view = pg.view
                                         /\ new.turn <=> (pg.turn \/ pg.player = "X")
             /\ h.code = "GAME_OVER" => new.lobby /\ Cleared(new)
             /\ h.code = "REJECT" => new = pg
<1> USE DEF PageStates
<1>1. CASE h.code \in Refusals
  BY <1>1 DEF AfterFrame, OnJoinFailed, Refusals, Tells, Plays
<1>2. CASE h.code \in Tells
  <2>1. h.mid \in MatchIds
    BY <1>2, ServerFrameFields DEF Tells
  <2>2. AfterFrame(pg, h) = [pg EXCEPT !.mid = h.mid]
    BY <1>2 DEF AfterFrame, Tells
  <2> QED
    BY <1>2, <2>1, <2>2 DEF Refusals, Tells
<1>3. CASE h.code = "MOVE"
  <2>1. AfterFrame(pg, h) = OnMove(pg, h)
    BY <1>3 DEF AfterFrame
  <2> QED
    BY <1>3, <2>1 DEF OnMove, Refusals, Tells
<1>4. CASE h.code = "INIT_BOARD"
  <2>1. AfterFrame(pg, h) = OnInitBoard(pg)
    BY <1>4 DEF AfterFrame
  <2> QED
    BY <1>4, <2>1 DEF OnInitBoard, Refusals, Tells
<1>5. CASE h.code = "GAME_OVER"
  <2>1. AfterFrame(pg, h) = OnGameOver(pg)
    BY <1>5 DEF AfterFrame
  <2> QED
    BY <1>5, <2>1 DEF OnGameOver, Cleared, Refusals, Tells
<1>6. CASE h.code = "REJECT"
  BY <1>6 DEF AfterFrame, Refusals, Tells
<1> QED
  BY <1>1, <1>2, <1>3, <1>4, <1>5, <1>6, FrameCodes DEF Plays

(* A frame is read. *)
LEMMA MessageConvo ==
  ASSUME NEW pg \in PageStates, NEW cq \in Seq(PageFrames), NEW sq \in Seq(ServerFrames),
         sq # <<>>, Convo(pg, cq, sq)
  PROVE  Convo(AfterFrame(pg, Head(sq)), cq, Tail(sq))
<1> DEFINE h == Head(sq)
           r == Tail(sq)
           new == AfterFrame(pg, h)
<1>1. /\ h \in ServerFrames /\ r \in Seq(ServerFrames)
      /\ \A codes : Has(sq, codes) <=> h.code \in codes \/ Has(r, codes)
      /\ \A codes : OnlyLast(sq, codes) => OnlyLast(r, codes) /\ (h.code \in codes => r = <<>>)
      /\ Len(sq) = 1 => r = <<>>
  BY TailQueue
<1> HIDE DEF h, r
<1>2. ~pg.lobby /\ ~Has(cq, Asks) /\ OnlyLast(cq, Asks) /\ OnlyLast(sq, Ends)
  BY DEF Convo
<1>3. \A f \in Queued(cq) : f.code \notin Asks
  BY <1>2 DEF Has
<1>4. \A codes : ~Has(<<>>, codes) /\ OnlyLast(<<>>, codes)
  BY EmptyQueue
<1> SUFFICES Convo(new, cq, r)
  BY DEF new, h, r
<1>5. CASE h.code \in Ends
  <2>1. r = <<>>
    BY <1>1, <1>2, <1>5
  <2>2. new.lobby /\ Cleared(new)
    <3>1. CASE h.code \in Refusals
      <4>1. Cleared(pg)
        BY <1>1, <3>1 DEF Convo
      <4>2. new.lobby /\ new.turn = pg.turn /\ new.view = pg.view
        BY <1>1, <3>1, AfterFrameFields
      <4> QED
        BY <4>1, <4>2 DEF Cleared
    <3>2. CASE h.code = "GAME_OVER"
      BY <1>1, <3>2, AfterFrameFields
    <3> QED
      BY <1>5, <3>1, <3>2 DEF Ends
  <2> HIDE DEF new
  <2> QED
    BY <1>2, <1>3, <1>4, <2>1, <2>2 DEF Convo, Asks
<1>6. CASE h.code \notin Ends
  <2>1. new.lobby = pg.lobby
    <3>1. h.code \in Tells \cup {"MOVE", "INIT_BOARD", "REJECT"}
      BY <1>1, <1>6, FrameCodes DEF Ends, Plays
    <3> QED
      BY <1>1, <3>1, AfterFrameFields
  <2>2. ~Has(r, Refusals)
    <3>1. SUFFICES ASSUME Has(r, Refusals) PROVE FALSE
      OBVIOUS
    <3>2. Len(sq) = 1
      BY <1>1, <3>1 DEF Convo
    <3> QED
      BY <1>1, <1>4, <3>1, <3>2
  <2>3. OnlyLast(r, Ends)
    BY <1>1, <1>2
  <2> HIDE DEF new
  <2> QED
    BY <1>2, <1>3, <2>1, <2>2, <2>3 DEF Convo, Asks
<1> QED
  BY <1>5, <1>6

LEMMA MessageEngaged ==
  ASSUME NEW pg \in PageStates, NEW cq \in Seq(PageFrames), NEW sq \in Seq(ServerFrames),
         sq # <<>>, Convo(pg, cq, sq), NEW m \in MatchStates, NEW s \in Marks,
         NEW o \in BOOLEAN, Engaged(pg, cq, sq, "up", m, s, o)
  PROVE  LET new == AfterFrame(pg, Head(sq))
         IN  /\ Engaged(new, cq, Tail(sq), "up", m, s, o)
             /\ o /\ Token(pg, cq, sq, s) => Token(new, cq, Tail(sq), s)
             /\ o /\ Agrees(pg, cq, sq, "up", m, s) => Agrees(new, cq, Tail(sq), "up", m, s)
<1> DEFINE h == Head(sq)
           r == Tail(sq)
           new == AfterFrame(pg, h)
<1>1. /\ h \in ServerFrames /\ r \in Seq(ServerFrames)
      /\ \A codes : Has(sq, codes) <=> h.code \in codes \/ Has(r, codes)
      /\ \A codes : OnlyLast(sq, codes) => OnlyLast(r, codes) /\ (h.code \in codes => r = <<>>)
      /\ Queued(sq) = {h} \cup Queued(r)
  BY TailQueue
<1>2. h.code \in Refusals \cup Tells \cup Plays \cup {"GAME_OVER", "REJECT"}
  BY <1>1, FrameCodes
<1>0. /\ new.player = pg.player
      /\ h.code \in Refusals => new.lobby /\ new.turn = pg.turn
      /\ h.code \in Tells => /\ new.lobby = pg.lobby /\ new.turn = pg.turn
                             /\ new.view = pg.view /\ new.mid = h.mid
      /\ h.code = "MOVE" => /\ new.lobby = pg.lobby /\ new.turn /\ new.mid = pg.mid
                            /\ new.view = [pg.view EXCEPT ![h.message] = h.player]
      /\ h.code = "INIT_BOARD" => /\ new.lobby = pg.lobby /\ new.mid = pg.mid
                                  /\ new.view = pg.view
                                  /\ new.turn <=> (pg.turn \/ pg.player = "X")
      /\ h.code = "GAME_OVER" => new.lobby /\ ~new.turn
      /\ h.code = "REJECT" => new = pg
  BY <1>1, AfterFrameFields DEF Cleared
<1> SUFFICES /\ Engaged(new, cq, r, "up", m, s, o)
             /\ o /\ Token(pg, cq, sq, s) => Token(new, cq, r, s)
             /\ o /\ Agrees(pg, cq, sq, "up", m, s) => Agrees(new, cq, r, "up", m, s)
  OBVIOUS
<1> HIDE DEF h, r, new
<1>3. ~pg.lobby /\ ~Has(cq, Asks) /\ OnlyLast(sq, Ends)
  BY DEF Convo
<1>4. ~pg.turn /\ ~Has(cq, {"MOVE"}) /\ OnlyLast(sq, Starts(s)) /\ OnlyLast(r, Starts(s))
  BY <1>1 DEF Engaged
<1>5. \A f \in Queued(cq) : f.code # "MOVE"
  BY <1>4 DEF Has
<1>6. \A codes : ~Has(<<>>, codes)
  BY EmptyQueue
<1>7. MovesOnce(cq)
  BY DEF Engaged
<1>8. CASE h.code \in Ends
  <2>1. /\ m.players = 2 /\ ~o /\ ~Has(r, Plays) /\ r = <<>>
    BY <1>1, <1>3, <1>8 DEF Engaged, Resting
  <2>2. new.lobby /\ ~new.turn
    <3>1. CASE h.code \in Refusals
      BY <1>1, <1>4, <3>1, <1>0
    <3>2. CASE h.code = "GAME_OVER"
      BY <1>1, <3>2, <1>0
    <3> QED
      BY <1>8, <3>1, <3>2 DEF Ends
  <2> QED
    BY <1>4, <1>5, <1>6, <1>7, <2>1, <2>2 DEF Engaged, Resting
<1>9. CASE h.code \in Tells \cup {"REJECT"} \/ (h.code = "INIT_BOARD" /\ s = "O")
  <2>1. /\ new.lobby = pg.lobby /\ new.view = pg.view /\ new.player = pg.player
        /\ h.code \in Tells => new.mid = h.mid
        /\ h.code \notin Tells => new.mid = pg.mid
    <3>1. CASE h.code \in Tells
      BY <1>1, <3>1, <1>0
    <3>2. CASE h.code = "REJECT"
      BY <1>1, <3>2, <1>0 DEF Tells
    <3>3. CASE h.code = "INIT_BOARD"
      BY <1>1, <3>3, <1>0 DEF Tells
    <3> QED
      BY <1>9, <3>1, <3>2, <3>3
  <2>2. h.code \notin Ends /\ h.code \notin Starts(s) /\ h.code # "MOVE"
    BY <1>9 DEF Ends, Starts, Tells, Refusals, Plays
  <2>3. /\ Resting(new, cq, r) <=> Resting(pg, cq, sq)
        /\ Has(r, Plays) => Has(sq, Plays)
        /\ Has(r, Starts(s)) <=> Has(sq, Starts(s))
        /\ Has(r, {"MOVE"}) <=> Has(sq, {"MOVE"})
    BY <1>1, <2>1, <2>2 DEF Resting
  <2>4. ~new.turn
    <3>1. CASE h.code = "INIT_BOARD" /\ s = "O"
      <4>1. Has(sq, Plays)
        BY <1>1, <3>1 DEF Plays
      <4>2. pg.player = "O"
        BY <3>1, <4>1 DEF Engaged
      <4>3. new.turn <=> (pg.turn \/ pg.player = "X")
        BY <1>1, <3>1, <1>0
      <4> QED
        BY <1>4, <4>2, <4>3
    <3>2. CASE h.code \in Tells \cup {"REJECT"}
      BY <1>1, <1>4, <3>2, <1>0
    <3> QED
      BY <1>9, <3>1, <3>2
  <2>5. /\ m.players = 1 => pg.view = EmptyBoard /\ ~Has(sq, Starts(s))
        /\ Resting(pg, cq, sq) => m.players = 2 /\ ~o /\ ~Has(sq, Plays)
        /\ ~Resting(pg, cq, sq) =>
             /\ pg.player = s
             /\ \A f \in Queued(sq) : f.code \in Tells => f.mid = m.matchID
             /\ Has(sq, Tells) \/ pg.mid = m.matchID
    BY DEF Engaged, Token
  <2>6. Engaged(new, cq, r, "up", m, s, o)
    <3>1. ~Resting(pg, cq, sq) => Has(r, Tells) \/ new.mid = m.matchID
      <4>1. CASE h.code \in Tells
        BY <1>1, <2>1, <2>5, <4>1
      <4>2. CASE h.code \notin Tells
        BY <1>1, <2>1, <2>5, <4>2
      <4> QED
        BY <4>1, <4>2
    <3> QED
      BY <1>1, <1>4, <1>5, <1>7, <2>1, <2>3, <2>4, <2>5, <3>1 DEF Engaged, Token
  <2>7. Token(pg, cq, sq, s) <=> Token(new, cq, r, s)
    BY <1>4, <2>3, <2>4 DEF Token
  <2>8. Agrees(pg, cq, sq, "up", m, s) => Agrees(new, cq, r, "up", m, s)
    <3> QED
      BY <1>1, <2>1, <2>3, <2>7 DEF Agrees
  <2> QED
    BY <2>6, <2>7, <2>8
<1>10. CASE h.code = "MOVE" \/ (h.code = "INIT_BOARD" /\ s = "X")
  <2>1. h.code \in Starts(s) /\ h.code \in Plays /\ h.code \notin Ends
    BY <1>10 DEF Starts, Plays, Ends, Refusals
  <2>2. r = <<>> /\ Has(sq, Starts(s)) /\ Has(sq, Plays) /\ Queued(sq) = {h}
    BY <1>1, <1>4, <2>1, EmptyQueue
  <2>3. ~Resting(pg, cq, sq) /\ m.players # 1
    BY <2>2 DEF Engaged, Token
  <2>4. pg.player = s /\ pg.mid = m.matchID
    <3>1. ~Has(sq, Tells)
      BY <1>10, <2>2 DEF Has, Tells
    <3> QED
      BY <2>3, <3>1 DEF Engaged
  <2>5. new.turn /\ new.lobby = pg.lobby /\ new.mid = pg.mid /\ new.player = pg.player
    BY <1>1, <1>10, <2>4, <1>0
  <2>6. ~Resting(new, cq, r)
    BY <1>6, <2>2, <2>3, <2>5 DEF Resting
  <2>7. Engaged(new, cq, r, "up", m, s, o)
    <3> QED
      BY <1>4, <1>5, <1>6, <1>7, <2>2, <2>3, <2>4, <2>5, <2>6, EmptyQueue DEF Engaged
  <2>8. Token(new, cq, r, s)
    BY <2>5 DEF Token
  <2>9. ASSUME Agrees(pg, cq, sq, "up", m, s) PROVE Agrees(new, cq, r, "up", m, s)
    <3>1. ToMove(m.board) = s
      BY <2>2, <2>9 DEF Agrees, Token
    <3>2. new.view = m.board
      <4>1. CASE h.code = "MOVE"
        <5>1. h.player = Other(s) /\ m.board = [pg.view EXCEPT ![h.message] = Other(s)]
          BY <2>2, <2>9, <4>1 DEF Agrees
        <5>2. new.view = [pg.view EXCEPT ![h.message] = h.player]
          BY <1>1, <4>1, <1>0
        <5> QED
          BY <5>1, <5>2
      <4>2. CASE h.code = "INIT_BOARD"
        <5>1. ~Has(sq, {"MOVE"})
          BY <2>2, <4>2 DEF Has
        <5>2. pg.view = m.board
          BY <1>4, <2>9, <5>1 DEF Agrees
        <5>3. new.view = pg.view
          BY <1>1, <4>2, <1>0
        <5> QED
          BY <5>2, <5>3
      <4> QED
        BY <1>10, <4>1, <4>2
    <3> QED
      BY <1>5, <2>2, <3>1, <3>2, EmptyQueue DEF Agrees
  <2> QED
    BY <2>7, <2>8, <2>9 
<1> QED
  BY <1>2, <1>8, <1>9, <1>10 DEF Ends, Plays, Marks
-----------------------------------------------------------------------------
(* A click on Create or Join: possible only in the lobby. *)
LEMMA AskingPage ==
  ASSUME NEW pg \in PageStates, NEW cq \in Seq(PageFrames), NEW sq \in Seq(ServerFrames),
         pg.lobby, Convo(pg, cq, sq), AskedLast(cq), NEW f \in PageFrames, NEW mark \in Marks,
         (f.code = "CREATE_MATCH" /\ mark = "X") \/ (f.code = "JOIN_MATCH" /\ mark = "O")
  PROVE  LET new == Asking(pg, mark)
         IN  /\ Convo(new, Append(cq, f), sq) /\ AskedLast(Append(cq, f))
             /\ \A m, s, o : Engaged(pg, cq, sq, "up", m, s, o) =>
                               Engaged(new, Append(cq, f), sq, "up", m, s, o) /\ ~o
<1> DEFINE new == Asking(pg, mark)
           r == Append(cq, f)
<1>1. /\ r \in Seq(PageFrames)
      /\ Queued(r) = Queued(cq) \cup {f}
      /\ \A codes : Has(r, codes) <=> Has(cq, codes) \/ f.code \in codes
      /\ \A codes : ~Has(cq, codes) => OnlyLast(r, codes)
      /\ MovesOnce(cq) /\ f.code # "MOVE" => MovesOnce(r)
      /\ AskedLast(cq) /\ ~Has(cq, Asks) => AskedLast(r)
  BY AppendQueue
<1>2. /\ new.lobby = FALSE /\ new.player = mark /\ new.turn = pg.turn
      /\ new.view = pg.view /\ new.mid = pg.mid
  BY DEF Asking, PageStates
<1> SUFFICES /\ Convo(new, r, sq) /\ AskedLast(r)
             /\ \A m, s, o : Engaged(pg, cq, sq, "up", m, s, o) =>
                               Engaged(new, r, sq, "up", m, s, o) /\ ~o
  OBVIOUS
<1> HIDE DEF new, r
<1>3. sq = <<>> /\ ~Has(cq, Asks) /\ Cleared(pg) /\ f.code \in Asks /\ f.code # "MOVE"
  BY DEF Convo, Asks
<1>4. \A codes : ~Has(<<>>, codes) /\ OnlyLast(<<>>, codes)
  BY EmptyQueue
<1>5. \A g \in Queued(cq) : g.code \notin Asks
  BY <1>3 DEF Has
<1>6. Convo(new, r, sq)
  BY <1>1, <1>2, <1>3, <1>4, <1>5 DEF Convo, Cleared, Asks
<1>7. AskedLast(r)
  BY <1>1, <1>3
<1>8. ASSUME NEW m, NEW s, NEW o, Engaged(pg, cq, sq, "up", m, s, o)
      PROVE  Engaged(new, r, sq, "up", m, s, o) /\ ~o
  <2>1. /\ m.players = 2 /\ ~o /\ ~pg.turn /\ ~Has(cq, {"MOVE"})
        /\ \A g \in Queued(cq) : g.code = "MOVE" => g.player = s
        /\ MovesOnce(cq)
    BY <1>8 DEF Engaged, Resting
  <2>2. ~Has(r, {"MOVE"}) /\ Has(r, Asks) /\ MovesOnce(r) /\ ~new.turn
    BY <1>1, <1>2, <1>3, <2>1
  <2>3. \A g \in Queued(r) : g.code # "MOVE"
    BY <2>2 DEF Has
  <2> QED
    BY <1>3, <1>4, <2>1, <2>2, <2>3 DEF Engaged, Resting
<1> QED
  BY <1>6, <1>7, <1>8

(* A click on a cell: whoever has the turn uses it up. *)
LEMMA ClickConvo ==
  ASSUME NEW pg \in PageStates, NEW cq \in Seq(PageFrames), NEW sq \in Seq(ServerFrames),
         pg.turn, Convo(pg, cq, sq), AskedLast(cq), NEW c \in Cells, NEW f \in PageFrames,
         f.code \in {"MOVE", "MOVE_INCOMPLETE"}
  PROVE  Convo(Clicked(pg, c), Append(cq, f), sq) /\ AskedLast(Append(cq, f))
<1> DEFINE new == Clicked(pg, c)
           r == Append(cq, f)
<1>1. /\ r \in Seq(PageFrames)
      /\ Queued(r) = Queued(cq) \cup {f}
      /\ \A codes : Has(r, codes) <=> Has(cq, codes) \/ f.code \in codes
      /\ \A codes : ~Has(cq, codes) => OnlyLast(r, codes)
      /\ AskedLast(cq) /\ ~Has(cq, Asks) => AskedLast(r)
  BY AppendQueue
<1>2. new.lobby = pg.lobby /\ new.turn = FALSE /\ new.player = pg.player
  BY DEF Clicked, PageStates
<1>3. ~Cleared(pg)
  BY DEF Cleared
<1>4. ~pg.lobby /\ ~Has(cq, Asks) /\ ~Has(sq, Refusals) /\ OnlyLast(sq, Ends)
  BY <1>3 DEF Convo
<1>5. f.code \notin Asks
  BY DEF Asks
<1> HIDE DEF new, r
<1>6. \A g \in Queued(r) : g.code \notin Asks
  BY <1>1, <1>4, <1>5 DEF Has
<1>7. ~Has(r, Asks) /\ OnlyLast(r, Asks) /\ AskedLast(r)
  BY <1>1, <1>4, <1>5
<1>8. Convo(new, r, sq)
  BY <1>2, <1>4, <1>6, <1>7 DEF Convo, Asks
<1> QED
  BY <1>7, <1>8 DEF new, r

LEMMA ClickEngaged ==
  ASSUME NEW pg \in PageStates, NEW cq \in Seq(PageFrames), NEW sq \in Seq(ServerFrames),
         pg.turn, NEW m \in MatchStates, NEW s \in Marks, NEW o \in BOOLEAN,
         Engaged(pg, cq, sq, "up", m, s, o), NEW c \in Cells, pg.view[c] = Blank,
         NEW f \in PageFrames,
         pg.player # Undef /\ pg.mid # NoId =>
           f = [code |-> "MOVE", player |-> pg.player, message |-> c]
  PROVE  LET new == Clicked(pg, c)
             r == Append(cq, f)
         IN  /\ Engaged(new, r, sq, "up", m, s, o)
             /\ Token(new, r, sq, s)
             /\ Agrees(pg, cq, sq, "up", m, s) => Agrees(new, r, sq, "up", m, s)
<1> DEFINE new == Clicked(pg, c)
           r == Append(cq, f)
<1>1. /\ r \in Seq(PageFrames)
      /\ Queued(r) = Queued(cq) \cup {f}
      /\ \A codes : Has(r, codes) <=> Has(cq, codes) \/ f.code \in codes
      /\ MovesOnce(cq) /\ ~Has(cq, {"MOVE"}) => MovesOnce(r)
  BY AppendQueue
<1>2. \A codes : ~Has(<<>>, codes) /\ OnlyLast(<<>>, codes)
  BY EmptyQueue
<1>3. /\ ~Resting(pg, cq, sq) /\ sq = <<>> /\ ~Has(cq, {"MOVE"}) /\ MovesOnce(cq)
      /\ m.players # 1
  BY DEF Engaged, Token
<1>4. pg.player = s /\ pg.mid = m.matchID
  BY <1>2, <1>3 DEF Engaged
<1>5. f = [code |-> "MOVE", player |-> s, message |-> c]
  <2>1. s # Undef
    BY DEF Marks, Undef
  <2>2. m.matchID # NoId
    BY DEF MatchStates, MatchIds, NoId
  <2> QED
    BY <1>4, <2>1, <2>2
<1>6. f.code = "MOVE" /\ f.player = s /\ f.message = c
  BY <1>5
<1>7. /\ new.lobby = pg.lobby /\ new.turn = FALSE /\ new.player = pg.player
      /\ new.mid = pg.mid /\ new.view = [pg.view EXCEPT ![c] = s]
  <2>1. MarkOf(pg, c) = s
    BY <1>4 DEF MarkOf, Marks, Undef
  <2>2. pg.view \in Boards
    BY DEF PageStates
  <2>3. new = [pg EXCEPT !.view[c] = s, !.turn = FALSE]
    BY <2>1 DEF Clicked
  <2> QED
    BY <2>2, <2>3 DEF PageStates
<1> HIDE DEF new, r
<1>8. \A g \in Queued(cq) : g.code # "MOVE"
  BY <1>3 DEF Has
<1>9. Has(r, {"MOVE"}) /\ MovesOnce(r) /\ (Has(r, Asks) <=> Has(cq, Asks))
  BY <1>1, <1>3, <1>6 DEF Asks
<1>10. ~Resting(new, r, sq)
  BY <1>3, <1>7, <1>9 DEF Resting
<1>11. \A g \in Queued(r) : g.code = "MOVE" => g.player = s /\ g.message = c
  BY <1>1, <1>6, <1>8
<1>12. Queued(sq) = {}
  BY <1>3, EmptyQueue
<1>13. Engaged(new, r, sq, "up", m, s, o)
  BY <1>2, <1>3, <1>4, <1>7, <1>9, <1>10, <1>11, <1>12 DEF Engaged
<1>14. Token(new, r, sq, s)
  BY <1>9 DEF Token
<1>15. ASSUME Agrees(pg, cq, sq, "up", m, s) PROVE Agrees(new, r, sq, "up", m, s)
  <2>1. ToMove(m.board) = s
    BY <1>15 DEF Agrees, Token
  <2>2. pg.view = m.board
    BY <1>2, <1>3, <1>15 DEF Agrees
  <2> QED
    BY <1>7, <1>9, <1>11, <1>12, <2>1, <2>2 DEF Agrees
<1> QED
  BY <1>13, <1>14, <1>15 DEF new, r

(* The page leaves, with a Close frame or without one. *)
LEMMA LeavingPage ==
  ASSUME NEW pg \in PageStates, NEW cq \in Seq(PageFrames), NEW sq \in Seq(ServerFrames),
         AskedLast(cq), NEW l \in {"fin", "rst"}, NEW r,
         r = cq \/ r = Append(cq, [code |-> "CLOSE"])
  PROVE  /\ AskedLast(r)
         /\ \A f \in Queued(r) : f \in Queued(cq) \/ f.code = "CLOSE"
         /\ \A m, s, o : Engaged(pg, cq, sq, "up", m, s, o) =>
              /\ Engaged(FreshPage, r, <<>>, l, m, s, o)
              /\ Agrees(pg, cq, sq, "up", m, s) => Agrees(FreshPage, r, <<>>, l, m, s)
<1> DEFINE f == [code |-> "CLOSE"]
<1>1. f \in PageFrames /\ f.code = "CLOSE"
  BY DEF PageFrames
<1>2. /\ \A g \in Queued(r) : g \in Queued(cq) \/ g.code = "CLOSE"
      /\ Has(r, {"MOVE"}) <=> Has(cq, {"MOVE"})
      /\ Has(r, Asks) <=> Has(cq, Asks)
      /\ MovesOnce(cq) => MovesOnce(r)
      /\ AskedLast(r)
  <2>1. CASE r = cq
    BY <2>1
  <2>2. CASE r = Append(cq, f)
    <3>1. /\ Queued(r) = Queued(cq) \cup {f}
          /\ \A codes : Has(r, codes) <=> Has(cq, codes) \/ f.code \in codes
          /\ MovesOnce(cq) /\ f.code # "MOVE" => MovesOnce(r)
          /\ AskedLast(cq) /\ f.code = "CLOSE" => AskedLast(r)
      BY <1>1, <2>2, AppendQueue
    <3> QED
      BY <1>1, <3>1 DEF Asks
  <2> QED
    BY <2>1, <2>2
<1>3. ~FreshPage.turn /\ ~FreshPage.lobby /\ FreshPage.view = EmptyBoard
  BY DEF FreshPage
<1> HIDE DEF f
<1>4. /\ \A codes : ~Has(<<>>, codes) /\ OnlyLast(<<>>, codes)
      /\ Queued(<<>>) = {}
  BY EmptyQueue
<1>5. ASSUME NEW m, NEW s, NEW o, Engaged(pg, cq, sq, "up", m, s, o)
      PROVE  Engaged(FreshPage, r, <<>>, l, m, s, o)
  <2>1. Resting(FreshPage, r, <<>>) => Resting(pg, cq, sq)
    BY <1>2, <1>3, <1>4 DEF Resting
  <2> QED
    BY <1>2, <1>3, <1>4, <1>5, <2>1 DEF Engaged, Token
<1>6. ASSUME NEW m, NEW s, Agrees(pg, cq, sq, "up", m, s)
      PROVE  Agrees(FreshPage, r, <<>>, l, m, s)
  <2>1. Token(FreshPage, r, <<>>, s) => Token(pg, cq, sq, s)
    BY <1>2, <1>3, <1>4 DEF Token
  <2> QED
    BY <1>2, <1>4, <1>6, <2>1 DEF Agrees
<1> QED
  BY <1>2, <1>5, <1>6
-----------------------------------------------------------------------------
(***************************************************************************)
(* Steps that leave a match alone, and steps of one page.                  *)
(***************************************************************************)
SameAt(p) == /\ page'[p] = page[p] /\ link'[p] = link[p]
             /\ c2s'[p] = c2s[p] /\ s2c'[p] = s2c[p]

(* A connection that breaks never makes a player's page less sound. *)
LEMMA EngagedWeakens ==
  ASSUME NEW pg, NEW cq, NEW sq, NEW l, NEW m, NEW s, NEW o, NEW o2, o2 => o,
         Engaged(pg, cq, sq, l, m, s, o)
  PROVE  Engaged(pg, cq, sq, l, m, s, o2)
BY DEF Engaged

LEMMA RecordWeakens ==
  ASSUME NEW m, NEW b, NEW b2, b2 => b, NEW how, RecordOK(m, b, how)
  PROVE  RecordOK(m, b2, how)
BY DEF RecordOK

LEMMA HeldPage ==
  ASSUME TypeOK, Attached, NEW a, NEW s, Held(a, s)
  PROVE  /\ Seat(a, s) \in Fds /\ PageAt(a, s) \in Pages
         /\ client[Seat(a, s)] \in ClientStates
         /\ link[PageAt(a, s)] \in {"up", "fin", "rst"}
         /\ Live(a) /\ Owns(client[Seat(a, s)], a) /\ client[Seat(a, s)].seat = s
<1>1. IsOpen(Seat(a, s)) /\ Seat(a, s) \in Fds
  BY DEF Held, IsOpen
<1> QED
  BY <1>1, ClientType DEF Held, PageAt, Attached, IsPlayer, Owns

(* The players of one match are at different pages. *)
LEMMA SeatsApart ==
  ASSUME TypeOK, Attached, NEW a, Held(a, "X"), Held(a, "O")
  PROVE  PageAt(a, "X") # PageAt(a, "O")
<1>1. client[Seat(a, "X")].seat = "X" /\ client[Seat(a, "O")].seat = "O"
  BY HeldPage
<1>2. Seat(a, "X") # Seat(a, "O")
  BY <1>1
<1> QED
  BY <1>2 DEF Attached, Held, PageAt, IsOpen

(* A match whose record and whose players' clients, pages and connections  *)
(* are left alone, or whose players' connections end.                      *)
LEMMA MatchKeeps ==
  ASSUME NEW b \in Addrs, Live(b), MatchOK(b), heap'[b] = heap[b],
         outcome'[heap[b].matchID] = outcome[heap[b].matchID],
         \A g \in Fds : IsOpen(g)' /\ Owns(client[g], b)' =>
           IsOpen(g) /\ client'[g] = client[g] /\ SameAt(client[g].page)
  PROVE  MatchOK(b)'
<1>1. Live(b)'
  BY DEF Live
<1>2. \A s \in Marks : Seat(b, s)' = Seat(b, s)
  BY DEF Seat
<1>3. ASSUME NEW s \in Marks, Held(b, s)'
      PROVE  Held(b, s) /\ PageAt(b, s)' = PageAt(b, s) /\ SameAt(PageAt(b, s))
  <2>0. PICK g : g = Seat(b, s)
    OBVIOUS
  <2>1. g \in Fds /\ IsOpen(g)' /\ IsPlayer(client[g], b, s)'
    BY <1>2, <1>3, <2>0 DEF Held, IsOpen
  <2>2. Owns(client[g], b)'
    BY <2>1 DEF IsPlayer
  <2>3. IsOpen(g) /\ client'[g] = client[g] /\ SameAt(client[g].page)
    BY <2>1, <2>2
  <2>4. IsPlayer(client[g], b, s)
    BY <2>1, <2>3 DEF IsPlayer, Owns, Live
  <2> QED
    BY <1>2, <2>0, <2>3, <2>4 DEF Held, PageAt
<1>4. \A s \in Marks : Talks(b, s)' => Talks(b, s)
  BY <1>3 DEF Talks, SameAt
<1>5. Both(b)' => Both(b)
  BY <1>4 DEF Both, Marks
<1>6. RecordOK(heap'[b], Both(b)', outcome'[heap'[b].matchID])
  BY <1>5, RecordWeakens DEF MatchOK
<1>7. ASSUME NEW s \in Marks, Held(b, s)' PROVE EngagedAt(b, s, PageAt(b, s))'
  <2> DEFINE p == PageAt(b, s)
  <2>1. Held(b, s) /\ PageAt(b, s)' = p /\ SameAt(p)
    BY <1>3, <1>7
  <2>2. EngagedAt(b, s, p)
    BY <2>1 DEF MatchOK
  <2>3. Other(s) \in Marks
    BY DEF Other, Marks
  <2>4. Talks(b, Other(s))' => Talks(b, Other(s))
    BY <1>4, <2>3
  <2>5. Engaged(page[p], c2s[p], s2c[p], link[p], heap[b], s, Talks(b, Other(s))')
    BY <2>2, <2>4, EngagedWeakens DEF EngagedAt
  <2>6. Engaged(page'[p], c2s'[p], s2c'[p], link'[p], heap'[b], s, Talks(b, Other(s))')
    BY <2>1, <2>5 DEF SameAt
  <2> QED
    BY <2>1, <2>6 DEF EngagedAt
<1>8. ASSUME Both(b)'
      PROVE  /\ \A s \in Marks : AgreesAt(b, s, PageAt(b, s))'
             /\ (\A s \in Marks : link'[PageAt(b, s)'] = "up")
                  => \E s \in Marks : TokenAt(s, PageAt(b, s))'
  <2>1. \A s \in Marks : Held(b, s)'
    BY <1>8 DEF Both, Talks, Marks
  <2>2. \A s \in Marks : PageAt(b, s)' = PageAt(b, s) /\ SameAt(PageAt(b, s))
    BY <1>3, <2>1
  <2>3. /\ \A s \in Marks : AgreesAt(b, s, PageAt(b, s))
        /\ (\A s \in Marks : link[PageAt(b, s)] = "up")
             => \E s \in Marks : TokenAt(s, PageAt(b, s))
    BY <1>5, <1>8 DEF MatchOK
  <2>4. \A s \in Marks : AgreesAt(b, s, PageAt(b, s))'
    BY <2>2, <2>3 DEF AgreesAt, SameAt
  <2>5. \A s \in Marks : TokenAt(s, PageAt(b, s)) => TokenAt(s, PageAt(b, s))'
    BY <2>2 DEF TokenAt, SameAt
  <2>6. \A s \in Marks : link'[PageAt(b, s)'] = link[PageAt(b, s)]
    BY <2>2 DEF SameAt
  <2> QED
    BY <2>3, <2>4, <2>5, <2>6
<1> QED
  BY <1>6, <1>7, <1>8 DEF MatchOK
-----------------------------------------------------------------------------
(* What a step does to the connected page p: it may break the connection.  *)
Weakens(l, l2) == l2 \in {"up", "fin", "rst"} /\ (l2 = l \/ l = "up" \/ l2 = "rst")

PageEvent(p) ==
  /\ Weakens(link[p], link'[p])
  /\ \A m \in MatchStates, s \in Marks, o \in BOOLEAN :
       Engaged(page[p], c2s[p], s2c[p], link[p], m, s, o) =>
         /\ Engaged(page'[p], c2s'[p], s2c'[p], link'[p], m, s, o)
         /\ o /\ Agrees(page[p], c2s[p], s2c[p], link[p], m, s) =>
              Agrees(page'[p], c2s'[p], s2c'[p], link'[p], m, s)
         /\ o /\ link'[p] = "up" /\ Token(page[p], c2s[p], s2c[p], s) =>
              Token(page'[p], c2s'[p], s2c'[p], s)

LEMMA PageOrderly ==
  ASSUME TypeOK, Attached, Orderly, heap' = heap, client' = client, outcome' = outcome,
         NEW p \in Pages, \A r \in Pages : r # p => SameAt(r),
         link[p] \in {"up", "fin", "rst"} => SameAt(p) \/ PageEvent(p)
  PROVE  Orderly'
<1> SUFFICES ASSUME NEW a \in Addrs, Live(a) PROVE MatchOK(a)'
  BY DEF Orderly, Live
<1>1. MatchOK(a) /\ heap[a] \in MatchStates
  BY MatchType DEF Orderly
<1>2. \A s \in Marks : /\ Seat(a, s)' = Seat(a, s) /\ Held(a, s)' = Held(a, s)
                       /\ PageAt(a, s)' = PageAt(a, s)
  BY DEF Seat, Held, PageAt, IsOpen, IsPlayer, Owns, Live
<1>3. ASSUME NEW s \in Marks, Held(a, s)
      PROVE  LET q == PageAt(a, s)
             IN  SameAt(q) \/ (q = p /\ PageEvent(p))
  BY <1>3, HeldPage
<1>4. \A s \in Marks : Talks(a, s)' => Talks(a, s)
  BY <1>2, <1>3 DEF Talks, SameAt, PageEvent, Weakens
<1>5. Both(a)' => Both(a)
  BY <1>4 DEF Both, Marks
<1>6. RecordOK(heap'[a], Both(a)', outcome'[heap'[a].matchID])
  BY <1>1, <1>5, RecordWeakens DEF MatchOK
<1>7. ASSUME NEW s \in Marks, Held(a, s)'
      PROVE  EngagedAt(a, s, PageAt(a, s))'
  <2>1. PICK q : q = PageAt(a, s)
    OBVIOUS
  <2>2. PICK o \in BOOLEAN : o = Talks(a, Other(s))
    BY DEF Talks, Held
  <2>3. PICK o2 : o2 = Talks(a, Other(s))'
    OBVIOUS
  <2>4. Engaged(page[q], c2s[q], s2c[q], link[q], heap[a], s, o)
    BY <1>1, <1>2, <1>7, <2>1, <2>2 DEF MatchOK, EngagedAt
  <2>5. o2 => o
    BY <1>4, <2>2, <2>3 DEF Other, Marks
  <2>6. Engaged(page'[q], c2s'[q], s2c'[q], link'[q], heap[a], s, o)
    <3>1. CASE SameAt(q)
      BY <2>4, <3>1 DEF SameAt
    <3>2. CASE q = p /\ PageEvent(p)
      BY <1>1, <2>4, <3>2 DEF PageEvent, Weakens
    <3> QED
      BY <1>2, <1>3, <1>7, <2>1, <3>1, <3>2
  <2>7. Engaged(page'[q], c2s'[q], s2c'[q], link'[q], heap[a], s, o2)
    BY <2>5, <2>6, EngagedWeakens
  <2> QED
    BY <1>2, <2>1, <2>3, <2>7 DEF EngagedAt
<1>8. ASSUME Both(a)'
      PROVE  /\ \A s \in Marks : AgreesAt(a, s, PageAt(a, s))'
             /\ (\A s \in Marks : link'[PageAt(a, s)'] = "up")
                  => \E s \in Marks : TokenAt(s, PageAt(a, s))'
  <2>1. Both(a) /\ \A s \in Marks : Held(a, s) /\ Talks(a, Other(s))
    BY <1>5, <1>8 DEF Both, Talks, Marks, Other
  <2>2. /\ \A s \in Marks : EngagedAt(a, s, PageAt(a, s)) /\ AgreesAt(a, s, PageAt(a, s))
        /\ (\A s \in Marks : link[PageAt(a, s)] = "up")
             => \E s \in Marks : TokenAt(s, PageAt(a, s))
    BY <1>1, <2>1 DEF MatchOK
  <2>3. ASSUME NEW s \in Marks
        PROVE  /\ AgreesAt(a, s, PageAt(a, s))'
               /\ link'[PageAt(a, s)'] = "up" =>
                    /\ link[PageAt(a, s)] = "up"
                    /\ TokenAt(s, PageAt(a, s)) => TokenAt(s, PageAt(a, s))'
    <3>1. PICK q : q = PageAt(a, s)
      OBVIOUS
    <3>2. /\ Engaged(page[q], c2s[q], s2c[q], link[q], heap[a], s, TRUE)
          /\ Agrees(page[q], c2s[q], s2c[q], link[q], heap[a], s)
      BY <2>1, <2>2, <3>1 DEF EngagedAt, AgreesAt
    <3>3. /\ Agrees(page'[q], c2s'[q], s2c'[q], link'[q], heap[a], s)
          /\ link'[q] = "up" =>
               /\ link[q] = "up"
               /\ Token(page[q], c2s[q], s2c[q], s) => Token(page'[q], c2s'[q], s2c'[q], s)
      <4>1. CASE SameAt(q)
        BY <3>2, <4>1 DEF SameAt
      <4>2. CASE q = p /\ PageEvent(p)
        BY <1>1, <3>2, <4>2 DEF PageEvent, Weakens
      <4> QED
        BY <1>3, <2>1, <3>1, <4>1, <4>2
    <3> QED
      BY <1>2, <3>1, <3>3 DEF AgreesAt, TokenAt
  <2> QED
    BY <2>2, <2>3
<1> QED
  BY <1>2, <1>6, <1>7, <1>8 DEF MatchOK

(* The rest of the invariant after a step of page p. *)
LEMMA PageWired ==
  ASSUME TypeOK, Wired, client' = client, heap' = heap, match_id' = match_id, outcome' = outcome,
         NEW p \in Pages, \A r \in Pages : r # p => SameAt(r),
         link[p] = "up" => link'[p] \in {"up", "fin", "rst"},
         link[p] \in {"fin", "rst"} => SameAt(p),
         link'[p] \in {"none", "syn", "fin", "rst"} => page'[p] = FreshPage /\ s2c'[p] = <<>>,
         link'[p] = "syn" => c2s'[p] \in Requests,
         link'[p] = "up" => Convo(page'[p], c2s'[p], s2c'[p]),
         AskedLast(c2s'[p]),
         link[p] = "up" /\ Greets(p) => Greets(p)'
  PROVE  Wired'
<1>1. \A fd \in Fds : IsOpen(fd)' = IsOpen(fd)
  BY DEF IsOpen
<1>2. \A fd \in Fds : IsOpen(fd) => client[fd].page \in Pages
  BY ClientType
<1>3. Attached'
  BY <1>1, <1>2 DEF Wired, Attached, SameAt
<1>4. Blanks'
  BY DEF Wired, Blanks, SameAt
<1>5. Greeting'
  <2> SUFFICES ASSUME NEW fd \in Fds, IsOpen(fd), ~client[fd].handshake
               PROVE  client[fd].currentMatch = NULL /\ Greets(client[fd].page)'
    BY <1>1 DEF Greeting
  <2>1. PICK q \in Pages : q = client[fd].page
    BY <1>2
  <2>2. /\ link[q] \in {"up", "fin", "rst"}
        /\ client[fd].currentMatch = NULL /\ Greets(q)
    BY <2>1 DEF Wired, Attached, Greeting
  <2>3. Greets(q)'
    BY <2>2 DEF SameAt, Greets
  <2> QED
    BY <2>1, <2>2, <2>3
<1>6. Rests'
  BY DEF Wired, Rests, SameAt
<1>7. Pointers' /\ FreshIds'
  BY <1>1 DEF Wired, Pointers, PointerOK, FreshIds, Owns, Live, Seat
<1> QED
  BY <1>3, <1>4, <1>5, <1>6, <1>7 DEF Wired
-----------------------------------------------------------------------------
(* A step of a page whose connection is not up changes no player's page. *)
LEMMA PageStep ==
  ASSUME TypeOK, Wired, Orderly, UNCHANGED serverVars,
         NEW p \in Pages, \A r \in Pages : r # p => SameAt(r),
         link[p] \in {"fin", "rst"} => SameAt(p),
         link'[p] \in {"none", "syn"} => page'[p] = FreshPage /\ s2c'[p] = <<>>,
         link'[p] = "syn" => c2s'[p] \in Requests,
         link'[p] = "up" => link[p] = "up",
         link'[p] \in {"fin", "rst"} => link[p] \in {"up", link'[p]},
         AskedLast(c2s'[p]),
         link[p] = "up" => /\ PageEvent(p)
                           /\ link'[p] = "up" => Convo(page'[p], c2s'[p], s2c'[p])
                           /\ link'[p] # "up" => page'[p] = FreshPage /\ s2c'[p] = <<>>
                           /\ Greets(p) => Greets(p)'
  PROVE  Wired' /\ Orderly'
<1>1. /\ heap' = heap /\ client' = client /\ outcome' = outcome /\ match_id' = match_id
  BY DEF serverVars
<1>2. Orderly'
  <2>1. Attached
    BY DEF Wired
  <2>2. link[p] \in {"up", "fin", "rst"} => SameAt(p) \/ PageEvent(p)
    OBVIOUS
  <2> QED
    BY <1>1, <2>1, <2>2, PageOrderly
<1>3. link[p] = "up" => link'[p] \in {"up", "fin", "rst"}
  BY DEF PageEvent, Weakens
<1>4. link'[p] \in {"none", "syn", "fin", "rst"} => page'[p] = FreshPage /\ s2c'[p] = <<>>
  <2>1. CASE link[p] = "up"
    BY <2>1
  <2>2. CASE link'[p] \in {"fin", "rst"} /\ link[p] # "up"
    <3>1. SameAt(p) /\ link[p] = link'[p]
      BY <2>2
    <3> QED
      BY <2>2, <3>1 DEF Wired, Blanks, SameAt
  <2> QED
    BY <2>1, <2>2
<1>5. link'[p] = "up" => Convo(page'[p], c2s'[p], s2c'[p])
  OBVIOUS
<1>6. link[p] = "up" /\ Greets(p) => Greets(p)'
  OBVIOUS
<1>7. Wired'
  BY <1>1, <1>3, <1>4, <1>5, <1>6, PageWired
<1> QED
  BY <1>2, <1>7

LEMMA FreshPageIdle == ~FreshPage.lobby /\ ~FreshPage.turn /\ ~FreshPage.open
BY DEF FreshPage

LEMMA PageQueues ==
  ASSUME TypeOK, NEW p \in Pages
  PROVE  page[p] \in PageStates /\ c2s[p] \in Seq(PageFrames) /\ s2c[p] \in Seq(ServerFrames)
BY DEF TypeOK

LEMMA ConnectKeeps ==
  ASSUME TypeOK, Wired, Orderly, NEW p \in Pages, Connect(p), UNCHANGED serverVars
  PROVE  Wired' /\ Orderly'
<1>1. link[p] = "none" /\ link'[p] = "syn"
  BY DEF Connect, TypeOK
<1>2. page'[p] = FreshPage /\ s2c'[p] = <<>>
  BY <1>1 DEF Wired, Blanks, Connect, pageVars
<1>3. c2s'[p] \in Requests
  BY DEF Connect, TypeOK
<1>4. AskedLast(c2s'[p])
  BY <1>3, PageAssumption DEF AskedLast, Whole, Cut, Plain, Asks
<1>5. \A r \in Pages : r # p => SameAt(r)
  BY DEF Connect, TypeOK, SameAt, pageVars
<1> QED
  BY <1>1, <1>2, <1>3, <1>4, <1>5, PageStep

(* A tab that is closed and a process that goes away. *)
LEMMA LeavingKeeps ==
  ASSUME TypeOK, Wired, Orderly, NEW p \in Pages, CloseTab(p) \/ Vanish(p),
         UNCHANGED serverVars
  PROVE  Wired' /\ Orderly'
<1>1. Disconnect(p)
  BY DEF CloseTab, Vanish
<1>2. page'[p] = FreshPage /\ s2c'[p] = <<>>
  BY <1>1 DEF Disconnect, TypeOK
<1>3. \/ link[p] = "up" /\ link'[p] \in {"fin", "rst"}
      \/ link[p] \in {"down", "gone"} /\ link'[p] = "none"
  BY <1>1 DEF Disconnect, TypeOK
<1>4. \A r \in Pages : r # p => SameAt(r)
  BY <1>1 DEF Disconnect, CloseTab, Vanish, socket_send, TypeOK, SameAt
<1>5. \/ c2s'[p] = c2s[p]
      \/ page[p].open /\ link[p] = "up" /\ c2s'[p] = Append(c2s[p], [code |-> "CLOSE"])
  BY DEF CloseTab, Vanish, socket_send, TypeOK
<1>6. AskedLast(c2s[p])
  BY DEF Wired, Rests
<1>7. CASE link[p] = "up"
  <2>1. PICK l \in {"fin", "rst"} : l = link'[p]
    BY <1>3, <1>7
  <2>2. PICK r : r = c2s'[p]
    OBVIOUS
  <2>3. /\ AskedLast(r)
        /\ \A m, s, o : Engaged(page[p], c2s[p], s2c[p], "up", m, s, o) =>
             /\ Engaged(FreshPage, r, <<>>, l, m, s, o)
             /\ Agrees(page[p], c2s[p], s2c[p], "up", m, s) => Agrees(FreshPage, r, <<>>, l, m, s)
    <3>1. r = c2s[p] \/ r = Append(c2s[p], [code |-> "CLOSE"])
      BY <1>5, <2>2
    <3>2. PICK pg \in PageStates, cq \in Seq(PageFrames), sq \in Seq(ServerFrames) :
            pg = page[p] /\ cq = c2s[p] /\ sq = s2c[p]
      BY PageQueues
    <3>3. /\ AskedLast(r)
          /\ \A m, s, o : Engaged(pg, cq, sq, "up", m, s, o) =>
               /\ Engaged(FreshPage, r, <<>>, l, m, s, o)
               /\ Agrees(pg, cq, sq, "up", m, s) => Agrees(FreshPage, r, <<>>, l, m, s)
      BY <1>6, <3>1, <3>2, LeavingPage
    <3> QED
      BY <3>2, <3>3
  <2>4. PageEvent(p)
    BY <1>2, <1>7, <2>1, <2>2, <2>3 DEF PageEvent, Weakens
  <2>5. Greets(p) => Greets(p)'
    BY <1>2, <1>5, FreshPageIdle DEF Greets
  <2> QED
    BY <1>2, <1>4, <1>7, <2>1, <2>2, <2>3, <2>4, <2>5, PageStep
<1>8. CASE link[p] # "up"
  <2>1. AskedLast(c2s'[p])
    BY <1>5, <1>6, <1>8
  <2> QED
    BY <1>2, <1>3, <1>4, <1>8, <2>1, PageStep
<1> QED
  BY <1>7, <1>8

LEMMA OncloseKeeps ==
  ASSUME TypeOK, Wired, Orderly, NEW p \in Pages, onclose(p), UNCHANGED serverVars
  PROVE  Wired' /\ Orderly'
<1>1. link[p] = "down" /\ link'[p] = "gone" /\ c2s' = c2s
  BY DEF onclose, TypeOK
<1>2. \A r \in Pages : r # p => SameAt(r)
  BY DEF onclose, TypeOK, SameAt
<1>3. AskedLast(c2s'[p])
  BY <1>1 DEF Wired, Rests
<1> QED
  BY <1>1, <1>2, <1>3, PageStep

LEMMA OnmessageKeeps ==
  ASSUME TypeOK, Wired, Orderly, NEW p \in Pages, onmessage(p), UNCHANGED serverVars
  PROVE  Wired' /\ Orderly'
<1>1. /\ link[p] \in {"up", "down"} /\ s2c[p] # <<>> /\ link' = link /\ c2s' = c2s
      /\ s2c'[p] = Tail(s2c[p]) /\ page'[p] = AfterFrame(page[p], Head(s2c[p]))
  BY DEF onmessage, TypeOK
<1>2. \A r \in Pages : r # p => SameAt(r)
  BY DEF onmessage, TypeOK, SameAt
<1>3. AskedLast(c2s'[p])
  BY <1>1 DEF Wired, Rests
<1>4. CASE link[p] = "up"
  <2>1. Convo(page[p], c2s[p], s2c[p])
    BY <1>4 DEF Wired, Rests
  <2>2. Convo(page'[p], c2s'[p], s2c'[p])
    BY <1>1, <2>1, PageQueues, MessageConvo
  <2>3. PageEvent(p)
    BY <1>1, <1>4, <2>1, PageQueues, MessageEngaged DEF PageEvent, Weakens
  <2>4. ~Greets(p)
    BY <1>1 DEF Greets
  <2> QED
    BY <1>1, <1>2, <1>3, <1>4, <2>2, <2>3, <2>4, PageStep
<1> QED
  BY <1>1, <1>2, <1>3, <1>4, PageStep

(* The buttons of the lobby. *)
LEMMA AskingKeeps ==
  ASSUME TypeOK, Wired, Orderly, NEW p \in Pages, UNCHANGED serverVars,
         create_click(p) \/ \E id \in Ids : join_click(p, id)
  PROVE  Wired' /\ Orderly'
<1>1. PICK f \in PageFrames, mark \in Marks :
        /\ (f.code = "CREATE_MATCH" /\ mark = "X") \/ (f.code = "JOIN_MATCH" /\ mark = "O")
        /\ page[p].lobby /\ page' = [page EXCEPT ![p] = Asking(@, mark)]
        /\ socket_send(p, f) /\ UNCHANGED <<link, s2c>>
  <2>1. CASE create_click(p)
    <3>1. [code |-> "CREATE_MATCH"] \in PageFrames /\ "X" \in Marks
      BY DEF PageFrames, Marks
    <3> QED
      BY <2>1, <3>1 DEF create_click
  <2>2. ASSUME NEW id \in Ids, join_click(p, id)
        PROVE  \E f \in PageFrames, mark \in Marks :
          /\ (f.code = "CREATE_MATCH" /\ mark = "X") \/ (f.code = "JOIN_MATCH" /\ mark = "O")
          /\ page[p].lobby /\ page' = [page EXCEPT ![p] = Asking(@, mark)]
          /\ socket_send(p, f) /\ UNCHANGED <<link, s2c>>
    <3>1. [code |-> "JOIN_MATCH", message |-> id] \in PageFrames /\ "O" \in Marks
      BY DEF PageFrames, Marks
    <3> QED
      BY <2>2, <3>1 DEF join_click
  <2> QED
    BY <2>1, <2>2
<1>2. \A r \in Pages : r # p => SameAt(r)
  BY <1>1 DEF socket_send, TypeOK, SameAt
<1>3. page'[p] = Asking(page[p], mark) /\ link' = link /\ s2c' = s2c
  BY <1>1 DEF TypeOK
<1>4. AskedLast(c2s[p]) /\ page[p] # FreshPage /\ ~Greets(p)
  BY <1>1, FreshPageIdle DEF Wired, Rests, Greets
<1>5. link[p] \notin {"none", "syn", "fin", "rst"}
  BY <1>4 DEF Wired, Blanks
<1>6. CASE link[p] = "up"
  <2>1. Convo(page[p], c2s[p], s2c[p])
    BY <1>6 DEF Wired, Rests
  <2>2. c2s'[p] = Append(c2s[p], f)
    BY <1>1, <1>6 DEF socket_send, TypeOK
  <2>3. /\ Convo(page'[p], c2s'[p], s2c[p]) /\ AskedLast(c2s'[p])
        /\ \A m, s, o : Engaged(page[p], c2s[p], s2c[p], "up", m, s, o) =>
                          Engaged(page'[p], c2s'[p], s2c[p], "up", m, s, o) /\ ~o
    BY <1>1, <1>3, <1>4, <2>1, <2>2, PageQueues, AskingPage
  <2>4. PageEvent(p)
    BY <1>3, <1>6, <2>3 DEF PageEvent, Weakens
  <2> QED
    BY <1>2, <1>3, <1>4, <1>6, <2>3, <2>4, PageStep
<1>7. CASE link[p] # "up"
  <2>1. c2s' = c2s
    BY <1>1, <1>7 DEF socket_send
  <2> QED
    BY <1>2, <1>3, <1>4, <1>5, <1>7, <2>1, PageStep
<1> QED
  BY <1>6, <1>7

LEMMA ClickKeeps ==
  ASSUME TypeOK, Wired, Orderly, NEW p \in Pages, NEW c \in Cells, handleMove(p, c),
         UNCHANGED serverVars
  PROVE  Wired' /\ Orderly'
<1>1. PICK f \in PageFrames :
        /\ f.code \in {"MOVE", "MOVE_INCOMPLETE"}
        /\ page[p].player # Undef /\ page[p].mid # NoId =>
             f = [code |-> "MOVE", player |-> page[p].player, message |-> c]
        /\ socket_send(p, f)
  <2>1. CASE page[p].player # Undef /\ page[p].mid # NoId
    <3>1. page[p].player \in Marks
      BY <2>1 DEF TypeOK, PageStates
    <3>2. [code |-> "MOVE", player |-> page[p].player, message |-> c] \in PageFrames
      BY <3>1 DEF PageFrames
    <3> QED
      BY <2>1, <3>2 DEF handleMove
  <2>2. CASE ~(page[p].player # Undef /\ page[p].mid # NoId)
    <3>1. [code |-> "MOVE_INCOMPLETE"] \in PageFrames
      BY DEF PageFrames
    <3> QED
      BY <2>2, <3>1 DEF handleMove
  <2> QED
    BY <2>1, <2>2
<1>2. /\ page[p].turn /\ page[p].view[c] = Blank
      /\ page' = [page EXCEPT ![p] = Clicked(@, c)] /\ UNCHANGED <<link, s2c>>
  BY DEF handleMove
<1>3. \A r \in Pages : r # p => SameAt(r)
  BY <1>1, <1>2 DEF socket_send, TypeOK, SameAt
<1>4. page'[p] = Clicked(page[p], c) /\ link' = link /\ s2c' = s2c
  BY <1>2 DEF TypeOK
<1>5. AskedLast(c2s[p]) /\ page[p] # FreshPage /\ ~Greets(p)
  BY <1>2, FreshPageIdle DEF Wired, Rests, Greets
<1>6. link[p] \notin {"none", "syn", "fin", "rst"}
  BY <1>5 DEF Wired, Blanks
<1>7. CASE link[p] = "up"
  <2>1. Convo(page[p], c2s[p], s2c[p])
    BY <1>7 DEF Wired, Rests
  <2>2. c2s'[p] = Append(c2s[p], f)
    BY <1>1, <1>7 DEF socket_send, TypeOK
  <2>3. Convo(page'[p], c2s'[p], s2c[p]) /\ AskedLast(c2s'[p])
    BY <1>1, <1>2, <1>4, <1>5, <2>1, <2>2, PageQueues, ClickConvo
  <2>4. ASSUME NEW m \in MatchStates, NEW s \in Marks, NEW o \in BOOLEAN,
               Engaged(page[p], c2s[p], s2c[p], "up", m, s, o)
        PROVE  /\ Engaged(page'[p], c2s'[p], s2c[p], "up", m, s, o)
               /\ Token(page'[p], c2s'[p], s2c[p], s)
               /\ Agrees(page[p], c2s[p], s2c[p], "up", m, s) =>
                    Agrees(page'[p], c2s'[p], s2c[p], "up", m, s)
    BY <1>1, <1>2, <1>4, <2>2, <2>4, PageQueues, ClickEngaged
  <2>5. PageEvent(p)
    BY <1>4, <1>7, <2>4 DEF PageEvent, Weakens
  <2> QED
    BY <1>3, <1>4, <1>5, <1>7, <2>3, <2>5, PageStep
<1>8. CASE link[p] # "up"
  <2>1. c2s' = c2s
    BY <1>1, <1>8 DEF socket_send
  <2> QED
    BY <1>3, <1>4, <1>5, <1>6, <1>8, <2>1, PageStep
<1> QED
  BY <1>7, <1>8

LEMMA PageKeeps ==
  ASSUME TypeOK, Wired, Orderly, PageNext, UNCHANGED serverVars
  PROVE  Wired' /\ Orderly'
BY ConnectKeeps, LeavingKeeps, OncloseKeeps, OnmessageKeeps, AskingKeeps, ClickKeeps DEF PageNext
-----------------------------------------------------------------------------
(***************************************************************************)
(* What the sends of a handler do, when nothing stray comes of them.       *)
(***************************************************************************)
(* A frame is accepted for page p: a page that has left may answer with a  *)
(* reset.                                                                  *)
Reaches(l, s, l2, s2, p, f) ==
  \/ l[p] = "up" /\ l2 = l /\ s2 = [s EXCEPT ![p] = Append(@, f)]
  \/ l[p] = "fin" /\ s2 = s /\ (l2 = l \/ l2 = [l EXCEPT ![p] = "rst"])

Accepted(t, u, p, f) ==
  /\ u.last = "ok" /\ u.sent = t.sent + 1 /\ ~t.stray
  /\ Reaches(t.link, t.s2c, u.link, u.s2c, p, f)

Failed(t, u) ==
  /\ u.last # "ok" /\ u.sent = t.sent /\ ~t.stray
  /\ u.link = t.link /\ u.s2c = t.s2c

LEMMA SendResult ==
  ASSUME NEW t \in Traces, NEW p \in Pages, NEW f, NEW u \in send(t, p, f), ~u.stray
  PROVE  /\ t.link[p] \in {"up", "fin"} => Accepted(t, u, p, f)
         /\ t.link[p] \notin {"up", "fin"} => Failed(t, u)
<1>1. CASE t.link[p] = "up"
  <2>1. u = SendOk([t EXCEPT !.s2c[p] = Append(@, f)])
    BY <1>1 DEF send
  <2>2. /\ u.link = t.link /\ u.s2c = [t.s2c EXCEPT ![p] = Append(@, f)] /\ u.stray = t.stray
        /\ u.sent = t.sent + 1 /\ u.last = "ok"
    BY <2>1 DEF SendOk, Traces
  <2> QED
    BY <1>1, <2>2 DEF Accepted, Reaches
<1>2. CASE t.link[p] = "fin"
  <2>1. u = SendOk(t) \/ u = SendOk([t EXCEPT !.link[p] = "rst"])
    BY <1>2 DEF send
  <2>2. /\ u.link = t.link \/ u.link = [t.link EXCEPT ![p] = "rst"]
        /\ u.s2c = t.s2c /\ u.stray = t.stray
        /\ u.sent = t.sent + 1 /\ u.last = "ok"
    BY <2>1 DEF SendOk, Traces
  <2> QED
    BY <1>2, <2>2 DEF Accepted, Reaches
<1>3. CASE t.link[p] \notin {"up", "fin"}
  <2>1. u \in {[t EXCEPT !.last = "failed"], [t EXCEPT !.last = "killed"]}
    BY <1>3 DEF send
  <2>2. /\ u.last # "ok" /\ u.sent = t.sent /\ u.stray = t.stray
        /\ u.link = t.link /\ u.s2c = t.s2c
    BY <2>1 DEF Traces
  <2> QED
    BY <1>3, <2>2 DEF Failed
<1> QED
  BY <1>1, <1>2, <1>3

(* A frame for the player with mark of match a, whose descriptor is to.    *)
LEMMA ResponseResult ==
  ASSUME NEW t \in Traces, NEW clients \in ClientTables, NEW a, NEW mark, NEW to, NEW f,
         NEW u \in send_response(t, clients, a, mark, to, f), ~u.stray
  PROVE  \/ /\ to \in Fds /\ clients[to] # NoClient /\ IsPlayer(clients[to], a, mark)
            /\ t.link[clients[to].page] \in {"up", "fin"}
            /\ Accepted(t, u, clients[to].page, f)
         \/ /\ to \in Fds /\ clients[to] # NoClient =>
                 /\ IsPlayer(clients[to], a, mark)
                 /\ t.link[clients[to].page] \notin {"up", "fin"}
            /\ Failed(t, u)
<1>1. CASE to \in Fds /\ clients[to] # NoClient
  <2>1. PICK p \in Pages : p = clients[to].page
    BY <1>1 DEF ClientTables, ClientStates
  <2>2. PICK b \in BOOLEAN : b = IsPlayer(clients[to], a, mark)
    BY DEF IsPlayer, Owns
  <2>3. PICK v : v = [t EXCEPT !.stray = @ \/ ~b]
    OBVIOUS
  <2>4. /\ v \in Traces /\ v.link = t.link /\ v.s2c = t.s2c /\ v.sent = t.sent
        /\ v.stray = (t.stray \/ ~b)
    BY <2>3 DEF Traces
  <2>5. u \in send(v, p, f)
    BY <1>1, <2>1, <2>2, <2>3 DEF send_response
  <2>6. /\ t.link[p] \in {"up", "fin"} => Accepted(v, u, p, f)
        /\ t.link[p] \notin {"up", "fin"} => Failed(v, u)
    BY <2>4, <2>5, SendResult
  <2>7. ~v.stray
    BY <2>6 DEF Accepted, Failed
  <2>8. ~t.stray /\ b
    BY <2>4, <2>7 DEF Traces
  <2> QED
    BY <1>1, <2>1, <2>2, <2>4, <2>6, <2>8 DEF Accepted, Failed
<1>2. CASE ~(to \in Fds /\ clients[to] # NoClient)
  <2>1. u = [t EXCEPT !.last = "failed"]
    BY <1>2 DEF send_response
  <2>2. /\ u.last # "ok" /\ u.sent = t.sent /\ u.stray = t.stray
        /\ u.link = t.link /\ u.s2c = t.s2c
    BY <2>1 DEF Traces
  <2> QED
    BY <1>2, <2>2 DEF Failed
<1> QED
  BY <1>1, <1>2

LEMMA ThenSendResult ==
  ASSUME NEW ts, NEW clients, NEW a, NEW mark, NEW to, NEW f,
         NEW u \in ThenSend(ts, clients, a, mark, to, f)
  PROVE  \E t \in ts : \/ t.last = "ok" /\ u \in send_response(t, clients, a, mark, to, f)
                       \/ t.last # "ok" /\ u = t
BY DEF ThenSend

LEMMA TraceIs ==
  /\ Trace.link = link /\ Trace.s2c = s2c /\ Trace.sent = 0 /\ Trace.last = "ok"
  /\ ~Trace.stray
BY DEF Trace

(* The server's record of a fault, while there is none. *)
LEMMA CalmFault ==
  ASSUME NEW c, NEW t \in Traces, fault = "none", fault' = "none"
  PROVE  /\ StrayFault(t) => ~t.stray
         /\ PtrFault(c, t) => ~t.stray /\ ~Aliasing(c)
         /\ fault' # Noting("undefined")
BY DEF StrayFault, PtrFault, Noting, Traces
-----------------------------------------------------------------------------
(***************************************************************************)
(* What the server's handlers do to one page's queues.                     *)
(***************************************************************************)
LEMMA NoneIsLast ==
  ASSUME NEW q, NEW codes, ~Has(q, codes)
  PROVE  OnlyLast(q, codes)
BY DEF Has, Queued, OnlyLast

(* A frame is sent to a page that is in the middle of a match. *)
LEMMA AppendConvo ==
  ASSUME NEW pg, NEW cq, NEW sq \in Seq(ServerFrames), NEW f \in ServerFrames,
         Convo(pg, cq, sq), ~Resting(pg, cq, sq), f.code \notin Refusals
  PROVE  Convo(pg, cq, Append(sq, f))
<1> DEFINE r == Append(sq, f)
<1>1. /\ \A codes : Has(r, codes) <=> Has(sq, codes) \/ f.code \in codes
      /\ \A codes : ~Has(sq, codes) => OnlyLast(r, codes)
  BY AppendQueue
<1> HIDE DEF r
<1>2. ~pg.lobby /\ ~Has(cq, Asks) /\ ~Has(sq, Ends)
  BY DEF Resting
<1>3. ~Has(sq, Refusals)
  BY <1>2 DEF Has, Ends
<1>4. ~Has(r, Refusals) /\ OnlyLast(r, Ends)
  BY <1>1, <1>2, <1>3
<1>5. Convo(pg, cq, r)
  BY <1>2, <1>4 DEF Convo
<1> QED
  BY <1>5 DEF r

(* Frames are received. *)
LEMMA DropConvo ==
  ASSUME NEW pg, NEW cq \in Seq(PageFrames), NEW sq, NEW n \in 1 .. Len(cq),
         Convo(pg, cq, sq)
  PROVE  Convo(pg, SubSeq(cq, n + 1, Len(cq)), sq)
<1> DEFINE r == SubSeq(cq, n + 1, Len(cq))
<1>1. /\ Queued(r) \subseteq Queued(cq)
      /\ \A codes : Has(r, codes) => Has(cq, codes)
      /\ \A codes : OnlyLast(cq, codes) => OnlyLast(r, codes)
  BY DropQueue
<1> HIDE DEF r
<1>2. Convo(pg, r, sq)
  BY <1>1 DEF Convo
<1> QED
  BY <1>2 DEF r

(* A request is received and answered. *)
LEMMA AnswerConvo ==
  ASSUME NEW pg, NEW cq \in Seq(PageFrames), NEW sq \in Seq(ServerFrames),
         NEW n \in 1 .. Len(cq), NEW f \in ServerFrames, Head(cq).code \in Asks,
         f.code \in Tells \cup {"MATCH_JOIN_FAILED"}, Convo(pg, cq, sq)
  PROVE  Convo(pg, SubSeq(cq, n + 1, Len(cq)), Append(sq, f))
<1> DEFINE r == SubSeq(cq, n + 1, Len(cq))
           a == Append(sq, f)
<1>1. /\ Head(cq) \in Queued(cq)
      /\ \A codes : OnlyLast(cq, codes) => (Head(cq).code \in codes => r = <<>>)
  BY DropQueue
<1>2. Has(cq, Asks)
  BY <1>1 DEF Has
<1>3. r = <<>> /\ ~pg.lobby /\ sq = <<>> /\ Cleared(pg)
  BY <1>1, <1>2 DEF Convo
<1>4. Len(a) = 1 /\ (\A codes : ~Has(sq, codes) => OnlyLast(a, codes))
  <2>1. Len(sq) = 0
    BY <1>3
  <2>2. /\ Len(a) = Len(sq) + 1
        /\ \A codes : ~Has(sq, codes) => OnlyLast(a, codes)
    BY AppendQueue
  <2> HIDE DEF a
  <2> QED
    BY <2>1, <2>2
<1>5. /\ \A codes : ~Has(<<>>, codes) /\ OnlyLast(<<>>, codes)
      /\ Queued(<<>>) = {}
  BY EmptyQueue
<1> HIDE DEF r, a
<1>6. Convo(pg, r, a)
  BY <1>3, <1>4, <1>5 DEF Convo
<1> QED
  BY <1>6 DEF r, a

(* The frame of a player's move is received. *)
LEMMA MoveReceived ==
  ASSUME NEW pg, NEW cq \in Seq(PageFrames), NEW sq, NEW l, NEW m, NEW s, NEW o,
         NEW n \in 1 .. Len(cq), Head(cq).code = "MOVE", Engaged(pg, cq, sq, l, m, s, o)
  PROVE  LET r == SubSeq(cq, n + 1, Len(cq))
         IN  /\ Engaged(pg, r, sq, l, m, s, o)
             /\ ~Resting(pg, cq, sq) /\ ~Resting(pg, r, sq)
             /\ ~pg.turn /\ sq = <<>> /\ ~Has(r, {"MOVE"}) /\ m.players # 1
             /\ Head(cq) \in Queued(cq) /\ Head(cq).player = s
<1> DEFINE r == SubSeq(cq, n + 1, Len(cq))
<1>1. /\ Queued(r) \subseteq Queued(cq) /\ Head(cq) \in Queued(cq)
      /\ \A codes : Has(r, codes) => Has(cq, codes)
      /\ MovesOnce(cq) => MovesOnce(r)
      /\ MovesOnce(cq) /\ Head(cq).code = "MOVE" => ~Has(r, {"MOVE"})
  BY DropQueue
<1> SUFFICES /\ Engaged(pg, r, sq, l, m, s, o)
             /\ ~Resting(pg, cq, sq) /\ ~Resting(pg, r, sq)
             /\ ~pg.turn /\ sq = <<>> /\ ~Has(r, {"MOVE"}) /\ m.players # 1
             /\ Head(cq) \in Queued(cq) /\ Head(cq).player = s
  OBVIOUS
<1> HIDE DEF r
<1>2. Has(cq, {"MOVE"})
  BY <1>1 DEF Has
<1>3. /\ ~Resting(pg, cq, sq) /\ ~pg.turn /\ sq = <<>> /\ m.players # 1
      /\ Head(cq).player = s /\ MovesOnce(cq)
  BY <1>1, <1>2 DEF Engaged, Token
<1>4. ~Resting(pg, r, sq)
  BY <1>1, <1>3 DEF Resting
<1>5. Engaged(pg, r, sq, l, m, s, o)
  BY <1>1, <1>3, <1>4 DEF Engaged
<1> QED
  BY <1>1, <1>3, <1>4, <1>5

(* A request to join is refused, also that of a page that still has a seat *)
(* in a match that has ended.                                              *)
LEMMA RefusedEngaged ==
  ASSUME NEW pg, NEW cq \in Seq(PageFrames), NEW sq \in Seq(ServerFrames),
         NEW n \in 1 .. Len(cq), NEW f \in ServerFrames, f.code = "MATCH_JOIN_FAILED",
         Head(cq).code \in Asks, NEW l, NEW l2, NEW m, NEW s, NEW o,
         Engaged(pg, cq, sq, l, m, s, o), NEW a, a = Append(sq, f) \/ (a = sq /\ l2 # "up")
  PROVE  Engaged(pg, SubSeq(cq, n + 1, Len(cq)), a, l2, m, s, o) /\ ~o
<1> DEFINE r == SubSeq(cq, n + 1, Len(cq))
<1>1. /\ Queued(r) \subseteq Queued(cq) /\ Head(cq) \in Queued(cq)
      /\ \A codes : Has(r, codes) => Has(cq, codes)
      /\ MovesOnce(cq) => MovesOnce(r)
  BY DropQueue
<1>2. a = Append(sq, f) => \A codes : Has(a, codes) <=> Has(sq, codes) \/ f.code \in codes
  BY AppendQueue
<1> HIDE DEF r
<1>3. Has(cq, Asks)
  BY <1>1 DEF Has
<1>4. /\ m.players = 2 /\ ~o /\ ~pg.turn /\ ~Has(cq, {"MOVE"}) /\ ~Has(sq, Plays)
      /\ MovesOnce(cq)
      /\ \A g \in Queued(cq) : g.code = "MOVE" => g.player = s
  BY <1>3 DEF Engaged, Resting
<1>5. ~Has(a, Plays)
  BY <1>2, <1>4 DEF Plays
<1>6. ~Has(a, Starts(s))
  BY <1>5 DEF Has, Plays, Starts
<1>7. OnlyLast(a, Starts(s))
  BY <1>6, NoneIsLast
<1>8. l2 = "up" => Resting(pg, r, a)
  BY <1>2 DEF Resting, Ends, Refusals
<1>9. ~Has(r, {"MOVE"})
  BY <1>1, <1>4
<1>10. Engaged(pg, r, a, l2, m, s, o)
  BY <1>1, <1>4, <1>5, <1>7, <1>8, <1>9 DEF Engaged
<1> QED
  BY <1>4, <1>10 DEF r
-----------------------------------------------------------------------------
(***************************************************************************)
(* The connections after a handler.                                        *)
(***************************************************************************)
Network == Attached /\ Blanks /\ Greeting /\ Rests

(* A handler that keeps its own descriptor open. *)
LEMMA HandlerNetwork ==
  ASSUME TypeOK, Network, page' = page, NEW fd \in Fds, IsOpen(fd), IsOpen(fd)',
         client'[fd].page = client[fd].page,
         \A g \in Fds : g # fd => client'[g] = client[g],
         \A r \in Pages : link'[r] = link[r] \/ (link[r] = "fin" /\ link'[r] = "rst"),
         \A r \in Pages : link[r] # "up" => s2c'[r] = s2c[r],
         \A r \in Pages : link[r] = "syn" => c2s'[r] = c2s[r],
         \A r \in Pages : link[r] = "up" => Convo(page[r], c2s'[r], s2c'[r]),
         \A r \in Pages : AskedLast(c2s'[r]),
         \A g \in Fds : IsOpen(g) /\ ~client'[g].handshake =>
           client'[g].currentMatch = NULL /\ Greets(client[g].page)'
  PROVE  Network'
<1>1. \A g \in Fds : /\ IsOpen(g)' = IsOpen(g) /\ client'[g].page = client[g].page
  BY DEF IsOpen
<1>2. \A g \in Fds : IsOpen(g) => client[g].page \in Pages
  BY ClientType
<1>3. Attached'
  BY <1>1, <1>2 DEF Network, Attached
<1>4. Blanks'
  BY DEF Network, Blanks
<1>5. Greeting'
  BY <1>1 DEF Greeting
<1>6. Rests'
  BY DEF Rests
<1> QED
  BY <1>3, <1>4, <1>5, <1>6 DEF Network

(* A handler that closes its own descriptor. *)
LEMMA CloseNetwork ==
  ASSUME TypeOK, Network, page' = page, NEW fd \in Fds, IsOpen(fd),
         NEW l \in [Pages -> Links], close_connection(fd, client, l),
         \A r \in Pages : l[r] = link[r] \/ (link[r] = "fin" /\ l[r] = "rst"),
         \A r \in Pages : link[r] # "up" => s2c'[r] = s2c[r],
         \A r \in Pages : r # client[fd].page /\ link[r] = "up" => Convo(page[r], c2s[r], s2c'[r]),
         \A g \in Fds : g # fd /\ IsOpen(g) /\ ~client[g].handshake =>
           s2c'[client[g].page] = s2c[client[g].page]
  PROVE  /\ Network'
         /\ client' = [client EXCEPT ![fd] = NoClient]
         /\ \A r \in Pages : r # client[fd].page => link'[r] = l[r] /\ c2s'[r] = c2s[r]
<1> DEFINE p == client[fd].page
<1>1. p \in Pages /\ link[p] \in {"up", "fin", "rst"}
  BY ClientType DEF Network, Attached
<1>2. /\ client' = [client EXCEPT ![fd] = NoClient]
      /\ link' = [l EXCEPT ![p] = Closed(@)]
      /\ c2s' = [c2s EXCEPT ![p] = <<>>]
  BY DEF close_connection
<1>3. /\ \A r \in Pages : r # p => link'[r] = l[r] /\ c2s'[r] = c2s[r]
      /\ c2s'[p] = <<>>
      /\ link'[p] = "down" \/ (link'[p] = "none" /\ link[p] # "up")
  <2>1. l[p] = "up" => link'[p] = "down"
    BY <1>1, <1>2 DEF Closed
  <2>2. l[p] # "up" => link'[p] = "none" /\ link[p] # "up"
    BY <1>1, <1>2 DEF Closed
  <2>3. /\ \A r \in Pages : r # p => link'[r] = l[r] /\ c2s'[r] = c2s[r]
        /\ c2s'[p] = <<>>
    BY <1>1, <1>2 DEF TypeOK
  <2> QED
    BY <2>1, <2>2, <2>3
<1>4. \A g \in Fds : IsOpen(g)' => IsOpen(g) /\ g # fd /\ client'[g] = client[g]
  BY <1>2 DEF IsOpen, TypeOK
<1>5. \A g \in Fds : IsOpen(g) => client[g].page \in Pages
  BY ClientType
<1>6. \A g \in Fds : IsOpen(g)' => client[g].page # p
  BY <1>4 DEF Network, Attached
<1> HIDE DEF p
<1>7. Attached'
  BY <1>3, <1>4, <1>5, <1>6 DEF Network, Attached
<1>8. Blanks'
  <2> SUFFICES ASSUME NEW r \in Pages
               PROVE  /\ link'[r] \in {"none", "syn", "fin", "rst"} =>
                           page'[r] = FreshPage /\ s2c'[r] = <<>>
                      /\ link'[r] = "syn" => c2s'[r] \in Requests
    BY DEF Blanks
  <2>1. CASE r = p
    BY <1>1, <1>3, <2>1 DEF Network, Blanks
  <2>2. CASE r # p
    BY <1>3, <2>2 DEF Network, Blanks
  <2> QED
    BY <2>1, <2>2
<1>9. Greeting'
  <2> SUFFICES ASSUME NEW g \in Fds, IsOpen(g)', ~client'[g].handshake
               PROVE  client'[g].currentMatch = NULL /\ Greets(client[g].page)'
    BY DEF Greeting
  <2>1. IsOpen(g) /\ g # fd /\ client'[g] = client[g] /\ client[g].page # p
    BY <1>4, <1>6
  <2>2. PICK q \in Pages : q = client[g].page
    BY <1>5, <2>1
  <2>3. client[g].currentMatch = NULL /\ Greets(q)
    BY <2>1, <2>2 DEF Network, Greeting
  <2>4. s2c'[q] = s2c[q] /\ c2s'[q] = c2s[q]
    BY <1>3, <2>1, <2>2
  <2>5. Greets(q)'
    BY <2>3, <2>4 DEF Greets
  <2> QED
    BY <2>1, <2>2, <2>3, <2>5
<1>10. Rests'
  BY <1>1, <1>3, EmptyQueue DEF Network, Rests, p
<1> QED
  BY <1>2, <1>3, <1>7, <1>8, <1>9, <1>10 DEF Network, p
-----------------------------------------------------------------------------
(* A new connection. *)
LEMMA AcceptKeeps ==
  ASSUME TypeOK, Wired, Orderly, NEW p \in Pages, Accept(p), UNCHANGED pageVars
  PROVE  Wired' /\ Orderly'
<1>1. PICK fd \in Fds : ~IsOpen(fd) /\ client' = [client EXCEPT ![fd] = createClient(p)]
  BY DEF Accept
<1>2. /\ link[p] = "syn" /\ link'[p] = "up" /\ \A r \in Pages : r # p => link'[r] = link[r]
      /\ UNCHANGED <<c2s, s2c, page, heap, outcome, match_id>>
  BY DEF Accept, TypeOK, pageVars
<1>3. /\ client'[fd] = createClient(p) /\ \A g \in Fds : g # fd => client'[g] = client[g]
  BY <1>1 DEF TypeOK
<1>4. /\ client'[fd].page = p /\ ~client'[fd].handshake /\ client'[fd].currentMatch = NULL
  BY <1>3 DEF createClient
<1>5. \A g \in Fds : IsOpen(g)' => g = fd \/ (g # fd /\ IsOpen(g) /\ client'[g] = client[g])
  BY <1>3 DEF IsOpen
<1>6. \A g \in Fds : IsOpen(g) => client[g].page \in Pages /\ client[g].page # p
  BY <1>2, ClientType DEF Wired, Attached
<1>7. page[p] = FreshPage /\ s2c[p] = <<>> /\ c2s[p] \in Requests
  BY <1>2 DEF Wired, Blanks
<1>8. \A f \in Queued(c2s[p]) : f.code \in Openers
  BY <1>7, PageAssumption DEF Queued, Whole, Cut, Plain, Openers
<1>9. Attached'
  BY <1>2, <1>4, <1>5, <1>6 DEF Wired, Attached
<1>10. Blanks'
  BY <1>2, <1>7 DEF Wired, Blanks
<1>11. Greeting'
  BY <1>2, <1>4, <1>5, <1>7, <1>8 DEF Wired, Greeting, Greets
<1>12. Rests'
  <2>1. ~Has(c2s[p], Asks)
    BY <1>8 DEF Has, Openers, Asks
  <2>2. OnlyLast(c2s[p], Asks)
    BY <2>1, NoneIsLast
  <2>3. \A f \in Queued(c2s[p]) : f.code \notin Asks
    BY <2>1 DEF Has
  <2>4. \A codes : ~Has(<<>>, codes) /\ OnlyLast(<<>>, codes)
    BY EmptyQueue
  <2>5. Convo(FreshPage, c2s[p], <<>>)
    BY <2>1, <2>2, <2>3, <2>4, FreshPageIdle DEF Convo, Asks
  <2> QED
    BY <1>2, <1>7, <2>5 DEF Wired, Rests
<1>13. Pointers'
  BY <1>2, <1>4, <1>5, ServerAssumption DEF Wired, Pointers, PointerOK, Owns, Live, Seat
<1>14. FreshIds'
  BY <1>2 DEF Wired, FreshIds
<1>15. Orderly'
  <2> SUFFICES ASSUME NEW b \in Addrs, Live(b) PROVE MatchOK(b)'
    BY <1>2 DEF Orderly, Live
  <2>1. \A g \in Fds : IsOpen(g)' /\ Owns(client[g], b)' =>
          IsOpen(g) /\ client'[g] = client[g] /\ SameAt(client[g].page)
    BY <1>2, <1>4, <1>5, <1>6, ServerAssumption DEF Owns, SameAt
  <2> QED
    BY <1>2, <2>1, MatchKeeps DEF Orderly
<1> QED
  BY <1>9, <1>10, <1>11, <1>12, <1>13, <1>14, <1>15 DEF Wired

(* The pointer of a client that stays, while the matches keep their players. *)
LEMMA PointerKeeps ==
  ASSUME TypeOK, Pointers, match_id' = match_id,
         \A b \in Addrs : Live(b)' => /\ Live(b) /\ heap'[b].matchID = heap[b].matchID
                                      /\ heap'[b].playerX = heap[b].playerX
                                      /\ heap'[b].playerO # heap[b].playerO =>
                                           heap[b].playerO = NoFd,
         NEW g \in Fds, IsOpen(g),
         client'[g].currentMatch = client[g].currentMatch,
         client'[g].meant = client[g].meant, client'[g].seat = client[g].seat
  PROVE  PointerOK(g)'
<1>1. client'[g].currentMatch # NULL => client'[g].meant < match_id'
  BY DEF Pointers, PointerOK
<1>2. ASSUME NEW b \in Addrs, Owns(client[g], b)'
      PROVE  client'[g].seat \in Marks /\ Seat(b, client[g].seat)' = g
  <2>1. Live(b) /\ Live(b)' /\ Owns(client[g], b)
    BY <1>2 DEF Owns
  <2>2. client[g].seat \in Marks /\ Seat(b, client[g].seat) = g
    BY <2>1 DEF Pointers, PointerOK
  <2>3. g # NoFd
    BY ServerAssumption DEF NoFd
  <2>4. client[g].seat = "X" \/ (client[g].seat = "O" /\ heap'[b].playerO = heap[b].playerO)
    BY <2>1, <2>2, <2>3 DEF Seat, Marks
  <2> QED
    BY <2>1, <2>2, <2>4 DEF Seat
<1> QED
  BY <1>1, <1>2 DEF PointerOK

LEMMA WiredFrom ==
  ASSUME Network', Pointers', FreshIds'
  PROVE  Wired'
BY DEF Network, Wired

(* A connection that is closed, and nothing else. *)
LEMMA DropKeeps ==
  ASSUME TypeOK, Wired, Orderly, NEW fd \in Fds, IsOpen(fd), close_connection(fd, client, link),
         UNCHANGED <<s2c, page, heap, outcome, match_id>>
  PROVE  Wired' /\ Orderly'
<1>1. /\ IsOpen(fd) /\ close_connection(fd, client, link)
      /\ UNCHANGED <<s2c, page, heap, outcome, match_id>>
  OBVIOUS
<1>2. Network /\ link \in [Pages -> Links]
  BY DEF Wired, Network, TypeOK
<1>3. \A r \in Pages : link[r] = "up" => Convo(page[r], c2s[r], s2c'[r])
  BY <1>1 DEF Wired, Rests
<1>4. /\ Network'
      /\ client' = [client EXCEPT ![fd] = NoClient]
      /\ \A r \in Pages : r # client[fd].page => link'[r] = link[r] /\ c2s'[r] = c2s[r]
  BY <1>1, <1>2, <1>3, CloseNetwork
<1>5. \A g \in Fds : IsOpen(g)' => IsOpen(g) /\ g # fd /\ client'[g] = client[g]
  BY <1>4 DEF IsOpen, TypeOK
<1>6. Pointers' /\ FreshIds'
  <2>1. \A b \in Addrs : Live(b)' = Live(b)
    BY <1>1 DEF Live
  <2>2. \A g \in Fds : IsOpen(g)' => PointerOK(g)'
    BY <1>1, <1>5, <2>1, PointerKeeps DEF Wired
  <2> QED
    BY <1>1, <2>2 DEF Wired, FreshIds, Pointers
<1>7. Orderly'
  <2> SUFFICES ASSUME NEW b \in Addrs, Live(b) PROVE MatchOK(b)'
    BY <1>1 DEF Orderly, Live
  <2>1. \A g \in Fds : IsOpen(g)' => /\ IsOpen(g) /\ client'[g] = client[g]
                                     /\ client[g].page # client[fd].page /\ client[g].page \in Pages
    BY <1>1, <1>5, ClientType DEF Wired, Attached
  <2>2. \A g \in Fds : IsOpen(g)' => SameAt(client[g].page)
    BY <1>1, <1>4, <2>1 DEF SameAt
  <2> QED
    BY <1>1, <2>1, <2>2, MatchKeeps DEF Orderly
<1> QED
  BY <1>4, <1>6, <1>7, WiredFrom

LEMMA PeerGoneKeeps ==
  ASSUME TypeOK, Wired, Orderly, NEW fd \in Fds, PeerGone(fd), UNCHANGED pageVars
  PROVE  Wired' /\ Orderly'
BY DropKeeps DEF PeerGone, pageVars
-----------------------------------------------------------------------------
(***************************************************************************)
(* The board and the pages of the players at the server's frames.          *)
(***************************************************************************)
(* A frame for a page whose connection is in state l and whose queue is sq. *)
Told(l, sq, f, l2, a) == \/ l = "up" /\ l2 = "up" /\ a = Append(sq, f)
                         \/ l = "fin" /\ l2 \in {"fin", "rst"} /\ a = sq

(* How the player with mark s asked for the match. *)
Ask(s) == IF s = "X" THEN "CREATE_MATCH" ELSE "JOIN_MATCH"

LEMMA ReachFacts ==
  ASSUME NEW l \in [Pages -> Links], NEW s \in [Pages -> Seq(ServerFrames)], NEW l2, NEW s2,
         NEW p \in Pages, NEW f, Reaches(l, s, l2, s2, p, f)
  PROVE  /\ \A r \in Pages : r # p => l2[r] = l[r] /\ s2[r] = s[r]
         /\ Told(l[p], s[p], f, l2[p], s2[p])
BY DEF Reaches, Told

LEMMA CountType ==
  ASSUME NEW board, NEW m
  PROVE  Count(board, m) \in Nat
<1>1. IsFiniteSet({c \in Cells : board[c] = m})
  BY BoardAssumption, FS_Subset
<1> QED
  BY <1>1, FS_CardinalityType DEF Count

LEMMA CompleteIsMarked ==
  ASSUME NEW board, CompleteLines(board) # {}
  PROVE  \E c \in Cells : board[c] \in Marks
<1>1. PICK k \in DOMAIN Lines : Complete(board, Lines[k])
  BY DEF CompleteLines
<1>2. Lines[k] \in SUBSET Cells /\ Lines[k] # {}
  BY BoardAssumption, LenProperties, ElementOfSeq
<1> QED
  BY <1>1, <1>2 DEF Complete

(* Nobody has moved: the match is open and X is to move. *)
LEMMA EmptyBoardOpen ==
  /\ Count(EmptyBoard, "X") = 0 /\ Count(EmptyBoard, "O") = 0
  /\ ToMove(EmptyBoard) = "X" /\ ~Decided(EmptyBoard, 0)
<1>1. \A c \in Cells : EmptyBoard[c] = Blank
  BY DEF EmptyBoard
<1>2. \A m \in Marks : {c \in Cells : EmptyBoard[c] = m} = {}
  BY <1>1 DEF Marks, Blank
<1>3. Count(EmptyBoard, "X") = 0 /\ Count(EmptyBoard, "O") = 0
  BY <1>2, FS_EmptySet DEF Count, Marks
<1>4. evaluate_board(EmptyBoard) = NoWinner
  <2>1. \A c \in Cells : EmptyBoard[c] \notin Marks
    BY <1>1 DEF Marks, Blank
  <2>2. CompleteLines(EmptyBoard) = {}
    BY <2>1, CompleteIsMarked
  <2> QED
    BY <2>2 DEF evaluate_board
<1>5. Cardinality(Cells) # 0
  BY BoardAssumption, FS_EmptySet
<1> QED
  BY <1>3, <1>4, <1>5 DEF ToMove, Decided, Full

(* A mark on a blank square. *)
LEMMA CountMarked ==
  ASSUME NEW board \in Boards, NEW c \in Cells, board[c] = Blank, NEW s \in Marks
  PROVE  LET new == [board EXCEPT ![c] = s]
         IN  /\ Count(new, s) = Count(board, s) + 1
             /\ Count(new, Other(s)) = Count(board, Other(s))
<1> DEFINE new == [board EXCEPT ![c] = s]
           S(b, m) == {d \in Cells : b[d] = m}
<1>1. new[c] = s /\ \A d \in Cells : d # c => new[d] = board[d]
  BY DEF Boards
<1>2. Blank \notin Marks /\ s # Other(s) /\ Other(s) \in Marks
  BY DEF Blank, Marks, Other
<1> HIDE DEF new
<1>3. S(new, s) = S(board, s) \cup {c} /\ c \notin S(board, s)
  BY <1>1, <1>2
<1>4. S(new, Other(s)) = S(board, Other(s))
  BY <1>1, <1>2
<1>5. IsFiniteSet(S(board, s))
  BY BoardAssumption, FS_Subset
<1>6. Cardinality(S(new, s)) = Cardinality(S(board, s)) + 1
  BY <1>3, <1>5, FS_AddElement
<1> QED
  BY <1>4, <1>6 DEF new, Count

(* The player to move marks a blank square: the other is to move. *)
LEMMA MoveAlternates ==
  ASSUME NEW board \in Boards, NEW c \in Cells, board[c] = Blank, NEW s \in Marks,
         ToMove(board) = s, Count(board, "X") - Count(board, "O") \in {0, 1}
  PROVE  LET new == [board EXCEPT ![c] = s]
         IN  /\ Count(new, "X") - Count(new, "O") \in {0, 1}
             /\ Count(new, "X") + Count(new, "O") = Count(board, "X") + Count(board, "O") + 1
             /\ ToMove(new) = Other(s)
<1>1. PICK new : new = [board EXCEPT ![c] = s]
  OBVIOUS
<1>2. PICK x \in Nat, o \in Nat : x = Count(board, "X") /\ o = Count(board, "O")
  BY CountType
<1>3. /\ s = "X" => Count(new, "X") = x + 1 /\ Count(new, "O") = o
      /\ s = "O" => Count(new, "O") = o + 1 /\ Count(new, "X") = x
  <2>1. Count(new, s) = Count(board, s) + 1 /\ Count(new, Other(s)) = Count(board, Other(s))
    BY <1>1, CountMarked
  <2> QED
    BY <1>2, <2>1 DEF Other
<1>4. CASE s = "X"
  <2>1. x = o
    BY <1>2, <1>4 DEF ToMove
  <2> QED
    BY <1>1, <1>2, <1>3, <1>4, <2>1 DEF ToMove, Other
<1>5. CASE s = "O"
  <2>1. x = o + 1
    BY <1>2, <1>5 DEF ToMove
  <2> QED
    BY <1>1, <1>2, <1>3, <1>5, <2>1 DEF ToMove, Other
<1> QED
  BY <1>4, <1>5 DEF Marks
-----------------------------------------------------------------------------
(* The page that asked for a match is told its id and takes its seat. *)
LEMMA SeatTaken ==
  ASSUME NEW pg, NEW cq \in Seq(PageFrames), NEW sq \in Seq(ServerFrames),
         NEW n \in 1 .. Len(cq), AskedLast(cq), NEW s \in Marks,
         Head(cq).code = Ask(s), NEW f \in ServerFrames, f.code \in Tells,
         NEW l, NEW l2, NEW a, Told(l, sq, f, l2, a),
         l = "up" => Convo(pg, cq, sq),
         l # "up" => pg = FreshPage /\ sq = <<>>,
         NEW m, m.matchID = f.mid, NEW o
  PROVE  LET r == SubSeq(cq, n + 1, Len(cq))
         IN  /\ Engaged(pg, r, a, l2, m, s, o)
             /\ ~Resting(pg, r, a) /\ ~Token(pg, r, a, s) /\ pg.view = EmptyBoard
             /\ ~Has(a, Plays) /\ ~Has(r, {"MOVE"}) /\ a \in Seq(ServerFrames)
             /\ l2 = "up" => Convo(pg, r, a)
<1> DEFINE r == SubSeq(cq, n + 1, Len(cq))
<1>1. /\ Head(cq) \in Queued(cq) /\ \A g \in Queued(r) : g.code = "CLOSE"
  BY DropQueue DEF Asks, Ask
<1>2. /\ Has(cq, Asks)
      /\ f.code \notin Plays \cup Ends
  BY <1>1 DEF Has, Asks, Ask, Tells, Plays, Ends, Refusals
<1>3. /\ \A codes : Has(Append(sq, f), codes) <=> Has(sq, codes) \/ f.code \in codes
      /\ Queued(Append(sq, f)) = Queued(sq) \cup {f} /\ Append(sq, f) \in Seq(ServerFrames)
  BY AppendQueue
<1>4. l2 = "up" => Convo(pg, r, a)
  BY AnswerConvo DEF Asks, Ask, Told
<1> SUFFICES /\ Engaged(pg, r, a, l2, m, s, o)
             /\ ~Resting(pg, r, a) /\ ~Token(pg, r, a, s) /\ pg.view = EmptyBoard
             /\ ~Has(a, Plays) /\ ~Has(r, {"MOVE"}) /\ a \in Seq(ServerFrames)
             /\ l2 = "up" => Convo(pg, r, a)
  OBVIOUS
<1> HIDE DEF r
<1>5. ~Has(r, {"MOVE"}) /\ ~Has(r, Asks)
  BY <1>1 DEF Has, Asks
<1>6. /\ ~pg.lobby /\ ~pg.turn /\ pg.view = EmptyBoard /\ sq = <<>>
      /\ l = "up" => pg.player = s
  <2>1. CASE l = "up"
    BY <1>1, <1>2, <2>1 DEF Convo, Cleared, Ask, Marks
  <2>2. CASE l = "fin"
    BY <2>2, FreshPageIdle DEF FreshPage
  <2> QED
    BY <2>1, <2>2 DEF Told
<1>7. /\ ~Has(a, Plays) /\ ~Has(a, Ends) /\ ~Has(a, Starts(s))
      /\ l2 = "up" => Has(a, Tells) /\ Queued(a) = {f}
  <2>1. \A codes : ~Has(<<>>, codes)
    BY EmptyQueue
  <2>2. ~Has(a, Plays) /\ ~Has(a, Ends)
    BY <1>2, <1>3, <1>6, <2>1 DEF Told
  <2>3. ~Has(a, Starts(s))
    BY <2>2 DEF Has, Starts, Plays
  <2>4. l2 = "up" => Has(a, Tells) /\ Queued(a) = {f}
    BY <1>3, <1>6, EmptyQueue DEF Told
  <2> QED
    BY <2>2, <2>3, <2>4
<1>8. ~Resting(pg, r, a) /\ ~Token(pg, r, a, s)
  BY <1>5, <1>6, <1>7 DEF Resting, Token
<1>9. MovesOnce(r) /\ OnlyLast(a, Starts(s))
  BY <1>5, <1>7, NoneIsLast DEF MovesOnce, Has, Queued
<1>10. \A g \in Queued(r) : g.code # "MOVE"
  BY <1>5 DEF Has
<1>11. Engaged(pg, r, a, l2, m, s, o)
  BY <1>5, <1>6, <1>7, <1>8, <1>9, <1>10 DEF Engaged, Told
<1> QED
  BY <1>3, <1>4, <1>5, <1>6, <1>7, <1>8, <1>11 DEF Told

(* The record changes while the page is in the middle of the match. *)
LEMMA EngagedChange ==
  ASSUME NEW pg, NEW cq, NEW sq, NEW l, NEW l2, NEW m, NEW m2, NEW s, NEW o, NEW o2,
         Engaged(pg, cq, sq, l, m, s, o), ~Resting(pg, cq, sq),
         m2.matchID = m.matchID, m2.players = 2, l2 = "up" => l = "up"
  PROVE  Engaged(pg, cq, sq, l2, m2, s, o2)
BY DEF Engaged

(* The page of the player who has no turn is sent INIT_BOARD or a move. *)
LEMMA PlaySent ==
  ASSUME NEW pg, NEW cq, NEW sq \in Seq(ServerFrames), NEW f \in ServerFrames, f.code \in Plays,
         NEW l, NEW l2, NEW a, Told(l, sq, f, l2, a),
         NEW m, NEW m2, NEW s, NEW o, NEW o2,
         Engaged(pg, cq, sq, l, m, s, o), ~Resting(pg, cq, sq), ~Token(pg, cq, sq, s),
         m2.matchID = m.matchID, m2.players = 2
  PROVE  /\ Engaged(pg, cq, a, l2, m2, s, o2) /\ ~Resting(pg, cq, a)
         /\ a \in Seq(ServerFrames)
         /\ Token(pg, cq, a, s) <=> l2 = "up" /\ f.code \in Starts(s)
<1>1. CASE l2 # "up"
  BY <1>1, EngagedChange DEF Told
<1>2. CASE l2 = "up"
  <2>1. a = Append(sq, f) /\ l = "up"
    BY <1>2 DEF Told
  <2>2. /\ \A codes : Has(a, codes) <=> Has(sq, codes) \/ f.code \in codes
        /\ Queued(a) = Queued(sq) \cup {f} /\ a \in Seq(ServerFrames)
        /\ \A codes : ~Has(sq, codes) => OnlyLast(a, codes)
    BY <2>1, AppendQueue
  <2>3. f.code \notin Ends /\ f.code \notin Tells
    BY DEF Plays, Ends, Refusals, Tells
  <2>4. ~Resting(pg, cq, a)
    BY <2>2, <2>3 DEF Resting
  <2>5. ~pg.turn /\ ~Has(cq, {"MOVE"}) /\ ~Has(sq, Starts(s))
    BY DEF Token
  <2>6. Token(pg, cq, a, s) <=> f.code \in Starts(s)
    BY <2>2, <2>5 DEF Token
  <2>7. Engaged(pg, cq, a, l2, m2, s, o2)
    BY <1>2, <2>1, <2>2, <2>3, <2>4, <2>5 DEF Engaged
  <2> QED
    BY <1>2, <2>2, <2>4, <2>6, <2>7
<1> QED
  BY <1>1, <1>2

LEMMA AgreesWithoutMoves ==
  ASSUME NEW pg, NEW cq, NEW sq, NEW l, NEW m, NEW s,
         ~Has(cq, {"MOVE"}), ~Has(sq, {"MOVE"}), Token(pg, cq, sq, s) => ToMove(m.board) = s,
         l = "up" => pg.view = m.board
  PROVE  Agrees(pg, cq, sq, l, m, s)
BY DEF Agrees, Has
-----------------------------------------------------------------------------
(***************************************************************************)
(* The server's handlers.                                                  *)
(***************************************************************************)
LEMMA SendKeepsStray ==
  ASSUME NEW t \in Traces, NEW p, NEW f, NEW u \in send(t, p, f)
  PROVE  u.stray = t.stray
BY DEF send, SendOk, Traces

(* What a handler sends its own client is accepted. *)
LEMMA OwnSend ==
  ASSUME TypeOK, NEW p \in Pages, Readable(p), NEW f \in ServerFrames, NEW t \in send(Trace, p, f)
  PROVE  /\ t \in Traces /\ t.last = "ok" /\ ~t.stray
         /\ t.link \in [Pages -> Links] /\ t.s2c \in [Pages -> Seq(ServerFrames)]
         /\ \A r \in Pages : r # p => t.link[r] = link[r] /\ t.s2c[r] = s2c[r]
         /\ Told(link[p], s2c[p], f, t.link[p], t.s2c[p])
<1>1. Trace \in Traces /\ t \in Traces
  BY TraceType, SendType
<1>2. ~t.stray
  BY <1>1, SendKeepsStray, TraceIs
<1>3. Accepted(Trace, t, p, f)
  BY <1>1, <1>2, SendResult, TraceIs DEF Readable
<1>4. Reaches(link, s2c, t.link, t.s2c, p, f) /\ t.last = "ok"
  BY <1>3, TraceIs DEF Accepted
<1>5. link \in [Pages -> Links] /\ s2c \in [Pages -> Seq(ServerFrames)]
  BY DEF TypeOK
<1>6. t.link \in [Pages -> Links] /\ t.s2c \in [Pages -> Seq(ServerFrames)]
  BY <1>1, SentType
<1>7. /\ \A r \in Pages : r # p => t.link[r] = link[r] /\ t.s2c[r] = s2c[r]
      /\ Told(link[p], s2c[p], f, t.link[p], t.s2c[p])
  <2>1. PICK l2, s2 : l2 = t.link /\ s2 = t.s2c
    OBVIOUS
  <2>2. Reaches(link, s2c, l2, s2, p, f)
    BY <1>4, <2>1
  <2> QED
    BY <1>5, <2>1, <2>2, ReachFacts
<1> QED
  BY <1>1, <1>2, <1>4, <1>6, <1>7

LEMMA ClientsApart ==
  ASSUME TypeOK, Attached, NEW fd \in Fds, IsOpen(fd), NEW g \in Fds, IsOpen(g), g # fd
  PROVE  client[g].page \in Pages /\ client[g].page # client[fd].page
BY ClientType DEF Attached

(* A handler of descriptor fd leaves a match alone that its client is not  *)
(* in and no client of page q, the only other page it may touch.           *)
LEMMA OtherMatch ==
  ASSUME TypeOK, Attached, NEW b \in Addrs, Live(b), MatchOK(b), heap'[b] = heap[b],
         outcome'[heap[b].matchID] = outcome[heap[b].matchID],
         NEW fd \in Fds, IsOpen(fd), NEW q,
         \A g \in Fds : g # fd => client'[g] = client[g],
         \A g \in Fds : g # fd /\ IsOpen(g) /\ client[g].page = q => ~Owns(client[g], b),
         \A r \in Pages : r # client[fd].page /\ r # q => SameAt(r),
         IsOpen(fd)' => client'[fd].currentMatch # b
  PROVE  MatchOK(b)'
<1>1. ASSUME NEW g \in Fds, IsOpen(g)', Owns(client[g], b)'
      PROVE  IsOpen(g) /\ client'[g] = client[g] /\ SameAt(client[g].page)
  <2>1. g # fd
    BY <1>1 DEF Owns
  <2>2. IsOpen(g) /\ client'[g] = client[g]
    BY <1>1, <2>1 DEF IsOpen
  <2>3. Owns(client[g], b)
    BY <1>1, <2>2 DEF Owns, Live
  <2>4. client[g].page \in Pages /\ client[g].page # client[fd].page /\ client[g].page # q
    BY <2>1, <2>2, <2>3, ClientsApart
  <2> QED
    BY <2>2, <2>4
<1> QED
  BY <1>1, MatchKeeps

LEMMA UntouchedPointers ==
  ASSUME TypeOK, Wired, heap' = heap, match_id' = match_id, outcome' = outcome,
         \A g \in Fds : IsOpen(g)' =>
           /\ IsOpen(g) /\ client'[g].currentMatch = client[g].currentMatch
           /\ client'[g].meant = client[g].meant /\ client'[g].seat = client[g].seat
  PROVE  Pointers' /\ FreshIds'
<1>1. \A b \in Addrs : Live(b)' = Live(b)
  BY DEF Live
<1>2. \A g \in Fds : IsOpen(g)' => PointerOK(g)'
  BY <1>1, PointerKeeps DEF Wired
<1> QED
  BY <1>2 DEF Wired, FreshIds, Pointers
-----------------------------------------------------------------------------
LEMMA OpenClient ==
  ASSUME NEW c \in ClientStates
  PROVE  c # NoClient
<1>1. DOMAIN c = {"page", "handshake", "currentMatch", "meant", "seat"}
  BY DEF ClientStates
<1>2. DOMAIN NoClient = {"page"}
  BY DEF NoClient
<1> QED
  BY <1>1, <1>2

(* A page that has been accepted and is not a WebSocket yet. *)
LEMMA OpeningConvo ==
  ASSUME NEW cq \in Seq(PageFrames), \A f \in Queued(cq) : f.code \in Openers, NEW sq,
         sq = <<>> \/ sq = Append(<<>>, [code |-> "OPEN"])
  PROVE  Convo(FreshPage, cq, sq)
<1>1. [code |-> "OPEN"] \in ServerFrames /\ <<>> \in Seq(ServerFrames)
  BY EmptySeq DEF ServerFrames
<1>2. ~Has(cq, Asks) /\ \A f \in Queued(cq) : f.code \notin Asks
  BY DEF Has, Openers, Asks
<1>3. OnlyLast(cq, Asks)
  BY <1>2, NoneIsLast
<1>4. OnlyLast(sq, Ends) /\ (Has(sq, Refusals) => Len(sq) = 1)
  <2>1. CASE sq = <<>>
    BY <2>1, EmptyQueue
  <2>2. CASE sq = Append(<<>>, [code |-> "OPEN"])
    <3>1. ~Has(<<>>, Ends)
      BY EmptyQueue
    <3>2. OnlyLast(sq, Ends) /\ Len(sq) = Len(<<>>) + 1
      BY <1>1, <2>2, <3>1, AppendQueue
    <3> QED
      BY <3>2
  <2> QED
    BY <2>1, <2>2
<1>5. ~FreshPage.lobby /\ Cleared(FreshPage)
  BY DEF FreshPage, Cleared
<1> QED
  BY <1>2, <1>3, <1>4, <1>5 DEF Convo, Asks

LEMMA HandshakeKeeps ==
  ASSUME TypeOK, Wired, Orderly, NEW fd \in Fds, Handshake(fd), UNCHANGED pageVars
  PROVE  Wired' /\ Orderly'
<1>1. PICK p \in Pages : p = client[fd].page
  BY ClientType DEF Handshake
<1>2. /\ IsOpen(fd) /\ ~client[fd].handshake /\ Readable(p)
      /\ UNCHANGED <<page, match_id, heap, outcome>>
  BY <1>1 DEF Handshake, pageVars
<1>3. Network /\ Attached /\ client[fd].currentMatch = NULL /\ Greets(p)
  BY <1>1, <1>2 DEF Wired, Network, Greeting
<1>4. PICK n \in (IF c2s[p] = <<>> THEN {0} ELSE 1 .. Len(c2s[p])) :
        LET got  == SubSeq(c2s[p], 1, n)
            rest == [c2s EXCEPT ![p] = SubSeq(@, n + 1, Len(@))]
        IN  \/ /\ Upgrade(got)
               /\ \E t \in send(Trace, p, [code |-> "OPEN"]) : Sent(t)
               /\ client' = [client EXCEPT ![fd].handshake = TRUE]
               /\ c2s' = rest
            \/ /\ Partial(got)
               /\ c2s' = rest
               /\ UNCHANGED <<client, link, s2c>>
            \/ /\ ~Upgrade(got)
               /\ \E t \in send(Trace, p, [code |-> "REJECT"]) :
                    s2c' = t.s2c /\ close_connection(fd, client, t.link)
  BY <1>1 DEF Handshake
<1>5. c2s[p] \in Seq(PageFrames) /\ client[fd] \in ClientStates
  BY <1>2, PageQueues, ClientType
<1>6. \A g \in Fds : IsOpen(g) /\ g # fd => client[g].page \in Pages /\ client[g].page # p
  BY <1>1, <1>2, <1>3, ClientsApart
<1> DEFINE got  == SubSeq(c2s[p], 1, n)
           rest == [c2s EXCEPT ![p] = SubSeq(@, n + 1, Len(@))]
           Stays == /\ c2s' = rest /\ c2s[p] # <<>>
                    /\ client'[fd].page = p /\ IsOpen(fd)'
                    /\ client'[fd].currentMatch = NULL /\ client'[fd].meant = client[fd].meant
                    /\ client'[fd].seat = client[fd].seat
                    /\ \A g \in Fds : g # fd => client'[g] = client[g]
                    /\ \A r \in Pages : r # p => link'[r] = link[r] /\ s2c'[r] = s2c[r]
                    /\ \/ link[p] = "up" /\ link'[p] = "up" /\ s2c'[p] = Append(<<>>, [code |-> "OPEN"])
                          /\ client'[fd].handshake
                       \/ link[p] = "fin" /\ link'[p] \in {"fin", "rst"} /\ s2c'[p] = <<>>
                       \/ link'[p] = link[p] /\ s2c'[p] = <<>>
<1>7. c2s[p] = <<>> => ~Upgrade(got) /\ ~Partial(got)
  <2> SUFFICES ASSUME c2s[p] = <<>> PROVE ~Upgrade(got) /\ ~Partial(got)
    OBVIOUS
  <2>1. n = 0 /\ got = <<>>
    BY <1>4
  <2> HIDE DEF got
  <2> QED
    BY <2>1 DEF Upgrade, Partial
<1>8. CASE Stays
  <2>0. n \in 1 .. Len(c2s[p])
    BY <1>4, <1>8
  <2>1. /\ c2s'[p] = SubSeq(c2s[p], n + 1, Len(c2s[p]))
        /\ \A r \in Pages : r # p => c2s'[r] = c2s[r]
    BY <1>8 DEF TypeOK
  <2>2. /\ Queued(c2s'[p]) \subseteq Queued(c2s[p]) /\ c2s'[p] \in Seq(PageFrames)
        /\ AskedLast(c2s[p]) => AskedLast(c2s'[p])
    BY <1>5, <2>0, <2>1, DropQueue
  <2>3. page[p] = FreshPage /\ \A f \in Queued(c2s'[p]) : f.code \in Openers
    BY <1>3, <2>2 DEF Greets
  <2>4. Convo(page[p], c2s'[p], s2c'[p])
    BY <1>8, <2>2, <2>3, OpeningConvo
  <2>5. AskedLast(c2s'[p])
    BY <2>2 DEF Wired, Rests
  <2>6. link[p] \in {"up", "fin"} /\ s2c[p] = <<>>
    BY <1>2, <1>3 DEF Readable, Greets
  <2>7. \A g \in Fds : IsOpen(g) /\ ~client'[g].handshake =>
           client'[g].currentMatch = NULL /\ Greets(client[g].page)'
    <3> SUFFICES ASSUME NEW g \in Fds, IsOpen(g), ~client'[g].handshake
                 PROVE  client'[g].currentMatch = NULL /\ Greets(client[g].page)'
      OBVIOUS
    <3>1. CASE g = fd
      <4>1. s2c'[p] = <<>>
        BY <1>8, <3>1
      <4>2. Greets(p)'
        BY <1>2, <2>3, <4>1 DEF Greets
      <4>3. client'[fd].currentMatch = NULL /\ client'[fd].page = p
        BY <1>8
      <4> QED
        BY <3>1, <4>2, <4>3
    <3>2. CASE g # fd
      <4>1. PICK r \in Pages : r = client[g].page /\ r # p
        BY <1>6, <3>2
      <4>2. client'[g] = client[g] /\ link'[r] = link[r] /\ s2c'[r] = s2c[r] /\ c2s'[r] = c2s[r]
        BY <1>8, <2>1, <3>2, <4>1
      <4>3. client[g].currentMatch = NULL /\ Greets(r)
        BY <4>1, <4>2 DEF Wired, Greeting
      <4>4. Greets(r)'
        BY <1>2, <4>2, <4>3 DEF Greets
      <4> QED
        BY <4>1, <4>2, <4>3, <4>4
    <3> QED
      BY <3>1, <3>2
  <2>8. \A r \in Pages : link'[r] = link[r] \/ (link[r] = "fin" /\ link'[r] = "rst")
    BY <1>8
  <2>9. /\ \A r \in Pages : link[r] # "up" => s2c'[r] = s2c[r]
        /\ \A r \in Pages : link[r] = "syn" => c2s'[r] = c2s[r]
        /\ \A r \in Pages : link[r] = "up" => Convo(page[r], c2s'[r], s2c'[r])
        /\ \A r \in Pages : AskedLast(c2s'[r])
    BY <1>8, <2>1, <2>4, <2>5, <2>6 DEF Wired, Rests
  <2>10. Network'
    BY <1>1, <1>2, <1>3, <1>8, <2>7, <2>8, <2>9, HandlerNetwork
  <2>11. Pointers' /\ FreshIds'
    BY <1>2, <1>3, <1>8, UntouchedPointers DEF IsOpen
  <2>12. \A r \in Pages : r # p => SameAt(r)
    BY <1>2, <1>8, <2>1 DEF SameAt
  <2>13. Orderly'
    <3> SUFFICES ASSUME NEW b \in Addrs, Live(b) PROVE MatchOK(b)'
      BY <1>2 DEF Orderly, Live
    <3>1. client'[fd].currentMatch # b
      BY <1>8, ServerAssumption
    <3>2. \A g \in Fds : g # fd /\ IsOpen(g) /\ client[g].page = p => ~Owns(client[g], b)
      BY <1>6
    <3>3. MatchOK(b) /\ heap'[b] = heap[b] /\ outcome'[heap[b].matchID] = outcome[heap[b].matchID]
      BY <1>2 DEF Orderly
    <3>4. /\ \A g \in Fds : g # fd => client'[g] = client[g]
          /\ \A r \in Pages : r # client[fd].page /\ r # p => SameAt(r)
      BY <1>8, <2>12
    <3> QED
      BY <1>2, <1>3, <3>1, <3>2, <3>3, <3>4, OtherMatch
  <2> QED
    BY <2>10, <2>11, <2>13, WiredFrom
<1>9. CASE Upgrade(got) /\ (\E t \in send(Trace, p, [code |-> "OPEN"]) : Sent(t))
           /\ client' = [client EXCEPT ![fd].handshake = TRUE] /\ c2s' = rest
  <2>1. [code |-> "OPEN"] \in ServerFrames
    BY DEF ServerFrames
  <2>2. PICK t \in send(Trace, p, [code |-> "OPEN"]) : Sent(t)
    BY <1>9
  <2>3. /\ \A r \in Pages : r # p => link'[r] = link[r] /\ s2c'[r] = s2c[r]
        /\ \/ link[p] = "up" /\ link'[p] = "up" /\ s2c'[p] = Append(s2c[p], [code |-> "OPEN"])
           \/ link[p] = "fin" /\ link'[p] \in {"fin", "rst"} /\ s2c'[p] = s2c[p]
    BY <1>2, <2>1, <2>2, OwnSend DEF Sent, Told
  <2>4. /\ client'[fd] = [client[fd] EXCEPT !.handshake = TRUE]
        /\ \A g \in Fds : g # fd => client'[g] = client[g]
    BY <1>9 DEF TypeOK
  <2>5. /\ client'[fd].page = p /\ client'[fd].handshake
        /\ client'[fd].currentMatch = NULL /\ client'[fd].meant = client[fd].meant
        /\ client'[fd].seat = client[fd].seat
    BY <1>1, <1>3, <1>5, <2>4 DEF ClientStates
  <2>6. IsOpen(fd)'
    BY <1>5, <2>4, OpenClient DEF ClientStates, IsOpen
  <2>7. s2c[p] = <<>> /\ c2s[p] # <<>>
    BY <1>3, <1>7, <1>9 DEF Greets
  <2> HIDE DEF rest, got
  <2>8. Stays
    BY <1>9, <2>3, <2>4, <2>5, <2>6, <2>7
  <2> QED
    BY <1>8, <2>8
<1>10. CASE Partial(got) /\ c2s' = rest /\ UNCHANGED <<client, link, s2c>>
  <2>1. IsOpen(fd)' /\ s2c[p] = <<>> /\ c2s[p] # <<>>
    BY <1>2, <1>3, <1>7, <1>10 DEF IsOpen, Greets
  <2> HIDE DEF rest, got
  <2>2. Stays
    BY <1>1, <1>3, <1>10, <2>1
  <2> QED
    BY <1>8, <2>2
<1>11. ASSUME NEW t \in send(Trace, p, [code |-> "REJECT"]), s2c' = t.s2c,
              close_connection(fd, client, t.link)
       PROVE  Wired' /\ Orderly'
  <2>1. [code |-> "REJECT"] \in ServerFrames
    BY DEF ServerFrames
  <2>2. /\ t.link \in [Pages -> Links]
        /\ \A r \in Pages : r # p => t.link[r] = link[r] /\ s2c'[r] = s2c[r]
        /\ link[p] # "up" => s2c'[p] = s2c[p]
        /\ t.link[p] = link[p] \/ (link[p] = "fin" /\ t.link[p] = "rst")
    BY <1>2, <1>11, <2>1, OwnSend DEF Told
  <2>3. /\ \A r \in Pages : t.link[r] = link[r] \/ (link[r] = "fin" /\ t.link[r] = "rst")
        /\ \A r \in Pages : link[r] # "up" => s2c'[r] = s2c[r]
        /\ \A r \in Pages : r # p /\ link[r] = "up" => Convo(page[r], c2s[r], s2c'[r])
        /\ \A g \in Fds : g # fd /\ IsOpen(g) /\ ~client[g].handshake =>
             s2c'[client[g].page] = s2c[client[g].page]
    BY <1>6, <2>2 DEF Wired, Rests
  <2>4. /\ Network'
        /\ client' = [client EXCEPT ![fd] = NoClient]
        /\ \A r \in Pages : r # p => link'[r] = t.link[r] /\ c2s'[r] = c2s[r]
    BY <1>1, <1>2, <1>3, <1>11, <2>2, <2>3, CloseNetwork
  <2>5. \A g \in Fds : IsOpen(g)' => IsOpen(g) /\ g # fd /\ client'[g] = client[g]
    BY <2>4 DEF IsOpen, TypeOK
  <2>6. Pointers' /\ FreshIds'
    BY <1>2, <2>5, UntouchedPointers
  <2>7. Orderly'
    <3> SUFFICES ASSUME NEW b \in Addrs, Live(b) PROVE MatchOK(b)'
      BY <1>2 DEF Orderly, Live
    <3>1. \A r \in Pages : r # client[fd].page /\ r # p => SameAt(r)
      BY <1>1, <1>2, <2>2, <2>4 DEF SameAt
    <3>2. \A g \in Fds : g # fd /\ IsOpen(g) /\ client[g].page = p => ~Owns(client[g], b)
      BY <1>6
    <3>3. MatchOK(b) /\ heap'[b] = heap[b] /\ outcome'[heap[b].matchID] = outcome[heap[b].matchID]
      BY <1>2 DEF Orderly
    <3>4. \A g \in Fds : g # fd => client'[g] = client[g]
      BY <2>4 DEF TypeOK
    <3>5. IsOpen(fd)' => client'[fd].currentMatch # b
      BY <2>5
    <3> QED
      BY <1>2, <1>3, <3>1, <3>2, <3>3, <3>4, <3>5, OtherMatch
  <2> QED
    BY <2>4, <2>6, <2>7, WiredFrom
<1> QED
  BY <1>4, <1>9, <1>10, <1>11
-----------------------------------------------------------------------------
(***************************************************************************)
(* CREATE_MATCH and JOIN_MATCH keep the matches in order.                  *)
(***************************************************************************)
(* What is received of a page's queue. *)
LEMMA ReceivedQueue ==
  ASSUME TypeOK, NEW fd \in Fds, IsOpen(fd), Received(fd)
  PROVE  LET p == client[fd].page
         IN  /\ \A r \in Pages : r # p => c2s'[r] = c2s[r]
             /\ \E n \in 1 .. Len(c2s[p]) : c2s'[p] = SubSeq(c2s[p], n + 1, Len(c2s[p]))
             /\ AskedLast(c2s[p]) => AskedLast(c2s'[p])
<1>1. PICK p \in Pages : p = client[fd].page
  BY ClientType
<1>2. PICK n \in 1 .. Len(c2s[p]) : c2s' = [c2s EXCEPT ![p] = SubSeq(@, n + 1, Len(@))]
  BY <1>1 DEF Received
<1>3. /\ \A r \in Pages : r # p => c2s'[r] = c2s[r]
      /\ c2s'[p] = SubSeq(c2s[p], n + 1, Len(c2s[p]))
  BY <1>2 DEF TypeOK
<1>4. c2s[p] \in Seq(PageFrames)
  BY PageQueues
<1>5. AskedLast(c2s[p]) => AskedLast(c2s'[p])
  BY <1>3, <1>4, DropQueue
<1> QED
  BY <1>1, <1>3, <1>5

(* The client that is seated in a match. *)
LEMMA SeatedFields ==
  ASSUME TypeOK, NEW fd \in Fds, IsOpen(fd), NEW a \in Addrs, NEW id \in MatchIds,
         NEW s \in Marks, client' = [client EXCEPT ![fd] = Seated(@, a, id, s)]
  PROVE  /\ client'[fd].page = client[fd].page /\ client'[fd].handshake = client[fd].handshake
         /\ client'[fd].currentMatch = a /\ client'[fd].meant = id /\ client'[fd].seat = s
         /\ \A g \in Fds : g # fd => client'[g] = client[g]
         /\ \A g \in Fds : IsOpen(g)' = IsOpen(g)
<1>1. client[fd] \in ClientStates
  BY ClientType
<1>2. /\ client'[fd] = Seated(client[fd], a, id, s)
      /\ \A g \in Fds : g # fd => client'[g] = client[g]
  BY DEF TypeOK
<1>3. /\ client'[fd].page = client[fd].page /\ client'[fd].handshake = client[fd].handshake
      /\ client'[fd].currentMatch = a /\ client'[fd].meant = id /\ client'[fd].seat = s
  <2>1. PICK c \in ClientStates : c = client[fd]
    BY <1>1
  <2>2. PICK d : d = [c EXCEPT !.currentMatch = a, !.meant = id, !.seat = s]
    OBVIOUS
  <2>3. /\ d.page = c.page /\ d.handshake = c.handshake
        /\ d.currentMatch = a /\ d.meant = id /\ d.seat = s
    BY <2>2 DEF ClientStates
  <2>4. client'[fd] = d
    BY <1>2, <2>1, <2>2 DEF Seated
  <2> QED
    BY <2>1, <2>3, <2>4
<1>4. client'[fd] # NoClient
  BY <1>1, <1>2, SeatedType, OpenClient
<1> QED
  BY <1>2, <1>3, <1>4 DEF IsOpen

LEMMA CreateKeeps ==
  ASSUME TypeOK, Wired, Orderly, fault = "none", fault' = "none",
         NEW fd \in Fds, create_match(fd), UNCHANGED pageVars
  PROVE  Wired' /\ Orderly'
<1>1. PICK p \in Pages : p = client[fd].page
  BY ClientType DEF create_match, Receive
<1>2. /\ IsOpen(fd) /\ client[fd].handshake /\ Readable(p) /\ c2s[p] # <<>>
      /\ Head(c2s[p]) = [code |-> "CREATE_MATCH"] /\ page' = page
  BY <1>1 DEF create_match, Receive, pageVars
<1>3. fault' # Noting("undefined")
  BY DEF Noting
<1>4. PICK a \in Addrs :
        /\ ~Live(a)
        /\ heap' = [heap EXCEPT ![a] = [createMatch(fd, match_id) EXCEPT !.players = 1]]
        /\ match_id' = match_id + 1
        /\ match_id \in Slots
        /\ client' = [client EXCEPT ![fd] = Seated(@, a, match_id, "X")]
        /\ \E t \in send(Trace, client[fd].page, [code |-> "MATCH_CREATED", mid |-> match_id]) :
             Sent(t)
        /\ Received(fd)
        /\ outcome' = outcome
  BY <1>3 DEF create_match, Allocatable
<1>5. PICK id \in Slots : id = match_id
  BY <1>4
<1>6. id \in MatchIds /\ id \in Nat /\ id < MaxMatches
  BY SlotType, ServerAssumption DEF Slots
<1> DEFINE f == [code |-> "MATCH_CREATED", mid |-> id]
<1>7. f \in ServerFrames /\ f.code \in Tells /\ f.mid = id
  BY <1>6 DEF ServerFrames, Tells
<1>8. PICK t \in send(Trace, p, f) : Sent(t)
  BY <1>1, <1>4, <1>5
<1> HIDE DEF f
<1>9. /\ \A r \in Pages : r # p => link'[r] = link[r] /\ s2c'[r] = s2c[r]
      /\ Told(link[p], s2c[p], f, link'[p], s2c'[p])
  BY <1>2, <1>7, <1>8, OwnSend DEF Sent
<1>10. PICK n \in 1 .. Len(c2s[p]) :
        /\ \A r \in Pages : r # p => c2s'[r] = c2s[r]
        /\ c2s'[p] = SubSeq(c2s[p], n + 1, Len(c2s[p]))
        /\ AskedLast(c2s[p]) => AskedLast(c2s'[p])
  BY <1>1, <1>2, <1>4, ReceivedQueue
<1>11. /\ client'[fd].page = p /\ client'[fd].handshake
       /\ client'[fd].currentMatch = a /\ client'[fd].meant = id /\ client'[fd].seat = "X"
       /\ \A g \in Fds : g # fd => client'[g] = client[g]
       /\ \A g \in Fds : IsOpen(g)' = IsOpen(g)
  BY <1>1, <1>2, <1>4, <1>5, <1>6, SeatedFields DEF Marks
<1>12. PICK m : m = [createMatch(fd, id) EXCEPT !.players = 1]
  OBVIOUS
<1>13. /\ m.matchID = id /\ m.playerX = fd /\ m.playerO = NoFd /\ m.players = 1
       /\ m.board = EmptyBoard /\ m.moves = 0
  BY <1>12 DEF createMatch
<1>14. heap'[a] = m /\ \A b \in Addrs : b # a => heap'[b] = heap[b]
  BY <1>4, <1>5, <1>12 DEF TypeOK
<1>15. Network /\ Attached /\ AskedLast(c2s[p])
  BY DEF Wired, Network, Rests
<1>16. PICK pg \in PageStates, cq \in Seq(PageFrames), sq \in Seq(ServerFrames) :
         pg = page[p] /\ cq = c2s[p] /\ sq = s2c[p]
  BY PageQueues
<1>17. /\ Engaged(page[p], c2s'[p], s2c'[p], link'[p], m, "X", FALSE)
       /\ Engaged(page[p], c2s'[p], s2c'[p], link'[p], m, "X", TRUE)
       /\ link[p] = "up" => Convo(page[p], c2s'[p], s2c'[p])
  <2>1. Head(cq).code = Ask("X") /\ AskedLast(cq)
    BY <1>2, <1>15, <1>16 DEF Ask
  <2>2. PICK l, l2, s2 : l = link[p] /\ l2 = link'[p] /\ s2 = s2c'[p]
    OBVIOUS
  <2>3. /\ Told(l, sq, f, l2, s2) /\ (l = "up" => l2 = "up")
        /\ l = "up" => Convo(pg, cq, sq)
        /\ l # "up" => pg = FreshPage /\ sq = <<>>
    BY <1>9, <1>16, <2>2 DEF Wired, Rests, Blanks, Told
  <2>4. "X" \in Marks /\ n \in 1 .. Len(cq) /\ m.matchID = f.mid
    BY <1>7, <1>13, <1>16 DEF Marks
  <2>5. ASSUME NEW o
        PROVE  /\ Engaged(pg, SubSeq(cq, n + 1, Len(cq)), s2, l2, m, "X", o)
               /\ l2 = "up" => Convo(pg, SubSeq(cq, n + 1, Len(cq)), s2)
    BY <1>7, <2>1, <2>3, <2>4, SeatTaken
  <2> QED
    BY <1>10, <1>16, <2>2, <2>3, <2>5
<1>18. Network'
  <2>1. /\ \A r \in Pages : link'[r] = link[r] \/ (link[r] = "fin" /\ link'[r] = "rst")
        /\ \A r \in Pages : link[r] # "up" => s2c'[r] = s2c[r]
        /\ \A r \in Pages : link[r] = "syn" => c2s'[r] = c2s[r]
        /\ \A r \in Pages : link[r] = "up" => Convo(page[r], c2s'[r], s2c'[r])
        /\ \A r \in Pages : AskedLast(c2s'[r])
    BY <1>9, <1>10, <1>15, <1>17 DEF Wired, Rests, Told
  <2>2. \A g \in Fds : IsOpen(g) /\ ~client'[g].handshake =>
           client'[g].currentMatch = NULL /\ Greets(client[g].page)'
    <3> SUFFICES ASSUME NEW g \in Fds, IsOpen(g), ~client'[g].handshake
                 PROVE  client'[g].currentMatch = NULL /\ Greets(client[g].page)'
      OBVIOUS
    <3>1. g # fd /\ client'[g] = client[g]
      BY <1>11
    <3>2. PICK r \in Pages : r = client[g].page /\ r # p
      BY <1>1, <1>2, <1>15, <3>1, ClientsApart
    <3>3. client[g].currentMatch = NULL /\ Greets(r)
      BY <3>1, <3>2 DEF Wired, Greeting
    <3>4. Greets(r)'
      BY <1>2, <1>9, <1>10, <3>2, <3>3 DEF Greets
    <3> QED
      BY <3>1, <3>2, <3>3, <3>4
  <2> QED
    BY <1>1, <1>2, <1>11, <1>15, <2>1, <2>2, HandlerNetwork
<1>19. Pointers'
  <2> SUFFICES ASSUME NEW g \in Fds, IsOpen(g)
               PROVE  /\ client'[g].currentMatch # NULL => client'[g].meant < match_id'
                      /\ \A b \in Addrs : Owns(client[g], b)' =>
                           client'[g].seat \in Marks /\ Seat(b, client[g].seat)' = g
    BY <1>11 DEF Pointers, PointerOK
  <2>1. CASE g = fd
    <3>1. id < match_id'
      BY <1>4, <1>5, <1>6
    <3>2. \A b \in Addrs : Owns(client[g], b)' => b = a
      BY <1>11, <2>1 DEF Owns
    <3>3. Seat(a, "X")' = fd
      BY <1>13, <1>14 DEF Seat
    <3> QED
      BY <1>11, <2>1, <3>1, <3>2, <3>3 DEF Marks
  <2>2. CASE g # fd
    <3>1. client'[g] = client[g] /\ PointerOK(g) /\ client[g] \in ClientStates
      BY <1>11, <2>2, ClientType DEF Wired, Pointers
    <3>2. client'[g].currentMatch # NULL => client'[g].meant < id
      BY <1>5, <3>1 DEF PointerOK
    <3>3. client'[g].currentMatch # NULL => client'[g].meant < match_id'
      <4>1. client[g].meant \in Int
        BY <3>1, ServerAssumption DEF ClientStates, MatchIds, NoFd
      <4> QED
        BY <1>4, <1>5, <1>6, <3>1, <3>2, <4>1
    <3>4. ASSUME NEW b \in Addrs, Owns(client[g], b)'
          PROVE  client'[g].seat \in Marks /\ Seat(b, client[g].seat)' = g
      <4>1. b # a
        <5>1. client'[g].currentMatch = b /\ client'[g].meant = heap'[b].matchID
          BY <3>4 DEF Owns
        <5>2. client'[g].meant < id
          BY <3>2, <5>1, ServerAssumption
        <5> QED
          BY <1>6, <1>13, <1>14, <5>1, <5>2
      <4>2. heap'[b] = heap[b]
        BY <1>14, <4>1
      <4>3. Owns(client[g], b)
        BY <3>1, <3>4, <4>2 DEF Owns, Live
      <4>4. client[g].seat \in Marks /\ Seat(b, client[g].seat) = g
        BY <3>1, <4>3 DEF PointerOK
      <4> QED
        BY <3>1, <4>2, <4>4 DEF Seat
    <3> QED
      BY <3>3, <3>4
  <2> QED
    BY <2>1, <2>2
<1>20. FreshIds'
  <2>1. match_id' <= MaxMatches
    BY <1>4, <1>5, <1>6, ServerAssumption
  <2>2. \A i \in MatchIds : i >= match_id' => i >= match_id
    BY <1>4, <1>5, <1>6 DEF MatchIds
  <2> QED
    BY <1>4, <2>1, <2>2 DEF Wired, FreshIds
<1>21. ASSUME NEW b \in Addrs, Live(b)', b # a PROVE MatchOK(b)'
  <2>1. heap'[b] = heap[b] /\ Live(b) /\ MatchOK(b)
    BY <1>14, <1>21 DEF Live, Orderly
  <2>2. outcome'[heap[b].matchID] = outcome[heap[b].matchID]
    BY <1>4
  <2>3. \A g \in Fds : g # fd /\ IsOpen(g) /\ client[g].page = p => ~Owns(client[g], b)
    BY <1>1, <1>2, <1>15, ClientsApart
  <2>4. \A r \in Pages : r # client[fd].page /\ r # p => SameAt(r)
    BY <1>2, <1>9, <1>10 DEF SameAt
  <2>5. IsOpen(fd)' => client'[fd].currentMatch # b
    BY <1>11, <1>21
  <2> QED
    BY <1>2, <1>11, <1>15, <2>1, <2>2, <2>3, <2>4, <2>5, OtherMatch
<1>22. MatchOK(a)'
  <2>1. ~Both(a)' /\ ~Held(a, "O")'
    <3>1. Seat(a, "O")' = NoFd
      BY <1>13, <1>14 DEF Seat
    <3>2. NoFd \notin Fds
      BY ServerAssumption DEF NoFd
    <3>3. ~Held(a, "O")'
      BY <3>1, <3>2 DEF Held, IsOpen
    <3>4. ~Both(a)'
      BY <1>13, <1>14 DEF Both
    <3> QED
      BY <3>3, <3>4
  <2>2. outcome'[id] = ""
    <3>1. id >= match_id
      BY <1>5, <1>6
    <3> QED
      BY <1>4, <1>6, <3>1 DEF Wired, FreshIds
  <2>3. fd # NoFd
    BY ServerAssumption DEF NoFd
  <2>4. RecordOK(m, FALSE, "")
    <3>1. 0 = Count(EmptyBoard, "X") + Count(EmptyBoard, "O")
      BY EmptyBoardOpen
    <3>2. Count(EmptyBoard, "X") - Count(EmptyBoard, "O") \in {0, 1}
      BY EmptyBoardOpen
    <3> QED
      BY <1>13, <2>3, <3>1, <3>2, EmptyBoardOpen DEF RecordOK
  <2>5. RecordOK(heap'[a], Both(a)', outcome'[heap'[a].matchID])
    <3>1. Both(a)' \in BOOLEAN
      BY DEF Both
    <3>2. Both(a)' = FALSE
      BY <2>1, <3>1
    <3> QED
      BY <1>13, <1>14, <2>2, <2>4, <3>2
  <2>6. EngagedAt(a, "X", PageAt(a, "X"))'
    <3>1. PageAt(a, "X")' = p
      BY <1>11, <1>13, <1>14 DEF PageAt, Seat
    <3>2. PICK o \in BOOLEAN : o = Talks(a, Other("X"))'
      BY DEF Talks, Held
    <3>3. Engaged(page'[p], c2s'[p], s2c'[p], link'[p], heap'[a], "X", o)
      BY <1>2, <1>14, <1>17
    <3> QED
      BY <3>1, <3>2, <3>3 DEF EngagedAt
  <2> QED
    BY <2>1, <2>5, <2>6 DEF MatchOK, Marks
<1>23. Orderly'
  <2>1. \A b \in Addrs : Live(b)' => MatchOK(b)'
    BY <1>21, <1>22
  <2> QED
    BY <2>1 DEF Orderly
<1> QED
  BY <1>18, <1>19, <1>20, <1>23, WiredFrom
-----------------------------------------------------------------------------
(* A request to join that is refused. *)
LEMMA RefuseKeeps ==
  ASSUME TypeOK, Wired, Orderly, NEW fd \in Fds, IsOpen(fd), client[fd].handshake,
         Readable(client[fd].page), c2s[client[fd].page] # <<>>,
         Head(c2s[client[fd].page]).code \in Asks,
         NEW t \in send(Trace, client[fd].page, [code |-> "MATCH_JOIN_FAILED"]), Sent(t),
         Received(fd), UNCHANGED <<page, match_id, heap, client, outcome>>
  PROVE  Wired' /\ Orderly'
<1>1. PICK p \in Pages : p = client[fd].page
  BY ClientType
<1> DEFINE f == [code |-> "MATCH_JOIN_FAILED"]
<1>2. f \in ServerFrames /\ f.code = "MATCH_JOIN_FAILED"
  BY DEF ServerFrames
<1>3. t \in send(Trace, p, f)
  BY <1>1
<1> HIDE DEF f
<1>4. /\ \A r \in Pages : r # p => link'[r] = link[r] /\ s2c'[r] = s2c[r]
      /\ \/ link[p] = "up" /\ link'[p] = "up" /\ s2c'[p] = Append(s2c[p], f)
         \/ link[p] = "fin" /\ link'[p] \in {"fin", "rst"} /\ s2c'[p] = s2c[p]
  BY <1>1, <1>2, <1>3, OwnSend DEF Sent, Told
<1>5. PICK n \in 1 .. Len(c2s[p]) :
        /\ \A r \in Pages : r # p => c2s'[r] = c2s[r]
        /\ c2s'[p] = SubSeq(c2s[p], n + 1, Len(c2s[p]))
        /\ AskedLast(c2s[p]) => AskedLast(c2s'[p])
  BY <1>1, ReceivedQueue
<1>6. Network /\ Attached /\ AskedLast(c2s[p])
  BY DEF Wired, Network, Rests
<1>7. PICK pg \in PageStates, cq \in Seq(PageFrames), sq \in Seq(ServerFrames) :
         pg = page[p] /\ cq = c2s[p] /\ sq = s2c[p]
  BY PageQueues
<1>8. Head(cq).code \in Asks /\ n \in 1 .. Len(cq)
  BY <1>1, <1>5, <1>7
<1>9. link[p] = "up" => Convo(page[p], c2s'[p], s2c'[p])
  <2>1. ASSUME link[p] = "up" PROVE Convo(pg, cq, sq)
    BY <1>7, <2>1 DEF Wired, Rests
  <2>2. ASSUME link[p] = "up" PROVE Convo(pg, SubSeq(cq, n + 1, Len(cq)), Append(sq, f))
    BY <1>2, <1>8, <2>1, <2>2, AnswerConvo
  <2> QED
    BY <1>4, <1>5, <1>7, <2>2
<1>10. Network'
  <2>1. /\ \A r \in Pages : link'[r] = link[r] \/ (link[r] = "fin" /\ link'[r] = "rst")
        /\ \A r \in Pages : link[r] # "up" => s2c'[r] = s2c[r]
        /\ \A r \in Pages : link[r] = "syn" => c2s'[r] = c2s[r]
        /\ \A r \in Pages : link[r] = "up" => Convo(page[r], c2s'[r], s2c'[r])
        /\ \A r \in Pages : AskedLast(c2s'[r])
    BY <1>4, <1>5, <1>6, <1>9 DEF Wired, Rests
  <2>2. \A g \in Fds : IsOpen(g) /\ ~client'[g].handshake =>
           client'[g].currentMatch = NULL /\ Greets(client[g].page)'
    <3> SUFFICES ASSUME NEW g \in Fds, IsOpen(g), ~client[g].handshake
                 PROVE  client[g].currentMatch = NULL /\ Greets(client[g].page)'
      OBVIOUS
    <3>1. PICK r \in Pages : r = client[g].page /\ r # p
      BY <1>1, <1>6, ClientsApart
    <3>2. client[g].currentMatch = NULL /\ Greets(r)
      BY <3>1 DEF Wired, Greeting
    <3>3. Greets(r)'
      BY <1>4, <1>5, <3>1, <3>2 DEF Greets
    <3> QED
      BY <3>1, <3>2, <3>3
  <2>3. IsOpen(fd)'
    BY DEF IsOpen
  <2> QED
    BY <1>6, <2>1, <2>2, <2>3, HandlerNetwork
<1>11. Pointers' /\ FreshIds'
  BY UntouchedPointers DEF IsOpen
<1>12. PageEvent(p)
  <2>1. Weakens(link[p], link'[p])
    BY <1>4 DEF Weakens
  <2>2. PICK l, l2, s2, r : /\ l = link[p] /\ l2 = link'[p] /\ s2 = s2c'[p]
                            /\ r = SubSeq(cq, n + 1, Len(cq))
    OBVIOUS
  <2>3. s2 = Append(sq, f) \/ (s2 = sq /\ l2 # "up")
    BY <1>4, <1>7, <2>2
  <2>4. ASSUME NEW m, NEW s, NEW o, Engaged(pg, cq, sq, l, m, s, o)
        PROVE  Engaged(pg, r, s2, l2, m, s, o) /\ ~o
    BY <1>2, <1>8, <2>2, <2>3, <2>4, RefusedEngaged
  <2>5. page'[p] = pg /\ c2s'[p] = r
    BY <1>5, <1>7, <2>2
  <2> QED
    BY <1>7, <2>1, <2>2, <2>4, <2>5 DEF PageEvent
<1>13. Orderly'
  <2>1. \A r \in Pages : r # p => SameAt(r)
    BY <1>4, <1>5 DEF SameAt
  <2> QED
    BY <1>6, <1>12, <2>1, PageOrderly
<1> QED
  BY <1>10, <1>11, <1>13, WiredFrom
-----------------------------------------------------------------------------
(* What the pages of the two players show once the match has started. *)
Joined(pg, r, s2, l2, m, o) ==
  /\ Engaged(pg, r, s2, l2, m, "O", o)
  /\ ~Token(pg, r, s2, "O") /\ pg.view = EmptyBoard
  /\ ~Has(s2, {"MOVE"}) /\ ~Has(r, {"MOVE"})
  /\ l2 = "up" => Convo(pg, r, s2)

Started(pg, cq, sq, s2, l, l2, m2, o2) ==
  /\ Engaged(pg, cq, s2, l2, m2, "X", o2)
  /\ Token(pg, cq, s2, "X") <=> l2 = "up"
  /\ pg.view = EmptyBoard /\ ~Has(s2, {"MOVE"}) /\ ~Has(cq, {"MOVE"})
  /\ l = "up" /\ Convo(pg, cq, sq) => Convo(pg, cq, s2)

(* The page of the second player, told its match and that the match starts. *)
LEMMA JoinedPage ==
  ASSUME NEW pg, NEW cq \in Seq(PageFrames), NEW sq \in Seq(ServerFrames),
         NEW n \in 1 .. Len(cq), AskedLast(cq), Head(cq).code = "JOIN_MATCH",
         NEW f \in ServerFrames, f.code \in Tells,
         NEW l, NEW l1, NEW s1, Told(l, sq, f, l1, s1),
         l = "up" => Convo(pg, cq, sq),
         l # "up" => pg = FreshPage /\ sq = <<>>,
         NEW l2, NEW s2, (l2 = l1 /\ s2 = s1) \/ Told(l1, s1, InitBoard, l2, s2),
         NEW m, m.matchID = f.mid, m.players = 2, NEW o
  PROVE  Joined(pg, SubSeq(cq, n + 1, Len(cq)), s2, l2, m, o)
<1> DEFINE r == SubSeq(cq, n + 1, Len(cq))
<1>1. InitBoard \in ServerFrames /\ InitBoard.code = "INIT_BOARD"
  BY DEF InitBoard, ServerFrames
<1>2. /\ Engaged(pg, r, s1, l1, m, "O", o)
      /\ ~Resting(pg, r, s1) /\ ~Token(pg, r, s1, "O") /\ pg.view = EmptyBoard
      /\ ~Has(s1, Plays) /\ ~Has(r, {"MOVE"}) /\ s1 \in Seq(ServerFrames)
      /\ l1 = "up" => Convo(pg, r, s1)
  <2>1. PICK s \in Marks : s = "O"
    BY DEF Marks
  <2>2. Head(cq).code = Ask(s)
    BY <2>1 DEF Ask
  <2>3. Engaged(pg, r, s1, l1, m, s, o)
    BY <2>2, SeatTaken
  <2>4. ~Resting(pg, r, s1) /\ ~Token(pg, r, s1, s) /\ pg.view = EmptyBoard
    BY <2>2, SeatTaken
  <2>5. ~Has(s1, Plays) /\ ~Has(r, {"MOVE"}) /\ s1 \in Seq(ServerFrames)
    BY <2>2, <2>3, <2>4, SeatTaken
  <2>6. l1 = "up" => Convo(pg, r, s1)
    BY <2>2, SeatTaken
  <2> QED
    BY <2>1, <2>3, <2>4, <2>5, <2>6
<1> SUFFICES /\ Engaged(pg, r, s2, l2, m, "O", o)
             /\ ~Token(pg, r, s2, "O") /\ pg.view = EmptyBoard
             /\ ~Has(s2, {"MOVE"}) /\ ~Has(r, {"MOVE"})
             /\ l2 = "up" => Convo(pg, r, s2)
  BY DEF Joined
<1> HIDE DEF r
<1>3. ~Has(s1, {"MOVE"})
  BY <1>2 DEF Has, Plays
<1>4. CASE l2 = "up" /\ s2 = Append(s1, InitBoard) /\ l1 = "up"
  <2>1. InitBoard.code \in Plays /\ InitBoard.code \notin Starts("O") /\ InitBoard.code \notin Refusals
    BY <1>1 DEF Plays, Starts, Refusals
  <2>2. /\ Engaged(pg, r, s2, l2, m, "O", o)
        /\ Token(pg, r, s2, "O") <=> l2 = "up" /\ InitBoard.code \in Starts("O")
    <3>1. PICK i \in ServerFrames : i = InitBoard
      BY <1>1
    <3>2. i.code \in Plays /\ Told(l1, s1, i, l2, s2)
      BY <1>4, <2>1, <3>1 DEF Told
    <3>3. /\ Engaged(pg, r, s2, l2, m, "O", o)
          /\ Token(pg, r, s2, "O") <=> l2 = "up" /\ i.code \in Starts("O")
      BY <1>2, <3>2, PlaySent
    <3> QED
      BY <3>1, <3>3
  <2>3. ~Has(s2, {"MOVE"})
    BY <1>1, <1>2, <1>3, <1>4, AppendQueue
  <2>4. r \in Seq(PageFrames)
    BY DropQueue DEF r
  <2>5. Convo(pg, r, s2)
    BY <1>1, <1>2, <1>4, <2>1, <2>4, AppendConvo
  <2> QED
    BY <1>2, <2>1, <2>2, <2>3, <2>5
<1>5. CASE s2 = s1 /\ (l2 = "up" => l1 = "up")
  <2>1. Engaged(pg, r, s2, l2, m, "O", o)
    BY <1>2, <1>5, EngagedChange
  <2> QED
    BY <1>2, <1>3, <1>5, <2>1
<1> QED
  BY <1>4, <1>5 DEF Told

(* The page of the first player, told that the match starts. *)
LEMMA StartedPage ==
  ASSUME NEW pg, NEW cq, NEW sq \in Seq(ServerFrames), NEW l, NEW l2, NEW s2,
         Told(l, sq, InitBoard, l2, s2),
         NEW m, NEW m2, NEW o, NEW o2,
         Engaged(pg, cq, sq, l, m, "X", o), m.players = 1,
         m2.matchID = m.matchID, m2.players = 2
  PROVE  Started(pg, cq, sq, s2, l, l2, m2, o2)
<1>1. InitBoard \in ServerFrames /\ InitBoard.code = "INIT_BOARD"
  BY DEF InitBoard, ServerFrames
<1>2. InitBoard.code \in Plays /\ InitBoard.code \in Starts("X") /\ InitBoard.code \notin Refusals
  BY <1>1 DEF Plays, Starts, Refusals
<1>3. ~Resting(pg, cq, sq) /\ ~Token(pg, cq, sq, "X") /\ pg.view = EmptyBoard
  BY DEF Engaged
<1>4. /\ Engaged(pg, cq, s2, l2, m2, "X", o2)
      /\ Token(pg, cq, s2, "X") <=> l2 = "up"
  <2>1. PICK f \in ServerFrames : f = InitBoard
    BY <1>1
  <2>2. /\ f.code \in Plays /\ f.code \in Starts("X")
        /\ Told(l, sq, f, l2, s2)
    BY <1>2, <2>1
  <2>3. PICK s : s = "X"
    OBVIOUS
  <2>4. /\ Engaged(pg, cq, sq, l, m, s, o)
        /\ ~Resting(pg, cq, sq) /\ ~Token(pg, cq, sq, s)
    BY <1>3, <2>3
  <2>5. /\ Engaged(pg, cq, s2, l2, m2, s, o2)
        /\ Token(pg, cq, s2, s) <=> l2 = "up" /\ f.code \in Starts(s)
    BY <2>2, <2>4, PlaySent
  <2> QED
    BY <2>2, <2>3, <2>5
<1>5. ~Has(cq, {"MOVE"}) /\ ~Has(sq, {"MOVE"})
  BY <1>3 DEF Token, Has, Starts, Plays
<1>6. ~Has(s2, {"MOVE"})
  <2>1. Has(Append(sq, InitBoard), {"MOVE"}) <=> Has(sq, {"MOVE"}) \/ InitBoard.code \in {"MOVE"}
    BY <1>1, AppendQueue
  <2> QED
    BY <1>1, <1>5, <2>1 DEF Told
<1>7. l = "up" /\ Convo(pg, cq, sq) => Convo(pg, cq, s2)
  BY <1>1, <1>2, <1>3, AppendConvo DEF Told
<1> QED
  BY <1>3, <1>4, <1>5, <1>6, <1>7 DEF Started
-----------------------------------------------------------------------------
(* An accepted frame, by its page. *)
LEMMA AcceptedFacts ==
  ASSUME NEW t \in Traces, NEW u \in Traces, NEW p \in Pages, NEW f, Accepted(t, u, p, f)
  PROVE  /\ u.last = "ok" /\ u.sent = t.sent + 1
         /\ \A r \in Pages : r # p => u.link[r] = t.link[r] /\ u.s2c[r] = t.s2c[r]
         /\ Told(t.link[p], t.s2c[p], f, u.link[p], u.s2c[p])
<1>0. PICK l \in [Pages -> Links], s \in [Pages -> Seq(ServerFrames)] :
        l = t.link /\ s = t.s2c
  BY SentType
<1>1. PICK l2, s2 : l2 = u.link /\ s2 = u.s2c
  OBVIOUS
<1>2. Reaches(l, s, l2, s2, p, f) /\ u.last = "ok" /\ u.sent = t.sent + 1
  BY <1>0, <1>1 DEF Accepted
<1>3. /\ \A r \in Pages : r # p => l2[r] = l[r] /\ s2[r] = s[r]
      /\ Told(l[p], s[p], f, l2[p], s2[p])
  BY <1>2, ReachFacts
<1> QED
  BY <1>0, <1>1, <1>2, <1>3

(* The table of the clients with fd seated as the second player. *)
JoinTable(clients, fd, a, id) == clients = [client EXCEPT ![fd] = Seated(@, a, id, "O")]
JoinFrames(clients, p, f, a, fd) ==
  ThenSend(ThenSend(send(Trace, p, f), clients, a, "X", heap[a].playerX, InitBoard),
           clients, a, "O", fd, InitBoard)

LEMMA JoinSends ==
  ASSUME TypeOK, Attached, NEW fd \in Fds, IsOpen(fd), NEW p \in Pages, p = client[fd].page,
         Readable(p), NEW a \in Addrs, Live(a), NEW id \in Slots,
         NEW f \in ServerFrames, NEW clients,
         JoinTable(clients, fd, a, id),
         NEW t \in JoinFrames(clients, p, f, a, fd),
         ~t.stray
  PROVE  /\ heap[a].playerX # fd
         /\ t.link \in [Pages -> Links] /\ t.s2c \in [Pages -> Seq(ServerFrames)]
         /\ \E l1, s1 : /\ Told(link[p], s2c[p], f, l1, s1)
                        /\ \/ t.link[p] = l1 /\ t.s2c[p] = s1
                           \/ Told(l1, s1, InitBoard, t.link[p], t.s2c[p])
         /\ Talks(a, "X") =>
              LET q == PageAt(a, "X")
              IN  /\ q \in Pages /\ q # p
                  /\ Told(link[q], s2c[q], InitBoard, t.link[q], t.s2c[q])
                  /\ \A r \in Pages : r # p /\ r # q => t.link[r] = link[r] /\ t.s2c[r] = s2c[r]
         /\ ~Talks(a, "X") =>
              \A r \in Pages : r # p => t.link[r] = link[r] /\ t.s2c[r] = s2c[r]
<1> DEFINE x == heap[a].playerX
           joined == send(Trace, p, f)
           toX == ThenSend(joined, clients, a, "X", x, InitBoard)
<1>1. client[fd] \in ClientStates /\ id \in MatchIds /\ "O" \in Marks /\ InitBoard \in ServerFrames
  BY ClientType, SlotType DEF Marks, InitBoard, ServerFrames
<1>2. clients \in ClientTables
  BY <1>1, SeatedType DEF TypeOK, ClientTables, JoinTable
<1>3. joined \in SUBSET Traces
  BY TraceType, SendType
<1>4. toX \in SUBSET Traces
  BY <1>1, <1>2, <1>3, ThenSendType
<1>5. ThenSend(toX, clients, a, "O", fd, InitBoard) \in SUBSET Traces
  BY <1>1, <1>2, <1>4, ThenSendType
<1>6. t \in Traces
  BY <1>5 DEF JoinFrames
<1>7. /\ clients[fd] = Seated(client[fd], a, id, "O")
      /\ \A g \in Fds : g # fd => clients[g] = client[g]
  BY DEF TypeOK, JoinTable
<1>8. clients[fd].seat = "O" /\ clients[fd].page = p
  <2>1. PICK c \in ClientStates : c = client[fd]
    BY <1>1
  <2>2. PICK d : d = [c EXCEPT !.currentMatch = a, !.meant = id, !.seat = "O"]
    OBVIOUS
  <2>3. d.seat = "O" /\ d.page = c.page
    BY <2>2 DEF ClientStates
  <2>4. clients[fd] = d
    BY <1>7, <2>1, <2>2 DEF Seated
  <2> QED
    BY <2>1, <2>3, <2>4
<1>20. PICK second, first : second = "O" /\ first = "X"
  OBVIOUS
<1>21. t \in ThenSend(toX, clients, a, second, fd, InitBoard)
  BY <1>20 DEF JoinFrames
<1>22. toX = ThenSend(joined, clients, a, first, x, InitBoard)
  BY <1>20
<1> HIDE DEF x, joined, toX
<1>9. PICK u \in toX :
           /\ ~u.stray
           /\ \/ u.last # "ok" /\ t = u
              \/ Accepted(u, t, p, InitBoard)
              \/ Failed(u, t)
  <2>1. PICK u \in toX : \/ u.last = "ok" /\ t \in send_response(u, clients, a, second, fd, InitBoard)
                         \/ u.last # "ok" /\ t = u
    BY <1>21, ThenSendResult
  <2>2. u \in Traces
    BY <1>4
  <2>3. CASE u.last = "ok" /\ t \in send_response(u, clients, a, second, fd, InitBoard)
    <3>1. Accepted(u, t, clients[fd].page, InitBoard) \/ Failed(u, t)
      BY <1>2, <2>2, <2>3, ResponseResult
    <3>2. ~u.stray
      BY <3>1 DEF Accepted, Failed
    <3> QED
      BY <1>8, <3>1, <3>2
  <2> QED
    BY <2>1, <2>3
<1>10. u \in Traces
  BY <1>4
<1>11. PICK v \in joined :
           /\ ~v.stray
           /\ \/ v.last # "ok" /\ u = v
              \/ /\ v.last = "ok" /\ x \in Fds /\ clients[x] # NoClient
                 /\ IsPlayer(clients[x], a, "X")
                 /\ v.link[clients[x].page] \in {"up", "fin"}
                 /\ Accepted(v, u, clients[x].page, InitBoard)
              \/ /\ v.last = "ok" /\ Failed(v, u)
                 /\ x \in Fds /\ clients[x] # NoClient =>
                      /\ IsPlayer(clients[x], a, "X")
                      /\ v.link[clients[x].page] \notin {"up", "fin"}
  <2>1. u \in ThenSend(joined, clients, a, first, x, InitBoard) /\ ~u.stray
    BY <1>9, <1>22
  <2>2. PICK v \in joined :
          \/ v.last = "ok" /\ u \in send_response(v, clients, a, first, x, InitBoard)
          \/ v.last # "ok" /\ u = v
    BY <2>1, ThenSendResult
  <2>3. v \in Traces
    BY <1>3
  <2>4. CASE v.last = "ok" /\ u \in send_response(v, clients, a, first, x, InitBoard)
    <3>1. \/ /\ x \in Fds /\ clients[x] # NoClient /\ IsPlayer(clients[x], a, first)
             /\ v.link[clients[x].page] \in {"up", "fin"}
             /\ Accepted(v, u, clients[x].page, InitBoard)
          \/ /\ x \in Fds /\ clients[x] # NoClient =>
                  /\ IsPlayer(clients[x], a, first)
                  /\ v.link[clients[x].page] \notin {"up", "fin"}
             /\ Failed(v, u)
      BY <1>2, <2>1, <2>3, <2>4, ResponseResult
    <3>2. ~v.stray
      BY <3>1 DEF Accepted, Failed
    <3> QED
      BY <1>20, <2>4, <3>1, <3>2
  <2> QED
    BY <2>1, <2>2, <2>4
<1>12. /\ v \in Traces /\ v.last = "ok"
       /\ \A r \in Pages : r # p => v.link[r] = link[r] /\ v.s2c[r] = s2c[r]
       /\ Told(link[p], s2c[p], f, v.link[p], v.s2c[p])
  BY OwnSend DEF joined
<1>13. x # fd
  <2>1. clients[fd] # NoClient /\ ~IsPlayer(clients[fd], a, "X")
    BY <1>1, <1>7, <1>8, SeatedType, OpenClient DEF IsPlayer
  <2> QED
    BY <1>11, <1>12, <2>1
<1>14. Seat(a, "X") = x
  BY DEF Seat, x
<1>15. /\ \A r \in Pages : r # p => t.link[r] = u.link[r] /\ t.s2c[r] = u.s2c[r]
       /\ \/ t.link[p] = u.link[p] /\ t.s2c[p] = u.s2c[p]
          \/ Told(u.link[p], u.s2c[p], InitBoard, t.link[p], t.s2c[p])
  BY <1>6, <1>9, <1>10, AcceptedFacts DEF Failed
<1>16. t.link \in [Pages -> Links] /\ t.s2c \in [Pages -> Seq(ServerFrames)]
  BY <1>6, SentType
<1>17. ASSUME NEW q \in Pages, q # p, IsOpen(x), IsPlayer(client[x], a, "X"), q = client[x].page,
              Accepted(v, u, q, InitBoard), link[q] \in {"up", "fin"}
       PROVE  /\ Talks(a, "X") /\ PageAt(a, "X") = q
              /\ Told(link[q], s2c[q], InitBoard, t.link[q], t.s2c[q])
              /\ \A r \in Pages : r # p /\ r # q => t.link[r] = link[r] /\ t.s2c[r] = s2c[r]
              /\ \/ t.link[p] = v.link[p] /\ t.s2c[p] = v.s2c[p]
                 \/ Told(v.link[p], v.s2c[p], InitBoard, t.link[p], t.s2c[p])
  <2>1. /\ \A r \in Pages : r # q => u.link[r] = v.link[r] /\ u.s2c[r] = v.s2c[r]
        /\ Told(v.link[q], v.s2c[q], InitBoard, u.link[q], u.s2c[q])
    BY <1>10, <1>12, <1>17, AcceptedFacts
  <2>2. Talks(a, "X") /\ PageAt(a, "X") = q
    BY <1>14, <1>17 DEF Talks, Held, PageAt
  <2>3. Told(link[q], s2c[q], InitBoard, t.link[q], t.s2c[q])
    BY <1>12, <1>15, <1>17, <2>1
  <2> QED
    BY <1>12, <1>15, <1>17, <2>1, <2>2, <2>3
<1>18. CASE /\ x \in Fds /\ clients[x] # NoClient /\ IsPlayer(clients[x], a, "X")
            /\ v.link[clients[x].page] \in {"up", "fin"}
            /\ Accepted(v, u, clients[x].page, InitBoard)
  <2>1. clients[x] = client[x] /\ IsOpen(x) /\ IsPlayer(client[x], a, "X")
    BY <1>7, <1>13, <1>18 DEF IsOpen
  <2>2. PICK q \in Pages : q = client[x].page /\ q # p
    BY <1>13, <1>18, <2>1, ClientsApart
  <2>3. link[q] \in {"up", "fin"}
    BY <1>12, <1>18, <2>1, <2>2
  <2>4. Accepted(v, u, q, InitBoard)
    BY <1>18, <2>1, <2>2
  <2>5. /\ Talks(a, "X") /\ PageAt(a, "X") = q
        /\ Told(link[q], s2c[q], InitBoard, t.link[q], t.s2c[q])
        /\ \A r \in Pages : r # p /\ r # q => t.link[r] = link[r] /\ t.s2c[r] = s2c[r]
        /\ \/ t.link[p] = v.link[p] /\ t.s2c[p] = v.s2c[p]
           \/ Told(v.link[p], v.s2c[p], InitBoard, t.link[p], t.s2c[p])
    BY <1>17, <2>1, <2>2, <2>3, <2>4
  <2> QED
    BY <1>12, <1>13, <1>16, <2>2, <2>5 DEF x
<1>19. CASE /\ Failed(v, u)
            /\ x \in Fds /\ clients[x] # NoClient =>
                 v.link[clients[x].page] \notin {"up", "fin"}
  <2>1. u.link = v.link /\ u.s2c = v.s2c
    BY <1>19 DEF Failed
  <2>2. ~Talks(a, "X")
    <3> SUFFICES ASSUME Talks(a, "X") PROVE FALSE
      OBVIOUS
    <3>1. IsOpen(x) /\ link[client[x].page] \in {"up", "fin"}
      BY <1>14 DEF Talks, Held, PageAt
    <3>2. x \in Fds /\ clients[x] = client[x] /\ clients[x] # NoClient
      BY <1>7, <1>13, <3>1 DEF IsOpen
    <3>3. client[x].page \in Pages /\ client[x].page # p
      BY <1>13, <3>1, <3>2, ClientsApart
    <3>4. v.link[client[x].page] = link[client[x].page]
      BY <1>12, <3>3
    <3> QED
      BY <1>19, <3>1, <3>2, <3>4
  <2>3. \A r \in Pages : r # p => t.link[r] = link[r] /\ t.s2c[r] = s2c[r]
    BY <1>12, <1>15, <2>1
  <2>4. \/ t.link[p] = v.link[p] /\ t.s2c[p] = v.s2c[p]
        \/ Told(v.link[p], v.s2c[p], InitBoard, t.link[p], t.s2c[p])
    BY <1>15, <2>1
  <2> QED
    BY <1>12, <1>13, <1>16, <2>2, <2>3, <2>4 DEF x
<1> QED
  BY <1>11, <1>12, <1>18, <1>19
-----------------------------------------------------------------------------
(* The record once the second player has its seat. *)
LEMMA SecondRecord ==
  ASSUME NEW m, NEW m1, NEW b1, NEW how, RecordOK(m1, b1, how), m1.players = 1,
         m.players = 2, m.board = m1.board, m.moves = m1.moves,
         m.playerX # m.playerO, m.playerO # NoFd, NEW b
  PROVE  RecordOK(m, b, how)
<1>1. PICK bd, k : bd = m.board /\ k = m.moves
  OBVIOUS
<1>2. ~Decided(bd, k)
  <2>1. Decided(bd, k) => m1.players = 2
    BY <1>1 DEF RecordOK
  <2> QED
    BY <2>1
<1>3. how = ""
  BY <1>1, <1>2 DEF RecordOK
<1>4. k = Count(bd, "X") + Count(bd, "O") /\ Count(bd, "X") - Count(bd, "O") \in {0, 1}
  BY <1>1 DEF RecordOK
<1>5. /\ m.players # 1
      /\ m.moves = Count(m.board, "X") + Count(m.board, "O")
      /\ Count(m.board, "X") - Count(m.board, "O") \in {0, 1}
  BY <1>1, <1>4
<1>6. ~Decided(m.board, m.moves)
  BY <1>1, <1>2, Zenon
<1> QED
  BY <1>3, <1>5, <1>6, Zenon DEF RecordOK

LEMMA JoinKeeps ==
  ASSUME TypeOK, RegistryInOrder, Wired, Orderly, fault = "none", fault' = "none", up',
         NEW fd \in Fds, NEW id \in Slots, join_match(fd, id), UNCHANGED pageVars
  PROVE  Wired' /\ Orderly'
<1>1. PICK p \in Pages : p = client[fd].page
  BY ClientType DEF join_match, Receive
<1>2. /\ IsOpen(fd) /\ client[fd].handshake /\ Readable(p) /\ c2s[p] # <<>>
      /\ Head(c2s[p]) = [code |-> "JOIN_MATCH", message |-> id] /\ page' = page
  BY <1>1 DEF join_match, Receive, pageVars
<1>3. CASE ~Joinable(id)
  <2>1. /\ \E t \in send(Trace, client[fd].page, [code |-> "MATCH_JOIN_FAILED"]) : Sent(t)
        /\ Received(fd)
        /\ UNCHANGED <<up, match_id, matches, heap, client, fault, outcome>>
    BY <1>3 DEF join_match
  <2>2. Head(c2s[client[fd].page]).code \in Asks
    BY <1>1, <1>2 DEF Asks
  <2> QED
    BY <1>1, <1>2, <2>1, <2>2, RefuseKeeps
<1>4. CASE Joinable(id)
  <2>1. PICK a \in Addrs : a = matches[id] /\ Live(a) /\ heap[a].matchID = id
    BY <1>4 DEF Joinable, RegistryInOrder, SlotsAreAllocated, Live
  <2> DEFINE f == [code |-> "MATCH_JOINED", mid |-> id]
             clients == [client EXCEPT ![fd] = Seated(@, a, id, "O")]
             toO == ThenSend(ThenSend(send(Trace, p, f), clients, a, "X", heap[a].playerX, InitBoard),
                             clients, a, "O", fd, InitBoard)
  <2>2. PICK t \in toO :
          /\ StrayFault(t)
          /\ \/ KilledBySIGPIPE(t)
             \/ /\ Survives(t) /\ Sent(t) /\ Received(fd)
                /\ heap' = [heap EXCEPT ![a] = SecondPlayer(@, fd)]
                /\ client' = clients
                /\ UNCHANGED <<up, match_id, matches, outcome>>
    BY <1>1, <1>4, <2>1 DEF join_match
  <2>3. /\ Sent(t) /\ Received(fd)
        /\ heap' = [heap EXCEPT ![a] = SecondPlayer(@, fd)]
        /\ client' = [client EXCEPT ![fd] = Seated(@, a, id, "O")]
        /\ match_id' = match_id /\ outcome' = outcome
    <3>1. ~KilledBySIGPIPE(t)
      BY DEF KilledBySIGPIPE, Die
    <3> HIDE DEF toO
    <3> QED
      BY <2>2, <3>1
  <2>4. id \in MatchIds
    BY SlotType
  <2>5. f \in ServerFrames /\ f.code \in Tells /\ f.mid = id
    BY <2>4 DEF ServerFrames, Tells
  <2>6. /\ heap[a] \in MatchStates /\ heap[a].playerO = NoFd
        /\ MatchOK(a) /\ heap[a].players = 1
    <3>1. heap[a] \in MatchStates /\ MatchOK(a)
      BY <2>1, MatchType DEF Orderly
    <3>2. heap[a].playerO = NoFd
      BY <1>4, <2>1 DEF Joinable
    <3> QED
      BY <3>1, <3>2 DEF MatchOK, RecordOK
  <2>7. ~t.stray
    <3> SUFFICES ASSUME t.stray PROVE FALSE
      <4>1. t \in Traces
        <5>1. toO \in SUBSET Traces
          BY <1>1, <1>2, <2>1, JoinTraces
        <5> QED
          BY <5>1
      <4>2. t.stray \in BOOLEAN
        BY <4>1 DEF Traces
      <4> QED
        BY <4>2
    <3> HIDE DEF toO
    <3> QED
      BY <2>2 DEF StrayFault, Noting
  <2>8. Attached /\ Network /\ AskedLast(c2s[p])
    BY DEF Wired, Network, Rests
  <2>0. PICK x : x = heap[a].playerX
    OBVIOUS
  <2> DEFINE q == PageAt(a, "X")
  <2>9. /\ x # fd
        /\ t.link \in [Pages -> Links] /\ t.s2c \in [Pages -> Seq(ServerFrames)]
        /\ \E l1, s1 : /\ Told(link[p], s2c[p], f, l1, s1)
                       /\ \/ t.link[p] = l1 /\ t.s2c[p] = s1
                          \/ Told(l1, s1, InitBoard, t.link[p], t.s2c[p])
        /\ Talks(a, "X") =>
             /\ q \in Pages /\ q # p
             /\ Told(link[q], s2c[q], InitBoard, t.link[q], t.s2c[q])
             /\ \A r \in Pages : r # p /\ r # q => t.link[r] = link[r] /\ t.s2c[r] = s2c[r]
        /\ ~Talks(a, "X") =>
             \A r \in Pages : r # p => t.link[r] = link[r] /\ t.s2c[r] = s2c[r]
    <3>1. PICK cl : cl = clients
      OBVIOUS
    <3>2. PICK g \in ServerFrames : g = f
      BY <2>5
    <3>3. t \in JoinFrames(cl, p, g, a, fd)
      BY <3>1, <3>2 DEF JoinFrames
    <3>4. JoinTable(cl, fd, a, id)
      BY <3>1 DEF JoinTable
    <3> HIDE DEF f, clients, toO
    <3>5. TypeOK /\ Attached /\ IsOpen(fd) /\ Readable(p) /\ Live(a) /\ ~t.stray
      BY <1>2, <2>1, <2>7, <2>8
    <3>6. heap[a].playerX # fd /\ t.link \in [Pages -> Links] /\ t.s2c \in [Pages -> Seq(ServerFrames)]
      BY <1>1, <3>3, <3>4, <3>5, JoinSends
    <3>7. \E l1, s1 : /\ Told(link[p], s2c[p], g, l1, s1)
                      /\ \/ t.link[p] = l1 /\ t.s2c[p] = s1
                         \/ Told(l1, s1, InitBoard, t.link[p], t.s2c[p])
      BY <1>1, <3>3, <3>4, <3>5, JoinSends
    <3>8. Talks(a, "X") =>
            /\ q \in Pages /\ q # p
            /\ Told(link[q], s2c[q], InitBoard, t.link[q], t.s2c[q])
            /\ \A r \in Pages : r # p /\ r # q => t.link[r] = link[r] /\ t.s2c[r] = s2c[r]
      BY <1>1, <3>3, <3>4, <3>5, JoinSends
    <3>9. ~Talks(a, "X") =>
            \A r \in Pages : r # p => t.link[r] = link[r] /\ t.s2c[r] = s2c[r]
      BY <1>1, <3>3, <3>4, <3>5, JoinSends
    <3> QED
      BY <2>0, <3>2, <3>6, <3>7, <3>8, <3>9
  <2> HIDE DEF f, clients, toO
  <2>10. link' = t.link /\ s2c' = t.s2c
    BY <2>3 DEF Sent
  <2>11. PICK n \in 1 .. Len(c2s[p]) :
          /\ \A r \in Pages : r # p => c2s'[r] = c2s[r]
          /\ c2s'[p] = SubSeq(c2s[p], n + 1, Len(c2s[p]))
          /\ AskedLast(c2s[p]) => AskedLast(c2s'[p])
    BY <1>1, <1>2, <2>3, ReceivedQueue
  <2>12. /\ client'[fd].page = p /\ client'[fd].handshake
         /\ client'[fd].currentMatch = a /\ client'[fd].meant = id /\ client'[fd].seat = "O"
         /\ \A g \in Fds : g # fd => client'[g] = client[g]
         /\ \A g \in Fds : IsOpen(g)' = IsOpen(g)
    <3>1. PICK s \in Marks : s = "O"
      BY DEF Marks
    <3>2. client' = [client EXCEPT ![fd] = Seated(@, a, id, s)]
      BY <2>3, <3>1
    <3>4. IsOpen(fd)
      BY <1>2
    <3>3. /\ client'[fd].page = client[fd].page /\ client'[fd].handshake = client[fd].handshake
          /\ client'[fd].currentMatch = a /\ client'[fd].meant = id /\ client'[fd].seat = s
          /\ \A g \in Fds : g # fd => client'[g] = client[g]
          /\ \A g \in Fds : IsOpen(g)' = IsOpen(g)
      BY <2>4, <3>2, <3>4, SeatedFields, ZenonT(30)
    <3> QED
      BY <1>1, <1>2, <3>1, <3>3
  <2>13. PICK m \in MatchStates : m = SecondPlayer(heap[a], fd)
    BY <2>6, SecondPlayerType
  <2>14. /\ m.matchID = id /\ m.playerX = x /\ m.playerO = fd /\ m.players = 2
         /\ m.board = heap[a].board /\ m.moves = heap[a].moves
    BY <2>0, <2>1, <2>6, <2>13 DEF SecondPlayer, MatchStates
  <2>15. heap'[a] = m /\ \A b \in Addrs : b # a => heap'[b] = heap[b]
    BY <2>3, <2>13 DEF TypeOK
  <2> HIDE DEF q
  <2>16. PICK pg \in PageStates, cq \in Seq(PageFrames), sq \in Seq(ServerFrames) :
           pg = page[p] /\ cq = c2s[p] /\ sq = s2c[p]
    BY PageQueues
  (* The second player's page. *)
  <2>17. ASSUME NEW o
         PROVE  /\ Engaged(page[p], c2s'[p], s2c'[p], link'[p], m, "O", o)
                /\ ~Token(page[p], c2s'[p], s2c'[p], "O") /\ page[p].view = EmptyBoard
                /\ ~Has(s2c'[p], {"MOVE"}) /\ ~Has(c2s'[p], {"MOVE"})
                /\ link'[p] = "up" => Convo(page[p], c2s'[p], s2c'[p])
    <3>1. PICK l1, s1 : /\ Told(link[p], s2c[p], f, l1, s1)
                        /\ \/ link'[p] = l1 /\ s2c'[p] = s1
                           \/ Told(l1, s1, InitBoard, link'[p], s2c'[p])
      BY <2>9, <2>10
    <3>2. PICK l, l2, s2 : l = link[p] /\ l2 = link'[p] /\ s2 = s2c'[p]
      OBVIOUS
    <3>3. /\ Told(l, sq, f, l1, s1)
          /\ (l2 = l1 /\ s2 = s1) \/ Told(l1, s1, InitBoard, l2, s2)
          /\ l = "up" => Convo(pg, cq, sq)
          /\ l # "up" => pg = FreshPage /\ sq = <<>>
      <4>1. l \in {"up", "fin"}
        BY <1>2, <3>2 DEF Readable
      <4> QED
        BY <2>16, <3>1, <3>2, <4>1 DEF Wired, Rests, Blanks
    <3>4. /\ AskedLast(cq) /\ Head(cq).code = "JOIN_MATCH" /\ n \in 1 .. Len(cq)
          /\ m.matchID = f.mid /\ m.players = 2 /\ f.code \in Tells /\ f \in ServerFrames
      BY <1>2, <2>5, <2>8, <2>11, <2>14, <2>16
    <3>5. Joined(pg, SubSeq(cq, n + 1, Len(cq)), s2, l2, m, o)
      BY <3>3, <3>4, JoinedPage
    <3> QED
      BY <2>11, <2>16, <3>2, <3>5 DEF Joined
  (* The first player's page. *)
  <2>18. ASSUME Talks(a, "X"), NEW o
         PROVE  /\ Engaged(page[q], c2s'[q], s2c'[q], link'[q], m, "X", o)
                /\ Token(page[q], c2s'[q], s2c'[q], "X") <=> link'[q] = "up"
                /\ page[q].view = EmptyBoard
                /\ ~Has(s2c'[q], {"MOVE"}) /\ ~Has(c2s'[q], {"MOVE"})
                /\ link[q] = "up" => Convo(page[q], c2s'[q], s2c'[q])
    <3>1. /\ q \in Pages /\ q # p
          /\ Told(link[q], s2c[q], InitBoard, link'[q], s2c'[q])
      BY <2>9, <2>10, <2>18
    <3>2. PICK qg \in PageStates, qc \in Seq(PageFrames), qs \in Seq(ServerFrames) :
             qg = page[q] /\ qc = c2s[q] /\ qs = s2c[q]
      BY <3>1, PageQueues
    <3>3. PICK l, l2, s2 : l = link[q] /\ l2 = link'[q] /\ s2 = s2c'[q]
      OBVIOUS
    <3>4. PICK m1 : m1 = heap[a]
      OBVIOUS
    <3>5. PICK o1 : o1 = Talks(a, Other("X"))
      OBVIOUS
    <3>6. /\ Told(l, qs, InitBoard, l2, s2)
          /\ Engaged(qg, qc, qs, l, m1, "X", o1)
      BY <2>6, <2>18, <3>1, <3>2, <3>3, <3>4, <3>5 DEF MatchOK, EngagedAt, Talks, Marks, q
    <3>7. m1.players = 1 /\ m.matchID = m1.matchID /\ m.players = 2
      BY <2>1, <2>6, <2>14, <3>4
    <3>8. Started(qg, qc, qs, s2, l, l2, m, o)
      BY <3>6, <3>7, StartedPage
    <3>9. l = "up" => Convo(qg, qc, qs)
      BY <3>1, <3>2, <3>3 DEF Wired, Rests
    <3> QED
      BY <2>11, <3>1, <3>2, <3>3, <3>8, <3>9 DEF Started
  <2>19. \A r \in Pages : r = p \/ (Talks(a, "X") /\ r = q)
                           \/ (link'[r] = link[r] /\ s2c'[r] = s2c[r] /\ c2s'[r] = c2s[r])
    BY <2>9, <2>10, <2>11 DEF q
  <2>20. \A r \in {p, q} : r = p \/ Talks(a, "X") =>
           /\ link'[r] = link[r] \/ (link[r] = "fin" /\ link'[r] = "rst")
           /\ link[r] # "up" => s2c'[r] = s2c[r]
    <3>1. /\ link'[p] = link[p] \/ (link[p] = "fin" /\ link'[p] = "rst")
          /\ link[p] # "up" => s2c'[p] = s2c[p]
      BY <2>9, <2>10 DEF Told
    <3>2. Talks(a, "X") =>
             /\ link'[q] = link[q] \/ (link[q] = "fin" /\ link'[q] = "rst")
             /\ link[q] # "up" => s2c'[q] = s2c[q]
      BY <2>9, <2>10 DEF Told, q
    <3> QED
      BY <3>1, <3>2
  <2>21. Network'
    <3>1. \A r \in Pages : /\ link'[r] = link[r] \/ (link[r] = "fin" /\ link'[r] = "rst")
                           /\ link[r] # "up" => s2c'[r] = s2c[r]
      BY <2>19, <2>20
    <3>2. \A r \in Pages : link[r] = "up" => Convo(page[r], c2s'[r], s2c'[r])
      <4> SUFFICES ASSUME NEW r \in Pages, link[r] = "up" PROVE Convo(page[r], c2s'[r], s2c'[r])
        OBVIOUS
      <4>1. CASE r = p
        BY <2>17, <3>1, <4>1
      <4>2. CASE Talks(a, "X") /\ r = q
        BY <2>18, <4>2
      <4>3. CASE link'[r] = link[r] /\ s2c'[r] = s2c[r] /\ c2s'[r] = c2s[r]
        BY <4>3 DEF Wired, Rests
      <4> QED
        BY <2>19, <4>1, <4>2, <4>3
    <3>3. /\ \A r \in Pages : link[r] = "syn" => c2s'[r] = c2s[r]
          /\ \A r \in Pages : AskedLast(c2s'[r])
      BY <1>2, <2>8, <2>11 DEF Readable, Wired, Rests
    <3>4. \A g \in Fds : IsOpen(g) /\ ~client'[g].handshake =>
             client'[g].currentMatch = NULL /\ Greets(client[g].page)'
      <4> SUFFICES ASSUME NEW g \in Fds, IsOpen(g), ~client'[g].handshake
                   PROVE  client'[g].currentMatch = NULL /\ Greets(client[g].page)'
        OBVIOUS
      <4>1. g # fd /\ client'[g] = client[g]
        BY <2>12
      <4>2. PICK r \in Pages : r = client[g].page /\ r # p
        BY <1>1, <1>2, <2>8, <4>1, ClientsApart
      <4>3. client[g].currentMatch = NULL /\ Greets(r)
        BY <4>1, <4>2 DEF Wired, Greeting
      <4>4. ~(Talks(a, "X") /\ r = q)
        <5> SUFFICES ASSUME Talks(a, "X"), r = q PROVE FALSE
          OBVIOUS
        <5>1. Held(a, "X") /\ Seat(a, "X") \in Fds /\ IsOpen(Seat(a, "X"))
          BY DEF Talks, Held, IsOpen
        <5>2. client[Seat(a, "X")].page = r /\ client[Seat(a, "X")].currentMatch = a
          BY <5>1 DEF q, PageAt, Held, IsPlayer, Owns
        <5>3. Seat(a, "X") = g
          BY <2>8, <4>2, <5>1, <5>2 DEF Attached
        <5> QED
          BY <4>3, <5>2, <5>3, ServerAssumption
      <4>5. Greets(r)'
        BY <1>2, <2>19, <4>2, <4>3, <4>4 DEF Greets
      <4> QED
        BY <4>1, <4>2, <4>3, <4>5
    <3> QED
      BY <1>1, <1>2, <2>8, <2>12, <3>1, <3>2, <3>3, <3>4, HandlerNetwork
  <2>22. Pointers'
    <3> SUFFICES ASSUME NEW g \in Fds, IsOpen(g) PROVE PointerOK(g)'
      BY <2>12 DEF Pointers
    <3>1. CASE g = fd
      <4>1. client'[fd].meant < match_id'
        BY <2>1, <2>3, <2>12 DEF RegistryInOrder, IdsAreHandedOut
      <4>2. Seat(a, "O")' = fd
        BY <2>14, <2>15 DEF Seat
      <4>3. \A b \in Addrs : Owns(client[g], b)' => b = a
        BY <2>12, <3>1 DEF Owns
      <4> QED
        BY <2>12, <3>1, <4>1, <4>2, <4>3 DEF PointerOK, Marks
    <3>2. CASE g # fd
      <4>1. \A b \in Addrs : Live(b)' =>
               /\ Live(b) /\ heap'[b].matchID = heap[b].matchID
               /\ heap'[b].playerX = heap[b].playerX
               /\ heap'[b].playerO # heap[b].playerO => heap[b].playerO = NoFd
        BY <2>0, <2>1, <2>6, <2>14, <2>15 DEF Live
      <4> QED
        BY <2>3, <2>12, <3>2, <4>1, PointerKeeps DEF Wired
    <3> QED
      BY <3>1, <3>2
  <2>23. FreshIds'
    BY <2>3 DEF Wired, FreshIds
  <2>24. ASSUME NEW b \in Addrs, Live(b)', b # a PROVE MatchOK(b)'
    <3>1. heap'[b] = heap[b] /\ Live(b) /\ MatchOK(b)
      BY <2>15, <2>24 DEF Live, Orderly
    <3>2. outcome'[heap[b].matchID] = outcome[heap[b].matchID]
      BY <2>3
    <3>3. PICK z : z = IF Talks(a, "X") THEN q ELSE p
      OBVIOUS
    <3>4. \A g \in Fds : g # fd /\ IsOpen(g) /\ client[g].page = z => ~Owns(client[g], b)
      <4> SUFFICES ASSUME NEW g \in Fds, g # fd, IsOpen(g), client[g].page = z, Owns(client[g], b)
                   PROVE  FALSE
        OBVIOUS
      <4>1. Talks(a, "X") /\ z = q
        BY <1>1, <1>2, <2>8, <3>3, ClientsApart
      <4>2. Held(a, "X") /\ Seat(a, "X") \in Fds /\ IsOpen(Seat(a, "X"))
        BY <4>1 DEF Talks, Held, IsOpen
      <4>3. client[Seat(a, "X")].page = z /\ client[Seat(a, "X")].currentMatch = a
        BY <4>1, <4>2 DEF q, PageAt, Held, IsPlayer, Owns
      <4>4. Seat(a, "X") = g
        BY <2>8, <4>2, <4>3 DEF Attached
      <4> QED
        BY <2>24, <4>3, <4>4 DEF Owns
    <3>5. \A r \in Pages : r # client[fd].page /\ r # z => SameAt(r)
      BY <1>1, <1>2, <2>19, <3>3 DEF SameAt
    <3>6. IsOpen(fd)' => client'[fd].currentMatch # b
      BY <2>12, <2>24
    <3> QED
      BY <1>2, <2>8, <2>12, <3>1, <3>2, <3>4, <3>5, <3>6, OtherMatch
  <2>25. MatchOK(a)'
    <3>1. /\ Seat(a, "X")' = x /\ Seat(a, "O")' = fd /\ Seat(a, "X") = x
      BY <2>0, <2>14, <2>15 DEF Seat
    <3>2. Held(a, "O")' /\ PageAt(a, "O")' = p
      <4>1. IsOpen(fd)' /\ Live(a)'
        <5>1. IsOpen(fd)'
          BY <1>2, <2>12, ServerAssumption
        <5>2. m # Free
          BY DEF MatchStates, Free
        <5> QED
          BY <2>15, <5>1, <5>2 DEF Live
      <4>2. IsPlayer(client[fd], a, "O")'
        BY <2>12, <2>14, <2>15, <4>1 DEF IsPlayer, Owns
      <4> QED
        BY <2>12, <3>1, <4>1, <4>2 DEF Held, PageAt
    <3>3. ASSUME Held(a, "X")' PROVE Held(a, "X") /\ PageAt(a, "X")' = q
      <4>1. x \in Fds /\ IsOpen(x)' /\ IsPlayer(client[x], a, "X")'
        BY <3>1, <3>3 DEF Held, IsOpen
      <4>2. client'[x] = client[x] /\ IsOpen(x)
        BY <2>0, <2>9, <2>12, <4>1
      <4>3. IsPlayer(client[x], a, "X")
        BY <2>1, <2>14, <2>15, <4>1, <4>2 DEF IsPlayer, Owns
      <4> QED
        BY <3>1, <4>2, <4>3 DEF Held, PageAt, q
    <3>4. Talks(a, "X")' => Talks(a, "X")
      <4> SUFFICES ASSUME Talks(a, "X")', ~Talks(a, "X") PROVE FALSE
        OBVIOUS
      <4>1. Held(a, "X") /\ PageAt(a, "X")' = q /\ link'[q] \in {"up", "fin"}
        BY <3>3 DEF Talks
      <4>2. q \in Pages /\ q # p
        <5>1. x \in Fds /\ IsOpen(x) /\ x # fd
          BY <2>0, <2>9, <3>1, <4>1 DEF Held, IsOpen
        <5>2. q = client[x].page
          BY <3>1 DEF q, PageAt
        <5> QED
          BY <1>1, <1>2, <2>8, <5>1, <5>2, ClientsApart
      <4>3. link'[q] = link[q]
        BY <2>19, <4>2
      <4> QED
        BY <4>1, <4>3 DEF Talks, q
    <3>5. RecordOK(heap'[a], Both(a)', outcome'[heap'[a].matchID])
      <4>1. PICK m1 \in MatchStates : m1 = heap[a]
        BY <2>6
      <4>2. PICK o1 : o1 = outcome[id]
        OBVIOUS
      <4>3. RecordOK(m1, Both(a), o1)
        BY <2>1, <2>6, <4>1, <4>2 DEF MatchOK
      <4>4. /\ m1.players = 1 /\ m.board = m1.board /\ m.moves = m1.moves
            /\ m.playerO # NoFd
        BY <2>6, <2>14, <4>1, ServerAssumption DEF NoFd
      <4>5. m.playerX # m.playerO /\ m.players = 2
        BY <2>0, <2>9, <2>14
      <4>6. ASSUME NEW b PROVE RecordOK(m, b, o1)
        BY <4>3, <4>4, <4>5, SecondRecord
      <4>7. PICK b : b = Both(a)'
        OBVIOUS
      <4>8. RecordOK(m, b, o1)
        BY <4>6
      <4> QED
        BY <2>3, <2>14, <2>15, <4>2, <4>7, <4>8
    <3>6. EngagedAt(a, "O", PageAt(a, "O"))'
      <4>1. PICK o : o = Talks(a, Other("O"))'
        OBVIOUS
      <4>2. Engaged(page'[p], c2s'[p], s2c'[p], link'[p], heap'[a], "O", o)
        BY <1>2, <2>15, <2>17
      <4> QED
        BY <3>2, <4>1, <4>2 DEF EngagedAt
    <3>7. ASSUME Held(a, "X")' PROVE EngagedAt(a, "X", PageAt(a, "X"))'
      <4>1. PICK o : o = Talks(a, Other("X"))'
        OBVIOUS
      <4>2. Held(a, "X") /\ PageAt(a, "X")' = q
        BY <3>3, <3>7
      <4>3. Engaged(page[q], c2s'[q], s2c'[q], link'[q], m, "X", o)
        <5>1. CASE Talks(a, "X")
          BY <2>18, <5>1
        <5>2. CASE ~Talks(a, "X")
          <6>1. q \in Pages /\ q # p
            <7>1. x \in Fds /\ IsOpen(x) /\ x # fd
              BY <2>0, <2>9, <3>1, <4>2 DEF Held, IsOpen
            <7>2. q = client[x].page
              BY <3>1 DEF q, PageAt
            <7> QED
              BY <1>1, <1>2, <2>8, <7>1, <7>2, ClientsApart
          <6>2. link'[q] = link[q] /\ s2c'[q] = s2c[q] /\ c2s'[q] = c2s[q]
            BY <2>19, <5>2, <6>1
          <6>3. EngagedAt(a, "X", q)
            BY <2>6, <4>2 DEF MatchOK, Marks, q
          <6>4. ~Resting(page[q], c2s[q], s2c[q])
            BY <2>6, <6>3 DEF EngagedAt, Engaged
          <6>5. Engaged(page[q], c2s[q], s2c[q], link[q], m, "X", o)
            BY <2>1, <2>14, <6>3, <6>4, EngagedChange DEF EngagedAt
          <6> QED
            BY <6>2, <6>5
        <5> QED
          BY <5>1, <5>2
      <4>4. Engaged(page'[q], c2s'[q], s2c'[q], link'[q], heap'[a], "X", o)
        BY <1>2, <2>15, <4>3
      <4> QED
        BY <4>1, <4>2, <4>4 DEF EngagedAt
    <3>8. ASSUME Both(a)'
          PROVE  /\ AgreesAt(a, "X", PageAt(a, "X"))' /\ AgreesAt(a, "O", PageAt(a, "O"))'
                 /\ link'[PageAt(a, "X")'] = "up" => TokenAt("X", PageAt(a, "X"))'
      <4>1. Talks(a, "X") /\ PageAt(a, "X")' = q
        BY <3>3, <3>4, <3>8 DEF Both, Talks
      <4>2. heap[a].board = EmptyBoard
        BY <2>6 DEF MatchOK, RecordOK
      <4>3. m.board = EmptyBoard /\ ToMove(m.board) = "X"
        BY <2>14, <4>2, EmptyBoardOpen
      <4>4. /\ Token(page[q], c2s'[q], s2c'[q], "X") <=> link'[q] = "up"
            /\ page[q].view = EmptyBoard
            /\ ~Has(s2c'[q], {"MOVE"}) /\ ~Has(c2s'[q], {"MOVE"})
        BY <2>18, <4>1
      <4>5. Agrees(page[q], c2s'[q], s2c'[q], link'[q], m, "X")
        BY <4>3, <4>4, AgreesWithoutMoves
      <4>6. /\ ~Token(page[p], c2s'[p], s2c'[p], "O") /\ page[p].view = EmptyBoard
            /\ ~Has(s2c'[p], {"MOVE"}) /\ ~Has(c2s'[p], {"MOVE"})
        BY <2>17
      <4>7. Agrees(page[p], c2s'[p], s2c'[p], link'[p], m, "O")
        BY <4>3, <4>6, AgreesWithoutMoves
      <4> QED
        BY <1>2, <2>15, <3>2, <4>1, <4>4, <4>5, <4>7 DEF AgreesAt, TokenAt
    <3> QED
      BY <3>5, <3>6, <3>7, <3>8 DEF MatchOK, Marks
  <2>26. Orderly'
    <3>1. \A b \in Addrs : Live(b)' => MatchOK(b)'
      BY <2>24, <2>25
    <3> QED
      BY <3>1 DEF Orderly
  <2> QED
    BY <2>21, <2>22, <2>23, <2>26, WiredFrom
<1> QED
  BY <1>3, <1>4
=============================================================================
