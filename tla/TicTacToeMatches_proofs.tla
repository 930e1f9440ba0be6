----------------------- MODULE TicTacToeMatches_proofs -----------------------
(***************************************************************************)
(* The matches of TicTacToe, for any pages, descriptors, addresses, boards *)
(* and table size.  Moves and departures keep them in the good order that  *)
(* TicTacToe_proofs defines and that its pages, its network and the start  *)
(* of a match keep; from this invariant follow that the players agree on   *)
(* the turn, the board and their seats, and that each match is a Game,     *)
(* whose verdicts are fair.                                                *)
(*                                                                         *)
(* The last part is about the executions in which nobody leaves or clicks  *)
(* late: the server never follows a pointer that dangles, never sends a    *)
(* frame to a client that is not the player, and is never killed.  Its     *)
(* invariant adds that every record keeps its players, and that a client   *)
(* whose pointer is not sound is in the lobby or about to be there.        *)
(***************************************************************************)
EXTENDS TicTacToe_proofs
-----------------------------------------------------------------------------
(***************************************************************************)
(* The sends of MOVE and of the end of a match.                            *)
(***************************************************************************)
Reached(v, a, s) == Held(a, s) /\ v.link[PageAt(a, s)] \in {"up", "fin"}

(* A frame for the player with mark s of match a. *)
LEMMA SeatSend ==
  ASSUME TypeOK, NEW v \in Traces, NEW a, NEW s \in Marks, NEW f \in ServerFrames,
         NEW t \in send_response(v, client, a, s, Seat(a, s), f), ~t.stray
  PROVE  /\ t \in Traces /\ ~v.stray
         /\ Reached(v, a, s) => Accepted(v, t, PageAt(a, s), f)
         /\ ~Reached(v, a, s) => Failed(v, t)
<1>1. client \in ClientTables
  BY DEF TypeOK, ClientTables
<1>2. t \in Traces
  BY <1>1, SendResponseType
<1>3. PICK to : to = Seat(a, s)
  OBVIOUS
<1>4. \/ /\ to \in Fds /\ client[to] # NoClient /\ IsPlayer(client[to], a, s)
         /\ v.link[client[to].page] \in {"up", "fin"}
         /\ Accepted(v, t, client[to].page, f)
      \/ /\ to \in Fds /\ client[to] # NoClient =>
              /\ IsPlayer(client[to], a, s)
              /\ v.link[client[to].page] \notin {"up", "fin"}
         /\ Failed(v, t)
  BY <1>1, <1>3, ResponseResult
<1>5. PageAt(a, s) = client[to].page /\ (Held(a, s) <=> IsOpen(to) /\ IsPlayer(client[to], a, s))
  BY <1>3 DEF PageAt, Held
<1>6. ~v.stray
  BY <1>4 DEF Accepted, Failed
<1>7. CASE /\ to \in Fds /\ client[to] # NoClient /\ IsPlayer(client[to], a, s)
           /\ v.link[client[to].page] \in {"up", "fin"}
           /\ Accepted(v, t, client[to].page, f)
  BY <1>2, <1>5, <1>6, <1>7 DEF Reached, IsOpen
<1>8. CASE /\ to \in Fds /\ client[to] # NoClient => v.link[client[to].page] \notin {"up", "fin"}
           /\ Failed(v, t)
  BY <1>2, <1>5, <1>6, <1>8 DEF Reached, IsOpen
<1> QED
  BY <1>4, <1>7, <1>8

(* The first frame of a handler. *)
FirstTo(a, s, f) == ThenSend({Trace}, client, a, s, Seat(a, s), f)

LEMMA FirstSend ==
  ASSUME TypeOK, NEW a, NEW s \in Marks, NEW f \in ServerFrames,
         NEW t \in FirstTo(a, s, f), ~t.stray
  PROVE  /\ t \in Traces
         /\ Talks(a, s) => Accepted(Trace, t, PageAt(a, s), f)
         /\ ~Talks(a, s) => Failed(Trace, t)
<1>1. Trace \in Traces /\ Trace.last = "ok" /\ Trace.link = link
  BY TraceType, TraceIs
<1>2. t \in send_response(Trace, client, a, s, Seat(a, s), f)
  BY <1>1 DEF FirstTo, ThenSend
<1>3. Reached(Trace, a, s) <=> Talks(a, s)
  BY <1>1 DEF Reached, Talks
<1> QED
  BY <1>1, <1>2, <1>3, SeatSend

(* The verdict of a move, told to X and then to O. *)
VerdictTo(a, s, f, g) ==
  ThenSend(ThenSend(FirstTo(a, Other(s), f), client, a, "X", Seat(a, "X"), g),
           client, a, "O", Seat(a, "O"), g)

(* What reached the page q of the opponent and the page p of the mover:    *)
(* all, or only a reset of a page that had left.                           *)
AllTold(t, p, q, f, g) ==
  /\ Told(link[p], s2c[p], g, t.link[p], t.s2c[p])
  /\ \E l1, s1 : /\ Told(link[q], s2c[q], f, l1, s1)
                 /\ Told(l1, s1, g, t.link[q], t.s2c[q])

OnlyMover(t, p, q, g) ==
  /\ link[q] = "fin" /\ t.link[q] = "rst" /\ t.s2c[q] = s2c[q]
  /\ \/ Told(link[p], s2c[p], g, t.link[p], t.s2c[p])
     \/ t.link[p] = link[p] /\ t.s2c[p] = s2c[p]

Elsewhere(t, p, q) ==
  \A r \in Pages : r # p /\ r # q => t.link[r] = link[r] /\ t.s2c[r] = s2c[r]

LEMMA SecondSend ==
  ASSUME TypeOK, NEW ts \in SUBSET Traces, NEW a, NEW s \in Marks, NEW f \in ServerFrames,
         NEW t \in ThenSend(ts, client, a, s, Seat(a, s), f), ~t.stray
  PROVE  /\ t \in Traces
         /\ \E v \in ts : /\ ~v.stray
                          /\ v.last # "ok" => t = v
                          /\ v.last = "ok" /\ Reached(v, a, s) => Accepted(v, t, PageAt(a, s), f)
                          /\ v.last = "ok" /\ ~Reached(v, a, s) => Failed(v, t)
<1>1. PICK v \in ts : \/ v.last = "ok" /\ t \in send_response(v, client, a, s, Seat(a, s), f)
                      \/ v.last # "ok" /\ t = v
  BY ThenSendResult
<1>2. v \in Traces
  OBVIOUS
<1>3. CASE v.last = "ok" /\ t \in send_response(v, client, a, s, Seat(a, s), f)
  <2>1. /\ t \in Traces /\ ~v.stray
        /\ Reached(v, a, s) => Accepted(v, t, PageAt(a, s), f)
        /\ ~Reached(v, a, s) => Failed(v, t)
    BY <1>2, <1>3, SeatSend
  <2> QED
    BY <1>3, <2>1
<1>4. CASE v.last # "ok" /\ t = v
  BY <1>2, <1>4
<1> QED
  BY <1>1, <1>3, <1>4

LEMMA VerdictSends ==
  ASSUME TypeOK, Attached, NEW a, NEW s \in Marks, Talks(a, s),
         NEW f \in ServerFrames, NEW g \in ServerFrames,
         NEW t \in VerdictTo(a, s, f, g), ~t.stray
  PROVE  /\ t \in Traces
         /\ ~Talks(a, Other(s)) =>
              t.sent = 0 /\ t.last # "ok" /\ t.link = link /\ t.s2c = s2c
         /\ Talks(a, Other(s)) =>
              /\ t.sent > 0 /\ Elsewhere(t, PageAt(a, s), PageAt(a, Other(s)))
              /\ t.last = "ok" => AllTold(t, PageAt(a, s), PageAt(a, Other(s)), f, g)
              /\ t.last # "ok" => OnlyMover(t, PageAt(a, s), PageAt(a, Other(s)), g)
<1>0. PICK first \in Marks, second \in Marks : first = "X" /\ second = "O"
  BY DEF Marks
<1> DEFINE toX == ThenSend(FirstTo(a, Other(s), f), client, a, "X", Seat(a, "X"), g)
<1>1. Other(s) \in Marks /\ client \in ClientTables /\ Trace \in Traces
  BY TraceType DEF Other, Marks, TypeOK, ClientTables
<1>2. {Trace} \in SUBSET Traces
  BY <1>1
<1>3. FirstTo(a, Other(s), f) \in SUBSET Traces
  BY <1>1, <1>2, ThenSendType DEF FirstTo
<1>4. toX \in SUBSET Traces
  BY <1>1, <1>3, ThenSendType
<1>5. /\ t \in ThenSend(toX, client, a, second, Seat(a, second), g)
      /\ toX = ThenSend(FirstTo(a, Other(s), f), client, a, first, Seat(a, first), g)
  BY <1>0 DEF VerdictTo
<1> HIDE DEF toX
<1>6. PICK u \in toX :
        /\ t \in Traces /\ ~u.stray
        /\ u.last # "ok" => t = u
        /\ u.last = "ok" /\ Reached(u, a, "O") => Accepted(u, t, PageAt(a, "O"), g)
        /\ u.last = "ok" /\ ~Reached(u, a, "O") => Failed(u, t)
  <2>1. t \in Traces /\ \E u \in toX :
          /\ ~u.stray
          /\ u.last # "ok" => t = u
          /\ u.last = "ok" /\ Reached(u, a, second) => Accepted(u, t, PageAt(a, second), g)
          /\ u.last = "ok" /\ ~Reached(u, a, second) => Failed(u, t)
    BY <1>4, <1>5, SecondSend
  <2> QED
    BY <1>0, <2>1
<1>7. PICK v \in FirstTo(a, Other(s), f) :
        /\ u \in Traces /\ ~v.stray
        /\ v.last # "ok" => u = v
        /\ v.last = "ok" /\ Reached(v, a, "X") => Accepted(v, u, PageAt(a, "X"), g)
        /\ v.last = "ok" /\ ~Reached(v, a, "X") => Failed(v, u)
  <2>0. u \in ThenSend(FirstTo(a, Other(s), f), client, a, first, Seat(a, first), g) /\ ~u.stray
    BY <1>5, <1>6
  <2>1. u \in Traces /\ \E v \in FirstTo(a, Other(s), f) :
          /\ ~v.stray
          /\ v.last # "ok" => u = v
          /\ v.last = "ok" /\ Reached(v, a, first) => Accepted(v, u, PageAt(a, first), g)
          /\ v.last = "ok" /\ ~Reached(v, a, first) => Failed(v, u)
    BY <1>3, <2>0, SecondSend
  <2> QED
    BY <1>0, <2>1
<1>8. /\ v \in Traces
      /\ Talks(a, Other(s)) => Accepted(Trace, v, PageAt(a, Other(s)), f)
      /\ ~Talks(a, Other(s)) => Failed(Trace, v)
  BY <1>1, <1>7, FirstSend
<1>9. CASE ~Talks(a, Other(s))
  <2>1. v.last # "ok" /\ v.sent = 0 /\ v.link = link /\ v.s2c = s2c
    BY <1>8, <1>9, TraceIs DEF Failed
  <2>2. t = v
    BY <1>6, <1>7, <2>1
  <2> QED
    BY <1>6, <1>9, <2>1, <2>2
<1>10. CASE Talks(a, Other(s))
  <2>1. PICK p \in Pages : p = PageAt(a, s) /\ link[p] \in {"up", "fin"}
    BY HeldPage DEF Talks
  <2>2. PICK q \in Pages : q = PageAt(a, Other(s))
    BY <1>1, <1>10, HeldPage DEF Talks
  <2>3. q # p
    BY <1>10, <2>1, <2>2, SeatsApart DEF Talks, Marks, Other
  <2>4. Held(a, s) /\ Held(a, Other(s))
    BY <1>10 DEF Talks
  <2>5. /\ v.last = "ok" /\ v.sent = 1
        /\ \A r \in Pages : r # q => v.link[r] = link[r] /\ v.s2c[r] = s2c[r]
        /\ Told(link[q], s2c[q], f, v.link[q], v.s2c[q])
    <3>1. Accepted(Trace, v, q, f)
      BY <1>8, <1>10, <2>2
    <3>2. /\ v.last = "ok" /\ v.sent = Trace.sent + 1
          /\ \A r \in Pages : r # q => v.link[r] = Trace.link[r] /\ v.s2c[r] = Trace.s2c[r]
          /\ Told(Trace.link[q], Trace.s2c[q], f, v.link[q], v.s2c[q])
      BY <1>1, <1>8, <3>1, AcceptedFacts
    <3> QED
      BY <3>2, TraceIs
  <2>6. SUFFICES /\ t.sent > 0 /\ Elsewhere(t, p, q)
                 /\ t.last = "ok" => AllTold(t, p, q, f, g)
                 /\ t.last # "ok" => OnlyMover(t, p, q, g)
    BY <1>6, <1>10, <2>1, <2>2
  <2>7. CASE s = "X"
    <3>1. Reached(v, a, "X") /\ PageAt(a, "X") = p /\ PageAt(a, "O") = q
      BY <2>1, <2>2, <2>3, <2>4, <2>5, <2>7 DEF Reached, Other
    <3>2. Accepted(v, u, p, g)
      BY <1>7, <2>5, <3>1
    <3>3. /\ u.last = "ok" /\ u.sent = 2
          /\ \A r \in Pages : r # p => u.link[r] = v.link[r] /\ u.s2c[r] = v.s2c[r]
          /\ Told(v.link[p], v.s2c[p], g, u.link[p], u.s2c[p])
      BY <1>7, <1>8, <2>5, <3>2, AcceptedFacts
    <3>4. Told(link[p], s2c[p], g, u.link[p], u.s2c[p])
      BY <2>3, <2>5, <3>3
    <3>5. Reached(u, a, "O") <=> u.link[q] \in {"up", "fin"}
      BY <2>4, <2>7, <3>1 DEF Reached, Other
    <3>6. CASE Reached(u, a, "O")
      <4>1. Accepted(u, t, q, g)
        BY <1>6, <3>1, <3>3, <3>6
      <4>2. /\ t.last = "ok" /\ t.sent = 3
            /\ \A r \in Pages : r # q => t.link[r] = u.link[r] /\ t.s2c[r] = u.s2c[r]
            /\ Told(u.link[q], u.s2c[q], g, t.link[q], t.s2c[q])
        BY <1>6, <1>7, <3>3, <4>1, AcceptedFacts
      <4>3. Told(link[p], s2c[p], g, t.link[p], t.s2c[p])
        BY <2>3, <3>4, <4>2
      <4>4. Told(v.link[q], v.s2c[q], g, t.link[q], t.s2c[q])
        BY <2>3, <3>3, <4>2
      <4>5. AllTold(t, p, q, f, g)
        BY <2>5, <4>3, <4>4 DEF AllTold
      <4> QED
        BY <2>5, <3>3, <4>2, <4>5 DEF Elsewhere
    <3>7. CASE ~Reached(u, a, "O")
      <4>1. t.last # "ok" /\ t.sent = 2 /\ t.link = u.link /\ t.s2c = u.s2c
        BY <1>6, <3>3, <3>7 DEF Failed
      <4>2. v.link[q] \notin {"up", "fin"}
        BY <2>3, <3>3, <3>5, <3>7
      <4>3. link[q] = "fin" /\ v.link[q] = "rst" /\ v.s2c[q] = s2c[q]
        BY <2>5, <4>2 DEF Told
      <4>4. OnlyMover(t, p, q, g)
        BY <2>3, <3>3, <3>4, <4>1, <4>3 DEF OnlyMover
      <4> QED
        BY <2>5, <3>3, <4>1, <4>4 DEF Elsewhere
    <3> QED
      BY <3>6, <3>7
  <2>8. CASE s = "O"
    <3>1. PageAt(a, "X") = q /\ PageAt(a, "O") = p /\ Held(a, "X") /\ Held(a, "O")
      BY <2>1, <2>2, <2>4, <2>8 DEF Other
    <3>2. Reached(v, a, "X") <=> v.link[q] \in {"up", "fin"}
      BY <3>1 DEF Reached
    <3>3. CASE Reached(v, a, "X")
      <4>1. Accepted(v, u, q, g)
        BY <1>7, <2>5, <3>1, <3>3
      <4>2. /\ u.last = "ok" /\ u.sent = 2
            /\ \A r \in Pages : r # q => u.link[r] = v.link[r] /\ u.s2c[r] = v.s2c[r]
            /\ Told(v.link[q], v.s2c[q], g, u.link[q], u.s2c[q])
        BY <1>7, <1>8, <2>5, <4>1, AcceptedFacts
      <4>3. Reached(u, a, "O")
        BY <2>1, <2>3, <2>5, <3>1, <4>2 DEF Reached
      <4>4. Accepted(u, t, p, g)
        BY <1>6, <3>1, <4>2, <4>3
      <4>5. /\ t.last = "ok" /\ t.sent = 3
            /\ \A r \in Pages : r # p => t.link[r] = u.link[r] /\ t.s2c[r] = u.s2c[r]
            /\ Told(u.link[p], u.s2c[p], g, t.link[p], t.s2c[p])
        BY <1>6, <1>7, <4>2, <4>4, AcceptedFacts
      <4>6. Told(link[p], s2c[p], g, t.link[p], t.s2c[p])
        BY <2>3, <2>5, <4>2, <4>5
      <4>7. Told(v.link[q], v.s2c[q], g, t.link[q], t.s2c[q])
        BY <2>3, <4>2, <4>5
      <4>8. AllTold(t, p, q, f, g)
        BY <2>5, <4>6, <4>7 DEF AllTold
      <4> QED
        BY <2>5, <4>2, <4>5, <4>8 DEF Elsewhere
    <3>4. CASE ~Reached(v, a, "X")
      <4>1. u.last # "ok" /\ u.sent = 1 /\ u.link = v.link /\ u.s2c = v.s2c
        BY <1>7, <2>5, <3>4 DEF Failed
      <4>2. t = u
        BY <1>6, <4>1
      <4>3. link[q] = "fin" /\ v.link[q] = "rst" /\ v.s2c[q] = s2c[q]
        BY <2>5, <3>2, <3>4 DEF Told
      <4>4. OnlyMover(t, p, q, g)
        BY <2>3, <2>5, <4>1, <4>2, <4>3 DEF OnlyMover
      <4> QED
        BY <2>5, <4>1, <4>2, <4>4 DEF Elsewhere
    <3> QED
      BY <3>3, <3>4
  <2> QED
    BY <2>7, <2>8 DEF Marks
<1> QED
  BY <1>9, <1>10
-----------------------------------------------------------------------------
(***************************************************************************)
(* MOVE, for a client whose pointer is sound.                              *)
(***************************************************************************)
(* The client fd, the player with mark s of match a, has sent the move m;  *)
(* the server takes it and n - 1 frames more from its page p.              *)
MoveAt(fd, m, a, s, p, n) ==
  /\ IsOpen(fd) /\ client[fd].handshake /\ client[fd].page = p /\ link[p] \in {"up", "fin"}
  /\ client[fd].currentMatch = a /\ Held(a, s) /\ Seat(a, s) = fd /\ PageAt(a, s) = p
  /\ n \in 1 .. Len(c2s[p]) /\ Head(c2s[p]) = m /\ m.code = "MOVE" /\ m.player = s
  /\ c2s'[p] = SubSeq(c2s[p], n + 1, Len(c2s[p])) /\ AskedLast(c2s'[p])
  /\ \A r \in Pages : r # p => c2s'[r] = c2s[r]
  /\ page' = page /\ client' = client /\ match_id' = match_id

LEMMA MoverPage ==
  ASSUME TypeOK, Wired, Orderly, NEW fd, NEW m, NEW a \in Addrs, NEW s \in Marks, NEW p \in Pages,
         NEW n, MoveAt(fd, m, a, s, p, n)
  PROVE  /\ Engaged(page[p], c2s'[p], s2c[p], link[p], heap[a], s, Talks(a, Other(s)))
         /\ ~Resting(page[p], c2s[p], s2c[p]) /\ ~Resting(page[p], c2s'[p], s2c[p])
         /\ ~page[p].turn /\ s2c[p] = <<>> /\ ~Has(c2s'[p], {"MOVE"})
         /\ m \in Queued(c2s[p])
         /\ heap[a] \in MatchStates /\ heap[a].players = 2 /\ MatchOK(a)
         /\ link[p] = "up" => Convo(page[p], c2s'[p], s2c[p])
<1>1. Live(a) /\ MatchOK(a) /\ heap[a] \in MatchStates
  BY MatchType DEF MoveAt, Held, IsPlayer, Owns, Orderly
<1>2. EngagedAt(a, s, p)
  BY <1>1 DEF MatchOK, MoveAt
<1>3. PICK pg \in PageStates, cq \in Seq(PageFrames), sq \in Seq(ServerFrames) :
        pg = page[p] /\ cq = c2s[p] /\ sq = s2c[p]
  BY PageQueues
<1>4. PICK l, o : l = link[p] /\ o = Talks(a, Other(s))
  OBVIOUS
<1>5. PICK h \in MatchStates : h = heap[a]
  BY <1>1
<1>6. /\ Engaged(pg, cq, sq, l, h, s, o)
      /\ n \in 1 .. Len(cq) /\ Head(cq) = m /\ Head(cq).code = "MOVE"
      /\ c2s'[p] = SubSeq(cq, n + 1, Len(cq))
  BY <1>2, <1>3, <1>4, <1>5 DEF EngagedAt, MoveAt
<1>7. Engaged(pg, SubSeq(cq, n + 1, Len(cq)), sq, l, h, s, o)
  BY <1>6, MoveReceived
<1>8. ~Resting(pg, cq, sq) /\ ~Resting(pg, SubSeq(cq, n + 1, Len(cq)), sq)
  BY <1>6, <1>7, MoveReceived
<1>9. /\ ~pg.turn /\ sq = <<>> /\ ~Has(SubSeq(cq, n + 1, Len(cq)), {"MOVE"}) /\ h.players # 1
      /\ Head(cq) \in Queued(cq)
  BY <1>6, <1>7, <1>8, MoveReceived
<1>10. h.players = 2
  BY <1>9 DEF MatchStates
<1>11. link[p] = "up" => Convo(pg, SubSeq(cq, n + 1, Len(cq)), sq)
  <2>1. link[p] = "up" => Convo(pg, cq, sq)
    BY <1>3 DEF Wired, Rests
  <2> QED
    BY <1>6, <2>1, DropConvo
<1> QED
  BY <1>1, <1>3, <1>4, <1>5, <1>6, <1>7, <1>8, <1>9, <1>10, <1>11

(* The clients keep their seats when the match keeps its id and players. *)
LEMMA SameSeats ==
  ASSUME NEW a, Live(a), Live(a)', client' = client,
         heap'[a].matchID = heap[a].matchID, heap'[a].playerX = heap[a].playerX,
         heap'[a].playerO = heap[a].playerO, NEW r
  PROVE  /\ Seat(a, r)' = Seat(a, r) /\ PageAt(a, r)' = PageAt(a, r)
         /\ Held(a, r)' <=> Held(a, r)
         /\ Talks(a, r)' <=> Held(a, r) /\ link'[PageAt(a, r)] \in {"up", "fin"}
<1>1. Seat(a, r)' = Seat(a, r) /\ PageAt(a, r)' = PageAt(a, r)
  BY DEF Seat, PageAt
<1>2. Held(a, r)' <=> Held(a, r)
  BY <1>1 DEF Held, IsOpen, IsPlayer, Owns
<1> QED
  BY <1>1, <1>2 DEF Talks

(* A handler that may touch the pages p, of its own client, and q, of a    *)
(* client that is in a match.                                              *)
LEMMA TwoPages ==
  ASSUME TypeOK, Network, page' = page, client' = client, NEW fd \in Fds, IsOpen(fd),
         client[fd].handshake, NEW p \in Pages, p = client[fd].page, link[p] \in {"up", "fin"},
         NEW q \in Pages,
         q = p \/ \E g \in Fds : IsOpen(g) /\ client[g].page = q /\ client[g].currentMatch # NULL,
         AskedLast(c2s'[p]), \A r \in Pages : r # p => c2s'[r] = c2s[r],
         \A r \in Pages : r # p /\ r # q => link'[r] = link[r] /\ s2c'[r] = s2c[r],
         \A r \in {p, q} : /\ link'[r] = link[r] \/ (link[r] = "fin" /\ link'[r] = "rst")
                           /\ link[r] # "up" => s2c'[r] = s2c[r]
                           /\ link[r] = "up" => Convo(page[r], c2s'[r], s2c'[r])
  PROVE  Network'
<1>1. /\ \A r \in Pages : link'[r] = link[r] \/ (link[r] = "fin" /\ link'[r] = "rst")
      /\ \A r \in Pages : link[r] # "up" => s2c'[r] = s2c[r]
  OBVIOUS
<1>2. \A r \in Pages : link[r] = "up" => Convo(page[r], c2s'[r], s2c'[r])
  <2> SUFFICES ASSUME NEW r \in Pages, link[r] = "up" PROVE Convo(page[r], c2s'[r], s2c'[r])
    OBVIOUS
  <2>1. CASE r \in {p, q}
    BY <2>1
  <2>2. CASE r \notin {p, q}
    BY <2>2 DEF Network, Rests
  <2> QED
    BY <2>1, <2>2
<1>3. /\ \A r \in Pages : link[r] = "syn" => c2s'[r] = c2s[r]
      /\ \A r \in Pages : AskedLast(c2s'[r])
  BY DEF Network, Rests
<1>4. \A g \in Fds : IsOpen(g) /\ ~client'[g].handshake =>
        client'[g].currentMatch = NULL /\ Greets(client[g].page)'
  <2> SUFFICES ASSUME NEW g \in Fds, IsOpen(g), ~client[g].handshake
               PROVE  client[g].currentMatch = NULL /\ Greets(client[g].page)'
    OBVIOUS
  <2>1. PICK r \in Pages : r = client[g].page /\ r # p
    BY ClientsApart DEF Network
  <2>2. client[g].currentMatch = NULL /\ Greets(r)
    BY <2>1 DEF Network, Greeting
  <2>3. r # q
    BY <2>1, <2>2 DEF Network, Attached
  <2>4. Greets(r)'
    BY <2>1, <2>2, <2>3 DEF Greets
  <2> QED
    BY <2>1, <2>2, <2>4
<1>5. IsOpen(fd)'
  BY DEF IsOpen
<1> QED
  BY <1>1, <1>2, <1>3, <1>4, <1>5, HandlerNetwork

LEMMA NextIdType ==
  TypeOK => match_id \in Nat /\ MaxMatches \in Nat
<1>1. MaxIds \in Nat /\ MaxMatches \in Nat
  BY ServerAssumption
<1>2. TypeOK => match_id \in 0 .. MaxIds
  BY DEF TypeOK
<1> QED
  BY <1>1, <1>2

(* Ids are not handed out twice: two matches in memory have different ids. *)
LEMMA IdsApart ==
  ASSUME TypeOK, RegistryInOrder, FreshIds, NEW a \in Addrs, Live(a), NEW b \in Addrs, Live(b),
         heap[a].matchID = heap[b].matchID
  PROVE  a = b
<1>1. heap[a].matchID \in MatchIds /\ heap[a].matchID < match_id
  BY MatchType DEF MatchStates, RegistryInOrder, IdsAreHandedOut
<1>2. heap[a].matchID \in Slots
  <2>1. PICK i \in MatchIds, k \in Nat, max \in Nat :
          i = heap[a].matchID /\ k = match_id /\ max = MaxMatches /\ i < k /\ k <= max
    <3>1. match_id \in Nat /\ MaxMatches \in Nat
      BY NextIdType
    <3> QED
      BY <1>1, <3>1 DEF FreshIds
  <2>2. i \in 0 .. max - 1
    BY <2>1 DEF MatchIds
  <2> QED
    BY <2>1, <2>2 DEF Slots
<1> QED
  BY <1>2 DEF RegistryInOrder, MatchesAreRegistered

(* What is left to show of a move: the pages of the two players, and the   *)
(* match unless it has ended.                                              *)
LEMMA MoveRest ==
  ASSUME TypeOK, RegistryInOrder, Wired, Orderly, NEW fd \in Fds, NEW m, NEW a \in Addrs,
         NEW s \in Marks, NEW p \in Pages, NEW n, MoveAt(fd, m, a, s, p, n),
         NEW q \in Pages, q = p \/ (Held(a, Other(s)) /\ q = PageAt(a, Other(s))),
         \A r \in Pages : r # p /\ r # q => link'[r] = link[r] /\ s2c'[r] = s2c[r],
         \A r \in {p, q} : /\ link'[r] = link[r] \/ (link[r] = "fin" /\ link'[r] = "rst")
                           /\ link[r] # "up" => s2c'[r] = s2c[r]
                           /\ link[r] = "up" => Convo(page[r], c2s'[r], s2c'[r]),
         \A b \in Addrs : b # a => heap'[b] = heap[b],
         Live(a)' => /\ heap'[a].matchID = heap[a].matchID
                     /\ heap'[a].playerX = heap[a].playerX /\ heap'[a].playerO = heap[a].playerO,
         \A i \in MatchIds : i # heap[a].matchID => outcome'[i] = outcome[i],
         Live(a)' => MatchOK(a)'
  PROVE  Wired' /\ Orderly'
<1>1. /\ Network /\ Attached /\ IsOpen(fd) /\ client[fd].handshake /\ p = client[fd].page
      /\ link[p] \in {"up", "fin"} /\ AskedLast(c2s'[p])
      /\ \A r \in Pages : r # p => c2s'[r] = c2s[r]
      /\ page' = page /\ client' = client /\ match_id' = match_id
  BY DEF MoveAt, Wired, Network
<1>2. Live(a) /\ heap[a].matchID \in MatchIds /\ a # NULL
  BY MatchType, ServerAssumption DEF MoveAt, Held, IsPlayer, Owns, MatchStates
<1>3. PICK o : o = Seat(a, Other(s))
  OBVIOUS
<1>4. q = p \/ (o \in Fds /\ IsOpen(o) /\ client[o].page = q /\ client[o].currentMatch = a)
  BY <1>3 DEF Held, PageAt, IsOpen, IsPlayer, Owns
<1>5. Network'
  <2>1. q = p \/ \E g \in Fds : IsOpen(g) /\ client[g].page = q /\ client[g].currentMatch # NULL
    BY <1>2, <1>4
  <2> QED
    BY <1>1, <2>1, TwoPages
<1>6. Pointers'
  <2>1. \A b \in Addrs : Live(b)' =>
          /\ Live(b) /\ heap'[b].matchID = heap[b].matchID
          /\ heap'[b].playerX = heap[b].playerX
          /\ heap'[b].playerO # heap[b].playerO => heap[b].playerO = NoFd
    BY <1>2 DEF Live
  <2>2. \A g \in Fds : IsOpen(g) => PointerOK(g)'
    BY <1>1, <2>1, PointerKeeps DEF Wired
  <2> QED
    BY <1>1, <2>2 DEF Pointers, IsOpen
<1>7. FreshIds'
  <2>1. heap[a].matchID < match_id
    BY <1>2 DEF RegistryInOrder, IdsAreHandedOut
  <2>3. match_id \in Nat
    BY NextIdType
  <2>2. ASSUME NEW i \in MatchIds, i >= match_id PROVE outcome'[i] = ""
    <3>1. i # heap[a].matchID
      BY <1>2, <2>1, <2>2, <2>3 DEF MatchIds
    <3> QED
      BY <2>2, <3>1 DEF Wired, FreshIds
  <2> QED
    BY <1>1, <2>2 DEF Wired, FreshIds
<1>8. ASSUME NEW b \in Addrs, Live(b)', b # a PROVE MatchOK(b)'
  <2>1. heap'[b] = heap[b] /\ Live(b) /\ MatchOK(b)
    BY <1>8 DEF Live, Orderly
  <2>2. heap[b].matchID # heap[a].matchID /\ heap[b].matchID \in MatchIds
    BY <1>2, <1>8, <2>1, IdsApart, MatchType DEF Wired, MatchStates
  <2>3. outcome'[heap[b].matchID] = outcome[heap[b].matchID]
    BY <2>2
  <2>4. \A g \in Fds : g # fd /\ IsOpen(g) /\ client[g].page = q => ~Owns(client[g], b)
    <3> SUFFICES ASSUME NEW g \in Fds, g # fd, IsOpen(g), client[g].page = q, Owns(client[g], b)
                 PROVE  FALSE
      OBVIOUS
    <3>1. q # p
      BY <1>1, ClientsApart
    <3>2. g = o
      BY <1>1, <1>4, <3>1 DEF Attached
    <3> QED
      BY <1>4, <1>8, <3>1, <3>2 DEF Owns
  <2>5. \A r \in Pages : r # client[fd].page /\ r # q => SameAt(r)
    BY <1>1 DEF SameAt
  <2>6. client'[fd].currentMatch # b
    BY <1>1, <1>8 DEF MoveAt
  <2>7. /\ \A g \in Fds : g # fd => client'[g] = client[g]
        /\ Attached /\ IsOpen(fd) /\ (IsOpen(fd)' => client'[fd].currentMatch # b)
    BY <1>1, <2>6
  <2> QED
    BY <2>1, <2>3, <2>4, <2>5, <2>7, OtherMatch, ZenonT(30)
<1>9. Orderly'
  <2>1. \A b \in Addrs : Live(b)' => MatchOK(b)'
    BY <1>8
  <2> QED
    BY <2>1 DEF Orderly
<1> QED
  BY <1>5, <1>6, <1>7, <1>9, WiredFrom
-----------------------------------------------------------------------------
(***************************************************************************)
(* MOVE: the match once the move is made.                                  *)
(***************************************************************************)
(* A match is in order when its record and its two players are. *)
LEMMA MatchFrom ==
  ASSUME NEW a, NEW s \in Marks,
         RecordOK(heap'[a], Both(a)', outcome'[heap'[a].matchID]),
         Held(a, s)' => EngagedAt(a, s, PageAt(a, s))',
         Held(a, Other(s))' => EngagedAt(a, Other(s), PageAt(a, Other(s)))',
         Both(a)' => /\ AgreesAt(a, s, PageAt(a, s))'
                     /\ AgreesAt(a, Other(s), PageAt(a, Other(s)))'
                     /\ link'[PageAt(a, Other(s))'] = "up" => TokenAt(Other(s), PageAt(a, Other(s)))'
  PROVE  MatchOK(a)'
<1>1. Other(s) \in Marks /\ \A r \in Marks : r = s \/ r = Other(s)
  BY DEF Marks, Other
<1>2. \A r \in Marks : Held(a, r)' => EngagedAt(a, r, PageAt(a, r))'
  BY <1>1
<1>3. ASSUME Both(a)'
      PROVE  /\ \A r \in Marks : AgreesAt(a, r, PageAt(a, r))'
             /\ (\A r \in Marks : link'[PageAt(a, r)'] = "up") =>
                  \E r \in Marks : TokenAt(r, PageAt(a, r))'
  BY <1>1, <1>3
<1> QED
  BY <1>2, <1>3 DEF MatchOK

(* The fields of a record after a move. *)
LEMMA MarkedFields ==
  ASSUME NEW h \in MatchStates, NEW new \in Boards, NEW h2, h2 = Marked(h, new)
  PROVE  /\ h2 \in MatchStates /\ h2.board = new /\ h2.moves = h.moves + 1
         /\ h2.matchID = h.matchID /\ h2.players = h.players
         /\ h2.playerX = h.playerX /\ h2.playerO = h.playerO /\ h2 # Free
<1>1. h2 \in MatchStates
  BY MarkedType
<1>2. h2 # Free
  BY <1>1 DEF MatchStates, Free
<1> QED
  BY <1>1, <1>2 DEF Marked, MatchStates

Unended(how) == how = ""

(* The player with mark s, whose turn it is, marks the blank square c: the  *)
(* board becomes new and the record h2.                                    *)
Played(h, c, s, new, h2) ==
  /\ h.players = 2 /\ h.board[c] = Blank /\ ToMove(h.board) = s
  /\ new = [h.board EXCEPT ![c] = s] /\ h2 = Marked(h, new)

(* Then the match has ended, with the outcome how, or goes on. *)
Settled(h2, both, how) ==
  /\ Decided(h2.board, h2.moves) => both = FALSE
  /\ Unended(how) <=> ~Decided(h2.board, h2.moves)

(* The record after a move of the player to move, to a blank square. *)
LEMMA MarkedRecord ==
  ASSUME NEW h \in MatchStates, NEW b, NEW how, RecordOK(h, b, how),
         NEW c \in Cells, NEW s \in Marks, NEW new, NEW h2, Played(h, c, s, new, h2),
         NEW b2 \in BOOLEAN, NEW how2, Settled(h2, b2, how2)
  PROVE  RecordOK(h2, b2, how2) /\ ToMove(new) = Other(s)
<1> /\ h.players = 2 /\ h.board[c] = Blank /\ ToMove(h.board) = s
    /\ new = [h.board EXCEPT ![c] = s] /\ h2 = Marked(h, new)
  BY DEF Played
<1>1. h.board \in Boards /\ h.moves \in Nat
  BY DEF MatchStates
<1>2. new \in Boards
  BY <1>1, MarkedBoard
<1>3. /\ h2.board = new /\ h2.moves = h.moves + 1 /\ h2.players = 2
      /\ h2.playerX = h.playerX /\ h2.playerO = h.playerO
  BY <1>2, MarkedFields
<1>0. h.players # 1
  OBVIOUS
<1>4. /\ h.playerO # NoFd /\ h.playerX # h.playerO
      /\ h.moves = Count(h.board, "X") + Count(h.board, "O")
      /\ Count(h.board, "X") - Count(h.board, "O") \in {0, 1}
  BY <1>0, Zenon DEF RecordOK
<1>6. PICK board \in Boards : board = h.board
  BY <1>1
<1>7. /\ Count(new, "X") - Count(new, "O") \in {0, 1}
      /\ Count(new, "X") + Count(new, "O") = Count(board, "X") + Count(board, "O") + 1
      /\ ToMove(new) = Other(s)
  BY <1>4, <1>6, MoveAlternates
<1>8. /\ h2.players # 1
      /\ h2.moves = Count(h2.board, "X") + Count(h2.board, "O")
      /\ Count(h2.board, "X") - Count(h2.board, "O") \in {0, 1}
  <2>1. h2.moves = Count(board, "X") + Count(board, "O") + 1 /\ h2.board = new
    BY <1>3, <1>4, <1>6
  <2>2. h2.moves = Count(new, "X") + Count(new, "O")
    BY <1>7, <2>1
  <2> QED
    BY <1>0, <1>3, <1>7, <2>1, <2>2
<1>9. /\ Decided(h2.board, h2.moves) => b2 = FALSE
      /\ Unended(how2) <=> ~Decided(h2.board, h2.moves)
  BY DEF Settled
<1>10. RecordOK(h2, b2, how2)
  BY <1>3, <1>4, <1>8, <1>9, Zenon DEF RecordOK, Unended
<1> QED
  BY <1>7, <1>10

LEMMA PlayPages ==
  ASSUME TypeOK, Wired, Orderly, NEW fd, NEW m, NEW a \in Addrs, NEW s \in Marks, NEW p \in Pages,
         NEW n, MoveAt(fd, m, a, s, p, n), Talks(a, Other(s))
  PROVE  Both(a) /\ PageAt(a, Other(s)) \in Pages /\ PageAt(a, Other(s)) # p
<1>1. /\ Held(a, s) /\ Held(a, Other(s)) /\ PageAt(a, s) = p /\ Talks(a, s)
      /\ (s = "X" /\ Other(s) = "O") \/ (s = "O" /\ Other(s) = "X")
  BY DEF MoveAt, Talks, Marks, Other
<1>2. heap[a].players = 2
  BY MoverPage
<1>3. Both(a)
  BY <1>1, <1>2 DEF Both
<1> QED
  BY <1>1, <1>3, HeldPage, SeatsApart DEF Wired

(* A move reaches the server while the opponent's connection works: it is  *)
(* the mover's turn, the square is blank and the opponent waits.           *)
LEMMA PlayFacts ==
  ASSUME TypeOK, Wired, Orderly, NEW fd, NEW m, NEW a \in Addrs, NEW s \in Marks, NEW p \in Pages,
         NEW n, MoveAt(fd, m, a, s, p, n), Talks(a, Other(s)), NEW q, q = PageAt(a, Other(s)),
         NEW h, h = heap[a]
  PROVE  /\ Both(a) /\ q \in Pages /\ q # p
         /\ RecordOK(h, Both(a), outcome[h.matchID])
         /\ h.board[m.message] = Blank /\ ToMove(h.board) = s
         /\ link[p] = "up" => page[p].view = [h.board EXCEPT ![m.message] = s]
         /\ Engaged(page[q], c2s[q], s2c[q], link[q], h, Other(s), Talks(a, s))
         /\ ~Resting(page[q], c2s[q], s2c[q]) /\ ~Token(page[q], c2s[q], s2c[q], Other(s))
         /\ ~Has(c2s[q], {"MOVE"}) /\ ~Has(s2c[q], {"MOVE"})
         /\ link[q] = "up" => page[q].view = h.board /\ Convo(page[q], c2s[q], s2c[q])
<1>1. /\ Held(a, s) /\ Held(a, Other(s)) /\ PageAt(a, s) = p /\ Talks(a, s)
      /\ Other(s) \in Marks /\ Other(Other(s)) = s /\ s # Other(s)
  BY DEF MoveAt, Talks, Marks, Other
<1>2. heap[a].players = 2 /\ m \in Queued(c2s[p]) /\ MatchOK(a)
  BY MoverPage
<1>3. Both(a)
  BY <1>1, <1>2 DEF Both, Marks, Other
<1>4. q \in Pages /\ q # p
  BY <1>1, HeldPage, SeatsApart DEF Wired, Marks, Other
<1>5. /\ RecordOK(heap[a], Both(a), outcome[heap[a].matchID])
      /\ AgreesAt(a, s, p) /\ AgreesAt(a, Other(s), q) /\ EngagedAt(a, Other(s), q)
  BY <1>1, <1>2, <1>3 DEF MatchOK
<1>6. /\ Agrees(page[p], c2s[p], s2c[p], link[p], h, s)
      /\ Agrees(page[q], c2s[q], s2c[q], link[q], h, Other(s))
      /\ Engaged(page[q], c2s[q], s2c[q], link[q], h, Other(s), Talks(a, s))
  BY <1>1, <1>5 DEF AgreesAt, EngagedAt
<1>7. Token(page[p], c2s[p], s2c[p], s) /\ m.code = "MOVE"
  BY <1>2 DEF Token, Has, MoveAt
<1>8. /\ ToMove(h.board) = s /\ h.board[m.message] = Blank
      /\ link[p] = "up" => page[p].view = [h.board EXCEPT ![m.message] = s]
  BY <1>2, <1>6, <1>7 DEF Agrees
<1>9. ~Token(page[q], c2s[q], s2c[q], Other(s))
  BY <1>1, <1>6, <1>8 DEF Agrees
<1>10. ~Has(c2s[q], {"MOVE"}) /\ ~Has(s2c[q], {"MOVE"})
  BY <1>9 DEF Token, Has, Starts, Plays
<1>11. ~Resting(page[q], c2s[q], s2c[q])
  BY <1>1, <1>6 DEF Engaged
<1>12. link[q] = "up" => page[q].view = h.board
  BY <1>6, <1>10 DEF Agrees
<1>13. link[q] = "up" => Convo(page[q], c2s[q], s2c[q])
  BY <1>4 DEF Wired, Rests
<1> QED
  BY <1>3, <1>4, <1>5, <1>6, <1>8, <1>9, <1>10, <1>11, <1>12, <1>13
-----------------------------------------------------------------------------
(* A move that reaches nobody: the opponent has left. *)
LEMMA MoveUnsent ==
  ASSUME TypeOK, RegistryInOrder, Wired, Orderly, NEW fd \in Fds, NEW m, NEW a \in Addrs,
         NEW s \in Marks, NEW p \in Pages, NEW n, MoveAt(fd, m, a, s, p, n),
         ~Talks(a, Other(s)), UNCHANGED <<link, s2c, heap, outcome>>
  PROVE  Wired' /\ Orderly'
<1>1. /\ Engaged(page[p], c2s'[p], s2c[p], link[p], heap[a], s, Talks(a, Other(s)))
      /\ MatchOK(a) /\ heap[a] \in MatchStates
      /\ link[p] = "up" => Convo(page[p], c2s'[p], s2c[p])
  BY MoverPage
<1>2. /\ Live(a) /\ Live(a)' /\ client' = client /\ page' = page /\ PageAt(a, s) = p
      /\ \A r \in Pages : r # p => c2s'[r] = c2s[r]
  BY DEF MoveAt, Held, IsPlayer, Owns, Live
<1>3. \A r : /\ Seat(a, r)' = Seat(a, r) /\ PageAt(a, r)' = PageAt(a, r)
             /\ Held(a, r)' <=> Held(a, r)
             /\ Talks(a, r)' <=> Talks(a, r)
  BY <1>2, SameSeats DEF Talks
<1>4. Other(s) \in Marks /\ Other(Other(s)) = s
  BY DEF Marks, Other
<1>5. ~Both(a) /\ (Both(a)' <=> Both(a))
  BY <1>3 DEF Both, Marks, Other
<1>6. RecordOK(heap'[a], Both(a)', outcome'[heap'[a].matchID])
  <2>1. RecordOK(heap[a], Both(a), outcome[heap[a].matchID])
    BY <1>1 DEF MatchOK
  <2>2. PICK b : b = Both(a)'
    OBVIOUS
  <2>3. PICK h, how : h = heap[a] /\ how = outcome[heap[a].matchID]
    OBVIOUS
  <2>4. b => Both(a)
    BY <1>5, <2>2
  <2>5. RecordOK(h, b, how)
    BY <2>1, <2>3, <2>4, RecordWeakens
  <2> QED
    BY <2>2, <2>3, <2>5
<1>7. EngagedAt(a, s, PageAt(a, s))'
  <2>1. PICK o : o = Talks(a, Other(s))'
    OBVIOUS
  <2>2. o <=> Talks(a, Other(s))
    BY <1>3, <2>1
  <2>3. Engaged(page[p], c2s'[p], s2c[p], link[p], heap[a], s, o)
    BY <1>1, <2>2, EngagedWeakens
  <2> QED
    BY <1>2, <1>3, <2>1, <2>3 DEF EngagedAt
<1>8. ASSUME Held(a, Other(s))' PROVE EngagedAt(a, Other(s), PageAt(a, Other(s)))'
  <2>1. PICK q : q = PageAt(a, Other(s))
    OBVIOUS
  <2>2. Held(a, Other(s)) /\ Held(a, s)
    BY <1>3, <1>8 DEF MoveAt
  <2>3. q \in Pages /\ q # p
    BY <1>2, <2>1, <2>2, HeldPage, SeatsApart DEF Wired, Marks, Other
  <2>4. Engaged(page[q], c2s[q], s2c[q], link[q], heap[a], Other(s), Talks(a, s))
    BY <1>1, <1>4, <2>1, <2>2 DEF MatchOK, EngagedAt
  <2>5. PICK o : o = Talks(a, s)'
    OBVIOUS
  <2>6. o <=> Talks(a, s)
    BY <1>3, <2>5
  <2>7. Engaged(page[q], c2s[q], s2c[q], link[q], heap[a], Other(s), o)
    BY <2>4, <2>6, EngagedWeakens
  <2>8. c2s'[q] = c2s[q]
    BY <1>2, <2>3
  <2> QED
    BY <1>2, <1>3, <1>4, <2>1, <2>5, <2>7, <2>8 DEF EngagedAt
<1>9. MatchOK(a)'
  BY <1>5, <1>6, <1>7, <1>8, MatchFrom
<1> QED
  BY <1>1, <1>9, MoveRest

(* The frame f is sent to page q, and nothing else is. *)
Relayed(q, f) == /\ Told(link[q], s2c[q], f, link'[q], s2c'[q])
                 /\ \A r \in Pages : r # q => link'[r] = link[r] /\ s2c'[r] = s2c[r]

(* A move that is relayed and does not end the match: the other has a turn. *)
LEMMA MoveRelayed ==
  ASSUME TypeOK, RegistryInOrder, Wired, Orderly, NEW fd \in Fds, NEW m \in ServerFrames,
         m.message \in Cells, NEW a \in Addrs,
         NEW s \in Marks, NEW p \in Pages, NEW n, MoveAt(fd, m, a, s, p, n),
         Talks(a, Other(s)), NEW q, q = PageAt(a, Other(s)),
         Relayed(q, m), NEW new, new = [heap[a].board EXCEPT ![m.message] = s],
         ~Decided(new, heap[a].moves + 1),
         heap' = [heap EXCEPT ![a] = Marked(heap[a], new)], outcome' = outcome
  PROVE  Wired' /\ Orderly'
<1> /\ Told(link[q], s2c[q], m, link'[q], s2c'[q])
    /\ \A r \in Pages : r # q => link'[r] = link[r] /\ s2c'[r] = s2c[r]
  BY DEF Relayed
<1>1. /\ Engaged(page[p], c2s'[p], s2c[p], link[p], heap[a], s, Talks(a, Other(s)))
      /\ ~Resting(page[p], c2s'[p], s2c[p])
      /\ ~page[p].turn /\ s2c[p] = <<>> /\ ~Has(c2s'[p], {"MOVE"})
      /\ link[p] = "up" => Convo(page[p], c2s'[p], s2c[p])
  BY MoverPage
<1>2. heap[a] \in MatchStates /\ heap[a].players = 2 /\ MatchOK(a)
  BY MoverPage
<1>3. PICK h \in MatchStates : h = heap[a]
  BY <1>2
<1>4. /\ Both(a) /\ q \in Pages /\ q # p
      /\ RecordOK(h, Both(a), outcome[h.matchID])
      /\ h.board[m.message] = Blank /\ ToMove(h.board) = s
      /\ link[p] = "up" => page[p].view = [h.board EXCEPT ![m.message] = s]
  <2>1. Both(a) /\ q \in Pages /\ q # p
    BY PlayPages
  <2>2. RecordOK(h, Both(a), outcome[h.matchID])
    BY <1>3, PlayFacts
  <2>3. h.board[m.message] = Blank /\ ToMove(h.board) = s
    BY <1>3, PlayFacts
  <2>4. link[p] = "up" => page[p].view = [h.board EXCEPT ![m.message] = s]
    BY <1>3, PlayFacts
  <2> QED
    BY <2>1, <2>2, <2>3, <2>4
<1>5. /\ Engaged(page[q], c2s[q], s2c[q], link[q], h, Other(s), Talks(a, s))
      /\ ~Resting(page[q], c2s[q], s2c[q]) /\ ~Token(page[q], c2s[q], s2c[q], Other(s))
      /\ ~Has(c2s[q], {"MOVE"}) /\ ~Has(s2c[q], {"MOVE"})
      /\ link[q] = "up" => page[q].view = h.board /\ Convo(page[q], c2s[q], s2c[q])
  BY <1>3, PlayFacts
<1>6. h.board \in Boards /\ new = [h.board EXCEPT ![m.message] = s] /\ new \in Boards
  BY <1>3, MarkedBoard DEF MatchStates
<1>7. PICK h2 : h2 = Marked(h, new)
  OBVIOUS
<1>8. /\ h2 \in MatchStates /\ h2.board = new /\ h2.moves = h.moves + 1
      /\ h2.matchID = h.matchID /\ h2.players = 2
      /\ h2.playerX = h.playerX /\ h2.playerO = h.playerO /\ h2 # Free
  <2>1. /\ h2 \in MatchStates /\ h2.board = new /\ h2.moves = h.moves + 1
        /\ h2.matchID = h.matchID /\ h2.players = h.players
        /\ h2.playerX = h.playerX /\ h2.playerO = h.playerO /\ h2 # Free
    BY <1>6, <1>7, MarkedFields
  <2> QED
    BY <1>2, <1>3, <2>1
<1>9. heap'[a] = h2 /\ \A b \in Addrs : b # a => heap'[b] = heap[b]
  BY <1>3, <1>7 DEF TypeOK
<1>10. /\ Live(a) /\ Live(a)' /\ client' = client /\ page' = page /\ PageAt(a, s) = p
       /\ Held(a, s) /\ link[p] \in {"up", "fin"}
       /\ \A r \in Pages : r # p => c2s'[r] = c2s[r]
  BY <1>8, <1>9 DEF MoveAt, Held, IsPlayer, Owns, Live
<1>11. \A r : /\ PageAt(a, r)' = PageAt(a, r) /\ (Held(a, r)' <=> Held(a, r))
              /\ Talks(a, r)' <=> Held(a, r) /\ link'[PageAt(a, r)] \in {"up", "fin"}
  BY <1>3, <1>8, <1>9, <1>10, SameSeats
<1>12. PICK x \in Marks : x = Other(s) /\ x # s
  BY DEF Marks, Other
<1>13. m.code = "MOVE" /\ m.player = s /\ Head(c2s[p]) = m
  BY DEF MoveAt
<1>14. m.code \in Plays /\ m.code \in Starts(x) /\ m.code \notin Refusals
  BY <1>13 DEF Plays, Starts, Refusals
<1>15. PICK qg \in PageStates, qc \in Seq(PageFrames), qs \in Seq(ServerFrames) :
         qg = page[q] /\ qc = c2s[q] /\ qs = s2c[q]
  BY <1>4, PageQueues
<1>16. PICK l, l2, q2, o : l = link[q] /\ l2 = link'[q] /\ q2 = s2c'[q] /\ o = Talks(a, s)
  OBVIOUS
<1>17. /\ Told(l, qs, m, l2, q2)
       /\ Engaged(qg, qc, qs, l, h, x, o) /\ ~Resting(qg, qc, qs) /\ ~Token(qg, qc, qs, x)
       /\ h2.matchID = h.matchID /\ h2.players = 2
  BY <1>5, <1>8, <1>12, <1>15, <1>16
<1>18. ASSUME NEW o2 PROVE Engaged(qg, qc, q2, l2, h2, x, o2)
  BY <1>14, <1>17, PlaySent
<1>19. (Token(qg, qc, q2, x) <=> l2 = "up" /\ m.code \in Starts(x)) /\ q2 \in Seq(ServerFrames)
  <2>1. PICK o2 : o2 = TRUE
    OBVIOUS
  <2>2. Engaged(qg, qc, q2, l2, h2, x, o2)
    BY <1>18
  <2> QED
    BY <1>14, <1>17, <2>2, PlaySent
<1>20. /\ RecordOK(h2, Both(a)', outcome'[h2.matchID])
       /\ ToMove(new) = Other(s)
  <2>1. PICK b2 \in BOOLEAN : b2 <=> Both(a)'
    OBVIOUS
  <2>2. PICK how : how = outcome[h.matchID]
    OBVIOUS
  <2>3. PICK c \in Cells : c = m.message
    OBVIOUS
  <2>4. PICK b : b = Both(a)
    OBVIOUS
  <2>5. RecordOK(h, b, how)
    BY <1>4, <2>2, <2>4
  <2>11. b = TRUE
    BY <1>4, <2>4 DEF Both
  <2>6. Unended(how)
    BY <2>5, <2>11, Zenon DEF RecordOK, Unended
  <2>7. ~Decided(h2.board, h2.moves)
    BY <1>3, <1>8
  <2>8. Played(h, c, s, new, h2)
    BY <1>2, <1>3, <1>4, <1>6, <1>7, <2>3 DEF Played
  <2>9. RecordOK(h2, b2, how) /\ ToMove(new) = Other(s)
    <3>1. Settled(h2, b2, how)
      BY <2>6, <2>7 DEF Settled
    <3> QED
      BY <2>5, <2>8, <3>1, MarkedRecord
  <2>10. b2 = Both(a)'
    BY <2>1 DEF Both
  <2> QED
    BY <1>8, <2>2, <2>9, <2>10
<1>21. EngagedAt(a, s, PageAt(a, s))'
  <2>1. PICK o2 : o2 = Talks(a, Other(s))'
    OBVIOUS
  <2>2. PICK o1 : o1 = Talks(a, Other(s))
    OBVIOUS
  <2>3. Engaged(page[p], c2s'[p], s2c[p], link[p], h, s, o1)
    BY <1>1, <1>3, <2>2
  <2>4. Engaged(page[p], c2s'[p], s2c[p], link[p], h2, s, o2)
    BY <1>1, <1>8, <2>3, EngagedChange
  <2>5. link'[p] = link[p] /\ s2c'[p] = s2c[p]
    BY <1>4
  <2> QED
    BY <1>9, <1>10, <1>11, <2>1, <2>4, <2>5 DEF EngagedAt
<1>22. EngagedAt(a, Other(s), PageAt(a, Other(s)))'
  <2>1. PICK o2 : o2 = Talks(a, Other(Other(s)))'
    OBVIOUS
  <2>2. Engaged(qg, qc, q2, l2, h2, x, o2)
    BY <1>18
  <2>3. c2s'[q] = qc /\ page'[q] = qg
    BY <1>4, <1>10, <1>15
  <2> QED
    BY <1>9, <1>11, <1>12, <1>16, <2>1, <2>2, <2>3 DEF EngagedAt
<1>23. AgreesAt(a, s, PageAt(a, s))'
  <2>1. ~Token(page[p], c2s'[p], s2c[p], s) /\ ~Has(s2c[p], {"MOVE"})
    BY <1>1, EmptyQueue DEF Token
  <2>2. link[p] = "up" => page[p].view = h2.board
    BY <1>4, <1>6, <1>8
  <2>3. Agrees(page[p], c2s'[p], s2c[p], link[p], h2, s)
    BY <1>1, <2>1, <2>2, AgreesWithoutMoves
  <2>4. link'[p] = link[p] /\ s2c'[p] = s2c[p]
    BY <1>4
  <2> QED
    BY <1>9, <1>10, <1>11, <2>3, <2>4 DEF AgreesAt
<1>24. AgreesAt(a, Other(s), PageAt(a, Other(s)))'
  <2>1. ~Has(qc, {"MOVE"}) /\ ~Has(qs, {"MOVE"}) /\ Other(x) = s
    BY <1>5, <1>12, <1>15 DEF Other, Marks
  <2>2. Token(qg, qc, q2, x) => ToMove(h2.board) = x
    BY <1>8, <1>12, <1>20
  <2>3. CASE l2 = "up"
    <3>1. l = "up" /\ q2 = Append(qs, m)
      BY <1>17, <2>3 DEF Told
    <3>2. qg.view = h.board /\ Queued(q2) = Queued(qs) \cup {m} /\ Has(q2, {"MOVE"})
      BY <1>5, <1>13, <1>15, <1>16, <3>1, AppendQueue
    <3>3. \A f \in Queued(q2) : f.code = "MOVE" => f = m
      BY <2>1, <3>2 DEF Has
    <3>4. h2.board = [qg.view EXCEPT ![m.message] = Other(x)]
      BY <1>6, <1>8, <2>1, <3>2
    <3>5. Agrees(qg, qc, q2, l2, h2, x)
      BY <1>13, <2>1, <2>2, <3>2, <3>3, <3>4 DEF Agrees, Has
    <3> QED
      BY <1>4, <1>9, <1>10, <1>11, <1>12, <1>15, <1>16, <3>5 DEF AgreesAt
  <2>4. CASE l2 # "up"
    <3>1. q2 = qs
      BY <1>17, <2>4 DEF Told
    <3>2. Agrees(qg, qc, q2, l2, h2, x)
      BY <2>1, <2>2, <2>4, <3>1, AgreesWithoutMoves
    <3> QED
      BY <1>4, <1>9, <1>10, <1>11, <1>12, <1>15, <1>16, <3>2 DEF AgreesAt
  <2> QED
    BY <2>3, <2>4
<1>25. link'[PageAt(a, Other(s))'] = "up" => TokenAt(Other(s), PageAt(a, Other(s)))'
  <2>1. l2 = "up" => Token(qg, qc, q2, x)
    BY <1>14, <1>19
  <2>2. c2s'[q] = qc /\ page'[q] = qg
    BY <1>4, <1>10, <1>15
  <2> QED
    BY <1>11, <1>12, <1>16, <2>1, <2>2 DEF TokenAt
<1>26. MatchOK(a)'
  BY <1>8, <1>9, <1>20, <1>21, <1>22, <1>23, <1>24, <1>25, MatchFrom
<1>27. /\ link'[q] = link[q] \/ (link[q] = "fin" /\ link'[q] = "rst")
       /\ link[q] # "up" => s2c'[q] = s2c[q]
       /\ link[q] = "up" => Convo(page[q], c2s'[q], s2c'[q])
  <2>1. l = "up" => Convo(qg, qc, qs)
    BY <1>5, <1>15, <1>16
  <2>2. l = "up" => Convo(qg, qc, Append(qs, m))
    BY <1>14, <1>17, <2>1, AppendConvo
  <2>3. l = "up" => Convo(qg, qc, q2)
    BY <1>17, <2>2 DEF Told
  <2>4. c2s'[q] = qc
    BY <1>4, <1>10, <1>15
  <2> QED
    BY <1>15, <1>16, <1>17, <2>3, <2>4 DEF Told
<1>28. \A r \in {p, q} : /\ link'[r] = link[r] \/ (link[r] = "fin" /\ link'[r] = "rst")
                         /\ link[r] # "up" => s2c'[r] = s2c[r]
                         /\ link[r] = "up" => Convo(page[r], c2s'[r], s2c'[r])
  BY <1>1, <1>4, <1>27
<1>29. /\ Held(a, Other(s)) /\ q = PageAt(a, Other(s))
       /\ \A r \in Pages : r # p /\ r # q => link'[r] = link[r] /\ s2c'[r] = s2c[r]
       /\ heap'[a].matchID = heap[a].matchID
       /\ heap'[a].playerX = heap[a].playerX /\ heap'[a].playerO = heap[a].playerO
  BY <1>3, <1>8, <1>9 DEF Talks
<1> QED
  BY <1>4, <1>9, <1>26, <1>28, <1>29, MoveRest
-----------------------------------------------------------------------------
(* A frame for a page that may be sent or not. *)
MaybeTold(l, sq, f, l2, a) == Told(l, sq, f, l2, a) \/ (l2 = l /\ a = sq)

(* The page of the mover is told the verdict and its opponent is not. *)
LEMMA VerdictPage ==
  ASSUME NEW pg, NEW cq, NEW sq \in Seq(ServerFrames), sq = <<>>,
         NEW l, NEW m, NEW s, NEW o, Engaged(pg, cq, sq, l, m, s, o), ~Resting(pg, cq, sq),
         ~pg.turn, ~Has(cq, {"MOVE"}),
         NEW g \in ServerFrames, g.code = "GAME_OVER",
         NEW l2, NEW a, MaybeTold(l, sq, g, l2, a),
         NEW m2, m2.matchID = m.matchID, m2.players = 2, NEW o2, o2 = FALSE
  PROVE  Engaged(pg, cq, a, l2, m2, s, o2)
<1>1. CASE a = sq /\ (l2 = "up" => l = "up")
  BY <1>1, EngagedChange
<1>2. CASE a = Append(sq, g)
  <2>1. \A codes : Has(a, codes) <=> Has(sq, codes) \/ g.code \in codes
    BY <1>2, AppendQueue
  <2>2. \A codes : ~Has(sq, codes)
    BY EmptyQueue
  <2>3. ~Has(a, Plays) /\ ~Has(a, Starts(s)) /\ Has(a, Ends)
    BY <2>1, <2>2 DEF Plays, Starts, Ends
  <2>4. OnlyLast(a, Starts(s)) /\ Resting(pg, cq, a)
    BY <2>3, NoneIsLast DEF Resting
  <2> QED
    BY <2>3, <2>4 DEF Engaged
<1> QED
  BY <1>1, <1>2 DEF Told, MaybeTold

(* A page in the middle of a match is told of the last move and its end. *)
LEMMA EndedConvo ==
  ASSUME NEW pg, NEW cq, NEW sq \in Seq(ServerFrames), ~Resting(pg, cq, sq),
         NEW f \in ServerFrames, f.code \in Plays, NEW g \in ServerFrames, g.code = "GAME_OVER",
         NEW l, NEW l1, NEW s1, Told(l, sq, f, l1, s1), NEW l2, NEW s2, Told(l1, s1, g, l2, s2),
         l = "up" => Convo(pg, cq, sq)
  PROVE  /\ l2 = l \/ (l = "fin" /\ l2 = "rst")
         /\ l # "up" => s2 = sq
         /\ l = "up" => Convo(pg, cq, s2)
<1>1. CASE l = "up"
  <2>1. l2 = "up" /\ s1 = Append(sq, f) /\ s2 = Append(s1, g)
    BY <1>1 DEF Told
  <2>2. s1 \in Seq(ServerFrames) /\ (\A codes : Has(s1, codes) <=> Has(sq, codes) \/ f.code \in codes)
    BY <2>1, AppendQueue
  <2>3. ~Has(s1, Ends)
    BY <2>2 DEF Resting, Ends, Refusals, Plays
  <2>4. Convo(pg, cq, s1) /\ ~Resting(pg, cq, s1)
    BY <1>1, <2>1, <2>3, AppendConvo DEF Resting, Refusals, Plays
  <2>5. Convo(pg, cq, s2)
    BY <2>1, <2>2, <2>4, AppendConvo DEF Refusals
  <2> QED
    BY <1>1, <2>1, <2>5
<1>2. CASE l # "up"
  BY <1>2 DEF Told
<1> QED
  BY <1>1, <1>2

(* The verdict alone. *)
LEMMA VerdictConvo ==
  ASSUME NEW pg, NEW cq, NEW sq \in Seq(ServerFrames), ~Resting(pg, cq, sq),
         NEW g \in ServerFrames, g.code = "GAME_OVER",
         NEW l, NEW l2, NEW s2, MaybeTold(l, sq, g, l2, s2),
         l = "up" => Convo(pg, cq, sq)
  PROVE  /\ l2 = l \/ (l = "fin" /\ l2 = "rst")
         /\ l # "up" => s2 = sq
         /\ l = "up" => Convo(pg, cq, s2)
<1>1. l = "up" => Convo(pg, cq, Append(sq, g))
  BY AppendConvo DEF Refusals
<1> QED
  BY <1>1 DEF Told, MaybeTold
-----------------------------------------------------------------------------
(* The outcomes of the other matches are left alone. *)
SameOutcomes(a) == \A i \in MatchIds : i # heap[a].matchID => outcome'[i] = outcome[i]
Freed(a) == heap' = [heap EXCEPT ![a] = Free]
Ended(a) == outcome'[heap[a].matchID] # "" /\ SameOutcomes(a)

(* The move that ends the match, of which both players are told. *)
LEMMA MoveEnds ==
  ASSUME TypeOK, RegistryInOrder, Wired, Orderly, NEW fd \in Fds, NEW m \in ServerFrames,
         NEW a \in Addrs, NEW s \in Marks, NEW p \in Pages, NEW n, MoveAt(fd, m, a, s, p, n),
         Talks(a, Other(s)), NEW q, q = PageAt(a, Other(s)),
         NEW g \in ServerFrames, g.code = "GAME_OVER",
         NEW t, AllTold(t, p, q, m, g), Elsewhere(t, p, q), Sent(t),
         Freed(a), SameOutcomes(a)
  PROVE  Wired' /\ Orderly'
<1>1. /\ ~Resting(page[p], c2s'[p], s2c[p])
      /\ link[p] = "up" => Convo(page[p], c2s'[p], s2c[p])
  BY MoverPage
<1>2. /\ q \in Pages /\ q # p /\ ~Resting(page[q], c2s[q], s2c[q])
      /\ link[q] = "up" => Convo(page[q], c2s[q], s2c[q])
  <2>1. PICK h \in MatchStates : h = heap[a]
    BY MoverPage
  <2>2. q \in Pages /\ q # p
    BY PlayPages
  <2>3. ~Resting(page[q], c2s[q], s2c[q])
    BY <2>1, PlayFacts
  <2>4. link[q] = "up" => Convo(page[q], c2s[q], s2c[q])
    BY <2>1, PlayFacts
  <2> QED
    BY <2>2, <2>3, <2>4
<1>3. c2s'[q] = c2s[q] /\ m.code \in Plays
  BY <1>2 DEF MoveAt, Plays
<1>4. PICK sp \in Seq(ServerFrames), sq \in Seq(ServerFrames) : sp = s2c[p] /\ sq = s2c[q]
  BY <1>2, PageQueues
<1>5. PICK cp, cq : cp = c2s'[p] /\ cq = c2s[q]
  OBVIOUS
<1>6. /\ link'[p] = link[p] \/ (link[p] = "fin" /\ link'[p] = "rst")
      /\ link[p] # "up" => s2c'[p] = s2c[p]
      /\ link[p] = "up" => Convo(page[p], c2s'[p], s2c'[p])
  <2>1. PICK l, l2, s2 : l = link[p] /\ l2 = link'[p] /\ s2 = s2c'[p]
    OBVIOUS
  <2>2. MaybeTold(l, sp, g, l2, s2)
    BY <1>4, <2>1 DEF AllTold, Sent, MaybeTold
  <2>3. ~Resting(page[p], cp, sp) /\ (l = "up" => Convo(page[p], cp, sp))
    BY <1>1, <1>4, <1>5, <2>1
  <2>4. /\ l2 = l \/ (l = "fin" /\ l2 = "rst")
        /\ l # "up" => s2 = sp
        /\ l = "up" => Convo(page[p], cp, s2)
    BY <2>2, <2>3, VerdictConvo
  <2> QED
    BY <1>4, <1>5, <2>1, <2>4
<1>7. /\ link'[q] = link[q] \/ (link[q] = "fin" /\ link'[q] = "rst")
      /\ link[q] # "up" => s2c'[q] = s2c[q]
      /\ link[q] = "up" => Convo(page[q], c2s'[q], s2c'[q])
  <2>1. PICK l, l2, s2 : l = link[q] /\ l2 = link'[q] /\ s2 = s2c'[q]
    OBVIOUS
  <2>2. PICK l1, s1 : Told(l, sq, m, l1, s1) /\ Told(l1, s1, g, l2, s2)
    BY <1>4, <2>1 DEF AllTold, Sent
  <2>3. ~Resting(page[q], cq, sq) /\ (l = "up" => Convo(page[q], cq, sq))
    BY <1>2, <1>4, <1>5, <2>1
  <2>4. /\ l2 = l \/ (l = "fin" /\ l2 = "rst")
        /\ l # "up" => s2 = sq
        /\ l = "up" => Convo(page[q], cq, s2)
    BY <1>3, <2>2, <2>3, EndedConvo
  <2> QED
    BY <1>3, <1>4, <1>5, <2>1, <2>4
<1>8. \A r \in {p, q} : /\ link'[r] = link[r] \/ (link[r] = "fin" /\ link'[r] = "rst")
                        /\ link[r] # "up" => s2c'[r] = s2c[r]
                        /\ link[r] = "up" => Convo(page[r], c2s'[r], s2c'[r])
  BY <1>6, <1>7
<1>9. /\ Held(a, Other(s))
      /\ \A r \in Pages : r # p /\ r # q => link'[r] = link[r] /\ s2c'[r] = s2c[r]
      /\ \A b \in Addrs : b # a => heap'[b] = heap[b]
      /\ ~Live(a)'
  BY DEF Talks, Elsewhere, Sent, Live, TypeOK, Freed
<1> QED
  BY <1>2, <1>8, <1>9, MoveRest DEF SameOutcomes

(* The move that ends the match, of which the opponent is not told. *)
LEMMA MoveBreaks ==
  ASSUME TypeOK, RegistryInOrder, Wired, Orderly, NEW fd \in Fds, NEW m \in ServerFrames,
         m.message \in Cells,
         NEW a \in Addrs, NEW s \in Marks, NEW p \in Pages, NEW n, MoveAt(fd, m, a, s, p, n),
         Talks(a, Other(s)), NEW q, q = PageAt(a, Other(s)),
         NEW g \in ServerFrames, g.code = "GAME_OVER",
         NEW t, OnlyMover(t, p, q, g), Elsewhere(t, p, q), Sent(t),
         NEW new, new = [heap[a].board EXCEPT ![m.message] = s],
         Decided(new, heap[a].moves + 1),
         heap' = [heap EXCEPT ![a] = Marked(heap[a], new)], Ended(a)
  PROVE  Wired' /\ Orderly'
<1>1. /\ Engaged(page[p], c2s'[p], s2c[p], link[p], heap[a], s, Talks(a, Other(s)))
      /\ ~Resting(page[p], c2s'[p], s2c[p])
      /\ ~page[p].turn /\ s2c[p] = <<>> /\ ~Has(c2s'[p], {"MOVE"})
      /\ link[p] = "up" => Convo(page[p], c2s'[p], s2c[p])
  BY MoverPage
<1>2. heap[a] \in MatchStates /\ heap[a].players = 2 /\ MatchOK(a)
  BY MoverPage
<1>3. PICK h \in MatchStates : h = heap[a]
  BY <1>2
<1>4. /\ Both(a) /\ q \in Pages /\ q # p
      /\ RecordOK(h, Both(a), outcome[h.matchID])
      /\ h.board[m.message] = Blank /\ ToMove(h.board) = s
      /\ Engaged(page[q], c2s[q], s2c[q], link[q], h, Other(s), Talks(a, s))
      /\ ~Resting(page[q], c2s[q], s2c[q])
  BY <1>3, PlayFacts
<1>5. /\ Engaged(page[q], c2s[q], s2c[q], link[q], h, Other(s), Talks(a, s))
      /\ ~Resting(page[q], c2s[q], s2c[q])
  BY <1>4
<1>6. h.board \in Boards /\ new = [h.board EXCEPT ![m.message] = s] /\ new \in Boards
  BY <1>3, MarkedBoard DEF MatchStates
<1>7. PICK h2 : h2 = Marked(h, new)
  OBVIOUS
<1>8. /\ h2 \in MatchStates /\ h2.board = new /\ h2.moves = h.moves + 1
      /\ h2.matchID = h.matchID /\ h2.players = 2
      /\ h2.playerX = h.playerX /\ h2.playerO = h.playerO /\ h2 # Free
  <2>1. /\ h2 \in MatchStates /\ h2.board = new /\ h2.moves = h.moves + 1
        /\ h2.matchID = h.matchID /\ h2.players = h.players
        /\ h2.playerX = h.playerX /\ h2.playerO = h.playerO /\ h2 # Free
    BY <1>6, <1>7, MarkedFields
  <2> QED
    BY <1>2, <1>3, <2>1
<1>9. heap'[a] = h2 /\ \A b \in Addrs : b # a => heap'[b] = heap[b]
  BY <1>3, <1>7 DEF TypeOK
<1>10. /\ Live(a) /\ Live(a)' /\ client' = client /\ page' = page /\ PageAt(a, s) = p
       /\ Held(a, s) /\ link[p] \in {"up", "fin"}
       /\ \A r \in Pages : r # p => c2s'[r] = c2s[r]
  BY <1>8, <1>9 DEF MoveAt, Held, IsPlayer, Owns, Live
<1>11. \A r : /\ PageAt(a, r)' = PageAt(a, r) /\ (Held(a, r)' <=> Held(a, r))
              /\ Talks(a, r)' <=> Held(a, r) /\ link'[PageAt(a, r)] \in {"up", "fin"}
  BY <1>3, <1>8, <1>9, <1>10, SameSeats
<1>12. PICK x \in Marks : x = Other(s) /\ x # s
  BY DEF Marks, Other
<1>13. link[q] = "fin" /\ link'[q] = "rst" /\ s2c'[q] = s2c[q]
  BY DEF OnlyMover, Sent
<1>14. ~Talks(a, Other(s))' /\ ~Both(a)'
  BY <1>11, <1>13 DEF Both, Marks, Other
<1>15. PICK sp \in Seq(ServerFrames) : sp = s2c[p]
  BY PageQueues
<1>16. PICK l, l2, s2, cp : l = link[p] /\ l2 = link'[p] /\ s2 = s2c'[p] /\ cp = c2s'[p]
  OBVIOUS
<1>17. MaybeTold(l, sp, g, l2, s2)
  BY <1>15, <1>16 DEF OnlyMover, Sent, MaybeTold
<1>18. EngagedAt(a, s, PageAt(a, s))'
  <2>1. PICK o : o = Talks(a, Other(s))
    OBVIOUS
  <2>2. PICK o2 \in BOOLEAN : o2 = FALSE
    OBVIOUS
  <2>3. /\ Engaged(page[p], cp, sp, l, h, s, o) /\ ~Resting(page[p], cp, sp)
        /\ ~page[p].turn /\ sp = <<>> /\ ~Has(cp, {"MOVE"})
    BY <1>1, <1>3, <1>15, <1>16, <2>1
  <2>4. Engaged(page[p], cp, s2, l2, h2, s, o2)
    BY <1>8, <1>17, <2>2, <2>3, VerdictPage
  <2>5. PICK o3 : o3 = Talks(a, Other(s))'
    OBVIOUS
  <2>6. o3 => o2
    BY <1>14, <2>5
  <2>7. Engaged(page[p], cp, s2, l2, h2, s, o3)
    BY <2>4, <2>6, EngagedWeakens
  <2> QED
    BY <1>9, <1>10, <1>11, <1>16, <2>5, <2>7 DEF EngagedAt
<1>19. EngagedAt(a, Other(s), PageAt(a, Other(s)))'
  <2>1. PICK o : o = Talks(a, s)
    OBVIOUS
  <2>2. PICK o2 : o2 = Talks(a, Other(Other(s)))'
    OBVIOUS
  <2>3. PICK k, k2 : k = link[q] /\ k2 = link'[q] /\ k2 = "rst"
    BY <1>13
  <2>4. Engaged(page[q], c2s[q], s2c[q], k, h, x, o)
    BY <1>5, <1>12, <2>1, <2>3
  <2>5. Engaged(page[q], c2s[q], s2c[q], k2, h2, x, o2)
    BY <1>5, <1>8, <2>3, <2>4, EngagedChange
  <2>6. c2s'[q] = c2s[q]
    BY <1>4, <1>10
  <2> QED
    BY <1>9, <1>10, <1>11, <1>12, <1>13, <2>2, <2>3, <2>5, <2>6 DEF EngagedAt
<1>20. RecordOK(h2, Both(a)', outcome'[h2.matchID])
  <2>1. PICK b2 \in BOOLEAN : b2 = FALSE
    OBVIOUS
  <2>2. PICK how, how2 : how = outcome[h.matchID] /\ how2 = outcome'[h2.matchID]
    OBVIOUS
  <2>3. PICK c \in Cells : c = m.message
    OBVIOUS
  <2>4. PICK b : b = Both(a)
    OBVIOUS
  <2>5. RecordOK(h, b, how)
    BY <1>4, <2>2, <2>4
  <2>6. ~Unended(how2)
    BY <1>3, <1>8, <2>2 DEF Unended, Ended
  <2>7. Decided(h2.board, h2.moves)
    BY <1>3, <1>8
  <2>8. Played(h, c, s, new, h2)
    BY <1>2, <1>3, <1>4, <1>6, <1>7, <2>3 DEF Played
  <2>9. RecordOK(h2, b2, how2)
    <3>1. Settled(h2, b2, how2)
      BY <2>1, <2>6, <2>7 DEF Settled
    <3> QED
      BY <2>5, <2>8, <3>1, MarkedRecord
  <2>10. b2 <=> Both(a)'
    BY <1>14, <2>1
  <2>11. PICK b3 : b3 = Both(a)'
    OBVIOUS
  <2>12. RecordOK(h2, b3, how2)
    BY <2>9, <2>10, <2>11, RecordWeakens
  <2> QED
    BY <2>2, <2>11, <2>12
<1>21. MatchOK(a)'
  BY <1>9, <1>14, <1>18, <1>19, <1>20, MatchFrom
<1>22. /\ link'[p] = link[p] \/ (link[p] = "fin" /\ link'[p] = "rst")
       /\ link[p] # "up" => s2c'[p] = s2c[p]
       /\ link[p] = "up" => Convo(page[p], c2s'[p], s2c'[p])
  <2>1. ~Resting(page[p], cp, sp) /\ (l = "up" => Convo(page[p], cp, sp))
    BY <1>1, <1>15, <1>16
  <2>2. /\ l2 = l \/ (l = "fin" /\ l2 = "rst")
        /\ l # "up" => s2 = sp
        /\ l = "up" => Convo(page[p], cp, s2)
    BY <1>17, <2>1, VerdictConvo
  <2> QED
    BY <1>15, <1>16, <2>2
<1>23. \A r \in {p, q} : /\ link'[r] = link[r] \/ (link[r] = "fin" /\ link'[r] = "rst")
                         /\ link[r] # "up" => s2c'[r] = s2c[r]
                         /\ link[r] = "up" => Convo(page[r], c2s'[r], s2c'[r])
  BY <1>13, <1>22
<1>24. /\ Held(a, Other(s)) /\ q = PageAt(a, Other(s))
       /\ \A r \in Pages : r # p /\ r # q => link'[r] = link[r] /\ s2c'[r] = s2c[r]
       /\ heap'[a].matchID = heap[a].matchID
       /\ heap'[a].playerX = heap[a].playerX /\ heap'[a].playerO = heap[a].playerO
  BY <1>3, <1>8, <1>9 DEF Talks, Elsewhere, Sent
<1>25. \A i \in MatchIds : i # heap[a].matchID => outcome'[i] = outcome[i]
  BY DEF SameOutcomes, Ended
<1>26. /\ TypeOK /\ RegistryInOrder /\ Wired /\ Orderly /\ MoveAt(fd, m, a, s, p, n)
       /\ q \in Pages /\ (q = p \/ (Held(a, Other(s)) /\ q = PageAt(a, Other(s))))
       /\ \A r \in Pages : r # p /\ r # q => link'[r] = link[r] /\ s2c'[r] = s2c[r]
  BY <1>4, <1>24
<1>27. /\ \A b \in Addrs : b # a => heap'[b] = heap[b]
       /\ Live(a)' => /\ heap'[a].matchID = heap[a].matchID
                      /\ heap'[a].playerX = heap[a].playerX /\ heap'[a].playerO = heap[a].playerO
       /\ Live(a)' => MatchOK(a)'
  BY <1>9, <1>21, <1>24
<1> QED
  BY <1>23, <1>25, <1>26, <1>27, MoveRest
-----------------------------------------------------------------------------
(* What the server does with the move m of the player with mark s: new is  *)
(* the board after it, g the verdict, and t what it has sent.              *)
MoveSends(a, s, m, new, g) ==
  IF Decided(new, heap[a].moves + 1) THEN VerdictTo(a, s, m, g) ELSE FirstTo(a, Other(s), m)

MoveMarks(a, new) == heap' = [heap EXCEPT ![a] = Marked(heap[a], new)]

MoveResult(a, new, t) ==
  \/ t.sent = 0 /\ UNCHANGED <<heap, outcome>>
  \/ t.sent > 0 /\ ~Decided(new, heap[a].moves + 1) /\ MoveMarks(a, new) /\ outcome' = outcome
  \/ /\ t.sent > 0 /\ Decided(new, heap[a].moves + 1)
     /\ IF t.last = "ok" THEN Freed(a) ELSE MoveMarks(a, new)
     /\ Record(heap[a].matchID, Verdict(new))

LEMMA MoveTaken ==
  ASSUME TypeOK, Wired, Orderly, fault = "none", fault' = "none", up', NEW fd \in Fds,
         NEW m \in [code : {"MOVE"}, player : Marks, message : Cells],
         move(fd, m), UNCHANGED pageVars
  PROVE  \E a \in Addrs, s \in Marks, p \in Pages : \E n, t :
           LET new == [heap[a].board EXCEPT ![m.message] = s]
           IN  /\ MoveAt(fd, m, a, s, p, n)
               /\ t \in MoveSends(a, s, m, new, GameOver(Verdict(new)))
               /\ ~t.stray /\ Sent(t) /\ MoveResult(a, new, t)
<1> DEFINE c == client[fd]
           a == c.currentMatch
           match == heap[a]
           receiver == IF m.player = "X" THEN match.playerO ELSE match.playerX
           board == [match.board EXCEPT ![m.message] = m.player]
           decided == Decided(board, match.moves + 1)
           relayed == ThenSend({Trace}, client, a, Other(m.player), receiver, m)
           toX == ThenSend(relayed, client, a, "X", match.playerX, GameOver(Verdict(board)))
           toO == ThenSend(toX, client, a, "O", match.playerO, GameOver(Verdict(board)))
           Mark == heap' = [heap EXCEPT ![a] = Marked(@, board)] /\ UNCHANGED matches
<1>1. IsOpen(fd) /\ Live(a) /\ c.handshake /\ page' = page
  BY DEF move, Receive, pageVars
<1>2. PICK p \in Pages : p = c.page /\ Readable(p) /\ c2s[p] # <<>> /\ m = Head(c2s[p])
  BY <1>1, ClientType DEF move, Receive
<1>3. a \in Addrs /\ m.code = "MOVE" /\ m.player \in Marks /\ m.message \in Cells
  BY <1>1 DEF Live
<1>4. relayed \in SUBSET Traces /\ toO \in SUBSET Traces
  BY <1>1, MoveTraces
<1>5. PICK t \in (IF decided THEN toO ELSE relayed) :
        /\ PtrFault(c, t)
        /\ \/ KilledBySIGPIPE(t)
           \/ /\ Survives(t) /\ Sent(t) /\ Received(fd)
              /\ \/ t.sent = 0 /\ UNCHANGED <<heap, matches, outcome>>
                 \/ t.sent > 0 /\ ~decided /\ Mark /\ UNCHANGED outcome
                 \/ /\ t.sent > 0 /\ decided
                    /\ IF t.last = "ok" THEN Forget(a) ELSE Mark
                    /\ Record(match.matchID, Verdict(board))
              /\ UNCHANGED <<up, match_id, client>>
  BY DEF move
<1>6. t \in Traces
  BY <1>4, <1>5
<1>7. ~t.stray /\ ~Aliasing(c)
  BY <1>5, <1>6, CalmFault
<1>8. Owns(c, a)
  BY <1>1, <1>7 DEF Aliasing
<1>9. PICK s \in Marks : s = c.seat /\ Seat(a, s) = fd
  BY <1>1, <1>3, <1>8 DEF Wired, Pointers, PointerOK
<1>10. Held(a, s) /\ PageAt(a, s) = p
  BY <1>1, <1>2, <1>8, <1>9 DEF Held, PageAt, IsPlayer
<1>11. ~KilledBySIGPIPE(t)
  BY DEF KilledBySIGPIPE, Die
<1>12. /\ Sent(t) /\ Received(fd) /\ UNCHANGED <<match_id, client>>
       /\ \/ t.sent = 0 /\ UNCHANGED <<heap, matches, outcome>>
          \/ t.sent > 0 /\ ~decided /\ Mark /\ UNCHANGED outcome
          \/ /\ t.sent > 0 /\ decided
             /\ IF t.last = "ok" THEN Forget(a) ELSE Mark
             /\ Record(match.matchID, Verdict(board))
  <2> HIDE DEF c, a, match, board, decided, Mark, relayed, toX, toO
  <2> QED
    BY <1>5, <1>11
<1>13. /\ \A r \in Pages : r # p => c2s'[r] = c2s[r]
       /\ \E n \in 1 .. Len(c2s[p]) : c2s'[p] = SubSeq(c2s[p], n + 1, Len(c2s[p]))
       /\ AskedLast(c2s[p]) => AskedLast(c2s'[p])
  <2> HIDE DEF a, match, board, decided, Mark, relayed, toX, toO
  <2> QED
    BY <1>1, <1>2, <1>12, ReceivedQueue
<1>14. PICK n \in 1 .. Len(c2s[p]) : c2s'[p] = SubSeq(c2s[p], n + 1, Len(c2s[p]))
  BY <1>13
<1>15. m.player = s
  <2>1. EngagedAt(a, s, p)
    BY <1>1, <1>3, <1>10 DEF Orderly, MatchOK
  <2>2. PICK cq \in Seq(PageFrames) : cq = c2s[p]
    BY PageQueues
  <2>2a. PICK l, o, h : l = link[p] /\ h = heap[a] /\ o = Talks(a, Other(s))
    OBVIOUS
  <2>3. Engaged(page[p], cq, s2c[p], l, h, s, o) /\ n \in 1 .. Len(cq) /\ Head(cq).code = "MOVE"
    BY <1>2, <1>3, <1>14, <2>1, <2>2, <2>2a DEF EngagedAt
  <2>4. Head(cq).player = s
    BY <2>3, MoveReceived
  <2> QED
    BY <1>2, <2>2, <2>2a, <2>4
<1>16. MoveAt(fd, m, a, s, p, n)
  <2>1. AskedLast(c2s'[p]) /\ link[p] \in {"up", "fin"}
    BY <1>2, <1>13 DEF Wired, Rests, Readable
  <2> HIDE DEF match, board, decided, Mark, relayed, toX, toO
  <2> QED
    BY <1>1, <1>2, <1>3, <1>9, <1>10, <1>12, <1>13, <1>14, <1>15, <2>1 DEF MoveAt
<1> DEFINE new == [heap[a].board EXCEPT ![m.message] = s]
<1>17. new = board /\ decided = Decided(new, heap[a].moves + 1)
  BY <1>15
<1>18. t \in MoveSends(a, s, m, new, GameOver(Verdict(new)))
  <2>1. /\ receiver = Seat(a, Other(m.player))
        /\ match.playerX = Seat(a, "X") /\ match.playerO = Seat(a, "O")
    BY <1>3 DEF Seat, Other, Marks
  <2>2. relayed = FirstTo(a, Other(s), m)
    BY <1>15, <2>1 DEF FirstTo
  <2>3. toO = VerdictTo(a, s, m, GameOver(Verdict(new)))
    BY <1>15, <2>1, <2>2 DEF VerdictTo
  <2> HIDE DEF relayed, toO
  <2> QED
    BY <1>5, <1>17, <2>2, <2>3, Zenon DEF MoveSends
<1>19. MoveResult(a, new, t)
  BY <1>12, <1>15 DEF MoveResult, MoveMarks, Forget, Freed
<1> HIDE DEF a, new
<1> QED
  BY <1>3, <1>7, <1>12, <1>16, <1>18, <1>19 DEF new
-----------------------------------------------------------------------------
LEMMA MoveKeeps ==
  ASSUME TypeOK, RegistryInOrder, Wired, Orderly, fault = "none", fault' = "none", up',
         NEW fd \in Fds, NEW m \in [code : {"MOVE"}, player : Marks, message : Cells],
         move(fd, m), UNCHANGED pageVars
  PROVE  Wired' /\ Orderly'
<1>1. PICK a \in Addrs, s \in Marks, p \in Pages :
        \E n, t :
          LET new == [heap[a].board EXCEPT ![m.message] = s]
          IN  /\ MoveAt(fd, m, a, s, p, n)
              /\ t \in MoveSends(a, s, m, new, GameOver(Verdict(new)))
              /\ ~t.stray /\ Sent(t) /\ MoveResult(a, new, t)
  BY MoveTaken
<1>2. PICK new, g : new = [heap[a].board EXCEPT ![m.message] = s] /\ g = GameOver(Verdict(new))
  OBVIOUS
<1>3. PICK n, t : /\ MoveAt(fd, m, a, s, p, n)
                  /\ t \in MoveSends(a, s, m, new, g)
                  /\ ~t.stray /\ Sent(t) /\ MoveResult(a, new, t)
  BY <1>1, <1>2
<1>4. m \in ServerFrames /\ m.message \in Cells
  BY DEF ServerFrames
<1>5. g \in ServerFrames /\ g.code = "GAME_OVER"
  BY <1>2, VerdictType, GameOverType DEF GameOver
<1>6. Attached /\ Talks(a, s) /\ PageAt(a, s) = p
  BY <1>3 DEF Wired, MoveAt, Talks
<1>7. Other(s) \in Marks
  BY DEF Other, Marks
<1>8. PICK decided \in BOOLEAN : decided <=> Decided(new, heap[a].moves + 1)
  OBVIOUS
<1>9. t \in (IF decided THEN VerdictTo(a, s, m, g) ELSE FirstTo(a, Other(s), m))
  BY <1>3, <1>8, Zenon DEF MoveSends
<1>10. CASE ~Talks(a, Other(s))
  <2>1. t.sent = 0 /\ t.link = link /\ t.s2c = s2c
    <3>1. CASE decided
      BY <1>3, <1>4, <1>5, <1>6, <1>9, <1>10, <3>1, VerdictSends
    <3>2. CASE ~decided
      <4>1. Failed(Trace, t)
        BY <1>3, <1>4, <1>7, <1>9, <1>10, <3>2, FirstSend
      <4> QED
        BY <4>1, TraceIs DEF Failed
    <3> QED
      BY <3>1, <3>2
  <2>2. UNCHANGED <<link, s2c, heap, outcome>>
    BY <1>3, <2>1 DEF Sent, MoveResult
  <2> QED
    BY <1>3, <1>10, <2>2, MoveUnsent
<1>11. CASE Talks(a, Other(s))
  <2>1. PICK q : q = PageAt(a, Other(s))
    OBVIOUS
  <2>2. q \in Pages
    BY <1>6, <1>11, <2>1, HeldPage DEF Talks
  <2>3. CASE ~decided
    <3>1. t \in Traces /\ Accepted(Trace, t, q, m)
      BY <1>3, <1>4, <1>7, <1>9, <1>11, <2>1, <2>3, FirstSend
    <3>2. /\ t.sent = Trace.sent + 1
          /\ \A r \in Pages : r # q => t.link[r] = Trace.link[r] /\ t.s2c[r] = Trace.s2c[r]
          /\ Told(Trace.link[q], Trace.s2c[q], m, t.link[q], t.s2c[q])
      BY <2>2, <3>1, TraceType, AcceptedFacts
    <3>3. /\ t.sent = 1
          /\ \A r \in Pages : r # q => link'[r] = link[r] /\ s2c'[r] = s2c[r]
          /\ Told(link[q], s2c[q], m, link'[q], s2c'[q])
      BY <1>3, <3>2, TraceIs DEF Sent
    <3>4. MoveMarks(a, new) /\ outcome' = outcome
      BY <1>3, <1>8, <2>3, <3>3 DEF MoveResult
    <3> QED
      <4>1. new = [heap[a].board EXCEPT ![m.message] = s]
        BY <1>2
      <4>2. ~Decided(new, heap[a].moves + 1)
        BY <1>8, <2>3
      <4>3. heap' = [heap EXCEPT ![a] = Marked(heap[a], new)] /\ outcome' = outcome
        BY <3>4 DEF MoveMarks
      <4>4. Relayed(q, m)
        BY <3>3 DEF Relayed
      <4> QED
        BY <4>1, <4>2, <4>3, <4>4, <1>3, <1>4, <1>11, <2>1, MoveRelayed
  <2>4. CASE decided
    <3>1. /\ t.sent > 0 /\ Elsewhere(t, p, q)
          /\ t.last = "ok" => AllTold(t, p, q, m, g)
          /\ t.last # "ok" => OnlyMover(t, p, q, g)
      BY <1>3, <1>4, <1>5, <1>6, <1>9, <1>11, <2>1, <2>4, VerdictSends
    <3>2. t.sent # 0
      <4>1. t \in Traces
        BY <1>3, <1>4, <1>5, <1>6, <1>9, <2>4, VerdictSends
      <4> QED
        BY <3>1, <4>1 DEF Traces
    <3>3. /\ IF t.last = "ok" THEN Freed(a) ELSE MoveMarks(a, new)
          /\ Record(heap[a].matchID, Verdict(new))
      BY <1>3, <1>8, <2>4, <3>2 DEF MoveResult
    <3>4. Ended(a)
      <4>1. heap[a].matchID \in MatchIds
        BY <1>3, MatchType DEF MoveAt, Held, IsPlayer, Owns, MatchStates
      <4>2. Verdict(new) \in Marks \cup {"draw"}
        BY VerdictType
      <4>3. PICK id \in MatchIds, v \in Marks \cup {"draw"} :
              id = heap[a].matchID /\ v = Verdict(new) /\ v # ""
        BY <4>1, <4>2 DEF Marks
      <4>4. outcome' = [outcome EXCEPT ![id] = IF @ = "" THEN v ELSE @]
        BY <3>3, <4>3 DEF Record
      <4>5. outcome'[id] # "" /\ \A i \in MatchIds : i # id => outcome'[i] = outcome[i]
        BY <4>3, <4>4 DEF TypeOK
      <4> QED
        BY <4>3, <4>5 DEF Ended, SameOutcomes
    <3>5. CASE t.last = "ok"
      <4>1. AllTold(t, p, q, m, g) /\ Freed(a) /\ SameOutcomes(a)
        BY <3>1, <3>3, <3>4, <3>5 DEF Ended
      <4> QED
        BY <1>3, <1>4, <1>5, <1>11, <2>1, <3>1, <4>1, MoveEnds
    <3>6. CASE t.last # "ok"
      <4>1. OnlyMover(t, p, q, g) /\ MoveMarks(a, new)
        BY <3>1, <3>3, <3>6
      <4> QED
        BY <1>2, <1>3, <1>4, <1>5, <1>8, <1>11, <2>1, <2>4, <3>1, <3>4, <4>1, MoveBreaks DEF MoveMarks
    <3> QED
      BY <3>5, <3>6
  <2> QED
    BY <2>3, <2>4
<1> QED
  BY <1>10, <1>11
-----------------------------------------------------------------------------
(***************************************************************************)
(* A player leaves, and every other step of the server.                    *)
(***************************************************************************)
(* A player of a match of two leaves with a Close frame: the other player, *)
(* if any, is told, and the match is gone.                                 *)
LeftTo(t, q, g) ==
  /\ Told(link[q], s2c[q], g, t.link[q], t.s2c[q])
  /\ \A r \in Pages : r # q => t.link[r] = link[r] /\ t.s2c[r] = s2c[r]

LEMMA LeaverSends ==
  ASSUME TypeOK, Attached, NEW a \in Addrs, NEW s \in Marks, Held(a, s),
         NEW g \in ServerFrames, NEW t \in FirstTo(a, Other(s), g), ~t.stray
  PROVE  /\ t.link \in [Pages -> Links]
         /\ Talks(a, Other(s)) => PageAt(a, Other(s)) \in Pages /\ PageAt(a, Other(s)) # PageAt(a, s)
                                  /\ LeftTo(t, PageAt(a, Other(s)), g)
         /\ ~Talks(a, Other(s)) => t.link = link /\ t.s2c = s2c
<1>1. /\ Other(s) \in Marks
      /\ (s = "X" /\ Other(s) = "O") \/ (s = "O" /\ Other(s) = "X")
  BY DEF Marks, Other
<1>2. /\ t \in Traces
      /\ Talks(a, Other(s)) => Accepted(Trace, t, PageAt(a, Other(s)), g)
      /\ ~Talks(a, Other(s)) => Failed(Trace, t)
  BY <1>1, FirstSend
<1>3. t.link \in [Pages -> Links]
  BY <1>2, SentType
<1>4. ASSUME Talks(a, Other(s))
      PROVE  PageAt(a, Other(s)) \in Pages /\ PageAt(a, Other(s)) # PageAt(a, s)
             /\ LeftTo(t, PageAt(a, Other(s)), g)
  <2>1. PICK q : q = PageAt(a, Other(s))
    OBVIOUS
  <2>2. q \in Pages /\ q # PageAt(a, s)
    BY <1>1, <1>4, <2>1, HeldPage, SeatsApart DEF Talks
  <2>3. Accepted(Trace, t, q, g) /\ Trace \in Traces
    BY <1>2, <1>4, <2>1, TraceType
  <2>4. /\ \A r \in Pages : r # q => t.link[r] = Trace.link[r] /\ t.s2c[r] = Trace.s2c[r]
        /\ Told(Trace.link[q], Trace.s2c[q], g, t.link[q], t.s2c[q])
    BY <1>2, <2>2, <2>3, AcceptedFacts
  <2> QED
    BY <2>1, <2>2, <2>4, TraceIs DEF LeftTo
<1>5. ~Talks(a, Other(s)) => t.link = link /\ t.s2c = s2c
  BY <1>2, TraceIs DEF Failed
<1> QED
  BY <1>3, <1>4, <1>5

LEMMA LeaverKeeps ==
  ASSUME TypeOK, RegistryInOrder, Wired, Orderly, NEW fd \in Fds, IsOpen(fd),
         client[fd].handshake, Readable(client[fd].page),
         NEW a \in Addrs, NEW s \in Marks, Held(a, s), Seat(a, s) = fd,
         NEW g \in ServerFrames, g.code = "GAME_OVER",
         NEW t \in FirstTo(a, Other(s), g), ~t.stray,
         s2c' = t.s2c, close_connection(fd, client, t.link), Freed(a), SameOutcomes(a),
         UNCHANGED <<page, match_id>>
  PROVE  Wired' /\ Orderly'
<1>1. PICK p \in Pages : p = client[fd].page /\ PageAt(a, s) = p
  BY ClientType DEF PageAt
<1>2. Attached /\ Network
  BY DEF Wired, Network
<1>3. PICK o : o = Seat(a, Other(s))
  OBVIOUS
<1>4. PICK q \in Pages :
        \/ q = p /\ t.link = link /\ t.s2c = s2c
        \/ q # p /\ Talks(a, Other(s)) /\ q = PageAt(a, Other(s)) /\ LeftTo(t, q, g)
  BY <1>1, <1>2, LeaverSends
<1>5. q # p => o \in Fds /\ IsOpen(o) /\ client[o].page = q /\ client[o].currentMatch = a
  BY <1>3, <1>4 DEF Talks, Held, PageAt, IsOpen, IsPlayer, Owns
<1>6. \A r \in Pages : r # q \/ q = p => t.link[r] = link[r] /\ t.s2c[r] = s2c[r]
  BY <1>4 DEF LeftTo
<1>7. q # p =>
        /\ t.link[q] = link[q] \/ (link[q] = "fin" /\ t.link[q] = "rst")
        /\ link[q] # "up" => t.s2c[q] = s2c[q]
        /\ link[q] = "up" => Convo(page[q], c2s[q], t.s2c[q])
  <2> SUFFICES ASSUME q # p
               PROVE  /\ t.link[q] = link[q] \/ (link[q] = "fin" /\ t.link[q] = "rst")
                      /\ link[q] # "up" => t.s2c[q] = s2c[q]
                      /\ link[q] = "up" => Convo(page[q], c2s[q], t.s2c[q])
    OBVIOUS
  <2>1. Talks(a, Other(s)) /\ q = PageAt(a, Other(s)) /\ LeftTo(t, q, g)
    BY <1>4
  <2>2. Live(a) /\ MatchOK(a) /\ Other(s) \in Marks /\ Other(Other(s)) = s
    BY DEF Held, IsPlayer, Owns, Orderly, Other, Marks
  <2>3. EngagedAt(a, Other(s), q)
    BY <2>1, <2>2 DEF MatchOK, Talks
  <2>4. Talks(a, s)
    BY <1>1 DEF Talks, Readable
  <2>5. ~Resting(page[q], c2s[q], s2c[q])
    BY <2>2, <2>3, <2>4 DEF EngagedAt, Engaged
  <2>6. link[q] = "up" => Convo(page[q], c2s[q], s2c[q])
    BY DEF Wired, Rests
  <2>7. PICK sq \in Seq(ServerFrames) : sq = s2c[q]
    BY PageQueues
  <2>7a. PICK l, l2, s2, cq : l = link[q] /\ l2 = t.link[q] /\ s2 = t.s2c[q] /\ cq = c2s[q]
    OBVIOUS
  <2>8. MaybeTold(l, sq, g, l2, s2)
    BY <2>1, <2>7, <2>7a DEF LeftTo, MaybeTold
  <2>9. ~Resting(page[q], cq, sq) /\ (l = "up" => Convo(page[q], cq, sq))
    BY <2>5, <2>6, <2>7, <2>7a
  <2>10. /\ l2 = l \/ (l = "fin" /\ l2 = "rst")
         /\ l # "up" => s2 = sq
         /\ l = "up" => Convo(page[q], cq, s2)
    BY <2>8, <2>9, VerdictConvo
  <2> QED
    BY <2>7, <2>7a, <2>10
<1>8. PICK l \in [Pages -> Links] : l = t.link
  BY <1>2, LeaverSends
<1>9. /\ \A r \in Pages : l[r] = link[r] \/ (link[r] = "fin" /\ l[r] = "rst")
      /\ \A r \in Pages : link[r] # "up" => s2c'[r] = s2c[r]
      /\ \A r \in Pages : r # p /\ link[r] = "up" => Convo(page[r], c2s[r], s2c'[r])
  BY <1>6, <1>7, <1>8 DEF Wired, Rests
<1>10. \A k \in Fds : k # fd /\ IsOpen(k) /\ ~client[k].handshake =>
         s2c'[client[k].page] = s2c[client[k].page]
  <2> SUFFICES ASSUME NEW k \in Fds, k # fd, IsOpen(k), ~client[k].handshake
               PROVE  s2c'[client[k].page] = s2c[client[k].page]
    OBVIOUS
  <2>1. client[k].currentMatch = NULL /\ client[k].page \in Pages
    BY ClientType DEF Wired, Greeting
  <2>2. a # NULL
    BY ServerAssumption
  <2>3. q # p => client[k].page # q
    BY <1>2, <1>5, <2>1, <2>2 DEF Attached
  <2> QED
    BY <1>6, <2>1, <2>3
<1>11. /\ Network'
       /\ client' = [client EXCEPT ![fd] = NoClient]
       /\ \A r \in Pages : r # p => link'[r] = l[r] /\ c2s'[r] = c2s[r]
  <2>1. close_connection(fd, client, l)
    BY <1>8
  <2> QED
    BY <1>1, <1>2, <1>9, <1>10, <2>1, CloseNetwork
<1>12. \A k \in Fds : IsOpen(k)' => IsOpen(k) /\ k # fd /\ client'[k] = client[k]
  BY <1>11 DEF IsOpen, TypeOK
<1>13. /\ heap'[a] = Free /\ \A b \in Addrs : b # a => heap'[b] = heap[b]
  BY DEF Freed, TypeOK
<1>14. Pointers'
  <2>1. \A b \in Addrs : Live(b)' =>
          /\ Live(b) /\ heap'[b].matchID = heap[b].matchID
          /\ heap'[b].playerX = heap[b].playerX
          /\ heap'[b].playerO # heap[b].playerO => heap[b].playerO = NoFd
    BY <1>13 DEF Live
  <2>2. \A k \in Fds : IsOpen(k)' => PointerOK(k)'
    BY <1>12, <2>1, PointerKeeps DEF Wired
  <2> QED
    BY <2>2 DEF Pointers, IsOpen
<1>15. Live(a) /\ heap[a].matchID \in MatchIds
  BY MatchType DEF Held, IsPlayer, Owns, MatchStates
<1>16. FreshIds'
  <2>1. heap[a].matchID < match_id
    BY <1>15 DEF RegistryInOrder, IdsAreHandedOut
  <2>2. match_id \in Nat
    BY NextIdType
  <2>3. ASSUME NEW i \in MatchIds, i >= match_id PROVE outcome'[i] = ""
    <3>1. i # heap[a].matchID
      BY <1>15, <2>1, <2>2, <2>3 DEF MatchIds
    <3> QED
      BY <2>3, <3>1 DEF Wired, FreshIds, SameOutcomes
  <2> QED
    BY <2>3 DEF Wired, FreshIds
<1>17. ASSUME NEW b \in Addrs, Live(b)' PROVE MatchOK(b)'
  <2>1. b # a /\ heap'[b] = heap[b] /\ Live(b) /\ MatchOK(b)
    BY <1>13, <1>17 DEF Live, Orderly
  <2>2. heap[b].matchID # heap[a].matchID /\ heap[b].matchID \in MatchIds
    BY <1>15, <2>1, IdsApart, MatchType DEF Wired, MatchStates
  <2>3. outcome'[heap[b].matchID] = outcome[heap[b].matchID]
    BY <2>2 DEF SameOutcomes
  <2>4. \A k \in Fds : IsOpen(k)' /\ Owns(client[k], b)' =>
          IsOpen(k) /\ client'[k] = client[k] /\ SameAt(client[k].page)
    <3> SUFFICES ASSUME NEW k \in Fds, IsOpen(k)', Owns(client[k], b)'
                 PROVE  IsOpen(k) /\ client'[k] = client[k] /\ SameAt(client[k].page)
      OBVIOUS
    <3>1. IsOpen(k) /\ k # fd /\ client'[k] = client[k]
      BY <1>12
    <3>2. client[k].page \in Pages /\ client[k].page # p
      BY <1>1, <1>2, <3>1, ClientsApart
    <3>3. client[k].currentMatch = b
      BY <3>1 DEF Owns
    <3>4. q # p => client[k].page # q
      BY <1>2, <1>5, <2>1, <3>1, <3>3 DEF Attached
    <3> QED
      BY <1>6, <1>8, <1>11, <3>1, <3>2, <3>4 DEF SameAt
  <2> QED
    BY <2>1, <2>3, <2>4, MatchKeeps
<1>18. Orderly'
  BY <1>17 DEF Orderly, Live
<1> QED
  BY <1>11, <1>14, <1>16, <1>18, WiredFrom
-----------------------------------------------------------------------------
LEMMA CloseFrameKeeps ==
  ASSUME TypeOK, RegistryInOrder, Wired, Orderly, fault = "none", fault' = "none", up',
         NEW fd \in Fds, close_frame(fd), UNCHANGED pageVars
  PROVE  Wired' /\ Orderly'
<1> DEFINE c == client[fd]
           a == c.currentMatch
<1>1. /\ IsOpen(fd) /\ ~Dangling(c) /\ c.handshake /\ Readable(c.page) /\ page' = page
  BY DEF close_frame, Receive, pageVars
<1>2. a # NULL => Live(a) /\ a \in Addrs
  BY <1>1 DEF Dangling, Live
<1>3. {Trace} \in SUBSET Traces /\ (a # NULL => PeerCloseSends(fd, a) \in SUBSET Traces)
  <2>1. client \in ClientTables
    BY DEF TypeOK, ClientTables
  <2>2. GameOver("left") \in ServerFrames
    BY GameOverType
  <2>3. {Trace} \in SUBSET Traces
    BY TraceType
  <2> QED
    BY <2>1, <2>2, <2>3, ThenSendType DEF PeerCloseSends
<1>4. PICK t \in (IF a = NULL THEN {Trace} ELSE PeerCloseSends(fd, a)) :
        /\ PtrFault(c, t)
        /\ \/ KilledBySIGPIPE(t)
           \/ /\ Survives(t)
              /\ IF a = NULL THEN UNCHANGED <<heap, matches, outcome>> ELSE PeerCloseFrees(a)
              /\ s2c' = t.s2c
              /\ close_connection(fd, client, t.link)
              /\ UNCHANGED <<up, match_id>>
  BY DEF close_frame
<1>5. t \in Traces
  BY <1>3, <1>4
<1>6. ~t.stray /\ ~Aliasing(c)
  BY <1>4, <1>5, CalmFault
<1>7. /\ IF a = NULL THEN UNCHANGED <<heap, matches, outcome>> ELSE PeerCloseFrees(a)
      /\ s2c' = t.s2c /\ close_connection(fd, client, t.link) /\ match_id' = match_id
  <2>1. ~KilledBySIGPIPE(t)
    BY DEF KilledBySIGPIPE, Die
  <2> HIDE DEF c, a
  <2> QED
    BY <1>4, <2>1
<1>8. CASE a = NULL \/ heap[a].players # 2
  <2>1. t = Trace /\ UNCHANGED <<heap, outcome>>
    BY <1>4, <1>7, <1>8 DEF PeerCloseSends, PeerCloseFrees
  <2>2. s2c' = s2c /\ close_connection(fd, client, link)
    BY <1>7, <2>1, TraceIs
  <2> QED
    BY <1>1, <1>7, <2>1, <2>2, DropKeeps
<1>9. CASE a # NULL /\ heap[a].players = 2
  <2>1. Owns(c, a)
    BY <1>2, <1>6, <1>9 DEF Aliasing
  <2>2. PICK s \in Marks : s = c.seat /\ Seat(a, s) = fd
    BY <1>1, <1>2, <1>9, <2>1 DEF Wired, Pointers, PointerOK
  <2>3. Held(a, s)
    BY <1>1, <2>1, <2>2 DEF Held, IsPlayer
  <2>4. heap[a].playerX # heap[a].playerO
    BY <1>2, <1>9 DEF Orderly, MatchOK, RecordOK
  <2>5. PICK g \in ServerFrames : g = GameOver("left") /\ g.code = "GAME_OVER"
    <3>1. GameOver("left") \in ServerFrames
      BY GameOverType
    <3> QED
      BY <3>1 DEF GameOver
  <2>6. t \in FirstTo(a, Other(s), g)
    <3>1. t \in ThenSend({Trace}, client, a, IF heap[a].playerX = fd THEN "O" ELSE "X",
                         Opponent(fd, heap[a]), GameOver("left"))
      BY <1>4, <1>9 DEF PeerCloseSends
    <3>2. /\ (IF heap[a].playerX = fd THEN "O" ELSE "X") = Other(s)
          /\ Opponent(fd, heap[a]) = Seat(a, Other(s))
      BY <2>2, <2>4 DEF Opponent, Seat, Other, Marks
    <3> QED
      BY <2>5, <3>1, <3>2 DEF FirstTo
  <2>7. Freed(a) /\ SameOutcomes(a)
    <3>1. Forget(a) /\ Record(heap[a].matchID, "left")
      BY <1>7, <1>9 DEF PeerCloseFrees
    <3>2. heap[a].matchID \in MatchIds
      BY <1>2, <1>9, MatchType DEF MatchStates
    <3> QED
      BY <3>1, <3>2 DEF Forget, Freed, Record, SameOutcomes, TypeOK
  <2>8. PICK b \in Addrs : b = a
    BY <1>2, <1>9
  <2>9. /\ Held(b, s) /\ Seat(b, s) = fd /\ t \in FirstTo(b, Other(s), g)
        /\ Freed(b) /\ SameOutcomes(b)
    BY <2>2, <2>3, <2>6, <2>7, <2>8
  <2> HIDE DEF a
  <2> QED
    BY <1>1, <1>6, <1>7, <2>5, <2>9, LeaverKeeps
<1> QED
  BY <1>8, <1>9

LEMMA ServerKeeps ==
  ASSUME TypeOK, RegistryInOrder, Wired, Orderly, fault = "none", fault' = "none", up',
         ServerNext, UNCHANGED pageVars
  PROVE  Wired' /\ Orderly'
<1>1. ASSUME NEW p \in Pages, Accept(p) PROVE Wired' /\ Orderly'
  BY <1>1, AcceptKeeps
<1>2. ASSUME NEW fd \in Fds, handle(fd) PROVE Wired' /\ Orderly'
  <2>1. CASE PeerGone(fd)
    BY <2>1, PeerGoneKeeps
  <2>2. CASE Handshake(fd)
    BY <2>2, HandshakeKeeps
  <2>3. CASE create_match(fd)
    BY <2>3, CreateKeeps
  <2>4. CASE \E id \in Slots : join_match(fd, id)
    BY <2>4, JoinKeeps
  <2>5. CASE \E cell \in Cells, mark \in Marks :
               move(fd, [code |-> "MOVE", player |-> mark, message |-> cell])
    <3>1. PICK cell \in Cells, mark \in Marks :
                 move(fd, [code |-> "MOVE", player |-> mark, message |-> cell])
      BY <2>5
    <3>2. PICK m \in [code : {"MOVE"}, player : Marks, message : Cells] :
            m = [code |-> "MOVE", player |-> mark, message |-> cell]
      OBVIOUS
    <3>3. move(fd, m)
      BY <3>1, <3>2
    <3> QED
      BY <3>3, MoveKeeps
  <2>6. CASE close_frame(fd)
    BY <2>6, CloseFrameKeeps
  <2>7. ~undefined_behaviour(fd)
    BY DEF undefined_behaviour, Noting
  <2> QED
    BY <1>2, <2>1, <2>2, <2>3, <2>4, <2>5, <2>6, <2>7 DEF handle
<1> QED
  BY <1>1, <1>2 DEF ServerNext

(* A process that has died stays dead, and a fault stays noted. *)
LEMMA CalmBefore ==
  ASSUME TypeOK, [Next]_vars, Calm'
  PROVE  Calm
<1>1. CASE UNCHANGED serverVars
  BY <1>1 DEF Calm, serverVars
<1>2. CASE ServerNext
  <2> DEFINE Kept == up /\ (fault' = fault \/ fault' = Noting("undefined") \/ fault' = Noting("stray")
                      \/ fault' = Noting("alias"))
  <2>1. ASSUME NEW p \in Pages, Accept(p) PROVE Kept
    BY <2>1 DEF Accept
  <2>2. ASSUME NEW fd \in Fds, PeerGone(fd) \/ Handshake(fd) PROVE Kept
    BY <2>2 DEF PeerGone, Handshake
  <2>3. ASSUME NEW fd \in Fds, create_match(fd) PROVE Kept
    BY <2>3 DEF create_match, Receive
  <2>4. ASSUME NEW fd \in Fds, NEW id \in Slots, join_match(fd, id) PROVE Kept
    <3>1. up /\ (fault' = fault \/ \E t : StrayFault(t))
      BY <2>4 DEF join_match, Receive
    <3> QED
      BY <3>1 DEF StrayFault
  <2>5. ASSUME NEW fd \in Fds, NEW m, move(fd, m) PROVE Kept
    <3>1. up /\ \E t : PtrFault(client[fd], t)
      BY <2>5 DEF move, Receive
    <3> QED
      BY <3>1 DEF PtrFault
  <2>6. ASSUME NEW fd \in Fds, close_frame(fd) PROVE Kept
    <3>1. up /\ \E t : PtrFault(client[fd], t)
      BY <2>6 DEF close_frame, Receive
    <3> QED
      BY <3>1 DEF PtrFault
  <2>7. ASSUME NEW fd \in Fds, undefined_behaviour(fd) PROVE Kept
    BY <2>7 DEF undefined_behaviour
  <2> HIDE DEF Kept
  <2>8. Kept
    BY <1>2, <2>1, <2>2, <2>3, <2>4, <2>5, <2>6, <2>7 DEF ServerNext, handle
  <2> QED
    BY <2>8 DEF Kept, Calm, Noting
<1> QED
  BY <1>1, <1>2 DEF Next, vars

LEMMA NextGInv == IInv /\ GInv /\ [Next]_vars => GInv'
<1> SUFFICES ASSUME IInv, GInv, [Next]_vars, Calm' PROVE Wired' /\ Orderly'
  BY DEF GInv
<1>1. TypeOK /\ RegistryInOrder /\ Calm /\ Wired /\ Orderly
  <2>1. Calm
    BY CalmBefore DEF IInv
  <2> QED
    BY <2>1, CalmRegistry DEF Calm, GInv
<1>2. CASE PageNext /\ UNCHANGED serverVars
  BY <1>1, <1>2, PageKeeps
<1>3. CASE ServerNext /\ UNCHANGED pageVars
  BY <1>1, <1>3, ServerKeeps DEF Calm
<1>4. CASE UNCHANGED vars
  <2>1. UNCHANGED <<link, c2s, s2c, page, client, heap, match_id, outcome>>
    BY <1>4 DEF vars, netVars, pageVars, serverVars
  <2>2. Attached' /\ Blanks' /\ Greeting' /\ Rests' /\ FreshIds'
    BY <1>1, <2>1 DEF Wired, Attached, Blanks, Greeting, Greets, Rests, FreshIds, IsOpen
  <2>3. Pointers'
    BY <1>1, <2>1 DEF Wired, Pointers, PointerOK, Seat, IsOpen, Owns, Live
  <2>4. Orderly'
    <3>1. ASSUME NEW b \in Addrs, Live(b)' PROVE MatchOK(b)'
      <4>1. Live(b) /\ MatchOK(b)
        BY <1>1, <2>1, <3>1 DEF Live, Orderly
      <4>2. \A g \in Fds : IsOpen(g)' =>
              IsOpen(g) /\ client'[g] = client[g] /\ SameAt(client[g].page)
        BY <2>1 DEF IsOpen, SameAt
      <4> QED
        BY <2>1, <4>1, <4>2, MatchKeeps
    <3> QED
      BY <3>1 DEF Orderly
  <2> QED
    BY <2>2, <2>3, <2>4 DEF Wired
<1> QED
  BY <1>2, <1>3, <1>4 DEF Next

LEMMA InitGInv == Init => GInv
<1> SUFFICES ASSUME Init PROVE Wired /\ Orderly
  BY DEF GInv
<1>1. /\ \A p \in Pages : link[p] = "none" /\ c2s[p] = <<>> /\ s2c[p] = <<>> /\ page[p] = FreshPage
      /\ \A fd \in Fds : ~IsOpen(fd)
      /\ \A a \in Addrs : ~Live(a)
      /\ match_id = 0 /\ \A i \in MatchIds : outcome[i] = ""
  BY DEF Init, SocketsInit, PageInit, ServerInit, IsOpen, Live
<1>2. 0 <= MaxMatches
  BY ServerAssumption
<1>3. Attached /\ Blanks /\ Greeting /\ Pointers /\ FreshIds /\ Orderly
  BY <1>1, <1>2 DEF Attached, Blanks, Greeting, Pointers, FreshIds, Orderly
<1>4. Rests
  BY <1>1, EmptyQueue DEF Rests
<1> QED
  BY <1>3, <1>4 DEF Wired
-----------------------------------------------------------------------------
(***************************************************************************)
(* The inductive invariant: the types and the table of TicTacToe_proofs, the*)
(* matches in order while no fault has happened, and the *)
(* descriptors of a process that has died.                                 *)
(***************************************************************************)
(* The process that has died holds no connection. *)
Gone == ~up => \A fd \in Fds : ~IsOpen(fd)

LEMMA NextGone ==
  ASSUME Gone, [Next]_vars
  PROVE  Gone'
<1>1. CASE UNCHANGED serverVars
  BY <1>1 DEF Gone, IsOpen, serverVars
<1>2. CASE ServerNext
  <2>1. ASSUME NEW p \in Pages, Accept(p) PROVE Gone'
    BY <2>1 DEF Accept, Gone
  <2>2. ASSUME NEW fd \in Fds, handle(fd) PROVE Gone'
    <3>1. up
      BY <2>2 DEF handle, PeerGone, Handshake, create_match, join_match, move, close_frame,
                  undefined_behaviour, Receive
    <3>2. up' = up \/ \E t : Die(t)
      <4>1. CASE PeerGone(fd) \/ Handshake(fd) \/ create_match(fd) \/ undefined_behaviour(fd)
        BY <4>1 DEF PeerGone, Handshake, create_match, undefined_behaviour, stale_match
      <4>2. CASE \E id \in Slots : join_match(fd, id)
        BY <4>2 DEF join_match, KilledBySIGPIPE
      <4>3. CASE \E m : move(fd, m)
        BY <4>3 DEF move, KilledBySIGPIPE
      <4>4. CASE close_frame(fd)
        BY <4>4 DEF close_frame, KilledBySIGPIPE
      <4> QED
        BY <2>2, <4>1, <4>2, <4>3, <4>4 DEF handle
    <3>3. ASSUME NEW t, Die(t) PROVE Gone'
      BY <3>3 DEF Die, Gone, IsOpen
    <3> QED
      BY <3>1, <3>2, <3>3 DEF Gone
  <2> QED
    BY <1>2, <2>1, <2>2 DEF ServerNext
<1> QED
  BY <1>1, <1>2 DEF Next, vars

LEMMA InitGone == Init => Gone
BY DEF Init, ServerInit, Gone
-----------------------------------------------------------------------------
(***************************************************************************)
(* What the invariant says of a match in play.                             *)
(***************************************************************************)
Playing(a, s, p, q) ==
  /\ p \in Pages /\ q \in Pages /\ p # q /\ p = PageAt(a, s) /\ q = PageAt(a, Other(s))
  /\ link[p] = "up" /\ link[q] = "up" /\ heap[a] \in MatchStates
  /\ ~Resting(page[p], c2s[p], s2c[p])
  /\ Engaged(page[p], c2s[p], s2c[p], "up", heap[a], s, TRUE)
  /\ Agrees(page[p], c2s[p], s2c[p], "up", heap[a], s)
  /\ Token(page[p], c2s[p], s2c[p], s) \/ Token(page[q], c2s[q], s2c[q], Other(s))

LEMMA InPlayFacts ==
  ASSUME IInv, GInv, Gone, fault = "none", NEW a \in Addrs, InPlay(a), NEW s \in Marks
  PROVE  /\ Playing(a, s, PageAt(a, s), PageAt(a, Other(s)))
         /\ PageX(a) = PageAt(a, "X") /\ PageO(a) = PageAt(a, "O")
<1>1. Present(heap[a].playerX, a, "X") /\ Present(heap[a].playerO, a, "O") /\ Live(a)
  BY DEF InPlay
<1>2. Calm /\ Wired /\ Orderly /\ TypeOK /\ Attached
  <2>1. up
    BY <1>1 DEF Present, IsOpen, Gone
  <2> QED
    BY <2>1 DEF Calm, GInv, Wired, IInv
<1>3. PageX(a) = PageAt(a, "X") /\ PageO(a) = PageAt(a, "O")
  BY DEF PageX, PageO, PageAt, Seat
<1>4. \A r \in Marks : Held(a, r) /\ link[PageAt(a, r)] = "up" /\ Talks(a, r)
  BY <1>1, <1>3 DEF Present, Held, Seat, PageX, PageO, Marks, Talks
<1>5. MatchOK(a) /\ heap[a] \in MatchStates
  BY <1>1, <1>2, MatchType DEF Orderly
<1>6. heap[a].players = 2
  <2>1. heap[a].playerO # NoFd
    BY <1>1, ServerAssumption DEF Present, IsOpen, NoFd
  <2>2. heap[a].players # 1
    BY <1>5, <2>1 DEF MatchOK, RecordOK
  <2> QED
    BY <1>5, <2>2 DEF MatchStates
<1>7. Both(a)
  BY <1>4, <1>6 DEF Both, Marks
<1>8. /\ Other(s) \in Marks /\ Other(Other(s)) = s
      /\ (s = "X" /\ Other(s) = "O") \/ (s = "O" /\ Other(s) = "X")
  BY DEF Other, Marks
<1>9. PICK p \in Pages, q \in Pages : p = PageAt(a, s) /\ q = PageAt(a, Other(s)) /\ p # q
  BY <1>2, <1>4, <1>8, HeldPage, SeatsApart
<1>10. /\ EngagedAt(a, s, p) /\ AgreesAt(a, s, p)
       /\ TokenAt(s, p) \/ TokenAt(Other(s), q)
  <2>1. \A r \in Marks : EngagedAt(a, r, PageAt(a, r)) /\ AgreesAt(a, r, PageAt(a, r))
    BY <1>4, <1>5, <1>7 DEF MatchOK
  <2>2. \E r \in Marks : TokenAt(r, PageAt(a, r))
    BY <1>4, <1>5, <1>7 DEF MatchOK
  <2>3. \A r \in Marks : r = s \/ r = Other(s)
    BY <1>8 DEF Marks
  <2> QED
    BY <1>9, <2>1, <2>2, <2>3
<1>11. link[p] = "up" /\ link[q] = "up" /\ Talks(a, Other(s)) = TRUE
  BY <1>4, <1>8, <1>9 DEF Talks
<1>12. Engaged(page[p], c2s[p], s2c[p], "up", heap[a], s, TRUE)
  BY <1>10, <1>11 DEF EngagedAt
<1>13. ~Resting(page[p], c2s[p], s2c[p])
  BY <1>12 DEF Engaged
<1>14. /\ Agrees(page[p], c2s[p], s2c[p], "up", heap[a], s)
       /\ Token(page[p], c2s[p], s2c[p], s) \/ Token(page[q], c2s[q], s2c[q], Other(s))
  BY <1>10, <1>11 DEF AgreesAt, TokenAt
<1>15. Playing(a, s, p, q)
  BY <1>5, <1>9, <1>11, <1>12, <1>13, <1>14 DEF Playing
<1> QED
  BY <1>3, <1>9, <1>15
-----------------------------------------------------------------------------
(* The board after the moves of a queue that holds none, or one. *)
LEMMA AfterNone ==
  ASSUME NEW board \in Boards, NEW q, ~Has(q, {"MOVE"})
  PROVE  AfterMoves(board, q) = board
<1>1. Positions(q, "MOVE") = {}
  BY DEF Has, Queued, Positions
<1>2. \A c \in Cells : {q[k].player : k \in {j \in Positions(q, "MOVE") : q[j].message = c}} = {}
  BY <1>1
<1>3. AfterMoves(board, q) = [c \in Cells |-> board[c]]
  BY <1>2 DEF AfterMoves
<1> QED
  BY <1>3 DEF Boards

LEMMA AfterOne ==
  ASSUME NEW board \in Boards, NEW q, NEW f \in Queued(q), f.code = "MOVE", f.message \in Cells,
         \A g \in Queued(q) : g.code = "MOVE" => g = f
  PROVE  AfterMoves(board, q) = [board EXCEPT ![f.message] = f.player]
<1>1. PICK n \in DOMAIN q : q[n] = f
  BY DEF Queued
<1>2. n \in Positions(q, "MOVE") /\ \A k \in Positions(q, "MOVE") : q[k] = f
  BY <1>1 DEF Positions, Queued
<1> DEFINE marks(c) == {q[k].player : k \in {j \in Positions(q, "MOVE") : q[j].message = c}}
<1>3. marks(f.message) = {f.player}
  BY <1>1, <1>2
<1>4. \A c \in Cells : c # f.message => marks(c) = {}
  BY <1>2
<1>5. AfterMoves(board, q) =
        [c \in Cells |-> IF marks(c) = {} THEN board[c] ELSE CHOOSE m \in marks(c) : TRUE]
  BY DEF AfterMoves
<1> HIDE DEF marks
<1>6. \A c \in Cells : (IF marks(c) = {} THEN board[c] ELSE CHOOSE m \in marks(c) : TRUE)
                         = [board EXCEPT ![f.message] = f.player][c]
  <2> SUFFICES ASSUME NEW c \in Cells
               PROVE  (IF marks(c) = {} THEN board[c] ELSE CHOOSE m \in marks(c) : TRUE)
                        = [board EXCEPT ![f.message] = f.player][c]
    OBVIOUS
  <2>1. CASE c = f.message
    <3>1. marks(c) = {f.player} /\ marks(c) # {}
      BY <1>3, <2>1
    <3>2. (CHOOSE m \in {f.player} : TRUE) = f.player
      OBVIOUS
    <3> QED
      BY <2>1, <3>1, <3>2 DEF Boards
  <2>2. CASE c # f.message
    BY <1>4, <2>2 DEF Boards
  <2> QED
    BY <2>1, <2>2
<1> QED
  BY <1>5, <1>6 DEF Boards

(* A page and the server, given the moves between them. *)
LEMMA PlayingAgrees ==
  ASSUME TypeOK, NEW a, NEW s \in Marks, NEW p, NEW q, Playing(a, s, p, q)
  PROVE  AfterMoves(page[p].view, s2c[p]) = AfterMoves(heap[a].board, c2s[p])
<1>1. PICK pg \in PageStates, cq \in Seq(PageFrames), sq \in Seq(ServerFrames), h \in MatchStates :
        pg = page[p] /\ cq = c2s[p] /\ sq = s2c[p] /\ h = heap[a]
  BY PageQueues DEF Playing
<1>2. /\ Engaged(pg, cq, sq, "up", h, s, TRUE) /\ Agrees(pg, cq, sq, "up", h, s)
      /\ pg.view \in Boards /\ h.board \in Boards
  BY <1>1 DEF Playing, PageStates, MatchStates
<1>3. CASE ~Has(cq, {"MOVE"}) /\ ~Has(sq, {"MOVE"})
  <2>1. pg.view = h.board
    BY <1>2, <1>3 DEF Agrees
  <2> QED
    BY <1>1, <1>2, <1>3, <2>1, AfterNone
<1>4. CASE Has(cq, {"MOVE"})
  <2>1. PICK f \in Queued(cq) : f.code = "MOVE"
    BY <1>4 DEF Has
  <2>2. /\ f.player = s /\ pg.view = [h.board EXCEPT ![f.message] = s] /\ sq = <<>>
    BY <1>2, <1>4, <2>1 DEF Engaged, Agrees
  <2>3. f \in PageFrames /\ f.message \in Cells
    <3>1. f \in PageFrames
      BY <2>1, ElementOfSeq, LenProperties DEF Queued
    <3> QED
      BY <2>1, <3>1 DEF PageFrames
  <2>4. \A g \in Queued(cq) : g.code = "MOVE" => g = f
    BY <1>2, <2>1 DEF Engaged, MovesOnce, Queued
  <2>5. AfterMoves(h.board, cq) = [h.board EXCEPT ![f.message] = f.player]
    BY <1>2, <2>1, <2>3, <2>4, AfterOne
  <2>6. AfterMoves(pg.view, sq) = pg.view
    BY <1>2, <2>2, EmptyQueue, AfterNone
  <2> QED
    BY <1>1, <2>2, <2>5, <2>6
<1>5. CASE Has(sq, {"MOVE"})
  <2>1. PICK f \in Queued(sq) : f.code = "MOVE"
    BY <1>5 DEF Has
  <2>2. f.player = Other(s) /\ h.board = [pg.view EXCEPT ![f.message] = Other(s)]
    BY <1>2, <2>1 DEF Agrees
  <2>3. f \in ServerFrames /\ f.message \in Cells
    <3>1. f \in ServerFrames
      BY <2>1, ElementOfSeq, LenProperties DEF Queued
    <3> QED
      BY <2>1, <3>1 DEF ServerFrames
  <2>4. \A g \in Queued(sq) : g.code = "MOVE" => g = f
    BY <1>2, <2>1 DEF Engaged, OnlyLast, Queued, Starts, Plays
  <2>5. AfterMoves(pg.view, sq) = [pg.view EXCEPT ![f.message] = f.player]
    BY <1>2, <2>1, <2>3, <2>4, AfterOne
  <2>6. ~Has(cq, {"MOVE"})
    BY <1>2, <1>5, EmptyQueue DEF Engaged
  <2>7. AfterMoves(h.board, cq) = h.board
    BY <1>2, <2>6, AfterNone
  <2> QED
    BY <1>1, <2>2, <2>5, <2>7
<1> QED
  BY <1>3, <1>4, <1>5

LEMMA ViewsFollow ==
  ASSUME IInv, GInv, Gone
  PROVE  ViewsAgree
<1> SUFFICES ASSUME fault = "none", NEW a \in Addrs, InPlay(a), NEW p \in {PageX(a), PageO(a)}
             PROVE  AfterMoves(page[p].view, s2c[p]) = AfterMoves(heap[a].board, c2s[p])
  BY DEF ViewsAgree
<1>1. PICK x \in Marks, o \in Marks : x = "X" /\ o = "O"
  BY DEF Marks
<1>2. PICK s \in Marks : p = PageAt(a, s)
  <2>1. PageX(a) = PageAt(a, x) /\ PageO(a) = PageAt(a, o)
    BY <1>1, InPlayFacts
  <2> QED
    BY <1>1, <2>1
<1>3. Playing(a, s, p, PageAt(a, Other(s))) /\ TypeOK
  BY <1>2, InPlayFacts DEF IInv
<1> QED
  BY <1>3, PlayingAgrees
-----------------------------------------------------------------------------
(* A page and the server agree on who the page is, in a match in play. *)
LEMMA SeatsFollow ==
  ASSUME IInv, GInv, Gone
  PROVE  SeatsAgree
<1> DEFINE told(p) == {k \in DOMAIN s2c[p] : s2c[p][k].code \in {"MATCH_CREATED", "MATCH_JOINED"}}
           mids(p) == IF told(p) = {} THEN {page[p].mid} ELSE {s2c[p][k].mid : k \in told(p)}
<1>1. ASSUME fault = "none", NEW a \in Addrs, InPlay(a), NEW s \in Marks
      PROVE  /\ PageAt(a, s) # PageAt(a, Other(s)) /\ page[PageAt(a, s)].player = s
             /\ {heap[a].matchID} = mids(PageAt(a, s))
  <2>1. PICK p, q : p = PageAt(a, s) /\ q = PageAt(a, Other(s))
    OBVIOUS
  <2>2. Playing(a, s, p, q)
    BY <1>1, <2>1, InPlayFacts
  <2>3. Engaged(page[p], c2s[p], s2c[p], "up", heap[a], s, TRUE) /\ ~Resting(page[p], c2s[p], s2c[p])
    BY <2>2 DEF Playing
  <2>4. /\ page[p].player = s
        /\ \A f \in Queued(s2c[p]) : f.code \in Tells => f.mid = heap[a].matchID
        /\ Has(s2c[p], Tells) \/ page[p].mid = heap[a].matchID
    BY <2>3 DEF Engaged
  <2>5. told(p) = {k \in DOMAIN s2c[p] : s2c[p][k].code \in Tells}
    BY DEF Tells
  <2>6. \A k \in told(p) : s2c[p][k].mid = heap[a].matchID
    BY <2>4, <2>5 DEF Queued
  <2>7. told(p) = {} => page[p].mid = heap[a].matchID
    BY <2>4, <2>5 DEF Has, Queued
  <2>8. {heap[a].matchID} = mids(p)
    <3> HIDE DEF told
    <3> QED
      BY <2>6, <2>7
  <2> QED
    BY <2>1, <2>2, <2>4, <2>8 DEF Playing
<1> HIDE DEF mids, told
<1> SUFFICES ASSUME fault = "none", NEW a \in Addrs, InPlay(a)
             PROVE  /\ PageX(a) # PageO(a)
                    /\ page[PageX(a)].player = "X" /\ page[PageO(a)].player = "O"
                    /\ \A p \in {PageX(a), PageO(a)} : {heap[a].matchID} = mids(p)
  BY DEF SeatsAgree, mids, told
<1>2. PICK x \in Marks, o \in Marks : x = "X" /\ o = "O" /\ Other(x) = o
  BY DEF Marks, Other
<1>3. PageX(a) = PageAt(a, x) /\ PageO(a) = PageAt(a, o)
  BY <1>2, InPlayFacts
<1> QED
  BY <1>1, <1>2, <1>3
-----------------------------------------------------------------------------
(* The turns of one page of a match: the one in seat X may owe its first   *)
(* move to INIT_BOARD.                                                     *)
Cell(p) == {<<"cells", r>> : r \in {r \in {p} : page[r].turn}}
Sends(p) == {<<"sent", p, k>> : k \in Positions(c2s[p], "MOVE")}
Relays(p) == {<<"relayed", p, k>> : k \in Positions(s2c[p], "MOVE")}
First(p) == {<<"init", k>> : k \in Positions(s2c[p], "INIT_BOARD")}
TurnsOf(p, s) == Cell(p) \cup Sends(p) \cup Relays(p) \cup (IF s = "X" THEN First(p) ELSE {})

LEMMA TurnsApart ==
  ASSUME NEW a
  PROVE  Turns(a) = TurnsOf(PageX(a), "X") \cup TurnsOf(PageO(a), "O")
<1> DEFINE C == {<<"cells", p>> : p \in {q \in {PageX(a), PageO(a)} : page[q].turn}}
           S == UNION {{<<"sent", p, k>> : k \in Positions(c2s[p], "MOVE")} : p \in {PageX(a), PageO(a)}}
           R == UNION {{<<"relayed", p, k>> : k \in Positions(s2c[p], "MOVE")} : p \in {PageX(a), PageO(a)}}
<1>1. C = Cell(PageX(a)) \cup Cell(PageO(a))
  BY DEF Cell
<1>2. S = Sends(PageX(a)) \cup Sends(PageO(a))
  BY DEF Sends
<1>3. R = Relays(PageX(a)) \cup Relays(PageO(a))
  BY DEF Relays
<1>4. Turns(a) = C \cup S \cup R \cup First(PageX(a))
  BY DEF Turns, First
<1> HIDE DEF C, S, R
<1> QED
  BY <1>1, <1>2, <1>3, <1>4 DEF TurnsOf

LEMMA PositionsNone ==
  ASSUME NEW q, NEW codes, NEW code \in codes, ~Has(q, codes)
  PROVE  Positions(q, code) = {}
BY DEF Has, Queued, Positions

LEMMA NoTurnLeft ==
  ASSUME NEW p, NEW s \in Marks, ~Token(page[p], c2s[p], s2c[p], s)
  PROVE  TurnsOf(p, s) = {}
<1>1. ~page[p].turn /\ ~Has(c2s[p], {"MOVE"}) /\ ~Has(s2c[p], Starts(s))
  BY DEF Token
<1>2. Cell(p) = {}
  BY <1>1 DEF Cell
<1>3. Sends(p) = {}
  BY <1>1, PositionsNone DEF Sends
<1>4. Relays(p) = {} /\ (s = "X" => First(p) = {})
  <2>1. "MOVE" \in Starts(s) /\ (s = "X" => "INIT_BOARD" \in Starts(s))
    BY DEF Starts, Plays
  <2>2. Positions(s2c[p], "MOVE") = {} /\ (s = "X" => Positions(s2c[p], "INIT_BOARD") = {})
    BY <1>1, <2>1, PositionsNone
  <2> QED
    BY <2>2 DEF Relays, First
<1> QED
  BY <1>2, <1>3, <1>4 DEF TurnsOf

LEMMA TheTurn ==
  ASSUME NEW p, NEW s \in Marks, c2s[p] \in Seq(PageFrames), s2c[p] \in Seq(ServerFrames),
         NEW m, Engaged(page[p], c2s[p], s2c[p], "up", m, s, TRUE), Token(page[p], c2s[p], s2c[p], s)
  PROVE  \E t : TurnsOf(p, s) = {t}
<1>1. /\ MovesOnce(c2s[p]) /\ OnlyLast(s2c[p], Starts(s))
      /\ page[p].turn \/ Has(c2s[p], {"MOVE"}) => s2c[p] = <<>>
      /\ page[p].turn => ~Has(c2s[p], {"MOVE"})
  BY DEF Engaged
<1>2. Starts(s) = {"MOVE"} \cup (IF s = "X" THEN {"INIT_BOARD"} ELSE {})
  BY DEF Starts, Plays
<1>3. CASE page[p].turn
  <2>1. Cell(p) = {<<"cells", p>>}
    BY <1>3 DEF Cell
  <2>2. Sends(p) = {}
    BY <1>1, <1>3, PositionsNone DEF Sends
  <2>3. Relays(p) = {} /\ First(p) = {}
    BY <1>1, <1>3 DEF Relays, First, Positions
  <2> QED
    BY <2>1, <2>2, <2>3 DEF TurnsOf
<1>4. CASE ~page[p].turn /\ Has(c2s[p], {"MOVE"})
  <2>1. Cell(p) = {}
    BY <1>4 DEF Cell
  <2>2. PICK n : Positions(c2s[p], "MOVE") = {n}
    BY <1>1, <1>4 DEF Has, Queued, Positions, MovesOnce
  <2>3. Sends(p) = {<<"sent", p, n>>}
    BY <2>2 DEF Sends
  <2>4. Relays(p) = {} /\ First(p) = {}
    BY <1>1, <1>4 DEF Relays, First, Positions
  <2> QED
    BY <2>1, <2>3, <2>4 DEF TurnsOf
<1>5. CASE ~page[p].turn /\ ~Has(c2s[p], {"MOVE"}) /\ Has(s2c[p], Starts(s))
  <2>1. Cell(p) = {}
    BY <1>5 DEF Cell
  <2>2. Sends(p) = {}
    BY <1>5, PositionsNone DEF Sends
  <2>3. PICK n \in DOMAIN s2c[p] : s2c[p][n].code \in Starts(s)
    BY <1>5 DEF Has, Queued
  <2>4. \A k \in DOMAIN s2c[p] : s2c[p][k].code \in Starts(s) => k = n
    BY <1>1, <2>3 DEF OnlyLast
  <2>5. CASE s2c[p][n].code = "MOVE"
    <3>1. Positions(s2c[p], "MOVE") = {n} /\ (s = "X" => Positions(s2c[p], "INIT_BOARD") = {})
      BY <1>2, <2>3, <2>4, <2>5 DEF Positions
    <3>2. Relays(p) = {<<"relayed", p, n>>} /\ (s = "X" => First(p) = {})
      BY <3>1 DEF Relays, First
    <3> QED
      BY <2>1, <2>2, <3>2 DEF TurnsOf
  <2>6. CASE s = "X" /\ s2c[p][n].code = "INIT_BOARD"
    <3>1. Positions(s2c[p], "MOVE") = {} /\ Positions(s2c[p], "INIT_BOARD") = {n}
      BY <1>2, <2>3, <2>4, <2>6 DEF Positions
    <3>2. Relays(p) = {} /\ First(p) = {<<"init", n>>}
      BY <3>1 DEF Relays, First
    <3> QED
      BY <2>1, <2>2, <2>6, <3>2 DEF TurnsOf
  <2> QED
    BY <1>2, <2>3, <2>5, <2>6
<1> QED
  BY <1>3, <1>4, <1>5 DEF Token

(* Somebody has the turn, and only the player whose mark is to move has. *)
LEMMA TurnFollows ==
  ASSUME IInv, GInv, Gone
  PROVE  OneTurn
<1> SUFFICES ASSUME fault = "none", NEW a \in Addrs, InPlay(a)
             PROVE  Cardinality(Turns(a)) = 1
  BY DEF OneTurn
<1>1. PICK x \in Marks, o \in Marks : x = "X" /\ o = "O" /\ Other(x) = o /\ Other(o) = x
  BY DEF Marks, Other
<1>2. PICK p, q : p = PageAt(a, x) /\ q = PageAt(a, o)
  OBVIOUS
<1>3. Playing(a, x, p, q) /\ Playing(a, o, q, p) /\ PageX(a) = p /\ PageO(a) = q
  BY <1>1, <1>2, InPlayFacts
<1>4. /\ c2s[p] \in Seq(PageFrames) /\ s2c[p] \in Seq(ServerFrames)
      /\ c2s[q] \in Seq(PageFrames) /\ s2c[q] \in Seq(ServerFrames)
  BY <1>3, PageQueues DEF Playing, IInv
<1>5. /\ Engaged(page[p], c2s[p], s2c[p], "up", heap[a], x, TRUE)
      /\ Engaged(page[q], c2s[q], s2c[q], "up", heap[a], o, TRUE)
      /\ Token(page[p], c2s[p], s2c[p], x) => ToMove(heap[a].board) = x
      /\ Token(page[q], c2s[q], s2c[q], o) => ToMove(heap[a].board) = o
      /\ Token(page[p], c2s[p], s2c[p], x) \/ Token(page[q], c2s[q], s2c[q], o)
  BY <1>1, <1>3 DEF Playing, Agrees
<1>6. Turns(a) = TurnsOf(p, x) \cup TurnsOf(q, o)
  BY <1>1, <1>3, TurnsApart
<1>7. \E t : Turns(a) = {t}
  <2>1. CASE Token(page[p], c2s[p], s2c[p], x)
    <3>1. TurnsOf(q, o) = {}
      BY <1>1, <1>5, <2>1, NoTurnLeft
    <3>2. \E t : TurnsOf(p, x) = {t}
      BY <1>4, <1>5, <2>1, TheTurn
    <3> QED
      BY <1>6, <3>1, <3>2
  <2>2. CASE ~Token(page[p], c2s[p], s2c[p], x)
    <3>1. TurnsOf(p, x) = {}
      BY <2>2, NoTurnLeft
    <3>2. \E t : TurnsOf(q, o) = {t}
      BY <1>4, <1>5, <2>2, TheTurn
    <3> QED
      BY <1>6, <3>1, <3>2
  <2> QED
    BY <2>1, <2>2
<1> QED
  BY <1>7, FS_Singleton
-----------------------------------------------------------------------------
(***************************************************************************)
(* The properties that follow.                                             *)
(***************************************************************************)
(* Every step of the game keeps its matches in good order. *)
THEOREM MatchesInOrder == Spec => [](IInv /\ GInv /\ Gone)
<1>1. Init => IInv /\ GInv /\ Gone
  BY InitIInv, InitGInv, InitGone
<1>2. IInv /\ GInv /\ Gone /\ [Next]_vars => (IInv /\ GInv /\ Gone)'
  BY NextIInv, NextGInv, NextGone
<1> QED
  BY <1>1, <1>2, PTL DEF Spec

(* In every match in play exactly one turn exists (scripts.js 50-66,       *)
(* 106-122, 184-200; server.c 417-424): never two pages with enabled cells *)
(* or moves under way, never none.                                         *)
THEOREM TurnIsUnique == Spec => []OneTurn
<1>1. IInv /\ GInv /\ Gone => OneTurn
  BY TurnFollows
<1> QED
  BY <1>1, MatchesInOrder, PTL

(* The server's board and the two pages' cells differ by the moves under   *)
(* way and nothing else (scripts.js 110, 186; server.c 428-433).           *)
THEOREM ViewsMatch == Spec => []ViewsAgree
<1>1. IInv /\ GInv /\ Gone => ViewsAgree
  BY ViewsFollow
<1> QED
  BY <1>1, MatchesInOrder, PTL

(* The page in the seat of X is X, the one in the seat of O is O, they are *)
(* two, and both know, or are about to be told, the id of their match.     *)
THEOREM SeatsMatch == Spec => []SeatsAgree
<1>1. IInv /\ GInv /\ Gone => SeatsAgree
  BY SeatsFollow
<1> QED
  BY <1>1, MatchesInOrder, PTL
-----------------------------------------------------------------------------
(***************************************************************************)
(* Every match is a Game.                                                  *)
(***************************************************************************)
(* The winner evaluate_board returns has a complete line, and it returns   *)
(* one whenever there is a complete line.                                  *)
LEMMA WinnerHasLine ==
  ASSUME NEW board, CompleteLines(board) # {}
  PROVE  /\ evaluate_board(board) \in Marks
         /\ \E k \in CompleteLines(board) : \A c \in Lines[k] : board[c] = evaluate_board(board)
<1> DEFINE first == CHOOSE k \in CompleteLines(board) :
                      \A other \in CompleteLines(board) : k <= other
<1>1. CompleteLines(board) \in SUBSET Nat
  <2>1. Lines \in Seq(SUBSET Cells)
    BY BoardAssumption
  <2>2. DOMAIN Lines = 1 .. Len(Lines) /\ Len(Lines) \in Nat
    BY <2>1, LenProperties
  <2> QED
    BY <2>2 DEF CompleteLines
<1>2. first \in CompleteLines(board)
  BY <1>1, LeastElement
<1>3. \E m \in Marks : \A c \in Lines[first] : board[c] = m
  BY <1>2 DEF CompleteLines, Complete
<1>4. evaluate_board(board) = CHOOSE m \in Marks : \A c \in Lines[first] : board[c] = m
  BY DEF evaluate_board
<1> HIDE DEF first
<1> QED
  BY <1>2, <1>3, <1>4

LEMMA LineHasWinner ==
  ASSUME NEW board, evaluate_board(board) = NoWinner
  PROVE  CompleteLines(board) = {}
<1>1. NoWinner \notin Marks
  BY DEF NoWinner, Marks
<1> QED
  BY <1>1, WinnerHasLine

(* A board with a move to come has a blank square. *)
LEMMA BlankLeft ==
  ASSUME NEW board \in Boards, Count(board, "X") + Count(board, "O") # Cardinality(Cells)
  PROVE  \E c \in Cells : board[c] = Blank
<1> SUFFICES ASSUME \A c \in Cells : board[c] # Blank
             PROVE  Count(board, "X") + Count(board, "O") = Cardinality(Cells)
  OBVIOUS
<1> DEFINE S(m) == {c \in Cells : board[c] = m}
<1>1. IsFiniteSet(S("X")) /\ IsFiniteSet(S("O")) /\ S("X") \cup S("O") = Cells /\ S("X") \cap S("O") = {}
  <2>1. IsFiniteSet(S("X")) /\ IsFiniteSet(S("O"))
    BY BoardAssumption, FS_Subset
  <2>2. \A c \in Cells : board[c] = "X" \/ board[c] = "O"
    BY DEF Boards, Marks
  <2> QED
    BY <2>1, <2>2
<1>2. Count(board, "X") = Cardinality(S("X")) /\ Count(board, "O") = Cardinality(S("O"))
  BY DEF Count
<1> HIDE DEF S
<1>3. Cardinality(S("X") \cup S("O")) = Cardinality(S("X")) + Cardinality(S("O")) - Cardinality(S("X") \cap S("O"))
  BY <1>1, FS_Union
<1>4. Cardinality({}) = 0
  BY FS_EmptySet
<1>5. Cardinality(S("X")) \in Nat /\ Cardinality(S("O")) \in Nat
  BY <1>1, FS_CardinalityType
<1> QED
  BY <1>1, <1>2, <1>3, <1>4, <1>5
-----------------------------------------------------------------------------
(***************************************************************************)
(* The refinement of Game: what the state of match i is for its Game.      *)
(***************************************************************************)
BoardOf(i) == IF PhaseOf(i) = "playing" THEN heap[matches[i]].board ELSE EmptyBoard
ResultOf(i) == IF PhaseOf(i) = "undefined" THEN "" ELSE outcome[i]
GameStep(i) == [Match(i)!GameNext]_(Match(i)!gameVars)

(* The boards of a Game are the boards of the server. *)
LEMMA GameBoards ==
  ASSUME NEW i
  PROVE  /\ Match(i)!EmptyBoard = EmptyBoard /\ Match(i)!Blank = Blank
         /\ \A b : /\ Match(i)!ToMove(b) = ToMove(b)
                   /\ \A m : Match(i)!Count(b, m) = Count(b, m)
                   /\ \A k : Match(i)!Decided(b, k) <=> Decided(b, k)
                   /\ Match(i)!CompleteLines(b) = CompleteLines(b)
                   /\ Match(i)!Outcome(b) = Verdict(b)
<1>1. Match(i)!EmptyBoard = EmptyBoard /\ Match(i)!Blank = Blank
  BY DEF Match!EmptyBoard, EmptyBoard, Match!Blank, Blank
<1>2. \A b, m : Match(i)!Count(b, m) = Count(b, m)
  <2>1. \A S : Match(i)!Cardinality(S) = Cardinality(S)
    BY Zenon DEF Match!Cardinality, Cardinality
  <2> QED
    BY <2>1 DEF Match!Count, Count
<1>3. \A b : Match(i)!ToMove(b) = ToMove(b)
  BY <1>2 DEF Match!ToMove, ToMove
<1>4. Match(i)!Marks = Marks
  BY DEF Match!Marks, Marks
<1>5. \A b : Match(i)!CompleteLines(b) = CompleteLines(b)
  BY <1>4 DEF Match!CompleteLines, CompleteLines, Match!Complete, Complete
<1>6. \A b : Match(i)!evaluate_board(b) = evaluate_board(b)
  BY Zenon DEF Match!evaluate_board, evaluate_board, Match!NoWinner, NoWinner, Match!Marks, Marks,
               Match!CompleteLines, CompleteLines, Match!Complete, Complete
<1>7. \A b : Match(i)!Outcome(b) = Verdict(b)
  BY <1>6 DEF Match!Outcome, Verdict, Match!NoWinner, NoWinner
<1>8. \A b, k : Match(i)!Decided(b, k) <=> Decided(b, k)
  <2>1. \A S : Match(i)!Cardinality(S) = Cardinality(S)
    BY Zenon DEF Match!Cardinality, Cardinality
  <2> QED
    BY <1>6, <2>1 DEF Match!Decided, Decided, Match!NoWinner, NoWinner, Match!Full, Full
<1> QED
  BY <1>1, <1>2, <1>3, <1>5, <1>7, <1>8

LEMMA GameStays ==
  ASSUME NEW i, PhaseOf(i)' = PhaseOf(i), BoardOf(i)' = BoardOf(i), ResultOf(i)' = ResultOf(i)
  PROVE  GameStep(i)
<1>1. UNCHANGED Match(i)!gameVars
  BY DEF Match!gameVars, BoardOf, ResultOf
<1> QED
  BY <1>1 DEF GameStep

LEMMA GameOpens ==
  ASSUME NEW i, PhaseOf(i) = "none", PhaseOf(i)' = "waiting", BoardOf(i)' = BoardOf(i),
         ResultOf(i)' = ResultOf(i)
  PROVE  GameStep(i)
<1>1. Match(i)!Open
  BY DEF Match!Open, BoardOf, ResultOf
<1> QED
  BY <1>1 DEF GameStep, Match!GameNext

LEMMA GameStarts ==
  ASSUME NEW i, PhaseOf(i) = "waiting", PhaseOf(i)' = "playing", BoardOf(i)' = BoardOf(i),
         ResultOf(i)' = ResultOf(i)
  PROVE  GameStep(i)
<1>1. Match(i)!Start
  BY DEF Match!Start, BoardOf, ResultOf
<1> QED
  BY <1>1 DEF GameStep, Match!GameNext

LEMMA GameLeaves ==
  ASSUME NEW i, PhaseOf(i) = "playing", PhaseOf(i)' = "over", ResultOf(i)' = "left"
  PROVE  GameStep(i)
<1>1. Match(i)!Leave
  BY GameBoards DEF Match!Leave, ResultOf
<1> QED
  BY <1>1 DEF GameStep, Match!GameNext

LEMMA GameUndefines ==
  ASSUME NEW i, PhaseOf(i)' = "undefined"
  PROVE  GameStep(i)
<1>1. Match(i)!Undefined
  BY GameBoards DEF Match!Undefined
<1> QED
  BY <1>1 DEF GameStep, Match!GameNext

(* A move that goes on, or ends the game. *)
LEMMA GamePlaces ==
  ASSUME NEW i, NEW c \in Cells, NEW new, PhaseOf(i) = "playing",
         new = [BoardOf(i) EXCEPT ![c] = ToMove(BoardOf(i))], BoardOf(i)[c] = Blank,
         \/ /\ ~Decided(new, Count(new, "X") + Count(new, "O"))
            /\ PhaseOf(i)' = "playing" /\ BoardOf(i)' = new /\ ResultOf(i)' = ResultOf(i)
         \/ /\ Decided(new, Count(new, "X") + Count(new, "O"))
            /\ PhaseOf(i)' = "over" /\ ResultOf(i)' = Verdict(new)
  PROVE  GameStep(i)
<1>1. Match(i)!Place(c)
  <2>1. PICK bd, moves : bd = BoardOf(i) /\ moves = Count(new, "X") + Count(new, "O")
    OBVIOUS
  <2>2. new = [bd EXCEPT ![c] = Match(i)!ToMove(bd)] /\ bd[c] = Match(i)!Blank
    BY <2>1, GameBoards
  <2>3. moves = Match(i)!Count(new, "X") + Match(i)!Count(new, "O")
    BY <2>1, GameBoards
  <2>4. Match(i)!Decided(new, moves) <=> Decided(new, moves)
    BY GameBoards
  <2>5. Match(i)!EmptyBoard = EmptyBoard /\ Match(i)!Outcome(new) = Verdict(new)
    BY GameBoards
  <2>6. CASE ~Decided(new, moves)
    <3>1. PhaseOf(i)' = PhaseOf(i) /\ BoardOf(i)' = new /\ ResultOf(i)' = ResultOf(i)
      BY <2>1, <2>6
    <3> QED
      BY <2>1, <2>2, <2>3, <2>4, <2>6, <3>1, Zenon DEF Match!Place, BoardOf, ResultOf
  <2>7. CASE Decided(new, moves)
    <3>1. PhaseOf(i)' = "over" /\ ResultOf(i)' = Match(i)!Outcome(new)
      BY <2>1, <2>5, <2>7
    <3>2. BoardOf(i)' = EmptyBoard /\ EmptyBoard = Match(i)!EmptyBoard
      BY <2>5, <3>1 DEF BoardOf
    <3> QED
      BY <2>1, <2>2, <2>3, <2>4, <2>7, <3>1, <3>2, Zenon DEF Match!Place, BoardOf, ResultOf
  <2> QED
    BY <2>6, <2>7
<1> QED
  BY <1>1 DEF GameStep, Match!GameNext
-----------------------------------------------------------------------------
(* The phase of match i, from the ids handed out, the table and the heap. *)
PhaseFrom(n, table, store, i) ==
  IF i >= n THEN "none"
  ELSE IF table[i] = NULL \/ Decided(store[table[i]].board, store[table[i]].moves) THEN "over"
  ELSE IF store[table[i]].players = 1 THEN "waiting" ELSE "playing"

LEMMA PhaseIs ==
  ASSUME TypeOK, Calm, NEW i \in Slots
  PROVE  /\ PhaseOf(i) = PhaseFrom(match_id, matches, heap, i)
         /\ ResultOf(i) = outcome[i]
<1>1. i \in Nat /\ match_id \in Nat
  BY ServerAssumption, NextIdType DEF Slots
<1>2. PICK over \in BOOLEAN : over <=> Decided(heap[matches[i]].board, heap[matches[i]].moves)
  OBVIOUS
<1>3. PhaseOf(i) = IF i >= match_id THEN "none"
                   ELSE IF matches[i] = NULL \/ over THEN "over"
                   ELSE IF heap[matches[i]].players = 1 THEN "waiting" ELSE "playing"
  BY <1>1, <1>2 DEF PhaseOf, DecidedAt, Calm
<1>4. PhaseOf(i) = PhaseFrom(match_id, matches, heap, i)
  BY <1>2, <1>3 DEF PhaseFrom
<1>5. PhaseOf(i) # "undefined"
  BY <1>3
<1> QED
  BY <1>4, <1>5 DEF ResultOf

LEMMA PhaseNext ==
  ASSUME TypeOK', Calm', NEW i \in Slots
  PROVE  /\ PhaseOf(i)' = PhaseFrom(match_id', matches', heap', i)
         /\ ResultOf(i)' = outcome'[i]
<1>1. i \in Nat /\ match_id' \in Nat
  <2>1. match_id' \in 0 .. MaxIds
    BY DEF TypeOK
  <2> QED
    BY <2>1, ServerAssumption DEF Slots
<1>2. PICK over \in BOOLEAN : over <=> Decided(heap'[matches'[i]].board, heap'[matches'[i]].moves)
  OBVIOUS
<1>3. PhaseOf(i)' = IF i >= match_id' THEN "none"
                    ELSE IF matches'[i] = NULL \/ over THEN "over"
                    ELSE IF heap'[matches'[i]].players = 1 THEN "waiting" ELSE "playing"
  BY <1>1, <1>2 DEF PhaseOf, DecidedAt, Calm
<1>4. PhaseOf(i)' = PhaseFrom(match_id', matches', heap', i)
  BY <1>2, <1>3 DEF PhaseFrom
<1>5. PhaseOf(i)' # "undefined"
  BY <1>3
<1> QED
  BY <1>4, <1>5 DEF ResultOf

(* A slot whose match is left alone. *)
LEMMA SlotStays ==
  ASSUME TypeOK, TypeOK', Calm, Calm', NEW i \in Slots,
         i >= match_id' <=> i >= match_id, matches'[i] = matches[i],
         matches[i] # NULL => heap'[matches[i]] = heap[matches[i]],
         outcome'[i] = outcome[i]
  PROVE  GameStep(i)
<1>1. /\ PhaseOf(i) = PhaseFrom(match_id, matches, heap, i)
      /\ PhaseOf(i)' = PhaseFrom(match_id', matches', heap', i)
      /\ ResultOf(i)' = ResultOf(i)
  BY PhaseIs, PhaseNext
<1>2. PhaseOf(i)' = PhaseOf(i)
  <2>1. CASE matches[i] = NULL
    BY <1>1, <2>1 DEF PhaseFrom
  <2>2. CASE matches[i] # NULL
    <3>1. PICK h : h = heap[matches[i]] /\ h = heap'[matches'[i]]
      BY <2>2
    <3> QED
      BY <1>1, <3>1 DEF PhaseFrom
  <2> QED
    BY <2>1, <2>2
<1>3. PhaseOf(i) = "playing" => matches[i] # NULL
  BY <1>1 DEF PhaseFrom
<1>4. BoardOf(i)' = BoardOf(i)
  BY <1>2, <1>3 DEF BoardOf
<1> QED
  BY <1>1, <1>2, <1>4, GameStays

(* The table follows the heap. *)
LEMMA TableFollows ==
  ASSUME IInv, IInv', Calm, Calm', NEW a \in Addrs, \A b \in Addrs : b # a => heap'[b] = heap[b],
         Live(a), NEW i \in Slots
  PROVE  /\ i = heap[a].matchID => matches[i] = a
         /\ i = heap[a].matchID /\ ~Live(a)' => matches'[i] = NULL
         /\ Live(a)' /\ i = heap'[a].matchID => matches'[i] = a
         /\ i # heap[a].matchID /\ (Live(a)' => i # heap'[a].matchID) =>
              matches'[i] = matches[i] /\ matches[i] # a
<1>1. /\ \A j \in Slots : matches[j] # NULL => Live(matches[j]) /\ heap[matches[j]].matchID = j
      /\ \A b \in Addrs : Live(b) /\ heap[b].matchID \in Slots => matches[heap[b].matchID] = b
      /\ \A j \in Slots : matches[j] \in Addrs \cup {NULL}
  BY DEF IInv, RegistryMirrorsHeap, RegistryInOrder, Calm, SlotsAreAllocated, MatchesAreRegistered, TypeOK
<1>2. /\ \A j \in Slots : matches'[j] # NULL => matches'[j] \in Addrs /\ heap'[matches'[j]] # Free
                                            /\ heap'[matches'[j]].matchID = j
      /\ \A b \in Addrs : Live(b)' /\ heap'[b].matchID \in Slots => matches'[heap'[b].matchID] = b
      /\ \A j \in Slots : matches'[j] \in Addrs \cup {NULL}
  BY DEF IInv, RegistryMirrorsHeap, RegistryInOrder, Calm, SlotsAreAllocated, MatchesAreRegistered, TypeOK, Live
<1>3. \A b \in Addrs : b # a => (Live(b)' <=> Live(b))
  BY DEF Live
<1>4. i = heap[a].matchID => matches[i] = a
  BY <1>1
<1>5. Live(a)' /\ i = heap'[a].matchID => matches'[i] = a
  BY <1>2
<1>6. ASSUME i = heap[a].matchID, ~Live(a)' PROVE matches'[i] = NULL
  <2> SUFFICES ASSUME matches'[i] # NULL PROVE FALSE
    OBVIOUS
  <2>1. PICK b \in Addrs : b = matches'[i] /\ Live(b)' /\ heap'[b].matchID = i
    BY <1>2 DEF Live
  <2>2. b # a
    BY <1>6, <2>1
  <2>3. Live(b) /\ heap[b].matchID = i
    BY <1>3, <2>1, <2>2
  <2> QED
    BY <1>1, <1>4, <1>6, <2>2, <2>3
<1>7. ASSUME i # heap[a].matchID, Live(a)' => i # heap'[a].matchID
      PROVE  matches'[i] = matches[i] /\ matches[i] # a
  <2>1. ASSUME matches[i] # NULL PROVE matches[i] # a /\ matches'[i] = matches[i]
    <3>1. PICK b \in Addrs : b = matches[i] /\ Live(b) /\ heap[b].matchID = i
      BY <1>1, <2>1
    <3>2. b # a /\ Live(b)' /\ heap'[b].matchID = i
      BY <1>3, <1>7, <3>1
    <3> QED
      BY <1>2, <3>1, <3>2
  <2>2. ASSUME matches'[i] # NULL PROVE matches[i] # NULL
    <3>1. PICK b \in Addrs : b = matches'[i] /\ Live(b)' /\ heap'[b].matchID = i
      BY <1>2, <2>2 DEF Live
    <3>2. b # a /\ Live(b) /\ heap[b].matchID = i
      BY <1>3, <1>7, <3>1
    <3>3. matches[i] = b
      BY <1>1, <3>2
    <3> QED
      BY <3>3, ServerAssumption
  <2>3. a # NULL
    BY ServerAssumption
  <2> QED
    BY <2>1, <2>2, <2>3
<1> QED
  BY <1>4, <1>5, <1>6, <1>7
-----------------------------------------------------------------------------
(***************************************************************************)
(* The server plays games: each of its handlers is a step of the Game of   *)
(* each of its matches, or none.                                           *)
(***************************************************************************)
(* Two calm states in which the invariant holds, and one page's turn: what *)
(* the server's handlers do to each match is a step of its Game.           *)
Orders == IInv /\ GInv /\ Calm

LEMMA OrdersFacts ==
  ASSUME Orders
  PROVE  /\ TypeOK /\ RegistryInOrder /\ Wired /\ Orderly /\ fault = "none" /\ up
         /\ match_id \in Nat /\ \A i \in Slots : i \in Nat
<1>1. match_id \in Nat /\ \A i \in Slots : i \in Nat
  BY ServerAssumption, NextIdType DEF Slots, Orders, IInv
<1>2. IInv /\ fault = "none" /\ up /\ Wired /\ Orderly
  BY DEF Orders, GInv, Calm
<1> QED
  BY <1>1, <1>2, CalmRegistry

(* The match of a slot. *)
LEMMA SlotFacts ==
  ASSUME Orders, NEW i \in Slots, NEW a, a = matches[i], a # NULL
  PROVE  /\ a \in Addrs /\ Live(a) /\ heap[a].matchID = i /\ i < match_id
         /\ heap[a] \in MatchStates /\ RecordOK(heap[a], Both(a), outcome[i])
         /\ PhaseOf(i) = IF Decided(heap[a].board, heap[a].moves) THEN "over"
                         ELSE IF heap[a].players = 1 THEN "waiting" ELSE "playing"
         /\ ResultOf(i) = outcome[i]
<1>1. TypeOK /\ RegistryInOrder /\ Orderly /\ Calm /\ match_id \in Nat /\ i \in Nat
  BY OrdersFacts DEF Orders
<1>2. a \in Addrs /\ Live(a) /\ heap[a].matchID = i
  BY <1>1 DEF RegistryInOrder, SlotsAreAllocated, Live
<1>3. i < match_id
  BY <1>1, <1>2 DEF RegistryInOrder, IdsAreHandedOut
<1>4. heap[a] \in MatchStates /\ RecordOK(heap[a], Both(a), outcome[i])
  BY <1>1, <1>2, MatchType DEF Orderly, MatchOK
<1>5. PhaseOf(i) = PhaseFrom(match_id, matches, heap, i) /\ ResultOf(i) = outcome[i]
  BY <1>1, PhaseIs
<1>6. ~(i >= match_id)
  BY <1>1, <1>3
<1>7. PhaseOf(i) = IF Decided(heap[a].board, heap[a].moves) THEN "over"
                   ELSE IF heap[a].players = 1 THEN "waiting" ELSE "playing"
  BY <1>5, <1>6 DEF PhaseFrom
<1> QED
  BY <1>2, <1>3, <1>4, <1>5, <1>7

LEMMA ServerStays ==
  ASSUME Orders, Orders', UNCHANGED <<match_id, matches, heap, outcome>>, NEW i \in Slots
  PROVE  GameStep(i)
<1>1. TypeOK /\ TypeOK' /\ Calm /\ Calm'
  BY DEF Orders, IInv
<1> QED
  BY <1>1, SlotStays

LEMMA CreateGames ==
  ASSUME Orders, Orders', NEW fd \in Fds, create_match(fd), NEW i \in Slots
  PROVE  GameStep(i)
<1>1. /\ TypeOK /\ TypeOK' /\ Calm /\ Calm' /\ RegistryInOrder
      /\ match_id \in Nat /\ i \in Nat /\ up' /\ fault = "none" /\ fault' = "none"
  BY OrdersFacts DEF Orders, IInv, Calm
<1>2. PICK a \in Addrs :
        /\ ~Live(a)
        /\ heap' = [heap EXCEPT ![a] = [createMatch(fd, match_id) EXCEPT !.players = 1]]
        /\ matches' = Store(match_id, a) /\ match_id' = match_id + 1
        /\ fault' = IF match_id \in Slots THEN fault ELSE Noting("undefined")
        /\ outcome' = outcome
  BY <1>1 DEF create_match, Allocatable, Die
<1>3. match_id \in Slots
  BY <1>1, <1>2 DEF Noting
<1>4. PICK h : h = heap'[a] /\ h = [createMatch(fd, match_id) EXCEPT !.players = 1]
  BY <1>1, <1>2 DEF TypeOK
<1>5. h.players = 1 /\ h.board = EmptyBoard /\ h.moves = 0
  BY <1>4 DEF createMatch
<1>6. matches'[i] = IF i = match_id THEN a ELSE matches[i]
  BY <1>2 DEF Store
<1>7. CASE i = match_id
  <2>1. PhaseOf(i) = "none" /\ ResultOf(i) = outcome[i]
    BY <1>1, <1>7, PhaseIs DEF PhaseFrom
  <2>2. PhaseOf(i)' = PhaseFrom(match_id', matches', heap', i) /\ ResultOf(i)' = outcome'[i]
    BY <1>1, PhaseNext
  <2>3. ~(i >= match_id') /\ matches'[i] = a /\ a # NULL
    BY <1>1, <1>2, <1>6, <1>7, ServerAssumption
  <2>4. PhaseOf(i)' = "waiting"
    BY <1>4, <1>5, <2>2, <2>3, EmptyBoardOpen DEF PhaseFrom
  <2>5. BoardOf(i)' = BoardOf(i)
    BY <2>1, <2>4 DEF BoardOf
  <2> QED
    BY <1>2, <2>1, <2>2, <2>4, <2>5, GameOpens
<1>8. CASE i # match_id
  <2>1. i >= match_id' <=> i >= match_id
    BY <1>1, <1>2, <1>8
  <2>2. matches[i] # NULL => matches[i] # a /\ matches[i] \in Addrs
    BY <1>1, <1>2 DEF RegistryInOrder, SlotsAreAllocated, Live
  <2>3. matches[i] # NULL => heap'[matches[i]] = heap[matches[i]]
    BY <1>1, <1>2, <2>2 DEF TypeOK
  <2> QED
    BY <1>1, <1>2, <1>6, <1>8, <2>1, <2>3, SlotStays
<1> QED
  BY <1>7, <1>8

LEMMA JoinGames ==
  ASSUME Orders, Orders', NEW fd \in Fds, NEW id \in Slots, join_match(fd, id), NEW i \in Slots
  PROVE  GameStep(i)
<1>1. /\ TypeOK /\ TypeOK' /\ Calm /\ Calm' /\ up'
  BY OrdersFacts DEF Orders, IInv, Calm
<1>2. CASE ~Joinable(id)
  BY <1>2, ServerStays DEF join_match
<1>3. CASE Joinable(id)
  <2>1. /\ heap' = [heap EXCEPT ![matches[id]] = SecondPlayer(@, fd)]
        /\ UNCHANGED <<match_id, matches, outcome>>
    BY <1>1, <1>3 DEF join_match, KilledBySIGPIPE, Die
  <2>2. PICK a : a = matches[id] /\ a # NULL /\ heap[a].players # 2
    BY <1>3 DEF Joinable
  <2>3. /\ a \in Addrs /\ heap[a].matchID = id /\ heap[a] \in MatchStates
        /\ RecordOK(heap[a], Both(a), outcome[id]) /\ id < match_id
    BY <2>2, SlotFacts
  <2>4. PICK h \in MatchStates : h = heap[a]
    BY <2>3
  <2>5. h.players = 1
    BY <2>2, <2>4 DEF MatchStates
  <2>6. h.board = EmptyBoard /\ ~Decided(h.board, h.moves)
    <3>1. h.players # 2
      BY <2>5
    <3>2. RecordOK(h, Both(a), outcome[id])
      BY <2>3, <2>4
    <3> QED
      BY <2>5, <3>1, <3>2, Zenon DEF RecordOK
  <2>7. PICK h2 : h2 = heap'[a] /\ h2 = SecondPlayer(h, fd)
    BY <1>1, <2>1, <2>2, <2>3, <2>4 DEF TypeOK
  <2>8. h2.players = 2 /\ h2.board = h.board /\ h2.moves = h.moves
    BY <2>5, <2>7 DEF SecondPlayer, MatchStates
  <2>9. CASE i = id
    <3>1. PhaseOf(i) = "waiting" /\ ResultOf(i) = outcome[i]
      BY <2>2, <2>4, <2>5, <2>6, <2>9, SlotFacts
    <3>2. PhaseOf(i)' = PhaseFrom(match_id', matches', heap', i) /\ ResultOf(i)' = outcome'[i]
      BY <1>1, PhaseNext
    <3>3. ~(i >= match_id')
      BY <2>1, <2>3, <2>9, OrdersFacts
    <3>4. PhaseOf(i)' = "playing"
      BY <2>1, <2>2, <2>6, <2>7, <2>8, <2>9, <3>2, <3>3 DEF PhaseFrom
    <3>5. BoardOf(i)' = EmptyBoard
      BY <2>1, <2>2, <2>6, <2>7, <2>8, <2>9, <3>4 DEF BoardOf
    <3>6. BoardOf(i) = EmptyBoard
      BY <3>1 DEF BoardOf
    <3> QED
      BY <2>1, <3>1, <3>2, <3>4, <3>5, <3>6, GameStarts
  <2>10. CASE i # id
    <3>1. matches[i] # NULL => matches[i] # a /\ matches[i] \in Addrs
      BY <2>3, <2>10, SlotFacts
    <3>2. matches[i] # NULL => heap'[matches[i]] = heap[matches[i]]
      BY <1>1, <2>1, <2>2, <3>1 DEF TypeOK
    <3> QED
      BY <1>1, <2>1, <3>2, SlotStays
  <2> QED
    BY <2>9, <2>10
<1> QED
  BY <1>2, <1>3
-----------------------------------------------------------------------------
(* A match that is freed with an outcome: its Game is over. *)
LEMMA FreedOver ==
  ASSUME Orders, Orders', NEW a \in Addrs, Live(a), Freed(a), match_id' = match_id, NEW i \in Slots
  PROVE  /\ i = heap[a].matchID => PhaseOf(i)' = "over" /\ ResultOf(i)' = outcome'[i]
         /\ i # heap[a].matchID /\ SameOutcomes(a) => GameStep(i)
<1>1. /\ TypeOK /\ TypeOK' /\ Calm /\ Calm' /\ IInv /\ IInv' /\ match_id \in Nat /\ i \in Nat
  BY OrdersFacts DEF Orders, IInv
<1>2. ~Live(a)' /\ \A b \in Addrs : b # a => heap'[b] = heap[b]
  BY <1>1 DEF Freed, Live, TypeOK
<1>3. /\ i = heap[a].matchID => matches[i] = a /\ matches'[i] = NULL
      /\ i # heap[a].matchID => matches'[i] = matches[i] /\ matches[i] # a
  BY <1>1, <1>2, TableFollows
<1>4. CASE i = heap[a].matchID
  <2>1. i < match_id
    BY <1>1, <1>4 DEF IInv, RegistryMirrorsHeap, RegistryInOrder, Calm, IdsAreHandedOut
  <2>2. PhaseOf(i)' = PhaseFrom(match_id', matches', heap', i) /\ ResultOf(i)' = outcome'[i]
    BY <1>1, PhaseNext
  <2>3. ~(i >= match_id') /\ matches'[i] = NULL
    BY <1>1, <1>3, <1>4, <2>1
  <2> QED
    BY <1>4, <2>2, <2>3 DEF PhaseFrom
<1>5. CASE i # heap[a].matchID /\ SameOutcomes(a)
  <2>1. matches[i] # NULL => matches[i] \in Addrs
    BY <1>1 DEF TypeOK
  <2>2. i \in MatchIds
    <3>1. MaxMatches \in Nat /\ MaxIds \in Nat /\ MaxMatches <= MaxIds
      BY ServerAssumption
    <3> QED
      BY <3>1 DEF Slots, MatchIds
  <2>3. outcome'[i] = outcome[i]
    BY <1>5, <2>2 DEF SameOutcomes
  <2> QED
    BY <1>1, <1>2, <1>3, <1>5, <2>1, <2>3, SlotStays
<1> QED
  BY <1>4, <1>5

(* The records of how a match ended. *)
LEMMA Recorded ==
  ASSUME TypeOK, NEW id \in MatchIds, NEW how, Record(id, how)
  PROVE  /\ outcome[id] = "" => outcome'[id] = how
         /\ outcome[id] # "" => outcome'[id] = outcome[id]
         /\ \A i \in MatchIds : i # id => outcome'[i] = outcome[i]
BY DEF Record, TypeOK

(* What a Close frame does to the records. *)
LEMMA CloseRecords ==
  ASSUME Orders, Orders', NEW fd \in Fds, close_frame(fd)
  PROVE  /\ match_id' = match_id
         /\ \/ UNCHANGED <<heap, matches, outcome>>
            \/ \E a \in Addrs : /\ Live(a) /\ heap[a].players = 2
                                /\ Freed(a) /\ Record(heap[a].matchID, "left")
<1> DEFINE c == client[fd]
           a == c.currentMatch
<1>1. up'
  BY DEF Orders, Calm
<1>2. PICK t \in (IF a = NULL THEN {Trace} ELSE PeerCloseSends(fd, a)) :
        /\ PtrFault(c, t)
        /\ \/ KilledBySIGPIPE(t)
           \/ /\ Survives(t)
              /\ IF a = NULL THEN UNCHANGED <<heap, matches, outcome>> ELSE PeerCloseFrees(a)
              /\ s2c' = t.s2c
              /\ close_connection(fd, client, t.link)
              /\ UNCHANGED <<up, match_id>>
  BY DEF close_frame
<1>3. ~KilledBySIGPIPE(t)
  BY <1>1 DEF KilledBySIGPIPE, Die
<1>4. /\ IF a = NULL THEN UNCHANGED <<heap, matches, outcome>> ELSE PeerCloseFrees(a)
      /\ match_id' = match_id
  <2> HIDE DEF c, a
  <2> QED
    BY <1>2, <1>3
<1>5. a # NULL => Live(a) /\ a \in Addrs
  BY DEF close_frame, Dangling, Live
<1>6. CASE a = NULL
  BY <1>4, <1>6
<1>7. CASE a # NULL /\ heap[a].players # 2
  BY <1>4, <1>7 DEF PeerCloseFrees
<1>8. CASE a # NULL /\ heap[a].players = 2
  <2>1. Forget(a) /\ Record(heap[a].matchID, "left")
    BY <1>4, <1>8 DEF PeerCloseFrees
  <2>2. PICK b \in Addrs : b = a
    BY <1>5, <1>8
  <2>3. Live(b) /\ heap[b].players = 2 /\ Freed(b) /\ Record(heap[b].matchID, "left")
    BY <1>5, <1>8, <2>1, <2>2 DEF Forget, Freed
  <2> QED
    BY <1>4, <2>3
<1> QED
  BY <1>6, <1>7, <1>8

LEMMA CloseGames ==
  ASSUME Orders, Orders', NEW fd \in Fds, close_frame(fd), NEW i \in Slots
  PROVE  GameStep(i)
<1>1. TypeOK /\ match_id' = match_id
  BY CloseRecords, OrdersFacts
<1>2. CASE UNCHANGED <<heap, matches, outcome>>
  BY <1>1, <1>2, ServerStays
<1>3. ASSUME NEW a \in Addrs, Live(a), heap[a].players = 2, Freed(a), Record(heap[a].matchID, "left")
      PROVE  GameStep(i)
  <2>1. heap[a].matchID \in MatchIds
    BY <1>1, <1>3, MatchType DEF MatchStates
  <2>2. /\ outcome[heap[a].matchID] = "" => outcome'[heap[a].matchID] = "left"
        /\ outcome[heap[a].matchID] # "" => outcome'[heap[a].matchID] = outcome[heap[a].matchID]
        /\ SameOutcomes(a)
    BY <1>1, <1>3, <2>1, Recorded DEF SameOutcomes
  <2>3. CASE i # heap[a].matchID
    BY <1>1, <1>3, <2>2, <2>3, FreedOver
  <2>4. CASE i = heap[a].matchID
    <3>1. PhaseOf(i)' = "over" /\ ResultOf(i)' = outcome'[i]
      BY <1>1, <1>3, <2>4, FreedOver
    <3>2. matches[i] = a /\ a # NULL
      BY <1>3, <2>4, ServerAssumption DEF Orders, IInv, RegistryMirrorsHeap, RegistryInOrder, Calm, MatchesAreRegistered
    <3>3. PICK h : h = heap[a] /\ h.players = 2
      BY <1>3
    <3>4. /\ PhaseOf(i) = IF Decided(h.board, h.moves) THEN "over"
                          ELSE IF h.players = 1 THEN "waiting" ELSE "playing"
          /\ ResultOf(i) = outcome[i] /\ RecordOK(h, Both(a), outcome[i])
      BY <3>2, <3>3, SlotFacts
    <3>5. PICK how, how2 : how = outcome[i] /\ how2 = outcome'[i]
      OBVIOUS
    <3>6. how = "" <=> ~Decided(h.board, h.moves)
      BY <3>4, <3>5, Zenon DEF RecordOK
    <3>7. CASE Decided(h.board, h.moves)
      <4>1. PhaseOf(i) = "over" /\ ResultOf(i)' = ResultOf(i)
        BY <2>2, <2>4, <3>1, <3>4, <3>5, <3>6, <3>7
      <4>2. BoardOf(i)' = BoardOf(i)
        BY <3>1, <4>1 DEF BoardOf
      <4> QED
        BY <3>1, <4>1, <4>2, GameStays
    <3>8. CASE ~Decided(h.board, h.moves)
      <4>0. outcome[heap[a].matchID] = ""
        BY <2>4, <3>5, <3>6, <3>8
      <4>1. ResultOf(i)' = "left"
        BY <2>2, <2>4, <3>1, <4>0
      <4>2. PhaseOf(i) = "playing"
        <5>1. h.players # 1
          BY <3>3
        <5> QED
          BY <3>4, <3>8, <5>1, Zenon
      <4> QED
        BY <3>1, <4>1, <4>2, GameLeaves
    <3> QED
      BY <3>7, <3>8
  <2> QED
    BY <2>3, <2>4
<1> QED
  BY <1>2, <1>3, CloseRecords
-----------------------------------------------------------------------------
(* A move of which something has been sent was meant for a player whose    *)
(* connection works.                                                       *)
LEMMA SentTalks ==
  ASSUME TypeOK, Wired, Orderly, NEW fd, NEW m \in [code : {"MOVE"}, player : Marks, message : Cells],
         NEW a \in Addrs, NEW s \in Marks, NEW p \in Pages, NEW n, MoveAt(fd, m, a, s, p, n),
         NEW new, NEW t \in MoveSends(a, s, m, new, GameOver(Verdict(new))), ~t.stray, t.sent # 0
  PROVE  Talks(a, Other(s))
<1>1. m \in ServerFrames /\ Attached /\ Talks(a, s) /\ PageAt(a, s) = p /\ Other(s) \in Marks
  BY DEF ServerFrames, Wired, MoveAt, Talks, Other, Marks
<1>2. PICK g \in ServerFrames : g = GameOver(Verdict(new))
  BY VerdictType, GameOverType
<1>3. PICK decided \in BOOLEAN : decided <=> Decided(new, heap[a].moves + 1)
  OBVIOUS
<1>4. t \in (IF decided THEN VerdictTo(a, s, m, g) ELSE FirstTo(a, Other(s), m))
  BY <1>2, <1>3, Zenon DEF MoveSends
<1> SUFFICES ASSUME ~Talks(a, Other(s)) PROVE t.sent = 0
  OBVIOUS
<1>5. CASE decided
  BY <1>1, <1>4, <1>5, VerdictSends
<1>6. CASE ~decided
  <2>1. Failed(Trace, t)
    BY <1>1, <1>4, <1>6, FirstSend
  <2> QED
    BY <2>1, TraceIs DEF Failed
<1> QED
  BY <1>5, <1>6

(* The record of the match changes by a move. *)
LEMMA MarkedGame ==
  ASSUME Orders, Orders', NEW a \in Addrs, Live(a), NEW new \in Boards, MoveMarks(a, new),
         match_id' = match_id, NEW i \in Slots
  PROVE  /\ i = heap[a].matchID =>
              /\ ResultOf(i)' = outcome'[i]
              /\ Decided(new, heap[a].moves + 1) => PhaseOf(i)' = "over"
              /\ ~Decided(new, heap[a].moves + 1) /\ heap[a].players = 2 =>
                   PhaseOf(i)' = "playing" /\ BoardOf(i)' = new
         /\ i # heap[a].matchID /\ SameOutcomes(a) => GameStep(i)
<1>1. /\ TypeOK /\ TypeOK' /\ Calm /\ Calm' /\ IInv /\ IInv' /\ match_id \in Nat /\ i \in Nat
  BY OrdersFacts DEF Orders, IInv
<1>2. PICK h \in MatchStates : h = heap[a]
  BY <1>1, MatchType
<1>3. PICK h2 : h2 = Marked(h, new)
  OBVIOUS
<1>4. /\ h2.board = new /\ h2.moves = h.moves + 1 /\ h2.matchID = h.matchID
      /\ h2.players = h.players /\ h2 # Free
  BY <1>3, MarkedFields
<1>5. heap'[a] = h2 /\ \A b \in Addrs : b # a => heap'[b] = heap[b]
  BY <1>1, <1>2, <1>3 DEF MoveMarks, TypeOK
<1>6. Live(a)'
  BY <1>4, <1>5 DEF Live
<1>7. /\ i = heap[a].matchID => matches'[i] = a
      /\ i # heap[a].matchID => matches'[i] = matches[i] /\ matches[i] # a
  BY <1>1, <1>2, <1>4, <1>5, <1>6, TableFollows
<1>8. CASE i = heap[a].matchID
  <2>1. i < match_id
    BY <1>1, <1>8 DEF IInv, RegistryMirrorsHeap, RegistryInOrder, Calm, IdsAreHandedOut
  <2>2. PhaseOf(i)' = PhaseFrom(match_id', matches', heap', i) /\ ResultOf(i)' = outcome'[i]
    BY <1>1, PhaseNext
  <2>3. ~(i >= match_id') /\ matches'[i] = a /\ a # NULL
    BY <1>1, <1>7, <1>8, <2>1, ServerAssumption
  <2>4. PhaseOf(i)' = IF Decided(new, h.moves + 1) THEN "over"
                      ELSE IF h.players = 1 THEN "waiting" ELSE "playing"
    BY <1>4, <1>5, <2>2, <2>3 DEF PhaseFrom
  <2>5. PhaseOf(i)' = "playing" => BoardOf(i)' = new
    BY <1>4, <1>5, <2>3 DEF BoardOf
  <2> QED
    BY <1>2, <1>8, <2>2, <2>4, <2>5
<1>9. CASE i # heap[a].matchID /\ SameOutcomes(a)
  <2>1. matches[i] # NULL => matches[i] \in Addrs
    BY <1>1 DEF TypeOK
  <2>2. i \in MatchIds
    <3>1. MaxMatches \in Nat /\ MaxIds \in Nat /\ MaxMatches <= MaxIds
      BY ServerAssumption
    <3> QED
      BY <3>1 DEF Slots, MatchIds
  <2>3. outcome'[i] = outcome[i]
    BY <1>9, <2>2 DEF SameOutcomes
  <2> QED
    BY <1>1, <1>5, <1>7, <1>9, <2>1, <2>3, SlotStays
<1> QED
  BY <1>8, <1>9

(* The match of a move that has been sent on: s marks square c of match i, *)
(* at address a, and the board becomes new.                                *)
Playable(i, a, c, s, new) ==
  /\ PhaseOf(i) = "playing" /\ BoardOf(i) = heap[a].board /\ outcome[i] = ""
  /\ ResultOf(i) = "" /\ heap[a].players = 2
  /\ heap[a].board[c] = Blank /\ ToMove(heap[a].board) = s
  /\ heap[a].moves + 1 = Count(new, "X") + Count(new, "O")

LEMMA MovePlays ==
  ASSUME Orders, NEW fd, NEW m, m.message \in Cells, NEW a \in Addrs, NEW s \in Marks, NEW p \in Pages,
         NEW n, MoveAt(fd, m, a, s, p, n), Talks(a, Other(s)), NEW i \in Slots, i = heap[a].matchID,
         NEW new, new = [heap[a].board EXCEPT ![m.message] = s]
  PROVE  Playable(i, a, m.message, s, new)
<1>1. TypeOK /\ RegistryInOrder /\ Wired /\ Orderly
  BY OrdersFacts
<1>2. PICK h \in MatchStates : h = heap[a]
  BY <1>1, MoverPage
<1>3. h.players = 2 /\ Live(a)
  <2>1. heap[a].players = 2
    BY <1>1, MoverPage
  <2>2. Live(a)
    BY DEF MoveAt, Held, IsPlayer, Owns
  <2> QED
    BY <1>2, <2>1, <2>2
<1>4. /\ Both(a) /\ RecordOK(h, Both(a), outcome[h.matchID])
      /\ h.board[m.message] = Blank /\ ToMove(h.board) = s
  BY <1>1, <1>2, PlayFacts
<1>5. PICK both, how : (both <=> Both(a)) /\ how = outcome[i]
  OBVIOUS
<1>6. RecordOK(h, Both(a), how)
  BY <1>2, <1>4, <1>5
<1>7. ~Decided(h.board, h.moves) /\ Unended(how)
  BY <1>4, <1>6, Zenon DEF RecordOK, Unended
<1>8. /\ h.moves = Count(h.board, "X") + Count(h.board, "O")
      /\ Count(h.board, "X") - Count(h.board, "O") \in {0, 1}
  BY <1>6, Zenon DEF RecordOK
<1>9. h.board \in Boards
  BY DEF MatchStates
<1>10. Count(new, "X") + Count(new, "O") = Count(h.board, "X") + Count(h.board, "O") + 1
  BY <1>2, <1>4, <1>8, <1>9, MoveAlternates
<1>11. matches[i] = a /\ a # NULL
  BY <1>1, <1>3, ServerAssumption DEF RegistryInOrder, MatchesAreRegistered
<1>12. /\ PhaseOf(i) = IF Decided(h.board, h.moves) THEN "over"
                       ELSE IF h.players = 1 THEN "waiting" ELSE "playing"
       /\ ResultOf(i) = outcome[i]
  BY <1>2, <1>11, SlotFacts
<1>13. PhaseOf(i) = "playing"
  <2>1. h.players # 1
    BY <1>3
  <2> QED
    BY <1>7, <1>12, <2>1, Zenon
<1>14. BoardOf(i) = h.board
  BY <1>2, <1>11, <1>13 DEF BoardOf
<1>15. outcome[i] = "" /\ ResultOf(i) = ""
  BY <1>5, <1>7, <1>12 DEF Unended
<1>16. h.moves + 1 = Count(new, "X") + Count(new, "O")
  BY <1>8, <1>10
<1> QED
  BY <1>2, <1>3, <1>4, <1>13, <1>14, <1>15, <1>16 DEF Playable
-----------------------------------------------------------------------------
LEMMA MoveGames ==
  ASSUME Orders, Orders', NEW fd \in Fds, NEW m \in [code : {"MOVE"}, player : Marks, message : Cells],
         move(fd, m), UNCHANGED pageVars, NEW i \in Slots
  PROVE  GameStep(i)
<1>1. /\ TypeOK /\ Wired /\ Orderly /\ fault = "none" /\ fault' = "none" /\ up'
  BY OrdersFacts DEF Orders, Calm
<1>2. PICK a \in Addrs, s \in Marks, p \in Pages :
        \E n, t :
          LET new == [heap[a].board EXCEPT ![m.message] = s]
          IN  /\ MoveAt(fd, m, a, s, p, n)
              /\ t \in MoveSends(a, s, m, new, GameOver(Verdict(new)))
              /\ ~t.stray /\ Sent(t) /\ MoveResult(a, new, t)
  BY <1>1, MoveTaken
<1>3. PICK new : new = [heap[a].board EXCEPT ![m.message] = s]
  OBVIOUS
<1>4. PICK n, t : /\ MoveAt(fd, m, a, s, p, n)
                  /\ t \in MoveSends(a, s, m, new, GameOver(Verdict(new)))
                  /\ ~t.stray /\ Sent(t) /\ MoveResult(a, new, t)
  BY <1>2, <1>3
<1>5. m.message \in Cells /\ match_id' = match_id /\ Live(a)
  BY <1>4 DEF MoveAt, Held, IsPlayer, Owns
<1>6. PICK h \in MatchStates : h = heap[a]
  BY <1>1, <1>5, MatchType
<1>7. new \in Boards /\ h.matchID \in MatchIds
  BY <1>3, <1>5, <1>6, MarkedBoard DEF MatchStates
<1>8. CASE t.sent = 0
  <2>1. UNCHANGED <<heap, outcome>>
    <3>1. ~(t.sent > 0)
      BY <1>8
    <3> QED
      BY <1>4, <3>1 DEF MoveResult
  <2>2. /\ \A b \in Addrs : b # a => heap'[b] = heap[b]
        /\ Live(a)' /\ IInv /\ IInv' /\ Calm /\ Calm' /\ TypeOK /\ TypeOK'
    BY <1>5, <2>1 DEF Live, Orders, IInv
  <2>3. matches'[i] = matches[i]
    BY <1>5, <2>1, <2>2, TableFollows
  <2> QED
    BY <1>5, <2>1, <2>2, <2>3, SlotStays
<1>9. CASE t.sent # 0
  <2>1. Talks(a, Other(s))
    BY <1>1, <1>4, <1>9, SentTalks
  <2>2. PICK decided \in BOOLEAN : decided <=> Decided(new, heap[a].moves + 1)
    OBVIOUS
  <2>3. \/ ~decided /\ MoveMarks(a, new) /\ outcome' = outcome
        \/ /\ decided /\ (Freed(a) \/ MoveMarks(a, new))
           /\ Record(heap[a].matchID, Verdict(new))
    BY <1>4, <1>9, <2>2, Zenon DEF MoveResult
  <2>4. SameOutcomes(a)
    <3>1. CASE outcome' = outcome
      BY <3>1 DEF SameOutcomes
    <3>2. CASE Record(heap[a].matchID, Verdict(new))
      BY <1>1, <1>6, <1>7, <3>2, Recorded DEF SameOutcomes
    <3> QED
      BY <2>3, <3>1, <3>2
  <2>5. CASE i # heap[a].matchID
    <3>1. CASE Freed(a)
      BY <1>5, <2>4, <2>5, <3>1, FreedOver
    <3>2. CASE MoveMarks(a, new)
      BY <1>5, <1>7, <2>4, <2>5, <3>2, MarkedGame
    <3> QED
      BY <2>3, <3>1, <3>2
  <2>6. CASE i = heap[a].matchID
    <3>1. /\ PhaseOf(i) = "playing" /\ BoardOf(i) = heap[a].board /\ outcome[i] = ""
          /\ ResultOf(i) = "" /\ heap[a].players = 2
          /\ heap[a].board[m.message] = Blank /\ ToMove(heap[a].board) = s
          /\ heap[a].moves + 1 = Count(new, "X") + Count(new, "O")
      <4>1. Playable(i, a, m.message, s, new)
        BY <1>3, <1>4, <1>5, <2>1, <2>6, MovePlays
      <4> QED
        BY <4>1 DEF Playable
    <3>2. new = [BoardOf(i) EXCEPT ![m.message] = ToMove(BoardOf(i))] /\ BoardOf(i)[m.message] = Blank
      BY <1>3, <3>1
    <3>3. decided <=> Decided(new, Count(new, "X") + Count(new, "O"))
      BY <2>2, <3>1
    <3>4. CASE decided
      <4>1. outcome'[i] = Verdict(new)
        BY <1>1, <1>6, <1>7, <2>3, <2>6, <3>1, <3>4, Recorded
      <4>2. PhaseOf(i)' = "over" /\ ResultOf(i)' = outcome'[i]
        <5>1. CASE Freed(a)
          BY <1>5, <2>6, <5>1, FreedOver
        <5>2. CASE MoveMarks(a, new)
          BY <1>5, <1>7, <2>2, <2>6, <3>4, <5>2, MarkedGame
        <5> QED
          BY <2>3, <3>4, <5>1, <5>2
      <4> QED
        BY <1>5, <3>1, <3>2, <3>3, <3>4, <4>1, <4>2, GamePlaces
    <3>5. CASE ~decided
      <4>1. MoveMarks(a, new) /\ outcome' = outcome
        BY <2>3, <3>5
      <4>2. PhaseOf(i)' = "playing" /\ BoardOf(i)' = new /\ ResultOf(i)' = outcome'[i]
        BY <1>5, <1>7, <2>2, <2>6, <3>1, <3>5, <4>1, MarkedGame
      <4> QED
        BY <1>5, <3>1, <3>2, <3>3, <3>5, <4>1, <4>2, GamePlaces
    <3> QED
      BY <3>4, <3>5
  <2> QED
    BY <2>5, <2>6
<1> QED
  BY <1>8, <1>9

(* Every step of the game is a step of each match's Game. *)
LEMMA EachGame ==
  ASSUME IInv, GInv, Gone, [Next]_vars, NEW i \in Slots
  PROVE  GameStep(i)
<1>1. TypeOK' /\ IInv' /\ GInv'
  BY NextIInv, NextGInv DEF IInv
<1>2. CASE ~Calm'
  <2>1. PhaseOf(i)' = "undefined"
    BY <1>2 DEF PhaseOf, Calm
  <2> QED
    BY <2>1, GameUndefines
<1>3. CASE Calm'
  <2>1. Orders /\ Orders'
    BY <1>1, <1>3, CalmBefore DEF Orders, IInv
  <2>2. CASE UNCHANGED serverVars
    BY <2>1, <2>2, ServerStays DEF serverVars
  <2>3. CASE ServerNext /\ UNCHANGED pageVars
    <3>1. ASSUME NEW p \in Pages, Accept(p) PROVE GameStep(i)
      BY <2>1, <3>1, ServerStays DEF Accept
    <3>2. ASSUME NEW fd \in Fds, handle(fd) PROVE GameStep(i)
      <4>1. CASE PeerGone(fd) \/ Handshake(fd)
        BY <2>1, <4>1, ServerStays DEF PeerGone, Handshake
      <4>2. CASE create_match(fd)
        BY <2>1, <4>2, CreateGames
      <4>3. ASSUME NEW id \in Slots, join_match(fd, id) PROVE GameStep(i)
        BY <2>1, <4>3, JoinGames
      <4>4. ASSUME NEW cell \in Cells, NEW mark \in Marks,
                   move(fd, [code |-> "MOVE", player |-> mark, message |-> cell])
            PROVE  GameStep(i)
        <5>1. [code |-> "MOVE", player |-> mark, message |-> cell]
                \in [code : {"MOVE"}, player : Marks, message : Cells]
          OBVIOUS
        <5> QED
          BY <2>1, <2>3, <4>4, <5>1, MoveGames
      <4>5. CASE close_frame(fd)
        BY <2>1, <4>5, CloseGames
      <4>6. CASE undefined_behaviour(fd)
        BY <1>3, <2>1, <4>6 DEF undefined_behaviour, Orders, Calm, Noting
      <4> QED
        BY <3>2, <4>1, <4>2, <4>3, <4>4, <4>5, <4>6 DEF handle
    <3> QED
      BY <2>3, <3>1, <3>2 DEF ServerNext
  <2> QED
    BY <2>2, <2>3 DEF Next, vars
<1> QED
  BY <1>2, <1>3
-----------------------------------------------------------------------------
(***************************************************************************)
(* The properties of the games, for the server.                            *)
(***************************************************************************)
LEMMA InitGames ==
  ASSUME Init, NEW i \in Slots
  PROVE  Match(i)!GameInit
<1>0. up = TRUE /\ fault = "none" /\ match_id = 0
  BY DEF Init, ServerInit
<1>1. i \in Nat /\ i \in MatchIds
  <2>1. MaxMatches \in Nat /\ MaxIds \in Nat /\ MaxMatches <= MaxIds
    BY ServerAssumption
  <2> QED
    BY <2>1 DEF Slots, MatchIds
<1>2. outcome[i] = ""
  BY <1>1 DEF Init, ServerInit
<1>3. PhaseOf(i) = "none"
  <2>1. i >= match_id
    BY <1>0, <1>1
  <2>2. ~(i < match_id)
    BY <1>0, <1>1
  <2> QED
    BY <1>0, <2>1, <2>2 DEF PhaseOf
<1> QED
  BY <1>2, <1>3, GameBoards DEF Match!GameInit

(* Every match id is one Game, as long as the process lives and nothing    *)
(* stray or undefined has happened: X opens it, O starts it, the marks     *)
(* alternate on blank squares although the server checks neither, and it   *)
(* ends once, at the first complete line, at the full board, or when a     *)
(* player leaves (server.c 330-497).                                       *)
THEOREM ServerPlaysGames == Spec => EveryMatchIsAGame
<1>1. Init => \A i \in Slots : Match(i)!GameInit
  BY InitGames
<1>2. IInv /\ GInv /\ Gone /\ [Next]_vars => \A i \in Slots : [Match(i)!GameNext]_(Match(i)!gameVars)
  BY EachGame DEF GameStep
<1>3. [](IInv /\ GInv /\ Gone) /\ [][Next]_vars
        => [][\A i \in Slots : [Match(i)!GameNext]_(Match(i)!gameVars)]_vars
  BY <1>2, PTL
<1> QED
  BY <1>1, <1>3, MatchesInOrder, PTL DEF Spec, EveryMatchIsAGame
-----------------------------------------------------------------------------
LEMMA OpenFollows ==
  ASSUME IInv, GInv, NEW i \in Slots, PhaseOf(i) = "playing", NEW bd, bd = BoardOf(i)
  PROVE  /\ bd \in Boards /\ CompleteLines(bd) = {}
         /\ \E c \in Cells : bd[c] = Blank
         /\ Count(bd, "X") - Count(bd, "O") \in {0, 1}
<1>1. Calm
  BY DEF PhaseOf, Calm
<1>2. Orders
  BY <1>1 DEF Orders
<1>3. PhaseOf(i) = PhaseFrom(match_id, matches, heap, i)
  BY <1>1, <1>2, PhaseIs DEF Orders, IInv
<1>4. PICK a : a = matches[i] /\ a # NULL
  BY <1>3 DEF PhaseFrom
<1>5. PICK h \in MatchStates : h = heap[a]
  BY <1>2, <1>4, SlotFacts
<1>6. bd = h.board /\ h.board \in Boards
  BY <1>4, <1>5 DEF BoardOf, MatchStates
<1>7. RecordOK(h, Both(a), outcome[i]) /\ ~Decided(h.board, h.moves)
  <2>1. /\ RecordOK(h, Both(a), outcome[i])
        /\ PhaseOf(i) = IF Decided(h.board, h.moves) THEN "over"
                        ELSE IF h.players = 1 THEN "waiting" ELSE "playing"
    BY <1>2, <1>4, <1>5, SlotFacts
  <2> QED
    BY <2>1
<1>8. /\ h.moves = Count(h.board, "X") + Count(h.board, "O")
      /\ Count(h.board, "X") - Count(h.board, "O") \in {0, 1}
  BY <1>7, Zenon DEF RecordOK
<1>9. evaluate_board(bd) = NoWinner /\ h.moves # Cardinality(Cells)
  BY <1>6, <1>7 DEF Decided, Full
<1>10. CompleteLines(bd) = {}
  BY <1>9, LineHasWinner
<1>11. \E c \in Cells : bd[c] = Blank
  BY <1>6, <1>8, <1>9, BlankLeft
<1> QED
  BY <1>6, <1>8, <1>10, <1>11

(* The board of a match being played has no complete line and a blank      *)
(* square, and X is level or one move ahead (server.c 433-469).            *)
THEOREM GamesStayOpen == Spec => []OpenWhilePlayed
<1>1. ASSUME IInv, GInv PROVE OpenWhilePlayed
  <2> SUFFICES ASSUME NEW i \in Slots, PhaseOf(i) = "playing" PROVE Match(i)!OpenBoard
    BY DEF OpenWhilePlayed, Match!OpenBoard
  <2>1. PICK bd : bd = BoardOf(i)
    OBVIOUS
  <2>2. /\ CompleteLines(bd) = {} /\ \E c \in Cells : bd[c] = Blank
        /\ Count(bd, "X") - Count(bd, "O") \in {0, 1}
    BY <1>1, <2>1, OpenFollows
  <2>3. /\ Match(i)!CompleteLines(bd) = {} /\ \E c \in Cells : bd[c] = Match(i)!Blank
        /\ Match(i)!Count(bd, "X") - Match(i)!Count(bd, "O") \in {0, 1}
    BY <2>2, GameBoards
  <2> QED
    BY <2>1, <2>3 DEF Match!OpenBoard, BoardOf
<1> QED
  BY <1>1, MatchesInOrder, PTL
-----------------------------------------------------------------------------
(* A match that is over has an outcome. *)
Concluded(i) == PhaseOf(i) = "over" => ResultOf(i) # ""

LEMMA OutcomeGiven ==
  ASSUME NEW i
  PROVE  \A b : Match(i)!Outcome(b) # ""
<1>1. \A b : Verdict(b) \in Marks \cup {"draw"}
  BY VerdictType
<1>2. \A b : Verdict(b) # ""
  BY <1>1 DEF Marks
<1> QED
  BY <1>2, GameBoards

LEMMA GameConcludes ==
  ASSUME NEW i, Concluded(i), GameStep(i)
  PROVE  Concluded(i)'
<1>1. CASE UNCHANGED Match(i)!gameVars
  BY <1>1 DEF Match!gameVars, Concluded, ResultOf
<1>2. CASE Match(i)!Open \/ Match(i)!Start \/ Match(i)!Undefined
  BY <1>2 DEF Match!Open, Match!Start, Match!Undefined, Concluded
<1>3. CASE Match(i)!Leave
  BY <1>3 DEF Match!Leave, Concluded, ResultOf
<1>4. ASSUME NEW c \in Cells, Match(i)!Place(c) PROVE Concluded(i)'
  BY <1>4, OutcomeGiven DEF Match!Place, Concluded, ResultOf
<1> QED
  BY <1>1, <1>2, <1>3, <1>4 DEF GameStep, Match!GameNext
-----------------------------------------------------------------------------
LEMMA FullBoard ==
  ASSUME NEW board \in Boards, Count(board, "X") + Count(board, "O") = Cardinality(Cells)
  PROVE  \A c \in Cells : board[c] # Blank
<1> DEFINE S(m) == {c \in Cells : board[c] = m}
<1>1. IsFiniteSet(S("X")) /\ IsFiniteSet(S("O")) /\ S("X") \cap S("O") = {}
  BY BoardAssumption, FS_Subset
<1>2. Count(board, "X") = Cardinality(S("X")) /\ Count(board, "O") = Cardinality(S("O"))
  BY DEF Count
<1>3. S("X") \cup S("O") \in SUBSET Cells /\ \A c \in S("X") \cup S("O") : board[c] # Blank
  BY DEF Blank
<1> HIDE DEF S
<1>4. Cardinality(S("X") \cup S("O")) = Cardinality(S("X")) + Cardinality(S("O")) - Cardinality(S("X") \cap S("O"))
  BY <1>1, FS_Union
<1>5. Cardinality({}) = 0 /\ Cardinality(S("X")) \in Nat /\ Cardinality(S("O")) \in Nat
  BY <1>1, FS_EmptySet, FS_CardinalityType
<1>6. Cardinality(S("X") \cup S("O")) = Cardinality(Cells)
  <2>1. Cardinality(S("X") \cap S("O")) = 0
    BY <1>1, <1>5
  <2>2. PICK x \in Nat, o \in Nat : x = Cardinality(S("X")) /\ o = Cardinality(S("O"))
    BY <1>5
  <2>3. Cardinality(S("X") \cup S("O")) = x + o
    BY <1>4, <2>1, <2>2
  <2> QED
    BY <1>2, <2>2, <2>3
<1>7. S("X") \cup S("O") = Cells
  BY <1>3, <1>6, BoardAssumption, FS_Subset
<1> QED
  BY <1>3, <1>7

(* When s's move on board, which gives new, ends the game: a winner is s,   *)
(* which had a completing move; a draw took the one square left and that  *)
(* move completed no line.                                                *)
FairMove(board, s, new) ==
  LET last == {d \in Cells : board[d] = Blank}
      won  == \E d \in last : CompleteLines([board EXCEPT ![d] = s]) # {}
  IN  /\ Verdict(new) # "draw" => won /\ Verdict(new) = s
      /\ Verdict(new) = "draw" => Cardinality(last) = 1 /\ ~won

(* What the move of s to square c makes of an undecided board. *)
LEMMA LastMove ==
  ASSUME NEW board \in Boards, CompleteLines(board) = {}, NEW c \in Cells, board[c] = Blank,
         NEW s \in Marks, NEW new, new = [board EXCEPT ![c] = s],
         Decided(new, Count(new, "X") + Count(new, "O"))
  PROVE  FairMove(board, s, new)
<1> DEFINE last == {d \in Cells : board[d] = Blank}
           won == \E d \in last : CompleteLines([board EXCEPT ![d] = s]) # {}
<1>1. new \in Boards /\ c \in last /\ new[c] = s /\ \A d \in Cells : d # c => new[d] = board[d]
  BY MarkedBoard DEF Boards
<1>2. CASE evaluate_board(new) # NoWinner
  <2>1. Verdict(new) = evaluate_board(new) /\ Verdict(new) \in Marks
    BY <1>2, EvaluateBoardFirst DEF Verdict
  <2>2. CompleteLines(new) # {}
    BY <1>2 DEF evaluate_board
  <2>3. PICK k \in CompleteLines(new) : \A d \in Lines[k] : new[d] = evaluate_board(new)
    BY <2>2, WinnerHasLine
  <2>4. k \in DOMAIN Lines /\ Lines[k] \in SUBSET Cells
    BY BoardAssumption, LenProperties, ElementOfSeq DEF CompleteLines
  <2>5. c \in Lines[k]
    <3> SUFFICES ASSUME c \notin Lines[k] PROVE FALSE
      OBVIOUS
    <3>1. \A d \in Lines[k] : board[d] = evaluate_board(new)
      BY <1>1, <2>3, <2>4
    <3>2. k \in CompleteLines(board)
      BY <2>1, <2>4, <3>1 DEF CompleteLines, Complete
    <3> QED
      BY <3>2
  <2>6. Verdict(new) = s
    BY <1>1, <2>1, <2>3, <2>5
  <2>7. won
    BY <1>1, <2>2
  <2>8. Verdict(new) # "draw"
    BY <2>1 DEF Marks
  <2> QED
    BY <2>6, <2>7, <2>8 DEF FairMove
<1>3. CASE evaluate_board(new) = NoWinner
  <2>1. Verdict(new) = "draw" /\ CompleteLines(new) = {}
    BY <1>3, LineHasWinner DEF Verdict
  <2>2. Count(new, "X") + Count(new, "O") = Cardinality(Cells)
    BY <1>3 DEF Decided, Full
  <2>3. \A d \in Cells : new[d] # Blank
    BY <1>1, <2>2, FullBoard
  <2>4. last = {c}
    BY <1>1, <2>3
  <2>5. Cardinality(last) = 1
    BY <2>4, FS_Singleton
  <2>6. ~won
    BY <2>1, <2>4
  <2> QED
    BY <2>1, <2>5, <2>6 DEF FairMove
<1> QED
  BY <1>2, <1>3 DEF FairMove

LEMMA FairGame ==
  ASSUME IInv, GInv, NEW i \in Slots, Concluded(i), GameStep(i)
  PROVE  Match(i)!FairVerdict
<1> DEFINE bd == IF PhaseOf(i) = "playing" THEN heap[matches[i]].board ELSE EmptyBoard
           last == {d \in Cells : bd[d] = Match(i)!Blank}
           won == \E d \in last : Match(i)!CompleteLines([bd EXCEPT ![d] = Match(i)!ToMove(bd)]) # {}
<1> SUFFICES ASSUME ResultOf(i) = "", PhaseOf(i)' = "over", ResultOf(i)' # "left"
             PROVE  /\ ResultOf(i)' # "draw" => won /\ ResultOf(i)' = Match(i)!ToMove(bd)
                    /\ ResultOf(i)' = "draw" => Cardinality(last) = 1 /\ ~won
  <2>1. \A S : Match(i)!Cardinality(S) = Cardinality(S)
    BY Zenon DEF Match!Cardinality, Cardinality
  <2> QED
    BY <2>1 DEF Match!FairVerdict, ResultOf
<1>1. PICK b : b = bd
  OBVIOUS
<1>2. b = BoardOf(i)
  BY <1>1 DEF BoardOf
<1>3. PICK c \in Cells : Match(i)!Place(c)
  <2>1. ~ UNCHANGED Match(i)!gameVars
    BY DEF Match!gameVars, Concluded, ResultOf
  <2>2. ~(Match(i)!Open \/ Match(i)!Start \/ Match(i)!Undefined \/ Match(i)!Leave)
    BY DEF Match!Open, Match!Start, Match!Undefined, Match!Leave, ResultOf
  <2> QED
    BY <2>1, <2>2 DEF GameStep, Match!GameNext
<1>4. PICK s, new : s = ToMove(b) /\ new = [b EXCEPT ![c] = s]
  OBVIOUS
<1>5. s \in Marks
  BY <1>4 DEF ToMove, Marks
<1>6. /\ Match(i)!ToMove(b) = s /\ Match(i)!Blank = Blank /\ Match(i)!Outcome(new) = Verdict(new)
      /\ \A d, k : Match(i)!Decided(d, k) <=> Decided(d, k)
      /\ \A d, m : Match(i)!Count(d, m) = Count(d, m)
      /\ \A d : Match(i)!CompleteLines(d) = CompleteLines(d)
  BY <1>4, GameBoards
<1>7. /\ PhaseOf(i) = "playing" /\ b[c] = Match(i)!Blank
      /\ IF Match(i)!Decided([b EXCEPT ![c] = Match(i)!ToMove(b)],
                            Match(i)!Count([b EXCEPT ![c] = Match(i)!ToMove(b)], "X")
                              + Match(i)!Count([b EXCEPT ![c] = Match(i)!ToMove(b)], "O"))
         THEN ResultOf(i)' = Match(i)!Outcome([b EXCEPT ![c] = Match(i)!ToMove(b)])
         ELSE PhaseOf(i)' = PhaseOf(i)
  BY <1>1, <1>3, Zenon DEF Match!Place, ResultOf
<1>8. [b EXCEPT ![c] = Match(i)!ToMove(b)] = new
  BY <1>4, <1>6
<1>9. /\ IF Match(i)!Decided(new, Match(i)!Count(new, "X") + Match(i)!Count(new, "O"))
         THEN ResultOf(i)' = Match(i)!Outcome(new) ELSE PhaseOf(i)' = PhaseOf(i)
  BY <1>7, <1>8, Zenon
<1>10. /\ Decided(new, Count(new, "X") + Count(new, "O")) /\ ResultOf(i)' = Verdict(new)
       /\ b[c] = Blank /\ b \in Boards /\ CompleteLines(b) = {}
  <2>1. PhaseOf(i)' # PhaseOf(i)
    BY <1>7
  <2>2. b \in Boards /\ CompleteLines(b) = {}
    BY <1>2, <1>7, OpenFollows
  <2> QED
    BY <1>6, <1>7, <1>9, <2>1, <2>2
<1> DEFINE blank == {d \in Cells : b[d] = Blank}
           wins == \E d \in blank : CompleteLines([b EXCEPT ![d] = s]) # {}
<1>11. /\ Verdict(new) # "draw" => wins /\ Verdict(new) = s
       /\ Verdict(new) = "draw" => Cardinality(blank) = 1 /\ ~wins
  <2>1. FairMove(b, s, new)
    <3>1. PICK q \in Boards : q = b
      BY <1>10
    <3>2. new = [q EXCEPT ![c] = s] /\ q[c] = Blank /\ CompleteLines(q) = {}
      BY <1>4, <1>10, <3>1
    <3>3. FairMove(q, s, new)
      BY <1>5, <1>10, <3>2, LastMove
    <3> QED
      BY <3>1, <3>3
  <2> QED
    BY <2>1, Zenon DEF FairMove
<1>12. last = blank
  BY <1>1, <1>6
<1>13. won <=> wins
  BY <1>1, <1>6, <1>12
<1>14. Match(i)!ToMove(bd) = s
  BY <1>1, <1>6
<1> HIDE DEF bd, last, won, blank, wins
<1> QED
  BY <1>10, <1>11, <1>12, <1>13, <1>14

(* The winner announced is the player who has just moved, whichever of the *)
(* complete lines evaluate_board meets first; a draw fills the board and   *)
(* completes no line (server.c 433-469).                                   *)
THEOREM VerdictsAreFair == Spec => MoverWins
<1> DEFINE AllConcluded == \A i \in Slots : Concluded(i)
<1>1. Init => AllConcluded
  <2>1. ASSUME Init, NEW i \in Slots PROVE Concluded(i)
    BY <2>1, InitGames DEF Match!GameInit, Concluded
  <2> QED
    BY <2>1
<1>2. (IInv /\ GInv /\ Gone) /\ AllConcluded /\ [Next]_vars => AllConcluded'
  <2>1. ASSUME IInv, GInv, Gone, [Next]_vars, NEW i \in Slots, Concluded(i) PROVE Concluded(i)'
    BY <2>1, EachGame, GameConcludes
  <2> QED
    BY <2>1
<1>3. (IInv /\ GInv /\ Gone) /\ AllConcluded /\ [Next]_vars => \A i \in Slots : Match(i)!FairVerdict
  <2>1. ASSUME IInv, GInv, Gone, [Next]_vars, NEW i \in Slots, Concluded(i) PROVE Match(i)!FairVerdict
    BY <2>1, EachGame, FairGame
  <2> QED
    BY <2>1
<1>4. [](IInv /\ GInv /\ Gone) /\ []AllConcluded /\ [][Next]_vars => [][\A i \in Slots : Match(i)!FairVerdict]_vars
  BY <1>3, PTL
<1>5. Init /\ [](IInv /\ GInv /\ Gone) /\ [][Next]_vars => []AllConcluded
  BY <1>1, <1>2, PTL
<1> QED
  BY <1>4, <1>5, MatchesInOrder, PTL DEF Spec, MoverWins
-----------------------------------------------------------------------------
(***************************************************************************)
(* Nobody leaves.  Then every record keeps its players, and a client whose *)
(* pointer is not sound is in the lobby or on its way there: no move of it *)
(* is under way, and no frame gives it a turn that a GAME_OVER behind it   *)
(* does not take away.                                                     *)
(***************************************************************************)
Stale(pg, cq, sq) ==
  /\ Resting(pg, cq, sq) /\ ~Has(cq, {"MOVE"})
  /\ pg.turn \/ Has(sq, Plays) => Has(sq, {"GAME_OVER"})

Unfit == {"CLOSE", "MOVE_INCOMPLETE"}
Near == \A fd \in Fds : IsOpen(fd) =>
          link[client[fd].page] = "up" /\ ~Has(c2s[client[fd].page], Unfit)

Manned == \A a \in Addrs : Live(a) => Held(a, "X") /\ (heap[a].players = 2 => Held(a, "O"))

Owner(fd) == \E a \in Addrs : Owns(client[fd], a)
Idle(p) == Stale(page[p], c2s[p], s2c[p])
Idlers == \A fd \in Fds : IsOpen(fd) /\ client[fd].handshake /\ ~Owner(fd) => Idle(client[fd].page)

Staying == Near /\ Manned /\ Idlers
StayInv == Orders /\ Staying

(* A client with a sound pointer plays. *)
Player(fd, a, s, p) ==
  /\ Live(a) /\ Held(a, s) /\ Seat(a, s) = fd /\ PageAt(a, s) = p
  /\ client[fd].handshake /\ p \in Pages /\ link[p] = "up" /\ heap[a] \in MatchStates
  /\ heap[a].players = 2 => Held(a, Other(s)) /\ Talks(a, Other(s))
  /\ EngagedAt(a, s, p) /\ ~Resting(page[p], c2s[p], s2c[p])

LEMMA HeldTalks ==
  ASSUME StayInv, NEW a, NEW s \in Marks, Held(a, s)
  PROVE  Talks(a, s) /\ link[PageAt(a, s)] = "up"
<1>1. Seat(a, s) \in Fds /\ IsOpen(Seat(a, s))
  BY DEF Held, IsOpen
<1>2. link[client[Seat(a, s)].page] = "up"
  BY <1>1 DEF StayInv, Staying, Near
<1> QED
  BY <1>2 DEF Talks, PageAt

LEMMA PlayerFacts ==
  ASSUME StayInv, NEW fd \in Fds, IsOpen(fd), NEW a \in Addrs, Owns(client[fd], a)
  PROVE  \E s \in Marks : Player(fd, a, s, client[fd].page)
<1>0. TypeOK /\ Wired /\ Orderly
  BY OrdersFacts DEF StayInv
<1>1. Live(a) /\ client[fd].currentMatch = a /\ a # NULL
  BY ServerAssumption DEF Owns
<1>2. client[fd].seat \in Marks /\ Seat(a, client[fd].seat) = fd
  BY <1>0 DEF Wired, Pointers, PointerOK
<1>3. PICK s \in Marks : s = client[fd].seat
  BY <1>2
<1>4. Held(a, s) /\ PageAt(a, s) = client[fd].page
  BY <1>2, <1>3 DEF Held, IsPlayer, PageAt
<1>5. client[fd].handshake
  <2>1. client[fd].handshake \in BOOLEAN
    BY <1>0, ClientType DEF ClientStates
  <2> QED
    BY <1>0, <1>1, <2>1 DEF Wired, Greeting
<1>6. PICK p \in Pages : p = client[fd].page /\ link[p] = "up"
  BY <1>0, ClientType DEF StayInv, Staying, Near
<1>7. heap[a] \in MatchStates /\ MatchOK(a)
  BY <1>0, <1>1, MatchType DEF Orderly
<1>8. heap[a].players = 2 => Held(a, Other(s)) /\ Talks(a, Other(s))
  <2> SUFFICES ASSUME heap[a].players = 2 PROVE Held(a, Other(s)) /\ Talks(a, Other(s))
    OBVIOUS
  <2>1. Held(a, "X") /\ Held(a, "O")
    BY <1>1 DEF StayInv, Staying, Manned
  <2>2. PICK r \in Marks : r = Other(s) /\ Held(a, r)
    BY <1>3, <2>1 DEF Other, Marks
  <2> QED
    BY <2>2, HeldTalks
<1>9. EngagedAt(a, s, p)
  BY <1>4, <1>6, <1>7 DEF MatchOK
<1>10. ~Resting(page[p], c2s[p], s2c[p])
  <2> SUFFICES ASSUME Resting(page[p], c2s[p], s2c[p]) PROVE FALSE
    OBVIOUS
  <2>1. heap[a].players = 2 /\ ~Talks(a, Other(s))
    BY <1>9, Zenon DEF EngagedAt, Engaged
  <2> QED
    BY <1>8, <2>1
<1> QED
  BY <1>1, <1>2, <1>3, <1>4, <1>5, <1>6, <1>7, <1>8, <1>9, <1>10 DEF Player

(* Who asks for a match owns none; who sends a move owns one. *)
LEMMA AskerFacts ==
  ASSUME StayInv, NEW fd \in Fds, IsOpen(fd), Has(c2s[client[fd].page], Asks)
  PROVE  ~Owner(fd)
<1> SUFFICES ASSUME NEW a \in Addrs, Owns(client[fd], a) PROVE FALSE
  BY DEF Owner
<1>1. PICK s \in Marks : Player(fd, a, s, client[fd].page)
  BY PlayerFacts
<1> QED
  BY <1>1 DEF Player, Resting

LEMMA MoverFacts ==
  ASSUME StayInv, NEW fd \in Fds, IsOpen(fd), client[fd].handshake,
         Has(c2s[client[fd].page], {"MOVE"})
  PROVE  \E a \in Addrs, s \in Marks : /\ Owns(client[fd], a) /\ Player(fd, a, s, client[fd].page)
                                       /\ heap[a].players = 2
<1>1. PICK a \in Addrs : Owns(client[fd], a)
  BY DEF StayInv, Staying, Idlers, Owner, Idle, Stale
<1>2. PICK s \in Marks : Player(fd, a, s, client[fd].page)
  BY <1>1, PlayerFacts
<1>3. EngagedAt(a, s, client[fd].page) /\ heap[a].players \in {1, 2}
  BY <1>2 DEF Player, MatchStates
<1>4. heap[a].players # 1
  BY <1>3 DEF EngagedAt, Engaged, Token
<1> QED
  BY <1>1, <1>2, <1>3, <1>4

(* A frame at the head of a queue is in it. *)
LEMMA HeadHas ==
  ASSUME TypeOK, NEW p \in Pages, c2s[p] # <<>>
  PROVE  Has(c2s[p], {Head(c2s[p]).code})
<1>1. c2s[p] \in Seq(PageFrames)
  BY PageQueues
<1> QED
  BY <1>1, TailQueue
-----------------------------------------------------------------------------
(***************************************************************************)
(* Frames that are sent while every connection works.                      *)
(***************************************************************************)
(* The sends of a handler while both players are connected: all of them    *)
(* succeed, to the player they are meant for.                              *)
Fine(t) == t \in Traces /\ t.last = "ok" /\ ~t.stray /\ t.link = link

LEMMA FineSend ==
  ASSUME NEW t, Fine(t), NEW p \in Pages, link[p] = "up", NEW f \in ServerFrames,
         NEW u \in send(t, p, f)
  PROVE  Fine(u)
<1>1. t \in Traces /\ t.link[p] = "up"
  BY DEF Fine
<1>2. u \in Traces
  BY <1>1, SendType
<1>3. u = SendOk([t EXCEPT !.s2c[p] = Append(@, f)])
  BY <1>1 DEF send
<1>4. PICK v \in [link : [Pages -> Links], s2c : [Pages -> Seq(ServerFrames)], sent : Nat,
                  last : {"ok", "failed", "killed"}, stray : BOOLEAN] :
        v = [t EXCEPT !.s2c[p] = Append(@, f)]
  <2>1. t.s2c[p] \in Seq(ServerFrames)
    BY <1>1 DEF Traces
  <2>2. Append(t.s2c[p], f) \in Seq(ServerFrames)
    BY <2>1, AppendProperties
  <2> QED
    BY <1>1, <2>2 DEF Traces
<1>5. v.link = t.link /\ v.stray = t.stray
  BY <1>1, <1>4 DEF Traces
<1>6. u.link = v.link /\ u.stray = v.stray /\ u.last = "ok"
  BY <1>3, <1>4 DEF SendOk
<1> QED
  BY <1>2, <1>5, <1>6 DEF Fine

LEMMA FineThen ==
  ASSUME NEW ts, \A t \in ts : Fine(t), NEW clients \in ClientTables, NEW a, NEW mark,
         NEW to \in Fds, clients[to] # NoClient, IsPlayer(clients[to], a, mark),
         link[clients[to].page] = "up", NEW f \in ServerFrames
  PROVE  \A u \in ThenSend(ts, clients, a, mark, to, f) : Fine(u)
<1> SUFFICES ASSUME NEW u \in ThenSend(ts, clients, a, mark, to, f) PROVE Fine(u)
  OBVIOUS
<1>1. PICK t \in ts : \/ t.last = "ok" /\ u \in send_response(t, clients, a, mark, to, f)
                      \/ t.last # "ok" /\ u = t
  BY ThenSendResult
<1>2. Fine(t) /\ t \in Traces
  BY DEF Fine
<1>3. clients[to].page \in Pages
  BY DEF ClientTables, ClientStates
<1>4. CASE u \in send_response(t, clients, a, mark, to, f)
  <2>1. PICK v : v = [t EXCEPT !.stray = @ \/ ~IsPlayer(clients[to], a, mark)]
    OBVIOUS
  <2>2. u \in send(v, clients[to].page, f)
    BY <1>4, <2>1 DEF send_response
  <2>3. v.link = t.link /\ v.last = t.last /\ v.stray = (t.stray \/ ~IsPlayer(clients[to], a, mark))
    BY <1>2, <2>1 DEF Traces
  <2>4. v \in Traces
    <3>1. (t.stray \/ ~IsPlayer(clients[to], a, mark)) \in BOOLEAN
      OBVIOUS
    <3> QED
      BY <1>2, <2>1, <3>1 DEF Traces
  <2>5. Fine(v)
    BY <1>2, <2>3, <2>4 DEF Fine
  <2> QED
    BY <1>3, <2>2, <2>5, FineSend
<1> QED
  BY <1>1, <1>2, <1>4 DEF Fine

LEMMA FineTrace == TypeOK => Fine(Trace)
BY TraceType, TraceIs DEF Fine

(* The seat of a match that keeps its player. *)
LEMMA FineSeat ==
  ASSUME StayInv, NEW ts, \A t \in ts : Fine(t), NEW a, NEW s \in Marks, Held(a, s),
         NEW f \in ServerFrames
  PROVE  \A u \in ThenSend(ts, client, a, s, Seat(a, s), f) : Fine(u)
<1>1. TypeOK
  BY OrdersFacts DEF StayInv
<1>2. link[PageAt(a, s)] = "up" /\ client \in ClientTables
  BY <1>1, HeldTalks DEF TypeOK, ClientTables
<1>3. PICK to \in Fds : to = Seat(a, s) /\ client[to] # NoClient /\ IsPlayer(client[to], a, s)
  BY DEF Held, IsOpen
<1>4. link[client[to].page] = "up"
  BY <1>2, <1>3 DEF PageAt
<1> QED
  BY <1>2, <1>3, <1>4, FineThen
-----------------------------------------------------------------------------
(***************************************************************************)
(* No step of the server faults.                                           *)
(***************************************************************************)
(* Nothing goes wrong in a handler.                                        *)
LEMMA MoveOwner ==
  ASSUME StayInv, NEW fd \in Fds, NEW m \in [code : {"MOVE"}, player : Marks, message : Cells],
         Receive(fd, m)
  PROVE  \E a \in Addrs, s \in Marks :
           /\ a = client[fd].currentMatch /\ Owns(client[fd], a) /\ s = m.player
           /\ Player(fd, a, s, client[fd].page)
           /\ Held(a, s) /\ Held(a, Other(s)) /\ heap[a].players = 2
<1>0. TypeOK
  BY OrdersFacts DEF StayInv
<1>1. PICK p \in Pages : /\ p = client[fd].page /\ IsOpen(fd) /\ client[fd].handshake
                         /\ c2s[p] # <<>> /\ m = Head(c2s[p])
  BY <1>0, ClientType DEF Receive
<1>2. m.code = "MOVE"
  OBVIOUS
<1>3. Has(c2s[p], {"MOVE"})
  BY <1>0, <1>1, <1>2, HeadHas
<1>4. PICK a \in Addrs, s \in Marks :
        Owns(client[fd], a) /\ Player(fd, a, s, p) /\ heap[a].players = 2
  BY <1>1, <1>3, MoverFacts
<1>5. Held(a, s) /\ Held(a, Other(s)) /\ EngagedAt(a, s, p)
  BY <1>4 DEF Player
<1>6. m \in Queued(c2s[p])
  <2>1. c2s[p] \in Seq(PageFrames)
    BY <1>0, PageQueues
  <2> QED
    BY <1>1, <2>1, TailQueue
<1>7. m.player = s
  BY <1>2, <1>5, <1>6 DEF EngagedAt, Engaged
<1>8. a = client[fd].currentMatch
  BY <1>4 DEF Owns
<1> QED
  BY <1>1, <1>4, <1>5, <1>7, <1>8

LEMMA MoveCalm ==
  ASSUME StayInv, NEW fd \in Fds, NEW m \in [code : {"MOVE"}, player : Marks, message : Cells],
         move(fd, m)
  PROVE  Calm'
<1>0. TypeOK /\ fault = "none" /\ up
  BY OrdersFacts DEF StayInv
<1>1. Receive(fd, m)
  BY DEF move
<1>2. PICK a \in Addrs, s \in Marks :
           /\ a = client[fd].currentMatch /\ Owns(client[fd], a) /\ s = m.player
           /\ Held(a, s) /\ Held(a, Other(s)) /\ heap[a].players = 2
  BY <1>1, MoveOwner
<1> DEFINE match == heap[a]
           receiver == IF m.player = "X" THEN match.playerO ELSE match.playerX
           board == [match.board EXCEPT ![m.message] = m.player]
           decided == Decided(board, match.moves + 1)
           g == GameOver(Verdict(board))
           relayed == ThenSend({Trace}, client, a, Other(m.player), receiver, m)
           toX == ThenSend(relayed, client, a, "X", match.playerX, g)
           toO == ThenSend(toX, client, a, "O", match.playerO, g)
<1>3. PICK t \in (IF decided THEN toO ELSE relayed) :
        /\ PtrFault(client[fd], t)
        /\ KilledBySIGPIPE(t) \/ up' = up
  BY <1>2 DEF move
<1>4. m \in ServerFrames /\ g \in ServerFrames
  BY VerdictType, GameOverType DEF ServerFrames
<1>5. PICK r \in Marks : r = Other(s)
  BY DEF Other, Marks
<1>6. /\ receiver = Seat(a, r) /\ match.playerX = Seat(a, "X") /\ match.playerO = Seat(a, "O")
  BY <1>2, <1>5 DEF Seat, Other, Marks
<1>7. PICK x \in Marks, o \in Marks : x = "X" /\ o = "O"
  BY DEF Marks
<1>8. Held(a, x) /\ Held(a, o)
  BY <1>2, <1>5, <1>7 DEF Other, Marks
<1>9. relayed = ThenSend({Trace}, client, a, r, Seat(a, r), m)
  BY <1>2, <1>5, <1>6
<1>10. \A u \in {Trace} : Fine(u)
  BY <1>0, FineTrace
<1> HIDE DEF g, relayed, decided
<1>11. \A u \in relayed : Fine(u)
  BY <1>2, <1>4, <1>5, <1>9, <1>10, FineSeat
<1>12. toX = ThenSend(relayed, client, a, x, Seat(a, x), g)
  BY <1>6, <1>7
<1> HIDE DEF toX
<1>13. \A u \in toX : Fine(u)
  BY <1>4, <1>8, <1>11, <1>12, FineSeat
<1>14. toO = ThenSend(toX, client, a, o, Seat(a, o), g)
  BY <1>6, <1>7
<1> HIDE DEF toO
<1>15. \A u \in toO : Fine(u)
  BY <1>4, <1>8, <1>13, <1>14, FineSeat
<1>16. Fine(t)
  BY <1>3, <1>11, <1>15
<1>17. ~Aliasing(client[fd])
  BY <1>2 DEF Aliasing
<1>18. fault' = fault /\ up' = up
  BY <1>3, <1>16, <1>17 DEF PtrFault, KilledBySIGPIPE, Fine
<1> QED
  BY <1>0, <1>18 DEF Calm

LEMMA JoinCalm ==
  ASSUME StayInv, NEW fd \in Fds, NEW id \in Slots, join_match(fd, id)
  PROVE  Calm'
<1>0. TypeOK /\ RegistryInOrder /\ fault = "none" /\ up
  BY OrdersFacts DEF StayInv
<1>1. PICK p \in Pages : /\ p = client[fd].page /\ IsOpen(fd) /\ client[fd].handshake
                         /\ c2s[p] # <<>> /\ Head(c2s[p]).code = "JOIN_MATCH"
  BY <1>0, ClientType DEF join_match, Receive
<1>2. link[p] = "up"
  BY <1>1 DEF StayInv, Staying, Near
<1>3. Has(c2s[p], Asks)
  BY <1>0, <1>1, HeadHas DEF Has, Asks
<1>4. ~Owner(fd)
  BY <1>1, <1>3, AskerFacts
<1>5. CASE ~Joinable(id)
  <2>1. fault' = fault /\ up' = up
    BY <1>5 DEF join_match
  <2> QED
    BY <1>0, <2>1 DEF Calm
<1>6. CASE Joinable(id)
  <2>1. PICK a \in Addrs : a = matches[id] /\ Live(a) /\ heap[a].matchID = id
    BY <1>0, <1>6 DEF Joinable, RegistryInOrder, SlotsAreAllocated, TypeOK
  <2>2. Held(a, "X")
    BY <2>1 DEF StayInv, Staying, Manned
  <2>3. PICK x \in Fds : x = heap[a].playerX /\ IsOpen(x) /\ IsPlayer(client[x], a, "X")
    BY <2>2 DEF Held, IsOpen, Seat
  <2>4. x # fd
    BY <1>4, <2>1, <2>3 DEF Owner, IsPlayer
  <2>5. link[client[x].page] = "up"
    BY <2>3 DEF StayInv, Staying, Near
  <2>6. PICK f \in ServerFrames : f = [code |-> "MATCH_JOINED", mid |-> id]
    BY SlotType DEF ServerFrames
  <2>7. PICK clients \in ClientTables : clients = [client EXCEPT ![fd] = Seated(@, a, id, "O")]
    <3>1. Seated(client[fd], a, id, "O") \in ClientStates
      BY <1>0, <1>1, ClientType, SlotType, SeatedType DEF Marks
    <3> QED
      BY <1>0, <3>1 DEF TypeOK, ClientTables
  <2>8. clients[x] = client[x] /\ clients[fd] = Seated(client[fd], a, id, "O")
    BY <1>0, <2>4, <2>7 DEF TypeOK
  <2>9. IsPlayer(clients[fd], a, "O") /\ clients[fd].page = p
    <3>1. PICK c \in ClientStates : c = client[fd]
      BY <1>0, <1>1, ClientType
    <3>2. PICK d : d = [c EXCEPT !.currentMatch = a, !.meant = id, !.seat = "O"]
      OBVIOUS
    <3>3. d.seat = "O" /\ d.page = c.page /\ d.currentMatch = a /\ d.meant = id
      BY <3>2 DEF ClientStates
    <3>4. clients[fd] = d
      BY <2>8, <3>1, <3>2 DEF Seated
    <3> QED
      BY <1>1, <2>1, <3>1, <3>3, <3>4 DEF IsPlayer, Owns
  <2>10. clients[fd] # NoClient
    BY <1>0, <1>1, <2>8, ClientType, SlotType, SeatedType, OpenClient DEF Marks
  <2> DEFINE joined == send(Trace, p, f)
             toX == ThenSend(joined, clients, a, "X", x, InitBoard)
             toO == ThenSend(toX, clients, a, "O", fd, InitBoard)
  <2>11. PICK t \in toO : StrayFault(t) /\ (KilledBySIGPIPE(t) \/ up' = up)
    BY <1>1, <1>6, <2>1, <2>3, <2>6, <2>7 DEF join_match
  <2>12. InitBoard \in ServerFrames
    BY DEF InitBoard, ServerFrames
  <2>13. \A u \in joined : Fine(u)
    BY <1>0, <1>2, FineTrace, FineSend
  <2> HIDE DEF joined
  <2>14. clients[x] # NoClient /\ IsPlayer(clients[x], a, "X") /\ link[clients[x].page] = "up"
    BY <2>3, <2>5, <2>8 DEF IsOpen
  <2>20. PICK second, first : second = "O" /\ first = "X"
    OBVIOUS
  <2>15. \A u \in toX : Fine(u)
    <3>1. toX = ThenSend(joined, clients, a, first, x, InitBoard) /\ IsPlayer(clients[x], a, first)
      BY <2>14, <2>20
    <3> HIDE DEF toX
    <3> QED
      BY <2>12, <2>13, <2>14, <3>1, FineThen
  <2> HIDE DEF toX
  <2>16. \A u \in toO : Fine(u)
    <3>1. toO = ThenSend(toX, clients, a, second, fd, InitBoard) /\ IsPlayer(clients[fd], a, second)
      BY <2>9, <2>20
    <3>2. link[clients[fd].page] = "up"
      BY <1>2, <2>9
    <3> HIDE DEF toO
    <3> QED
      BY <2>10, <2>12, <2>15, <3>1, <3>2, FineThen
  <2>17. Fine(t)
    BY <2>11, <2>16
  <2>18. fault' = fault /\ up' = up
    BY <2>11, <2>17 DEF StrayFault, KilledBySIGPIPE, Fine
  <2> QED
    BY <1>0, <2>18 DEF Calm
<1> QED
  BY <1>5, <1>6

LEMMA ServerCalm ==
  ASSUME MaxIds = MaxMatches, StayInv, ServerNext
  PROVE  /\ Calm'
         /\ \A fd \in Fds : ~close_frame(fd) /\ ~undefined_behaviour(fd) /\ ~PeerGone(fd)
<1>0. TypeOK /\ fault = "none" /\ up /\ match_id \in Nat
  BY OrdersFacts DEF StayInv
<1>1. ASSUME NEW fd \in Fds, IsOpen(fd)
      PROVE  /\ client[fd].page \in Pages /\ link[client[fd].page] = "up"
             /\ c2s[client[fd].page] # <<>> => Head(c2s[client[fd].page]).code \notin Unfit
  <2>1. client[fd].page \in Pages /\ link[client[fd].page] = "up" /\ ~Has(c2s[client[fd].page], Unfit)
    BY <1>0, <1>1, ClientType DEF StayInv, Staying, Near
  <2> QED
    BY <1>0, <2>1, HeadHas DEF Has
<1>2. ASSUME NEW fd \in Fds PROVE ~PeerGone(fd)
  BY <1>1 DEF PeerGone, HungUp
<1>3. ASSUME NEW fd \in Fds PROVE ~close_frame(fd)
  <2> SUFFICES ASSUME close_frame(fd) PROVE FALSE
    OBVIOUS
  <2>1. /\ IsOpen(fd) /\ c2s[client[fd].page] # <<>>
        /\ Head(c2s[client[fd].page]).code = "CLOSE"
    BY DEF close_frame, Receive
  <2> QED
    BY <1>1, <2>1 DEF Unfit
<1>4. ASSUME NEW fd \in Fds PROVE ~undefined_behaviour(fd)
  <2> SUFFICES ASSUME undefined_behaviour(fd) PROVE FALSE
    OBVIOUS
  <2>1. /\ IsOpen(fd) /\ client[fd].handshake /\ c2s[client[fd].page] # <<>>
        /\ \/ Head(c2s[client[fd].page]).code \in {"MOVE", "CLOSE"} /\ Dangling(client[fd])
           \/ Head(c2s[client[fd].page]).code = "MOVE" /\ client[fd].currentMatch = NULL
           \/ Head(c2s[client[fd].page]).code = "MOVE_INCOMPLETE"
    BY DEF undefined_behaviour
  <2>2. Head(c2s[client[fd].page]).code = "MOVE"
    BY <1>1, <2>1 DEF Unfit
  <2>3. Has(c2s[client[fd].page], {"MOVE"})
    BY <1>0, <1>1, <2>1, <2>2, HeadHas
  <2>4. PICK a \in Addrs : Owns(client[fd], a)
    BY <2>1, <2>3, MoverFacts
  <2>5. Live(client[fd].currentMatch) /\ client[fd].currentMatch # NULL
    BY <2>4, ServerAssumption DEF Owns
  <2> QED
    BY <2>1, <2>2, <2>5 DEF Dangling
<1>5. ASSUME NEW fd \in Fds, create_match(fd) PROVE Calm'
  <2>1. match_id \in Slots
    BY <1>0, <1>5, ServerAssumption DEF create_match, Slots
  <2>2. up' = up /\ fault' = fault
    BY <1>5, <2>1 DEF create_match
  <2> QED
    BY <1>0, <2>2 DEF Calm
<1>6. ASSUME NEW p \in Pages, Accept(p) PROVE Calm'
  BY <1>0, <1>6 DEF Accept, Calm
<1>7. ASSUME NEW fd \in Fds, Handshake(fd) PROVE Calm'
  BY <1>0, <1>7 DEF Handshake, Calm
<1>8. ASSUME NEW c \in Cells, NEW s \in Marks
      PROVE  [code |-> "MOVE", player |-> s, message |-> c]
               \in [code : {"MOVE"}, player : Marks, message : Cells]
  OBVIOUS
<1>9. Calm'
  BY <1>2, <1>3, <1>4, <1>5, <1>6, <1>7, <1>8, MoveCalm, JoinCalm DEF ServerNext, handle
<1> QED
  BY <1>2, <1>3, <1>4, <1>9
-----------------------------------------------------------------------------
(***************************************************************************)
(* The steps of a page.                                                    *)
(***************************************************************************)
(* What a page that is stale does next leaves it stale.                    *)
LEMMA StaleMessage ==
  ASSUME NEW pg \in PageStates, NEW cq \in Seq(PageFrames), NEW sq \in Seq(ServerFrames),
         sq # <<>>, Convo(pg, cq, sq), Stale(pg, cq, sq)
  PROVE  Stale(AfterFrame(pg, Head(sq)), cq, Tail(sq))
<1>1. PICK h, r : h = Head(sq) /\ r = Tail(sq)
  OBVIOUS
<1>2. /\ h \in ServerFrames /\ r \in Seq(ServerFrames)
      /\ \A codes : Has(sq, codes) <=> h.code \in codes \/ Has(r, codes)
      /\ \A codes : OnlyLast(sq, codes) =>
              OnlyLast(r, codes) /\ (h.code \in codes => r = <<>>)
      /\ Len(sq) = 1 => r = <<>>
  BY <1>1, TailQueue
<1>3. h.code \in Refusals \cup Tells \cup Plays \cup {"GAME_OVER", "REJECT"}
  BY <1>2, FrameCodes
<1>4. PICK new : new = AfterFrame(pg, h)
  OBVIOUS
<1>5. /\ h.code \in Refusals => new.lobby /\ new.turn = pg.turn
      /\ h.code \in Tells => new.lobby = pg.lobby /\ new.turn = pg.turn
      /\ h.code = "MOVE" => new.lobby = pg.lobby
      /\ h.code = "INIT_BOARD" => new.lobby = pg.lobby
      /\ h.code = "GAME_OVER" => new.lobby /\ ~new.turn
      /\ h.code = "REJECT" => new = pg
  BY <1>2, <1>4, AfterFrameFields DEF Cleared
<1>6. /\ ~pg.lobby /\ ~Has(cq, {"MOVE"}) /\ (Has(cq, Asks) \/ Has(sq, Ends))
      /\ pg.turn \/ Has(sq, Plays) => Has(sq, {"GAME_OVER"})
      /\ ~Has(cq, Asks)
      /\ Has(sq, Refusals) => Len(sq) = 1 /\ ~pg.turn
      /\ OnlyLast(sq, Ends)
  BY DEF Stale, Resting, Convo, Cleared
<1>7. \A codes : ~Has(<<>>, codes)
  BY EmptyQueue
<1>8. CASE h.code \in Ends
  <2>1. r = <<>> /\ new.lobby
    BY <1>2, <1>5, <1>6, <1>8 DEF Ends
  <2>2. ~new.turn
    BY <1>2, <1>5, <1>6, <1>8 DEF Ends
  <2>3. ~Has(r, Plays)
    BY <1>7, <2>1
  <2> QED
    BY <1>1, <1>4, <1>6, <2>1, <2>2, <2>3 DEF Stale, Resting
<1>9. CASE h.code \notin Ends
  <2>1. Has(r, Ends)
    BY <1>2, <1>6, <1>9
  <2>2. h.code # "GAME_OVER" /\ h.code \notin Refusals
    BY <1>9 DEF Ends
  <2>3. Has(sq, {"GAME_OVER"}) => Has(r, {"GAME_OVER"})
    BY <1>2, <2>2
  <2>4. h.code \in Plays => Has(r, {"GAME_OVER"})
    BY <1>2, <1>6, <2>3
  <2>5. h.code \notin Plays => new.turn = pg.turn
    BY <1>3, <1>5, <2>2 
  <2>6. Has(r, Plays) => Has(sq, Plays)
    BY <1>2
  <2> QED
    BY <1>1, <1>4, <1>6, <2>1, <2>3, <2>4, <2>5, <2>6 DEF Stale, Resting
<1> QED
  BY <1>8, <1>9

LEMMA StaleAsks ==
  ASSUME NEW pg \in PageStates, NEW cq \in Seq(PageFrames), NEW sq \in Seq(ServerFrames),
         pg.lobby, Convo(pg, cq, sq), Stale(pg, cq, sq), NEW f \in PageFrames,
         f.code \in Asks, NEW mark \in Marks
  PROVE  Stale(Asking(pg, mark), Append(cq, f), sq)
<1>1. PICK r : r = Append(cq, f)
  OBVIOUS
<1>2. \A codes : Has(r, codes) <=> Has(cq, codes) \/ f.code \in codes
  BY <1>1, AppendQueue
<1>3. f.code # "MOVE"
  BY DEF Asks
<1>4. Has(r, Asks) /\ ~Has(r, {"MOVE"})
  BY <1>2, <1>3 DEF Stale
<1>5. ~pg.turn /\ sq = <<>>
  BY DEF Convo, Cleared
<1>6. Asking(pg, mark).turn = pg.turn
  BY DEF Asking, PageStates
<1>7. ~Has(sq, Plays)
  BY <1>5, EmptyQueue
<1> QED
  BY <1>1, <1>4, <1>5, <1>6, <1>7 DEF Stale, Resting

(* The clients whose page does not change.                                 *)
LEMMA OwnerSame ==
  ASSUME UNCHANGED <<client, heap>>, NEW g
  PROVE  Owner(g)' <=> Owner(g)
BY DEF Owner, Owns, Live

LEMMA PageStaying ==
  ASSUME StayInv, UNCHANGED serverVars, NEW p \in Pages, \A r \in Pages : r # p => SameAt(r),
         \A fd \in Fds : IsOpen(fd) /\ client[fd].page = p =>
           /\ link'[p] = "up" /\ ~Has(c2s'[p], Unfit)
           /\ client[fd].handshake /\ ~Owner(fd) => Idle(p)'
  PROVE  Staying'
<1>0. TypeOK
  BY OrdersFacts DEF StayInv
<1>1. UNCHANGED <<client, heap>>
  BY DEF serverVars
<1>2. Manned'
  <2> SUFFICES ASSUME NEW a \in Addrs, Live(a) PROVE Held(a, "X")' /\ (heap[a].players = 2 => Held(a, "O")')
    BY <1>1 DEF Manned, Live
  <2>1. Held(a, "X") /\ (heap[a].players = 2 => Held(a, "O"))
    BY DEF StayInv, Staying, Manned
  <2>2. \A s : Held(a, s)' <=> Held(a, s)
    BY <1>1 DEF Held, IsOpen, IsPlayer, Owns, Live, Seat
  <2> QED
    BY <2>1, <2>2
<1>3. ASSUME NEW fd \in Fds, IsOpen(fd), NEW q \in Pages, q = client[fd].page
      PROVE  /\ link'[q] = "up" /\ ~Has(c2s'[q], Unfit)
             /\ client[fd].handshake /\ ~Owner(fd) => Idle(q)'
  <2>1. CASE q = p
    BY <1>3, <2>1
  <2>2. CASE q # p
    <3>1. SameAt(q)
      BY <2>2
    <3>2. /\ link[q] = "up" /\ ~Has(c2s[q], Unfit)
          /\ client[fd].handshake /\ ~Owner(fd) => Idle(q)
      BY <1>3 DEF StayInv, Staying, Near, Idlers
    <3>3. Idle(q)' <=> Idle(q)
      BY <3>1 DEF SameAt, Idle
    <3> QED
      BY <3>1, <3>2, <3>3 DEF SameAt
  <2> QED
    BY <2>1, <2>2
<1>4. ASSUME NEW fd \in Fds, IsOpen(fd)'
      PROVE  \E q \in Pages : /\ q = client'[fd].page /\ link'[q] = "up" /\ ~Has(c2s'[q], Unfit)
                              /\ client'[fd].handshake /\ ~Owner(fd)' => Idle(q)'
  <2>1. IsOpen(fd) /\ (Owner(fd)' <=> Owner(fd)) /\ client' = client
    BY <1>1, <1>4, OwnerSame DEF IsOpen
  <2>2. PICK q \in Pages : q = client[fd].page
    BY <1>0, <2>1, ClientType
  <2> QED
    BY <1>3, <2>1, <2>2
<1>5. Near' /\ Idlers'
  BY <1>4 DEF Near, Idlers
<1> QED
  BY <1>2, <1>5 DEF Staying

(* The page of a client that has shaken hands, and of one that has not.    *)
LEMMA ClientPage ==
  ASSUME StayInv, NEW p \in Pages, NEW fd \in Fds, IsOpen(fd), client[fd].page = p
  PROVE  /\ link[p] = "up" /\ ~Has(c2s[p], Unfit) /\ Convo(page[p], c2s[p], s2c[p])
         /\ client[fd].handshake /\ ~Owner(fd) => Idle(p)
         /\ ~client[fd].handshake => page[p] = FreshPage
         /\ Owner(fd) => \E a \in Addrs, s \in Marks : Player(fd, a, s, p)
<1>0. TypeOK /\ Wired
  BY OrdersFacts DEF StayInv
<1>1. link[p] = "up" /\ ~Has(c2s[p], Unfit) /\ (client[fd].handshake /\ ~Owner(fd) => Idle(p))
  BY DEF StayInv, Staying, Near, Idlers
<1>2. Convo(page[p], c2s[p], s2c[p])
  BY <1>0, <1>1 DEF Wired, Rests
<1>3. ~client[fd].handshake => page[p] = FreshPage
  BY <1>0 DEF Wired, Greeting, Greets
<1>4. Owner(fd) => \E a \in Addrs, s \in Marks : Player(fd, a, s, p)
  BY PlayerFacts DEF Owner
<1> QED
  BY <1>1, <1>2, <1>3, <1>4
-----------------------------------------------------------------------------
LEMMA MessageStays ==
  ASSUME StayInv, NEW p \in Pages, onmessage(p), UNCHANGED serverVars
  PROVE  Staying'
<1>0. TypeOK
  BY OrdersFacts DEF StayInv
<1>1. /\ s2c[p] # <<>> /\ link' = link /\ c2s' = c2s
      /\ s2c'[p] = Tail(s2c[p]) /\ page'[p] = AfterFrame(page[p], Head(s2c[p]))
  BY <1>0 DEF onmessage, TypeOK
<1>2. \A r \in Pages : r # p => SameAt(r)
  BY <1>0 DEF onmessage, TypeOK, SameAt
<1>3. ASSUME NEW fd \in Fds, IsOpen(fd), client[fd].page = p
      PROVE  /\ link'[p] = "up" /\ ~Has(c2s'[p], Unfit)
             /\ client[fd].handshake /\ ~Owner(fd) => Idle(p)'
  <2>1. /\ link[p] = "up" /\ ~Has(c2s[p], Unfit) /\ Convo(page[p], c2s[p], s2c[p])
        /\ client[fd].handshake /\ ~Owner(fd) => Stale(page[p], c2s[p], s2c[p])
    BY <1>3, ClientPage DEF Idle
  <2>2. Stale(page[p], c2s[p], s2c[p]) => Stale(page'[p], c2s'[p], s2c'[p])
    BY <1>0, <1>1, <2>1, PageQueues, StaleMessage
  <2> QED
    BY <1>1, <2>1, <2>2 DEF Idle
<1> QED
  BY <1>2, <1>3, PageStaying

LEMMA AskStays ==
  ASSUME StayInv, NEW p \in Pages, create_click(p) \/ \E id \in Ids : join_click(p, id),
         UNCHANGED serverVars
  PROVE  Staying'
<1>0. TypeOK
  BY OrdersFacts DEF StayInv
<1>1. PICK f \in PageFrames, mark \in Marks :
        /\ f.code \in Asks /\ page[p].lobby /\ page' = [page EXCEPT ![p] = Asking(@, mark)]
        /\ socket_send(p, f) /\ UNCHANGED <<link, s2c>>
  <2>1. CASE create_click(p)
    <3>1. PICK f \in PageFrames : f = [code |-> "CREATE_MATCH"]
      BY DEF PageFrames
    <3>2. f.code \in Asks /\ "X" \in Marks
      BY <3>1 DEF Asks, Marks
    <3> QED
      BY <2>1, <3>1, <3>2 DEF create_click
  <2>2. CASE \E id \in Ids : join_click(p, id)
    <3>1. PICK id \in Ids : join_click(p, id)
      BY <2>2
    <3>2. PICK f \in PageFrames : f = [code |-> "JOIN_MATCH", message |-> id]
      BY DEF PageFrames
    <3>3. f.code \in Asks /\ "O" \in Marks
      BY <3>2 DEF Asks, Marks
    <3> QED
      BY <3>1, <3>2, <3>3 DEF join_click
  <2> QED
    BY <2>1, <2>2
<1>2. \A r \in Pages : r # p => SameAt(r)
  BY <1>0, <1>1 DEF socket_send, TypeOK, SameAt
<1>3. page'[p] = Asking(page[p], mark) /\ link' = link /\ s2c' = s2c
  BY <1>0, <1>1 DEF TypeOK
<1>4. ASSUME NEW fd \in Fds, IsOpen(fd), client[fd].page = p
      PROVE  /\ link'[p] = "up" /\ ~Has(c2s'[p], Unfit)
             /\ client[fd].handshake /\ ~Owner(fd) => Idle(p)'
  <2>1. /\ link[p] = "up" /\ ~Has(c2s[p], Unfit) /\ Convo(page[p], c2s[p], s2c[p])
        /\ client[fd].handshake /\ ~Owner(fd) => Stale(page[p], c2s[p], s2c[p])
    BY <1>4, ClientPage DEF Idle
  <2>2. c2s'[p] = Append(c2s[p], f)
    BY <1>0, <1>1, <2>1 DEF socket_send, TypeOK
  <2>3. ~Has(c2s'[p], Unfit)
    <3>1. f.code \notin Unfit
      BY <1>1 DEF Asks, Unfit
    <3>2. PICK q \in Seq(PageFrames) : q = c2s[p]
      BY <1>0, PageQueues
    <3> QED
      BY <2>1, <2>2, <3>1, <3>2, AppendQueue
  <2>4. Stale(page[p], c2s[p], s2c[p]) => Stale(page'[p], c2s'[p], s2c'[p])
    BY <1>0, <1>1, <1>3, <2>1, <2>2, PageQueues, StaleAsks
  <2> QED
    BY <1>3, <2>1, <2>3, <2>4 DEF Idle
<1> QED
  BY <1>2, <1>4, PageStaying

(* Only the player of a match can click, and its page knows who it is.     *)
LEMMA ClickStays ==
  ASSUME StayInv, NEW p \in Pages, Prompt(p), NEW c \in Cells, handleMove(p, c),
         UNCHANGED serverVars
  PROVE  Staying'
<1>0. TypeOK
  BY OrdersFacts DEF StayInv
<1>1. PICK f \in PageFrames :
        /\ page[p].player # Undef /\ page[p].mid # NoId => f.code = "MOVE"
        /\ socket_send(p, f)
  <2>1. CASE page[p].player # Undef /\ page[p].mid # NoId
    <3>1. page[p].player \in Marks
      BY <1>0, <2>1 DEF TypeOK, PageStates
    <3>2. [code |-> "MOVE", player |-> page[p].player, message |-> c] \in PageFrames
      BY <3>1 DEF PageFrames
    <3> QED
      BY <2>1, <3>2 DEF handleMove
  <2>2. CASE ~(page[p].player # Undef /\ page[p].mid # NoId)
    <3>1. [code |-> "MOVE_INCOMPLETE"] \in PageFrames
      BY DEF PageFrames
    <3> QED
      BY <2>2, <3>1 DEF handleMove
  <2> QED
    BY <2>1, <2>2
<1>2. page[p].turn /\ page' = [page EXCEPT ![p] = Clicked(@, c)] /\ UNCHANGED <<link, s2c>>
  BY DEF handleMove
<1>3. \A r \in Pages : r # p => SameAt(r)
  BY <1>0, <1>1, <1>2 DEF socket_send, TypeOK, SameAt
<1>4. ASSUME NEW fd \in Fds, IsOpen(fd), client[fd].page = p
      PROVE  /\ link'[p] = "up" /\ ~Has(c2s'[p], Unfit)
             /\ client[fd].handshake /\ ~Owner(fd) => Idle(p)'
  <2>1. /\ link[p] = "up" /\ ~Has(c2s[p], Unfit) /\ Convo(page[p], c2s[p], s2c[p])
        /\ client[fd].handshake /\ ~Owner(fd) => Stale(page[p], c2s[p], s2c[p])
        /\ ~client[fd].handshake => page[p] = FreshPage
        /\ Owner(fd) => \E a \in Addrs, s \in Marks : Player(fd, a, s, p)
    BY <1>4, ClientPage DEF Idle
  <2>2. client[fd].handshake
    BY <1>2, <2>1, FreshPageIdle
  <2>3. ~Has(s2c[p], {"GAME_OVER"})
    BY DEF Prompt, Positions, Has, Queued
  <2>4. Owner(fd)
    BY <1>2, <2>1, <2>2, <2>3 DEF Stale
  <2>5. PICK a \in Addrs, s \in Marks : Player(fd, a, s, p)
    BY <2>1, <2>4
  <2>6. /\ Engaged(page[p], c2s[p], s2c[p], link[p], heap[a], s, Talks(a, Other(s)))
        /\ ~Resting(page[p], c2s[p], s2c[p]) /\ heap[a] \in MatchStates
    BY <2>5 DEF Player, EngagedAt
  <2>7. s2c[p] = <<>>
    BY <1>2, <2>6 DEF Engaged
  <2>8. page[p].player = s /\ (Has(s2c[p], Tells) \/ page[p].mid = heap[a].matchID)
    BY <2>1, <2>6 DEF Engaged
  <2>9. page[p].mid = heap[a].matchID
    BY <2>7, <2>8, EmptyQueue
  <2>10. page[p].player # Undef /\ page[p].mid # NoId
    BY <2>6, <2>8, <2>9 DEF MatchStates, MatchIds, NoId, Undef, Marks
  <2>11. f.code \notin Unfit
    BY <1>1, <2>10 DEF Unfit
  <2>12. c2s'[p] = Append(c2s[p], f)
    BY <1>0, <1>1, <2>1 DEF socket_send, TypeOK
  <2>13. ~Has(c2s'[p], Unfit)
    <3>1. PICK q \in Seq(PageFrames) : q = c2s[p]
      BY <1>0, PageQueues
    <3> QED
      BY <2>1, <2>11, <2>12, <3>1, AppendQueue
  <2> QED
    BY <1>2, <2>1, <2>4, <2>13
<1> QED
  BY <1>3, <1>4, PageStaying

(* The pages of no client.                                                 *)
LEMMA ElsewhereStays ==
  ASSUME StayInv, NEW p \in Pages, Connect(p) \/ onclose(p), UNCHANGED serverVars
  PROVE  Staying'
<1>0. TypeOK
  BY OrdersFacts DEF StayInv
<1>1. link[p] # "up"
  BY DEF Connect, onclose
<1>2. \A r \in Pages : r # p => SameAt(r)
  <2>1. CASE Connect(p)
    BY <1>0, <2>1 DEF Connect, TypeOK, SameAt, pageVars
  <2>2. CASE onclose(p)
    BY <1>0, <2>2 DEF onclose, TypeOK, SameAt
  <2> QED
    BY <2>1, <2>2
<1>3. \A fd \in Fds : IsOpen(fd) => client[fd].page # p
  BY <1>1, ClientPage
<1> QED
  BY <1>2, <1>3, PageStaying
-----------------------------------------------------------------------------
(***************************************************************************)
(* The steps of the server: accepting, the handshake.                      *)
(***************************************************************************)
Fit(fd) ==
  /\ link[client[fd].page] = "up" /\ ~Has(c2s[client[fd].page], Unfit)
  /\ client[fd].handshake /\ ~Owner(fd) => Idle(client[fd].page)

LEMMA StayingIs ==
  ASSUME Manned', \A fd \in Fds : IsOpen(fd)' => Fit(fd)'
  PROVE  Staying'
BY DEF Staying, Near, Idlers, Fit

LEMMA KeptClient ==
  ASSUME StayInv, NEW g \in Fds, IsOpen(g), client'[g] = client[g], NEW q, q = client[g].page,
         SameAt(q), Owner(g) => Owner(g)'
  PROVE  Fit(g)'
<1>1. /\ link[q] = "up" /\ ~Has(c2s[q], Unfit)
      /\ client[g].handshake /\ ~Owner(g) => Idle(q)
  BY DEF StayInv, Staying, Near, Idlers
<1>2. Idle(q)' <=> Idle(q)
  BY DEF SameAt, Idle
<1>3. link'[q] = "up" /\ ~Has(c2s'[q], Unfit)
  BY <1>1 DEF SameAt
<1>4. client'[g].page = q /\ (client'[g].handshake <=> client[g].handshake)
  OBVIOUS
<1>5. client'[g].handshake /\ ~Owner(g)' => Idle(q)'
  BY <1>1, <1>2, <1>4
<1> QED
  BY <1>3, <1>4, <1>5 DEF Fit

(* A record that stays keeps the players whose clients stay.               *)
LEMMA KeptSeat ==
  ASSUME NEW a, Live(a), Live(a)', heap'[a].matchID = heap[a].matchID, NEW s,
         Seat(a, s)' = Seat(a, s), Held(a, s),
         Owns(client[Seat(a, s)], a) => client'[Seat(a, s)] = client[Seat(a, s)]
  PROVE  Held(a, s)'
<1>1. PICK g : g = Seat(a, s)
  OBVIOUS
<1>2. IsOpen(g) /\ Owns(client[g], a) /\ client[g].seat = s /\ client'[g] = client[g]
  BY <1>1 DEF Held, IsPlayer
<1>3. IsOpen(g)' /\ Owns(client[g], a)'
  BY <1>2 DEF IsOpen, Owns
<1> QED
  BY <1>1, <1>2, <1>3 DEF Held, IsPlayer

LEMMA KeptOwner ==
  ASSUME NEW g, client'[g] = client[g], NEW a \in Addrs, Owns(client[g], a), Live(a)',
         heap'[a].matchID = heap[a].matchID
  PROVE  Owner(g)'
BY DEF Owner, Owns

(* The matches are as before, and so is every client but fd.               *)
LEMMA OthersStay ==
  ASSUME StayInv, heap' = heap, NEW fd \in Fds, IsOpen(fd) => ~Owner(fd), NEW p \in Pages,
         \A g \in Fds : g # fd => client'[g] = client[g],
         \A g \in Fds : g # fd /\ IsOpen(g) => client[g].page # p,
         \A r \in Pages : r # p => SameAt(r),
         IsOpen(fd)' => Fit(fd)'
  PROVE  Staying'
<1>0. TypeOK
  BY OrdersFacts DEF StayInv
<1>1. Manned'
  <2> SUFFICES ASSUME NEW a \in Addrs, Live(a)' PROVE Held(a, "X")' /\ (heap'[a].players = 2 => Held(a, "O")')
    BY DEF Manned
  <2>1. Live(a)
    BY DEF Live
  <2>2. Held(a, "X") /\ (heap[a].players = 2 => Held(a, "O"))
    BY <2>1 DEF StayInv, Staying, Manned
  <2>3. ASSUME NEW s, Held(a, s) PROVE Held(a, s)'
    <3>1. Seat(a, s) \in Fds /\ IsOpen(Seat(a, s)) /\ Owns(client[Seat(a, s)], a)
      BY <2>3 DEF Held, IsOpen, IsPlayer
    <3>2. Seat(a, s) # fd
      BY <3>1 DEF Owner
    <3>3. Seat(a, s)' = Seat(a, s)
      BY DEF Seat
    <3> QED
      BY <2>1, <2>3, <3>1, <3>2, <3>3, KeptSeat
  <2> QED
    BY <2>2, <2>3
<1>2. ASSUME NEW g \in Fds, IsOpen(g)', g # fd PROVE Fit(g)'
  <2>1. IsOpen(g) /\ client'[g] = client[g]
    BY <1>2 DEF IsOpen
  <2>2. PICK q \in Pages : q = client[g].page /\ q # p
    BY <1>0, <1>2, <2>1, ClientType
  <2>3. Owner(g) => Owner(g)'
    BY <2>1 DEF Owner, Owns, Live
  <2> QED
    BY <2>1, <2>2, <2>3, KeptClient
<1> QED
  BY <1>1, <1>2, StayingIs

LEMMA AcceptStays ==
  ASSUME StayInv, NEW p \in Pages, Accept(p), UNCHANGED pageVars
  PROVE  Staying'
<1>0. TypeOK /\ Wired
  BY OrdersFacts DEF StayInv
<1>1. /\ link[p] = "syn" /\ link'[p] = "up" /\ c2s' = c2s /\ s2c' = s2c /\ heap' = heap /\ page' = page
      /\ \A r \in Pages : r # p => link'[r] = link[r]
  BY <1>0 DEF Accept, TypeOK, pageVars
<1>2. PICK fd \in Fds : ~IsOpen(fd) /\ client' = [client EXCEPT ![fd] = createClient(p)]
  BY DEF Accept
<1>3. \A g \in Fds : g # fd => client'[g] = client[g]
  BY <1>0, <1>2 DEF TypeOK
<1>4. \A g \in Fds : g # fd /\ IsOpen(g) => client[g].page # p
  BY <1>1, ClientPage
<1>5. \A r \in Pages : r # p => SameAt(r)
  BY <1>1 DEF SameAt
<1>7. Fit(fd)'
  <2>1. client'[fd] = createClient(p)
    BY <1>0, <1>2 DEF TypeOK
  <2>2. client'[fd].page = p /\ ~client'[fd].handshake
    BY <2>1 DEF createClient
  <2>3. c2s[p] \in Requests
    BY <1>0, <1>1 DEF Wired, Blanks
  <2>4. ~Has(c2s[p], Unfit)
    <3>1. c2s[p] = Whole \/ c2s[p] = Cut \/ c2s[p] = Plain
      BY <2>3, PageAssumption
    <3> QED
      BY <3>1 DEF Has, Queued, Unfit, Whole, Cut, Plain
  <2> QED
    BY <1>1, <2>2, <2>4 DEF Fit
<1> QED
  BY <1>1, <1>2, <1>3, <1>4, <1>5, <1>7, OthersStay

LEMMA HandshakeStays ==
  ASSUME StayInv, NEW fd \in Fds, Handshake(fd), UNCHANGED pageVars
  PROVE  Staying'
<1>0. TypeOK /\ Wired /\ Attached
  BY OrdersFacts DEF StayInv, Wired
<1>1. PICK p \in Pages : p = client[fd].page
  BY <1>0, ClientType DEF Handshake
<1>2. IsOpen(fd) /\ ~client[fd].handshake /\ page' = page /\ heap' = heap
  BY DEF Handshake, pageVars
<1>3. link[p] = "up" /\ ~Has(c2s[p], Unfit)
  BY <1>1, <1>2, ClientPage
<1>4. PICK n \in (IF c2s[p] = <<>> THEN {0} ELSE 1 .. Len(c2s[p])) :
        LET got  == SubSeq(c2s[p], 1, n)
            rest == [c2s EXCEPT ![p] = SubSeq(@, n + 1, Len(@))]
        IN  \/ /\ Upgrade(got)
               /\ \E t \in send(Trace, p, [code |-> "OPEN"]) : Sent(t)
               /\ client' = [client EXCEPT ![fd].handshake = TRUE]
               /\ c2s' = rest
            \/ /\ Partial(got)
               /\ c2s' = rest
               /\ UNCHANGED <<client, link, s2c>>
            \/ /\ ~Upgrade(got)
               /\ \E t \in send(Trace, p, [code |-> "REJECT"]) :
                    s2c' = t.s2c /\ close_connection(fd, client, t.link)
  BY <1>1 DEF Handshake
<1> DEFINE got  == SubSeq(c2s[p], 1, n)
           rest == [c2s EXCEPT ![p] = SubSeq(@, n + 1, Len(@))]
<1>5. c2s[p] = <<>> => ~Upgrade(got) /\ ~Partial(got)
  <2> SUFFICES ASSUME c2s[p] = <<>> PROVE ~Upgrade(got) /\ ~Partial(got)
    OBVIOUS
  <2>1. n = 0 /\ got = <<>>
    BY <1>4
  <2> HIDE DEF got
  <2> QED
    BY <2>1 DEF Upgrade, Partial
<1>6. page[p] = FreshPage /\ s2c[p] = <<>> /\ (\A f \in Queued(c2s[p]) : f.code \in Openers)
      /\ client[fd].currentMatch = NULL
  BY <1>0, <1>1, <1>2 DEF Wired, Greeting, Greets
<1>7. ~Owner(fd)
  BY <1>6, ServerAssumption DEF Owner, Owns
<1>8. \A g \in Fds : g # fd /\ IsOpen(g) => client[g].page # p
  BY <1>0, <1>1, <1>2, ClientsApart
<1>9. ASSUME c2s' = rest, c2s[p] # <<>>
      PROVE  /\ \A r \in Pages : r # p => c2s'[r] = c2s[r]
             /\ ~Has(c2s'[p], Unfit) /\ ~Has(c2s'[p], {"MOVE"})
  <2>1. n \in 1 .. Len(c2s[p]) /\ c2s[p] \in Seq(PageFrames)
    BY <1>0, <1>4, <1>9, PageQueues
  <2>2. c2s'[p] = SubSeq(c2s[p], n + 1, Len(c2s[p])) /\ \A r \in Pages : r # p => c2s'[r] = c2s[r]
    BY <1>0, <1>9 DEF TypeOK
  <2>3. /\ Queued(c2s'[p]) \subseteq Queued(c2s[p])
        /\ \A codes : Has(c2s'[p], codes) => Has(c2s[p], codes)
    BY <2>1, <2>2, DropQueue
  <2>4. ~Has(c2s[p], {"MOVE"})
    BY <1>6 DEF Has, Openers
  <2> QED
    BY <1>3, <2>2, <2>3, <2>4
<1> HIDE DEF rest, got
<1>10. CASE Upgrade(got) /\ (\E t \in send(Trace, p, [code |-> "OPEN"]) : Sent(t))
           /\ client' = [client EXCEPT ![fd].handshake = TRUE] /\ c2s' = rest
  <2>1. PICK f \in ServerFrames : f = [code |-> "OPEN"]
    BY DEF ServerFrames
  <2>2. PICK t \in send(Trace, p, f) : Sent(t)
    BY <1>10, <2>1
  <2>3. /\ \A r \in Pages : r # p => link'[r] = link[r] /\ s2c'[r] = s2c[r]
        /\ link'[p] = "up" /\ s2c'[p] = Append(s2c[p], f)
    BY <1>0, <1>3, <2>2, OwnSend DEF Sent, Told, Readable
  <2>4. /\ client'[fd] = [client[fd] EXCEPT !.handshake = TRUE]
        /\ \A g \in Fds : g # fd => client'[g] = client[g]
    BY <1>0, <1>10 DEF TypeOK
  <2>5. client'[fd].page = p
    BY <1>0, <1>1, <1>2, <2>4, ClientType DEF ClientStates
  <2>6. c2s[p] # <<>>
    BY <1>5, <1>10
  <2>7. /\ \A r \in Pages : r # p => c2s'[r] = c2s[r]
        /\ ~Has(c2s'[p], Unfit) /\ ~Has(c2s'[p], {"MOVE"})
    BY <1>9, <1>10, <2>6
  <2>8. \A r \in Pages : r # p => SameAt(r)
    BY <1>2, <2>3, <2>7 DEF SameAt
  <2>9. Has(s2c'[p], Ends) /\ ~Has(s2c'[p], Plays)
    <3>1. PICK q \in Seq(ServerFrames) : q = s2c[p] /\ q = <<>>
      BY <1>0, <1>6, PageQueues
    <3>2. \A codes : Has(Append(q, f), codes) <=> Has(q, codes) \/ f.code \in codes
      BY <3>1, AppendQueue
    <3> QED
      BY <2>1, <2>3, <3>1, <3>2, EmptyQueue DEF Ends, Refusals, Plays
  <2>10. Stale(page'[p], c2s'[p], s2c'[p])
    BY <1>2, <1>6, <2>7, <2>9, FreshPageIdle DEF Stale, Resting
  <2>11. Fit(fd)'
    BY <2>3, <2>5, <2>7, <2>10 DEF Fit, Idle
  <2> QED
    BY <1>2, <1>7, <1>8, <2>4, <2>8, <2>11, OthersStay
<1>11. CASE Partial(got) /\ c2s' = rest /\ UNCHANGED <<client, link, s2c>>
  <2>1. c2s[p] # <<>>
    BY <1>5, <1>11
  <2>2. /\ \A r \in Pages : r # p => c2s'[r] = c2s[r]
        /\ ~Has(c2s'[p], Unfit)
    BY <1>9, <1>11, <2>1
  <2>3. \A r \in Pages : r # p => SameAt(r)
    BY <1>2, <1>11, <2>2 DEF SameAt
  <2>4. Fit(fd)'
    BY <1>1, <1>2, <1>3, <1>11, <2>2 DEF Fit
  <2> QED
    BY <1>2, <1>7, <1>8, <1>11, <2>3, <2>4, OthersStay
<1>12. ASSUME NEW t \in send(Trace, p, [code |-> "REJECT"]), s2c' = t.s2c,
              close_connection(fd, client, t.link)
       PROVE  Staying'
  <2>1. PICK f \in ServerFrames : f = [code |-> "REJECT"]
    BY DEF ServerFrames
  <2>2. /\ t.link \in [Pages -> Links]
        /\ \A r \in Pages : r # p => t.link[r] = link[r] /\ s2c'[r] = s2c[r]
    BY <1>0, <1>3, <1>12, <2>1, OwnSend DEF Readable
  <2>3. /\ client' = [client EXCEPT ![fd] = NoClient]
        /\ link' = [t.link EXCEPT ![p] = Closed(@)]
        /\ c2s' = [c2s EXCEPT ![p] = <<>>]
    BY <1>1, <1>12 DEF close_connection
  <2>4. \A r \in Pages : r # p => SameAt(r)
    BY <1>0, <1>2, <2>2, <2>3 DEF SameAt, TypeOK
  <2>5. ~IsOpen(fd)' /\ \A g \in Fds : g # fd => client'[g] = client[g]
    BY <1>0, <2>3 DEF TypeOK, IsOpen
  <2> QED
    BY <1>2, <1>7, <1>8, <2>4, <2>5, OthersStay
<1> QED
  BY <1>4, <1>10, <1>11, <1>12 DEF got, rest
-----------------------------------------------------------------------------
(***************************************************************************)
(* A match is created.                                                     *)
(***************************************************************************)
(* A handler that changes one record, and the clients of it.               *)
LEMMA MatchStays ==
  ASSUME StayInv, NEW fd \in Fds, NEW a \in Addrs,
         \A b \in Addrs : b # a => heap'[b] = heap[b],
         \A g \in Fds : g # fd => client'[g] = client[g],
         \A b \in Addrs : Owns(client[fd], b) => b = a,
         \A g \in Fds : g # fd /\ IsOpen(g) /\ ~Owns(client[g], a) => SameAt(client[g].page),
         \A g \in Fds : IsOpen(g)' /\ (g = fd \/ Owns(client[g], a)) => Fit(g)',
         Live(a)' => Held(a, "X")' /\ (heap'[a].players = 2 => Held(a, "O")')
  PROVE  Staying'
<1>1. Manned'
  <2> SUFFICES ASSUME NEW b \in Addrs, Live(b)', b # a
               PROVE  Held(b, "X")' /\ (heap'[b].players = 2 => Held(b, "O")')
    BY DEF Manned
  <2>1. Live(b) /\ heap'[b] = heap[b]
    BY DEF Live
  <2>2. Held(b, "X") /\ (heap[b].players = 2 => Held(b, "O"))
    BY <2>1 DEF StayInv, Staying, Manned
  <2>3. ASSUME NEW s, Held(b, s) PROVE Held(b, s)'
    <3>1. Seat(b, s) \in Fds /\ Owns(client[Seat(b, s)], b)
      BY <2>3 DEF Held, IsOpen, IsPlayer
    <3>2. Seat(b, s) # fd
      BY <3>1
    <3>3. Seat(b, s)' = Seat(b, s)
      BY <2>1 DEF Seat
    <3> QED
      BY <2>1, <2>3, <3>1, <3>2, <3>3, KeptSeat
  <2> QED
    BY <2>1, <2>2, <2>3
<1>2. ASSUME NEW g \in Fds, IsOpen(g)', g # fd, ~Owns(client[g], a) PROVE Fit(g)'
  <2>1. IsOpen(g) /\ client'[g] = client[g] /\ SameAt(client[g].page)
    BY <1>2 DEF IsOpen
  <2>2. Owner(g) => Owner(g)'
    <3> SUFFICES ASSUME NEW b \in Addrs, Owns(client[g], b) PROVE Owner(g)'
      BY DEF Owner
    <3>1. b # a /\ heap'[b] = heap[b] /\ Live(b)
      BY <1>2 DEF Owns
    <3>2. Live(b)'
      BY <3>1 DEF Live
    <3> QED
      BY <2>1, <3>1, <3>2, KeptOwner
  <2> QED
    BY <2>1, <2>2, KeptClient
<1>3. \A g \in Fds : IsOpen(g)' => Fit(g)'
  BY <1>2
<1> QED
  BY <1>1, <1>3, StayingIs

(* What a handler receives leaves nothing unfit behind.                    *)
LEMMA ReceivedFit ==
  ASSUME StayInv, NEW fd \in Fds, IsOpen(fd), Received(fd), NEW p, p = client[fd].page
  PROVE  /\ p \in Pages /\ link[p] = "up" /\ ~Has(c2s'[p], Unfit)
         /\ \A r \in Pages : r # p => c2s'[r] = c2s[r]
         /\ \A codes : Has(c2s'[p], codes) => Has(c2s[p], codes)
<1>0. TypeOK
  BY OrdersFacts DEF StayInv
<1>1. p \in Pages /\ link[p] = "up" /\ ~Has(c2s[p], Unfit)
  BY <1>0, ClientType DEF StayInv, Staying, Near
<1>2. PICK n \in 1 .. Len(c2s[p]) :
        /\ \A r \in Pages : r # p => c2s'[r] = c2s[r]
        /\ c2s'[p] = SubSeq(c2s[p], n + 1, Len(c2s[p]))
  BY <1>0, ReceivedQueue
<1>3. c2s[p] \in Seq(PageFrames)
  BY <1>0, <1>1, PageQueues
<1>4. \A codes : Has(c2s'[p], codes) => Has(c2s[p], codes)
  BY <1>2, <1>3, DropQueue
<1> QED
  BY <1>1, <1>2, <1>4

LEMMA CreateStays ==
  ASSUME MaxIds = MaxMatches, StayInv, NEW fd \in Fds, create_match(fd), UNCHANGED pageVars
  PROVE  Staying'
<1>0. TypeOK /\ Wired /\ Attached /\ match_id \in Nat
  BY OrdersFacts DEF StayInv, Wired
<1>1. PICK p \in Pages : p = client[fd].page /\ IsOpen(fd) /\ client[fd].handshake
                         /\ c2s[p] # <<>> /\ Head(c2s[p]).code = "CREATE_MATCH" /\ link[p] = "up"
  BY <1>0, ClientType DEF create_match, Receive, StayInv, Staying, Near
<1>2. ~Owner(fd)
  <2>1. Has(c2s[p], Asks)
    BY <1>0, <1>1, HeadHas DEF Has, Asks
  <2> QED
    BY <1>1, <2>1, AskerFacts
<1>3. PICK id \in Slots : id = match_id
  BY <1>0, ServerAssumption DEF create_match, Slots
<1>calm. fault = "none"
  BY OrdersFacts DEF StayInv
<1>4. PICK a \in Addrs :
        /\ ~Live(a)
        /\ heap' = [heap EXCEPT ![a] = [createMatch(fd, id) EXCEPT !.players = 1]]
        /\ client' = [client EXCEPT ![fd] = Seated(@, a, id, "X")]
        /\ \E t \in send(Trace, p, [code |-> "MATCH_CREATED", mid |-> id]) : Sent(t)
        /\ Received(fd)
  BY <1>1, <1>3, <1>calm DEF create_match, Allocatable
<1>5. id \in MatchIds /\ id \in Nat
  BY SlotType
<1>6. PICK f \in ServerFrames : f = [code |-> "MATCH_CREATED", mid |-> id]
  BY <1>5 DEF ServerFrames
<1>7. PICK t \in send(Trace, p, f) : Sent(t)
  BY <1>4, <1>6
<1>8. link'[p] = "up" /\ \A r \in Pages : r # p => link'[r] = link[r] /\ s2c'[r] = s2c[r]
  BY <1>0, <1>1, <1>7, OwnSend DEF Sent, Told, Readable
<1>9. ~Has(c2s'[p], Unfit) /\ \A r \in Pages : r # p => c2s'[r] = c2s[r]
  BY <1>1, <1>4, ReceivedFit
<1>10. /\ client'[fd].page = p /\ client'[fd].currentMatch = a
       /\ client'[fd].meant = id /\ client'[fd].seat = "X"
       /\ \A g \in Fds : g # fd => client'[g] = client[g]
       /\ \A g \in Fds : IsOpen(g)' = IsOpen(g)
  BY <1>0, <1>1, <1>4, <1>5, SeatedFields DEF Marks
<1>11. PICK m : m = [createMatch(fd, id) EXCEPT !.players = 1]
  OBVIOUS
<1>12. /\ m.matchID = id /\ m.playerX = fd /\ m.players = 1
  BY <1>11 DEF createMatch
<1>13. heap'[a] = m /\ \A b \in Addrs : b # a => heap'[b] = heap[b]
  BY <1>0, <1>4, <1>11 DEF TypeOK
<1>14. m # Free
  <2>1. m.matchID # NoFd
    BY <1>5, <1>12 DEF NoFd
  <2> QED
    BY <2>1 DEF Free
<1>15. Live(a)' /\ Owns(client[fd], a)'
  BY <1>10, <1>12, <1>13, <1>14 DEF Live, Owns
<1>16. Held(a, "X")'
  BY <1>1, <1>10, <1>12, <1>13, <1>15 DEF Held, IsPlayer, Seat
<1>17. Fit(fd)'
  <2>1. Owner(fd)'
    BY <1>15 DEF Owner
  <2> QED
    BY <1>8, <1>9, <1>10, <2>1 DEF Fit
<1>18. \A g : ~Owns(client[g], a)
  BY <1>4 DEF Owns
<1>19. ASSUME NEW g \in Fds, g # fd, IsOpen(g) PROVE SameAt(client[g].page)
  <2>1. PICK r \in Pages : r = client[g].page /\ r # p
    BY <1>0, <1>1, <1>19, ClientsApart
  <2> QED
    BY <1>8, <1>9, <2>1 DEF SameAt, pageVars
<1>20. \A b \in Addrs : ~Owns(client[fd], b)
  BY <1>2 DEF Owner
<1>21. heap'[a].players = 1
  BY <1>12, <1>13
<1> QED
  BY <1>10, <1>13, <1>16, <1>17, <1>18, <1>19, <1>20, <1>21, MatchStays
-----------------------------------------------------------------------------
(***************************************************************************)
(* A match is joined.                                                      *)
(***************************************************************************)
(* A request that is refused: the page is on its way to the lobby.         *)
LEMMA RefusedStays ==
  ASSUME StayInv, NEW fd \in Fds, IsOpen(fd), NEW p \in Pages, p = client[fd].page, ~Owner(fd),
         Has(c2s[p], Asks), client[fd].handshake,
         NEW f \in ServerFrames, f.code = "MATCH_JOIN_FAILED",
         NEW t \in send(Trace, p, f), Sent(t), Received(fd), UNCHANGED <<heap, client, page>>
  PROVE  Staying'
<1>0. TypeOK /\ Wired /\ Attached
  BY OrdersFacts DEF StayInv, Wired
<1>1. /\ link[p] = "up" /\ ~Has(c2s'[p], Unfit) /\ (\A r \in Pages : r # p => c2s'[r] = c2s[r])
      /\ Has(c2s'[p], {"MOVE"}) => Has(c2s[p], {"MOVE"})
  BY ReceivedFit
<1>2. /\ \A r \in Pages : r # p => link'[r] = link[r] /\ s2c'[r] = s2c[r]
      /\ link'[p] = "up" /\ s2c'[p] = Append(s2c[p], f)
  BY <1>0, <1>1, OwnSend DEF Sent, Told, Readable
<1>3. Stale(page[p], c2s[p], s2c[p]) /\ Convo(page[p], c2s[p], s2c[p])
  BY ClientPage DEF Idle
<1>4. ~page[p].turn /\ s2c[p] = <<>> /\ ~Has(c2s[p], {"MOVE"})
  BY <1>3 DEF Stale, Convo, Cleared
<1>5. Has(s2c'[p], Ends) /\ ~Has(s2c'[p], Plays)
  <2>1. PICK q \in Seq(ServerFrames) : q = s2c[p] /\ q = <<>>
    BY <1>0, <1>4, PageQueues
  <2>2. \A codes : Has(Append(q, f), codes) <=> Has(q, codes) \/ f.code \in codes
    BY <2>1, AppendQueue
  <2> QED
    BY <1>2, <2>1, <2>2, EmptyQueue DEF Ends, Refusals, Plays
<1>6. Stale(page'[p], c2s'[p], s2c'[p])
  BY <1>1, <1>4, <1>5 DEF Stale, Resting
<1>7. Fit(fd)'
  BY <1>1, <1>2, <1>6 DEF Fit, Idle
<1>8. \A r \in Pages : r # p => SameAt(r)
  BY <1>1, <1>2 DEF SameAt
<1>9. \A g \in Fds : g # fd /\ IsOpen(g) => client[g].page # p
  BY <1>0, ClientsApart
<1> QED
  BY <1>7, <1>8, <1>9, OthersStay

LEMMA JoinStays ==
  ASSUME StayInv, Calm', NEW fd \in Fds, NEW id \in Slots, join_match(fd, id), UNCHANGED pageVars
  PROVE  Staying'
<1>0. TypeOK /\ RegistryInOrder /\ Wired /\ Orderly /\ Attached /\ fault' = "none" /\ up'
  BY OrdersFacts DEF StayInv, Wired, Calm
<1>1. PICK p \in Pages : /\ p = client[fd].page /\ IsOpen(fd) /\ client[fd].handshake
                         /\ c2s[p] # <<>> /\ Head(c2s[p]).code = "JOIN_MATCH" /\ link[p] = "up"
  BY <1>0, ClientType DEF join_match, Receive, StayInv, Staying, Near
<1>2. Has(c2s[p], Asks)
  BY <1>0, <1>1, HeadHas DEF Has, Asks
<1>3. ~Owner(fd)
  BY <1>1, <1>2, AskerFacts
<1>4. CASE ~Joinable(id)
  <2>1. PICK f \in ServerFrames : f = [code |-> "MATCH_JOIN_FAILED"]
    BY DEF ServerFrames
  <2>2. PICK t \in send(Trace, p, f) : Sent(t)
    BY <1>1, <1>4, <2>1 DEF join_match
  <2>3. Received(fd) /\ UNCHANGED <<heap, client, page>>
    BY <1>4 DEF join_match, pageVars
  <2> QED
    BY <1>1, <1>2, <1>3, <2>1, <2>2, <2>3, RefusedStays
<1>5. CASE Joinable(id)
  <2>1. PICK a \in Addrs : a = matches[id] /\ Live(a) /\ heap[a].matchID = id
    BY <1>0, <1>5 DEF Joinable, RegistryInOrder, SlotsAreAllocated, TypeOK
  <2>2. PICK f \in ServerFrames : f = [code |-> "MATCH_JOINED", mid |-> id]
    BY SlotType DEF ServerFrames
  <2>3. PICK clients : clients = [client EXCEPT ![fd] = Seated(@, a, id, "O")]
    OBVIOUS
  <2> DEFINE toO == ThenSend(ThenSend(send(Trace, p, f), clients, a, "X", heap[a].playerX, InitBoard),
                             clients, a, "O", fd, InitBoard)
  <2>4. PICK t \in toO :
          /\ StrayFault(t)
          /\ \/ KilledBySIGPIPE(t)
             \/ /\ Survives(t) /\ Sent(t) /\ Received(fd)
                /\ heap' = [heap EXCEPT ![a] = SecondPlayer(@, fd)]
                /\ client' = clients
    BY <1>1, <1>5, <2>1, <2>2, <2>3 DEF join_match
  <2>5. t \in Traces
    <3>1. ThenSend(ThenSend(send(Trace, client[fd].page, [code |-> "MATCH_JOINED", mid |-> id]),
                            [client EXCEPT ![fd] = Seated(@, a, id, "O")], a, "X", heap[a].playerX, InitBoard),
                   [client EXCEPT ![fd] = Seated(@, a, id, "O")], a, "O", fd, InitBoard) \in SUBSET Traces
      BY <1>0, <1>1, <2>1, JoinTraces
    <3>2. toO \in SUBSET Traces
      BY <1>1, <2>2, <2>3, <3>1
    <3> QED
      BY <3>2
  <2> HIDE DEF toO
  <2>6. ~t.stray
    BY <1>0, <2>4, <2>5, OrdersFacts, CalmFault DEF StayInv
  <2>7. ~KilledBySIGPIPE(t)
    BY <1>0 DEF KilledBySIGPIPE, Die
  <2>8. /\ Sent(t) /\ Received(fd) /\ heap' = [heap EXCEPT ![a] = SecondPlayer(@, fd)]
        /\ client' = [client EXCEPT ![fd] = Seated(@, a, id, "O")]
    BY <2>3, <2>4, <2>7
  <2>9. Held(a, "X")
    BY <2>1 DEF StayInv, Staying, Manned
  <2>10. Talks(a, "X")
    <3>1. PICK s \in Marks : s = "X"
      BY DEF Marks
    <3> QED
      BY <2>9, <3>1, HeldTalks
  <2>11. PICK q : q = PageAt(a, "X")
    OBVIOUS
  <2>12. t \in JoinFrames(clients, p, f, a, fd) /\ JoinTable(clients, fd, a, id)
    BY <2>3, <2>4 DEF JoinFrames, JoinTable, toO
  <2>13. Readable(p)
    BY <1>1 DEF Readable
  <2>14. /\ heap[a].playerX # fd
         /\ \E l1, s1 : /\ Told(link[p], s2c[p], f, l1, s1)
                        /\ \/ t.link[p] = l1 /\ t.s2c[p] = s1
                           \/ Told(l1, s1, InitBoard, t.link[p], t.s2c[p])
    BY <1>0, <1>1, <2>1, <2>6, <2>12, <2>13, JoinSends
  <2>15. /\ q \in Pages /\ q # p
         /\ Told(link[q], s2c[q], InitBoard, t.link[q], t.s2c[q])
         /\ \A r \in Pages : r # p /\ r # q => t.link[r] = link[r] /\ t.s2c[r] = s2c[r]
    BY <1>0, <1>1, <2>1, <2>6, <2>10, <2>11, <2>12, <2>13, JoinSends
  <2>16. link'[p] = "up"
    BY <1>1, <2>8, <2>14 DEF Sent, Told
  <2>17. link[q] = "up" /\ link'[q] = "up"
    <3>1. PICK s \in Marks : s = "X"
      BY DEF Marks
    <3>2. link[q] = "up"
      BY <2>9, <2>11, <3>1, HeldTalks
    <3> QED
      BY <2>8, <2>15, <3>2 DEF Sent, Told
  <2>18. ~Has(c2s'[p], Unfit) /\ \A r \in Pages : r # p => c2s'[r] = c2s[r]
    BY <1>1, <2>8, ReceivedFit
  <2>19. /\ client'[fd].page = p /\ client'[fd].currentMatch = a
         /\ client'[fd].meant = id /\ client'[fd].seat = "O"
         /\ \A g \in Fds : g # fd => client'[g] = client[g]
         /\ \A g \in Fds : IsOpen(g)' = IsOpen(g)
    <3>1. PICK s \in Marks : s = "O"
      BY DEF Marks
    <3>2. client' = [client EXCEPT ![fd] = Seated(@, a, id, s)]
      BY <2>8, <3>1
    <3>3. id \in MatchIds /\ s \in Marks
      BY SlotType
    <3>4. IsOpen(fd) /\ TypeOK
      BY <1>0, <1>1
    <3>5. /\ client'[fd].page = client[fd].page /\ client'[fd].handshake = client[fd].handshake
          /\ client'[fd].currentMatch = a /\ client'[fd].meant = id /\ client'[fd].seat = s
          /\ \A g \in Fds : g # fd => client'[g] = client[g]
          /\ \A g \in Fds : IsOpen(g)' = IsOpen(g)
      BY <3>2, <3>3, <3>4, SeatedFields, ZenonT(30)
    <3> QED
      BY <1>1, <3>1, <3>5
  <2>20. PICK m \in MatchStates : m = SecondPlayer(heap[a], fd)
    <3>1. heap[a] \in MatchStates /\ MatchOK(a)
      BY <1>0, <2>1, MatchType DEF Orderly
    <3>2. heap[a].players = 1
      BY <1>5, <2>1, <3>1 DEF Joinable, MatchStates
    <3> QED
      BY <3>1, <3>2, SecondPlayerType
  <2>21. /\ m.matchID = id /\ m.playerO = fd /\ m.playerX = heap[a].playerX
    <3>1. heap[a] \in MatchStates
      BY <1>0, <2>1, MatchType
    <3> QED
      BY <2>1, <2>20, <3>1 DEF SecondPlayer, MatchStates
  <2>22. heap'[a] = m /\ \A b \in Addrs : b # a => heap'[b] = heap[b]
    BY <1>0, <2>8, <2>20 DEF TypeOK
  <2>23. m # Free
    <3>1. m.matchID # NoFd
      BY DEF MatchStates, MatchIds, NoFd
    <3> QED
      BY <3>1 DEF Free
  <2>24. Live(a)' /\ Owns(client[fd], a)'
    BY <2>19, <2>21, <2>22, <2>23 DEF Live, Owns
  <2>25. Held(a, "O")'
    <3>1. Seat(a, "O")' = fd
      BY <2>21, <2>22 DEF Seat
    <3> QED
      BY <1>1, <2>19, <2>24, <3>1 DEF Held, IsPlayer
  <2>26. Held(a, "X")'
    <3>1. Seat(a, "X")' = Seat(a, "X") /\ heap'[a].matchID = heap[a].matchID
      BY <2>1, <2>21, <2>22 DEF Seat
    <3>2. Seat(a, "X") # fd /\ Seat(a, "X") \in Fds
      BY <2>9, <2>14 DEF Seat, Held, IsOpen
    <3>3. client'[Seat(a, "X")] = client[Seat(a, "X")]
      BY <2>19, <3>2
    <3> QED
      BY <2>1, <2>9, <2>24, <3>1, <3>3, KeptSeat
  <2>27. Fit(fd)'
    <3>1. Owner(fd)'
      BY <2>24 DEF Owner
    <3> QED
      BY <2>16, <2>18, <2>19, <3>1 DEF Fit
  <2>28. ASSUME NEW g \in Fds, IsOpen(g), g # fd, Owns(client[g], a) PROVE Fit(g)'
    <3>1. Owner(g)'
      BY <2>1, <2>19, <2>21, <2>22, <2>24, <2>28, KeptOwner
    <3>2. PICK r \in Pages : r = client[g].page /\ r # p
      BY <1>0, <1>1, <2>28, ClientsApart
    <3>3. link[r] = "up" /\ ~Has(c2s[r], Unfit)
      BY <2>28, <3>2, ClientPage
    <3>4. link'[r] = "up"
      BY <2>8, <2>15, <2>17, <3>2, <3>3 DEF Sent
    <3> QED
      BY <2>18, <2>19, <2>28, <3>1, <3>2, <3>3, <3>4 DEF Fit
  <2>29. ASSUME NEW g \in Fds, g # fd, IsOpen(g), ~Owns(client[g], a) PROVE SameAt(client[g].page)
    <3>1. PICK r \in Pages : r = client[g].page /\ r # p
      BY <1>0, <1>1, <2>29, ClientsApart
    <3>2. PICK x \in Fds : x = Seat(a, "X") /\ IsOpen(x) /\ Owns(client[x], a) /\ client[x].page = q
      BY <2>9, <2>11 DEF Held, IsOpen, IsPlayer, PageAt
    <3>3. r # q
      BY <1>0, <2>29, <3>1, <3>2, ClientsApart
    <3> QED
      BY <2>8, <2>15, <2>18, <3>1, <3>3 DEF SameAt, Sent, pageVars
  <2>30. \A b \in Addrs : ~Owns(client[fd], b)
    BY <1>3 DEF Owner
  <2> QED
    BY <2>19, <2>22, <2>25, <2>26, <2>27, <2>28, <2>29, <2>30, MatchStays
<1> QED
  BY <1>4, <1>5
-----------------------------------------------------------------------------
(***************************************************************************)
(* A move.                                                                 *)
(***************************************************************************)
LEMMA OtherQuiet ==
  ASSUME TypeOK, Wired, Orderly, NEW fd, NEW m, NEW a \in Addrs, NEW s \in Marks, NEW p \in Pages,
         NEW n, MoveAt(fd, m, a, s, p, n), Talks(a, Other(s)), NEW q, q = PageAt(a, Other(s))
  PROVE  q \in Pages /\ q # p /\ ~Has(c2s[q], {"MOVE"})
<1>1. PICK h \in MatchStates : h = heap[a]
  BY MoverPage
<1>2. q \in Pages /\ q # p
  BY PlayPages
<1>3. ~Has(c2s[q], {"MOVE"}) /\ ~Has(s2c[q], {"MOVE"})
  BY <1>1, PlayFacts
<1> QED
  BY <1>2, <1>3

(* The two pages of a match one of whose players sends a move.             *)
LEMMA MovePages ==
  ASSUME StayInv, NEW fd \in Fds, NEW m, NEW a \in Addrs, NEW s \in Marks, NEW p \in Pages,
         NEW n, MoveAt(fd, m, a, s, p, n), NEW q, q = PageAt(a, Other(s))
  PROVE  /\ Talks(a, s) /\ Talks(a, Other(s)) /\ Held(a, "X") /\ Held(a, "O") /\ Live(a)
         /\ heap[a] \in MatchStates
         /\ q \in Pages /\ q # p /\ link[p] = "up" /\ link[q] = "up"
         /\ ~Has(c2s'[p], Unfit) /\ ~Has(c2s'[q], Unfit)
         /\ ~Has(c2s'[p], {"MOVE"}) /\ ~Has(c2s'[q], {"MOVE"})
         /\ \A g \in Fds : IsOpen(g) => (Owns(client[g], a) <=> client[g].page \in {p, q})
<1>0. TypeOK /\ Wired /\ Attached /\ Orderly
  BY OrdersFacts DEF StayInv, Wired
<1>1. PICK h \in MatchStates : h = heap[a] /\ h.players = 2
  BY <1>0, MoverPage
<1>2. Held(a, s) /\ Live(a) /\ IsOpen(fd) /\ client[fd].page = p /\ Owns(client[fd], a)
  BY DEF MoveAt, Held, IsPlayer, Owns
<1>3. Held(a, "X") /\ Held(a, "O")
  BY <1>1, <1>2 DEF StayInv, Staying, Manned
<1>4. PICK r \in Marks : r = Other(s) /\ Held(a, r)
  BY <1>3 DEF Other, Marks
<1>5. Talks(a, s) /\ Talks(a, Other(s)) /\ link[p] = "up" /\ link[q] = "up"
  <2>1. Talks(a, s) /\ link[p] = "up"
    BY <1>2, HeldTalks DEF MoveAt
  <2>2. Talks(a, r) /\ link[q] = "up"
    BY <1>4, HeldTalks
  <2> QED
    BY <1>4, <2>1, <2>2
<1>6. q \in Pages /\ q # p /\ ~Has(c2s[q], {"MOVE"})
  <2>1. TypeOK /\ Wired /\ Orderly /\ Talks(a, Other(s)) /\ MoveAt(fd, m, a, s, p, n)
    BY <1>0, <1>5
  <2> QED
    BY <2>1, OtherQuiet
<1>7. ~Has(c2s'[p], {"MOVE"})
  BY <1>0, MoverPage
<1>8. c2s'[q] = c2s[q]
  BY <1>6 DEF MoveAt
<1>9. PICK e : e = Seat(a, Other(s))
  OBVIOUS
<1>10. e \in Fds /\ IsOpen(e) /\ client[e].page = q /\ Owns(client[e], a)
  BY <1>4, <1>9 DEF Held, IsOpen, IsPlayer, PageAt
<1>11. ~Has(c2s[p], Unfit) /\ ~Has(c2s[q], Unfit)
  BY <1>2, <1>6, <1>10, ClientPage
<1>12. ~Has(c2s'[p], Unfit)
  <2>1. c2s[p] \in Seq(PageFrames)
    BY <1>0, PageQueues
  <2>2. n \in 1 .. Len(c2s[p]) /\ c2s'[p] = SubSeq(c2s[p], n + 1, Len(c2s[p]))
    BY DEF MoveAt
  <2>3. Has(c2s'[p], Unfit) => Has(c2s[p], Unfit)
    BY <2>1, <2>2, DropQueue
  <2> QED
    BY <1>11, <2>3
<1>13. ASSUME NEW g \in Fds, IsOpen(g) PROVE Owns(client[g], a) <=> client[g].page \in {p, q}
  <2>1. ASSUME Owns(client[g], a) PROVE client[g].page \in {p, q}
    <3>1. PICK z \in Marks : Player(g, a, z, client[g].page)
      BY <1>13, <2>1, PlayerFacts
    <3>2. PageAt(a, z) = client[g].page
      BY <3>1 DEF Player
    <3>3. z = s \/ z = Other(s)
      BY DEF Marks, Other
    <3> QED
      BY <3>2, <3>3 DEF MoveAt
  <2>2. ASSUME client[g].page \in {p, q} PROVE Owns(client[g], a)
    <3>1. g = fd \/ g = e
      BY <1>0, <1>2, <1>10, <1>13, <2>2, ClientsApart
    <3> QED
      BY <1>2, <1>10, <3>1
  <2> QED
    BY <2>1, <2>2
<1> QED
  BY <1>1, <1>2, <1>3, <1>5, <1>6, <1>7, <1>8, <1>11, <1>12, <1>13

(* A move that is relayed: both players stay.                              *)
LEMMA RelayStays ==
  ASSUME StayInv, NEW fd \in Fds, NEW m, NEW a \in Addrs, NEW s \in Marks, NEW p \in Pages,
         NEW n, MoveAt(fd, m, a, s, p, n), NEW q, q = PageAt(a, Other(s)), Relayed(q, m),
         NEW new \in Boards, heap' = [heap EXCEPT ![a] = Marked(heap[a], new)]
  PROVE  Staying'
<1>0. TypeOK
  BY OrdersFacts DEF StayInv
<1>1. /\ Held(a, "X") /\ Held(a, "O") /\ Live(a) /\ heap[a] \in MatchStates
      /\ q \in Pages /\ q # p /\ link[p] = "up" /\ link[q] = "up"
      /\ ~Has(c2s'[p], Unfit) /\ ~Has(c2s'[q], Unfit)
      /\ \A g \in Fds : IsOpen(g) => (Owns(client[g], a) <=> client[g].page \in {p, q})
  BY MovePages
<1>2. client' = client /\ page' = page /\ \A r \in Pages : r # p => c2s'[r] = c2s[r]
  BY DEF MoveAt
<1>3. link'[p] = "up" /\ link'[q] = "up" /\ \A r \in Pages : r # q => link'[r] = link[r] /\ s2c'[r] = s2c[r]
  BY <1>1 DEF Relayed, Told
<1>4. PICK h \in MatchStates : h = heap[a]
  BY <1>1
<1>5. heap'[a] = Marked(h, new) /\ \A b \in Addrs : b # a => heap'[b] = heap[b]
  BY <1>0, <1>4 DEF TypeOK
<1>6. PICK h2 : h2 = Marked(h, new)
  OBVIOUS
<1>7. h2.matchID = h.matchID /\ h2.playerX = h.playerX /\ h2.playerO = h.playerO /\ h2 # Free
  BY <1>6, MarkedFields
<1>8. Live(a)' /\ heap'[a].matchID = heap[a].matchID /\ \A z : Seat(a, z)' = Seat(a, z)
  BY <1>4, <1>5, <1>6, <1>7 DEF Live, Seat
<1>9. Held(a, "X")' /\ Held(a, "O")'
  BY <1>1, <1>2, <1>8, KeptSeat
<1>10. ASSUME NEW g \in Fds, IsOpen(g)', Owns(client[g], a) PROVE Fit(g)'
  <2>1. IsOpen(g) /\ client'[g] = client[g]
    BY <1>2, <1>10 DEF IsOpen
  <2>2. Owner(g)'
    BY <1>8, <1>10, <2>1, KeptOwner
  <2>3. client'[g].page \in {p, q}
    BY <1>1, <1>10, <2>1
  <2> QED
    BY <1>1, <1>3, <2>2, <2>3 DEF Fit
<1>11. ASSUME NEW g \in Fds, g # fd, IsOpen(g), ~Owns(client[g], a) PROVE SameAt(client[g].page)
  <2>1. PICK r \in Pages : r = client[g].page /\ r # p /\ r # q
    BY <1>0, <1>1, <1>11, ClientType
  <2> QED
    BY <1>2, <1>3, <2>1 DEF SameAt
<1>12. Owns(client[fd], a) /\ \A b \in Addrs : Owns(client[fd], b) => b = a
  BY DEF MoveAt, Held, IsPlayer, Owns
<1>13. \A g \in Fds : g # fd => client'[g] = client[g]
  BY <1>2
<1>14. \A g \in Fds : IsOpen(g)' /\ (g = fd \/ Owns(client[g], a)) => Fit(g)'
  BY <1>10, <1>12
<1> QED
  BY <1>5, <1>9, <1>11, <1>12, <1>13, <1>14, MatchStays

(* A page that has been told that its match is over.                       *)
LEMMA OverStale ==
  ASSUME NEW pg, NEW cq, NEW sq \in Seq(ServerFrames), ~Has(cq, {"MOVE"}),
         NEW g \in ServerFrames, g.code = "GAME_OVER"
  PROVE  Stale(pg, cq, Append(sq, g))
<1>1. \A codes : Has(Append(sq, g), codes) <=> Has(sq, codes) \/ g.code \in codes
  BY AppendQueue
<1> QED
  BY <1>1 DEF Stale, Resting, Ends

(* A move that decides the match: both players are on their way out.       *)
LEMMA EndStays ==
  ASSUME StayInv, NEW fd \in Fds, NEW m \in ServerFrames, NEW a \in Addrs, NEW s \in Marks,
         NEW p \in Pages, NEW n, MoveAt(fd, m, a, s, p, n), NEW q, q = PageAt(a, Other(s)),
         NEW g \in ServerFrames, g.code = "GAME_OVER",
         NEW t, AllTold(t, p, q, m, g), Elsewhere(t, p, q), Sent(t), Freed(a)
  PROVE  Staying'
<1>0. TypeOK
  BY OrdersFacts DEF StayInv
<1>1. /\ q \in Pages /\ q # p /\ link[p] = "up" /\ link[q] = "up"
      /\ ~Has(c2s'[p], Unfit) /\ ~Has(c2s'[q], Unfit)
      /\ ~Has(c2s'[p], {"MOVE"}) /\ ~Has(c2s'[q], {"MOVE"})
      /\ \A e \in Fds : IsOpen(e) => (Owns(client[e], a) <=> client[e].page \in {p, q})
  BY MovePages
<1>2. client' = client /\ page' = page /\ \A r \in Pages : r # p => c2s'[r] = c2s[r]
  BY DEF MoveAt
<1>3. link'[p] = "up" /\ link'[q] = "up" /\ s2c'[p] = Append(s2c[p], g)
      /\ s2c'[q] = Append(Append(s2c[q], m), g)
  BY <1>1 DEF AllTold, Told, Sent
<1>4. \A r \in Pages : r # p /\ r # q => link'[r] = link[r] /\ s2c'[r] = s2c[r]
  BY DEF Elsewhere, Sent
<1>5. Idle(p)' /\ Idle(q)'
  <2>1. PICK sp \in Seq(ServerFrames), sq \in Seq(ServerFrames) : sp = s2c[p] /\ sq = s2c[q]
    BY <1>0, <1>1, PageQueues
  <2>2. Append(sq, m) \in Seq(ServerFrames)
    BY <2>1, AppendQueue
  <2>3. Stale(page'[p], c2s'[p], Append(sp, g)) /\ Stale(page'[q], c2s'[q], Append(Append(sq, m), g))
    BY <1>1, <2>1, <2>2, OverStale
  <2> QED
    BY <1>3, <2>1, <2>3 DEF Idle
<1>6. heap'[a] = Free /\ \A b \in Addrs : b # a => heap'[b] = heap[b]
  BY <1>0 DEF Freed, TypeOK
<1>7. ~Live(a)'
  BY <1>6 DEF Live
<1>8. Owns(client[fd], a) /\ \A b \in Addrs : Owns(client[fd], b) => b = a
  BY DEF MoveAt, Held, IsPlayer, Owns
<1>9. ASSUME NEW e \in Fds, IsOpen(e)', Owns(client[e], a) PROVE Fit(e)'
  <2>1. IsOpen(e)
    BY <1>2, <1>9 DEF IsOpen
  <2>2. PICK r \in {p, q} : r = client'[e].page
    BY <1>1, <1>2, <1>9, <2>1
  <2>3. link'[r] = "up" /\ ~Has(c2s'[r], Unfit) /\ Idle(r)'
    BY <1>1, <1>3, <1>5, <2>2
  <2> QED
    BY <2>2, <2>3 DEF Fit
<1>10. ASSUME NEW e \in Fds, e # fd, IsOpen(e), ~Owns(client[e], a) PROVE SameAt(client[e].page)
  <2>1. PICK r \in Pages : r = client[e].page /\ r # p /\ r # q
    BY <1>0, <1>1, <1>10, ClientType
  <2> QED
    BY <1>2, <1>4, <2>1 DEF SameAt
<1>11. \A e \in Fds : e # fd => client'[e] = client[e]
  BY <1>2
<1>12. \A e \in Fds : IsOpen(e)' /\ (e = fd \/ Owns(client[e], a)) => Fit(e)'
  BY <1>8, <1>9
<1> QED
  BY <1>6, <1>7, <1>8, <1>10, <1>11, <1>12, MatchStays

LEMMA MoveStays ==
  ASSUME StayInv, Calm', NEW fd \in Fds,
         NEW m \in [code : {"MOVE"}, player : Marks, message : Cells],
         move(fd, m), UNCHANGED pageVars
  PROVE  Staying'
<1>0. TypeOK /\ Wired /\ Attached /\ Orderly /\ fault = "none" /\ fault' = "none" /\ up'
  BY OrdersFacts DEF StayInv, Wired, Calm
<1>1. PICK a \in Addrs, s \in Marks, p \in Pages :
        \E n, t :
          LET new == [heap[a].board EXCEPT ![m.message] = s]
          IN  /\ MoveAt(fd, m, a, s, p, n)
              /\ t \in MoveSends(a, s, m, new, GameOver(Verdict(new)))
              /\ ~t.stray /\ Sent(t) /\ MoveResult(a, new, t)
  BY <1>0, MoveTaken
<1>2. PICK new, g : new = [heap[a].board EXCEPT ![m.message] = s] /\ g = GameOver(Verdict(new))
  OBVIOUS
<1>3. PICK n, t : /\ MoveAt(fd, m, a, s, p, n)
                  /\ t \in MoveSends(a, s, m, new, g)
                  /\ ~t.stray /\ Sent(t) /\ MoveResult(a, new, t)
  BY <1>1, <1>2
<1>4. m \in ServerFrames /\ m.message \in Cells
  BY DEF ServerFrames
<1>5. g \in ServerFrames /\ g.code = "GAME_OVER"
  BY <1>2, VerdictType, GameOverType DEF GameOver
<1>6. PICK q : q = PageAt(a, Other(s))
  OBVIOUS
<1>7. /\ Talks(a, s) /\ Talks(a, Other(s)) /\ heap[a] \in MatchStates
      /\ q \in Pages /\ q # p /\ link[p] = "up" /\ link[q] = "up"
  BY <1>3, <1>6, MovePages
<1>8. Other(s) \in Marks /\ PageAt(a, s) = p
  BY <1>3 DEF Other, Marks, MoveAt
<1>9. new \in Boards
  <2>1. PICK h \in MatchStates : h = heap[a]
    BY <1>7
  <2>2. h.board \in Boards
    BY <2>1 DEF MatchStates
  <2> QED
    BY <1>2, <1>4, <2>1, <2>2 DEF Boards
<1>10. PICK decided \in BOOLEAN : decided <=> Decided(new, heap[a].moves + 1)
  OBVIOUS
<1>11. t \in (IF decided THEN VerdictTo(a, s, m, g) ELSE FirstTo(a, Other(s), m))
  BY <1>3, <1>10, Zenon DEF MoveSends
<1>12. CASE ~decided
  <2>1. t \in Traces /\ Accepted(Trace, t, q, m)
    BY <1>0, <1>3, <1>4, <1>6, <1>7, <1>8, <1>11, <1>12, FirstSend
  <2>2. /\ t.sent = Trace.sent + 1
        /\ \A r \in Pages : r # q => t.link[r] = Trace.link[r] /\ t.s2c[r] = Trace.s2c[r]
        /\ Told(Trace.link[q], Trace.s2c[q], m, t.link[q], t.s2c[q])
    BY <1>0, <1>7, <2>1, TraceType, AcceptedFacts
  <2>3. t.sent = 1 /\ Relayed(q, m)
    BY <1>3, <2>2, TraceIs DEF Sent, Relayed
  <2>4. heap' = [heap EXCEPT ![a] = Marked(heap[a], new)]
    BY <1>3, <1>10, <1>12, <2>3 DEF MoveResult, MoveMarks
  <2> QED
    BY <1>3, <1>6, <1>9, <2>3, <2>4, RelayStays
<1>13. CASE decided
  <2>1. /\ t.sent > 0 /\ t \in Traces /\ Elsewhere(t, p, q)
        /\ t.last = "ok" => AllTold(t, p, q, m, g)
        /\ t.last # "ok" => OnlyMover(t, p, q, g)
    BY <1>0, <1>3, <1>4, <1>5, <1>6, <1>7, <1>8, <1>11, <1>13, VerdictSends
  <2>2. t.last = "ok"
    BY <1>7, <2>1 DEF OnlyMover
  <2>3. t.sent # 0
    BY <2>1 DEF Traces
  <2>4. Freed(a)
    BY <1>3, <1>10, <1>13, <2>2, <2>3 DEF MoveResult
  <2> QED
    BY <1>3, <1>4, <1>5, <1>6, <2>1, <2>2, <2>4, EndStays
<1> QED
  BY <1>12, <1>13
-----------------------------------------------------------------------------
(***************************************************************************)
(* Every step.                                                             *)
(***************************************************************************)
LEMMA ServerStaying ==
  ASSUME MaxIds = MaxMatches, StayInv, ServerNext, UNCHANGED pageVars
  PROVE  Calm' /\ Staying'
<1>1. /\ Calm'
      /\ \A fd \in Fds : ~close_frame(fd) /\ ~undefined_behaviour(fd) /\ ~PeerGone(fd)
  BY ServerCalm
<1>2. ASSUME NEW p \in Pages, Accept(p) PROVE Staying'
  BY <1>2, AcceptStays
<1>3. ASSUME NEW fd \in Fds, handle(fd) PROVE Staying'
  <2>1. CASE Handshake(fd)
    BY <2>1, HandshakeStays
  <2>2. CASE create_match(fd)
    BY <2>2, CreateStays
  <2>3. ASSUME NEW id \in Slots, join_match(fd, id) PROVE Staying'
    BY <1>1, <2>3, JoinStays
  <2>4. ASSUME NEW cell \in Cells, NEW mark \in Marks,
               move(fd, [code |-> "MOVE", player |-> mark, message |-> cell])
        PROVE  Staying'
    <3>1. PICK m \in [code : {"MOVE"}, player : Marks, message : Cells] :
             m = [code |-> "MOVE", player |-> mark, message |-> cell]
      OBVIOUS
    <3>2. move(fd, m)
      BY <2>4, <3>1
    <3> QED
      BY <1>1, <3>2, MoveStays
  <2> QED
    BY <1>1, <1>3, <2>1, <2>2, <2>3, <2>4 DEF handle
<1> QED
  BY <1>1, <1>2, <1>3 DEF ServerNext

LEMMA PageStays ==
  ASSUME StayInv, NEW p \in Pages, UNCHANGED serverVars,
         \/ Connect(p) \/ onmessage(p) \/ onclose(p) \/ create_click(p)
         \/ (\E id \in Ids : join_click(p, id))
         \/ (Prompt(p) /\ \E c \in Cells : handleMove(p, c))
  PROVE  Staying'
<1>1. CASE Connect(p) \/ onclose(p)
  BY <1>1, ElsewhereStays
<1>2. CASE onmessage(p)
  BY <1>2, MessageStays
<1>3. CASE create_click(p) \/ \E id \in Ids : join_click(p, id)
  BY <1>3, AskStays
<1>4. ASSUME Prompt(p), NEW c \in Cells, handleMove(p, c) PROVE Staying'
  BY <1>4, ClickStays
<1> QED
  BY <1>1, <1>2, <1>3, <1>4

LEMMA NextStays ==
  ASSUME MaxIds = MaxMatches, StayInv, [StayNext]_vars
  PROVE  StayInv'
<1>0. IInv /\ GInv /\ Calm
  BY DEF StayInv, Orders
<1>1. ASSUME NEW p \in Pages, UNCHANGED serverVars, ~Refused,
             \/ Connect(p) \/ onmessage(p) \/ onclose(p) \/ create_click(p)
             \/ (\E id \in Ids : join_click(p, id))
             \/ (Prompt(p) /\ \E c \in Cells : handleMove(p, c))
      PROVE  Next /\ Calm' /\ Staying'
  <2>1. PageNext
    BY <1>1 DEF PageNext
  <2>2. Calm'
    BY <1>0, <1>1 DEF Calm, serverVars
  <2> QED
    BY <1>1, <2>1, <2>2, PageStays DEF Next
<1>2. ASSUME ServerNext, UNCHANGED pageVars PROVE Next /\ Calm' /\ Staying'
  BY <1>2, ServerStaying DEF Next
<1>3. ASSUME UNCHANGED vars PROVE Calm' /\ Staying'
  <2>1. UNCHANGED <<link, c2s, s2c, page, client, heap, up, fault>>
    BY <1>3 DEF vars, netVars, pageVars, serverVars
  <2>2. Calm'
    BY <1>0, <2>1 DEF Calm
  <2>3. Near'
    BY <2>1 DEF StayInv, Staying, Near, IsOpen
  <2>4. Manned'
    BY <2>1 DEF StayInv, Staying, Manned, Held, IsPlayer, IsOpen, Owns, Live, Seat
  <2>5. Idlers'
    BY <2>1 DEF StayInv, Staying, Idlers, Idle, Owner, IsOpen, Owns, Live
  <2> QED
    BY <2>2, <2>3, <2>4, <2>5 DEF Staying
<1>4. [Next]_vars /\ Calm' /\ Staying'
  <2>1. ASSUME UNCHANGED vars PROVE [Next]_vars /\ Calm' /\ Staying'
    BY <1>3, <2>1
  <2>2. ASSUME StayNext PROVE [Next]_vars /\ Calm' /\ Staying'
    <3>1. Next /\ Calm' /\ Staying'
      BY <1>1, <1>2, <2>2, Zenon DEF StayNext
    <3> QED
      BY <3>1
  <2> QED
    BY <2>1, <2>2
<1>5. IInv' /\ GInv'
  BY <1>0, <1>4, NextIInv, NextGInv
<1> QED
  BY <1>4, <1>5 DEF StayInv, Orders

LEMMA InitStays ==
  ASSUME Init
  PROVE  StayInv
<1>1. (\A fd \in Fds : ~IsOpen(fd)) /\ (\A a \in Addrs : ~Live(a)) /\ up /\ fault = "none"
  BY DEF Init, ServerInit, IsOpen, Live
<1>2. Staying /\ Calm
  BY <1>1 DEF Staying, Near, Manned, Idlers, Calm
<1> QED
  BY <1>2, InitIInv, InitGInv DEF StayInv, Orders

(* While nobody leaves and no one clicks after the decisive move, and the   *)
(* table has a slot for every id handed out (past it create_match writes    *)
(* beyond the table), no handler of server.c follows a dangling pointer     *)
(* (lines 464 and 490 free the match and leave both clients pointing at it),*)
(* no frame goes to a client that is not the player, and the process lives. *)
THEOREM FaultsNeedLeavers ==
  ASSUME MaxIds = MaxMatches
  PROVE  StaySpec => []FaultsNeedDepartures
<1>1. Init => StayInv
  BY InitStays
<1>2. StayInv /\ [StayNext]_vars => StayInv'
  BY NextStays
<1>3. StayInv => FaultsNeedDepartures
  BY DEF StayInv, Orders, Calm, FaultsNeedDepartures
<1> QED
  BY <1>1, <1>2, <1>3, PTL DEF StaySpec
=============================================================================
