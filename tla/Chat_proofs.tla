------------------------------ MODULE Chat_proofs ------------------------------
(***************************************************************************)
(* Proofs about Chat, for any pages, names and heap: its types, that the   *)
(* users of the table are connected, and that the Clients mirror the       *)
(* sockets.                                                                *)
(***************************************************************************)
EXTENDS Chat, FiniteSetTheorems, SequenceTheorems, TLAPS

(***************************************************************************)
(* The invariant.                                                          *)
(***************************************************************************)
(* A page that is displayed has a name.                                    *)
NamesOK == \A p \in Pages : link[p] \in {"syn", "up", "down", "gone"} => page[p].name \in Names

(* A registration gives a name.                                            *)
SentOK == \A p \in Pages : \A k \in 1 .. Len(c2s[p]) :
            c2s[p][k].code = "TEXT" /\ c2s[p][k].body.from = "client" => c2s[p][k].body.text \in Names

(* What epoll watches, or recv() waits for, is open at the server's end.   *)
OpenEnds == {"up", "fin", "rst"}
WatchOK == \A p \in Pages : /\ watch[p] # NULL => link[p] \in OpenEnds
                            /\ accepting = p => watch[p] = NULL /\ link[p] \in OpenEnds

(* A Client that owns its socket is active; one with a name was added.     *)
ClientsOK == \A a \in Addrs : Live(a) =>
               /\ watch[heap[a].page] = a => heap[a].active
               /\ heap[a].added <=> heap[a].username \in Names

Shape == ChatTypeOK /\ NamesOK /\ SentOK /\ WatchOK /\ ClientsOK

(* A Client with a name that owns its socket is the table's.               *)
UsersAreListed ==
  ~fault => \A a \in Addrs : Live(a) /\ watch[heap[a].page] = a /\ heap[a].added =>
              Table[heap[a].username] = a

Listed == UsersAreConnected /\ UsersAreListed /\ ClientsMirrorSockets

(* What a page was sent and has not read, and what a newcomer has sent.    *)
AnswersFirst ==
  ~fault => \A p \in Pages :
    /\ s2c[p] # <<>> => (link[p] = "up" /\ watch[p] # NULL) \/ link[p] = "down"
    /\ \A k \in 2 .. Len(s2c[p]) : IsText(s2c[p][k])
    /\ link[p] = "syn" \/ accepting = p => c2s[p] \in Requests /\ ~page[p].open

(* Messages are from the user that the Client is, or is to become.         *)
IsMessage(f, n) == IsText(f) => /\ f.body.from = n /\ f.body.to \in Names \cup {Broadcast}
                                /\ f.body.text \in Texts
IsNewcomer(f, n) == IsText(f) /\ f.body = [from |-> "client", to |-> "server", text |-> n]

(* q: what the page of Client c has sent; l: its link.                     *)
Line(q, l, pg, c) ==
  IF c.added
  THEN (l = "up" => pg.name = c.username) /\ \A k \in 1 .. Len(q) : IsMessage(q[k], c.username)
  ELSE \/ q = <<>> /\ ~pg.open
       \/ \E n \in Names : /\ l = "up" => pg.name = n
                           /\ q # <<>> /\ IsNewcomer(q[1], n)
                           /\ \A k \in 2 .. Len(q) : IsMessage(q[k], n)

LinesOK ==
  ~fault => \A a \in Addrs : LET p == heap[a].page IN
    Live(a) /\ watch[p] = a => Line(c2s[p], link[p], page[p], heap[a])

(* A page that has not read the answer to its handshake has sent nothing.  *)
AnswersOK ==
  ~fault => \A p \in Pages : s2c[p] # <<>> /\ ~IsText(s2c[p][1]) /\ link[p] = "up" =>
    /\ Live(watch[p]) /\ heap[watch[p]].page = p /\ ~heap[watch[p]].added
    /\ c2s[p] = <<>> /\ ~page[p].open

Lines == AnswersFirst /\ LinesOK /\ AnswersOK

-----------------------------------------------------------------------------
(***************************************************************************)
(* The parts that the actions are made of.                                 *)
(***************************************************************************)
Codes == {"UPGRADE", "HEAD", "TAIL", "GET", "CLOSE"}
Queues == Seq(Frames(Codes))
Answers == Seq(Frames({"OPEN", "BADOPEN"}))

(* ChatTypeOK, in three parts.                                             *)
NetTyped == link \in [Pages -> Links] /\ c2s \in [Pages -> Queues] /\ s2c \in [Pages -> Answers]
PageTyped == /\ page \in [Pages -> [name : Names \cup {NoName}, open : BOOLEAN]]
             /\ connects \in 0 .. MaxConnects /\ sends \in 0 .. MaxSends
ServerTyped ==
  /\ up \in BOOLEAN /\ fault \in BOOLEAN /\ clash \in BOOLEAN
  /\ Table \in [Names -> Addrs \cup {NULL}]
  /\ heap \in [Addrs -> Clients \cup {Free}]
  /\ watch \in [Pages -> Addrs \cup {NULL}]
  /\ accepting \in Pages \cup {NULL} /\ first \in Addrs \cup {NULL, LISTEN}
  /\ events \in Seq({"in", "hup"})

LEMMA Typed == ChatTypeOK <=> NetTyped /\ PageTyped /\ ServerTyped
BY DEF ChatTypeOK, NetTyped, PageTyped, ServerTyped, Queues, Answers, Codes

(* Reading and writing queues.                                             *)
LEMMA PrefixTaken ==
  ASSUME NEW S, NEW q \in Seq(S), NEW k \in 0 .. Len(q)
  PROVE  /\ SubSeq(q, k + 1, Len(q)) \in Seq(S)
         /\ Len(SubSeq(q, k + 1, Len(q))) = Len(q) - k
         /\ \A j \in 1 .. Len(q) - k : SubSeq(q, k + 1, Len(q))[j] = q[j + k]
BY SubSeqProperties

LEMMA InitShape == Init => Shape /\ Listed /\ Lines
<1> SUFFICES ASSUME Init PROVE Shape /\ Listed /\ Lines
  OBVIOUS
<1> USE DEF Init, SocketsInit, PageInit, ServerInit, Closed_page
<1>1. ChatTypeOK
  <2>1. NetTyped
    BY EmptySeq DEF NetTyped, Links, Queues, Answers
  <2>2. PageTyped
    BY PageAssumption DEF PageTyped
  <2>3. ServerTyped
    BY EmptySeq DEF ServerTyped
  <2> QED
    BY <2>1, <2>2, <2>3, Typed
<1>2. NamesOK /\ SentOK /\ WatchOK /\ ClientsOK
  BY ServerAssumption, EmptySeq DEF NamesOK, SentOK, WatchOK, ClientsOK, Live
<1>3. Listed
  BY DEF Listed, UsersAreConnected, UsersAreListed, ClientsMirrorSockets, Live
<1>4. Lines
  BY ServerAssumption, EmptySeq DEF Lines, AnswersFirst, LinesOK, AnswersOK, Live
<1> QED
  BY <1>1, <1>2, <1>3, <1>4 DEF Shape

(* A Client that is allocated.                                             *)
LEMMA LiveFacts ==
  ASSUME ChatTypeOK, NEW a, Live(a)
  PROVE  /\ a \in Addrs /\ a # NULL /\ heap[a] \in Clients /\ heap[a].page \in Pages
         /\ heap[a].page # NULL
<1>1. a \in Addrs /\ heap[a] # Free
  BY DEF Live
<1>2. heap[a] \in Clients
  BY <1>1 DEF ChatTypeOK
<1> QED
  BY <1>1, <1>2, ServerAssumption, PageAssumption DEF Clients

(* A Client that is not free.                                              *)
LEMMA NotFree ==
  ASSUME NEW c \in Clients
  PROVE  c # Free
<1>1. c.page \in Pages /\ Free.page = NULL
  BY DEF Clients, Free
<1> QED
  BY <1>1, ServerAssumption

-----------------------------------------------------------------------------
(***************************************************************************)
(* What a step of a page does, to itself alone.                            *)
(***************************************************************************)
OthersSame(p) == \A q \in Pages : q # p => /\ link'[q] = link[q] /\ c2s'[q] = c2s[q]
                                           /\ s2c'[q] = s2c[q] /\ page'[q] = page[q]

Connecting(p) == /\ link[p] = "none" /\ link'[p] = "syn" /\ s2c'[p] = s2c[p]
                 /\ page'[p].name \in Names /\ ~page'[p].open /\ c2s'[p] \in Requests

Leaving(p) == /\ \/ link[p] = "up" /\ link'[p] \in {"fin", "rst"}
                 \/ link[p] \in {"down", "gone"} /\ link'[p] = "none"
              /\ s2c'[p] = <<>> /\ page'[p] = Closed_page
              /\ \/ c2s'[p] = c2s[p]
                 \/ /\ page[p].open /\ link[p] = "up"
                    /\ c2s'[p] = Append(c2s[p], [code |-> "CLOSE"])

Noticing(p) == /\ link[p] = "down" /\ link'[p] = "gone" /\ s2c'[p] = <<>> /\ c2s'[p] = c2s[p]
               /\ page'[p].name = page[p].name /\ ~page'[p].open

Sending(p, f) == c2s'[p] = IF link[p] = "up" THEN Append(c2s[p], f) ELSE c2s[p]

Answered(p) == /\ link[p] \in {"up", "down"} /\ link'[p] = link[p]
               /\ s2c[p] # <<>> /\ Head(s2c[p]).code = "OPEN" /\ s2c'[p] = Tail(s2c[p])
               /\ page'[p].name = page[p].name /\ page'[p].open /\ Sending(p, Registration(p))

Showing(p) == /\ link[p] \in {"up", "down"} /\ link'[p] = link[p]
              /\ s2c[p] # <<>> /\ Head(s2c[p]).code = "TEXT" /\ s2c'[p] = Tail(s2c[p])
              /\ page'[p] = page[p] /\ c2s'[p] = c2s[p]

Message(p, to, text) == [code |-> "TEXT", body |-> [from |-> page[p].name, to |-> to, text |-> text]]
Typing(p) == /\ link'[p] = link[p] /\ s2c'[p] = s2c[p] /\ page'[p] = page[p] /\ page[p].open
             /\ \E to \in Names \cup {Broadcast}, text \in Texts : Sending(p, Message(p, to, text))

PageStep(p) ==
  OthersSame(p) /\ \/ Connecting(p) \/ Leaving(p) \/ Noticing(p)
                   \/ Answered(p) \/ Showing(p) \/ Typing(p)

(* A registration and a message are frames.                                *)
LEMMA FrameTypes ==
  ASSUME Shape, NEW p \in Pages, link[p] = "up"
  PROVE  /\ Registration(p) \in Frames(Codes)
         /\ \A to \in Names \cup {Broadcast}, text \in Texts : Message(p, to, text) \in Frames(Codes)
<1>1. page[p].name \in Names
  BY DEF Shape, NamesOK
<1>2. [from |-> "client", to |-> "server", text |-> page[p].name] \in Messages
  BY <1>1 DEF Messages
<1>3. \A to \in Names \cup {Broadcast}, text \in Texts :
        [from |-> page[p].name, to |-> to, text |-> text] \in Messages
  BY <1>1 DEF Messages
<1> QED
  BY <1>2, <1>3 DEF Registration, Message, Frames

LEMMA DisconnectFacts ==
  ASSUME Shape, NEW p \in Pages, Disconnect(p)
  PROVE  /\ link' \in [Pages -> Links] /\ s2c' \in [Pages -> Answers]
         /\ page' \in [Pages -> [name : Names \cup {NoName}, open : BOOLEAN]]
         /\ UNCHANGED <<connects, sends>>
         /\ \A q \in Pages : q # p => link'[q] = link[q] /\ s2c'[q] = s2c[q] /\ page'[q] = page[q]
         /\ \/ link[p] = "up" /\ link'[p] \in {"fin", "rst"}
            \/ link[p] \in {"down", "gone"} /\ link'[p] = "none"
         /\ s2c'[p] = <<>> /\ page'[p] = Closed_page
<1>1. NetTyped /\ PageTyped
  BY Typed DEF Shape
<1>2. PICK end \in {"fin", "rst", "none"} :
        /\ link' = [link EXCEPT ![p] = end]
        /\ \/ link[p] = "up" /\ end \in {"fin", "rst"}
           \/ link[p] \in {"down", "gone"} /\ end = "none"
  BY DEF Disconnect
<1>3. s2c' = [s2c EXCEPT ![p] = <<>>] /\ <<>> \in Answers
  BY EmptySeq DEF Disconnect, Answers
<1>4. page' = [page EXCEPT ![p] = Closed_page]
      /\ Closed_page \in [name : Names \cup {NoName}, open : BOOLEAN]
  BY DEF Disconnect, Closed_page
<1>5. end \in Links
  BY <1>2 DEF Links
<1> QED
  BY <1>1, <1>2, <1>3, <1>4, <1>5 DEF NetTyped, PageTyped, Disconnect

(* A frame is sent as long as both ends are open.                          *)
LEMMA SendFacts ==
  ASSUME Shape, NEW p \in Pages, NEW f, link[p] = "up" => f \in Frames(Codes), socket_send(p, f)
  PROVE  /\ c2s' \in [Pages -> Queues] /\ Sending(p, f)
         /\ \A q \in Pages : q # p => c2s'[q] = c2s[q]
<1>1. c2s \in [Pages -> Queues]
  BY Typed DEF Shape, NetTyped
<1>2. CASE link[p] = "up"
  <2>1. Append(c2s[p], f) \in Queues
    BY <1>1, <1>2, AppendProperties DEF Queues
  <2> QED
    BY <1>1, <1>2, <2>1 DEF socket_send, Sending
<1>3. CASE link[p] # "up"
  BY <1>1, <1>3 DEF socket_send, Sending
<1> QED
  BY <1>2, <1>3

(* What a page may open its connection with.                               *)
LEMMA RequestTypes ==
  ASSUME NEW r \in Requests
  PROVE  r \in Queues /\ \A k \in 1 .. Len(r) : r[k].code # "TEXT"
<1>1. {[code |-> "UPGRADE"], [code |-> "HEAD"], [code |-> "TAIL"], [code |-> "GET"]}
        \subseteq Frames(Codes)
  BY DEF Frames, Codes
<1>2. r \in {Whole, Cut, Plain}
  BY PageAssumption
<1>3. CASE r = Whole
  BY <1>1, <1>3 DEF Whole, Queues
<1>4. CASE r = Cut
  BY <1>1, <1>4 DEF Cut, Queues
<1>5. CASE r = Plain
  BY <1>1, <1>5 DEF Plain, Queues
<1> QED
  BY <1>2, <1>3, <1>4, <1>5

LEMMA PageFacts ==
  ASSUME Shape, PageNext
  PROVE  /\ NetTyped' /\ PageTyped'
         /\ \E p \in Pages : PageStep(p)
<1>1. NetTyped /\ PageTyped
  BY Typed DEF Shape
<1>2. PICK p \in Pages : \/ Connect(p) \/ CloseTab(p) \/ Vanish(p) \/ Delivery(p)
                         \/ \E to \in Names \cup {Broadcast}, text \in Texts :
                              sendMessage(p, to, text)
  BY DEF PageNext
<1>3. ASSUME s2c[p] # <<>>, s2c' = [s2c EXCEPT ![p] = Tail(@)]
      PROVE  /\ s2c' \in [Pages -> Answers] /\ s2c'[p] = Tail(s2c[p])
             /\ \A q \in Pages : q # p => s2c'[q] = s2c[q]
  <2>1. s2c[p] \in Answers /\ Tail(s2c[p]) \in Answers
    BY <1>1, <1>3, HeadTailProperties DEF NetTyped, Answers
  <2> QED
    BY <1>1, <1>3, <2>1 DEF NetTyped
<1>4. CASE Connect(p)
  <2>1. PICK name \in Names, r \in Requests :
          /\ page' = [page EXCEPT ![p] = [name |-> name, open |-> FALSE]]
          /\ c2s' = [c2s EXCEPT ![p] = r] /\ r \in Queues
    BY <1>4, RequestTypes DEF Connect
  <2>2. "syn" \in Links /\ [name |-> name, open |-> FALSE] \in [name : Names \cup {NoName}, open : BOOLEAN]
    BY DEF Links
  <2>3. connects' \in 0 .. MaxConnects
    BY <1>1, <1>4, PageAssumption DEF PageTyped, Connect
  <2>4. NetTyped' /\ PageTyped'
    BY <1>1, <1>4, <2>1, <2>2, <2>3 DEF Connect, NetTyped, PageTyped
  <2>5. Connecting(p) /\ OthersSame(p)
    BY <1>1, <1>4, <2>1 DEF Connect, Connecting, OthersSame, NetTyped, PageTyped
  <2> QED
    BY <2>4, <2>5 DEF PageStep
<1>5. CASE CloseTab(p) \/ Vanish(p) \/ onfail(p)
  <2>1. /\ Disconnect(p)
        /\ UNCHANGED c2s \/ (page[p].open /\ socket_send(p, [code |-> "CLOSE"]))
    BY <1>5 DEF CloseTab, Vanish, onfail
  <2>2. [code |-> "CLOSE"] \in Frames(Codes)
    BY DEF Frames, Codes
  <2>3. /\ c2s' \in [Pages -> Queues] /\ \A q \in Pages : q # p => c2s'[q] = c2s[q]
        /\ \/ c2s'[p] = c2s[p]
           \/ page[p].open /\ link[p] = "up" /\ c2s'[p] = Append(c2s[p], [code |-> "CLOSE"])
    BY <1>1, <2>1, <2>2, SendFacts DEF NetTyped, Sending
  <2>4. NetTyped' /\ PageTyped'
    BY <1>1, <2>1, <2>3, DisconnectFacts DEF NetTyped, PageTyped
  <2>5. Leaving(p) /\ OthersSame(p)
    BY <2>1, <2>3, DisconnectFacts DEF Leaving, OthersSame
  <2> QED
    BY <2>4, <2>5 DEF PageStep
<1>6. CASE onclose(p)
  <2>1. <<>> \in Answers /\ "gone" \in Links
    BY EmptySeq DEF Answers, Links
  <2>2. [page[p] EXCEPT !.open = FALSE] \in [name : Names \cup {NoName}, open : BOOLEAN]
    BY <1>1 DEF PageTyped
  <2>3. NetTyped' /\ PageTyped'
    BY <1>1, <1>6, <2>1, <2>2 DEF onclose, NetTyped, PageTyped
  <2>4. Noticing(p) /\ OthersSame(p)
    BY <1>1, <1>6 DEF onclose, Noticing, OthersSame, NetTyped, PageTyped
  <2> QED
    BY <2>3, <2>4 DEF PageStep
<1>7. CASE onopen(p)
  <2>1. /\ c2s' \in [Pages -> Queues] /\ \A q \in Pages : q # p => c2s'[q] = c2s[q]
        /\ Sending(p, Registration(p))
    BY <1>7, SendFacts, FrameTypes DEF onopen
  <2>2. [page[p] EXCEPT !.open = TRUE] \in [name : Names \cup {NoName}, open : BOOLEAN]
    BY <1>1 DEF PageTyped
  <2>3. page' = [page EXCEPT ![p] = [page[p] EXCEPT !.open = TRUE]]
    BY <1>7 DEF onopen
  <2>4. NetTyped' /\ PageTyped'
    BY <1>1, <1>3, <1>7, <2>1, <2>2, <2>3 DEF onopen, Reads, NetTyped, PageTyped
  <2>5. page'[p].name = page[p].name /\ page'[p].open /\ \A q \in Pages : q # p => page'[q] = page[q]
    BY <1>1, <2>3 DEF PageTyped
  <2>6. Answered(p) /\ OthersSame(p)
    BY <1>3, <1>7, <2>1, <2>5 DEF onopen, Reads, Answered, OthersSame
  <2> QED
    BY <2>4, <2>6 DEF PageStep
<1>8. CASE onmessage(p)
  <2>1. NetTyped' /\ PageTyped'
    BY <1>1, <1>3, <1>8 DEF onmessage, Reads, NetTyped, PageTyped, pageVars
  <2>2. Showing(p) /\ OthersSame(p)
    BY <1>3, <1>8 DEF onmessage, Reads, Showing, OthersSame, pageVars
  <2> QED
    BY <2>1, <2>2 DEF PageStep
<1>9. ASSUME NEW to \in Names \cup {Broadcast}, NEW text \in Texts, sendMessage(p, to, text)
      PROVE  NetTyped' /\ PageTyped' /\ PageStep(p)
  <2>1. socket_send(p, Message(p, to, text)) /\ page[p].open
    BY <1>9 DEF sendMessage, Message
  <2>2. /\ c2s' \in [Pages -> Queues] /\ \A q \in Pages : q # p => c2s'[q] = c2s[q]
        /\ Sending(p, Message(p, to, text))
    BY <2>1, SendFacts, FrameTypes
  <2>3. sends' \in 0 .. MaxSends
    BY <1>1, <1>9, PageAssumption DEF PageTyped, sendMessage
  <2>4. NetTyped' /\ PageTyped'
    BY <1>1, <1>9, <2>2, <2>3 DEF sendMessage, NetTyped, PageTyped
  <2>5. Typing(p) /\ OthersSame(p)
    BY <1>9, <2>1, <2>2 DEF sendMessage, Typing, OthersSame
  <2> QED
    BY <2>4, <2>5 DEF PageStep
<1> QED
  BY <1>2, <1>4, <1>5, <1>6, <1>7, <1>8, <1>9 DEF Delivery

LEMMA PageShape ==
  ASSUME Shape, PageNext, UNCHANGED serverVars
  PROVE  Shape'
<1>1. NetTyped /\ PageTyped /\ ServerTyped /\ NetTyped' /\ PageTyped'
  BY PageFacts, Typed DEF Shape
<1>2. PICK p \in Pages : PageStep(p)
  BY PageFacts
<1>3. ChatTypeOK'
  <2>1. ServerTyped'
    BY <1>1 DEF ServerTyped, serverVars
  <2>2. (NetTyped /\ PageTyped /\ ServerTyped => ChatTypeOK)'
    BY DEF ChatTypeOK, NetTyped, PageTyped, ServerTyped, Queues, Answers, Codes
  <2> QED
    BY <1>1, <2>1, <2>2
<1>4. NamesOK'
  <2>1. link'[p] \in {"syn", "up", "down", "gone"} => page'[p].name \in Names
    BY <1>2 DEF Shape, NamesOK, PageStep, Connecting, Leaving, Noticing, Answered, Showing, Typing
  <2> QED
    BY <1>2, <2>1 DEF Shape, NamesOK, PageStep, OthersSame
<1>5. SentOK'
  <2>1. ASSUME NEW f, c2s'[p] = Append(c2s[p], f),
               f.code = "TEXT" /\ f.body.from = "client" => f.body.text \in Names
        PROVE  \A k \in 1 .. Len(c2s'[p]) : c2s'[p][k].code = "TEXT" /\ c2s'[p][k].body.from = "client"
                                              => c2s'[p][k].body.text \in Names
    <3>1. c2s[p] \in Seq(Frames(Codes))
      BY <1>1 DEF NetTyped, Queues
    <3>2. /\ Len(c2s'[p]) = Len(c2s[p]) + 1 /\ Len(c2s[p]) \in Nat /\ c2s'[p][Len(c2s[p]) + 1] = f
          /\ \A k \in 1 .. Len(c2s[p]) : c2s'[p][k] = c2s[p][k]
      BY <2>1, <3>1
    <3> QED
      BY <2>1, <3>2 DEF Shape, SentOK
  <2>2. \A k \in 1 .. Len(c2s'[p]) : c2s'[p][k].code = "TEXT" /\ c2s'[p][k].body.from = "client"
                                       => c2s'[p][k].body.text \in Names
    <3>1. CASE Connecting(p)
      BY <3>1, RequestTypes DEF Connecting
    <3>2. CASE c2s'[p] = c2s[p]
      BY <3>2 DEF Shape, SentOK
    <3>3. CASE c2s'[p] = Append(c2s[p], [code |-> "CLOSE"])
      BY <2>1, <3>3
    <3>4. CASE link[p] = "up" /\ c2s'[p] = Append(c2s[p], Registration(p))
      <4>1. page[p].name \in Names
        BY <3>4 DEF Shape, NamesOK
      <4> QED
        BY <2>1, <3>4, <4>1 DEF Registration
    <3>5. ASSUME link[p] = "up", NEW to \in Names \cup {Broadcast}, NEW text \in Texts,
                 c2s'[p] = Append(c2s[p], Message(p, to, text))
          PROVE  \A k \in 1 .. Len(c2s'[p]) :
                   c2s'[p][k].code = "TEXT" /\ c2s'[p][k].body.from = "client"
                     => c2s'[p][k].body.text \in Names
      <4>1. page[p].name \in Names /\ page[p].name # "client"
        BY <3>5, PageAssumption DEF Shape, NamesOK
      <4> QED
        BY <2>1, <3>5, <4>1 DEF Message
    <3> QED
      BY <1>2, <3>1, <3>2, <3>3, <3>4, <3>5
      DEF PageStep, Leaving, Noticing, Answered, Showing, Typing, Sending
  <2> QED
    BY <1>2, <2>2 DEF Shape, SentOK, PageStep, OthersSame
<1>6. WatchOK'
  <2>1. link[p] \in OpenEnds => link'[p] \in OpenEnds
    BY <1>2 DEF PageStep, Connecting, Leaving, Noticing, Answered, Showing, Typing, OpenEnds
  <2> QED
    BY <1>2, <2>1 DEF Shape, WatchOK, PageStep, OthersSame, serverVars
<1>7. ClientsOK'
  BY DEF Shape, ClientsOK, Live, serverVars
<1> QED
  BY <1>3, <1>4, <1>5, <1>6, <1>7 DEF Shape

LEMMA ServerVarsListed ==
  ASSUME Listed, UNCHANGED <<Table, heap, watch, fault, clash>>
  PROVE  Listed'
BY DEF Listed, UsersAreConnected, UsersAreListed, ClientsMirrorSockets, Live

(* A line in which the page writes, or that it leaves.                     *)
LEMMA LineGrows ==
  ASSUME NEW q \in Queues, NEW l, l = "up", NEW pg, NEW c, Line(q, l, pg, c), NEW f,
         \/ c.added /\ IsMessage(f, pg.name)
         \/ pg.open /\ IsMessage(f, pg.name)
         \/ ~c.added /\ q = <<>> /\ pg.name \in Names /\ IsNewcomer(f, pg.name),
         NEW after, after.name = pg.name
  PROVE  Line(Append(q, f), l, after, c)
<1>1. PICK r : r = Append(q, f)
  OBVIOUS
<1>2. /\ Len(q) \in Nat /\ Len(r) = Len(q) + 1 /\ r[Len(q) + 1] = f /\ r # <<>>
      /\ \A k \in 1 .. Len(q) : r[k] = q[k]
  BY <1>1 DEF Queues
<1>3. CASE c.added
  <2>1. IsMessage(f, c.username)
    BY <1>3 DEF Line
  <2> QED
    BY <1>1, <1>2, <1>3, <2>1 DEF Line
<1>4. CASE ~c.added /\ q # <<>>
  <2>1. PICK n \in Names : /\ pg.name = n /\ IsNewcomer(q[1], n)
                           /\ \A k \in 2 .. Len(q) : IsMessage(q[k], n)
    BY <1>4 DEF Line
  <2>2. IsMessage(f, n) /\ Len(q) >= 1
    BY <1>2, <1>4, <2>1, EmptySeq DEF Queues
  <2> QED
    BY <1>1, <1>2, <1>4, <2>1, <2>2 DEF Line
<1>5. CASE ~c.added /\ q = <<>>
  <2>1. ~pg.open
    BY <1>5 DEF Line
  <2>2. pg.name \in Names /\ IsNewcomer(f, pg.name)
    BY <1>5, <2>1
  <2>3. Len(q) = 0
    BY <1>5
  <2> QED
    BY <1>1, <1>2, <1>5, <2>2, <2>3 DEF Line
<1> QED
  BY <1>3, <1>4, <1>5

LEMMA LineLeft ==
  ASSUME NEW q \in Queues, NEW on, NEW pg, NEW c, Line(q, on, pg, c), NEW after, ~after.open,
         NEW l, l # "up"
  PROVE  /\ Line(q, l, after, c)
         /\ pg.open => Line(Append(q, [code |-> "CLOSE"]), l, after, c)
<1>1. Line(q, l, after, c)
  BY DEF Line
<1>2. ASSUME pg.open PROVE Line(Append(q, [code |-> "CLOSE"]), l, after, c)
  <2>1. PICK r : r = Append(q, [code |-> "CLOSE"])
    OBVIOUS
  <2>2. /\ Len(q) \in Nat /\ Len(r) = Len(q) + 1 /\ r[Len(q) + 1] = [code |-> "CLOSE"] /\ r # <<>>
        /\ \A k \in 1 .. Len(q) : r[k] = q[k]
    BY <2>1 DEF Queues
  <2>3. \A n : IsMessage([code |-> "CLOSE"], n)
    BY DEF IsMessage, IsText
  <2>4. c.added \/ q # <<>>
    BY <1>2 DEF Line
  <2>5. CASE c.added
    BY <2>1, <2>2, <2>3, <2>5 DEF Line
  <2>6. CASE ~c.added
    <3>1. PICK n \in Names : IsNewcomer(q[1], n) /\ \A k \in 2 .. Len(q) : IsMessage(q[k], n)
      BY <2>4, <2>6 DEF Line
    <3>2. Len(q) >= 1
      BY <2>2, <2>4, <2>6, EmptySeq DEF Queues
    <3> QED
      BY <2>1, <2>2, <2>3, <2>6, <3>1, <3>2 DEF Line
  <2> QED
    BY <2>1, <2>5, <2>6
<1> QED
  BY <1>1, <1>2

LEMMA PageLines ==
  ASSUME Shape, Lines, PageNext, UNCHANGED serverVars
  PROVE  Lines'
<1>1. NetTyped /\ PageTyped
  BY Typed DEF Shape
<1>2. PICK p \in Pages : PageStep(p)
  BY PageFacts
<1>3. /\ s2c[p] \in Seq(Frames({"OPEN", "BADOPEN"}))
      /\ c2s[p] \in Seq(Frames(Codes)) /\ Len(c2s[p]) \in Nat
  BY <1>1 DEF NetTyped, Answers, Queues
<1> USE DEF Lines, AnswersFirst, IsText
<1>4. AnswersFirst'
  <2> SUFFICES ASSUME ~fault
               PROVE  /\ s2c'[p] # <<>> => (link'[p] = "up" /\ watch[p] # NULL) \/ link'[p] = "down"
                      /\ \A k \in 2 .. Len(s2c'[p]) : IsText(s2c'[p][k])
                      /\ link'[p] = "syn" \/ accepting = p => c2s'[p] \in Requests /\ ~page'[p].open
    BY <1>2 DEF PageStep, OthersSame, serverVars
  <2>1. accepting = p => link[p] \in OpenEnds /\ watch[p] = NULL
    BY DEF Shape, WatchOK
  <2>2. CASE Connecting(p)
    BY <2>1, <2>2 DEF Connecting, OpenEnds
  <2>3. CASE Leaving(p)
    BY <2>1, <2>3, EmptySeq DEF Leaving, Closed_page, OpenEnds
  <2>4. CASE Noticing(p)
    BY <2>1, <2>4, EmptySeq DEF Noticing, OpenEnds
  <2>5. CASE Answered(p) \/ Showing(p)
    <3>1. s2c[p] # <<>> /\ s2c'[p] = Tail(s2c[p]) /\ link'[p] = link[p] /\ link[p] \in {"up", "down"}
      BY <2>5 DEF Answered, Showing
    <3>2. /\ Len(s2c[p]) \in Nat /\ Len(s2c'[p]) = Len(s2c[p]) - 1
          /\ \A k \in 1 .. Len(s2c'[p]) : s2c'[p][k] = s2c[p][k + 1]
      BY <1>3, <3>1, HeadTailProperties
    <3>3. \A k \in 2 .. Len(s2c'[p]) : IsText(s2c'[p][k])
      BY <3>2
    <3>4. accepting # p
      BY <2>1, <3>1 DEF OpenEnds
    <3> QED
      BY <3>1, <3>3, <3>4
  <2>6. CASE Typing(p)
    BY <2>6 DEF Typing
  <2> QED
    BY <1>2, <2>2, <2>3, <2>4, <2>5, <2>6 DEF PageStep
<1>5. LinesOK'
  <2> SUFFICES ASSUME ~fault, NEW a \in Addrs, Live(a), watch[heap[a].page] = a, heap[a].page = p
               PROVE  Line(c2s'[p], link'[p], page'[p], heap[a])
    <3>1. \A a \in Addrs : Live(a) => heap[a].page \in Pages
      BY LiveFacts DEF Shape
    <3> QED
      BY <1>2, <3>1 DEF LinesOK, Live, PageStep, OthersSame, serverVars
  <2>1. link[p] \in OpenEnds
    BY ServerAssumption DEF Shape, WatchOK
  <2>2. Line(c2s[p], link[p], page[p], heap[a]) /\ c2s[p] \in Queues
    BY <1>3 DEF LinesOK, Queues
  <2>3. CASE Leaving(p)
    <3>1. ~page'[p].open /\ link'[p] # "up"
      BY <2>3 DEF Leaving, Closed_page
    <3>2. /\ Line(c2s[p], link'[p], page'[p], heap[a])
          /\ page[p].open => Line(Append(c2s[p], [code |-> "CLOSE"]), link'[p], page'[p], heap[a])
      BY <2>2, <3>1, LineLeft
    <3>3. CASE c2s'[p] = c2s[p]
      BY <3>2, <3>3
    <3>4. CASE page[p].open /\ c2s'[p] = Append(c2s[p], [code |-> "CLOSE"])
      BY <3>2, <3>4
    <3> QED
      BY <2>3, <3>3, <3>4 DEF Leaving
  <2>4. CASE Showing(p)
    BY <2>2, <2>4 DEF Showing
  <2>5. CASE link[p] # "up" /\ Typing(p)
    BY <2>2, <2>5 DEF Typing, Sending
  <2>6. CASE link[p] = "up" /\ Typing(p)
    <3>1. PICK to \in Names \cup {Broadcast}, text \in Texts :
            c2s'[p] = Append(c2s[p], Message(p, to, text))
      BY <2>6 DEF Typing, Sending
    <3>2. IsMessage(Message(p, to, text), page[p].name)
      BY DEF IsMessage, Message
    <3>3. page[p].open /\ page'[p] = page[p] /\ link'[p] = "up"
      BY <2>6 DEF Typing
    <3>4. Line(Append(c2s[p], Message(p, to, text)), link[p], page[p], heap[a])
      BY <2>2, <2>6, <3>2, <3>3, LineGrows
    <3> QED
      BY <2>6, <3>1, <3>3, <3>4
  <2>7. CASE Answered(p)
    <3>1. link[p] = "up" /\ s2c[p] # <<>> /\ s2c[p][1].code = "OPEN"
      BY <1>3, <2>1, <2>7 DEF Answered, OpenEnds
    <3>2. ~heap[a].added /\ c2s[p] = <<>>
      BY <3>1 DEF AnswersOK
    <3>3. /\ c2s'[p] = Append(c2s[p], Registration(p)) /\ link'[p] = "up"
          /\ page'[p].name = page[p].name /\ page[p].name \in Names
      BY <2>7, <3>1 DEF Answered, Sending, Shape, NamesOK
    <3>4. IsNewcomer(Registration(p), page[p].name)
      BY DEF IsNewcomer, Registration
    <3>5. Line(Append(c2s[p], Registration(p)), link[p], page'[p], heap[a])
      BY <2>2, <3>1, <3>2, <3>3, <3>4, LineGrows
    <3> QED
      BY <3>1, <3>3, <3>5
  <2> QED
    BY <1>2, <2>1, <2>3, <2>4, <2>5, <2>6, <2>7 DEF PageStep, Connecting, Noticing, OpenEnds
<1>6. AnswersOK'
  <2> SUFFICES ASSUME ~fault, s2c'[p] # <<>>, ~IsText(s2c'[p][1]), link'[p] = "up"
               PROVE  /\ Live(watch[p]) /\ heap[watch[p]].page = p /\ ~heap[watch[p]].added
                      /\ c2s'[p] = <<>> /\ ~page'[p].open
    BY <1>2 DEF AnswersOK, Live, PageStep, OthersSame, serverVars
  <2>1. CASE Answered(p) \/ Showing(p)
    <3>1. s2c[p] # <<>> /\ s2c'[p] = Tail(s2c[p])
      BY <2>1 DEF Answered, Showing
    <3>2. /\ Len(s2c[p]) \in Nat /\ Len(s2c'[p]) = Len(s2c[p]) - 1
          /\ \A k \in 1 .. Len(s2c'[p]) : s2c'[p][k] = s2c[p][k + 1]
      BY <1>3, <3>1, HeadTailProperties
    <3>3. Len(s2c'[p]) >= 1
      BY <1>3, <3>1, <3>2, HeadTailProperties, EmptySeq
    <3>4. IsText(s2c[p][2])
      BY <3>2, <3>3
    <3> QED
      BY <3>2, <3>3, <3>4
  <2>2. CASE Typing(p)
    BY <2>2 DEF Typing, AnswersOK
  <2> QED
    BY <1>2, <2>1, <2>2 DEF PageStep, Connecting, Leaving, Noticing
<1> QED
  BY <1>4, <1>5, <1>6

-----------------------------------------------------------------------------
(***************************************************************************)
(* What a step of the server does.                                         *)
(***************************************************************************)
SameAt(q) == link'[q] = link[q] /\ c2s'[q] = c2s[q] /\ watch'[q] = watch[q]

(* close_connection of a, whose Client is c by now.                        *)
Drops(a, c) ==
  /\ IF watch[c.page] = a
     THEN /\ watch'[c.page] = NULL /\ link'[c.page] = Closed(link[c.page]) /\ c2s'[c.page] = <<>>
          /\ \A q \in Pages : q # c.page => SameAt(q)
     ELSE \A q \in Pages : SameAt(q)
  /\ Table'[c.username] = NULL /\ \A n \in Names : n # c.username => Table'[n] = Table[n]
  /\ \A b \in Addrs : heap'[b] = IF b = Table[c.username] THEN Free
                                 ELSE IF b = a THEN [c EXCEPT !.active = FALSE] ELSE heap[b]
  /\ UNCHANGED <<s2c, up, accepting, fault>>

(* The process dies with these connections and queues.                     *)
Ends(links, queues) ==
  /\ ~up' /\ accepting' = NULL /\ s2c' = queues /\ UNCHANGED clash
  /\ \A n \in Names : Table'[n] = NULL
  /\ \A a \in Addrs : heap'[a] = Free
  /\ \A p \in Pages : /\ watch'[p] = NULL /\ c2s'[p] = <<>>
                      /\ link'[p] = IF links[p] \in {"up", "syn"} THEN "down"
                                    ELSE IF links[p] \in {"fin", "rst"} THEN "none" ELSE links[p]

LEMMA EndFacts ==
  ASSUME Shape, NEW links \in [Pages -> Links], NEW queues \in [Pages -> Answers],
         Die(links, queues), fault' \in BOOLEAN
  PROVE  NetTyped' /\ ServerTyped' /\ Ends(links, queues)
<1>1. ServerTyped /\ NetTyped
  BY Typed DEF Shape
<1>2. PICK states : states = AllClosed(links)
  OBVIOUS
<1>3. \A p \in Pages : states[p] = IF links[p] \in {"up", "syn"} THEN "down"
                                   ELSE IF links[p] \in {"fin", "rst"} THEN "none" ELSE links[p]
  BY <1>2 DEF AllClosed
<1>4. states \in [Pages -> Links]
  <2>1. states = [p \in Pages |-> states[p]]
    BY <1>2 DEF AllClosed
  <2>2. \A p \in Pages : states[p] \in Links
    BY <1>3 DEF Links
  <2> QED
    BY <2>1, <2>2
<1>5. NetTyped'
  BY <1>2, <1>4, EmptySeq DEF Die, NetTyped, Queues
<1>6. ServerTyped'
  BY <1>1, EmptySeq DEF Die, ServerTyped
<1>7. Ends(links, queues)
  BY <1>2, <1>3 DEF Die, Ends
<1> QED
  BY <1>5, <1>6, <1>7

LEMMA DropFacts ==
  ASSUME Shape, NEW a, Live(a), NEW c \in Clients, c.username \in Names,
         NEW clients, clients = [heap EXCEPT ![a] = c], close_connection(a, clients)
  PROVE  /\ Drops(a, c) /\ NetTyped'
         /\ first' \in Addrs \cup {NULL, LISTEN} /\ events' \in Seq({"in", "hup"}) /\ clash' \in BOOLEAN
              => ServerTyped'
<1>1. ServerTyped /\ NetTyped /\ a \in Addrs /\ c.page \in Pages
  BY Typed, LiveFacts DEF Shape, Clients
<1>2. clients[a] = c /\ clients \in [Addrs -> Clients \cup {Free}]
  BY <1>1 DEF ServerTyped
<1>3. c.username # NoName
  BY PageAssumption
<1>4. PICK n, p : n = c.username /\ p = c.page
  OBVIOUS
<1>5. /\ watch' = [watch EXCEPT ![p] = IF watch[p] = a THEN NULL ELSE @]
      /\ link' = IF watch[p] = a THEN close(p) ELSE link
      /\ c2s' = [c2s EXCEPT ![p] = IF watch[p] = a THEN <<>> ELSE @]
      /\ heap' = removeKey([clients EXCEPT ![a].active = FALSE], n)
      /\ Table' = Without(n)
      /\ UNCHANGED <<s2c, up, accepting, fault>>
  BY <1>2, <1>3, <1>4 DEF close_connection
<1>6. PICK inactive : inactive = [c EXCEPT !.active = FALSE]
  OBVIOUS
<1>7. inactive \in Clients
  BY <1>6 DEF Clients
<1>8. \A b \in Addrs : heap'[b] = IF b = Table[n] THEN Free ELSE IF b = a THEN inactive ELSE heap[b]
  BY <1>1, <1>2, <1>4, <1>5, <1>6 DEF removeKey
<1>9. heap' \in [Addrs -> Clients \cup {Free}]
  <2>1. heap' = [b \in Addrs |-> heap'[b]]
    BY <1>5 DEF removeKey
  <2>2. \A b \in Addrs : heap'[b] \in Clients \cup {Free}
    BY <1>1, <1>7, <1>8 DEF ServerTyped
  <2> QED
    BY <2>1, <2>2
<1>10. Table'[n] = NULL /\ \A m \in Names : m # n => Table'[m] = Table[m]
  BY <1>1, <1>4, <1>5 DEF Without
<1>11. Table' \in [Names -> Addrs \cup {NULL}]
  BY <1>1, <1>5 DEF Without, ServerTyped
<1>12. CASE watch[p] = a
  <2>1. /\ watch'[p] = NULL /\ link'[p] = Closed(link[p]) /\ c2s'[p] = <<>>
        /\ \A q \in Pages : q # p => SameAt(q)
    BY <1>1, <1>4, <1>5, <1>12 DEF close, SameAt, NetTyped, ServerTyped
  <2>2. Closed(link[p]) \in Links /\ <<>> \in Queues
    BY EmptySeq DEF Closed, Links, Queues
  <2>3. /\ watch' \in [Pages -> Addrs \cup {NULL}] /\ link' \in [Pages -> Links]
        /\ c2s' \in [Pages -> Queues]
    BY <1>1, <1>5, <1>12, <2>2 DEF close, NetTyped, ServerTyped
  <2> QED
    BY <1>1, <1>4, <1>5, <1>6, <1>8, <1>9, <1>10, <1>11, <1>12, <2>1, <2>3
    DEF Drops, NetTyped, ServerTyped
<1>13. CASE watch[p] # a
  <2>1. UNCHANGED <<watch, link, c2s>>
    BY <1>1, <1>5, <1>13 DEF NetTyped, ServerTyped
  <2> QED
    BY <1>1, <1>4, <1>5, <1>6, <1>8, <1>9, <1>10, <1>11, <1>13, <2>1
    DEF Drops, SameAt, NetTyped, ServerTyped
<1> QED
  BY <1>12, <1>13

(* ChatTypeOK, from its parts, after a step.                               *)
LEMMA TypedAfter == NetTyped' /\ PageTyped' /\ ServerTyped' => ChatTypeOK'
BY DEF ChatTypeOK, NetTyped, PageTyped, ServerTyped, Queues, Answers, Codes

(* A process that dies leaves nothing to be wrong about.                   *)
LEMMA EndInv ==
  ASSUME Shape, Lines, UNCHANGED pageVars, NetTyped', ServerTyped',
         NEW links, NEW queues, Ends(links, queues),
         \A p \in Pages : links[p] = link[p] \/ (links[p] = "rst" /\ link[p] = "fin"),
         ~fault' => \A p \in Pages :
           /\ queues[p] # <<>> => link[p] \in {"up", "down"}
           /\ \A k \in 2 .. Len(queues[p]) : IsText(queues[p][k])
  PROVE  Shape' /\ Listed' /\ Lines'
<1>1. ChatTypeOK'
  <2>1. PageTyped'
    BY Typed DEF Shape, PageTyped, pageVars
  <2> QED
    BY <2>1, TypedAfter
<1>2. NamesOK' /\ SentOK' /\ WatchOK' /\ ClientsOK'
  <2>1. NamesOK'
    BY DEF Shape, NamesOK, Ends, pageVars
  <2>2. SentOK'
    BY DEF SentOK, Ends
  <2>3. WatchOK' /\ ClientsOK'
    BY ServerAssumption DEF WatchOK, ClientsOK, Ends, Live
  <2> QED
    BY <2>1, <2>2, <2>3
<1>3. Listed'
  BY DEF Listed, UsersAreConnected, UsersAreListed, ClientsMirrorSockets, Live, Ends
<1>4. Lines'
  <2>1. AnswersFirst'
    BY ServerAssumption DEF AnswersFirst, Ends, IsText
  <2>2. LinesOK' /\ AnswersOK'
    BY DEF LinesOK, AnswersOK, Ends, Live
  <2> QED
    BY <2>1, <2>2 DEF Lines
<1> QED
  BY <1>1, <1>2, <1>3, <1>4 DEF Shape

(* close_connection keeps the invariant: of a Client as it is, and of one  *)
(* that has just asked for a name that is taken.                           *)
LEMMA DropInv ==
  ASSUME Shape, Listed, Lines, UNCHANGED pageVars, NetTyped', ServerTyped',
         NEW a, Live(a), NEW c \in Clients, Drops(a, c),
         c.page = heap[a].page, c.username \in Names, c.added,
         \/ c = heap[a] /\ UNCHANGED clash
         \/ clash' /\ ~heap[a].added /\ watch[c.page] = a
  PROVE  Shape' /\ Listed' /\ Lines'
<1>1. PICK u, p : u = c.username /\ p = c.page
  OBVIOUS
<1>2. /\ a \in Addrs /\ a # NULL /\ p \in Pages /\ heap[a].page = p /\ u \in Names
      /\ fault' = fault /\ accepting' = accepting /\ s2c' = s2c /\ page' = page
  BY <1>1, LiveFacts DEF Shape, Drops, pageVars
<1>3. /\ Table'[u] = NULL
      /\ \A n \in Names : n # u => Table'[n] = Table[n]
  BY <1>1 DEF Drops
<1>4. \A q \in Pages : \/ SameAt(q)
                       \/ /\ q = p /\ watch[p] = a /\ watch'[p] = NULL
                          /\ link'[p] = Closed(link[p]) /\ c2s'[p] = <<>>
  BY <1>1 DEF Drops
<1>5. watch'[p] # a
  BY <1>1, <1>2 DEF Drops, SameAt
<1>6. PICK gone : gone = [c EXCEPT !.active = FALSE]
  OBVIOUS
<1>7. /\ gone.page = p /\ gone.username = u /\ gone.added
      /\ \A b \in Addrs : heap'[b] = IF b = Table[u] THEN Free ELSE IF b = a THEN gone ELSE heap[b]
  BY <1>1, <1>6 DEF Drops, Clients
<1>8. \A b \in Addrs : b # Table[u] /\ b # a => heap'[b] = heap[b]
  BY <1>7
<1>9. \A b : Live(b)' /\ watch'[heap'[b].page] = b
          => b # a /\ Live(b) /\ heap'[b] = heap[b] /\ heap[b].page \in Pages
             /\ SameAt(heap[b].page) /\ watch[heap[b].page] = b /\ b # Table[u] /\ b \in Addrs
  <2> SUFFICES ASSUME NEW b, Live(b)', watch'[heap'[b].page] = b
      PROVE   b # a /\ Live(b) /\ heap'[b] = heap[b] /\ heap[b].page \in Pages
              /\ SameAt(heap[b].page) /\ watch[heap[b].page] = b /\ b # Table[u] /\ b \in Addrs
    OBVIOUS
  <2>1. b \in Addrs /\ heap'[b] # Free
    BY DEF Live
  <2>2. b # Table[u]
    BY <1>7, <2>1
  <2>3. b # a
    BY <1>5, <1>7, <2>1, <2>2
  <2>4. heap'[b] = heap[b] /\ Live(b)
    BY <1>8, <2>1, <2>2, <2>3 DEF Live
  <2>5. heap[b].page \in Pages /\ b # NULL
    BY <2>4, LiveFacts DEF Shape
  <2> QED
    BY <1>4, <2>1, <2>2, <2>3, <2>4, <2>5 DEF SameAt
<1>10. Shape'
  <2>1. ChatTypeOK'
    <3>1. PageTyped'
      BY Typed DEF Shape, PageTyped, pageVars
    <3> QED
      BY <3>1, TypedAfter
  <2>2. NamesOK'
    BY <1>2, <1>4 DEF Shape, NamesOK, SameAt, Closed
  <2>3. SentOK'
    BY <1>4 DEF Shape, SentOK, SameAt
  <2>4. WatchOK'
    BY <1>2, <1>4 DEF Shape, WatchOK, SameAt
  <2>5. ClientsOK'
    <3> SUFFICES ASSUME NEW b \in Addrs, Live(b)'
                 PROVE  /\ watch'[heap'[b].page] = b => heap'[b].active
                        /\ heap'[b].added <=> heap'[b].username \in Names
      BY DEF ClientsOK
    <3>1. b # Table[u]
      BY <1>7 DEF Live
    <3>2. CASE b = a
      BY <1>2, <1>5, <1>7, <3>1, <3>2
    <3>3. CASE b # a
      BY <1>8, <1>9, <3>1, <3>3 DEF Shape, ClientsOK, Live
    <3> QED
      BY <3>2, <3>3
  <2> QED
    BY <2>1, <2>2, <2>3, <2>4, <2>5 DEF Shape
<1>11. ASSUME ~fault PROVE \A b : b = Table[u] /\ b # NULL =>
                             Live(b) /\ heap[b].username = u /\ heap[b].added /\ watch[heap[b].page] = b
  BY <1>2, <1>11 DEF Listed, UsersAreConnected
<1>12. UsersAreConnected'
  <2> SUFFICES ASSUME ~fault, NEW n \in Names, Table'[n] # NULL, NEW b, b = Table'[n]
               PROVE  /\ Live(b)' /\ heap'[b].username = n /\ heap'[b].added /\ heap'[b].active
                      /\ watch'[heap'[b].page] = b
    BY <1>2 DEF UsersAreConnected
  <2>1. n # u /\ b = Table[n] /\ b # NULL
    BY <1>3
  <2>2. Live(b) /\ heap[b].username = n /\ heap[b].added /\ heap[b].active /\ watch[heap[b].page] = b
    BY <2>1 DEF Listed, UsersAreConnected
  <2>3. b # Table[u]
    BY <1>11, <2>1, <2>2
  <2>4. b # a
    BY <1>1, <2>1, <2>2
  <2>5. heap'[b] = heap[b] /\ heap[b].page \in Pages
    BY <1>8, <2>2, <2>3, <2>4, LiveFacts DEF Shape
  <2>6. watch'[heap[b].page] = b
    BY <1>4, <2>2, <2>4, <2>5 DEF SameAt
  <2> QED
    BY <2>2, <2>5, <2>6 DEF Live
<1>13. UsersAreListed'
  <2> SUFFICES ASSUME ~fault, NEW b \in Addrs, Live(b)', watch'[heap'[b].page] = b, heap'[b].added
               PROVE  Table'[heap'[b].username] = b
    BY <1>2 DEF UsersAreListed
  <2>1. b # Table[u] /\ Live(b) /\ heap'[b] = heap[b] /\ watch[heap[b].page] = b /\ heap[b].added
    BY <1>9
  <2>2. Table[heap[b].username] = b
    BY <2>1 DEF Listed, UsersAreListed
  <2>3. heap[b].username \in Names
    BY <2>1 DEF Shape, ClientsOK
  <2> QED
    BY <1>3, <2>1, <2>2, <2>3
<1>14. ClientsMirrorSockets'
  <2> SUFFICES ASSUME ~fault, ~clash'
               PROVE  /\ \A q \in Pages : watch'[q] # NULL =>
                            /\ watch'[q] \in Addrs /\ heap'[watch'[q]] # Free
                            /\ heap'[watch'[q]].page = q
                      /\ \A b \in Addrs : Live(b)' => watch'[heap'[b].page] = b
    BY <1>2 DEF ClientsMirrorSockets, Live
  <2>1. ~clash /\ c = heap[a]
    OBVIOUS
  <2>2. /\ \A q \in Pages : watch[q] # NULL => Live(watch[q]) /\ heap[watch[q]].page = q
        /\ \A b \in Addrs : Live(b) => watch[heap[b].page] = b
    BY <2>1 DEF Listed, ClientsMirrorSockets
  <2>3. Table[u] = a /\ watch[p] = a
    BY <1>1, <1>2, <2>1, <2>2 DEF Listed, UsersAreListed
  <2>4. ASSUME NEW q \in Pages, watch'[q] # NULL, NEW b, b = watch'[q]
        PROVE  b \in Addrs /\ heap'[b] # Free /\ heap'[b].page = q
    <3>1. b = watch[q] /\ q # p
      BY <1>4, <2>3, <2>4, <1>5 DEF SameAt
    <3>2. Live(b) /\ heap[b].page = q /\ b # a
      BY <1>2, <2>2, <2>4, <3>1
    <3> QED
      BY <1>8, <2>3, <3>2 DEF Live
  <2>5. ASSUME NEW b \in Addrs, Live(b)'
        PROVE  watch'[heap'[b].page] = b
    <3>1. b # a
      BY <1>7, <2>3, <2>5 DEF Live
    <3>2. heap'[b] = heap[b] /\ Live(b) /\ watch[heap[b].page] = b /\ heap[b].page \in Pages
      BY <1>8, <2>2, <2>3, <2>5, <3>1, LiveFacts DEF Live, Shape
    <3> QED
      BY <1>4, <3>1, <3>2 DEF SameAt
  <2> QED
    BY <2>4, <2>5
<1>15. AnswersFirst'
  <2> SUFFICES ASSUME ~fault, NEW q \in Pages
               PROVE  /\ s2c[q] # <<>> => (link'[q] = "up" /\ watch'[q] # NULL) \/ link'[q] = "down"
                      /\ \A k \in 2 .. Len(s2c[q]) : IsText(s2c[q][k])
                      /\ link'[q] = "syn" \/ accepting = q => c2s'[q] \in Requests /\ ~page[q].open
    BY <1>2 DEF AnswersFirst, IsText
  <2>1. /\ s2c[q] # <<>> => (link[q] = "up" /\ watch[q] # NULL) \/ link[q] = "down"
        /\ \A k \in 2 .. Len(s2c[q]) : IsText(s2c[q][k])
        /\ link[q] = "syn" \/ accepting = q => c2s[q] \in Requests /\ ~page[q].open
    BY DEF Lines, AnswersFirst
  <2>2. CASE SameAt(q)
    BY <2>1, <2>2 DEF SameAt
  <2>3. CASE q = p /\ watch[p] = a /\ watch'[p] = NULL /\ link'[p] = Closed(link[p])
    <3>1. link[p] \in OpenEnds /\ accepting # p
      BY <1>2, <2>3 DEF Shape, WatchOK
    <3> QED
      BY <2>1, <2>3, <3>1 DEF OpenEnds, Closed
  <2> QED
    BY <1>4, <2>2, <2>3
<1>16. LinesOK'
  <2> SUFFICES ASSUME ~fault, NEW b \in Addrs, Live(b)', watch'[heap'[b].page] = b,
                      NEW q, q = heap'[b].page
               PROVE  Line(c2s'[q], link'[q], page[q], heap'[b])
    BY <1>2 DEF LinesOK
  <2>1. Live(b) /\ heap'[b] = heap[b] /\ q = heap[b].page /\ SameAt(q) /\ watch[q] = b
    BY <1>9
  <2>2. Line(c2s[q], link[q], page[q], heap[b])
    BY <2>1 DEF Lines, LinesOK
  <2> QED
    BY <2>1, <2>2 DEF SameAt
<1>17. AnswersOK'
  <2> SUFFICES ASSUME ~fault, NEW q \in Pages, s2c[q] # <<>>, ~IsText(s2c[q][1]), link'[q] = "up",
                      NEW b, b = watch'[q]
               PROVE  /\ Live(b)' /\ heap'[b].page = q /\ ~heap'[b].added
                      /\ c2s'[q] = <<>> /\ ~page[q].open
    BY <1>2 DEF AnswersOK, Live, IsText
  <2>1. SameAt(q)
    BY <1>4 DEF Closed
  <2>2. /\ b = watch[q] /\ Live(b) /\ heap[b].page = q /\ ~heap[b].added
        /\ c2s[q] = <<>> /\ ~page[q].open
    BY <2>1 DEF SameAt, Lines, AnswersOK
  <2>3. b # a
    BY <1>2, <1>5, <2>1, <2>2 DEF SameAt
  <2>4. b \in Addrs /\ b # NULL
    BY <2>2, LiveFacts DEF Shape
  <2>5. b # Table[u]
    BY <1>11, <2>2, <2>4
  <2> QED
    BY <1>8, <2>1, <2>2, <2>3, <2>4, <2>5 DEF SameAt, Live
<1> QED
  BY <1>10, <1>12, <1>13, <1>14, <1>15, <1>16, <1>17 DEF Listed, Lines

(* A step that moves no connection and touches no Client.                  *)
LEMMA QuietInv ==
  ASSUME Shape, Listed, Lines, ServerTyped',
         UNCHANGED <<netVars, pageVars, Table, heap, watch, accepting, clash>>,
         fault' \/ UNCHANGED fault
  PROVE  Shape' /\ Listed' /\ Lines'
<1>1. NetTyped' /\ PageTyped'
  BY Typed DEF Shape, NetTyped, PageTyped, netVars, pageVars
<1>2. ChatTypeOK'
  BY <1>1, TypedAfter
<1>3. Shape'
  BY <1>2 DEF Shape, NamesOK, SentOK, WatchOK, ClientsOK, Live, netVars, pageVars
<1>4. Listed'
  BY DEF Listed, UsersAreConnected, UsersAreListed, ClientsMirrorSockets, Live
<1>5. AnswersFirst'
  BY DEF Lines, AnswersFirst, IsText, netVars, pageVars
<1>6. LinesOK'
  BY DEF Lines, LinesOK, Live, netVars, pageVars
<1>7. AnswersOK'
  BY DEF Lines, AnswersOK, IsText, Live, netVars, pageVars
<1> QED
  BY <1>3, <1>4, <1>5, <1>6, <1>7 DEF Lines

LEMMA ServedTypes ==
  ASSUME Shape, events # <<>>, Served
  PROVE  first' \in Addrs \cup {NULL, LISTEN} /\ events' \in Seq({"in", "hup"})
<1>1. ServerTyped
  BY Typed DEF Shape
<1> QED
  BY <1>1, HeadTailProperties DEF Served, ServerTyped

LEMMA EpollWaitInv ==
  ASSUME Shape, Listed, Lines, epoll_wait
  PROVE  Shape' /\ Listed' /\ Lines'
<1>1. ServerTyped
  BY Typed DEF Shape
<1>2. PICK n : /\ n = Cardinality(Ready) + (IF Pending = {} THEN 0 ELSE 1)
               /\ \E batch \in [1 .. n -> {"in", "hup"}] :
                    /\ events' = batch
                    /\ \/ first' = LISTEN
                       \/ \E p \in Ready : first' = watch[p]
  BY DEF epoll_wait
<1>3. n \in Nat
  <2>1. Cardinality(Ready) \in Nat
    BY PageAssumption, FS_Subset, FS_CardinalityType DEF Ready
  <2> QED
    BY <1>2, <2>1
<1>4. events' \in Seq({"in", "hup"})
  BY <1>2, <1>3
<1>5. first' \in Addrs \cup {NULL, LISTEN}
  BY <1>1, <1>2 DEF Ready, ServerTyped
<1>6. ServerTyped'
  BY <1>1, <1>4, <1>5 DEF epoll_wait, ServerTyped
<1> QED
  BY <1>6, QuietInv DEF epoll_wait

LEMMA AcceptInv ==
  ASSUME Shape, Listed, Lines, accept, UNCHANGED pageVars
  PROVE  Shape' /\ Listed' /\ Lines'
<1>1. ServerTyped /\ NetTyped /\ PageTyped /\ PageTyped'
  BY Typed DEF Shape, PageTyped, pageVars
<1>2. first' \in Addrs \cup {NULL, LISTEN} /\ events' \in Seq({"in", "hup"})
  BY ServedTypes DEF accept, Serving
<1>3. CASE UNCHANGED <<link, accepting>>
  <2>1. ServerTyped'
    BY <1>1, <1>2, <1>3 DEF accept, ServerTyped
  <2> QED
    BY <1>3, <2>1, QuietInv DEF accept, netVars
<1>4. CASE \E p \in Pending : link' = [link EXCEPT ![p] = "up"] /\ accepting' = p
  <2>1. PICK p \in Pages : /\ link[p] = "syn" /\ accepting' = p /\ link'[p] = "up"
                           /\ \A q \in Pages : q # p => link'[q] = link[q]
                           /\ link' \in [Pages -> Links]
    BY <1>1, <1>4 DEF Pending, NetTyped, Links
  <2>2. UNCHANGED <<c2s, s2c, page, up, Table, heap, watch, fault, clash>> /\ watch[p] = NULL
    BY <2>1 DEF accept, pageVars, Shape, WatchOK, OpenEnds
  <2>3. ServerTyped' /\ NetTyped'
    BY <1>1, <1>2, <2>1, <2>2 DEF NetTyped, ServerTyped
  <2>4. Shape'
    <3>1. ChatTypeOK'
      BY <1>1, <2>3, TypedAfter
    <3>2. NamesOK' /\ SentOK'
      BY <2>1, <2>2 DEF Shape, NamesOK, SentOK
    <3>3. WatchOK' /\ ClientsOK'
      BY <2>1, <2>2, ServerAssumption DEF Shape, WatchOK, OpenEnds, ClientsOK, Live
    <3> QED
      BY <3>1, <3>2, <3>3 DEF Shape
  <2>5. Listed'
    BY <2>2, ServerVarsListed
  <2>6. AnswersFirst'
    BY <2>1, <2>2 DEF Lines, AnswersFirst, IsText
  <2>7. LinesOK'
    <3>1. \A a \in Addrs : Live(a) => heap[a].page \in Pages /\ a # NULL
      BY LiveFacts DEF Shape
    <3> QED
      BY <2>1, <2>2, <3>1 DEF Lines, LinesOK, Live
  <2>8. AnswersOK'
    BY <2>1, <2>2 DEF Lines, AnswersOK, AnswersFirst, IsText, Live
  <2> QED
    BY <2>4, <2>5, <2>6, <2>7, <2>8 DEF Lines
<1> QED
  BY <1>3, <1>4 DEF accept

(* The server reads k frames of p's queue.                                 *)
Reading(p, k) == /\ c2s'[p] = SubSeq(c2s[p], k + 1, Len(c2s[p]))
                 /\ \A q \in Pages : q # p => c2s'[q] = c2s[q]

LEMMA ReadingFacts ==
  ASSUME Shape, NEW p \in Pages, NEW k \in 0 .. Len(c2s[p]),
         c2s' = [c2s EXCEPT ![p] = SubSeq(@, k + 1, Len(@))]
  PROVE  /\ c2s' \in [Pages -> Queues] /\ SentOK' /\ Reading(p, k)
         /\ Len(c2s[p]) \in Nat /\ Len(c2s'[p]) = Len(c2s[p]) - k
         /\ \A j \in 1 .. Len(c2s[p]) - k : c2s'[p][j] = c2s[p][j + k]
<1>1. c2s \in [Pages -> Queues] /\ c2s[p] \in Seq(Frames(Codes)) /\ Len(c2s[p]) \in Nat
  BY Typed DEF Shape, NetTyped, Queues
<1>2. /\ c2s'[p] \in Queues
      /\ Len(c2s'[p]) = Len(c2s[p]) - k
      /\ \A j \in 1 .. Len(c2s[p]) - k : c2s'[p][j] = c2s[p][j + k]
  BY <1>1, PrefixTaken DEF Queues
<1>3. Reading(p, k) /\ c2s' \in [Pages -> Queues]
  BY <1>1, <1>2 DEF Reading
<1>4. SentOK'
  <2>1. \A j \in 1 .. Len(c2s'[p]) : c2s'[p][j].code = "TEXT" /\ c2s'[p][j].body.from = "client"
                                      => c2s'[p][j].body.text \in Names
    BY <1>1, <1>2 DEF Shape, SentOK
  <2> QED
    BY <1>3, <2>1 DEF Shape, SentOK, Reading
<1> QED
  BY <1>1, <1>2, <1>3, <1>4

(* recv() of a request, with no handshake after it.                        *)
LEMMA RefusedInv ==
  ASSUME Shape, Listed, Lines, UNCHANGED pageVars,
         NEW p \in Pages, accepting = p, accepting' = NULL, NEW k \in 0 .. Len(c2s[p]),
         c2s' = [c2s EXCEPT ![p] = SubSeq(@, k + 1, Len(@))],
         UNCHANGED <<link, s2c, up, Table, heap, watch, first, events, fault, clash>>
  PROVE  Shape' /\ Listed' /\ Lines'
<1>1. ServerTyped /\ NetTyped /\ PageTyped
  BY Typed DEF Shape
<1>2. c2s' \in [Pages -> Queues] /\ SentOK' /\ Reading(p, k)
  BY ReadingFacts
<1>3. watch[p] = NULL /\ link[p] \in OpenEnds /\ page' = page
  BY DEF Shape, WatchOK, pageVars
<1>4. Shape'
  <2>1. ServerTyped' /\ NetTyped' /\ PageTyped'
    BY <1>1, <1>2 DEF NetTyped, ServerTyped, PageTyped, pageVars
  <2>2. ChatTypeOK'
    BY <2>1, TypedAfter
  <2>3. NamesOK' /\ WatchOK' /\ ClientsOK'
    BY <1>3, ServerAssumption DEF Shape, NamesOK, WatchOK, ClientsOK, Live
  <2> QED
    BY <1>2, <2>2, <2>3 DEF Shape
<1>5. Listed'
  BY ServerVarsListed
<1>6. AnswersFirst'
  BY <1>2, <1>3, ServerAssumption DEF Lines, AnswersFirst, IsText, Reading, OpenEnds
<1>7. LinesOK'
  <2>1. \A a \in Addrs : Live(a) => heap[a].page \in Pages /\ a # NULL
    BY LiveFacts DEF Shape
  <2> QED
    BY <1>2, <1>3, <2>1 DEF Lines, LinesOK, Live, Reading
<1>8. AnswersOK'
  <2>1. ~Live(NULL)
    BY ServerAssumption DEF Live
  <2> QED
    BY <1>2, <1>3, <2>1 DEF Lines, AnswersOK, IsText, Live, Reading
<1> QED
  BY <1>4, <1>5, <1>6, <1>7, <1>8 DEF Lines

(* The answer to a handshake.                                              *)
LEMMA AnswerFacts ==
  ASSUME Shape, NEW p \in Pages, NEW answer \in {"OPEN", "BADOPEN"},
         NEW t \in send(Trace, p, [code |-> answer])
  PROVE  /\ t.link \in [Pages -> Links] /\ t.s2c \in [Pages -> Answers]
         /\ \A q \in Pages : q # p => t.link[q] = link[q] /\ t.s2c[q] = s2c[q]
         /\ t.link[p] = link[p] \/ (t.link[p] = "rst" /\ link[p] = "fin")
         /\ t.s2c[p] = IF link[p] = "up" THEN Append(s2c[p], [code |-> answer]) ELSE s2c[p]
         /\ t.last = "killed" => t.link = link /\ t.s2c = s2c
<1>1. link \in [Pages -> Links] /\ s2c \in [Pages -> Answers] /\ s2c[p] \in Answers
  BY Typed DEF Shape, NetTyped
<1>2. Trace.link = link /\ Trace.s2c = s2c
  BY DEF Trace
<1>3. [code |-> answer] \in Frames({"OPEN", "BADOPEN"})
  BY DEF Frames
<1>4. PICK longer : longer = Append(s2c[p], [code |-> answer])
  OBVIOUS
<1>5. longer \in Answers
  BY <1>1, <1>3, <1>4, AppendProperties DEF Answers
<1>6. CASE link[p] = "up"
  <2>1. t = SendOk([Trace EXCEPT !.s2c[p] = longer])
    BY <1>2, <1>4, <1>6 DEF send, Trace
  <2>2. t.link = link /\ t.s2c = [s2c EXCEPT ![p] = longer] /\ t.last = "ok"
    BY <2>1 DEF SendOk, Trace
  <2> QED
    BY <1>1, <1>4, <1>5, <1>6, <2>2
<1>7. CASE link[p] = "fin"
  <2>1. t \in {SendOk(Trace), SendOk([Trace EXCEPT !.link[p] = "rst"])}
    BY <1>2, <1>7 DEF send
  <2>2. t.s2c = s2c /\ t.last = "ok" /\ (t.link = link \/ t.link = [link EXCEPT ![p] = "rst"])
    BY <2>1 DEF SendOk, Trace
  <2> QED
    BY <1>1, <1>7, <2>2 DEF Links
<1>8. CASE link[p] \notin {"up", "fin"}
  <2>1. t \in {[Trace EXCEPT !.last = "failed"], [Trace EXCEPT !.last = "killed"]}
    BY <1>2, <1>8 DEF send
  <2>2. t.s2c = s2c /\ t.link = link
    BY <2>1 DEF Trace
  <2> QED
    BY <1>1, <1>8, <2>2
<1> QED
  BY <1>6, <1>7, <1>8

(* A Client is created at a, for a page whose request has been read.       *)
Creates(p, a, answer) ==
  /\ link'[p] = link[p] \/ (link'[p] = "rst" /\ link[p] = "fin")
  /\ s2c'[p] = IF link[p] = "up" THEN Append(s2c[p], [code |-> answer]) ELSE s2c[p]
  /\ \A q \in Pages : q # p => link'[q] = link[q] /\ s2c'[q] = s2c[q] /\ watch'[q] = watch[q]
  /\ watch'[p] = a /\ heap[a] = Free /\ heap'[a] = createClient(p)
  /\ \A b \in Addrs : b # a => heap'[b] = heap[b]
  /\ accepting' = NULL /\ UNCHANGED <<up, Table, first, events, clash>>

LEMMA WelcomeFacts ==
  ASSUME Shape, NEW p \in Pages, NEW answer \in {"OPEN", "BADOPEN"}, Welcome(p, answer),
         fault' \in BOOLEAN
  PROVE  \/ /\ Die(link, s2c) /\ ~up' /\ NetTyped' /\ ServerTyped' /\ Ends(link, s2c)
         \/ /\ \E a \in Addrs : Creates(p, a, answer)
            /\ link' \in [Pages -> Links] /\ s2c' \in [Pages -> Answers] /\ ServerTyped' /\ up' = up
<1>1. ServerTyped /\ NetTyped
  BY Typed DEF Shape
<1>2. PICK a \in Addrs, t \in send(Trace, p, [code |-> answer]) :
        /\ heap[a] = Free
        /\ \/ t.last = "killed" /\ Die(t.link, t.s2c)
           \/ /\ t.last # "killed" /\ link' = t.link /\ s2c' = t.s2c
              /\ heap' = [heap EXCEPT ![a] = createClient(p)]
              /\ watch' = add_to_epoll(p, a)
              /\ accepting' = NULL
              /\ UNCHANGED <<up, Table, first, events, clash>>
  BY DEF Welcome
<1>3. CASE t.last = "killed" /\ Die(t.link, t.s2c)
  <2>1. Die(link, s2c)
    BY <1>3, AnswerFacts
  <2>2. NetTyped' /\ ServerTyped' /\ Ends(link, s2c)
    BY <1>1, <2>1, EndFacts DEF NetTyped
  <2> QED
    BY <2>1, <2>2 DEF Die
<1>4. CASE /\ t.last # "killed" /\ link' = t.link /\ s2c' = t.s2c
           /\ heap' = [heap EXCEPT ![a] = createClient(p)]
           /\ watch' = add_to_epoll(p, a)
           /\ accepting' = NULL
           /\ UNCHANGED <<up, Table, first, events, clash>>
  <2>1. createClient(p) \in Clients
    BY DEF createClient, Clients
  <2>2. Creates(p, a, answer)
    BY <1>1, <1>2, <1>4, AnswerFacts DEF Creates, add_to_epoll, ServerTyped
  <2>3. ServerTyped'
    BY <1>1, <1>2, <1>4, <2>1 DEF ServerTyped, add_to_epoll
  <2> QED
    BY <1>2, <1>4, <2>2, <2>3, AnswerFacts
<1> QED
  BY <1>2, <1>3, <1>4

(* Without undefined behaviour, the whole request was read.                *)
LEMMA WholeRequestRead ==
  ASSUME NEW r \in Requests, NEW k \in 1 .. Len(r), HasKey(SubSeq(r, 1, k))
  PROVE  SubSeq(r, k + 1, Len(r)) = <<>>
<1>1. r \in {Whole, Cut, Plain}
  BY PageAssumption
<1>2. PICK got : got = SubSeq(r, 1, k)
  OBVIOUS
<1>3. r \in Queues /\ Len(r) \in Nat
  BY RequestTypes DEF Queues
<1>4. Len(got) = k /\ \A j \in 1 .. k : got[j] = r[j]
  BY <1>2, <1>3, SubSeqProperties DEF Queues
<1>5. k = Len(r)
  <2>1. CASE r = Whole
    BY <2>1 DEF Whole
  <2>2. CASE r = Cut
    <3>1. Len(r) = 2 /\ r[1] = [code |-> "HEAD"]
      BY <2>2 DEF Cut
    <3>2. k = 1 => got[1] = [code |-> "HEAD"] /\ Len(got) = 1
      BY <1>4, <3>1
    <3>3. got # <<[code |-> "UPGRADE"]>> \/ got[1] = [code |-> "UPGRADE"]
      OBVIOUS
    <3>4. [code |-> "UPGRADE"] # [code |-> "HEAD"]
      OBVIOUS
    <3>5. got # <<[code |-> "HEAD"], [code |-> "TAIL"]>> \/ Len(got) = 2
      OBVIOUS
    <3>6. k # 1
      BY <1>2, <3>2, <3>3, <3>4, <3>5 DEF HasKey
    <3> QED
      BY <3>1, <3>6
  <2>3. CASE r = Plain
    <3>1. Len(r) = 1
      BY <2>3 DEF Plain
    <3> QED
      BY <3>1
  <2> QED
    BY <1>1, <2>1, <2>2, <2>3
<1> QED
  BY <1>3, <1>5, SubSeqProperties, EmptySeq DEF Queues

LEMMA CreateInv ==
  ASSUME Shape, Listed, Lines, UNCHANGED pageVars, NetTyped', ServerTyped',
         NEW p \in Pages, accepting = p, NEW a \in Addrs, NEW answer \in {"OPEN", "BADOPEN"},
         Creates(p, a, answer), SentOK', \A q \in Pages : q # p => c2s'[q] = c2s[q],
         fault' \/ (~fault' /\ ~fault /\ c2s'[p] = <<>> /\ c2s[p] \in Requests)
  PROVE  Shape' /\ Listed' /\ Lines'
<1>1. /\ watch[p] = NULL /\ link[p] \in OpenEnds /\ page' = page /\ accepting' = NULL
      /\ a # NULL /\ p # NULL /\ Table' = Table /\ clash' = clash /\ watch'[p] = a
      /\ link'[p] \in OpenEnds /\ (link'[p] = "up" <=> link[p] = "up")
      /\ \A q \in Pages : q # p => link'[q] = link[q] /\ s2c'[q] = s2c[q] /\ watch'[q] = watch[q]
      /\ \A b \in Addrs : b # a => heap'[b] = heap[b]
      /\ heap[a] = Free
  BY ServerAssumption DEF Shape, WatchOK, pageVars, Creates, OpenEnds
<1>2. Live(a)' /\ heap'[a].page = p /\ heap'[a].username = NoName /\ heap'[a].active /\ ~heap'[a].added
  <2>1. heap'[a] = createClient(p) /\ createClient(p) \in Clients
    BY DEF Creates, createClient, Clients
  <2>2. heap'[a] # Free
    BY <2>1, NotFree
  <2> QED
    BY <2>1, <2>2 DEF Live, createClient
<1>3. \A b : b # a => /\ Live(b)' <=> Live(b)
                      /\ Live(b) => heap'[b] = heap[b] /\ b \in Addrs /\ heap[b].page \in Pages /\ b # NULL
  BY <1>1, LiveFacts DEF Live, Shape
<1>4. Shape'
  <2>1. ChatTypeOK'
    <3>1. PageTyped'
      BY Typed DEF Shape, PageTyped, pageVars
    <3> QED
      BY <3>1, TypedAfter
  <2>2. NamesOK'
    BY <1>1 DEF Shape, NamesOK, OpenEnds
  <2>3. WatchOK'
    BY <1>1, ServerAssumption DEF Shape, WatchOK
  <2>4. ClientsOK'
    <3> SUFFICES ASSUME NEW b \in Addrs, Live(b)'
                 PROVE  /\ watch'[heap'[b].page] = b => heap'[b].active
                        /\ heap'[b].added <=> heap'[b].username \in Names
      BY DEF ClientsOK
    <3>1. CASE b = a
      BY <1>2, <3>1, PageAssumption
    <3>2. CASE b # a
      BY <1>1, <1>3, <3>2 DEF Shape, ClientsOK
    <3> QED
      BY <3>1, <3>2
  <2> QED
    BY <2>1, <2>2, <2>3, <2>4 DEF Shape
<1>5. CASE fault'
  BY <1>4, <1>5 DEF Listed, UsersAreConnected, UsersAreListed, ClientsMirrorSockets,
                    Lines, AnswersFirst, LinesOK, AnswersOK
<1>6. CASE ~fault' /\ ~fault /\ c2s'[p] = <<>> /\ c2s[p] \in Requests
  <2>1. UsersAreConnected'
    <3> SUFFICES ASSUME NEW n \in Names, Table[n] # NULL, NEW b, b = Table[n]
                 PROVE  /\ Live(b)' /\ heap'[b].username = n /\ heap'[b].added /\ heap'[b].active
                        /\ watch'[heap'[b].page] = b
      BY <1>1 DEF UsersAreConnected
    <3>1. Live(b) /\ heap[b].username = n /\ heap[b].added /\ heap[b].active /\ watch[heap[b].page] = b
      BY <1>6 DEF Listed, UsersAreConnected
    <3>2. b # a
      BY <1>1, <3>1 DEF Live
    <3>3. heap'[b] = heap[b] /\ Live(b)' /\ heap[b].page \in Pages /\ heap[b].page # p
      BY <1>1, <1>3, <3>1, <3>2
    <3> QED
      BY <1>1, <3>1, <3>3
  <2>2. UsersAreListed'
    <3> SUFFICES ASSUME NEW b \in Addrs, Live(b)', watch'[heap'[b].page] = b, heap'[b].added
                 PROVE  Table[heap'[b].username] = b
      BY <1>1 DEF UsersAreListed
    <3>1. b # a
      BY <1>2
    <3>2. Live(b) /\ heap'[b] = heap[b] /\ heap[b].page \in Pages /\ b # NULL
      BY <1>3, <3>1
    <3>3. watch[heap[b].page] = b
      BY <1>1, <3>1, <3>2
    <3> QED
      BY <1>6, <3>2, <3>3 DEF Listed, UsersAreListed
  <2>3. ClientsMirrorSockets'
    <3> SUFFICES ASSUME ~clash
                 PROVE  /\ \A q \in Pages : watch'[q] # NULL =>
                             /\ watch'[q] \in Addrs /\ heap'[watch'[q]] # Free
                             /\ heap'[watch'[q]].page = q
                        /\ \A b \in Addrs : Live(b)' => watch'[heap'[b].page] = b
      BY <1>1 DEF ClientsMirrorSockets, Live
    <3>1. /\ \A q \in Pages : watch[q] # NULL => Live(watch[q]) /\ heap[watch[q]].page = q
          /\ \A b \in Addrs : Live(b) => watch[heap[b].page] = b
      BY <1>6 DEF Listed, ClientsMirrorSockets
    <3>2. ASSUME NEW q \in Pages, watch'[q] # NULL, NEW b, b = watch'[q]
          PROVE  b \in Addrs /\ heap'[b] # Free /\ heap'[b].page = q
      <4>1. CASE q = p
        BY <1>1, <1>2, <3>2, <4>1 DEF Live
      <4>2. CASE q # p
        <5>1. Live(b) /\ heap[b].page = q /\ b # a
          BY <1>1, <3>1, <3>2, <4>2 DEF Live
        <5> QED
          BY <1>3, <5>1 DEF Live
      <4> QED
        BY <4>1, <4>2
    <3>3. ASSUME NEW b \in Addrs, Live(b)'
          PROVE  watch'[heap'[b].page] = b
      <4>1. CASE b = a
        BY <1>1, <1>2, <4>1
      <4>2. CASE b # a
        BY <1>1, <1>3, <3>1, <3>3, <4>2
      <4> QED
        BY <4>1, <4>2
    <3> QED
      BY <3>2, <3>3
  <2>4. s2c[p] = <<>> /\ ~page[p].open
    BY <1>1, <1>6 DEF Lines, AnswersFirst, OpenEnds
  <2>5. /\ link[p] = "up" => s2c'[p] = <<[code |-> answer]>>
        /\ link[p] # "up" => s2c'[p] = <<>>
    BY <2>4 DEF Creates
  <2>6. AnswersFirst'
    <3> SUFFICES ASSUME NEW q \in Pages
                 PROVE  /\ s2c'[q] # <<>> => (link'[q] = "up" /\ watch'[q] # NULL) \/ link'[q] = "down"
                        /\ \A k \in 2 .. Len(s2c'[q]) : IsText(s2c'[q][k])
                        /\ link'[q] = "syn" \/ accepting' = q => c2s'[q] \in Requests /\ ~page[q].open
      BY <1>1 DEF AnswersFirst, IsText
    <3>1. CASE q = p
      <4>1. link[p] = "up" => Len(s2c'[p]) = 1
        <5>1. Len(<<[code |-> answer]>>) = 1
          OBVIOUS
        <5> QED
          BY <2>5, <5>1
      <4>2. link[p] # "up" => Len(s2c'[p]) = 0
        BY <2>5
      <4> QED
        BY <1>1, <2>5, <3>1, <4>1, <4>2 DEF OpenEnds
    <3>2. CASE q # p
      BY <1>1, <1>6, <3>2, ServerAssumption DEF Lines, AnswersFirst
    <3> QED
      BY <3>1, <3>2
  <2>7. LinesOK'
    <3> SUFFICES ASSUME NEW b \in Addrs, Live(b)', NEW q, q = heap'[b].page, watch'[q] = b
                 PROVE  Line(c2s'[q], link'[q], page[q], heap'[b])
      BY <1>1 DEF LinesOK
    <3>1. CASE b = a
      BY <1>2, <1>6, <2>4, <3>1 DEF Line
    <3>2. CASE b # a
      <4>1. Live(b) /\ heap'[b] = heap[b] /\ q \in Pages /\ q # p /\ watch[q] = b
        BY <1>1, <1>3, <3>2
      <4>2. Line(c2s[q], link[q], page[q], heap[b])
        BY <1>6, <4>1 DEF Lines, LinesOK
      <4> QED
        BY <1>1, <4>1, <4>2
    <3> QED
      BY <3>1, <3>2
  <2>8. AnswersOK'
    <3> SUFFICES ASSUME NEW q \in Pages, s2c'[q] # <<>>, ~IsText(s2c'[q][1]), link'[q] = "up",
                        NEW b, b = watch'[q]
                 PROVE  /\ Live(b)' /\ heap'[b].page = q /\ ~heap'[b].added
                        /\ c2s'[q] = <<>> /\ ~page[q].open
      BY <1>1 DEF AnswersOK, Live, IsText
    <3>1. CASE q = p
      BY <1>1, <1>2, <1>6, <2>4, <3>1
    <3>2. CASE q # p
      <4>1. /\ b = watch[q] /\ Live(b) /\ heap[b].page = q /\ ~heap[b].added
            /\ c2s'[q] = <<>> /\ ~page[q].open
        BY <1>1, <1>6, <3>2 DEF Lines, AnswersOK
      <4>2. b # a
        BY <1>1, <4>1 DEF Live
      <4> QED
        BY <1>3, <4>1, <4>2
    <3> QED
      BY <3>1, <3>2
  <2> QED
    BY <1>4, <2>1, <2>2, <2>3, <2>6, <2>7, <2>8 DEF Listed, Lines
<1> QED
  BY <1>5, <1>6

(* The process dies and what its connections had been sent stays.          *)
LEMMA KilledInv ==
  ASSUME Shape, Lines, UNCHANGED pageVars, NetTyped', ServerTyped', Ends(link, s2c),
         fault' \/ UNCHANGED fault
  PROVE  Shape' /\ Listed' /\ Lines'
<1>1. ~fault' => \A p \in Pages : /\ s2c[p] # <<>> => link[p] \in {"up", "down"}
                                  /\ \A k \in 2 .. Len(s2c[p]) : IsText(s2c[p][k])
  BY DEF Lines, AnswersFirst
<1> QED
  BY <1>1, EndInv

LEMMA CrashInv ==
  ASSUME Shape, Lines, Crash, UNCHANGED pageVars
  PROVE  Shape' /\ Listed' /\ Lines'
<1>1. fault' /\ Die(link, s2c) /\ fault' \in BOOLEAN
  BY DEF Crash
<1>2. NetTyped
  BY Typed DEF Shape
<1>3. NetTyped' /\ ServerTyped' /\ Ends(link, s2c)
  BY <1>1, <1>2, EndFacts DEF NetTyped
<1> QED
  BY <1>1, <1>3, KilledInv

LEMMA HandshakeInv ==
  ASSUME Shape, Listed, Lines, handshake, UNCHANGED pageVars
  PROVE  Shape' /\ Listed' /\ Lines'
<1>1. PICK p : p = accepting
  OBVIOUS
<1>2. p \in Pages /\ ServerTyped /\ NetTyped /\ link[p] \in OpenEnds /\ up
  BY <1>1, Typed DEF Shape, ServerTyped, handshake, WatchOK
<1>3. PICK n \in (IF c2s[p] = <<>> THEN {0} ELSE 1 .. Len(c2s[p])) :
        LET got == SubSeq(c2s[p], 1, n)
            Taken == c2s' = [c2s EXCEPT ![p] = SubSeq(@, n + 1, Len(@))]
        IN  \/ HasKey(got) /\ Welcome(p, "OPEN") /\ (up' => Taken) /\ UNCHANGED fault
            \/ /\ ~HasKey(got) /\ Taken
               /\ accepting' = NULL
               /\ UNCHANGED <<link, s2c, up, Table, heap, watch, first, events, fault, clash>>
            \/ ~HasKey(got) /\ Welcome(p, "BADOPEN") /\ (up' => Taken) /\ fault' = TRUE
  BY <1>1 DEF handshake
<1>4. n \in 0 .. Len(c2s[p]) /\ (c2s[p] # <<>> => n \in 1 .. Len(c2s[p]))
  <2>1. c2s[p] \in Seq(Frames(Codes))
    BY <1>2 DEF NetTyped, Queues
  <2> QED
    BY <1>3, <2>1
<1>5. CASE c2s' = [c2s EXCEPT ![p] = SubSeq(@, n + 1, Len(@))] /\ accepting' = NULL
           /\ UNCHANGED <<link, s2c, up, Table, heap, watch, first, events, fault, clash>>
  BY <1>1, <1>2, <1>4, <1>5, RefusedInv
<1>6. ASSUME NEW answer \in {"OPEN", "BADOPEN"}, Welcome(p, answer),
             up' => c2s' = [c2s EXCEPT ![p] = SubSeq(@, n + 1, Len(@))],
             \/ HasKey(SubSeq(c2s[p], 1, n)) /\ UNCHANGED fault
             \/ fault' = TRUE
      PROVE  Shape' /\ Listed' /\ Lines'
  <2>1. fault' \in BOOLEAN
    BY <1>2, <1>6 DEF ServerTyped
  <2>2. CASE ~up' /\ NetTyped' /\ ServerTyped' /\ Ends(link, s2c)
    BY <1>6, <2>2, KilledInv
  <2>3. CASE /\ \E a \in Addrs : Creates(p, a, answer)
             /\ link' \in [Pages -> Links] /\ s2c' \in [Pages -> Answers] /\ ServerTyped' /\ up' = up
    <3>1. PICK a \in Addrs : Creates(p, a, answer)
      BY <2>3
    <3>2. c2s' = [c2s EXCEPT ![p] = SubSeq(@, n + 1, Len(@))]
      BY <1>2, <1>6, <2>3
    <3>3. /\ c2s' \in [Pages -> Queues] /\ SentOK'
          /\ \A q \in Pages : q # p => c2s'[q] = c2s[q]
          /\ c2s'[p] = SubSeq(c2s[p], n + 1, Len(c2s[p]))
      BY <1>2, <1>4, <3>2, ReadingFacts DEF Reading
    <3>4. NetTyped' /\ ServerTyped'
      BY <2>3, <3>3 DEF NetTyped
    <3>5. ASSUME ~fault' PROVE ~fault /\ c2s'[p] = <<>> /\ c2s[p] \in Requests
      <4>1. ~fault /\ HasKey(SubSeq(c2s[p], 1, n))
        BY <1>6, <3>5
      <4>2. c2s[p] \in Requests
        BY <1>1, <1>2, <4>1 DEF Lines, AnswersFirst
      <4>3. c2s[p] # <<>>
        <5>1. Len(Whole) = 1 /\ Len(Cut) = 2 /\ Len(Plain) = 1
          BY DEF Whole, Cut, Plain
        <5> QED
          BY <4>2, <5>1, PageAssumption
      <4>4. n \in 1 .. Len(c2s[p])
        BY <1>4, <4>3
      <4> QED
        BY <3>3, <4>1, <4>2, <4>4, WholeRequestRead
    <3> QED
      BY <1>1, <1>2, <3>1, <3>3, <3>4, <3>5, CreateInv
  <2> QED
    BY <1>2, <1>6, <2>1, <2>2, <2>3, WelcomeFacts
<1> QED
  BY <1>3, <1>5, <1>6

(* close_connection of a Client as it is.                                  *)
LEMMA CloseInv ==
  ASSUME Shape, Listed, Lines, UNCHANGED pageVars, up, events # <<>>,
         NEW a, Live(a), close_connection(a, heap), up' => Served, UNCHANGED clash
  PROVE  Shape' /\ Listed' /\ Lines'
<1>1. ServerTyped /\ a \in Addrs /\ heap[a] \in Clients
  BY Typed, LiveFacts DEF Shape
<1>2. CASE heap[a].username = NoName
  <2>1. Crash
    BY <1>2 DEF close_connection
  <2> QED
    BY <2>1, CrashInv
<1>3. CASE heap[a].username # NoName
  <2>1. PICK c : c = heap[a]
    OBVIOUS
  <2>2. c \in Clients /\ c.username \in Names /\ c.added
    BY <1>1, <1>3, <2>1 DEF Clients, Shape, ClientsOK
  <2>3. heap = [heap EXCEPT ![a] = c]
    BY <1>1, <2>1 DEF ServerTyped
  <2>4. Drops(a, c) /\ NetTyped'
        /\ (first' \in Addrs \cup {NULL, LISTEN} /\ events' \in Seq({"in", "hup"}) /\ clash' \in BOOLEAN
              => ServerTyped')
    BY <2>2, <2>3, DropFacts
  <2>5. Served
    BY <2>4 DEF Drops
  <2>6. ServerTyped'
    BY <1>1, <2>4, <2>5, ServedTypes DEF ServerTyped
  <2> QED
    BY <2>1, <2>2, <2>4, <2>6, DropInv
<1> QED
  BY <1>2, <1>3

(* A frame is received on the socket of its page's own Client.             *)
LEMMA ReceivesFacts ==
  ASSUME Shape, NEW a, NEW code, Receives(a, code)
  PROVE  /\ up /\ events # <<>> /\ Live(a) /\ watch[heap[a].page] = a
         /\ Arrived(a) = c2s[heap[a].page] /\ c2s[heap[a].page] # <<>>
         /\ Len(c2s[heap[a].page]) \in Nat /\ Len(c2s[heap[a].page]) >= 1
         /\ Head(Arrived(a)) = c2s[heap[a].page][1] /\ c2s[heap[a].page][1].code = code
         /\ Head(Arrived(a)) \in Frames(Codes)
         /\ code = "TEXT" => Body(a) \in Messages
<1>1. PICK p : p = heap[a].page
  OBVIOUS
<1>2. up /\ events # <<>> /\ Live(a) /\ Arrived(a) # <<>> /\ Head(Arrived(a)).code = code
  BY DEF Receives, Receiving, Serving
<1>3. watch[p] = a /\ Arrived(a) = c2s[p]
  BY <1>1, <1>2 DEF Arrived
<1>4. p \in Pages
  BY <1>1, <1>2, LiveFacts DEF Shape
<1>5. c2s[p] \in Seq(Frames(Codes)) /\ c2s[p] # <<>>
  BY <1>2, <1>3, <1>4, Typed DEF Shape, NetTyped, Queues
<1>6. Head(c2s[p]) \in Frames(Codes) /\ Head(c2s[p]) = c2s[p][1] /\ Len(c2s[p]) \in Nat
  BY <1>5, HeadTailProperties
<1>7. code = "TEXT" => Body(a) \in Messages
  BY <1>2, <1>3, <1>6 DEF Body, Frames, Codes
<1> QED
  BY <1>1, <1>2, <1>3, <1>5, <1>6, <1>7, EmptySeq

(* A user enters the table.                                                *)
LEMMA EnterInv ==
  ASSUME Shape, Listed, Lines, UNCHANGED pageVars, NEW a, Receives(a, "TEXT"), IsRegistration(a),
         NEW name \in Names, name = Body(a).text, Table[name] = NULL,
         put(name, a, [heap EXCEPT ![a].added = TRUE, ![a].username = name]), Received(a),
         UNCHANGED <<link, s2c, up, watch, accepting, fault, clash>>
  PROVE  Shape' /\ Listed' /\ Lines'
<1>1. PICK p : p = heap[a].page
  OBVIOUS
<1>2. /\ Live(a) /\ a \in Addrs /\ a # NULL /\ p \in Pages /\ heap[a] \in Clients
      /\ watch[p] = a /\ events # <<>> /\ ~heap[a].added /\ page' = page
      /\ c2s[p] # <<>> /\ c2s[p][1].code = "TEXT" /\ Arrived(a) = c2s[p]
      /\ c2s[p][1].body.text = name /\ Len(c2s[p]) \in Nat
  <2>1. Body(a) = c2s[p][1].body
    BY <1>1, ReceivesFacts DEF Body
  <2> QED
    BY <1>1, <2>1, ReceivesFacts, LiveFacts DEF Shape, IsRegistration, pageVars
<1>3. ServerTyped /\ NetTyped /\ PageTyped
  BY Typed DEF Shape
<1>4. PICK c : c = [heap[a] EXCEPT !.added = TRUE, !.username = name]
  OBVIOUS
<1>5. c \in Clients /\ c.page = p /\ c.username = name /\ c.added /\ c.active = heap[a].active
  <2>1. [heap[a] EXCEPT !.added = TRUE] \in Clients
    BY <1>2 DEF Clients
  <2> QED
    BY <1>1, <1>2, <1>4, <2>1 DEF Clients
<1>6. /\ heap' = [b \in Addrs |-> [heap EXCEPT ![a].added = TRUE, ![a].username = name][b]]
      /\ Table' = [Table EXCEPT ![name] = a]
  BY ServerAssumption DEF put, removeKey
<1>7. heap'[a] = c /\ \A b \in Addrs : b # a => heap'[b] = heap[b]
  BY <1>2, <1>3, <1>4, <1>6 DEF ServerTyped
<1>8. PICK k \in 1 .. Len(c2s[p]) : c2s' = [c2s EXCEPT ![p] = SubSeq(@, k + 1, Len(@))]
  BY <1>1, <1>2 DEF Received, Lost
<1>9. /\ c2s' \in [Pages -> Queues] /\ SentOK' /\ \A q \in Pages : q # p => c2s'[q] = c2s[q]
      /\ Len(c2s'[p]) = Len(c2s[p]) - k
      /\ \A j \in 1 .. Len(c2s[p]) - k : c2s'[p][j] = c2s[p][j + k]
  <2>1. k \in 0 .. Len(c2s[p])
    BY <1>2
  <2> QED
    BY <1>2, <1>8, <2>1, ReadingFacts DEF Reading
<1>10. Shape'
  <2>1. ServerTyped'
    <3>1. heap' \in [Addrs -> Clients \cup {Free}]
      <4>1. \A b \in Addrs : heap'[b] \in Clients \cup {Free}
        BY <1>3, <1>5, <1>7 DEF ServerTyped
      <4> QED
        BY <1>6, <4>1
    <3>2. Table' \in [Names -> Addrs \cup {NULL}]
      BY <1>2, <1>3, <1>6 DEF ServerTyped
    <3>3. first' \in Addrs \cup {NULL, LISTEN} /\ events' \in Seq({"in", "hup"})
      BY <1>2, ServedTypes DEF Received
    <3> QED
      BY <1>3, <3>1, <3>2, <3>3 DEF ServerTyped
  <2>2. ChatTypeOK'
    <3>1. PageTyped' /\ NetTyped'
      BY <1>3, <1>9 DEF PageTyped, NetTyped, pageVars
    <3> QED
      BY <2>1, <3>1, TypedAfter
  <2>3. NamesOK' /\ WatchOK'
    BY <1>2 DEF Shape, NamesOK, WatchOK
  <2>4. ClientsOK'
    <3> SUFFICES ASSUME NEW b \in Addrs, Live(b)'
                 PROVE  /\ watch[heap'[b].page] = b => heap'[b].active
                        /\ heap'[b].added <=> heap'[b].username \in Names
      BY DEF ClientsOK
    <3>1. CASE b = a
      BY <1>1, <1>2, <1>5, <1>7, <3>1 DEF Shape, ClientsOK
    <3>2. CASE b # a
      BY <1>7, <3>2 DEF Shape, ClientsOK, Live
    <3> QED
      BY <3>1, <3>2
  <2> QED
    BY <1>9, <2>2, <2>3, <2>4 DEF Shape
<1>11. CASE fault
  BY <1>10, <1>11 DEF Listed, UsersAreConnected, UsersAreListed, ClientsMirrorSockets,
                      Lines, AnswersFirst, LinesOK, AnswersOK
<1>12. CASE ~fault
  <2>1. Live(a)'
    BY <1>2, <1>5, <1>7, NotFree DEF Live
  <2>2. \A b : b # a => /\ Live(b)' <=> Live(b)
                        /\ Live(b) => heap'[b] = heap[b] /\ b \in Addrs /\ heap[b].page \in Pages /\ b # NULL
    BY <1>7, LiveFacts DEF Live, Shape
  <2>3. Table'[name] = a /\ \A n \in Names : n # name => Table'[n] = Table[n]
    BY <1>3, <1>6 DEF ServerTyped
  <2>4. UsersAreConnected'
    <3> SUFFICES ASSUME NEW n \in Names, Table'[n] # NULL, NEW b, b = Table'[n]
                 PROVE  /\ Live(b)' /\ heap'[b].username = n /\ heap'[b].added /\ heap'[b].active
                        /\ watch[heap'[b].page] = b
      BY DEF UsersAreConnected
    <3>1. CASE n = name
      BY <1>1, <1>2, <1>5, <1>7, <2>1, <2>3, <3>1 DEF Shape, ClientsOK
    <3>2. CASE n # name
      <4>1. Live(b) /\ heap[b].username = n /\ heap[b].added /\ heap[b].active /\ watch[heap[b].page] = b
        BY <1>12, <2>3, <3>2 DEF Listed, UsersAreConnected
      <4>2. b # a
        BY <1>2, <4>1
      <4> QED
        BY <2>2, <4>1, <4>2
    <3> QED
      BY <3>1, <3>2
  <2>5. UsersAreListed'
    <3> SUFFICES ASSUME NEW b \in Addrs, Live(b)', watch[heap'[b].page] = b, heap'[b].added
                 PROVE  Table'[heap'[b].username] = b
      BY DEF UsersAreListed
    <3>1. CASE b = a
      BY <1>5, <1>7, <2>3, <3>1
    <3>2. CASE b # a
      <4>1. Live(b) /\ heap'[b] = heap[b] /\ b # NULL
        BY <2>2, <3>2
      <4>2. Table[heap[b].username] = b /\ heap[b].username \in Names
        BY <1>12, <4>1 DEF Listed, UsersAreListed, Shape, ClientsOK
      <4> QED
        BY <2>3, <4>1, <4>2
    <3> QED
      BY <3>1, <3>2
  <2>6. ClientsMirrorSockets'
    <3> SUFFICES ASSUME ~clash
                 PROVE  /\ \A q \in Pages : watch[q] # NULL =>
                             /\ watch[q] \in Addrs /\ heap'[watch[q]] # Free
                             /\ heap'[watch[q]].page = q
                        /\ \A b \in Addrs : Live(b)' => watch[heap'[b].page] = b
      BY DEF ClientsMirrorSockets, Live
    <3>1. /\ \A q \in Pages : watch[q] # NULL => Live(watch[q]) /\ heap[watch[q]].page = q
          /\ \A b \in Addrs : Live(b) => watch[heap[b].page] = b
      BY <1>12 DEF Listed, ClientsMirrorSockets
    <3>2. ASSUME NEW q \in Pages, watch[q] # NULL, NEW b, b = watch[q]
          PROVE  b \in Addrs /\ heap'[b] # Free /\ heap'[b].page = q
      <4>1. Live(b) /\ heap[b].page = q
        BY <3>1, <3>2
      <4>2. CASE b = a
        BY <1>1, <1>5, <1>7, <2>1, <4>1, <4>2 DEF Live
      <4>3. CASE b # a
        BY <2>2, <4>1, <4>3 DEF Live
      <4> QED
        BY <4>2, <4>3
    <3>3. ASSUME NEW b \in Addrs, Live(b)'
          PROVE  watch[heap'[b].page] = b
      BY <1>2, <1>5, <1>7, <2>2, <3>1, <3>3
    <3> QED
      BY <3>2, <3>3
  <2>7. AnswersFirst'
    <3>1. link[p] \in OpenEnds /\ accepting # p
      BY <1>2 DEF Shape, WatchOK
    <3> QED
      BY <1>2, <1>9, <1>12, <3>1 DEF Lines, AnswersFirst, IsText, OpenEnds
  <2>8. LinesOK'
    <3> SUFFICES ASSUME NEW b \in Addrs, Live(b)', NEW q, q = heap'[b].page, watch[q] = b
                 PROVE  Line(c2s'[q], link[q], page[q], heap'[b])
      BY <1>2 DEF LinesOK
    <3>1. CASE b = a
      <4>1. Line(c2s[p], link[p], page[p], heap[a])
        BY <1>1, <1>2, <1>12 DEF Lines, LinesOK
      <4>2. PICK n \in Names : /\ link[p] = "up" => page[p].name = n
                               /\ IsNewcomer(c2s[p][1], n)
                               /\ \A j \in 2 .. Len(c2s[p]) : IsMessage(c2s[p][j], n)
        BY <1>2, <4>1 DEF Line
      <4>3. n = name
        BY <1>2, <4>2 DEF IsNewcomer
      <4>4. ASSUME NEW j \in 1 .. Len(c2s'[p]) PROVE IsMessage(c2s'[p][j], name)
        <5>1. j \in 1 .. Len(c2s[p]) - k /\ j + k \in 2 .. Len(c2s[p])
          BY <1>2, <1>9
        <5>2. c2s'[p][j] = c2s[p][j + k]
          BY <1>9, <5>1
        <5> QED
          BY <4>2, <4>3, <5>1, <5>2
      <4> QED
        BY <1>5, <1>7, <3>1, <4>2, <4>3, <4>4 DEF Line
    <3>2. CASE b # a
      <4>1. Live(b) /\ heap'[b] = heap[b] /\ q \in Pages /\ q # p
        BY <1>2, <2>2, <3>2
      <4> QED
        BY <1>9, <1>12, <4>1 DEF Lines, LinesOK
    <3> QED
      BY <3>1, <3>2
  <2>9. AnswersOK'
    <3> SUFFICES ASSUME NEW q \in Pages, s2c[q] # <<>>, ~IsText(s2c[q][1]), link[q] = "up",
                        NEW b, b = watch[q]
                 PROVE  /\ Live(b)' /\ heap'[b].page = q /\ ~heap'[b].added
                        /\ c2s'[q] = <<>> /\ ~page[q].open
      BY <1>2 DEF AnswersOK, Live, IsText
    <3>1. /\ Live(b) /\ heap[b].page = q /\ ~heap[b].added
          /\ c2s[q] = <<>> /\ ~page[q].open
      BY <1>12 DEF Lines, AnswersOK
    <3>2. q # p /\ b # a
      BY <1>1, <1>2, <3>1
    <3> QED
      BY <1>9, <2>2, <3>1, <3>2
  <2> QED
    BY <1>10, <2>4, <2>5, <2>6, <2>7, <2>8, <2>9 DEF Listed, Lines
<1> QED
  BY <1>11, <1>12

LEMMA RegisterInv ==
  ASSUME Shape, Listed, Lines, UNCHANGED pageVars, NEW a, register(a)
  PROVE  Shape' /\ Listed' /\ Lines'
<1>1. Receives(a, "TEXT") /\ IsRegistration(a)
  BY DEF register
<1>2. PICK name : name = Body(a).text
  OBVIOUS
<1>3. PICK clients : clients = [heap EXCEPT ![a].added = TRUE, ![a].username = name]
  OBVIOUS
<1>4. PICK p : p = heap[a].page
  OBVIOUS
<1>5. /\ Live(a) /\ a \in Addrs /\ watch[p] = a /\ events # <<>> /\ heap[a] \in Clients
      /\ p \in Pages /\ ServerTyped
  BY <1>1, <1>4, ReceivesFacts, LiveFacts, Typed DEF Shape
<1>6. name \in Names
  <2>1. c2s[p][1].code = "TEXT" /\ Body(a) = c2s[p][1].body /\ Len(c2s[p]) >= 1 /\ Len(c2s[p]) \in Nat
    BY <1>1, <1>4, ReceivesFacts DEF Body
  <2> QED
    BY <1>1, <1>2, <1>5, <2>1 DEF Shape, SentOK, IsRegistration
<1>7. CASE isAvailable(name)
  <2>1. close_connection(a, clients) /\ Served /\ clash'
    BY <1>2, <1>3, <1>7 DEF register
  <2>2. PICK c : c = [heap[a] EXCEPT !.added = TRUE, !.username = name]
    OBVIOUS
  <2>3. c \in Clients /\ c.page = p /\ c.username = name /\ c.added
    <3>1. [heap[a] EXCEPT !.added = TRUE] \in Clients
      BY <1>5 DEF Clients
    <3> QED
      BY <1>4, <1>5, <1>6, <2>2, <3>1 DEF Clients
  <2>4. clients = [heap EXCEPT ![a] = c]
    BY <1>3, <1>5, <2>2 DEF ServerTyped
  <2>5. Drops(a, c) /\ NetTyped'
        /\ (first' \in Addrs \cup {NULL, LISTEN} /\ events' \in Seq({"in", "hup"}) /\ clash' \in BOOLEAN
              => ServerTyped')
    BY <1>5, <1>6, <2>1, <2>3, <2>4, DropFacts
  <2>6. ServerTyped'
    BY <1>2, <1>3, <1>5, <1>7, <2>5, ServedTypes DEF register
  <2>7. ~heap[a].added
    BY <1>1 DEF IsRegistration
  <2> QED
    BY <1>4, <1>5, <1>6, <2>1, <2>3, <2>5, <2>6, <2>7, DropInv
<1>8. CASE ~isAvailable(name)
  <2>1. Table[name] = NULL
    BY <1>8 DEF isAvailable
  <2>2. /\ put(name, a, [heap EXCEPT ![a].added = TRUE, ![a].username = name]) /\ Received(a)
        /\ UNCHANGED <<link, s2c, up, watch, accepting, fault, clash>>
    BY <1>2, <1>8 DEF register
  <2> QED
    BY <1>1, <1>2, <1>6, <2>1, <2>2, EnterInv
<1> QED
  BY <1>7, <1>8

(* A message that is sent to several pages.                                *)
Posted(queues, part, f) ==
  /\ queues \in [Pages -> Answers] /\ IsText(f)
  /\ \A q \in Pages : /\ queues[q] = IF q \in part /\ link[q] = "up" THEN Append(s2c[q], f) ELSE s2c[q]
                      /\ s2c[q] \in Answers

LEMMA DeliveredFacts ==
  ASSUME Shape, NEW a, Receives(a, "TEXT"), NEW f, f = Head(Arrived(a)), NEW part
  PROVE  Posted(Delivered(part, f), part, f)
<1>1. f.code = "TEXT" /\ f \in Frames(Codes)
  BY ReceivesFacts DEF Receives
<1>2. f \in Frames({"OPEN", "BADOPEN"})
  BY <1>1 DEF Frames, Codes
<1>3. s2c \in [Pages -> Answers]
  BY Typed DEF Shape, NetTyped
<1>4. \A q \in Pages : Append(s2c[q], f) \in Answers
  BY <1>2, <1>3, AppendProperties DEF Answers
<1> QED
  BY <1>1, <1>3, <1>4 DEF Delivered, IsText, Posted

(* A page's queue after it: the answer to its handshake stays in front.    *)
LEMMA AppendedFacts ==
  ASSUME NEW q \in Answers, NEW f, IsText(f), \A k \in 2 .. Len(q) : IsText(q[k])
  PROVE  /\ \A k \in 2 .. Len(Append(q, f)) : IsText(Append(q, f)[k])
         /\ Append(q, f) # <<>>
         /\ ~IsText(Append(q, f)[1]) => q # <<>> /\ Append(q, f)[1] = q[1]
<1>1. PICK r : r = Append(q, f)
  OBVIOUS
<1>2. /\ Len(q) \in Nat /\ Len(r) = Len(q) + 1 /\ r[Len(q) + 1] = f /\ r # <<>>
      /\ \A k \in 1 .. Len(q) : r[k] = q[k]
  BY <1>1 DEF Answers
<1>3. \A k \in 2 .. Len(r) : IsText(r[k])
  BY <1>2
<1>4. q # <<>> => Len(q) >= 1
  BY <1>2, EmptySeq DEF Answers
<1>5. q = <<>> => Len(q) = 0
  OBVIOUS
<1>6. ~IsText(r[1]) => q # <<>> /\ r[1] = q[1]
  BY <1>2, <1>4, <1>5
<1> QED
  BY <1>1, <1>2, <1>3, <1>6

LEMMA SentInv ==
  ASSUME Shape, Listed, Lines, UNCHANGED pageVars, NEW a, Receives(a, "TEXT"), ~IsRegistration(a),
         NEW reached, ~fault => \A q \in Pages \cap reached : watch[q] # NULL,
         NEW resets \in SUBSET {q \in reached : link[q] = "fin"},
         link' = [q \in Pages |-> IF q \in resets THEN "rst" ELSE link[q]],
         s2c' = Delivered(reached, Head(Arrived(a))), Received(a),
         UNCHANGED <<up, Table, heap, watch, accepting, fault, clash>>
  PROVE  Shape' /\ Listed' /\ Lines'
<1>1. PICK p, f : p = heap[a].page /\ f = Head(Arrived(a))
  OBVIOUS
<1>2. /\ Live(a) /\ a \in Addrs /\ a # NULL /\ p \in Pages /\ heap[a] \in Clients
      /\ watch[p] = a /\ events # <<>> /\ page' = page /\ Arrived(a) = c2s[p]
      /\ c2s[p] # <<>> /\ f = c2s[p][1] /\ Len(c2s[p]) \in Nat /\ Len(c2s[p]) >= 1
  BY <1>1, ReceivesFacts, LiveFacts DEF Shape, pageVars
<1>3. ServerTyped /\ NetTyped /\ PageTyped
  BY Typed DEF Shape
<1>4. PICK k \in 1 .. Len(c2s[p]) : c2s' = [c2s EXCEPT ![p] = SubSeq(@, k + 1, Len(@))]
  BY <1>1, <1>2 DEF Received, Lost
<1>5. /\ c2s' \in [Pages -> Queues] /\ SentOK' /\ \A q \in Pages : q # p => c2s'[q] = c2s[q]
      /\ Len(c2s'[p]) = Len(c2s[p]) - k
      /\ \A j \in 1 .. Len(c2s[p]) - k : c2s'[p][j] = c2s[p][j + k]
  <2>1. k \in 0 .. Len(c2s[p])
    BY <1>2
  <2> QED
    BY <1>2, <1>4, <2>1, ReadingFacts DEF Reading
<1>6. \A q \in Pages : link'[q] = link[q] \/ (link'[q] = "rst" /\ link[q] = "fin")
  OBVIOUS
<1>7. link' \in [Pages -> Links]
  BY <1>3, <1>6 DEF NetTyped, Links
<1>8. /\ s2c' \in [Pages -> Answers] /\ IsText(f)
      /\ \A q \in Pages : /\ s2c'[q] = IF q \in reached /\ link[q] = "up"
                                       THEN Append(s2c[q], f) ELSE s2c[q]
                          /\ s2c[q] \in Answers
  <2>1. PICK queues : queues = Delivered(reached, f)
    OBVIOUS
  <2>2. s2c' = queues
    BY <1>1, <2>1
  <2>3. Posted(Delivered(reached, f), reached, f)
    BY <1>1, DeliveredFacts
  <2> QED
    BY <2>1, <2>2, <2>3 DEF Posted
<1>9. Shape'
  <2>1. ServerTyped'
    <3>1. first' \in Addrs \cup {NULL, LISTEN} /\ events' \in Seq({"in", "hup"})
      BY <1>2, ServedTypes DEF Received
    <3> QED
      BY <1>3, <3>1 DEF ServerTyped
  <2>2. ChatTypeOK'
    <3>1. PageTyped' /\ NetTyped'
      BY <1>3, <1>5, <1>7, <1>8 DEF PageTyped, NetTyped, pageVars
    <3> QED
      BY <2>1, <3>1, TypedAfter
  <2>3. NamesOK'
    BY <1>2, <1>6 DEF Shape, NamesOK
  <2>4. WatchOK' /\ ClientsOK'
    BY <1>6 DEF Shape, WatchOK, OpenEnds, ClientsOK, Live
  <2> QED
    BY <1>5, <2>2, <2>3, <2>4 DEF Shape
<1>10. Listed'
  BY ServerVarsListed
<1>11. CASE fault
  BY <1>9, <1>10, <1>11 DEF Lines, AnswersFirst, LinesOK, AnswersOK
<1>12. CASE ~fault
  <2>1. \A q \in Pages : \A j \in 2 .. Len(s2c[q]) : IsText(s2c[q][j])
    BY <1>12 DEF Lines, AnswersFirst
  <2>2. \A q \in Pages : s2c'[q] # s2c[q] => /\ link[q] = "up" /\ watch[q] # NULL
                                             /\ s2c'[q] = Append(s2c[q], f)
    BY <1>8, <1>12
  <2>8. ASSUME NEW q \in Pages
        PROVE  /\ \A j \in 2 .. Len(s2c'[q]) : IsText(s2c'[q][j])
               /\ s2c'[q] # <<>> /\ ~IsText(s2c'[q][1]) => s2c[q] # <<>> /\ ~IsText(s2c[q][1])
    <3>1. CASE s2c'[q] = s2c[q]
      BY <2>1, <3>1
    <3>2. CASE s2c'[q] # s2c[q]
      <4>1. /\ \A j \in 2 .. Len(Append(s2c[q], f)) : IsText(Append(s2c[q], f)[j])
            /\ ~IsText(Append(s2c[q], f)[1]) => s2c[q] # <<>> /\ Append(s2c[q], f)[1] = s2c[q][1]
        BY <1>8, <2>1, AppendedFacts
      <4> QED
        BY <2>2, <3>2, <4>1
    <3> QED
      BY <3>1, <3>2
  <2>3. \A q \in Pages : \A j \in 2 .. Len(s2c'[q]) : IsText(s2c'[q][j])
    BY <2>8
  <2>4. \A q \in Pages : s2c'[q] # <<>> /\ ~IsText(s2c'[q][1]) => s2c[q] # <<>> /\ ~IsText(s2c[q][1])
    BY <2>8
  <2>5. AnswersFirst'
    <3> SUFFICES ASSUME NEW q \in Pages
                 PROVE  /\ s2c'[q] # <<>> => (link'[q] = "up" /\ watch[q] # NULL) \/ link'[q] = "down"
                        /\ \A j \in 2 .. Len(s2c'[q]) : IsText(s2c'[q][j])
                        /\ link'[q] = "syn" \/ accepting = q => c2s'[q] \in Requests /\ ~page[q].open
      BY <1>2 DEF AnswersFirst, IsText
    <3>1. /\ s2c[q] # <<>> => (link[q] = "up" /\ watch[q] # NULL) \/ link[q] = "down"
          /\ link[q] = "syn" \/ accepting = q => c2s[q] \in Requests /\ ~page[q].open
      BY <1>12 DEF Lines, AnswersFirst
    <3>2. link'[q] = "syn" \/ accepting = q => q # p
      BY <1>2, <1>6 DEF Shape, WatchOK, OpenEnds
    <3> QED
      BY <1>5, <1>6, <2>2, <2>3, <3>1, <3>2
  <2>6. LinesOK'
    <3> SUFFICES ASSUME NEW b \in Addrs, Live(b), NEW q, q = heap[b].page, watch[q] = b
                 PROVE  Line(c2s'[q], link'[q], page[q], heap[b])
      BY <1>2 DEF LinesOK, Live
    <3>1. q \in Pages /\ Line(c2s[q], link[q], page[q], heap[b])
      BY <1>12, LiveFacts DEF Lines, LinesOK, Shape
    <3>2. CASE q = p
      <4>1. b = a
        BY <1>2, <3>2
      <4>2. \A n : IsNewcomer(f, n) => heap[a].added
        <5>1. \A n : IsNewcomer(f, n) => f.body.from = "client" /\ f.body.to = "server"
          BY <1>8 DEF IsNewcomer
        <5> QED
          BY <1>1, <5>1 DEF IsRegistration, Body
      <4>3. heap[a].added
        BY <1>2, <3>1, <3>2, <4>1, <4>2 DEF Line
      <4>4. \A j \in 1 .. Len(c2s[p]) : IsMessage(c2s[p][j], heap[a].username)
        BY <3>1, <3>2, <4>1, <4>3 DEF Line
      <4>5. ASSUME NEW j \in 1 .. Len(c2s'[p]) PROVE IsMessage(c2s'[p][j], heap[a].username)
        <5>1. j \in 1 .. Len(c2s[p]) - k /\ j + k \in 1 .. Len(c2s[p])
          BY <1>2, <1>5
        <5> QED
          BY <1>5, <4>4, <5>1
      <4> QED
        BY <1>6, <3>1, <3>2, <4>1, <4>3, <4>5 DEF Line
    <3>3. CASE q # p
      <4>1. c2s'[q] = c2s[q] /\ (link'[q] = "up" => link[q] = "up")
        BY <1>5, <1>6, <3>1, <3>3
      <4> QED
        BY <3>1, <4>1 DEF Line
    <3> QED
      BY <3>2, <3>3
  <2>7. AnswersOK'
    <3> SUFFICES ASSUME NEW q \in Pages, s2c'[q] # <<>>, ~IsText(s2c'[q][1]), link'[q] = "up",
                        NEW b, b = watch[q]
                 PROVE  /\ Live(b) /\ heap[b].page = q /\ ~heap[b].added
                        /\ c2s'[q] = <<>> /\ ~page[q].open
      BY <1>2 DEF AnswersOK, Live, IsText
    <3>1. link[q] = "up" /\ s2c[q] # <<>> /\ ~IsText(s2c[q][1])
      BY <1>6, <2>4
    <3>2. /\ Live(b) /\ heap[b].page = q /\ ~heap[b].added
          /\ c2s[q] = <<>> /\ ~page[q].open
      BY <1>12, <3>1 DEF Lines, AnswersOK
    <3> QED
      BY <1>2, <1>5, <3>2
  <2> QED
    BY <1>9, <1>10, <2>5, <2>6, <2>7 DEF Lines
<1> QED
  BY <1>11, <1>12

LEMMA SendToAllInv ==
  ASSUME Shape, Listed, Lines, UNCHANGED pageVars, NEW a, Receives(a, "TEXT"), ~IsRegistration(a),
         NEW reached, ~fault => \A q \in Pages \cap reached : watch[q] # NULL,
         SendToAll(a, reached, Head(Arrived(a)))
  PROVE  Shape' /\ Listed' /\ Lines'
<1>1. PICK resets \in SUBSET {q \in reached : link[q] = "fin"} :
        LET links == [q \in Pages |-> IF q \in resets THEN "rst" ELSE link[q]]
        IN  \/ /\ link' = links /\ s2c' = Delivered(reached, Head(Arrived(a)))
               /\ Received(a)
               /\ UNCHANGED <<up, Table, heap, watch, accepting, fault, clash>>
            \/ /\ \E part \in SUBSET reached : Die(links, Delivered(part, Head(Arrived(a))))
               /\ UNCHANGED fault
  BY DEF SendToAll
<1>2. PICK links : links = [q \in Pages |-> IF q \in resets THEN "rst" ELSE link[q]]
  OBVIOUS
<1>3. CASE /\ link' = links /\ s2c' = Delivered(reached, Head(Arrived(a)))
           /\ Received(a)
           /\ UNCHANGED <<up, Table, heap, watch, accepting, fault, clash>>
  BY <1>2, <1>3, SentInv
<1>4. CASE /\ \E part \in SUBSET reached : Die(links, Delivered(part, Head(Arrived(a))))
           /\ UNCHANGED fault
  <2>1. PICK part, f : f = Head(Arrived(a)) /\ Die(links, Delivered(part, f))
    BY <1>4
  <2>2. PICK queues : queues = Delivered(part, f)
    OBVIOUS
  <2>3. /\ queues \in [Pages -> Answers] /\ IsText(f)
        /\ \A q \in Pages : /\ queues[q] = IF q \in part /\ link[q] = "up"
                                           THEN Append(s2c[q], f) ELSE s2c[q]
                            /\ s2c[q] \in Answers
    <3>1. Posted(Delivered(part, f), part, f)
      BY <2>1, DeliveredFacts
    <3> QED
      BY <2>2, <3>1 DEF Posted
  <2>4. \A q \in Pages : links[q] = link[q] \/ (links[q] = "rst" /\ link[q] = "fin")
    BY <1>2
  <2>5. links \in [Pages -> Links] /\ fault' \in BOOLEAN
    BY <1>2, <1>4, <2>4, Typed DEF Shape, NetTyped, ServerTyped, Links
  <2>6. NetTyped' /\ ServerTyped' /\ Ends(links, queues)
    BY <2>1, <2>2, <2>3, <2>5, EndFacts
  <2>7. ~fault' => \A q \in Pages :
          /\ queues[q] # <<>> => link[q] \in {"up", "down"}
          /\ \A k \in 2 .. Len(queues[q]) : IsText(queues[q][k])
    <3>1. ASSUME ~fault, NEW q \in Pages
          PROVE  /\ queues[q] # <<>> => link[q] \in {"up", "down"}
                 /\ \A k \in 2 .. Len(queues[q]) : IsText(queues[q][k])
      <4>1. /\ s2c[q] # <<>> => link[q] \in {"up", "down"}
            /\ \A k \in 2 .. Len(s2c[q]) : IsText(s2c[q][k])
        BY <3>1 DEF Lines, AnswersFirst
      <4> QED
        BY <2>3, <4>1, AppendedFacts
    <3> QED
      BY <1>4, <3>1
  <2> QED
    BY <2>4, <2>6, <2>7, EndInv
<1> QED
  BY <1>1, <1>2, <1>3, <1>4

(* Whom broadcast and relay send to is watched: a user of the table.       *)
LEMMA ReachedFacts ==
  ASSUME Listed, ~fault
  PROVE  /\ \A u \in Users : u # NULL /\ watch[heap[u].page] = u
         /\ \A a : \A q \in Others(a) : watch[q] # NULL
         /\ \A name : \A q \in {heap[u].page : u \in get(name)} : watch[q] # NULL
<1>1. \A u \in Users : u # NULL /\ watch[heap[u].page] = u
  BY DEF Listed, UsersAreConnected, Users
<1>2. \A name : get(name) \subseteq Users
  BY DEF get, Users
<1> QED
  BY <1>1, <1>2 DEF Others

LEMMA UndefinedInv ==
  ASSUME Shape, Listed, Lines, undefined_behaviour, UNCHANGED pageVars
  PROVE  Shape' /\ Listed' /\ Lines'
<1>1. CASE Crash
  BY <1>1, CrashInv
<1>2. CASE /\ fault' = TRUE /\ Served
           /\ UNCHANGED <<netVars, up, Table, heap, watch, accepting, clash>>
  <2>1. events # <<>>
    BY ReceivesFacts DEF undefined_behaviour, Serving
  <2>2. ServerTyped /\ first' \in Addrs \cup {NULL, LISTEN} /\ events' \in Seq({"in", "hup"})
    BY <1>2, <2>1, ServedTypes, Typed DEF Shape
  <2>3. ServerTyped'
    BY <1>2, <2>2 DEF ServerTyped
  <2> QED
    BY <1>2, <2>3, QuietInv
<1> QED
  BY <1>1, <1>2 DEF undefined_behaviour

LEMMA MessageInv ==
  ASSUME Shape, Listed, Lines, UNCHANGED pageVars, NEW a, broadcast(a) \/ relay(a)
  PROVE  Shape' /\ Listed' /\ Lines'
<1>1. Receives(a, "TEXT") /\ ~IsRegistration(a)
  BY DEF broadcast, relay
<1>2. CASE Overflow
  BY <1>2, CrashInv DEF Overflow
<1>3. CASE SendToAll(a, Others(a), Head(Arrived(a)))
  <2>1. ~fault => \A q \in Pages \cap Others(a) : watch[q] # NULL
    BY ReachedFacts
  <2> QED
    BY <1>1, <1>3, <2>1, SendToAllInv
<1>4. CASE SendToAll(a, {heap[u].page : u \in get(Body(a).to)}, Head(Arrived(a)))
  <2>1. PICK reached : reached = {heap[u].page : u \in get(Body(a).to)}
    OBVIOUS
  <2>2. ~fault => \A q \in Pages \cap reached : watch[q] # NULL
    BY <2>1, ReachedFacts
  <2> QED
    BY <1>1, <1>4, <2>1, <2>2, SendToAllInv
<1> QED
  BY <1>2, <1>3, <1>4 DEF broadcast, relay

-----------------------------------------------------------------------------
(***************************************************************************)
(* The theorems.                                                           *)
(***************************************************************************)
Inv == Shape /\ Listed /\ Lines

LEMMA InvStep == Inv /\ [Next]_vars => Inv'
<1> SUFFICES ASSUME Shape, Listed, Lines, [Next]_vars PROVE Shape' /\ Listed' /\ Lines'
  BY DEF Inv
<1>1. CASE PageNext /\ UNCHANGED serverVars
  <2>1. Listed'
    BY <1>1, ServerVarsListed DEF serverVars
  <2> QED
    BY <1>1, <2>1, PageShape, PageLines
<1>2. CASE epoll_wait
  BY <1>2, EpollWaitInv
<1>3. CASE handle /\ UNCHANGED pageVars
  <2>1. CASE broken
    BY <1>3, <2>1, CloseInv DEF broken, Serving
  <2>2. CASE accept
    BY <1>3, <2>2, AcceptInv
  <2>3. CASE handshake
    BY <1>3, <2>3, HandshakeInv
  <2>4. ASSUME NEW a \in Addrs, disconnected(a) \/ close_frame(a)
        PROVE  Shape' /\ Listed' /\ Lines'
    <3>1. /\ up /\ events # <<>> /\ Live(a) /\ close_connection(a, heap) /\ (up' => Served)
          /\ UNCHANGED clash
      BY <2>4 DEF disconnected, close_frame, Receives, Receiving, Serving
    <3> QED
      BY <1>3, <3>1, CloseInv
  <2>5. ASSUME NEW a \in Addrs, register(a)
        PROVE  Shape' /\ Listed' /\ Lines'
    BY <1>3, <2>5, RegisterInv
  <2>6. ASSUME NEW a \in Addrs, broadcast(a) \/ relay(a)
        PROVE  Shape' /\ Listed' /\ Lines'
    BY <1>3, <2>6, MessageInv
  <2>7. CASE undefined_behaviour
    BY <1>3, <2>7, UndefinedInv
  <2> QED
    BY <1>3, <2>1, <2>2, <2>3, <2>4, <2>5, <2>6, <2>7 DEF handle
<1>4. CASE UNCHANGED vars
  <2>1. ServerTyped'
    BY <1>4, Typed DEF Shape, ServerTyped, vars, serverVars
  <2> QED
    BY <1>4, <2>1, QuietInv DEF vars, serverVars
<1> QED
  BY <1>1, <1>2, <1>3, <1>4 DEF Next, ServerNext

(* What the types, the table and the lines of messages rest on holds in    *)
(* every state of the chat, whatever clashes, leaves or dies.              *)
THEOREM InvIsInvariant == Spec => []Inv
<1>1. Init => Inv
  BY InitShape DEF Inv
<1> QED
  BY <1>1, InvStep, PTL DEF Spec

(* Every queue holds well-formed frames and every pointer of the server is *)
(* an address of its heap.                                                 *)
THEOREM TypeCorrect == Spec => []ChatTypeOK
<1>1. Inv => ChatTypeOK
  BY DEF Inv, Shape
<1> QED
  BY <1>1, InvIsInvariant, PTL

(* broadcast and relay never send through a Client that was freed, has     *)
(* left or does not own its socket, also after a name was taken twice.     *)
THEOREM UsersConnected == Spec => []UsersAreConnected
<1>1. Inv => UsersAreConnected
  BY DEF Inv, Listed
<1> QED
  BY <1>1, InvIsInvariant, PTL

(* As long as no name is asked for twice, epoll's pointers and the Clients *)
(* of the heap are the same: none dangles, none leaks.                     *)
THEOREM ClientsMirror == Spec => []ClientsMirrorSockets
<1>1. Inv => ClientsMirrorSockets
  BY DEF Inv, Listed
<1> QED
  BY <1>1, InvIsInvariant, PTL
-----------------------------------------------------------------------------
(***************************************************************************)
(* The proof that Chat implements ChatRoom: every step of the server and   *)
(* its pages is a step of the room, or changes nothing that it promises.   *)
(***************************************************************************)

(***************************************************************************)
(* Queues of messages.                                                     *)
(***************************************************************************)
TextFrames == [code : {"TEXT"}, body : Messages]

(* A queue that at most its first frame keeps from being all messages.     *)
Mailable(q) == q \in Answers /\ \A k \in 2 .. Len(q) : IsText(q[k])

LEMMA FrameIsText == \A f \in Frames({"OPEN", "BADOPEN"}) : IsText(f) => f \in TextFrames
BY DEF Frames, IsText, TextFrames

LEMMA BodiesFacts ==
  ASSUME NEW q \in Seq(TextFrames)
  PROVE  /\ Bodies(q) \in Seq(Messages) /\ Len(Bodies(q)) = Len(q)
         /\ \A k \in 1 .. Len(q) : Bodies(q)[k] = q[k].body
         /\ TextsIn(q) = Bodies(q)
<1>1. DOMAIN q = 1 .. Len(q) /\ Len(q) \in Nat /\ \A k \in 1 .. Len(q) : q[k] \in TextFrames
  OBVIOUS
<1>2. \A k \in 1 .. Len(q) : q[k].body \in Messages /\ q[k].code = "TEXT"
  BY <1>1 DEF TextFrames
<1>3. PICK bodies : bodies = Bodies(q)
  OBVIOUS
<1>4. bodies = [k \in 1 .. Len(q) |-> q[k].body]
  BY <1>1, <1>3 DEF Bodies
<1>5. bodies \in Seq(Messages) /\ Len(bodies) = Len(q)
  BY <1>1, <1>2, <1>4
<1>6. q # <<>> => IsText(Head(q))
  <2>1. q # <<>> => Head(q) = q[1] /\ Len(q) >= 1
    BY <1>1, EmptySeq, HeadTailProperties
  <2> QED
    BY <1>1, <1>2, <2>1 DEF IsText
<1>7. TextsIn(q) = Bodies(q)
  BY <1>6 DEF TextsIn
<1> QED
  BY <1>3, <1>4, <1>5, <1>7

(* The rest of such a queue is messages, and so is the queue itself when   *)
(* its first frame is one.                                                 *)
LEMMA MailableFacts ==
  ASSUME NEW q, Mailable(q), q # <<>>
  PROVE  /\ Tail(q) \in Seq(TextFrames) /\ Head(q) = q[1]
         /\ IsText(Head(q)) => q \in Seq(TextFrames) /\ Tail(Bodies(q)) = Bodies(Tail(q))
         /\ TextsIn(Tail(q)) = Bodies(Tail(q))
         /\ TextsIn(q) = IF IsText(Head(q)) THEN Bodies(q) ELSE Bodies(Tail(q))
<1>1. /\ q \in Seq(Frames({"OPEN", "BADOPEN"})) /\ Len(q) \in Nat
      /\ \A k \in 2 .. Len(q) : IsText(q[k])
  BY DEF Mailable, Answers
<1>2. PICK rest : rest = Tail(q)
  OBVIOUS
<1>3. /\ rest \in Seq(Frames({"OPEN", "BADOPEN"})) /\ Head(q) = q[1]
      /\ Len(rest) = Len(q) - 1 /\ \A k \in 1 .. Len(rest) : rest[k] = q[k + 1]
  BY <1>1, <1>2, HeadTailProperties
<1>4. rest \in Seq(TextFrames)
  <2>1. \A k \in 1 .. Len(rest) : rest[k] \in TextFrames
    <3>1. ASSUME NEW k \in 1 .. Len(rest) PROVE rest[k] \in TextFrames
      <4>1. k + 1 \in 2 .. Len(q) /\ rest[k] = q[k + 1] /\ rest[k] \in Frames({"OPEN", "BADOPEN"})
        BY <1>1, <1>3
      <4> QED
        BY <1>1, <4>1, FrameIsText
    <3> QED
      BY <3>1
  <2> QED
    BY <1>3, <2>1
<1>5. TextsIn(rest) = Bodies(rest)
  BY <1>4, BodiesFacts
<1>6. ASSUME IsText(Head(q))
      PROVE  q \in Seq(TextFrames) /\ Tail(Bodies(q)) = Bodies(rest)
  <2>1. q \in Seq(TextFrames)
    <3>1. \A k \in 1 .. Len(q) : IsText(q[k]) /\ q[k] \in Frames({"OPEN", "BADOPEN"})
      BY <1>1, <1>3, <1>6
    <3>2. \A k \in 1 .. Len(q) : q[k] \in TextFrames
      BY <3>1, FrameIsText
    <3> QED
      BY <1>1, <3>2
  <2>2. PICK full, bodies : full = Bodies(q) /\ bodies = Bodies(rest)
    OBVIOUS
  <2>3. /\ full \in Seq(Messages) /\ Len(full) = Len(q) /\ \A k \in 1 .. Len(q) : full[k] = q[k].body
        /\ bodies \in Seq(Messages) /\ Len(bodies) = Len(rest)
        /\ \A k \in 1 .. Len(rest) : bodies[k] = rest[k].body
    BY <1>4, <2>1, <2>2, BodiesFacts
  <2>4. Len(q) >= 1
    BY <1>1, EmptySeq
  <2>5. /\ Tail(full) \in Seq(Messages) /\ Len(Tail(full)) = Len(full) - 1
        /\ \A k \in 1 .. Len(Tail(full)) : Tail(full)[k] = full[k + 1]
    BY <1>1, <2>3, <2>4, HeadTailProperties
  <2>6. Tail(full) = bodies
    <3>1. PICK t : t = Tail(full)
      OBVIOUS
    <3>2. t \in Seq(Messages) /\ Len(t) = Len(bodies) /\ Len(bodies) \in Nat
      BY <1>1, <1>3, <2>3, <2>5, <3>1
    <3>3. ASSUME NEW k \in 1 .. Len(t) PROVE t[k] = bodies[k]
      <4>1. k \in 1 .. Len(rest) /\ k + 1 \in 1 .. Len(q)
        BY <1>1, <1>3, <2>3, <3>2
      <4>2. t[k] = full[k + 1]
        BY <2>5, <3>1
      <4> QED
        BY <1>3, <2>3, <4>1, <4>2
    <3>4. t = bodies
      BY <2>3, <3>2, <3>3, SeqEqual
    <3> QED
      BY <3>1, <3>4
  <2> QED
    BY <2>1, <2>2, <2>6
<1>7. TextsIn(q) = IF IsText(Head(q)) THEN Bodies(q) ELSE Bodies(rest)
  BY <1>2 DEF TextsIn
<1> QED
  BY <1>2, <1>3, <1>4, <1>5, <1>6, <1>7

LEMMA AppendBodies ==
  ASSUME NEW q \in Seq(TextFrames), NEW f \in TextFrames
  PROVE  /\ Append(q, f) \in Seq(TextFrames)
         /\ Bodies(Append(q, f)) = Append(Bodies(q), f.body)
<1>1. PICK r : r = Append(q, f)
  OBVIOUS
<1>2. /\ r \in Seq(TextFrames) /\ Len(r) = Len(q) + 1 /\ r[Len(q) + 1] = f /\ Len(q) \in Nat
      /\ \A k \in 1 .. Len(q) : r[k] = q[k]
  BY <1>1
<1>3. PICK long, short : long = Bodies(r) /\ short = Bodies(q)
  OBVIOUS
<1>4. /\ long \in Seq(Messages) /\ Len(long) = Len(r) /\ \A k \in 1 .. Len(r) : long[k] = r[k].body
      /\ short \in Seq(Messages) /\ Len(short) = Len(q) /\ \A k \in 1 .. Len(q) : short[k] = q[k].body
  BY <1>2, <1>3, BodiesFacts
<1>5. f.body \in Messages
  BY DEF TextFrames
<1>6. PICK longer : longer = Append(short, f.body)
  OBVIOUS
<1>7. /\ longer \in Seq(Messages) /\ Len(longer) = Len(short) + 1 /\ longer[Len(short) + 1] = f.body
      /\ \A k \in 1 .. Len(short) : longer[k] = short[k]
  BY <1>4, <1>5, <1>6
<1>8. \A k \in 1 .. Len(long) : long[k] = longer[k]
  BY <1>2, <1>4, <1>7
<1>9. long = longer
  BY <1>2, <1>4, <1>7, <1>8, SeqEqual
<1> QED
  BY <1>1, <1>2, <1>3, <1>6, <1>9

(* A message at the end of a queue is one at the end of its messages.      *)
LEMMA AppendTexts ==
  ASSUME NEW q, Mailable(q), NEW f \in TextFrames
  PROVE  TextsIn(Append(q, f)) = Append(TextsIn(q), f.body)
<1>1. q \in Seq(Frames({"OPEN", "BADOPEN"})) /\ f \in Frames({"OPEN", "BADOPEN"}) /\ IsText(f)
  BY DEF Mailable, Answers, TextFrames, Frames, IsText
<1>2. CASE q = <<>>
  <2>1. q \in Seq(TextFrames)
    BY <1>2, EmptySeq
  <2> QED
    BY <2>1, AppendBodies, BodiesFacts
<1>3. CASE q # <<>> /\ IsText(Head(q))
  <2>1. q \in Seq(TextFrames)
    BY <1>3, MailableFacts
  <2> QED
    BY <2>1, AppendBodies, BodiesFacts
<1>4. CASE q # <<>> /\ ~IsText(Head(q))
  <2>1. Tail(q) \in Seq(TextFrames) /\ TextsIn(q) = Bodies(Tail(q))
    BY <1>4, MailableFacts
  <2>2. PICK r : r = Append(q, f)
    OBVIOUS
  <2>3. r # <<>> /\ Head(r) = Head(q) /\ Tail(r) = Append(Tail(q), f)
    BY <1>1, <1>4, <2>2
  <2>4. TextsIn(r) = Bodies(Tail(r))
    BY <1>4, <2>3 DEF TextsIn
  <2> QED
    BY <2>1, <2>2, <2>3, <2>4, AppendBodies
<1> QED
  BY <1>2, <1>3, <1>4

LEMMA NoTexts == TextsIn(<<>>) = <<>> /\ \A code : code # "TEXT" => TextsIn(<<[code |-> code]>>) = <<>>
<1>1. TextsIn(<<>>) = <<>> /\ Bodies(<<>>) = <<>>
  <2>1. <<>> \in Seq(TextFrames)
    BY EmptySeq
  <2>2. PICK bodies : bodies = Bodies(<<>>)
    OBVIOUS
  <2>3. bodies \in Seq(Messages) /\ Len(bodies) = 0 /\ TextsIn(<<>>) = bodies
    BY <2>1, <2>2, BodiesFacts, EmptySeq
  <2>4. bodies = <<>>
    BY <2>3, EmptySeq
  <2> QED
    BY <2>2, <2>3, <2>4
<1>2. ASSUME NEW code, code # "TEXT" PROVE TextsIn(<<[code |-> code]>>) = <<>>
  <2>1. PICK q, f : f = [code |-> code] /\ q = <<f>>
    OBVIOUS
  <2>2. q # <<>> /\ Head(q) = f /\ Tail(q) = <<>>
    BY <2>1
  <2>3. ~IsText(f)
    BY <1>2, <2>1 DEF IsText
  <2> QED
    BY <1>1, <2>1, <2>2, <2>3 DEF TextsIn
<1> QED
  BY <1>1, <1>2

-----------------------------------------------------------------------------
(***************************************************************************)
(* What the room sees of a state of the chat.                              *)
(***************************************************************************)
LEMMA RoomState ==
  /\ Defined => /\ Holders = [n \in Names |-> IF Table[n] # NULL THEN heap[Table[n]].page ELSE NULL]
                /\ Mail = [p \in Pages |-> TextsIn(s2c[p])]
  /\ ~Defined => Holders = [n \in Names |-> NULL] /\ Mail = [p \in Pages |-> <<>>]
BY DEF Holders, Mail

LEMMA RoomStateNext ==
  /\ Defined' => /\ Holders' = [n \in Names |-> IF Table'[n] # NULL THEN heap'[Table'[n]].page ELSE NULL]
                 /\ Mail' = [p \in Pages |-> TextsIn(s2c'[p])]
  /\ ~Defined' => Holders' = [n \in Names |-> NULL] /\ Mail' = [p \in Pages |-> <<>>]
BY DEF Holders, Mail, TextsIn, Bodies, IsText

(* What pages have been sent can be read as messages.                      *)
LEMMA MailableQueues ==
  ASSUME Inv, Defined
  PROVE  \A p \in Pages : Mailable(s2c[p]) /\ TextsIn(s2c[p]) \in Seq(Messages)
<1> SUFFICES ASSUME NEW p \in Pages PROVE Mailable(s2c[p]) /\ TextsIn(s2c[p]) \in Seq(Messages)
  OBVIOUS
<1>1. Mailable(s2c[p])
  BY Typed DEF Inv, Shape, NetTyped, Lines, AnswersFirst, Defined, Mailable
<1>2. CASE s2c[p] = <<>>
  <2>1. TextsIn(s2c[p]) = <<>>
    BY <1>2, NoTexts
  <2>2. <<>> \in Seq(Messages)
    BY EmptySeq
  <2> QED
    BY <1>1, <2>1, <2>2
<1>3. CASE s2c[p] # <<>>
  <2>1. /\ Tail(s2c[p]) \in Seq(TextFrames)
        /\ IsText(Head(s2c[p])) => s2c[p] \in Seq(TextFrames)
        /\ TextsIn(s2c[p]) = IF IsText(Head(s2c[p])) THEN Bodies(s2c[p]) ELSE Bodies(Tail(s2c[p]))
    BY <1>1, <1>3, MailableFacts
  <2> QED
    BY <1>1, <2>1, BodiesFacts
<1> QED
  BY <1>1, <1>2, <1>3

RoomStep == [Room!RoomNext]_(Room!roomVars)

LEMMA Stutter ==
  ASSUME Defined' = Defined, Holders' = Holders, Mail' = Mail
  PROVE  RoomStep
BY DEF RoomStep, Room!roomVars

LEMMA UndefinedStep ==
  ASSUME ~Defined', Defined' \in BOOLEAN
  PROVE  Room!Undefined
<1>1. Defined' = FALSE
  OBVIOUS
<1>2. Holders' = [n \in Names |-> NULL] /\ Mail' = [p \in Pages |-> <<>>]
  BY RoomStateNext
<1> QED
  BY <1>1, <1>2 DEF Room!Undefined

LEMMA ReadStep ==
  ASSUME Defined' = Defined, Holders' = Holders, NEW p \in Pages, Mail[p] \in Seq(Messages),
         NEW k \in 0 .. Len(Mail[p]), Mail' = [Mail EXCEPT ![p] = SubSeq(Mail[p], k + 1, Len(Mail[p]))]
  PROVE  RoomStep
<1>1. Room!Read(p)
  BY DEF Room!Read
<1> QED
  BY <1>1 DEF RoomStep, Room!RoomNext

LEMMA PageRefines ==
  ASSUME Inv, PageNext, UNCHANGED serverVars
  PROVE  RoomStep
<1>1. Defined' = Defined /\ Table' = Table /\ heap' = heap
  BY DEF Defined, serverVars
<1>2. Holders' = Holders
  BY <1>1, RoomState, RoomStateNext
<1>3. CASE ~Defined
  BY <1>1, <1>2, <1>3, RoomState, RoomStateNext, Stutter
<1>4. CASE Defined
  <2>1. PICK p \in Pages : PageStep(p)
    BY PageFacts DEF Inv
  <2>2. /\ Mail = [q \in Pages |-> TextsIn(s2c[q])] /\ Mail' = [q \in Pages |-> TextsIn(s2c'[q])]
        /\ \A q \in Pages : q # p => s2c'[q] = s2c[q]
    BY <1>1, <1>4, <2>1, RoomState, RoomStateNext DEF PageStep, OthersSame
  <2>3. PICK now : now = TextsIn(s2c'[p])
    OBVIOUS
  <2>4. Mail' = [Mail EXCEPT ![p] = now]
    BY <2>2, <2>3
  <2>5. Mailable(s2c[p]) /\ Mail[p] \in Seq(Messages)
    BY <1>4, <2>2, MailableQueues
  <2>6. CASE now = Mail[p]
    <3>1. Mail' = Mail
      BY <2>2, <2>4, <2>6
    <3> QED
      BY <1>1, <1>2, <3>1, Stutter
  <2>7. ASSUME NEW k \in 0 .. Len(Mail[p]), now = SubSeq(Mail[p], k + 1, Len(Mail[p]))
        PROVE  RoomStep
    <3>1. Mail' = [Mail EXCEPT ![p] = SubSeq(Mail[p], k + 1, Len(Mail[p]))]
      BY <2>4, <2>7
    <3> QED
      BY <1>1, <1>2, <2>5, <3>1, ReadStep
  <2>8. CASE Connecting(p) \/ Typing(p)
    <3>1. now = Mail[p]
      BY <2>2, <2>3, <2>8 DEF Connecting, Typing
    <3> QED
      BY <2>6, <3>1
  <2>9. CASE Leaving(p) \/ Noticing(p)
    <3>1. now = <<>>
      BY <2>3, <2>9, NoTexts DEF Leaving, Noticing
    <3>2. PICK m : m = Mail[p]
      OBVIOUS
    <3>3. Len(m) \in 0 .. Len(m) /\ SubSeq(m, Len(m) + 1, Len(m)) = <<>>
      <4>1. m \in Seq(Messages) /\ Len(m) \in Nat
        BY <2>5, <3>2
      <4> QED
        BY <4>1, SubSeqProperties, EmptySeq
    <3> QED
      BY <2>7, <3>1, <3>2, <3>3
  <2>10. CASE Answered(p)
    <3>1. s2c[p] # <<>> /\ ~IsText(Head(s2c[p])) /\ s2c'[p] = Tail(s2c[p])
      BY <2>10 DEF Answered, IsText
    <3>2. now = Mail[p]
      BY <2>2, <2>3, <2>5, <3>1, MailableFacts
    <3> QED
      BY <2>6, <3>2
  <2>11. CASE Showing(p)
    <3>1. s2c[p] # <<>> /\ IsText(Head(s2c[p])) /\ s2c'[p] = Tail(s2c[p])
      BY <2>11 DEF Showing, IsText
    <3>2. now = Tail(Mail[p])
      BY <2>2, <2>3, <2>5, <3>1, MailableFacts
    <3>3. PICK m : m = Mail[p]
      OBVIOUS
    <3>4. m = Bodies(s2c[p]) /\ s2c[p] \in Seq(TextFrames)
      BY <2>2, <2>5, <3>1, <3>3, MailableFacts
    <3>5. Len(m) = Len(s2c[p]) /\ Len(s2c[p]) >= 1 /\ Len(s2c[p]) \in Nat
      BY <3>1, <3>4, BodiesFacts, EmptySeq
    <3>6. Tail(m) = SubSeq(m, 2, Len(m)) /\ 1 \in 0 .. Len(m) /\ 2 = 1 + 1
      BY <3>5 DEF Tail
    <3> QED
      BY <2>7, <3>2, <3>3, <3>6
  <2> QED
    BY <2>1, <2>8, <2>9, <2>10, <2>11 DEF PageStep
<1> QED
  BY <1>3, <1>4

-----------------------------------------------------------------------------
(***************************************************************************)
(* The steps of the server, as long as nothing undefined has happened.     *)
(***************************************************************************)
(* The users of the table, and the pages that hold their names.            *)
LEMMA HolderFacts ==
  ASSUME Inv, Defined, NEW n \in Names, Table[n] # NULL
  PROVE  /\ Live(Table[n]) /\ heap[Table[n]].username = n /\ heap[Table[n]].added
         /\ heap[Table[n]].active /\ watch[heap[Table[n]].page] = Table[n]
         /\ heap[Table[n]].page \in Pages /\ heap[Table[n]].page # NULL
         /\ Holders[n] = heap[Table[n]].page
<1>1. /\ Live(Table[n]) /\ heap[Table[n]].username = n /\ heap[Table[n]].added
      /\ heap[Table[n]].active /\ watch[heap[Table[n]].page] = Table[n]
  BY DEF Inv, Listed, UsersAreConnected, Defined
<1>2. heap[Table[n]].page \in Pages /\ heap[Table[n]].page # NULL
  BY <1>1, LiveFacts DEF Inv, Shape
<1>3. Holders[n] = heap[Table[n]].page
  BY RoomState
<1> QED
  BY <1>1, <1>2, <1>3

(* A step after which every name has the holder it had, and every page the *)
(* messages.                                                               *)
LEMMA SameRoom ==
  ASSUME Defined, Defined', UNCHANGED s2c,
         \A n \in Names : Table'[n] = Table[n] /\ (Table[n] # NULL => heap'[Table[n]].page = heap[Table[n]].page)
  PROVE  RoomStep
<1>1. Defined' = Defined
  BY DEF Defined
<1>2. Holders' = Holders
  BY RoomState, RoomStateNext
<1>3. Mail' = Mail
  BY RoomState, RoomStateNext
<1> QED
  BY <1>1, <1>2, <1>3, Stutter

(* close_connection: a name is given up, if it was the Client's.           *)
LEMMA DropRefines ==
  ASSUME Inv, Defined, Defined', NEW a \in Addrs, NEW c \in Clients, c.page = heap[a].page,
         c.username \in Names, Drops(a, c)
  PROVE  RoomStep
<1>1. PICK u : u = c.username
  OBVIOUS
<1>2. /\ u \in Names /\ s2c' = s2c /\ Defined' = Defined
      /\ Table'[u] = NULL /\ \A n \in Names : n # u => Table'[n] = Table[n]
      /\ \A b \in Addrs : heap'[b] = IF b = Table[u] THEN Free
                                     ELSE IF b = a THEN [c EXCEPT !.active = FALSE] ELSE heap[b]
  BY <1>1 DEF Drops, Defined
<1>3. [c EXCEPT !.active = FALSE].page = heap[a].page
  BY DEF Clients
<1>4. \A n \in Names : n # u /\ Table[n] # NULL => heap'[Table[n]].page = heap[Table[n]].page
  <2> SUFFICES ASSUME NEW n \in Names, n # u, Table[n] # NULL
               PROVE  heap'[Table[n]].page = heap[Table[n]].page
    OBVIOUS
  <2>1. Live(Table[n]) /\ heap[Table[n]].username = n
    BY HolderFacts
  <2>2. Table[n] # Table[u]
    <3>1. Table[u] # NULL => heap[Table[u]].username = u
      BY <1>2, HolderFacts
    <3> QED
      BY <2>1, <3>1
  <2> QED
    BY <1>2, <1>3, <2>1, <2>2 DEF Live
<1>5. Mail' = Mail
  BY <1>2, RoomState, RoomStateNext
<1>6. CASE Table[u] = NULL
  BY <1>2, <1>4, <1>6, SameRoom
<1>7. CASE Table[u] # NULL
  <2>1. Holders' = [Holders EXCEPT ![u] = NULL]
    <3>1. PICK before, after : before = Holders /\ after = Holders'
      OBVIOUS
    <3>2. /\ before = [n \in Names |-> IF Table[n] # NULL THEN heap[Table[n]].page ELSE NULL]
          /\ after = [n \in Names |-> IF Table'[n] # NULL THEN heap'[Table'[n]].page ELSE NULL]
      BY <3>1, RoomState, RoomStateNext
    <3>3. after[u] = NULL /\ \A n \in Names : n # u => after[n] = before[n]
      BY <1>2, <1>4, <3>2
    <3>4. after = [before EXCEPT ![u] = NULL]
      BY <1>2, <3>2, <3>3
    <3> QED
      BY <3>1, <3>4
  <2>2. Holders[u] # NULL
    BY <1>2, <1>7, HolderFacts
  <2>3. Room!Leave(u)
    BY <1>2, <1>5, <2>1, <2>2 DEF Room!Leave
  <2> QED
    BY <1>2, <2>3 DEF RoomStep, Room!RoomNext
<1> QED
  BY <1>6, <1>7

LEMMA CloseRefines ==
  ASSUME Inv, Defined, Defined', NEW a, Live(a), close_connection(a, heap)
  PROVE  RoomStep
<1>1. ServerTyped /\ a \in Addrs /\ heap[a] \in Clients
  BY Typed, LiveFacts DEF Inv, Shape
<1>2. heap[a].username # NoName
  BY DEF close_connection, Crash, Defined
<1>3. heap[a].username \in Names
  BY <1>1, <1>2 DEF Clients
<1>4. heap = [heap EXCEPT ![a] = heap[a]]
  BY <1>1 DEF ServerTyped
<1>5. PICK c : c = heap[a]
  OBVIOUS
<1>6. Drops(a, c)
  BY <1>1, <1>3, <1>4, <1>5, DropFacts DEF Inv
<1> QED
  BY <1>1, <1>3, <1>5, <1>6, DropRefines

(* handshake: what a newcomer is sent is no message.                       *)
LEMMA HandshakeRefines ==
  ASSUME Inv, Defined, Defined', handshake
  PROVE  RoomStep
<1>1. PICK p : p = accepting
  OBVIOUS
<1>2. p \in Pages /\ watch[p] = NULL /\ link[p] \in OpenEnds
  BY <1>1, Typed DEF Inv, Shape, ServerTyped, handshake, WatchOK
<1>3. CASE UNCHANGED <<s2c, Table, heap>>
  BY <1>3, SameRoom
<1>4. CASE Welcome(p, "OPEN") /\ UNCHANGED fault
  <2>1. fault' \in BOOLEAN /\ up'
    <3>1. fault \in BOOLEAN
      BY Typed DEF Inv, Shape, ServerTyped
    <3> QED
      BY <1>4, <3>1 DEF Defined
  <2>2. PICK a \in Addrs : Creates(p, a, "OPEN")
    BY <1>2, <1>4, <2>1, WelcomeFacts DEF Inv
  <2>3. s2c[p] = <<>>
    BY <1>2 DEF Inv, Lines, AnswersFirst, Defined, OpenEnds
  <2>4. TextsIn(s2c'[p]) = <<>> /\ TextsIn(s2c[p]) = <<>>
    <3>1. s2c'[p] = <<>> \/ s2c'[p] = <<[code |-> "OPEN"]>>
      <4>1. s2c'[p] = <<>> \/ s2c'[p] = Append(<<>>, [code |-> "OPEN"])
        BY <2>2, <2>3 DEF Creates
      <4>2. \A f : Append(<<>>, f) = <<f>>
        OBVIOUS
      <4> QED
        BY <4>1, <4>2
    <3>2. TextsIn(<<[code |-> "OPEN"]>>) = <<>> /\ TextsIn(<<>>) = <<>>
      <4>1. "OPEN" # "TEXT"
        OBVIOUS
      <4> QED
        BY <4>1, NoTexts
    <3>3. TextsIn(s2c'[p]) = <<>>
      BY <3>1, <3>2
    <3>4. TextsIn(s2c[p]) = <<>>
      BY <2>3, <3>2
    <3> QED
      BY <3>3, <3>4
  <2>5. \A q \in Pages : TextsIn(s2c'[q]) = TextsIn(s2c[q])
    BY <2>2, <2>4 DEF Creates
  <2>6. Mail' = Mail
    BY <2>5, RoomState, RoomStateNext
  <2>7. \A n \in Names : Table[n] # NULL => heap'[Table[n]] = heap[Table[n]]
    <3> SUFFICES ASSUME NEW n \in Names, Table[n] # NULL PROVE heap'[Table[n]] = heap[Table[n]]
      OBVIOUS
    <3>1. Live(Table[n])
      BY HolderFacts
    <3> QED
      BY <2>2, <3>1 DEF Live, Creates
  <2>8. Table' = Table /\ Defined' = Defined
    BY <2>2 DEF Creates, Defined
  <2>9. Holders' = Holders
    BY <2>7, <2>8, RoomState, RoomStateNext
  <2> QED
    BY <2>6, <2>8, <2>9, Stutter
<1> QED
  BY <1>1, <1>3, <1>4 DEF handshake, Defined

(* register: a name that is free is taken by a page that has none; one     *)
(* that is taken is given up, and its Client freed.                        *)
LEMMA RegisterRefines ==
  ASSUME Inv, Defined, Defined', NEW a, register(a)
  PROVE  RoomStep
<1>1. Receives(a, "TEXT") /\ IsRegistration(a)
  BY DEF register
<1>2. PICK p, name : p = heap[a].page /\ name = Body(a).text
  OBVIOUS
<1>3. PICK clients : clients = [heap EXCEPT ![a].added = TRUE, ![a].username = name]
  OBVIOUS
<1>4. /\ Live(a) /\ a \in Addrs /\ a # NULL /\ watch[p] = a /\ heap[a] \in Clients
      /\ p \in Pages /\ p # NULL /\ ServerTyped /\ ~heap[a].added
  BY <1>1, <1>2, ReceivesFacts, LiveFacts, Typed DEF Inv, Shape, IsRegistration
<1>5. name \in Names
  <2>1. c2s[p][1].code = "TEXT" /\ Body(a) = c2s[p][1].body /\ Len(c2s[p]) >= 1 /\ Len(c2s[p]) \in Nat
    BY <1>1, <1>2, ReceivesFacts DEF Body, Inv
  <2> QED
    BY <1>1, <1>2, <1>4, <2>1 DEF Inv, Shape, SentOK, IsRegistration
<1>6. PICK c : c = [heap[a] EXCEPT !.added = TRUE, !.username = name]
  OBVIOUS
<1>7. c \in Clients /\ c.page = p /\ c.username = name
  <2>1. [heap[a] EXCEPT !.added = TRUE] \in Clients
    BY <1>4 DEF Clients
  <2> QED
    BY <1>2, <1>4, <1>5, <1>6, <2>1 DEF Clients
<1>8. clients = [heap EXCEPT ![a] = c]
  BY <1>3, <1>4, <1>6 DEF ServerTyped
<1>9. CASE isAvailable(name)
  <2>1. close_connection(a, clients)
    BY <1>2, <1>3, <1>9 DEF register
  <2>2. Drops(a, c)
    BY <1>4, <1>5, <1>7, <1>8, <2>1, DropFacts DEF Inv
  <2> QED
    BY <1>2, <1>4, <1>5, <1>7, <2>2, DropRefines
<1>10. CASE ~isAvailable(name)
  <2>1. Table[name] = NULL /\ put(name, a, clients) /\ UNCHANGED <<s2c, up, fault>>
    BY <1>2, <1>3, <1>10 DEF isAvailable, register
  <2>2. Table' = [Table EXCEPT ![name] = a] /\ \A b \in Addrs : heap'[b] = clients[b]
    BY <2>1, ServerAssumption DEF put, removeKey
  <2>3. heap'[a].page = p /\ \A b \in Addrs : heap'[b].page = heap[b].page
    BY <1>2, <1>4, <1>7, <1>8, <2>2 DEF ServerTyped
  <2>4. Mail' = Mail /\ Defined' = Defined
    <3>1. Defined' = Defined
      BY <2>1 DEF Defined
    <3> QED
      BY <2>1, <3>1, RoomState, RoomStateNext
  <2>5. PICK before, after : before = Holders /\ after = Holders'
    OBVIOUS
  <2>6. /\ before = [n \in Names |-> IF Table[n] # NULL THEN heap[Table[n]].page ELSE NULL]
        /\ after = [n \in Names |-> IF Table'[n] # NULL THEN heap'[Table'[n]].page ELSE NULL]
    BY <2>5, RoomState, RoomStateNext
  <2>7. Table'[name] = a /\ \A n \in Names : n # name => Table'[n] = Table[n]
    BY <1>4, <1>5, <2>2 DEF ServerTyped
  <2>8. \A n \in Names : Table[n] # NULL => Table[n] \in Addrs
    BY <1>4 DEF ServerTyped
  <2>9. after[name] = p /\ \A n \in Names : n # name => after[n] = before[n]
    BY <1>4, <1>5, <2>3, <2>6, <2>7, <2>8
  <2>10. after = [before EXCEPT ![name] = p]
    BY <1>5, <2>6, <2>9
  <2>11. before[name] = NULL
    BY <1>5, <2>1, <2>6
  <2>12. \A n \in Names : before[n] # p
    <3> SUFFICES ASSUME NEW n \in Names, Table[n] # NULL PROVE heap[Table[n]].page # p
      BY <1>4, <2>6
    <3>1. heap[Table[n]].added /\ watch[heap[Table[n]].page] = Table[n]
      BY HolderFacts
    <3> QED
      BY <1>4, <3>1
  <2>13. Room!Enter(p, name)
    BY <2>4, <2>5, <2>10, <2>11, <2>12 DEF Room!Enter, Room!InRoom
  <2> QED
    BY <1>4, <1>5, <2>13 DEF RoomStep, Room!RoomNext
<1> QED
  BY <1>9, <1>10

(* A message that is no registration is from the user that the table has   *)
(* for its sender's name.                                                  *)
LEMMA SenderFacts ==
  ASSUME Inv, Defined, NEW a, Receives(a, "TEXT"), ~IsRegistration(a)
  PROVE  /\ a \in Addrs /\ heap[a].added /\ heap[a].active /\ heap[a].username \in Names
         /\ Table[heap[a].username] = a /\ Holders[heap[a].username] = heap[a].page
         /\ heap[a].page # NULL
         /\ Body(a).to \in Names \cup {Broadcast} /\ Body(a).text \in Texts
         /\ Body(a) = [from |-> heap[a].username, to |-> Body(a).to, text |-> Body(a).text]
         /\ Head(Arrived(a)) \in TextFrames
<1>1. PICK p, f, n : p = heap[a].page /\ f = Head(Arrived(a)) /\ n = heap[a].username
  OBVIOUS
<1>2. /\ Live(a) /\ a \in Addrs /\ a # NULL /\ p \in Pages /\ p # NULL
      /\ watch[p] = a /\ f = c2s[p][1] /\ c2s[p] # <<>> /\ Len(c2s[p]) \in Nat /\ Len(c2s[p]) >= 1
      /\ f.code = "TEXT" /\ f \in Frames(Codes) /\ f.body \in Messages
  BY <1>1, ReceivesFacts, LiveFacts DEF Inv, Shape, Body
<1>3. Line(c2s[p], link[p], page[p], heap[a])
  BY <1>1, <1>2 DEF Inv, Lines, LinesOK, Defined
<1>4. heap[a].added
  <2>1. \A m : IsNewcomer(f, m) => f.body.from = "client" /\ f.body.to = "server"
    BY DEF IsNewcomer
  <2> QED
    BY <1>1, <1>2, <1>3, <2>1 DEF Line, IsRegistration, Body
<1>5. IsMessage(f, n)
  BY <1>1, <1>2, <1>3, <1>4 DEF Line
<1>6. f.body.from = n /\ f.body.to \in Names \cup {Broadcast} /\ f.body.text \in Texts
  BY <1>2, <1>5 DEF IsMessage, IsText
<1>7. f.body = [from |-> n, to |-> f.body.to, text |-> f.body.text]
  BY <1>2, <1>6 DEF Messages
<1>8. n \in Names /\ Table[n] = a /\ heap[a].active
  BY <1>1, <1>2, <1>4 DEF Inv, Shape, ClientsOK, Listed, UsersAreListed, Defined
<1>9. Holders[n] = p
  BY <1>1, <1>2, <1>8, HolderFacts
<1>10. f \in TextFrames
  BY <1>2 DEF Frames, TextFrames, Codes
<1> QED
  BY <1>1, <1>2, <1>4, <1>6, <1>7, <1>8, <1>9, <1>10 DEF Body

LEMMA SendRefines ==
  ASSUME Inv, Defined, Defined', NEW a, Receives(a, "TEXT"), ~IsRegistration(a), NEW reached,
         reached \subseteq Room!Addressees(heap[a].page, Body(a).to),
         SendToAll(a, reached, Head(Arrived(a)))
  PROVE  RoomStep
<1>1. PICK p, f, n, body : p = heap[a].page /\ f = Head(Arrived(a)) /\ n = heap[a].username
                           /\ body = Body(a)
  OBVIOUS
<1>2. /\ n \in Names /\ Holders[n] = p /\ p # NULL /\ body.to \in Names \cup {Broadcast} /\ body.text \in Texts
      /\ body = [from |-> n, to |-> body.to, text |-> body.text] /\ f \in TextFrames /\ f.body = body
  BY <1>1, SenderFacts DEF Body
<1>3. s2c' = Delivered(reached, f) /\ UNCHANGED <<up, Table, heap, fault>>
  BY <1>1 DEF SendToAll, Die, Defined
<1>4. PICK live : live = {q \in reached : link[q] = "up"}
  OBVIOUS
<1>5. \A q \in Pages : TextsIn(s2c'[q]) = IF q \in live THEN Append(TextsIn(s2c[q]), body) ELSE TextsIn(s2c[q])
  <2> SUFFICES ASSUME NEW q \in Pages
               PROVE  TextsIn(s2c'[q]) = IF q \in live THEN Append(TextsIn(s2c[q]), body) ELSE TextsIn(s2c[q])
    OBVIOUS
  <2>1. Mailable(s2c[q])
    BY MailableQueues
  <2>2. s2c'[q] = IF q \in live THEN Append(s2c[q], f) ELSE s2c[q]
    BY <1>3, <1>4 DEF Delivered
  <2> QED
    BY <1>2, <2>1, <2>2, AppendTexts
<1>6. Defined' = Defined /\ Holders' = Holders
  <2>1. Defined' = Defined
    BY <1>3 DEF Defined
  <2> QED
    BY <1>3, <2>1, RoomState, RoomStateNext
<1>7. Mail' = [q \in Pages |-> IF q \in live THEN Append(Mail[q], [from |-> n, to |-> body.to, text |-> body.text])
                               ELSE Mail[q]]
  <2>1. PICK before, after : before = Mail /\ after = Mail'
    OBVIOUS
  <2>2. /\ before = [q \in Pages |-> TextsIn(s2c[q])]
        /\ after = [q \in Pages |-> TextsIn(s2c'[q])]
    BY <2>1, RoomState, RoomStateNext
  <2>3. after = [q \in Pages |-> IF q \in live THEN Append(before[q], body) ELSE before[q]]
    BY <1>5, <2>2
  <2>4. PICK said : said = [from |-> n, to |-> body.to, text |-> body.text]
    OBVIOUS
  <2>5. said = body
    BY <1>2, <2>4
  <2>6. after = [q \in Pages |-> IF q \in live THEN Append(before[q], said) ELSE before[q]]
    BY <2>3, <2>5
  <2> QED
    BY <2>1, <2>4, <2>6
<1>8. live \in SUBSET Room!Addressees(Holders[n], body.to)
  BY <1>1, <1>2, <1>4
<1>9. Room!Say(n, body.to, body.text)
  BY <1>2, <1>6, <1>7, <1>8 DEF Room!Say
<1> QED
  BY <1>2, <1>9 DEF RoomStep, Room!RoomNext

(* broadcast and relay: only whom the message is addressed to is reached.  *)
LEMMA MessageRefines ==
  ASSUME Inv, Defined, Defined', NEW a, broadcast(a) \/ relay(a)
  PROVE  RoomStep
<1>1. Receives(a, "TEXT") /\ ~IsRegistration(a)
  BY DEF broadcast, relay
<1>2. PICK p, to : p = heap[a].page /\ to = Body(a).to
  OBVIOUS
<1>3. \A u \in Users : \E n \in Names : Table[n] = u /\ Holders[n] = heap[u].page /\ heap[u].page # NULL
  <2> SUFFICES ASSUME NEW n \in Names, Table[n] # NULL
               PROVE  Holders[n] = heap[Table[n]].page /\ heap[Table[n]].page # NULL
    BY DEF Users
  <2> QED
    BY HolderFacts
<1>4. CASE broadcast(a)
  <2>1. to = Broadcast /\ SendToAll(a, Others(a), Head(Arrived(a)))
    BY <1>2, <1>4 DEF broadcast, ToAll, Overflow, Crash, Defined
  <2>2. Others(a) \subseteq Room!InRoom \ {p}
    BY <1>2, <1>3 DEF Others, Room!InRoom
  <2>3. Others(a) \subseteq Room!Addressees(p, to)
    BY <2>1, <2>2 DEF Room!Addressees
  <2> QED
    BY <1>1, <1>2, <2>1, <2>3, SendRefines
<1>5. CASE relay(a)
  <2>1. PICK reached : reached = {heap[u].page : u \in get(to)}
    OBVIOUS
  <2>2. SendToAll(a, reached, Head(Arrived(a))) /\ ~ToAll(a)
    BY <1>2, <1>5, <2>1 DEF relay, Overflow, Crash, Defined
  <2>3. to # Broadcast /\ to \in Names
    BY <1>1, <1>2, <2>2, SenderFacts DEF ToAll
  <2>4. reached \subseteq {Holders[n] : n \in {to} \cap Names} \ {NULL}
    <3> SUFFICES ASSUME NEW u \in get(to) PROVE heap[u].page = Holders[to] /\ heap[u].page # NULL
      BY <2>1, <2>3
    <3>1. u = Table[to] /\ u # NULL
      BY DEF get
    <3> QED
      BY <2>3, <3>1, HolderFacts
  <2>5. reached \subseteq Room!Addressees(p, to)
    BY <2>3, <2>4 DEF Room!Addressees
  <2> QED
    BY <1>1, <1>2, <2>2, <2>5, SendRefines
<1> QED
  BY <1>4, <1>5

-----------------------------------------------------------------------------
(***************************************************************************)
(* The theorem.                                                            *)
(***************************************************************************)
LEMMA UndefinedStays ==
  ASSUME Inv, ~Defined, [Next]_vars
  PROVE  ~Defined'
<1>1. ASSUME ServerNext PROVE up /\ (fault => fault' \/ ~up')
  <2>1. up
    BY <1>1 DEF ServerNext, epoll_wait, handle, broken, accept, handshake, disconnected, close_frame,
                register, broadcast, relay, undefined_behaviour, Serving, Receives, Receiving
  <2>2. \A b, clients : close_connection(b, clients) => fault' \/ UNCHANGED fault
    BY DEF close_connection, Crash
  <2>3. \A b, reached, f : SendToAll(b, reached, f) => UNCHANGED fault
    BY DEF SendToAll
  <2>4. CASE epoll_wait \/ accept \/ handshake \/ undefined_behaviour
    BY <2>1, <2>4 DEF epoll_wait, accept, handshake, undefined_behaviour, Crash
  <2>5. CASE broken \/ \E a \in Addrs : disconnected(a) \/ close_frame(a) \/ register(a)
    BY <2>1, <2>2, <2>5 DEF broken, disconnected, close_frame, register
  <2>6. CASE \E a \in Addrs : broadcast(a) \/ relay(a)
    BY <2>1, <2>3, <2>6 DEF broadcast, relay, Overflow, Crash
  <2> QED
    BY <1>1, <2>4, <2>5, <2>6 DEF ServerNext, handle
<1>2. CASE UNCHANGED <<up, fault>>
  BY <1>2 DEF Defined
<1> QED
  BY <1>1, <1>2 DEF Next, Defined, serverVars, vars

LEMMA ServerRefines ==
  ASSUME Inv, Defined, Defined', ServerNext
  PROVE  RoomStep
<1>1. CASE epoll_wait
  BY <1>1, SameRoom DEF epoll_wait, netVars
<1>2. CASE broken
  BY <1>2, CloseRefines DEF broken
<1>3. CASE accept
  BY <1>3, SameRoom DEF accept
<1>4. CASE handshake
  BY <1>4, HandshakeRefines
<1>5. ASSUME NEW a \in Addrs, disconnected(a) \/ close_frame(a)
      PROVE  RoomStep
  BY <1>5, CloseRefines DEF disconnected, close_frame, Receives, Receiving
<1>6. ASSUME NEW a \in Addrs, register(a)
      PROVE  RoomStep
  BY <1>6, RegisterRefines
<1>7. ASSUME NEW a \in Addrs, broadcast(a) \/ relay(a)
      PROVE  RoomStep
  BY <1>7, MessageRefines
<1>8. CASE undefined_behaviour
  BY <1>8 DEF undefined_behaviour, Crash, Defined
<1> QED
  BY <1>1, <1>2, <1>3, <1>4, <1>5, <1>6, <1>7, <1>8 DEF ServerNext, handle

LEMMA StepRefines == Inv /\ Inv' /\ [Next]_vars => RoomStep
<1> SUFFICES ASSUME Inv, Inv', [Next]_vars PROVE RoomStep
  OBVIOUS
<1>1. Defined \in BOOLEAN /\ Defined' \in BOOLEAN
  <2>1. up \in BOOLEAN /\ fault \in BOOLEAN
    BY Typed DEF Inv, Shape, ServerTyped
  <2>2. up' \in BOOLEAN /\ fault' \in BOOLEAN
    BY DEF Inv, Shape, ChatTypeOK
  <2> QED
    BY <2>1, <2>2 DEF Defined
<1>2. CASE ~Defined
  <2>1. ~Defined' /\ Defined' = Defined
    BY <1>1, <1>2, UndefinedStays
  <2> QED
    BY <1>2, <2>1, RoomState, RoomStateNext, Stutter
<1>3. CASE Defined /\ ~Defined'
  <2>1. Room!Undefined
    BY <1>1, <1>3, UndefinedStep
  <2> QED
    BY <2>1 DEF RoomStep, Room!RoomNext
<1>4. CASE Defined /\ Defined'
  <2>1. CASE PageNext /\ UNCHANGED serverVars
    BY <2>1, PageRefines
  <2>2. CASE ServerNext
    BY <1>4, <2>2, ServerRefines
  <2>3. CASE UNCHANGED vars
    BY <1>4, <2>3, SameRoom DEF vars, netVars, serverVars
  <2> QED
    BY <2>1, <2>2, <2>3 DEF Next
<1> QED
  BY <1>2, <1>3, <1>4

LEMMA InitRefines == Init => Room!RoomInit
<1> SUFFICES ASSUME Init PROVE Room!RoomInit
  OBVIOUS
<1>1. Defined = TRUE
  BY DEF Init, ServerInit, Defined
<1>2. Holders = [n \in Names |-> NULL]
  BY <1>1, RoomState DEF Init, ServerInit
<1>3. \A p \in Pages : TextsIn(s2c[p]) = <<>>
  BY NoTexts DEF Init, SocketsInit
<1>4. Mail = [p \in Pages |-> <<>>]
  BY <1>1, <1>3, RoomState
<1> QED
  BY <1>1, <1>2, <1>4 DEF Room!RoomInit

(* The chat is a room, whatever leaves, clashes, dies or is served as      *)
(* another event: a name has one holder, a message reaches only whom it is *)
(* addressed to, and nobody but the holder of its sender's name sends it.  *)
THEOREM ChatIsARoom == Spec => EveryChatIsARoom
<1>1. Init => Room!RoomInit
  BY InitRefines
<1>2. Inv /\ Inv' /\ [Next]_vars => [Room!RoomNext]_(Room!roomVars)
  BY StepRefines DEF RoomStep
<1> QED
  BY <1>1, <1>2, InvIsInvariant, PTL DEF Spec, EveryChatIsARoom, Room!RoomSpec
=============================================================================
