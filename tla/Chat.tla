--------------------------------- MODULE Chat ---------------------------------
(***************************************************************************)
(* Chat System/Server/server.c with its pages: one thread, an epoll loop,  *)
(* a table of users and a heap of Clients.                                 *)
(*                                                                         *)
(* epoll_wait returns a batch of events, and main serves each of them as   *)
(* if it were the first: "event->data.ptr" (server.c 260) is event[0].     *)
(***************************************************************************)
EXTENDS ChatPage

CONSTANTS Addrs,   \* the addresses malloc() hands out for a Client
          NULL,    \* the null pointer
          LISTEN   \* the listening socket's Client

ASSUME ServerAssumption ==
  /\ NULL \notin Addrs /\ LISTEN \notin Addrs /\ NULL # LISTEN
  /\ NULL \notin Pages
  /\ IsFiniteSet(Addrs) /\ MaxConnects <= Cardinality(Addrs)   \* malloc() does not fail

VARIABLES up,         \* the process is running
          Table,      \* the Client of each user name, or NULL
          heap,       \* the Client at each address, or Free
          watch,      \* epoll's pointer for each page's socket, NULL if not watched
          accepting,  \* the page whose request recv() waits for, or NULL
          first,      \* event[0]: the pointer every event of the batch is served with
          events,     \* what is left of the batch: "in" or "hup" for each event
          fault,      \* history: undefined behaviour was executed
          clash       \* history: a name that was taken was asked for

serverVars == <<up, Table, heap, watch, accepting, first, events, fault, clash>>
vars == <<netVars, pageVars, serverVars>>

Free == [page |-> NULL]     \* memory that is not allocated
Live(a) == a \in Addrs /\ heap[a] # Free

ServerInit == /\ up = TRUE
              /\ Table = [n \in Names |-> NULL]
              /\ heap = [a \in Addrs |-> Free]
              /\ watch = [p \in Pages |-> NULL]
              /\ accepting = NULL /\ first = NULL /\ events = <<>>
              /\ fault = FALSE /\ clash = FALSE

Init == SocketsInit /\ PageInit /\ ServerInit

NoNameMutant(p) == [page |-> p, active |-> TRUE, added |-> FALSE]
createClient(p) == [page |-> p, username |-> NoName, active |-> TRUE, added |-> FALSE]

(* The process dies: everything it held is gone, the kernel closes its sockets. *)
Die(links, queues) ==
  /\ up' = FALSE
  /\ Table' = [n \in Names |-> NULL]
  /\ heap' = [a \in Addrs |-> Free]
  /\ watch' = [p \in Pages |-> NULL]
  /\ accepting' = NULL /\ first' = NULL /\ events' = <<>>
  /\ link' = AllClosed(links) /\ s2c' = queues /\ c2s' = [p \in Pages |-> <<>>]
  /\ UNCHANGED clash

(* A read through a null or freed pointer, or a write past an array. *)
Crash == fault' = TRUE /\ Die(link, s2c)

(***************************************************************************)
(* removeKey: the node of that name and its Client are freed, whoever      *)
(* asked.  hash() reads the name of a client that has given none: NULL.    *)
(***************************************************************************)
NoFreeMutant(clients, name) == clients
removeKey(clients, name) ==
  [a \in Addrs |-> IF name \in Names /\ a = Table[name] THEN Free ELSE clients[a]]

KeepMutant(name) == Table
Without(name) == [n \in Names |-> IF n = name THEN NULL ELSE Table[n]]

LeftOpenMutant(p) == link
close(p) == [link EXCEPT ![p] = Closed(@)]

(* close_connection of the Client at address a, which belongs to the table *)
(* clients; its socket may be closed already.                              *)
close_connection(a, clients) ==
  LET c == clients[a]
      open == watch[c.page] = a
  IN  IF c.username = NoName THEN Crash
      ELSE /\ watch' = [watch EXCEPT ![c.page] = IF open THEN NULL ELSE @]
           /\ link' = IF open THEN close(c.page) ELSE link
           /\ c2s' = [c2s EXCEPT ![c.page] = IF open THEN <<>> ELSE @]
           /\ heap' = removeKey([clients EXCEPT ![a].active = FALSE], c.username)
           /\ Table' = Without(c.username)
           /\ UNCHANGED <<s2c, up, accepting, fault>>
-----------------------------------------------------------------------------
(* epoll_wait: all that is ready, in some order. *)
Ready == {p \in Pages : watch[p] # NULL /\ (HungUp(p) \/ link[p] = "fin" \/ c2s[p] # <<>>)}
Pending == {p \in Pages : link[p] = "syn"}
Event(p) == IF HungUp(p) THEN "hup" ELSE "in"

epoll_wait ==
  /\ up /\ events = <<>> /\ accepting = NULL
  /\ LET n == Cardinality(Ready) + (IF Pending = {} THEN 0 ELSE 1)
         hups == Cardinality({p \in Ready : HungUp(p)})
     IN  \E batch \in [1 .. n -> {"in", "hup"}] :
           /\ n > 0
           /\ Cardinality({i \in 1 .. n : batch[i] = "hup"}) = hups
           /\ events' = batch
           /\ \/ Pending # {} /\ batch[1] = "in" /\ first' = LISTEN
              \/ \E p \in Ready : batch[1] = Event(p) /\ first' = watch[p]
  /\ UNCHANGED <<netVars, pageVars, up, Table, heap, watch, accepting, fault, clash>>

(* One event of the batch is served. *)
Serving(event) == up /\ accepting = NULL /\ events # <<>> /\ Head(events) = event
Served == /\ events' = Tail(events)
          /\ first' = IF events' = <<>> THEN NULL ELSE first

(* EPOLLERR or EPOLLHUP, "socket is broken". *)
broken ==
  /\ Serving("hup") /\ first # LISTEN /\ Live(first)
  /\ close_connection(first, heap)
  /\ (up' => Served) /\ UNCHANGED clash

(* accept(): the listening socket does not block, the new one still does. *)
accept ==
  /\ Serving("in") /\ first = LISTEN
  /\ Served
  /\ \/ Pending = {} /\ UNCHANGED <<link, accepting>>
     \/ \E p \in Pending : link' = [link EXCEPT ![p] = "up"] /\ accepting' = p
  /\ UNCHANGED <<c2s, s2c, up, Table, heap, watch, fault, clash>>

(***************************************************************************)
(* recv() of the request, then the handshake.  A request that is not whole *)
(* leaves the socket open and unwatched.  The buffer is neither cleared    *)
(* nor ended: what an earlier request left behind may be taken for this    *)
(* one's key.                                                              *)
(***************************************************************************)
HasKey(got) == got = <<[code |-> "UPGRADE"]>> \/ got = <<[code |-> "HEAD"], [code |-> "TAIL"]>>

UnwatchedMutant(p, a) == watch
add_to_epoll(p, a) == [watch EXCEPT ![p] = a]

Welcome(p, answer) ==
  \E a \in Addrs, t \in send(Trace, p, [code |-> answer]) :
    /\ heap[a] = Free
    /\ \/ t.last = "killed" /\ Die(t.link, t.s2c)
       \/ /\ t.last # "killed" /\ link' = t.link /\ s2c' = t.s2c
          /\ heap' = [heap EXCEPT ![a] = createClient(p)]
          /\ watch' = add_to_epoll(p, a)
          /\ accepting' = NULL
          /\ UNCHANGED <<up, Table, first, events, clash>>

handshake ==
  /\ up /\ accepting # NULL
  /\ c2s[accepting] # <<>> \/ link[accepting] # "up"
  /\ LET p == accepting
     IN  \E n \in (IF c2s[p] = <<>> THEN {0} ELSE 1 .. Len(c2s[p])) :
           LET got == SubSeq(c2s[p], 1, n)
               Taken == c2s' = [c2s EXCEPT ![p] = SubSeq(@, n + 1, Len(@))]
           IN  \/ HasKey(got) /\ Welcome(p, "OPEN") /\ (up' => Taken) /\ UNCHANGED fault
               \/ /\ ~HasKey(got) /\ Taken
                  /\ accepting' = NULL
                  /\ UNCHANGED <<link, s2c, up, Table, heap, watch, first, events, fault, clash>>
               \/ ~HasKey(got) /\ Welcome(p, "BADOPEN") /\ (up' => Taken) /\ fault' = TRUE
-----------------------------------------------------------------------------
(* recv() on the first event's socket, where n frames have arrived; one is *)
(* parsed, the others are lost.                                            *)
Receiving(a) == Serving("in") /\ first = a /\ Live(a)
Arrived(a) == IF watch[heap[a].page] = a THEN c2s[heap[a].page] ELSE <<>>

Receives(a, code) == Receiving(a) /\ Arrived(a) # <<>> /\ Head(Arrived(a)).code = code
Body(a) == Head(Arrived(a)).body

Lost(a, k) == c2s' = [c2s EXCEPT ![heap[a].page] = SubSeq(@, k + 1, Len(@))]
Received(a) == Served /\ \E k \in 1 .. Len(Arrived(a)) : Lost(a, k)

(* recv() returned 0 or -1: the peer has closed, the descriptor is closed, *)
(* or nothing has arrived because an earlier event of the batch took it.   *)
disconnected(a) ==
  /\ Receiving(a) /\ Arrived(a) = <<>>
  /\ close_connection(a, heap)
  /\ (up' => Served) /\ UNCHANGED clash

close_frame(a) ==
  /\ Receives(a, "CLOSE")
  /\ close_connection(a, heap)
  /\ (up' => Served) /\ UNCHANGED clash

(* The first message of a page is its name. *)
IsRegistration(a) == ~heap[a].added /\ Body(a).from = "client" /\ Body(a).to = "server"


isAvailable(name) == Table[name] # NULL

(* put() replaces, and frees, the Client of a name that has one. *)
put(name, a, clients) == /\ Table' = [Table EXCEPT ![name] = a]
                         /\ heap' = removeKey(clients, name)

register(a) ==
  /\ Receives(a, "TEXT") /\ IsRegistration(a)
  /\ LET name == Body(a).text
         clients == [heap EXCEPT ![a].added = TRUE, ![a].username = name]
     IN  IF isAvailable(name)
         THEN /\ close_connection(a, clients)
              /\ Served
              /\ clash' = TRUE
         ELSE /\ put(name, a, clients)
              /\ Received(a)
              /\ UNCHANGED <<link, s2c, up, watch, accepting, fault, clash>>

(* Sends to several sockets, in the order of the table.  One that fails is *)
(* ignored; one to a connection that was reset may raise SIGPIPE.          *)
Delivered(reached, frame) ==
  [p \in Pages |-> IF p \in reached /\ link[p] = "up" THEN Append(s2c[p], frame) ELSE s2c[p]]

SendToAll(a, reached, frame) ==
  \E resets \in SUBSET {p \in reached : link[p] = "fin"} :
    LET links == [p \in Pages |-> IF p \in resets THEN "rst" ELSE link[p]]
    IN  \/ /\ link' = links /\ s2c' = Delivered(reached, frame)
           /\ Received(a)
           /\ UNCHANGED <<up, Table, heap, watch, accepting, fault, clash>>
        \/ /\ \E p \in reached : HungUp(p)
           /\ \E part \in SUBSET reached : Die(links, Delivered(part, frame))
           /\ UNCHANGED fault

(* A frame that does not fit its 1024 bytes is written past them. *)
Overflow == Crash

Users == {Table[n] : n \in Names} \ {NULL}

EchoMutant(a) == {heap[u].page : u \in {v \in Users : heap[v].active}}
Others(a) == {heap[u].page : u \in {v \in Users : heap[v].active /\ heap[v].page # heap[a].page}}

(* The sender's name gets the prefix "BroadCast from": here "to" tells.    *)
ToAll(a) == heap[a].added /\ heap[a].active /\ Body(a).to = Broadcast

broadcast(a) ==
  /\ Receives(a, "TEXT") /\ ~IsRegistration(a) /\ ToAll(a)
  /\ IF Body(a).text = "long" THEN Overflow ELSE SendToAll(a, Others(a), Head(Arrived(a)))

(* get() finds the user of that name, if there is one. *)
get(name) == {Table[n] : n \in {name} \cap Names} \ {NULL}

relay(a) ==
  /\ Receives(a, "TEXT") /\ ~IsRegistration(a) /\ ~ToAll(a)
  /\ LET to == get(Body(a).to)
     IN  IF Body(a).text = "long" /\ to # {} THEN Overflow
         ELSE SendToAll(a, {heap[u].page : u \in to}, Head(Arrived(a)))

(* Every event served through a freed Client, a broken connection in a     *)
(* batch that the listening socket heads, and bytes that are no frame.     *)
undefined_behaviour ==
  /\ \/ up /\ accepting = NULL /\ events # <<>> /\ first \in Addrs /\ ~Live(first)
     \/ Serving("hup") /\ first = LISTEN
     \/ \E a \in Addrs, junk \in {"TAIL", "HEAD", "GET", "UPGRADE"} : Receives(a, junk)
  /\ \/ Crash
     \/ /\ fault' = TRUE /\ Served
        /\ UNCHANGED <<netVars, up, Table, heap, watch, accepting, clash>>

handle ==
  \/ broken \/ accept \/ handshake
  \/ \E a \in Addrs : \/ disconnected(a) \/ close_frame(a)
                     \/ register(a) \/ broadcast(a) \/ relay(a)
  \/ undefined_behaviour

ServerNext == epoll_wait \/ (handle /\ UNCHANGED pageVars)

(* A connection is refused once the listening socket is gone. *)
Refused == ~up /\ \E p \in Pages : link[p] # "syn" /\ link'[p] = "syn"

Next == \/ PageNext /\ ~Refused /\ UNCHANGED serverVars
        \/ ServerNext

Spec == Init /\ [][Next]_vars
-----------------------------------------------------------------------------
(* Every queue holds well-formed frames and every pointer is an address of *)
(* the heap, whatever leaves, dies, clashes or is served as another event. *)
Messages == [from : Names \cup {"client"}, to : Names \cup {Broadcast, "server"}, text : Names \cup Texts]
Frames(codes) == [code : codes] \cup [code : {"TEXT"}, body : Messages]
Clients == [page : Pages, username : Names \cup {NoName}, active : BOOLEAN, added : BOOLEAN]

ChatTypeOK ==
  /\ link \in [Pages -> Links]
  /\ c2s \in [Pages -> Seq(Frames({"UPGRADE", "HEAD", "TAIL", "GET", "CLOSE"}))]
  /\ s2c \in [Pages -> Seq(Frames({"OPEN", "BADOPEN"}))]
  /\ page \in [Pages -> [name : Names \cup {NoName}, open : BOOLEAN]]
  /\ connects \in 0 .. MaxConnects /\ sends \in 0 .. MaxSends
  /\ {up, fault, clash} \subseteq BOOLEAN
  /\ Table \in [Names -> Addrs \cup {NULL}]
  /\ heap \in [Addrs -> Clients \cup {Free}]
  /\ watch \in [Pages -> Addrs \cup {NULL}]
  /\ accepting \in Pages \cup {NULL} /\ first \in Addrs \cup {NULL, LISTEN}
  /\ events \in Seq({"in", "hup"})

(* The table's users are connected: a name leads to a Client that is not   *)
(* freed, is active, bears that name and still owns its socket, so that    *)
(* relay and broadcast (server.c 361-389) never send through a closed or   *)
(* reused one, also after a clash has freed another user's Client.         *)
UsersAreConnected ==
  ~fault => \A n \in Names : Table[n] # NULL =>
    LET a == Table[n]
    IN  /\ Live(a) /\ heap[a].username = n /\ heap[a].added /\ heap[a].active
        /\ watch[heap[a].page] = a

(* As long as nobody asks for a name that is taken, the Clients mirror the *)
(* sockets: epoll never points to a freed Client, nor to another page's,   *)
(* and no Client outlives its socket (server.c 129-137, hashmap.c 143).    *)
ClientsMirrorSockets ==
  ~fault /\ ~clash =>
    /\ \A p \in Pages : watch[p] # NULL => Live(watch[p]) /\ heap[watch[p]].page = p
    /\ \A a \in Addrs : Live(a) => watch[heap[a].page] = a

(* The room that the server and its pages are.  What answers a handshake   *)
(* comes first in a page's queue and is no message.                        *)
Bodies(queue) == [k \in DOMAIN queue |-> queue[k].body]
IsText(f) == f.code = "TEXT"
TextsIn(queue) == Bodies(IF queue # <<>> /\ ~IsText(Head(queue)) THEN Tail(queue) ELSE queue)

Defined == up /\ ~fault
Holders == [n \in Names |-> IF Defined /\ Table[n] # NULL THEN heap[Table[n]].page ELSE NULL]
Mail == [p \in Pages |-> IF Defined THEN TextsIn(s2c[p]) ELSE <<>>]

Room == INSTANCE ChatRoom WITH
  Nobody <- NULL, sound <- Defined, holder <- Holders, mail <- Mail

(* Every behaviour of the chat is one of the room: a name has one holder,  *)
(* a message reaches only whom it is addressed to, and nobody but the      *)
(* holder of its sender's name sends it, until undefined behaviour.        *)
EveryChatIsARoom == Room!RoomSpec
-----------------------------------------------------------------------------
(* Fairness.  The server's one thread runs while it can: it waits for      *)
(* nothing but epoll_wait and the handshake's recv().  A browser delivers  *)
(* what it has received.  Users owe nothing.                               *)
FairSpec == /\ Spec /\ WF_vars(ServerNext)
            /\ \A p \in Pages : WF_vars(Delivery(p) /\ UNCHANGED serverVars)

(* What is promised of a page ends where the server runs on after          *)
(* undefined behaviour.  A server that dies of it is no excuse: the kernel *)
(* closes every connection (server.c 266-268).                             *)
RunsOnUndefined == fault /\ up

(* A page that connects gets its name, or its connection ends, although    *)
(* its events may be served as another page's, or the server dies in the   *)
(* middle of its handshake (server.c 260-309, 334-349).                    *)
Registered(p) == \E n \in Names : Table[n] # NULL /\ heap[Table[n]].page = p

RegistrationResolves ==
  \A p \in Pages :
    link[p] = "syn" ~> Registered(p) \/ link[p] \notin {"syn", "up"} \/ RunsOnUndefined

(* A page that leaves is forgotten: the server reads its departure, as     *)
(* whichever page's event it is served, and closes its end too, or dies    *)
(* (server.c 264-268, 312-318, 400).  Nothing is claimed of a page whose   *)
(* Client a clash has freed while epoll still points to it: its next event *)
(* is undefined behaviour, and unless that kills the server its socket may *)
(* stay open for ever.                                                     *)
DepartedAreForgotten ==
  \A p \in Pages : link[p] \in {"fin", "rst"} ~> link[p] = "none" \/ RunsOnUndefined
-----------------------------------------------------------------------------
(* server.c 266, "socket is broken": what the branch for EPOLLERR and      *)
(* EPOLLHUP closes is a connection that broke.                             *)
SocketIsBroken ==
  [][broken /\ up' => \A p \in Pages : watch[p] # NULL /\ watch'[p] = NULL => HungUp(p)]_vars
=============================================================================
