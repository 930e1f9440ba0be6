----------------------------- MODULE EpollProxy -----------------------------
(***************************************************************************)
(* HTTP Proxy Server/epollproxyserver.c: one thread, an epoll loop over    *)
(* pairs of sockets, and a cache of answers.                               *)
(*                                                                         *)
(* A new browser is served to the end where it is accepted, with blocking  *)
(* calls: its request is read, its upstream connected and, for a GET that  *)
(* is to be cached, the whole answer read, before any other event.         *)
(***************************************************************************)
EXTENDS ProxyNet

VARIABLES cur,      \* the connection being served and how much of its request came
          body,     \* what recv_dynamic has read of its answer
          dirty     \* buf holds bytes of an earlier request

localVars == <<cur, body, dirty>>
vars == <<netVars, pairVars, pc, localVars>>

Idle == [i |-> 0, parts |-> "none"]
Init == /\ NetInit /\ PairInit
        /\ cur = Idle /\ body = <<>> /\ dirty = FALSE

ToLoop == pc' = "loop" /\ cur' = Idle /\ body' = <<>>
Dead == /\ pc' = "dead" /\ cur' = Idle /\ body' = <<>>
        /\ UNCHANGED <<pairVars, netVars>>

-----------------------------------------------------------------------------
(* accept(), and the recv() loop that blocks until the header's end is in  *)
(* buf.  buf is never cleared: a Head1 may be followed there by what an    *)
(* earlier, longer request left.                                           *)
Accept ==
  /\ Handling(Listen, "in")
  /\ LET i == Head(backlog)
     IN  /\ fdt' = [fdt EXCEPT ![Lowest(fdt)] = Client(i)]
         /\ cur' = [i |-> i, parts |-> "none"]
  /\ backlog' = Tail(backlog)
  /\ batch' = batch \ {<<Listen, "in">>}
  /\ pc' = "request"
  /\ UNCHANGED <<req, sock, conn, data, Table, body, dirty>>

SpinMutant(s) == FALSE
AtEnd(s) == sock[s].in = <<>> /\ sock[s].end \in {"fin", "rst"}

ReadRequest ==
  LET s == Client(cur.i)
  IN  /\ pc = "request"
      /\ \/ /\ sock[s].in # <<>>
            /\ LET whole == Head(sock[s].in).part \in {Whole, Rest}
               IN  /\ cur' = [cur EXCEPT !.parts = IF whole THEN "full" ELSE "head"]
                   /\ pc' \in IF whole THEN {"serve"}
                              ELSE {"request"} \cup (IF dirty THEN {"serve"} ELSE {})
            /\ sock' = [sock EXCEPT ![s].in = Tail(@)]
         \/ AtEnd(s) /\ pc' = "serve" /\ UNCHANGED <<cur, sock>>
      /\ UNCHANGED <<req, fdt, backlog, pairVars, body, dirty>>

-----------------------------------------------------------------------------
(* Serving the request that was read.                                      *)

Serving == pc = "serve" /\ dirty' = TRUE
request == parse_request(req[cur.i])

(* Lines that the request does not have, or that did not come, may be      *)
(* found in what buf held before: nothing ends what was read.              *)
AllRead == cur.parts = "full"
Named == AllRead /\ Decodes(req[cur.i])
Authorized(v) == v \in Verdicts(Named, authorize(Users, req[cur.i]), dirty)
FindsClose(v) == v \in Verdicts(AllRead /\ SaysClose(req[cur.i]), TRUE, dirty)
Parsed == cur.parts # "none" /\ Parses(req[cur.i])

(* authorize() may look beyond its arrays: in credentials that are not     *)
(* whole, the request's or those of old bytes.                             *)
Garbles == ~Named /\ (dirty \/ (AllRead /\ req[cur.i].user = Garbled))

CloseClient(socks) ==
  /\ fdt' = [fdt EXCEPT ![FdOf(Client(cur.i))] = Free]
  /\ sock' = [socks EXCEPT ![Client(cur.i)] = Shut(@)]
  /\ UNCHANGED <<req, backlog, pairVars>>

Refuse ==
  /\ Serving /\ Authorized(FALSE)
  /\ \/ \E r \in SendResults(FdOf(Client(cur.i)), Proxy) :
          IF r.ret = "killed" THEN Dead ELSE ToLoop /\ CloseClient(r.sock)
     \/ Garbles /\ Dead

Malformed == Serving /\ Authorized(TRUE) /\ ~Parsed /\ ToLoop /\ CloseClient(sock)

(* getaddrinfo() fails, or connect() does and its descriptor is leaked.    *)
NoUpstream ==
  /\ Serving /\ Authorized(TRUE) /\ Parsed /\ ToLoop
  /\ LET closed == [fdt EXCEPT ![FdOf(Client(cur.i))] = Free]
     IN  fdt' \in {closed, [closed EXCEPT ![Lowest(fdt)] = Leaked]}
  /\ sock' = [sock EXCEPT ![Client(cur.i)] = Shut(@)]
  /\ UNCHANGED <<req, backlog, pairVars>>

ThreeRefsMutant(i, fd1, fd2) ==
  [live |-> TRUE, fd1 |-> fd1, fd2 |-> fd2, refs |-> 3, authorized |-> TRUE, key |-> NoKey,
   tunnel |-> FALSE]
SwappedMutant(i, fd1, fd2) ==
  [live |-> TRUE, fd1 |-> fd2, fd2 |-> fd1, refs |-> 2, authorized |-> TRUE, key |-> NoKey,
   tunnel |-> FALSE]
addToEpollInterest(i, fd1, fd2) ==
  [live |-> TRUE, fd1 |-> fd1, fd2 |-> fd2, refs |-> 2, authorized |-> TRUE, key |-> NoKey,
   tunnel |-> FALSE]

(* connect_upstream and the new pair; the rest of the branch goes on with  *)
(* these values.                                                           *)
Paired == [conn EXCEPT ![cur.i] = addToEpollInterest(cur.i, FdOf(Client(cur.i)), Lowest(fdt))]
Opened == [fdt EXCEPT ![Lowest(fdt)] = Server(cur.i)]
Both == {Client(cur.i), Server(cur.i)}
Connected(close) == [sock EXCEPT ![Server(cur.i)].end = "open", ![Server(cur.i)].close = close]

Registered(socks) == /\ conn' = Paired /\ data' = data \cup Both
                     /\ fdt' = Opened /\ sock' = socks
                     /\ UNCHANGED <<req, backlog, batch, Table>>

Upstream == Serving /\ Authorized(TRUE) /\ Parsed
Https == request.url.scheme = "https"
Cached == isAvailable(Table, getKeyfromRequest(request))

Tunnel ==
  /\ Upstream /\ Https
  /\ \E r \in SendOn(Client(cur.i), Proxy, Connected(FALSE)) :
       IF r.ret = "killed" THEN Dead ELSE ToLoop /\ Registered(r.sock)

Forwarded == SendOn(Server(cur.i), Client(cur.i),
                     Connected("Connection: close" \in forward_http_request(req[cur.i])))

(* A GET that is not cached, for a host that is not Firefox's: the answer  *)
(* is waited for if the request says close, else get_response dereferences *)
(* the node that is not there.                                             *)
ToCache == Upstream /\ ~Https /\ request.method = "GET" /\ ~Cached

Fetch ==
  /\ ToCache
  /\ \E close \in {v \in BOOLEAN : FindsClose(v)} : \E r \in Forwarded :
       IF ~close THEN Dead
       ELSE /\ Registered(r.sock)
            /\ IF request.url.host = "firefox" THEN ToLoop
               ELSE pc' = "cache" /\ UNCHANGED <<cur, body>>

Forward ==
  /\ Upstream /\ ~Https /\ request.method # "GET" /\ ~Cached
  /\ \E r \in Forwarded : ToLoop /\ Registered(r.sock)

(* A cached answer: length bytes of the copy of the value.                 *)
Answer(table) ==
  LET node == get(table, getKeyfromRequest(request))
  IN  IF node.length <= Len(node.value) THEN SubSeq(node.value, 1, node.length)
      ELSE node.value \o <<Overread>>

AnswerAndClose(pairs, table, fds, socks) ==
  \E r \in SendOn(Client(cur.i), Proxy, socks) :
    IF r.ret = "killed" THEN Dead
    ELSE /\ ToLoop /\ Table' = table /\ UNCHANGED <<req, backlog, batch>>
         /\ IF r.ret = "sent" /\ Answer(table) # <<>>
            THEN cleanup_connection(cur.i, Both, pairs, fds, r.sock)
            ELSE conn' = pairs /\ data' = data \cup Both /\ fdt' = fds /\ sock' = r.sock

FromCache == /\ Upstream /\ ~Https /\ Cached
             /\ AnswerAndClose(Paired, Table, Opened, Connected(FALSE))

-----------------------------------------------------------------------------
(* recv_dynamic: blocking reads until the upstream closes.  An error gives *)
(* NULL, which put() copies.                                               *)
ReadAnswer ==
  LET s == Server(cur.i)
  IN  /\ pc = "cache" /\ sock[s].in # <<>>
      /\ body' = Append(body, Head(sock[s].in))
      /\ sock' = [sock EXCEPT ![s].in = Tail(@)]
      /\ UNCHANGED <<req, fdt, backlog, pairVars, pc, cur, dirty>>

StoreAnswer ==
  LET s == Server(cur.i)
  IN  /\ pc = "cache" /\ sock[s].in = <<>> /\ sock[s].end = "fin"
      /\ AnswerAndClose(conn, put(Table, getKeyfromRequest(request), body, Len(body)), fdt, sock)
      /\ UNCHANGED dirty

LosesAnswer == /\ pc = "cache"
               /\ sock[Server(cur.i)].in = <<>> /\ sock[Server(cur.i)].end = "rst"
               /\ Dead /\ UNCHANGED dirty

-----------------------------------------------------------------------------
(* The other events: a broken socket, and the relay.                       *)
ReleaseBothMutant(d) == {d, Other(d)} \cap data
Released(d) == {d}

Cleanup(d, socks) ==
  /\ IF conn[d[1]].refs # 0 THEN cleanup_connection(d[1], Released(d), conn, fdt, socks)
     ELSE sock' = socks /\ UNCHANGED <<conn, data, fdt>>
  /\ UNCHANGED <<req, backlog, Table>>

Broken(d) == /\ Handling(d, "hup")
             /\ Cleanup(d, sock)
             /\ batch' = batch \ {<<d, "hup">>}
             /\ UNCHANGED <<pc, localVars>>

ToOwnMutant(d) == FdOfData(d)
PeerFd(d) == IF conn[d[1]].fd1 = FdOfData(d) THEN conn[d[1]].fd2 ELSE conn[d[1]].fd1

(* The bytes of a send() that would block are dropped.                     *)
Relay(d) ==
  /\ Handling(d, "in") /\ d # Listen
  /\ batch' = batch \ {<<d, "in">>}
  /\ UNCHANGED localVars
  /\ LET s == fdt[FdOfData(d)]
     IN  IF sock[s].in = <<>> THEN Cleanup(d, sock) /\ UNCHANGED pc
         ELSE \E r \in SendResults(PeerFd(d), Head(sock[s].in).of) :
                LET socks == [r.sock EXCEPT ![s].in = Tail(@)]
                IN  CASE r.ret = "killed" ->
                           pc' = "dead" /\ UNCHANGED <<netVars, conn, data, Table>>
                      [] r.ret = "failed" -> Cleanup(d, socks) /\ UNCHANGED pc
                      [] OTHER -> /\ sock' = socks
                                  /\ UNCHANGED <<req, fdt, backlog, conn, data, Table, pc>>

-----------------------------------------------------------------------------
Serve == Refuse \/ Malformed \/ NoUpstream \/ Tunnel \/ Fetch \/ Forward \/ FromCache
Thread == \/ epoll_wait /\ UNCHANGED localVars
          \/ Accept \/ ReadRequest \/ Serve \/ ReadAnswer \/ StoreAnswer \/ LosesAnswer
          \/ \E d \in Ends : Broken(d) \/ Relay(d)

Next == Thread \/ (Environment /\ UNCHANGED localVars)

(* The thread runs; an upstream that was told to close does.               *)
Fairness == /\ WF_vars(Thread)
            /\ \A i \in Conns : WF_vars(ServerSends(i) /\ UNCHANGED localVars)
            /\ \A i \in Conns : WF_vars(ServerCloses(i) /\ UNCHANGED localVars)

Spec == Init /\ [][Next]_vars
FairSpec == Spec /\ Fairness

-----------------------------------------------------------------------------
(* The structures have their types; a Connection is referred to at most    *)
(* twice.                                                                  *)
EpollTypeOK ==
  /\ fdt \in [1 .. MaxFd -> Ends \cup {Listen, Leaked, Free}]
  /\ data \subseteq Ends
  /\ \A i \in Conns : conn[i].refs \in 0 .. 2
  /\ cur.i \in 0 .. N /\ (pc \in {"request", "serve", "cache"} => cur.i # 0)
  /\ pc \in {"loop", "request", "serve", "cache", "dead"}

(* Events of one batch are handled after others of it released Data and    *)
(* Connections (lines 381, 481 and 521 to 541): none of those that are     *)
(* left refers to freed memory or to a closed or reused descriptor.        *)
BatchIsLive ==
  \A e \in batch : e[1] # Listen =>
    e[1] \in data /\ conn[e[1][1]].live /\ fdt[FdOfData(e[1])] = e[1]

(* refs counts the Data of a Connection, whichever end goes first and      *)
(* however; each Data owns the descriptor in its fd until it is released.  *)
PairsAreCounted ==
  /\ \A i \in Conns : /\ conn[i].refs = Cardinality({d \in data : d[1] = i})
                       /\ conn[i].live <=> conn[i].refs # 0
  /\ \A d \in data : fdt[FdOfData(d)] = d

(* An entry of the cache is the whole answer of one upstream to a request  *)
(* with that key, and its length is the answer's: put() on line 276 never  *)
(* meets its replacing branch, which would keep another answer's length.   *)
(* strdup() cuts the value of a binary answer, but not its length.         *)
CacheHoldsWholeAnswers ==
  \A x \in Indexes : \A k \in DOMAIN Table[x] :
    LET node == Table[x][k]
    IN  \E j \in Conns :
          LET all == [n \in 1 .. sock[Server(j)].sent |-> Chunk(Server(j), n, req[j].binary)]
          IN  /\ node.key = getKeyfromRequest(parse_request(req[j]))
              /\ node.length = Len(all) /\ node.value = strdup(all)

(* Bytes of one pair are written to another pair's socket only by a        *)
(* survivor: its own partner was closed before, and the number reused.     *)
StrangersOnlyAfterClose ==
  [][\A s \in Ends : \A by \in sock'[s].got \ sock[s].got :
       by \in {Proxy, Other(s)} \/ Other(by) \notin data]_vars

(* The thread ends up waiting for one silent peer in a blocking recv(), or *)
(* is killed; otherwise every event is handled and none stays ready.       *)
Stalled == \/ pc = "dead"
           \/ pc = "request" /\ sock[Client(cur.i)].in = <<>> /\ sock[Client(cur.i)].end = "open"
           \/ pc = "cache" /\ sock[Server(cur.i)].in = <<>> /\ sock[Server(cur.i)].end = "open"
OnlySilenceStalls == <>[]Stalled \/ <>[](Events = {})
=============================================================================
