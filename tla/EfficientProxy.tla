--------------------------- MODULE EfficientProxy ---------------------------
(***************************************************************************)
(* HTTP Proxy Effecient/proxy.c, the second version of the epoll proxy.    *)
(*                                                                         *)
(* A browser is accepted without waiting for its request, which is one     *)
(* recv() of a later event; a request is sent on as it came; and every     *)
(* chunk that is relayed for a GET, in either direction, replaces the      *)
(* cached answer.                                                          *)
(***************************************************************************)
EXTENDS ProxyNet

VARIABLE dirty      \* request_packet's place on the stack held a request before

vars == <<netVars, pairVars, pc, dirty>>

Init == NetInit /\ PairInit /\ dirty = FALSE

Handled(e) == batch' = batch \ {e}
Keep == UNCHANGED <<conn, data, fdt>>
Dies == pc' = "dead" /\ UNCHANGED <<netVars, conn, data, Table>>

(* An accepted client has a Connection without a server.                   *)
NoRefMutant(fd) == [NoPair EXCEPT !.live = TRUE, !.fd1 = fd]
createConnection(fd) == [NoPair EXCEPT !.live = TRUE, !.fd1 = fd, !.refs = 1]

Accept ==
  /\ Handling(Listen, "in") /\ Handled(<<Listen, "in">>)
  /\ LET i == Head(backlog)
     IN  /\ fdt' = [fdt EXCEPT ![Lowest(fdt)] = Client(i)]
         /\ conn' = [conn EXCEPT ![i] = createConnection(Lowest(fdt))]
         /\ data' = data \cup {Client(i)}
  /\ backlog' = Tail(backlog)
  /\ UNCHANGED <<req, sock, Table, pc, dirty>>

KeepsOpenMutant(d, socks) == sock' = socks /\ Keep
BothMutant(d, socks) == cleanup_connection(d[1], {d, Other(d)} \cap data, conn, fdt, socks)
Cleanup(d, socks) == cleanup_connection(d[1], {d}, conn, fdt, socks)

Broken(d) == /\ Handling(d, "hup") /\ Handled(<<d, "hup">>)
             /\ Cleanup(d, sock)
             /\ UNCHANGED <<req, backlog, Table, pc, dirty>>

-----------------------------------------------------------------------------
(* The first bytes of a client, read as its request.                       *)
FirstRequest(d) ==
  /\ Handling(d, "in") /\ d # Listen /\ d[2] = "client"
  /\ ~conn[d[1]].tunnel /\ ~conn[d[1]].authorized

Received(d) == sock[d].in # <<>>
Taken(d) == [sock EXCEPT ![d].in = Tail(@)]
request(i) == parse_request(req[i])

(* Credentials that the request does not have, or that did not come, may   *)
(* be found in what was there before: nothing ends what was read.          *)
AllRead(d) == Head(sock[d].in).part = Whole
Named(d) == AllRead(d) /\ Decodes(req[d[1]])
Authorized(d, v) == v \in Verdicts(Named(d), authorize(Users, req[d[1]]), dirty)

(* authorize() may look beyond its arrays: in credentials that are not     *)
(* whole, the request's or those of old bytes.                             *)
Garbles(d) == ~Named(d) /\ (dirty \/ (AllRead(d) /\ req[d[1]].user = Garbled))

NoRequestYet(d) ==
  /\ FirstRequest(d) /\ ~Received(d) /\ Handled(<<d, "in">>)
  /\ Cleanup(d, sock)
  /\ UNCHANGED <<req, backlog, Table, pc, dirty>>

Refuse(d) ==
  /\ FirstRequest(d) /\ Received(d) /\ Authorized(d, FALSE)
  /\ Handled(<<d, "in">>) /\ dirty' = TRUE
  /\ \/ \E r \in SendOn(d, Proxy, Taken(d)) :
          IF r.ret = "killed" THEN Dies
          ELSE Cleanup(d, r.sock) /\ UNCHANGED <<req, backlog, Table, pc>>
     \/ Garbles(d) /\ Dies

Admitted(d) == FirstRequest(d) /\ Received(d) /\ Authorized(d, TRUE) /\ dirty' = TRUE
NowAuthorized(i) == [conn EXCEPT ![i].authorized = TRUE]
IsGet(i) == Parses(req[i]) /\ request(i).method = "GET" /\ request(i).url.scheme = "http"
Keyed(i) == IF IsGet(i) THEN [NowAuthorized(i) EXCEPT ![i].key = getKeyfromRequest(request(i))]
            ELSE NowAuthorized(i)

(* Its descriptor is closed, which also takes it out of epoll; the Data    *)
(* and the Connection are never freed.                                     *)
Dropped(d, pairs, fds) ==
  /\ Handled(<<d, "in">>)
  /\ conn' = pairs
  /\ fdt' = [fds EXCEPT ![FdOfData(d)] = Free]
  /\ sock' = [Taken(d) EXCEPT ![d] = Shut(@)]
  /\ UNCHANGED <<req, backlog, data, Table, pc>>

Malformed(d) == Admitted(d) /\ ~Parses(req[d[1]]) /\ Dropped(d, NowAuthorized(d[1]), fdt)

Hit(i) == IsGet(i) /\ isAvailable(Table, getKeyfromRequest(request(i)))

(* The answer is sent from the cache; "break" leaves the rest of the batch *)
(* to the next epoll_wait.                                                 *)
FromCache(d) ==
  /\ Admitted(d) /\ Hit(d[1])
  /\ \E r \in SendOn(d, Proxy, Taken(d)) :
       /\ r.ret \in {"sent", "killed"}
       /\ batch' = {}
       /\ IF r.ret = "killed" THEN Dies
          ELSE /\ cleanup_connection(d[1], {d}, Keyed(d[1]), fdt, r.sock)
               /\ UNCHANGED <<req, backlog, Table, pc>>

(* No answer in the cache, or it could not be sent.                        *)
Misses(d) == Admitted(d) /\ Parses(req[d[1]]) /\ (Hit(d[1]) => sock[d].end # "fin")

NoUpstream(d) ==
  /\ Misses(d)
  /\ \E fds \in {fdt, [fdt EXCEPT ![Lowest(fdt)] = Leaked]} : Dropped(d, Keyed(d[1]), fds)

WithServer(i) == [Keyed(i) EXCEPT ![i].fd2 = Lowest(fdt), ![i].refs = 2]
Connected(d, close) == [Taken(d) EXCEPT ![Server(d[1])].end = "open",
                                        ![Server(d[1])].close = close]
Opened(i) == [fdt EXCEPT ![Lowest(fdt)] = Server(i)]

(* CONNECT is answered 200 and becomes a tunnel; anything else is sent to  *)
(* the server as it came.                                                  *)
Upstream(d) ==
  /\ Misses(d) /\ Handled(<<d, "in">>)
  /\ LET i == d[1]
         https == request(i).url.scheme = "https"
         tunnel == [WithServer(i) EXCEPT ![i].tunnel = TRUE]
     IN  \E r \in IF https THEN SendOn(d, Proxy, Connected(d, FALSE))
                  ELSE SendOn(Server(i), d, Connected(d, "Connection: close" \in req[i].hdrs)) :
           CASE r.ret = "killed" -> Dies
             [] r.ret \in {"again", "failed"} ->
                  /\ cleanup_connection(i, {d, Server(i)}, WithServer(i), Opened(i), r.sock)
                  /\ UNCHANGED <<req, backlog, Table, pc>>
             [] OTHER ->
                  /\ conn' = IF https THEN tunnel ELSE WithServer(i)
                  /\ data' = data \cup {Server(i)}
                  /\ fdt' = Opened(i) /\ sock' = r.sock
                  /\ UNCHANGED <<req, backlog, Table, pc>>

-----------------------------------------------------------------------------
(* The relay.  Each chunk is stored before it is sent.                     *)
PeerFd(d) == IF conn[d[1]].fd1 = FdOfData(d) THEN conn[d[1]].fd2 ELSE conn[d[1]].fd1

Stored(d, chunk) == IF conn[d[1]].key = NoKey THEN Table
                    ELSE put2(Table, conn[d[1]].key, <<chunk>>, chunk.part)

Relay(d) ==
  /\ Handling(d, "in") /\ d # Listen /\ ~FirstRequest(d) /\ conn[d[1]].authorized
  /\ Handled(<<d, "in">>)
  /\ UNCHANGED dirty
  /\ IF ~Received(d) THEN Cleanup(d, sock) /\ UNCHANGED <<req, backlog, Table, pc>>
     ELSE \E r \in SendResults(PeerFd(d), Head(sock[d].in).of) :
            LET socks == [r.sock EXCEPT ![d].in = Tail(@)]
            IN  IF r.ret = "killed" THEN Dies
                ELSE /\ Table' = Stored(d, Head(sock[d].in))
                     /\ IF r.ret = "failed" THEN Cleanup(d, socks) ELSE sock' = socks /\ Keep
                     /\ UNCHANGED <<req, backlog, pc>>

-----------------------------------------------------------------------------
Serves(d) == \/ Broken(d) \/ NoRequestYet(d) \/ Refuse(d) \/ Malformed(d) \/ FromCache(d)
             \/ NoUpstream(d) \/ Upstream(d) \/ Relay(d)
Thread == \/ epoll_wait /\ UNCHANGED dirty
          \/ Accept \/ \E d \in Ends : Serves(d)

Next == Thread \/ (Environment /\ UNCHANGED dirty)

Spec == Init /\ [][Next]_vars
FairSpec == Spec /\ WF_vars(Thread)

-----------------------------------------------------------------------------
(* The structures have their types; a key is that of the connection's own  *)
(* request.                                                                *)
EfficientTypeOK ==
  /\ fdt \in [1 .. MaxFd -> Ends \cup {Listen, Leaked, Free}]
  /\ data \subseteq Ends
  /\ \A i \in Conns : /\ conn[i].refs = Cardinality({d \in data : d[1] = i})
                      /\ conn[i].key # NoKey => conn[i].key = getKeyfromRequest(request(i))
  /\ pc \in {"loop", "dead"}

(* Events of one batch are handled after others of it released Data (lines *)
(* 120 to 285) or after line 194 cut the batch: those left refer to live   *)
(* memory and to the socket they are about, although lines 176 and 203     *)
(* leave Data behind whose descriptor is closed and may be reused.         *)
BatchIsLive ==
  \A e \in batch : e[1] # Listen =>
    e[1] \in data /\ conn[e[1][1]].live /\ fdt[FdOfData(e[1])] = e[1]

(* The cache holds one chunk for each key, with that chunk's length, and   *)
(* the chunk was relayed for a request with that key: keys that share an   *)
(* index and ends that reuse a number do not mix the answers.              *)
CacheKeepsKeysApart ==
  \A x \in Indexes : \A k \in DOMAIN Table[x] :
    LET node == Table[x][k]
        chunk == node.value[1]
    IN  /\ Len(node.value) = 1 /\ node.length = chunk.part
        /\ node.key = getKeyfromRequest(request(chunk.of[1]))
        /\ \A j \in DOMAIN Table[x] : Table[x][j].key = node.key => j = k

(* No client can stall the thread: unless it is killed every event is      *)
(* handled in the end and nothing stays ready, also when line 194 cuts a   *)
(* batch short.                                                            *)
EventsAreServed == <>(pc = "dead") \/ <>[](Events = {})
=============================================================================
