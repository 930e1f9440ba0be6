------------------------------ MODULE ProxyNet ------------------------------
(***************************************************************************)
(* What the two epoll proxies stand on: the sockets and descriptor numbers *)
(* that the kernel keeps for the process, the browsers and upstream        *)
(* servers at the other ends, and the structures Connection and Data that  *)
(* pair a browser's socket with its upstream's.                            *)
(*                                                                         *)
(* Connection i is the i-th browser that connects.  <<i, "client">> and    *)
(* <<i, "server">> name its two sockets, and also the Data of each.        *)
(***************************************************************************)
EXTENDS ProxyParts

CONSTANTS N,          \* how many browsers connect, in all
          MaxFd,      \* the descriptors in use are among 1 .. MaxFd
          MaxChunks,  \* what an upstream sends
          Scripts,    \* the requests that N browsers make, one after the other
          Users       \* what main passes to add_user

ASSUME ProxyNetAssumption ==
  /\ N \in Nat \ {0} /\ MaxChunks \in Nat
  /\ MaxFd \in Nat /\ MaxFd >= 1 + 3 * N    \* accept() and socket() find a number

ASSUME ScriptsAssumption == Scripts \subseteq [1 .. N -> Requests]

VARIABLES req,      \* the request of each connection, or NoRequest
          sock,     \* the kernel's state of each socket
          fdt,      \* the descriptor table: a socket, Listen, Leaked or Free
          backlog,  \* connections that accept() has not returned yet
          conn,     \* the Connection of each pair
          data,     \* the Data that are allocated
          batch,    \* what is left of the events that epoll_wait returned
          Table,    \* the cache
          pc        \* where the thread is; "dead" when the process is gone

netVars == <<req, sock, fdt, backlog>>
pairVars == <<conn, data, batch, Table>>

Conns == 1 .. N
Ends == Conns \X {"client", "server"}
Client(i) == <<i, "client">>
Server(i) == <<i, "server">>
Other(s) == IF s[2] = "client" THEN Server(s[1]) ELSE Client(s[1])

Listen == <<0, "listen">>
Leaked == <<0, "leaked">>
Free == <<0, "free">>
NoRequest == [words |-> 0, cut |-> FALSE, more |-> 0]
NoKey == "no key"    \* the null pointer
NoPair == [live |-> FALSE, fd1 |-> 0, fd2 |-> 0, refs |-> 0, authorized |-> FALSE,
           key |-> NoKey, tunnel |-> FALSE]

(* A chunk is what one recv() returns.  A browser's request is one chunk,  *)
(* or two.                                                                 *)
Whole == 100
Head1 == 101
Rest == 102
Chunk(s, k, nul) == [of |-> s, part |-> k, nul |-> nul]
Proxy == <<0, "proxy">>
Overread == Chunk(Proxy, 1, FALSE)      \* bytes of the heap beyond a cached value

(* in: chunks not read yet; end: how far the other end has gone; got: whose *)
(* bytes the other end received; sent: what it has sent; close: whether it *)
(* was asked to close.                                                     *)
NewSocket == [in |-> <<>>, end |-> "none", got |-> {}, sent |-> 0, close |-> FALSE]
Shut(k) == [k EXCEPT !.in = <<>>, !.end = "closed", !.got = {}]

NetInit == /\ req = [i \in Conns |-> NoRequest]
           /\ sock = [s \in Ends |-> NewSocket]
           /\ fdt = [f \in 1 .. MaxFd |-> IF f = 1 THEN Listen ELSE Free]
           /\ backlog = <<>>

PairInit == /\ conn = [i \in Conns |-> NoPair]
            /\ data = {}
            /\ batch = {}
            /\ Table = initTable
            /\ pc = "loop"

(* Every call that opens a descriptor returns the lowest number.           *)
Lowest(table) == CHOOSE f \in DOMAIN table :
                   table[f] = Free /\ \A g \in 1 .. f - 1 : table[g] # Free
FdOf(s) == CHOOSE f \in DOMAIN fdt : fdt[f] = s

-----------------------------------------------------------------------------
(* The other ends.                                                         *)

(* What arrives while a batch is served waits in its queue: it is as if it *)
(* had arrived after.                                                      *)
Quiet == (pc = "loop" /\ batch = {}) \/ pc \in {"request", "cache"}

Connect(i) ==
  /\ Quiet /\ req[i] = NoRequest
  /\ \A j \in 1 .. i - 1 : req[j] # NoRequest
  /\ \E c \in Scripts :
       (\A j \in 1 .. i - 1 : c[j] = req[j]) /\ req' = [req EXCEPT ![i] = c[i]]
  /\ sock' = [sock EXCEPT ![Client(i)].end = "open"]
  /\ backlog' = Append(backlog, i)
  /\ UNCHANGED <<fdt, pairVars, pc>>

Sends(s, chunk, sent) ==
  /\ Quiet /\ sock[s].end = "open"
  /\ sock' = [sock EXCEPT ![s].in = Append(@, chunk), ![s].sent = sent]
  /\ UNCHANGED <<req, fdt, backlog, pairVars, pc>>

ClientSends(i) ==
  LET s == Client(i)
      n == sock[s].sent
  IN  \/ n = 0 /\ ~req[i].cut /\ Sends(s, Chunk(s, Whole, FALSE), 2)
      \/ n = 0 /\ req[i].cut /\ Sends(s, Chunk(s, Head1, FALSE), 1)
      \/ n = 1 /\ Sends(s, Chunk(s, Rest, FALSE), 2)
      \/ n >= 2 /\ n < 2 + req[i].more /\ Sends(s, Chunk(s, n - 1, FALSE), n + 1)

(* An upstream answers what it was asked.                                  *)
ServerSends(i) ==
  LET s == Server(i)
  IN  /\ sock[s].got # {} /\ sock[s].sent < MaxChunks
      /\ Sends(s, Chunk(s, sock[s].sent + 1, req[i].binary), sock[s].sent + 1)

Ends_(s, how) ==
  /\ Quiet /\ sock[s].end = "open"
  /\ sock' = [sock EXCEPT ![s].end = how]
  /\ UNCHANGED <<req, fdt, backlog, pairVars, pc>>

ClientEnds(i) == \E how \in {"fin", "rst"} : Ends_(Client(i), how)
ServerEnds(i) == \E how \in {"fin", "rst"} : Ends_(Server(i), how)

(* A server that was told "Connection: close" closes after its answer.     *)
ServerCloses(i) == /\ sock[Server(i)].close /\ sock[Server(i)].sent >= 1
                   /\ Ends_(Server(i), "fin")

Environment == \E i \in Conns : \/ Connect(i) \/ ClientSends(i) \/ ServerSends(i)
                                \/ ClientEnds(i) \/ ServerEnds(i)

-----------------------------------------------------------------------------
(* send() of the bytes of by on socket s, and on descriptor f: the possible *)
(* results.  Neither proxy ignores SIGPIPE, so that writing to a           *)
(* connection that is gone may kill it.                                    *)
SendOn(s, by, socks) ==
  LET sent == [ret |-> "sent", sock |-> [socks EXCEPT ![s].got = @ \cup {by}]]
  IN  CASE socks[s].end = "open" -> {sent, [ret |-> "again", sock |-> socks]}
        [] socks[s].end = "fin" ->
             {sent, [ret |-> "sent", sock |-> [socks EXCEPT ![s].end = "rst"]]}
        [] OTHER -> {[ret |-> r, sock |-> socks] : r \in {"failed", "killed"}}

SendResults(f, by) ==
  IF f = 0 \/ fdt[f] = Free THEN {[ret |-> "failed", sock |-> sock]}
  ELSE IF fdt[f] = Leaked THEN {[ret |-> r, sock |-> sock] : r \in {"failed", "killed"}}
  ELSE SendOn(fdt[f], by, sock)

(* What epoll_wait reports of each Data, and of the listening socket.      *)
Events == {<<d, IF sock[d].end = "rst" THEN "hup" ELSE "in">> :
             d \in {e \in data : /\ e \in {fdt[f] : f \in DOMAIN fdt}
                                 /\ sock[e].in # <<>> \/ sock[e].end # "open"}}
          \cup (IF backlog = <<>> THEN {} ELSE {<<Listen, "in">>})

epoll_wait == /\ pc = "loop" /\ batch = {} /\ Events # {}
              /\ batch' = Events
              /\ UNCHANGED <<netVars, conn, data, Table, pc>>

Handling(d, ev) == /\ pc = "loop"
                   /\ <<d, ev>> \in batch

-----------------------------------------------------------------------------
(* The set D of Data of connection i is released: their descriptors leave  *)
(* epoll and are closed, and the last one takes the Connection with it.    *)
FdOfData(d) == IF d[2] = "client" THEN conn[d[1]].fd1 ELSE conn[d[1]].fd2

cleanup_connection(i, D, pairs, table, socks) ==
  LET fds == {IF d[2] = "client" THEN pairs[i].fd1 ELSE pairs[i].fd2 : d \in D}
      left == pairs[i].refs - Cardinality(D)
  IN  /\ data' = data \ D
      /\ conn' = [pairs EXCEPT ![i] = IF left = 0 THEN NoPair ELSE [@ EXCEPT !.refs = left]]
      /\ fdt' = [f \in DOMAIN table |-> IF f \in fds THEN Free ELSE table[f]]
      /\ sock' = [s \in Ends |-> IF s \in {table[f] : f \in fds} THEN Shut(socks[s]) ELSE socks[s]]
=============================================================================
