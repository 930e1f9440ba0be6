-------------------------- MODULE EpollProxy_proofs --------------------------
(***************************************************************************)
(* Proofs about EpollProxy, for any browsers, requests and descriptors:    *)
(* that the events of a batch stay about live memory while others of the   *)
(* batch release theirs, and what follows from it; and that the cache      *)
(* holds whole answers.                                                    *)
(***************************************************************************)
EXTENDS EpollProxy, ProxyNet_proofs

(***************************************************************************)
(* The invariant.                                                          *)
(***************************************************************************)
(* The browser that is being served is the only one whose socket is open   *)
(* without a Data; while its answer is awaited no event of it is left.     *)
ServeOK ==
  /\ cur \in [i : 0 .. N, parts : {"none", "head", "full"}]
  /\ pc \in {"loop", "request", "serve", "cache", "dead"}
  /\ pc # "dead" =>
       \A s \in Ends : HasFd(fdt, s) =>
         s \in data \/ (pc \in {"request", "serve"} /\ s = Client(cur.i))
  /\ pc \in {"request", "serve", "cache"} => cur.i \in Conns /\ req[cur.i] # NoRequest
  /\ pc \in {"request", "serve"} =>
       /\ Untouched(cur.i, data, sock)
       /\ HasFd(fdt, Client(cur.i)) /\ ~Waiting(cur.i)
  /\ pc = "cache" => Both \subseteq data /\ \A e \in batch : e[1] \notin Both

Inv == NetOK /\ CountsOK(conn, data) /\ OwnsOK(conn, data, fdt) /\ ServeOK

(* Whose bytes a socket may be given in a step.                            *)
GotOK == \A s \in Ends : \A by \in sock'[s].got \ sock[s].got :
           by \in {Proxy, Other(s)} \/ Other(by) \notin data

-----------------------------------------------------------------------------
(***************************************************************************)
(* The initial state, and the steps that leave the pairs alone.            *)
(***************************************************************************)
LEMMA InitInv == Init => Inv
<1> SUFFICES ASSUME Init PROVE Inv
  OBVIOUS
<1> USE DEF Init, NetInit, PairInit
<1>1. NetOK /\ \A s \in Ends : ~HasFd(fdt, s)
  BY NetInitOK
<1>2. CountsOK(conn, data) /\ OwnsOK(conn, data, fdt)
  BY ProxyNetAssumption DEF CountsOK, OwnsOK, Count, NoPair, Pairs, Keys
<1>3. ServeOK
  BY <1>1, ProxyNetAssumption DEF ServeOK, Idle
<1> QED
  BY <1>1, <1>2, <1>3 DEF Inv

LEMMA DeadInv ==
  ASSUME Inv, pc' = "dead", cur' \in {Idle, cur}, UNCHANGED <<req, sock, fdt, backlog, conn, data>>,
         batch' \subseteq batch
  PROVE  Inv' /\ GotOK
<1>1. QueueOK'
  BY DEF Inv, NetOK, QueueOK, Waiting
<1>2. BatchOK'
  BY DEF Inv, NetOK, BatchOK
<1>3. ServeOK'
  BY ProxyNetAssumption DEF Inv, ServeOK, Idle
<1> QED
  BY <1>1, <1>2, <1>3 DEF Inv, NetOK, GotOK

LEMMA EnvironmentInv ==
  ASSUME Inv, Environment, UNCHANGED localVars
  PROVE  Inv' /\ GotOK
<1>1. NetOK' /\ OthersKeep
  BY EnvironmentFacts DEF Inv
<1>2. UNCHANGED <<fdt, conn, data, batch, pc, cur>>
  BY <1>1 DEF OthersKeep, localVars
<1>3. \A i \in Conns : Untouched(i, data, sock) => Untouched(i, data', sock')
  BY <1>1, <1>2, EndsFacts DEF OthersKeep, Untouched
<1>4. ServeOK'
  BY <1>1, <1>2, <1>3 DEF Inv, ServeOK, OthersKeep, Both
<1> QED
  BY <1>1, <1>2, <1>4 DEF Inv, GotOK, OthersKeep

LEMMA WaitInv ==
  ASSUME Inv, epoll_wait, UNCHANGED localVars
  PROVE  Inv' /\ GotOK
<1>1. NetOK' /\ UNCHANGED <<req, sock, fdt, backlog, conn, data, Table, pc>> /\ pc = "loop"
  BY WaitFacts DEF Inv, CountsOK, epoll_wait
<1>2. cur' = cur
  BY DEF localVars
<1>3. ServeOK'
  <2>1. pc' = "loop" /\ cur' \in [i : 0 .. N, parts : {"none", "head", "full"}]
    BY <1>1, <1>2 DEF Inv, ServeOK
  <2>2. \A s \in Ends : HasFd(fdt', s) => s \in data'
    BY <1>1 DEF Inv, ServeOK
  <2> QED
    BY <2>1, <2>2 DEF ServeOK
<1> QED
  BY <1>1, <1>3 DEF Inv, GotOK

LEMMA AcceptInv ==
  ASSUME Inv, Accept
  PROVE  Inv' /\ GotOK
<1>0. PICK i : i = Head(backlog)
  OBVIOUS
<1>1. /\ i \in Conns /\ Untouched(i, data, sock) /\ req[i] # NoRequest /\ ~Waiting(i)'
      /\ \A g \in 1 .. MaxFd : fdt[g] \in Ends => fdt'[g] = fdt[g]
      /\ \A t \in Ends : HasFd(fdt', t) <=> (HasFd(fdt, t) \/ t = Client(i))
      /\ NetOK'
  <2>1. Accepts(i)
    BY <1>0, AcceptFacts DEF Inv, Accept, Handling
  <2> QED
    BY <2>1 DEF Accepts
<1>2. UNCHANGED <<req, sock, conn, data>> /\ pc = "loop" /\ pc' = "request"
      /\ cur' = [i |-> i, parts |-> "none"]
  BY <1>0 DEF Accept, Handling
<1>3. OwnsOK(conn', data', fdt')
  BY <1>1, <1>2 DEF Inv, OwnsOK, CountsOK
<1>4. ServeOK'
  <2>1. cur'.i = i /\ cur' \in [i : 0 .. N, parts : {"none", "head", "full"}]
    BY <1>1, <1>2 DEF Conns
  <2>2. \A s \in Ends : HasFd(fdt', s) => s \in data' \/ s = Client(cur'.i)
    BY <1>1, <1>2, <2>1 DEF Inv, ServeOK
  <2>3. HasFd(fdt', Client(cur'.i))
    BY <1>1, <2>1, EndsFacts
  <2> QED
    BY <1>1, <1>2, <2>1, <2>2, <2>3 DEF ServeOK
<1> QED
  BY <1>1, <1>2, <1>3, <1>4 DEF Inv, GotOK

(* A chunk is read by the blocking recv() of the browser or the upstream   *)
(* that is being served.                                                   *)
LEMMA ReadInv ==
  ASSUME Inv, NEW s \in Ends, sock[s].in # <<>>,
         sock' = [sock EXCEPT ![s].in = Tail(@)], UNCHANGED <<req, fdt, backlog, conn, data, batch>>,
         cur' \in [i : 0 .. N, parts : {"none", "head", "full"}], cur'.i = cur.i,
         pc' = pc \/ (pc = "request" /\ pc' = "serve")
  PROVE  Inv' /\ GotOK
<1>1. /\ SocketsOK(sock') /\ Alike(sock, sock')
      /\ \A t \in Ends : sock'[t].end = sock[t].end /\ sock'[t].got = sock[t].got
  <2>1. Reads(sock, sock', s)
    BY ReadChunk DEF Inv, NetOK, KernelOK
  <2> QED
    BY <2>1 DEF Reads
<1>2. KernelOK(fdt', sock')
  BY <1>1, AlikeKeeps, LeaksKept DEF Inv, NetOK, KernelOK
<1>3. QueueOK'
  BY <1>1, QueueKept, EndsFacts DEF Inv, NetOK, QueueOK, Untouched
<1>4. BatchOK'
  BY DEF Inv, NetOK, BatchOK
<1>5. ServeOK'
  <2>1. \A i \in Conns : Untouched(i, data, sock) => Untouched(i, data', sock')
    BY <1>1, AlikeKeeps
  <2>2. \A i \in Conns : Waiting(i)' <=> Waiting(i)
    BY DEF Waiting
  <2> QED
    BY <2>1, <2>2 DEF Inv, ServeOK, Both
<1> QED
  BY <1>1, <1>2, <1>3, <1>4, <1>5 DEF Inv, NetOK, GotOK

LEMMA ReadRequestInv ==
  ASSUME Inv, ReadRequest
  PROVE  Inv' /\ GotOK
<1>1. cur.i \in Conns /\ Client(cur.i) \in Ends /\ pc = "request"
      /\ cur \in [i : 0 .. N, parts : {"none", "head", "full"}]
  BY EndsFacts DEF Inv, ServeOK, ReadRequest
<1>2. UNCHANGED <<req, fdt, backlog, conn, data, batch>> /\ pc' \in {"request", "serve"}
  BY DEF ReadRequest, pairVars
<1>3. CASE sock[Client(cur.i)].in # <<>> /\ sock' = [sock EXCEPT ![Client(cur.i)].in = Tail(@)]
           /\ \E p \in {"full", "head"} : cur' = [cur EXCEPT !.parts = p]
  BY <1>1, <1>2, <1>3, ReadInv
<1>4. CASE UNCHANGED <<cur, sock>>
  <2>1. QueueOK'
    BY <1>2, <1>4 DEF Inv, NetOK, QueueOK, Waiting
  <2>2. BatchOK'
    BY <1>2 DEF Inv, NetOK, BatchOK
  <2>3. ServeOK'
    BY <1>1, <1>2, <1>4 DEF Inv, ServeOK, Waiting
  <2> QED
    BY <1>2, <1>4, <2>1, <2>2, <2>3 DEF Inv, NetOK, GotOK
<1> QED
  BY <1>3, <1>4 DEF ReadRequest

LEMMA ReadAnswerInv ==
  ASSUME Inv, ReadAnswer
  PROVE  Inv' /\ GotOK
<1>1. cur.i \in Conns /\ Server(cur.i) \in Ends
      /\ cur \in [i : 0 .. N, parts : {"none", "head", "full"}]
  BY EndsFacts DEF Inv, ServeOK, ReadAnswer
<1> QED
  BY <1>1, ReadInv DEF ReadAnswer, pairVars

-----------------------------------------------------------------------------
(***************************************************************************)
(* A browser that is turned away: its socket is closed, and perhaps the    *)
(* descriptor of the upstream that did not answer is leaked.               *)
(***************************************************************************)
(* What is known while a request is served.                                *)
LEMMA ServingFacts ==
  ASSUME Inv, pc = "serve"
  PROVE  /\ cur.i \in Conns /\ Client(cur.i) \in Ends /\ Server(cur.i) \in Ends
         /\ req[cur.i] # NoRequest /\ ~Waiting(cur.i) /\ Untouched(cur.i, data, sock)
         /\ Lowest(fdt) \in 2 .. MaxFd /\ fdt[Lowest(fdt)] = Free
         /\ FdOf(Client(cur.i)) \in 2 .. MaxFd /\ fdt[FdOf(Client(cur.i))] = Client(cur.i)
         /\ ~HasFd(fdt, Server(cur.i))
         /\ \A e \in batch : e[1] \notin Both
<1>1. /\ cur.i \in Conns /\ Client(cur.i) \in Ends /\ Server(cur.i) \in Ends
      /\ req[cur.i] # NoRequest /\ ~Waiting(cur.i) /\ Untouched(cur.i, data, sock)
      /\ HasFd(fdt, Client(cur.i))
  BY EndsFacts DEF Inv, ServeOK
<1>2. Lowest(fdt) \in 2 .. MaxFd /\ fdt[Lowest(fdt)] = Free
  <2>1. cur.i \notin Lost(sock)
    BY <1>1 DEF Untouched, Lost
  <2> QED
    BY <1>1, <2>1, FreeNumber DEF Inv, NetOK, KernelOK
<1>3. FdOf(Client(cur.i)) \in 1 .. MaxFd /\ fdt[FdOf(Client(cur.i))] = Client(cur.i)
  BY <1>1, FdOfOpen DEF Inv, NetOK, KernelOK, TableOK
<1>4. FdOf(Client(cur.i)) \in 2 .. MaxFd
  <2>1. fdt[1] = Listen
    BY ProxyNetAssumption DEF Inv, NetOK, KernelOK, TableOK
  <2> QED
    BY <1>1, <1>3, <2>1, EndsFacts, ProxyNetAssumption
<1>5. ~HasFd(fdt, Server(cur.i))
  BY <1>1 DEF Inv, NetOK, KernelOK, OpenOK, Untouched
<1>6. \A e \in batch : e[1] \notin Both
  BY <1>1, EndsFacts DEF Inv, NetOK, BatchOK, Both, Untouched
<1> QED
  BY <1>1, <1>2, <1>3, <1>4, <1>5, <1>6

(* The tables that CloseClient and NoUpstream leave.                       *)
LEMMA CloseClientInv ==
  ASSUME Inv, pc = "serve", NEW socks, SocketsOK(socks),
         \A t \in Ends : t # Client(cur.i) => socks[t] = sock[t],
         \A t \in Ends : socks[t].got \subseteq sock[t].got \cup {Proxy},
         NEW closed, closed = [fdt EXCEPT ![FdOf(Client(cur.i))] = Free],
         fdt' = closed \/ fdt' = [closed EXCEPT ![Lowest(fdt)] = Leaked],
         sock' = [socks EXCEPT ![Client(cur.i)] = Shut(@)],
         UNCHANGED <<req, backlog, conn, data, batch>>, ToLoop
  PROVE  Inv' /\ GotOK
<1> DEFINE c == Client(cur.i)
<1>1. /\ cur.i \in Conns /\ c \in Ends /\ Server(cur.i) \in Ends
      /\ req[cur.i] # NoRequest /\ ~Waiting(cur.i) /\ Untouched(cur.i, data, sock)
      /\ \A e \in batch : e[1] \notin Both
  BY ServingFacts, EndsFacts
<1>2. PICK f \in 1 .. MaxFd : f = FdOf(Client(cur.i)) /\ fdt[f] = Client(cur.i)
  BY ServingFacts, ProxyNetAssumption
<1>3. PICK i \in Conns : i = cur.i
  BY <1>1
<1>4. TurnsAway(i)
  <2>1. KernelOK(fdt, sock) /\ sock[Server(i)].end = "none" /\ fdt[f] = Client(i)
    BY <1>1, <1>2, <1>3 DEF Inv, NetOK, Untouched
  <2> QED
    BY <1>2, <1>3, <2>1, TurnAwayFacts
<1> HIDE DEF c
<1>5. c = Client(cur.i)
  BY DEF c
<1>6. /\ KernelOK(fdt', sock')
      /\ \A t \in Ends : HasFd(fdt', t) <=> HasFd(fdt, t) /\ t # c
      /\ \A h \in 1 .. MaxFd : fdt[h] \in Ends /\ fdt[h] # c => fdt'[h] = fdt[h]
      /\ sock'[c].got = {}
      /\ \A t \in Ends : t # c => sock'[t] = sock[t]
  BY <1>3, <1>4, <1>5 DEF TurnsAway
<1>7. QueueOK'
  <2>1. \A j \in Conns : req[j] = NoRequest \/ Waiting(j) => Client(j) # c /\ Server(j) # c
    BY <1>1, <1>5, EndsFacts
  <2>2. \A j \in Conns : req[j] = NoRequest \/ Waiting(j) =>
          Untouched(j, data, sock) /\ ~HasFd(fdt, Client(j))
    BY DEF Inv, NetOK, QueueOK
  <2> QED
    BY <1>6, <2>1, <2>2, QueueKept, EndsFacts DEF Inv, NetOK, Untouched
<1>8. BatchOK'
  <2>1. \A e \in batch : e[1] # c
    BY <1>1, <1>5 DEF Both
  <2> QED
    BY <1>6, <2>1 DEF Inv, NetOK, BatchOK
<1>9. OwnsOK(conn', data', fdt')
  <2>1. \A d \in data : d # c /\ d \in Ends
    BY <1>1, <1>5 DEF Untouched, Inv, CountsOK
  <2> QED
    BY <1>6, <2>1 DEF Inv, OwnsOK
<1>10. ServeOK'
  <2>1. pc' = "loop" /\ cur' \in [i : 0 .. N, parts : {"none", "head", "full"}]
    BY ProxyNetAssumption DEF ToLoop, Idle
  <2>2. \A t \in Ends : HasFd(fdt', t) => t \in data'
    BY <1>5, <1>6 DEF Inv, ServeOK
  <2> QED
    BY <2>1, <2>2 DEF ServeOK
<1>11. GotOK
  BY <1>6 DEF GotOK
<1> QED
  BY <1>6, <1>7, <1>8, <1>9, <1>10, <1>11 DEF Inv, NetOK

LEMMA TurnedAwayInv ==
  ASSUME Inv, Refuse \/ Malformed \/ NoUpstream
  PROVE  Inv' /\ GotOK
<1>1. pc = "serve"
  BY DEF Refuse, Malformed, NoUpstream, Serving
<1>2. SocketsOK(sock) /\ TableOK(fdt) /\ Alike(sock, sock)
  BY DEF Inv, NetOK, KernelOK, Alike
<1>3. PICK closed : closed = [fdt EXCEPT ![FdOf(Client(cur.i))] = Free]
  OBVIOUS
<1>0. CASE Dead
  BY <1>0, DeadInv DEF Dead, netVars, pairVars
<1>4. CASE Refuse /\ ~Dead
  <2>1. PICK r \in SendResults(FdOf(Client(cur.i)), Proxy) :
          IF r.ret = "killed" THEN Dead ELSE ToLoop /\ CloseClient(r.sock)
    BY <1>4 DEF Refuse
  <2>2. /\ FdOf(Client(cur.i)) \in 0 .. MaxFd /\ FdOf(Client(cur.i)) # 1
        /\ FdOf(Client(cur.i)) # 0 /\ fdt[FdOf(Client(cur.i))] = Client(cur.i)
    BY <1>1, ServingFacts, ProxyNetAssumption
  <2>3. /\ SocketsOK(r.sock) /\ Alike(sock, r.sock)
        /\ \A t \in Ends : /\ t # Client(cur.i) => r.sock[t] = sock[t]
                           /\ r.sock[t].got \subseteq sock[t].got \cup {Proxy}
    BY <1>2, <2>2, SendResultsFacts
  <2>4. CASE r.ret = "killed"
    BY <2>1, <2>4, DeadInv DEF Dead, netVars, pairVars
  <2>5. CASE r.ret # "killed"
    BY <1>1, <1>3, <2>1, <2>3, <2>5, CloseClientInv DEF CloseClient, pairVars
  <2> QED
    BY <2>4, <2>5
<1>5. CASE Malformed
  BY <1>1, <1>2, <1>3, <1>5, CloseClientInv DEF Malformed, CloseClient, pairVars
<1>6. CASE NoUpstream
  BY <1>1, <1>2, <1>3, <1>6, CloseClientInv DEF NoUpstream, pairVars
<1> QED
  BY <1>0, <1>4, <1>5, <1>6

-----------------------------------------------------------------------------
(***************************************************************************)
(* A new pair, its answer from the cache, and the answer that is fetched.  *)
(***************************************************************************)
Served == \A t \in Ends : HasFd(Opened, t) <=> (HasFd(fdt, t) \/ t = Server(cur.i))

LEMMA PairFacts ==
  ASSUME Inv, pc = "serve", NEW close \in BOOLEAN
  PROVE  /\ CountsOK(Paired, data \cup Both) /\ OwnsOK(Paired, data \cup Both, Opened)
         /\ KernelOK(Opened, Connected(close)) /\ Served
         /\ Connected(close)[Server(cur.i)].end = "open"
         /\ Connected(close)[Client(cur.i)] = sock[Client(cur.i)]
         /\ \A t \in Ends : t \notin Both => Connected(close)[t] = sock[t]
         /\ \A t \in Ends : Connected(close)[t].got = sock[t].got
<1> DEFINE c == Client(cur.i)
           s == Server(cur.i)
<1>1. /\ cur.i \in Conns /\ c \in Ends /\ s \in Ends /\ s # c
      /\ c \notin data /\ s \notin data /\ sock[s].end = "none"
      /\ Lowest(fdt) \in 2 .. MaxFd /\ fdt[Lowest(fdt)] = Free
      /\ FdOf(c) \in 2 .. MaxFd /\ fdt[FdOf(c)] = c /\ ~HasFd(fdt, s)
      /\ c[1] = cur.i /\ c[2] = "client" /\ s[1] = cur.i /\ s[2] = "server"
  BY ServingFacts, EndsFacts DEF Untouched
<1>2. PICK f, g \in 1 .. MaxFd : f = FdOf(c) /\ g = Lowest(fdt)
  BY <1>1, ProxyNetAssumption
<1>3. /\ TableOK(fdt) /\ SocketsOK(sock) /\ OpenOK(fdt, sock) /\ LeaksOK(fdt, sock)
      /\ CountsOK(conn, data) /\ OwnsOK(conn, data, fdt)
  BY DEF Inv, NetOK, KernelOK
<1>4. PICK table, socks : table = Opened /\ socks = Connected(close)
  OBVIOUS
<1>5. Reaches(cur.i, fdt, sock, table, socks)
  <2>1. KernelOK(fdt, sock) /\ sock[Server(cur.i)].end = "none" /\ sock[Client(cur.i)].end # "closed"
    BY ServingFacts DEF Inv, NetOK, Untouched
  <2>2. table = [fdt EXCEPT ![Lowest(fdt)] = Server(cur.i)]
        /\ socks = [sock EXCEPT ![Server(cur.i)].end = "open", ![Server(cur.i)].close = close]
    BY <1>4 DEF Opened, Connected
  <2> HIDE DEF c, s
  <2>3. PICK i \in Conns : i = cur.i
    BY <1>1
  <2> QED
    BY <2>1, <2>2, <2>3, ReachesFacts
<1>6. PICK p \in Pairs : /\ p = addToEpollInterest(cur.i, f, g)
                         /\ p.live /\ p.refs = 2 /\ p.fd1 = f /\ p.fd2 = g
  <2> DEFINE r == addToEpollInterest(cur.i, f, g)
  <2>1. f \in 0 .. MaxFd /\ g \in 0 .. MaxFd /\ NoKey \in Keys
    BY ProxyNetAssumption DEF Keys
  <2>2. r.live /\ r.refs = 2 /\ r.fd1 = f /\ r.fd2 = g
    BY DEF addToEpollInterest
  <2>3. r \in Pairs
    BY <2>1 DEF addToEpollInterest, Pairs
  <2> QED
    BY <2>2, <2>3
<1>7. Paired = [conn EXCEPT ![cur.i] = p]
  BY <1>2, <1>6 DEF Paired
<1>8. PICK pairs : pairs = Paired
  OBVIOUS
<1>9. pairs[cur.i] = p /\ pairs \in [Conns -> Pairs] /\ \A i \in Conns : i # cur.i => pairs[i] = conn[i]
  BY <1>1, <1>3, <1>7, <1>8 DEF CountsOK
<1>10. CountsOK(pairs, data \cup Both)
  <2>1. Count(data \cup Both, cur.i) = 2
    BY DEF Count, Both
  <2>2. \A i \in Conns : i # cur.i => Count(data \cup Both, i) = Count(data, i)
    <3>1. \A i \in Conns : i # cur.i => Client(i) \notin Both /\ Server(i) \notin Both
      BY <1>1, EndsFacts DEF Both
    <3> QED
      BY <3>1 DEF Count
  <2>3. data \cup Both \subseteq Ends
    BY <1>1, <1>3 DEF CountsOK, Both
  <2>4. f # 1 /\ g # 1
    BY <1>1, <1>2, ProxyNetAssumption
  <2> QED
    <3>1. ASSUME NEW i \in Conns
          PROVE  /\ pairs[i].refs = Count(data \cup Both, i)
                 /\ pairs[i].live <=> pairs[i].refs # 0
                 /\ pairs[i].live => pairs[i].fd1 # 1 /\ pairs[i].fd2 # 1
      <4>1. CASE i = cur.i
        BY <1>6, <1>9, <2>1, <2>4, <4>1
      <4>2. CASE i # cur.i
        BY <1>3, <1>9, <2>2, <4>2 DEF CountsOK
      <4> QED
        BY <4>1, <4>2
    <3> QED
      BY <1>9, <2>3, <3>1 DEF CountsOK
<1>11. OwnsOK(pairs, data \cup Both, table)
  <2>1. PairFd(pairs, c) = f /\ PairFd(pairs, s) = g
    BY <1>1, <1>6, <1>9 DEF PairFd
  <2>2. table[f] = c /\ table[g] = s
    BY <1>1, <1>2, <1>5 DEF Reaches
  <2>3. ASSUME NEW d \in data
        PROVE  PairFd(pairs, d) \in 1 .. MaxFd /\ table[PairFd(pairs, d)] = d
    <3>1. d \in Ends /\ d[1] \in Conns /\ d # c /\ d # s
      BY <1>1, <1>3, EndsFacts DEF CountsOK
    <3>2. d[1] # cur.i
      BY <3>1, EndsFacts
    <3>3. PairFd(pairs, d) = PairFd(conn, d)
      BY <1>9, <3>1, <3>2 DEF PairFd
    <3>4. PairFd(conn, d) \in 1 .. MaxFd /\ fdt[PairFd(conn, d)] = d
      BY <1>3 DEF OwnsOK
    <3> QED
      BY <1>5, <3>1, <3>3, <3>4 DEF Reaches
  <2> QED
    BY <2>1, <2>2, <2>3 DEF OwnsOK, Both
<1>12. KernelOK(table, socks) /\ Served
  BY <1>4, <1>5 DEF Reaches, Served
<1>13. /\ socks[Server(cur.i)].end = "open" /\ socks[Client(cur.i)] = sock[Client(cur.i)]
       /\ \A t \in Ends : t \notin Both => socks[t] = sock[t]
       /\ \A t \in Ends : socks[t].got = sock[t].got
  BY <1>1, <1>5 DEF Reaches, Both
<1> QED
  BY <1>4, <1>8, <1>10, <1>11, <1>12, <1>13

(* Whatever becomes of the pair that is served, the other pairs stay.      *)
LEMMA SettledInv ==
  ASSUME Inv, pc \in {"serve", "cache"}, UNCHANGED <<req, backlog, batch>>,
         CountsOK(conn', data'), OwnsOK(conn', data', fdt'), KernelOK(fdt', sock'),
         \A t \in Ends : t \notin Both => /\ t \in data' <=> t \in data
                                          /\ HasFd(fdt', t) <=> HasFd(fdt, t)
                                          /\ sock'[t] = sock[t],
         \A t \in Ends : t \in Both => (HasFd(fdt', t) => t \in data'),
         \/ ToLoop
         \/ pc' = "cache" /\ cur' = cur /\ Both \subseteq data'
  PROVE  Inv'
<1>1. cur.i \in Conns /\ req[cur.i] # NoRequest /\ ~Waiting(cur.i)
      /\ Both \subseteq Ends /\ \A e \in batch : e[1] \notin Both
  <2>1. CASE pc = "serve"
    BY <2>1, ServingFacts DEF Both
  <2>2. CASE pc = "cache"
    <3>1. /\ cur.i \in Conns /\ req[cur.i] # NoRequest /\ Both \subseteq data
          /\ \A e \in batch : e[1] \notin Both
      BY <2>2 DEF Inv, ServeOK
    <3>2. ~Waiting(cur.i)
      BY <3>1 DEF Inv, NetOK, QueueOK, Untouched, Both
    <3>3. Both \subseteq Ends
      BY <3>1 DEF Inv, CountsOK
    <3> QED
      BY <3>1, <3>2, <3>3
  <2> QED
    BY <2>1, <2>2
<1>2. QueueOK'
  <2>1. \A j \in Conns : req[j] = NoRequest \/ Waiting(j) =>
          /\ Client(j) \in Ends /\ Client(j) \notin Both
          /\ Server(j) \in Ends /\ Server(j) \notin Both
    BY <1>1, EndsFacts DEF Both
  <2>2. \A j \in Conns : req[j] = NoRequest \/ Waiting(j) =>
          Untouched(j, data, sock) /\ ~HasFd(fdt, Client(j))
    BY DEF Inv, NetOK, QueueOK
  <2>3. \A j \in Conns : req[j] = NoRequest \/ Waiting(j) =>
           /\ Client(j) \notin data' /\ Server(j) \notin data' /\ ~HasFd(fdt', Client(j))
           /\ sock'[Client(j)].end = sock[Client(j)].end
           /\ sock'[Server(j)].end = sock[Server(j)].end
    BY <2>1, <2>2 DEF Untouched
  <2> QED
    BY <2>3, QueueKept DEF Inv, NetOK
<1>3. BatchOK'
  <2>1. \A e \in batch : e[1] # Listen => e[1] \in Ends /\ e[1] \notin Both
    BY <1>1 DEF Inv, NetOK, BatchOK
  <2> QED
    BY <2>1 DEF Inv, NetOK, BatchOK
<1>4. \A t \in Ends : HasFd(fdt', t) => t \in data'
  <2>1. \A t \in Ends : t \notin Both => (HasFd(fdt, t) => t \in data)
    BY DEF Inv, ServeOK, Both
  <2> QED
    BY <2>1
<1>5. ServeOK'
  <2>1. CASE ToLoop
    <3>1. pc' = "loop" /\ cur' \in [i : 0 .. N, parts : {"none", "head", "full"}]
      BY <2>1, ProxyNetAssumption DEF ToLoop, Idle
    <3> QED
      BY <1>4, <3>1 DEF ServeOK
  <2>2. CASE pc' = "cache" /\ cur' = cur /\ Both \subseteq data'
    <3>1. cur \in [i : 0 .. N, parts : {"none", "head", "full"}]
      BY DEF Inv, ServeOK
    <3>2. Both' = Both
      BY <2>2 DEF Both
    <3> QED
      BY <1>1, <1>4, <2>2, <3>1, <3>2 DEF ServeOK
  <2> QED
    BY <2>1, <2>2
<1> QED
  BY <1>2, <1>3, <1>5 DEF Inv, NetOK

(* What a send() on one of the two sockets may leave in it.                *)
OwnBytes(socks) == \A t \in Ends : \A by \in socks[t].got \ sock[t].got : by \in {Proxy, Other(t)}

LEMMA RegisteredInv ==
  ASSUME Inv, pc = "serve", NEW close \in BOOLEAN, NEW socks,
         SocketsOK(socks), Alike(Connected(close), socks), OwnBytes(socks),
         \A t \in Ends : t \notin Both => socks[t] = sock[t],
         Registered(socks), ToLoop \/ (pc' = "cache" /\ cur' = cur)
  PROVE  Inv' /\ GotOK
<1>1. /\ CountsOK(Paired, data \cup Both) /\ OwnsOK(Paired, data \cup Both, Opened)
      /\ KernelOK(Opened, Connected(close)) /\ Served
  BY PairFacts
<1>2. /\ conn' = Paired /\ data' = data \cup Both /\ fdt' = Opened /\ sock' = socks
      /\ UNCHANGED <<req, backlog, batch>>
  BY DEF Registered
<1>3. KernelOK(Opened, socks)
  BY <1>1, AlikeKeeps, LeaksKept DEF KernelOK
<1>4. \A t \in Ends : t \notin Both => (HasFd(Opened, t) <=> HasFd(fdt, t))
  BY <1>1 DEF Served, Both
<1>5. Inv'
  BY <1>1, <1>2, <1>3, <1>4, SettledInv
<1>6. GotOK
  BY <1>2 DEF GotOK, OwnBytes
<1> QED
  BY <1>5, <1>6

(* send() on one of the two sockets of the new pair.                       *)
LEMMA FirstSend ==
  ASSUME Inv, pc = "serve", NEW close \in BOOLEAN,
         NEW s \in Both, NEW by \in {Proxy, Other(s)}, NEW r \in SendOn(s, by, Connected(close))
  PROVE  /\ SocketsOK(r.sock) /\ Alike(Connected(close), r.sock) /\ OwnBytes(r.sock)
         /\ \A t \in Ends : t \notin Both => r.sock[t] = sock[t]
<1>1. SocketsOK(Connected(close))
  BY PairFacts DEF KernelOK
<1>2. Both \subseteq Ends /\ s \in Ends /\ Other(s) \in Ends
  BY ServingFacts, EndsFacts DEF Both
<1>3. /\ SocketsOK(r.sock) /\ Alike(Connected(close), r.sock)
      /\ \A t \in Ends : /\ t # s => r.sock[t] = Connected(close)[t]
                         /\ r.sock[t].got \subseteq Connected(close)[t].got \cup {by}
  BY <1>1, <1>2, SendOnFacts
<1>4. \A t \in Ends : Connected(close)[t].got = sock[t].got /\ (t \notin Both => Connected(close)[t] = sock[t])
  BY PairFacts
<1>5. OwnBytes(r.sock)
  <2> SUFFICES ASSUME NEW t \in Ends, NEW b \in r.sock[t].got, b \notin sock[t].got
               PROVE  b \in {Proxy, Other(t)}
    BY DEF OwnBytes
  <2>1. t = s /\ b = by
    BY <1>3, <1>4
  <2> QED
    BY <2>1
<1> QED
  BY <1>3, <1>4, <1>5

LEMMA TunnelInv ==
  ASSUME Inv, Tunnel
  PROVE  Inv' /\ GotOK
<1>1. pc = "serve"
  BY DEF Tunnel, Upstream, Serving
<1>2. PICK r \in SendOn(Client(cur.i), Proxy, Connected(FALSE)) :
        IF r.ret = "killed" THEN Dead ELSE ToLoop /\ Registered(r.sock)
  BY DEF Tunnel
<1>3. CASE r.ret = "killed"
  BY <1>2, <1>3, DeadInv DEF Dead, netVars, pairVars
<1>4. CASE r.ret # "killed"
  <2>1. Client(cur.i) \in Both
    BY DEF Both
  <2>2. /\ SocketsOK(r.sock) /\ Alike(Connected(FALSE), r.sock) /\ OwnBytes(r.sock)
        /\ \A t \in Ends : t \notin Both => r.sock[t] = sock[t]
    BY <1>1, <2>1, FirstSend
  <2> QED
    BY <1>1, <1>2, <1>4, <2>2, RegisteredInv
<1> QED
  BY <1>3, <1>4

LEMMA ForwardInv ==
  ASSUME Inv, Fetch \/ Forward
  PROVE  Inv' /\ GotOK
<1>1. pc = "serve"
  BY DEF Fetch, Forward, ToCache, Upstream, Serving
<1>2. PICK close \in BOOLEAN :
        close <=> "Connection: close" \in forward_http_request(req[cur.i])
  OBVIOUS
<1>3. Connected("Connection: close" \in forward_http_request(req[cur.i])) = Connected(close)
  BY <1>2
<1>4. \/ Dead
      \/ \E r \in Forwarded : Registered(r.sock) /\ (ToLoop \/ (pc' = "cache" /\ cur' = cur))
  BY DEF Fetch, Forward
<1>5. CASE Dead
  BY <1>5, DeadInv DEF Dead, netVars, pairVars
<1>6. ASSUME NEW r \in Forwarded, Registered(r.sock), ToLoop \/ (pc' = "cache" /\ cur' = cur)
      PROVE  Inv' /\ GotOK
  <2>1. Server(cur.i) \in Both /\ Client(cur.i) = Other(Server(cur.i))
    BY <1>1, ServingFacts, EndsFacts DEF Both
  <2>2. r \in SendOn(Server(cur.i), Client(cur.i), Connected(close))
    BY <1>3 DEF Forwarded
  <2>3. /\ SocketsOK(r.sock) /\ Alike(Connected(close), r.sock) /\ OwnBytes(r.sock)
        /\ \A t \in Ends : t \notin Both => r.sock[t] = sock[t]
    BY <1>1, <2>1, <2>2, FirstSend
  <2> QED
    BY <1>1, <1>6, <2>3, RegisteredInv
<1> QED
  BY <1>4, <1>5, <1>6

(* A cached answer is sent, or one that was waited for, and the pair is    *)
(* released unless send() did not take it all.                             *)
LEMMA AnswerInv ==
  ASSUME Inv, pc \in {"serve", "cache"}, NEW pairs, NEW table, NEW fds, NEW socks,
         CountsOK(pairs, data \cup Both), OwnsOK(pairs, data \cup Both, fds), KernelOK(fds, socks),
         \A t \in Ends : /\ t \notin Both => (HasFd(fds, t) <=> HasFd(fdt, t)) /\ socks[t] = sock[t]
                         /\ socks[t].got = sock[t].got,
         AnswerAndClose(pairs, table, fds, socks)
  PROVE  Inv' /\ GotOK
<1>1. cur.i \in Conns /\ Client(cur.i) \in Ends /\ Server(cur.i) \in Ends
  BY EndsFacts DEF Inv, ServeOK
<1>2. PICK r \in SendOn(Client(cur.i), Proxy, socks) :
        IF r.ret = "killed" THEN Dead
        ELSE /\ ToLoop /\ Table' = table /\ UNCHANGED <<req, backlog, batch>>
             /\ IF r.ret = "sent" /\ Answer(table) # <<>>
                THEN cleanup_connection(cur.i, Both, pairs, fds, r.sock)
                ELSE conn' = pairs /\ data' = data \cup Both /\ fdt' = fds /\ sock' = r.sock
  BY DEF AnswerAndClose
<1>3. CASE r.ret = "killed"
  BY <1>2, <1>3, DeadInv DEF Dead, netVars, pairVars
<1>4. CASE r.ret # "killed"
  <2>1. /\ SocketsOK(r.sock) /\ Alike(socks, r.sock)
        /\ \A t \in Ends : /\ t # Client(cur.i) => r.sock[t] = socks[t]
                           /\ r.sock[t].got \subseteq socks[t].got \cup {Proxy}
    BY <1>1, <1>2, SendOnFacts DEF KernelOK
  <2>2. KernelOK(fds, r.sock)
    BY <2>1, AlikeKeeps, LeaksKept DEF KernelOK
  <2>3. ToLoop /\ UNCHANGED <<req, backlog, batch>>
    BY <1>2, <1>4
  <2>4. \A t \in Ends : t \notin Both => r.sock[t] = sock[t]
    BY <2>1 DEF Both
  <2>5. CASE cleanup_connection(cur.i, Both, pairs, fds, r.sock)
    <3>1. /\ Both # {} /\ Both \subseteq data \cup Both /\ \A d \in Both : d[1] = cur.i
          /\ data \ Both = (data \cup Both) \ Both
      BY <1>1, EndsFacts DEF Both
    <3>2. PICK i, D, O, after : i = cur.i /\ D = Both /\ O = data \cup Both /\ after = r.sock
      BY <1>1
    <3>3. /\ data' = O \ D /\ CountsOK(conn', O \ D) /\ OwnsOK(conn', O \ D, fdt')
          /\ KernelOK(fdt', sock')
          /\ \A t \in Ends : HasFd(fdt', t) <=> HasFd(fds, t) /\ t \notin D
          /\ \A t \in Ends : t \notin D => sock'[t] = after[t]
          /\ \A t \in Ends : sock'[t].got \subseteq after[t].got
      <4>1. /\ i \in Conns /\ D # {} /\ D \subseteq O /\ O \subseteq O /\ \A d \in D : d[1] = i
            /\ SameRest(O, D)
            /\ CountsOK(pairs, O) /\ OwnsOK(pairs, O, fds) /\ KernelOK(fds, after)
            /\ cleanup_connection(i, D, pairs, fds, after)
        BY <1>1, <2>2, <2>5, <3>1, <3>2 DEF SameRest
      <4>2. Cleans(O, O, D, fds, after)
        BY <4>1, CleanupFacts
      <4> QED
        BY <4>2 DEF Cleans
    <3>4. \A t \in Ends : t \notin Both => /\ t \in data' <=> t \in data
                                           /\ HasFd(fdt', t) <=> HasFd(fdt, t)
                                           /\ sock'[t] = sock[t]
      BY <2>4, <3>2, <3>3
    <3>5. Inv'
      BY <2>3, <3>2, <3>3, <3>4, SettledInv
    <3>6. GotOK
      BY <2>1, <3>2, <3>3 DEF GotOK
    <3> QED
      BY <3>5, <3>6
  <2>6. CASE conn' = pairs /\ data' = data \cup Both /\ fdt' = fds /\ sock' = r.sock
    <3>1. Inv'
      BY <2>2, <2>3, <2>4, <2>6, SettledInv
    <3>2. GotOK
      BY <2>1, <2>6 DEF GotOK
    <3> QED
      BY <3>1, <3>2
  <2> QED
    BY <1>2, <1>4, <2>5, <2>6
<1> QED
  BY <1>3, <1>4

LEMMA FromCacheInv ==
  ASSUME Inv, FromCache
  PROVE  Inv' /\ GotOK
<1>1. pc = "serve" /\ AnswerAndClose(Paired, Table, Opened, Connected(FALSE))
  BY DEF FromCache, Upstream, Serving
<1>2. /\ CountsOK(Paired, data \cup Both) /\ OwnsOK(Paired, data \cup Both, Opened)
      /\ KernelOK(Opened, Connected(FALSE)) /\ Served
      /\ \A t \in Ends : t \notin Both => Connected(FALSE)[t] = sock[t]
      /\ \A t \in Ends : Connected(FALSE)[t].got = sock[t].got
  BY <1>1, PairFacts
<1>3. \A t \in Ends : t \notin Both => (HasFd(Opened, t) <=> HasFd(fdt, t))
  BY <1>2 DEF Served, Both
<1> QED
  BY <1>1, <1>2, <1>3, AnswerInv

LEMMA StoreAnswerInv ==
  ASSUME Inv, StoreAnswer
  PROVE  Inv' /\ GotOK
<1>1. PICK table : AnswerAndClose(conn, table, fdt, sock)
  BY DEF StoreAnswer
<1>2. pc = "cache" /\ data \cup Both = data
  BY DEF Inv, ServeOK, StoreAnswer
<1>3. CountsOK(conn, data) /\ OwnsOK(conn, data, fdt) /\ KernelOK(fdt, sock)
  BY DEF Inv, NetOK
<1> QED
  BY <1>1, <1>2, <1>3, AnswerInv

LEMMA LosesAnswerInv ==
  ASSUME Inv, LosesAnswer
  PROVE  Inv' /\ GotOK
BY DeadInv DEF LosesAnswer, Dead, netVars, pairVars

-----------------------------------------------------------------------------
(***************************************************************************)
(* The events of a batch: one Data is released, or relays what it reads.   *)
(***************************************************************************)
(* What is known of the Data of an event.                                  *)
LEMMA HandlingFacts ==
  ASSUME Inv, NEW d \in Ends, NEW ev, Handling(d, ev)
  PROVE  /\ d \in data /\ d[1] \in Conns /\ pc = "loop"
         /\ FdOfData(d) = PairFd(conn, d) /\ FdOfData(d) \in 1 .. MaxFd /\ fdt[FdOfData(d)] = d
         /\ conn[d[1]] \in Pairs /\ conn[d[1]].live /\ conn[d[1]].refs # 0
<1>1. d \in data /\ pc = "loop" /\ d[1] \in Conns
  BY EndsFacts DEF Handling, Inv, NetOK, BatchOK
<1>2. FdOfData(d) = PairFd(conn, d)
  BY DEF FdOfData, PairFd
<1>3. PairFd(conn, d) \in 1 .. MaxFd /\ fdt[PairFd(conn, d)] = d
  BY <1>1 DEF Inv, OwnsOK
<1>4. conn[d[1]] \in Pairs /\ conn[d[1]].live /\ conn[d[1]].refs # 0
  <2>1. Count(data, d[1]) # 0
    BY <1>1, CountFacts, EndsFacts
  <2> QED
    BY <1>1, <2>1 DEF Inv, CountsOK
<1> QED
  BY <1>1, <1>2, <1>3, <1>4

(* The sockets that have no number stay as they are, and what a send()     *)
(* left in the others is no other live pair's.                             *)
Settles(socks) ==
  /\ SocketsOK(socks) /\ Alike(sock, socks)
  /\ \A t \in Ends : ~HasFd(fdt, t) => socks[t] = sock[t]
  /\ \A t \in Ends : \A by \in socks[t].got \ sock[t].got :
       by \in {Proxy, Other(t)} \/ Other(by) \notin data

LEMMA HandledInv ==
  ASSUME Inv, NEW d \in Ends, NEW ev, Handling(d, ev), batch' = batch \ {<<d, ev>>},
         NEW socks, Settles(socks), UNCHANGED <<pc, cur>>,
         \/ Cleanup(d, socks)
         \/ sock' = socks /\ UNCHANGED <<req, fdt, backlog, conn, data>>
  PROVE  Inv' /\ GotOK
<1>1. /\ d \in data /\ d[1] \in Conns /\ pc = "loop" /\ conn[d[1]].refs # 0
  BY HandlingFacts
<1>2. /\ KernelOK(fdt, socks) /\ UNCHANGED <<req, backlog>>
      /\ CountsOK(conn, data) /\ OwnsOK(conn, data, fdt)
  BY AlikeKeeps, LeaksKept DEF Settles, Inv, NetOK, KernelOK, Cleanup
<1>3. /\ CountsOK(conn', data') /\ OwnsOK(conn', data', fdt') /\ KernelOK(fdt', sock')
      /\ data' \subseteq data
      /\ \A t \in Ends : HasFd(fdt', t) => HasFd(fdt, t)
      /\ \A t \in Ends : t # d => /\ t \in data => t \in data'
                                  /\ HasFd(fdt, t) => HasFd(fdt', t)
                                  /\ sock'[t] = socks[t]
      /\ HasFd(fdt', d) => d \in data'
      /\ \A t \in Ends : sock'[t].got \subseteq socks[t].got
  <2>1. CASE Cleanup(d, socks)
    <3>1. cleanup_connection(d[1], {d}, conn, fdt, socks)
      BY <1>1, <2>1 DEF Cleanup, Released
    <3>2. PICK i, D : i = d[1] /\ D = {d}
      BY <1>1
    <3>3. /\ i \in Conns /\ D # {} /\ D \subseteq data /\ data \subseteq data /\ \A e \in D : e[1] = i
          /\ cleanup_connection(i, D, conn, fdt, socks)
      BY <1>1, <3>1, <3>2
    <3> SameRest(data, D)
      BY DEF SameRest
    <3>4. /\ data' = data \ D /\ CountsOK(conn', data \ D) /\ OwnsOK(conn', data \ D, fdt')
          /\ KernelOK(fdt', sock')
          /\ \A t \in Ends : HasFd(fdt', t) <=> HasFd(fdt, t) /\ t \notin D
          /\ \A t \in Ends : t \notin D => sock'[t] = socks[t]
          /\ \A t \in Ends : sock'[t].got \subseteq socks[t].got
      BY <1>2, <3>3, CleanupFacts DEF Cleans
    <3> QED
      BY <3>2, <3>4
  <2>2. CASE sock' = socks /\ UNCHANGED <<req, fdt, backlog, conn, data>>
    BY <1>1, <1>2, <2>2
  <2> QED
    BY <2>1, <2>2
<1>4. QueueOK'
  <2>1. ASSUME NEW i \in Conns, req[i] = NoRequest \/ Waiting(i)
        PROVE  /\ Client(i) \notin data' /\ Server(i) \notin data' /\ ~HasFd(fdt', Client(i))
               /\ sock'[Client(i)].end = sock[Client(i)].end
               /\ sock'[Server(i)].end = sock[Server(i)].end
    <3>1. Untouched(i, data, sock) /\ ~HasFd(fdt, Client(i)) /\ ~HasFd(fdt, Server(i))
      BY <2>1, EndsFacts DEF Inv, NetOK, KernelOK, OpenOK, QueueOK, Untouched
    <3>2. Client(i) # d /\ Server(i) # d /\ Client(i) \in Ends /\ Server(i) \in Ends
      BY <1>1, <3>1, EndsFacts DEF Untouched
    <3> QED
      BY <1>3, <3>1, <3>2 DEF Settles, Untouched
  <2> QED
    BY <1>2, <2>1, QueueKept DEF Inv, NetOK
<1>5. BatchOK'
  <2>1. PICK e \in batch : e = <<d, ev>>
    BY DEF Handling
  <2>2. \A t \in Ends : t \in data /\ HasFd(fdt, t) /\ t # e[1] => t \in data' /\ HasFd(fdt', t)
    BY <1>3, <2>1
  <2> QED
    BY <1>2, <2>1, <2>2, BatchKept DEF Inv, NetOK
<1>6. ServeOK'
  <2>1. \A t \in Ends : HasFd(fdt', t) => t \in data'
    BY <1>1, <1>3 DEF Inv, ServeOK
  <2> QED
    BY <1>1, <2>1 DEF Inv, ServeOK
<1>7. GotOK
  BY <1>3 DEF GotOK, Settles
<1> QED
  BY <1>3, <1>4, <1>5, <1>6, <1>7 DEF Inv, NetOK

LEMMA BrokenInv ==
  ASSUME Inv, NEW d \in Ends, Broken(d)
  PROVE  Inv' /\ GotOK
<1>1. Settles(sock)
  BY DEF Settles, Alike, Inv, NetOK, KernelOK
<1> QED
  BY <1>1, HandledInv DEF Broken, localVars

(* The peer of a Data is its partner's descriptor as long as the partner   *)
(* has its Data.                                                           *)
LEMMA PeerFacts ==
  ASSUME Inv, NEW d \in Ends, NEW ev, Handling(d, ev)
  PROVE  /\ PeerFd(d) \in 0 .. MaxFd /\ PeerFd(d) # 1
         /\ Other(d) \in data => PeerFd(d) # 0 /\ fdt[PeerFd(d)] = Other(d)
<1>1. /\ d \in data /\ d[1] \in Conns /\ FdOfData(d) = PairFd(conn, d)
      /\ FdOfData(d) \in 1 .. MaxFd /\ fdt[FdOfData(d)] = d
      /\ conn[d[1]] \in Pairs /\ conn[d[1]].live
  BY HandlingFacts
<1>2. conn[d[1]].fd1 \in 0 .. MaxFd /\ conn[d[1]].fd2 \in 0 .. MaxFd
      /\ conn[d[1]].fd1 # 1 /\ conn[d[1]].fd2 # 1
  BY <1>1 DEF Inv, CountsOK, Pairs
<1>3. ASSUME Other(d) \in data
      PROVE  PeerFd(d) \in 1 .. MaxFd /\ fdt[PeerFd(d)] = Other(d)
  <2>1. /\ PairFd(conn, Other(d)) \in 1 .. MaxFd /\ fdt[PairFd(conn, Other(d))] = Other(d)
        /\ Other(d)[1] = d[1] /\ Other(d) # d
    BY <1>3, EndsFacts DEF Inv, OwnsOK
  <2>2. PairFd(conn, Other(d)) # PairFd(conn, d)
    BY <1>1, <2>1
  <2>3. PairFd(conn, Other(d)) = PeerFd(d)
    <3>1. \/ d[2] = "client" /\ Other(d)[2] = "server"
          \/ d[2] = "server" /\ Other(d)[2] = "client"
      BY EndsFacts
    <3> QED
      BY <1>1, <2>1, <2>2, <3>1 DEF PairFd, PeerFd
  <2> QED
    BY <2>1, <2>3
<1> QED
  BY <1>2, <1>3, ProxyNetAssumption DEF PeerFd

LEMMA RelayInv ==
  ASSUME Inv, NEW d \in Ends, Relay(d)
  PROVE  Inv' /\ GotOK
<1>1. Handling(d, "in") /\ batch' = batch \ {<<d, "in">>} /\ UNCHANGED <<cur, body, dirty>>
  BY DEF Relay, localVars
<1>2. d \in data /\ fdt[FdOfData(d)] = d /\ HasFd(fdt, d)
  BY <1>1, HandlingFacts DEF HasFd
<1>3. SocketsOK(sock) /\ TableOK(fdt)
  BY DEF Inv, NetOK, KernelOK
<1>4. CASE sock[d].in = <<>>
  <2>1. Settles(sock)
    BY DEF Settles, Alike, Inv, NetOK, KernelOK
  <2>2. Cleanup(d, sock) /\ UNCHANGED pc
    BY <1>2, <1>4 DEF Relay
  <2> QED
    BY <1>1, <2>1, <2>2, HandledInv
<1>5. CASE sock[d].in # <<>>
  <2>1. Head(sock[d].in).of = d
    BY <1>3, <1>5, ReadChunk DEF Reads
  <2>2. PICK r \in SendResults(PeerFd(d), d) :
          LET socks == [r.sock EXCEPT ![d].in = Tail(@)]
          IN  CASE r.ret = "killed" ->
                     pc' = "dead" /\ UNCHANGED <<netVars, conn, data, Table>>
                [] r.ret = "failed" -> Cleanup(d, socks) /\ UNCHANGED pc
                [] OTHER -> /\ sock' = socks
                            /\ UNCHANGED <<req, fdt, backlog, conn, data, Table, pc>>
    BY <1>2, <1>5, <2>1 DEF Relay
  <2>3. PICK socks : socks = [r.sock EXCEPT ![d].in = Tail(@)]
    OBVIOUS
  <2>4. PICK f \in 0 .. MaxFd : /\ f = PeerFd(d) /\ f # 1
                                /\ Other(d) \in data => f # 0 /\ fdt[f] = Other(d)
    BY <1>1, PeerFacts
  <2>5. /\ SocketsOK(r.sock) /\ Alike(sock, r.sock)
        /\ \A t \in Ends : /\ r.sock[t].in = sock[t].in
                           /\ (f = 0 \/ t # fdt[f]) => r.sock[t] = sock[t]
                           /\ r.sock[t].got \subseteq sock[t].got \cup {d}
    BY <1>3, <2>2, <2>4, SendResultsFacts
  <2>6. Reads(r.sock, socks, d)
    BY <1>5, <2>3, <2>5, ReadChunk
  <2>7. Settles(socks)
    <3>1. Alike(sock, socks)
      BY <2>5, <2>6 DEF Reads, Alike
    <3>2. \A t \in Ends : t # d => socks[t] = r.sock[t]
      BY <2>3, <2>5 DEF SocketsOK
    <3>3. \A t \in Ends : ~HasFd(fdt, t) => socks[t] = sock[t]
      <4> SUFFICES ASSUME NEW t \in Ends, ~HasFd(fdt, t) PROVE socks[t] = sock[t]
        OBVIOUS
      <4>1. t # d /\ (f = 0 \/ t # fdt[f])
        BY <1>2 DEF HasFd
      <4> QED
        BY <2>5, <3>2, <4>1
    <3>4. ASSUME NEW t \in Ends, NEW by \in socks[t].got, by \notin sock[t].got, Other(by) \in data
          PROVE  by = Other(t)
      <4>1. by \in r.sock[t].got
        BY <2>6 DEF Reads
      <4>2. by = d /\ f # 0 /\ t = fdt[f]
        BY <2>5, <3>4, <4>1
      <4> QED
        BY <2>4, <3>4, <4>2, EndsFacts
    <3> QED
      BY <2>6, <3>1, <3>3, <3>4 DEF Settles, Reads
  <2>8. CASE r.ret = "killed"
    <3>1. pc' = "dead" /\ UNCHANGED <<req, sock, fdt, backlog, conn, data>>
      BY <2>2, <2>8 DEF netVars
    <3> QED
      BY <1>1, <3>1, DeadInv
  <2>9. CASE r.ret = "failed"
    <3>1. Cleanup(d, socks) /\ UNCHANGED pc
      BY <2>2, <2>3, <2>9
    <3> QED
      BY <1>1, <2>7, <3>1, HandledInv
  <2>10. CASE r.ret \notin {"killed", "failed"}
    <3>1. sock' = socks /\ UNCHANGED <<req, fdt, backlog, conn, data, pc>>
      BY <2>2, <2>3, <2>10
    <3> QED
      BY <1>1, <2>7, <3>1, HandledInv
  <2> QED
    BY <2>8, <2>9, <2>10
<1> QED
  BY <1>4, <1>5

-----------------------------------------------------------------------------
(***************************************************************************)
(* The theorems.                                                           *)
(***************************************************************************)
LEMMA NextInv ==
  ASSUME Inv, [Next]_vars
  PROVE  Inv' /\ GotOK
<1>1. CASE UNCHANGED vars
  <2>1. UNCHANGED <<req, sock, fdt, backlog, conn, data, batch, pc, cur>>
    BY <1>1 DEF vars, netVars, pairVars, localVars
  <2>2. QueueOK' /\ BatchOK'
    BY <2>1 DEF Inv, NetOK, QueueOK, BatchOK, Waiting
  <2>3. ServeOK'
    BY <2>1 DEF Inv, ServeOK, Both, Waiting
  <2> QED
    BY <2>1, <2>2, <2>3 DEF Inv, NetOK, GotOK
<1>2. CASE Environment /\ UNCHANGED localVars
  BY <1>2, EnvironmentInv
<1>3. CASE epoll_wait /\ UNCHANGED localVars
  BY <1>3, WaitInv
<1>4. CASE Accept \/ ReadRequest \/ ReadAnswer \/ StoreAnswer \/ LosesAnswer
  BY <1>4, AcceptInv, ReadRequestInv, ReadAnswerInv, StoreAnswerInv, LosesAnswerInv
<1>5. CASE Serve
  BY <1>5, TurnedAwayInv, TunnelInv, ForwardInv, FromCacheInv DEF Serve
<1>6. CASE \E d \in Ends : Broken(d) \/ Relay(d)
  BY <1>6, BrokenInv, RelayInv
<1> QED
  BY <1>1, <1>2, <1>3, <1>4, <1>5, <1>6 DEF Next, Thread

(* The invariant holds of every state the proxy can reach, whatever the    *)
(* browsers ask and the upstreams answer.                                  *)
THEOREM InvIsInvariant == Spec => []Inv
<1>1. Inv /\ [Next]_vars => Inv'
  BY NextInv
<1> QED
  BY InitInv, <1>1, PTL DEF Spec

(* Type correctness: a descriptor is a socket's, the listening one, leaked *)
(* or free, and a Connection is referred to at most twice.                 *)
THEOREM TypeCorrect == Spec => []EpollTypeOK
<1>1. Inv => EpollTypeOK
  <2> SUFFICES ASSUME Inv PROVE EpollTypeOK
    OBVIOUS
  <2>1. fdt \in [1 .. MaxFd -> Ends \cup {Listen, Leaked, Free}]
    BY DEF Inv, NetOK, KernelOK, TableOK, Tables, Slots
  <2>2. data \subseteq Ends /\ \A i \in Conns : conn[i].refs \in 0 .. 2
    BY DEF Inv, CountsOK, Pairs
  <2>3. /\ cur.i \in 0 .. N /\ (pc \in {"request", "serve", "cache"} => cur.i # 0)
        /\ pc \in {"loop", "request", "serve", "cache", "dead"}
    BY ProxyNetAssumption DEF Inv, ServeOK, Conns
  <2> QED
    BY <2>1, <2>2, <2>3 DEF EpollTypeOK
<1> QED
  BY InvIsInvariant, <1>1, PTL

(* refs counts the Data of each Connection, which is freed with the last   *)
(* of them, and each Data owns the descriptor in its fd (cleanup_connection *)
(* and the branches that call it).                                         *)
THEOREM PairsCounted == Spec => []PairsAreCounted
<1>1. Inv => PairsAreCounted
  <2> SUFFICES ASSUME Inv PROVE PairsAreCounted
    OBVIOUS
  <2>1. \A i \in Conns : conn[i].refs = Cardinality({d \in data : d[1] = i})
    BY CountIs DEF Inv, CountsOK
  <2>2. \A d \in data : FdOfData(d) = PairFd(conn, d)
    BY DEF FdOfData, PairFd
  <2> QED
    BY <2>1, <2>2 DEF Inv, CountsOK, OwnsOK, PairsAreCounted
<1> QED
  BY InvIsInvariant, <1>1, PTL

(* No event of a batch is left that refers to released memory or to a      *)
(* closed or reused descriptor, in whichever order a batch is handled      *)
(* (the loop over the events of epoll_wait).                               *)
THEOREM BatchLive == Spec => []BatchIsLive
<1>1. Inv => BatchIsLive
  <2> SUFFICES ASSUME Inv, NEW e \in batch, e[1] # Listen
               PROVE  e[1] \in data /\ conn[e[1][1]].live /\ fdt[FdOfData(e[1])] = e[1]
    BY DEF BatchIsLive
  <2>1. e[1] \in data /\ e[1] \in Ends
    BY DEF Inv, NetOK, BatchOK
  <2>2. conn[e[1][1]].live
    BY <2>1, CountFacts, EndsFacts DEF Inv, CountsOK
  <2>3. fdt[FdOfData(e[1])] = e[1]
    BY <2>1 DEF Inv, OwnsOK, FdOfData, PairFd
  <2> QED
    BY <2>1, <2>2, <2>3
<1> QED
  BY InvIsInvariant, <1>1, PTL

(* A byte that is written to a socket is the proxy's or the partner's, or  *)
(* comes from a survivor whose own partner was released before (the relay  *)
(* writes to the number in the Connection, which may have been reused).    *)
THEOREM StrangersOnlyAfter == Spec => StrangersOnlyAfterClose
<1>1. Inv /\ [Next]_vars =>
        [\A s \in Ends : \A by \in sock'[s].got \ sock[s].got :
           by \in {Proxy, Other(s)} \/ Other(by) \notin data]_vars
  BY NextInv DEF GotOK
<1> QED
  BY InvIsInvariant, <1>1, PTL DEF Spec, StrangersOnlyAfterClose

-----------------------------------------------------------------------------
(***************************************************************************)
(* The cache.  What the proxy stores of an upstream that closed is all it  *)
(* sent, because such a socket sends no more, and a key is stored once.    *)
(***************************************************************************)
SentBy(j) == [n \in 1 .. sock[Server(j)].sent |-> Chunk(Server(j), n, req[j].binary)]
KeyOf(j) == getKeyfromRequest(parse_request(req[j]))

(* The nodes that the upstreams which have gone can have left.             *)
Gone(socks) == {j \in Conns : req[j] # NoRequest /\ socks[Server(j)].end \notin {"none", "open"}}
Answers == {createNode(KeyOf(j), SentBy(j), Len(SentBy(j))) : j \in Gone(sock)}

Fresh(socks) == \A s \in Ends : socks[s].end = "none" => socks[s].in = <<>> /\ socks[s].sent = 0

(* While an answer is read: what came of it, and that nothing is stored    *)
(* under its key.                                                          *)
Reading == /\ body \in Seq(ChunksOf(Server(cur.i)))
           /\ body \o sock[Server(cur.i)].in = SentBy(cur.i)
           /\ Place(Table, KeyOf(cur.i)) = 0

CacheOK == /\ Fresh(sock)
           /\ Table \in [Indexes -> Seq(Answers)]
           /\ pc # "cache" => body = <<>>
           /\ pc = "cache" => Reading

(* No socket that the other end closed sends more, and none is new again.  *)
Moves(socks, after) ==
  \A s \in Ends :
    /\ socks[s].end \notin {"none", "open"} =>
         after[s].end \notin {"none", "open"} /\ after[s].sent = socks[s].sent
    /\ after[s].end = "none" => /\ socks[s].end = "none" /\ after[s].in = socks[s].in
                                /\ after[s].sent = socks[s].sent

LEMMA MovesOn ==
  ASSUME NEW socks, NEW then, NEW after, Moves(socks, then), Moves(then, after)
  PROVE  Moves(socks, after)
BY DEF Moves

LEMMA SendOnMoves ==
  ASSUME NEW socks, SocketsOK(socks), NEW s \in Ends, NEW by, NEW r \in SendOn(s, by, socks)
  PROVE  /\ Moves(socks, r.sock)
         /\ \A t \in Ends : r.sock[t].in = socks[t].in /\ r.sock[t].sent = socks[t].sent
<1> DEFINE got == [socks EXCEPT ![s].got = @ \cup {by}]
           reset == [socks EXCEPT ![s].end = "rst"]
<1>1. socks[s] \in SocketsOf(s) /\ s \in DOMAIN socks
  BY DEF SocketsOK
<1>2. \A t \in Ends : got[t].end = socks[t].end /\ got[t].in = socks[t].in /\ got[t].sent = socks[t].sent
  BY <1>1 DEF SocketsOf, SocketsOK
<1>3. \A t \in Ends : /\ reset[t].end = (IF t = s THEN "rst" ELSE socks[t].end)
                      /\ reset[t].in = socks[t].in /\ reset[t].sent = socks[t].sent
  BY <1>1 DEF SocketsOf, SocketsOK
<1>4. \/ r = [ret |-> "sent", sock |-> got] \/ r = [ret |-> "again", sock |-> socks]
      \/ socks[s].end = "fin" /\ r = [ret |-> "sent", sock |-> reset]
      \/ r = [ret |-> "failed", sock |-> socks] \/ r = [ret |-> "killed", sock |-> socks]
  BY DEF SendOn
<1> HIDE DEF got, reset
<1>5. r.sock = socks \/ r.sock = got \/ (socks[s].end = "fin" /\ r.sock = reset)
  BY <1>4
<1> QED
  BY <1>2, <1>3, <1>5 DEF Moves

LEMMA SendResultsMoves ==
  ASSUME SocketsOK(sock), TableOK(fdt), NEW f \in 0 .. MaxFd, f # 1, NEW by, NEW r \in SendResults(f, by)
  PROVE  Moves(sock, r.sock)
<1>1. Moves(sock, sock)
  BY DEF Moves
<1>2. CASE r.sock = sock
  BY <1>1, <1>2
<1>3. CASE f # 0 /\ fdt[f] # Free /\ fdt[f] # Leaked
  <2>1. fdt[f] \in Ends
    BY <1>3 DEF TableOK, Tables, Slots
  <2>2. r \in SendOn(fdt[f], by, sock)
    BY <1>3 DEF SendResults
  <2> QED
    BY <2>1, <2>2, SendOnMoves
<1> QED
  BY <1>2, <1>3 DEF SendResults

LEMMA ReadMoves ==
  ASSUME NEW socks, SocketsOK(socks), Fresh(socks), NEW s \in Ends, socks[s].in # <<>>
  PROVE  Moves(socks, [socks EXCEPT ![s].in = Tail(@)])
<1> DEFINE after == [socks EXCEPT ![s].in = Tail(@)]
<1>1. socks[s] \in SocketsOf(s) /\ s \in DOMAIN socks
  BY DEF SocketsOK
<1>2. \A t \in Ends : /\ after[t].end = socks[t].end /\ after[t].sent = socks[t].sent
                      /\ t # s => after[t] = socks[t]
  BY <1>1 DEF SocketsOf, SocketsOK
<1>3. socks[s].end # "none"
  BY DEF Fresh
<1> HIDE DEF after
<1>4. Moves(socks, after)
  BY <1>2, <1>3 DEF Moves
<1> QED
  BY <1>4 DEF after

LEMMA ShutMoves ==
  ASSUME NEW socks, SocketsOK(socks), NEW S,
         NEW after, after = [s \in Ends |-> IF s \in S THEN Shut(socks[s]) ELSE socks[s]]
  PROVE  Moves(socks, after)
<1>1. \A s \in Ends : Shut(socks[s]).end = "closed" /\ Shut(socks[s]).sent = socks[s].sent
  BY DEF Shut, SocketsOK, SocketsOf
<1> QED
  BY <1>1 DEF Moves

LEMMA CleanMoves ==
  ASSUME NEW i, NEW D, NEW pairs, NEW table, NEW socks, SocketsOK(socks),
         cleanup_connection(i, D, pairs, table, socks)
  PROVE  Moves(socks, sock')
<1>1. PICK fds : sock' = [s \in Ends |-> IF s \in {table[f] : f \in fds} THEN Shut(socks[s])
                                        ELSE socks[s]]
  BY DEF cleanup_connection
<1> QED
  BY <1>1, ShutMoves

LEMMA FreshKept ==
  ASSUME NEW socks, NEW after, Fresh(socks), Moves(socks, after)
  PROVE  Fresh(after)
BY DEF Fresh, Moves

(* An answer that was stored stays one that can be.                        *)
LEMMA AnswersKept ==
  ASSUME Moves(sock, sock'), \A j \in Conns : req[j] # NoRequest => req'[j] = req[j]
  PROVE  /\ Answers \subseteq Answers'
         /\ Table \in [Indexes -> Seq(Answers)] => Table \in [Indexes -> Seq(Answers')]
<1>1. \A j \in Gone(sock) : /\ j \in Gone(sock)' /\ req'[j] = req[j]
                            /\ sock'[Server(j)].sent = sock[Server(j)].sent
  BY EndsFacts DEF Gone, Moves
<1>2. \A j \in Gone(sock) : SentBy(j)' = SentBy(j) /\ KeyOf(j)' = KeyOf(j)
  BY <1>1 DEF SentBy, KeyOf
<1>3. Answers \subseteq Answers'
  BY <1>1, <1>2 DEF Answers
<1>4. Seq(Answers) \subseteq Seq(Answers')
  BY <1>3, SeqMonotonic
<1> QED
  BY <1>3, <1>4

(* A step that stores nothing, while no answer is read.                    *)
LEMMA CacheKept ==
  ASSUME CacheOK, Moves(sock, sock'), \A j \in Conns : req[j] # NoRequest => req'[j] = req[j],
         Table' = Table, pc' # "cache", body' = <<>>
  PROVE  CacheOK'
<1>1. Fresh(sock')
  BY FreshKept DEF CacheOK
<1>2. Table' \in [Indexes -> Seq(Answers')]
  BY AnswersKept DEF CacheOK
<1> QED
  BY <1>1, <1>2 DEF CacheOK, Fresh

(* What the other ends do: an upstream's answer grows by its next chunk.   *)
Grows(s, i) == /\ sock'[s].sent = sock[s].sent + 1
               /\ sock'[s].in = Append(sock[s].in, Chunk(s, sock[s].sent + 1, req[i].binary))

LEMMA SendsMoves ==
  ASSUME SocketsOK(sock), NEW s \in Ends, NEW chunk, NEW sent, Sends(s, chunk, sent)
  PROVE  /\ Moves(sock, sock') /\ req' = req
         /\ sock'[s].in = Append(sock[s].in, chunk) /\ sock'[s].sent = sent
         /\ \A t \in Ends : t # s => sock'[t] = sock[t]
<1> DEFINE new == [[sock[s] EXCEPT !.in = Append(@, chunk)] EXCEPT !.sent = sent]
<1>1. sock[s] \in SocketsOf(s) /\ s \in DOMAIN sock
  BY DEF SocketsOK
<1>2. new.end = sock[s].end /\ new.sent = sent /\ new.in = Append(sock[s].in, chunk)
  BY <1>1 DEF SocketsOf
<1>3. sock' = [sock EXCEPT ![s] = new] /\ sock[s].end = "open" /\ req' = req
  BY <1>1 DEF Sends
<1>4. sock'[s] = new /\ \A t \in Ends : t # s => sock'[t] = sock[t]
  BY <1>1, <1>3
<1> HIDE DEF new
<1> QED
  BY <1>2, <1>3, <1>4 DEF Moves

LEMMA EndsMoves ==
  ASSUME SocketsOK(sock), NEW s \in Ends, NEW how \in {"fin", "rst"}, Ends_(s, how)
  PROVE  /\ Moves(sock, sock') /\ req' = req
         /\ \A t \in Ends : sock'[t].in = sock[t].in /\ sock'[t].sent = sock[t].sent
<1>1. sock[s] \in SocketsOf(s) /\ s \in DOMAIN sock
  BY DEF SocketsOK
<1>2. sock' = [sock EXCEPT ![s] = [sock[s] EXCEPT !.end = how]] /\ sock[s].end = "open" /\ req' = req
  BY <1>1 DEF Ends_
<1>3. /\ \A t \in Ends : t # s => sock'[t] = sock[t]
      /\ sock'[s].end = how /\ sock'[s].in = sock[s].in /\ sock'[s].sent = sock[s].sent
  BY <1>1, <1>2 DEF SocketsOf
<1> QED
  BY <1>2, <1>3 DEF Moves

LEMMA EnvironmentMoves ==
  ASSUME NetOK, Environment
  PROVE  /\ Moves(sock, sock')
         /\ \A j \in Conns : req[j] # NoRequest => req'[j] = req[j]
         /\ \A j \in Conns : \/ /\ sock'[Server(j)].in = sock[Server(j)].in
                                /\ sock'[Server(j)].sent = sock[Server(j)].sent
                             \/ Grows(Server(j), j)
<1>1. PICK i \in Conns : \/ Connect(i) \/ ClientSends(i) \/ ServerSends(i)
                         \/ ClientEnds(i) \/ ServerEnds(i)
  BY DEF Environment
<1>2. SocketsOK(sock) /\ Client(i) \in Ends /\ Server(i) \in Ends /\ Client(i) # Server(i)
      /\ \A j \in Conns : Server(j) \in Ends /\ Server(j) # Client(i) /\ (j # i => Server(j) # Server(i))
  BY EndsFacts DEF NetOK, KernelOK
<1>3. CASE Connect(i)
  <2>1. sock[Client(i)] \in SocketsOf(Client(i)) /\ Client(i) \in DOMAIN sock
    BY <1>2 DEF SocketsOK
  <2>2. sock' = [sock EXCEPT ![Client(i)] = [sock[Client(i)] EXCEPT !.end = "open"]]
        /\ sock[Client(i)].end = "none" /\ req[i] = NoRequest
    BY <1>3, <2>1 DEF Connect, NetOK, QueueOK
  <2>3. sock'[Client(i)].end = "open" /\ \A t \in Ends : t # Client(i) => sock'[t] = sock[t]
    BY <2>1, <2>2 DEF SocketsOf
  <2>4. \A j \in Conns : req[j] # NoRequest => req'[j] = req[j]
    <3>1. PICK c \in Scripts : req' = [req EXCEPT ![i] = c[i]]
      BY <1>3 DEF Connect
    <3> QED
      BY <2>2, <3>1 DEF NetOK, QueueOK
  <2>5. Moves(sock, sock')
    BY <1>2, <2>2, <2>3 DEF Moves
  <2> QED
    BY <1>2, <2>3, <2>4, <2>5
<1>4. CASE ClientSends(i)
  <2>1. PICK chunk, sent : Sends(Client(i), chunk, sent)
    BY <1>4 DEF ClientSends
  <2>2. Moves(sock, sock') /\ req' = req /\ \A t \in Ends : t # Client(i) => sock'[t] = sock[t]
    BY <1>2, <2>1, SendsMoves
  <2> QED
    BY <1>2, <2>2
<1>5. CASE ServerSends(i)
  <2>1. Sends(Server(i), Chunk(Server(i), sock[Server(i)].sent + 1, req[i].binary),
              sock[Server(i)].sent + 1)
    BY <1>5 DEF ServerSends
  <2>2. PICK chunk, sent : /\ chunk = Chunk(Server(i), sock[Server(i)].sent + 1, req[i].binary)
                           /\ sent = sock[Server(i)].sent + 1
    OBVIOUS
  <2>3. /\ Moves(sock, sock') /\ req' = req /\ \A t \in Ends : t # Server(i) => sock'[t] = sock[t]
        /\ sock'[Server(i)].in = Append(sock[Server(i)].in, chunk) /\ sock'[Server(i)].sent = sent
    BY <1>2, <2>1, <2>2, SendsMoves
  <2> QED
    BY <1>2, <2>2, <2>3 DEF Grows
<1>6. CASE ClientEnds(i) \/ ServerEnds(i)
  <2>1. PICK s \in Ends, how \in {"fin", "rst"} : Ends_(s, how)
    BY <1>2, <1>6 DEF ClientEnds, ServerEnds
  <2>2. /\ Moves(sock, sock') /\ req' = req
        /\ \A t \in Ends : sock'[t].in = sock[t].in /\ sock'[t].sent = sock[t].sent
    BY <1>2, <2>1, EndsMoves
  <2> QED
    BY <1>2, <2>2
<1> QED
  BY <1>1, <1>3, <1>4, <1>5, <1>6

(* The answer so far, with a chunk more at its end or taken at its front.  *)
LEMMA OneMoreChunk ==
  ASSUME NEW s, NEW nul, NEW n \in Nat
  PROVE  [k \in 1 .. n + 1 |-> Chunk(s, k, nul)]
           = Append([k \in 1 .. n |-> Chunk(s, k, nul)], Chunk(s, n + 1, nul))
OBVIOUS

LEMMA AppendLast ==
  ASSUME NEW S, NEW s \in Seq(S), NEW t \in Seq(S), NEW e \in S
  PROVE  s \o Append(t, e) = Append(s \o t, e)
OBVIOUS

LEMMA MoveFirst ==
  ASSUME NEW S, NEW s \in Seq(S), NEW t \in Seq(S), t # <<>>
  PROVE  Append(s, Head(t)) \o Tail(t) = s \o t
OBVIOUS

-----------------------------------------------------------------------------
LEMMA InitCache == Init => CacheOK
<1> SUFFICES ASSUME Init PROVE CacheOK
  OBVIOUS
<1> USE DEF Init, NetInit, PairInit
<1>1. Fresh(sock)
  BY DEF Fresh, NewSocket
<1>2. Table \in [Indexes -> Seq(Answers)]
  BY EmptySeq DEF initTable
<1> QED
  BY <1>1, <1>2 DEF CacheOK

LEMMA EnvironmentCache ==
  ASSUME Inv, CacheOK, Environment, UNCHANGED localVars
  PROVE  CacheOK'
<1>1. /\ Moves(sock, sock') /\ UNCHANGED <<Table, pc, cur, body>>
      /\ \A j \in Conns : req[j] # NoRequest => req'[j] = req[j]
      /\ \A j \in Conns : \/ /\ sock'[Server(j)].in = sock[Server(j)].in
                             /\ sock'[Server(j)].sent = sock[Server(j)].sent
                          \/ Grows(Server(j), j)
  BY EnvironmentFacts, EnvironmentMoves DEF Inv, OthersKeep, localVars
<1>2. CASE pc # "cache"
  BY <1>1, <1>2, CacheKept DEF CacheOK
<1>3. CASE pc = "cache"
  <2>1. PICK j, s : j = cur.i /\ s = Server(j)
    OBVIOUS
  <2>2. j \in Conns /\ s \in Ends /\ req'[j] = req[j] /\ cur'.i = j
    BY <1>1, <1>3, <2>1, EndsFacts DEF Inv, ServeOK
  <2>3. /\ body \in Seq(ChunksOf(s)) /\ body \o sock[s].in = SentBy(j)
        /\ Place(Table, KeyOf(j)) = 0
    BY <1>3, <2>1 DEF CacheOK, Reading
  <2>4. sock[s].in \in Seq(ChunksOf(s)) /\ sock[s].sent \in Nat
    BY <2>2, SocketTypes DEF Inv, NetOK, KernelOK
  <2>5. body \o sock'[s].in = SentBy(j)'
    <3>1. CASE sock'[s].in = sock[s].in /\ sock'[s].sent = sock[s].sent
      BY <2>1, <2>2, <2>3, <3>1 DEF SentBy
    <3>2. CASE Grows(s, j)
      <4>1. PICK n, b, c : n = sock[s].sent /\ b = req[j].binary /\ c = Chunk(s, n + 1, b)
        OBVIOUS
      <4>2. c \in ChunksOf(s)
        <5>1. b \in BOOLEAN
          <6>1. req[j] \in Requests
            BY <1>3, <2>1, RequestIsOne DEF Inv, NetOK, QueueOK, ServeOK
          <6> QED
            BY <4>1, <6>1 DEF Requests
        <5> QED
          BY <2>4, <4>1, <5>1 DEF Chunk, ChunksOf
      <4>3. SentBy(j) = [k \in 1 .. n |-> Chunk(s, k, b)]
        BY <2>1, <4>1 DEF SentBy
      <4>4. SentBy(j)' = [k \in 1 .. n + 1 |-> Chunk(s, k, b)]
        BY <2>1, <2>2, <3>2, <4>1 DEF SentBy, Grows
      <4>5. SentBy(j)' = Append(SentBy(j), c)
        BY <2>4, <4>1, <4>3, <4>4, OneMoreChunk
      <4>6. sock'[s].in = Append(sock[s].in, c)
        BY <3>2, <4>1 DEF Grows
      <4>7. body \o Append(sock[s].in, c) = Append(body \o sock[s].in, c)
        <5>1. PICK S, p, m : S = ChunksOf(s) /\ p = body /\ m = sock[s].in
          OBVIOUS
        <5>2. p \in Seq(S) /\ m \in Seq(S) /\ c \in S
          BY <2>3, <2>4, <4>2, <5>1
        <5>3. p \o Append(m, c) = Append(p \o m, c)
          BY <5>2, AppendLast
        <5> QED
          BY <5>1, <5>3
      <4> QED
        BY <2>3, <4>5, <4>6, <4>7, Zenon
    <3> QED
      BY <1>1, <2>1, <2>2, <3>1, <3>2
  <2>6. KeyOf(j)' = KeyOf(j)
    BY <2>1, <2>2 DEF KeyOf
  <2>7. Reading'
    BY <1>1, <2>1, <2>2, <2>3, <2>5, <2>6 DEF Reading, KeyOf, SentBy
  <2>8. Fresh(sock') /\ Table \in [Indexes -> Seq(Answers')]
    BY <1>1, FreshKept, AnswersKept DEF CacheOK
  <2> QED
    BY <1>1, <1>3, <2>7, <2>8 DEF CacheOK, Fresh
<1> QED
  BY <1>2, <1>3

(* Reading one more chunk of the answer.                                   *)
LEMMA ReadAnswerCache ==
  ASSUME Inv, CacheOK, ReadAnswer
  PROVE  CacheOK'
<1>1. PICK j, s : j = cur.i /\ s = Server(j)
  OBVIOUS
<1>2. /\ pc = "cache" /\ sock[s].in # <<>> /\ body' = Append(body, Head(sock[s].in))
      /\ sock' = [sock EXCEPT ![s].in = Tail(@)] /\ UNCHANGED <<req, Table, pc, cur>>
  BY <1>1 DEF ReadAnswer, pairVars
<1>3. j \in Conns /\ s \in Ends /\ SocketsOK(sock)
  BY <1>1, <1>2, EndsFacts DEF Inv, ServeOK, NetOK, KernelOK
<1>4. /\ body \in Seq(ChunksOf(s)) /\ body \o sock[s].in = SentBy(j)
      /\ Place(Table, KeyOf(j)) = 0 /\ Fresh(sock)
  BY <1>1, <1>2 DEF CacheOK, Reading
<1>5. sock[s].in \in Seq(ChunksOf(s)) /\ Head(sock[s].in) \in ChunksOf(s)
  BY <1>2, <1>3, SocketTypes, ReadChunk DEF Reads
<1>6. sock'[s].in = Tail(sock[s].in) /\ sock'[s].sent = sock[s].sent
  <2>1. sock[s] \in SocketsOf(s) /\ s \in DOMAIN sock
    BY <1>3 DEF SocketsOK
  <2> QED
    BY <1>2, <2>1 DEF SocketsOf
<1>7. Moves(sock, sock')
  BY <1>2, <1>3, <1>4, ReadMoves
<1>8. body' \o sock'[s].in = body \o sock[s].in /\ body' \in Seq(ChunksOf(s))
  <2>1. Append(body, Head(sock[s].in)) \o Tail(sock[s].in) = body \o sock[s].in
    BY <1>2, <1>4, <1>5, MoveFirst
  <2>2. Append(body, Head(sock[s].in)) \in Seq(ChunksOf(s))
    BY <1>4, <1>5, AppendProperties
  <2> QED
    BY <1>2, <1>6, <2>1, <2>2, Zenon
<1>9. Reading'
  <2>1. SentBy(j)' = SentBy(j) /\ KeyOf(j)' = KeyOf(j)
    BY <1>1, <1>2, <1>6 DEF SentBy, KeyOf
  <2>2. cur'.i = j /\ Table' = Table
    BY <1>1, <1>2
  <2>3. body' \in Seq(ChunksOf(s)) /\ body' \o sock'[s].in = SentBy(j)'
    BY <1>4, <1>8, <2>1, Zenon
  <2> QED
    BY <1>1, <1>4, <2>1, <2>2, <2>3 DEF Reading, KeyOf, SentBy
<1>10. Fresh(sock') /\ Table' \in [Indexes -> Seq(Answers')]
  BY <1>2, <1>7, FreshKept, AnswersKept DEF CacheOK
<1> QED
  BY <1>2, <1>9, <1>10 DEF CacheOK, Fresh

(* The steps that store nothing and read no answer.                        *)
LEMMA StillCache ==
  ASSUME CacheOK, UNCHANGED <<req, sock, Table>>, pc' # "cache", body' = <<>>
  PROVE  CacheOK'
<1>1. Moves(sock, sock')
  BY DEF Moves
<1> QED
  BY <1>1, CacheKept

LEMMA LoopCache ==
  ASSUME Inv, CacheOK, Accept \/ ReadRequest \/ (epoll_wait /\ UNCHANGED localVars)
  PROVE  CacheOK'
<1>1. CASE Accept
  BY <1>1, StillCache DEF Accept, Handling, CacheOK
<1>2. CASE ReadRequest
  <2>1. /\ pc = "request" /\ pc' # "cache" /\ UNCHANGED <<req, Table, body>> /\ body = <<>>
        /\ Client(cur.i) \in Ends /\ SocketsOK(sock) /\ Fresh(sock)
    BY <1>2, EndsFacts DEF ReadRequest, pairVars, CacheOK, Inv, ServeOK, NetOK, KernelOK
  <2>2. CASE UNCHANGED sock
    BY <2>1, <2>2, StillCache
  <2>3. CASE /\ sock[Client(cur.i)].in # <<>>
             /\ sock' = [sock EXCEPT ![Client(cur.i)].in = Tail(@)]
    <3>1. Moves(sock, sock')
      BY <2>1, <2>3, ReadMoves
    <3> QED
      BY <2>1, <3>1, CacheKept
  <2> QED
    BY <1>2, <2>2, <2>3 DEF ReadRequest
<1>3. CASE epoll_wait /\ UNCHANGED localVars
  BY <1>3, StillCache DEF epoll_wait, netVars, localVars, CacheOK
<1> QED
  BY <1>1, <1>2, <1>3

LEMMA DeadCache ==
  ASSUME CacheOK, Dead
  PROVE  CacheOK'
BY StillCache DEF Dead, pairVars, netVars

LEMMA CloseMoves ==
  ASSUME NEW socks, SocketsOK(socks), NEW s \in Ends
  PROVE  Moves(socks, [socks EXCEPT ![s] = Shut(@)])
<1>1. [socks EXCEPT ![s] = Shut(@)] = [t \in Ends |-> IF t \in {s} THEN Shut(socks[t]) ELSE socks[t]]
  BY DEF SocketsOK
<1> QED
  BY <1>1, ShutMoves

LEMMA TurnedAwayCache ==
  ASSUME Inv, CacheOK, Refuse \/ Malformed \/ NoUpstream
  PROVE  CacheOK'
<1>1. pc = "serve" /\ Client(cur.i) \in Ends /\ SocketsOK(sock) /\ TableOK(fdt)
  BY ServingFacts DEF Refuse, Malformed, NoUpstream, Serving, Inv, NetOK, KernelOK
<1>2. ASSUME NEW socks, SocketsOK(socks), Moves(sock, socks), UNCHANGED <<req, Table>>, ToLoop,
             sock' = [socks EXCEPT ![Client(cur.i)] = Shut(@)]
      PROVE  CacheOK'
  <2>1. Moves(sock, sock')
    BY <1>1, <1>2, CloseMoves, MovesOn
  <2> QED
    BY <1>2, <2>1, CacheKept DEF ToLoop
<1>3. Moves(sock, sock)
  BY DEF Moves
<1>0. CASE Dead
  BY <1>0, DeadCache
<1>4. CASE Refuse /\ ~Dead
  <2>1. PICK r \in SendResults(FdOf(Client(cur.i)), Proxy) :
          IF r.ret = "killed" THEN Dead ELSE ToLoop /\ CloseClient(r.sock)
    BY <1>4 DEF Refuse
  <2>2. FdOf(Client(cur.i)) \in 0 .. MaxFd /\ FdOf(Client(cur.i)) # 1
    BY <1>1, ServingFacts, ProxyNetAssumption
  <2>3. SocketsOK(r.sock) /\ Moves(sock, r.sock)
    BY <1>1, <2>2, SendResultsFacts, SendResultsMoves
  <2> QED
    BY <1>2, <2>1, <2>3, DeadCache DEF CloseClient, pairVars
<1>5. CASE Malformed
  BY <1>1, <1>2, <1>3, <1>5 DEF Malformed, CloseClient, pairVars
<1>6. CASE NoUpstream
  BY <1>1, <1>2, <1>3, <1>6 DEF NoUpstream, pairVars
<1> QED
  BY <1>0, <1>4, <1>5, <1>6

(* connect(), and send() on one of the two sockets.                        *)
LEMMA ConnectedMoves ==
  ASSUME Inv, CacheOK, pc = "serve", NEW close \in BOOLEAN
  PROVE  /\ Moves(sock, Connected(close))
         /\ Connected(close)[Server(cur.i)].in = <<>> /\ Connected(close)[Server(cur.i)].sent = 0
<1>1. /\ Server(cur.i) \in Ends /\ Both \subseteq Ends /\ SocketsOK(sock) /\ Fresh(sock)
      /\ sock[Server(cur.i)].end = "none"
  BY ServingFacts DEF Both, Untouched, Inv, NetOK, KernelOK, CacheOK
<1>2. PICK u \in Ends : u = Server(cur.i)
  BY <1>1
<1>3. PICK socks : socks = [sock EXCEPT ![u] = [[sock[u] EXCEPT !.end = "open"] EXCEPT !.close = close]]
  OBVIOUS
<1>4. socks = Connected(close)
  BY <1>2, <1>3 DEF Connected
<1>5. /\ \A t \in Ends : t # u => socks[t] = sock[t]
      /\ socks[u].end = "open" /\ socks[u].in = sock[u].in /\ socks[u].sent = sock[u].sent
  <2>1. sock[u] \in SocketsOf(u) /\ u \in DOMAIN sock
    BY <1>1 DEF SocketsOK
  <2>2. PICK new : new = [[sock[u] EXCEPT !.end = "open"] EXCEPT !.close = close]
    OBVIOUS
  <2>3. new.end = "open" /\ new.in = sock[u].in /\ new.sent = sock[u].sent
    BY <2>1, <2>2 DEF SocketsOf
  <2>4. socks = [sock EXCEPT ![u] = new]
    BY <1>3, <2>2
  <2> QED
    BY <2>1, <2>3, <2>4
<1>6. Moves(sock, socks) /\ socks[u].in = <<>> /\ socks[u].sent = 0
  BY <1>1, <1>2, <1>5 DEF Moves, Fresh
<1> QED
  BY <1>2, <1>4, <1>6

LEMMA PairMoves ==
  ASSUME Inv, CacheOK, pc = "serve", NEW close \in BOOLEAN,
         NEW s \in Both, NEW by, NEW r \in SendOn(s, by, Connected(close))
  PROVE  /\ Moves(sock, r.sock)
         /\ r.sock[Server(cur.i)].in = <<>> /\ r.sock[Server(cur.i)].sent = 0
<1>1. Server(cur.i) \in Ends /\ Both \subseteq Ends
  BY ServingFacts DEF Both
<1>2. PICK socks : socks = Connected(close)
  OBVIOUS
<1>3. SocketsOK(socks)
  BY <1>2, PairFacts DEF KernelOK
<1>4. /\ Moves(sock, socks)
      /\ socks[Server(cur.i)].in = <<>> /\ socks[Server(cur.i)].sent = 0
  BY <1>2, ConnectedMoves
<1>5. Moves(socks, r.sock) /\ r.sock[Server(cur.i)].in = socks[Server(cur.i)].in
      /\ r.sock[Server(cur.i)].sent = socks[Server(cur.i)].sent
  BY <1>1, <1>2, <1>3, SendOnMoves
<1> QED
  BY <1>4, <1>5, MovesOn

LEMMA RegisteredCache ==
  ASSUME Inv, CacheOK, pc = "serve", NEW close \in BOOLEAN,
         NEW s \in Both, NEW by, NEW r \in SendOn(s, by, Connected(close)),
         Registered(r.sock), ToLoop \/ (~Cached /\ pc' = "cache" /\ UNCHANGED <<cur, body>>)
  PROVE  CacheOK'
<1>1. /\ Moves(sock, r.sock)
      /\ r.sock[Server(cur.i)].in = <<>> /\ r.sock[Server(cur.i)].sent = 0
  BY PairMoves
<1>2. UNCHANGED <<req, Table>> /\ sock' = r.sock
  BY DEF Registered
<1>3. CASE ToLoop
  BY <1>1, <1>2, <1>3, CacheKept DEF ToLoop
<1>4. CASE ~Cached /\ pc' = "cache" /\ UNCHANGED <<cur, body>>
  <2>1. Fresh(sock') /\ Table' \in [Indexes -> Seq(Answers')]
    BY <1>1, <1>2, FreshKept, AnswersKept DEF CacheOK
  <2>2. body' = <<>> /\ cur' = cur
    BY <1>4 DEF CacheOK
  <2>3. sock'[Server(cur'.i)].in = <<>> /\ sock'[Server(cur'.i)].sent = 0
    BY <1>1, <1>2, <2>2
  <2>4. Place(Table', KeyOf(cur.i)') = 0
    BY <1>2, <1>4, <2>2 DEF Cached, isAvailable, request, KeyOf
  <2>5. SentBy(cur.i)' = <<>>
    BY <2>3 DEF SentBy
  <2>6. <<>> \in Seq(ChunksOf(Server(cur'.i))) /\ <<>> \o <<>> = <<>>
    BY EmptySeq
  <2>7. Reading'
    BY <2>2, <2>3, <2>4, <2>5, <2>6 DEF Reading, KeyOf, SentBy
  <2> QED
    BY <1>4, <2>1, <2>7 DEF CacheOK, Fresh
<1> QED
  BY <1>3, <1>4

LEMMA PairCache ==
  ASSUME Inv, CacheOK, Tunnel \/ Fetch \/ Forward
  PROVE  CacheOK'
<1>1. pc = "serve" /\ Client(cur.i) \in Both /\ Server(cur.i) \in Both
  BY DEF Tunnel, Fetch, Forward, ToCache, Upstream, Serving, Both
<1>2. CASE Tunnel
  BY <1>1, <1>2, RegisteredCache, DeadCache DEF Tunnel
<1>3. CASE Fetch \/ Forward
  <2>1. PICK close \in BOOLEAN :
          close <=> "Connection: close" \in forward_http_request(req[cur.i])
    OBVIOUS
  <2>2. Forwarded = SendOn(Server(cur.i), Client(cur.i), Connected(close))
    BY <2>1 DEF Forwarded
  <2>3. \/ Dead
        \/ \E r \in Forwarded :
             Registered(r.sock) /\ (ToLoop \/ (~Cached /\ pc' = "cache" /\ UNCHANGED <<cur, body>>))
    BY <1>3 DEF Fetch, Forward, ToCache
  <2> QED
    BY <1>1, <2>2, <2>3, RegisteredCache, DeadCache
<1> QED
  BY <1>2, <1>3

-----------------------------------------------------------------------------
(* An answer that is stored is the whole answer of an upstream that has    *)
(* closed, under a key that the cache did not have.                        *)
LEMMA StoreFacts ==
  ASSUME Inv, CacheOK, pc = "cache", sock[Server(cur.i)].in = <<>>,
         sock[Server(cur.i)].end = "fin", Moves(sock, sock'), req' = req,
         Table' = put(Table, getKeyfromRequest(request), body, Len(body))
  PROVE  Table' \in [Indexes -> Seq(Answers')]
<1>1. PICK j \in Conns : j = cur.i /\ req[j] # NoRequest
  BY DEF Inv, ServeOK
<1>2. body = SentBy(j) /\ Place(Table, KeyOf(j)) = 0
  <2>1. body \o sock[Server(cur.i)].in = SentBy(cur.i) /\ Place(Table, KeyOf(cur.i)) = 0
    BY DEF CacheOK, Reading
  <2>2. body \in Seq(ChunksOf(Server(cur.i)))
    BY DEF CacheOK, Reading
  <2>3. body \o <<>> = body
    BY <2>2, ConcatEmptySeq
  <2> QED
    BY <1>1, <2>1, <2>3
<1>3. PICK new : new = createNode(KeyOf(j), body, Len(body))
  OBVIOUS
<1>4. new \in Answers'
  <2>1. j \in Gone(sock)' /\ sock'[Server(j)].sent = sock[Server(j)].sent
    BY <1>1, EndsFacts DEF Gone, Moves
  <2>2. SentBy(j)' = SentBy(j) /\ KeyOf(j)' = KeyOf(j)
    BY <2>1 DEF SentBy, KeyOf
  <2>3. new = createNode(KeyOf(j), SentBy(j), Len(SentBy(j)))'
    BY <1>2, <1>3, <2>2
  <2> QED
    BY <2>1, <2>3 DEF Answers
<1>5. PICK T, S, h : T = Table /\ S = Answers' /\ h = hash(KeyOf(j))
  OBVIOUS
<1>6. Table' = [T EXCEPT ![h] = Append(@, new)]
  <2>1. getKeyfromRequest(request) = KeyOf(j)
    BY <1>1 DEF request, KeyOf
  <2> QED
    BY <1>2, <1>3, <1>5, <2>1 DEF put
<1>7. T \in [Indexes -> Seq(S)]
  BY <1>5, AnswersKept DEF CacheOK
<1>8. PICK longer : longer = Append(T[h], new)
  OBVIOUS
<1>9. h \in Indexes => longer \in Seq(S)
  BY <1>4, <1>5, <1>7, <1>8, AppendProperties
<1>10. Table' = [T EXCEPT ![h] = longer]
  BY <1>6, <1>8
<1>11. Table' \in [Indexes -> Seq(S)]
  BY <1>7, <1>9, <1>10
<1> QED
  BY <1>5, <1>11

LEMMA AnswerMoves ==
  ASSUME NEW pairs, NEW table, NEW fds, NEW socks, SocketsOK(socks), Client(cur.i) \in Ends,
         AnswerAndClose(pairs, table, fds, socks)
  PROVE  \/ Dead
         \/ ToLoop /\ Table' = table /\ req' = req /\ Moves(socks, sock')
<1>1. PICK r \in SendOn(Client(cur.i), Proxy, socks) :
        IF r.ret = "killed" THEN Dead
        ELSE /\ ToLoop /\ Table' = table /\ UNCHANGED <<req, backlog, batch>>
             /\ IF r.ret = "sent" /\ Answer(table) # <<>>
                THEN cleanup_connection(cur.i, Both, pairs, fds, r.sock)
                ELSE conn' = pairs /\ data' = data \cup Both /\ fdt' = fds /\ sock' = r.sock
  BY DEF AnswerAndClose
<1>2. Moves(socks, r.sock) /\ SocketsOK(r.sock)
  BY SendOnMoves, SendOnFacts
<1>3. ASSUME cleanup_connection(cur.i, Both, pairs, fds, r.sock)
      PROVE  Moves(r.sock, sock')
  BY <1>2, <1>3, CleanMoves
<1> QED
  BY <1>1, <1>2, <1>3, MovesOn

LEMMA AnswerCache ==
  ASSUME Inv, CacheOK, FromCache \/ StoreAnswer \/ LosesAnswer
  PROVE  CacheOK'
<1>1. pc \in {"serve", "cache"} => Client(cur.i) \in Ends
  BY EndsFacts DEF Inv, ServeOK
<1>2. CASE FromCache
  <2>1. pc = "serve" /\ AnswerAndClose(Paired, Table, Opened, Connected(FALSE))
    BY <1>2 DEF FromCache, Upstream, Serving
  <2>2. SocketsOK(Connected(FALSE))
    BY <2>1, PairFacts DEF KernelOK
  <2>3. Moves(sock, Connected(FALSE))
    BY <2>1, ConnectedMoves
  <2>4. Dead \/ (ToLoop /\ Table' = Table /\ req' = req /\ Moves(Connected(FALSE), sock'))
    BY <1>1, <2>1, <2>2, AnswerMoves
  <2> QED
    BY <2>3, <2>4, DeadCache, CacheKept, MovesOn DEF ToLoop
<1>3. CASE StoreAnswer
  <2>1. /\ pc = "cache" /\ sock[Server(cur.i)].in = <<>> /\ sock[Server(cur.i)].end = "fin"
        /\ AnswerAndClose(conn, put(Table, getKeyfromRequest(request), body, Len(body)), fdt, sock)
        /\ SocketsOK(sock)
    BY <1>3 DEF StoreAnswer, Inv, NetOK, KernelOK
  <2>2. \/ Dead
        \/ /\ ToLoop /\ Table' = put(Table, getKeyfromRequest(request), body, Len(body))
           /\ req' = req /\ Moves(sock, sock')
    BY <1>1, <2>1, AnswerMoves
  <2>3. ASSUME ToLoop, Table' = put(Table, getKeyfromRequest(request), body, Len(body)),
               req' = req, Moves(sock, sock')
        PROVE  CacheOK'
    <3>1. Table' \in [Indexes -> Seq(Answers')]
      BY <2>1, <2>3, StoreFacts
    <3>2. Fresh(sock')
      BY <2>3, FreshKept DEF CacheOK
    <3> QED
      BY <2>3, <3>1, <3>2 DEF CacheOK, Fresh, ToLoop
  <2> QED
    BY <2>2, <2>3, DeadCache
<1>4. CASE LosesAnswer
  BY <1>4, DeadCache DEF LosesAnswer
<1> QED
  BY <1>2, <1>3, <1>4

LEMMA HandledCache ==
  ASSUME Inv, CacheOK, NEW d \in Ends, Broken(d) \/ Relay(d)
  PROVE  CacheOK'
<1>1. pc = "loop" /\ body = <<>> /\ body' = body
  BY DEF Broken, Relay, Handling, localVars, CacheOK
<1>2. SocketsOK(sock) /\ TableOK(fdt) /\ Fresh(sock) /\ Moves(sock, sock)
  BY DEF Inv, NetOK, KernelOK, CacheOK, Moves
<1>3. ASSUME NEW socks, SocketsOK(socks), Moves(sock, socks), Cleanup(d, socks), UNCHANGED pc
      PROVE  CacheOK'
  <2>1. Moves(socks, sock') /\ UNCHANGED <<req, Table>>
    <3>1. CASE sock' = socks
      BY <1>3, <3>1 DEF Cleanup, Moves
    <3>2. CASE cleanup_connection(d[1], Released(d), conn, fdt, socks)
      BY <1>3, <3>2, CleanMoves DEF Cleanup
    <3> QED
      BY <1>3, <3>1, <3>2 DEF Cleanup
  <2> QED
    BY <1>1, <1>3, <2>1, CacheKept, MovesOn
<1>4. CASE Broken(d)
  BY <1>2, <1>3, <1>4 DEF Broken
<1>5. CASE Relay(d) /\ sock[d].in = <<>>
  <2>1. d \in data /\ fdt[FdOfData(d)] = d
    BY <1>5, HandlingFacts DEF Relay
  <2> QED
    BY <1>2, <1>3, <1>5, <2>1 DEF Relay
<1>6. CASE Relay(d) /\ sock[d].in # <<>>
  <2>1. fdt[FdOfData(d)] = d /\ PeerFd(d) \in 0 .. MaxFd /\ PeerFd(d) # 1 /\ Head(sock[d].in).of = d
    BY <1>2, <1>6, HandlingFacts, PeerFacts, ReadChunk DEF Relay, Reads
  <2>2. PICK r \in SendResults(PeerFd(d), d) :
          LET socks == [r.sock EXCEPT ![d].in = Tail(@)]
          IN  CASE r.ret = "killed" ->
                     pc' = "dead" /\ UNCHANGED <<netVars, conn, data, Table>>
                [] r.ret = "failed" -> Cleanup(d, socks) /\ UNCHANGED pc
                [] OTHER -> /\ sock' = socks
                            /\ UNCHANGED <<req, fdt, backlog, conn, data, Table, pc>>
    BY <1>6, <2>1 DEF Relay
  <2>3. PICK socks : socks = [r.sock EXCEPT ![d].in = Tail(@)]
    OBVIOUS
  <2>4. Moves(sock, r.sock) /\ SocketsOK(r.sock) /\ r.sock[d].in = sock[d].in
    BY <1>2, <2>1, <2>2, SendResultsFacts, SendResultsMoves
  <2>5. Moves(sock, socks) /\ SocketsOK(socks)
    <3>1. Fresh(r.sock)
      BY <1>2, <2>4, FreshKept
    <3>2. Moves(r.sock, socks) /\ SocketsOK(socks)
      BY <1>6, <2>3, <2>4, <3>1, ReadMoves, ReadChunk DEF Reads
    <3> QED
      BY <2>4, <3>2, MovesOn
  <2>6. CASE r.ret = "killed"
    BY <1>1, <2>2, <2>6, StillCache DEF netVars
  <2>7. CASE r.ret = "failed"
    <3>1. Cleanup(d, socks) /\ UNCHANGED pc
      BY <2>2, <2>3, <2>7
    <3> QED
      BY <1>3, <2>5, <3>1
  <2>8. CASE r.ret \notin {"killed", "failed"}
    <3>1. sock' = socks /\ UNCHANGED <<req, Table, pc>>
      BY <2>2, <2>3, <2>8
    <3> QED
      BY <1>1, <2>5, <3>1, CacheKept
  <2> QED
    BY <2>6, <2>7, <2>8
<1> QED
  BY <1>4, <1>5, <1>6

LEMMA NextCache ==
  ASSUME Inv, CacheOK, [Next]_vars
  PROVE  CacheOK'
<1>1. CASE UNCHANGED vars
  <2>1. UNCHANGED <<req, sock, Table, pc, cur, body>>
    BY <1>1 DEF vars, netVars, pairVars, localVars
  <2>2. Moves(sock, sock')
    BY <2>1 DEF Moves
  <2>3. Table' \in [Indexes -> Seq(Answers')]
    BY <2>1, <2>2, AnswersKept DEF CacheOK
  <2>4. pc = "cache" => Reading'
    BY <2>1 DEF CacheOK, Reading, SentBy, KeyOf
  <2> QED
    BY <2>1, <2>3, <2>4 DEF CacheOK, Fresh
<1>2. CASE Environment /\ UNCHANGED localVars
  BY <1>2, EnvironmentCache
<1>3. CASE (epoll_wait /\ UNCHANGED localVars) \/ Accept \/ ReadRequest
  BY <1>3, LoopCache
<1>4. CASE ReadAnswer \/ StoreAnswer \/ LosesAnswer
  BY <1>4, ReadAnswerCache, AnswerCache
<1>5. CASE Serve
  BY <1>5, TurnedAwayCache, PairCache, AnswerCache DEF Serve
<1>6. CASE \E d \in Ends : Broken(d) \/ Relay(d)
  BY <1>6, HandledCache
<1> QED
  BY <1>1, <1>2, <1>3, <1>4, <1>5, <1>6 DEF Next, Thread

(* A node of the cache is the whole answer of one upstream to a request    *)
(* with its key, with that answer's length, and stays so: put() on line    *)
(* 276 never replaces a value and keeps the length of the one before.      *)
THEOREM CacheWhole == Spec => []CacheHoldsWholeAnswers
<1>1. CacheOK => CacheHoldsWholeAnswers
  <2> SUFFICES ASSUME CacheOK, NEW x \in Indexes, NEW k \in DOMAIN Table[x]
               PROVE  \E j \in Conns :
                        LET all == [n \in 1 .. sock[Server(j)].sent |-> Chunk(Server(j), n, req[j].binary)]
                        IN  /\ Table[x][k].key = getKeyfromRequest(parse_request(req[j]))
                            /\ Table[x][k].length = Len(all) /\ Table[x][k].value = strdup(all)
    BY DEF CacheHoldsWholeAnswers
  <2>1. Table[x] \in Seq(Answers)
    BY DEF CacheOK
  <2>2. Table[x][k] \in Answers
    BY <2>1, LenProperties, ElementOfSeq
  <2>3. PICK j \in Conns : Table[x][k] = createNode(KeyOf(j), SentBy(j), Len(SentBy(j)))
    BY <2>2 DEF Answers, Gone
  <2>4. /\ Table[x][k].key = KeyOf(j) /\ Table[x][k].length = Len(SentBy(j))
        /\ Table[x][k].value = strdup(SentBy(j))
    BY <2>3 DEF createNode
  <2> QED
    BY <2>4 DEF SentBy, KeyOf
<1>2. Inv /\ CacheOK /\ [Next]_vars => CacheOK'
  BY NextCache
<1> QED
  BY InvIsInvariant, InitCache, <1>1, <1>2, PTL DEF Spec
=============================================================================
