------------------------ MODULE EfficientProxy_proofs ------------------------
(***************************************************************************)
(* Proofs about EfficientProxy, for any browsers, requests and             *)
(* descriptors: the events of a batch stay about live memory although Data *)
(* are left behind whose number is free, and keys are not mixed.           *)
(***************************************************************************)
EXTENDS EfficientProxy, ProxyNet_proofs

(***************************************************************************)
(* The invariant.                                                          *)
(***************************************************************************)
(* The Data whose socket is open.  Those of lines 176 and 203 are not.     *)
Owners == {d \in data : HasFd(fdt, d)}

(* A key is that of the connection's own request.                          *)
KeysOK(pairs, reqs) ==
  \A i \in Conns : pairs[i].key # NoKey =>
    reqs[i] # NoRequest /\ pairs[i].key = getKeyfromRequest(parse_request(reqs[i]))

(* A Connection whose request was not read has no upstream.                *)
NewOK(pairs, socks) ==
  \A i \in Conns : pairs[i].live /\ ~pairs[i].authorized => socks[Server(i)].end = "none"

OpenedOK(D, table, socks) == /\ \A s \in Ends : HasFd(table, s) => s \in D
                             /\ \A d \in D : socks[d].end # "none"

PairsOK == /\ CountsOK(conn, data) /\ OwnsOK(conn, Owners, fdt)
           /\ KeysOK(conn, req) /\ NewOK(conn, sock) /\ OpenedOK(data, fdt, sock)

(* A cached chunk came in answer to a request with that key.               *)
Nodes == [key : Keys, value : Seq([of : Ends, part : Nat, nul : BOOLEAN]), length : Nat]
NodeOK(node) ==
  /\ Len(node.value) = 1 /\ node.length = node.value[1].part
  /\ req[node.value[1].of[1]] # NoRequest
  /\ node.key = getKeyfromRequest(request(node.value[1].of[1]))

(* A chain in which each key has one node.                                 *)
Chained(chain) ==
  /\ chain \in Seq(Nodes)
  /\ \A k \in 1 .. Len(chain) : NodeOK(chain[k])
  /\ \A j, k \in 1 .. Len(chain) : chain[j].key = chain[k].key => j = k

CacheOK == DOMAIN Table = Indexes /\ \A x \in Indexes : Chained(Table[x])

Core == NetOK /\ PairsOK /\ pc \in {"loop", "dead"}

-----------------------------------------------------------------------------
(***************************************************************************)
(* Facts for every step.                                                   *)
(***************************************************************************)
LEMMA InitCore == Init => Core
<1> SUFFICES ASSUME Init PROVE Core
  OBVIOUS
<1> USE DEF Init, NetInit, PairInit
<1>1. NetOK /\ \A s \in Ends : ~HasFd(fdt, s)
  BY NetInitOK
<1>2. CountsOK(conn, data) /\ OwnsOK(conn, Owners, fdt)
  BY ProxyNetAssumption DEF CountsOK, OwnsOK, Owners, Count, NoPair, Pairs, Keys
<1>3. KeysOK(conn, req) /\ NewOK(conn, sock) /\ OpenedOK(data, fdt, sock)
  BY <1>1 DEF KeysOK, NewOK, OpenedOK, NoPair
<1> QED
  BY <1>1, <1>2, <1>3 DEF Core, PairsOK

LEMMA DeadCore ==
  ASSUME Core, pc' \in {pc, "dead"}, UNCHANGED <<req, sock, fdt, backlog, conn, data>>,
         batch' \subseteq batch
  PROVE  Core'
<1>1. QueueOK'
  BY DEF Core, NetOK, QueueOK, Waiting
<1>2. BatchOK'
  BY DEF Core, NetOK, BatchOK
<1>3. Owners' = Owners
  BY DEF Owners
<1> QED
  BY <1>1, <1>2, <1>3 DEF Core, NetOK, PairsOK

LEMMA EnvironmentCore ==
  ASSUME Core, Environment
  PROVE  Core'
<1>1. NetOK' /\ OthersKeep
  BY EnvironmentFacts DEF Core
<1>2. UNCHANGED <<fdt, conn, data, pc>> /\ Owners' = Owners
  BY <1>1 DEF OthersKeep, Owners
<1>3. KeysOK(conn', req')
  BY <1>1, <1>2 DEF Core, PairsOK, KeysOK, OthersKeep
<1>4. NewOK(conn', sock')
  BY <1>1, <1>2 DEF Core, PairsOK, NewOK, OthersKeep
<1>5. OpenedOK(data', fdt', sock')
  <2>1. \A d \in data : d \in Ends /\ sock[d].end # "none"
    BY DEF Core, PairsOK, CountsOK, OpenedOK
  <2> QED
    BY <1>1, <1>2, <2>1 DEF Core, PairsOK, OpenedOK, OthersKeep
<1> QED
  BY <1>1, <1>2, <1>3, <1>4, <1>5 DEF Core, PairsOK

LEMMA WaitCore ==
  ASSUME Core, epoll_wait
  PROVE  Core'
<1>1. NetOK' /\ UNCHANGED <<req, sock, fdt, backlog, conn, data, Table, pc>>
  BY WaitFacts DEF Core, PairsOK, CountsOK
<1>2. Owners' = Owners
  BY <1>1 DEF Owners
<1> QED
  BY <1>1, <1>2 DEF Core, PairsOK

LEMMA AcceptCore ==
  ASSUME Core, Accept
  PROVE  Core'
<1>0. PICK i : i = Head(backlog)
  OBVIOUS
<1>1. /\ i \in Conns /\ Untouched(i, data, sock) /\ req[i] # NoRequest
      /\ Lowest(fdt) \in 2 .. MaxFd /\ fdt'[Lowest(fdt)] = Client(i)
      /\ \A g \in 1 .. MaxFd : fdt[g] \in Ends => fdt'[g] = fdt[g]
      /\ \A t \in Ends : HasFd(fdt', t) <=> (HasFd(fdt, t) \/ t = Client(i))
      /\ NetOK'
  <2>1. Accepts(i)
    BY <1>0, AcceptFacts DEF Core, Accept, Handling, Handled
  <2> QED
    BY <2>1 DEF Accepts
<1>2. /\ UNCHANGED <<req, sock, pc>> /\ data' = data \cup {Client(i)}
      /\ conn' = [conn EXCEPT ![i] = createConnection(Lowest(fdt))]
  BY <1>0 DEF Accept
<1>3. PICK g \in 2 .. MaxFd : g = Lowest(fdt)
  BY <1>1
<1>4. PICK p \in Pairs : /\ p = createConnection(g) /\ p.live /\ p.refs = 1 /\ p.fd1 = g
                         /\ p.fd2 = 0 /\ p.key = NoKey
  <2> DEFINE new == createConnection(g)
  <2>1. /\ new.live /\ new.refs = 1 /\ new.fd1 = g /\ new.fd2 = 0 /\ new.key = NoKey
    BY DEF createConnection, NoPair
  <2>2. new \in Pairs
    <3>1. 0 \in 0 .. MaxFd /\ g \in 0 .. MaxFd /\ NoKey \in Keys
      BY ProxyNetAssumption DEF Keys
    <3>2. NoPair \in Pairs
      BY <3>1 DEF NoPair, Pairs
    <3>3. ASSUME NEW old \in Pairs
          PROVE  /\ [old EXCEPT !.live = TRUE] \in Pairs
                 /\ [old EXCEPT !.fd1 = g] \in Pairs
                 /\ [old EXCEPT !.refs = 1] \in Pairs
      <4>1. [old EXCEPT !.live = TRUE] \in Pairs
        BY DEF Pairs
      <4>2. [old EXCEPT !.fd1 = g] \in Pairs
        BY <3>1 DEF Pairs
      <4>3. [old EXCEPT !.refs = 1] \in Pairs
        BY DEF Pairs
      <4> QED
        BY <4>1, <4>2, <4>3
    <3>4. new = [[[NoPair EXCEPT !.live = TRUE] EXCEPT !.fd1 = g] EXCEPT !.refs = 1]
      BY DEF createConnection
    <3> HIDE DEF new
    <3> QED
      BY <3>2, <3>3, <3>4
  <2> QED
    BY <2>1, <2>2
<1>5. /\ conn' \in [Conns -> Pairs] /\ conn'[i] = p
      /\ \A j \in Conns : j # i => conn'[j] = conn[j]
  BY <1>1, <1>2, <1>3, <1>4 DEF Core, PairsOK, CountsOK
<1>6. Client(i) \in Ends /\ Client(i)[1] = i /\ Client(i)[2] = "client"
  BY <1>1, EndsFacts
<1>7. CountsOK(conn', data')
  <2>1. Count(data', i) = 1
    BY <1>1, <1>2, EndsFacts DEF Count, Untouched
  <2>2. \A j \in Conns : j # i => Count(data', j) = Count(data, j)
    BY <1>1, <1>2, EndsFacts DEF Count
  <2>3. data' \subseteq Ends
    BY <1>2, <1>6 DEF Core, PairsOK, CountsOK
  <2>4. \A j \in Conns : /\ conn'[j].refs = Count(data', j)
                         /\ conn'[j].live <=> conn'[j].refs # 0
                         /\ conn'[j].live => conn'[j].fd1 # 1 /\ conn'[j].fd2 # 1
    BY <1>4, <1>5, <2>1, <2>2 DEF Core, PairsOK, CountsOK
  <2> QED
    BY <1>5, <2>3, <2>4 DEF CountsOK
<1>8. OwnsOK(conn', Owners', fdt')
  <2> SUFFICES ASSUME NEW d \in Owners'
               PROVE  PairFd(conn', d) \in 1 .. MaxFd /\ fdt'[PairFd(conn', d)] = d
    BY DEF OwnsOK
  <2>1. CASE d = Client(i)
    BY <1>1, <1>3, <1>4, <1>5, <1>6, <2>1 DEF PairFd
  <2>2. CASE d # Client(i)
    <3>1. d \in Owners /\ d \in data /\ d \in Ends
      BY <1>1, <1>2, <2>2 DEF Owners, Core, PairsOK, CountsOK
    <3>2. d[1] \in Conns /\ d[1] # i
      BY <1>1, <3>1, EndsFacts DEF Untouched
    <3>3. PairFd(conn', d) = PairFd(conn, d)
      BY <1>5, <3>2 DEF PairFd
    <3> QED
      BY <1>1, <3>1, <3>3 DEF Core, PairsOK, OwnsOK
  <2> QED
    BY <2>1, <2>2
<1>9. KeysOK(conn', req') /\ NewOK(conn', sock')
  BY <1>1, <1>2, <1>4, <1>5 DEF Core, PairsOK, KeysOK, NewOK, Untouched
<1>10. OpenedOK(data', fdt', sock')
  <2>1. sock[Client(i)].end # "none"
    <3>1. Waiting(i)
      <4>1. backlog # <<>> /\ backlog \in Seq(Conns)
        BY DEF Core, NetOK, BatchOK, QueueOK, Accept, Handling
      <4> QED
        BY <1>0, <4>1, HeadTailProperties, EmptySeq DEF Waiting
    <3> QED
      BY <1>1, <3>1 DEF Core, NetOK, QueueOK
  <2> QED
    BY <1>1, <1>2, <2>1 DEF Core, PairsOK, OpenedOK
<1> QED
  BY <1>1, <1>2, <1>7, <1>8, <1>9, <1>10 DEF Core, PairsOK

-----------------------------------------------------------------------------
(***************************************************************************)
(* The steps about one Data.                                               *)
(***************************************************************************)
(* What is known of the Data of an event.                                  *)
LEMMA HandlingFacts ==
  ASSUME Core, NEW d \in Ends, NEW ev, Handling(d, ev)
  PROVE  /\ d \in data /\ d \in Owners /\ HasFd(fdt, d) /\ d[1] \in Conns /\ pc = "loop"
         /\ <<d, ev>> \in batch /\ req[d[1]] \in Asked /\ req[d[1]] # NoRequest
         /\ FdOfData(d) = PairFd(conn, d) /\ FdOfData(d) \in 1 .. MaxFd /\ fdt[FdOfData(d)] = d
         /\ conn[d[1]] \in Pairs /\ conn[d[1]].live
         /\ sock[d].end \notin {"none", "closed"}
<1>1. /\ d \in data /\ HasFd(fdt, d) /\ pc = "loop" /\ d[1] \in Conns /\ <<d, ev>> \in batch
  BY EndsFacts DEF Handling, Core, NetOK, BatchOK
<1>2. d \in Owners /\ sock[d].end \notin {"none", "closed"}
  BY <1>1 DEF Owners, Core, NetOK, KernelOK, OpenOK
<1>3. FdOfData(d) = PairFd(conn, d)
  BY DEF FdOfData, PairFd
<1>4. PairFd(conn, d) \in 1 .. MaxFd /\ fdt[PairFd(conn, d)] = d
  BY <1>2 DEF Core, PairsOK, OwnsOK
<1>5. conn[d[1]] \in Pairs /\ conn[d[1]].live
  BY <1>1, CountFacts, EndsFacts DEF Core, PairsOK, CountsOK
<1>6. req[d[1]] # NoRequest /\ req[d[1]] \in Asked
  BY <1>1, EndsFacts DEF Core, NetOK, QueueOK, Untouched
<1> QED
  BY <1>1, <1>2, <1>3, <1>4, <1>5, <1>6

(* What a handler of an event of d must keep.                              *)
Kept(d) ==
  /\ KernelOK(fdt', sock') /\ CountsOK(conn', data') /\ OwnsOK(conn', Owners', fdt')
  /\ \A t \in Ends : t # d /\ t \in data /\ HasFd(fdt, t) => t \in data' /\ HasFd(fdt', t)
  /\ \A t \in Ends : t[1] # d[1] => /\ t \in data' <=> t \in data
                                    /\ HasFd(fdt', t) <=> HasFd(fdt, t)
                                    /\ ~HasFd(fdt, t) => sock'[t] = sock[t]
  /\ KeysOK(conn', req) /\ NewOK(conn', sock') /\ OpenedOK(data', fdt', sock')

LEMMA KeptCore ==
  ASSUME Core, NEW d \in Ends, NEW ev, Handling(d, ev), batch' \subseteq batch \ {<<d, ev>>},
         UNCHANGED <<req, backlog, pc>>, Kept(d)
  PROVE  Core'
<1>1. QueueOK'
  <2>1. ASSUME NEW i \in Conns, req[i] = NoRequest \/ Waiting(i)
        PROVE  /\ Client(i) \notin data' /\ Server(i) \notin data' /\ ~HasFd(fdt', Client(i))
               /\ sock'[Client(i)].end = sock[Client(i)].end
               /\ sock'[Server(i)].end = sock[Server(i)].end
    <3>1. Untouched(i, data, sock) /\ ~HasFd(fdt, Client(i)) /\ ~HasFd(fdt, Server(i))
      BY <2>1, EndsFacts DEF Core, NetOK, KernelOK, OpenOK, QueueOK, Untouched
    <3>2. /\ Client(i)[1] # d[1] /\ Server(i)[1] # d[1]
          /\ Client(i) \in Ends /\ Server(i) \in Ends
      <4>1. d \in data
        BY HandlingFacts
      <4>2. d[1] # i
        BY <3>1, <4>1, EndsFacts DEF Untouched
      <4> QED
        BY <4>2, EndsFacts
    <3> QED
      BY <3>1, <3>2 DEF Kept, Untouched
  <2> QED
    BY <2>1, QueueKept DEF Core, NetOK
<1>2. BatchOK'
  <2>1. PICK e \in batch : e = <<d, ev>>
    BY DEF Handling
  <2>2. \A t \in Ends : t \in data /\ HasFd(fdt, t) /\ t # e[1] => t \in data' /\ HasFd(fdt', t)
    BY <2>1 DEF Kept
  <2> QED
    BY <2>1, <2>2, BatchKept DEF Core, NetOK
<1> QED
  BY <1>1, <1>2 DEF Core, NetOK, PairsOK, Kept

(* The sockets that have no number stay as they are.                       *)
Settles(socks) == /\ SocketsOK(socks) /\ Alike(sock, socks)
                  /\ \A t \in Ends : ~HasFd(fdt, t) => socks[t] = sock[t]

(* A Connection as it is when one of its Data is released.                 *)
Fits(pairs) == /\ CountsOK(pairs, data) /\ OwnsOK(pairs, Owners, fdt)
               /\ KeysOK(pairs, req) /\ NewOK(pairs, sock)

(* One Data is released, or none.                                          *)
LEMMA CleanupCore ==
  ASSUME Core, NEW d \in Ends, NEW ev, Handling(d, ev), batch' \subseteq batch \ {<<d, ev>>},
         NEW pairs, Fits(pairs), NEW socks, Settles(socks), UNCHANGED <<req, backlog, pc>>,
         \/ cleanup_connection(d[1], {d}, pairs, fdt, socks)
         \/ conn' = pairs /\ sock' = socks /\ UNCHANGED <<fdt, data>>
  PROVE  Core'
<1>1. d \in data /\ d \in Owners /\ d[1] \in Conns /\ sock[d].end # "none"
  BY HandlingFacts
<1>2. KernelOK(fdt, socks) /\ OpenedOK(data, fdt, socks) /\ NewOK(pairs, socks)
  <2>1. SocketsOK(socks) /\ Alike(sock, socks)
    BY DEF Settles
  <2>2. \A t \in Ends : socks[t].end = "none" <=> sock[t].end = "none"
    BY <2>1 DEF Alike
  <2>3. \A i \in Conns : Server(i) \in Ends
    BY EndsFacts
  <2>4. \A t \in data : t \in Ends
    BY DEF Core, PairsOK, CountsOK
  <2> QED
    BY <2>1, <2>2, <2>3, <2>4, AlikeKeeps, LeaksKept
    DEF Fits, Core, PairsOK, OpenedOK, NewOK, NetOK, KernelOK
<1>3. CASE cleanup_connection(d[1], {d}, pairs, fdt, socks)
  <2>1. PICK i, D, O, D0 : i = d[1] /\ D = {d} /\ O = Owners /\ D0 = data
    OBVIOUS
  <2>2. Cleans(D0, O, D, fdt, socks)
    <3>1. /\ i \in Conns /\ D # {} /\ D \subseteq O /\ O \subseteq D0 /\ \A e \in D : e[1] = i
          /\ SameRest(D0, D) /\ CountsOK(pairs, D0) /\ OwnsOK(pairs, O, fdt) /\ KernelOK(fdt, socks)
          /\ cleanup_connection(i, D, pairs, fdt, socks)
      BY <1>1, <1>2, <1>3, <2>1 DEF Fits, Owners, SameRest
    <3> QED
      BY <3>1, CleanupFacts
  <2>3. /\ data' = data \ {d} /\ CountsOK(conn', data') /\ OwnsOK(conn', Owners \ {d}, fdt')
        /\ KernelOK(fdt', sock')
        /\ \A t \in Ends : HasFd(fdt', t) <=> HasFd(fdt, t) /\ t # d
        /\ \A t \in Ends : t # d => sock'[t] = socks[t]
    BY <2>1, <2>2 DEF Cleans
  <2>4. Owners' = Owners \ {d}
    BY <2>3 DEF Owners, Core, PairsOK, CountsOK
  <2>5. \A j \in Conns : \/ conn'[j] = NoPair
                         \/ /\ conn'[j].key = pairs[j].key /\ conn'[j].live = pairs[j].live
                            /\ conn'[j].authorized = pairs[j].authorized
    <3>1. pairs \in [Conns -> Pairs]
      BY DEF Fits, CountsOK
    <3> QED
      BY <1>1, <1>3, <3>1 DEF cleanup_connection, Pairs
  <2>6. KeysOK(conn', req)
    BY <2>5 DEF Fits, KeysOK, NoPair
  <2>7. NewOK(conn', sock')
    <3> SUFFICES ASSUME NEW j \in Conns, conn'[j].live, ~conn'[j].authorized
                 PROVE  sock'[Server(j)].end = "none"
      BY DEF NewOK
    <3>1. socks[Server(j)].end = "none" /\ sock[Server(j)].end = "none"
      BY <1>2, <2>5 DEF Fits, NewOK, NoPair
    <3>2. Server(j) \in Ends /\ Server(j) # d
      BY <1>1, <3>1, EndsFacts
    <3> QED
      BY <2>3, <3>1, <3>2
  <2>8. OpenedOK(data', fdt', sock')
    <3>1. data \subseteq Ends
      BY DEF Core, PairsOK, CountsOK
    <3> QED
      BY <1>2, <2>3, <3>1 DEF OpenedOK
  <2>9. \A t \in Ends : t[1] # d[1] => t # d
    OBVIOUS
  <2>10. Kept(d)
    BY <2>3, <2>4, <2>6, <2>7, <2>8, <2>9 DEF Kept, Settles
  <2> QED
    BY <2>10, KeptCore
<1>4. CASE conn' = pairs /\ sock' = socks /\ UNCHANGED <<fdt, data>>
  <2>1. Owners' = Owners
    BY <1>4 DEF Owners
  <2>2. Kept(d)
    BY <1>2, <1>4, <2>1 DEF Kept, Fits, Settles
  <2> QED
    BY <2>2, KeptCore
<1> QED
  BY <1>3, <1>4

LEMMA CoreFits ==
  ASSUME Core
  PROVE  Fits(conn) /\ Settles(sock)
BY DEF Core, PairsOK, Fits, Settles, Alike, NetOK, KernelOK

LEMMA BrokenCore ==
  ASSUME Core, NEW d \in Ends, Broken(d)
  PROVE  Core'
BY CoreFits, CleanupCore DEF Broken, Cleanup, Handled

LEMMA NoRequestYetCore ==
  ASSUME Core, NEW d \in Ends, NoRequestYet(d)
  PROVE  Core'
BY CoreFits, CleanupCore DEF NoRequestYet, FirstRequest, Cleanup, Handled

(* A chunk is taken from the socket of an event.                           *)
LEMMA TakenFacts ==
  ASSUME Core, NEW d \in Ends, NEW ev, Handling(d, ev), Received(d)
  PROVE  /\ Settles(Taken(d)) /\ Head(sock[d].in).of = d /\ Head(sock[d].in) \in ChunksOf(d)
         /\ \A t \in Ends : Taken(d)[t].end = sock[t].end /\ (t # d => Taken(d)[t] = sock[t])
<1>1. PICK after : after = Taken(d)
  OBVIOUS
<1>2. SocketsOK(sock) /\ HasFd(fdt, d)
  BY HandlingFacts DEF Core, NetOK, KernelOK
<1>3. Reads(sock, after, d)
  BY <1>1, <1>2, ReadChunk DEF Received, Taken
<1>4. \A t \in Ends : t # d => after[t] = sock[t]
  BY <1>1, <1>2 DEF Taken, SocketsOK
<1> QED
  BY <1>1, <1>2, <1>3, <1>4 DEF Reads, Settles

LEMMA RefuseCore ==
  ASSUME Core, NEW d \in Ends, Refuse(d)
  PROVE  Core'
<1>1. Handling(d, "in") /\ Received(d) /\ batch' = batch \ {<<d, "in">>}
  BY DEF Refuse, FirstRequest, Handled
<1>0. CASE Dies
  BY <1>0, <1>1, DeadCore DEF Dies, netVars
<1> SUFFICES ASSUME ~Dies PROVE Core'
  BY <1>0
<1>2. PICK r \in SendOn(d, Proxy, Taken(d)) :
        IF r.ret = "killed" THEN Dies
        ELSE Cleanup(d, r.sock) /\ UNCHANGED <<req, backlog, Table, pc>>
  BY DEF Refuse
<1>3. CASE r.ret = "killed"
  BY <1>1, <1>2, <1>3, DeadCore DEF Dies, netVars
<1>4. CASE r.ret # "killed"
  <2>1. Settles(Taken(d)) /\ HasFd(fdt, d)
    BY <1>1, TakenFacts, HandlingFacts
  <2>2. /\ SocketsOK(r.sock) /\ Alike(Taken(d), r.sock)
        /\ \A t \in Ends : t # d => r.sock[t] = Taken(d)[t]
    BY <1>2, <2>1, SendOnFacts DEF Settles
  <2>3. Settles(r.sock)
    BY <2>1, <2>2 DEF Settles, Alike
  <2> QED
    BY <1>1, <1>2, <1>4, <2>3, CoreFits, CleanupCore DEF Cleanup
<1> QED
  BY <1>3, <1>4

-----------------------------------------------------------------------------
(***************************************************************************)
(* The steps that a request that was read leads to.                        *)
(***************************************************************************)
LEMMA AdmittedFacts ==
  ASSUME Core, NEW d \in Ends, Admitted(d)
  PROVE  /\ Handling(d, "in") /\ Received(d) /\ d = Client(d[1]) /\ d[1] \in Conns
         /\ Client(d[1]) = d /\ Server(d[1]) \in Ends /\ Server(d[1]) # d
         /\ conn[d[1]].live /\ conn[d[1]].refs = 1
         /\ sock[Server(d[1])].end = "none" /\ Server(d[1]) \notin data
         /\ ~HasFd(fdt, Server(d[1]))
<1>1. Handling(d, "in") /\ Received(d) /\ d[2] = "client" /\ ~conn[d[1]].authorized
  BY DEF Admitted, FirstRequest
<1>2. d \in data /\ d[1] \in Conns /\ conn[d[1]].live
  BY <1>1, HandlingFacts
<1>3. d = Client(d[1]) /\ Server(d[1]) \in Ends /\ Server(d[1]) # d
  BY <1>1, <1>2, EndsFacts
<1>4. sock[Server(d[1])].end = "none"
  BY <1>1, <1>2 DEF Core, PairsOK, NewOK
<1>5. Server(d[1]) \notin data /\ ~HasFd(fdt, Server(d[1]))
  BY <1>3, <1>4 DEF Core, PairsOK, OpenedOK
<1>6. Count(data, d[1]) = 1
  BY <1>2, <1>3, <1>5 DEF Count
<1> QED
  BY <1>1, <1>2, <1>3, <1>4, <1>5, <1>6 DEF Core, PairsOK, CountsOK

(* The Connection is marked, and perhaps given its key.                    *)
Marks(pairs, i) ==
  /\ Fits(pairs) /\ pairs[i].authorized /\ pairs[i].live = conn[i].live
  /\ pairs[i].fd1 = conn[i].fd1 /\ pairs[i].fd2 = conn[i].fd2 /\ pairs[i].refs = conn[i].refs

LEMMA MarkFacts ==
  ASSUME Core, NEW i \in Conns, req[i] \in Asked, req[i] # NoRequest,
         NEW pairs \in {NowAuthorized(i), Keyed(i)}
  PROVE  Marks(pairs, i)
<1>1. CountsOK(conn, data) /\ OwnsOK(conn, Owners, fdt) /\ KeysOK(conn, req) /\ NewOK(conn, sock)
  BY DEF Core, PairsOK
<1>2. conn \in [Conns -> Pairs]
  BY <1>1 DEF CountsOK
<1>3. PICK k \in Keys : k = getKeyfromRequest(request(i))
  BY DEF Keys, request
<1>4. PICK p \in Pairs : /\ pairs = [conn EXCEPT ![i] = p] /\ p.authorized
                         /\ p.live = conn[i].live /\ p.refs = conn[i].refs
                         /\ p.fd1 = conn[i].fd1 /\ p.fd2 = conn[i].fd2
                         /\ p.key \in {conn[i].key, k}
  <2>1. ASSUME NEW old \in Pairs
        PROVE  /\ [old EXCEPT !.authorized = TRUE] \in Pairs
               /\ [[old EXCEPT !.authorized = TRUE] EXCEPT !.key = k] \in Pairs
    BY DEF Pairs
  <2>2. PICK old \in Pairs : old = conn[i]
    BY <1>2
  <2>3. CASE pairs = NowAuthorized(i)
    <3> DEFINE new == [old EXCEPT !.authorized = TRUE]
    <3>1. new \in Pairs /\ pairs = [conn EXCEPT ![i] = new]
      BY <2>1, <2>2, <2>3 DEF NowAuthorized
    <3>2. /\ new.authorized /\ new.live = old.live /\ new.refs = old.refs
          /\ new.fd1 = old.fd1 /\ new.fd2 = old.fd2 /\ new.key = old.key
      BY DEF Pairs
    <3> QED
      BY <2>2, <3>1, <3>2
  <2>4. CASE pairs = [NowAuthorized(i) EXCEPT ![i].key = k]
    <3> DEFINE new == [[old EXCEPT !.authorized = TRUE] EXCEPT !.key = k]
    <3>1. new \in Pairs /\ pairs = [conn EXCEPT ![i] = new]
      BY <1>2, <2>1, <2>2, <2>4 DEF NowAuthorized
    <3>2. /\ new.authorized /\ new.live = old.live /\ new.refs = old.refs
          /\ new.fd1 = old.fd1 /\ new.fd2 = old.fd2 /\ new.key = k
      BY DEF Pairs
    <3> QED
      BY <2>2, <3>1, <3>2
  <2> QED
    BY <1>3, <2>3, <2>4 DEF Keyed
<1>5. /\ pairs \in [Conns -> Pairs] /\ pairs[i] = p
      /\ \A j \in Conns : j # i => pairs[j] = conn[j]
  BY <1>2, <1>4
<1>6. CountsOK(pairs, data)
  BY <1>1, <1>4, <1>5 DEF CountsOK
<1>7. OwnsOK(pairs, Owners, fdt)
  <2>1. \A d \in Owners : d \in Ends /\ d[1] \in Conns
    BY <1>1, EndsFacts DEF Owners, CountsOK
  <2>2. \A d \in Owners : PairFd(pairs, d) = PairFd(conn, d)
    BY <1>4, <1>5, <2>1 DEF PairFd
  <2> QED
    BY <1>1, <2>2 DEF OwnsOK
<1>8. KeysOK(pairs, req) /\ NewOK(pairs, sock)
  BY <1>1, <1>3, <1>4, <1>5 DEF KeysOK, NewOK, request
<1> QED
  BY <1>4, <1>5, <1>6, <1>7, <1>8 DEF Marks, Fits

LEMMA FromCacheCore ==
  ASSUME Core, NEW d \in Ends, FromCache(d)
  PROVE  Core'
<1>1. Handling(d, "in") /\ Received(d) /\ d[1] \in Conns
  BY AdmittedFacts DEF FromCache
<1>2. PICK r \in SendOn(d, Proxy, Taken(d)) :
        /\ batch' = {}
        /\ IF r.ret = "killed" THEN Dies
           ELSE /\ cleanup_connection(d[1], {d}, Keyed(d[1]), fdt, r.sock)
                /\ UNCHANGED <<req, backlog, Table, pc>>
  BY DEF FromCache
<1>3. CASE r.ret = "killed"
  BY <1>2, <1>3, DeadCore DEF Dies, netVars
<1>4. CASE r.ret # "killed"
  <2>1. Settles(Taken(d)) /\ HasFd(fdt, d)
    BY <1>1, TakenFacts, HandlingFacts
  <2>2. /\ SocketsOK(r.sock) /\ Alike(Taken(d), r.sock)
        /\ \A t \in Ends : t # d => r.sock[t] = Taken(d)[t]
    BY <1>2, <2>1, SendOnFacts DEF Settles
  <2>3. Settles(r.sock)
    BY <2>1, <2>2 DEF Settles, Alike
  <2>4. Fits(Keyed(d[1]))
    BY <1>1, HandlingFacts, MarkFacts DEF Marks
  <2> QED
    BY <1>1, <1>2, <1>4, <2>3, <2>4, CleanupCore
<1> QED
  BY <1>3, <1>4

(* Lines 176 and 203: the descriptor is closed, the Data stays.            *)
LEMMA DroppedCore ==
  ASSUME Core, NEW d \in Ends, Admitted(d), NEW pairs, Marks(pairs, d[1]),
         NEW fds \in {fdt, [fdt EXCEPT ![Lowest(fdt)] = Leaked]}, Dropped(d, pairs, fds)
  PROVE  Core'
<1>1. PICK i \in Conns : i = d[1]
  BY AdmittedFacts
<1>2. /\ Handling(d, "in") /\ Received(d) /\ d = Client(i)
      /\ sock[Server(i)].end = "none" /\ Server(i) \in Ends
  BY <1>1, AdmittedFacts
<1>3. PICK f \in 1 .. MaxFd : f = FdOfData(d) /\ fdt[f] = d
  BY <1>2, HandlingFacts
<1>4. SocketsOK(Taken(d)) /\ \A t \in Ends : t # d => Taken(d)[t] = sock[t]
  BY <1>2, TakenFacts DEF Settles
<1>5. KernelOK(fdt, sock) /\ fdt \in Tables
  BY DEF Core, NetOK, KernelOK, TableOK
<1>6. PICK closed : closed = [fdt EXCEPT ![f] = Free]
  OBVIOUS
<1>7. fdt' = closed \/ fdt' = [closed EXCEPT ![Lowest(fdt)] = Leaked]
  <2>1. CASE fds = fdt
    BY <1>3, <1>6, <2>1 DEF Dropped
  <2>2. CASE fds = [fdt EXCEPT ![Lowest(fdt)] = Leaked]
    <3>1. i \notin Lost(sock)
      BY <1>2, HandlingFacts DEF Lost
    <3>2. fdt[Lowest(fdt)] = Free
      BY <1>5, <3>1, FreeNumber DEF KernelOK
    <3>3. Lowest(fdt) # f
      BY <1>3, <3>2, EndsFacts
    <3> QED
      BY <1>3, <1>5, <1>6, <2>2, <3>3 DEF Dropped, Tables
  <2> QED
    BY <2>1, <2>2
<1>8. TurnsAway(i)
  <2>1. sock' = [Taken(d) EXCEPT ![Client(i)] = Shut(@)]
    BY <1>2 DEF Dropped
  <2>2. fdt[f] = Client(i) /\ \A t \in Ends : t # Client(i) => Taken(d)[t] = sock[t]
    BY <1>2, <1>3, <1>4
  <2>3. PICK socks : socks = Taken(d)
    OBVIOUS
  <2> QED
    BY <1>2, <1>4, <1>5, <1>6, <1>7, <2>1, <2>2, <2>3, TurnAwayFacts
<1>9. /\ KernelOK(fdt', sock')
      /\ \A t \in Ends : HasFd(fdt', t) <=> HasFd(fdt, t) /\ t # d
      /\ \A h \in 1 .. MaxFd : fdt[h] \in Ends /\ fdt[h] # d => fdt'[h] = fdt[h]
      /\ \A t \in Ends : t # d => sock'[t] = sock[t]
      /\ sock'[d].end = "closed"
  BY <1>2, <1>8 DEF TurnsAway
<1>10. UNCHANGED <<req, backlog, data, pc>> /\ conn' = pairs /\ batch' = batch \ {<<d, "in">>}
  BY DEF Dropped, Handled
<1>11. Owners' = Owners \ {d} /\ Owners \subseteq Ends
  BY <1>9, <1>10 DEF Owners, Core, PairsOK, CountsOK
<1>12. CountsOK(conn', data') /\ OwnsOK(conn', Owners', fdt') /\ KeysOK(conn', req)
  BY <1>9, <1>10, <1>11 DEF Marks, Fits, OwnsOK
<1>13. NewOK(conn', sock')
  <2>1. \A j \in Conns : Server(j) \in Ends /\ Server(j) # d
    BY <1>2, EndsFacts
  <2> QED
    BY <1>9, <1>10, <2>1 DEF Marks, Fits, NewOK
<1>14. OpenedOK(data', fdt', sock')
  <2>1. data \subseteq Ends
    BY DEF Core, PairsOK, CountsOK
  <2> QED
    BY <1>9, <1>10, <2>1 DEF Core, PairsOK, OpenedOK
<1>15. Kept(d)
  BY <1>9, <1>10, <1>12, <1>13, <1>14 DEF Kept
<1> QED
  BY <1>2, <1>10, <1>15, KeptCore

LEMMA TurnedAwayCore ==
  ASSUME Core, NEW d \in Ends, Malformed(d) \/ NoUpstream(d)
  PROVE  Core'
<1>1. Admitted(d)
  BY DEF Malformed, NoUpstream, Misses
<1>2. Marks(NowAuthorized(d[1]), d[1]) /\ Marks(Keyed(d[1]), d[1])
  <2>1. Handling(d, "in")
    BY <1>1, AdmittedFacts
  <2> QED
    BY <2>1, HandlingFacts, MarkFacts
<1> QED
  BY <1>1, <1>2, DroppedCore DEF Malformed, NoUpstream

(* The Connection with its upstream, whose Data is to be allocated.        *)
Joins(pairs, i) ==
  /\ CountsOK(pairs, data \cup {Server(i)})
  /\ OwnsOK(pairs, Owners \cup {Server(i)}, Opened(i))
  /\ KeysOK(pairs, req) /\ pairs[i].authorized
  /\ \A j \in Conns : j # i => pairs[j] = conn[j]

LEMMA ReachedFacts ==
  ASSUME Core, NEW d \in Ends, Admitted(d), NEW close \in BOOLEAN
  PROVE  Reaches(d[1], fdt, Taken(d), Opened(d[1]), Connected(d, close))
<1>1. PICK i \in Conns : i = d[1]
  BY AdmittedFacts
<1>2. PICK socks : socks = Taken(d)
  OBVIOUS
<1>3. /\ Settles(socks) /\ d = Client(i) /\ Server(i) # d /\ Server(i) \in Ends
      /\ sock[Server(i)].end = "none" /\ sock[d].end # "closed"
      /\ \A t \in Ends : socks[t].end = sock[t].end
  <2>1. /\ Handling(d, "in") /\ Received(d) /\ d = Client(i) /\ Server(i) # d
        /\ Server(i) \in Ends /\ sock[Server(i)].end = "none"
    BY <1>1, AdmittedFacts
  <2>2. sock[d].end # "closed"
    BY <2>1, HandlingFacts
  <2>3. Settles(socks) /\ \A t \in Ends : socks[t].end = sock[t].end
    BY <1>2, <2>1, TakenFacts
  <2> QED
    BY <2>1, <2>2, <2>3
<1>4. KernelOK(fdt, socks)
  BY <1>3, AlikeKeeps, LeaksKept DEF Settles, Core, NetOK, KernelOK
<1>5. PICK opened, after : opened = Opened(i) /\ after = Connected(d, close)
  OBVIOUS
<1>6. /\ opened = [fdt EXCEPT ![Lowest(fdt)] = Server(i)]
      /\ after = [socks EXCEPT ![Server(i)].end = "open", ![Server(i)].close = close]
  BY <1>1, <1>2, <1>5 DEF Opened, Connected
<1>7. socks[Server(i)].end = "none" /\ socks[Client(i)].end # "closed"
  BY <1>3
<1>8. Reaches(i, fdt, socks, opened, after)
  BY <1>4, <1>6, <1>7, ReachesFacts
<1> QED
  BY <1>1, <1>2, <1>5, <1>8

LEMMA JoinFacts ==
  ASSUME Core, NEW d \in Ends, Admitted(d),
         NEW pairs \in {WithServer(d[1]), [WithServer(d[1]) EXCEPT ![d[1]].tunnel = TRUE]}
  PROVE  Joins(pairs, d[1])
<1>1. PICK i \in Conns : i = d[1]
  BY AdmittedFacts
<1>2. PICK s : s = Server(i)
  OBVIOUS
<1>3. /\ d = Client(i) /\ d[2] = "client" /\ s \in Ends /\ s # d /\ s[1] = i /\ s[2] = "server"
      /\ s \notin data /\ d \in data /\ d \in Owners /\ conn[i].live
  <2>1. /\ Handling(d, "in") /\ d = Client(i) /\ s \in Ends /\ s # d
        /\ s \notin data /\ conn[i].live
    BY <1>1, <1>2, AdmittedFacts
  <2>2. d \in data /\ d \in Owners
    BY <2>1, HandlingFacts
  <2>3. d[2] = "client" /\ s[1] = i /\ s[2] = "server"
    BY <1>2, <2>1, EndsFacts
  <2> QED
    BY <2>1, <2>2, <2>3
<1>4. PICK table : table = Opened(i)
  OBVIOUS
<1>5. PICK g \in 2 .. MaxFd : g = Lowest(fdt)
  BY <1>1, ReachedFacts DEF Reaches
<1>6. table[g] = s /\ \A h \in 1 .. MaxFd : fdt[h] \in Ends => table[h] = fdt[h]
  BY <1>1, <1>2, <1>4, <1>5, ReachedFacts DEF Reaches
<1>7. PICK keyed : keyed = Keyed(i) /\ Marks(keyed, i)
  <2>1. Handling(d, "in")
    BY AdmittedFacts
  <2> QED
    BY <1>1, <2>1, HandlingFacts, MarkFacts
<1>8. PICK old \in Pairs : /\ old = keyed[i] /\ old.authorized /\ old.live /\ old.fd1 = conn[i].fd1
                           /\ keyed \in [Conns -> Pairs] /\ old.fd1 # 1
  <2>1. keyed \in [Conns -> Pairs] /\ keyed[i] \in Pairs
    BY <1>7 DEF Marks, Fits, CountsOK
  <2>2. conn[i].fd1 # 1
    BY <1>3 DEF Core, PairsOK, CountsOK
  <2>3. /\ keyed[i].authorized /\ keyed[i].live = conn[i].live /\ keyed[i].fd1 = conn[i].fd1
    BY <1>7 DEF Marks
  <2> QED
    BY <1>3, <2>1, <2>2, <2>3
<1>9. PICK p \in Pairs : /\ pairs = [keyed EXCEPT ![i] = p]
                         /\ p.live /\ p.authorized /\ p.refs = 2
                         /\ p.fd1 = old.fd1 /\ p.fd2 = g /\ p.key = old.key
  <2> DEFINE joined == [[old EXCEPT !.fd2 = g] EXCEPT !.refs = 2]
             tunnel == [joined EXCEPT !.tunnel = TRUE]
  <2>1. ASSUME NEW o \in Pairs
        PROVE  [o EXCEPT !.fd2 = g] \in Pairs
    <3>1. g \in 0 .. MaxFd
      BY ProxyNetAssumption
    <3> QED
      BY <3>1 DEF Pairs
  <2>2. ASSUME NEW o \in Pairs PROVE [o EXCEPT !.refs = 2] \in Pairs
    BY DEF Pairs
  <2>3. ASSUME NEW o \in Pairs PROVE [o EXCEPT !.tunnel = TRUE] \in Pairs
    BY DEF Pairs
  <2>4. joined \in Pairs /\ tunnel \in Pairs
    BY <2>1, <2>2, <2>3
  <2>5. /\ joined.live /\ joined.authorized /\ joined.refs = 2
        /\ joined.fd1 = old.fd1 /\ joined.fd2 = g /\ joined.key = old.key
    BY <1>8 DEF Pairs
  <2>6. /\ tunnel.live /\ tunnel.authorized /\ tunnel.refs = 2
        /\ tunnel.fd1 = old.fd1 /\ tunnel.fd2 = g /\ tunnel.key = old.key
    BY <1>8 DEF Pairs
  <2>7. WithServer(i) = [keyed EXCEPT ![i] = joined]
    BY <1>5, <1>7, <1>8 DEF WithServer
  <2>8. [WithServer(i) EXCEPT ![i].tunnel = TRUE] = [keyed EXCEPT ![i] = tunnel]
    BY <1>8, <2>7
  <2> HIDE DEF joined, tunnel
  <2> QED
    BY <1>1, <2>4, <2>5, <2>6, <2>7, <2>8
<1>10. /\ pairs \in [Conns -> Pairs] /\ pairs[i] = p
       /\ \A j \in Conns : j # i => pairs[j] = keyed[j] /\ pairs[j] = conn[j]
  <2>1. \A j \in Conns : j # i => keyed[j] = conn[j]
    <3>1. conn \in [Conns -> Pairs]
      BY DEF Core, PairsOK, CountsOK
    <3>2. \A j \in Conns : j # i => NowAuthorized(i)[j] = conn[j]
      BY <3>1 DEF NowAuthorized
    <3>3. \A j \in Conns : j # i => Keyed(i)[j] = conn[j]
      <4>1. CASE IsGet(i)
        BY <3>1, <4>1 DEF Keyed, NowAuthorized
      <4>2. CASE ~IsGet(i)
        BY <3>2, <4>2 DEF Keyed
      <4> QED
        BY <4>1, <4>2
    <3> QED
      BY <1>7, <3>3
  <2> QED
    BY <1>8, <1>9, <2>1
<1>11. CountsOK(keyed, data) /\ OwnsOK(keyed, Owners, fdt) /\ KeysOK(keyed, req)
  BY <1>7 DEF Marks, Fits
<1>12. CountsOK(pairs, data \cup {s})
  <2>1. Count(data \cup {s}, i) = 2
    BY <1>2, <1>3 DEF Count
  <2>2. \A j \in Conns : j # i => Count(data \cup {s}, j) = Count(data, j)
    BY <1>2, EndsFacts DEF Count
  <2>3. data \cup {s} \subseteq Ends
    BY <1>3, <1>11 DEF CountsOK
  <2>4. \A j \in Conns : /\ pairs[j].refs = Count(data \cup {s}, j)
                         /\ pairs[j].live <=> pairs[j].refs # 0
                         /\ pairs[j].live => pairs[j].fd1 # 1 /\ pairs[j].fd2 # 1
    BY <1>5, <1>8, <1>9, <1>10, <1>11, <2>1, <2>2 DEF CountsOK
  <2> QED
    BY <1>10, <2>3, <2>4 DEF CountsOK
<1>13. OwnsOK(pairs, Owners \cup {s}, table)
  <2> SUFFICES ASSUME NEW e \in Owners \cup {s}
               PROVE  PairFd(pairs, e) \in 1 .. MaxFd /\ table[PairFd(pairs, e)] = e
    BY DEF OwnsOK
  <2>1. CASE e = s
    BY <1>3, <1>5, <1>6, <1>9, <1>10, <2>1, ProxyNetAssumption DEF PairFd
  <2>2. CASE e \in Owners
    <3>1. e \in data /\ e \in Ends /\ e[1] \in Conns
      BY <1>11, <2>2, EndsFacts DEF Owners, CountsOK
    <3>2. e[1] = i => e = d
      BY <1>2, <1>3, <3>1, EndsFacts
    <3>3. PairFd(pairs, e) = PairFd(keyed, e)
      BY <1>3, <1>8, <1>9, <1>10, <3>1, <3>2 DEF PairFd
    <3> QED
      BY <1>6, <1>11, <2>2, <3>1, <3>3 DEF OwnsOK
  <2> QED
    BY <2>1, <2>2
<1>14. KeysOK(pairs, req)
  BY <1>8, <1>9, <1>10, <1>11 DEF KeysOK
<1> QED
  BY <1>1, <1>2, <1>4, <1>9, <1>10, <1>12, <1>13, <1>14 DEF Joins

(* What r, the result of the first send, leads to.                         *)
Tries(d, close, r, pairs) ==
  LET i == d[1]
  IN  /\ \/ r \in SendOn(d, Proxy, Connected(d, close))
         \/ r \in SendOn(Server(i), d, Connected(d, close))
      /\ pairs \in {WithServer(i), [WithServer(i) EXCEPT ![i].tunnel = TRUE]}
      /\ \/ Dies
         \/ /\ cleanup_connection(i, {d, Server(i)}, WithServer(i), Opened(i), r.sock)
            /\ UNCHANGED <<req, backlog, Table, pc>>
         \/ /\ conn' = pairs
            /\ data' = data \cup {Server(i)}
            /\ fdt' = Opened(i) /\ sock' = r.sock
            /\ UNCHANGED <<req, backlog, Table, pc>>

LEMMA TriesFacts ==
  ASSUME NEW d \in Ends, Upstream(d)
  PROVE  \E close, r, pairs : close \in BOOLEAN /\ Tries(d, close, r, pairs)
<1>1. PICK i, s : i = d[1] /\ s = Server(i)
  OBVIOUS
<1> DEFINE https == request(i).url.scheme = "https"
           no == FALSE
           says == "Connection: close" \in req[i].hdrs
           tunnel == [WithServer(i) EXCEPT ![i].tunnel = TRUE]
<1>2. PICK r : /\ r \in IF https THEN SendOn(d, Proxy, Connected(d, no))
                        ELSE SendOn(s, d, Connected(d, says))
               /\ \/ Dies
                  \/ /\ cleanup_connection(i, {d, s}, WithServer(i), Opened(i), r.sock)
                     /\ UNCHANGED <<req, backlog, Table, pc>>
                  \/ /\ conn' = IF https THEN tunnel ELSE WithServer(i)
                     /\ data' = data \cup {s}
                     /\ fdt' = Opened(i) /\ sock' = r.sock
                     /\ UNCHANGED <<req, backlog, Table, pc>>
  BY <1>1 DEF Upstream
<1>3. CASE https
  <2>1. Tries(d, no, r, tunnel)
    BY <1>1, <1>2, <1>3 DEF Tries
  <2>2. no \in BOOLEAN
    OBVIOUS
  <2> HIDE DEF no, tunnel
  <2> QED
    BY <2>1, <2>2
<1>4. CASE ~https
  <2>1. Tries(d, says, r, WithServer(i))
    BY <1>1, <1>2, <1>4 DEF Tries
  <2>2. says \in BOOLEAN
    OBVIOUS
  <2> HIDE DEF says
  <2> QED
    BY <2>1, <2>2
<1> QED
  BY <1>3, <1>4

LEMMA UpstreamCore ==
  ASSUME Core, NEW d \in Ends, Upstream(d)
  PROVE  Core'
<1>1. Admitted(d) /\ batch' = batch \ {<<d, "in">>}
  BY DEF Upstream, Misses, Handled
<1>2. PICK i, s : i = d[1] /\ s = Server(i)
  OBVIOUS
<1>3. /\ i \in Conns /\ Handling(d, "in") /\ d = Client(i) /\ s \in Ends /\ s # d
      /\ s \notin data /\ d \in data /\ d \in Owners
  <2>1. /\ i \in Conns /\ Handling(d, "in") /\ d = Client(i) /\ s \in Ends /\ s # d
        /\ s \notin data
    BY <1>1, <1>2, AdmittedFacts
  <2>2. d \in data /\ d \in Owners
    BY <2>1, HandlingFacts
  <2> QED
    BY <2>1, <2>2
<1>4. PICK close, r, pairs : close \in BOOLEAN /\ Tries(d, close, r, pairs)
  BY TriesFacts
<1>5. PICK table, after : table = Opened(i) /\ after = Connected(d, close)
  OBVIOUS
<1>6. /\ KernelOK(table, after)
      /\ \A t \in Ends : HasFd(table, t) <=> (HasFd(fdt, t) \/ t = s)
      /\ after[s].end = "open"
      /\ \A t \in Ends : t # s => after[t] = Taken(d)[t]
  <2>1. Reaches(i, fdt, Taken(d), table, after)
    BY <1>1, <1>2, <1>4, <1>5, ReachedFacts
  <2> QED
    BY <1>2, <2>1 DEF Reaches
<1>7. /\ SocketsOK(r.sock) /\ Alike(after, r.sock)
      /\ \A t \in Ends : t # d /\ t # s => r.sock[t] = after[t]
  BY <1>2, <1>3, <1>4, <1>5, <1>6, SendOnFacts DEF KernelOK, Tries
<1>8. KernelOK(table, r.sock)
  BY <1>6, <1>7, AlikeKeeps, LeaksKept DEF KernelOK
<1>9. /\ \A t \in Ends : t # d /\ t # s => r.sock[t] = sock[t]
      /\ r.sock[s].end # "none" /\ r.sock[d].end # "none"
  <2>1. /\ \A t \in Ends : t # d => Taken(d)[t] = sock[t]
        /\ Taken(d)[d].end = sock[d].end /\ sock[d].end \notin {"none", "closed"}
    <3>1. Received(d)
      BY <1>1, AdmittedFacts
    <3>2. sock[d].end \notin {"none", "closed"}
      BY <1>3, HandlingFacts
    <3> QED
      BY <1>3, <3>1, <3>2, TakenFacts
  <2>2. after[d].end # "none" /\ after[s].end # "none"
    BY <1>3, <1>6, <2>1
  <2>3. r.sock[s].end # "none" /\ r.sock[d].end # "none"
    BY <1>3, <1>7, <2>2 DEF Alike
  <2> QED
    BY <1>6, <1>7, <2>1, <2>3
<1>10. \A t \in Ends : t[1] # d[1] => t # d /\ t # s
  BY <1>2, <1>3, EndsFacts
<1>11. /\ data \subseteq Ends /\ NewOK(conn, sock) /\ OpenedOK(data, fdt, sock)
  BY DEF Core, PairsOK, CountsOK
<1>12. \A j \in Conns : j # i => /\ Server(j) \in Ends /\ Server(j) # d /\ Server(j) # s
                                 /\ r.sock[Server(j)] = sock[Server(j)]
  BY <1>2, <1>3, <1>9, EndsFacts
<1>13. CASE Dies
  BY <1>1, <1>13, DeadCore DEF Dies, netVars
<1>14. CASE /\ cleanup_connection(i, {d, s}, WithServer(i), Opened(i), r.sock)
            /\ UNCHANGED <<req, backlog, Table, pc>>
  <2>1. PICK joined : joined = WithServer(i) /\ Joins(joined, i)
    BY <1>1, <1>2, JoinFacts
  <2>2. PICK D, O, D0, socks : /\ D = {d, s} /\ O = Owners \cup {s} /\ D0 = data \cup {s}
                               /\ socks = r.sock
    OBVIOUS
  <2>3. Cleans(D0, O, D, table, socks)
    <3>1. D # {} /\ D \subseteq O /\ O \subseteq D0
      BY <1>3, <2>2 DEF Owners
    <3>3. \A e \in D : e[1] = i
      BY <1>2, <1>3, <2>2, EndsFacts
    <3>4. SameRest(D0, D)
      BY <1>3, <2>2 DEF SameRest
    <3>5. KernelOK(table, socks) /\ cleanup_connection(i, D, joined, table, socks)
      BY <1>5, <1>8, <1>14, <2>1, <2>2
    <3>2. CountsOK(joined, D0) /\ OwnsOK(joined, O, table)
      BY <1>2, <1>5, <2>1, <2>2 DEF Joins
    <3> QED
      BY <1>3, <3>1, <3>2, <3>3, <3>4, <3>5, CleanupFacts
  <2>4. /\ data' = data \ {d} /\ CountsOK(conn', data') /\ OwnsOK(conn', O \ D, fdt')
        /\ KernelOK(fdt', sock')
        /\ \A t \in Ends : HasFd(fdt', t) <=> HasFd(fdt, t) /\ t # d /\ t # s
        /\ \A t \in Ends : t # d /\ t # s => sock'[t] = sock[t]
    <3>1. D0 \ D = data \ {d}
      BY <1>3, <2>2
    <3> QED
      BY <1>6, <1>9, <2>2, <2>3, <3>1 DEF Cleans
  <2>5. Owners' = O \ D
    BY <1>3, <1>11, <2>2, <2>4 DEF Owners
  <2>6. /\ \A j \in Conns : j # i => conn'[j] = conn[j]
        /\ conn'[i].live => conn'[i].authorized
        /\ conn'[i].key = NoKey \/ conn'[i].key = joined[i].key
    <3>1. joined \in [Conns -> Pairs] /\ joined[i].authorized
          /\ \A j \in Conns : j # i => joined[j] = conn[j]
      BY <2>1 DEF Joins, CountsOK
    <3>2. PICK x : conn' = [joined EXCEPT ![i] = IF x = 0 THEN NoPair ELSE [@ EXCEPT !.refs = x]]
      BY <1>14, <2>1 DEF cleanup_connection
    <3> QED
      BY <1>3, <3>1, <3>2 DEF NoPair, Pairs
  <2>7. KeysOK(conn', req)
    BY <2>1, <2>6 DEF Joins, KeysOK, Core, PairsOK
  <2>8. NewOK(conn', sock')
    BY <1>11, <1>12, <2>4, <2>6 DEF NewOK
  <2>9. OpenedOK(data', fdt', sock')
    BY <1>3, <1>11, <2>4 DEF OpenedOK
  <2>10. Kept(d)
    BY <1>3, <1>10, <2>4, <2>5, <2>7, <2>8, <2>9 DEF Kept
  <2> QED
    BY <1>1, <1>3, <1>14, <2>10, KeptCore
<1>15. CASE /\ conn' = pairs
            /\ data' = data \cup {s}
            /\ fdt' = Opened(i) /\ sock' = r.sock
            /\ UNCHANGED <<req, backlog, Table, pc>>
  <2>1. Joins(pairs, i)
    BY <1>1, <1>2, <1>4, JoinFacts DEF Tries
  <2>2. Owners' = Owners \cup {s}
    BY <1>3, <1>5, <1>6, <1>11, <1>15 DEF Owners
  <2>3. CountsOK(conn', data') /\ OwnsOK(conn', Owners', fdt') /\ KeysOK(conn', req)
    BY <1>2, <1>15, <2>1, <2>2 DEF Joins
  <2>4. NewOK(conn', sock')
    BY <1>11, <1>12, <1>15, <2>1 DEF NewOK, Joins
  <2>5. OpenedOK(data', fdt', sock')
    BY <1>3, <1>5, <1>6, <1>9, <1>11, <1>15 DEF OpenedOK
  <2>6. Kept(d)
    BY <1>3, <1>5, <1>6, <1>8, <1>9, <1>10, <1>15, <2>3, <2>4, <2>5 DEF Kept
  <2> QED
    BY <1>1, <1>3, <1>15, <2>6, KeptCore
<1> QED
  BY <1>2, <1>4, <1>13, <1>14, <1>15 DEF Tries

-----------------------------------------------------------------------------
(***************************************************************************)
(* The relay, and every step.                                              *)
(***************************************************************************)
(* The Data that line 230 looks for: its number, 0 or a reused one.        *)
LEMMA PeerFacts ==
  ASSUME Core, NEW d \in Ends, Handling(d, "in")
  PROVE  PeerFd(d) \in 0 .. MaxFd /\ PeerFd(d) # 1
<1>1. conn[d[1]] \in Pairs /\ conn[d[1]].live /\ d[1] \in Conns
  BY HandlingFacts
<1>2. conn[d[1]].fd1 # 1 /\ conn[d[1]].fd2 # 1
  BY <1>1 DEF Core, PairsOK, CountsOK
<1> QED
  BY <1>1, <1>2 DEF PeerFd, Pairs

LEMMA RelayCore ==
  ASSUME Core, NEW d \in Ends, Relay(d)
  PROVE  Core'
<1>1. Handling(d, "in") /\ batch' = batch \ {<<d, "in">>}
  BY DEF Relay, Handled
<1>2. SocketsOK(sock) /\ TableOK(fdt)
  BY DEF Core, NetOK, KernelOK
<1>3. CASE ~Received(d)
  <2>1. Cleanup(d, sock) /\ UNCHANGED <<req, backlog, pc>>
    BY <1>3 DEF Relay
  <2> QED
    BY <1>1, <2>1, CoreFits, CleanupCore DEF Cleanup
<1>4. CASE Received(d)
  <2>1. Head(sock[d].in).of = d /\ fdt[FdOfData(d)] = d /\ HasFd(fdt, d)
    BY <1>1, <1>4, TakenFacts, HandlingFacts
  <2>2. PICK r \in SendResults(PeerFd(d), d) :
          LET socks == [r.sock EXCEPT ![d].in = Tail(@)]
          IN  IF r.ret = "killed" THEN Dies
              ELSE /\ IF r.ret = "failed" THEN Cleanup(d, socks) ELSE sock' = socks /\ Keep
                   /\ UNCHANGED <<req, backlog, pc>>
    BY <1>4, <2>1 DEF Relay
  <2>3. PICK socks : socks = [r.sock EXCEPT ![d].in = Tail(@)]
    OBVIOUS
  <2>4. PICK f \in 0 .. MaxFd : f = PeerFd(d) /\ f # 1
    BY <1>1, PeerFacts
  <2>5. /\ SocketsOK(r.sock) /\ Alike(sock, r.sock)
        /\ \A t \in Ends : /\ r.sock[t].in = sock[t].in
                           /\ (f = 0 \/ t # fdt[f]) => r.sock[t] = sock[t]
    BY <1>2, <2>2, <2>4, SendResultsFacts
  <2>6. Reads(r.sock, socks, d)
    BY <1>4, <2>3, <2>5, ReadChunk DEF Received
  <2>7. Settles(socks)
    <3>1. Alike(sock, socks)
      BY <2>5, <2>6 DEF Reads, Alike
    <3>2. \A t \in Ends : t # d => socks[t] = r.sock[t]
      BY <2>3, <2>5 DEF SocketsOK
    <3>3. ASSUME NEW t \in Ends, ~HasFd(fdt, t) PROVE socks[t] = sock[t]
      <4>1. t # d /\ (f = 0 \/ t # fdt[f])
        BY <2>1, <3>3 DEF HasFd
      <4> QED
        BY <2>5, <3>2, <4>1
    <3> QED
      BY <2>6, <3>1, <3>3 DEF Settles, Reads
  <2>8. CASE r.ret = "killed"
    BY <1>1, <2>2, <2>8, DeadCore DEF Dies, netVars
  <2>9. CASE r.ret = "failed"
    <3>1. Cleanup(d, socks) /\ UNCHANGED <<req, backlog, pc>>
      BY <2>2, <2>3, <2>9
    <3> QED
      BY <1>1, <2>7, <3>1, CoreFits, CleanupCore DEF Cleanup
  <2>10. CASE r.ret \notin {"killed", "failed"}
    <3>1. sock' = socks /\ UNCHANGED <<req, fdt, backlog, conn, data, pc>>
      BY <2>2, <2>3, <2>10 DEF Keep
    <3> QED
      BY <1>1, <2>7, <3>1, CoreFits, CleanupCore
  <2> QED
    BY <2>8, <2>9, <2>10
<1> QED
  BY <1>3, <1>4

LEMMA NextCore ==
  ASSUME Core, [Next]_vars
  PROVE  Core'
<1>1. CASE UNCHANGED vars
  <2>1. pc' \in {pc, "dead"} /\ UNCHANGED <<req, sock, fdt, backlog, conn, data>>
        /\ batch' \subseteq batch
    BY <1>1 DEF vars, netVars, pairVars
  <2> QED
    BY <2>1, DeadCore
<1>2. CASE Environment
  BY <1>2, EnvironmentCore
<1>3. CASE epoll_wait
  BY <1>3, WaitCore
<1>4. CASE Accept
  BY <1>4, AcceptCore
<1>5. ASSUME NEW d \in Ends, Serves(d)
      PROVE  Core'
  <2>1. CASE Broken(d)
    BY <2>1, BrokenCore
  <2>2. CASE NoRequestYet(d)
    BY <2>2, NoRequestYetCore
  <2>3. CASE Refuse(d)
    BY <2>3, RefuseCore
  <2>4. CASE Malformed(d) \/ NoUpstream(d)
    BY <2>4, TurnedAwayCore
  <2>5. CASE FromCache(d)
    BY <2>5, FromCacheCore
  <2>6. CASE Upstream(d)
    BY <2>6, UpstreamCore
  <2>7. CASE Relay(d)
    BY <2>7, RelayCore
  <2> QED
    BY <1>5, <2>1, <2>2, <2>3, <2>4, <2>5, <2>6, <2>7 DEF Serves
<1> QED
  BY <1>1, <1>2, <1>3, <1>4, <1>5 DEF Next, Thread

-----------------------------------------------------------------------------
(***************************************************************************)
(* The cache.                                                              *)
(***************************************************************************)
LEMMA PlaceFacts ==
  ASSUME NEW T, NEW key, NEW chain, chain = T[hash(key)], Chained(chain)
  PROVE  \/ Place(T, key) = 0 /\ \A k \in 1 .. Len(chain) : chain[k].key # key
         \/ Place(T, key) \in 1 .. Len(chain) /\ chain[Place(T, key)].key = key
<1> DEFINE I == {k \in 1 .. Len(chain) : chain[k].key = key}
<1>1. Place(T, key) = IF I # {} THEN Min(I) ELSE 0
  BY DEF Place, SelectInSeq
<1>2. CASE I = {}
  BY <1>1, <1>2
<1>3. CASE I # {}
  <2>1. PICK k \in 1 .. Len(chain) : chain[k].key = key
    BY <1>3
  <2>2. I = {k}
    BY <2>1 DEF Chained
  <2>3. Min(I) = k
    BY <2>2 DEF Min
  <2> QED
    BY <1>1, <1>3, <2>1, <2>3
<1> QED
  BY <1>2, <1>3

LEMMA PutFacts ==
  ASSUME NEW T, NEW key, NEW chunk, NEW len, NEW x \in Indexes,
         DOMAIN T = Indexes, Chained(T[x]),
         createNode2(key, <<chunk>>, len) \in Nodes, NodeOK(createNode2(key, <<chunk>>, len))
  PROVE  Chained(put2(T, key, <<chunk>>, len)[x])
<1>1. PICK chain, node, at, h : /\ chain = T[x] /\ node = createNode2(key, <<chunk>>, len)
                                /\ at = Place(T, key) /\ h = hash(key)
  OBVIOUS
<1>2. node \in Nodes /\ NodeOK(node) /\ node.key = key
  BY <1>1 DEF createNode2
<1>3. chain \in Seq(Nodes) /\ Len(chain) \in Nat
  BY <1>1 DEF Chained
<1>4. CASE x # h
  <2>1. put2(T, key, <<chunk>>, len)[x] = T[x]
    BY <1>1, <1>4 DEF put2
  <2> QED
    BY <2>1
<1>5. CASE x = h /\ at = 0
  <2>1. put2(T, key, <<chunk>>, len)[x] = Append(chain, node)
    BY <1>1, <1>5 DEF put2
  <2>2. \A k \in 1 .. Len(chain) : chain[k].key # key
    <3>1. chain = T[hash(key)] /\ Chained(chain) /\ Place(T, key) = 0
      BY <1>1, <1>5
    <3>2. ~ (Place(T, key) \in 1 .. Len(chain))
      BY <1>3, <3>1
    <3> QED
      BY <3>1, <3>2, PlaceFacts
  <2>3. PICK new : new = Append(chain, node)
    OBVIOUS
  <2>4. /\ new \in Seq(Nodes) /\ Len(new) = Len(chain) + 1 /\ new[Len(chain) + 1] = node
        /\ \A k \in 1 .. Len(chain) : new[k] = chain[k]
    BY <1>2, <1>3, <2>3, AppendProperties
  <2>5. \A k \in 1 .. Len(new) : NodeOK(new[k])
    BY <1>1, <1>2, <1>3, <2>4 DEF Chained
  <2>6. \A j, k \in 1 .. Len(new) : new[j].key = new[k].key => j = k
    BY <1>1, <1>2, <1>3, <2>2, <2>4 DEF Chained
  <2> QED
    BY <2>1, <2>3, <2>4, <2>5, <2>6 DEF Chained
<1>6. CASE x = h /\ at # 0
  <2>1. at \in 1 .. Len(chain) /\ chain[at].key = key
    BY <1>1, <1>6, PlaceFacts
  <2>2. PICK new : new = [chain EXCEPT ![at] = node]
    OBVIOUS
  <2>3. put2(T, key, <<chunk>>, len)[x] = new
    BY <1>1, <1>6, <2>2 DEF put2, ReplaceAt
  <2>4. /\ new \in Seq(Nodes) /\ Len(new) = Len(chain) /\ new[at] = node
        /\ \A k \in 1 .. Len(chain) : k # at => new[k] = chain[k]
    BY <1>2, <1>3, <2>1, <2>2, ExceptSeq
  <2>5. \A k \in 1 .. Len(new) : NodeOK(new[k])
    BY <1>1, <1>2, <2>4 DEF Chained
  <2>6. \A k \in 1 .. Len(new) : new[k].key = chain[k].key
    BY <1>2, <2>1, <2>4
  <2>7. \A j, k \in 1 .. Len(new) : new[j].key = new[k].key => j = k
    BY <1>1, <2>4, <2>6 DEF Chained
  <2> QED
    BY <2>3, <2>4, <2>5, <2>7 DEF Chained
<1> QED
  BY <1>4, <1>5, <1>6

(* A request that was read stays, so that what is cached stays right.      *)
LEMMA ChainKept ==
  ASSUME NEW chain, Chained(chain), NEW x, Table'[x] = chain,
         \A i \in Conns : req[i] # NoRequest => req'[i] = req[i]
  PROVE  Chained(Table[x])'
<1> DEFINE Same(node) ==
             /\ Len(node.value) = 1 /\ node.length = node.value[1].part
             /\ req'[node.value[1].of[1]] # NoRequest
             /\ node.key = getKeyfromRequest(parse_request(req'[node.value[1].of[1]]))
<1>1. ASSUME NEW node \in Nodes, NodeOK(node) PROVE Same(node)
  <2>1. PICK i : i = node.value[1].of[1]
    OBVIOUS
  <2>2. node.value \in Seq([of : Ends, part : Nat, nul : BOOLEAN]) /\ Len(node.value) = 1
    BY <1>1 DEF Nodes, NodeOK
  <2>3. node.value[1] \in [of : Ends, part : Nat, nul : BOOLEAN]
    <3>1. PICK value : value = node.value
      OBVIOUS
    <3>2. 1 \in 1 .. Len(value)
      BY <2>2, <3>1
    <3>3. value[1] \in [of : Ends, part : Nat, nul : BOOLEAN]
      BY <2>2, <3>1, <3>2, ElementOfSeq
    <3> QED
      BY <3>1, <3>3
  <2>4. i \in Conns
    BY <2>1, <2>3, EndsFacts
  <2>5. req'[i] = req[i]
    BY <1>1, <2>1, <2>4 DEF NodeOK
  <2> QED
    BY <1>1, <2>1, <2>5 DEF NodeOK, request
<1>2. \A k \in 1 .. Len(chain) : chain[k] \in Nodes /\ NodeOK(chain[k])
  BY ElementOfSeq DEF Chained
<1>3. \A k \in 1 .. Len(chain) : Same(chain[k])
  BY <1>1, <1>2
<1>4. \A k \in 1 .. Len(Table'[x]) : NodeOK(Table[x][k])'
  BY <1>3 DEF NodeOK, request
<1> QED
  BY <1>4 DEF Chained

(* Only the relay stores, and only what it read.                           *)
LEMMA StoredFacts ==
  ASSUME Core, CacheOK, NEW d \in Ends, Handling(d, "in"), Received(d)
  PROVE  LET T == Stored(d, Head(sock[d].in))
         IN  DOMAIN T = Indexes /\ \A x \in Indexes : Chained(T[x])
<1>1. PICK i, chunk, key, T : /\ i = d[1] /\ chunk = Head(sock[d].in) /\ key = conn[i].key
                              /\ T = Stored(d, chunk)
  OBVIOUS
<1>2. /\ chunk \in ChunksOf(d) /\ chunk.of = d /\ i \in Conns
      /\ conn[i] \in Pairs /\ req[i] # NoRequest
  BY <1>1, TakenFacts, HandlingFacts
<1>3. CASE key = NoKey
  BY <1>1, <1>3 DEF Stored, CacheOK
<1>4. CASE key # NoKey
  <2>1. PICK node : node = createNode2(key, <<chunk>>, chunk.part)
    OBVIOUS
  <2>2. T = put2(Table, key, <<chunk>>, chunk.part)
    BY <1>1, <1>4 DEF Stored
  <2>3. node \in Nodes
    <3>1. chunk \in [of : Ends, part : Nat, nul : BOOLEAN] /\ key \in Keys
      BY <1>1, <1>2 DEF ChunksOf, Pairs
    <3>2. <<chunk>> \in Seq([of : Ends, part : Nat, nul : BOOLEAN]) /\ chunk.part \in Nat
      BY <3>1
    <3> QED
      BY <2>1, <3>1, <3>2 DEF Nodes, createNode2
  <2>4. NodeOK(node)
    <3>1. /\ node.value = <<chunk>> /\ node.key = key /\ node.length = chunk.part
      BY <2>1 DEF createNode2
    <3>2. Len(node.value) = 1 /\ node.value[1] = chunk
      BY <3>1
    <3>3. key = getKeyfromRequest(request(i))
      BY <1>1, <1>2, <1>4 DEF Core, PairsOK, KeysOK, request
    <3> QED
      BY <1>1, <1>2, <3>1, <3>2, <3>3 DEF NodeOK
  <2>5. \A x \in Indexes : Chained(T[x])
    BY <2>1, <2>2, <2>3, <2>4, PutFacts DEF CacheOK
  <2>6. DOMAIN T = Indexes
    BY <2>2 DEF put2, CacheOK
  <2> QED
    BY <1>1, <2>5, <2>6
<1> QED
  BY <1>3, <1>4

LEMMA NextCache ==
  ASSUME Core, CacheOK, [Next]_vars
  PROVE  CacheOK'
<1>1. /\ \A i \in Conns : req[i] # NoRequest => req'[i] = req[i]
      /\ \/ Table' = Table
         \/ DOMAIN Table' = Indexes /\ \A x \in Indexes : Chained(Table'[x])
  <2>1. CASE Environment
    <3>1. OthersKeep
      BY <2>1, EnvironmentFacts DEF Core
    <3> QED
      BY <3>1 DEF OthersKeep
  <2>2. CASE epoll_wait \/ Accept \/ UNCHANGED vars
    BY <2>2 DEF epoll_wait, Accept, vars, netVars, pairVars
  <2>3. ASSUME NEW d \in Ends, Serves(d)
        PROVE  /\ UNCHANGED req
               /\ \/ Table' = Table
                  \/ DOMAIN Table' = Indexes /\ \A x \in Indexes : Chained(Table'[x])
    <3>1. CASE Broken(d) \/ NoRequestYet(d)
      BY <3>1 DEF Broken, NoRequestYet
    <3>2. CASE Refuse(d)
      BY <3>2 DEF Refuse, Dies, netVars
    <3>3. CASE Malformed(d) \/ NoUpstream(d)
      BY <3>3 DEF Malformed, NoUpstream, Dropped
    <3>4. CASE FromCache(d)
      BY <3>4 DEF FromCache, Dies, netVars
    <3>5. CASE Upstream(d)
      <4>1. PICK close, r, pairs : Tries(d, close, r, pairs)
        BY <3>5, TriesFacts
      <4> QED
        BY <4>1 DEF Tries, Dies, netVars
    <3>6. CASE Relay(d)
      <4>1. CASE ~Received(d)
        BY <3>6, <4>1 DEF Relay
      <4>2. CASE Received(d)
        <5>1. PICK r : \/ Dies
                       \/ Table' = Stored(d, Head(sock[d].in)) /\ UNCHANGED req
          BY <3>6, <4>2 DEF Relay
        <5>2. Handling(d, "in")
          BY <3>6 DEF Relay
        <5> QED
          BY <4>2, <5>1, <5>2, StoredFacts DEF Dies, netVars
      <4> QED
        BY <4>1, <4>2
    <3> QED
      BY <2>3, <3>1, <3>2, <3>3, <3>4, <3>5, <3>6 DEF Serves
  <2> QED
    BY <2>1, <2>2, <2>3 DEF Next, Thread
<1>2. /\ DOMAIN Table' = Indexes /\ \A x \in Indexes : Chained(Table'[x])
  BY <1>1 DEF CacheOK
<1>3. ASSUME NEW x \in Indexes PROVE Chained(Table[x])'
  <2>1. PICK chain : chain = Table'[x]
    OBVIOUS
  <2>2. Chained(chain)
    BY <1>2, <2>1
  <2> QED
    BY <1>1, <2>1, <2>2, ChainKept
<1> QED
  BY <1>2, <1>3 DEF CacheOK

-----------------------------------------------------------------------------
(***************************************************************************)
(* The theorems.                                                           *)
(***************************************************************************)
Inv == Core /\ CacheOK

(* The invariant holds of every state the proxy can reach, whatever the    *)
(* browsers ask and the upstreams answer.                                  *)
THEOREM InvIsInvariant == Spec => []Inv
<1>1. Init => Inv
  <2> SUFFICES ASSUME Init PROVE Inv
    OBVIOUS
  <2>1. Table = [x \in Indexes |-> <<>>]
    BY DEF Init, PairInit, initTable
  <2>2. Chained(<<>>)
    BY EmptySeq DEF Chained
  <2> QED
    BY <2>1, <2>2, InitCore DEF Inv, CacheOK
<1>2. Inv /\ [Next]_vars => Inv'
  BY NextCore, NextCache DEF Inv
<1> QED
  BY <1>1, <1>2, PTL DEF Spec

(* Type correctness: a descriptor is a socket's, the listening one, leaked *)
(* or free; refs counts the Data of the pair, those that lines 176 and 203 *)
(* leave behind included; and a key is that of the pair's own request.     *)
THEOREM TypeCorrect == Spec => []EfficientTypeOK
<1>1. Inv => EfficientTypeOK
  <2> SUFFICES ASSUME Inv PROVE EfficientTypeOK
    OBVIOUS
  <2>1. fdt \in [1 .. MaxFd -> Ends \cup {Listen, Leaked, Free}]
    BY DEF Inv, Core, NetOK, KernelOK, TableOK, Tables, Slots
  <2>2. data \subseteq Ends /\ \A i \in Conns : conn[i].refs = Count(data, i)
    BY DEF Inv, Core, PairsOK, CountsOK
  <2>3. \A i \in Conns : conn[i].refs = Cardinality({d \in data : d[1] = i})
    BY <2>2, CountIs
  <2>4. \A i \in Conns : conn[i].key # NoKey => conn[i].key = getKeyfromRequest(request(i))
    BY DEF Inv, Core, PairsOK, KeysOK, request
  <2>5. pc \in {"loop", "dead"}
    BY DEF Inv, Core
  <2> QED
    BY <2>1, <2>2, <2>3, <2>4, <2>5 DEF EfficientTypeOK
<1> QED
  BY InvIsInvariant, <1>1, PTL

(* No event of a batch is left that refers to released memory or to a      *)
(* closed or reused descriptor, although Data are left behind whose        *)
(* descriptor is closed (lines 176 and 203) and line 194 cuts a batch.     *)
THEOREM BatchLive == Spec => []BatchIsLive
<1>1. Inv => BatchIsLive
  <2> SUFFICES ASSUME Inv, NEW e \in batch, e[1] # Listen
               PROVE  e[1] \in data /\ conn[e[1][1]].live /\ fdt[FdOfData(e[1])] = e[1]
    BY DEF BatchIsLive
  <2>1. e[1] \in data /\ HasFd(fdt, e[1]) /\ e[1] \in Ends
    BY DEF Inv, Core, NetOK, BatchOK
  <2>2. conn[e[1][1]].live
    BY <2>1, CountFacts, EndsFacts DEF Inv, Core, PairsOK, CountsOK
  <2>3. fdt[FdOfData(e[1])] = e[1]
    BY <2>1 DEF Inv, Core, PairsOK, OwnsOK, Owners, FdOfData, PairFd
  <2> QED
    BY <2>1, <2>2, <2>3
<1> QED
  BY InvIsInvariant, <1>1, PTL

(* The cache holds for each key one chunk that was relayed for a request   *)
(* with that key, with its own length: neither a shared index nor a reused *)
(* descriptor mixes the answers (put of hashmap.c, line 273 of proxy.c).    *)
THEOREM KeysApart == Spec => []CacheKeepsKeysApart
<1>1. Inv => CacheKeepsKeysApart
  <2> SUFFICES ASSUME Inv, NEW x \in Indexes, NEW k \in DOMAIN Table[x]
               PROVE  LET node == Table[x][k]
                          chunk == node.value[1]
                      IN  /\ Len(node.value) = 1 /\ node.length = chunk.part
                          /\ node.key = getKeyfromRequest(request(chunk.of[1]))
                          /\ \A j \in DOMAIN Table[x] : Table[x][j].key = node.key => j = k
    BY DEF CacheKeepsKeysApart
  <2>1. PICK chain : chain = Table[x] /\ Chained(chain)
    BY DEF Inv, CacheOK
  <2>2. DOMAIN chain = 1 .. Len(chain)
    BY <2>1 DEF Chained
  <2>3. NodeOK(chain[k]) /\ \A j \in DOMAIN chain : chain[j].key = chain[k].key => j = k
    BY <2>1, <2>2 DEF Chained
  <2> QED
    BY <2>1, <2>3 DEF NodeOK
<1> QED
  BY InvIsInvariant, <1>1, PTL
=============================================================================
