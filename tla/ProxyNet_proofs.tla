--------------------------- MODULE ProxyNet_proofs ---------------------------
(***************************************************************************)
(* Facts about ProxyNet that the proofs about both epoll proxies share:    *)
(* descriptor numbers, the reference counts and the other ends' steps.     *)
(***************************************************************************)
EXTENDS ProxyNet, TLAPS, FiniteSetTheorems, SequenceTheorems, WellFoundedInduction

(***************************************************************************)
(* Sockets and descriptor numbers.                                         *)
(***************************************************************************)
Slots == Ends \cup {Listen, Leaked, Free}
Tables == [1 .. MaxFd -> Slots]

(* The two sockets of a connection are different sockets, and no socket is *)
(* one of the other things that a descriptor can be.                       *)
LEMMA EndsFacts ==
  /\ \A i \in Conns : /\ Client(i) \in Ends /\ Server(i) \in Ends /\ Client(i) # Server(i)
                      /\ Client(i)[1] = i /\ Server(i)[1] = i
                      /\ Other(Client(i)) = Server(i) /\ Other(Server(i)) = Client(i)
                      /\ Client(i)[2] = "client" /\ Server(i)[2] = "server"
  /\ \A s \in Ends : /\ s[1] \in Conns /\ (s = Client(s[1]) \/ s = Server(s[1]))
                     /\ Other(s) \in Ends /\ Other(s)[1] = s[1] /\ Other(s) # s
                     /\ Other(Other(s)) = s
  /\ \A i, j \in Conns : Client(i) # Server(j)
  /\ Listen \notin Ends /\ Leaked \notin Ends /\ Free \notin Ends /\ Proxy \notin Ends
  /\ Listen # Leaked /\ Listen # Free /\ Leaked # Free
<1>1. \A s \in Ends : s[1] \in Conns /\ (s = Client(s[1]) \/ s = Server(s[1]))
  BY DEF Ends, Client, Server
<1>2. \A i \in Conns : i # 0
  BY ProxyNetAssumption DEF Conns
<1>3. /\ Listen \notin Ends /\ Leaked \notin Ends /\ Free \notin Ends /\ Proxy \notin Ends
  BY <1>2 DEF Ends, Listen, Leaked, Free, Proxy
<1> QED
  BY <1>1, <1>3 DEF Ends, Client, Server, Other, Listen, Leaked, Free

(* A nonempty set of naturals has a least element. *)
LEMMA Least ==
  ASSUME NEW S \in SUBSET Nat, S # {}
  PROVE  \E k \in S : \A j \in S : k <= j
<1>1. PICK k \in S : \A j \in S : <<j, k>> \notin OpToRel(<, Nat)
  BY NatLessThanWellFounded, WFMin
<1>2. \A j \in S : ~(j < k)
  BY <1>1 DEF OpToRel
<1> QED
  BY <1>2

(* accept() and socket() return a number that is free, if there is one. *)
LEMMA LowestIsFree ==
  ASSUME NEW table \in Tables, NEW f \in 1 .. MaxFd, table[f] = Free
  PROVE  Lowest(table) \in 1 .. MaxFd /\ table[Lowest(table)] = Free
<1> DEFINE S == {g \in 1 .. MaxFd : table[g] = Free}
<1>1. PICK k \in S : \A j \in S : k <= j
  <2>1. S \in SUBSET Nat /\ f \in S
    BY ProxyNetAssumption
  <2> QED
    BY <2>1, Least
<1>2. DOMAIN table = 1 .. MaxFd
  BY DEF Tables
<1>3. k \in DOMAIN table /\ table[k] = Free /\ \A g \in 1 .. k - 1 : table[g] # Free
  <2>1. \A g \in 1 .. k - 1 : g \in 1 .. MaxFd /\ ~(k <= g)
    BY ProxyNetAssumption
  <2> QED
    BY <1>1, <1>2, <2>1
<1> QED
  BY <1>2, <1>3 DEF Lowest

(* An open socket's number. *)
HasFd(table, s) == \E f \in 1 .. MaxFd : table[f] = s

LEMMA FdOfOpen ==
  ASSUME NEW s \in Ends, fdt \in Tables, HasFd(fdt, s)
  PROVE  FdOf(s) \in 1 .. MaxFd /\ fdt[FdOf(s)] = s
BY DEF FdOf, HasFd, Tables

-----------------------------------------------------------------------------
(***************************************************************************)
(* The reference counts.                                                   *)
(***************************************************************************)
Count(D, i) == (IF Client(i) \in D THEN 1 ELSE 0) + (IF Server(i) \in D THEN 1 ELSE 0)

LEMMA CountIs ==
  ASSUME NEW D \in SUBSET Ends, NEW i \in Conns
  PROVE  Cardinality({d \in D : d[1] = i}) = Count(D, i)
<1> DEFINE C == {d \in D : d[1] = i}
<1> SUFFICES Cardinality(C) = Count(D, i)
  OBVIOUS
<1>1. C = {Client(i), Server(i)} \cap D
  BY EndsFacts
<1>2. Client(i) # Server(i)
  BY EndsFacts
<1>3. CASE Client(i) \in D /\ Server(i) \in D
  <2>1. C = {Client(i)} \cup {Server(i)}
    BY <1>1, <1>3
  <2>2. Cardinality({Client(i)}) = 1 /\ IsFiniteSet({Client(i)})
    BY FS_Singleton
  <2> QED
    BY <1>2, <1>3, <2>1, <2>2, FS_AddElement DEF Count
<1>4. CASE Client(i) \in D /\ Server(i) \notin D
  <2>1. C = {Client(i)}
    BY <1>1, <1>4
  <2>2. Cardinality(C) = 1
    BY <2>1, FS_Singleton
  <2> HIDE DEF C
  <2> QED
    BY <1>4, <2>2 DEF Count
<1>5. CASE Client(i) \notin D /\ Server(i) \in D
  <2>1. C = {Server(i)}
    BY <1>1, <1>5
  <2>2. Cardinality(C) = 1
    BY <2>1, FS_Singleton
  <2> HIDE DEF C
  <2> QED
    BY <1>5, <2>2 DEF Count
<1>6. CASE Client(i) \notin D /\ Server(i) \notin D
  <2>1. C = {}
    BY <1>1, <1>6
  <2> QED
    BY <1>6, <2>1, FS_EmptySet DEF Count
<1> HIDE DEF C
<1> QED
  BY <1>3, <1>4, <1>5, <1>6

-----------------------------------------------------------------------------
(***************************************************************************)
(* What holds of the kernel's state, for any table and sockets, so that it *)
(* can be said of the states between two assignments of a handler as well. *)
(***************************************************************************)
ChunksOf(s) == [of : {s}, part : Nat, nul : BOOLEAN]
SocketsOf(s) == [in : Seq(ChunksOf(s)), end : {"none", "open", "fin", "rst", "closed"},
                 got : SUBSET (Ends \cup {Proxy}), sent : Nat, close : BOOLEAN]
SocketsOK(socks) == /\ socks = [s \in Ends |-> socks[s]]
                    /\ \A s \in Ends : socks[s] \in SocketsOf(s)

(* No socket has two numbers, and only the first is the listening socket's. *)
TableOK(table) ==
  /\ table \in Tables
  /\ \A f \in 1 .. MaxFd : table[f] = Listen <=> f = 1
  /\ \A f, g \in 1 .. MaxFd : table[f] \in Ends /\ table[f] = table[g] => f = g

(* A socket with a number is open. *)
OpenOK(table, socks) == \A s \in Ends : HasFd(table, s) => socks[s].end \notin {"none", "closed"}

(* A descriptor is leaked only for a browser that was turned away, which   *)
(* is why the numbers never run out.                                       *)
Lost(socks) == {i \in Conns : socks[Server(i)].end = "none" /\ socks[Client(i)].end = "closed"}
LeakedFds(table) == {f \in 1 .. MaxFd : table[f] = Leaked}
LeaksOK(table, socks) == Cardinality(LeakedFds(table)) <= Cardinality(Lost(socks))

(***************************************************************************)
(* What holds of the pairs and of the Data that are allocated.             *)
(***************************************************************************)
Asked == {c[i] : c \in Scripts, i \in Conns}
Keys == {NoKey} \cup {getKeyfromRequest(parse_request(r)) : r \in Asked}
Pairs == [live : BOOLEAN, fd1 : 0 .. MaxFd, fd2 : 0 .. MaxFd, refs : 0 .. 2,
          authorized : BOOLEAN, key : Keys, tunnel : BOOLEAN]

CountsOK(pairs, D) ==
  /\ pairs \in [Conns -> Pairs] /\ D \subseteq Ends
  /\ \A i \in Conns : /\ pairs[i].refs = Count(D, i)
                      /\ pairs[i].live <=> pairs[i].refs # 0
                      /\ pairs[i].live => pairs[i].fd1 # 1 /\ pairs[i].fd2 # 1

PairFd(pairs, d) == IF d[2] = "client" THEN pairs[d[1]].fd1 ELSE pairs[d[1]].fd2
OwnsOK(pairs, O, table) == \A d \in O : PairFd(pairs, d) \in 1 .. MaxFd /\ table[PairFd(pairs, d)] = d

(* Nothing was done for connection i but accept() it, at most.             *)
Untouched(i, D, socks) ==
  /\ Client(i) \notin D /\ Server(i) \notin D
  /\ socks[Server(i)].end = "none" /\ socks[Client(i)].end # "closed"

(***************************************************************************)
(* The invariant of what both proxies stand on.                            *)
(***************************************************************************)
Waiting(i) == \E k \in 1 .. Len(backlog) : backlog[k] = i

QueueOK ==
  /\ req \in [Conns -> Asked \cup {NoRequest}]
  /\ backlog \in Seq(Conns)
  /\ \A j, k \in 1 .. Len(backlog) : backlog[j] = backlog[k] => j = k
  /\ \A i \in Conns : (req[i] = NoRequest \/ Waiting(i)) =>
       Untouched(i, data, sock) /\ ~HasFd(fdt, Client(i))
  /\ \A i \in Conns : req[i] = NoRequest => sock[Client(i)].end = "none" /\ ~Waiting(i)
  /\ \A i \in Conns : Waiting(i) => sock[Client(i)].end # "none"

BatchOK ==
  /\ batch \subseteq (Ends \cup {Listen}) \X {"in", "hup"}
  /\ \A e, other \in batch : e[1] = other[1] => e = other
  /\ \A e \in batch : e[1] = Listen => e[2] = "in" /\ backlog # <<>>
  /\ \A e \in batch : e[1] # Listen => e[1] \in data /\ HasFd(fdt, e[1])

KernelOK(table, socks) == /\ SocketsOK(socks) /\ TableOK(table)
                          /\ OpenOK(table, socks) /\ LeaksOK(table, socks)
NetOK == KernelOK(fdt, sock) /\ QueueOK /\ BatchOK

-----------------------------------------------------------------------------
(***************************************************************************)
(* Sockets.                                                                *)
(***************************************************************************)
(* No socket is opened or closed between the two.                          *)
Alike(socks, after) ==
  \A s \in Ends : \/ after[s].end = socks[s].end
                  \/ {after[s].end, socks[s].end} \subseteq {"open", "fin", "rst"}

LEMMA AlikeKeeps ==
  ASSUME NEW socks, NEW after, Alike(socks, after)
  PROVE  /\ Lost(after) = Lost(socks)
         /\ \A D : \A i \in Conns : Untouched(i, D, socks) => Untouched(i, D, after)
         /\ \A table : OpenOK(table, socks) => OpenOK(table, after)
<1>1. \A s \in Ends : /\ after[s].end = "none" <=> socks[s].end = "none"
                      /\ after[s].end = "closed" <=> socks[s].end = "closed"
  BY DEF Alike
<1>2. \A i \in Conns : Client(i) \in Ends /\ Server(i) \in Ends
  BY EndsFacts
<1> QED
  BY <1>1, <1>2 DEF Lost, Untouched, OpenOK

LEMMA SocketsExcept ==
  ASSUME NEW socks, SocketsOK(socks), NEW s \in Ends, NEW k \in SocketsOf(s)
  PROVE  SocketsOK([socks EXCEPT ![s] = k])
BY DEF SocketsOK

LEMMA SocketTypes ==
  ASSUME NEW socks, SocketsOK(socks), NEW s \in Ends
  PROVE  /\ socks[s].in \in Seq(ChunksOf(s)) /\ socks[s].sent \in Nat /\ socks[s].close \in BOOLEAN
         /\ socks[s].end \in {"none", "open", "fin", "rst", "closed"}
         /\ socks[s].got \in SUBSET (Ends \cup {Proxy})
         /\ socks[s] = [in |-> socks[s].in, end |-> socks[s].end, got |-> socks[s].got,
                        sent |-> socks[s].sent, close |-> socks[s].close]
BY DEF SocketsOK, SocketsOf

(* What is read from a socket was sent to it.                              *)
Reads(socks, after, s) ==
  /\ Head(socks[s].in) \in ChunksOf(s) /\ Head(socks[s].in).of = s
  /\ SocketsOK(after) /\ Alike(socks, after)
  /\ \A t \in Ends : after[t].end = socks[t].end /\ after[t].got = socks[t].got

LEMMA ReadChunk ==
  ASSUME NEW socks, SocketsOK(socks), NEW s \in Ends, socks[s].in # <<>>,
         NEW after, after = [socks EXCEPT ![s].in = Tail(@)]
  PROVE  Reads(socks, after, s)
<1>1. socks[s].in \in Seq(ChunksOf(s)) /\ socks[s] \in SocketsOf(s) /\ s \in DOMAIN socks
  BY DEF SocketsOK, SocketsOf
<1>2. Head(socks[s].in) \in ChunksOf(s) /\ Tail(socks[s].in) \in Seq(ChunksOf(s))
  BY <1>1, HeadTailProperties
<1>3. [socks[s] EXCEPT !.in = Tail(@)] \in SocketsOf(s)
  BY <1>1, <1>2 DEF SocketsOf
<1>4. PICK new \in SocketsOf(s) : after = [socks EXCEPT ![s] = new]
  BY <1>3
<1>5. \A t \in Ends : after[t].end = socks[t].end /\ after[t].got = socks[t].got
  BY <1>1 DEF SocketsOK, SocketsOf
<1>6. SocketsOK(after)
  BY <1>4 DEF SocketsOK
<1>7. Head(socks[s].in).of = s
  BY <1>2 DEF ChunksOf
<1> QED
  BY <1>2, <1>5, <1>6, <1>7 DEF Reads, Alike

(* close() of a socket.                                                    *)
LEMMA ShutType ==
  ASSUME NEW socks, SocketsOK(socks), NEW s \in Ends
  PROVE  Shut(socks[s]) \in SocketsOf(s) /\ Shut(socks[s]).end = "closed" /\ Shut(socks[s]).got = {}
<1>1. <<>> \in Seq(ChunksOf(s)) /\ socks[s] \in SocketsOf(s)
  BY EmptySeq DEF SocketsOK
<1> QED
  BY <1>1 DEF Shut, SocketsOf

(* send() on a socket: what it may return and do.                          *)
LEMMA SendOnFacts ==
  ASSUME NEW socks, SocketsOK(socks), NEW s \in Ends, NEW by \in Ends \cup {Proxy},
         NEW r \in SendOn(s, by, socks)
  PROVE  /\ r.ret \in {"sent", "again", "failed", "killed"}
         /\ SocketsOK(r.sock) /\ Alike(socks, r.sock)
         /\ \A t \in Ends : /\ r.sock[t].in = socks[t].in
                            /\ t # s => r.sock[t] = socks[t]
                            /\ r.sock[t].got \subseteq socks[t].got \cup {by}
<1> DEFINE got == [socks EXCEPT ![s].got = @ \cup {by}]
           reset == [socks EXCEPT ![s].end = "rst"]
<1>1. socks[s] \in SocketsOf(s) /\ s \in DOMAIN socks
  BY DEF SocketsOK
<1>2. SocketsOK(got) /\ Alike(socks, got)
  <2>1. [socks[s] EXCEPT !.got = @ \cup {by}] \in SocketsOf(s)
    BY <1>1 DEF SocketsOf
  <2>2. got = [socks EXCEPT ![s] = [socks[s] EXCEPT !.got = @ \cup {by}]]
    OBVIOUS
  <2>3. Alike(socks, got)
    BY <1>1 DEF Alike, SocketsOf
  <2> QED
    BY <2>1, <2>2, <2>3, SocketsExcept
<1>3. socks[s].end = "fin" => SocketsOK(reset) /\ Alike(socks, reset)
  <2>1. [socks[s] EXCEPT !.end = "rst"] \in SocketsOf(s)
    BY <1>1 DEF SocketsOf
  <2>2. reset = [socks EXCEPT ![s] = [socks[s] EXCEPT !.end = "rst"]]
    OBVIOUS
  <2>3. socks[s].end = "fin" => Alike(socks, reset)
    BY <1>1 DEF Alike, SocketsOf
  <2> QED
    BY <2>1, <2>2, <2>3, SocketsExcept
<1>4. \A t \in Ends : /\ got[t].in = socks[t].in /\ reset[t].in = socks[t].in
                      /\ t # s => got[t] = socks[t] /\ reset[t] = socks[t]
                      /\ got[t].got \subseteq socks[t].got \cup {by}
                      /\ reset[t].got \subseteq socks[t].got \cup {by}
  BY <1>1 DEF SocketsOf, SocketsOK
<1>5. Alike(socks, socks)
  BY DEF Alike
<1>6. \/ r = [ret |-> "sent", sock |-> got] \/ r = [ret |-> "again", sock |-> socks]
      \/ socks[s].end = "fin" /\ r = [ret |-> "sent", sock |-> reset]
      \/ r = [ret |-> "failed", sock |-> socks] \/ r = [ret |-> "killed", sock |-> socks]
  BY DEF SendOn
<1> HIDE DEF got, reset
<1> QED
  BY <1>2, <1>3, <1>4, <1>5, <1>6

LEMMA SendResultsFacts ==
  ASSUME SocketsOK(sock), TableOK(fdt), NEW f \in 0 .. MaxFd, f # 1, NEW by \in Ends \cup {Proxy},
         NEW r \in SendResults(f, by)
  PROVE  /\ r.ret \in {"sent", "again", "failed", "killed"}
         /\ SocketsOK(r.sock) /\ Alike(sock, r.sock)
         /\ \A t \in Ends : /\ r.sock[t].in = sock[t].in
                            /\ (f = 0 \/ t # fdt[f]) => r.sock[t] = sock[t]
                            /\ r.sock[t].got \subseteq sock[t].got \cup {by}
<1>1. Alike(sock, sock)
  BY DEF Alike
<1>2. CASE r.sock = sock /\ r.ret \in {"failed", "killed"}
  BY <1>1, <1>2
<1>3. CASE f # 0 /\ fdt[f] # Free /\ fdt[f] # Leaked
  <2>1. fdt[f] \in Ends
    BY <1>3 DEF TableOK, Tables, Slots
  <2>2. r \in SendOn(fdt[f], by, sock)
    BY <1>3 DEF SendResults
  <2> QED
    BY <1>3, <2>1, <2>2, SendOnFacts
<1> QED
  BY <1>2, <1>3 DEF SendResults

-----------------------------------------------------------------------------
(***************************************************************************)
(* Descriptor numbers.                                                     *)
(***************************************************************************)
LEMMA FiniteSets ==
  ASSUME NEW table, NEW socks
  PROVE  /\ IsFiniteSet(Conns) /\ Cardinality(Conns) = N
         /\ IsFiniteSet(1 .. MaxFd) /\ Cardinality(1 .. MaxFd) = MaxFd
         /\ IsFiniteSet(LeakedFds(table)) /\ Cardinality(LeakedFds(table)) \in Nat
         /\ IsFiniteSet(Lost(socks)) /\ Cardinality(Lost(socks)) \in Nat
<1>1. /\ IsFiniteSet(Conns) /\ Cardinality(Conns) = N
      /\ IsFiniteSet(1 .. MaxFd) /\ Cardinality(1 .. MaxFd) = MaxFd
  BY FS_Interval, ProxyNetAssumption DEF Conns
<1>2. LeakedFds(table) \subseteq 1 .. MaxFd /\ Lost(socks) \subseteq Conns
  BY DEF LeakedFds, Lost
<1> QED
  BY <1>1, <1>2, FS_Subset, FS_CardinalityType

(* While a browser is neither turned away nor has an upstream, there is a  *)
(* free number: each of the others leaked one or has two sockets, at most. *)
LEMMA FreeNumber ==
  ASSUME NEW table, TableOK(table), NEW socks, LeaksOK(table, socks),
         NEW i \in Conns, i \notin Lost(socks)
  PROVE  Lowest(table) \in 2 .. MaxFd /\ table[Lowest(table)] = Free
<1> DEFINE Owned == {f \in 1 .. MaxFd : table[f] \in Ends}
           Gone == LeakedFds(table)
<1>1. IsFiniteSet(Ends) /\ Cardinality(Ends) = N * 2
  <2>1. IsFiniteSet({"client"}) /\ Cardinality({"client"}) = 1
    BY FS_Singleton
  <2>2. IsFiniteSet({"client"} \cup {"server"}) /\ Cardinality({"client"} \cup {"server"}) = 2
    BY <2>1, FS_AddElement
  <2>3. {"client"} \cup {"server"} = {"client", "server"}
    OBVIOUS
  <2>4. IsFiniteSet({"client", "server"}) /\ Cardinality({"client", "server"}) = 2
    BY <2>2, <2>3
  <2> QED
    BY <2>4, FiniteSets, FS_Product DEF Ends
<1>2. IsFiniteSet(Owned) /\ Cardinality(Owned) <= N * 2
  <2>1. [f \in Owned |-> table[f]] \in Injection(Owned, Ends)
    BY DEF TableOK, Injection, IsInjective
  <2> QED
    BY <1>1, <2>1, FS_Injection
<1>3. Cardinality(Gone) <= N - 1
  <2>1. Cardinality(Conns \ {i}) = N - 1 /\ IsFiniteSet(Conns \ {i})
    BY FiniteSets, FS_RemoveElement
  <2>2. Lost(socks) \subseteq Conns \ {i}
    BY DEF Lost
  <2>3. Cardinality(Lost(socks)) <= N - 1
    BY <2>1, <2>2, FS_Subset
  <2> QED
    BY <2>3, FiniteSets, ProxyNetAssumption DEF LeaksOK
<1>4. PICK f \in 1 .. MaxFd : table[f] = Free
  <2>1. SUFFICES ASSUME \A f \in 1 .. MaxFd : table[f] # Free PROVE FALSE
    OBVIOUS
  <2>2. 1 .. MaxFd = (Owned \cup Gone) \cup {1}
    BY <2>1, ProxyNetAssumption DEF TableOK, Tables, Slots, LeakedFds
  <2>3. IsFiniteSet(Owned \cup Gone) /\ Cardinality(Owned \cup Gone) <= N * 2 + (N - 1)
    <3>1. IsFiniteSet(Gone) /\ Cardinality(Gone) \in Nat /\ Cardinality(Owned) \in Nat
      BY <1>2, FiniteSets, FS_CardinalityType
    <3>2. /\ IsFiniteSet(Owned \cup Gone)
          /\ Cardinality(Owned \cup Gone) =
               Cardinality(Owned) + Cardinality(Gone) - Cardinality(Owned \cap Gone)
      BY <1>2, <3>1, FS_Union
    <3>3. Cardinality(Owned \cap Gone) \in Nat
      BY <1>2, FS_Intersection, FS_CardinalityType
    <3> HIDE DEF Owned, Gone
    <3> QED
      BY <1>2, <1>3, <3>1, <3>2, <3>3, ProxyNetAssumption
  <2>4. Cardinality(1 .. MaxFd) <= N * 2 + (N - 1) + 1
    <3>1. Cardinality(Owned \cup Gone) \in Nat
      BY <2>3, FS_CardinalityType
    <3> HIDE DEF Owned, Gone
    <3>2. /\ Cardinality((Owned \cup Gone) \cup {1}) = Cardinality(Owned \cup Gone) + 1
          \/ Cardinality((Owned \cup Gone) \cup {1}) = Cardinality(Owned \cup Gone)
      BY <2>3, FS_AddElement
    <3>3. Cardinality((Owned \cup Gone) \cup {1}) <= N * 2 + (N - 1) + 1
      BY <2>3, <3>1, <3>2, ProxyNetAssumption
    <3> QED
      BY <2>2, <3>3
  <2> QED
    BY <2>4, FiniteSets, ProxyNetAssumption
<1>5. Lowest(table) \in 1 .. MaxFd /\ table[Lowest(table)] = Free
  BY <1>4, LowestIsFree DEF TableOK
<1> QED
  BY <1>5, EndsFacts, ProxyNetAssumption DEF TableOK

(* A number is given to a socket that has none, or leaked.                 *)
Opens(table, after, f, s) ==
  /\ TableOK(after) /\ LeakedFds(after) = LeakedFds(table) /\ after[f] = s
  /\ \A t \in Ends : HasFd(after, t) <=> (HasFd(table, t) \/ t = s)
  /\ \A g \in 1 .. MaxFd : table[g] \in Ends => after[g] = table[g]

LEMMA OpenNumber ==
  ASSUME NEW table, TableOK(table), NEW f \in 1 .. MaxFd, table[f] = Free,
         NEW s \in Ends, ~HasFd(table, s), NEW after, after = [table EXCEPT ![f] = s]
  PROVE  Opens(table, after, f, s)
<1>1. after \in Tables /\ \A g \in 1 .. MaxFd : after[g] = IF g = f THEN s ELSE table[g]
  BY DEF TableOK, Tables, Slots
<1>2. TableOK(after)
  BY <1>1, EndsFacts DEF TableOK, HasFd
<1>3. LeakedFds(after) = LeakedFds(table)
  BY <1>1, EndsFacts DEF LeakedFds
<1>4. \A t \in Ends : HasFd(after, t) <=> (HasFd(table, t) \/ t = s)
  BY <1>1, EndsFacts DEF HasFd
<1>5. \A g \in 1 .. MaxFd : table[g] \in Ends => after[g] = table[g]
  BY <1>1, EndsFacts
<1> QED
  BY <1>1, <1>2, <1>3, <1>4, <1>5 DEF Opens

LeaksOne(table, after, f) ==
  /\ TableOK(after) /\ LeakedFds(after) = LeakedFds(table) \cup {f}
  /\ \A t \in Ends : HasFd(after, t) <=> HasFd(table, t)
  /\ \A g \in 1 .. MaxFd : table[g] \in Ends => after[g] = table[g]

LEMMA LeakNumber ==
  ASSUME NEW table, TableOK(table), NEW f \in 1 .. MaxFd, table[f] = Free,
         NEW after, after = [table EXCEPT ![f] = Leaked]
  PROVE  LeaksOne(table, after, f)
<1>1. after \in Tables /\ \A g \in 1 .. MaxFd : after[g] = IF g = f THEN Leaked ELSE table[g]
  BY DEF TableOK, Tables, Slots
<1>2. TableOK(after)
  BY <1>1, EndsFacts DEF TableOK
<1>3. LeakedFds(after) = LeakedFds(table) \cup {f}
  BY <1>1, EndsFacts DEF LeakedFds
<1>4. \A t \in Ends : HasFd(after, t) <=> HasFd(table, t)
  BY <1>1, EndsFacts DEF HasFd
<1>5. ASSUME NEW g \in 1 .. MaxFd, table[g] \in Ends PROVE after[g] = table[g]
  <2>1. g # f
    BY <1>5, EndsFacts
  <2> QED
    BY <1>1, <2>1
<1> QED
  BY <1>2, <1>3, <1>4, <1>5 DEF LeaksOne

(* The numbers of sockets are closed.                                      *)
Closes(table, after, fds) ==
  /\ TableOK(after) /\ LeakedFds(after) = LeakedFds(table)
  /\ \A t \in Ends : HasFd(after, t) <=> \E f \in (1 .. MaxFd) \ fds : table[f] = t
  /\ \A f \in 1 .. MaxFd : after[f] = IF f \in fds THEN Free ELSE table[f]

LEMMA CloseNumbers ==
  ASSUME NEW table, TableOK(table), NEW fds, \A f \in fds : f \in 1 .. MaxFd /\ table[f] \in Ends,
         NEW after, after = [f \in DOMAIN table |-> IF f \in fds THEN Free ELSE table[f]]
  PROVE  Closes(table, after, fds)
<1>1. after \in Tables /\ \A f \in 1 .. MaxFd : after[f] = IF f \in fds THEN Free ELSE table[f]
  BY DEF TableOK, Tables, Slots
<1>2. TableOK(after)
  BY <1>1, EndsFacts DEF TableOK
<1>3. LeakedFds(after) = LeakedFds(table)
  BY <1>1, EndsFacts DEF LeakedFds
<1>4. \A t \in Ends : HasFd(after, t) <=> \E f \in (1 .. MaxFd) \ fds : table[f] = t
  BY <1>1, EndsFacts DEF HasFd
<1> QED
  BY <1>1, <1>2, <1>3, <1>4 DEF Closes

(* The bound on what leaks: no step forgets a browser that was turned      *)
(* away, and each number that is leaked is for another of them.            *)
LEMMA LeaksKept ==
  ASSUME NEW table, NEW socks, LeaksOK(table, socks), NEW table2, NEW socks2,
         LeakedFds(table2) \subseteq LeakedFds(table), Lost(socks) \subseteq Lost(socks2)
  PROVE  LeaksOK(table2, socks2)
<1>1. /\ Cardinality(LeakedFds(table2)) <= Cardinality(LeakedFds(table))
      /\ Cardinality(Lost(socks)) <= Cardinality(Lost(socks2))
  BY FiniteSets, FS_Subset
<1> QED
  BY <1>1, FiniteSets DEF LeaksOK

OneMore(table, socks, table2, socks2) ==
  /\ \E f : LeakedFds(table2) \subseteq LeakedFds(table) \cup {f}
  /\ \E i : i \notin Lost(socks) /\ Lost(socks) \cup {i} \subseteq Lost(socks2)

LEMMA OneMoreLeak ==
  ASSUME NEW table, NEW socks, LeaksOK(table, socks), NEW table2, NEW socks2,
         OneMore(table, socks, table2, socks2)
  PROVE  LeaksOK(table2, socks2)
<1>0. PICK f, i : /\ LeakedFds(table2) \subseteq LeakedFds(table) \cup {f}
                  /\ i \notin Lost(socks) /\ Lost(socks) \cup {i} \subseteq Lost(socks2)
  BY DEF OneMore
<1>1. /\ IsFiniteSet(LeakedFds(table) \cup {f})
      /\ Cardinality(LeakedFds(table) \cup {f}) <= Cardinality(LeakedFds(table)) + 1
  <2>1. /\ IsFiniteSet(LeakedFds(table) \cup {f})
        /\ \/ Cardinality(LeakedFds(table) \cup {f}) = Cardinality(LeakedFds(table)) + 1
           \/ Cardinality(LeakedFds(table) \cup {f}) = Cardinality(LeakedFds(table))
    BY FiniteSets, FS_AddElement
  <2> QED
    BY <2>1, FiniteSets
<1>2. Cardinality(LeakedFds(table2)) <= Cardinality(LeakedFds(table) \cup {f})
  BY <1>0, <1>1, FS_Subset
<1>3. Cardinality(LeakedFds(table) \cup {f}) \in Nat
  BY <1>1, FS_CardinalityType
<1>4. /\ IsFiniteSet(Lost(socks) \cup {i})
      /\ Cardinality(Lost(socks) \cup {i}) = Cardinality(Lost(socks)) + 1
  BY <1>0, FiniteSets, FS_AddElement
<1>5. Cardinality(Lost(socks) \cup {i}) <= Cardinality(Lost(socks2))
  BY <1>0, FiniteSets, FS_Subset
<1> QED
  BY <1>1, <1>2, <1>3, <1>4, <1>5, FiniteSets DEF LeaksOK

-----------------------------------------------------------------------------
(***************************************************************************)
(* Releasing Data.                                                         *)
(***************************************************************************)
LEMMA CountFacts ==
  ASSUME NEW D, NEW i
  PROVE  /\ Count(D, i) \in 0 .. 2
         /\ Count(D, i) = 0 <=> Client(i) \notin D /\ Server(i) \notin D
BY DEF Count

LEMMA CountLeft ==
  ASSUME NEW D0, NEW D, D \subseteq D0, NEW i
  PROVE  Count(D0 \ D, i) = Count(D0, i) - Count(D, i)
BY DEF Count

SameRest(D0, D) == data \ D = D0 \ D
Cleans(D0, O, D, table, socks) ==
  /\ data' = D0 \ D /\ CountsOK(conn', D0 \ D) /\ OwnsOK(conn', O \ D, fdt')
  /\ KernelOK(fdt', sock')
  /\ \A t \in Ends : HasFd(fdt', t) <=> HasFd(table, t) /\ t \notin D
  /\ \A t \in Ends : t \notin D => sock'[t] = socks[t]
  /\ \A t \in Ends : sock'[t].got \subseteq socks[t].got

(* cleanup_connection of the Data D of connection i, where D0 are allocated *)
(* and those of O own their descriptors.                                   *)
LEMMA CleanupFacts ==
  ASSUME NEW i \in Conns, NEW D, NEW O, NEW D0, D # {}, D \subseteq O, O \subseteq D0,
         \A d \in D : d[1] = i,
         NEW pairs, NEW table, NEW socks,
         CountsOK(pairs, D0), OwnsOK(pairs, O, table), KernelOK(table, socks),
         SameRest(D0, D), cleanup_connection(i, D, pairs, table, socks)
  PROVE  Cleans(D0, O, D, table, socks)
<1> DEFINE fds == {PairFd(pairs, d) : d \in D}
           left == pairs[i].refs - Cardinality(D)
<1>1. D \subseteq Ends /\ O \subseteq Ends /\ D0 \subseteq Ends
  BY DEF CountsOK
<1>2. \A f \in 1 .. MaxFd : f \in fds <=> table[f] \in D
  <2>1. \A d \in D : PairFd(pairs, d) \in 1 .. MaxFd /\ table[PairFd(pairs, d)] = d
    BY DEF OwnsOK
  <2>2. ASSUME NEW f \in 1 .. MaxFd, table[f] \in D PROVE f \in fds
    BY <1>1, <2>1, <2>2 DEF KernelOK, TableOK
  <2> QED
    BY <2>1, <2>2
<1>3. fdt' = [f \in DOMAIN table |-> IF f \in fds THEN Free ELSE table[f]]
  BY DEF cleanup_connection, PairFd
<1>4. \A f \in fds : f \in 1 .. MaxFd /\ table[f] \in Ends
  BY <1>1 DEF OwnsOK
<1>5. /\ TableOK(fdt') /\ LeakedFds(fdt') = LeakedFds(table)
      /\ \A t \in Ends : HasFd(fdt', t) <=> \E f \in (1 .. MaxFd) \ fds : table[f] = t
      /\ \A f \in 1 .. MaxFd : fdt'[f] = IF f \in fds THEN Free ELSE table[f]
  <2> HIDE DEF fds
  <2>1. PICK after : after = fdt'
    OBVIOUS
  <2>2. Closes(table, after, fds)
    BY <1>3, <1>4, <2>1, CloseNumbers DEF KernelOK
  <2> QED
    BY <2>1, <2>2 DEF Closes
<1>6. \A t \in Ends : HasFd(fdt', t) <=> HasFd(table, t) /\ t \notin D
  BY <1>2, <1>5 DEF HasFd
<1>7. \A t \in D : HasFd(table, t)
  BY DEF OwnsOK, HasFd
<1>8. sock' = [t \in Ends |-> IF t \in D THEN Shut(socks[t]) ELSE socks[t]]
  <2>1. \A t : t \in {table[f] : f \in fds} <=> t \in D
    BY <1>2, <1>4 DEF OwnsOK
  <2>2. sock' = [t \in Ends |-> IF t \in {table[f] : f \in fds} THEN Shut(socks[t]) ELSE socks[t]]
    BY DEF cleanup_connection, PairFd
  <2> QED
    BY <2>1, <2>2
<1>9. SocketsOK(sock') /\ \A t \in Ends : sock'[t].got \subseteq socks[t].got
  <2>1. \A t \in Ends : Shut(socks[t]) \in SocketsOf(t) /\ Shut(socks[t]).got = {}
    BY ShutType DEF KernelOK
  <2> QED
    BY <1>8, <2>1 DEF SocketsOK, KernelOK
<1>10. OpenOK(fdt', sock')
  BY <1>6, <1>8 DEF OpenOK, KernelOK
<1>11. LeaksOK(fdt', sock')
  <2>1. \A t \in D : socks[t].end # "none" /\ sock'[t].end = "closed"
    BY <1>1, <1>7, <1>8, ShutType DEF KernelOK, OpenOK
  <2>2. Lost(socks) \subseteq Lost(sock')
    BY <1>1, <1>8, <2>1, EndsFacts DEF Lost
  <2> QED
    BY <1>5, <2>2, LeaksKept DEF KernelOK
<1>12. Cardinality(D) = Count(D, i) /\ \A j \in Conns : j # i => Count(D, j) = 0
  <2>1. D = {d \in D : d[1] = i}
    OBVIOUS
  <2>2. \A j \in Conns : j # i => Client(j) \notin D /\ Server(j) \notin D
    BY EndsFacts
  <2> QED
    BY <1>1, <2>1, <2>2, CountIs DEF Count
<1>13. conn' = [pairs EXCEPT ![i] = IF left = 0 THEN NoPair ELSE [pairs[i] EXCEPT !.refs = left]]
  BY DEF cleanup_connection
<1>14. left = Count(D0 \ D, i) /\ left \in 0 .. 2 /\ left # pairs[i].refs
  <2>1. Count(D, i) # 0
    <3>1. PICK d \in D : d[1] = i
      OBVIOUS
    <3>2. d = Client(i) \/ d = Server(i)
      BY <1>1, <3>1, EndsFacts
    <3> QED
      BY <3>2, CountFacts
  <2>2. /\ D \subseteq D0 /\ pairs[i].refs = Count(D0, i)
        /\ Count(D, i) \in 0 .. 2 /\ Count(D0, i) \in 0 .. 2 /\ Count(D0 \ D, i) \in 0 .. 2
    BY CountFacts DEF CountsOK
  <2>3. Count(D0 \ D, i) = Count(D0, i) - Count(D, i)
    BY <2>2, CountLeft
  <2> QED
    BY <1>12, <2>1, <2>2, <2>3
<1>15. CountsOK(conn', D0 \ D)
  <2>1. pairs \in [Conns -> Pairs] /\ pairs[i].live
    <3>1. PICK d \in D : d[1] = i
      OBVIOUS
    <3>2. (d = Client(i) \/ d = Server(i)) /\ d \in D0
      BY <1>1, <3>1, EndsFacts
    <3> QED
      BY <3>2, CountFacts DEF CountsOK
  <2>2. NoPair \in Pairs /\ NoPair.refs = 0 /\ ~NoPair.live
    BY ProxyNetAssumption DEF NoPair, Pairs, Keys
  <2>3. \A j \in Conns : j # i => conn'[j] = pairs[j] /\ Count(D0 \ D, j) = Count(D0, j)
    <3>1. \A j \in Conns : j # i => Count(D0 \ D, j) = Count(D0, j) - 0
      BY <1>1, <1>12, CountLeft
    <3>2. \A j \in Conns : Count(D0 \ D, j) \in 0 .. 2 /\ Count(D0, j) \in 0 .. 2
      BY CountFacts
    <3>3. \A j \in Conns : j # i => Count(D0 \ D, j) = Count(D0, j)
      BY <3>1, <3>2
    <3>4. \A j \in Conns : j # i => conn'[j] = pairs[j]
      BY <1>13, <2>1
    <3> QED
      BY <3>3, <3>4
  <2>4. conn'[i] \in Pairs /\ conn'[i].refs = left
        /\ (conn'[i].live <=> left # 0)
        /\ (conn'[i].live => conn'[i].fd1 # 1 /\ conn'[i].fd2 # 1)
    BY <1>13, <1>14, <2>1, <2>2 DEF CountsOK, Pairs
  <2>5. conn' \in [Conns -> Pairs]
    BY <1>13, <2>1, <2>3, <2>4
  <2> QED
    BY <1>1, <1>14, <2>3, <2>4, <2>5 DEF CountsOK
<1>16. OwnsOK(conn', O \ D, fdt')
  <2> SUFFICES ASSUME NEW d \in O \ D
               PROVE  PairFd(conn', d) \in 1 .. MaxFd /\ fdt'[PairFd(conn', d)] = d
    BY DEF OwnsOK
  <2>1. PairFd(conn', d) = PairFd(pairs, d)
    <3>1. CASE d[1] = i
      <4>1. left # 0
        <5>1. d = Client(i) \/ d = Server(i)
          BY <1>1, <3>1, EndsFacts
        <5> HIDE DEF left
        <5> QED
          BY <1>14, <5>1, CountFacts
      <4> QED
        BY <1>13, <1>14, <3>1, <4>1 DEF PairFd, CountsOK, Pairs
    <3>2. CASE d[1] # i
      BY <1>1, <1>13, <3>2, EndsFacts DEF PairFd, CountsOK
    <3> QED
      BY <3>1, <3>2
  <2>2. PairFd(pairs, d) \in 1 .. MaxFd /\ table[PairFd(pairs, d)] = d
    BY DEF OwnsOK
  <2> QED
    BY <1>2, <1>5, <2>1, <2>2
<1>17. data' = D0 \ D
  BY DEF cleanup_connection, SameRest
<1> QED
  BY <1>5, <1>6, <1>8, <1>9, <1>10, <1>11, <1>15, <1>16, <1>17 DEF KernelOK, Cleans

(* A browser's socket is closed; the number of the upstream's, that        *)
(* connect() failed on, may be leaked.                                     *)
TurnsAway(i) ==
  /\ KernelOK(fdt', sock')
  /\ \A t \in Ends : HasFd(fdt', t) <=> HasFd(fdt, t) /\ t # Client(i)
  /\ \A h \in 1 .. MaxFd : fdt[h] \in Ends /\ fdt[h] # Client(i) => fdt'[h] = fdt[h]
  /\ sock'[Client(i)].end = "closed" /\ sock'[Client(i)].got = {}
  /\ \A t \in Ends : t # Client(i) => sock'[t] = sock[t]

LEMMA TurnAwayFacts ==
  ASSUME KernelOK(fdt, sock), NEW i \in Conns, sock[Server(i)].end = "none",
         NEW f \in 1 .. MaxFd, fdt[f] = Client(i), NEW socks, SocketsOK(socks),
         \A t \in Ends : t # Client(i) => socks[t] = sock[t],
         NEW closed, closed = [fdt EXCEPT ![f] = Free],
         fdt' = closed \/ fdt' = [closed EXCEPT ![Lowest(fdt)] = Leaked],
         sock' = [socks EXCEPT ![Client(i)] = Shut(@)]
  PROVE  TurnsAway(i)
<1> DEFINE c == Client(i)
<1>1. /\ c \in Ends /\ Server(i) \in Ends /\ Server(i) # c
      /\ TableOK(fdt) /\ SocketsOK(sock) /\ OpenOK(fdt, sock) /\ LeaksOK(fdt, sock)
      /\ fdt[f] = c
  BY EndsFacts DEF KernelOK
<1>2. HasFd(fdt, c) /\ i \notin Lost(sock)
  BY <1>1 DEF HasFd, Lost, OpenOK
<1>3. PICK g \in 1 .. MaxFd : g = Lowest(fdt) /\ fdt[g] = Free
  BY <1>1, <1>2, FreeNumber, ProxyNetAssumption
<1> HIDE DEF c
<1>4. c = Client(i)
  BY DEF c
<1>5. closed = [h \in DOMAIN fdt |-> IF h \in {f} THEN Free ELSE fdt[h]]
  BY <1>1 DEF TableOK, Tables
<1>6. \A h \in {f} : h \in 1 .. MaxFd /\ fdt[h] \in Ends
  BY <1>1
<1>7. /\ TableOK(closed) /\ LeakedFds(closed) = LeakedFds(fdt)
      /\ \A t \in Ends : HasFd(closed, t) <=> \E h \in (1 .. MaxFd) \ {f} : fdt[h] = t
      /\ \A h \in 1 .. MaxFd : closed[h] = IF h \in {f} THEN Free ELSE fdt[h]
  <2>1. Closes(fdt, closed, {f})
    BY <1>1, <1>5, <1>6, CloseNumbers
  <2> QED
    BY <2>1 DEF Closes
<1>8. \A t \in Ends : HasFd(closed, t) <=> HasFd(fdt, t) /\ t # c
  BY <1>1, <1>7 DEF HasFd, TableOK
<1>9. closed[g] = Free
  BY <1>1, <1>3, <1>7
<1>10. /\ TableOK(fdt') /\ LeakedFds(fdt') \subseteq LeakedFds(fdt) \cup {g}
       /\ \A t \in Ends : HasFd(fdt', t) <=> HasFd(fdt, t) /\ t # c
       /\ \A h \in 1 .. MaxFd : fdt[h] \in Ends /\ fdt[h] # c => fdt'[h] = fdt[h]
  <2>1. CASE fdt' = closed
    BY <1>1, <1>7, <1>8, <2>1
  <2>2. CASE fdt' = [closed EXCEPT ![g] = Leaked]
    <3>1. /\ TableOK(fdt') /\ LeakedFds(fdt') = LeakedFds(closed) \cup {g}
          /\ \A t \in Ends : HasFd(fdt', t) <=> HasFd(closed, t)
          /\ \A h \in 1 .. MaxFd : closed[h] \in Ends => fdt'[h] = closed[h]
      <4>1. LeaksOne(closed, fdt', g)
        BY <1>7, <1>9, <2>2, LeakNumber
      <4> QED
        BY <4>1 DEF LeaksOne
    <3> QED
      BY <1>1, <1>7, <1>8, <3>1
  <2> QED
    BY <1>3, <2>1, <2>2
<1>11. /\ SocketsOK(sock') /\ sock'[c].end = "closed" /\ sock'[c].got = {}
       /\ \A t \in Ends : t # c => sock'[t] = sock[t]
  <2>1. sock' = [socks EXCEPT ![c] = Shut(socks[c])]
    BY <1>4
  <2>2. Shut(socks[c]) \in SocketsOf(c) /\ Shut(socks[c]).end = "closed" /\ Shut(socks[c]).got = {}
    BY <1>1, ShutType
  <2>3. c \in DOMAIN socks
    BY <1>1 DEF SocketsOK
  <2>4. PICK new \in SocketsOf(c) : new = Shut(socks[c])
    BY <2>2
  <2>5. SocketsOK(sock')
    BY <2>1, <2>4 DEF SocketsOK
  <2> QED
    BY <1>1, <1>4, <2>1, <2>2, <2>3, <2>5
<1>12. KernelOK(fdt', sock')
  <2>1. OpenOK(fdt', sock')
    BY <1>1, <1>10, <1>11 DEF OpenOK
  <2>2. LeaksOK(fdt', sock')
    <3>2. Lost(sock) \cup {i} \subseteq Lost(sock')
      <4>1. i \in Lost(sock')
        BY <1>1, <1>4, <1>11 DEF Lost
      <4>2. \A j \in Conns : j # i => Client(j) # c /\ Server(j) # c
        BY <1>1, <1>4, EndsFacts
      <4> QED
        BY <1>11, <4>1, <4>2, EndsFacts DEF Lost
    <3> QED
      <4>1. OneMore(fdt, sock, fdt', sock')
        BY <1>2, <1>10, <3>2 DEF OneMore
      <4> QED
        BY <1>1, <4>1, OneMoreLeak
  <2> QED
    BY <1>10, <1>11, <2>1, <2>2 DEF KernelOK
<1> QED
  BY <1>4, <1>10, <1>11, <1>12 DEF TurnsAway

(* connect() to an upstream: its socket gets the lowest number.            *)
Reaches(i, table, socks, opened, after) ==
  /\ Lowest(table) \in 2 .. MaxFd /\ table[Lowest(table)] = Free
  /\ KernelOK(opened, after) /\ opened[Lowest(table)] = Server(i)
  /\ \A t \in Ends : HasFd(opened, t) <=> (HasFd(table, t) \/ t = Server(i))
  /\ \A g \in 1 .. MaxFd : table[g] \in Ends => opened[g] = table[g]
  /\ after[Server(i)].end = "open" /\ after[Server(i)].got = socks[Server(i)].got
  /\ \A t \in Ends : t # Server(i) => after[t] = socks[t]

LEMMA ReachesFacts ==
  ASSUME NEW table, NEW socks, KernelOK(table, socks), NEW i \in Conns,
         socks[Server(i)].end = "none", socks[Client(i)].end # "closed",
         NEW opened, opened = [table EXCEPT ![Lowest(table)] = Server(i)],
         NEW close \in BOOLEAN, NEW after,
         after = [socks EXCEPT ![Server(i)].end = "open", ![Server(i)].close = close]
  PROVE  Reaches(i, table, socks, opened, after)
<1> DEFINE s == Server(i)
<1>1. /\ s \in Ends /\ Client(i) # s /\ TableOK(table) /\ SocketsOK(socks)
      /\ OpenOK(table, socks) /\ LeaksOK(table, socks) /\ ~HasFd(table, s)
  BY EndsFacts DEF KernelOK, OpenOK
<1>2. Lowest(table) \in 2 .. MaxFd /\ table[Lowest(table)] = Free
  BY <1>1, FreeNumber DEF Lost
<1>3. PICK g \in 1 .. MaxFd : g = Lowest(table)
  BY <1>2, ProxyNetAssumption
<1>4. Opens(table, opened, g, s)
  <2> HIDE DEF s
  <2>1. s = Server(i)
    BY DEF s
  <2> QED
    BY <1>1, <1>2, <1>3, <2>1, OpenNumber
<1>5. PICK new \in SocketsOf(s) : /\ new.end = "open" /\ new.got = socks[s].got
                                  /\ after = [socks EXCEPT ![s] = new]
  <2>1. socks[s] \in SocketsOf(s) /\ s \in DOMAIN socks
    BY <1>1 DEF SocketsOK
  <2> DEFINE k == [[socks[s] EXCEPT !.end = "open"] EXCEPT !.close = close]
  <2>2. k \in SocketsOf(s) /\ k.end = "open" /\ k.got = socks[s].got
    BY <2>1 DEF SocketsOf
  <2>3. after = [socks EXCEPT ![s] = k]
    BY <2>1
  <2> QED
    BY <2>2, <2>3
<1>6. /\ SocketsOK(after) /\ after[s] = new
      /\ \A t \in Ends : t # s => after[t] = socks[t]
  BY <1>1, <1>5 DEF SocketsOK
<1>7. /\ TableOK(opened) /\ LeakedFds(opened) = LeakedFds(table)
      /\ \A t \in Ends : HasFd(opened, t) <=> (HasFd(table, t) \/ t = s)
  BY <1>4 DEF Opens
<1>8. OpenOK(opened, after)
  BY <1>1, <1>5, <1>6, <1>7 DEF OpenOK
<1>9. Lost(socks) \subseteq Lost(after)
  <2> SUFFICES ASSUME NEW j \in Conns, socks[Server(j)].end = "none", socks[Client(j)].end = "closed"
               PROVE  j \in Lost(after)
    BY DEF Lost
  <2>1. j # i
    OBVIOUS
  <2>2. Server(j) # s /\ Client(j) # s /\ Server(j) \in Ends /\ Client(j) \in Ends
    BY <2>1, EndsFacts
  <2> QED
    BY <1>6, <2>2 DEF Lost
<1>10. LeaksOK(opened, after)
  BY <1>1, <1>7, <1>9, LeaksKept
<1>11. KernelOK(opened, after)
  BY <1>6, <1>7, <1>8, <1>10 DEF KernelOK
<1> QED
  BY <1>2, <1>3, <1>4, <1>5, <1>6, <1>11 DEF Reaches, Opens

-----------------------------------------------------------------------------
(***************************************************************************)
(* The browsers that wait, and the other ends' steps.                      *)
(***************************************************************************)
(* The state that both start in.                                           *)
LEMMA NetInitOK ==
  ASSUME NetInit, PairInit
  PROVE  NetOK /\ \A s \in Ends : ~HasFd(fdt, s)
<1> USE DEF NetInit, PairInit
<1>1. SocketsOK(sock)
  <2>1. \A s \in Ends : NewSocket \in SocketsOf(s)
    BY EmptySeq DEF NewSocket, SocketsOf
  <2> QED
    BY <2>1 DEF SocketsOK
<1>2. TableOK(fdt)
  BY EndsFacts, ProxyNetAssumption DEF TableOK, Tables, Slots
<1>3. \A s \in Ends : ~HasFd(fdt, s)
  BY EndsFacts DEF HasFd
<1>4. LeaksOK(fdt, sock)
  <2>1. LeakedFds(fdt) = {}
    BY EndsFacts DEF LeakedFds
  <2>2. Cardinality(LeakedFds(fdt)) = 0
    BY <2>1, FS_EmptySet
  <2> QED
    BY <2>2, FiniteSets DEF LeaksOK
<1>5. KernelOK(fdt, sock)
  BY <1>1, <1>2, <1>3, <1>4 DEF KernelOK, OpenOK
<1>6. QueueOK
  <2>1. backlog \in Seq(Conns) /\ Len(backlog) = 0
    BY EmptySeq
  <2>2. \A i \in Conns : ~Waiting(i)
    BY <2>1 DEF Waiting
  <2>3. \A i \in Conns : Untouched(i, data, sock) /\ sock[Client(i)].end = "none"
    BY EndsFacts DEF Untouched, NewSocket
  <2> QED
    BY <1>3, <2>1, <2>2, <2>3, EndsFacts DEF QueueOK
<1>7. BatchOK
  BY DEF BatchOK
<1> QED
  BY <1>3, <1>5, <1>6, <1>7 DEF NetOK

(* A handler that leaves the connections alone that have not come to it.   *)
LEMMA QueueKept ==
  ASSUME QueueOK, UNCHANGED <<req, backlog>>,
         \A i \in Conns : req[i] = NoRequest \/ Waiting(i) =>
           /\ Client(i) \notin data' /\ Server(i) \notin data' /\ ~HasFd(fdt', Client(i))
           /\ sock'[Client(i)].end = sock[Client(i)].end
           /\ sock'[Server(i)].end = sock[Server(i)].end
  PROVE  QueueOK'
BY DEF QueueOK, Untouched, Waiting

LEMMA RequestIsOne ==
  /\ Asked \subseteq Requests /\ NoRequest \notin Asked
  /\ \A c \in Scripts : \A i \in Conns : c[i] \in Asked
<1>1. Asked \subseteq Requests
  <2>1. \A c \in Scripts : \A i \in Conns : c[i] \in Requests
    BY ScriptsAssumption DEF Conns
  <2> QED
    BY <2>1 DEF Asked
<1>2. \A r \in Requests : r # NoRequest
  <2> TAKE r \in Requests
  <2>1. "binary" \in DOMAIN r
    BY DEF Requests
  <2>2. "binary" \notin DOMAIN NoRequest
    BY DEF NoRequest
  <2> QED
    BY <2>1, <2>2
<1> QED
  BY <1>1, <1>2 DEF Asked

(* What a step of the other ends leaves as it was.                         *)
OthersKeep ==
  /\ UNCHANGED <<fdt, conn, data, batch, Table, pc>>
  /\ \A s \in Ends : sock'[s].got = sock[s].got
  /\ \A s \in Ends : sock[s].end # "none" => /\ sock'[s].sent >= sock[s].sent
                                             /\ sock'[s].end \notin {"none", "closed"} \/ sock'[s] = sock[s]
  /\ \A i \in Conns : sock'[Server(i)].end = "none" <=> sock[Server(i)].end = "none"
  /\ \A s \in Ends : sock'[s].end = "closed" <=> sock[s].end = "closed"
  /\ \A i \in Conns : req[i] # NoRequest => req'[i] = req[i] /\ (Waiting(i)' => Waiting(i))

LEMMA SendsFacts ==
  ASSUME NetOK, NEW s \in Ends, NEW chunk \in ChunksOf(s), NEW sent \in Nat,
         sent >= sock[s].sent, Sends(s, chunk, sent)
  PROVE  NetOK' /\ OthersKeep
<1> DEFINE new == [[sock[s] EXCEPT !.in = Append(@, chunk)] EXCEPT !.sent = sent]
<1>1. sock[s] \in SocketsOf(s) /\ s \in DOMAIN sock
  BY DEF NetOK, KernelOK, SocketsOK
<1>2. new \in SocketsOf(s) /\ new.end = sock[s].end /\ new.got = sock[s].got /\ new.sent = sent
  <2>1. Append(sock[s].in, chunk) \in Seq(ChunksOf(s))
    BY <1>1, AppendProperties DEF SocketsOf
  <2> QED
    BY <1>1, <2>1 DEF SocketsOf
<1>3. sock' = [sock EXCEPT ![s] = new]
  BY <1>1 DEF Sends
<1>4. \A t \in Ends : t # s => sock'[t] = sock[t]
  BY <1>3
<1>5. sock'[s] = new
  BY <1>1, <1>3
<1> HIDE DEF new
<1>6. SocketsOK(sock')
  BY <1>2, <1>3, SocketsExcept DEF NetOK, KernelOK
<1>7. \A t \in Ends : sock'[t].end = sock[t].end /\ sock'[t].got = sock[t].got
  BY <1>2, <1>4, <1>5
<1>8. Alike(sock, sock')
  BY <1>7 DEF Alike
<1>9. UNCHANGED <<req, fdt, backlog, conn, data, batch, Table, pc>> /\ sock[s].end = "open"
  BY DEF Sends, pairVars
<1>10. KernelOK(fdt', sock')
  BY <1>6, <1>8, <1>9, AlikeKeeps, LeaksKept DEF NetOK, KernelOK
<1>11. QueueOK'
  BY <1>7, <1>9, QueueKept, EndsFacts DEF NetOK, QueueOK, Untouched
<1>12. BatchOK'
  BY <1>9 DEF NetOK, BatchOK
<1>13. OthersKeep
  <2>1. \A i \in Conns : Server(i) \in Ends
    BY EndsFacts
  <2>2. \A i \in Conns : req'[i] = req[i] /\ (Waiting(i)' <=> Waiting(i))
    BY <1>9 DEF Waiting
  <2>3. \A t \in Ends : sock[t].sent \in Nat
    BY SocketTypes DEF NetOK, KernelOK
  <2>4. \A t \in Ends : t = s => sock'[t].sent >= sock[t].sent /\ sock'[t].end = "open"
    BY <1>2, <1>5, <1>7, <1>9
  <2> QED
    BY <1>4, <1>7, <1>9, <2>1, <2>2, <2>3, <2>4 DEF OthersKeep
<1> QED
  BY <1>9, <1>10, <1>11, <1>12, <1>13 DEF NetOK

LEMMA EndsStep ==
  ASSUME NetOK, NEW s \in Ends, NEW how \in {"fin", "rst"}, Ends_(s, how)
  PROVE  NetOK' /\ OthersKeep
<1> DEFINE new == [sock[s] EXCEPT !.end = how]
<1>1. sock[s] \in SocketsOf(s) /\ s \in DOMAIN sock
  BY DEF NetOK, KernelOK, SocketsOK
<1>2. new \in SocketsOf(s) /\ new.end = how /\ new.got = sock[s].got /\ new.sent = sock[s].sent
  BY <1>1 DEF SocketsOf
<1>3. sock' = [sock EXCEPT ![s] = new]
  BY <1>1 DEF Ends_
<1>4. \A t \in Ends : t # s => sock'[t] = sock[t]
  BY <1>3
<1>5. sock'[s] = new
  BY <1>1, <1>3
<1> HIDE DEF new
<1>6. SocketsOK(sock')
  BY <1>2, <1>3, SocketsExcept DEF NetOK, KernelOK
<1>7. UNCHANGED <<req, fdt, backlog, conn, data, batch, Table, pc>> /\ sock[s].end = "open"
  BY DEF Ends_, pairVars
<1>8. Alike(sock, sock')
  BY <1>2, <1>4, <1>5, <1>7 DEF Alike
<1>9. KernelOK(fdt', sock')
  BY <1>6, <1>7, <1>8, AlikeKeeps, LeaksKept DEF NetOK, KernelOK
<1>10. QueueOK'
  <2>1. \A i \in Conns : req[i] = NoRequest \/ Waiting(i) => Server(i) # s
    BY <1>7 DEF NetOK, QueueOK, Untouched
  <2>2. ASSUME NEW i \in Conns, req[i] = NoRequest \/ Waiting(i)
        PROVE  /\ Untouched(i, data, sock')
               /\ sock'[Client(i)].end # "none" \/ req[i] = NoRequest
               /\ req[i] = NoRequest => sock'[Client(i)].end = "none"
    BY <1>2, <1>4, <1>5, <1>7, <2>1, <2>2, EndsFacts DEF NetOK, QueueOK, Untouched
  <2>3. \A i \in Conns : Waiting(i)' <=> Waiting(i)
    BY <1>7 DEF Waiting
  <2>4. \A i \in Conns : req[i] = NoRequest \/ Waiting(i) => ~HasFd(fdt, Client(i))
    BY DEF NetOK, QueueOK
  <2>5. \A i \in Conns : (req[i] = NoRequest \/ Waiting(i))' =>
           Untouched(i, data', sock') /\ ~HasFd(fdt', Client(i))
    BY <1>7, <2>2, <2>3, <2>4
  <2>6. \A i \in Conns : req[i] = NoRequest => ~Waiting(i)
    BY DEF NetOK, QueueOK
  <2>7. \A i \in Conns : req'[i] = NoRequest => sock'[Client(i)].end = "none" /\ ~Waiting(i)'
    BY <1>7, <2>2, <2>3, <2>6
  <2>8. \A i \in Conns : Waiting(i)' => sock'[Client(i)].end # "none"
    BY <2>2, <2>3, <2>6
  <2>9. /\ req' \in [Conns -> Asked \cup {NoRequest}] /\ backlog' \in Seq(Conns)
        /\ \A j, k \in 1 .. Len(backlog') : backlog'[j] = backlog'[k] => j = k
    BY <1>7 DEF NetOK, QueueOK
  <2> QED
    BY <2>5, <2>7, <2>8, <2>9 DEF QueueOK
<1>11. BatchOK'
  BY <1>7 DEF NetOK, BatchOK
<1>12. OthersKeep
  <2>1. \A i \in Conns : Server(i) \in Ends
    BY EndsFacts
  <2>2. \A i \in Conns : req'[i] = req[i] /\ (Waiting(i)' <=> Waiting(i))
    BY <1>7 DEF Waiting
  <2>3. \A t \in Ends : sock[t].sent \in Nat
    BY SocketTypes DEF NetOK, KernelOK
  <2>4. sock'[s].sent = sock[s].sent /\ sock'[s].end = how /\ sock'[s].got = sock[s].got
    BY <1>2, <1>5
  <2> QED
    BY <1>4, <1>7, <2>1, <2>2, <2>3, <2>4 DEF OthersKeep
<1> QED
  BY <1>7, <1>9, <1>10, <1>11, <1>12 DEF NetOK

LEMMA ConnectFacts ==
  ASSUME NetOK, NEW i \in Conns, Connect(i)
  PROVE  NetOK' /\ OthersKeep
<1> DEFINE s == Client(i)
           new == [sock[s] EXCEPT !.end = "open"]
<1>1. s \in Ends /\ sock[s] \in SocketsOf(s) /\ s \in DOMAIN sock
  BY EndsFacts DEF NetOK, KernelOK, SocketsOK
<1>2. new \in SocketsOf(s) /\ new.end = "open" /\ new.got = sock[s].got /\ new.sent = sock[s].sent
  BY <1>1 DEF SocketsOf
<1>3. sock' = [sock EXCEPT ![s] = new]
  BY <1>1 DEF Connect
<1>4. \A t \in Ends : t # s => sock'[t] = sock[t]
  BY <1>3
<1>5. sock'[s] = new
  BY <1>1, <1>3
<1>6. req[i] = NoRequest /\ sock[s].end = "none" /\ ~Waiting(i) /\ ~HasFd(fdt, s)
      /\ Untouched(i, data, sock)
  BY DEF Connect, NetOK, QueueOK
<1>7. UNCHANGED <<fdt, conn, data, batch, Table, pc>> /\ backlog' = Append(backlog, i)
  BY DEF Connect, pairVars
<1>8. PICK c \in Asked : req' = [req EXCEPT ![i] = c]
  BY RequestIsOne DEF Connect
<1>9. \A t \in Ends : t # Client(i) => sock'[t] = sock[t]
  BY <1>4
<1>10. /\ sock'[Client(i)].end = "open" /\ sock'[Client(i)].got = sock[Client(i)].got
       /\ sock'[Client(i)].sent = sock[Client(i)].sent
  BY <1>2, <1>5
<1>11. SocketsOK(sock')
  <2> HIDE DEF new, s
  <2> QED
    BY <1>1, <1>2, <1>3, SocketsExcept DEF NetOK, KernelOK
<1> HIDE DEF new, s
<1>12. KernelOK(fdt', sock')
  <2>1. OpenOK(fdt, sock')
    BY <1>6, <1>9, <1>10 DEF OpenOK, NetOK, KernelOK
  <2>2. Lost(sock) \subseteq Lost(sock')
    BY <1>6, <1>9, EndsFacts DEF Lost, s
  <2> QED
    BY <1>7, <1>11, <2>1, <2>2, LeaksKept DEF NetOK, KernelOK
<1>13. /\ backlog' \in Seq(Conns) /\ Len(backlog') = Len(backlog) + 1 /\ Len(backlog) \in Nat
       /\ \A k \in 1 .. Len(backlog) : backlog'[k] = backlog[k]
       /\ backlog'[Len(backlog) + 1] = i /\ backlog' # <<>>
  BY <1>7, AppendProperties, LenProperties DEF NetOK, QueueOK
<1>14. \A j \in Conns : Waiting(j)' <=> (Waiting(j) \/ j = i)
  BY <1>13 DEF Waiting
<1>15. /\ req' \in [Conns -> Asked \cup {NoRequest}] /\ req'[i] # NoRequest
       /\ \A j \in Conns : j # i => req'[j] = req[j]
  BY <1>8, RequestIsOne DEF NetOK, QueueOK
<1>16. QueueOK'
  <2>1. \A j, k \in 1 .. Len(backlog') : backlog'[j] = backlog'[k] => j = k
    <3> TAKE j, k \in 1 .. Len(backlog')
    <3>1. \A m \in 1 .. Len(backlog) : backlog[m] # i
      BY <1>6 DEF Waiting
    <3> QED
      BY <1>13, <3>1 DEF NetOK, QueueOK
  <2>2. ASSUME NEW j \in Conns, req'[j] = NoRequest \/ Waiting(j)'
        PROVE  Untouched(j, data', sock') /\ ~HasFd(fdt', Client(j))
    <3>1. CASE j = i
      BY <1>6, <1>7, <1>9, <1>10, <3>1, EndsFacts DEF Untouched, s
    <3>2. CASE j # i
      <4>1. req[j] = NoRequest \/ Waiting(j)
        BY <1>14, <1>15, <2>2, <3>2
      <4>2. sock'[Client(j)] = sock[Client(j)] /\ sock'[Server(j)] = sock[Server(j)]
        BY <1>9, <3>2, EndsFacts
      <4> QED
        BY <1>7, <4>1, <4>2 DEF NetOK, QueueOK, Untouched
    <3> QED
      BY <3>1, <3>2
  <2>3. \A j \in Conns : req'[j] = NoRequest => sock'[Client(j)].end = "none" /\ ~Waiting(j)'
    <3> TAKE j \in Conns
    <3>1. j # i => sock'[Client(j)] = sock[Client(j)]
      BY <1>9, EndsFacts
    <3> QED
      BY <1>14, <1>15, <3>1 DEF NetOK, QueueOK
  <2>4. \A j \in Conns : Waiting(j)' => sock'[Client(j)].end # "none"
    <3> TAKE j \in Conns
    <3>1. j # i => sock'[Client(j)] = sock[Client(j)]
      BY <1>9, EndsFacts
    <3> QED
      BY <1>10, <1>14, <3>1 DEF NetOK, QueueOK
  <2> QED
    BY <1>13, <1>15, <2>1, <2>2, <2>3, <2>4 DEF QueueOK
<1>17. BatchOK'
  BY <1>7, <1>13 DEF NetOK, BatchOK
<1>18. OthersKeep
  <2>1. \A t \in Ends : sock[t].sent \in Nat
    BY SocketTypes DEF NetOK, KernelOK
  <2> QED
    BY <1>6, <1>7, <1>9, <1>10, <1>14, <1>15, <2>1, EndsFacts DEF OthersKeep, s
<1> QED
  BY <1>12, <1>16, <1>17, <1>18, <1>7 DEF NetOK

LEMMA EnvironmentFacts ==
  ASSUME NetOK, Environment
  PROVE  NetOK' /\ OthersKeep
<1>1. PICK i \in Conns : \/ Connect(i) \/ ClientSends(i) \/ ServerSends(i)
                         \/ ClientEnds(i) \/ ServerEnds(i)
  BY DEF Environment
<1>2. Client(i) \in Ends /\ Server(i) \in Ends
  BY EndsFacts
<1>3. sock[Client(i)].sent \in Nat /\ sock[Server(i)].sent \in Nat
  BY <1>2, SocketTypes DEF NetOK, KernelOK
<1>4. ASSUME req[i] \in Asked PROVE req[i].more \in Nat /\ req[i].binary \in BOOLEAN
  BY <1>4, RequestIsOne DEF Requests
<1>5. CASE Connect(i)
  BY <1>5, ConnectFacts
<1>6. CASE ClientSends(i)
  <2> DEFINE n == sock[Client(i)].sent
             Send(part, sent) == Sends(Client(i), Chunk(Client(i), part, FALSE), sent)
             Some(part, sent) == sent >= n /\ Send(part, sent)
  <2>0. \/ n = 0 /\ Some(Whole, 2)
        \/ n = 0 /\ Some(Head1, 1)
        \/ n = 1 /\ Some(Rest, 2)
        \/ n >= 2 /\ Some(n - 1, n + 1)
    <3>1. \/ n = 0 /\ Send(Whole, 2)
          \/ n = 0 /\ Send(Head1, 1)
          \/ n = 1 /\ Send(Rest, 2)
          \/ n >= 2 /\ Send(n - 1, n + 1)
      BY <1>6, Zenon DEF ClientSends
    <3>2. n \in Nat
      BY <1>3
    <3> HIDE DEF n, Send
    <3> QED
      BY <3>1, <3>2
  <2>1. PICK part \in Nat, sent \in Nat : Some(part, sent)
    <3>1. Whole \in Nat /\ Head1 \in Nat /\ Rest \in Nat /\ n \in Nat
      BY <1>3 DEF Whole, Head1, Rest
    <3>2. n >= 2 => n - 1 \in Nat /\ n + 1 \in Nat
      BY <3>1
    <3> HIDE DEF Some, n
    <3> QED
      BY <2>0, <3>1, <3>2
  <2>2. Chunk(Client(i), part, FALSE) \in ChunksOf(Client(i))
    BY DEF Chunk, ChunksOf
  <2> QED
    BY <1>2, <2>1, <2>2, SendsFacts
<1>7. CASE ServerSends(i)
  <2>1. req[i] \in Asked
    BY <1>7 DEF ServerSends, Sends, NetOK, QueueOK, Untouched
  <2>2. Chunk(Server(i), sock[Server(i)].sent + 1, req[i].binary) \in ChunksOf(Server(i))
    BY <1>3, <1>4, <2>1 DEF Chunk, ChunksOf
  <2> QED
    BY <1>2, <1>3, <1>7, <2>2, SendsFacts DEF ServerSends
<1>8. CASE ClientEnds(i)
  BY <1>2, <1>8, EndsStep DEF ClientEnds
<1>9. CASE ServerEnds(i)
  BY <1>2, <1>9, EndsStep DEF ServerEnds
<1> QED
  BY <1>1, <1>5, <1>6, <1>7, <1>8, <1>9

-----------------------------------------------------------------------------
(***************************************************************************)
(* The batch of events.                                                    *)
(***************************************************************************)
LEMMA WaitFacts ==
  ASSUME NetOK, data \subseteq Ends, epoll_wait
  PROVE  NetOK' /\ UNCHANGED <<req, sock, fdt, backlog, conn, data, Table, pc>>
<1>1. UNCHANGED <<req, sock, fdt, backlog, conn, data, Table, pc>> /\ batch' = Events
  BY DEF epoll_wait, netVars
<1>2. \A e \in Events : \/ /\ e[1] \in data /\ HasFd(fdt, e[1])
                           /\ e = <<e[1], IF sock[e[1]].end = "rst" THEN "hup" ELSE "in">>
                        \/ e = <<Listen, "in">> /\ backlog # <<>>
  <2> TAKE e \in Events
  <2>1. CASE backlog # <<>> /\ e = <<Listen, "in">>
    BY <2>1
  <2>2. CASE \E d \in data : /\ d \in {fdt[f] : f \in DOMAIN fdt}
                             /\ e = <<d, IF sock[d].end = "rst" THEN "hup" ELSE "in">>
    <3>1. PICK d \in data : /\ d \in {fdt[f] : f \in DOMAIN fdt}
                            /\ e = <<d, IF sock[d].end = "rst" THEN "hup" ELSE "in">>
      BY <2>2
    <3>2. HasFd(fdt, d)
      BY <3>1 DEF HasFd, NetOK, KernelOK, TableOK, Tables
    <3>3. e[1] = d
      BY <3>1
    <3> QED
      BY <3>1, <3>2, <3>3
  <2> QED
    BY <2>1, <2>2 DEF Events
<1>3. \A e \in Events : e \in (Ends \cup {Listen}) \X {"in", "hup"}
  BY <1>2
<1>4. \A e \in Events : e[1] = Listen => e[2] = "in" /\ backlog # <<>>
  BY <1>2, EndsFacts
<1>5. \A e \in Events : e[1] # Listen => e[1] \in data /\ HasFd(fdt, e[1])
  BY <1>2
<1>6. \A e, other \in Events : e[1] = other[1] => e = other
  <2>1. \A e \in Events : e = <<e[1], IF e[1] = Listen THEN "in"
                                      ELSE IF sock[e[1]].end = "rst" THEN "hup" ELSE "in">>
    BY <1>2, EndsFacts
  <2> HIDE DEF Events
  <2> QED
    BY <2>1
<1>7. BatchOK'
  BY <1>1, <1>3, <1>4, <1>5, <1>6 DEF BatchOK
<1>8. QueueOK'
  BY <1>1 DEF QueueOK, NetOK, Waiting
<1> QED
  BY <1>1, <1>7, <1>8 DEF NetOK

(* An event is handled, and what it does to the others' sockets and Data.  *)
LEMMA BatchKept ==
  ASSUME BatchOK, NEW e \in batch, batch' \subseteq batch \ {e}, backlog' = backlog,
         \A t \in Ends : t \in data /\ HasFd(fdt, t) /\ t # e[1] => t \in data' /\ HasFd(fdt', t)
  PROVE  BatchOK'
<1>1. \A other \in batch' : other \in batch /\ other[1] # e[1]
  BY DEF BatchOK
<1>2. \A other \in batch' : other[1] # Listen => other[1] \in Ends
  BY <1>1 DEF BatchOK
<1> QED
  BY <1>1, <1>2 DEF BatchOK

(* accept().                                                               *)
Accepts(i) ==
  /\ i \in Conns /\ Untouched(i, data, sock) /\ ~HasFd(fdt, Client(i))
  /\ req[i] # NoRequest /\ ~Waiting(i)'
  /\ Lowest(fdt) \in 2 .. MaxFd /\ fdt[Lowest(fdt)] = Free /\ fdt'[Lowest(fdt)] = Client(i)
  /\ \A g \in 1 .. MaxFd : fdt[g] \in Ends => fdt'[g] = fdt[g]
  /\ \A t \in Ends : HasFd(fdt', t) <=> (HasFd(fdt, t) \/ t = Client(i))
  /\ NetOK'

LEMMA AcceptFacts ==
  ASSUME NetOK, <<Listen, "in">> \in batch, NEW i, i = Head(backlog),
         fdt' = [fdt EXCEPT ![Lowest(fdt)] = Client(i)], backlog' = Tail(backlog),
         batch' = batch \ {<<Listen, "in">>}, UNCHANGED <<req, sock>>,
         data' = data \/ data' = data \cup {Client(i)}
  PROVE  Accepts(i)
<1>1. backlog # <<>> /\ backlog \in Seq(Conns)
  BY DEF NetOK, BatchOK, QueueOK
<1>2. /\ i \in Conns /\ i = backlog[1] /\ Len(backlog) \in Nat /\ Len(backlog) >= 1
      /\ Len(backlog') = Len(backlog) - 1 /\ backlog' \in Seq(Conns)
      /\ \A k \in 1 .. Len(backlog') : backlog'[k] = backlog[k + 1]
  BY <1>1, HeadTailProperties, EmptySeq
<1>3. Waiting(i)
  BY <1>2 DEF Waiting
<1>4. \A j \in Conns : Waiting(j)' <=> Waiting(j) /\ j # i
  <2> TAKE j \in Conns
  <2>1. ASSUME NEW k \in 1 .. Len(backlog'), backlog'[k] = j PROVE Waiting(j) /\ j # i
    <3>1. k + 1 \in 1 .. Len(backlog) /\ backlog[k + 1] = j /\ 1 \in 1 .. Len(backlog) /\ k + 1 # 1
      BY <1>2, <2>1
    <3> QED
      BY <1>2, <3>1 DEF Waiting, NetOK, QueueOK
  <2>2. ASSUME NEW k \in 1 .. Len(backlog), backlog[k] = j, j # i
        PROVE  \E m \in 1 .. Len(backlog') : backlog'[m] = j
    <3>1. k # 1
      BY <1>2, <2>2
    <3>2. k - 1 \in 1 .. Len(backlog') /\ (k - 1) + 1 = k
      BY <1>2, <3>1
    <3> QED
      BY <1>2, <2>2, <3>2
  <2> QED
    BY <2>1, <2>2 DEF Waiting
<1>5. /\ Untouched(i, data, sock) /\ ~HasFd(fdt, Client(i)) /\ req[i] # NoRequest
      /\ sock[Client(i)].end \notin {"none", "closed"}
  BY <1>2, <1>3 DEF NetOK, QueueOK, Untouched
<1>6. Lowest(fdt) \in 2 .. MaxFd /\ fdt[Lowest(fdt)] = Free
  <2>1. i \notin Lost(sock)
    BY <1>5 DEF Lost
  <2> QED
    BY <1>2, <2>1, FreeNumber DEF NetOK, KernelOK
<1>7. Client(i) \in Ends
  BY <1>2, EndsFacts
<1>8. /\ TableOK(fdt') /\ LeakedFds(fdt') = LeakedFds(fdt) /\ fdt'[Lowest(fdt)] = Client(i)
      /\ \A g \in 1 .. MaxFd : fdt[g] \in Ends => fdt'[g] = fdt[g]
      /\ \A t \in Ends : HasFd(fdt', t) <=> (HasFd(fdt, t) \/ t = Client(i))
  <2>1. Lowest(fdt) \in 1 .. MaxFd
    BY <1>6, ProxyNetAssumption
  <2>2. TableOK(fdt) /\ fdt' = [fdt EXCEPT ![Lowest(fdt)] = Client(i)]
    BY DEF NetOK, KernelOK
  <2>3. PICK f \in 1 .. MaxFd : f = Lowest(fdt)
    BY <2>1
  <2>4. /\ TableOK(fdt) /\ Client(i) \in Ends /\ ~HasFd(fdt, Client(i)) /\ fdt[f] = Free
        /\ fdt' = [fdt EXCEPT ![f] = Client(i)]
    BY <1>5, <1>6, <1>7, <2>2, <2>3
  <2>5. Opens(fdt, fdt', f, Client(i))
    BY <2>4, OpenNumber
  <2> QED
    BY <2>3, <2>5 DEF Opens
<1>9. KernelOK(fdt', sock')
  <2>1. OpenOK(fdt', sock')
    BY <1>5, <1>8 DEF NetOK, KernelOK, OpenOK
  <2> QED
    BY <1>8, <2>1, LeaksKept DEF NetOK, KernelOK
<1>10. QueueOK'
  <2>1. \A j, k \in 1 .. Len(backlog') : backlog'[j] = backlog'[k] => j = k
    <3> TAKE j, k \in 1 .. Len(backlog')
    <3>1. j + 1 \in 1 .. Len(backlog) /\ k + 1 \in 1 .. Len(backlog)
      BY <1>2
    <3>2. backlog[j + 1] = backlog[k + 1] => j + 1 = k + 1
      BY <3>1 DEF NetOK, QueueOK
    <3> QED
      BY <1>2, <3>2
  <2>2. ASSUME NEW j \in Conns, req'[j] = NoRequest \/ Waiting(j)'
        PROVE  Untouched(j, data', sock') /\ ~HasFd(fdt', Client(j))
    <3>1. j # i /\ (req[j] = NoRequest \/ Waiting(j))
      BY <1>4, <1>5, <2>2
    <3>2. Untouched(j, data, sock) /\ ~HasFd(fdt, Client(j))
      BY <3>1 DEF NetOK, QueueOK
    <3>3. Client(j) # Client(i) /\ Server(j) # Client(i) /\ Client(j) \in Ends
      BY <1>2, <3>1, EndsFacts
    <3> QED
      BY <1>8, <3>2, <3>3 DEF Untouched
  <2>3. \A j \in Conns : req'[j] = NoRequest => sock'[Client(j)].end = "none" /\ ~Waiting(j)'
    BY <1>4 DEF NetOK, QueueOK
  <2>4. \A j \in Conns : Waiting(j)' => sock'[Client(j)].end # "none"
    BY <1>4 DEF NetOK, QueueOK
  <2> QED
    BY <1>2, <2>1, <2>2, <2>3, <2>4 DEF NetOK, QueueOK
<1>11. BatchOK'
  <2>1. \A e \in batch' : e \in batch /\ e[1] # Listen
    BY DEF NetOK, BatchOK
  <2>2. \A e \in batch' : e[1] \in Ends /\ e[1] \in data' /\ HasFd(fdt, e[1])
    BY <2>1 DEF NetOK, BatchOK
  <2> QED
    BY <1>8, <2>1, <2>2 DEF NetOK, BatchOK
<1> QED
  BY <1>2, <1>4, <1>5, <1>6, <1>8, <1>9, <1>10, <1>11 DEF NetOK, Accepts
=============================================================================
