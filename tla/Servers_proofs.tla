---------------------------- MODULE Servers_proofs ----------------------------
(***************************************************************************)
(* Proofs about Servers, for any number of connections and descriptors:    *)
(* what the numbers of the proxy's threads name, and those of the echo     *)
(* servers' threads; and that the counts of the echo servers agree.        *)
(***************************************************************************)
EXTENDS Servers, FiniteSetTheorems, SequenceTheorems, WellFoundedInduction, TLAPS

(***************************************************************************)
(* The invariant.                                                          *)
(***************************************************************************)
(* The network is a record, of sockets that are records.                   *)
IsSocket(k) == k = [in |-> k.in, out |-> k.out, sent |-> k.sent, end |-> k.end,
                    told |-> k.told, deaf |-> k.deaf]
IsNet(n) == /\ n = [sock |-> n.sock, fds |-> n.fds, backlog |-> n.backlog]
            /\ n.sock = [s \in Ends |-> n.sock[s]]
            /\ \A s \in Ends : IsSocket(n.sock[s])

(* A socket has one number.                                                *)
Slots == Ends \cup {Listen, Leaked, Free}
TableOK(t) == /\ t \in [1 .. MaxFd -> Slots]
              /\ \A f \in 1 .. MaxFd : t[f] = Listen <=> f = 1
              /\ \A f, g \in 1 .. MaxFd : t[f] = t[g] /\ t[f] \in Ends => f = g

HasFd(t, s) == \E f \in 1 .. MaxFd : t[f] = s
Queued(b, s) == \E k \in 1 .. Len(b) : b[k] = s

(* A client that waits to be accepted has arrived and has no number.       *)
Clients == {Client(i) : i \in Conns}
QueueOK(b) == /\ b \in Seq(Clients)
              /\ \A j, k \in 1 .. Len(b) : b[j] = b[k] => j = k
BacklogOK(n) ==
  /\ QueueOK(n.backlog)
  /\ \A s \in Clients : /\ Queued(n.backlog, s) => ~HasFd(n.fds, s)
                        /\ Queued(n.backlog, s) \/ HasFd(n.fds, s) => n.sock[s].end # "none"

KernelOK(n) == IsNet(n) /\ TableOK(n.fds) /\ BacklogOK(n)

(* The numbers that are not clients': a thread takes one of them at most,  *)
(* when it goes on from its request, so that one is always free.           *)
Others(t) == {f \in 1 .. MaxFd : t[f] = Leaked \/ \E j \in Conns : t[f] = Server(j)}
Past == {i \in Conns : th[i].pc \notin {"idle", "request", "parse"}}

IsThread(t) == t = [pc |-> t.pc, cfd |-> t.cfd, sfd |-> t.sfd, total |-> t.total,
                    c2s |-> t.c2s, s2c |-> t.s2c]
Pcs == {"idle", "request", "parse", "established", "tunnel", "forward", "answer", "done"}

(* r: the request of connection i, whose thread is t.                      *)
ThreadOK(n, i, t, r) ==
  /\ IsThread(t) /\ t.pc \in Pcs
  /\ t.pc \notin {"idle", "done"} => t.cfd \in 1 .. MaxFd /\ n.fds[t.cfd] = Client(i)
  /\ t.pc \in {"established", "tunnel", "forward", "answer"} =>
       t.sfd \in 1 .. MaxFd /\ n.fds[t.sfd] = Server(i)
  /\ t.pc \in {"idle", "request", "parse"} => ~HasFd(n.fds, Server(i))
  /\ t.pc \in {"forward", "answer"} => r.method # "CONNECT"
  /\ t.pc = "done" /\ (HasFd(n.fds, Client(i)) \/ HasFd(n.fds, Server(i))) => r.method # "CONNECT"
  /\ Queued(n.backlog, Client(i)) \/ n.sock[Client(i)].end = "none" => t.pc = "idle"

ThreadedOK == /\ KernelOK(net)
              /\ th = [i \in Conns |-> th[i]] /\ ask = [i \in Conns |-> ask[i]]
              /\ \A i \in Conns : ThreadOK(net, i, th[i], ask[i])
              /\ Cardinality(Others(net.fds)) <= Cardinality(Past)

ProxyInv == /\ program = "threaded" /\ alive => ThreadedOK
            /\ program # "threaded" => th = [i \in Conns |-> Idle]

(* Every row of the table of clients is some thread's.                     *)
IsEchoThread(t) == t = [pc |-> t.pc, fd |-> t.fd, pos |-> t.pos, on |-> t.on,
                        users |-> t.users, total |-> t.total]
IsRows(c) == c \in Seq({c[k] : k \in DOMAIN c})
RowsOK == /\ IsRows(cfds)
          /\ eth = [i \in Conns |-> eth[i]]
          /\ \A i \in Conns : eth[i].pos \in 0 .. Len(cfds)
          /\ \A p \in 1 .. Len(cfds) : \E j \in Conns : eth[j].pos = p

EchoPcs == {"none", "key", "iv", "add", "loop", "recv", "count", "read", "send", "close", "clear", "done"}

(* b: whom main is busy with.                                              *)
EchoThreadOK(n, i, t, b) ==
  /\ IsEchoThread(t) /\ t.pc \in EchoPcs
  /\ t.pc \in {"none", "key", "iv", "add"} => t.pos = 0
  /\ b = i => t.pc = "none"
  /\ Queued(n.backlog, Client(i)) => t.pc = "none" /\ b # i
  /\ t.pc # "none" \/ b = i => n.sock[Client(i)].end # "none"
  /\ Queued(n.backlog, Client(i)) => n.sock[Client(i)].end # "none"

(* As long as no address came twice, a thread's number names its client.   *)
OwnNumber(n, i, t, b) ==
  t.pc \notin {"none", "clear", "done"} \/ b = i => t.fd \in 1 .. MaxFd /\ n.fds[t.fd] = Client(i)
OwnNumbers == /\ KernelOK(net) /\ Others(net.fds) = {}
              /\ \A i \in Conns : OwnNumber(net, i, eth[i], accepting)

(* It has a number even when the process has ended.                        *)
HasNumber(t) == t.pc \notin {"none", "clear", "done"} => t.fd \in 1 .. MaxFd

EchoOK == /\ IsNet(net) /\ QueueOK(net.backlog) /\ RowsOK
          /\ accepting \in Conns \cup {Nobody}
          /\ ~alive => \A f \in 1 .. MaxFd : net.fds[f] = Free
          /\ \A i \in Conns : EchoThreadOK(net, i, eth[i], accepting)
          /\ RowsAreOwn => /\ alive => OwnNumbers
                           /\ \A i \in Conns : eth[i].pc = "recv" => eth[i].on = Client(i)
                           /\ \A i \in Conns : HasNumber(eth[i])

EchoInv == /\ program \in {"echo", "tls", "aes"} => EchoOK
           /\ program \notin {"echo", "tls", "aes"} => eth = [i \in Conns |-> NoThread]

Inv == program \in Programs /\ ProxyInv /\ EchoInv

-----------------------------------------------------------------------------
(***************************************************************************)
(* Sockets and the calls that change nothing but them.                     *)
(***************************************************************************)
LEMMA EndsFacts ==
  /\ \A i \in Conns : /\ Client(i) \in Ends /\ Server(i) \in Ends /\ Client(i) \in Clients
                      /\ Client(i)[1] = i
  /\ \A i, j \in Conns : /\ Client(i) # Server(j)
                         /\ Client(i) = Client(j) => i = j
                         /\ Server(i) = Server(j) => i = j
  /\ \A s \in Ends : \E i \in Conns : s = Client(i) \/ s = Server(i)
  /\ \A s \in Clients : s[1] \in Conns /\ s = Client(s[1])
  /\ Listen \notin Ends /\ Leaked \notin Ends /\ Free \notin Ends
  /\ Listen # Leaked /\ Listen # Free /\ Leaked # Free
  /\ Nobody \notin Conns
<1>1. \A i \in Conns : i # 0
  BY TcpAssumption DEF Conns
<1>2. Listen \notin Ends /\ Leaked \notin Ends /\ Free \notin Ends
  BY <1>1 DEF Ends, Listen, Leaked, Free
<1>3. Nobody \notin Conns
  BY <1>1 DEF Nobody
<1> QED
  BY <1>2, <1>3 DEF Ends, Clients, Client, Server, Listen, Leaked, Free

(* A step after which the numbers and the backlog are what they were, and  *)
(* every socket has arrived or not as before.                              *)
Alike(n, n2) == /\ IsNet(n2) /\ n2.fds = n.fds /\ n2.backlog = n.backlog
                /\ \A s \in Ends : n2.sock[s].end = "none" <=> n.sock[s].end = "none"

(* A socket is replaced. *)
With(n, s, k) == [n EXCEPT !.sock = [n.sock EXCEPT ![s] = k]]

LEMMA SocketReplaced ==
  ASSUME NEW n, IsNet(n), NEW s, NEW k,
         s \in Ends => IsSocket(k) /\ (k.end = "none" <=> n.sock[s].end = "none")
  PROVE  Alike(n, With(n, s, k))
<1> DEFINE n2 == With(n, s, k)
           ss == [n.sock EXCEPT ![s] = k]
<1>1. n2 = [sock |-> ss, fds |-> n.fds, backlog |-> n.backlog]
  BY DEF With, IsNet
<1>2. ss = [u \in Ends |-> IF u = s THEN k ELSE n.sock[u]]
  BY DEF IsNet
<1> HIDE DEF ss, n2
<1>3. n2.sock = ss /\ n2.fds = n.fds /\ n2.backlog = n.backlog
  BY <1>1
<1>4. \A u \in Ends : n2.sock[u] = IF u = s THEN k ELSE n.sock[u]
  BY <1>2, <1>3
<1>5. \A u \in Ends : IsSocket(n2.sock[u])
  BY <1>4 DEF IsNet
<1>6. n2.sock = [u \in Ends |-> n2.sock[u]]
  BY <1>2, <1>3
<1>7. IsNet(n2)
  BY <1>1, <1>3, <1>5, <1>6 DEF IsNet
<1>8. \A u \in Ends : n2.sock[u].end = "none" <=> n.sock[u].end = "none"
  BY <1>4
<1>9. Alike(n, n2)
  BY <1>3, <1>7, <1>8 DEF Alike
<1> QED
  BY <1>9 DEF n2

LEMMA FieldReplaced ==
  ASSUME NEW k, IsSocket(k), NEW x
  PROVE  /\ IsSocket([k EXCEPT !.in = x]) /\ [k EXCEPT !.in = x].end = k.end
         /\ IsSocket([k EXCEPT !.sent = x]) /\ [k EXCEPT !.sent = x].end = k.end
         /\ IsSocket([k EXCEPT !.out = x]) /\ [k EXCEPT !.out = x].end = k.end
         /\ IsSocket([k EXCEPT !.told = x]) /\ [k EXCEPT !.told = x].end = k.end
         /\ IsSocket([k EXCEPT !.deaf = x]) /\ [k EXCEPT !.deaf = x].end = k.end
         /\ IsSocket([k EXCEPT !.end = x]) /\ [k EXCEPT !.end = x].end = x
<1> DEFINE K(a, b, c, d, e, f) == [in |-> a, out |-> b, sent |-> c, end |-> d, told |-> e, deaf |-> f]
<1>1. PICK a, b, c, d, e, f : k = K(a, b, c, d, e, f)
  BY DEF IsSocket
<1>2. \A a1, b1, c1, d1, e1, f1 : IsSocket(K(a1, b1, c1, d1, e1, f1))
  BY DEF IsSocket
<1>3. [k EXCEPT !.in = x] = K(x, b, c, d, e, f)
  BY <1>1
<1>4. [k EXCEPT !.sent = x] = K(a, b, x, d, e, f)
  BY <1>1
<1>5. [k EXCEPT !.out = x] = K(a, x, c, d, e, f)
  BY <1>1
<1>6. [k EXCEPT !.told = x] = K(a, b, c, d, x, f)
  BY <1>1
<1>7. [k EXCEPT !.deaf = x] = K(a, b, c, d, e, x)
  BY <1>1
<1>8. [k EXCEPT !.end = x] = K(a, b, c, x, e, f)
  BY <1>1
<1>9. k.end = d
  BY <1>1
<1> QED
  BY <1>2, <1>3, <1>4, <1>5, <1>6, <1>7, <1>8, <1>9

LEMMA AlikeSelf ==
  ASSUME NEW n, IsNet(n)
  PROVE  Alike(n, n)
BY DEF Alike

LEMMA AlikeAgain ==
  ASSUME NEW n, NEW n2, NEW n3, Alike(n, n2), Alike(n2, n3)
  PROVE  Alike(n, n3)
BY DEF Alike

LEMMA CallsAlike ==
  ASSUME NEW n, IsNet(n), NEW s, NEW f, NEW x
  PROVE  /\ Alike(n, Taken(n, s))
         /\ Alike(n, [n EXCEPT !.sock[s].in = x])
         /\ Alike(n, [n EXCEPT !.sock[s].out = x])
         /\ Alike(n, shutdown_wr(n, f))
         /\ Alike(n, shutdown_rd(n, f))
<1>0. s \in Ends => IsSocket(n.sock[s])
  BY DEF IsNet
<1>1. Alike(n, Taken(n, s))
  <2> DEFINE k == [n.sock[s] EXCEPT !.in = Tail(@)]
  <2>1. s \in Ends => IsSocket(k) /\ k.end = n.sock[s].end
    BY <1>0, FieldReplaced
  <2>2. Taken(n, s) = With(n, s, k)
    BY DEF Taken, With
  <2> QED
    BY <2>1, <2>2, SocketReplaced
<1>2. Alike(n, [n EXCEPT !.sock[s].in = x])
  <2> DEFINE k == [n.sock[s] EXCEPT !.in = x]
  <2>1. s \in Ends => IsSocket(k) /\ k.end = n.sock[s].end
    BY <1>0, FieldReplaced
  <2>2. [n EXCEPT !.sock[s].in = x] = With(n, s, k)
    BY DEF With
  <2> HIDE DEF k
  <2> QED
    BY <2>1, <2>2, SocketReplaced
<1>3. Alike(n, [n EXCEPT !.sock[s].out = x])
  <2> DEFINE k == [n.sock[s] EXCEPT !.out = x]
  <2>1. s \in Ends => IsSocket(k) /\ k.end = n.sock[s].end
    BY <1>0, FieldReplaced
  <2>2. [n EXCEPT !.sock[s].out = x] = With(n, s, k)
    BY DEF With
  <2> HIDE DEF k
  <2> QED
    BY <2>1, <2>2, SocketReplaced
<1>4. Alike(n, shutdown_wr(n, f))
  <2>1. CASE IsOpen(n, f)
    <3> DEFINE u == n.fds[f]
               k == [n.sock[u] EXCEPT !.told = TRUE]
    <3>1. u \in Ends /\ IsSocket(n.sock[u])
      BY <2>1 DEF IsOpen, IsNet
    <3>2. IsSocket(k) /\ k.end = n.sock[u].end
      BY <3>1, FieldReplaced
    <3>3. shutdown_wr(n, f) = With(n, u, k)
      BY <2>1 DEF shutdown_wr, With
    <3> QED
      BY <3>2, <3>3, SocketReplaced
  <2> QED
    BY <2>1, AlikeSelf DEF shutdown_wr
<1>5. Alike(n, shutdown_rd(n, f))
  <2>1. CASE IsOpen(n, f)
    <3> DEFINE u == n.fds[f]
               k == [n.sock[u] EXCEPT !.deaf = TRUE]
    <3>1. u \in Ends /\ IsSocket(n.sock[u])
      BY <2>1 DEF IsOpen, IsNet
    <3>2. IsSocket(k) /\ k.end = n.sock[u].end
      BY <3>1, FieldReplaced
    <3>3. shutdown_rd(n, f) = With(n, u, k)
      BY <2>1 DEF shutdown_rd, With
    <3> QED
      BY <3>2, <3>3, SocketReplaced
  <2> QED
    BY <2>1, AlikeSelf DEF shutdown_rd
<1> QED
  BY <1>1, <1>2, <1>3, <1>4, <1>5

(* What send() leaves behind, unless it ends the process.                  *)
LEMMA SendAlike ==
  ASSUME NEW n, IsNet(n), NEW f, NEW m, NEW r \in send(n, f, m)
  PROVE  Alike(n, r.net)
<1> DEFINE s == n.fds[f]
           sent == [n EXCEPT !.sock[s].out = @ \cup {m}]
           reset == [n EXCEPT !.sock[s].end = "rst"]
<1>1. Alike(n, sent)
  <2>1. sent = [n EXCEPT !.sock[s].out = n.sock[s].out \cup {m}]
    OBVIOUS
  <2> HIDE DEF sent, s
  <2> QED
    BY <2>1, CallsAlike
<1>2. n.sock[s].end = "fin" => Alike(n, reset)
  <2> DEFINE k == [n.sock[s] EXCEPT !.end = "rst"]
  <2>1. s \in Ends => IsSocket(n.sock[s])
    BY DEF IsNet
  <2>2. s \in Ends => IsSocket(k) /\ k.end = "rst"
    BY <2>1 DEF IsSocket
  <2>3. reset = With(n, s, k)
    BY DEF With
  <2> HIDE DEF reset, s, k
  <2> QED
    BY <2>2, <2>3, SocketReplaced
<1>3. \/ r.net = n \/ r.net = sent \/ (r.net = reset /\ n.sock[s].end = "fin")
  <2> DEFINE C1 == {[ret |-> "failed", net |-> n]}
             C2 == {[ret |-> q, net |-> n] : q \in {"failed", "killed"}}
             C3 == {[ret |-> "sent", net |-> sent], [ret |-> "sent", net |-> reset]}
             C4 == {[ret |-> "sent", net |-> sent]}
             told == n.sock[s].told \/ n.sock[s].end = "rst"
             fin == n.sock[s].end = "fin"
  <2>1. send(n, f, m) = IF ~IsOpen(n, f) THEN C1 ELSE IF told THEN C2 ELSE IF fin THEN C3 ELSE C4
    BY DEF send
  <2> HIDE DEF C1, C2, C3, C4, told
  <2>2. r \in C1 \/ r \in C2 \/ (fin /\ r \in C3) \/ r \in C4
    BY <2>1
  <2> QED
    BY <2>2 DEF C1, C2, C3, C4
<1> HIDE DEF sent, reset, s
<1> QED
  BY <1>1, <1>2, <1>3, AlikeSelf

LEMMA SendRecord ==
  ASSUME NEW n, NEW f, NEW m, NEW r \in send(n, f, m)
  PROVE  \E a, b : r = [ret |-> a, net |-> b]
BY DEF send

(* The other ends' steps. *)
LEMMA PeersAlike ==
  ASSUME IsNet(net), NEW s \in Ends, NEW m, NEW how \in {"fin", "rst"},
         PeerSends(s, m) \/ PeerEnds(s, how)
  PROVE  Alike(net, net')
<1>0. IsSocket(net.sock[s])
  BY DEF IsNet
<1>1. CASE PeerSends(s, m)
  <2>1. PICK x, y : net' = [net EXCEPT !.sock[s].in = x, !.sock[s].sent = y]
    BY <1>1 DEF PeerSends
  <2> DEFINE k == [net.sock[s] EXCEPT !.in = x]
             k2 == [k EXCEPT !.sent = y]
  <2>2. IsSocket(k) /\ k.end = net.sock[s].end
    BY <1>0, FieldReplaced
  <2>3. IsSocket(k2) /\ k2.end = k.end
    <3> HIDE DEF k
    <3> QED
      BY <2>2, FieldReplaced
  <2>4. net' = With(net, s, k2)
    BY <2>1 DEF With, IsNet
  <2> QED
    BY <2>2, <2>3, <2>4, SocketReplaced
<1>2. CASE PeerEnds(s, how)
  <2> DEFINE k == [net.sock[s] EXCEPT !.end = how]
  <2>1. IsSocket(k) /\ k.end # "none" /\ net.sock[s].end # "none"
    BY <1>0, <1>2 DEF IsSocket, PeerEnds
  <2>2. net' = With(net, s, k)
    BY <1>2 DEF PeerEnds, With
  <2> QED
    BY <2>1, <2>2, SocketReplaced
<1> QED
  BY <1>1, <1>2

(* The other calls, whatever the state of the numbers.                     *)
LEMMA NetMade ==
  ASSUME NEW n, NEW ss, NEW t, NEW b, n = [sock |-> ss, fds |-> t, backlog |-> b],
         ss = [s \in Ends |-> ss[s]], \A s \in Ends : IsSocket(ss[s])
  PROVE  IsNet(n) /\ n.sock = ss /\ n.fds = t /\ n.backlog = b
<1>1. n.sock = ss /\ n.fds = t /\ n.backlog = b
  OBVIOUS
<1> QED
  BY <1>1 DEF IsNet

LEMMA AcceptNet ==
  ASSUME NEW n, IsNet(n)
  PROVE  IsNet(accept(n)) /\ accept(n).sock = n.sock /\ accept(n).backlog = Tail(n.backlog)
<1> DEFINE t2 == [n.fds EXCEPT ![Lowest(n)] = Head(n.backlog)]
           m == [n EXCEPT !.fds = t2]
           b == Tail(n.backlog)
           n2 == accept(n)
<1>1. m = [sock |-> n.sock, fds |-> t2, backlog |-> n.backlog]
  BY DEF IsNet
<1>2. n2 = [m EXCEPT !.backlog = b]
  BY DEF accept, IsNet
<1> HIDE DEF m, t2, b, n2
<1>3. n2 = [sock |-> n.sock, fds |-> t2, backlog |-> b]
  BY <1>1, <1>2
<1>4. n.sock = [s \in Ends |-> n.sock[s]] /\ \A s \in Ends : IsSocket(n.sock[s])
  BY DEF IsNet
<1>5. IsNet(n2) /\ n2.sock = n.sock /\ n2.backlog = b
  BY <1>3, <1>4, NetMade
<1> QED
  BY <1>5 DEF b, n2

LEMMA CloseNet ==
  ASSUME NEW n, IsNet(n), NEW f
  PROVE  /\ IsNet(close(n, f)) /\ close(n, f).backlog = n.backlog
         /\ \A s \in Ends : close(n, f).sock[s].end = n.sock[s].end
<1>1. CASE ~IsOpen(n, f)
  BY <1>1 DEF close
<1>2. CASE IsOpen(n, f)
  <2> DEFINE u == n.fds[f]
             k == [n.sock[u] EXCEPT !.told = TRUE]
             ss == [n.sock EXCEPT ![u] = k]
             t2 == [n.fds EXCEPT ![f] = Free]
             m == [n EXCEPT !.fds = t2]
             n2 == close(n, f)
  <2>1. u \in Ends
    BY <1>2 DEF IsOpen
  <2>2. IsSocket(k) /\ k.end = n.sock[u].end
    BY <2>1, FieldReplaced DEF IsNet
  <2>3. m = [sock |-> n.sock, fds |-> t2, backlog |-> n.backlog]
    BY DEF IsNet
  <2>4. n2 = [m EXCEPT !.sock = ss]
    BY <1>2 DEF close, IsNet
  <2>5. ss = [s \in Ends |-> IF s = u THEN k ELSE n.sock[s]]
    BY DEF IsNet
  <2> HIDE DEF u, k, ss, t2, m, n2
  <2>6. n2 = [sock |-> ss, fds |-> t2, backlog |-> n.backlog]
    BY <2>3, <2>4
  <2>7. \A s \in Ends : IsSocket(ss[s]) /\ ss[s].end = n.sock[s].end
    BY <2>2, <2>5 DEF IsNet
  <2>8. ss = [s \in Ends |-> ss[s]]
    BY <2>5
  <2>9. IsNet(n2) /\ n2.sock = ss /\ n2.backlog = n.backlog
    BY <2>6, <2>7, <2>8, NetMade
  <2> QED
    BY <2>7, <2>9 DEF n2
<1> QED
  BY <1>1, <1>2

LEMMA EndedNet ==
  ASSUME NEW n, IsNet(n)
  PROVE  /\ IsNet(Ended(n)) /\ Ended(n).backlog = n.backlog
         /\ \A f \in 1 .. MaxFd : Ended(n).fds[f] = Free
         /\ \A s \in Ends : Ended(n).sock[s].end = n.sock[s].end
<1> DEFINE ss == [s \in Ends |-> [n.sock[s] EXCEPT !.told = TRUE]]
           t2 == [f \in 1 .. MaxFd |-> Free]
           m == [n EXCEPT !.fds = t2]
           n2 == Ended(n)
<1>1. m = [sock |-> n.sock, fds |-> t2, backlog |-> n.backlog]
  <2> HIDE DEF t2
  <2> QED
    BY DEF IsNet
<1>2. n2 = [m EXCEPT !.sock = ss]
  BY DEF Ended, IsNet
<1>3. ASSUME NEW s \in Ends PROVE IsSocket(ss[s]) /\ ss[s].end = n.sock[s].end
  <2>1. IsSocket(n.sock[s])
    BY DEF IsNet
  <2>2. IsSocket([n.sock[s] EXCEPT !.told = TRUE]) /\ [n.sock[s] EXCEPT !.told = TRUE].end = n.sock[s].end
    BY <2>1, FieldReplaced
  <2>3. ss[s] = [n.sock[s] EXCEPT !.told = TRUE]
    OBVIOUS
  <2> HIDE DEF ss
  <2> QED
    BY <2>2, <2>3
<1>4. ss = [s \in Ends |-> ss[s]] /\ \A f \in 1 .. MaxFd : t2[f] = Free
  OBVIOUS
<1> HIDE DEF ss, t2, m, n2
<1>5. n2 = [sock |-> ss, fds |-> t2, backlog |-> n.backlog]
  BY <1>1, <1>2
<1>6. IsNet(n2) /\ n2.sock = ss /\ n2.fds = t2 /\ n2.backlog = n.backlog
  BY <1>3, <1>4, <1>5, NetMade
<1> QED
  BY <1>3, <1>4, <1>6 DEF n2

LEMMA ArrivalNet ==
  ASSUME IsNet(net), NEW i \in Conns, Arrives(i)
  PROVE  /\ IsNet(net') /\ net'.fds = net.fds /\ net'.backlog = Append(net.backlog, Client(i))
         /\ net.sock[Client(i)].end = "none" /\ net'.sock[Client(i)].end = "open"
         /\ \A s \in Ends \ {Client(i)} : net'.sock[s] = net.sock[s]
<1> DEFINE s == Client(i)
           b == Append(net.backlog, s)
           k == [net.sock[s] EXCEPT !.end = "open"]
           ss == [net.sock EXCEPT ![s] = k]
           m == [net EXCEPT !.sock = ss]
           n2 == net'
<1>0. s \in Ends
  BY EndsFacts
<1>1. IsSocket(k) /\ k.end = "open"
  <2>1. IsSocket(net.sock[s])
    BY <1>0 DEF IsNet
  <2> QED
    BY <2>1, FieldReplaced
<1>2. m = [sock |-> ss, fds |-> net.fds, backlog |-> net.backlog]
  BY DEF IsNet
<1>3. n2 = [m EXCEPT !.backlog = b]
  BY DEF Arrives, IsNet
<1>4. ss = [u \in Ends |-> IF u = s THEN k ELSE net.sock[u]]
  BY DEF IsNet
<1>5. net.sock[s].end = "none"
  BY DEF Arrives
<1> HIDE DEF s, b, k, ss, m, n2
<1>6. n2 = [sock |-> ss, fds |-> net.fds, backlog |-> b]
  BY <1>2, <1>3
<1>7. ss = [u \in Ends |-> ss[u]] /\ \A u \in Ends : ss[u] = IF u = s THEN k ELSE net.sock[u]
  BY <1>4
<1>8. \A u \in Ends : IsSocket(ss[u])
  BY <1>1, <1>7 DEF IsNet
<1>9. IsNet(n2) /\ n2.sock = ss /\ n2.fds = net.fds /\ n2.backlog = b
  BY <1>6, <1>7, <1>8, NetMade
<1> QED
  BY <1>0, <1>1, <1>5, <1>7, <1>9 DEF n2, b, s

LEMMA AlikeKernel ==
  ASSUME NEW n, KernelOK(n), NEW n2, Alike(n, n2)
  PROVE  KernelOK(n2)
BY EndsFacts DEF KernelOK, Alike, BacklogOK, Clients

-----------------------------------------------------------------------------
(***************************************************************************)
(* Descriptor numbers.                                                     *)
(***************************************************************************)
(* A nonempty set of naturals has a least element. *)
LEMMA Least ==
  ASSUME NEW S \in SUBSET Nat, S # {}
  PROVE  \E k \in S : \A j \in S : k <= j
<1>1. PICK k \in S : \A j \in S : <<j, k>> \notin OpToRel(<, Nat)
  BY NatLessThanWellFounded, WFMin
<1>2. \A j \in S : ~(j < k)
  BY <1>1 DEF OpToRel
<1> QED
  BY <1>2

LEMMA LowestIsFree ==
  ASSUME NEW n, NEW f \in 1 .. MaxFd, n.fds[f] = Free
  PROVE  Lowest(n) \in 1 .. MaxFd /\ n.fds[Lowest(n)] = Free
<1> DEFINE S == {g \in 1 .. MaxFd : n.fds[g] = Free}
<1>1. PICK k \in S : \A j \in S : k <= j
  <2>1. S \in SUBSET Nat /\ f \in S
    BY TcpAssumption
  <2> QED
    BY <2>1, Least
<1>2. k \in 1 .. MaxFd /\ n.fds[k] = Free /\ \A g \in 1 .. k - 1 : n.fds[g] # Free
  <2>1. \A g \in 1 .. k - 1 : g \in 1 .. MaxFd /\ ~(k <= g)
    BY TcpAssumption
  <2> QED
    BY <1>1, <2>1
<1> QED
  BY <1>2 DEF Lowest

LEMMA FiniteSets ==
  /\ IsFiniteSet(Conns) /\ Cardinality(Conns) = N
  /\ IsFiniteSet(1 .. MaxFd) /\ Cardinality(1 .. MaxFd) = MaxFd
  /\ \A t : IsFiniteSet(Others(t)) /\ Cardinality(Others(t)) \in Nat
  /\ IsFiniteSet(Past) /\ Cardinality(Past) \in Nat
<1>1. /\ IsFiniteSet(Conns) /\ Cardinality(Conns) = N
      /\ IsFiniteSet(1 .. MaxFd) /\ Cardinality(1 .. MaxFd) = MaxFd
  BY FS_Interval, TcpAssumption DEF Conns
<1>2. (\A t : Others(t) \subseteq 1 .. MaxFd) /\ Past \subseteq Conns
  BY DEF Others, Past
<1> QED
  BY <1>1, <1>2, FS_Subset, FS_CardinalityType

(* The listening socket, the clients and N - 1 others do not take all the  *)
(* numbers.                                                                *)
LEMMA FreeNumber ==
  ASSUME NEW n, TableOK(n.fds), Cardinality(Others(n.fds)) <= N - 1
  PROVE  Lowest(n) \in 1 .. MaxFd /\ n.fds[Lowest(n)] = Free
<1> DEFINE t == n.fds
           Owned == {f \in 1 .. MaxFd : t[f] \in Clients}
           Rest == Others(t)
<1>1. IsFiniteSet(Owned) /\ Cardinality(Owned) <= N
  <2>1. [f \in Owned |-> t[f][1]] \in Injection(Owned, Conns)
    <3>1. \A f \in Owned : t[f][1] \in Conns /\ t[f] = Client(t[f][1]) /\ t[f] \in Ends
      BY EndsFacts
    <3>2. \A f, g \in Owned : t[f][1] = t[g][1] => f = g
      BY <3>1 DEF TableOK
    <3> QED
      BY <3>1, <3>2 DEF Injection, IsInjective
  <2> QED
    BY <2>1, FiniteSets, FS_Injection
<1>2. IsFiniteSet(Rest) /\ Cardinality(Rest) \in Nat /\ Cardinality(Owned) \in Nat
  BY <1>1, FiniteSets, FS_CardinalityType
<1>3. PICK f \in 1 .. MaxFd : t[f] = Free
  <2>1. SUFFICES ASSUME \A f \in 1 .. MaxFd : t[f] # Free PROVE FALSE
    OBVIOUS
  <2>2. 1 .. MaxFd = (Owned \cup Rest) \cup {1}
    <3>1. \A f \in 1 .. MaxFd : t[f] \in Ends \cup {Listen, Leaked}
      BY <2>1 DEF TableOK, Slots
    <3>2. \A f \in 1 .. MaxFd : f = 1 \/ t[f] \in Clients \/ f \in Others(t)
      BY <3>1, EndsFacts DEF TableOK, Others
    <3>3. 1 \in 1 .. MaxFd /\ Owned \subseteq 1 .. MaxFd /\ Others(t) \subseteq 1 .. MaxFd
      BY TcpAssumption DEF Others
    <3> QED
      BY <3>2, <3>3
  <2>3. IsFiniteSet(Owned \cup Rest) /\ Cardinality(Owned \cup Rest) <= N + (N - 1)
    <3>1. /\ IsFiniteSet(Owned \cup Rest)
          /\ Cardinality(Owned \cup Rest) =
               Cardinality(Owned) + Cardinality(Rest) - Cardinality(Owned \cap Rest)
      BY <1>1, <1>2, FS_Union
    <3>2. Cardinality(Owned \cap Rest) \in Nat
      BY <1>1, FS_Intersection, FS_CardinalityType
    <3>3. Cardinality(Rest) <= N - 1
      OBVIOUS
    <3> HIDE DEF Owned, Rest
    <3> QED
      BY <1>1, <1>2, <3>1, <3>2, <3>3, TcpAssumption
  <2>4. Cardinality(1 .. MaxFd) <= N + (N - 1) + 1
    <3>1. Cardinality(Owned \cup Rest) \in Nat
      BY <2>3, FS_CardinalityType
    <3> HIDE DEF Owned, Rest
    <3>2. \/ Cardinality((Owned \cup Rest) \cup {1}) = Cardinality(Owned \cup Rest) + 1
          \/ Cardinality((Owned \cup Rest) \cup {1}) = Cardinality(Owned \cup Rest)
      BY <2>3, FS_AddElement
    <3>3. Cardinality((Owned \cup Rest) \cup {1}) <= N + (N - 1) + 1
      BY <2>3, <3>1, <3>2, TcpAssumption
    <3> QED
      BY <2>2, <3>3
  <2> QED
    BY <2>4, FiniteSets, TcpAssumption
<1> QED
  BY <1>3, LowestIsFree

(* A number is given away, or closed.                                      *)
Placed(t, t2, f, s) == \A g \in 1 .. MaxFd : t2[g] = IF g = f THEN s ELSE t[g]

LEMMA PutNumber ==
  ASSUME NEW t, TableOK(t), NEW f \in 1 .. MaxFd, t[f] = Free,
         NEW s \in Ends \cup {Leaked}, s \in Ends => ~HasFd(t, s)
  PROVE  /\ TableOK([t EXCEPT ![f] = s])
         /\ Placed(t, [t EXCEPT ![f] = s], f, s)
<1> DEFINE t2 == [t EXCEPT ![f] = s]
<1>1. \A g \in 1 .. MaxFd : t2[g] = IF g = f THEN s ELSE t[g]
  BY DEF TableOK
<1>2. t2 \in [1 .. MaxFd -> Slots]
  BY DEF TableOK, Slots
<1> HIDE DEF t2
<1>3. TableOK(t2)
  BY <1>1, <1>2, EndsFacts DEF TableOK, HasFd
<1>4. Placed(t, t2, f, s)
  BY <1>1 DEF Placed
<1> QED
  BY <1>3, <1>4 DEF t2

LEMMA CloseNumber ==
  ASSUME NEW t, TableOK(t), NEW f \in 1 .. MaxFd, t[f] \in Ends
  PROVE  /\ TableOK([t EXCEPT ![f] = Free])
         /\ Placed(t, [t EXCEPT ![f] = Free], f, Free)
<1> DEFINE t2 == [t EXCEPT ![f] = Free]
<1>1. \A g \in 1 .. MaxFd : t2[g] = IF g = f THEN Free ELSE t[g]
  BY DEF TableOK
<1>2. t2 \in [1 .. MaxFd -> Slots]
  BY DEF TableOK, Slots
<1> HIDE DEF t2
<1>3. TableOK(t2)
  BY <1>1, <1>2, EndsFacts DEF TableOK
<1>4. Placed(t, t2, f, Free)
  BY <1>1 DEF Placed
<1> QED
  BY <1>3, <1>4 DEF t2

-----------------------------------------------------------------------------
(***************************************************************************)
(* The queue of those that wait to be accepted.                            *)
(***************************************************************************)
LEMMA FirstLeaves ==
  ASSUME NEW b, QueueOK(b), b # <<>>
  PROVE  /\ Head(b) \in Clients /\ Queued(b, Head(b)) /\ QueueOK(Tail(b))
         /\ \A s : Queued(Tail(b), s) <=> Queued(b, s) /\ s # Head(b)
<1> DEFINE c == Head(b)
<1>1. b \in Seq(Clients) /\ Len(b) > 0 /\ Len(b) \in Nat /\ c = b[1] /\ 1 \in 1 .. Len(b)
  BY EmptySeq, HeadTailProperties DEF QueueOK
<1>2. c \in Clients /\ Queued(b, c)
  BY <1>1 DEF Queued
<1>3. Tail(b) \in Seq(Clients) /\ Len(Tail(b)) = Len(b) - 1
        /\ \A k \in 1 .. Len(Tail(b)) : k + 1 \in 1 .. Len(b) /\ Tail(b)[k] = b[k + 1]
  BY <1>1, HeadTailProperties
<1>4. \A j, k \in 1 .. Len(b) : b[j] = b[k] => j = k
  BY DEF QueueOK
<1> HIDE DEF c
<1>5. ASSUME NEW s, Queued(Tail(b), s) PROVE Queued(b, s) /\ s # c
  <2>1. PICK k \in 1 .. Len(Tail(b)) : Tail(b)[k] = s
    BY <1>5 DEF Queued
  <2>2. k + 1 \in 1 .. Len(b) /\ b[k + 1] = s /\ k + 1 # 1
    BY <1>1, <1>3, <2>1
  <2>3. s # c
    BY <1>1, <1>4, <2>2
  <2> QED
    BY <2>2, <2>3 DEF Queued
<1>6. ASSUME NEW s, Queued(b, s), s # c PROVE Queued(Tail(b), s)
  <2>1. PICK k \in 1 .. Len(b) : b[k] = s
    BY <1>6 DEF Queued
  <2>2. k # 1 /\ k - 1 \in 1 .. Len(Tail(b)) /\ (k - 1) + 1 = k
    BY <1>1, <1>3, <1>6, <2>1
  <2>3. Tail(b)[k - 1] = s
    BY <1>3, <2>1, <2>2
  <2> QED
    BY <2>2, <2>3 DEF Queued
<1>7. ASSUME NEW j \in 1 .. Len(Tail(b)), NEW k \in 1 .. Len(Tail(b)), Tail(b)[j] = Tail(b)[k]
      PROVE  j = k
  <2>1. j + 1 = k + 1
    BY <1>3, <1>4, <1>7
  <2> QED
    BY <1>1, <1>3, <2>1
<1>8. QueueOK(Tail(b))
  BY <1>3, <1>7 DEF QueueOK
<1> QED
  BY <1>2, <1>5, <1>6, <1>8 DEF c

LEMMA LastJoins ==
  ASSUME NEW b, QueueOK(b), NEW s \in Clients, ~Queued(b, s)
  PROVE  /\ QueueOK(Append(b, s))
         /\ \A u : Queued(Append(b, s), u) <=> Queued(b, u) \/ u = s
<1>1. /\ b \in Seq(Clients) /\ Len(b) \in Nat
      /\ Append(b, s) \in Seq(Clients) /\ Len(Append(b, s)) = Len(b) + 1
      /\ \A j \in 1 .. Len(b) + 1 : Append(b, s)[j] = IF j = Len(b) + 1 THEN s ELSE b[j]
  BY AppendProperties DEF QueueOK
<1>2. \A u : Queued(Append(b, s), u) <=> Queued(b, u) \/ u = s
  BY <1>1 DEF Queued
<1>3. \A j, m \in 1 .. Len(b) + 1 : Append(b, s)[j] = Append(b, s)[m] => j = m
  <2>1. \A j, m \in 1 .. Len(b) : b[j] = b[m] => j = m
    BY DEF QueueOK
  <2>2. \A j \in 1 .. Len(b) : b[j] # s
    BY DEF Queued
  <2> QED
    BY <1>1, <2>1, <2>2
<1> QED
  BY <1>1, <1>2, <1>3 DEF QueueOK

-----------------------------------------------------------------------------
(***************************************************************************)
(* The calls that give a number away or close one.                         *)
(***************************************************************************)
(* What accept() does: c, the first that waits, gets number f.             *)
Accepted(n, n2, f, c) ==
  /\ f \in 1 .. MaxFd /\ n.fds[f] = Free /\ c \in Clients /\ Queued(n.backlog, c)
  /\ KernelOK(n2) /\ Placed(n.fds, n2.fds, f, c) /\ n2.sock = n.sock
  /\ \A s : Queued(n2.backlog, s) <=> Queued(n.backlog, s) /\ s # c

LEMMA AcceptTakesFirst ==
  ASSUME NEW n, KernelOK(n), n.backlog # <<>>, Cardinality(Others(n.fds)) <= N - 1
  PROVE  Accepted(n, accept(n), Lowest(n), Head(n.backlog))
<1> DEFINE f == Lowest(n)
           b == n.backlog
           c == Head(b)
           t2 == [n.fds EXCEPT ![f] = c]
           n2 == accept(n)
<1>1. f \in 1 .. MaxFd /\ n.fds[f] = Free
  BY FreeNumber DEF KernelOK
<1>2. QueueOK(b)
  BY DEF KernelOK, BacklogOK
<1>3. c \in Clients /\ Queued(b, c)
  BY <1>2, FirstLeaves
<1>5. c \in Ends /\ ~HasFd(n.fds, c)
  BY <1>3, EndsFacts DEF KernelOK, BacklogOK, Clients
<1>6. TableOK(t2) /\ Placed(n.fds, t2, f, c)
  BY <1>1, <1>5, PutNumber DEF KernelOK
<1>7. n2 = [sock |-> n.sock, fds |-> t2, backlog |-> Tail(b)]
  <2> DEFINE m == [n EXCEPT !.fds = t2]
  <2>1. m = [sock |-> n.sock, fds |-> t2, backlog |-> b]
    BY DEF KernelOK, IsNet
  <2>2. n2 = [m EXCEPT !.backlog = Tail(b)]
    BY DEF accept, KernelOK, IsNet
  <2> HIDE DEF m, n2, t2, b
  <2> QED
    BY <2>1, <2>2
<1>8. n2.sock = n.sock /\ n2.fds = t2 /\ n2.backlog = Tail(b)
  BY <1>7
<1>9. QueueOK(Tail(b)) /\ \A s : Queued(Tail(b), s) <=> Queued(b, s) /\ s # c
  BY <1>2, FirstLeaves
<1>11. IsNet(n2)
  BY <1>7, <1>8 DEF KernelOK, IsNet
<1>12. \A s : HasFd(t2, s) => HasFd(n.fds, s) \/ s = c
  BY <1>6 DEF HasFd, Placed
<1>13. BacklogOK(n2)
  <2>1. \A s \in Clients : Queued(Tail(b), s) => ~HasFd(t2, s)
    BY <1>9, <1>12 DEF KernelOK, BacklogOK
  <2>2. \A s \in Clients : Queued(Tail(b), s) \/ HasFd(t2, s) => n.sock[s].end # "none"
    BY <1>3, <1>9, <1>12 DEF KernelOK, BacklogOK
  <2> QED
    BY <1>8, <1>9, <2>1, <2>2 DEF BacklogOK
<1> HIDE DEF f, c, t2, n2
<1>14. KernelOK(n2) /\ Placed(n.fds, n2.fds, f, c)
  BY <1>6, <1>8, <1>11, <1>13 DEF KernelOK
<1>15. \A s : Queued(n2.backlog, s) <=> Queued(n.backlog, s) /\ s # c
  BY <1>8, <1>9
<1>16. Accepted(n, n2, f, c)
  BY <1>1, <1>3, <1>8, <1>14, <1>15 DEF Accepted
<1> QED
  BY <1>16 DEF f, c, n2

(* A number goes to something else than a client; a client may arrive or   *)
(* wait no more and no less than before.                                   *)
Moved(n, n2, f, s) ==
  /\ KernelOK(n2) /\ Placed(n.fds, n2.fds, f, s) /\ n2.backlog = n.backlog
  /\ \A c \in Clients : n2.sock[c].end = "none" <=> n.sock[c].end = "none"

LEMMA MovedKernel ==
  ASSUME NEW n, KernelOK(n), NEW n2, IsNet(n2), TableOK(n2.fds), NEW f, NEW s, s \notin Clients,
         Placed(n.fds, n2.fds, f, s), n2.backlog = n.backlog,
         \A c \in Clients : n2.sock[c].end = "none" <=> n.sock[c].end = "none"
  PROVE  Moved(n, n2, f, s)
<1>1. \A c \in Clients : HasFd(n2.fds, c) => HasFd(n.fds, c)
  BY DEF HasFd, Placed
<1>2. BacklogOK(n2)
  BY <1>1 DEF KernelOK, BacklogOK
<1> QED
  BY <1>2 DEF KernelOK, Moved

LEMMA CloseFrees ==
  ASSUME NEW n, KernelOK(n), NEW f, IsOpen(n, f)
  PROVE  Moved(n, close(n, f), f, Free)
<1> DEFINE u == n.fds[f]
           k == [n.sock[u] EXCEPT !.told = TRUE]
           t2 == [n.fds EXCEPT ![f] = Free]
           w == With(n, u, k)
           n2 == close(n, f)
<1>1. f \in 1 .. MaxFd /\ u \in Ends
  BY DEF IsOpen
<1>2. TableOK(t2) /\ Placed(n.fds, t2, f, Free)
  BY <1>1, CloseNumber DEF KernelOK
<1>3. IsSocket(k) /\ k.end = n.sock[u].end
  BY <1>1, FieldReplaced DEF KernelOK, IsNet
<1>4. Alike(n, w)
  <2> HIDE DEF k
  <2> QED
    BY <1>3, SocketReplaced DEF KernelOK
<1>5. n2 = [w EXCEPT !.fds = t2]
  <2>1. n2 = [n EXCEPT !.fds[f] = Free, !.sock[n.fds[f]].told = TRUE]
    BY DEF close
  <2> QED
    BY <2>1 DEF With, KernelOK, IsNet
<1> HIDE DEF w, t2, n2
<1>6. n2 = [sock |-> w.sock, fds |-> t2, backlog |-> w.backlog]
  BY <1>4, <1>5 DEF Alike, IsNet
<1>7. n2.sock = w.sock /\ n2.fds = t2 /\ n2.backlog = n.backlog
  BY <1>4, <1>6 DEF Alike
<1>8. IsNet(n2)
  BY <1>4, <1>6, <1>7 DEF Alike, IsNet
<1>9. \A c \in Clients : n2.sock[c].end = "none" <=> n.sock[c].end = "none"
  BY <1>4, <1>7, EndsFacts DEF Alike, Clients
<1>10. Free \notin Clients
  BY EndsFacts DEF Clients
<1>11. Moved(n, n2, f, Free)
  BY <1>2, <1>7, <1>8, <1>9, <1>10, MovedKernel
<1> QED
  BY <1>11 DEF n2

LEMMA ConnectTakesFree ==
  ASSUME NEW n, KernelOK(n), Cardinality(Others(n.fds)) <= N - 1,
         NEW i \in Conns, ~HasFd(n.fds, Server(i))
  PROVE  /\ Moved(n, connect(n, Server(i)), Lowest(n), Server(i))
         /\ Lowest(n) \in 1 .. MaxFd /\ n.fds[Lowest(n)] = Free
<1> DEFINE f == Lowest(n)
           s == Server(i)
           k == [n.sock[s] EXCEPT !.end = "open"]
           ss == [n.sock EXCEPT ![s] = k]
           t2 == [n.fds EXCEPT ![f] = s]
           n2 == connect(n, s)
<1>1. f \in 1 .. MaxFd /\ n.fds[f] = Free
  BY FreeNumber DEF KernelOK
<1>2. s \in Ends /\ s \notin Clients
  BY EndsFacts DEF Clients
<1>3. TableOK(t2) /\ Placed(n.fds, t2, f, s)
  <2> HIDE DEF f, s
  <2> QED
    BY <1>1, <1>2, PutNumber DEF KernelOK, s
<1>4. IsSocket(k)
  BY <1>2, FieldReplaced DEF KernelOK, IsNet
<1>5. n2 = [sock |-> ss, fds |-> t2, backlog |-> n.backlog]
  <2> DEFINE m == [n EXCEPT !.fds = t2]
  <2>1. m = [sock |-> n.sock, fds |-> t2, backlog |-> n.backlog]
    BY DEF KernelOK, IsNet
  <2>2. n2 = [m EXCEPT !.sock = ss]
    BY DEF connect, KernelOK, IsNet
  <2> HIDE DEF m, n2, t2, ss
  <2> QED
    BY <2>1, <2>2
<1>6. ss = [u \in Ends |-> IF u = s THEN k ELSE n.sock[u]]
  BY DEF KernelOK, IsNet
<1> HIDE DEF f, s, k, t2, ss, n2
<1>7. n2.sock = ss /\ n2.fds = t2 /\ n2.backlog = n.backlog
  BY <1>5
<1>8. \A u \in Ends : ss[u] = IF u = s THEN k ELSE n.sock[u]
  BY <1>6
<1>9. IsNet(n2)
  <2>1. ss = [u \in Ends |-> ss[u]]
    BY <1>6
  <2>2. \A u \in Ends : IsSocket(ss[u])
    BY <1>4, <1>8 DEF KernelOK, IsNet
  <2> QED
    BY <1>5, <1>7, <2>1, <2>2 DEF IsNet
<1>10. \A c \in Clients : n2.sock[c].end = "none" <=> n.sock[c].end = "none"
  BY <1>2, <1>7, <1>8, EndsFacts DEF Clients
<1>11. Moved(n, n2, f, s)
  BY <1>2, <1>3, <1>7, <1>9, <1>10, MovedKernel
<1> QED
  BY <1>1, <1>11 DEF f, s, n2

LEMMA LeakTakesFree ==
  ASSUME NEW n, KernelOK(n), Cardinality(Others(n.fds)) <= N - 1
  PROVE  /\ Moved(n, leak(n), Lowest(n), Leaked)
         /\ Lowest(n) \in 1 .. MaxFd /\ n.fds[Lowest(n)] = Free
<1> DEFINE f == Lowest(n)
           t2 == [n.fds EXCEPT ![f] = Leaked]
           n2 == leak(n)
<1>1. f \in 1 .. MaxFd /\ n.fds[f] = Free
  BY FreeNumber DEF KernelOK
<1>2. Leaked \notin Clients /\ Leaked \notin Ends
  BY EndsFacts DEF Clients
<1>3. TableOK(t2) /\ Placed(n.fds, t2, f, Leaked)
  <2> HIDE DEF f
  <2> QED
    BY <1>1, <1>2, PutNumber DEF KernelOK
<1>4. n2 = [sock |-> n.sock, fds |-> t2, backlog |-> n.backlog]
  BY DEF leak, KernelOK, IsNet
<1> HIDE DEF f, t2, n2
<1>5. n2.sock = n.sock /\ n2.fds = t2 /\ n2.backlog = n.backlog
  BY <1>4
<1>6. IsNet(n2)
  BY <1>4, <1>5 DEF KernelOK, IsNet
<1>7. Moved(n, n2, f, Leaked)
  BY <1>2, <1>3, <1>5, <1>6, MovedKernel
<1> QED
  BY <1>1, <1>7 DEF f, n2

-----------------------------------------------------------------------------
(***************************************************************************)
(* Steps that are about one connection.                                    *)
(***************************************************************************)
(* Nothing changes for the connections outside of D.                       *)
Touches(n, n2, D) ==
  \A j \in Conns \ D :
    /\ \A f \in 1 .. MaxFd : /\ n2.fds[f] = Client(j) <=> n.fds[f] = Client(j)
                             /\ n2.fds[f] = Server(j) <=> n.fds[f] = Server(j)
    /\ Queued(n2.backlog, Client(j)) <=> Queued(n.backlog, Client(j))
    /\ n2.sock[Client(j)].end = "none" <=> n.sock[Client(j)].end = "none"

LEMMA AlikeTouches ==
  ASSUME NEW n, NEW n2, Alike(n, n2), NEW D
  PROVE  Touches(n, n2, D) /\ Others(n2.fds) = Others(n.fds)
BY EndsFacts DEF Alike, Touches

LEMMA TouchesAgain ==
  ASSUME NEW n, NEW n2, NEW n3, NEW D, Touches(n, n2, D), Touches(n2, n3, D)
  PROVE  Touches(n, n3, D)
BY DEF Touches

LEMMA AcceptTouches ==
  ASSUME NEW n, NEW n2, NEW f, NEW c, Accepted(n, n2, f, c)
  PROVE  Touches(n, n2, {c[1]}) /\ Others(n2.fds) \subseteq Others(n.fds)
<1>1. c[1] \in Conns /\ c = Client(c[1])
  BY EndsFacts DEF Accepted
<1>2. \A g \in 1 .. MaxFd : n2.fds[g] = IF g = f THEN c ELSE n.fds[g]
  BY DEF Accepted, Placed
<1>3. Touches(n, n2, {c[1]})
  BY <1>1, <1>2, EndsFacts DEF Accepted, Touches
<1>4. Others(n2.fds) \subseteq Others(n.fds)
  BY <1>1, <1>2, EndsFacts DEF Others
<1> QED
  BY <1>3, <1>4

LEMMA MoveTouches ==
  ASSUME NEW n, NEW n2, NEW i \in Conns, NEW f \in 1 .. MaxFd,
         n.fds[f] \in {Free, Client(i), Server(i)},
         NEW s \in {Free, Leaked, Server(i)}, Moved(n, n2, f, s)
  PROVE  /\ Touches(n, n2, {i})
         /\ Others(n2.fds) \subseteq Others(n.fds) \cup {f}
         /\ s = Free => Others(n2.fds) \subseteq Others(n.fds)
<1>1. \A g \in 1 .. MaxFd : n2.fds[g] = IF g = f THEN s ELSE n.fds[g]
  BY DEF Moved, Placed
<1>2. Touches(n, n2, {i})
  BY <1>1, EndsFacts DEF Moved, Touches
<1>3. Others(n2.fds) \subseteq Others(n.fds) \cup {f}
  BY <1>1 DEF Others
<1>4. s = Free => Others(n2.fds) \subseteq Others(n.fds)
  BY <1>1, EndsFacts DEF Others
<1> QED
  BY <1>2, <1>3, <1>4

-----------------------------------------------------------------------------
(***************************************************************************)
(* The threads of the proxy.                                               *)
(***************************************************************************)
(* One field of a thread is replaced. *)
MkThread(a, b, c, d, e, f) == [pc |-> a, cfd |-> b, sfd |-> c, total |-> d, c2s |-> e, s2c |-> f]

LEMMA ThreadFields ==
  /\ \A t : IsThread(t) => \E a, b, c, d, e, f : t = MkThread(a, b, c, d, e, f)
  /\ \A a, b, c, d, e, f :
       LET t == MkThread(a, b, c, d, e, f) IN IsThread(t) /\ t.pc = a /\ t.cfd = b /\ t.sfd = c
BY DEF IsThread, MkThread

LEMMA PcField ==
  ASSUME NEW t, IsThread(t), NEW x, NEW u, u = [t EXCEPT !.pc = x]
  PROVE  IsThread(u) /\ u.pc = x /\ u.cfd = t.cfd /\ u.sfd = t.sfd
<1>1. PICK a, b, c, d, e, f : t = MkThread(a, b, c, d, e, f)
  BY ThreadFields
<1>2. u = MkThread(x, b, c, d, e, f)
  BY <1>1 DEF MkThread
<1> QED
  BY <1>1, <1>2, ThreadFields

LEMMA CfdField ==
  ASSUME NEW t, IsThread(t), NEW x, NEW u, u = [t EXCEPT !.cfd = x]
  PROVE  IsThread(u) /\ u.pc = t.pc /\ u.cfd = x /\ u.sfd = t.sfd
<1>1. PICK a, b, c, d, e, f : t = MkThread(a, b, c, d, e, f)
  BY ThreadFields
<1>2. u = MkThread(a, x, c, d, e, f)
  BY <1>1 DEF MkThread
<1> QED
  BY <1>1, <1>2, ThreadFields

LEMMA SfdField ==
  ASSUME NEW t, IsThread(t), NEW x, NEW u, u = [t EXCEPT !.sfd = x]
  PROVE  IsThread(u) /\ u.pc = t.pc /\ u.cfd = t.cfd /\ u.sfd = x
<1>1. PICK a, b, c, d, e, f : t = MkThread(a, b, c, d, e, f)
  BY ThreadFields
<1>2. u = MkThread(a, b, x, d, e, f)
  BY <1>1 DEF MkThread
<1> QED
  BY <1>1, <1>2, ThreadFields

LEMMA TotalField ==
  ASSUME NEW t, IsThread(t), NEW x, NEW u, u = [t EXCEPT !.total = x]
  PROVE  IsThread(u) /\ u.pc = t.pc /\ u.cfd = t.cfd /\ u.sfd = t.sfd
<1>1. PICK a, b, c, d, e, f : t = MkThread(a, b, c, d, e, f)
  BY ThreadFields
<1>2. u = MkThread(a, b, c, x, e, f)
  BY <1>1 DEF MkThread
<1> QED
  BY <1>1, <1>2, ThreadFields

LEMMA C2sField ==
  ASSUME NEW t, IsThread(t), NEW x, NEW u, u = [t EXCEPT !.c2s = x]
  PROVE  IsThread(u) /\ u.pc = t.pc /\ u.cfd = t.cfd /\ u.sfd = t.sfd
<1>1. PICK a, b, c, d, e, f : t = MkThread(a, b, c, d, e, f)
  BY ThreadFields
<1>2. u = MkThread(a, b, c, d, x, f)
  BY <1>1 DEF MkThread
<1> QED
  BY <1>1, <1>2, ThreadFields

LEMMA S2cField ==
  ASSUME NEW t, IsThread(t), NEW x, NEW u, u = [t EXCEPT !.s2c = x]
  PROVE  IsThread(u) /\ u.pc = t.pc /\ u.cfd = t.cfd /\ u.sfd = t.sfd
<1>1. PICK a, b, c, d, e, f : t = MkThread(a, b, c, d, e, f)
  BY ThreadFields
<1>2. u = MkThread(a, b, c, d, e, x)
  BY <1>1 DEF MkThread
<1> QED
  BY <1>1, <1>2, ThreadFields

(* The threads that no step touches.                                       *)
LEMMA OtherThread ==
  ASSUME NEW n, NEW n2, NEW D, Touches(n, n2, D), NEW j \in Conns, j \notin D,
         NEW t, NEW r, ThreadOK(n, j, t, r)
  PROVE  ThreadOK(n2, j, t, r)
BY DEF Touches, ThreadOK, HasFd

Early == {"idle", "request", "parse"}

(* What connection i comes to have that is not its client's: nothing, or a *)
(* number when its thread goes on from its request.                        *)
Counted(n2, i, t) ==
  \/ /\ Others(n2.fds) \subseteq Others(net.fds)
     /\ th[i].pc \notin Early => t.pc \notin Early
  \/ /\ \E f : Others(n2.fds) \subseteq Others(net.fds) \cup {f}
     /\ th[i].pc \in Early /\ t.pc \notin Early

LEMMA ThreadStep ==
  ASSUME ThreadedOK, NEW i \in Conns, NEW n2, NEW t,
         KernelOK(n2), Touches(net, n2, {i}), ThreadOK(n2, i, t, ask[i]), Counted(n2, i, t),
         net' = n2, th' = [th EXCEPT ![i] = t], ask' = ask
  PROVE  ThreadedOK'
<1>1. \A j \in Conns : th'[j] = IF j = i THEN t ELSE th[j]
  BY DEF ThreadedOK
<1>2. th' = [j \in Conns |-> th'[j]] /\ ask' = [j \in Conns |-> ask'[j]]
  BY DEF ThreadedOK
<1>3. ASSUME NEW j \in Conns PROVE ThreadOK(n2, j, th'[j], ask'[j])
  <2>1. CASE j = i
    BY <1>1, <2>1
  <2>2. CASE j # i
    <3>1. th'[j] = th[j] /\ ask'[j] = ask[j] /\ ThreadOK(net, j, th[j], ask[j])
      BY <1>1, <2>2 DEF ThreadedOK
    <3>2. ThreadOK(n2, j, th[j], ask[j])
      BY <2>2, <3>1, OtherThread
    <3> QED
      BY <3>1, <3>2
  <2> QED
    BY <2>1, <2>2
<1>4. Cardinality(Others(n2.fds)) <= Cardinality(Past')
  <2>0. PICK Q, P : P = Past /\ Q = Past'
    OBVIOUS
  <2>1. /\ Cardinality(Others(net.fds)) <= Cardinality(P)
        /\ IsFiniteSet(P) /\ Cardinality(P) \in Nat
        /\ Cardinality(Others(net.fds)) \in Nat /\ Cardinality(Others(n2.fds)) \in Nat
        /\ IsFiniteSet(Others(net.fds))
    BY <2>0, FiniteSets DEF ThreadedOK
  <2>2. IsFiniteSet(Q) /\ Cardinality(Q) \in Nat
    <3>1. Q \subseteq Conns
      BY <2>0 DEF Past
    <3> QED
      BY <3>1, FiniteSets, FS_Subset, FS_CardinalityType
  <2>3. CASE /\ Others(n2.fds) \subseteq Others(net.fds)
             /\ th[i].pc \notin Early => t.pc \notin Early
    <3>1. P \subseteq Q
      BY <1>1, <2>0, <2>3 DEF Past, Early
    <3>2. Cardinality(P) <= Cardinality(Q)
      BY <2>2, <3>1, FS_Subset
    <3>3. Cardinality(Others(n2.fds)) <= Cardinality(Others(net.fds))
      BY <2>1, <2>3, FS_Subset
    <3> QED
      BY <2>0, <2>1, <2>2, <3>2, <3>3
  <2>4. CASE /\ \E f : Others(n2.fds) \subseteq Others(net.fds) \cup {f}
             /\ th[i].pc \in Early /\ t.pc \notin Early
    <3>0. PICK f : Others(n2.fds) \subseteq Others(net.fds) \cup {f}
      BY <2>4
    <3>1. i \notin P /\ P \cup {i} \subseteq Q
      BY <1>1, <2>0, <2>4 DEF Past, Early
    <3>2. IsFiniteSet(P \cup {i}) /\ Cardinality(P \cup {i}) = Cardinality(P) + 1
      BY <2>1, <3>1, FS_AddElement
    <3>3. Cardinality(P) + 1 <= Cardinality(Q)
      BY <2>2, <3>1, <3>2, FS_Subset
    <3>4. /\ IsFiniteSet(Others(net.fds) \cup {f})
          /\ \/ Cardinality(Others(net.fds) \cup {f}) = Cardinality(Others(net.fds))
             \/ Cardinality(Others(net.fds) \cup {f}) = Cardinality(Others(net.fds)) + 1
      BY <2>1, FS_AddElement
    <3>5. Cardinality(Others(n2.fds)) <= Cardinality(Others(net.fds) \cup {f})
      BY <3>0, <3>4, FS_Subset
    <3> QED
      BY <2>0, <2>1, <2>2, <3>3, <3>4, <3>5
  <2> QED
    BY <2>3, <2>4 DEF Counted
<1> QED
  BY <1>2, <1>3, <1>4 DEF ThreadedOK

LEMMA FewOthers ==
  ASSUME ThreadedOK, NEW i \in Conns, th[i].pc \in Early
  PROVE  Cardinality(Others(net.fds)) <= N - 1
<1>1. PICK P : P = Past
  OBVIOUS
<1>2. P \subseteq Conns \ {i}
  BY <1>1 DEF Past, Early
<1>3. IsFiniteSet(Conns \ {i}) /\ Cardinality(Conns \ {i}) = N - 1
  BY FiniteSets, FS_RemoveElement
<1>4. Cardinality(P) <= N - 1
  BY <1>2, <1>3, FS_Subset
<1>5. Cardinality(Others(net.fds)) \in Nat /\ Cardinality(P) \in Nat
  BY <1>1, FiniteSets
<1>6. Cardinality(Others(net.fds)) <= Cardinality(P)
  BY <1>1 DEF ThreadedOK
<1> QED
  BY <1>4, <1>5, <1>6, TcpAssumption

(* The other ends. *)
LEMMA WorldKeeps ==
  ASSUME ThreadedOK, Alike(net, net'), th' = th, ask' = ask
  PROVE  ThreadedOK'
<1>1. KernelOK(net')
  BY AlikeKernel DEF ThreadedOK
<1>2. ASSUME NEW i \in Conns PROVE ThreadOK(net', i, th[i], ask[i])
  <2>1. Touches(net, net', {}) /\ ThreadOK(net, i, th[i], ask[i])
    BY AlikeTouches DEF ThreadedOK
  <2> QED
    BY <2>1, OtherThread
<1>3. Others(net'.fds) = Others(net.fds)
  BY AlikeTouches
<1>4. Past' = Past
  BY DEF Past
<1> QED
  BY <1>1, <1>2, <1>3, <1>4 DEF ThreadedOK

LEMMA ArrivalKernel ==
  ASSUME KernelOK(net), NEW i \in Conns, Arrives(i)
  PROVE  /\ KernelOK(net') /\ Touches(net, net', {i}) /\ net'.fds = net.fds
         /\ ~HasFd(net.fds, Client(i)) /\ ~Queued(net.backlog, Client(i))
<1> DEFINE s == Client(i)
           b == net.backlog
           n2 == net'
<1>1. s \in Clients /\ \A j \in Conns : j # i => Client(j) # s /\ Client(j) \in Ends
  BY EndsFacts
<1>2. /\ IsNet(n2) /\ n2.fds = net.fds /\ n2.backlog = Append(b, s)
      /\ net.sock[s].end = "none" /\ n2.sock[s].end = "open"
      /\ \A u \in Ends \ {s} : n2.sock[u] = net.sock[u]
  BY ArrivalNet DEF KernelOK
<1>3. ~HasFd(net.fds, s) /\ ~Queued(b, s)
  BY <1>1, <1>2 DEF KernelOK, BacklogOK
<1> HIDE DEF s, b, n2
<1>4. QueueOK(Append(b, s)) /\ \A u : Queued(Append(b, s), u) <=> Queued(b, u) \/ u = s
  BY <1>1, <1>3, LastJoins DEF KernelOK, BacklogOK, b
<1>5. \A u \in Clients : u \in Ends
  BY EndsFacts DEF Clients
<1>6. BacklogOK(n2)
  <2>1. \A u \in Clients : Queued(Append(b, s), u) => ~HasFd(net.fds, u)
    BY <1>3, <1>4 DEF KernelOK, BacklogOK, b
  <2>2. \A u \in Clients : Queued(Append(b, s), u) \/ HasFd(net.fds, u) => n2.sock[u].end # "none"
    BY <1>2, <1>4, <1>5 DEF KernelOK, BacklogOK, b
  <2> QED
    BY <1>2, <1>4, <2>1, <2>2 DEF BacklogOK
<1>7. KernelOK(n2)
  BY <1>2, <1>6 DEF KernelOK
<1>8. Touches(net, n2, {i})
  BY <1>1, <1>2, <1>4 DEF Touches, b
<1> QED
  BY <1>2, <1>3, <1>7, <1>8 DEF n2, b, s

LEMMA BrowseKeeps ==
  ASSUME ThreadedOK, NEW i \in Conns, Browse(i), th' = th
  PROVE  ThreadedOK'
<1>1. /\ KernelOK(net') /\ Touches(net, net', {i}) /\ net'.fds = net.fds
      /\ ~HasFd(net.fds, Client(i)) /\ ~Queued(net.backlog, Client(i))
  BY ArrivalKernel DEF Browse, ThreadedOK
<1>2. PICK r : ask' = [ask EXCEPT ![i] = r]
  BY DEF Browse
<1>3. ask' = [j \in Conns |-> ask'[j]] /\ \A j \in Conns \ {i} : ask'[j] = ask[j]
  BY <1>2 DEF ThreadedOK
<1>4. ThreadOK(net', i, th[i], ask'[i])
  <2>1. net.sock[Client(i)].end = "none" /\ ThreadOK(net, i, th[i], ask[i])
    BY DEF Browse, Arrives, ThreadedOK
  <2>2. th[i].pc = "idle"
    BY <2>1 DEF ThreadOK
  <2> QED
    BY <1>1, <2>1, <2>2 DEF ThreadOK
<1>5. ASSUME NEW j \in Conns PROVE ThreadOK(net', j, th[j], ask'[j])
  <2>1. CASE j # i
    <3>1. ThreadOK(net, j, th[j], ask[j]) /\ ask'[j] = ask[j]
      BY <1>3, <2>1 DEF ThreadedOK
    <3> QED
      BY <1>1, <2>1, <3>1, OtherThread
  <2> QED
    BY <1>4, <2>1
<1>6. Past' = Past /\ Others(net'.fds) = Others(net.fds)
  BY <1>1 DEF Past
<1> QED
  BY <1>1, <1>3, <1>5, <1>6 DEF ThreadedOK

LEMMA WorldStep ==
  ASSUME ThreadedOK, World
  PROVE  ThreadedOK'
<1>0. PICK i \in Conns : \/ Browse(i) \/ BrowserSends(i) \/ UpstreamSends(i) \/ Obeys(i)
                         \/ \E s \in {Client(i), Server(i)} : PeerEnd(s)
  BY DEF World
<1>1. th' = th /\ IsNet(net) /\ Client(i) \in Ends /\ Server(i) \in Ends
  BY EndsFacts DEF World, ThreadedOK, KernelOK
<1>2. CASE Browse(i)
  BY <1>1, <1>2, BrowseKeeps
<1>3. CASE BrowserSends(i)
  <2>1. \E m : PeerSends(Client(i), m)
    BY <1>3 DEF BrowserSends
  <2>2. Alike(net, net')
    BY <1>1, <2>1, PeersAlike
  <2> QED
    BY <1>1, <1>3, <2>2, WorldKeeps DEF BrowserSends
<1>4. CASE UpstreamSends(i)
  <2>1. Alike(net, net')
    BY <1>1, <1>4, PeersAlike DEF UpstreamSends
  <2> QED
    BY <1>1, <1>4, <2>1, WorldKeeps DEF UpstreamSends
<1>5. CASE Obeys(i)
  <2>1. Alike(net, net')
    BY <1>1, <1>5, PeersAlike DEF Obeys
  <2> QED
    BY <1>1, <1>5, <2>1, WorldKeeps DEF Obeys
<1>6. CASE \E s \in {Client(i), Server(i)} : PeerEnd(s)
  <2>1. PICK s \in Ends, how \in {"fin", "rst"} : PeerEnds(s, how) /\ ask' = ask
    BY <1>1, <1>6 DEF PeerEnd
  <2>2. Alike(net, net')
    BY <1>1, <2>1, PeersAlike
  <2> QED
    BY <1>1, <2>1, <2>2, WorldKeeps
<1> QED
  BY <1>0, <1>2, <1>3, <1>4, <1>5, <1>6

LEMMA StepKeeps ==
  ASSUME ThreadedOK, NEW i \in Conns, NEW r, NEW t, Step(i, r, t),
         KernelOK(r.net), Touches(net, r.net, {i}), ThreadOK(r.net, i, t, ask[i]),
         Counted(r.net, i, t)
  PROVE  alive' => ThreadedOK'
<1>1. CASE r.ret = "killed"
  BY <1>1 DEF Step, Dies
<1>2. CASE r.ret # "killed"
  <2>1. net' = r.net /\ th' = [th EXCEPT ![i] = t] /\ ask' = ask
    BY <1>2 DEF Step
  <2> QED
    BY <2>1, ThreadStep
<1> QED
  BY <1>1, <1>2

(* The threads that only use their sockets. *)
LEMMA UseKeeps ==
  ASSUME ThreadedOK, NEW i \in Conns, NEW r, NEW t, Step(i, r, t),
         Alike(net, r.net), ThreadOK(net, i, t, ask[i]), th[i].pc \notin Early => t.pc \notin Early
  PROVE  alive' => ThreadedOK'
<1>1. KernelOK(r.net)
  BY AlikeKernel DEF ThreadedOK
<1>2. Touches(net, r.net, {}) /\ Touches(net, r.net, {i}) /\ Others(r.net.fds) = Others(net.fds)
  BY AlikeTouches
<1>3. ThreadOK(r.net, i, t, ask[i])
  BY <1>2, OtherThread
<1>4. Counted(r.net, i, t)
  BY <1>2 DEF Counted
<1> QED
  BY <1>1, <1>2, <1>3, <1>4, StepKeeps

LEMMA AcceptStep ==
  ASSUME ThreadedOK, Accept
  PROVE  alive' => ThreadedOK'
<1> DEFINE b == net.backlog
           c == Head(b)
           f == Lowest(net)
<1>0. PICK i, t : /\ i = c[1] /\ t = [Idle EXCEPT !.pc = "request", !.cfd = f]
                  /\ th' = [th EXCEPT ![i] = t] /\ net' = accept(net) /\ ask' = ask /\ b # <<>>
  BY DEF Accept
<1>1. c \in Clients /\ Queued(b, c)
  <2>1. QueueOK(b)
    BY DEF ThreadedOK, KernelOK, BacklogOK
  <2> QED
    BY <1>0, <2>1, FirstLeaves
<1>2. i \in Conns /\ c = Client(i)
  BY <1>0, <1>1, EndsFacts
<1>3. ThreadOK(net, i, th[i], ask[i])
  BY <1>2 DEF ThreadedOK
<1>4. th[i].pc = "idle"
  BY <1>1, <1>2, <1>3 DEF ThreadOK
<1>5. Cardinality(Others(net.fds)) <= N - 1
  BY <1>2, <1>4, FewOthers DEF Early
<1>6. Accepted(net, accept(net), f, c)
  BY <1>0, <1>5, AcceptTakesFirst DEF ThreadedOK
<1>7. Touches(net, net', {i}) /\ Others(net'.fds) \subseteq Others(net.fds)
  BY <1>0, <1>6, AcceptTouches
<1>8. IsThread(t) /\ t.pc = "request" /\ t.cfd = f
  <2>1. IsThread(Idle)
    BY DEF Idle, IsThread
  <2>2. t = [[Idle EXCEPT !.pc = "request"] EXCEPT !.cfd = f]
    BY <1>0
  <2> DEFINE u == [Idle EXCEPT !.pc = "request"]
  <2>3. IsThread(u) /\ u.pc = "request"
    BY <2>1, PcField
  <2> HIDE DEF u, f
  <2>4. t = [u EXCEPT !.cfd = f]
    BY <2>2 DEF u
  <2> QED
    BY <2>3, <2>4, CfdField
<1>9. \A g \in 1 .. MaxFd : accept(net).fds[g] = IF g = f THEN c ELSE net.fds[g]
  BY <1>6 DEF Accepted, Placed
<1> HIDE DEF f, c, b
<1>10. ThreadOK(net', i, t, ask[i])
  <2>1. net'.fds[f] = Client(i) /\ f \in 1 .. MaxFd
    BY <1>0, <1>2, <1>6, <1>9 DEF Accepted
  <2>2. ~HasFd(net'.fds, Server(i))
    BY <1>0, <1>2, <1>3, <1>4, <1>9, EndsFacts DEF ThreadOK, HasFd
  <2>3. ~Queued(net'.backlog, Client(i))
    BY <1>0, <1>2, <1>6 DEF Accepted
  <2>4. net'.sock[Client(i)].end # "none"
    BY <1>0, <1>1, <1>2, <1>6 DEF Accepted, ThreadedOK, KernelOK, BacklogOK, b
  <2> QED
    BY <1>8, <2>1, <2>2, <2>3, <2>4 DEF ThreadOK, Pcs
<1>11. Counted(net', i, t)
  BY <1>4, <1>7 DEF Counted, Early
<1>12. KernelOK(net')
  BY <1>0, <1>6 DEF Accepted
<1> QED
  BY <1>0, <1>2, <1>7, <1>10, <1>11, <1>12, ThreadStep

LEMMA ReadRequestStep ==
  ASSUME ThreadedOK, NEW i \in Conns, ReadRequest(i)
  PROVE  alive' => ThreadedOK'
<1>1. /\ th[i].pc = "request" /\ ask' = ask /\ ThreadOK(net, i, th[i], ask[i]) /\ IsThread(th[i])
      /\ IsNet(net) /\ KernelOK(net)
  BY DEF ReadRequest, At, ThreadedOK, KernelOK, ThreadOK
<1>2. PICK t : /\ th' = [th EXCEPT ![i] = t] /\ IsThread(t) /\ t.pc \in {"request", "parse"}
               /\ t.cfd = th[i].cfd /\ t.sfd = th[i].sfd
               /\ Alike(net, net')
  <2> DEFINE s == Client(i)
             total == th[i].total \o net.sock[s].in
  <2>1. CASE Received(net, s) # "data"
    <3> DEFINE t == [th[i] EXCEPT !.pc = "parse"]
    <3>1. th' = [th EXCEPT ![i] = t] /\ net' = net
      BY <2>1 DEF ReadRequest
    <3>2. IsThread(t) /\ t.pc = "parse" /\ t.cfd = th[i].cfd /\ t.sfd = th[i].sfd
      BY <1>1, PcField
    <3>3. Alike(net, net')
      BY <1>1, <3>1, AlikeSelf
    <3> QED
      BY <3>1, <3>2, <3>3
  <2>2. CASE Received(net, s) = "data"
    <3>1. PICK pc \in {"request", "parse"} :
            /\ th' = [th EXCEPT ![i].pc = pc, ![i].total = total]
            /\ net' = [net EXCEPT !.sock[s].in = <<>>]
      BY <2>2 DEF ReadRequest
    <3> DEFINE u == [th[i] EXCEPT !.pc = pc]
               t == [u EXCEPT !.total = total]
    <3>2. th' = [th EXCEPT ![i] = t]
      BY <3>1 DEF ThreadedOK
    <3>3. IsThread(u) /\ u.pc = pc /\ u.cfd = th[i].cfd /\ u.sfd = th[i].sfd
      BY <1>1, PcField
    <3>4. IsThread(t) /\ t.pc = pc /\ t.cfd = th[i].cfd /\ t.sfd = th[i].sfd
      <4> HIDE DEF u, total
      <4>1. IsThread(t) /\ t.pc = u.pc /\ t.cfd = u.cfd /\ t.sfd = u.sfd
        BY <3>3, TotalField
      <4> QED
        BY <3>3, <4>1
    <3>5. Alike(net, net')
      BY <1>1, <3>1, CallsAlike
    <3> QED
      BY <3>2, <3>4, <3>5
  <2> QED
    BY <2>1, <2>2
<1>3. ThreadOK(net, i, t, ask[i])
  BY <1>1, <1>2 DEF ThreadOK, Pcs
<1>4. KernelOK(net') /\ Touches(net, net', {}) /\ Touches(net, net', {i}) /\ Others(net'.fds) = Others(net.fds)
  BY <1>1, <1>2, AlikeKernel, AlikeTouches
<1>5. ThreadOK(net', i, t, ask[i])
  BY <1>3, <1>4, OtherThread
<1>6. Counted(net', i, t)
  BY <1>1, <1>4 DEF Counted, Early
<1> QED
  BY <1>1, <1>2, <1>4, <1>5, <1>6, ThreadStep

(* A thread whose client's descriptor is closed after nothing else was     *)
(* opened but a socket that leaked.                                        *)
LEMMA GoneStep ==
  ASSUME ThreadedOK, NEW i \in Conns, At(i, "parse"), NEW n,
         n = net \/ (n = leak(net)),
         Step(i, Quietly(close(n, th[i].cfd)), [th[i] EXCEPT !.pc = "done"])
  PROVE  alive' => ThreadedOK'
<1> DEFINE f == th[i].cfd
           t == [th[i] EXCEPT !.pc = "done"]
<1>1. /\ th[i].pc = "parse" /\ IsThread(th[i]) /\ ThreadOK(net, i, th[i], ask[i])
      /\ f \in 1 .. MaxFd /\ net.fds[f] = Client(i) /\ KernelOK(net) /\ ~HasFd(net.fds, Server(i))
  BY DEF At, ThreadedOK, ThreadOK
<1>2. Cardinality(Others(net.fds)) <= N - 1
  BY <1>1, FewOthers DEF Early
<1>3. /\ KernelOK(n) /\ Touches(net, n, {i}) /\ n.fds[f] = Client(i) /\ ~HasFd(n.fds, Server(i))
      /\ (\E g : Others(n.fds) \subseteq Others(net.fds) \cup {g})
      /\ (n.sock[Client(i)].end = "none" <=> net.sock[Client(i)].end = "none") /\ n.backlog = net.backlog
  <2>1. CASE n = net
    BY <1>1, <2>1 DEF Touches
  <2>2. CASE n = leak(net)
    <3> DEFINE g == Lowest(net)
    <3>1. Moved(net, n, g, Leaked) /\ g \in 1 .. MaxFd /\ net.fds[g] = Free
      BY <1>1, <1>2, <2>2, LeakTakesFree
    <3> HIDE DEF g
    <3>2. Touches(net, n, {i}) /\ Others(n.fds) \subseteq Others(net.fds) \cup {g}
      BY <3>1, MoveTouches
    <3>3. \A h \in 1 .. MaxFd : n.fds[h] = IF h = g THEN Leaked ELSE net.fds[h]
      BY <3>1 DEF Moved, Placed
    <3>4. n.fds[f] = Client(i) /\ ~HasFd(n.fds, Server(i))
      BY <1>1, <3>1, <3>3, EndsFacts DEF HasFd
    <3>5. n.sock[Client(i)].end = "none" <=> net.sock[Client(i)].end = "none"
      BY <3>1, EndsFacts DEF Moved
    <3> QED
      BY <3>1, <3>2, <3>4, <3>5 DEF Moved
  <2> QED
    BY <2>1, <2>2
<1> DEFINE n2 == close(n, f)
<1>4. IsOpen(n, f)
  BY <1>1, <1>3, EndsFacts DEF IsOpen
<1>5. Moved(n, n2, f, Free)
  BY <1>3, <1>4, CloseFrees
<1> HIDE DEF n2
<1>6. Touches(n, n2, {i}) /\ Others(n2.fds) \subseteq Others(n.fds)
  <2>1. f \in 1 .. MaxFd /\ n.fds[f] \in {Free, Client(i), Server(i)}
    BY <1>1, <1>3
  <2> HIDE DEF f
  <2> QED
    BY <1>5, <2>1, MoveTouches
<1>7. Touches(net, n2, {i})
  BY <1>3, <1>6, TouchesAgain
<1>8. IsThread(t) /\ t.pc = "done"
  <2>1. IsThread(th[i])
    BY <1>1
  <2> QED
    BY <2>1, PcField
<1>9. \A h \in 1 .. MaxFd : n2.fds[h] = IF h = f THEN Free ELSE n.fds[h]
  BY <1>5 DEF Moved, Placed
<1>10. ~HasFd(n2.fds, Client(i)) /\ ~HasFd(n2.fds, Server(i))
  <2>1. \A g, h \in 1 .. MaxFd : n.fds[g] = n.fds[h] /\ n.fds[g] \in Ends => g = h
    BY <1>3 DEF KernelOK, TableOK
  <2>2. Client(i) \in Ends /\ Server(i) \in Ends /\ Free \notin Ends
    BY EndsFacts
  <2> QED
    BY <1>1, <1>3, <1>9, <2>1, <2>2 DEF HasFd
<1>11. n2.backlog = net.backlog /\ (n2.sock[Client(i)].end = "none" <=> net.sock[Client(i)].end = "none")
  BY <1>3, <1>5, EndsFacts DEF Moved
<1> HIDE DEF t, f
<1>12. ThreadOK(n2, i, t, ask[i])
  BY <1>1, <1>8, <1>10, <1>11 DEF ThreadOK, Pcs
<1>13. Counted(n2, i, t)
  <2>1. \E g : Others(n2.fds) \subseteq Others(net.fds) \cup {g}
    BY <1>3, <1>6
  <2> QED
    BY <1>1, <1>8, <2>1 DEF Counted, Early
<1>14. PICK r : r = Quietly(n2) /\ r.net = n2
  <2>1. Quietly(n2).net = n2
    BY DEF Quietly
  <2> QED
    BY <2>1
<1>15. Step(i, r, t)
  BY <1>14 DEF n2, t, f
<1>16. KernelOK(n2)
  BY <1>5 DEF Moved
<1> QED
  BY <1>7, <1>12, <1>13, <1>14, <1>15, <1>16, StepKeeps

LEMMA ConnectStep ==
  ASSUME ThreadedOK, NEW i \in Conns, connect_upstream(i)
  PROVE  alive' => ThreadedOK'
<1> DEFINE f == Lowest(net)
           pc == IF ask[i].method = "CONNECT" THEN "established" ELSE "forward"
           u == [th[i] EXCEPT !.sfd = f]
           t == [u EXCEPT !.pc = pc]
           n2 == connect(net, Server(i))
           r == Quietly(n2)
<1>1. /\ th[i].pc = "parse" /\ IsThread(th[i]) /\ ThreadOK(net, i, th[i], ask[i])
      /\ th[i].cfd \in 1 .. MaxFd /\ net.fds[th[i].cfd] = Client(i)
      /\ KernelOK(net) /\ ~HasFd(net.fds, Server(i))
  BY DEF connect_upstream, At, ThreadedOK, ThreadOK
<1>2. Cardinality(Others(net.fds)) <= N - 1
  BY <1>1, FewOthers DEF Early
<1>3. Moved(net, n2, f, Server(i)) /\ f \in 1 .. MaxFd /\ net.fds[f] = Free
  BY <1>1, <1>2, ConnectTakesFree
<1>4. Step(i, r, t)
  BY DEF connect_upstream
<1>5. r.net = n2
  BY DEF Quietly
<1>6. IsThread(u) /\ u.pc = "parse" /\ u.cfd = th[i].cfd /\ u.sfd = f
  <2> HIDE DEF f
  <2>1. IsThread(th[i])
    BY <1>1
  <2>2. IsThread(u) /\ u.pc = th[i].pc /\ u.cfd = th[i].cfd /\ u.sfd = f
    BY <2>1, SfdField
  <2> QED
    BY <1>1, <2>2
<1>7. IsThread(t) /\ t.pc = pc /\ t.cfd = u.cfd /\ t.sfd = u.sfd
  <2> HIDE DEF u, pc
  <2> QED
    BY <1>6, PcField
<1>8. pc \in {"established", "forward"} /\ (pc = "forward" => ask[i].method # "CONNECT")
  OBVIOUS
<1> HIDE DEF f, pc, u, t, n2, r
<1>9. Touches(net, n2, {i}) /\ Others(n2.fds) \subseteq Others(net.fds) \cup {f}
  BY <1>3, MoveTouches
<1>10. \A g \in 1 .. MaxFd : n2.fds[g] = IF g = f THEN Server(i) ELSE net.fds[g]
  BY <1>3 DEF Moved, Placed
<1>11. n2.fds[f] = Server(i) /\ n2.fds[th[i].cfd] = Client(i)
  BY <1>1, <1>3, <1>10, EndsFacts
<1>12. /\ n2.backlog = net.backlog /\ KernelOK(n2)
       /\ n2.sock[Client(i)].end = "none" <=> net.sock[Client(i)].end = "none"
  BY <1>3, EndsFacts DEF Moved
<1>13. ~Queued(net.backlog, Client(i)) /\ net.sock[Client(i)].end # "none"
  BY <1>1 DEF ThreadOK
<1>14. ThreadOK(n2, i, t, ask[i])
  BY <1>1, <1>3, <1>6, <1>7, <1>8, <1>11, <1>12, <1>13 DEF ThreadOK, Pcs
<1>15. Counted(n2, i, t)
  BY <1>1, <1>7, <1>8, <1>9 DEF Counted, Early
<1> QED
  BY <1>4, <1>5, <1>9, <1>12, <1>14, <1>15, StepKeeps

LEMMA ForwardStep ==
  ASSUME ThreadedOK, NEW i \in Conns, Forward(i)
  PROVE  alive' => ThreadedOK'
<1> DEFINE t == [th[i] EXCEPT !.pc = "answer"]
<1>1. /\ th[i].pc = "forward" /\ IsThread(th[i]) /\ ThreadOK(net, i, th[i], ask[i]) /\ IsNet(net)
  BY DEF Forward, At, ThreadedOK, ThreadOK, KernelOK
<1>2. IsThread(t) /\ t.pc = "answer" /\ t.cfd = th[i].cfd /\ t.sfd = th[i].sfd
  <2>1. IsThread(th[i])
    BY <1>1
  <2> QED
    BY <2>1, PcField
<1>0. PICK head \in send(net, th[i].sfd, forward_http_request(ask[i])) :
        \E r \in {head} \cup send(head.net, th[i].sfd, {"bytes"}) : Step(i, r, t)
  BY DEF Forward
<1>3. PICK r \in {head} \cup send(head.net, th[i].sfd, {"bytes"}) : Step(i, r, t)
  BY <1>0
<1>4. Alike(net, head.net)
  BY <1>1, SendAlike
<1>5. Alike(net, r.net)
  <2>1. IsNet(head.net)
    BY <1>4 DEF Alike
  <2>2. r = head \/ Alike(head.net, r.net)
    BY <1>3, <2>1, SendAlike
  <2> QED
    BY <1>4, <2>2, AlikeAgain
<1> HIDE DEF t
<1>6. ThreadOK(net, i, t, ask[i])
  BY <1>1, <1>2 DEF ThreadOK, Pcs
<1> QED
  BY <1>2, <1>3, <1>5, <1>6, UseKeeps DEF Early

(* What is received from s and sent on. *)
LEMMA TakenSent ==
  ASSUME NEW n, IsNet(n), NEW s, NEW f, NEW m, NEW r \in send(Taken(n, s), f, m)
  PROVE  Alike(n, r.net)
<1>1. Alike(n, Taken(n, s))
  BY CallsAlike
<1>2. IsNet(Taken(n, s))
  BY <1>1 DEF Alike
<1>3. Alike(Taken(n, s), r.net)
  BY <1>2, SendAlike
<1> QED
  BY <1>1, <1>3, AlikeAgain

LEMMA AnswerStep ==
  ASSUME ThreadedOK, NEW i \in Conns, Answer(i)
  PROVE  alive' => ThreadedOK'
<1> DEFINE t == [th[i] EXCEPT !.pc = "done"]
           s == Server(i)
<1>1. /\ th[i].pc = "answer" /\ IsThread(th[i]) /\ ThreadOK(net, i, th[i], ask[i]) /\ IsNet(net)
  BY DEF Answer, At, ThreadedOK, ThreadOK, KernelOK
<1>2. CASE Received(net, s) = "data"
  <2>1. PICK r \in send(Taken(net, s), th[i].cfd, {"bytes"}) : Step(i, r, th[i])
    BY <1>2 DEF Answer
  <2>2. Alike(net, r.net)
    BY <1>1, TakenSent
  <2>3. PICK o : o = th[i]
    OBVIOUS
  <2> QED
    BY <1>1, <2>1, <2>2, <2>3, UseKeeps
<1>3. CASE Received(net, s) # "data"
  <2>1. PICK r : Step(i, r, t) /\ r.net = net
    <3>1. Quietly(net).net = net /\ Step(i, Quietly(net), t)
      BY <1>3 DEF Answer, Quietly
    <3> QED
      BY <3>1
  <2>2. IsThread(t) /\ t.pc = "done"
    <3>1. IsThread(th[i])
      BY <1>1
    <3> QED
      BY <3>1, PcField
  <2> HIDE DEF t
  <2>3. ThreadOK(net, i, t, ask[i])
    BY <1>1, <2>2 DEF ThreadOK, Pcs
  <2>4. Alike(net, r.net)
    BY <1>1, <2>1, AlikeSelf
  <2> QED
    BY <2>1, <2>2, <2>3, <2>4, UseKeeps DEF Early
<1> QED
  BY <1>2, <1>3

LEMMA EstablishStep ==
  ASSUME ThreadedOK, NEW i \in Conns, Establish(i)
  PROVE  alive' => ThreadedOK'
<1> DEFINE u == [th[i] EXCEPT !.pc = "tunnel"]
           v == [u EXCEPT !.c2s = "runs"]
           t == [v EXCEPT !.s2c = "runs"]
<1>1. /\ th[i].pc = "established" /\ IsThread(th[i]) /\ ThreadOK(net, i, th[i], ask[i]) /\ IsNet(net)
  BY DEF Establish, At, ThreadedOK, ThreadOK, KernelOK
<1>2. PICK r \in send(net, th[i].cfd, {"200"}) : Step(i, r, t)
  BY DEF Establish
<1>3. Alike(net, r.net)
  BY <1>1, SendAlike
<1>4. IsThread(u) /\ u.pc = "tunnel" /\ u.cfd = th[i].cfd /\ u.sfd = th[i].sfd
  <2>1. IsThread(th[i])
    BY <1>1
  <2> QED
    BY <2>1, PcField
<1> HIDE DEF u
<1>5. IsThread(v) /\ v.pc = u.pc /\ v.cfd = u.cfd /\ v.sfd = u.sfd
  BY <1>4, C2sField
<1> HIDE DEF v
<1>6. IsThread(t) /\ t.pc = v.pc /\ t.cfd = v.cfd /\ t.sfd = v.sfd
  BY <1>5, S2cField
<1> HIDE DEF t
<1>7. ThreadOK(net, i, t, ask[i])
  BY <1>1, <1>4, <1>5, <1>6 DEF ThreadOK, Pcs
<1> QED
  BY <1>2, <1>3, <1>4, <1>5, <1>6, <1>7, UseKeeps DEF Early

LEMMA HalfAlike ==
  ASSUME NEW n, IsNet(n), NEW i, NEW way
  PROVE  Alike(n, HalfEnds(n, i, way))
<1> DEFINE m == shutdown_wr(n, To(i, way))
<1>1. Alike(n, m)
  BY CallsAlike
<1>2. IsNet(m)
  BY <1>1 DEF Alike
<1> HIDE DEF m
<1>3. Alike(m, shutdown_rd(m, From(i, way)))
  BY <1>2, CallsAlike
<1> QED
  BY <1>1, <1>3, AlikeAgain DEF HalfEnds, m

LEMMA TunnelStep ==
  ASSUME ThreadedOK, NEW i \in Conns, NEW way \in {"c2s", "s2c"}, tunneler(i, way)
  PROVE  alive' => ThreadedOK'
<1> DEFINE s == net.fds[From(i, way)]
           ends == [th[i] EXCEPT ![way] = "ended"]
<1>1. /\ th[i].pc = "tunnel" /\ IsThread(th[i]) /\ ThreadOK(net, i, th[i], ask[i]) /\ IsNet(net)
  BY DEF tunneler, At, ThreadedOK, ThreadOK, KernelOK
<1>2. IsThread(ends) /\ ends.pc = "tunnel" /\ ends.cfd = th[i].cfd /\ ends.sfd = th[i].sfd
  <2>1. IsThread(th[i])
    BY <1>1
  <2>2. CASE way = "c2s"
    <3> DEFINE e == [th[i] EXCEPT !.c2s = "ended"]
    <3>1. ends = e
      BY <2>2
    <3>2. IsThread(e) /\ e.pc = th[i].pc /\ e.cfd = th[i].cfd /\ e.sfd = th[i].sfd
      BY <2>1, C2sField
    <3> HIDE DEF e, ends
    <3> QED
      BY <1>1, <3>1, <3>2
  <2>3. CASE way = "s2c"
    <3> DEFINE e == [th[i] EXCEPT !.s2c = "ended"]
    <3>1. ends = e
      BY <2>3
    <3>2. IsThread(e) /\ e.pc = th[i].pc /\ e.cfd = th[i].cfd /\ e.sfd = th[i].sfd
      BY <2>1, S2cField
    <3> HIDE DEF e, ends
    <3> QED
      BY <1>1, <3>1, <3>2
  <2> QED
    BY <2>2, <2>3
<1> HIDE DEF ends
<1>3. ThreadOK(net, i, ends, ask[i])
  BY <1>1, <1>2 DEF ThreadOK, Pcs
<1>4. PICK r, t : Step(i, r, t) /\ Alike(net, r.net) /\ t \in {ends, th[i]}
  <2>1. CASE Received(net, s) # "data"
    <3>1. Step(i, Quietly(HalfEnds(net, i, way)), ends)
      BY <2>1 DEF tunneler, ends
    <3>2. Quietly(HalfEnds(net, i, way)).net = HalfEnds(net, i, way)
      BY DEF Quietly
    <3> QED
      BY <1>1, <3>1, <3>2, HalfAlike
  <2>2. CASE Received(net, s) = "data"
    <3>1. PICK r \in send(Taken(net, s), To(i, way), {"bytes"}) :
            IF r.ret = "failed" THEN Step(i, [r EXCEPT !.net = HalfEnds(@, i, way)], ends)
            ELSE Step(i, r, th[i])
      BY <2>2 DEF tunneler, ends
    <3>2. Alike(net, r.net)
      BY <1>1, TakenSent
    <3>3. CASE r.ret = "failed"
      <4>1. Alike(net, HalfEnds(r.net, i, way))
        <5>1. IsNet(r.net)
          BY <3>2 DEF Alike
        <5> QED
          BY <3>2, <5>1, HalfAlike, AlikeAgain
      <4>2. [r EXCEPT !.net = HalfEnds(@, i, way)].net = HalfEnds(r.net, i, way)
        <5>1. \E a, b : r = [ret |-> a, net |-> b]
          BY SendRecord
        <5> QED
          BY <5>1
      <4> QED
        BY <3>1, <3>3, <4>1, <4>2
    <3>4. CASE r.ret # "failed"
      BY <3>1, <3>2, <3>4
    <3> QED
      BY <3>3, <3>4
  <2> QED
    BY <2>1, <2>2
<1>5. ThreadOK(net, i, t, ask[i]) /\ t.pc \notin Early
  BY <1>1, <1>2, <1>3, <1>4 DEF Early
<1> QED
  BY <1>4, <1>5, UseKeeps

LEMMA JoinStep ==
  ASSUME ThreadedOK, NEW i \in Conns, tunnel_https(i)
  PROVE  alive' => ThreadedOK'
<1> DEFINE f == th[i].cfd
           g == th[i].sfd
           t == [th[i] EXCEPT !.pc = "done"]
           n == close(net, f)
           n2 == close(n, g)
<1>1. /\ th[i].pc = "tunnel" /\ IsThread(th[i]) /\ ThreadOK(net, i, th[i], ask[i])
      /\ f \in 1 .. MaxFd /\ net.fds[f] = Client(i) /\ KernelOK(net)
      /\ g \in 1 .. MaxFd /\ net.fds[g] = Server(i)
  BY DEF tunnel_https, At, ThreadedOK, ThreadOK
<1>2. PICK r : Step(i, r, t) /\ r.net = n2
  <2>1. Step(i, Quietly(n2), t)
    BY DEF tunnel_https
  <2>2. Quietly(n2).net = n2
    BY DEF Quietly
  <2> QED
    BY <2>1, <2>2
<1>3. IsThread(t) /\ t.pc = "done"
  <2>1. IsThread(th[i])
    BY <1>1
  <2> QED
    BY <2>1, PcField
<1>4. Client(i) \in Ends /\ Server(i) \in Ends /\ Client(i) # Server(i) /\ Free \notin Ends
  BY EndsFacts
<1> HIDE DEF f, g, t
<1>5. Moved(net, n, f, Free)
  <2>1. IsOpen(net, f)
    BY <1>1, <1>4 DEF IsOpen
  <2> QED
    BY <1>1, <2>1, CloseFrees
<1> HIDE DEF n
<1>6. /\ KernelOK(n) /\ n.fds[g] = Server(i) /\ n.backlog = net.backlog
      /\ n.sock[Client(i)].end = "none" <=> net.sock[Client(i)].end = "none"
  BY <1>1, <1>4, <1>5, EndsFacts DEF Moved, Placed
<1>7. Moved(n, n2, g, Free)
  <2>1. IsOpen(n, g)
    BY <1>1, <1>4, <1>6 DEF IsOpen
  <2> QED
    BY <1>6, <2>1, CloseFrees
<1> HIDE DEF n2
<1>8. Touches(net, n, {i}) /\ Others(n.fds) \subseteq Others(net.fds)
  BY <1>1, <1>5, MoveTouches
<1>9. Touches(n, n2, {i}) /\ Others(n2.fds) \subseteq Others(n.fds)
  BY <1>1, <1>6, <1>7, MoveTouches
<1>10. Touches(net, n2, {i}) /\ Others(n2.fds) \subseteq Others(net.fds)
  BY <1>8, <1>9, TouchesAgain
<1>11. ~HasFd(n2.fds, Client(i)) /\ ~HasFd(n2.fds, Server(i))
  <2>1. \A h \in 1 .. MaxFd : n2.fds[h] = IF h \in {f, g} THEN Free ELSE net.fds[h]
    BY <1>5, <1>7 DEF Moved, Placed
  <2>2. \A h, k \in 1 .. MaxFd : net.fds[h] = net.fds[k] /\ net.fds[h] \in Ends => h = k
    BY <1>1 DEF KernelOK, TableOK
  <2> QED
    BY <1>1, <1>4, <2>1, <2>2 DEF HasFd
<1>12. /\ KernelOK(n2) /\ n2.backlog = net.backlog
       /\ n2.sock[Client(i)].end = "none" <=> net.sock[Client(i)].end = "none"
  BY <1>6, <1>7, EndsFacts DEF Moved
<1>13. ThreadOK(n2, i, t, ask[i])
  BY <1>1, <1>3, <1>11, <1>12 DEF ThreadOK, Pcs
<1>14. Counted(n2, i, t)
  BY <1>3, <1>10 DEF Counted, Early
<1> QED
  BY <1>2, <1>10, <1>12, <1>13, <1>14, StepKeeps

LEMMA ThreadKeeps ==
  ASSUME ThreadedOK, NEW i \in Conns, process(i)
  PROVE  alive' => ThreadedOK'
<1>1. CASE ReadRequest(i)
  BY <1>1, ReadRequestStep
<1>2. CASE Malformed(i)
  BY <1>2, GoneStep DEF Malformed
<1>3. CASE NoUpstream(i)
  <2>1. PICK n \in {net, leak(net)} : Step(i, Quietly(close(n, th[i].cfd)), [th[i] EXCEPT !.pc = "done"])
    BY <1>3 DEF NoUpstream
  <2> QED
    BY <1>3, <2>1, GoneStep DEF NoUpstream
<1>4. CASE connect_upstream(i)
  BY <1>4, ConnectStep
<1>5. CASE Forward(i)
  BY <1>5, ForwardStep
<1>6. CASE Answer(i)
  BY <1>6, AnswerStep
<1>7. CASE Establish(i)
  BY <1>7, EstablishStep
<1>8. CASE tunneler(i, "c2s") \/ tunneler(i, "s2c")
  BY <1>8, TunnelStep
<1>9. CASE tunnel_https(i)
  BY <1>9, JoinStep
<1> QED
  BY <1>1, <1>2, <1>3, <1>4, <1>5, <1>6, <1>7, <1>8, <1>9 DEF process

LEMMA ProxyKeeps ==
  ASSUME program \in Programs, ProxyInv, Next
  PROVE  ProxyInv'
<1>1. CASE program = "threaded"
  <2>1. ProxyNext /\ program' = program
    BY <1>1 DEF Next, Run
  <2>2. CASE World
    <3>1. alive' = alive
      BY <2>2 DEF World
    <3> QED
      BY <1>1, <2>1, <2>2, <3>1, WorldStep DEF ProxyInv
  <2>3. CASE Accept
    <3>1. alive
      BY <2>3 DEF Accept
    <3> QED
      BY <1>1, <2>1, <2>3, <3>1, AcceptStep DEF ProxyInv
  <2>4. ASSUME NEW i \in Conns, process(i) PROVE ProxyInv'
    <3>1. alive
      BY <2>4 DEF process, ReadRequest, Malformed, NoUpstream, connect_upstream, Forward, Answer,
                  Establish, tunneler, tunnel_https, At
    <3> QED
      BY <1>1, <2>1, <2>4, <3>1, ThreadKeeps DEF ProxyInv
  <2> QED
    BY <2>1, <2>2, <2>3, <2>4 DEF ProxyNext
<1>2. CASE program # "threaded"
  <2>1. program' = program /\ th' = th
    BY <1>2 DEF Next, Run, proxyVars
  <2> QED
    BY <1>2, <2>1 DEF ProxyInv
<1> QED
  BY <1>1, <1>2

-----------------------------------------------------------------------------
(***************************************************************************)
(* The echo servers: the rows and the threads.                             *)
(***************************************************************************)
LEMMA RowReplaced ==
  ASSUME NEW c, IsRows(c), NEW p, NEW v
  PROVE  IsRows([c EXCEPT ![p] = v]) /\ Len([c EXCEPT ![p] = v]) = Len(c)
<1> DEFINE c2 == [c EXCEPT ![p] = v]
           S == {c2[k] : k \in DOMAIN c2}
<1>1. DOMAIN c = 1 .. Len(c) /\ Len(c) \in Nat /\ DOMAIN c2 = DOMAIN c
  BY LenProperties DEF IsRows
<1>2. c2 = [k \in 1 .. Len(c) |-> c2[k]]
  BY <1>1 DEF IsRows
<1>3. \A k \in 1 .. Len(c) : c2[k] \in S
  BY <1>1
<1> HIDE DEF c2, S
<1>4. c2 \in [1 .. Len(c) -> S]
  BY <1>2, <1>3
<1>5. c2 \in Seq(S)
  BY <1>1, <1>4, SeqDef
<1>6. Len(c2) = Len(c)
  BY <1>1, <1>5, LenProperties
<1>7. IsRows(c2)
  BY <1>5 DEF IsRows, S
<1> QED
  BY <1>6, <1>7 DEF c2

LEMMA RowAdded ==
  ASSUME NEW c, IsRows(c), NEW v
  PROVE  IsRows(Append(c, v)) /\ Len(Append(c, v)) = Len(c) + 1 /\ Len(c) \in Nat
<1> DEFINE c2 == Append(c, v)
           R == {c[k] : k \in DOMAIN c} \cup {v}
           S == {c2[k] : k \in DOMAIN c2}
<1>1. c \in Seq(R)
  BY SeqMonotonic DEF IsRows
<1>2. c2 \in Seq(R) /\ Len(c2) = Len(c) + 1 /\ Len(c) \in Nat
  BY <1>1, AppendProperties, LenProperties
<1>3. c2 = [k \in 1 .. Len(c2) |-> c2[k]] /\ DOMAIN c2 = 1 .. Len(c2) /\ Len(c2) \in Nat
  BY <1>2, LenProperties, SeqDef
<1>4. \A k \in 1 .. Len(c2) : c2[k] \in S
  BY <1>3
<1> HIDE DEF c2, S
<1>5. c2 \in [1 .. Len(c2) -> S]
  BY <1>3, <1>4
<1>6. c2 \in Seq(S)
  BY <1>3, <1>5, SeqDef
<1>7. IsRows(c2)
  BY <1>6 DEF IsRows, S
<1> QED
  BY <1>2, <1>7 DEF c2

(* One field of a thread is replaced. *)
MkEchoThread(a, b, c, d, e, f) ==
  [pc |-> a, fd |-> b, pos |-> c, on |-> d, users |-> e, total |-> f]

LEMMA EchoThreadFields ==
  /\ \A t : IsEchoThread(t) => \E a, b, c, d, e, f : t = MkEchoThread(a, b, c, d, e, f)
  /\ \A a, b, c, d, e, f :
       LET t == MkEchoThread(a, b, c, d, e, f)
       IN  IsEchoThread(t) /\ t.pc = a /\ t.fd = b /\ t.pos = c /\ t.on = d
BY DEF IsEchoThread, MkEchoThread

LEMMA EchoPc ==
  ASSUME NEW t, IsEchoThread(t), NEW x, NEW u, u = [t EXCEPT !.pc = x]
  PROVE  IsEchoThread(u) /\ u.pc = x /\ u.fd = t.fd /\ u.pos = t.pos /\ u.on = t.on
<1>1. PICK a, b, c, d, e, f : t = MkEchoThread(a, b, c, d, e, f)
  BY EchoThreadFields
<1>2. u = MkEchoThread(x, b, c, d, e, f)
  BY <1>1 DEF MkEchoThread
<1> QED
  BY <1>1, <1>2, EchoThreadFields

LEMMA EchoFd ==
  ASSUME NEW t, IsEchoThread(t), NEW x, NEW u, u = [t EXCEPT !.fd = x]
  PROVE  IsEchoThread(u) /\ u.pc = t.pc /\ u.fd = x /\ u.pos = t.pos /\ u.on = t.on
<1>1. PICK a, b, c, d, e, f : t = MkEchoThread(a, b, c, d, e, f)
  BY EchoThreadFields
<1>2. u = MkEchoThread(a, x, c, d, e, f)
  BY <1>1 DEF MkEchoThread
<1> QED
  BY <1>1, <1>2, EchoThreadFields

LEMMA EchoPos ==
  ASSUME NEW t, IsEchoThread(t), NEW x, NEW u, u = [t EXCEPT !.pos = x]
  PROVE  IsEchoThread(u) /\ u.pc = t.pc /\ u.fd = t.fd /\ u.pos = x /\ u.on = t.on
<1>1. PICK a, b, c, d, e, f : t = MkEchoThread(a, b, c, d, e, f)
  BY EchoThreadFields
<1>2. u = MkEchoThread(a, b, x, d, e, f)
  BY <1>1 DEF MkEchoThread
<1> QED
  BY <1>1, <1>2, EchoThreadFields

LEMMA EchoOn ==
  ASSUME NEW t, IsEchoThread(t), NEW x, NEW u, u = [t EXCEPT !.on = x]
  PROVE  IsEchoThread(u) /\ u.pc = t.pc /\ u.fd = t.fd /\ u.pos = t.pos /\ u.on = x
<1>1. PICK a, b, c, d, e, f : t = MkEchoThread(a, b, c, d, e, f)
  BY EchoThreadFields
<1>2. u = MkEchoThread(a, b, c, x, e, f)
  BY <1>1 DEF MkEchoThread
<1> QED
  BY <1>1, <1>2, EchoThreadFields

LEMMA EchoUsers ==
  ASSUME NEW t, IsEchoThread(t), NEW x, NEW u, u = [t EXCEPT !.users = x]
  PROVE  IsEchoThread(u) /\ u.pc = t.pc /\ u.fd = t.fd /\ u.pos = t.pos /\ u.on = t.on
<1>1. PICK a, b, c, d, e, f : t = MkEchoThread(a, b, c, d, e, f)
  BY EchoThreadFields
<1>2. u = MkEchoThread(a, b, c, d, x, f)
  BY <1>1 DEF MkEchoThread
<1> QED
  BY <1>1, <1>2, EchoThreadFields

LEMMA EchoTotal ==
  ASSUME NEW t, IsEchoThread(t), NEW x, NEW u, u = [t EXCEPT !.total = x]
  PROVE  IsEchoThread(u) /\ u.pc = t.pc /\ u.fd = t.fd /\ u.pos = t.pos /\ u.on = t.on
<1>1. PICK a, b, c, d, e, f : t = MkEchoThread(a, b, c, d, e, f)
  BY EchoThreadFields
<1>2. u = MkEchoThread(a, b, c, d, e, x)
  BY <1>1 DEF MkEchoThread
<1> QED
  BY <1>1, <1>2, EchoThreadFields

(* A thread that has a row keeps it, and a new row is its own.             *)
RowsStep(i, t, c2) ==
  /\ IsRows(c2) /\ Len(c2) \in Nat /\ Len(cfds) <= Len(c2) /\ t.pos \in 0 .. Len(c2)
  /\ eth[i].pos # 0 => t.pos = eth[i].pos
  /\ \A p \in 1 .. Len(c2) : p <= Len(cfds) \/ p = t.pos

LEMMA RowsKept ==
  ASSUME RowsOK, NEW i \in Conns, NEW t, NEW c2, RowsStep(i, t, c2),
         eth' = [eth EXCEPT ![i] = t], cfds' = c2
  PROVE  RowsOK' /\ (RowsAreOwn' => RowsAreOwn)
<1>1. eth' = [j \in Conns |-> eth'[j]] /\ \A j \in Conns : eth'[j] = IF j = i THEN t ELSE eth[j]
  BY DEF RowsOK
<1>2. Len(cfds) \in Nat
  BY LenProperties DEF RowsOK, IsRows
<1>3. \A j \in Conns : eth'[j].pos \in 0 .. Len(c2)
  BY <1>1, <1>2 DEF RowsOK, RowsStep
<1>4. ASSUME NEW p \in 1 .. Len(c2) PROVE \E j \in Conns : eth'[j].pos = p
  <2>1. CASE p = t.pos
    BY <1>1, <2>1
  <2>2. CASE p # t.pos
    <3>1. p \in 1 .. Len(cfds)
      BY <1>2, <2>2 DEF RowsStep
    <3>2. PICK j \in Conns : eth[j].pos = p
      BY <3>1 DEF RowsOK
    <3>3. j # i
      BY <2>2, <3>1, <3>2 DEF RowsStep
    <3> QED
      BY <1>1, <3>2, <3>3
  <2> QED
    BY <2>1, <2>2
<1>5. RowsOK'
  BY <1>1, <1>3, <1>4 DEF RowsOK, RowsStep
<1>6. RowsAreOwn' => RowsAreOwn
  <2>1. \A j \in Conns : eth[j].pos # 0 => eth'[j].pos = eth[j].pos
    BY <1>1 DEF RowsStep
  <2> QED
    BY <2>1 DEF RowsAreOwn
<1> QED
  BY <1>5, <1>6

(* Nobody else arrives or is accepted.                                     *)
Around(n, n2, i) ==
  \A j \in Conns \ {i} :
    /\ Queued(n2.backlog, Client(j)) <=> Queued(n.backlog, Client(j))
    /\ n2.sock[Client(j)].end = "none" <=> n.sock[Client(j)].end = "none"

Own(n2, i, t, b2) == /\ KernelOK(n2) /\ Others(n2.fds) = {} /\ Touches(net, n2, {i})
                     /\ OwnNumber(n2, i, t, b2)

LEMMA EchoStep ==
  ASSUME EchoOK, alive, NEW i \in Conns, NEW n2, NEW t, NEW c2, NEW b2,
         net' = n2, alive' = alive, eth' = [eth EXCEPT ![i] = t], cfds' = c2, accepting' = b2,
         RowsStep(i, t, c2), IsNet(n2), QueueOK(n2.backlog), Around(net, n2, i),
         b2 = accepting \/ (b2 \in {i, Nobody} /\ accepting \in {i, Nobody}),
         EchoThreadOK(n2, i, t, b2),
         RowsAreOwn' /\ RowsAreOwn => Own(n2, i, t, b2) /\ (t.pc = "recv" => t.on = Client(i))
  PROVE  EchoOK'
<1>1. RowsOK' /\ (RowsAreOwn' => RowsAreOwn)
  BY RowsKept DEF EchoOK
<1>2. \A j \in Conns : eth'[j] = IF j = i THEN t ELSE eth[j]
  BY DEF EchoOK, RowsOK
<1>3. b2 \in Conns \cup {Nobody} /\ \A j \in Conns : j # i => (b2 = j <=> accepting = j)
  BY EndsFacts DEF EchoOK
<1>4. ASSUME NEW j \in Conns PROVE EchoThreadOK(n2, j, eth'[j], b2)
  <2>1. CASE j = i
    BY <1>2, <2>1
  <2>2. CASE j # i
    <3>1. eth'[j] = eth[j] /\ EchoThreadOK(net, j, eth[j], accepting)
      BY <1>2, <2>2 DEF EchoOK
    <3> QED
      BY <1>3, <2>2, <3>1 DEF EchoThreadOK, Around
  <2> QED
    BY <2>1, <2>2
<1>5. ASSUME RowsAreOwn'
      PROVE  /\ OwnNumbers'
             /\ \A j \in Conns : eth'[j].pc = "recv" => eth'[j].on = Client(j)
             /\ \A j \in Conns : HasNumber(eth'[j])
  <2>1. RowsAreOwn /\ OwnNumbers /\ Own(n2, i, t, b2) /\ (t.pc = "recv" => t.on = Client(i))
    BY <1>1, <1>5 DEF EchoOK
  <2>2. ASSUME NEW j \in Conns PROVE OwnNumber(n2, j, eth'[j], b2)
    <3>1. CASE j = i
      BY <1>2, <2>1, <3>1 DEF Own
    <3>2. CASE j # i
      <4>1. eth'[j] = eth[j] /\ OwnNumber(net, j, eth[j], accepting) /\ (b2 = j <=> accepting = j)
        BY <1>2, <1>3, <2>1, <3>2 DEF OwnNumbers
      <4>2. \A f \in 1 .. MaxFd : net.fds[f] = Client(j) => n2.fds[f] = Client(j)
        BY <2>1, <3>2 DEF Own, Touches
      <4> QED
        BY <4>1, <4>2 DEF OwnNumber
    <3> QED
      BY <3>1, <3>2
  <2>3. OwnNumbers'
    BY <2>1, <2>2 DEF Own, OwnNumbers
  <2>4. \A j \in Conns : eth'[j].pc = "recv" => eth'[j].on = Client(j)
    BY <1>2, <2>1 DEF EchoOK
  <2>5. \A j \in Conns : HasNumber(eth'[j])
    BY <2>2 DEF OwnNumber, HasNumber
  <2> QED
    BY <2>3, <2>4, <2>5
<1> QED
  BY <1>1, <1>3, <1>4, <1>5 DEF EchoOK, HasNumber

(* A thread that only uses its sockets. *)
LEMMA EchoUse ==
  ASSUME EchoOK, alive, NEW i \in Conns, NEW n2, NEW t, NEW c2, Alike(net, n2),
         net' = n2, alive' = alive, eth' = [eth EXCEPT ![i] = t], cfds' = c2, accepting' = accepting,
         RowsStep(i, t, c2), EchoThreadOK(net, i, t, accepting),
         RowsAreOwn' /\ RowsAreOwn =>
           OwnNumber(net, i, t, accepting) /\ (t.pc = "recv" => t.on = Client(i))
  PROVE  EchoOK'
<1>1. IsNet(n2) /\ QueueOK(n2.backlog) /\ n2.backlog = net.backlog /\ n2.fds = net.fds
  BY DEF Alike, EchoOK
<1>2. \A j \in Conns : n2.sock[Client(j)].end = "none" <=> net.sock[Client(j)].end = "none"
  BY EndsFacts DEF Alike
<1>3. Around(net, n2, i) /\ EchoThreadOK(n2, i, t, accepting)
  BY <1>1, <1>2 DEF Around, EchoThreadOK
<1>4. RowsAreOwn' /\ RowsAreOwn => Own(n2, i, t, accepting)
  <2>1. RowsAreOwn => KernelOK(net) /\ Others(net.fds) = {}
    BY DEF EchoOK, OwnNumbers
  <2>2. RowsAreOwn => KernelOK(n2) /\ Others(n2.fds) = {} /\ Touches(net, n2, {i})
    BY <1>1, <2>1, AlikeKernel, AlikeTouches
  <2> QED
    BY <1>1, <2>2 DEF Own, OwnNumber
<1> QED
  BY <1>1, <1>3, <1>4, EchoStep

LEMMA EndKeeps ==
  ASSUME EchoOK, EndProcess
  PROVE  EchoOK'
<1>1. /\ net' = Ended(net) /\ ~alive'
      /\ eth' = eth /\ cfds' = cfds /\ accepting' = accepting
  BY DEF EndProcess, echoVars
<1>2. /\ IsNet(net') /\ net'.backlog = net.backlog /\ \A f \in 1 .. MaxFd : net'.fds[f] = Free
      /\ \A i \in Conns : net'.sock[Client(i)].end = net.sock[Client(i)].end
  BY <1>1, EndedNet, EndsFacts DEF EchoOK
<1>3. \A i \in Conns : EchoThreadOK(net', i, eth[i], accepting)
  BY <1>2 DEF EchoOK, EchoThreadOK
<1> QED
  BY <1>1, <1>2, <1>3 DEF EchoOK, RowsOK, RowsAreOwn, HasNumber

(* The client programs. *)
LEMMA ClientKeeps ==
  ASSUME EchoOK, Alike(net, net'), alive' = alive, eth' = eth, cfds' = cfds, accepting' = accepting
  PROVE  EchoOK'
<1>1. IsNet(net') /\ net'.backlog = net.backlog /\ net'.fds = net.fds
  BY DEF Alike
<1>2. \A i \in Conns : net'.sock[Client(i)].end = "none" <=> net.sock[Client(i)].end = "none"
  BY EndsFacts DEF Alike
<1>3. \A i \in Conns : EchoThreadOK(net', i, eth[i], accepting)
  BY <1>1, <1>2 DEF EchoOK, EchoThreadOK
<1>4. OwnNumbers => OwnNumbers'
  <2>1. KernelOK(net) => KernelOK(net')
    BY AlikeKernel
  <2> QED
    BY <1>1, <2>1 DEF OwnNumbers, OwnNumber
<1> QED
  BY <1>1, <1>3, <1>4 DEF EchoOK, RowsOK, RowsAreOwn, HasNumber

LEMMA ArrivalKeeps ==
  ASSUME EchoOK, NEW i \in Conns, Arrives(i),
         alive' = alive, eth' = eth, cfds' = cfds, accepting' = accepting
  PROVE  EchoOK'
<1> DEFINE s == Client(i)
           b == net.backlog
<1>1. /\ IsNet(net') /\ net'.fds = net.fds /\ net'.backlog = Append(b, s)
      /\ net.sock[s].end = "none" /\ net'.sock[s].end = "open"
      /\ \A u \in Ends \ {s} : net'.sock[u] = net.sock[u]
  BY ArrivalNet DEF EchoOK
<1>2. s \in Clients /\ \A j \in Conns : j # i => Client(j) # s /\ Client(j) \in Ends
  BY EndsFacts
<1>3. ~Queued(b, s) /\ eth[i].pc = "none" /\ accepting # i
  <2>1. EchoThreadOK(net, i, eth[i], accepting)
    BY DEF EchoOK
  <2> QED
    BY <1>1, <2>1 DEF EchoThreadOK
<1>4. QueueOK(b)
  BY DEF EchoOK
<1> HIDE DEF s, b
<1>5. QueueOK(Append(b, s)) /\ \A u : Queued(Append(b, s), u) <=> Queued(b, u) \/ u = s
  BY <1>2, <1>3, <1>4, LastJoins
<1>6. ASSUME NEW j \in Conns PROVE EchoThreadOK(net', j, eth[j], accepting)
  <2>1. EchoThreadOK(net, j, eth[j], accepting)
    BY DEF EchoOK
  <2>2. CASE j = i
    BY <1>1, <1>3, <2>1, <2>2 DEF EchoThreadOK, s
  <2>3. CASE j # i
    BY <1>1, <1>2, <1>5, <2>1, <2>3 DEF EchoThreadOK, b
  <2> QED
    BY <2>2, <2>3
<1>7. OwnNumbers => OwnNumbers'
  <2>1. KernelOK(net) => KernelOK(net')
    BY ArrivalKernel
  <2> QED
    BY <1>1, <2>1 DEF OwnNumbers, OwnNumber
<1> QED
  BY <1>1, <1>5, <1>6, <1>7 DEF EchoOK, RowsOK, RowsAreOwn, HasNumber

(* A thread that goes on and keeps its number and its row.                 *)
LEMMA EchoMove ==
  ASSUME EchoOK, alive, NEW i \in Conns, NEW n2, NEW t, NEW c2, Alike(net, n2),
         net' = n2, alive' = alive, eth' = [eth EXCEPT ![i] = t], cfds' = c2, accepting' = accepting,
         IsRows(c2), Len(c2) = Len(cfds),
         IsEchoThread(t), t.pc \in EchoPcs, t.fd = eth[i].fd, t.pos = eth[i].pos,
         eth[i].pc # "none", t.pc \notin {"clear", "done"} => eth[i].pc \notin {"clear", "done"},
         t.pc \in {"key", "iv", "add"} => eth[i].pc \in {"key", "iv", "add"}, t.pc # "none",
         RowsAreOwn /\ t.pc = "recv" => t.on = Client(i)
  PROVE  EchoOK'
<1>1. EchoThreadOK(net, i, eth[i], accepting) /\ RowsOK
  BY DEF EchoOK
<1>2. EchoThreadOK(net, i, t, accepting)
  BY <1>1 DEF EchoThreadOK
<1>3. RowsStep(i, t, c2)
  <2>1. eth[i].pos \in 0 .. Len(cfds) /\ Len(cfds) \in Nat
    BY <1>1, LenProperties DEF RowsOK, IsRows
  <2> QED
    BY <2>1 DEF RowsStep
<1>4. RowsAreOwn => OwnNumber(net, i, t, accepting)
  <2>1. RowsAreOwn => OwnNumber(net, i, eth[i], accepting)
    BY DEF EchoOK, OwnNumbers
  <2>2. accepting # i
    BY <1>1 DEF EchoThreadOK
  <2> QED
    BY <2>1, <2>2 DEF OwnNumber
<1> QED
  BY <1>2, <1>3, <1>4, EchoUse

(* What a thread's step leaves alone. *)
LEMMA PcOnly ==
  ASSUME EchoOK, alive, NEW i \in Conns, NEW pc, ThenAt(i, pc), Alike(net, net'),
         IsRows(cfds'), Len(cfds') = Len(cfds),
         pc \in EchoPcs, pc \notin {"none", "recv"},
         eth[i].pc # "none", pc \notin {"clear", "done"} => eth[i].pc \notin {"clear", "done"},
         pc \in {"key", "iv", "add"} => eth[i].pc \in {"key", "iv", "add"}
  PROVE  EchoOK'
<1>0. IsEchoThread(eth[i])
  BY DEF EchoOK, EchoThreadOK
<1>1. PICK t : /\ t = [eth[i] EXCEPT !.pc = pc] /\ eth' = [eth EXCEPT ![i] = t]
  BY DEF ThenAt, Then
<1>2. IsEchoThread(t) /\ t.pc = pc /\ t.fd = eth[i].fd /\ t.pos = eth[i].pos
  <2>1. PICK o : o = eth[i]
    OBVIOUS
  <2>2. IsEchoThread(o) /\ t = [o EXCEPT !.pc = pc]
    BY <1>0, <1>1, <2>1
  <2>3. IsEchoThread(t) /\ t.pc = pc /\ t.fd = o.fd /\ t.pos = o.pos
    BY <2>2, EchoPc
  <2> QED
    BY <2>1, <2>3
<1>3. alive' = alive /\ accepting' = accepting
  BY DEF ThenAt, Then
<1>4. PICK n2, c2 : net' = n2 /\ cfds' = c2
  OBVIOUS
<1> QED
  BY <1>1, <1>2, <1>3, <1>4, EchoMove

LEMMA CfdsAreRows ==
  ASSUME EchoOK
  PROVE  IsRows(cfds) /\ IsNet(net) /\ Alike(net, net)
BY AlikeSelf DEF EchoOK, RowsOK

LEMMA BeginStep ==
  ASSUME EchoOK, NEW i \in Conns, BeginRecv(i, "recv")
  PROVE  EchoOK'
<1> DEFINE s == net.fds[eth[i].fd]
           u == [eth[i] EXCEPT !.pc = "recv"]
           t == [u EXCEPT !.on = s]
<1>0. IsEchoThread(eth[i]) /\ eth[i].pc = "loop" /\ alive /\ net' = net /\ cfds' = cfds
  BY DEF EchoOK, EchoThreadOK, BeginRecv, In
<1>1. eth' = [eth EXCEPT ![i] = t] /\ alive' = alive /\ accepting' = accepting
  BY DEF BeginRecv, Then
<1>2. IsEchoThread(u) /\ u.pc = "recv" /\ u.fd = eth[i].fd /\ u.pos = eth[i].pos
  <2>1. IsEchoThread(eth[i])
    BY <1>0
  <2> QED
    BY <2>1, EchoPc
<1>3. RowsAreOwn => s = Client(i)
  BY <1>0 DEF EchoOK, OwnNumbers, OwnNumber
<1> HIDE DEF u, s
<1>4. IsEchoThread(t) /\ t.pc = u.pc /\ t.fd = u.fd /\ t.pos = u.pos /\ t.on = s
  BY <1>2, EchoOn
<1> HIDE DEF t
<1>5. t.pc \in EchoPcs
  BY <1>2, <1>4 DEF EchoPcs
<1> QED
  BY <1>0, <1>1, <1>2, <1>3, <1>4, <1>5, CfdsAreRows, EchoMove

LEMMA GotMessageStep ==
  ASSUME EchoOK, NEW i \in Conns, NEW next \in {"count", "loop"}, GotMessage(i, next)
  PROVE  EchoOK'
<1>1. alive /\ eth[i].pc = "recv" /\ cfds' = cfds
  BY DEF GotMessage, Recv, In
<1>2. PICK pc \in {"close", "count", "loop"} : ThenAt(i, pc)
  BY DEF GotMessage
<1>3. Alike(net, net')
  BY CfdsAreRows, CallsAlike DEF GotMessage
<1> QED
  BY <1>1, <1>2, <1>3, CfdsAreRows, PcOnly DEF EchoPcs

LEMMA ReadCountsStep ==
  ASSUME EchoOK, NEW i \in Conns, ReadCounts(i)
  PROVE  EchoOK'
<1> DEFINE u == [eth[i] EXCEPT !.pc = "send"]
           x == cfds[eth[i].pos].count
           v == [u EXCEPT !.users = x]
           t == [v EXCEPT !.total = total_echo]
<1>0. IsEchoThread(eth[i]) /\ eth[i].pc = "read" /\ alive /\ net' = net /\ cfds' = cfds
  BY DEF EchoOK, EchoThreadOK, ReadCounts, In
<1>1. eth' = [eth EXCEPT ![i] = t] /\ alive' = alive /\ accepting' = accepting
  BY DEF ReadCounts, Then
<1>2. IsEchoThread(u) /\ u.pc = "send" /\ u.fd = eth[i].fd /\ u.pos = eth[i].pos
  <2>1. IsEchoThread(eth[i])
    BY <1>0
  <2> QED
    BY <2>1, EchoPc
<1> HIDE DEF u, x
<1>3. IsEchoThread(v) /\ v.pc = u.pc /\ v.fd = u.fd /\ v.pos = u.pos
  BY <1>2, EchoUsers
<1> HIDE DEF v
<1>4. IsEchoThread(t) /\ t.pc = v.pc /\ t.fd = v.fd /\ t.pos = v.pos
  BY <1>3, EchoTotal
<1> HIDE DEF t
<1>5. t.pc \in EchoPcs /\ t.pc = "send"
  BY <1>2, <1>3, <1>4 DEF EchoPcs
<1> QED
  BY <1>0, <1>1, <1>2, <1>3, <1>4, <1>5, CfdsAreRows, EchoMove

(* The steps that change the thread's place in the code, its row, or the   *)
(* socket that it is called about.                                         *)
LEMMA PlainSteps ==
  ASSUME EchoOK, NEW i \in Conns,
         \/ GotEnd(i) \/ ClearRow(i) \/ Count(i) \/ SendAnswer(i)
         \/ TlsGotEnd(i) \/ TlsGotError(i) \/ ReadKey(i)
  PROVE  EchoOK'
<1>1. CASE GotEnd(i)
  <2>1. alive /\ eth[i].pc = "recv" /\ ThenAt(i, "close") /\ net' = net /\ cfds' = cfds
    BY <1>1 DEF GotEnd, Recv, In
  <2> QED
    BY <2>1, CfdsAreRows, PcOnly DEF EchoPcs
<1>2. CASE ClearRow(i)
  <2>1. alive /\ eth[i].pc = "clear" /\ ThenAt(i, "done") /\ net' = net
    BY <1>2 DEF ClearRow, ClearedRow, In
  <2>2. PICK p, v : cfds' = [cfds EXCEPT ![p] = v]
    BY <1>2 DEF ClearRow, ClearedRow
  <2>3. IsRows(cfds') /\ Len(cfds') = Len(cfds)
    BY <2>2, CfdsAreRows, RowReplaced
  <2> QED
    BY <2>1, <2>3, CfdsAreRows, PcOnly DEF EchoPcs
<1>3. CASE Count(i)
  <2>1. alive /\ eth[i].pc = "count" /\ ThenAt(i, "read") /\ net' = net
    BY <1>3 DEF Count, In
  <2>2. PICK p, v : cfds' = [cfds EXCEPT ![p] = v]
    BY <1>3 DEF Count
  <2>3. IsRows(cfds') /\ Len(cfds') = Len(cfds)
    BY <2>2, CfdsAreRows, RowReplaced
  <2> QED
    BY <2>1, <2>3, CfdsAreRows, PcOnly DEF EchoPcs
<1>4. CASE SendAnswer(i)
  <2>1. PICK r \in send(net, eth[i].fd, pack_server_data(i)) :
          EndProcess \/ (net' = r.net /\ ThenAt(i, "loop") /\ cfds' = cfds)
    BY <1>4 DEF SendAnswer
  <2>2. Alike(net, r.net) /\ alive /\ eth[i].pc = "send"
    BY <1>4, CfdsAreRows, SendAlike DEF SendAnswer, In
  <2>3. CASE EndProcess
    BY <2>3, EndKeeps
  <2>4. CASE net' = r.net /\ ThenAt(i, "loop") /\ cfds' = cfds
    BY <2>2, <2>4, CfdsAreRows, PcOnly DEF EchoPcs
  <2> QED
    BY <2>1, <2>3, <2>4
<1>5. CASE TlsGotEnd(i)
  <2>1. alive /\ eth[i].pc = "recv" /\ ThenAt(i, "close") /\ net' = net /\ cfds' = cfds
    BY <1>5 DEF TlsGotEnd, TlsEnds, Recv, In
  <2> QED
    BY <2>1, CfdsAreRows, PcOnly DEF EchoPcs
<1>6. CASE TlsGotError(i)
  <2>1. alive /\ eth[i].pc \in {"recv", "loop"} /\ ThenAt(i, "done") /\ net' = net /\ cfds' = cfds
    BY <1>6 DEF TlsGotError, TlsFails, Recv, In
  <2> QED
    BY <2>1, CfdsAreRows, PcOnly DEF EchoPcs
<1>7. CASE ReadKey(i)
  <2>1. PICK pc \in {"key", "iv"} :
          /\ In(i, pc) /\ ThenAt(i, [key |-> "iv", iv |-> "add"][pc]) /\ cfds' = cfds
          /\ net' = net \/ \E s : net' = Taken(net, s)
    BY <1>7 DEF ReadKey
  <2>2. Alike(net, net')
    BY <2>1, CfdsAreRows, CallsAlike
  <2>3. PICK next \in {"iv", "add"} : ThenAt(i, next)
    BY <2>1
  <2> QED
    BY <2>1, <2>2, <2>3, CfdsAreRows, PcOnly DEF EchoPcs, In
<1> QED
  BY <1>1, <1>2, <1>3, <1>4, <1>5, <1>6, <1>7

LEMMA CloseStep ==
  ASSUME EchoOK, alive, NEW i \in Conns, eth[i].pc = "close",
         net' = close(net, eth[i].fd), ThenAt(i, "clear"), cfds' = cfds
  PROVE  EchoOK'
<1> DEFINE f == eth[i].fd
           n2 == close(net, f)
<1>0. PICK t : t = [eth[i] EXCEPT !.pc = "clear"] /\ eth' = [eth EXCEPT ![i] = t]
  BY DEF ThenAt, Then
<1>1. /\ EchoThreadOK(net, i, eth[i], accepting) /\ IsEchoThread(eth[i]) /\ RowsOK /\ IsNet(net)
      /\ QueueOK(net.backlog) /\ alive' = alive /\ accepting' = accepting
  BY DEF EchoOK, EchoThreadOK, ThenAt, Then
<1>2. IsEchoThread(t) /\ t.pc = "clear" /\ t.fd = f /\ t.pos = eth[i].pos
  <2>1. PICK o : o = eth[i]
    OBVIOUS
  <2>2. IsEchoThread(o) /\ t = [o EXCEPT !.pc = "clear"]
    BY <1>0, <1>1, <2>1
  <2>3. IsEchoThread(t) /\ t.pc = "clear" /\ t.fd = o.fd /\ t.pos = o.pos
    BY <2>2, EchoPc
  <2> QED
    BY <2>1, <2>3
<1> HIDE DEF n2, f
<1>3. IsNet(n2) /\ n2.backlog = net.backlog /\ \A s \in Ends : n2.sock[s].end = net.sock[s].end
  BY <1>1, CloseNet DEF n2
<1>4. \A j \in Conns : n2.sock[Client(j)].end = net.sock[Client(j)].end
  BY <1>3, EndsFacts
<1>5. Around(net, n2, i) /\ EchoThreadOK(n2, i, t, accepting) /\ accepting # i
  BY <1>1, <1>2, <1>3, <1>4 DEF Around, EchoThreadOK, EchoPcs
<1>6. RowsStep(i, t, cfds)
  <2>1. eth[i].pos \in 0 .. Len(cfds) /\ Len(cfds) \in Nat
    BY <1>1, LenProperties DEF RowsOK, IsRows
  <2> QED
    BY <1>1, <1>2, <2>1 DEF RowsStep, RowsOK
<1>7. RowsAreOwn => Own(n2, i, t, accepting)
  <2>1. SUFFICES ASSUME RowsAreOwn PROVE Own(n2, i, t, accepting)
    OBVIOUS
  <2>2. KernelOK(net) /\ Others(net.fds) = {} /\ f \in 1 .. MaxFd /\ net.fds[f] = Client(i)
    BY <2>1 DEF EchoOK, OwnNumbers, OwnNumber, f
  <2>3. Moved(net, n2, f, Free)
    <3>1. IsOpen(net, f)
      BY <2>2, EndsFacts DEF IsOpen
    <3> QED
      BY <2>2, <3>1, CloseFrees DEF n2
  <2>4. Touches(net, n2, {i}) /\ Others(n2.fds) = {}
    BY <2>2, <2>3, MoveTouches
  <2>5. OwnNumber(n2, i, t, accepting)
    BY <1>2, <1>5 DEF OwnNumber
  <2> QED
    BY <2>3, <2>4, <2>5 DEF Moved, Own
<1>8. net' = n2
  BY DEF n2, f
<1>9. PICK m, b2, c2 : m = n2 /\ b2 = accepting /\ c2 = cfds
  OBVIOUS
<1> QED
  BY <1>0, <1>1, <1>2, <1>3, <1>5, <1>6, <1>7, <1>8, <1>9, EchoStep

(* A row for a thread that has none: a new one, or another's.              *)
LEMMA RowStep ==
  ASSUME EchoOK, NEW i \in Conns, addOrUpdateUser(i) \/ tls_addOrUpdateUser(i)
  PROVE  EchoOK'
<1>1. /\ EchoThreadOK(net, i, eth[i], accepting) /\ IsEchoThread(eth[i]) /\ RowsOK /\ IsNet(net)
      /\ QueueOK(net.backlog) /\ alive /\ eth[i].pc = "add" /\ eth[i].pos = 0 /\ accepting # i
  BY DEF EchoOK, EchoThreadOK, addOrUpdateUser, tls_addOrUpdateUser, In
<1>2. IsRows(cfds) /\ Len(cfds) \in Nat
  BY <1>1, LenProperties DEF RowsOK, IsRows
<1>3. ASSUME NEW p PROVE \A t : t = [eth[i] EXCEPT !.pc = "loop", !.pos = p] =>
          IsEchoThread(t) /\ t.pc = "loop" /\ t.fd = eth[i].fd /\ t.pos = p
  <2>1. SUFFICES ASSUME NEW t, t = [eth[i] EXCEPT !.pc = "loop", !.pos = p]
                 PROVE  IsEchoThread(t) /\ t.pc = "loop" /\ t.fd = eth[i].fd /\ t.pos = p
    OBVIOUS
  <2>2. PICK o : o = eth[i]
    OBVIOUS
  <2> DEFINE u == [o EXCEPT !.pc = "loop"]
  <2>3. IsEchoThread(u) /\ u.pc = "loop" /\ u.fd = o.fd
    <3>1. IsEchoThread(o)
      BY <1>1, <2>2
    <3> QED
      BY <3>1, EchoPc
  <2>4. t = [u EXCEPT !.pos = p]
    BY <2>1, <2>2
  <2> HIDE DEF u
  <2>5. IsEchoThread(t) /\ t.pc = u.pc /\ t.fd = u.fd /\ t.pos = p
    BY <2>3, <2>4, EchoPos
  <2> QED
    BY <2>2, <2>3, <2>5
<1>4. CASE Found(i) = {} \/ tls_addOrUpdateUser(i)
  <2>1. PICK t, c2, v :
          /\ t = [eth[i] EXCEPT !.pc = "loop", !.pos = Len(cfds) + 1] /\ c2 = Append(cfds, v)
          /\ eth' = [eth EXCEPT ![i] = t] /\ cfds' = c2
          /\ net' = net /\ alive' = alive /\ accepting' = accepting
    <3>1. CASE tls_addOrUpdateUser(i)
      <4>1. Len(Rows(i)) = Len(cfds) + 1
        BY <1>2, RowAdded DEF Rows
      <4> QED
        BY <3>1, <4>1 DEF tls_addOrUpdateUser, Rows, Then
    <3>2. CASE addOrUpdateUser(i) /\ Found(i) = {}
      BY <3>2 DEF addOrUpdateUser, Then
    <3> QED
      BY <1>4, <3>1, <3>2
  <2>2. IsEchoThread(t) /\ t.pc = "loop" /\ t.fd = eth[i].fd /\ t.pos = Len(cfds) + 1
    BY <1>3, <2>1
  <2>3. RowsStep(i, t, c2)
    <3>1. IsRows(c2) /\ Len(c2) = Len(cfds) + 1
      BY <1>2, <2>1, RowAdded
    <3> QED
      BY <1>1, <1>2, <2>2, <3>1 DEF RowsStep
  <2>4. EchoThreadOK(net, i, t, accepting)
    BY <1>1, <2>2 DEF EchoThreadOK, EchoPcs
  <2>5. RowsAreOwn => OwnNumber(net, i, t, accepting)
    BY <1>1, <2>2 DEF EchoOK, OwnNumbers, OwnNumber
  <2>6. PICK n2 : n2 = net
    OBVIOUS
  <2> QED
    BY <1>1, <2>1, <2>2, <2>3, <2>4, <2>5, <2>6, CfdsAreRows, EchoUse
<1>5. CASE Found(i) # {} /\ addOrUpdateUser(i)
  <2> DEFINE q == CHOOSE q \in Found(i) : \A r \in Found(i) : q <= r
             n1 == shutdown_rd(shutdown_wr(net, cfds[q].fd), cfds[q].fd)
  <2>1. PICK p, c2, v, t, n2 :
          /\ p = q /\ c2 = [cfds EXCEPT ![p] = v] /\ cfds' = c2
          /\ n2 = close(n1, cfds[q].fd) /\ net' = n2
          /\ t = [eth[i] EXCEPT !.pc = "loop", !.pos = p]
          /\ eth' = [eth EXCEPT ![i] = t] /\ alive' = alive /\ accepting' = accepting
    <3>1. /\ cfds' = [cfds EXCEPT ![q] = Updated(i, q)] /\ net' = close(n1, cfds[q].fd)
          /\ Then(i, [eth[i] EXCEPT !.pc = "loop", !.pos = q])
      BY <1>5 DEF addOrUpdateUser
    <3> HIDE DEF q, n1
    <3>2. PICK t : t = [eth[i] EXCEPT !.pc = "loop", !.pos = q]
      OBVIOUS
    <3>3. eth' = [eth EXCEPT ![i] = t] /\ alive' = alive /\ accepting' = accepting
      BY <3>1, <3>2 DEF Then
    <3> QED
      BY <3>1, <3>2, <3>3
  <2>2. p \in 1 .. Len(cfds)
    <3>1. Found(i) \subseteq 1 .. Len(cfds)
      BY <1>2, LenProperties DEF Found, IsRows
    <3>2. Found(i) # {} /\ Found(i) \in SUBSET Nat
      BY <1>2, <1>5, <3>1
    <3>3. \E k \in Found(i) : \A r \in Found(i) : k <= r
      BY <3>2, Least
    <3>4. q \in Found(i)
      BY <3>3
    <3> QED
      BY <2>1, <3>1, <3>4
  <2>3. PICK j \in Conns : eth[j].pos = p
    BY <1>1, <2>2 DEF RowsOK
  <2>4. IsEchoThread(t) /\ t.pc = "loop" /\ t.fd = eth[i].fd /\ t.pos = p
    BY <1>3, <2>1
  <2>5. ~RowsAreOwn'
    <3>1. j # i /\ p # 0
      BY <1>1, <1>2, <2>2, <2>3
    <3>2. eth'[i] = t /\ eth'[j] = eth[j]
      BY <1>1, <2>1, <3>1 DEF RowsOK
    <3> QED
      BY <2>3, <2>4, <3>1, <3>2 DEF RowsAreOwn
  <2>6. Alike(net, n1)
    <3>1. PICK f, m : f = cfds[q].fd /\ m = shutdown_wr(net, f)
      OBVIOUS
    <3>2. Alike(net, m)
      BY <1>1, <3>1, CallsAlike
    <3>3. IsNet(m)
      BY <3>2 DEF Alike
    <3>4. Alike(m, shutdown_rd(m, f))
      BY <3>3, CallsAlike
    <3>5. n1 = shutdown_rd(m, f)
      BY <3>1
    <3> HIDE DEF n1, q
    <3> QED
      BY <3>2, <3>4, <3>5, AlikeAgain
  <2> HIDE DEF n1, q
  <2>7. /\ IsNet(n2) /\ n2.backlog = net.backlog
        /\ \A k \in Conns : n2.sock[Client(k)].end = "none" <=> net.sock[Client(k)].end = "none"
    <3>1. IsNet(n1)
      BY <2>6 DEF Alike
    <3>2. /\ IsNet(n2) /\ n2.backlog = n1.backlog
          /\ \A s \in Ends : n2.sock[s].end = n1.sock[s].end
      BY <2>1, <3>1, CloseNet
    <3>3. n1.backlog = net.backlog /\ \A s \in Ends : n1.sock[s].end = "none" <=> net.sock[s].end = "none"
      BY <2>6 DEF Alike
    <3>4. \A k \in Conns : Client(k) \in Ends
      BY EndsFacts
    <3> QED
      BY <3>2, <3>3, <3>4
  <2>8. Around(net, n2, i) /\ EchoThreadOK(n2, i, t, accepting)
    BY <1>1, <2>4, <2>7 DEF Around, EchoThreadOK, EchoPcs
  <2>9. RowsStep(i, t, c2)
    <3>1. IsRows(c2) /\ Len(c2) = Len(cfds)
      BY <1>2, <2>1, RowReplaced
    <3> QED
      BY <1>1, <1>2, <2>2, <2>4, <3>1 DEF RowsStep
  <2>10. PICK b2 : b2 = accepting
    OBVIOUS
  <2> QED
    BY <1>1, <2>1, <2>5, <2>7, <2>8, <2>9, <2>10, EchoStep
<1> QED
  BY <1>4, <1>5

LEMMA AcceptKeeps ==
  ASSUME EchoOK, alive, net.backlog # <<>>, NEW i, i = Head(net.backlog)[1], NEW t, NEW b2,
         net' = accept(net), eth' = [eth EXCEPT ![i] = t], IsEchoThread(t),
         t.fd = Lowest(net), t.pos = 0, alive' = alive, cfds' = cfds, accepting' = b2,
         \/ b2 = accepting /\ t.pc \in {"key", "add"}
         \/ b2 = i /\ accepting = Nobody /\ t.pc = "none"
  PROVE  EchoOK'
<1> DEFINE c == Head(net.backlog)
           f == Lowest(net)
<1>1. PICK n2 : n2 = accept(net)
  OBVIOUS
<1>2. QueueOK(net.backlog) /\ RowsOK /\ IsNet(net)
  BY DEF EchoOK
<1>3. /\ c \in Clients /\ Queued(net.backlog, c) /\ QueueOK(Tail(net.backlog))
      /\ \A s : Queued(Tail(net.backlog), s) <=> Queued(net.backlog, s) /\ s # c
  BY <1>2, FirstLeaves
<1>4. i \in Conns /\ c = Client(i) /\ \A j \in Conns : j # i => Client(j) # c
  BY <1>3, EndsFacts
<1>5. IsNet(n2) /\ n2.sock = net.sock /\ n2.backlog = Tail(net.backlog)
  BY <1>1, <1>2, AcceptNet
<1>6. EchoThreadOK(net, i, eth[i], accepting)
  BY <1>4 DEF EchoOK
<1> HIDE DEF c, f
<1>7. eth[i].pc = "none" /\ eth[i].pos = 0 /\ accepting # i /\ net.sock[Client(i)].end # "none"
  BY <1>3, <1>4, <1>6 DEF EchoThreadOK
<1>8. Around(net, n2, i)
  BY <1>3, <1>4, <1>5 DEF Around
<1>9. EchoThreadOK(n2, i, t, b2)
  BY <1>3, <1>4, <1>5, <1>7 DEF EchoThreadOK, EchoPcs
<1>10. RowsStep(i, t, cfds)
  <2>1. Len(cfds) \in Nat
    BY <1>2, LenProperties DEF RowsOK, IsRows
  <2> QED
    BY <1>2, <1>7, <2>1 DEF RowsStep, RowsOK
<1>11. RowsAreOwn => Own(n2, i, t, b2)
  <2>1. SUFFICES ASSUME RowsAreOwn PROVE Own(n2, i, t, b2)
    OBVIOUS
  <2>2. KernelOK(net) /\ Others(net.fds) = {}
    BY <2>1 DEF EchoOK, OwnNumbers
  <2>3. Cardinality(Others(net.fds)) <= N - 1
    BY <2>2, FS_EmptySet, TcpAssumption
  <2>4. Accepted(net, n2, f, c)
    BY <1>1, <2>2, <2>3, AcceptTakesFirst DEF c, f
  <2>5. Touches(net, n2, {c[1]}) /\ Others(n2.fds) \subseteq Others(net.fds)
    BY <2>4, AcceptTouches
  <2>6. c[1] = i /\ Others(n2.fds) = {}
    BY <2>2, <2>5 DEF c
  <2>7. KernelOK(n2) /\ f \in 1 .. MaxFd /\ n2.fds[f] = Client(i)
    BY <1>4, <2>4 DEF Accepted, Placed
  <2>8. OwnNumber(n2, i, t, b2)
    BY <2>7 DEF OwnNumber, f
  <2> QED
    BY <2>5, <2>6, <2>7, <2>8 DEF Own
<1>12. PICK c2 : c2 = cfds
  OBVIOUS
<1> QED
  BY <1>1, <1>3, <1>4, <1>5, <1>7, <1>8, <1>9, <1>10, <1>11, <1>12, EchoStep

LEMMA NewThreadKeeps ==
  ASSUME EchoOK, NEW pc \in {"key", "add"}, alive, net.backlog # <<>>,
         net' = accept(net), NewThread(Head(net.backlog)[1], pc),
         alive' = alive, cfds' = cfds, accepting' = accepting
  PROVE  EchoOK'
<1> DEFINE u == [NoThread EXCEPT !.pc = pc]
<1>1. PICK i, f, t, b2 : /\ i = Head(net.backlog)[1] /\ f = Lowest(net) /\ b2 = accepting
                         /\ t = [NoThread EXCEPT !.pc = pc, !.fd = f]
                         /\ eth' = [eth EXCEPT ![i] = t]
  BY DEF NewThread
<1>2. IsEchoThread(u) /\ u.pc = pc /\ u.pos = 0
  <2>1. IsEchoThread(NoThread) /\ NoThread.pos = 0
    BY DEF NoThread, IsEchoThread
  <2> QED
    BY <2>1, EchoPc
<1>3. t = [u EXCEPT !.fd = f]
  BY <1>1
<1> HIDE DEF u
<1>4. IsEchoThread(t) /\ t.pc = u.pc /\ t.fd = f /\ t.pos = u.pos
  BY <1>2, <1>3, EchoFd
<1> QED
  BY <1>1, <1>2, <1>4, AcceptKeeps

LEMMA TlsAcceptKeeps ==
  ASSUME EchoOK, TlsAccept
  PROVE  EchoOK'
<1>1. PICK i, f, t : /\ i = Head(net.backlog)[1] /\ f = Lowest(net) /\ accepting' = i
                     /\ t = [eth[i] EXCEPT !.fd = f] /\ eth' = [eth EXCEPT ![i] = t]
  BY DEF TlsAccept
<1>2. QueueOK(net.backlog) /\ net.backlog # <<>>
  BY DEF EchoOK, TlsAccept
<1>3. i \in Conns /\ Queued(net.backlog, Client(i))
  <2>1. Head(net.backlog) \in Clients /\ Queued(net.backlog, Head(net.backlog))
    BY <1>2, FirstLeaves
  <2> QED
    BY <1>1, <2>1, EndsFacts
<1>4. IsEchoThread(eth[i]) /\ eth[i].pc = "none" /\ eth[i].pos = 0
  BY <1>3 DEF EchoOK, EchoThreadOK
<1>5. IsEchoThread(t) /\ t.pc = "none" /\ t.fd = f /\ t.pos = 0
  <2>1. PICK o : o = eth[i]
    OBVIOUS
  <2>2. IsEchoThread(o) /\ t = [o EXCEPT !.fd = f]
    BY <1>1, <1>4, <2>1
  <2>3. IsEchoThread(t) /\ t.pc = o.pc /\ t.fd = f /\ t.pos = o.pos
    BY <2>2, EchoFd
  <2> QED
    BY <1>4, <2>1, <2>3
<1>6. net' = accept(net) /\ accepting = Nobody /\ alive /\ alive' = alive /\ cfds' = cfds
  BY DEF TlsAccept
<1> QED
  BY <1>1, <1>2, <1>5, <1>6, AcceptKeeps

LEMMA HandshakeKeeps ==
  ASSUME EchoOK, SSL_accept
  PROVE  EchoOK'
<1>0. PICK i, x : i = accepting /\ eth' = [eth EXCEPT ![i].pc = "add", ![i].on = x]
  BY DEF SSL_accept
<1> DEFINE u == [eth[i] EXCEPT !.pc = "add"]
           t == [u EXCEPT !.on = x]
<1>1. i = accepting /\ eth' = [eth EXCEPT ![i] = t]
  BY <1>0 DEF EchoOK, RowsOK
<1>2. /\ i \in Conns /\ alive /\ alive' = alive /\ cfds' = cfds /\ accepting' = Nobody
      /\ net' = net \/ net' = Taken(net, Client(i))
  BY <1>1 DEF SSL_accept, EchoOK
<1>3. /\ EchoThreadOK(net, i, eth[i], accepting) /\ IsEchoThread(eth[i]) /\ RowsOK
      /\ eth[i].pc = "none" /\ eth[i].pos = 0 /\ QueueOK(net.backlog)
  BY <1>1, <1>2 DEF EchoOK, EchoThreadOK
<1>4. IsEchoThread(u) /\ u.pc = "add" /\ u.fd = eth[i].fd /\ u.pos = 0
  <2>1. IsEchoThread(eth[i])
    BY <1>3
  <2>2. IsEchoThread(u) /\ u.pc = "add" /\ u.fd = eth[i].fd /\ u.pos = eth[i].pos
    BY <2>1, EchoPc
  <2> QED
    BY <1>3, <2>2
<1> HIDE DEF u
<1>5. IsEchoThread(t) /\ t.pc = "add" /\ t.fd = eth[i].fd /\ t.pos = 0
  <2>1. IsEchoThread(t) /\ t.pc = u.pc /\ t.fd = u.fd /\ t.pos = u.pos
    BY <1>4, EchoOn
  <2> QED
    BY <1>4, <2>1
<1> HIDE DEF t
<1>6. PICK n2 : n2 = net' /\ Alike(net, n2)
  BY <1>2, CfdsAreRows, CallsAlike
<1>7. IsNet(n2) /\ n2.backlog = net.backlog /\ n2.fds = net.fds
  BY <1>6 DEF Alike
<1>8. \A j \in Conns : n2.sock[Client(j)].end = "none" <=> net.sock[Client(j)].end = "none"
  BY <1>6, EndsFacts DEF Alike
<1>9. Nobody # i
  BY <1>2, EndsFacts
<1>10. Around(net, n2, i) /\ EchoThreadOK(n2, i, t, Nobody)
  <2>1. ~Queued(n2.backlog, Client(i)) /\ n2.sock[Client(i)].end # "none"
    BY <1>1, <1>2, <1>3, <1>7, <1>8 DEF EchoThreadOK
  <2>2. EchoThreadOK(n2, i, t, Nobody)
    BY <1>5, <1>9, <2>1 DEF EchoThreadOK, EchoPcs
  <2>3. Around(net, n2, i)
    BY <1>7, <1>8 DEF Around
  <2> QED
    BY <2>2, <2>3
<1>11. RowsStep(i, t, cfds)
  <2>1. Len(cfds) \in Nat
    BY <1>3, LenProperties DEF RowsOK, IsRows
  <2> QED
    BY <1>3, <1>5, <2>1 DEF RowsStep, RowsOK
<1>12. RowsAreOwn => Own(n2, i, t, Nobody)
  <2>1. SUFFICES ASSUME RowsAreOwn PROVE Own(n2, i, t, Nobody)
    OBVIOUS
  <2>2. KernelOK(net) /\ Others(net.fds) = {} /\ OwnNumber(net, i, eth[i], accepting)
    BY <1>2, <2>1 DEF EchoOK, OwnNumbers
  <2>3. KernelOK(n2) /\ Touches(net, n2, {i})
    BY <1>6, <2>2, AlikeKernel, AlikeTouches
  <2>4. OwnNumber(n2, i, t, Nobody)
    BY <1>1, <1>5, <1>7, <2>2 DEF OwnNumber
  <2> QED
    BY <1>7, <2>2, <2>3, <2>4 DEF Own
<1>13. PICK b2, c2 : b2 = Nobody /\ c2 = cfds
  OBVIOUS
<1> QED
  BY <1>1, <1>2, <1>3, <1>5, <1>6, <1>7, <1>9, <1>10, <1>11, <1>12, <1>13, EchoStep

LEMMA EchoThreadKeeps ==
  ASSUME EchoOK, NEW i \in Conns,
         thread_routene(i) \/ tls_thread_routene(i) \/ aes_thread_routene(i)
  PROVE  EchoOK'
<1>1. CASE addOrUpdateUser(i) \/ tls_addOrUpdateUser(i)
  BY <1>1, RowStep
<1>2. CASE BeginRecv(i, "recv")
  BY <1>2, BeginStep
<1>3. CASE GotMessage(i, "count") \/ AesGotMessage(i)
  BY <1>3, GotMessageStep DEF AesGotMessage
<1>4. CASE GotError(i) \/ SmashedStack(i) \/ (In(i, "add") /\ EndProcess)
  BY <1>4, EndKeeps DEF GotError, SmashedStack
<1>5. CASE CloseOwn(i)
  <2>1. alive /\ eth[i].pc = "close" /\ net' = close(net, eth[i].fd) /\ ThenAt(i, "clear") /\ cfds' = cfds
    BY <1>5 DEF CloseOwn, In
  <2> QED
    BY <2>1, CloseStep
<1>6. CASE TlsClose(i)
  <2>1. EndProcess \/ (net' = close(net, eth[i].fd) /\ ThenAt(i, "clear") /\ cfds' = cfds)
    BY <1>6 DEF TlsClose
  <2>2. alive /\ eth[i].pc = "close"
    BY <1>6 DEF TlsClose, In
  <2> QED
    BY <2>1, <2>2, CloseStep, EndKeeps
<1>7. CASE ReadCounts(i)
  BY <1>7, ReadCountsStep
<1>8. CASE \/ GotEnd(i) \/ ClearRow(i) \/ Count(i) \/ SendAnswer(i)
           \/ TlsGotEnd(i) \/ TlsGotError(i) \/ ReadKey(i)
  BY <1>8, PlainSteps
<1> QED
  BY <1>1, <1>2, <1>3, <1>4, <1>5, <1>6, <1>7, <1>8
     DEF thread_routene, tls_thread_routene, aes_thread_routene, TlsBegin, TlsGotMessage,
         aes_addOrUpdateUser

(* What a client program does to the network. *)
LEMMA ClientPrograms ==
  ASSUME EchoOK, EchoClients \/ TlsClients \/ AesClients
  PROVE  EchoOK'
<1>1. alive' = alive /\ eth' = eth /\ cfds' = cfds /\ accepting' = accepting
  BY DEF EchoClients, TlsClients, AesClients
<1>2. PICK i \in Conns :
        \/ Arrives(i)
        \/ \E m : PeerSends(Client(i), m)
        \/ \E how \in {"fin", "rst"} : PeerEnds(Client(i), how)
        \/ \E x : net' = [net EXCEPT !.sock[Client(i)].out = x]
  <2>1. CASE EchoClients
    BY <2>1 DEF EchoClients, Starts, Crashes, client_main, Exits, GetsAnswer, ClosedRemotely, Asks
  <2>2. CASE TlsClients
    BY <2>2 DEF TlsClients, Starts, Crashes, tls_client_main, SSL_connect, GetsAnswer,
                ClosedRemotely, TlsExits, TlsCloses, Asks
  <2>3. CASE AesClients
    BY <2>3 DEF AesClients, Starts, Crashes, aes_client_main, Introduces, Exits, GetsAnswer,
                ClosedRemotely, Asks
  <2> QED
    BY <2>1, <2>2, <2>3
<1>3. IsNet(net) /\ Client(i) \in Ends
  BY EndsFacts DEF EchoOK
<1>4. CASE Arrives(i)
  BY <1>1, <1>4, ArrivalKeeps
<1>5. CASE ~Arrives(i)
  <2>1. Alike(net, net')
    <3>1. CASE \E m : PeerSends(Client(i), m)
      BY <1>3, <3>1, PeersAlike
    <3>2. CASE \E how \in {"fin", "rst"} : PeerEnds(Client(i), how)
      BY <1>3, <3>2, PeersAlike
    <3>3. CASE \E x : net' = [net EXCEPT !.sock[Client(i)].out = x]
      <4>1. PICK x : net' = [net EXCEPT !.sock[Client(i)].out = x]
        BY <3>3
      <4>2. PICK n, s : n = net /\ s = Client(i)
        OBVIOUS
      <4>3. Alike(n, [n EXCEPT !.sock[s].out = x])
        BY <1>3, <4>2, CallsAlike
      <4> QED
        BY <4>1, <4>2, <4>3
    <3> QED
      BY <1>2, <1>5, <3>1, <3>2, <3>3
  <2> QED
    BY <1>1, <2>1, ClientKeeps
<1> QED
  BY <1>4, <1>5

LEMMA EchoKeeps ==
  ASSUME program \in Programs, EchoInv, Next
  PROVE  EchoInv'
<1>1. CASE program \in {"echo", "tls", "aes"}
  <2>1. (EchoNext \/ TlsNext \/ AesNext) /\ program' = program /\ EchoOK
    BY <1>1 DEF Next, Run, EchoInv
  <2>2. CASE EchoClients \/ TlsClients \/ AesClients
    BY <1>1, <2>1, <2>2, ClientPrograms DEF EchoInv
  <2>3. CASE echo_main \/ aes_main
    <3>1. PICK pc \in {"key", "add"} :
            /\ alive /\ net.backlog # <<>> /\ net' = accept(net)
            /\ NewThread(Head(net.backlog)[1], pc)
            /\ alive' = alive /\ cfds' = cfds /\ accepting' = accepting
      BY <2>3 DEF echo_main, aes_main
    <3> QED
      BY <1>1, <2>1, <3>1, NewThreadKeeps DEF EchoInv
  <2>4. CASE TlsAccept \/ SSL_accept
    BY <1>1, <2>1, <2>4, TlsAcceptKeeps, HandshakeKeeps DEF EchoInv
  <2>5. CASE \E i \in Conns : thread_routene(i) \/ tls_thread_routene(i) \/ aes_thread_routene(i)
    BY <1>1, <2>1, <2>5, EchoThreadKeeps DEF EchoInv
  <2>6. CASE KilledBySSL_accept
    BY <1>1, <2>1, <2>6, EndKeeps DEF EchoInv, KilledBySSL_accept
  <2> QED
    BY <2>1, <2>2, <2>3, <2>4, <2>5, <2>6 DEF EchoNext, TlsNext, AesNext
<1>2. CASE program \notin {"echo", "tls", "aes"}
  <2>1. program' = program /\ eth' = eth
    BY <1>2 DEF Next, Run, echoVars
  <2> QED
    BY <1>2, <2>1 DEF EchoInv
<1> QED
  BY <1>1, <1>2

LEMMA InitialNet ==
  ASSUME TcpInit
  PROVE  KernelOK(net) /\ Others(net.fds) = {} /\ \A s : ~Queued(net.backlog, s)
<1> DEFINE ss == [s \in Ends |-> NewSocket]
           t == [f \in 1 .. MaxFd |-> IF f = 1 THEN Listen ELSE Free]
<1>1. net = [sock |-> ss, fds |-> t, backlog |-> <<>>]
  BY DEF TcpInit
<1>2. IsSocket(NewSocket)
  BY DEF IsSocket, NewSocket
<1>3. ss = [s \in Ends |-> ss[s]] /\ \A s \in Ends : IsSocket(ss[s])
  BY <1>2
<1>4. /\ t \in [1 .. MaxFd -> {Listen, Free}]
      /\ \A f \in 1 .. MaxFd : t[f] = Listen <=> f = 1
  BY EndsFacts
<1> HIDE DEF ss, t
<1>5. IsNet(net) /\ net.fds = t /\ net.backlog = <<>>
  BY <1>1, <1>3, NetMade
<1>6. \A f \in 1 .. MaxFd : t[f] \notin Ends /\ t[f] # Leaked
  BY <1>4, EndsFacts
<1>7. TableOK(t)
  BY <1>4, <1>6 DEF TableOK, Slots
<1>8. Others(t) = {}
  BY <1>6, EndsFacts DEF Others
<1>9. /\ QueueOK(<<>>)
      /\ \A s : ~Queued(<<>>, s)
  BY EmptySeq DEF QueueOK, Queued
<1>10. \A s \in Clients : ~HasFd(t, s)
  BY <1>6, EndsFacts DEF HasFd, Clients
<1>11. BacklogOK(net)
  BY <1>5, <1>9, <1>10 DEF BacklogOK
<1> QED
  BY <1>5, <1>7, <1>8, <1>9, <1>11 DEF KernelOK

LEMMA Initially ==
  ASSUME Init
  PROVE  Inv
<1>1. /\ KernelOK(net) /\ Others(net.fds) = {} /\ \A s : ~Queued(net.backlog, s)
      /\ program \in Programs /\ alive
  BY InitialNet DEF Init, TcpInit
<1>2. /\ th = [i \in Conns |-> Idle] /\ ask = [i \in Conns |-> NoRequest]
      /\ IsThread(Idle) /\ Idle.pc = "idle"
  BY DEF Init, ProxyInit, IsThread, Idle
<1>3. \A i \in Conns : th[i] = Idle
  BY <1>2
<1>4. \A f \in 1 .. MaxFd : net.fds[f] \notin Ends
  <2>1. \A f \in 1 .. MaxFd : \A i \in Conns : net.fds[f] # Server(i)
    BY <1>1 DEF Others
  <2>2. \A f \in 1 .. MaxFd : \A i \in Conns : net.fds[f] # Client(i)
    <3>1. net.fds = [f \in 1 .. MaxFd |-> IF f = 1 THEN Listen ELSE Free]
      BY DEF Init, TcpInit
    <3> QED
      BY <3>1, EndsFacts
  <2> QED
    BY <2>1, <2>2, EndsFacts
<1>5. ThreadedOK
  <2>1. \A i \in Conns : ThreadOK(net, i, th[i], ask[i])
    BY <1>1, <1>2, <1>3, <1>4, EndsFacts DEF ThreadOK, HasFd, Pcs
  <2>2. Cardinality(Others(net.fds)) <= Cardinality(Past)
    <3>1. Cardinality(Others(net.fds)) = 0 /\ Cardinality(Past) \in Nat
      BY <1>1, FS_EmptySet, FiniteSets
    <3> QED
      BY <3>1
  <2> QED
    BY <1>1, <1>2, <2>1, <2>2 DEF ThreadedOK
<1>6. /\ cfds = <<>> /\ eth = [i \in Conns |-> NoThread] /\ accepting = Nobody
      /\ IsEchoThread(NoThread) /\ NoThread.pc = "none" /\ NoThread.pos = 0
  BY DEF Init, EchoInit, IsEchoThread, NoThread
<1>7. \A i \in Conns : eth[i] = NoThread
  BY <1>6
<1>8. RowsOK
  <2>1. IsRows(<<>>) /\ Len(<<>>) = 0
    BY EmptySeq DEF IsRows
  <2> QED
    BY <1>6, <1>7, <2>1 DEF RowsOK
<1>9. EchoOK
  <2>1. \A i \in Conns : EchoThreadOK(net, i, eth[i], accepting)
    BY <1>1, <1>6, <1>7, EndsFacts DEF EchoThreadOK, EchoPcs
  <2>2. \A i \in Conns : /\ OwnNumber(net, i, eth[i], accepting) /\ eth[i].pc # "recv"
                        /\ HasNumber(eth[i])
    BY <1>6, <1>7, EndsFacts DEF OwnNumber, HasNumber
  <2> QED
    BY <1>1, <1>6, <1>8, <2>1, <2>2 DEF EchoOK, OwnNumbers, KernelOK, BacklogOK
<1> QED
  BY <1>1, <1>2, <1>5, <1>6, <1>9 DEF Inv, ProxyInv, EchoInv

LEMMA Consecution ==
  ASSUME Inv, [Next]_vars
  PROVE  Inv'
<1>1. CASE Next
  <2>1. program' = program
    BY <1>1 DEF Next, Run
  <2> QED
    BY <1>1, <2>1, ProxyKeeps, EchoKeeps DEF Inv
<1>2. CASE UNCHANGED vars
  BY <1>2 DEF vars, proxyVars, echoVars, Inv, ProxyInv, EchoInv, ThreadedOK, EchoOK, RowsOK,
              OwnNumbers, RowsAreOwn, HasNumber, Past
<1> QED
  BY <1>1, <1>2

(***************************************************************************)
(* The invariant holds.                                                    *)
(***************************************************************************)
THEOREM InvIsInvariant == Spec => []Inv
<1>1. Init => Inv
  BY Initially
<1>2. Inv /\ [Next]_vars => Inv'
  BY Consecution
<1> QED
  BY <1>1, <1>2, PTL DEF Spec

(* For any number of browsers: as long as a thread of the proxy runs, its  *)
(* two numbers name its own browser and its own upstream, and what stays   *)
(* open after a thread is a plain request's (lines 130 to 152 and 289 to   *)
(* 294 of threadedproxyserver.c).                                          *)
THEOREM OwnDescriptors == Spec => []ThreadsOwnDescriptors
<1>1. Inv => ThreadsOwnDescriptors
  <2>1. SUFFICES ASSUME Inv, alive, NEW i \in Conns
                 PROVE  LET t == th[i]
                        IN  /\ t.pc \notin {"idle", "done"} => net.fds[t.cfd] = Client(i)
                            /\ t.pc \in {"established", "tunnel", "forward", "answer"} =>
                                 net.fds[t.sfd] = Server(i)
                            /\ t.pc = "done"
                                 /\ {Client(i), Server(i)} \cap {net.fds[f] : f \in 1 .. MaxFd} # {}
                                  => ask[i].method # "CONNECT"
    BY DEF ThreadsOwnDescriptors
  <2>2. CASE program = "threaded"
    <3>1. ThreadOK(net, i, th[i], ask[i])
      BY <2>1, <2>2 DEF Inv, ProxyInv, ThreadedOK
    <3> QED
      BY <3>1 DEF ThreadOK, HasFd
  <2>3. CASE program # "threaded"
    <3>1. th[i].pc = "idle"
      BY <2>1, <2>3 DEF Inv, ProxyInv, Idle
    <3> QED
      BY <3>1
  <2> QED
    BY <2>2, <2>3
<1> QED
  BY <1>1, InvIsInvariant, PTL

(* For any number of clients: a thread of an echo server uses a number     *)
(* that names another client's socket only when an address came twice      *)
(* (EchoServer.c, lines 77 and 78).                                        *)
THEOREM StrangersNeed == Spec => []StrangersNeedSecondSession
<1>1. Inv => StrangersNeedSecondSession
  <2>1. SUFFICES ASSUME Inv, RowsAreOwn, NEW i \in Conns
                 PROVE  /\ eth[i].pc \in {"loop", "count", "read", "send", "close"} =>
                             net.fds[eth[i].fd] \in {Client(i), Free}
                        /\ eth[i].pc = "recv" => eth[i].on = Client(i)
    BY DEF StrangersNeedSecondSession
  <2>2. CASE program \in {"echo", "tls", "aes"}
    <3>1. EchoOK
      BY <2>1, <2>2 DEF Inv, EchoInv
    <3>2. CASE alive
      <4>1. OwnNumber(net, i, eth[i], accepting)
        BY <2>1, <3>1, <3>2 DEF EchoOK, OwnNumbers
      <4> QED
        BY <2>1, <3>1, <4>1 DEF EchoOK, OwnNumber
    <3>3. CASE ~alive
      BY <2>1, <3>1, <3>3 DEF EchoOK, HasNumber
    <3> QED
      BY <3>2, <3>3
  <2>3. CASE program \notin {"echo", "tls", "aes"}
    <3>1. eth[i].pc = "none"
      BY <2>1, <2>3 DEF Inv, EchoInv, NoThread
    <3> QED
      BY <3>1
  <2> QED
    BY <2>2, <2>3
<1> QED
  BY <1>1, InvIsInvariant, PTL
-----------------------------------------------------------------------------
(***************************************************************************)
(* The echo servers: the sum of the rows' counts.                          *)
(***************************************************************************)
(* f sums the counts of the first m rows. *)
IsSum(f, rows, m) == f = [k \in 0 .. m |-> IF k = 0 THEN 0 ELSE f[k - 1] + rows[k].count]

LEMMA SumFrom ==
  ASSUME NEW rows, NEW m \in Nat, NEW f, IsSum(f, rows, m)
  PROVE  f[0] = 0 /\ \A k \in 1 .. m : k - 1 \in 0 .. m /\ f[k] = f[k - 1] + rows[k].count
<1>1. \A k \in 0 .. m : f[k] = IF k = 0 THEN 0 ELSE f[k - 1] + rows[k].count
  BY DEF IsSum
<1>2. 0 \in 0 .. m /\ \A k \in 1 .. m : k \in 0 .. m /\ k # 0 /\ k - 1 \in 0 .. m
  OBVIOUS
<1> QED
  BY <1>1, <1>2

LEMMA SumExists ==
  ASSUME NEW rows, NEW m \in Nat
  PROVE  \E f : IsSum(f, rows, m)
<1> DEFINE S == {n \in Nat : ~\E f : IsSum(f, rows, n)}
<1>1. SUFFICES ASSUME S # {} PROVE FALSE
  OBVIOUS
<1>2. PICK n \in S : \A j \in S : n <= j
  BY <1>1, Least
<1>3. n # 0
  <2> DEFINE f == [k \in 0 .. 0 |-> 0]
  <2>1. f = [k \in 0 .. 0 |-> IF k = 0 THEN 0 ELSE f[k - 1] + rows[k].count]
    OBVIOUS
  <2>2. IsSum(f, rows, 0)
    BY <2>1 DEF IsSum
  <2> QED
    BY <1>2, <2>2
<1>4. n - 1 \in Nat /\ n - 1 \notin S
  BY <1>2, <1>3
<1>5. PICK f : IsSum(f, rows, n - 1)
  BY <1>4
<1> DEFINE g == [k \in 0 .. n |-> IF k = n THEN f[n - 1] + rows[n].count ELSE f[k]]
           h == [k \in 0 .. n |-> IF k = 0 THEN 0 ELSE g[k - 1] + rows[k].count]
<1>6. ASSUME NEW k \in 0 .. n PROVE g[k] = h[k]
  <2>1. f[0] = 0 /\ \A j \in 1 .. n - 1 : f[j] = f[j - 1] + rows[j].count
    BY <1>4, <1>5, SumFrom
  <2>2. g[k] = IF k = n THEN f[n - 1] + rows[n].count ELSE f[k]
    OBVIOUS
  <2>3. k # 0 => g[k - 1] = f[k - 1]
    BY <1>4
  <2>4. h[k] = IF k = 0 THEN 0 ELSE g[k - 1] + rows[k].count
    OBVIOUS
  <2> HIDE DEF g, h
  <2>5. CASE k = 0
    BY <1>3, <2>1, <2>2, <2>4, <2>5
  <2>6. CASE k = n /\ k # 0
    BY <2>2, <2>3, <2>4, <2>6
  <2>7. CASE k \in 1 .. n - 1
    BY <2>1, <2>2, <2>3, <2>4, <2>7
  <2> QED
    BY <1>4, <2>5, <2>6, <2>7
<1>7. g = h
  BY <1>6
<1>8. IsSum(g, rows, n)
  <2> HIDE DEF g
  <2> QED
    BY <1>7 DEF IsSum
<1> QED
  BY <1>2, <1>8

LEMMA SumsIs ==
  ASSUME NEW rows, Len(rows) \in Nat
  PROVE  \E f : IsSum(f, rows, Len(rows)) /\ Sums(rows) = f[Len(rows)]
<1> DEFINE s == CHOOSE f : IsSum(f, rows, Len(rows))
<1>1. IsSum(s, rows, Len(rows))
  BY SumExists
<1>2. Sums(rows) = s[Len(rows)]
  BY DEF Sums, IsSum
<1> QED
  BY <1>1, <1>2

Counts(rows, m) == \A k \in 1 .. m : rows[k].count \in Nat

(* A partial sum is as large as each of its counts. *)
LEMMA SumBounds ==
  ASSUME NEW rows, NEW m \in Nat, Counts(rows, m), NEW f, IsSum(f, rows, m)
  PROVE  \A k \in 0 .. m : f[k] \in Nat /\ \A j \in 1 .. k : rows[j].count <= f[k]
<1> DEFINE Q(k) == f[k] \in Nat /\ \A j \in 1 .. k : rows[j].count <= f[k]
           S == {k \in 0 .. m : ~Q(k)}
<1>0. f[0] = 0 /\ \A k \in 1 .. m : k - 1 \in 0 .. m /\ f[k] = f[k - 1] + rows[k].count
  BY SumFrom
<1>1. SUFFICES ASSUME S # {} PROVE FALSE
  OBVIOUS
<1>2. PICK n \in S : \A j \in S : n <= j
  <2>1. S \in SUBSET Nat
    OBVIOUS
  <2> HIDE DEF S
  <2> QED
    BY <1>1, <2>1, Least
<1>3. n \in 1 .. m
  BY <1>0, <1>2
<1>4. n - 1 \in 0 .. m /\ n - 1 \notin S /\ f[n] = f[n - 1] + rows[n].count
  BY <1>0, <1>2, <1>3
<1>5. Q(n - 1)
  BY <1>4
<1>6. Q(n)
  BY <1>3, <1>4, <1>5 DEF Counts
<1> QED
  BY <1>2, <1>6

(* Two tables of m rows that differ by d at row p. *)
Differ(a, b, m, p, d) ==
  \A k \in 1 .. m : b[k].count = a[k].count + (IF k = p THEN d ELSE 0)

LEMMA SumsDiffer ==
  ASSUME NEW a, NEW b, NEW m \in Nat, Counts(a, m), Counts(b, m), NEW p \in Nat, NEW d \in Int,
         Differ(a, b, m, p, d),
         NEW f, NEW g, IsSum(f, a, m), IsSum(g, b, m)
  PROVE  \A k \in 0 .. m : g[k] = f[k] + (IF p \in 1 .. k THEN d ELSE 0)
<1> DEFINE Q(k) == g[k] = f[k] + (IF p \in 1 .. k THEN d ELSE 0)
           S == {k \in 0 .. m : ~Q(k)}
<1>0. /\ f[0] = 0 /\ \A k \in 1 .. m : k - 1 \in 0 .. m /\ f[k] = f[k - 1] + a[k].count
      /\ g[0] = 0 /\ \A k \in 1 .. m : k - 1 \in 0 .. m /\ g[k] = g[k - 1] + b[k].count
  BY SumFrom
<1>8. \A k \in 0 .. m : f[k] \in Nat /\ g[k] \in Nat
  BY SumBounds
<1>1. SUFFICES ASSUME S # {} PROVE FALSE
  OBVIOUS
<1>2. PICK n \in S : \A j \in S : n <= j
  <2>1. S \in SUBSET Nat
    OBVIOUS
  <2> HIDE DEF S
  <2> QED
    BY <1>1, <2>1, Least
<1>3. n \in 1 .. m
  BY <1>0, <1>2
<1>4. n - 1 \in 0 .. m /\ n - 1 \notin S /\ f[n] = f[n - 1] + a[n].count /\ g[n] = g[n - 1] + b[n].count
  BY <1>0, <1>2, <1>3
<1>5. Q(n - 1) /\ f[n - 1] \in Nat /\ a[n].count \in Nat
  BY <1>3, <1>4, <1>8 DEF Counts
<1>6. b[n].count = a[n].count + (IF n = p THEN d ELSE 0)
  BY <1>3 DEF Differ
<1>7. Q(n)
  <2>1. CASE n = p
    BY <1>3, <1>4, <1>5, <1>6, <2>1
  <2>2. CASE n # p
    <3>1. p \in 1 .. n <=> p \in 1 .. (n - 1)
      BY <1>3, <2>2
    <3> QED
      BY <1>3, <1>4, <1>5, <1>6, <2>2, <3>1
  <2> QED
    BY <2>1, <2>2
<1> QED
  BY <1>2, <1>7

(* The table of the clients: its rows are records, and tot sums it. *)
IsRow(r) == r = [addr |-> r.addr, fd |-> r.fd, count |-> r.count] /\ r.count \in Nat
Summed(c, tot) == /\ IsRows(c) /\ \A p \in 1 .. Len(c) : IsRow(c[p])
                  /\ tot = Sums(c)

LEMMA SummedFacts ==
  ASSUME NEW c, NEW tot, Summed(c, tot)
  PROVE  /\ Len(c) \in Nat /\ DOMAIN c = 1 .. Len(c) /\ Counts(c, Len(c)) /\ tot \in Nat
         /\ \A p \in 1 .. Len(c) : c[p].count \in Nat /\ c[p].count <= tot
<1>1. Len(c) \in Nat /\ DOMAIN c = 1 .. Len(c)
  BY LenProperties DEF Summed, IsRows
<1>2. Counts(c, Len(c))
  BY DEF Summed, IsRow, Counts
<1>3. PICK f : IsSum(f, c, Len(c)) /\ Sums(c) = f[Len(c)]
  BY <1>1, SumsIs
<1>4. \A k \in 0 .. Len(c) : f[k] \in Nat /\ \A j \in 1 .. k : c[j].count <= f[k]
  BY <1>1, <1>2, <1>3, SumBounds
<1>5. Len(c) \in 0 .. Len(c)
  BY <1>1
<1> QED
  BY <1>1, <1>2, <1>3, <1>4, <1>5 DEF Summed, Counts

LEMMA NothingSummed == Summed(<<>>, 0)
<1>1. IsRows(<<>>) /\ Len(<<>>) = 0
  BY EmptySeq DEF IsRows
<1>2. PICK f : IsSum(f, <<>>, 0) /\ Sums(<<>>) = f[0]
  BY <1>1, SumsIs
<1>3. f[0] = 0
  BY <1>2, SumFrom
<1> QED
  BY <1>1, <1>2, <1>3 DEF Summed

LEMMA RowReplacedSum ==
  ASSUME NEW c, NEW tot, Summed(c, tot), NEW p \in 1 .. Len(c), NEW v, IsRow(v),
         NEW c2, c2 = [c EXCEPT ![p] = v]
  PROVE  Summed(c2, tot + v.count - c[p].count) /\ Len(c2) = Len(c)
<1> DEFINE m == Len(c)
           d == v.count - c[p].count
<1>1. m \in Nat /\ DOMAIN c = 1 .. m /\ Counts(c, m) /\ tot \in Nat /\ c[p].count \in Nat
  BY SummedFacts
<1>2. IsRows(c2) /\ Len(c2) = m
  BY RowReplaced DEF Summed
<1>3. \A k \in 1 .. m : c2[k] = IF k = p THEN v ELSE c[k]
  BY <1>1
<1>4. v.count \in Nat
  BY DEF IsRow
<1> HIDE DEF m
<1>5. Counts(c2, m)
  BY <1>1, <1>3, <1>4 DEF Counts
<1>6. PICK f : IsSum(f, c, m) /\ Sums(c) = f[m]
  BY <1>1, SumsIs DEF m
<1>7. PICK g : IsSum(g, c2, m) /\ Sums(c2) = g[m]
  BY <1>1, <1>2, SumsIs
<1>8. d \in Int /\ p \in Nat /\ p \in 1 .. m
  BY <1>1, <1>4 DEF m
<1>9. Differ(c, c2, m, p, d)
  <2>1. SUFFICES ASSUME NEW k \in 1 .. m PROVE c2[k].count = c[k].count + (IF k = p THEN d ELSE 0)
    BY DEF Differ
  <2>2. c[k].count \in Nat /\ c[p].count \in Nat
    BY <1>1 DEF Counts
  <2>3. CASE k = p
    <3>1. c2[k] = v
      BY <1>3, <2>3
    <3> QED
      BY <1>4, <2>2, <2>3, <3>1
  <2>4. CASE k # p
    <3>1. c2[k] = c[k]
      BY <1>3, <2>4
    <3> QED
      BY <2>2, <2>4, <3>1
  <2> QED
    BY <2>3, <2>4
<1> HIDE DEF d
<1>10. \A k \in 0 .. m : g[k] = f[k] + (IF p \in 1 .. k THEN d ELSE 0)
  BY <1>1, <1>5, <1>6, <1>7, <1>8, <1>9, SumsDiffer
<1>11. g[m] = f[m] + d
  BY <1>1, <1>8, <1>10
<1>12. Sums(c2) = tot + v.count - c[p].count
  BY <1>1, <1>4, <1>6, <1>7, <1>11 DEF d, Summed
<1>13. \A k \in 1 .. Len(c2) : IsRow(c2[k])
  BY <1>2, <1>3 DEF Summed, m
<1> QED
  BY <1>2, <1>12, <1>13 DEF Summed, m

Grown(c, v, c2) == c2 = Append(c, v)

LEMMA RowAddedSum ==
  ASSUME NEW c, NEW tot, Summed(c, tot), NEW v, IsRow(v), v.count = 0, NEW c2, Grown(c, v, c2)
  PROVE  /\ Summed(c2, tot) /\ Len(c2) = Len(c) + 1 /\ c2[Len(c2)] = v
         /\ \A k \in 1 .. Len(c) : c2[k] = c[k]
<1> DEFINE m == Len(c)
           R == {c[k] : k \in DOMAIN c} \cup {v}
<1>1. m \in Nat /\ m + 1 \in Nat /\ DOMAIN c = 1 .. m /\ Counts(c, m) /\ tot \in Nat
  BY SummedFacts
<1>2. IsRows(c2) /\ Len(c2) = m + 1
  BY RowAdded DEF Summed, Grown
<1>3. c \in Seq(R) /\ v \in R
  BY SeqMonotonic DEF Summed, IsRows
<1> HIDE DEF R
<1>4. (\A k \in 1 .. m : c2[k] = c[k]) /\ c2[m + 1] = v
  BY <1>3, AppendProperties DEF Grown
<1> HIDE DEF m
<1>5. Counts(c2, m) /\ Counts(c2, m + 1)
  BY <1>1, <1>4 DEF Counts
<1>6. PICK f : IsSum(f, c, m) /\ Sums(c) = f[m]
  BY <1>1, SumsIs DEF m
<1>7. PICK g : IsSum(g, c2, m + 1) /\ Sums(c2) = g[m + 1]
  <2>1. PICK q : q = m + 1
    OBVIOUS
  <2>2. \E g : IsSum(g, c2, q) /\ Sums(c2) = g[q]
    BY <1>1, <1>2, <2>1, SumsIs
  <2> QED
    BY <2>1, <2>2
<1>8. PICK h : IsSum(h, c2, m)
  BY <1>1, SumExists
<1>9. h[m] = f[m]
  <2>1. Differ(c, c2, m, 0, 0)
    BY <1>1, <1>4 DEF Counts, Differ
  <2>2. \A k \in 0 .. m : h[k] = f[k] + (IF 0 \in 1 .. k THEN 0 ELSE 0)
    BY <1>1, <1>5, <1>6, <1>8, <2>1, SumsDiffer
  <2>3. f[m] \in Nat
    BY <1>1, <1>6, SumBounds
  <2> QED
    BY <1>1, <2>2, <2>3
<1>13. /\ g[0] = 0 /\ \A j \in 1 .. m + 1 : g[j] = g[j - 1] + c2[j].count
      /\ h[0] = 0 /\ \A j \in 1 .. m : h[j] = h[j - 1] + c2[j].count
  <2>1. PICK q : q = m + 1
    OBVIOUS
  <2>2. q \in Nat /\ IsSum(g, c2, q)
    BY <1>1, <1>7, <2>1
  <2>3. g[0] = 0 /\ \A j \in 1 .. q : g[j] = g[j - 1] + c2[j].count
    BY <2>2, SumFrom
  <2>4. h[0] = 0 /\ \A j \in 1 .. m : h[j] = h[j - 1] + c2[j].count
    <3>1. PICK n : n = m
      OBVIOUS
    <3>2. n \in Nat /\ IsSum(h, c2, n)
      BY <1>1, <1>8, <3>1
    <3>3. h[0] = 0 /\ \A j \in 1 .. n : h[j] = h[j - 1] + c2[j].count
      BY <3>2, SumFrom
    <3> QED
      BY <3>1, <3>3
  <2> QED
    BY <2>1, <2>3, <2>4
<1>10. g[m] = h[m]
  <2> DEFINE S == {k \in 0 .. m : g[k] # h[k]}
  <2>1. SUFFICES ASSUME S # {} PROVE FALSE
    BY <1>1
  <2>2. PICK k \in S : \A j \in S : k <= j
    <3>1. S \in SUBSET Nat
      OBVIOUS
    <3> HIDE DEF S
    <3> QED
      BY <2>1, <3>1, Least
  <2>4. k \in 1 .. m
    BY <1>13, <2>2
  <2>5. k - 1 \notin S /\ k - 1 \in 0 .. m
    BY <1>1, <2>2, <2>4
  <2> QED
    BY <1>1, <1>13, <2>2, <2>4, <2>5
<1>11. Sums(c2) = tot
  <2>1. m + 1 \in 1 .. m + 1 /\ m + 1 - 1 = m
    BY <1>1
  <2>2. g[m + 1] = g[m] + c2[m + 1].count
    BY <1>1, <1>13, <2>1
  <2>3. f[m] = tot
    BY <1>6 DEF Summed
  <2> QED
    BY <1>1, <1>4, <1>7, <1>9, <1>10, <2>2, <2>3
<1>12. \A k \in 1 .. Len(c2) : IsRow(c2[k])
  <2>1. \A k \in 1 .. Len(c2) : k \in 1 .. m \/ k = m + 1
    BY <1>1, <1>2
  <2> QED
    BY <1>4, <2>1 DEF Summed, m
<1> QED
  BY <1>2, <1>4, <1>11, <1>12 DEF Summed, m
-----------------------------------------------------------------------------
(***************************************************************************)
(* The echo servers: what a client and its thread have said to each other. *)
(***************************************************************************)
EchoPrograms == {"echo", "tls", "aes"}
Rowed == {"loop", "recv", "count", "read", "send"}
Holding == {"count", "read", "send"}
Texts == {"text", "exit"}
Greetings == {"hello", "key"}
Messages == Texts \cup Greetings \cup {"notify"}

(* How many greetings a client sends first, and how many its thread has    *)
(* still to read.                                                          *)
Greeting == CASE program = "tls" -> 1 [] program = "aes" -> 2 [] OTHER -> 0
GreetingsLeft(pc) == CASE program = "tls" /\ pc = "none" -> 1
                       [] program = "aes" /\ pc \in {"none", "key"} -> 2
                       [] program = "aes" /\ pc = "iv" -> 1
                       [] OTHER -> 0

HasText(q) == \E j \in 1 .. Len(q) : q[j] \in Texts
OneText(q) == \A j, k \in 1 .. Len(q) : q[j] \in Texts /\ q[k] \in Texts => j = k
Talking(q) == \A j \in 1 .. Len(q) : q[j] # "notify"
Polite(q, l) == \A j \in 1 .. Len(q) : q[j] \in Greetings => j <= l
AnswersIn(out) == {m \in out : m.total > 0}
Alone(ms) == \A m, m2 \in ms : m = m2

Tally(u, v, tot) == u \in Nat /\ v \in Nat /\ u <= v /\ v <= tot

(* c: a client that types or waits, q: what it has sent, ms: its answers,  *)
(* t: its thread, n: the count of its row.                                 *)
TurnOK(c, q, ms, t, n) ==
  /\ Talking(q) /\ OneText(q) /\ Alone(ms)
  /\ HasText(q) \/ c.pc = "typing" => t.pc \notin Holding
  /\ HasText(q) \/ c.pc = "typing" \/ t.pc \in Holding \/ t.pos = 0 => ms = {}
  /\ c.pc = "typing" => ~HasText(q)
  /\ t.pos = 0 => c.answers = 0
  /\ t.pos # 0 /\ (c.pc = "typing" \/ HasText(q) \/ t.pc = "count") => n = c.answers
  /\ t.pc \in {"read", "send"} \/ ms # {} => n = c.answers + 1
  /\ t.pc = "send" => t.users = n
  /\ \A m \in ms : m.users = n

(* k: the client's socket, l: how many greetings its thread has to read,   *)
(* g: how many there are in all.                                           *)
QueueIn(k, l, g) ==
  /\ k.in \in Seq(Messages) /\ k.sent \in Nat /\ l \in Nat /\ g \in Nat /\ ~k.deaf
  /\ k.end = "none" => k.in = <<>> /\ k.out = {} /\ k.sent = 0
  /\ k.end = "open" /\ k.sent < g => Len(k.in) + g <= l + k.sent
  /\ Polite(k.in, l)

(* tot: how many messages have been counted in all. *)
TalkOK(c, k, t, n, l, g, tot) ==
  /\ tot \in Nat /\ n \in Nat
  /\ Tally(c.users, c.total, tot) /\ c.users = c.answers
  /\ QueueIn(k, l, g)
  /\ \A m \in k.out : Tally(m.users, m.total, tot)
  /\ t.pc = "send" => Tally(t.users, t.total, tot)
  /\ c.pc \in {"typing", "waiting"} => TurnOK(c, k.in, AnswersIn(k.out), t, n)

(* A queue after a message has been sent, and after one has been taken.    *)
LEMMA QueueAppended ==
  ASSUME NEW q \in Seq(Messages), NEW m \in Messages, NEW q2, q2 = Append(q, m)
  PROVE  /\ q2 \in Seq(Messages) /\ Len(q) \in Nat /\ Len(q2) = Len(q) + 1
         /\ m # "notify" /\ Talking(q) => Talking(q2)
         /\ m \notin Texts /\ OneText(q) => OneText(q2)
         /\ ~HasText(q) => OneText(q2)
         /\ m \notin Texts => (HasText(q2) <=> HasText(q))
         /\ \A l \in Nat : Polite(q, l) /\ (m \in Greetings => Len(q) + 1 <= l) => Polite(q2, l)
<1>1. q2 \in Seq(Messages) /\ Len(q2) = Len(q) + 1 /\ Len(q) \in Nat
  BY AppendProperties, LenProperties
<1>2. (\A j \in 1 .. Len(q) : q2[j] = q[j]) /\ q2[Len(q) + 1] = m
  BY AppendProperties
<1>3. /\ \A j \in 1 .. Len(q2) : j \in 1 .. Len(q) \/ j = Len(q) + 1
      /\ \A j \in 1 .. Len(q) : j \in 1 .. Len(q2)
  BY <1>1
<1>4. m # "notify" /\ Talking(q) => Talking(q2)
  BY <1>2, <1>3 DEF Talking
<1>5. m \notin Texts /\ OneText(q) => OneText(q2)
  BY <1>2, <1>3 DEF OneText
<1>6. ~HasText(q) => OneText(q2)
  BY <1>2, <1>3 DEF HasText, OneText
<1>7. m \notin Texts => (HasText(q2) <=> HasText(q))
  BY <1>2, <1>3 DEF HasText
<1>8. \A l \in Nat : Polite(q, l) /\ (m \in Greetings => Len(q) + 1 <= l) => Polite(q2, l)
  BY <1>2, <1>3 DEF Polite
<1> QED
  BY <1>1, <1>4, <1>5, <1>6, <1>7, <1>8

LEMMA QueueTaken ==
  ASSUME NEW q \in Seq(Messages), q # <<>>, NEW q2, q2 = Tail(q), NEW m, m = Head(q)
  PROVE  /\ q2 \in Seq(Messages) /\ Len(q) \in Nat /\ Len(q2) = Len(q) - 1 /\ m \in Messages
         /\ Talking(q) => Talking(q2) /\ m # "notify"
         /\ OneText(q) => OneText(q2)
         /\ HasText(q2) => HasText(q)
         /\ m \in Texts => HasText(q) /\ (OneText(q) => ~HasText(q2))
         /\ \A l \in Nat : Polite(q, l) => Polite(q2, l) /\ (l > 0 => Polite(q2, l - 1))
         /\ Polite(q, 0) => m \notin Greetings
<1>1. /\ q2 \in Seq(Messages) /\ Len(q2) = Len(q) - 1 /\ m \in Messages
      /\ \A j \in 1 .. Len(q2) : q2[j] = q[j + 1]
  BY HeadTailProperties
<1>2. Len(q) \in Nat /\ Len(q) # 0 /\ m = q[1]
  BY EmptySeq
<1>3. 1 \in 1 .. Len(q) /\ \A j \in 1 .. Len(q2) : j + 1 \in 1 .. Len(q) /\ j + 1 # 1
  BY <1>1, <1>2
<1>4. Talking(q) => Talking(q2) /\ m # "notify"
  BY <1>1, <1>2, <1>3 DEF Talking
<1>5. OneText(q) => OneText(q2)
  <2>1. SUFFICES ASSUME OneText(q), NEW j \in 1 .. Len(q2), NEW k \in 1 .. Len(q2),
                        q2[j] \in Texts, q2[k] \in Texts
                 PROVE  j = k
    BY DEF OneText
  <2>2. j + 1 = k + 1
    BY <1>1, <1>3, <2>1 DEF OneText
  <2> QED
    BY <1>1, <1>2, <2>2
<1>6. HasText(q2) => HasText(q)
  BY <1>1, <1>3 DEF HasText
<1>7. m \in Texts => HasText(q) /\ (OneText(q) => ~HasText(q2))
  BY <1>1, <1>2, <1>3 DEF HasText, OneText
<1>8. ASSUME NEW l \in Nat, Polite(q, l)
      PROVE  Polite(q2, l) /\ (l > 0 => Polite(q2, l - 1))
  <2>1. \A j \in 1 .. Len(q2) : q2[j] \in Greetings => j + 1 <= l
    BY <1>1, <1>3, <1>8 DEF Polite
  <2> QED
    BY <1>1, <1>2, <1>8, <2>1 DEF Polite
<1>9. Polite(q, 0) => m \notin Greetings
  BY <1>2, <1>3 DEF Polite
<1> QED
  BY <1>1, <1>2, <1>4, <1>5, <1>6, <1>7, <1>8, <1>9

(* A step that says nothing and finds the row's count as it was. *)
SameSays(k, k2) == /\ k2.in = k.in /\ k2.out = k.out /\ k2.sent = k.sent /\ k2.deaf = k.deaf
                   /\ k2.end = "none" <=> k.end = "none"
                   /\ k2.end = "open" <=> k.end = "open"
SameClient(c, c2) == c2.answers = c.answers /\ c2.users = c.users /\ c2.total = c.total

LEMMA TalkKept ==
  ASSUME NEW c, NEW k, NEW t, NEW n, NEW l, NEW g, NEW tot, TalkOK(c, k, t, n, l, g, tot),
         NEW k2, SameSays(k, k2), NEW t2, t2.pos = t.pos, NEW tot2 \in Nat, tot <= tot2,
         t2.pc \in Holding => t2.pc = t.pc /\ t2.users = t.users /\ t2.total = t.total
  PROVE  TalkOK(c, k2, t2, n, l, g, tot2)
<1>1. \A u, v : Tally(u, v, tot) => Tally(u, v, tot2)
  BY DEF Tally, TalkOK
<1>2. QueueIn(k2, l, g)
  BY DEF QueueIn, SameSays, TalkOK
<1>3. c.pc \in {"typing", "waiting"} => TurnOK(c, k2.in, AnswersIn(k2.out), t2, n)
  <2>1. SUFFICES ASSUME c.pc \in {"typing", "waiting"} PROVE TurnOK(c, k2.in, AnswersIn(k2.out), t2, n)
    OBVIOUS
  <2>2. k2.in = k.in /\ k2.out = k.out
    BY DEF SameSays
  <2>3. TurnOK(c, k2.in, AnswersIn(k2.out), t, n)
    BY <2>1, <2>2 DEF TalkOK
  <2> QED
    BY <2>3 DEF TurnOK, Holding
<1>4. \A m \in k2.out : Tally(m.users, m.total, tot2)
  BY <1>1 DEF SameSays, TalkOK
<1> QED
  BY <1>1, <1>2, <1>3, <1>4 DEF TalkOK, Holding
(* The client's steps. *)
LEMMA TalkArrives ==
  ASSUME NEW c, NEW k, NEW t, NEW n, NEW l, NEW g, NEW tot, TalkOK(c, k, t, n, l, g, tot),
         k.end = "none", t.pc \notin Holding, t.pos = 0, l = g,
         NEW k2, k2.in = k.in, k2.out = k.out, k2.sent = k.sent, k2.deaf = k.deaf, k2.end = "open",
         NEW c2, c2.answers = 0, c2.users = 0, c2.total = 0
  PROVE  TalkOK(c2, k2, t, n, l, g, tot)
<1>1. k2.in = <<>> /\ k2.out = {} /\ k2.sent = 0 /\ Len(k2.in) = 0
  BY DEF TalkOK, QueueIn
<1>2. QueueIn(k2, l, g)
  BY <1>1 DEF TalkOK, QueueIn
<1>3. TurnOK(c2, k2.in, AnswersIn(k2.out), t, n)
  <2>1. AnswersIn(k2.out) = {}
    BY <1>1 DEF AnswersIn
  <2> QED
    BY <1>1, <2>1 DEF TurnOK, HasText, OneText, Talking, Alone, Holding
<1>4. Tally(0, 0, tot)
  BY DEF Tally, TalkOK
<1> QED
  BY <1>1, <1>2, <1>3, <1>4 DEF TalkOK, Holding

LEMMA TalkAsks ==
  ASSUME NEW c, NEW k, NEW t, NEW n, NEW l, NEW g, NEW tot, TalkOK(c, k, t, n, l, g, tot),
         c.pc = "typing", NEW m \in Texts, ~(k.sent < g), k.end = "open",
         NEW k2, k2.in = Append(k.in, m), k2.out = k.out, k2.sent = k.sent + 1, k2.deaf = k.deaf,
         k2.end = k.end,
         NEW c2, c2.pc = "waiting", SameClient(c, c2)
  PROVE  TalkOK(c2, k2, t, n, l, g, tot)
<1>1. /\ QueueIn(k, l, g) /\ TurnOK(c, k.in, AnswersIn(k.out), t, n) /\ l \in Nat /\ g \in Nat
      /\ k.in \in Seq(Messages) /\ k.sent \in Nat
  BY DEF TalkOK, QueueIn
<1>2. m \in Messages /\ m # "notify" /\ m \notin Greetings
  BY DEF Messages, Texts, Greetings
<1>3. PICK q, q2 : q = k.in /\ q2 = Append(q, m)
  OBVIOUS
<1>4. q \in Seq(Messages) /\ k2.in = q2
  BY <1>1, <1>3
<1>5. /\ q2 \in Seq(Messages) /\ (Talking(q) => Talking(q2)) /\ (~HasText(q) => OneText(q2))
      /\ (Polite(q, l) => Polite(q2, l))
  BY <1>1, <1>2, <1>3, <1>4, QueueAppended
<1>6. QueueIn(k2, l, g)
  <2>1. ~(k2.sent < g) /\ k2.sent \in Nat
    BY <1>1
  <2> QED
    BY <1>1, <1>3, <1>4, <1>5, <2>1 DEF QueueIn
<1>7. TurnOK(c2, q2, AnswersIn(k2.out), t, n)
  <2>1. TurnOK(c, q, AnswersIn(k2.out), t, n)
    BY <1>1, <1>3
  <2> QED
    BY <1>5, <2>1 DEF TurnOK, SameClient, Holding
<1> QED
  BY <1>4, <1>6, <1>7 DEF TalkOK, SameClient

LEMMA TalkGreets ==
  ASSUME NEW c, NEW k, NEW t, NEW n, NEW l, NEW g, NEW tot, TalkOK(c, k, t, n, l, g, tot),
         NEW m \in Greetings, k.sent < g, k.end = "open",
         NEW k2, k2.in = Append(k.in, m), k2.out = k.out, k2.sent = k.sent + 1, k2.deaf = k.deaf,
         k2.end = k.end
  PROVE  TalkOK(c, k2, t, n, l, g, tot)
<1>1. /\ QueueIn(k, l, g) /\ l \in Nat /\ g \in Nat
      /\ k.in \in Seq(Messages) /\ k.sent \in Nat /\ Len(k.in) + g <= l + k.sent
  BY DEF TalkOK, QueueIn
<1>2. m \in Messages /\ m # "notify" /\ m \notin Texts
  BY DEF Messages, Texts, Greetings
<1>3. PICK q, q2 : q = k.in /\ q2 = Append(q, m)
  OBVIOUS
<1>4. q \in Seq(Messages) /\ k2.in = q2
  BY <1>1, <1>3
<1>5. /\ q2 \in Seq(Messages) /\ (Talking(q) => Talking(q2)) /\ (OneText(q) => OneText(q2))
      /\ (HasText(q2) <=> HasText(q)) /\ Len(q) \in Nat /\ Len(q2) = Len(q) + 1
      /\ (Polite(q, l) /\ Len(q) + 1 <= l => Polite(q2, l))
  BY <1>1, <1>2, <1>3, <1>4, QueueAppended
<1>6. Len(q) + 1 <= l
  BY <1>1, <1>3, <1>5
<1>7. QueueIn(k2, l, g)
  <2>1. Len(q2) + g <= l + (k.sent + 1) /\ k.sent + 1 \in Nat
    BY <1>1, <1>3, <1>5
  <2> QED
    BY <1>1, <1>3, <1>4, <1>5, <1>6, <2>1 DEF QueueIn
<1>8. c.pc \in {"typing", "waiting"} => TurnOK(c, q2, AnswersIn(k2.out), t, n)
  <2>1. TurnOK(c, q, AnswersIn(k2.out), t, n) => TurnOK(c, q2, AnswersIn(k2.out), t, n)
    BY <1>5 DEF TurnOK
  <2> QED
    BY <1>3, <2>1 DEF TalkOK
<1> QED
  BY <1>4, <1>7, <1>8 DEF TalkOK

(* The client goes; the version with TLS says so first. *)
LEMMA TalkEnds ==
  ASSUME NEW c, NEW k, NEW t, NEW n, NEW l, NEW g, NEW tot, TalkOK(c, k, t, n, l, g, tot),
         k.end = "open",
         NEW k2, k2.out = k.out, k2.deaf = k.deaf,
         \/ k2.in = k.in /\ k2.sent = k.sent /\ k2.end \in {"fin", "rst"}
         \/ k2.in = Append(k.in, "notify") /\ k2.sent = k.sent + 1 /\ ~(k.sent < g) /\ k2.end = k.end,
         NEW c2, c2.pc \notin {"typing", "waiting"}, SameClient(c, c2)
  PROVE  TalkOK(c2, k2, t, n, l, g, tot)
<1>1. QueueIn(k, l, g) /\ l \in Nat /\ g \in Nat /\ k.in \in Seq(Messages) /\ k.sent \in Nat
  BY DEF TalkOK, QueueIn
<1>2. QueueIn(k2, l, g)
  <2>1. CASE k2.in = k.in /\ k2.sent = k.sent /\ k2.end \in {"fin", "rst"}
    BY <1>1, <2>1 DEF QueueIn
  <2>2. CASE k2.in = Append(k.in, "notify") /\ k2.sent = k.sent + 1 /\ ~(k.sent < g) /\ k2.end = k.end
    <3>1. PICK m, q, q2 : m = "notify" /\ q = k.in /\ q2 = Append(q, m)
      OBVIOUS
    <3>2. m \in Messages /\ m \notin Greetings /\ q \in Seq(Messages) /\ k2.in = q2
      BY <1>1, <2>2, <3>1 DEF Messages, Greetings
    <3>3. q2 \in Seq(Messages) /\ (Polite(q, l) => Polite(q2, l))
      BY <1>1, <3>1, <3>2, QueueAppended
    <3>4. ~(k2.sent < g) /\ k2.sent \in Nat /\ k2.end # "none"
      BY <1>1, <2>2
    <3> QED
      BY <1>1, <3>1, <3>2, <3>3, <3>4 DEF QueueIn
  <2> QED
    BY <2>1, <2>2
<1> QED
  BY <1>2 DEF TalkOK, SameClient

LEMMA TalkAnswered ==
  ASSUME NEW c, NEW k, NEW t, NEW n, NEW l, NEW g, NEW tot, TalkOK(c, k, t, n, l, g, tot),
         c.pc = "waiting", NEW m, m \in AnswersIn(k.out),
         NEW k2, k2.in = k.in, k2.out = k.out \ {m}, k2.sent = k.sent, k2.deaf = k.deaf,
         k2.end = k.end,
         NEW c2, c2.pc = "typing", c2.answers = c.answers + 1, c2.users = m.users, c2.total = m.total
  PROVE  TalkOK(c2, k2, t, n, l, g, tot)
<1>1. TurnOK(c, k.in, AnswersIn(k.out), t, n)
  BY DEF TalkOK
<1>2. m \in k.out /\ AnswersIn(k2.out) = {}
  BY <1>1 DEF TurnOK, Alone, AnswersIn
<1>3. /\ n = c.answers + 1 /\ m.users = n /\ Tally(m.users, m.total, tot) /\ t.pos # 0
      /\ ~HasText(k.in) /\ t.pc \notin Holding
  BY <1>1, <1>2 DEF TurnOK, TalkOK
<1>4. TurnOK(c2, k2.in, AnswersIn(k2.out), t, n)
  BY <1>1, <1>2, <1>3 DEF TurnOK, Alone, Holding
<1>5. QueueIn(k2, l, g)
  BY <1>2 DEF TalkOK, QueueIn
<1> QED
  BY <1>3, <1>4, <1>5 DEF TalkOK

(* The thread's steps. *)
LEMMA TalkSkips ==
  ASSUME NEW c, NEW k, NEW t, NEW n, NEW l, NEW g, NEW tot, TalkOK(c, k, t, n, l, g, tot),
         l > 0, k.end # "none",
         NEW k2, k2.out = k.out, k2.sent = k.sent, k2.deaf = k.deaf, k2.end = k.end,
         \/ k.in # <<>> /\ k2.in = Tail(k.in)
         \/ k.in = <<>> /\ k2.in = k.in /\ k.end # "open",
         NEW t2, t2.pos = t.pos, t2.pc \notin Holding
  PROVE  TalkOK(c, k2, t2, n, l - 1, g, tot)
<1>1. /\ QueueIn(k, l, g) /\ l \in Nat /\ g \in Nat /\ k.in \in Seq(Messages) /\ k.sent \in Nat
      /\ l - 1 \in Nat
  BY DEF TalkOK, QueueIn
<1>2. CASE k.in # <<>> /\ k2.in = Tail(k.in)
  <2>1. PICK q, q2, m : q = k.in /\ q2 = Tail(q) /\ m = Head(q)
    OBVIOUS
  <2>2. q \in Seq(Messages) /\ q # <<>> /\ k2.in = q2
    BY <1>1, <1>2, <2>1
  <2>3. /\ q2 \in Seq(Messages) /\ Len(q) \in Nat /\ Len(q2) = Len(q) - 1
        /\ (Talking(q) => Talking(q2)) /\ (OneText(q) => OneText(q2)) /\ (HasText(q2) => HasText(q))
        /\ (Polite(q, l) => Polite(q2, l - 1))
    BY <1>1, <2>1, <2>2, QueueTaken
  <2>4. QueueIn(k2, l - 1, g)
    BY <1>1, <2>1, <2>2, <2>3 DEF QueueIn
  <2>5. c.pc \in {"typing", "waiting"} => TurnOK(c, q2, AnswersIn(k2.out), t2, n)
    <3>1. TurnOK(c, q, AnswersIn(k2.out), t, n) => TurnOK(c, q2, AnswersIn(k2.out), t2, n)
      BY <2>3 DEF TurnOK, Holding
    <3> QED
      BY <2>1, <3>1 DEF TalkOK
  <2> QED
    BY <2>2, <2>4, <2>5 DEF TalkOK, Holding
<1>3. CASE k.in = <<>> /\ k2.in = k.in /\ k.end # "open"
  <2>1. Len(k.in) = 0
    BY <1>3
  <2>2. QueueIn(k2, l - 1, g)
    BY <1>1, <1>3, <2>1 DEF QueueIn, Polite
  <2>3. c.pc \in {"typing", "waiting"} => TurnOK(c, k2.in, AnswersIn(k2.out), t2, n)
    <3>1. TurnOK(c, k.in, AnswersIn(k.out), t, n) => TurnOK(c, k.in, AnswersIn(k.out), t2, n)
      BY DEF TurnOK, Holding
    <3> QED
      BY <1>3, <3>1 DEF TalkOK
  <2> QED
    BY <2>2, <2>3 DEF TalkOK, Holding
<1> QED
  BY <1>2, <1>3

LEMMA TalkRow ==
  ASSUME NEW c, NEW k, NEW t, NEW n, NEW l, NEW g, NEW tot, TalkOK(c, k, t, n, l, g, tot),
         t.pos = 0, NEW t2, t2.pos # 0, t2.pc \notin Holding
  PROVE  TalkOK(c, k, t2, 0, l, g, tot)
<1>1. TurnOK(c, k.in, AnswersIn(k.out), t, n) => TurnOK(c, k.in, AnswersIn(k.out), t2, 0)
  BY DEF TurnOK, Holding
<1> QED
  BY <1>1 DEF TalkOK, Holding

LEMMA TalkTakes ==
  ASSUME NEW c, NEW k, NEW t, NEW n, NEW g, NEW tot, TalkOK(c, k, t, n, 0, g, tot),
         k.in # <<>>, k.end # "none", t.pos # 0, t.pc = "recv",
         NEW k2, k2.in = Tail(k.in), k2.out = k.out, k2.sent = k.sent, k2.deaf = k.deaf,
         k2.end = k.end,
         NEW t2, t2.pos = t.pos, t2.pc \in {"count", "loop", "close"}
  PROVE  TalkOK(c, k2, t2, n, 0, g, tot)
<1>1. QueueIn(k, 0, g) /\ g \in Nat /\ k.in \in Seq(Messages) /\ k.sent \in Nat /\ Polite(k.in, 0)
  BY DEF TalkOK, QueueIn
<1>2. PICK q, q2, m : q = k.in /\ q2 = Tail(q) /\ m = Head(q)
  OBVIOUS
<1>3. q \in Seq(Messages) /\ q # <<>> /\ k2.in = q2 /\ Polite(q, 0)
  BY <1>1, <1>2
<1>4. /\ q2 \in Seq(Messages) /\ Len(q) \in Nat /\ Len(q2) = Len(q) - 1 /\ m \in Messages
      /\ (Talking(q) => Talking(q2) /\ m # "notify") /\ (OneText(q) => OneText(q2))
      /\ (HasText(q2) => HasText(q)) /\ (m \in Texts => HasText(q) /\ (OneText(q) => ~HasText(q2)))
      /\ m \notin Greetings /\ Polite(q2, 0)
  BY <1>2, <1>3, QueueTaken
<1>5. QueueIn(k2, 0, g)
  BY <1>1, <1>2, <1>3, <1>4 DEF QueueIn
<1>6. c.pc \in {"typing", "waiting"} => TurnOK(c, q2, AnswersIn(k2.out), t2, n)
  <2>1. TurnOK(c, q, AnswersIn(k2.out), t, n) => TurnOK(c, q2, AnswersIn(k2.out), t2, n)
    <3>1. SUFFICES ASSUME TurnOK(c, q, AnswersIn(k2.out), t, n)
                   PROVE  TurnOK(c, q2, AnswersIn(k2.out), t2, n)
      OBVIOUS
    <3>2. m \in Texts
      BY <1>4, <3>1 DEF TurnOK, Messages
    <3>3. HasText(q) /\ ~HasText(q2) /\ c.pc # "typing"
      BY <1>4, <3>1, <3>2 DEF TurnOK
    <3> QED
      BY <1>4, <3>1, <3>3 DEF TurnOK, Holding
  <2> QED
    BY <1>2, <2>1 DEF TalkOK
<1> QED
  BY <1>3, <1>5, <1>6 DEF TalkOK

LEMMA TalkCounts ==
  ASSUME NEW c, NEW k, NEW t, NEW n, NEW l, NEW g, NEW tot, TalkOK(c, k, t, n, l, g, tot),
         t.pc = "count", t.pos # 0, NEW t2, t2.pos = t.pos, t2.pc = "read"
  PROVE  TalkOK(c, k, t2, n + 1, l, g, tot + 1)
<1>1. tot \in Nat /\ n \in Nat
  BY DEF TalkOK
<1>2. \A u, v : Tally(u, v, tot) => Tally(u, v, tot + 1)
  BY <1>1 DEF Tally
<1>3. TurnOK(c, k.in, AnswersIn(k.out), t, n) => TurnOK(c, k.in, AnswersIn(k.out), t2, n + 1)
  BY <1>1 DEF TurnOK, Holding
<1> QED
  BY <1>1, <1>2, <1>3 DEF TalkOK

LEMMA TalkReads ==
  ASSUME NEW c, NEW k, NEW t, NEW n, NEW l, NEW g, NEW tot, TalkOK(c, k, t, n, l, g, tot),
         t.pc = "read", n <= tot,
         NEW t2, t2.pos = t.pos, t2.pc = "send", t2.users = n, t2.total = tot
  PROVE  TalkOK(c, k, t2, n, l, g, tot)
<1>1. Tally(n, tot, tot)
  BY DEF TalkOK, Tally
<1>2. TurnOK(c, k.in, AnswersIn(k.out), t, n) => TurnOK(c, k.in, AnswersIn(k.out), t2, n)
  BY DEF TurnOK, Holding
<1> QED
  BY <1>1, <1>2 DEF TalkOK

LEMMA TalkSends ==
  ASSUME NEW c, NEW k, NEW t, NEW n, NEW l, NEW g, NEW tot, TalkOK(c, k, t, n, l, g, tot),
         t.pc = "send", t.pos # 0, NEW m, m.users = t.users, m.total = t.total, k.end # "none",
         NEW k2, k2.in = k.in, k2.sent = k.sent, k2.deaf = k.deaf, k2.out = k.out \cup {m},
         k2.end = k.end,
         NEW t2, t2.pos = t.pos, t2.pc = "loop"
  PROVE  TalkOK(c, k2, t2, n, l, g, tot)
<1>1. Tally(m.users, m.total, tot)
  BY DEF TalkOK
<1>2. QueueIn(k2, l, g)
  BY DEF TalkOK, QueueIn
<1>3. ASSUME c.pc \in {"typing", "waiting"}
      PROVE  TurnOK(c, k2.in, AnswersIn(k2.out), t2, n)
  <2>1. TurnOK(c, k.in, AnswersIn(k.out), t, n)
    BY <1>3 DEF TalkOK
  <2>2. AnswersIn(k.out) = {}
    BY <2>1 DEF TurnOK, Holding
  <2>3. AnswersIn(k2.out) \subseteq {m}
    BY <2>2 DEF AnswersIn
  <2> HIDE DEF AnswersIn
  <2> QED
    BY <2>1, <2>3 DEF TurnOK, Holding, Alone
<1>4. \A m2 \in k2.out : Tally(m2.users, m2.total, tot)
  BY <1>1 DEF TalkOK
<1> QED
  BY <1>2, <1>3, <1>4 DEF TalkOK

(* What the calls and the other ends do to what a socket has said.         *)
MkSocket(a, b, c, d, e, f) == [in |-> a, out |-> b, sent |-> c, end |-> d, told |-> e, deaf |-> f]

LEMMA SocketFields ==
  /\ \A k : IsSocket(k) => \E a, b, c, d, e, f : k = MkSocket(a, b, c, d, e, f)
  /\ \A a, b, c, d, e, f :
       LET k == MkSocket(a, b, c, d, e, f)
       IN  IsSocket(k) /\ k.in = a /\ k.out = b /\ k.sent = c /\ k.end = d /\ k.deaf = f
BY DEF IsSocket, MkSocket

Only(n, n2, s) == \A u \in Ends \ {s} : n2.sock[u] = n.sock[u]

LEMMA OnlyWith ==
  ASSUME NEW n, IsNet(n), NEW s \in Ends, NEW k, NEW n2, n2 = With(n, s, k)
  PROVE  Only(n, n2, s) /\ n2.sock[s] = k
<1> DEFINE ss == [n.sock EXCEPT ![s] = k]
<1>1. n2 = [sock |-> ss, fds |-> n.fds, backlog |-> n.backlog]
  BY DEF With, IsNet
<1>2. \A u \in Ends : ss[u] = IF u = s THEN k ELSE n.sock[u]
  BY DEF IsNet
<1> HIDE DEF ss
<1>3. n2.sock = ss
  BY <1>1
<1> QED
  BY <1>2, <1>3 DEF Only

(* One field of a socket is replaced. *)
LEMMA InField ==
  ASSUME NEW k, IsSocket(k), NEW x, NEW k2, k2 = [k EXCEPT !.in = x]
  PROVE  IsSocket(k2) /\ k2.in = x /\ k2.out = k.out /\ k2.sent = k.sent /\ k2.end = k.end /\ k2.deaf = k.deaf
<1>1. PICK a, b, c, d, e, f : k = MkSocket(a, b, c, d, e, f)
  BY SocketFields
<1>2. k2 = MkSocket(x, b, c, d, e, f)
  BY <1>1 DEF MkSocket
<1> QED
  BY <1>1, <1>2, SocketFields

LEMMA OutField ==
  ASSUME NEW k, IsSocket(k), NEW x, NEW k2, k2 = [k EXCEPT !.out = x]
  PROVE  IsSocket(k2) /\ k2.in = k.in /\ k2.out = x /\ k2.sent = k.sent /\ k2.end = k.end /\ k2.deaf = k.deaf
<1>1. PICK a, b, c, d, e, f : k = MkSocket(a, b, c, d, e, f)
  BY SocketFields
<1>2. k2 = MkSocket(a, x, c, d, e, f)
  BY <1>1 DEF MkSocket
<1> QED
  BY <1>1, <1>2, SocketFields

LEMMA SentField ==
  ASSUME NEW k, IsSocket(k), NEW x, NEW k2, k2 = [k EXCEPT !.sent = x]
  PROVE  IsSocket(k2) /\ k2.in = k.in /\ k2.out = k.out /\ k2.sent = x /\ k2.end = k.end /\ k2.deaf = k.deaf
<1>1. PICK a, b, c, d, e, f : k = MkSocket(a, b, c, d, e, f)
  BY SocketFields
<1>2. k2 = MkSocket(a, b, x, d, e, f)
  BY <1>1 DEF MkSocket
<1> QED
  BY <1>1, <1>2, SocketFields

LEMMA EndField ==
  ASSUME NEW k, IsSocket(k), NEW x, NEW k2, k2 = [k EXCEPT !.end = x]
  PROVE  IsSocket(k2) /\ k2.in = k.in /\ k2.out = k.out /\ k2.sent = k.sent /\ k2.end = x /\ k2.deaf = k.deaf
<1>1. PICK a, b, c, d, e, f : k = MkSocket(a, b, c, d, e, f)
  BY SocketFields
<1>2. k2 = MkSocket(a, b, c, x, e, f)
  BY <1>1 DEF MkSocket
<1> QED
  BY <1>1, <1>2, SocketFields

LEMMA ToldField ==
  ASSUME NEW k, IsSocket(k), NEW x, NEW k2, k2 = [k EXCEPT !.told = x]
  PROVE  /\ k2.in = k.in /\ k2.out = k.out /\ k2.sent = k.sent /\ k2.end = k.end /\ k2.deaf = k.deaf
<1>1. PICK a, b, c, d, e, f : k = MkSocket(a, b, c, d, e, f)
  BY SocketFields
<1>2. k2 = MkSocket(a, b, c, d, x, f)
  BY <1>1 DEF MkSocket
<1> QED
  BY <1>1, <1>2, SocketFields

(* The socket s appends m to what is to be received from it. *)
Says(k, k2, m) == /\ k2.in = Append(k.in, m) /\ k2.sent = k.sent + 1
                  /\ k2.out = k.out /\ k2.deaf = k.deaf /\ k2.end = k.end
Goes(k, k2, how) == /\ k2.in = k.in /\ k2.sent = k.sent
                    /\ k2.out = k.out /\ k2.deaf = k.deaf /\ k2.end = how
Hears(k, k2, out) == /\ k2.in = k.in /\ k2.sent = k.sent
                     /\ k2.out = out /\ k2.deaf = k.deaf /\ k2.end = k.end
Loses(k, k2) == /\ k2.in = Tail(k.in) /\ k2.sent = k.sent
                /\ k2.out = k.out /\ k2.deaf = k.deaf /\ k2.end = k.end

LEMMA PeerSays ==
  ASSUME IsNet(net), NEW s \in Ends, NEW m, PeerSends(s, m)
  PROVE  /\ net.sock[s].end = "open" /\ Only(net, net', s) /\ Says(net.sock[s], net'.sock[s], m)
<1> DEFINE k == net.sock[s]
<1>1. PICK x, y : x = Append(k.in, m) /\ y = k.sent + 1
  OBVIOUS
<1>2. IsSocket(k) /\ k.end = "open"
  BY DEF IsNet, PeerSends
<1>3. PICK k1, k2 : k1 = [k EXCEPT !.in = x] /\ k2 = [k1 EXCEPT !.sent = y]
  OBVIOUS
<1>4. net' = With(net, s, k2)
  BY <1>1, <1>3 DEF PeerSends, With, IsNet
<1>5. Only(net, net', s) /\ net'.sock[s] = k2
  BY <1>4, OnlyWith
<1> HIDE DEF k
<1>6. k2.in = x /\ k2.out = k.out /\ k2.sent = y /\ k2.deaf = k.deaf /\ k2.end = k.end
  BY <1>2, <1>3, InField, SentField
<1> QED
  BY <1>1, <1>2, <1>5, <1>6 DEF Says, k

LEMMA PeerGoes ==
  ASSUME IsNet(net), NEW s \in Ends, NEW how, PeerEnds(s, how)
  PROVE  /\ net.sock[s].end = "open" /\ Only(net, net', s) /\ Goes(net.sock[s], net'.sock[s], how)
<1> DEFINE k == net.sock[s]
<1>2. IsSocket(k) /\ k.end = "open"
  BY DEF IsNet, PeerEnds
<1>3. PICK k2 : k2 = [k EXCEPT !.end = how]
  OBVIOUS
<1>4. net' = With(net, s, k2)
  BY <1>3 DEF PeerEnds, With
<1>5. Only(net, net', s) /\ net'.sock[s] = k2
  BY <1>4, OnlyWith
<1> HIDE DEF k
<1>6. k2.in = k.in /\ k2.out = k.out /\ k2.sent = k.sent /\ k2.deaf = k.deaf /\ k2.end = how
  BY <1>2, <1>3, EndField
<1> QED
  BY <1>2, <1>5, <1>6 DEF Goes, k

LEMMA PeerArrives ==
  ASSUME IsNet(net), NEW i \in Conns, Arrives(i)
  PROVE  /\ net.sock[Client(i)].end = "none" /\ Only(net, net', Client(i))
         /\ Goes(net.sock[Client(i)], net'.sock[Client(i)], "open")
<1> DEFINE s == Client(i)
           k == net.sock[s]
           b == Append(net.backlog, s)
           n2 == net'
<1>1. s \in Ends /\ IsSocket(k) /\ k.end = "none"
  BY EndsFacts DEF IsNet, Arrives
<1>2. PICK k2 : k2 = [k EXCEPT !.end = "open"]
  OBVIOUS
<1>3. PICK m : m = With(net, s, k2)
  OBVIOUS
<1>4. n2 = [m EXCEPT !.backlog = b]
  BY <1>2, <1>3 DEF Arrives, With
<1>5. Only(net, m, s) /\ m.sock[s] = k2
  BY <1>1, <1>3, OnlyWith
<1>6. n2.sock = m.sock
  <2>1. \E x, y, z : m = [sock |-> x, fds |-> y, backlog |-> z]
    BY <1>3 DEF With, IsNet
  <2> HIDE DEF b, n2
  <2> QED
    BY <1>4, <2>1
<1> HIDE DEF k, n2
<1>7. k2.in = k.in /\ k2.out = k.out /\ k2.sent = k.sent /\ k2.deaf = k.deaf /\ k2.end = "open"
  BY <1>1, <1>2, EndField
<1> QED
  BY <1>1, <1>5, <1>6, <1>7 DEF Goes, Only, k, n2

LEMMA OutReplaced ==
  ASSUME NEW n, IsNet(n), NEW s \in Ends, NEW x, NEW n2, n2 = [n EXCEPT !.sock[s].out = x]
  PROVE  Only(n, n2, s) /\ Hears(n.sock[s], n2.sock[s], x)
<1> DEFINE k == n.sock[s]
<1>1. IsSocket(k)
  BY DEF IsNet
<1>2. PICK k2 : k2 = [k EXCEPT !.out = x]
  OBVIOUS
<1>3. n2 = With(n, s, k2)
  BY <1>2 DEF With
<1>4. Only(n, n2, s) /\ n2.sock[s] = k2
  <2>1. PICK m : m = With(n, s, k2)
    OBVIOUS
  <2>2. Only(n, m, s) /\ m.sock[s] = k2
    BY <2>1, OnlyWith
  <2> QED
    BY <1>3, <2>1, <2>2
<1> HIDE DEF k
<1>5. k2.in = k.in /\ k2.out = x /\ k2.sent = k.sent /\ k2.deaf = k.deaf /\ k2.end = k.end
  BY <1>1, <1>2, OutField
<1> QED
  BY <1>4, <1>5 DEF Hears, k

LEMMA OneTaken ==
  ASSUME NEW n, IsNet(n), NEW s \in Ends, NEW n2, n2 = Taken(n, s)
  PROVE  Only(n, n2, s) /\ Loses(n.sock[s], n2.sock[s])
<1> DEFINE k == n.sock[s]
<1>1. IsSocket(k)
  BY DEF IsNet
<1>2. PICK x : x = Tail(k.in)
  OBVIOUS
<1>3. PICK k2 : k2 = [k EXCEPT !.in = x]
  OBVIOUS
<1>4. n2 = With(n, s, k2)
  BY <1>2, <1>3 DEF With, Taken
<1>5. Only(n, n2, s) /\ n2.sock[s] = k2
  BY <1>4, OnlyWith
<1> HIDE DEF k
<1>6. k2.in = x /\ k2.out = k.out /\ k2.sent = k.sent /\ k2.deaf = k.deaf /\ k2.end = k.end
  BY <1>1, <1>3, InField
<1> QED
  BY <1>2, <1>5, <1>6 DEF Loses, k

(* Nothing is said by close() and by the end of the process. *)
Quiet(n, n2) == \A s \in Ends : SameSays(n.sock[s], n2.sock[s])

LEMMA ToldSays ==
  ASSUME NEW k, IsSocket(k), NEW k2, k2 = [k EXCEPT !.told = TRUE]
  PROVE  SameSays(k, k2)
<1>1. PICK x : x = TRUE
  OBVIOUS
<1>2. k2 = [k EXCEPT !.told = x]
  BY <1>1
<1>3. k2.in = k.in /\ k2.out = k.out /\ k2.sent = k.sent /\ k2.deaf = k.deaf /\ k2.end = k.end
  BY <1>2, ToldField
<1> QED
  BY <1>3 DEF SameSays

LEMMA CloseQuiet ==
  ASSUME NEW n, IsNet(n), NEW f, NEW n2, n2 = close(n, f)
  PROVE  Quiet(n, n2)
<1>1. CASE ~IsOpen(n, f)
  BY <1>1 DEF close, Quiet, SameSays
<1>2. CASE IsOpen(n, f)
  <2> DEFINE u == n.fds[f]
  <2>1. u \in Ends /\ IsSocket(n.sock[u])
    BY <1>2 DEF IsOpen, IsNet
  <2>2. PICK k2 : k2 = [n.sock[u] EXCEPT !.told = TRUE]
    OBVIOUS
  <2>3. PICK m, t2 : m = With(n, u, k2) /\ t2 = [n.fds EXCEPT ![f] = Free]
    OBVIOUS
  <2>4. n2 = [m EXCEPT !.fds = t2]
    BY <1>2, <2>2, <2>3 DEF close, With, IsNet
  <2> HIDE DEF u
  <2>5. Only(n, m, u) /\ m.sock[u] = k2
    BY <2>1, <2>3, OnlyWith
  <2>6. n2.sock = m.sock
    <3>1. \E x, y, z : m = [sock |-> x, fds |-> y, backlog |-> z]
      BY <2>3 DEF With, IsNet
    <3> QED
      BY <2>4, <3>1
  <2>7. SameSays(n.sock[u], k2)
    BY <2>1, <2>2, ToldSays
  <2> QED
    BY <2>1, <2>5, <2>6, <2>7 DEF Quiet, Only, SameSays
<1> QED
  BY <1>1, <1>2

LEMMA EndedQuiet ==
  ASSUME NEW n, IsNet(n), NEW n2, n2 = Ended(n)
  PROVE  Quiet(n, n2)
<1> DEFINE ss == [s \in Ends |-> [n.sock[s] EXCEPT !.told = TRUE]]
           t2 == [f \in 1 .. MaxFd |-> Free]
           m == [n EXCEPT !.fds = t2]
<1>1. m = [sock |-> n.sock, fds |-> t2, backlog |-> n.backlog]
  <2> HIDE DEF t2
  <2> QED
    BY DEF IsNet
<1>2. n2 = [m EXCEPT !.sock = ss]
  BY DEF Ended, IsNet
<1>3. ASSUME NEW s \in Ends PROVE SameSays(n.sock[s], ss[s])
  <2>1. IsSocket(n.sock[s])
    BY DEF IsNet
  <2>2. ss[s] = [n.sock[s] EXCEPT !.told = TRUE]
    OBVIOUS
  <2> HIDE DEF ss
  <2> QED
    BY <2>1, <2>2, ToldSays
<1> HIDE DEF ss, t2, m
<1>4. n2 = [sock |-> ss, fds |-> t2, backlog |-> n.backlog]
  BY <1>1, <1>2
<1> QED
  BY <1>3, <1>4 DEF Quiet

(* send(): the message is there, or nothing is said. *)
LEMMA SendSays ==
  ASSUME NEW n, IsNet(n), NEW f, NEW s \in Ends, n.fds[f] = s, NEW m, NEW r \in send(n, f, m)
  PROVE  /\ Only(n, r.net, s)
         /\ \/ SameSays(n.sock[s], r.net.sock[s])
            \/ Hears(n.sock[s], r.net.sock[s], n.sock[s].out \cup {m})
<1> DEFINE x == n.sock[s].out \cup {m}
           sent == [n EXCEPT !.sock[n.fds[f]].out = @ \cup {m}]
           reset == [n EXCEPT !.sock[n.fds[f]].end = "rst"]
<1>1. Only(n, sent, s) /\ Hears(n.sock[s], sent.sock[s], x)
  <2>1. sent = [n EXCEPT !.sock[s].out = x]
    OBVIOUS
  <2> HIDE DEF sent, x
  <2> QED
    BY <2>1, OutReplaced
<1>2. ASSUME n.sock[s].end = "fin"
      PROVE  Only(n, reset, s) /\ SameSays(n.sock[s], reset.sock[s])
  <2> DEFINE k == n.sock[s]
  <2>1. IsSocket(k) /\ k.end = "fin"
    BY <1>2 DEF IsNet
  <2>2. PICK k2, y : y = "rst" /\ k2 = [k EXCEPT !.end = y]
    OBVIOUS
  <2>3. reset = With(n, s, k2)
    BY <2>2 DEF With
  <2> HIDE DEF reset
  <2>4. Only(n, reset, s) /\ reset.sock[s] = k2
    BY <2>3, OnlyWith
  <2> HIDE DEF k
  <2>5. k2.in = k.in /\ k2.out = k.out /\ k2.sent = k.sent /\ k2.deaf = k.deaf /\ k2.end = y
    BY <2>1, <2>2, EndField
  <2>6. SameSays(k, k2)
    BY <2>1, <2>2, <2>5 DEF SameSays
  <2> QED
    BY <2>4, <2>6 DEF k
<1>3. \/ r.net = n \/ r.net = sent \/ (r.net = reset /\ n.sock[s].end = "fin")
  <2> DEFINE C1 == {[ret |-> "failed", net |-> n]}
             C2 == {[ret |-> q, net |-> n] : q \in {"failed", "killed"}}
             C3 == {[ret |-> "sent", net |-> sent], [ret |-> "sent", net |-> reset]}
             C4 == {[ret |-> "sent", net |-> sent]}
             told == n.sock[n.fds[f]].told \/ n.sock[n.fds[f]].end = "rst"
             fin == n.sock[n.fds[f]].end = "fin"
  <2>1. send(n, f, m) = IF ~IsOpen(n, f) THEN C1 ELSE IF told THEN C2 ELSE IF fin THEN C3 ELSE C4
    BY DEF send
  <2> HIDE DEF C1, C2, C3, C4, told
  <2>2. r \in C1 \/ r \in C2 \/ (fin /\ r \in C3) \/ r \in C4
    BY <2>1
  <2> HIDE DEF sent, reset
  <2> QED
    BY <2>2 DEF C1, C2, C3, C4
<1>4. Only(n, n, s) /\ SameSays(n.sock[s], n.sock[s])
  BY DEF Only, SameSays
<1> HIDE DEF sent, reset, x
<1> QED
  BY <1>1, <1>2, <1>3, <1>4 DEF x
-----------------------------------------------------------------------------
(***************************************************************************)
(* The echo servers: the counts.                                           *)
(***************************************************************************)
IsClient(c) == c = [pc |-> c.pc, addr |-> c.addr, asks |-> c.asks, asked |-> c.asked,
                    answers |-> c.answers, users |-> c.users, total |-> c.total]
ClientsOK == cli = [i \in Conns |-> cli[i]] /\ \A i \in Conns : IsClient(cli[i])

Tallied(rows, pos) == IF pos = 0 THEN 0 ELSE rows[pos].count
TalksAs(i, c, t) == TalkOK(c, net.sock[Client(i)], t, Tallied(cfds, t.pos),
                           GreetingsLeft(t.pc), Greeting, total_echo)

(* As long as no session goes on with the row of another, each client and  *)
(* its thread have said to each other what the counts say.                 *)
CountOK == /\ Summed(cfds, total_echo) /\ ClientsOK
           /\ \A i \in Conns : eth[i].pc \in Rowed => eth[i].pos # 0
           /\ RowsAreOwn => \A i \in Conns : TalksAs(i, cli[i], eth[i])

MkClient(a, b, c, d, e, f, g) ==
  [pc |-> a, addr |-> b, asks |-> c, asked |-> d, answers |-> e, users |-> f, total |-> g]

LEMMA ClientFields ==
  /\ \A x : IsClient(x) => \E a, b, c, d, e, f, g : x = MkClient(a, b, c, d, e, f, g)
  /\ \A a, b, c, d, e, f, g :
       LET x == MkClient(a, b, c, d, e, f, g)
       IN  IsClient(x) /\ x.pc = a /\ x.answers = e /\ x.users = f /\ x.total = g
BY DEF IsClient, MkClient

(* A client's step. *)
LEMMA ClientSays ==
  ASSUME CountOK, program' = program, NEW i \in Conns, NEW c, IsClient(c),
         cfds' = cfds, total_echo' = total_echo, eth' = eth, cli' = [cli EXCEPT ![i] = c],
         Only(net, net', Client(i)),
         RowsAreOwn => TalkOK(c, net'.sock[Client(i)], eth[i], Tallied(cfds, eth[i].pos),
                              GreetingsLeft(eth[i].pc), Greeting, total_echo)
  PROVE  CountOK'
<1>1. \A j \in Conns : cli'[j] = IF j = i THEN c ELSE cli[j]
  BY DEF CountOK, ClientsOK
<1>2. ClientsOK'
  BY <1>1 DEF CountOK, ClientsOK
<1>3. RowsAreOwn' <=> RowsAreOwn
  BY DEF RowsAreOwn
<1>4. ASSUME RowsAreOwn, NEW j \in Conns PROVE TalksAs(j, cli[j], eth[j])'
  <2>0. \A pc : GreetingsLeft(pc)' = GreetingsLeft(pc) /\ Greeting' = Greeting
    BY DEF GreetingsLeft, Greeting
  <2>1. CASE j = i
    <3>1. cli'[j] = c /\ eth'[j] = eth[i] /\ GreetingsLeft(eth[j].pc)' = GreetingsLeft(eth[i].pc)
      BY <1>1, <2>0, <2>1
    <3>2. TalkOK(c, net'.sock[Client(i)], eth[i], Tallied(cfds, eth[i].pos),
                 GreetingsLeft(eth[i].pc), Greeting, total_echo)
      BY <1>4
    <3> QED
      BY <2>0, <2>1, <3>1, <3>2 DEF TalksAs, Tallied
  <2>2. CASE j # i
    <3>1. /\ cli'[j] = cli[j] /\ eth'[j] = eth[j] /\ net'.sock[Client(j)] = net.sock[Client(j)]
      BY <1>1, <2>2, EndsFacts DEF Only
    <3>2. TalksAs(j, cli[j], eth[j])
      BY <1>4 DEF CountOK
    <3> QED
      BY <2>0, <3>1, <3>2 DEF TalksAs, Tallied
  <2> QED
    BY <2>1, <2>2
<1> QED
  BY <1>2, <1>3, <1>4 DEF CountOK

(* A thread's step. *)
LEMMA ThreadSays ==
  ASSUME EchoOK, CountOK, program' = program, NEW i \in Conns, NEW t,
         eth' = [eth EXCEPT ![i] = t], cli' = cli,
         Summed(cfds', total_echo'), total_echo <= total_echo',
         t.pc \in Rowed => t.pos # 0, eth[i].pos # 0 => t.pos = eth[i].pos,
         RowsAreOwn' /\ RowsAreOwn =>
           /\ \A j \in Conns \ {i} : /\ SameSays(net.sock[Client(j)], net'.sock[Client(j)])
                                     /\ Tallied(cfds', eth[j].pos) = Tallied(cfds, eth[j].pos)
           /\ TalkOK(cli[i], net'.sock[Client(i)], t, Tallied(cfds', t.pos),
                     GreetingsLeft(t.pc), Greeting, total_echo')
  PROVE  CountOK'
<1>1. \A j \in Conns : eth'[j] = IF j = i THEN t ELSE eth[j]
  BY DEF EchoOK, RowsOK
<1>2. RowsAreOwn' => RowsAreOwn
  BY <1>1 DEF RowsAreOwn
<1>3. \A j \in Conns : eth'[j].pc \in Rowed => eth'[j].pos # 0
  BY <1>1 DEF CountOK
<1>4. total_echo' \in Nat
  BY SummedFacts
<1>5. ASSUME RowsAreOwn', NEW j \in Conns PROVE TalksAs(j, cli[j], eth[j])'
  <2>0. \A pc : GreetingsLeft(pc)' = GreetingsLeft(pc) /\ Greeting' = Greeting
    BY DEF GreetingsLeft, Greeting
  <2>1. CASE j = i
    <3>1. cli'[j] = cli[i] /\ eth'[j] = t
      BY <1>1, <2>1
    <3>2. TalkOK(cli[i], net'.sock[Client(i)], t, Tallied(cfds', t.pos),
                 GreetingsLeft(t.pc), Greeting, total_echo')
      BY <1>2, <1>5
    <3>3. GreetingsLeft(t.pc)' = GreetingsLeft(eth'[j].pc)
      BY <2>0, <3>1
    <3> QED
      BY <2>0, <2>1, <3>1, <3>2 DEF TalksAs, Tallied
  <2>2. CASE j # i
    <3>1. PICK k2, e : k2 = net'.sock[Client(j)] /\ e = eth[j]
      OBVIOUS
    <3>2. eth'[j] = e /\ SameSays(net.sock[Client(j)], k2) /\ Tallied(cfds', e.pos) = Tallied(cfds, e.pos)
      BY <1>1, <1>2, <1>5, <2>2, <3>1
    <3>3. TalkOK(cli[j], net.sock[Client(j)], e, Tallied(cfds, e.pos), GreetingsLeft(e.pc), Greeting,
                 total_echo)
      BY <1>2, <1>5, <3>1 DEF CountOK, TalksAs
    <3>4. TalkOK(cli[j], k2, e, Tallied(cfds, e.pos), GreetingsLeft(e.pc), Greeting, total_echo')
      BY <1>4, <3>2, <3>3, TalkKept
    <3> QED
      BY <2>0, <3>1, <3>2, <3>4 DEF TalksAs, Tallied
  <2> QED
    BY <2>1, <2>2
<1> QED
  BY <1>2, <1>3, <1>5 DEF CountOK, ClientsOK

(* The client programs. *)
Idles == cfds' = cfds /\ total_echo' = total_echo /\ eth' = eth /\ program' = program

LEMMA StartsSays ==
  ASSUME EchoOK, CountOK, program \in EchoPrograms, Idles, NEW i \in Conns, NEW visits,
         Starts(i, visits)
  PROVE  CountOK'
<1>1. PICK v \in visits : Becomes(i, [NoClient EXCEPT !.pc = "typing", !.addr = v[i].addr, !.asks = v[i].asks])
  BY DEF Starts
<1>2. PICK c : c = [NoClient EXCEPT !.pc = "typing", !.addr = v[i].addr, !.asks = v[i].asks]
  OBVIOUS
<1>3. c = MkClient("typing", v[i].addr, v[i].asks, 0, 0, 0, 0)
  BY <1>2 DEF NoClient, MkClient
<1>4. IsClient(c) /\ c.answers = 0 /\ c.users = 0 /\ c.total = 0 /\ cli' = [cli EXCEPT ![i] = c]
  <2>1. IsClient(c) /\ c.answers = 0 /\ c.users = 0 /\ c.total = 0
    BY <1>3, ClientFields
  <2>2. cli' = [cli EXCEPT ![i] = c]
    BY <1>1, <1>2 DEF Becomes
  <2> QED
    BY <2>1, <2>2
<1>5. IsNet(net) /\ Arrives(i)
  BY DEF EchoOK, Starts
<1>6. /\ net.sock[Client(i)].end = "none" /\ Only(net, net', Client(i))
      /\ Goes(net.sock[Client(i)], net'.sock[Client(i)], "open")
  BY <1>5, PeerArrives
<1>7. eth[i].pc = "none" /\ eth[i].pos = 0
  BY <1>6 DEF EchoOK, EchoThreadOK
<1>8. GreetingsLeft(eth[i].pc) = Greeting
  BY <1>7 DEF GreetingsLeft, Greeting, EchoPrograms
<1>9. ASSUME RowsAreOwn
      PROVE  TalkOK(c, net'.sock[Client(i)], eth[i], Tallied(cfds, eth[i].pos),
                    GreetingsLeft(eth[i].pc), Greeting, total_echo)
  <2>1. TalkOK(cli[i], net.sock[Client(i)], eth[i], Tallied(cfds, eth[i].pos),
               GreetingsLeft(eth[i].pc), Greeting, total_echo)
    BY <1>9 DEF CountOK, TalksAs
  <2>2. PICK k, k2, t : k = net.sock[Client(i)] /\ k2 = net'.sock[Client(i)] /\ t = eth[i]
    OBVIOUS
  <2>3. Goes(k, k2, "open") /\ k.end = "none" /\ t.pc = "none" /\ t.pos = 0
    BY <1>6, <1>7, <2>2
  <2> QED
    BY <1>4, <1>8, <2>1, <2>2, <2>3, TalkArrives DEF Goes, Holding
<1> QED
  BY <1>4, <1>6, <1>9, ClientSays DEF Idles

(* The client is done, or its connection is. *)
LEMMA LeavesSays ==
  ASSUME EchoOK, CountOK, Idles, NEW i \in Conns, NEW pc, pc \notin {"typing", "waiting"},
         Becomes(i, [cli[i] EXCEPT !.pc = pc]),
         \/ \E how \in {"fin", "rst"} : PeerEnds(Client(i), how)
         \/ PeerSends(Client(i), "notify") /\ (RowsAreOwn => ~(net.sock[Client(i)].sent < Greeting))
  PROVE  CountOK'
<1>1. PICK o, c : o = cli[i] /\ c = [o EXCEPT !.pc = pc]
  OBVIOUS
<1>2. IsClient(o)
  BY <1>1 DEF CountOK, ClientsOK
<1>3. PICK a, b, d, e, f, g, h : o = MkClient(a, b, d, e, f, g, h)
  BY <1>2, ClientFields
<1>4. c = MkClient(pc, b, d, e, f, g, h)
  BY <1>1, <1>3 DEF MkClient
<1>5. IsClient(c) /\ c.pc = pc /\ SameClient(o, c) /\ cli' = [cli EXCEPT ![i] = c]
  BY <1>1, <1>3, <1>4, ClientFields DEF Becomes, SameClient
<1>6. IsNet(net) /\ Client(i) \in Ends
  BY EndsFacts DEF EchoOK
<1>7. PICK k, k2 : k = net.sock[Client(i)] /\ k2 = net'.sock[Client(i)]
  OBVIOUS
<1>8. /\ Only(net, net', Client(i)) /\ k.end = "open"
      /\ \/ \E how \in {"fin", "rst"} : Goes(k, k2, how)
         \/ Says(k, k2, "notify") /\ (RowsAreOwn => ~(k.sent < Greeting))
  <2>1. CASE \E how \in {"fin", "rst"} : PeerEnds(Client(i), how)
    BY <1>6, <1>7, <2>1, PeerGoes
  <2>2. CASE PeerSends(Client(i), "notify") /\ (RowsAreOwn => ~(net.sock[Client(i)].sent < Greeting))
    BY <1>6, <1>7, <2>2, PeerSays
  <2> QED
    BY <2>1, <2>2
<1>9. ASSUME RowsAreOwn
      PROVE  TalkOK(c, net'.sock[Client(i)], eth[i], Tallied(cfds, eth[i].pos),
                    GreetingsLeft(eth[i].pc), Greeting, total_echo)
  <2>1. TalkOK(o, k, eth[i], Tallied(cfds, eth[i].pos),
               GreetingsLeft(eth[i].pc), Greeting, total_echo)
    BY <1>1, <1>7, <1>9 DEF CountOK, TalksAs
  <2>2. /\ k2.out = k.out /\ k2.deaf = k.deaf
        /\ \/ k2.in = k.in /\ k2.sent = k.sent /\ k2.end \in {"fin", "rst"}
           \/ /\ k2.in = Append(k.in, "notify") /\ k2.sent = k.sent + 1 /\ ~(k.sent < Greeting)
              /\ k2.end = k.end
    BY <1>8, <1>9 DEF Goes, Says
  <2>3. TalkOK(c, k2, eth[i], Tallied(cfds, eth[i].pos),
               GreetingsLeft(eth[i].pc), Greeting, total_echo)
    BY <1>5, <1>8, <2>1, <2>2, TalkEnds
  <2> QED
    BY <1>7, <2>3
<1> QED
  BY <1>5, <1>8, <1>9, ClientSays DEF Idles

LEMMA AsksSays ==
  ASSUME EchoOK, CountOK, Idles, NEW i \in Conns, NEW m \in Texts, Asks(i, m),
         RowsAreOwn => ~(net.sock[Client(i)].sent < Greeting)
  PROVE  CountOK'
<1>1. PICK o, n, c : o = cli[i] /\ n = o.asked + 1 /\ c = [o EXCEPT !.pc = "waiting", !.asked = n]
  OBVIOUS
<1>2. IsClient(o) /\ o.pc = "typing"
  BY <1>1 DEF CountOK, ClientsOK, Asks, Types
<1>3. PICK a, b, d, e, f, g, h : o = MkClient(a, b, d, e, f, g, h)
  BY <1>2, ClientFields
<1>4. c = MkClient("waiting", b, d, n, f, g, h)
  <2>1. PICK c1 : c1 = [o EXCEPT !.pc = "waiting"]
    OBVIOUS
  <2>2. c1 = MkClient("waiting", b, d, e, f, g, h)
    BY <1>3, <2>1 DEF MkClient
  <2>3. c = [c1 EXCEPT !.asked = n]
    BY <1>1, <2>1
  <2> QED
    BY <2>2, <2>3 DEF MkClient
<1>5. IsClient(c) /\ c.pc = "waiting" /\ SameClient(o, c)
  BY <1>3, <1>4, ClientFields DEF SameClient
<1>6. cli' = [cli EXCEPT ![i] = c]
  <2>1. cli' = [cli EXCEPT ![i] = [o EXCEPT !.pc = "waiting", !.asked = @ + 1]]
    BY <1>1 DEF Asks, Becomes
  <2> QED
    BY <1>1, <2>1
<1>7. IsNet(net) /\ Client(i) \in Ends
  BY EndsFacts DEF EchoOK
<1>8. PICK k, k2 : k = net.sock[Client(i)] /\ k2 = net'.sock[Client(i)]
  OBVIOUS
<1>9. Only(net, net', Client(i)) /\ k.end = "open" /\ Says(k, k2, m)
  BY <1>7, <1>8, PeerSays DEF Asks
<1>10. ASSUME RowsAreOwn
       PROVE  TalkOK(c, net'.sock[Client(i)], eth[i], Tallied(cfds, eth[i].pos),
                     GreetingsLeft(eth[i].pc), Greeting, total_echo)
  <2>1. TalkOK(o, k, eth[i], Tallied(cfds, eth[i].pos),
               GreetingsLeft(eth[i].pc), Greeting, total_echo)
    BY <1>1, <1>8, <1>10 DEF CountOK, TalksAs
  <2>2. /\ k2.out = k.out /\ k2.deaf = k.deaf /\ k2.in = Append(k.in, m) /\ k2.sent = k.sent + 1
        /\ k2.end = k.end /\ ~(k.sent < Greeting)
    BY <1>8, <1>9, <1>10 DEF Says
  <2>3. TalkOK(c, k2, eth[i], Tallied(cfds, eth[i].pos),
               GreetingsLeft(eth[i].pc), Greeting, total_echo)
    BY <1>2, <1>5, <1>9, <2>1, <2>2, TalkAsks
  <2> QED
    BY <1>8, <2>3
<1> QED
  BY <1>5, <1>6, <1>9, <1>10, ClientSays DEF Idles

LEMMA GreetsSays ==
  ASSUME EchoOK, CountOK, Idles, NEW i \in Conns, NEW m \in Greetings,
         PeerSends(Client(i), m), cli' = cli, net.sock[Client(i)].sent < Greeting
  PROVE  CountOK'
<1>1. PICK c : c = cli[i]
  OBVIOUS
<1>2. IsClient(c) /\ cli' = [cli EXCEPT ![i] = c]
  BY <1>1 DEF CountOK, ClientsOK
<1>3. IsNet(net) /\ Client(i) \in Ends
  BY EndsFacts DEF EchoOK
<1>4. PICK k, k2 : k = net.sock[Client(i)] /\ k2 = net'.sock[Client(i)]
  OBVIOUS
<1>5. Only(net, net', Client(i)) /\ k.end = "open" /\ Says(k, k2, m)
  BY <1>3, <1>4, PeerSays
<1>6. ASSUME RowsAreOwn
      PROVE  TalkOK(c, net'.sock[Client(i)], eth[i], Tallied(cfds, eth[i].pos),
                    GreetingsLeft(eth[i].pc), Greeting, total_echo)
  <2>1. TalkOK(c, k, eth[i], Tallied(cfds, eth[i].pos),
               GreetingsLeft(eth[i].pc), Greeting, total_echo)
    BY <1>1, <1>4, <1>6 DEF CountOK, TalksAs
  <2>2. /\ k2.out = k.out /\ k2.deaf = k.deaf /\ k2.in = Append(k.in, m) /\ k2.sent = k.sent + 1
        /\ k2.end = k.end /\ k.sent < Greeting
    BY <1>4, <1>5 DEF Says
  <2>3. TalkOK(c, k2, eth[i], Tallied(cfds, eth[i].pos),
               GreetingsLeft(eth[i].pc), Greeting, total_echo)
    BY <1>5, <2>1, <2>2, TalkGreets
  <2> QED
    BY <1>4, <2>3
<1> QED
  BY <1>2, <1>5, <1>6, ClientSays DEF Idles

LEMMA AnswerSays ==
  ASSUME EchoOK, CountOK, Idles, NEW i \in Conns, GetsAnswer(i)
  PROVE  CountOK'
<1>1. PICK m : /\ m \in Answers(i)
               /\ net' = [net EXCEPT !.sock[Client(i)].out = @ \ {m}]
               /\ Becomes(i, [cli[i] EXCEPT !.pc = "typing", !.answers = @ + 1,
                                            !.users = m.users, !.total = m.total])
  BY DEF GetsAnswer
<1>2. PICK o, n, c : /\ o = cli[i] /\ n = o.answers + 1
                     /\ c = [o EXCEPT !.pc = "typing", !.answers = n, !.users = m.users,
                                      !.total = m.total]
  OBVIOUS
<1>3. IsClient(o) /\ o.pc = "waiting"
  BY <1>2 DEF CountOK, ClientsOK, GetsAnswer
<1>4. PICK a, b, d, e, f, g, h : o = MkClient(a, b, d, e, f, g, h)
  BY <1>3, ClientFields
<1>5. c = MkClient("typing", b, d, e, n, m.users, m.total)
  <2>1. PICK u, v : u = m.users /\ v = m.total
    OBVIOUS
  <2>2. PICK c1 : c1 = [o EXCEPT !.pc = "typing"]
    OBVIOUS
  <2>3. PICK c2 : c2 = [c1 EXCEPT !.answers = n]
    OBVIOUS
  <2>4. PICK c3 : c3 = [c2 EXCEPT !.users = u]
    OBVIOUS
  <2>5. c = [c3 EXCEPT !.total = v]
    BY <1>2, <2>1, <2>2, <2>3, <2>4
  <2>6. c1 = MkClient("typing", b, d, e, f, g, h)
    BY <1>4, <2>2 DEF MkClient
  <2>7. c2 = MkClient("typing", b, d, e, n, g, h)
    BY <2>3, <2>6 DEF MkClient
  <2>8. c3 = MkClient("typing", b, d, e, n, u, h)
    BY <2>4, <2>7 DEF MkClient
  <2>9. c = MkClient("typing", b, d, e, n, u, v)
    BY <2>5, <2>8 DEF MkClient
  <2> QED
    BY <2>1, <2>9
<1>6. IsClient(c) /\ c.pc = "typing" /\ c.answers = n /\ c.users = m.users /\ c.total = m.total
  BY <1>5, ClientFields
<1>7. cli' = [cli EXCEPT ![i] = c]
  <2>1. cli' = [cli EXCEPT ![i] = [o EXCEPT !.pc = "typing", !.answers = @ + 1,
                                            !.users = m.users, !.total = m.total]]
    BY <1>1, <1>2 DEF Becomes
  <2> QED
    BY <1>2, <2>1
<1>8. IsNet(net) /\ Client(i) \in Ends
  BY EndsFacts DEF EchoOK
<1>9. PICK k, k2, n2, s : k = net.sock[s] /\ k2 = n2.sock[s] /\ n2 = net' /\ s = Client(i)
  OBVIOUS
<1>10. Only(net, n2, s) /\ Hears(k, k2, k.out \ {m})
  <2>1. PICK x : x = k.out \ {m}
    OBVIOUS
  <2>2. n2 = [net EXCEPT !.sock[s].out = x]
    BY <1>1, <1>9, <2>1
  <2>3. Only(net, n2, s) /\ Hears(net.sock[s], n2.sock[s], x)
    BY <1>8, <1>9, <2>2, OutReplaced
  <2> QED
    BY <1>9, <2>1, <2>3
<1>11. m \in AnswersIn(k.out)
  BY <1>1, <1>9 DEF Answers, AnswersIn
<1>12. ASSUME RowsAreOwn
       PROVE  TalkOK(c, net'.sock[Client(i)], eth[i], Tallied(cfds, eth[i].pos),
                     GreetingsLeft(eth[i].pc), Greeting, total_echo)
  <2>1. TalkOK(o, k, eth[i], Tallied(cfds, eth[i].pos),
               GreetingsLeft(eth[i].pc), Greeting, total_echo)
    BY <1>2, <1>9, <1>12 DEF CountOK, TalksAs
  <2>2. /\ k2.in = k.in /\ k2.out = k.out \ {m} /\ k2.sent = k.sent /\ k2.deaf = k.deaf
        /\ k2.end = k.end
    BY <1>10 DEF Hears
  <2>3. TalkOK(c, k2, eth[i], Tallied(cfds, eth[i].pos),
               GreetingsLeft(eth[i].pc), Greeting, total_echo)
    <3>1. c.answers = o.answers + 1
      BY <1>2, <1>6
    <3> QED
      BY <1>3, <1>6, <1>11, <2>1, <2>2, <3>1, TalkAnswered
  <2> QED
    BY <1>9, <2>3
<1>13. Only(net, net', Client(i))
  BY <1>9, <1>10
<1> QED
  BY <1>6, <1>7, <1>12, <1>13, ClientSays DEF Idles

LEMMA ProgramsSay ==
  ASSUME EchoOK, CountOK, program' = program,
         \/ program = "echo" /\ EchoClients
         \/ program = "tls" /\ TlsClients
         \/ program = "aes" /\ AesClients
  PROVE  CountOK'
<1>1. Idles /\ program \in EchoPrograms
  BY DEF Idles, EchoClients, TlsClients, AesClients, EchoPrograms
<1>2. RowsAreOwn => \A i \in Conns : net.sock[Client(i)].sent \in Nat
  BY DEF CountOK, TalksAs, TalkOK, QueueIn
<1>3. /\ program = "echo" => Greeting = 0
      /\ program = "tls" => Greeting = 1
      /\ program = "aes" => Greeting = 2
  BY DEF Greeting
<1>4. ASSUME NEW i \in Conns,
             \/ Crashes(i) \/ Exits(i) \/ ClosedRemotely(i) \/ TlsCloses(i)
             \/ program = "tls" /\ net.sock[Client(i)].sent > 0 /\ TlsExits(i)
      PROVE  CountOK'
  <2>1. PICK pc \in {"done", "leaving"} : Becomes(i, [cli[i] EXCEPT !.pc = pc])
    BY <1>4 DEF Crashes, Exits, ClosedRemotely, TlsCloses, TlsExits
  <2>2. \/ \E how \in {"fin", "rst"} : PeerEnds(Client(i), how)
        \/ PeerSends(Client(i), "notify") /\ program = "tls" /\ net.sock[Client(i)].sent > 0
    BY <1>4 DEF Crashes, Exits, ClosedRemotely, TlsCloses, TlsExits
  <2>3. \/ \E how \in {"fin", "rst"} : PeerEnds(Client(i), how)
        \/ PeerSends(Client(i), "notify") /\ (RowsAreOwn => ~(net.sock[Client(i)].sent < Greeting))
    BY <1>2, <1>3, <2>2
  <2> QED
    BY <1>1, <2>1, <2>3, LeavesSays
<1>5. ASSUME NEW i \in Conns, NEW visits, Starts(i, visits) PROVE CountOK'
  BY <1>1, <1>5, StartsSays
<1>6. ASSUME NEW i \in Conns, GetsAnswer(i) PROVE CountOK'
  BY <1>1, <1>6, AnswerSays
<1>7. ASSUME NEW i \in Conns, NEW m \in {"text", "exit"}, Asks(i, m),
             \/ program = "echo"
             \/ program = "tls" /\ net.sock[Client(i)].sent > 0
             \/ program = "aes" /\ Introduced(i)
      PROVE  CountOK'
  <2>1. RowsAreOwn => ~(net.sock[Client(i)].sent < Greeting)
    BY <1>2, <1>3, <1>7 DEF Introduced
  <2> QED
    BY <1>1, <1>7, <2>1, AsksSays DEF Texts
<1>8. ASSUME NEW i \in Conns, (program = "tls" /\ SSL_connect(i)) \/ (program = "aes" /\ Introduces(i))
      PROVE  CountOK'
  <2>1. PICK m \in Greetings : PeerSends(Client(i), m)
    BY <1>8 DEF SSL_connect, Introduces, Greetings
  <2>2. cli' = cli /\ net.sock[Client(i)].sent < Greeting
    BY <1>3, <1>8 DEF SSL_connect, Introduces
  <2> QED
    BY <1>1, <2>1, <2>2, GreetsSays
<1>9. CASE program = "echo" /\ EchoClients
  BY <1>4, <1>5, <1>6, <1>7, <1>9 DEF EchoClients, client_main
<1>10. CASE program = "tls" /\ TlsClients
  BY <1>4, <1>5, <1>6, <1>7, <1>8, <1>10 DEF TlsClients, tls_client_main
<1>11. CASE program = "aes" /\ AesClients
  BY <1>4, <1>5, <1>6, <1>7, <1>8, <1>11 DEF AesClients, aes_client_main
<1> QED
  BY <1>9, <1>10, <1>11

(* The threads. *)
LEMMA ThreadAnswer ==
  \A a, b, c, d, e, f : LET t == MkEchoThread(a, b, c, d, e, f) IN t.users = e /\ t.total = f
BY DEF MkEchoThread

LEMMA PcReplaced ==
  ASSUME NEW t, IsEchoThread(t), NEW x, NEW u, u = [t EXCEPT !.pc = x]
  PROVE  u.pc = x /\ u.pos = t.pos /\ u.users = t.users /\ u.total = t.total
<1>1. PICK a, b, c, d, e, f : t = MkEchoThread(a, b, c, d, e, f)
  BY EchoThreadFields
<1>2. u = MkEchoThread(x, b, c, d, e, f)
  BY <1>1 DEF MkEchoThread
<1> QED
  BY <1>1, <1>2, EchoThreadFields, ThreadAnswer

LEMMA NoGreetings ==
  ASSUME NEW pc, pc \notin {"none", "key", "iv"}
  PROVE  GreetingsLeft(pc) = 0
BY DEF GreetingsLeft

LEMMA RowOf ==
  ASSUME EchoOK, CountOK, NEW i \in Conns
  PROVE  /\ IsEchoThread(eth[i]) /\ Len(cfds) \in Nat /\ eth[i].pos \in 0 .. Len(cfds)
         /\ RowsAreOwn => TalksAs(i, cli[i], eth[i])
         /\ RowsAreOwn => \A j \in Conns \ {i} : eth[i].pos # 0 => eth[j].pos # eth[i].pos
         /\ IsNet(net) /\ Client(i) \in Ends /\ Client(i) \in Clients
         /\ Summed(cfds, total_echo)
         /\ \A j \in Conns : Client(j) \in Ends /\ eth[j].pos \in 0 .. Len(cfds)
<1>1. Len(cfds) \in Nat
  BY SummedFacts DEF CountOK
<1> QED
  BY <1>1, EndsFacts DEF EchoOK, RowsOK, EchoThreadOK, CountOK, RowsAreOwn

(* A step that says and counts nothing. *)
LEMMA QuietSays ==
  ASSUME EchoOK, CountOK, program' = program, NEW i \in Conns, NEW pc, ThenAt(i, pc),
         pc \notin {"none", "key", "iv"}, pc \notin Holding, eth[i].pc \notin {"none", "key", "iv"},
         pc \in Rowed => eth[i].pos # 0, Quiet(net, net'),
         Summed(cfds', total_echo), total_echo' = total_echo,
         \A p \in 1 .. Len(cfds) : cfds'[p].count = cfds[p].count
  PROVE  CountOK'
<1>1. PICK o, t : o = eth[i] /\ t = [o EXCEPT !.pc = pc] /\ eth' = [eth EXCEPT ![i] = t] /\ cli' = cli
  BY DEF ThenAt, Then
<1>2. t.pc = pc /\ t.pos = o.pos
  <2>1. IsEchoThread(o) /\ t = [o EXCEPT !.pc = pc]
    BY <1>1, RowOf
  <2> QED
    BY <2>1, PcReplaced
<1>3. \A j \in Conns : Tallied(cfds', eth[j].pos) = Tallied(cfds, eth[j].pos)
  <2>1. SUFFICES ASSUME NEW j \in Conns PROVE Tallied(cfds', eth[j].pos) = Tallied(cfds, eth[j].pos)
    OBVIOUS
  <2>2. eth[j].pos \in 0 .. Len(cfds) /\ Len(cfds) \in Nat
    BY RowOf
  <2> QED
    BY <2>2 DEF Tallied
<1>4. total_echo \in Nat
  BY SummedFacts DEF CountOK
<1>5. ASSUME RowsAreOwn
      PROVE  TalkOK(cli[i], net'.sock[Client(i)], t, Tallied(cfds', t.pos),
                    GreetingsLeft(t.pc), Greeting, total_echo')
  <2>1. TalkOK(cli[i], net.sock[Client(i)], o, Tallied(cfds, o.pos),
               GreetingsLeft(o.pc), Greeting, total_echo)
    BY <1>1, <1>5, RowOf DEF TalksAs
  <2>2. PICK k2, n, l : k2 = net'.sock[Client(i)] /\ n = Tallied(cfds, o.pos) /\ l = GreetingsLeft(o.pc)
    OBVIOUS
  <2>3. SameSays(net.sock[Client(i)], k2)
    BY <2>2, RowOf DEF Quiet
  <2>4. TalkOK(cli[i], k2, t, n, l, Greeting, total_echo)
    BY <1>2, <1>4, <2>1, <2>2, <2>3, TalkKept
  <2>5. GreetingsLeft(t.pc) = l /\ Tallied(cfds', t.pos) = n
    <3>1. GreetingsLeft(pc) = 0 /\ GreetingsLeft(eth[i].pc) = 0
      BY NoGreetings
    <3> QED
      BY <1>1, <1>2, <1>3, <2>2, <3>1
  <2> QED
    BY <2>2, <2>4, <2>5
<1>6. \A j \in Conns : SameSays(net.sock[Client(j)], net'.sock[Client(j)])
  BY RowOf DEF Quiet
<1>7. Summed(cfds', total_echo') /\ total_echo <= total_echo'
  BY <1>4
<1>8. (t.pc \in Rowed => t.pos # 0) /\ (eth[i].pos # 0 => t.pos = eth[i].pos)
  BY <1>1, <1>2
<1> QED
  BY <1>1, <1>3, <1>5, <1>6, <1>7, <1>8, ThreadSays

LEMMA NothingSaid ==
  ASSUME CountOK, cfds' = cfds, total_echo' = total_echo
  PROVE  /\ Summed(cfds', total_echo) /\ \A p \in 1 .. Len(cfds) : cfds'[p].count = cfds[p].count
         /\ net' = net => Quiet(net, net')
BY DEF CountOK, Quiet, SameSays

(* The row of a session that is over. *)
LEMMA ClearedSum ==
  ASSUME EchoOK, CountOK, NEW i \in Conns, cfds' = [cfds EXCEPT ![eth[i].pos].fd = 0]
  PROVE  Summed(cfds', total_echo) /\ \A p \in 1 .. Len(cfds) : cfds'[p].count = cfds[p].count
<1> DEFINE q == eth[i].pos
<1>1. /\ q \in 0 .. Len(cfds) /\ Len(cfds) \in Nat /\ Summed(cfds, total_echo)
      /\ DOMAIN cfds = 1 .. Len(cfds) /\ total_echo \in Nat
  BY RowOf, SummedFacts
<1>2. cfds = [p \in 1 .. Len(cfds) |-> cfds[p]]
  <2>1. cfds \in Seq({cfds[k] : k \in DOMAIN cfds})
    BY <1>1 DEF Summed, IsRows
  <2>2. PICK S : S = {cfds[k] : k \in DOMAIN cfds}
    OBVIOUS
  <2>3. cfds \in [1 .. Len(cfds) -> S]
    BY <2>1, <2>2, LenProperties, SeqDef
  <2> QED
    BY <2>3
<1>3. CASE q = 0
  <2>1. cfds' = cfds
    BY <1>1, <1>2, <1>3
  <2> QED
    BY <1>1, <2>1
<1>4. CASE q # 0
  <2>1. q \in 1 .. Len(cfds)
    BY <1>1, <1>4
  <2>2. PICK r, v : r = cfds[q] /\ v = [r EXCEPT !.fd = 0]
    OBVIOUS
  <2>3. IsRow(r)
    BY <1>1, <2>1, <2>2 DEF Summed
  <2>4. IsRow(v) /\ v.count = r.count
    <3>1. PICK a, b, c : r = [addr |-> a, fd |-> b, count |-> c] /\ c \in Nat
      BY <2>3 DEF IsRow
    <3>2. v = [r EXCEPT !.fd = 0]
      BY <2>2
    <3>3. v = [addr |-> a, fd |-> 0, count |-> c]
      BY <3>1, <3>2
    <3> QED
      BY <3>1, <3>3 DEF IsRow
  <2>5. PICK c2 : c2 = [cfds EXCEPT ![q] = v]
    OBVIOUS
  <2>6. cfds' = c2
    BY <2>2, <2>5
  <2>7. Summed(c2, total_echo + v.count - cfds[q].count)
    BY <1>1, <2>1, <2>4, <2>5, RowReplacedSum
  <2>8. total_echo + v.count - cfds[q].count = total_echo
    BY <1>1, <2>2, <2>3, <2>4 DEF IsRow
  <2>9. \A p \in 1 .. Len(cfds) : c2[p].count = cfds[p].count
    BY <1>1, <2>2, <2>4, <2>5
  <2> QED
    BY <2>6, <2>7, <2>8, <2>9
<1> QED
  BY <1>3, <1>4

LEMMA QuietSteps ==
  ASSUME EchoOK, CountOK, program' = program, NEW i \in Conns,
         \/ GotEnd(i) \/ TlsGotEnd(i) \/ TlsGotError(i) \/ CloseOwn(i) \/ ClearRow(i)
         \/ /\ In(i, "close") /\ net' = close(net, eth[i].fd) /\ ThenAt(i, "clear")
            /\ UNCHANGED <<cfds, total_echo>>
  PROVE  CountOK'
<1>0. IsNet(net)
  BY RowOf
<1>1. CASE GotEnd(i) \/ TlsGotEnd(i) \/ TlsGotError(i)
  <2>1. /\ eth[i].pc \in {"recv", "loop"} /\ net' = net /\ cfds' = cfds /\ total_echo' = total_echo
        /\ \E pc \in {"close", "done"} : ThenAt(i, pc)
    BY <1>1 DEF GotEnd, TlsGotEnd, TlsGotError, TlsEnds, TlsFails, Recv, In
  <2> QED
    BY <2>1, NothingSaid, QuietSays DEF Holding, Rowed
<1>2. CASE \/ CloseOwn(i)
           \/ /\ In(i, "close") /\ net' = close(net, eth[i].fd) /\ ThenAt(i, "clear")
              /\ UNCHANGED <<cfds, total_echo>>
  <2>1. /\ eth[i].pc = "close" /\ net' = close(net, eth[i].fd) /\ cfds' = cfds
        /\ total_echo' = total_echo /\ ThenAt(i, "clear")
    BY <1>2 DEF CloseOwn, In
  <2>2. Quiet(net, net')
    BY <1>0, <2>1, CloseQuiet
  <2> QED
    BY <2>1, <2>2, NothingSaid, QuietSays DEF Holding, Rowed
<1>3. CASE ClearRow(i)
  <2>1. /\ eth[i].pc = "clear" /\ net' = net /\ cfds' = [cfds EXCEPT ![eth[i].pos].fd = 0]
        /\ total_echo' = total_echo /\ ThenAt(i, "done")
    BY <1>3 DEF ClearRow, ClearedRow, In
  <2>2. Quiet(net, net')
    BY <2>1 DEF Quiet, SameSays
  <2>3. Summed(cfds', total_echo) /\ \A p \in 1 .. Len(cfds) : cfds'[p].count = cfds[p].count
    BY <2>1, ClearedSum
  <2> QED
    BY <2>1, <2>2, <2>3, QuietSays DEF Holding, Rowed
<1> QED
  BY <1>1, <1>2, <1>3

LEMMA ProcessEndsSays ==
  ASSUME EchoOK, CountOK, program' = program, EndProcess
  PROVE  CountOK'
<1>1. /\ net' = Ended(net) /\ eth' = eth /\ cli' = cli /\ cfds' = cfds /\ total_echo' = total_echo
  BY DEF EndProcess, echoVars
<1>2. Quiet(net, net')
  BY <1>1, EndedQuiet DEF EchoOK
<1>3. total_echo \in Nat
  BY SummedFacts DEF CountOK
<1>4. ASSUME RowsAreOwn, NEW j \in Conns PROVE TalksAs(j, cli[j], eth[j])'
  <2>1. PICK k2, e, n, l : /\ k2 = net'.sock[Client(j)] /\ e = eth[j] /\ n = Tallied(cfds, e.pos)
                           /\ l = GreetingsLeft(e.pc)
    OBVIOUS
  <2>2. SameSays(net.sock[Client(j)], k2)
    BY <1>2, <2>1, EndsFacts DEF Quiet
  <2>3. TalkOK(cli[j], net.sock[Client(j)], e, n, l, Greeting, total_echo)
    BY <1>4, <2>1 DEF CountOK, TalksAs
  <2>4. TalkOK(cli[j], k2, e, n, l, Greeting, total_echo)
    BY <1>3, <2>2, <2>3, TalkKept
  <2>5. \A pc : GreetingsLeft(pc)' = GreetingsLeft(pc) /\ Greeting' = Greeting
    BY DEF GreetingsLeft, Greeting
  <2>6. eth'[j] = e /\ cli'[j] = cli[j] /\ Tallied(cfds', e.pos) = n /\ GreetingsLeft(eth[j].pc)' = l
    BY <1>1, <2>1, <2>5 DEF Tallied
  <2> QED
    BY <1>1, <2>1, <2>4, <2>5, <2>6 DEF TalksAs, Tallied
<1>5. RowsAreOwn' <=> RowsAreOwn
  BY <1>1 DEF RowsAreOwn
<1> QED
  BY <1>1, <1>4, <1>5 DEF CountOK, ClientsOK

LEMMA BeginSays ==
  ASSUME EchoOK, CountOK, program' = program, NEW i \in Conns, BeginRecv(i, "recv")
  PROVE  CountOK'
<1>1. PICK o, u, s, t : /\ o = eth[i] /\ u = [o EXCEPT !.pc = "recv"] /\ s = net.fds[eth[i].fd]
                        /\ t = [u EXCEPT !.on = s]
  OBVIOUS
<1>2. /\ eth' = [eth EXCEPT ![i] = t] /\ cli' = cli /\ o.pc = "loop"
      /\ net' = net /\ cfds' = cfds /\ total_echo' = total_echo
  BY <1>1 DEF BeginRecv, Then, In
<1>3. t.pc = "recv" /\ t.pos = o.pos
  <2>1. IsEchoThread(o) /\ u = [o EXCEPT !.pc = "recv"]
    BY <1>1, RowOf
  <2>2. IsEchoThread(u) /\ u.pc = "recv" /\ u.pos = o.pos
    BY <2>1, EchoPc
  <2>3. t = [u EXCEPT !.on = s]
    BY <1>1
  <2>4. t.pc = u.pc /\ t.pos = u.pos
    BY <2>2, <2>3, EchoOn
  <2> QED
    BY <2>2, <2>4
<1>4. o.pos # 0
  BY <1>1, <1>2 DEF CountOK, Rowed
<1>5. total_echo \in Nat
  BY SummedFacts DEF CountOK
<1>6. ASSUME RowsAreOwn
      PROVE  TalkOK(cli[i], net'.sock[Client(i)], t, Tallied(cfds', t.pos),
                    GreetingsLeft(t.pc), Greeting, total_echo')
  <2>1. PICK k, n, l : k = net.sock[Client(i)] /\ n = Tallied(cfds, o.pos) /\ l = GreetingsLeft(o.pc)
    OBVIOUS
  <2>2. TalkOK(cli[i], k, o, n, l, Greeting, total_echo)
    BY <1>1, <1>6, <2>1, RowOf DEF TalksAs
  <2>3. SameSays(k, k) /\ t.pc \notin Holding
    BY <1>3 DEF SameSays, Holding
  <2>4. TalkOK(cli[i], k, t, n, l, Greeting, total_echo)
    BY <1>3, <1>5, <2>2, <2>3, TalkKept
  <2>5. GreetingsLeft(t.pc) = l
    BY <1>2, <1>3, <2>1, NoGreetings
  <2> QED
    BY <1>2, <1>3, <2>1, <2>4, <2>5 DEF Tallied
<1>7. \A j \in Conns : /\ SameSays(net.sock[Client(j)], net'.sock[Client(j)])
                       /\ Tallied(cfds', eth[j].pos) = Tallied(cfds, eth[j].pos)
  BY <1>2 DEF SameSays, Tallied
<1>8. Summed(cfds', total_echo') /\ total_echo <= total_echo'
  BY <1>2, <1>5 DEF CountOK
<1> QED
  BY <1>1, <1>2, <1>3, <1>4, <1>6, <1>7, <1>8, ThreadSays

(* A message is read, which nobody else hears. *)
LEMMA OthersHear ==
  ASSUME NEW i \in Conns, Only(net, net', Client(i))
  PROVE  \A j \in Conns \ {i} : SameSays(net.sock[Client(j)], net'.sock[Client(j)])
BY EndsFacts DEF Only, SameSays

LEMMA GotMessageSays ==
  ASSUME EchoOK, CountOK, program' = program, NEW i \in Conns, NEW next \in {"count", "loop"},
         GotMessage(i, next)
  PROVE  CountOK'
<1>1. PICK pc \in {"close", "count", "loop"} : ThenAt(i, pc)
  BY DEF GotMessage
<1>2. PICK o, t : o = eth[i] /\ t = [o EXCEPT !.pc = pc]
  OBVIOUS
<1>3. /\ eth' = [eth EXCEPT ![i] = t] /\ cli' = cli /\ o.pc = "recv"
      /\ net' = Taken(net, o.on) /\ cfds' = cfds /\ total_echo' = total_echo
      /\ Received(net, o.on) = "data"
  BY <1>1, <1>2 DEF GotMessage, ThenAt, Then, Recv, In
<1>4. t.pc = pc /\ t.pos = o.pos
  <2>1. IsEchoThread(o) /\ t = [o EXCEPT !.pc = pc]
    BY <1>2, RowOf
  <2> QED
    BY <2>1, PcReplaced
<1>5. o.pos # 0
  BY <1>2, <1>3 DEF CountOK, Rowed
<1>6. total_echo \in Nat
  BY SummedFacts DEF CountOK
<1>7. ASSUME RowsAreOwn
      PROVE  /\ Only(net, net', Client(i))
             /\ TalkOK(cli[i], net'.sock[Client(i)], t, Tallied(cfds', t.pos),
                       GreetingsLeft(t.pc), Greeting, total_echo')
  <2>1. PICK n2, s, k, k2, n : /\ n2 = net' /\ s = Client(i) /\ k = net.sock[s] /\ k2 = n2.sock[s]
                               /\ n = Tallied(cfds, o.pos)
    OBVIOUS
  <2>2. o.on = s
    BY <1>2, <1>3, <1>7, <2>1 DEF EchoOK
  <2>3. IsNet(net) /\ s \in Ends /\ n2 = Taken(net, s)
    BY <1>3, <2>1, <2>2, RowOf
  <2>4. Only(net, n2, s) /\ Loses(k, k2)
    BY <2>1, <2>3, OneTaken
  <2>5. k.in # <<>>
    BY <1>3, <2>1, <2>2 DEF Received
  <2>6. k.end # "none"
    BY <1>2, <1>3, <2>1 DEF EchoOK, EchoThreadOK
  <2>7. GreetingsLeft(o.pc) = 0 /\ GreetingsLeft(t.pc) = 0
    BY <1>3, <1>4, NoGreetings
  <2>8. TalkOK(cli[i], k, o, n, 0, Greeting, total_echo)
    BY <1>2, <1>7, <2>1, <2>7, RowOf DEF TalksAs
  <2>9. /\ k2.in = Tail(k.in) /\ k2.out = k.out /\ k2.sent = k.sent /\ k2.deaf = k.deaf
        /\ k2.end = k.end
    BY <2>4 DEF Loses
  <2>10. TalkOK(cli[i], k2, t, n, 0, Greeting, total_echo)
    BY <1>3, <1>4, <1>5, <2>5, <2>6, <2>8, <2>9, TalkTakes
  <2> QED
    BY <1>3, <1>4, <2>1, <2>4, <2>7, <2>10
<1>8. RowsAreOwn => \A j \in Conns \ {i} :
         /\ SameSays(net.sock[Client(j)], net'.sock[Client(j)])
         /\ Tallied(cfds', eth[j].pos) = Tallied(cfds, eth[j].pos)
  BY <1>3, <1>7, OthersHear DEF Tallied
<1>9. Summed(cfds', total_echo') /\ total_echo <= total_echo'
  BY <1>3, <1>6 DEF CountOK
<1> QED
  BY <1>2, <1>3, <1>4, <1>5, <1>7, <1>8, <1>9, ThreadSays

LEMMA CountSays ==
  ASSUME EchoOK, CountOK, program' = program, NEW i \in Conns, Count(i)
  PROVE  CountOK'
<1>1. PICK o, t, q : o = eth[i] /\ t = [o EXCEPT !.pc = "read"] /\ q = o.pos
  OBVIOUS
<1>2. /\ eth' = [eth EXCEPT ![i] = t] /\ cli' = cli /\ o.pc = "count"
      /\ net' = net /\ cfds' = [cfds EXCEPT ![q].count = @ + 1] /\ total_echo' = total_echo + 1
  BY <1>1 DEF Count, ThenAt, Then, In
<1>3. t.pc = "read" /\ t.pos = o.pos
  <2>1. IsEchoThread(o) /\ t = [o EXCEPT !.pc = "read"]
    BY <1>1, RowOf
  <2> QED
    BY <2>1, PcReplaced
<1>4. /\ q # 0 /\ q \in 1 .. Len(cfds) /\ Len(cfds) \in Nat /\ Summed(cfds, total_echo)
      /\ DOMAIN cfds = 1 .. Len(cfds) /\ total_echo \in Nat
  <2>1. o.pos # 0
    BY <1>1, <1>2 DEF CountOK, Rowed
  <2>2. Summed(cfds, total_echo) /\ q \in 0 .. Len(cfds)
    BY <1>1, RowOf
  <2>3. Len(cfds) \in Nat /\ DOMAIN cfds = 1 .. Len(cfds) /\ total_echo \in Nat
    BY <2>2, SummedFacts
  <2> QED
    BY <1>1, <2>1, <2>2, <2>3
<1>5. PICK r, x, v : r = cfds[q] /\ x = r.count + 1 /\ v = [r EXCEPT !.count = x]
  OBVIOUS
<1>6. IsRow(r) /\ r.count \in Nat
  BY <1>4, <1>5 DEF Summed, IsRow
<1>7. IsRow(v) /\ v.count = r.count + 1
  <2>1. PICK a, b, c : r = [addr |-> a, fd |-> b, count |-> c] /\ c \in Nat
    BY <1>6 DEF IsRow
  <2>2. x \in Nat
    BY <1>5, <1>6
  <2>3. v = [r EXCEPT !.count = x]
    BY <1>5
  <2>4. v = [addr |-> a, fd |-> b, count |-> x]
    BY <2>1, <2>3
  <2>5. IsRow(v) /\ v.count = x
    BY <2>2, <2>4 DEF IsRow
  <2> QED
    BY <1>5, <2>5
<1>8. PICK c2 : c2 = [cfds EXCEPT ![q] = v]
  OBVIOUS
<1>9. cfds' = c2
  BY <1>2, <1>5, <1>8
<1>10. Summed(c2, total_echo + v.count - cfds[q].count)
  BY <1>4, <1>7, <1>8, RowReplacedSum
<1>11. total_echo + v.count - cfds[q].count = total_echo + 1
  BY <1>4, <1>5, <1>6, <1>7
<1>12. Summed(cfds', total_echo') /\ total_echo <= total_echo'
  <2>1. PICK y : y = total_echo + 1
    OBVIOUS
  <2>2. Summed(c2, y)
    BY <1>10, <1>11, <2>1
  <2>3. total_echo' = y /\ total_echo <= y
    BY <1>2, <1>4, <2>1
  <2> QED
    BY <1>9, <2>2, <2>3
<1>13. \A p \in 1 .. Len(cfds) : c2[p] = IF p = q THEN v ELSE cfds[p]
  BY <1>4, <1>8
<1>14. RowsAreOwn => \A j \in Conns \ {i} : Tallied(cfds', eth[j].pos) = Tallied(cfds, eth[j].pos)
  <2>1. SUFFICES ASSUME RowsAreOwn, NEW j \in Conns \ {i}
                 PROVE  Tallied(cfds', eth[j].pos) = Tallied(cfds, eth[j].pos)
    OBVIOUS
  <2>2. eth[j].pos \in 0 .. Len(cfds) /\ eth[j].pos # q
    BY <1>1, <1>4, <2>1, RowOf
  <2>3. PICK p : p = eth[j].pos
    OBVIOUS
  <2>4. CASE p = 0
    BY <2>3, <2>4 DEF Tallied
  <2>5. CASE p # 0
    <3>1. p \in 1 .. Len(cfds) /\ p # q
      BY <1>4, <2>2, <2>3, <2>5
    <3>2. cfds'[p] = cfds[p]
      BY <1>9, <1>13, <3>1
    <3> QED
      BY <2>3, <2>5, <3>2 DEF Tallied
  <2> QED
    BY <2>4, <2>5
<1>15. \A j \in Conns : SameSays(net.sock[Client(j)], net'.sock[Client(j)])
  BY <1>2 DEF SameSays
<1>16. ASSUME RowsAreOwn
       PROVE  TalkOK(cli[i], net'.sock[Client(i)], t, Tallied(cfds', t.pos),
                     GreetingsLeft(t.pc), Greeting, total_echo')
  <2>1. PICK k, n : k = net.sock[Client(i)] /\ n = Tallied(cfds, o.pos)
    OBVIOUS
  <2>2. TalkOK(cli[i], k, o, n, GreetingsLeft(o.pc), Greeting, total_echo)
    BY <1>1, <1>16, <2>1, RowOf DEF TalksAs
  <2>3. TalkOK(cli[i], k, t, n + 1, GreetingsLeft(o.pc), Greeting, total_echo + 1)
    BY <1>1, <1>2, <1>3, <1>4, <2>2, TalkCounts
  <2>4. Tallied(cfds', t.pos) = n + 1
    <3>1. n = r.count
      BY <1>1, <1>4, <1>5, <2>1 DEF Tallied
    <3>2. cfds'[q] = v
      BY <1>4, <1>9, <1>13
    <3> QED
      BY <1>1, <1>3, <1>4, <1>7, <3>1, <3>2 DEF Tallied
  <2>5. GreetingsLeft(t.pc) = GreetingsLeft(o.pc)
    BY <1>2, <1>3, NoGreetings
  <2> QED
    BY <1>2, <2>1, <2>3, <2>4, <2>5
<1> QED
  BY <1>1, <1>2, <1>3, <1>4, <1>12, <1>14, <1>15, <1>16, ThreadSays

LEMMA ReadCountsSays ==
  ASSUME EchoOK, CountOK, program' = program, NEW i \in Conns, ReadCounts(i)
  PROVE  CountOK'
<1>1. PICK o, x : o = eth[i] /\ x = cfds[o.pos].count
  OBVIOUS
<1>2. PICK u : u = [o EXCEPT !.pc = "send"]
  OBVIOUS
<1>3. PICK w : w = [u EXCEPT !.users = x]
  OBVIOUS
<1>4. PICK t : t = [w EXCEPT !.total = total_echo]
  OBVIOUS
<1>5. /\ eth' = [eth EXCEPT ![i] = t] /\ cli' = cli /\ o.pc = "read"
      /\ net' = net /\ cfds' = cfds /\ total_echo' = total_echo
  <2>1. eth' = [eth EXCEPT ![i] = [o EXCEPT !.pc = "send", !.users = x, !.total = total_echo]]
    BY <1>1 DEF ReadCounts, Then
  <2>2. t = [o EXCEPT !.pc = "send", !.users = x, !.total = total_echo]
    BY <1>2, <1>3, <1>4
  <2> QED
    BY <1>1, <2>1, <2>2 DEF ReadCounts, Then, In
<1>6. t.pc = "send" /\ t.pos = o.pos /\ t.users = x /\ t.total = total_echo
  <2>1. IsEchoThread(o)
    BY <1>1, RowOf
  <2>2. PICK a, b, c, d, e, f : o = MkEchoThread(a, b, c, d, e, f)
    BY <2>1, EchoThreadFields
  <2>3. u = MkEchoThread("send", b, c, d, e, f)
    BY <1>2, <2>2 DEF MkEchoThread
  <2>4. w = MkEchoThread("send", b, c, d, x, f)
    BY <1>3, <2>3 DEF MkEchoThread
  <2>5. PICK y : y = total_echo
    OBVIOUS
  <2>6. t = [w EXCEPT !.total = y]
    BY <1>4, <2>5
  <2>7. t = MkEchoThread("send", b, c, d, x, y)
    BY <2>4, <2>6 DEF MkEchoThread
  <2> QED
    BY <2>2, <2>5, <2>7, EchoThreadFields, ThreadAnswer
<1>7. o.pos # 0 /\ o.pos \in 1 .. Len(cfds) /\ total_echo \in Nat /\ x <= total_echo /\ x \in Nat
  <2>1. o.pos # 0 /\ o.pos \in 0 .. Len(cfds) /\ Summed(cfds, total_echo)
    BY <1>1, <1>5, RowOf DEF CountOK, Rowed
  <2>2. Len(cfds) \in Nat /\ total_echo \in Nat
    BY <2>1, SummedFacts
  <2>3. o.pos \in 1 .. Len(cfds)
    BY <2>1, <2>2
  <2> QED
    BY <1>1, <2>1, <2>2, <2>3, SummedFacts
<1>8. ASSUME RowsAreOwn
      PROVE  TalkOK(cli[i], net'.sock[Client(i)], t, Tallied(cfds', t.pos),
                    GreetingsLeft(t.pc), Greeting, total_echo')
  <2>1. PICK k, n, tot : k = net.sock[Client(i)] /\ n = Tallied(cfds, o.pos) /\ tot = total_echo
    OBVIOUS
  <2>2. n = x
    BY <1>1, <1>7, <2>1 DEF Tallied
  <2>3. TalkOK(cli[i], k, o, n, GreetingsLeft(o.pc), Greeting, tot)
    BY <1>1, <1>8, <2>1, RowOf DEF TalksAs
  <2>4. n <= tot /\ t.users = n /\ t.total = tot
    BY <1>6, <1>7, <2>1, <2>2
  <2>5. TalkOK(cli[i], k, t, n, GreetingsLeft(o.pc), Greeting, tot)
    BY <1>5, <1>6, <2>3, <2>4, TalkReads
  <2>6. GreetingsLeft(t.pc) = GreetingsLeft(o.pc)
    BY <1>5, <1>6, NoGreetings
  <2> QED
    BY <1>5, <1>6, <2>1, <2>5, <2>6
<1>9. \A j \in Conns : /\ SameSays(net.sock[Client(j)], net'.sock[Client(j)])
                       /\ Tallied(cfds', eth[j].pos) = Tallied(cfds, eth[j].pos)
  BY <1>5 DEF SameSays, Tallied
<1>10. Summed(cfds', total_echo') /\ total_echo <= total_echo'
  BY <1>5, <1>7 DEF CountOK
<1>11. (t.pc \in Rowed => t.pos # 0) /\ (eth[i].pos # 0 => t.pos = eth[i].pos)
  BY <1>1, <1>6, <1>7
<1> QED
  BY <1>5, <1>8, <1>9, <1>10, <1>11, ThreadSays

(* A row for a thread: a new one, or another's with its count. *)
Enters(i, p) == Then(i, [eth[i] EXCEPT !.pc = "loop", !.pos = p])
Grows(v) == cfds' = Append(cfds, v)

LEMMA LoopAt ==
  ASSUME NEW o, IsEchoThread(o), NEW p, NEW u, u = [o EXCEPT !.pc = "loop"],
         NEW t, t = [u EXCEPT !.pos = p]
  PROVE  t.pc = "loop" /\ t.pos = p
<1>1. IsEchoThread(u) /\ u.pc = "loop"
  BY EchoPc
<1>2. t.pc = u.pc /\ t.pos = p
  BY <1>1, EchoPos
<1> QED
  BY <1>1, <1>2

LEMMA NewRowSays ==
  ASSUME EchoOK, CountOK, program' = program, NEW i \in Conns,
         eth[i].pc = "add", Grows(Row(i, 0)), net' = net, total_echo' = total_echo,
         Enters(i, Len(cfds) + 1)
  PROVE  CountOK'
<1>1. PICK o, u, t, m, v, c2 :
        /\ o = eth[i] /\ m = Len(cfds) + 1 /\ v = Row(i, 0) /\ c2 = Append(cfds, v)
        /\ u = [o EXCEPT !.pc = "loop"] /\ t = [u EXCEPT !.pos = m]
  OBVIOUS
<1>2. /\ eth' = [eth EXCEPT ![i] = t] /\ cli' = cli /\ cfds' = c2 /\ o.pos = 0 /\ o.pc = "add"
      /\ IsEchoThread(o)
  BY <1>1 DEF Enters, Grows, Then, EchoOK, EchoThreadOK
<1>3. t.pc = "loop" /\ t.pos = m
  BY <1>1, <1>2, LoopAt
<1>4. IsRow(v) /\ v.count = 0
  BY <1>1 DEF Row, IsRow
<1>5. Summed(cfds, total_echo) /\ Len(cfds) \in Nat /\ total_echo \in Nat
  BY SummedFacts DEF CountOK
<1>6. /\ Summed(c2, total_echo) /\ Len(c2) = Len(cfds) + 1 /\ c2[Len(c2)] = v
      /\ \A k \in 1 .. Len(cfds) : c2[k] = cfds[k]
  <2>1. PICK c, tot : c = cfds /\ tot = total_echo
    OBVIOUS
  <2>2. Summed(c, tot) /\ Grown(c, v, c2)
    BY <1>1, <1>5, <2>1 DEF Grown
  <2>3. /\ Summed(c2, tot) /\ Len(c2) = Len(c) + 1 /\ c2[Len(c2)] = v
        /\ \A k \in 1 .. Len(c) : c2[k] = c[k]
    BY <1>4, <2>2, RowAddedSum
  <2> QED
    BY <2>1, <2>3
<1>7. m # 0 /\ c2[m] = v
  BY <1>1, <1>5, <1>6
<1>8. \A j \in Conns : /\ SameSays(net.sock[Client(j)], net'.sock[Client(j)])
                       /\ Tallied(cfds', eth[j].pos) = Tallied(cfds, eth[j].pos)
  <2>1. SUFFICES ASSUME NEW j \in Conns
                 PROVE  Tallied(cfds', eth[j].pos) = Tallied(cfds, eth[j].pos)
    BY DEF SameSays
  <2>2. PICK p : p = eth[j].pos
    OBVIOUS
  <2>3. p \in 0 .. Len(cfds)
    BY <2>2, RowOf
  <2> QED
    BY <1>2, <1>5, <1>6, <2>2, <2>3 DEF Tallied
<1>9. ASSUME RowsAreOwn
      PROVE  TalkOK(cli[i], net'.sock[Client(i)], t, Tallied(cfds', t.pos),
                    GreetingsLeft(t.pc), Greeting, total_echo')
  <2>1. PICK k, n, l : k = net.sock[Client(i)] /\ n = Tallied(cfds, o.pos) /\ l = GreetingsLeft(o.pc)
    OBVIOUS
  <2>2. TalkOK(cli[i], k, o, n, l, Greeting, total_echo)
    BY <1>1, <1>9, <2>1, RowOf DEF TalksAs
  <2>3. TalkOK(cli[i], k, t, 0, l, Greeting, total_echo)
    BY <1>2, <1>3, <1>7, <2>2, TalkRow DEF Holding
  <2>4. Tallied(cfds', t.pos) = 0
    BY <1>2, <1>3, <1>4, <1>7 DEF Tallied
  <2>5. GreetingsLeft(t.pc) = l
    BY <1>2, <1>3, <2>1, NoGreetings
  <2> QED
    BY <2>1, <2>3, <2>4, <2>5
<1>10. Summed(cfds', total_echo') /\ total_echo <= total_echo'
  <2>1. PICK y : y = total_echo
    OBVIOUS
  <2>2. Summed(c2, y)
    BY <1>6, <2>1
  <2>3. total_echo' = y /\ total_echo <= y
    BY <1>5, <2>1
  <2> QED
    BY <1>2, <2>2, <2>3
<1>11. (t.pc \in Rowed => t.pos # 0) /\ (eth[i].pos # 0 => t.pos = eth[i].pos)
  BY <1>1, <1>2, <1>3, <1>7
<1> QED
  BY <1>2, <1>8, <1>9, <1>10, <1>11, ThreadSays

LEMMA FoundRow ==
  ASSUME EchoOK, CountOK, NEW i \in Conns, Found(i) # {},
         NEW p, p = CHOOSE q \in Found(i) : \A r \in Found(i) : q <= r
  PROVE  p \in 1 .. Len(cfds)
<1>1. Found(i) \subseteq 1 .. Len(cfds) /\ Len(cfds) \in Nat
  BY SummedFacts DEF Found, CountOK
<1>2. Found(i) \in SUBSET Nat
  BY <1>1
<1>3. \E k \in Found(i) : \A r \in Found(i) : k <= r
  BY <1>2, Least
<1>4. p \in Found(i)
  BY <1>3
<1> QED
  BY <1>1, <1>4

LEMMA OldRowSays ==
  ASSUME EchoOK, CountOK, program' = program, NEW i \in Conns, NEW p \in 1 .. Len(cfds),
         eth[i].pc = "add", cfds' = [cfds EXCEPT ![p] = Updated(i, p)], total_echo' = total_echo,
         Enters(i, p)
  PROVE  CountOK'
<1>1. PICK o, u, t, r, x, v, c2 :
        /\ u = [o EXCEPT !.pc = "loop"] /\ t = [u EXCEPT !.pos = p] /\ r = cfds[p] /\ x = o.fd /\ o = eth[i]
        /\ v = [r EXCEPT !.fd = x] /\ c2 = [cfds EXCEPT ![p] = v]
  OBVIOUS
<1>2. eth' = [eth EXCEPT ![i] = t] /\ cli' = cli /\ cfds' = c2 /\ eth[i].pos = 0 /\ IsEchoThread(o)
  BY <1>1 DEF Enters, Then, Updated, EchoOK, EchoThreadOK
<1>3. t.pc = "loop" /\ t.pos = p
  BY <1>1, <1>2, LoopAt
<1>4. Summed(cfds, total_echo) /\ Len(cfds) \in Nat /\ total_echo \in Nat
  BY SummedFacts DEF CountOK
<1>5. IsRow(r)
  BY <1>1, <1>4 DEF Summed
<1>6. IsRow(v) /\ v.count = r.count /\ r.count \in Nat
  <2>1. PICK a, b, c : r = [addr |-> a, fd |-> b, count |-> c] /\ c \in Nat
    BY <1>5 DEF IsRow
  <2>2. v = [addr |-> a, fd |-> x, count |-> c]
    BY <1>1, <2>1
  <2> QED
    BY <2>1, <2>2 DEF IsRow
<1>7. Summed(c2, total_echo + v.count - cfds[p].count)
  BY <1>1, <1>4, <1>6, RowReplacedSum
<1>8. total_echo + v.count - cfds[p].count = total_echo
  BY <1>1, <1>4, <1>6
<1>9. Summed(cfds', total_echo') /\ total_echo <= total_echo'
  <2>1. PICK y : y = total_echo
    OBVIOUS
  <2>2. Summed(c2, y)
    BY <1>7, <1>8, <2>1
  <2>3. total_echo' = y /\ total_echo <= y
    BY <1>4, <2>1
  <2> QED
    BY <1>2, <2>2, <2>3
<1>10. ~RowsAreOwn'
  <2>1. RowsOK /\ p # 0
    BY <1>4 DEF EchoOK
  <2>2. PICK j \in Conns : eth[j].pos = p
    BY <2>1 DEF RowsOK
  <2>3. j # i
    BY <1>2, <2>1, <2>2
  <2>4. eth'[i] = t /\ eth'[j] = eth[j]
    BY <1>2, <2>1, <2>3 DEF RowsOK
  <2> QED
    BY <1>3, <2>1, <2>2, <2>3, <2>4 DEF RowsAreOwn
<1>11. (t.pc \in Rowed => t.pos # 0) /\ (eth[i].pos # 0 => t.pos = eth[i].pos)
  BY <1>2, <1>3, <1>4
<1> QED
  BY <1>2, <1>9, <1>10, <1>11, ThreadSays

LEMMA RowSays ==
  ASSUME EchoOK, CountOK, program' = program, NEW i \in Conns,
         addOrUpdateUser(i) \/ tls_addOrUpdateUser(i)
  PROVE  CountOK'
<1>1. CASE tls_addOrUpdateUser(i)
  <2>1. Len(Rows(i)) = Len(cfds) + 1
    BY RowAdded DEF Rows, CountOK, Summed
  <2> QED
    BY <1>1, <2>1, NewRowSays DEF tls_addOrUpdateUser, Rows, In, Enters, Grows
<1>2. CASE addOrUpdateUser(i) /\ Found(i) = {}
  BY <1>2, NewRowSays DEF addOrUpdateUser, In, Enters, Grows
<1>3. CASE addOrUpdateUser(i) /\ Found(i) # {}
  <2>1. PICK p : p = CHOOSE q \in Found(i) : \A r \in Found(i) : q <= r
    OBVIOUS
  <2>2. /\ cfds' = [cfds EXCEPT ![p] = Updated(i, p)] /\ total_echo' = total_echo /\ eth[i].pc = "add"
        /\ Enters(i, p)
    BY <1>3, <2>1 DEF addOrUpdateUser, In, Enters
  <2>3. p \in 1 .. Len(cfds)
    BY <1>3, <2>1, FoundRow
  <2> QED
    BY <2>2, <2>3, OldRowSays
<1> QED
  BY <1>1, <1>2, <1>3

(* The answer is sent, or the process ends. *)
LEMMA SendStepSays ==
  ASSUME EchoOK, CountOK, program' = program, NEW i \in Conns, SendAnswer(i)
  PROVE  CountOK'
<1>1. PICK f, m, r : /\ f = eth[i].fd /\ m = pack_server_data(i) /\ r \in send(net, f, m)
                     /\ IF r.ret = "killed" THEN EndProcess
                        ELSE net' = r.net /\ ThenAt(i, "loop") /\ UNCHANGED <<cfds, total_echo>>
  BY DEF SendAnswer
<1>2. CASE r.ret = "killed"
  BY <1>1, <1>2, ProcessEndsSays
<1>3. CASE r.ret # "killed"
  <2>1. PICK o, t : o = eth[i] /\ t = [o EXCEPT !.pc = "loop"]
    OBVIOUS
  <2>2. /\ eth' = [eth EXCEPT ![i] = t] /\ cli' = cli /\ o.pc = "send" /\ alive
        /\ net' = r.net /\ cfds' = cfds /\ total_echo' = total_echo
    BY <1>1, <1>3, <2>1 DEF SendAnswer, ThenAt, Then, In
  <2>3. t.pc = "loop" /\ t.pos = o.pos
    <3>1. IsEchoThread(o) /\ t = [o EXCEPT !.pc = "loop"]
      BY <2>1, RowOf
    <3> QED
      BY <3>1, PcReplaced
  <2>4. o.pos # 0
    BY <2>1, <2>2 DEF CountOK, Rowed
  <2>5. total_echo \in Nat
    BY SummedFacts DEF CountOK
  <2>6. ASSUME RowsAreOwn
        PROVE  /\ Only(net, net', Client(i))
               /\ TalkOK(cli[i], net'.sock[Client(i)], t, Tallied(cfds', t.pos),
                         GreetingsLeft(t.pc), Greeting, total_echo')
    <3>1. PICK n2, s, k, k2, n, l :
            /\ n2 = r.net /\ s = Client(i) /\ k = net.sock[s] /\ k2 = n2.sock[s]
            /\ n = Tallied(cfds, o.pos) /\ l = GreetingsLeft(o.pc)
      OBVIOUS
    <3>2. net.fds[f] = s
      BY <1>1, <2>1, <2>2, <2>6, <3>1 DEF EchoOK, OwnNumbers, OwnNumber
    <3>3. IsNet(net) /\ s \in Ends
      BY <3>1, RowOf
    <3>4. Only(net, n2, s) /\ (SameSays(k, k2) \/ Hears(k, k2, k.out \cup {m}))
      BY <1>1, <3>1, <3>2, <3>3, SendSays
    <3>5. k.end # "none"
      BY <2>1, <2>2, <3>1 DEF EchoOK, EchoThreadOK
    <3>6. TalkOK(cli[i], k, o, n, l, Greeting, total_echo)
      BY <2>1, <2>6, <3>1, RowOf DEF TalksAs
    <3>7. m.users = o.users /\ m.total = o.total
      BY <1>1, <2>1 DEF pack_server_data
    <3>8. TalkOK(cli[i], k2, t, n, l, Greeting, total_echo)
      <4>1. CASE SameSays(k, k2)
        BY <2>3, <2>5, <3>6, <4>1, TalkKept DEF Holding
      <4>2. CASE Hears(k, k2, k.out \cup {m})
        <5>1. /\ k2.in = k.in /\ k2.sent = k.sent /\ k2.deaf = k.deaf /\ k2.out = k.out \cup {m}
              /\ k2.end = k.end
          BY <4>2 DEF Hears
        <5> QED
          BY <2>2, <2>3, <2>4, <3>5, <3>6, <3>7, <5>1, TalkSends
      <4> QED
        BY <3>4, <4>1, <4>2
    <3>9. GreetingsLeft(t.pc) = l
      BY <2>2, <2>3, <3>1, NoGreetings
    <3> QED
      BY <2>2, <2>3, <3>1, <3>4, <3>8, <3>9
  <2>7. RowsAreOwn => \A j \in Conns \ {i} :
           /\ SameSays(net.sock[Client(j)], net'.sock[Client(j)])
           /\ Tallied(cfds', eth[j].pos) = Tallied(cfds, eth[j].pos)
    BY <2>2, <2>6, OthersHear DEF Tallied
  <2>8. Summed(cfds', total_echo') /\ total_echo <= total_echo'
    BY <2>2, <2>5 DEF CountOK
  <2> QED
    BY <2>1, <2>2, <2>3, <2>4, <2>6, <2>7, <2>8, ThreadSays
<1> QED
  BY <1>2, <1>3

(* A greeting is read, or its place is not. *)
Listens(i) ==
  /\ Readable(net, Client(i))
  /\ net' = IF Received(net, Client(i)) = "data" THEN Taken(net, Client(i)) ELSE net

LEMMA ListensSays ==
  ASSUME EchoOK, NEW i \in Conns, Listens(i), ~net.sock[Client(i)].deaf,
         NEW k, k = net.sock[Client(i)], NEW k2, k2 = net'.sock[Client(i)]
  PROVE  /\ Only(net, net', Client(i))
         /\ k2.out = k.out /\ k2.sent = k.sent /\ k2.deaf = k.deaf /\ k2.end = k.end
         /\ \/ k.in # <<>> /\ k2.in = Tail(k.in)
            \/ k.in = <<>> /\ k2.in = k.in /\ k.end # "open"
<1>1. PICK s, n2 : s = Client(i) /\ n2 = net'
  OBVIOUS
<1>2. IsNet(net) /\ s \in Ends
  BY <1>1, EndsFacts DEF EchoOK
<1>3. CASE k.in # <<>>
  <2>1. n2 = Taken(net, s)
    <3>1. Received(net, Client(i)) = "data"
      BY <1>3 DEF Received
    <3> QED
      BY <1>1, <3>1 DEF Listens
  <2>2. Only(net, n2, s) /\ Loses(net.sock[s], n2.sock[s])
    BY <1>2, <2>1, OneTaken
  <2> QED
    BY <1>1, <1>3, <2>2 DEF Loses
<1>4. CASE k.in = <<>>
  <2>1. net' = net
    BY <1>4 DEF Listens, Received
  <2>2. k.end # "open"
    BY <1>4 DEF Listens, Readable
  <2> QED
    BY <1>4, <2>1, <2>2 DEF Only
<1> QED
  BY <1>3, <1>4

LEMMA GreetingRead ==
  ASSUME EchoOK, CountOK, program' = program, NEW i \in Conns, RowsAreOwn => Listens(i),
         NEW t, eth' = [eth EXCEPT ![i] = t], cli' = cli, cfds' = cfds, total_echo' = total_echo,
         eth[i].pos = 0, t.pos = 0, t.pc \in {"iv", "add"}, net.sock[Client(i)].end # "none",
         GreetingsLeft(eth[i].pc) \in Nat \ {0}, GreetingsLeft(t.pc) = GreetingsLeft(eth[i].pc) - 1
  PROVE  CountOK'
<1>1. PICK o, l, n : o = eth[i] /\ l = GreetingsLeft(eth[i].pc) /\ n = Tallied(cfds, o.pos)
  OBVIOUS
<1>2. ASSUME RowsAreOwn
      PROVE  /\ Only(net, net', Client(i))
             /\ TalkOK(cli[i], net'.sock[Client(i)], t, Tallied(cfds', t.pos),
                       GreetingsLeft(t.pc), Greeting, total_echo')
  <2>1. PICK k, k2 : k = net.sock[Client(i)] /\ k2 = net'.sock[Client(i)]
    OBVIOUS
  <2>2. TalkOK(cli[i], k, o, n, l, Greeting, total_echo)
    BY <1>1, <1>2, <2>1, RowOf DEF TalksAs
  <2>3. ~k.deaf
    BY <2>2 DEF TalkOK, QueueIn
  <2>4. /\ Only(net, net', Client(i))
        /\ k2.out = k.out /\ k2.sent = k.sent /\ k2.deaf = k.deaf /\ k2.end = k.end
        /\ \/ k.in # <<>> /\ k2.in = Tail(k.in)
           \/ k.in = <<>> /\ k2.in = k.in /\ k.end # "open"
    BY <1>2, <2>1, <2>3, ListensSays
  <2>5. l > 0 /\ k.end # "none" /\ t.pos = o.pos /\ t.pc \notin Holding
    BY <1>1, <2>1 DEF Holding
  <2>6. TalkOK(cli[i], k2, t, n, l - 1, Greeting, total_echo)
    BY <2>2, <2>4, <2>5, TalkSkips
  <2>7. Tallied(cfds', t.pos) = n /\ GreetingsLeft(t.pc) = l - 1
    BY <1>1, <2>5
  <2> QED
    BY <2>1, <2>4, <2>6, <2>7
<1>3. RowsAreOwn => \A j \in Conns \ {i} :
         /\ SameSays(net.sock[Client(j)], net'.sock[Client(j)])
         /\ Tallied(cfds', eth[j].pos) = Tallied(cfds, eth[j].pos)
  BY <1>2, OthersHear
<1>4. Summed(cfds', total_echo') /\ total_echo <= total_echo'
  <2>1. total_echo \in Nat
    BY SummedFacts DEF CountOK
  <2> QED
    BY <2>1 DEF CountOK
<1> QED
  BY <1>2, <1>3, <1>4, ThreadSays DEF Rowed

LEMMA ReadKeySays ==
  ASSUME EchoOK, CountOK, program' = program, program = "aes", NEW i \in Conns, ReadKey(i)
  PROVE  CountOK'
<1>0. ASSUME eth[i].pc \in {"key", "iv"}, alive, RowsAreOwn
      PROVE  Client(i) \in Ends /\ net.fds[eth[i].fd] = Client(i)
  <2>1. OwnNumber(net, i, eth[i], accepting)
    BY <1>0 DEF EchoOK, OwnNumbers
  <2> QED
    BY <1>0, <2>1, EndsFacts DEF OwnNumber
<1>1. PICK pc \in {"key", "iv"}, p2 \in {"iv", "add"} :
        /\ eth[i].pc = pc /\ (RowsAreOwn => Listens(i)) /\ ThenAt(i, p2) /\ cfds' = cfds /\ total_echo' = total_echo
        /\ (pc = "key" => p2 = "iv") /\ (pc = "iv" => p2 = "add")
  <2>1. PICK pc \in {"key", "iv"} :
          /\ In(i, pc)
          /\ \E s \in {Client(i), net.fds[eth[i].fd]} :
               IF s \in Ends
               THEN /\ Readable(net, s)
                    /\ net' = IF Received(net, s) = "data" THEN Taken(net, s) ELSE net
               ELSE net' = net
          /\ ThenAt(i, [key |-> "iv", iv |-> "add"][pc]) /\ UNCHANGED <<cfds, total_echo>>
    BY DEF ReadKey
  <2>2. RowsAreOwn => Listens(i)
    BY <1>0, <2>1 DEF In, Listens
  <2>3. eth[i].pc = pc
    BY <2>1 DEF In
  <2>4. CASE pc = "key"
    <3>1. ThenAt(i, "iv")
      BY <2>1, <2>4
    <3> QED
      BY <2>1, <2>2, <2>3, <2>4, <3>1
  <2>5. CASE pc = "iv"
    <3>1. ThenAt(i, "add")
      BY <2>1, <2>5
    <3> QED
      BY <2>1, <2>2, <2>3, <2>5, <3>1
  <2> QED
    BY <2>4, <2>5
<1>2. PICK o, t : o = eth[i] /\ t = [o EXCEPT !.pc = p2]
  OBVIOUS
<1>3. t.pc = p2 /\ t.pos = o.pos
  <2>1. IsEchoThread(o) /\ t = [o EXCEPT !.pc = p2]
    BY <1>2, RowOf
  <2> QED
    BY <2>1, PcReplaced
<1>4. eth' = [eth EXCEPT ![i] = t] /\ cli' = cli
  BY <1>1, <1>2 DEF ThenAt, Then
<1>5. eth[i].pos = 0 /\ net.sock[Client(i)].end # "none"
  BY <1>1 DEF EchoOK, EchoThreadOK
<1>6. GreetingsLeft(eth[i].pc) \in Nat \ {0} /\ GreetingsLeft(t.pc) = GreetingsLeft(eth[i].pc) - 1
  <2>1. GreetingsLeft("key") = 2 /\ GreetingsLeft("iv") = 1 /\ GreetingsLeft("add") = 0
    BY DEF GreetingsLeft
  <2> QED
    BY <1>1, <1>3, <2>1
<1> QED
  BY <1>1, <1>2, <1>3, <1>4, <1>5, <1>6, GreetingRead

LEMMA HandshakeSays ==
  ASSUME EchoOK, CountOK, program' = program, program = "tls", SSL_accept
  PROVE  CountOK'
<1>1. PICK i, x : i = accepting /\ eth' = [eth EXCEPT ![i].pc = "add", ![i].on = x]
  BY DEF SSL_accept
<1>2. /\ i \in Conns /\ Listens(i) /\ cli' = cli /\ cfds' = cfds /\ total_echo' = total_echo
  BY <1>1 DEF SSL_accept, Listens, EchoOK
<1>3. PICK o, u, t : o = eth[i] /\ u = [o EXCEPT !.pc = "add"] /\ t = [u EXCEPT !.on = x]
  OBVIOUS
<1>4. eth' = [eth EXCEPT ![i] = t]
  BY <1>1, <1>2, <1>3 DEF EchoOK, RowsOK
<1>5. o.pc = "none" /\ o.pos = 0 /\ IsEchoThread(o) /\ net.sock[Client(i)].end # "none"
  BY <1>1, <1>2, <1>3 DEF EchoOK, EchoThreadOK
<1>6. IsEchoThread(u) /\ u.pc = "add" /\ u.pos = o.pos
  BY <1>3, <1>5, EchoPc
<1>7. t.pc = u.pc /\ t.pos = u.pos
  BY <1>3, <1>6, EchoOn
<1>8. GreetingsLeft(o.pc) = 1 /\ GreetingsLeft(t.pc) = 0
  BY <1>5, <1>6, <1>7 DEF GreetingsLeft
<1> QED
  <2>1. GreetingsLeft(eth[i].pc) = 1 /\ GreetingsLeft(t.pc) = 1 - 1
    BY <1>3, <1>8
  <2>2. t.pos = 0 /\ t.pc \in {"iv", "add"} /\ eth[i].pos = 0
    BY <1>3, <1>5, <1>6, <1>7
  <2>3. GreetingsLeft(eth[i].pc) \in Nat \ {0} /\ GreetingsLeft(t.pc) = GreetingsLeft(eth[i].pc) - 1
    BY <2>1
  <2> QED
    BY <1>2, <1>4, <1>5, <2>2, <2>3, GreetingRead

(* main has accepted a client. *)
LEMMA AcceptedSays ==
  ASSUME EchoOK, CountOK, program' = program, net.backlog # <<>>, net' = accept(net),
         NEW i, i = Head(net.backlog)[1], NEW t, eth' = [eth EXCEPT ![i] = t],
         cli' = cli, cfds' = cfds, total_echo' = total_echo,
         t.pos = 0, t.pc \notin Rowed, GreetingsLeft(t.pc) = GreetingsLeft("none")
  PROVE  CountOK'
<1>1. QueueOK(net.backlog) /\ IsNet(net)
  BY DEF EchoOK
<1>2. i \in Conns /\ Queued(net.backlog, Client(i))
  <2>1. Head(net.backlog) \in Clients /\ Queued(net.backlog, Head(net.backlog))
    BY <1>1, FirstLeaves
  <2> QED
    BY <2>1, EndsFacts
<1>3. eth[i].pc = "none" /\ eth[i].pos = 0
  BY <1>2 DEF EchoOK, EchoThreadOK
<1>4. net'.sock = net.sock
  BY <1>1, AcceptNet
<1>5. total_echo \in Nat
  BY SummedFacts DEF CountOK
<1>6. ASSUME RowsAreOwn
      PROVE  TalkOK(cli[i], net'.sock[Client(i)], t, Tallied(cfds', t.pos),
                    GreetingsLeft(t.pc), Greeting, total_echo')
  <2>1. PICK k, o, n, l : /\ k = net.sock[Client(i)] /\ o = eth[i] /\ n = Tallied(cfds, o.pos)
                          /\ l = GreetingsLeft(o.pc)
    OBVIOUS
  <2>2. TalkOK(cli[i], k, o, n, l, Greeting, total_echo)
    BY <1>2, <1>6, <2>1, RowOf DEF TalksAs
  <2>3. SameSays(k, k) /\ t.pos = o.pos /\ t.pc \notin Holding
    BY <1>3, <2>1 DEF SameSays, Holding, Rowed
  <2>4. TalkOK(cli[i], k, t, n, l, Greeting, total_echo)
    BY <1>5, <2>2, <2>3, TalkKept
  <2>5. GreetingsLeft(t.pc) = l /\ Tallied(cfds', t.pos) = n
    BY <1>3, <2>1
  <2> QED
    BY <1>4, <2>1, <2>4, <2>5
<1>7. \A j \in Conns : /\ SameSays(net.sock[Client(j)], net'.sock[Client(j)])
                       /\ Tallied(cfds', eth[j].pos) = Tallied(cfds, eth[j].pos)
  BY <1>4 DEF SameSays
<1>8. Summed(cfds', total_echo') /\ total_echo <= total_echo'
  BY <1>5 DEF CountOK
<1> QED
  BY <1>2, <1>3, <1>6, <1>7, <1>8, ThreadSays

LEMMA MainSays ==
  ASSUME EchoOK, CountOK, program' = program,
         \/ program = "echo" /\ echo_main
         \/ program = "aes" /\ aes_main
  PROVE  CountOK'
<1>0. PICK pc \in {"add", "key"} :
        NewThread(Head(net.backlog)[1], pc) /\ (pc = "key" <=> program = "aes")
  BY DEF echo_main, aes_main
<1>1. PICK i, f, u, t :
        /\ i = Head(net.backlog)[1] /\ f = Lowest(net) /\ eth' = [eth EXCEPT ![i] = t]
        /\ u = [NoThread EXCEPT !.pc = pc] /\ t = [u EXCEPT !.fd = f]
  BY <1>0 DEF NewThread
<1>2. /\ net.backlog # <<>> /\ net' = accept(net) /\ cli' = cli /\ cfds' = cfds
      /\ total_echo' = total_echo
  BY DEF echo_main, aes_main
<1>3. t.pc = pc /\ t.pos = 0
  <2>1. PICK o : o = NoThread
    OBVIOUS
  <2>2. IsEchoThread(o) /\ o.pos = 0 /\ u = [o EXCEPT !.pc = pc]
    BY <1>1, <2>1 DEF NoThread, IsEchoThread
  <2>3. IsEchoThread(u) /\ u.pc = pc /\ u.pos = 0
    BY <2>2, EchoPc
  <2> QED
    BY <1>1, <2>3, EchoFd
<1>4. GreetingsLeft(pc) = GreetingsLeft("none")
  BY <1>0 DEF GreetingsLeft
<1> QED
  BY <1>0, <1>1, <1>2, <1>3, <1>4, AcceptedSays DEF Rowed

LEMMA TlsAcceptSays ==
  ASSUME EchoOK, CountOK, program' = program, TlsAccept
  PROVE  CountOK'
<1>1. PICK i, f, t : /\ i = Head(net.backlog)[1] /\ f = Lowest(net)
                     /\ t = [eth[i] EXCEPT !.fd = f] /\ eth' = [eth EXCEPT ![i] = t]
  BY DEF TlsAccept
<1>2. /\ net.backlog # <<>> /\ net' = accept(net) /\ cli' = cli /\ cfds' = cfds
      /\ total_echo' = total_echo
  BY DEF TlsAccept
<1>3. QueueOK(net.backlog)
  BY DEF EchoOK
<1>4. i \in Conns /\ Queued(net.backlog, Client(i))
  <2>1. Head(net.backlog) \in Clients /\ Queued(net.backlog, Head(net.backlog))
    BY <1>2, <1>3, FirstLeaves
  <2> QED
    BY <1>1, <2>1, EndsFacts
<1>5. IsEchoThread(eth[i]) /\ eth[i].pc = "none" /\ eth[i].pos = 0
  BY <1>4 DEF EchoOK, EchoThreadOK
<1>6. t.pc = "none" /\ t.pos = 0
  <2>1. PICK o : o = eth[i]
    OBVIOUS
  <2>2. IsEchoThread(o) /\ t = [o EXCEPT !.fd = f]
    BY <1>1, <1>5, <2>1
  <2>3. t.pc = o.pc /\ t.pos = o.pos
    BY <2>2, EchoFd
  <2> QED
    BY <1>5, <2>1, <2>3
<1> QED
  BY <1>1, <1>2, <1>6, AcceptedSays DEF Rowed

LEMMA ThreadsSay ==
  ASSUME EchoOK, CountOK, program' = program, NEW i \in Conns,
         \/ program = "echo" /\ thread_routene(i)
         \/ program = "tls" /\ tls_thread_routene(i)
         \/ program = "aes" /\ aes_thread_routene(i)
  PROVE  CountOK'
<1>1. CASE addOrUpdateUser(i) \/ tls_addOrUpdateUser(i)
  BY <1>1, RowSays
<1>2. CASE BeginRecv(i, "recv")
  BY <1>2, BeginSays
<1>3. CASE GotMessage(i, "count") \/ AesGotMessage(i)
  BY <1>3, GotMessageSays DEF AesGotMessage
<1>4. CASE GotError(i) \/ SmashedStack(i) \/ (In(i, "add") /\ EndProcess)
  BY <1>4, ProcessEndsSays DEF GotError, SmashedStack
<1>5. CASE TlsClose(i)
  <2>1. \/ EndProcess
        \/ /\ In(i, "close") /\ net' = close(net, eth[i].fd) /\ ThenAt(i, "clear")
           /\ UNCHANGED <<cfds, total_echo>>
    BY <1>5 DEF TlsClose
  <2> QED
    BY <2>1, ProcessEndsSays, QuietSteps
<1>6. CASE GotEnd(i) \/ TlsGotEnd(i) \/ TlsGotError(i) \/ CloseOwn(i) \/ ClearRow(i)
  BY <1>6, QuietSteps
<1>7. CASE Count(i)
  BY <1>7, CountSays
<1>8. CASE ReadCounts(i)
  BY <1>8, ReadCountsSays
<1>9. CASE SendAnswer(i)
  BY <1>9, SendStepSays
<1>10. CASE program = "aes" /\ ReadKey(i)
  BY <1>10, ReadKeySays
<1> QED
  BY <1>1, <1>2, <1>3, <1>4, <1>5, <1>6, <1>7, <1>8, <1>9, <1>10
     DEF thread_routene, tls_thread_routene, aes_thread_routene, TlsBegin, TlsGotMessage,
         aes_addOrUpdateUser

NothingCounted == cfds = <<>> /\ total_echo = 0 /\ cli = [i \in Conns |-> NoClient]
CountInv == /\ program \in EchoPrograms => CountOK
            /\ program \notin EchoPrograms => NothingCounted

LEMMA CountInitially ==
  ASSUME Init
  PROVE  CountInv
<1>1. /\ cfds = <<>> /\ total_echo = 0 /\ eth = [i \in Conns |-> NoThread]
      /\ cli = [i \in Conns |-> NoClient] /\ net.sock = [s \in Ends |-> NewSocket]
  BY DEF Init, TcpInit, EchoInit
<1>2. Summed(cfds, total_echo)
  BY <1>1, NothingSummed
<1>3. ClientsOK
  <2>1. NoClient = MkClient("none", "none", 0, 0, 0, 0, 0)
    BY DEF NoClient, MkClient
  <2>2. IsClient(NoClient)
    BY <2>1, ClientFields
  <2> QED
    BY <1>1, <2>2 DEF ClientsOK
<1>4. \A i \in Conns : eth[i].pc = "none" /\ eth[i].pos = 0
  BY <1>1 DEF NoThread
<1>5. ASSUME NEW i \in Conns PROVE TalksAs(i, cli[i], eth[i])
  <2>1. PICK c, k, t, g : c = cli[i] /\ k = net.sock[Client(i)] /\ t = eth[i] /\ g = Greeting
    OBVIOUS
  <2>2. /\ c.pc = "none" /\ c.answers = 0 /\ c.users = 0 /\ c.total = 0
        /\ t.pc = "none" /\ t.pos = 0 /\ k = NewSocket
    BY <1>1, <2>1, EndsFacts DEF NoClient, NoThread
  <2>3. g \in Nat /\ GreetingsLeft(t.pc) = g
    BY <2>1, <2>2 DEF Greeting, GreetingsLeft
  <2>4. /\ k.in = <<>> /\ k.out = {} /\ k.sent = 0 /\ k.end = "none" /\ ~k.deaf
    BY <2>2 DEF NewSocket
  <2>5. QueueIn(k, g, g)
    <3>1. <<>> \in Seq(Messages) /\ Len(<<>>) = 0
      BY EmptySeq
    <3>2. Polite(<<>>, g)
      BY <3>1 DEF Polite
    <3> QED
      BY <2>3, <2>4, <3>1, <3>2 DEF QueueIn
  <2>6. TalkOK(c, k, t, 0, g, g, 0)
    BY <2>2, <2>4, <2>5 DEF TalkOK, Tally
  <2> QED
    BY <1>1, <2>1, <2>2, <2>3, <2>6 DEF TalksAs, Tallied
<1> QED
  BY <1>1, <1>2, <1>3, <1>4, <1>5 DEF CountInv, CountOK, NothingCounted, Rowed

LEMMA CountConsecution ==
  ASSUME Inv, CountInv, [Next]_vars
  PROVE  CountInv'
<1>1. CASE Next /\ program \in EchoPrograms
  <2>1. EchoOK /\ CountOK /\ program' = program
    BY <1>1 DEF Inv, EchoInv, CountInv, EchoPrograms, Next, Run
  <2>2. SUFFICES CountOK'
    BY <1>1, <2>1 DEF CountInv
  <2>3. \/ program = "echo" /\ EchoNext
        \/ program = "tls" /\ TlsNext
        \/ program = "aes" /\ AesNext
    BY <1>1 DEF EchoPrograms, Next, Run
  <2>4. CASE \/ program = "echo" /\ EchoClients
             \/ program = "tls" /\ TlsClients
             \/ program = "aes" /\ AesClients
    BY <2>1, <2>4, ProgramsSay
  <2>5. CASE \/ program = "echo" /\ echo_main
             \/ program = "aes" /\ aes_main
    BY <2>1, <2>5, MainSays
  <2>6. CASE program = "tls" /\ (TlsAccept \/ SSL_accept)
    BY <2>1, <2>6, TlsAcceptSays, HandshakeSays
  <2>7. CASE \E i \in Conns : \/ program = "echo" /\ thread_routene(i)
                              \/ program = "tls" /\ tls_thread_routene(i)
                              \/ program = "aes" /\ aes_thread_routene(i)
    BY <2>1, <2>7, ThreadsSay
  <2>8. CASE KilledBySSL_accept
    BY <2>1, <2>8, ProcessEndsSays DEF KilledBySSL_accept
  <2> QED
    BY <2>3, <2>4, <2>5, <2>6, <2>7, <2>8 DEF EchoNext, TlsNext, AesNext
<1>2. CASE Next /\ program \notin EchoPrograms
  <2>1. program' = program /\ cfds' = cfds /\ total_echo' = total_echo /\ cli' = cli
    BY <1>2 DEF Next, Run, echoVars, EchoPrograms
  <2> QED
    BY <1>2, <2>1 DEF CountInv, NothingCounted
<1>3. CASE UNCHANGED vars
  <2>1. /\ program' = program /\ cfds' = cfds /\ total_echo' = total_echo /\ cli' = cli
        /\ eth' = eth /\ net' = net
    BY <1>3 DEF vars, echoVars
  <2>2. \A pc : GreetingsLeft(pc)' = GreetingsLeft(pc) /\ Greeting' = Greeting
    BY <2>1 DEF GreetingsLeft, Greeting
  <2>3. \A i \in Conns : TalksAs(i, cli[i], eth[i])' <=> TalksAs(i, cli[i], eth[i])
    BY <2>1, <2>2 DEF TalksAs, Tallied
  <2> QED
    BY <2>1, <2>3 DEF CountInv, CountOK, NothingCounted, ClientsOK, RowsAreOwn
<1> QED
  BY <1>1, <1>2, <1>3

(* For any number of clients: the total agrees with the rows; and as long  *)
(* as no session goes on with the row of another, what a client is told    *)
(* lies between what it sent itself and all that were counted, although    *)
(* the counts are raised in one critical section and read in another       *)
(* (EchoServer.c, lines 135 to 138 and 142 to 145).                        *)
THEOREM CountsAreTold == Spec => []CountsAgree
<1>1. Init => CountInv
  BY CountInitially
<1>2. Inv /\ CountInv /\ [Next]_vars => CountInv'
  BY CountConsecution
<1>3. CountInv => CountsAgree
  <2>1. CASE program \in EchoPrograms /\ CountInv
    <3>1. CountOK
      BY <2>1 DEF CountInv
    <3>2. total_echo = Sums(cfds)
      BY <3>1 DEF CountOK, Summed
    <3>3. ASSUME RowsAreOwn, NEW i \in Conns
          PROVE  /\ cli[i].users = cli[i].answers
                 /\ cli[i].users <= cli[i].total /\ cli[i].total <= total_echo
      BY <3>1, <3>3 DEF CountOK, TalksAs, TalkOK, Tally
    <3> QED
      BY <3>2, <3>3 DEF CountsAgree
  <2>2. CASE program \notin EchoPrograms /\ CountInv
    <3>1. NothingCounted
      BY <2>2 DEF CountInv
    <3>2. total_echo = Sums(cfds)
      BY <3>1, NothingSummed DEF NothingCounted, Summed
    <3>3. \A i \in Conns : cli[i].answers = 0 /\ cli[i].users = 0 /\ cli[i].total = 0
      BY <3>1 DEF NothingCounted, NoClient
    <3> QED
      BY <3>1, <3>2, <3>3 DEF CountsAgree, NothingCounted
  <2> QED
    BY <2>1, <2>2
<1> QED
  BY <1>1, <1>2, <1>3, InvIsInvariant, PTL DEF Spec
=============================================================================
