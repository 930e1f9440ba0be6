-------------------------------- MODULE Tcp --------------------------------
(***************************************************************************)
(* The socket calls of the servers that block: accept(), recv(), send(),   *)
(* shutdown() and close(), and the peers at the other ends.  External: the *)
(* kernel, modelled from how the servers use it.                           *)
(*                                                                         *)
(* <<i, "client">> is the socket of the i-th client that connects, and     *)
(* <<i, "server">> one that a proxy opens for it.  Every call resolves its *)
(* descriptor in the table, so that a stale number may name a stranger.    *)
(***************************************************************************)
EXTENDS Naturals, Sequences, FiniteSets

CONSTANTS N,      \* how many clients connect, in all
          MaxFd   \* the descriptors in use are among 1 .. MaxFd

ASSUME TcpAssumption == N \in Nat \ {0} /\ MaxFd \in Nat /\ MaxFd > 2 * N

VARIABLES net,    \* the sockets, the descriptor table and the listen backlog
          alive   \* whether the process runs

Conns == 1 .. N
Ends == Conns \X {"client", "server"}
Client(i) == <<i, "client">>
Server(i) == <<i, "server">>
Listen == <<0, "listen">>
Leaked == <<0, "leaked">>    \* a socket that nothing closes and nobody uses
Free == <<0, "free">>

(* in: what can be received; out: what the peer was sent; sent: how often   *)
(* it sent; end: how far it has gone; told: it was sent our FIN; deaf: our *)
(* side is shut down for reading.                                          *)
NewSocket == [in |-> <<>>, out |-> {}, sent |-> 0, end |-> "none", told |-> FALSE,
              deaf |-> FALSE]

TcpInit == /\ net = [sock |-> [s \in Ends |-> NewSocket],
                     fds |-> [f \in 1 .. MaxFd |-> IF f = 1 THEN Listen ELSE Free],
                     backlog |-> <<>>]
           /\ alive = TRUE

Lowest(n) == CHOOSE f \in 1 .. MaxFd : n.fds[f] = Free /\ \A g \in 1 .. f - 1 : n.fds[g] # Free

-----------------------------------------------------------------------------
(* Calls: the network after them.                                          *)

accept(n) == [n EXCEPT !.fds[Lowest(n)] = Head(n.backlog), !.backlog = Tail(@)]
connect(n, s) == [n EXCEPT !.fds[Lowest(n)] = s, !.sock[s].end = "open"]
leak(n) == [n EXCEPT !.fds[Lowest(n)] = Leaked]

IsOpen(n, f) == f \in 1 .. MaxFd /\ n.fds[f] \in Ends

close(n, f) ==
  IF IsOpen(n, f)
  THEN [n EXCEPT !.fds[f] = Free, !.sock[n.fds[f]].told = TRUE]
  ELSE n
shutdown_wr(n, f) == IF IsOpen(n, f) THEN [n EXCEPT !.sock[n.fds[f]].told = TRUE] ELSE n
shutdown_rd(n, f) == IF IsOpen(n, f) THEN [n EXCEPT !.sock[n.fds[f]].deaf = TRUE] ELSE n

(* recv() on socket s: until Readable it blocks.                           *)
Readable(n, s) == LET k == n.sock[s] IN k.in # <<>> \/ k.deaf \/ k.end \in {"fin", "rst"}
Received(n, s) ==
  LET k == n.sock[s]
  IN  IF k.in # <<>> THEN "data"
      ELSE IF k.deaf \/ k.end = "fin" THEN "eof"
      ELSE "error"
Message(n, s) == Head(n.sock[s].in)
Taken(n, s) == [n EXCEPT !.sock[s].in = Tail(@)]

(* send() of m on descriptor f: the possible results.  A peer that closed  *)
(* answers with a reset; writing after that raises SIGPIPE, which none of  *)
(* the servers ignores.                                                    *)
send(n, f, m) ==
  LET k == n.sock[n.fds[f]]
      sent == [n EXCEPT !.sock[n.fds[f]].out = @ \cup {m}]
  IN  IF ~IsOpen(n, f) THEN {[ret |-> "failed", net |-> n]}
      ELSE IF k.told \/ k.end = "rst" THEN {[ret |-> r, net |-> n] : r \in {"failed", "killed"}}
      ELSE IF k.end = "fin"
      THEN {[ret |-> "sent", net |-> sent],
            [ret |-> "sent", net |-> [n EXCEPT !.sock[n.fds[f]].end = "rst"]]}
      ELSE {[ret |-> "sent", net |-> sent]}

(* The process ends: the kernel closes what it had.                        *)
Ended(n) == [n EXCEPT !.fds = [f \in 1 .. MaxFd |-> Free],
                      !.sock = [s \in Ends |-> [@[s] EXCEPT !.told = TRUE]]]

-----------------------------------------------------------------------------
(* Peers.                                                                  *)

Arrives(i) == /\ net.sock[Client(i)].end = "none"
              /\ \A j \in 1 .. i - 1 : net.sock[Client(j)].end # "none"
              /\ net' = [net EXCEPT !.sock[Client(i)].end = "open",
                                    !.backlog = Append(@, Client(i))]
PeerSends(s, m) == /\ net.sock[s].end = "open"
                   /\ net' = [net EXCEPT !.sock[s].in = Append(@, m), !.sock[s].sent = @ + 1]
PeerEnds(s, how) == /\ net.sock[s].end = "open"
                    /\ net' = [net EXCEPT !.sock[s].end = how]
=============================================================================
