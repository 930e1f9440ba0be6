----------------------------- MODULE EchoServer -----------------------------
(***************************************************************************)
(* Mini Project 27-1-26: EchoServer.c, a thread for each client and a      *)
(* table of clients by address behind one mutex; EchoClient.c; datapack.h. *)
(*                                                                         *)
(* A critical section is one step.  A message of the fixed size that       *)
(* sendall() and recvall() agree on is one message of Tcp.                 *)
(***************************************************************************)
EXTENDS Tcp

CONSTANT Visits   \* the clients that come, in order: address and messages of each

VARIABLES cfds,        \* the table of clients; n_sockets is its length
          total_echo,
          eth,         \* the thread of each connection
          cli,         \* the client program at the other end
          accepting    \* whom main is busy with, in the version with TLS

echoVars == <<cfds, total_echo, eth, cli, accepting>>
Nobody == 0

(* on: the socket of the call that the thread is in; users, total: what it *)
(* read; a client's users and total: its last answer.                      *)
NoThread == [pc |-> "none", fd |-> 0, pos |-> 0, on |-> Free, users |-> 0, total |-> 0]
NoClient == [pc |-> "none", addr |-> "none", asks |-> 0,
             asked |-> 0, answers |-> 0, users |-> 0, total |-> 0]

EchoInit == /\ cfds = <<>> /\ total_echo = 0
            /\ eth = [i \in Conns |-> NoThread]
            /\ cli = [i \in Conns |-> NoClient]
            /\ accepting = Nobody

-----------------------------------------------------------------------------
(* EchoClient.c: main.  It reads a line, sends it and waits for the answer. *)
Becomes(i, c) == cli' = [cli EXCEPT ![i] = c]
Types(i) == cli[i].pc = "typing"

Starts(i, visits) ==
  /\ Arrives(i)
  /\ \E v \in visits :
       /\ i <= Len(v) /\ \A j \in 1 .. i - 1 : cli[j].addr = v[j].addr /\ cli[j].asks = v[j].asks
       /\ Becomes(i, [NoClient EXCEPT !.pc = "typing", !.addr = v[i].addr, !.asks = v[i].asks])

(* The line "exit" closes; another program may send it as a message.       *)
Asks(i, m) == /\ Types(i) /\ cli[i].asked < cli[i].asks
              /\ PeerSends(Client(i), m)
              /\ Becomes(i, [cli[i] EXCEPT !.pc = "waiting", !.asked = @ + 1])
Exits(i) == Types(i) /\ PeerEnds(Client(i), "fin") /\ Becomes(i, [cli[i] EXCEPT !.pc = "done"])
Crashes(i) == /\ PeerEnds(Client(i), "rst")
              /\ Becomes(i, [cli[i] EXCEPT !.pc = "done"])

Answers(i) == {m \in net.sock[Client(i)].out : m.total > 0}
GetsAnswer(i) ==
  /\ cli[i].pc = "waiting"
  /\ \E m \in Answers(i) :
       /\ net' = [net EXCEPT !.sock[Client(i)].out = @ \ {m}]
       /\ Becomes(i, [cli[i] EXCEPT !.pc = "typing", !.answers = @ + 1,
                                    !.users = m.users, !.total = m.total])
ClosedRemotely(i) ==
  /\ cli[i].pc = "waiting" /\ Answers(i) = {} /\ net.sock[Client(i)].told
  /\ PeerEnds(Client(i), "fin") /\ Becomes(i, [cli[i] EXCEPT !.pc = "done"])

client_main(i) == Exits(i) \/ GetsAnswer(i) \/ ClosedRemotely(i)
EchoClients == /\ \E i \in Conns : \/ Starts(i, Visits) \/ Crashes(i) \/ client_main(i)
                                   \/ \E m \in {"text", "exit"} : Asks(i, m)
               /\ UNCHANGED <<alive, cfds, total_echo, eth, accepting>>

-----------------------------------------------------------------------------
(* main: accept and a new thread. *)
NewThread(i, pc) == eth' = [eth EXCEPT ![i] = [NoThread EXCEPT !.pc = pc, !.fd = Lowest(net)]]

echo_main ==
  /\ alive /\ net.backlog # <<>>
  /\ net' = accept(net) /\ NewThread(Head(net.backlog)[1], "add")
  /\ UNCHANGED <<alive, cfds, total_echo, cli, accepting>>

(* The next step of thread i. *)
In(i, pc) == alive /\ eth[i].pc = pc
Then(i, t) == /\ eth' = [eth EXCEPT ![i] = t] /\ UNCHANGED <<alive, cli, accepting>>
ThenAt(i, pc) == Then(i, [eth[i] EXCEPT !.pc = pc])
EndProcess == /\ alive' = FALSE /\ net' = Ended(net)
              /\ UNCHANGED echoVars

getClientIP(i) == cli[i].addr
Row(i, count) == [addr |-> getClientIP(i), fd |-> eth[i].fd, count |-> count]
Found(i) == {p \in DOMAIN cfds : cfds[p].addr = getClientIP(i)}

(* The address has a row: its old session is shut down and closed, and the *)
(* row goes on with its count.                                             *)
ResetMutant(i, p) == Row(i, 0)
Updated(i, p) == [cfds[p] EXCEPT !.fd = eth[i].fd]

addOrUpdateUser(i) ==
  /\ In(i, "add") /\ UNCHANGED total_echo
  /\ IF Found(i) = {}
     THEN /\ cfds' = Append(cfds, Row(i, 0)) /\ UNCHANGED net
          /\ Then(i, [eth[i] EXCEPT !.pc = "loop", !.pos = Len(cfds) + 1])
     ELSE LET p == CHOOSE q \in Found(i) : \A r \in Found(i) : q <= r
              old == cfds[p].fd
          IN  /\ cfds' = [cfds EXCEPT ![p] = Updated(i, p)]
              /\ net' = close(shutdown_rd(shutdown_wr(net, old), old), old)
              /\ Then(i, [eth[i] EXCEPT !.pc = "loop", !.pos = p])

(* recvall(): the descriptor is looked up when the call begins.            *)
BeginRecv(i, begun) ==
  /\ In(i, "loop") /\ IsOpen(net, eth[i].fd)
  /\ Then(i, [eth[i] EXCEPT !.pc = begun, !.on = net.fds[eth[i].fd]])
  /\ UNCHANGED <<net, cfds, total_echo>>

Recv(i, result) == /\ In(i, "recv") /\ Readable(net, eth[i].on)
                   /\ Received(net, eth[i].on) = result
GotMessage(i, next) ==
  /\ Recv(i, "data") /\ net' = Taken(net, eth[i].on)
  /\ ThenAt(i, IF Message(net, eth[i].on) = "exit" THEN "close" ELSE next)
  /\ UNCHANGED <<cfds, total_echo>>
GotEnd(i) == Recv(i, "eof") /\ ThenAt(i, "close") /\ UNCHANGED <<net, cfds, total_echo>>

(* recv() failed: exit(EXIT_FAILURE) ends the server.                      *)
GotError(i) == /\ Recv(i, "error") \/ (In(i, "loop") /\ ~IsOpen(net, eth[i].fd))
               /\ EndProcess

(* close(), and then the row is told so outside of the mutex, although it  *)
(* may be a newer session's by now.                                        *)
CloseOwn(i) == /\ In(i, "close") /\ net' = close(net, eth[i].fd)
               /\ ThenAt(i, "clear") /\ UNCHANGED <<cfds, total_echo>>
ClearedRow(i) == cfds' = [cfds EXCEPT ![eth[i].pos].fd = 0] /\ UNCHANGED <<net, total_echo>>

CloseAgainMutant(i) == /\ In(i, "clear") /\ ClearedRow(i)
                       /\ ThenAt(i, IF cfds[eth[i].pos].fd = 0 THEN "done" ELSE "close")
ClearRow(i) == In(i, "clear") /\ ClearedRow(i) /\ ThenAt(i, "done")

(* The counts are raised in one critical section and read in another.      *)
Count(i) == /\ In(i, "count")
            /\ cfds' = [cfds EXCEPT ![eth[i].pos].count = @ + 1]
            /\ total_echo' = total_echo + 1
            /\ ThenAt(i, "read") /\ UNCHANGED net
ReadCounts(i) == /\ In(i, "read")
                 /\ Then(i, [eth[i] EXCEPT !.pc = "send", !.users = cfds[eth[i].pos].count,
                                           !.total = total_echo])
                 /\ UNCHANGED <<net, cfds, total_echo>>

(* datapack.h: the answer. *)
pack_server_data(i) == [users |-> eth[i].users, total |-> eth[i].total]

SendAnswer(i) ==
  /\ In(i, "send")
  /\ \E r \in send(net, eth[i].fd, pack_server_data(i)) :
       IF r.ret = "killed" THEN EndProcess
       ELSE net' = r.net /\ ThenAt(i, "loop") /\ UNCHANGED <<cfds, total_echo>>

thread_routene(i) ==
  \/ addOrUpdateUser(i) \/ BeginRecv(i, "recv") \/ GotMessage(i, "count") \/ GotEnd(i)
  \/ GotError(i) \/ CloseOwn(i) \/ ClearRow(i) \/ Count(i) \/ ReadCounts(i) \/ SendAnswer(i)

EchoNext == EchoClients \/ echo_main \/ \E i \in Conns : thread_routene(i)

-----------------------------------------------------------------------------
Sums(rows) == LET s[k \in 0 .. Len(rows)] == IF k = 0 THEN 0 ELSE s[k - 1] + rows[k].count
              IN  s[Len(rows)]
RowsAreOwn == \A i, j \in Conns : i # j /\ eth[i].pos # 0 => eth[i].pos # eth[j].pos

(* The total agrees with the rows; and as long as no session goes on with  *)
(* the row of another, a client is told how many messages it sent itself,  *)
(* and a total between that and all that were counted: although the counts *)
(* are raised in one critical section (lines 135 to 138) and read in       *)
(* another (lines 142 to 145).                                             *)
CountsAgree ==
  /\ total_echo = Sums(cfds)
  /\ RowsAreOwn => \A i \in Conns :
       /\ cli[i].users = cli[i].answers
       /\ cli[i].users <= cli[i].total /\ cli[i].total <= total_echo

(* A thread uses a number that names another client's socket only when an  *)
(* address has come twice: then lines 77 and 78 close a descriptor that    *)
(* its thread goes on to use and closes again.                             *)
StrangersNeedSecondSession ==
  RowsAreOwn => \A i \in Conns :
    /\ eth[i].pc \in {"loop", "count", "read", "send", "close"} =>
         net.fds[eth[i].fd] \in {Client(i), Free}
    /\ eth[i].pc = "recv" => eth[i].on = Client(i)
=============================================================================
