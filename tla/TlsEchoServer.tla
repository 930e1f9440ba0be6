--------------------------- MODULE TlsEchoServer ---------------------------
(***************************************************************************)
(* Mini Project Encryption Update: the echo server over TLS.  Every        *)
(* connection has a row of its own, and main makes the handshake of a      *)
(* client before it accepts another.                                       *)
(*                                                                         *)
(* "hello" is what a client's SSL_connect() sends, "notify" SSL_shutdown().*)
(***************************************************************************)
EXTENDS EchoServer

CONSTANT TlsVisits    \* the clients that come to this version

(* EchoClient.c, main: SSL_connect() before the first line, SSL_shutdown() *)
(* after the last.                                                         *)
SSL_connect(i) == /\ Types(i) /\ net.sock[Client(i)].sent = 0
                  /\ PeerSends(Client(i), "hello") /\ UNCHANGED cli
TlsExits(i) == /\ Types(i) /\ PeerSends(Client(i), "notify")
               /\ Becomes(i, [cli[i] EXCEPT !.pc = "leaving"])
TlsCloses(i) == cli[i].pc = "leaving" /\ PeerEnds(Client(i), "fin") /\ Becomes(i, [cli[i] EXCEPT !.pc = "done"])

tls_client_main(i) == \/ SSL_connect(i) \/ GetsAnswer(i) \/ ClosedRemotely(i)
                      \/ (net.sock[Client(i)].sent > 0 /\ TlsExits(i)) \/ TlsCloses(i)
TlsClients == /\ \E i \in Conns :
                   \/ Starts(i, TlsVisits) \/ Crashes(i) \/ tls_client_main(i)
                   \/ net.sock[Client(i)].sent > 0 /\ \E m \in {"text", "exit"} : Asks(i, m)
              /\ UNCHANGED <<alive, cfds, total_echo, eth, accepting>>

-----------------------------------------------------------------------------
(* main *)
TlsAccept == /\ alive /\ accepting = Nobody /\ net.backlog # <<>>
             /\ net' = accept(net) /\ accepting' = Head(net.backlog)[1]
             /\ eth' = [eth EXCEPT ![accepting'].fd = Lowest(net)]
             /\ UNCHANGED <<alive, cfds, total_echo, cli>>

(* SSL_accept() waits for the client; its result is not looked at.         *)
SSL_accept ==
  LET i == accepting
      s == Client(i)
  IN  /\ alive /\ i # Nobody /\ Readable(net, s)
      /\ net' = IF Received(net, s) = "data" THEN Taken(net, s) ELSE net
      /\ eth' = [eth EXCEPT ![i].pc = "add",
                            ![i].on = IF Received(net, s) = "data" THEN s ELSE Free]
      /\ accepting' = Nobody
      /\ UNCHANGED <<alive, cfds, total_echo, cli>>

(* It also writes, and ctx sets no handler for SIGPIPE: a client that is   *)
(* gone before the answer to its hello ends the server.                    *)
KilledBySSL_accept ==
  LET k == net.sock[Client(accepting)]
  IN  /\ alive /\ accepting # Nobody
      /\ k.in # <<>> /\ k.end \in {"fin", "rst"}
      /\ EndProcess

(* The search for the address is commented out.                            *)
Rows(i) == Append(cfds, Row(i, 0))
tls_addOrUpdateUser(i) ==
  /\ In(i, "add") /\ cfds' = Rows(i)
  /\ Then(i, [eth[i] EXCEPT !.pc = "loop", !.pos = Len(Rows(i))])
  /\ UNCHANGED <<net, total_echo>>

(* TLS_recvall(): an error, such as a handshake that failed, ends the      *)
(* thread and leaves the descriptor open.                                  *)
Established(i) == eth[i].on # Free
TlsBegin(i) == Established(i) /\ BeginRecv(i, "recv")

TlsEnds(i) == (Recv(i, "data") /\ Message(net, eth[i].on) = "notify") \/ Recv(i, "eof")
TlsFails(i) == \/ In(i, "loop") /\ ~(Established(i) /\ IsOpen(net, eth[i].fd))
               \/ Recv(i, "eof")       \* a FIN without a close_notify
               \/ Recv(i, "error")

TlsGotMessage(i) == ~TlsEnds(i) /\ GotMessage(i, "count")
TlsGotEnd(i) == TlsEnds(i) /\ ThenAt(i, "close") /\ UNCHANGED <<net, cfds, total_echo>>
TlsGotError(i) == TlsFails(i) /\ ThenAt(i, "done") /\ UNCHANGED <<net, cfds, total_echo>>

(* SSL_shutdown() writes to the socket before it is closed.                *)
TlsClose(i) ==
  /\ In(i, "close")
  /\ \E r \in send(net, eth[i].fd, [users |-> 0, total |-> 0]) :
       IF r.ret = "killed" THEN EndProcess
       ELSE /\ net' = close(net, eth[i].fd)
            /\ ThenAt(i, "clear") /\ UNCHANGED <<cfds, total_echo>>

tls_thread_routene(i) ==
  \/ tls_addOrUpdateUser(i) \/ TlsBegin(i) \/ TlsGotMessage(i) \/ TlsGotEnd(i) \/ TlsGotError(i)
  \/ TlsClose(i) \/ ClearRow(i) \/ Count(i) \/ ReadCounts(i) \/ SendAnswer(i)

TlsNext == TlsClients \/ TlsAccept \/ SSL_accept \/ KilledBySSL_accept
           \/ \E i \in Conns : tls_thread_routene(i)
=============================================================================
