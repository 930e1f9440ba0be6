---------------------------- MODULE SelectServer ----------------------------
(***************************************************************************)
(* 23-1-26/selectserver.c: one thread that select()s and echoes; and       *)
(* client.c, which sends what is typed and ends with the connection.       *)
(***************************************************************************)
EXTENDS Tcp

VARIABLES master, nfds,   \* the globals
          readfds,        \* what select() returned
          i_              \* the loop's counter; 0 when it waits in select()

selectVars == <<master, nfds, readfds, i_>>

SelectInit == /\ master = {1} /\ nfds = 2       \* the listening descriptor is 1
              /\ readfds = {} /\ i_ = 0

(* client.c: main *)
TypesLine(i) == \E m \in {"text", "exit"} :
                  net.sock[Client(i)].sent = 0 /\ PeerSends(Client(i), m)
SeesEnd(i) == net.sock[Client(i)].told /\ PeerEnds(Client(i), "fin")
Killed(i) == PeerEnds(Client(i), "rst")
SelectClients == /\ \E i \in Conns : Arrives(i) \/ TypesLine(i) \/ SeesEnd(i) \/ Killed(i)
                 /\ UNCHANGED <<alive, selectVars>>

HasEvent(f) == IF f = 1 THEN net.backlog # <<>> ELSE IsOpen(net, f) /\ Readable(net, net.fds[f])

(* The loop is over when no descriptor is left below nfds.                 *)
Left == {f \in readfds : f >= i_ /\ f < nfds}
select == /\ alive /\ (i_ = 0 \/ Left = {})
          /\ LET ready == {f \in master : f < nfds /\ HasEvent(f)}
             IN  /\ readfds' = ready
                 /\ i_' = IF ready = {} THEN 0 ELSE 1
          /\ UNCHANGED <<net, alive, master, nfds>>

(* The next descriptor that FD_ISSET finds.                                *)
Turn(f) == alive /\ i_ # 0 /\ f \in Left /\ \A g \in Left : f <= g

accept_client ==
  /\ Turn(1) /\ i_' = 2
  /\ master' = master \cup {Lowest(net)} /\ nfds' = Lowest(net) + 1
  /\ net' = accept(net) /\ UNCHANGED <<alive, readfds>>

LowersMutant(f) == nfds' = f
AfterClear(f) == nfds' = nfds
CloseAndClear(f) == /\ net' = close(net, f) /\ master' = master \ {f}
                    /\ AfterClear(f) /\ UNCHANGED <<alive, readfds>>

Gone(f) == /\ Turn(f) /\ f # 1 /\ Received(net, net.fds[f]) # "data"
           /\ CloseAndClear(f) /\ i_' = f + 1

(* "exit" also leaves the loop.                                            *)
Exit(f) == /\ Turn(f) /\ f # 1 /\ Received(net, net.fds[f]) = "data"
           /\ Message(net, net.fds[f]) = "exit"
           /\ CloseAndClear(f) /\ i_' = 0

(* The echo is a hundred bytes whatever was received.                      *)
Echo(f) ==
  /\ Turn(f) /\ f # 1 /\ Received(net, net.fds[f]) = "data" /\ Message(net, net.fds[f]) # "exit"
  /\ \E r \in send(Taken(net, net.fds[f]), f, "echo") :
       /\ net' = IF r.ret = "killed" THEN Ended(net) ELSE r.net
       /\ alive' = (r.ret # "killed")
  /\ i_' = f + 1
  /\ UNCHANGED <<master, nfds, readfds>>

SelectMain == select \/ accept_client \/ \E f \in 2 .. MaxFd : Gone(f) \/ Exit(f) \/ Echo(f)
SelectNext == SelectClients \/ SelectMain

(* A client that waits for ever for its turn was hidden by line 85: its    *)
(* number is not below nfds, because a client that came after it took a    *)
(* lower one.  Every other one is served, also those that "exit" or a      *)
(* falling nfds cut off from a round.                                      *)
Hidden(f) == f >= nfds /\ \E j \in Conns : /\ j > net.fds[f][1] /\ net.sock[Client(j)].end # "none"
                                           /\ net.fds[nfds - 1] \in {Client(j), Free}
OnlyHiddenClientsStarve == <>(~alive) \/ <>[](\A f \in master : HasEvent(f) => Hidden(f))
=============================================================================
