----------------------------- MODULE PollServer -----------------------------
(***************************************************************************)
(* 22-1-26/pollserver.c: one thread, poll() and an array of descriptors    *)
(* from which a served client is removed by putting the last one in its    *)
(* place; and client.c, which sends a message and waits for the answer.    *)
(***************************************************************************)
EXTENDS Tcp

CONSTANT MaxClients     \* MAXCLIENTS

VARIABLES pfds,         \* the array: descriptors and revents
          nfds_,        \* how many of it are in use
          at            \* the loop's place in it; 0 when it waits in poll()

pollVars == <<pfds, nfds_, at>>

(* What nobody has written is what was on the stack.                       *)
PollInit == /\ \E r \in BOOLEAN :
                 pfds = [k \in 1 .. MaxClients |-> [fd |-> IF k = 1 THEN 1 ELSE 0, revents |-> r]]
            /\ nfds_ = 1 /\ at = 0

(* client.c: main *)
SendsHello(i) == net.sock[Client(i)].sent = 0 /\ PeerSends(Client(i), "hello")
Leaves(i) == /\ net.sock[Client(i)].out # {} \/ net.sock[Client(i)].told
             /\ PeerEnds(Client(i), "fin")
Resets(i) == PeerEnds(Client(i), "rst")
PollClients == /\ \E i \in Conns : Arrives(i) \/ SendsHello(i) \/ Leaves(i) \/ Resets(i)
               /\ UNCHANGED <<alive, pollVars>>

Reported(k) == IF pfds[k].fd = 1 THEN net.backlog # <<>>
               ELSE IsOpen(net, pfds[k].fd) /\ Readable(net, net.fds[pfds[k].fd])
Ready == {k \in 1 .. nfds_ : k >= at /\ pfds[k].revents}

poll == /\ alive /\ (at = 0 \/ Ready = {})
        /\ pfds' = [k \in 1 .. MaxClients |->
                      IF k <= nfds_ THEN [pfds[k] EXCEPT !.revents = Reported(k)] ELSE pfds[k]]
        /\ at' = IF \E k \in 1 .. nfds_ : Reported(k) THEN 1 ELSE 0
        /\ UNCHANGED <<net, alive, nfds_>>

Reached(k) == alive /\ at # 0 /\ k \in Ready /\ \A j \in Ready : k <= j

(* A new entry keeps the revents that its place had.                       *)
PollAccept ==
  /\ Reached(1) /\ net.backlog # <<>> /\ at' = 2
  /\ IF nfds_ < MaxClients
     THEN /\ pfds' = [pfds EXCEPT ![nfds_ + 1].fd = Lowest(net)]
          /\ nfds_' = nfds_ + 1 /\ net' = accept(net)
     ELSE net' = close(accept(net), Lowest(net)) /\ UNCHANGED <<pfds, nfds_>>
  /\ UNCHANGED alive

(* It is served once and closed; its place is looked at again.             *)
StaysMutant(k) == pfds
Removed(k) == [pfds EXCEPT ![k] = pfds[nfds_]]
Remove(k, n) == /\ net' = close(n, pfds[k].fd)
                /\ pfds' = Removed(k) /\ nfds_' = nfds_ - 1 /\ at' = k
                /\ UNCHANGED alive

Serve(k) ==
  LET s == net.fds[pfds[k].fd]
      open == IsOpen(net, pfds[k].fd)
  IN  /\ k # 1 /\ Reached(k) /\ (open => Readable(net, s))
      /\ IF ~open \/ Received(net, s) # "data" THEN Remove(k, net)
         ELSE \E r \in send(Taken(net, s), pfds[k].fd, "Client is connected!") :
                IF r.ret # "killed" THEN Remove(k, r.net)
                ELSE alive' = FALSE /\ net' = Ended(net) /\ UNCHANGED pollVars

PollMain == poll \/ PollAccept \/ \E k \in 2 .. MaxClients : Serve(k)
PollNext == PollClients \/ PollMain

(* Every client is answered or its end is noticed, unless the thread waits *)
(* in recv() for a client that has said nothing: one whose entry line 93   *)
(* added with an old revents.                                              *)
Silent(k) == /\ Reached(k) /\ k # 1 /\ IsOpen(net, pfds[k].fd)
             /\ net.sock[net.fds[pfds[k].fd]].sent = 0 /\ net.sock[net.fds[pfds[k].fd]].end = "open"
Waiting(i) == Client(i) \in {net.fds[f] : f \in 1 .. MaxFd} /\ Readable(net, Client(i))
OnlySilentNewcomersBlock ==
  \/ <>(~alive)
  \/ <>[](net.backlog = <<>> /\ \A i \in Conns : ~Waiting(i))
  \/ <>[](\E k \in 2 .. MaxClients : Silent(k))
=============================================================================
