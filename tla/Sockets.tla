------------------------------- MODULE Sockets -------------------------------
(***************************************************************************)
(* The TCP connections between browser pages and a server, as the socket   *)
(* calls of the servers see them: accept(), recv(), send(), close() and    *)
(* epoll.  External: the kernel is modelled from how server.c uses it.     *)
(*                                                                         *)
(* A page is one connection slot: a page that leaves may be opened again   *)
(* once both ends of its old connection are closed.                        *)
(***************************************************************************)
EXTENDS Integers, Sequences, FiniteSets

CONSTANT Pages

VARIABLES link,  \* the state of each page's connection
          c2s,   \* what each page sent and the server has not received
          s2c    \* what the server sent each page and the page has not received

netVars == <<link, c2s, s2c>>

(***************************************************************************)
(*  "none"  no connection            "syn"   in the listen backlog         *)
(*  "up"    both ends open           "fin"   the page closed its end       *)
(*  "rst"   a reset has reached the server's end of a closed page          *)
(*  "down"  the server closed its end, the page has not noticed            *)
(*  "gone"  the page has noticed and is still displayed                    *)
(***************************************************************************)
Links == {"none", "syn", "up", "fin", "rst", "down", "gone"}

SocketsInit == /\ link = [p \in Pages |-> "none"]
               /\ c2s = [p \in Pages |-> <<>>]
               /\ s2c = [p \in Pages |-> <<>>]

Readable(p) == link[p] \in {"up", "fin"}   \* epoll reports EPOLLIN only
HungUp(p)   == link[p] = "rst"             \* epoll reports EPOLLERR | EPOLLHUP

(***************************************************************************)
(* A handler sends several frames, one after the other, and stops at the   *)
(* first send() that fails.  A trace holds the network after the sends     *)
(* made so far, how many succeeded and how the last one ended.  A send to  *)
(* a page that has closed is accepted, and answered by a reset; a send on  *)
(* a reset connection fails, or raises SIGPIPE, which server.c leaves at   *)
(* its default: the process is killed.                                     *)
(***************************************************************************)
Trace == [link |-> link, s2c |-> s2c, sent |-> 0, last |-> "ok", stray |-> FALSE]

SendOk(t) == [t EXCEPT !.sent = @ + 1, !.last = "ok"]

send(t, p, frame) ==
  CASE t.link[p] = "up"  -> {SendOk([t EXCEPT !.s2c[p] = Append(@, frame)])}
    [] t.link[p] = "fin" -> {SendOk(t), SendOk([t EXCEPT !.link[p] = "rst"])}
    [] OTHER             -> {[t EXCEPT !.last = "failed"], [t EXCEPT !.last = "killed"]}

(* What is left of the page's connection when the server closes its end. *)
Closed(state) == IF state = "up" THEN "down" ELSE "none"

(* The process died: the kernel closes every connection, unaccepted ones too. *)
AllClosed(links) ==
  [p \in Pages |-> CASE links[p] \in {"up", "syn"}  -> "down"
                     [] links[p] \in {"fin", "rst"} -> "none"
                     [] OTHER                       -> links[p]]
=============================================================================
