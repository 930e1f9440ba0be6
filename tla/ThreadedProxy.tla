--------------------------- MODULE ThreadedProxy ---------------------------
(***************************************************************************)
(* HTTP Proxy Server/threadedproxyserver.c: a thread for each browser,     *)
(* blocking sockets, and two more threads for each tunnel.                 *)
(*                                                                         *)
(* A request is a record: method, words (how many its first line has), url *)
(* (whether curl can parse it), lines (the set of its header lines), cut   *)
(* (whether its header comes in two parts) and more (what follows it).     *)
(***************************************************************************)
EXTENDS Tcp

CONSTANTS Asked,      \* what the browsers ask for, one after the other: the cases
          MaxAnswer   \* how many parts an upstream sends

VARIABLES ask,    \* the request of each browser
          th      \* the thread of each connection

proxyVars == <<ask, th>>

(* total: what process() has read; c2s, s2c: the two threads of a tunnel.  *)
Idle == [pc |-> "idle", cfd |-> 0, sfd |-> 0, total |-> <<>>,
         c2s |-> "none", s2c |-> "none"]
NoRequest == [method |-> "none", more |-> 0, cut |-> FALSE]

ProxyInit == /\ ask = [i \in Conns |-> NoRequest]
             /\ th = [i \in Conns |-> Idle]

At(i, pc) == alive /\ th[i].pc = pc
Dies == /\ alive' = FALSE /\ net' = Ended(net)
        /\ UNCHANGED proxyVars
Quietly(n) == [ret |-> "none", net |-> n]
Step(i, r, t) == IF r.ret = "killed" THEN Dies
                 ELSE /\ net' = r.net /\ th' = [th EXCEPT ![i] = t]
                      /\ UNCHANGED <<ask, alive>>

-----------------------------------------------------------------------------
(* Browsers and upstreams. *)

Browse(i) ==
  /\ Arrives(i)
  /\ \E c \in Asked : /\ i <= Len(c) /\ \A j \in 1 .. i - 1 : c[j] = ask[j]
                      /\ ask' = [ask EXCEPT ![i] = c[i]]

Parts(r) == (IF r.cut THEN <<"start", "rest">> ELSE <<"head">>)
            \o [k \in 1 .. r.more |-> "bytes"]
BrowserSends(i) ==
  LET n == net.sock[Client(i)].sent
  IN  /\ n < Len(Parts(ask[i])) /\ PeerSends(Client(i), Parts(ask[i])[n + 1])
      /\ UNCHANGED ask

UpstreamSends(i) == /\ net.sock[Server(i)].sent < MaxAnswer
                    /\ PeerSends(Server(i), "bytes") /\ UNCHANGED ask

PeerEnd(s) == \E how \in {"fin", "rst"} : PeerEnds(s, how) /\ UNCHANGED ask

(* An upstream that was asked to close does so after its answer.           *)
ToldToClose(i) == \E m \in net.sock[Server(i)].out : "Connection: close" \in m
Obeys(i) == /\ ToldToClose(i) /\ net.sock[Server(i)].sent > 0
            /\ PeerEnds(Server(i), "fin") /\ UNCHANGED ask

World == /\ \E i \in Conns : \/ Browse(i) \/ BrowserSends(i) \/ UpstreamSends(i) \/ Obeys(i)
                             \/ \E s \in {Client(i), Server(i)} : PeerEnd(s)
         /\ UNCHANGED <<alive, th>>

-----------------------------------------------------------------------------
(* main *)
Accept ==
  /\ alive /\ net.backlog # <<>>
  /\ LET i == Head(net.backlog)[1]
     IN  /\ th' = [th EXCEPT ![i] = [Idle EXCEPT !.pc = "request", !.cfd = Lowest(net)]]
         /\ net' = accept(net)
  /\ UNCHANGED <<ask, alive>>

(* process: the request.  strstr() reads past what was received: an old    *)
(* header on the stack may end the loop early.                             *)
HasEnd(total) == \E k \in DOMAIN total : total[k] \in {"head", "rest"}

ReadRequest(i) ==
  LET s == Client(i)
      total == th[i].total \o net.sock[s].in
  IN  /\ At(i, "request") /\ Readable(net, s)
      /\ UNCHANGED <<ask, alive>>
      /\ IF Received(net, s) # "data"
         THEN th' = [th EXCEPT ![i].pc = "parse"] /\ UNCHANGED net
         ELSE /\ net' = [net EXCEPT !.sock[s].in = <<>>]
              /\ \E pc \in IF HasEnd(total) THEN {"parse"} ELSE {"request", "parse"} :
                   th' = [th EXCEPT ![i].pc = pc, ![i].total = total]

(* Its first line needs three words and an end of line, and a URL that     *)
(* curl can parse.                                                         *)
parse_url(url) == url # "bad"
parse_request(total, r) == total # <<>> /\ r.words = 3 /\ parse_url(r.url)

Malformed(i) ==
  /\ At(i, "parse") /\ ~parse_request(th[i].total, ask[i])
  /\ Step(i, Quietly(close(net, th[i].cfd)), [th[i] EXCEPT !.pc = "done"])

(* A socket that could not connect stays open.                             *)
NoUpstream(i) ==
  /\ At(i, "parse") /\ parse_request(th[i].total, ask[i])
  /\ \E n \in {net, leak(net)} :
       Step(i, Quietly(close(n, th[i].cfd)), [th[i] EXCEPT !.pc = "done"])
connect_upstream(i) ==
  /\ At(i, "parse") /\ parse_request(th[i].total, ask[i])
  /\ Step(i, Quietly(connect(net, Server(i))),
          [th[i] EXCEPT !.sfd = Lowest(net),
                        !.pc = IF ask[i].method = "CONNECT" THEN "established" ELSE "forward"])

-----------------------------------------------------------------------------
(* A plain request.  Connection: close is added only when the request has  *)
(* no such line of its own.  Its descriptors are never closed.             *)
forward_http_request(r) ==
  (r.lines \ {"Proxy-Connection: keep-alive"})
  \cup (IF r.lines \cap {"Connection: close", "Connection: keep-alive"} = {}
        THEN {"Connection: close"} ELSE {})

Body(total) == SelectSeq(total, LAMBDA part : part = "bytes")

Forward(i) ==
  /\ At(i, "forward")
  /\ \E head \in send(net, th[i].sfd, forward_http_request(ask[i])) :
       LET body == IF Body(th[i].total) = <<>> \/ head.ret = "killed" THEN {head}
                   ELSE send(head.net, th[i].sfd, {"bytes"})
       IN  \E r \in body : Step(i, r, [th[i] EXCEPT !.pc = "answer"])

Answer(i) ==
  LET s == Server(i)
  IN  /\ At(i, "answer") /\ Readable(net, s)
      /\ IF Received(net, s) = "data"
         THEN \E r \in send(Taken(net, s), th[i].cfd, {"bytes"}) : Step(i, r, th[i])
         ELSE Step(i, Quietly(net), [th[i] EXCEPT !.pc = "done"])

-----------------------------------------------------------------------------
(* A tunnel.  That the 200 could not be sent does not stop it.             *)
Establish(i) ==
  /\ At(i, "established")
  /\ \E r \in send(net, th[i].cfd, {"200"}) :
       Step(i, r, [th[i] EXCEPT !.pc = "tunnel", !.c2s = "runs", !.s2c = "runs"])

From(i, way) == IF way = "c2s" THEN th[i].cfd ELSE th[i].sfd
To(i, way) == IF way = "c2s" THEN th[i].sfd ELSE th[i].cfd

(* When a half ends, the other end of it is told.                          *)
ClosesMutant(n, i, way) == close(shutdown_wr(n, To(i, way)), From(i, way))
NotToldMutant(n, i, way) == shutdown_rd(n, From(i, way))
HalfEnds(n, i, way) == shutdown_rd(shutdown_wr(n, To(i, way)), From(i, way))

tunneler(i, way) ==
  LET s == net.fds[From(i, way)]
      ends == [th[i] EXCEPT ![way] = "ended"]
  IN  /\ At(i, "tunnel") /\ th[i][way] = "runs" /\ s \in Ends /\ Readable(net, s)
      /\ IF Received(net, s) # "data"
         THEN Step(i, Quietly(HalfEnds(net, i, way)), ends)
         ELSE \E r \in send(Taken(net, s), To(i, way), {"bytes"}) :
                IF r.ret = "failed" THEN Step(i, [r EXCEPT !.net = HalfEnds(@, i, way)], ends)
                ELSE Step(i, r, th[i])

(* Both halves have ended: they are joined.                                *)
tunnel_https(i) ==
  /\ At(i, "tunnel") /\ th[i].c2s = "ended" /\ th[i].s2c = "ended"
  /\ Step(i, Quietly(close(close(net, th[i].cfd), th[i].sfd)),
          [th[i] EXCEPT !.pc = "done"])

process(i) == \/ ReadRequest(i) \/ Malformed(i) \/ NoUpstream(i) \/ connect_upstream(i)
              \/ Forward(i) \/ Answer(i)
              \/ Establish(i) \/ tunneler(i, "c2s") \/ tunneler(i, "s2c") \/ tunnel_https(i)

ProxyNext == World \/ Accept \/ \E i \in Conns : process(i)

-----------------------------------------------------------------------------
(* A thread's numbers name its own two sockets as long as it runs, because *)
(* a half of a tunnel only shuts its sockets down and the closing waits    *)
(* for both (lines 130 to 152).  What stays open after a thread is a plain *)
(* request's, whose descriptors lines 289 to 294 leave behind.             *)
ThreadsOwnDescriptors ==
  alive => \A i \in Conns :
    LET t == th[i]
    IN  /\ t.pc \notin {"idle", "done"} => net.fds[t.cfd] = Client(i)
        /\ t.pc \in {"established", "tunnel", "forward", "answer"} => net.fds[t.sfd] = Server(i)
        /\ t.pc = "done" /\ {Client(i), Server(i)} \cap {net.fds[f] : f \in 1 .. MaxFd} # {}
              => ask[i].method # "CONNECT"

(* A thread that does not come to its end waits for an end that is open:   *)
(* for a request, for an upstream that was not asked to close, or, when    *)
(* the other half of its tunnel has ended, for an end that was told so.    *)
Waits(i) ==
  LET open(s) == net.sock[s].end = "open" /\ net.sock[s].in = <<>>
      half(way, other, s) == th[i][way] = "ended" \/
                             (open(s) /\ (th[i][other] = "ended" => net.sock[s].told))
  IN  CASE th[i].pc = "request" -> open(Client(i))
        [] th[i].pc = "answer" -> /\ open(Server(i))
                                  /\ "Connection: keep-alive" \in ask[i].lines
                                        \/ net.sock[Server(i)].sent = 0
        [] th[i].pc = "tunnel" -> /\ half("c2s", "s2c", Client(i)) /\ half("s2c", "c2s", Server(i))
                                  /\ "runs" \in {th[i].c2s, th[i].s2c}
        [] OTHER -> th[i].pc \in {"idle", "done"}

OnlyOpenEndsHoldThreads == <>(~alive) \/ <>[](\A i \in Conns : Waits(i))
=============================================================================
