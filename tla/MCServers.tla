----------------------------- MODULE MCServers -----------------------------
(***************************************************************************)
(* Instances of Servers for TLC.                                           *)
(***************************************************************************)
EXTENDS Servers

Tunnel == [method |-> "CONNECT", words |-> 3, url |-> "ok", lines |-> {}, cut |-> FALSE, more |-> 1]
GetCut == [Tunnel EXCEPT !.method = "GET", !.cut = TRUE]
KeepAlive == [Tunnel EXCEPT !.method = "GET", !.lines = {"Connection: keep-alive"}]
Bad == [Tunnel EXCEPT !.url = "bad"]
MCAsked == {<<Tunnel, Bad>>, <<GetCut>>, <<KeepAlive>>}

From_(addr, asks) == [addr |-> addr, asks |-> asks]
MCVisits == {<<From_("a", 0), From_("a", 0), From_("b", 0)>>,
             <<From_("a", 2), From_("b", 1)>>, <<From_("a", 1), From_("a", 1)>>}
MCTlsVisits == {<<From_("a", 1), From_("a", 1)>>}
MCAesVisits == {<<From_("a", 1), From_("b", 1)>>, <<From_("a", 1), From_("a", 0)>>}
=============================================================================
