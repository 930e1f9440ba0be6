---------------------------- MODULE MCEpollProxy ----------------------------
(***************************************************************************)
(* Instances of EpollProxy for TLC.                                        *)
(***************************************************************************)
EXTENDS EpollProxy

MCUsers == add_user(add_user(<<>>, "nirmal"), "mobicipuser")
Site(scheme, host, path) == [scheme |-> scheme, host |-> host, port |-> "", path |-> path]
Request(scheme, path) == prepare_http_packet(host_url(Site(scheme, "h", path)), "nirmal", "GET")

Get == [Request("http", "") EXCEPT !.hdrs = {"Host:", "Proxy-Connection: close"}]
GetCut == [Request("http", "/") EXCEPT !.cut = TRUE]
GetBinary == [Request("http", "/b") EXCEPT !.binary = TRUE]
KeepAlive == [Request("http", "") EXCEPT !.hdrs = {"Host:", "Connection: keep-alive"}]
Firefox == [Request("http", "/c") EXCEPT !.url.host = "firefox"]
Post == [Request("http", "/a") EXCEPT !.method = "POST"]
Tls == [Request("", "") EXCEPT !.more = 1]
Stranger == [Get EXCEPT !.user = "stranger"]
Unreadable == [Get EXCEPT !.user = Garbled]
Unclosed == [Get EXCEPT !.user = "", !.hdrs = {"Host:"}]
NotAll == [Get EXCEPT !.words = 2]

Visits == {<<Tls, Post>>, <<Get, GetCut>>, <<Get, GetBinary>>, <<GetBinary, GetBinary>>,
           <<Firefox, Get>>, <<Post, KeepAlive>>, <<GetCut, Stranger>>, <<Stranger, NotAll>>,
           <<Unreadable, Unclosed>>}

OneBucket == [key \in {m \o h \o p : m \in {"GET", "POST", "CONNECT"}, h \in {"h", "firefox"},
                            p \in {"/", "/a", "/b", "/c"}} |-> 0]
=============================================================================
