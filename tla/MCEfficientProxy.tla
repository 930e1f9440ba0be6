-------------------------- MODULE MCEfficientProxy --------------------------
(***************************************************************************)
(* Instances of EfficientProxy for TLC.                                    *)
(***************************************************************************)
EXTENDS EfficientProxy

MCUsers == add_user(<<>>, "nirmal")
Site(scheme, path) == [scheme |-> scheme, host |-> "h", port |-> "", path |-> path]
Ask(scheme, path, method) == prepare_http_packet(host_url(Site(scheme, path)), "nirmal", method)

Get == Ask("http", "", "GET")
GetOther == Ask("http", "/b", "GET")
GetCut == [Get EXCEPT !.cut = TRUE]
Post == Ask("http", "/a", "POST")
Tls == [Ask("", "", "GET") EXCEPT !.more = 1]
Stranger == [Get EXCEPT !.user = ""]
Unreadable == [Get EXCEPT !.user = Garbled]
NotAll == [Get EXCEPT !.words = 2]

Visits == {<<GetCut, Get>>, <<Get, GetOther>>, <<Tls, Post>>, <<Stranger, NotAll>>,
           <<Unreadable, Stranger>>}
OneBucket == [key \in {m \o "h" \o p : m \in {"GET", "POST", "CONNECT"}, p \in {"/", "/a", "/b"}} |-> 0]
=============================================================================
