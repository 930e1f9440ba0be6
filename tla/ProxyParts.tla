----------------------------- MODULE ProxyParts -----------------------------
(***************************************************************************)
(* What the HTTP proxies compute without touching a socket: request.c,     *)
(* proxy-auth.c, hashmap.c and the rewriting of a request's header.        *)
(*                                                                         *)
(* A request is a record: words (how many words its first line has),       *)
(* method, url, hdrs (the set of its header lines), user (whom its         *)
(* credentials name, "" if it has none, Garbled if they are not the base64 *)
(* of a name, a colon and a password), binary (whether the answer to it holds a NUL), cut *)
(* (whether it is sent in two parts) and more (how much follows it).       *)
(***************************************************************************)
EXTENDS Naturals, Sequences, FiniteSets, SequencesExt

CONSTANTS Bucket,    \* the index that hash() gives to a key
          Indexes    \* the indexes of Table

(* What a request can be.                                                  *)
Urls == [scheme : STRING, host : STRING, port : STRING, path : STRING]
Requests == [words : Nat, method : STRING, url : Urls, hdrs : SUBSET STRING, user : STRING,
             binary : BOOLEAN, cut : BOOLEAN, more : Nat]

-----------------------------------------------------------------------------
(* request.c *)

normalize_url(scheme, url) ==
  IF url.scheme # "" THEN url ELSE [url EXCEPT !.scheme = scheme]

parse_url(scheme, url) ==
  LET full == normalize_url(scheme, url)
      default == IF full.scheme = "https" THEN "443" ELSE "80"
  IN  [full EXCEPT !.port = IF @ = "" THEN default ELSE @,
                   !.path = IF @ = "" THEN "/" ELSE @]

(* Fewer than three words, or no end of line: -1. *)
Parses(req) == req.words = 3

parse_request(req) ==
  [req EXCEPT !.url = parse_url(IF req.method = "CONNECT" THEN "https" ELSE "http", @)]

(* The port is not part of the key, and nothing separates the three. *)
getKeyfromRequest(req) == req.method \o req.url.host \o req.url.path

-----------------------------------------------------------------------------
(* proxy-auth.c *)

MaxUsers == 100
add_user(users, u) == IF Len(users) >= MaxUsers THEN users ELSE Append(users, u)
authenticate(users, u) == u \in ToSet(users)

(* No Proxy-Authorization line, or one that no user has: 407.  Garbled     *)
(* credentials leave in decoded what is not ended or not new; validate()   *)
(* then looks for a colon in what the stack holds.                         *)
Garbled == "garbled"
Decodes(req) == req.user \notin {"", Garbled}
authorize(users, req) == Decodes(req) /\ authenticate(users, req.user)

(* What is found in a buffer that holds a request and what was there       *)
(* before: the fact, if the request settles it, else also what old bytes   *)
(* say.                                                                    *)
Verdicts(settled, fact, dirty) ==
  IF settled THEN {fact} ELSE IF dirty THEN BOOLEAN ELSE {FALSE}

-----------------------------------------------------------------------------
(* forward_http_request *)

ConnectionLines == {"Connection: close", "Connection: keep-alive"}
ProxyLines == {"Proxy-Connection: close", "Proxy-Connection: keep-alive"}

(* strstr() finds the text inside Proxy-Connection's line as well. *)
SaysClose(req) == req.hdrs \cap {"Connection: close", "Proxy-Connection: close"} # {}

forward_http_request(req) ==
  (req.hdrs \ (ProxyLines \cup ConnectionLines)) \cup {"Host:", "Connection: close"}

-----------------------------------------------------------------------------
(* http_request.c, the client program: its -h, -m and -a options make one  *)
(* request.  A host given without "http" is taken for https.               *)
host_url(h) == parse_url(IF h.scheme = "http" THEN "http" ELSE "https", h)

prepare_http_packet(url, auth, method) ==
  [words |-> 3, method |-> IF url.scheme = "https" THEN "CONNECT" ELSE method, url |-> url,
   hdrs |-> {"Host:", "Connection: close"}, user |-> auth, binary |-> FALSE, cut |-> FALSE,
   more |-> 0]

-----------------------------------------------------------------------------
(* hashmap.c: Table is a function from indexes to chains of nodes.         *)

initTable == [x \in Indexes |-> <<>>]
hash(key) == Bucket[key]

(* strdup() copies up to the first NUL, which a binary part begins with.   *)
strdup(value) ==
  LET nuls == {k \in DOMAIN value : value[k].nul}
  IN  SubSeq(value, 1, IF nuls = {} THEN Len(value)
                       ELSE (CHOOSE k \in nuls : \A j \in nuls : k <= j) - 1)

createNode(key, value, len) == [key |-> key, value |-> strdup(value), length |-> len]

(* The place of the key in its chain, 0 if it has none.                    *)
Place(T, key) == SelectInSeq(T[hash(key)], LAMBDA node : node.key = key)

(* A key that is there gets the new value and keeps the old length.        *)
put(T, key, value, len) ==
  LET h == hash(key)
      at == Place(T, key)
  IN  IF at = 0 THEN [T EXCEPT ![h] = Append(@, createNode(key, value, len))]
      ELSE [T EXCEPT ![h][at].value = strdup(value)]

NeverMutant(T, key) == FALSE
isAvailable(T, key) == Place(T, key) # 0
get(T, key) == T[hash(key)][Place(T, key)]

(* The second version copies len bytes and updates the length.             *)
createNode2(key, value, len) == [key |-> key, value |-> value, length |-> len]

KeepLengthMutant(T, key, value, len) == put(T, key, value, len)
put2(T, key, value, len) ==
  LET h == hash(key)
      at == Place(T, key)
  IN  [T EXCEPT ![h] = IF at = 0 THEN Append(@, createNode2(key, value, len))
                       ELSE ReplaceAt(@, at, createNode2(key, value, len))]
=============================================================================
