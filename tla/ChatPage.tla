------------------------------- MODULE ChatPage -------------------------------
(***************************************************************************)
(* The chat's page: Chat System/Client/scripts.js and index.html, and the  *)
(* browser underneath.  One action per event handler.                      *)
(***************************************************************************)
EXTENDS Sockets

CONSTANTS Names,        \* user names; the prompt refuses "broadcast"
          Requests,     \* what a page may open its connection with, see below
          MaxConnects,  \* bound: connections opened in a behaviour
          MaxSends      \* bound: messages sent in a behaviour

VARIABLES page,      \* the user name and whether the WebSocket is open
          connects,  \* bound: how many connections were opened
          sends      \* bound: how many messages were sent

pageVars == <<page, connects, sends>>

NoName == "no name"
Broadcast == "broadcast"
Texts == {"short", "long"}     \* "long" does not fit the server's 1024 bytes

Closed_page == [name |-> NoName, open |-> FALSE]

(***************************************************************************)
(* TCP may deliver the upgrade request whole or cut in two, and the port   *)
(* can be visited by a client that is no WebSocket.                        *)
(***************************************************************************)
Whole == <<[code |-> "UPGRADE"]>>
Cut   == <<[code |-> "HEAD"], [code |-> "TAIL"]>>
Plain == <<[code |-> "GET"]>>

ASSUME PageAssumption ==
  /\ Requests \subseteq {Whole, Cut, Plain}
  /\ MaxConnects \in Nat /\ MaxSends \in Nat
  /\ {NoName, Broadcast, "client"} \cap Names = {}   \* bound: no user has the name that scripts.js signs a registration with
  /\ IsFiniteSet(Pages)

PageInit == /\ page = [p \in Pages |-> Closed_page]
            /\ connects = 0 /\ sends = 0

(* socket.send() on a socket that is closing or closed discards the data. *)
socket_send(p, frame) ==
  c2s' = IF link[p] = "up" THEN [c2s EXCEPT ![p] = Append(@, frame)] ELSE c2s

(* The page is loaded, its user gives a name and it connects. *)
Connect(p) ==
  /\ link[p] = "none" /\ connects < MaxConnects
  /\ connects' = connects + 1
  /\ \E name \in Names : page' = [page EXCEPT ![p] = [name |-> name, open |-> FALSE]]
  /\ link' = [link EXCEPT ![p] = "syn"]
  /\ \E request \in Requests : c2s' = [c2s EXCEPT ![p] = request]
  /\ UNCHANGED <<s2c, sends>>

(* The page leaves; bytes it never read turn its close into a reset. *)
Disconnect(p) ==
  /\ \/ link[p] = "up" /\ \E end \in {"fin"} \cup (IF s2c[p] = <<>> THEN {} ELSE {"rst"}) :
          link' = [link EXCEPT ![p] = end]
     \/ link[p] \in {"down", "gone"} /\ link' = [link EXCEPT ![p] = "none"]
  /\ s2c' = [s2c EXCEPT ![p] = <<>>]
  /\ page' = [page EXCEPT ![p] = Closed_page]
  /\ UNCHANGED <<connects, sends>>

CloseTab(p) == page[p].open /\ socket_send(p, [code |-> "CLOSE"]) /\ Disconnect(p)

Vanish(p) == Disconnect(p) /\ UNCHANGED c2s

(* socket.onclose: the Send button is disabled. *)
onclose(p) ==
  /\ link[p] = "down"
  /\ link' = [link EXCEPT ![p] = "gone"]
  /\ s2c' = [s2c EXCEPT ![p] = <<>>]
  /\ page' = [page EXCEPT ![p].open = FALSE]
  /\ UNCHANGED <<c2s, connects, sends>>

Reads(p, code) == /\ link[p] \in {"up", "down"}
                  /\ s2c[p] # <<>> /\ Head(s2c[p]).code = code
                  /\ s2c' = [s2c EXCEPT ![p] = Tail(@)]

(* socket.onopen: the page sends its name to the server. *)
Registration(p) == [code |-> "TEXT", body |-> [from |-> "client", to |-> "server", text |-> page[p].name]]

onopen(p) ==
  /\ Reads(p, "OPEN")
  /\ page' = [page EXCEPT ![p].open = TRUE]
  /\ socket_send(p, Registration(p))
  /\ UNCHANGED <<link, connects, sends>>

(* The handshake's key is not the page's: the browser closes the connection. *)
onfail(p) ==
  /\ link[p] \in {"up", "down"} /\ s2c[p] # <<>> /\ Head(s2c[p]).code = "BADOPEN"
  /\ Vanish(p)

(* socket.onmessage: the message is shown. *)
onmessage(p) ==
  /\ Reads(p, "TEXT")
  /\ UNCHANGED <<link, c2s, pageVars>>

(* sendMessage: Enter in the message box calls it whatever the button says. *)
sendMessage(p, to, text) ==
  /\ page[p].open /\ sends < MaxSends
  /\ sends' = sends + 1
  /\ socket_send(p, [code |-> "TEXT", body |-> [from |-> page[p].name, to |-> to, text |-> text]])
  /\ UNCHANGED <<link, s2c, page, connects>>

Delivery(p) == onopen(p) \/ onfail(p) \/ onmessage(p) \/ onclose(p)

PageNext == \E p \in Pages :
  \/ Connect(p) \/ CloseTab(p) \/ Vanish(p) \/ Delivery(p)
  \/ \E to \in Names \cup {Broadcast}, text \in Texts : sendMessage(p, to, text)
=============================================================================
