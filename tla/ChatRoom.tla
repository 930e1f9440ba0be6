------------------------------- MODULE ChatRoom -------------------------------
(***************************************************************************)
(* What the chat promises, with no sockets, tables or pointers: a name is  *)
(* held by one page at a time, and a message goes to the page that holds   *)
(* the name it is addressed to, or to every other page in the room.        *)
(*                                                                         *)
(* "undefined" is the C standard's way out: once the server has executed   *)
(* undefined behaviour, or died, the room promises nothing.                *)
(***************************************************************************)
EXTENDS Integers, Sequences

CONSTANTS Pages, Names, Nobody, Broadcast, Texts

VARIABLES sound,   \* FALSE once the room is undefined
          holder,  \* the page that holds each name, or Nobody
          mail     \* the messages each page has been sent and not read

roomVars == <<sound, holder, mail>>

RoomInit == /\ sound = TRUE
            /\ holder = [n \in Names |-> Nobody]
            /\ mail = [p \in Pages |-> <<>>]

InRoom == {holder[n] : n \in Names} \ {Nobody}

(* Changes of the other pages' mail go with any step: pages read, close.   *)
Read(p) == /\ \E k \in 0 .. Len(mail[p]) :
                mail' = [mail EXCEPT ![p] = SubSeq(@, k + 1, Len(@))]
           /\ UNCHANGED <<sound, holder>>

(* A page takes a name that is free. *)
Enter(p, n) == /\ holder[n] = Nobody /\ p \notin InRoom
               /\ holder' = [holder EXCEPT ![n] = p]
               /\ UNCHANGED <<sound, mail>>

(* A name is given up. *)
Leave(n) == /\ holder[n] # Nobody
            /\ holder' = [holder EXCEPT ![n] = Nobody]
            /\ UNCHANGED <<sound, mail>>

(* The holder of a name writes to one name or to all: a page that has left *)
(* and is still in the room is sent nothing.                               *)
Addressees(p, to) ==
  IF to = Broadcast THEN InRoom \ {p} ELSE {holder[n] : n \in {to} \cap Names} \ {Nobody}

Say(n, to, text) ==
  /\ holder[n] # Nobody
  /\ \E reached \in SUBSET Addressees(holder[n], to) :
       mail' = [p \in Pages |->
                  IF p \in reached THEN Append(mail[p], [from |-> n, to |-> to, text |-> text])
                  ELSE mail[p]]
  /\ UNCHANGED <<sound, holder>>

Undefined == /\ sound' = FALSE
             /\ holder' = [n \in Names |-> Nobody]
             /\ mail' = [p \in Pages |-> <<>>]

RoomNext == \/ \E p \in Pages : Read(p) \/ (\E n \in Names : Enter(p, n))
            \/ \E n \in Names : Leave(n) \/ (\E to \in Names \cup {Broadcast}, t \in Texts : Say(n, to, t))
            \/ Undefined

RoomSpec == RoomInit /\ [][RoomNext]_roomVars
=============================================================================
