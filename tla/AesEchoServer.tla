--------------------------- MODULE AesEchoServer ---------------------------
(***************************************************************************)
(* Mini Project Manual Encryption: the echo server whose clients send a    *)
(* key and an initialisation vector first and then AES-256-CBC.            *)
(***************************************************************************)
EXTENDS EchoServer

CONSTANT AesVisits    \* the clients that come to this version

AES_IV_SIZE == 16
MAX_TEXT_SIZE == 100
CLIENT_BUFFER_SIZE == MAX_TEXT_SIZE + 32 + 1
SERVER_BUFFER_SIZE == CLIENT_BUFFER_SIZE + 2 * 8

(* security.h: padding makes len bytes a multiple of 16, and one block more *)
(* when they were one; EVP_DecryptFinal fails on a ciphertext that is not a *)
(* multiple of 16, and what DecryptUpdate has written by then is used.     *)
aes_encrypt(len) == 16 * (len \div 16 + 1)
aes_decrypt(len) == 16 * (len \div 16)

(* Both ends send len + AES_IV_SIZE bytes for a plaintext of len bytes.    *)
Legible(len) == /\ aes_encrypt(len) <= len + AES_IV_SIZE
                /\ aes_decrypt(len + AES_IV_SIZE) >= len

-----------------------------------------------------------------------------
(* EchoClient.c, main: the key and the vector.                             *)
Introduces(i) == /\ Types(i) /\ net.sock[Client(i)].sent < 2
                 /\ PeerSends(Client(i), "key") /\ UNCHANGED cli
Introduced(i) == net.sock[Client(i)].sent >= 2
aes_client_main(i) == \/ Introduces(i) \/ GetsAnswer(i) \/ ClosedRemotely(i)
                      \/ (Introduced(i) /\ Exits(i))
AesClients ==
  /\ \E i \in Conns : \/ Starts(i, AesVisits) \/ Crashes(i) \/ aes_client_main(i)
                      \/ Introduced(i) /\ \E m \in {"text", "exit"} : Asks(i, m)
  /\ UNCHANGED <<alive, cfds, total_echo, eth, accepting>>

-----------------------------------------------------------------------------
aes_main ==
  /\ alive /\ net.backlog # <<>>
  /\ net' = accept(net) /\ NewThread(Head(net.backlog)[1], "key")
  /\ UNCHANGED <<alive, cfds, total_echo, cli, accepting>>

(* thread_routene: the key and the vector, whatever recv() returns.  One   *)
(* that waits keeps its socket; one that begins takes what the number      *)
(* names now, which another session of an address may have closed.         *)
ReadKey(i) ==
  LET next == [key |-> "iv", iv |-> "add"]
  IN  \E pc \in {"key", "iv"} :
        /\ In(i, pc)
        /\ \E s \in {Client(i), net.fds[eth[i].fd]} :
             IF s \in Ends
             THEN /\ Readable(net, s)
                  /\ net' = IF Received(net, s) = "data" THEN Taken(net, s) ELSE net
             ELSE net' = net
        /\ ThenAt(i, next[pc]) /\ UNCHANGED <<cfds, total_echo>>

(* The row also takes the key and the vector, which nobody reads there.    *)
(* strcpy() copies them up to a zero byte: none in the key, and it goes on *)
(* through the vector; none there, and it goes on behind the row, whose    *)
(* last two bytes are padding.  The process may die of what comes next.    *)
aes_addOrUpdateUser(i) == \/ addOrUpdateUser(i)
                          \/ In(i, "add") /\ EndProcess

(* A message that cannot be read is no text.                               *)
AesGotMessage(i) ==
  GotMessage(i, IF Legible(CLIENT_BUFFER_SIZE) /\ Legible(SERVER_BUFFER_SIZE) THEN "count" ELSE "loop")

(* EVP_DecryptUpdate() writes more than plaintext holds: the process may   *)
(* be stopped for it.                                                      *)
Smashes(len) == aes_decrypt(len + AES_IV_SIZE) > len
SmashedStack(i) == Recv(i, "data") /\ Smashes(CLIENT_BUFFER_SIZE) /\ EndProcess

aes_thread_routene(i) ==
  \/ ReadKey(i) \/ aes_addOrUpdateUser(i) \/ BeginRecv(i, "recv") \/ AesGotMessage(i)
  \/ SmashedStack(i) \/ GotEnd(i) \/ GotError(i) \/ CloseOwn(i) \/ ClearRow(i) \/ Count(i) \/ ReadCounts(i) \/ SendAnswer(i)

AesNext == AesClients \/ aes_main \/ \E i \in Conns : aes_thread_routene(i)
=============================================================================
