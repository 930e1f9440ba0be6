------------------------------ MODULE Servers ------------------------------
(***************************************************************************)
(* The servers that have one process each and share nothing but the        *)
(* kernel's interface: one behaviour is a run of one of them.              *)
(***************************************************************************)
EXTENDS ThreadedProxy, TlsEchoServer, AesEchoServer, SelectServer, PollServer

VARIABLE program

vars == <<net, alive, program, proxyVars, echoVars, selectVars, pollVars>>
Programs == {"threaded", "echo", "tls", "aes", "select", "poll"}

Init == /\ program \in Programs
        /\ TcpInit /\ ProxyInit /\ EchoInit /\ SelectInit /\ PollInit
        /\ program # "poll" => ~pfds[1].revents

(* A step of one program leaves the variables of the others alone. *)
Run(p, A) ==
  /\ program = p /\ A /\ UNCHANGED program
  /\ p = "threaded" \/ UNCHANGED proxyVars
  /\ p \in {"echo", "tls", "aes"} \/ UNCHANGED echoVars
  /\ p = "select" \/ UNCHANGED selectVars
  /\ p = "poll" \/ UNCHANGED pollVars

Next == \/ Run("threaded", ProxyNext) \/ Run("echo", EchoNext) \/ Run("tls", TlsNext)
        \/ Run("aes", AesNext) \/ Run("select", SelectNext) \/ Run("poll", PollNext)

Spec == Init /\ [][Next]_vars

(* The scheduler's fairness to each thread, and an upstream that was asked *)
(* to close does.                                                          *)
FairSpec ==
  /\ Spec
  /\ WF_vars(Run("threaded", Accept))
  /\ WF_vars(Run("select", SelectMain)) /\ WF_vars(Run("poll", PollMain))
  /\ \A i \in Conns : /\ WF_vars(Run("threaded", process(i)))
                      /\ WF_vars(Run("threaded", tunneler(i, "c2s")))
                      /\ WF_vars(Run("threaded", tunneler(i, "s2c")))
                      /\ WF_vars(Run("threaded", Obeys(i) /\ UNCHANGED <<alive, th>>))

(* OnlyHiddenClientsStarve and OnlySilentNewcomersBlock are of one program. *)
SelectServes == program = "select" => OnlyHiddenClientsStarve
PollServes == program = "poll" => OnlySilentNewcomersBlock
=============================================================================
