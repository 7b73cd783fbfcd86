---------------------------- MODULE WSLifecycle ----------------------------
(***************************************************************************)
(* What TWSServer promises the host about one connection, as the comments  *)
(* on the events of WS.Server.pas state it (OnOpen, OnMessage,             *)
(* OnClientClose, OnError, Post): the handlers of a connection never       *)
(* overlap; OnOpen is the first and comes at most once; OnClientClose is   *)
(* the last and comes exactly once for every connection that saw OnOpen,   *)
(* and never for another; a connection that failed in any way hears no     *)
(* further message, though a post already queued may still run.            *)
(***************************************************************************)
CONSTANT Conns

VARIABLES
  phase,     \* phase[c]: how far the connection has come
  handler,   \* handler[c]: the host handler running for it
  condemned  \* condemned[c]: it may be dropped but hears nothing more

vars == <<phase, handler, condemned>>

Phases == {"none", "pending", "open", "ending", "gone"}
Handlers == {"idle", "onopen", "onmessage", "onpost", "onclose"}

TypeOK ==
  /\ phase \in [Conns -> Phases]
  /\ handler \in [Conns -> Handlers]
  /\ condemned \in [Conns -> BOOLEAN]

Init ==
  /\ phase = [c \in Conns |-> "none"]
  /\ handler = [c \in Conns |-> "idle"]
  /\ condemned = [c \in Conns |-> FALSE]

Connect(c) ==
  /\ phase[c] = "none"
  /\ phase' = [phase EXCEPT ![c] = "pending"]
  /\ UNCHANGED <<handler, condemned>>

(* Refused, timed out or lost before OnOpen: nobody is told.               *)
Vanish(c) ==
  /\ phase[c] = "pending"
  /\ phase' = [phase EXCEPT ![c] = "gone"]
  /\ condemned' = [condemned EXCEPT ![c] = TRUE]
  /\ UNCHANGED handler

Open(c) ==
  /\ phase[c] = "pending" /\ ~condemned[c]
  /\ phase' = [phase EXCEPT ![c] = "open"]
  /\ handler' = [handler EXCEPT ![c] = "onopen"]
  /\ UNCHANGED condemned

Message(c) ==
  /\ phase[c] = "open" /\ handler[c] = "idle" /\ ~condemned[c]
  /\ handler' = [handler EXCEPT ![c] = "onmessage"]
  /\ UNCHANGED <<phase, condemned>>

RunPost(c) ==
  /\ phase[c] = "open" /\ handler[c] = "idle"
  /\ handler' = [handler EXCEPT ![c] = "onpost"]
  /\ UNCHANGED <<phase, condemned>>

(* A handler ends; the connection may be condemned by what it did.         *)
Return(c) ==
  /\ phase[c] = "open" /\ handler[c] # "idle"
  /\ handler' = [handler EXCEPT ![c] = "idle"]
  /\ condemned' \in {condemned, [condemned EXCEPT ![c] = TRUE]}
  /\ UNCHANGED phase

Condemn(c) ==
  /\ phase[c] \in {"pending", "open"} /\ ~condemned[c]
  /\ condemned' = [condemned EXCEPT ![c] = TRUE]
  /\ UNCHANGED <<phase, handler>>

(* The drop of an open connection runs OnClientClose.                      *)
Notify(c) ==
  /\ phase[c] = "open"
  /\ phase' = [phase EXCEPT ![c] = "ending"]
  /\ handler' = [handler EXCEPT ![c] = "onclose"]
  /\ condemned' = [condemned EXCEPT ![c] = TRUE]

Release(c) ==
  /\ phase[c] = "ending"
  /\ phase' = [phase EXCEPT ![c] = "gone"]
  /\ handler' = [handler EXCEPT ![c] = "idle"]
  /\ UNCHANGED condemned

(* The server is destroyed: whatever is not gone may only be released.     *)
Shutdown ==
  /\ condemned' = [c \in Conns |-> phase[c] \in {"pending", "open"}
                                     \/ condemned[c]]
  /\ UNCHANGED <<phase, handler>>

Next ==
  \/ \E c \in Conns :
       \/ Connect(c) \/ Vanish(c) \/ Open(c) \/ Message(c) \/ RunPost(c)
       \/ Return(c) \/ Condemn(c) \/ Notify(c) \/ Release(c)
  \/ Shutdown

Spec == Init /\ [][Next]_vars
=============================================================================
