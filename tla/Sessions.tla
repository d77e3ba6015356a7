------------------------------ MODULE Sessions ------------------------------
(***************************************************************************)
(* What socket-server promises the handler of SOCKET_EVENT: a descriptor   *)
(* names one connection from its CONNECTED to its CLOSE.  The handler may  *)
(* keep what it knows of a client under packet->sockfd.                    *)
(***************************************************************************)
CONSTANTS Fds, Conns,
          NoConn       (* the descriptor names no connection                 *)

VARIABLES told,        (* the connection each descriptor names               *)
          handling     (* the packet the handler is busy with, if any        *)

vars == <<told, handling>>

Idle == handling = <<>>

Init ==
  /\ told = [f \in Fds |-> NoConn]
  /\ handling = <<>>

Connected(f, c) ==
  /\ Idle
  /\ told[f] = NoConn
  /\ \A g \in Fds : told[g] # c
  /\ told' = [told EXCEPT ![f] = c]
  /\ UNCHANGED handling

Data(f) ==
  /\ Idle
  /\ told[f] # NoConn
  /\ handling' = <<[id |-> "DATA", fd |-> f, conn |-> told[f]]>>
  /\ UNCHANGED told

Handled ==
  /\ handling' = <<>>
  /\ UNCHANGED told

Closed(f) ==
  /\ Idle
  /\ told[f] # NoConn
  /\ told' = [told EXCEPT ![f] = NoConn]
  /\ UNCHANGED handling

Next ==
  \/ \E f \in Fds : Data(f) \/ Closed(f) \/ \E c \in Conns : Connected(f, c)
  \/ Handled

Spec == Init /\ [][Next]_vars

=============================================================================
