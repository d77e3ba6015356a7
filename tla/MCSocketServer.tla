--------------------------- MODULE MCSocketServer ---------------------------
(* Small instances of SocketServer.                                        *)
EXTENDS SocketServer, TLC

\* Clients and task control blocks are interchangeable.
Symmetry == Permutations(Conns) \cup Permutations(Tasks)
============================================================================
