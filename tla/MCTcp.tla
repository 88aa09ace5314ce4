--------------------------------- MODULE MCTcp ---------------------------------
(* A small instance of Tcp for TLC. *)
EXTENDS Tcp, TLC

\* Two messages of the client, one of the server.
Few == [s \in Sides |-> IF s = "client" THEN 2 ELSE 1]
=============================================================================
