----------------------------- MODULE MCRudpServer -----------------------------
(* A small instance of RudpServer for TLC. *)
EXTENDS RudpServer, TLC
=============================================================================
