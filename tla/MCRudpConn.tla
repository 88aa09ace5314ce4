------------------------------ MODULE MCRudpConn ------------------------------
(* Small instances of RudpConn for TLC. *)
EXTENDS RudpConn, TLC

BothModes == {TRUE, FALSE}
Default == {FALSE}
TwoWays == ("a" :> 2) @@ ("b" :> 1)
OneEach == ("a" :> 1) @@ ("b" :> 1)
OneWay == ("a" :> 2) @@ ("b" :> 0)
=============================================================================
