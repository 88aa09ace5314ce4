------------------------------- MODULE MCSplit --------------------------------
(* A small instance of Split for TLC: four-bit integers. *)
EXTENDS Split, TLC

\* Hashes with ties, decreasing, and with the largest value at the largest nonce.
SomeHashes == {[x \in 0 .. 15 |-> x % 3], [x \in 0 .. 15 |-> 15 - x], [x \in 0 .. 15 |-> 15]}
=============================================================================
