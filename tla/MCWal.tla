-------------------------------- MODULE MCWal ---------------------------------
(* Small instances of Wal for TLC. *)
EXTENDS Wal, TLC

CONSTANTS r1, r2

SomeSnapshots == {<<>>, <<r1>>, <<r2, r1>>}
=============================================================================
