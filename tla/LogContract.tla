------------------------------ MODULE LogContract ------------------------------
(***************************************************************************)
(* What the aggregator relies on package wal for: a sequence of records of *)
(* which a crash loses at most an unsynced suffix, and whose replacement   *)
(* by Rewrite happens entirely or not at all.                              *)
(***************************************************************************)
EXTENDS Sequences, Naturals

CONSTANTS Records, Snapshots

VARIABLES
  log,     \* the records of the log
  safe,    \* how many of them are on stable storage
  target   \* the records a Rewrite in progress puts in their place, or log

vars == <<log, safe, target>>

Init == log = <<>> /\ safe = 0 /\ target = <<>>

Append1(r) == log' = Append(log, r) /\ target' = log' /\ UNCHANGED safe
Sync == safe' = Len(log) /\ UNCHANGED <<log, target>>
Begin(recs) == target' = recs /\ UNCHANGED <<log, safe>>
Commit == log' = target /\ safe' = Len(target) /\ UNCHANGED target
Abort == target' = log /\ UNCHANGED <<log, safe>>
Crash ==
  \/ /\ \E n \in safe .. Len(log) : log' = SubSeq(log, 1, n) /\ safe' \in safe .. n
     /\ target' = log'
  \/ Commit

Next ==
  \/ Sync \/ Commit \/ Abort \/ Crash
  \/ (\E r \in Records : Append1(r)) \/ (\E recs \in Snapshots : Begin(recs))

Spec == Init /\ [][Next]_vars
=============================================================================
