------------------------------ MODULE MCScheduler ------------------------------
(* Small instances of Scheduler for TLC. *)
EXTENDS Scheduler, TLC

\* One job, of two or of three chunks.
OneJob == {1}
TwoChunks == (1 :> 2)
ThreeChunks == (1 :> 3)
WithLog == {"ok"}
WithoutLog == {"none"}
=============================================================================
