----------------------------- MODULE MCAggregator -----------------------------
(* Small instances of Aggregator for TLC. *)
EXTENDS Aggregator, TLC

\* One job of two chunks and one empty job, or only the first of them.
TwoJobs == {0, 1}
OneJob == {1}
NTasksTwo == (0 :> 0) @@ (1 :> 2)
NTasksOne == (1 :> 2)
WithLog == {"ok"}
WithOrWithout == {"ok", "none"}

\* The connections are interchangeable.
ConnSymmetry == Permutations(Conns)
=============================================================================
