-------------------------------- MODULE Metrics --------------------------------
(***************************************************************************)
(* The metrics collector and the owners that publish to it: connections    *)
(* (rudp/conn.go) and workerLoops (sched/worker.go), which follow the same *)
(* protocol on channels of their own.  An owner's counters are one number  *)
(* that only grows.  It publishes copies without ever waiting, the last    *)
(* one marked final.  The collector keeps the latest copy of each owner    *)
(* and moves it to the totals at the final copy, or when a scrape finds it *)
(* stale.                                                                  *)
(*                                                                         *)
(* Time passes in seconds.  In each the collector empties its channel, and *)
(* an owner that publishes regularly is not kept out of a full channel for *)
(* more than StaleAfter of them.  An owner may become late: it still       *)
(* counts, but publishes nothing before its final copy, as flushThenExit   *)
(* and a workerLoop that waits for room in pq do.                          *)
(***************************************************************************)
EXTENDS Integers, Sequences, FiniteSetsExt

CONSTANTS
  Owners, Nil,
  StaleAfter,  \* staleAfter
  ChanCap,     \* capacity of connCh or workerCh
  MayBeLate,   \* owners that may become late
  MaxCount     \* bound on an owner's counter

ASSUME MetricsConstantsOK ==
  /\ StaleAfter \in Nat \ {0} /\ ChanCap \in Nat \ {0} /\ MaxCount \in Nat
  /\ MayBeLate \subseteq Owners /\ IsFiniteSet(Owners) /\ Nil \notin [n : Nat, age : Nat]

VARIABLES
  life,       \* "new", "live", "late" or "ended"
  wasLate,    \* history: the owners that were late
  counter,    \* the owner's cumulative counter
  silent,     \* seconds since a copy of the owner's went into the channel
  ch,         \* the channel
  series,     \* conns or workers: the latest copy and its age, or Nil
  closed,     \* closedConns or goneWorkers, by owner: Count and sum
  collector   \* "run" or "done"

ownerVars == <<life, wasLate, counter, silent>>
vars == <<ownerVars, ch, series, closed, collector>>

Init ==
  /\ life = [o \in Owners |-> "new"] /\ wasLate = {}
  /\ counter = [o \in Owners |-> 0] /\ silent = [o \in Owners |-> 0]
  /\ ch = <<>> /\ series = [o \in Owners |-> Nil]
  /\ closed = [o \in Owners |-> [count |-> 0, sum |-> 0]]
  /\ collector = "run"

-----------------------------------------------------------------------------
(* The owners. *)

Copy(o, final) == [owner |-> o, n |-> counter[o], final |-> final]

Start(o) ==
  /\ life[o] = "new" /\ life' = [life EXCEPT ![o] = "live"]
  /\ UNCHANGED <<wasLate, counter, silent, ch, series, closed, collector>>

Tally(o) ==
  /\ life[o] \in {"live", "late"} /\ counter[o] < MaxCount
  /\ counter' = [counter EXCEPT ![o] = @ + 1]
  /\ UNCHANGED <<life, wasLate, silent, ch, series, closed, collector>>

\* publishStats and publishWorker: a full channel drops the copy.
Publish(o) ==
  /\ life[o] = "live" /\ Len(ch) < ChanCap
  /\ ch' = Append(ch, Copy(o, FALSE))
  /\ silent' = [silent EXCEPT ![o] = 0]
  /\ UNCHANGED <<life, wasLate, counter, series, closed, collector>>

BecomeLate(o) ==
  /\ life[o] = "live" /\ o \in MayBeLate
  /\ life' = [life EXCEPT ![o] = "late"] /\ wasLate' = wasLate \cup {o}
  /\ UNCHANGED <<counter, silent, ch, series, closed, collector>>

\* The final copy is lost when the channel is full; a workerLoop that is told to
\* stop publishes none.
End(o) ==
  /\ life[o] \in {"live", "late"} /\ life' = [life EXCEPT ![o] = "ended"]
  /\ \/ Len(ch) < ChanCap /\ ch' = Append(ch, Copy(o, TRUE))
     \/ UNCHANGED ch
  /\ UNCHANGED <<wasLate, counter, silent, series, closed, collector>>

-----------------------------------------------------------------------------
(* The collector. *)

\* (mutant) the series is deleted first, and its copy lost
RetireForgets(S, n) ==
  /\ series' = [o \in Owners |-> IF o \in S THEN Nil ELSE series[o]]
  /\ closed' = [o \in Owners |-> IF o \in S THEN [count |-> closed[o].count + 1, sum |-> closed[o].sum]
                                 ELSE closed[o]]

\* retireConn and retireWorker, for the owners in S with the copies n.
Retire(S, n) ==
  /\ series' = [o \in Owners |-> IF o \in S THEN Nil ELSE series[o]]
  /\ closed' = [o \in Owners |-> IF o \in S THEN [count |-> closed[o].count + 1, sum |-> closed[o].sum + n[o]]
                                 ELSE closed[o]]

\* (mutant) a final copy leaves the series in place
TakeKeeps ==
  /\ collector = "run" /\ ch # <<>> /\ ch' = Tail(ch)
  /\ LET s == Head(ch) IN
     /\ series' = [series EXCEPT ![s.owner] = [n |-> s.n, age |-> 0]]
     /\ closed' = IF s.final THEN [closed EXCEPT ![s.owner] = [count |-> @.count + 1, sum |-> @.sum + s.n]]
                  ELSE closed
  /\ UNCHANGED <<ownerVars, collector>>

Take ==
  /\ collector = "run" /\ ch # <<>> /\ ch' = Tail(ch)
  /\ LET s == Head(ch) IN
     IF s.final THEN Retire({s.owner}, [o \in {s.owner} |-> s.n])
     ELSE /\ series' = [series EXCEPT ![s.owner] = [n |-> s.n, age |-> 0]]
          /\ UNCHANGED closed
  /\ UNCHANGED <<ownerVars, collector>>

\* (mutant) no series is ever stale
StaleNever == {}
Stale == {o \in Owners : series[o] # Nil /\ series[o].age > StaleAfter}

\* A scrape retires what is stale and answers with the totals and the rest.
Scrape ==
  /\ collector = "run"
  /\ Retire(Stale, [o \in Stale |-> series[o].n])
  /\ UNCHANGED <<ownerVars, ch, collector>>

Stop ==
  /\ collector = "run" /\ collector' = "done"
  /\ UNCHANGED <<ownerVars, ch, series, closed>>

\* A second goes by.  Ages are told apart up to StaleAfter + 1.
Second ==
  /\ collector = "run" /\ ch = <<>>
  /\ \A o \in Owners : life[o] = "live" => silent[o] < StaleAfter
  /\ silent' = [o \in Owners |-> IF life[o] = "live" THEN silent[o] + 1 ELSE silent[o]]
  /\ series' = [o \in Owners |-> IF series[o] = Nil THEN Nil
                                 ELSE [series[o] EXCEPT !.age = IF @ > StaleAfter THEN @ ELSE @ + 1]]
  /\ UNCHANGED <<life, wasLate, counter, ch, closed, collector>>

-----------------------------------------------------------------------------
Next ==
  \/ \E o \in Owners : Start(o) \/ Tally(o) \/ Publish(o) \/ BecomeLate(o) \/ End(o)
  \/ Take \/ Scrape \/ Stop \/ Second

Spec == Init /\ [][Next]_vars
-----------------------------------------------------------------------------
(* Properties. *)

Live(o) == IF series[o] = Nil THEN 0 ELSE series[o].n

TypeOK ==
  /\ life \in [Owners -> {"new", "live", "late", "ended"}] /\ wasLate \subseteq Owners
  /\ counter \in [Owners -> Nat] /\ silent \in [Owners -> 0 .. StaleAfter]
  /\ ch \in Seq([owner : Owners, n : Nat, final : BOOLEAN]) /\ Len(ch) <= ChanCap
  /\ \A o \in Owners : series[o] = Nil \/ series[o] \in [n : Nat, age : 0 .. StaleAfter + 1]
  /\ closed \in [Owners -> [count : Nat, sum : Nat]] /\ collector \in {"run", "done"}

\* The totals never claim more than what happened (metrics.go:28): an owner that
\* publishes regularly until it ends is retired at most once, not before its
\* end, and then its last copy no longer counts as live.  An owner that was late
\* may be retired as stale while it lives and again by its final copy.
CountedOnce ==
  \A o \in Owners \ wasLate :
    /\ closed[o].sum + Live(o) <= counter[o]
    /\ closed[o].count <= IF life[o] = "ended" THEN 1 ELSE 0

\* DataSent(), Retransmits() and WorkerTotals() of a snapshot: ended and live.
Total == MapThenSumSet(LAMBDA o : closed[o].sum + Live(o), Owners)

\* What is exposed as a Prometheus counter never goes down, through dropped
\* copies, late owners, stale series and their return (metrics.go:57-85).
NeverDown == [][Total' >= Total]_vars

\* The collector serves its channel and is scraped, time passes, and a live owner
\* now and then finds room in the channel.
Fairness ==
  /\ WF_vars(Take) /\ WF_vars(Scrape) /\ SF_vars(Second)
  /\ \A o \in Owners : SF_vars(Publish(o))

FairSpec == Spec /\ Fairness

\* The series of an owner that has ended does not stay for ever, also when its
\* final copy was lost to a full channel (metrics.go:23-26).
EndedLeaves ==
  \A o \in Owners : life[o] = "ended" ~> series[o] = Nil \/ collector = "done"
=============================================================================
