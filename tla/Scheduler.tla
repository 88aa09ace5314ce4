------------------------------- MODULE Scheduler -------------------------------
(***************************************************************************)
(* Package sched around its aggregator: the dispatcher, the feeders that   *)
(* split jobs into the queue nq, the priority queue pq, and one workerLoop *)
(* per worker with its window, its speculation and its hand-back when the  *)
(* worker is lost; the server's shutdown, and its restart with the jobs of *)
(* the log.  The aggregator is module Aggregator; a result reaches it only *)
(* from a workerLoop, and a step of the scheduler that is none of the      *)
(* aggregator's leaves its state alone.                                    *)
(*                                                                         *)
(* A task stands for the Chunk sent for it and for the ChunkResult that    *)
(* answers it.  The transport delivers at least once, so a worker may      *)
(* answer any task ever written to it, any number of times, while its      *)
(* connection lasts.  That a task is old enough to be a straggler is a     *)
(* free choice of the worker's tick.                                       *)
(***************************************************************************)
EXTENDS Aggregator

CONSTANTS
  Workers,    \* worker connections
  Immortal,   \* workers whose connection is never lost
  Window,     \* tasks in flight at one worker
  NQCap,      \* capacity of nq
  PQCap,      \* capacity of pq: MaxWorkers * Window
  ResultCap,  \* capacity of a worker's resultCh: 4 * Window
  MayStop     \* the server may be closed

ASSUME SchedulerConstantsOK ==
  /\ Immortal \subseteq Workers /\ IsFiniteSet(Workers) /\ Nil \notin Workers \X Tasks
  /\ Nil \notin Tasks /\ Conns \cap Jobs = {} /\ MayStop \in BOOLEAN
  /\ {Window, NQCap, PQCap, ResultCap} \subseteq Nat \ {0}

\* A feeder is the handler of a connection or resumes a job of the log.
Feeders == Conns \cup Jobs

VARIABLES
  feeder,     \* the indices a feeder has still to push, {} when it does not feed
  cancelled,  \* feeders whose job has ended (its cancel channel is closed)
  nq, pq,     \* the task queues
  disp,       \* Nil, or <<w, t>>: the dispatcher is blocked on resultCh of w
  wconn,      \* "new", "up", "gone" (dead is closed)
  loop,       \* workerLoop: "none", "top", "wait", "hand", "putback", "requeue", "exit"
  inflight,   \* tasks in flight
  speculated, \* those of them that have been cloned into pq
  hasSRTT, pqHold,
  resultCh,   \* dispatcher -> workerLoop
  holding,    \* the task a workerLoop is handing to the aggregator or back to pq
  out,        \* tasks written to the worker's connection
  stop,       \* the dispatcher has returned
  aggUp       \* the aggregator has not

queueVars == <<feeder, cancelled, nq, pq>>
loopVars == <<loop, inflight, speculated, hasSRTT, pqHold, holding, out>>
stopVars == <<stop, aggUp>>
schedVars == <<queueVars, disp, wconn, loopVars, resultCh, stopVars>>
svars == <<vars, schedVars>>

\* What New and Run start with, but for the feeders.
Fresh ==
  /\ nq' = <<>> /\ pq' = <<>> /\ disp' = Nil /\ cancelled' = {}
  /\ wconn' = [w \in Workers |-> "new"] /\ loop' = [w \in Workers |-> "none"]
  /\ inflight' = [w \in Workers |-> {}] /\ speculated' = [w \in Workers |-> {}]
  /\ hasSRTT' = [w \in Workers |-> FALSE] /\ pqHold' = [w \in Workers |-> FALSE]
  /\ resultCh' = [w \in Workers |-> <<>>] /\ holding' = [w \in Workers |-> Nil]
  /\ out' = [w \in Workers |-> {}] /\ stop' = FALSE /\ aggUp' = TRUE

SInit ==
  /\ Init
  /\ feeder = [f \in Feeders |-> {}] /\ cancelled = {}
  /\ nq = <<>> /\ pq = <<>> /\ disp = Nil
  /\ wconn = [w \in Workers |-> "new"] /\ loop = [w \in Workers |-> "none"]
  /\ inflight = [w \in Workers |-> {}] /\ speculated = [w \in Workers |-> {}]
  /\ hasSRTT = [w \in Workers |-> FALSE] /\ pqHold = [w \in Workers |-> FALSE]
  /\ resultCh = [w \in Workers |-> <<>>] /\ holding = [w \in Workers |-> Nil]
  /\ out = [w \in Workers |-> {}] /\ stop = FALSE /\ aggUp = TRUE

-----------------------------------------------------------------------------
(* The aggregator's steps.  finish closes the cancel channel of the job. *)

FeedsJob(f) == IF f \in Jobs THEN f ELSE asked[f]
Cancel ==
  cancelled' = cancelled \cup {f \in Feeders : feeder[f] # {} /\ FeedsJob(f) \in jobs \ jobs'}

\* clientHandler: submit, then feed if the job is new.
Handle(c, j) ==
  /\ aggUp /\ Submit(c, j)
  /\ feeder' = [feeder EXCEPT ![c] = IF jobs' # jobs THEN Idx(j) ELSE {}]
  /\ UNCHANGED <<cancelled, nq, pq, disp, wconn, loopVars, resultCh, stopVars>>

\* The housekeeping tick.
Housekeeping ==
  /\ aggUp /\ \E D \in SUBSET Orphans, E \in SUBSET Stored : Tick(D, E)
  /\ Cancel
  /\ UNCHANGED <<feeder, nq, pq, disp, wconn, loopVars, resultCh, stopVars>>

-----------------------------------------------------------------------------
(* Restart.  Workers and clients come back over new connections. *)

\* The process ends, also inside finish.
ServerCrash ==
  /\ \/ Crash
     \/ aggUp /\ \E c \in Conns, j \in Jobs : CrashInEmpty(c, j)
     \/ aggUp /\ \E w \in Workers : loop[w] = "hand" /\ CrashInFinish(holding[w])
  /\ feeder' = [f \in Feeders |-> {}] /\ Fresh

Replay == ReplayRecord /\ UNCHANGED schedVars

\* Mutant: the unfinished jobs get no feeder
StartForgets == RecoverDone /\ UNCHANGED schedVars

\* Run: the unfinished jobs of the log get a feeder each.
Start ==
  /\ RecoverDone
  /\ feeder' = [f \in Feeders |-> {t[2] : t \in {u \in issued' : u[1] = f}}]
  /\ UNCHANGED <<cancelled, nq, pq, disp, wconn, loopVars, resultCh, stopVars>>

-----------------------------------------------------------------------------
(* feed *)

\* A full nq blocks the feeder.  When cancel or stop is closed and nq has room,
\* either case of the select may be taken.
FeedPush(f) ==
  /\ Len(nq) < NQCap
  /\ \E i \in feeder[f] :
       /\ \A k \in feeder[f] : i <= k
       /\ nq' = Append(nq, <<FeedsJob(f), i>>)
       /\ feeder' = [feeder EXCEPT ![f] = @ \ {i}]
  /\ UNCHANGED <<vars, cancelled, pq, disp, wconn, loopVars, resultCh, stopVars>>

FeedStop(f) ==
  /\ feeder[f] # {} /\ (f \in cancelled \/ stop)
  /\ feeder' = [feeder EXCEPT ![f] = {}]
  /\ UNCHANGED <<vars, cancelled, nq, pq, disp, wconn, loopVars, resultCh, stopVars>>

-----------------------------------------------------------------------------
(* dispatcher *)

\* srv.Read returns; the dispatcher is not blocked.
Reading == disp = Nil /\ ~stop

DispatchRequest(c, j) == Reading /\ Request(c, j) /\ UNCHANGED schedVars

\* The unbuffered send on clientGoneCh is received by the aggregator.
DispatchClientGone(c) == Reading /\ ClientGone(c) /\ UNCHANGED schedVars

DispatchJoin(w) ==
  /\ phase = "run" /\ Reading /\ wconn[w] = "new"
  /\ wconn' = [wconn EXCEPT ![w] = "up"]
  /\ loop' = [loop EXCEPT ![w] = "top"]
  /\ UNCHANGED <<vars, queueVars, disp, inflight, speculated, hasSRTT, pqHold, holding, out, resultCh, stopVars>>

\* Mutant of DispatchResult: a lost worker stays in the workers map.
DispatchResultToLost(w, t) ==
  /\ Reading /\ wconn[w] # "new" /\ t \in out[w]
  /\ IF Len(resultCh[w]) < ResultCap
     THEN resultCh' = [resultCh EXCEPT ![w] = Append(@, t)] /\ UNCHANGED disp
     ELSE disp' = <<w, t>> /\ UNCHANGED resultCh
  /\ UNCHANGED <<vars, queueVars, wconn, loopVars, stopVars>>

\* A ChunkResult of w: it goes to the workerLoop, if need be after a wait.
DispatchResult(w, t) ==
  /\ Reading /\ wconn[w] = "up" /\ t \in out[w]
  /\ IF Len(resultCh[w]) < ResultCap
     THEN resultCh' = [resultCh EXCEPT ![w] = Append(@, t)] /\ UNCHANGED disp
     ELSE disp' = <<w, t>> /\ UNCHANGED resultCh
  /\ UNCHANGED <<vars, queueVars, wconn, loopVars, stopVars>>

DispatchUnblocked ==
  /\ disp # Nil
  /\ LET w == disp[1] IN
       /\ Len(resultCh[w]) < ResultCap
       /\ resultCh' = [resultCh EXCEPT ![w] = Append(@, disp[2])]
  /\ disp' = Nil
  /\ UNCHANGED <<vars, queueVars, wconn, loopVars, stopVars>>

\* The transport reports w lost: close(w.dead).
DispatchWorkerLost(w) ==
  /\ Reading /\ wconn[w] = "up" /\ w \notin Immortal
  /\ wconn' = [wconn EXCEPT ![w] = "gone"]
  /\ UNCHANGED <<vars, queueVars, disp, loopVars, resultCh, stopVars>>

-----------------------------------------------------------------------------
(* workerLoop *)

\* Mutant of Room: off by one.
RoomForOneMore(w) == Cardinality(inflight[w]) <= Window
Room(w) == Cardinality(inflight[w]) < Window
GoTo(w, s) == loop' = [loop EXCEPT ![w] = s]

\* send: a task already in flight here is our own clone coming back.
Send(w, t) ==
  IF t \in inflight[w]
  THEN /\ holding' = [holding EXCEPT ![w] = t]
       /\ GoTo(w, "putback")
       /\ UNCHANGED <<inflight, out>>
  ELSE /\ inflight' = [inflight EXCEPT ![w] = @ \cup {t}]
       /\ out' = [out EXCEPT ![w] = @ \cup {t}]
       /\ GoTo(w, "top")
       /\ UNCHANGED holding

\* The look at pq before the select, and the case t := <-pqCh of the select.
PullPQ(w) ==
  /\ loop[w] \in {"top", "wait"} /\ Room(w) /\ ~pqHold[w] /\ pq # <<>>
  /\ pq' = Tail(pq)
  /\ Send(w, Head(pq))
  /\ UNCHANGED <<vars, feeder, cancelled, nq, disp, wconn, speculated, hasSRTT, pqHold, resultCh, stopVars>>

\* Nothing urgent: enter the select.
Select(w) ==
  /\ loop[w] = "top" /\ ~(Room(w) /\ ~pqHold[w] /\ pq # <<>>)
  /\ GoTo(w, "wait")
  /\ UNCHANGED <<vars, queueVars, disp, wconn, inflight, speculated, hasSRTT, pqHold, holding, out, resultCh, stopVars>>

PullNQ(w) ==
  /\ loop[w] = "wait" /\ Room(w) /\ nq # <<>>
  /\ nq' = Tail(nq)
  /\ Send(w, Head(nq))
  /\ UNCHANGED <<vars, feeder, cancelled, pq, disp, wconn, speculated, hasSRTT, pqHold, resultCh, stopVars>>

\* The rest of send for our own clone: put it back unless pq is full.
PutBack(w) ==
  /\ loop[w] = "putback"
  /\ pq' = IF Len(pq) < PQCap THEN Append(pq, holding[w]) ELSE pq
  /\ holding' = [holding EXCEPT ![w] = Nil]
  /\ pqHold' = [pqHold EXCEPT ![w] = TRUE]
  /\ GoTo(w, "top")
  /\ UNCHANGED <<vars, feeder, cancelled, nq, disp, wconn, inflight, speculated, hasSRTT, out, resultCh, stopVars>>

\* case r := <-w.resultCh.  A result of nothing in flight is dropped.
TakeResult(w) ==
  LET t == Head(resultCh[w]) IN
  /\ loop[w] = "wait" /\ resultCh[w] # <<>>
  /\ resultCh' = [resultCh EXCEPT ![w] = Tail(@)]
  /\ IF t \notin inflight[w]
     THEN GoTo(w, "top") /\ UNCHANGED <<inflight, speculated, hasSRTT, holding>>
     ELSE /\ inflight' = [inflight EXCEPT ![w] = @ \ {t}]
          /\ speculated' = [speculated EXCEPT ![w] = @ \ {t}]
          /\ hasSRTT' = [hasSRTT EXCEPT ![w] = @ \/ t \notin speculated[w]]
          /\ holding' = [holding EXCEPT ![w] = t]
          /\ GoTo(w, "hand")
  /\ UNCHANGED <<vars, queueVars, disp, wconn, pqHold, out, stopVars>>

\* s.resultsCh <- r: the aggregator takes the result.
HandOver(w) ==
  /\ loop[w] = "hand" /\ aggUp
  /\ Result(holding[w]) /\ Cancel
  /\ holding' = [holding EXCEPT ![w] = Nil]
  /\ GoTo(w, "top")
  /\ UNCHANGED <<feeder, nq, pq, disp, wconn, inflight, speculated, hasSRTT, pqHold, out, resultCh, stopVars>>

\* case <-tick.C: the stragglers are cloned, in some order, until pq is full.  A
\* tick that finds nothing to do changes nothing and is left out.
WorkerTick(w) ==
  /\ loop[w] = "wait"
  /\ \E S \in SUBSET (inflight[w] \ speculated[w]) :
       /\ S # {} => hasSRTT[w]
       /\ S # {} \/ pqHold[w]
       /\ Len(pq) + Cardinality(S) <= PQCap
       /\ \E order \in Listings(S) : pq' = pq \o order
       /\ speculated' = [speculated EXCEPT ![w] = @ \cup S]
  /\ pqHold' = [pqHold EXCEPT ![w] = FALSE]
  /\ GoTo(w, "top")
  /\ UNCHANGED <<vars, feeder, cancelled, nq, disp, wconn, inflight, hasSRTT, holding, out, resultCh, stopVars>>

\* Mutant of WorkerDead: nothing is handed back.
WorkerDeadLeaves(w) ==
  /\ loop[w] = "wait" /\ wconn[w] = "gone"
  /\ GoTo(w, "exit")
  /\ UNCHANGED <<vars, queueVars, disp, wconn, inflight, speculated, hasSRTT, pqHold, holding, out, resultCh, stopVars>>

\* case <-w.dead: hand everything back, waiting whenever pq is full.
WorkerDead(w) ==
  /\ loop[w] = "wait" /\ wconn[w] = "gone"
  /\ GoTo(w, "requeue")
  /\ UNCHANGED <<vars, queueVars, disp, wconn, inflight, speculated, hasSRTT, pqHold, holding, out, resultCh, stopVars>>

Requeue(w, t) ==
  /\ loop[w] = "requeue" /\ t \in inflight[w] /\ Len(pq) < PQCap
  /\ pq' = Append(pq, t)
  /\ inflight' = [inflight EXCEPT ![w] = @ \ {t}]
  /\ speculated' = [speculated EXCEPT ![w] = @ \ {t}]
  /\ UNCHANGED <<vars, feeder, cancelled, nq, disp, wconn, loop, hasSRTT, pqHold, holding, out, resultCh, stopVars>>

WorkerExit(w) ==
  /\ loop[w] = "requeue" /\ inflight[w] = {}
  /\ GoTo(w, "exit")
  /\ UNCHANGED <<vars, queueVars, disp, wconn, inflight, speculated, hasSRTT, pqHold, holding, out, resultCh, stopVars>>

-----------------------------------------------------------------------------
(* Shutdown *)

\* srv.Read returns ErrClosed: the dispatcher, and with it Run, returns.
ServerClosed ==
  /\ MayStop /\ Reading /\ phase = "run"
  /\ stop' = TRUE
  /\ UNCHANGED <<vars, queueVars, disp, wconn, loopVars, resultCh, aggUp>>

\* The aggregator syncs and closes the log.
AggregatorStops ==
  /\ stop /\ aggUp /\ aggUp' = FALSE
  /\ synced' = IF wal = "ok" THEN Len(log) ELSE synced
  /\ UNCHANGED <<phase, memVars, chunks, wal, log, dirty, pos, connVars, crashes>>
  /\ UNCHANGED <<queueVars, disp, wconn, loopVars, resultCh, stop>>

HandlerStops(c) ==
  /\ stop /\ handler[c] = "submitting"
  /\ handler' = [handler EXCEPT ![c] = "exited"]
  /\ UNCHANGED <<phase, memVars, chunks, walVars, conn, asked, got, crashes, schedVars>>

\* Mutant: waits for the aggregator to take the result
WorkerStopsLate(w) ==
  /\ stop /\ loop[w] \in {"wait", "requeue"}
  /\ GoTo(w, "exit")
  /\ UNCHANGED <<vars, queueVars, disp, wconn, inflight, speculated, hasSRTT, pqHold, holding, out, resultCh, stopVars>>

WorkerStops(w) ==
  /\ stop /\ loop[w] \in {"wait", "hand", "requeue"}
  /\ GoTo(w, "exit")
  /\ UNCHANGED <<vars, queueVars, disp, wconn, inflight, speculated, hasSRTT, pqHold, holding, out, resultCh, stopVars>>

-----------------------------------------------------------------------------
WorkerStep(w) ==
  \/ PullPQ(w) \/ Select(w) \/ PullNQ(w) \/ PutBack(w) \/ TakeResult(w) \/ HandOver(w)
  \/ WorkerTick(w) \/ WorkerDead(w) \/ WorkerExit(w) \/ WorkerStops(w)
  \/ \E t \in inflight[w] : Requeue(w, t)

\* What the scheduler's goroutines do without a message.
Goroutines ==
  \/ \E c \in Conns, j \in Jobs : Handle(c, j)
  \/ \E f \in Feeders : FeedPush(f) \/ FeedStop(f)
  \/ \E w \in Workers : WorkerStep(w)
  \/ \E c \in Conns : HandlerStops(c)
  \/ Replay \/ Start \/ Housekeeping \/ DispatchUnblocked \/ AggregatorStops

SNext ==
  \/ Goroutines \/ ServerClosed \/ ServerCrash
  \/ \E c \in Conns : DispatchClientGone(c) \/ \E j \in Jobs : DispatchRequest(c, j)
  \/ \E c \in Conns : ConnDies(c) /\ UNCHANGED schedVars
  \/ \E w \in Workers : \/ DispatchJoin(w) \/ DispatchWorkerLost(w)
                        \/ \E t \in out[w] : DispatchResult(w, t)

SSpec == SInit /\ [][SNext]_svars
-----------------------------------------------------------------------------
(* Properties. *)

\* A worker never has more than window tasks in flight, whatever the order of
\* pulls, clones, duplicates and hand-backs (docs/architecture.md, invariant 1).
WindowRespected == \A w \in Workers : Cardinality(inflight[w]) <= Window

\* Where the copies of task t are: still to be fed, queued, in flight, or held
\* by a workerLoop on its way to the aggregator.
ToBeFed(t) == \E f \in Feeders \ cancelled : FeedsJob(f) = t[1] /\ t[2] \in feeder[f]
Queued(t) == \E n \in 1 .. Len(nq) : nq[n] = t
Urgent(t) == \E n \in 1 .. Len(pq) : pq[n] = t
AtWorker(t) ==
  \E w \in Workers : \/ t \in inflight[w] /\ loop[w] # "exit"
                     \/ loop[w] = "hand" /\ holding[w] = t

\* No task of a running job is ever lost: as long as it is not counted, a copy
\* of it is somewhere from where it can still reach the aggregator, through
\* dropped clones, full queues, lost workers (worker.go:108-142) and restarts
\* (recover.go:94-112), until the server is closed.
TaskConserved ==
  phase = "run" /\ ~stop =>
    \A j \in jobs : \A i \in Idx(j) \ done[j] :
      LET t == <<j, i>> IN ToBeFed(t) \/ Queued(t) \/ Urgent(t) \/ AtWorker(t)

AllStopped ==
  /\ ~aggUp
  /\ \A f \in Feeders : feeder[f] = {}
  /\ \A c \in Conns : handler[c] # "submitting"
  /\ \A w \in Workers : loop[w] \in {"none", "exit"}

\* When the server is closed every goroutine ends (sched.go:118-120): none is
\* left waiting for one that has gone before it.
StopReachesAll == stop => AllStopped \/ ENABLED Goroutines

\* Goroutines run, and the select of a workerLoop that finds nq ready over and
\* over takes from it.  An immortal worker joins and answers.  Any other answers
\* its first chunk or is lost, and may then hang: a worker that has no round-trip
\* sample is never speculated on.
Answers(w) == \E t \in inflight[w] : DispatchResult(w, t)
SFairness ==
  /\ WF_svars(DispatchUnblocked \/ Replay \/ Start)
  /\ \A f \in Feeders : WF_svars(FeedPush(f))
  /\ \A w \in Workers \ Immortal :
       WF_svars(WorkerStep(w)) /\ SF_svars(~hasSRTT[w] /\ Answers(w))
  /\ \A w \in Immortal :
       WF_svars(DispatchJoin(w) \/ WorkerStep(w)) /\ SF_svars(PullNQ(w)) /\ SF_svars(Answers(w))

SFairSpec == SSpec /\ SFairness

\* The transport repeats itself only finitely often.
Repeats == \E w \in Workers : \E t \in out[w] \ inflight[w] : DispatchResult(w, t)
FewRepeats == <>[][~Repeats]_svars

\* With one worker that stays, every job ends, although other workers are lost
\* or hang with tasks in flight (worker.go:55-179).
JobsEnd == FewRepeats => \A j \in Jobs : j \in jobs ~> j \notin jobs

\* The dispatcher is never stuck behind a workerLoop (docs/architecture.md, "Why
\* it cannot deadlock"): a result it waits to pass on is taken.
DispatcherFree == disp # Nil ~> disp = Nil
=============================================================================
