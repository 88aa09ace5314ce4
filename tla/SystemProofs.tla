----------------------------- MODULE SystemProofs -----------------------------
(***************************************************************************)
(* The scheduler around the aggregator: what it hands over are results of  *)
(* tasks the aggregator issued, windows are respected, and no task is lost *)
(* between feeders, queues and workers.  It follows that what is proved of *)
(* the aggregator alone holds of the aggregator inside the scheduler.      *)
(***************************************************************************)
EXTENDS Scheduler, AnswerProofs

LoopStates == {"none", "top", "wait", "hand", "putback", "requeue", "exit"}

\* Every task in a queue, a channel or at a worker is in S.
Stock(S) ==
  /\ nq \in Seq(S) /\ pq \in Seq(S) /\ disp \in (Workers \X S) \cup {Nil}
  /\ inflight \in [Workers -> SUBSET S] /\ out \in [Workers -> SUBSET S]
  /\ resultCh \in [Workers -> Seq(S)] /\ holding \in [Workers -> S \cup {Nil}]

\* Feeders push issued tasks, on behalf of handlers that have submitted.
Feeding ==
  /\ feeder \in [Feeders -> SUBSET Nat]
  /\ \A f \in Feeders : \A i \in feeder[f] : <<FeedsJob(f), i>> \in issued
  /\ \A c \in Conns : handler[c] # "exited" => feeder[c] = {} /\ c \notin cancelled
  /\ phase = "replay" => issued = {} /\ cancelled = {}

\* A workerLoop holds a task exactly where it needs one, and keeps to its window.
Loops ==
  /\ loop \in [Workers -> LoopStates]
  /\ \A w \in Workers : /\ IsFiniteSet(inflight[w]) /\ Cardinality(inflight[w]) <= Window
                        /\ loop[w] = "hand" => holding[w] # Nil
                        /\ loop[w] = "putback" => holding[w] \in inflight[w]

SInv == Stock(issued) /\ Feeding /\ Loops

\* What the scheduler relies on besides the types: a connection's first request is
\* read once (proved of the aggregator as part of ConnInv).
NewIsIdle == \A c \in Conns : conn[c] = "new" => handler[c] = "idle"

-----------------------------------------------------------------------------
(* Helpers. *)

In(t, q) == \E n \in 1 .. Len(q) : q[n] = t

\* What is in a queue is its head or in its tail.
LEMMA InTail ==
  ASSUME NEW S, NEW q \in Seq(S), q # <<>>
  PROVE  /\ Head(q) \in S /\ Tail(q) \in Seq(S)
         /\ \A t : In(t, q) => t = Head(q) \/ In(t, Tail(q))
<1>1. /\ Head(q) \in S /\ Tail(q) \in Seq(S) /\ Len(Tail(q)) = Len(q) - 1 /\ Len(q) \in Nat
      /\ \A i \in 1 .. Len(Tail(q)) : Tail(q)[i] = q[i + 1]
  BY SMTT(30)
<1>2. ASSUME NEW n \in 1 .. Len(q)  PROVE q[n] = Head(q) \/ In(q[n], Tail(q))
  <2>1. CASE n = 1
    BY SMTT(30), <2>1
  <2>2. CASE n # 1
    <3>1. n - 1 \in 1 .. Len(Tail(q)) /\ (n - 1) + 1 = n
      BY SMTT(30), <1>1, <2>2
    <3>2. Tail(q)[n - 1] = q[n]
      BY Zenon, <1>1, <3>1
    <3>. QED  BY Zenon, <3>1, <3>2 DEF In
  <2>. QED  BY Zenon, <2>1, <2>2
<1>. QED  BY Zenon, <1>1, <1>2 DEF In

\* Sending to a queue keeps what is in it.
LEMMA InAppend ==
  ASSUME NEW S, NEW q \in Seq(S), NEW x \in S
  PROVE  Append(q, x) \in Seq(S) /\ In(x, Append(q, x)) /\ \A t : In(t, q) => In(t, Append(q, x))
<1>1. /\ Append(q, x) \in Seq(S) /\ Len(Append(q, x)) = Len(q) + 1 /\ Len(q) \in Nat
      /\ \A i \in 1 .. Len(q) : Append(q, x)[i] = q[i]
      /\ Append(q, x)[Len(q) + 1] = x
  BY SMTT(30)
<1>2. In(x, Append(q, x))
  BY SMTT(30), <1>1 DEF In
<1>3. \A t : In(t, q) => In(t, Append(q, x))
  BY SMTT(30), <1>1 DEF In
<1>. QED  BY Zenon, <1>1, <1>2, <1>3

\* Sending several keeps what is in the queue.
LEMMA InConcat ==
  ASSUME NEW S, NEW q \in Seq(S), NEW r \in Seq(S)
  PROVE  q \o r \in Seq(S) /\ \A t : In(t, q) => In(t, q \o r)
<1>1. /\ q \o r \in Seq(S) /\ Len(q \o r) = Len(q) + Len(r) /\ Len(q) \in Nat /\ Len(r) \in Nat
      /\ \A i \in 1 .. Len(q) + Len(r) : (q \o r)[i] = IF i <= Len(q) THEN q[i] ELSE r[i - Len(q)]
  BY SMTT(30)
<1>. QED  BY SMTT(30), <1>1 DEF In

\* The order of a tick's clones is a sequence of tasks.
LEMMA OrderType ==
  ASSUME NEW S, NEW T, S \subseteq T, Cardinality(S) \in Nat, NEW order \in Listings(S)
  PROVE  order \in Seq(T)
<1>1. order \in [1 .. Cardinality(S) -> T]
  BY Zenon DEF Listings
<1>. QED  BY SMTT(30), <1>1

\* A task is a job and an index.
LEMMA TaskParts ==
  ASSUME NEW t \in Tasks  PROVE t = <<t[1], t[2]>> /\ t[1] \in Jobs /\ t[2] \in AllIdx
BY SMTT(30) DEF Tasks

\* A task less in flight.
LEMMA FewerInFlight ==
  ASSUME NEW S, NEW x, IsFiniteSet(S), Cardinality(S) <= Window
  PROVE  IsFiniteSet(S \ {x}) /\ Cardinality(S \ {x}) <= Window
<1>1. Window \in Nat /\ Cardinality(S) \in Nat
  BY Zenon, SchedulerConstantsOK, FS_CardinalityType
<1>2. /\ IsFiniteSet(S \ {x})
      /\ Cardinality(S \ {x}) = IF x \in S THEN Cardinality(S) - 1 ELSE Cardinality(S)
  BY Zenon, FS_RemoveElement
<1>. QED  BY SMTT(30), <1>1, <1>2

\* More tasks may be issued, the others stay.
LEMMA StockGrows ==
  ASSUME Stock(issued), issued \subseteq issued',
         UNCHANGED <<nq, pq, disp, inflight, out, resultCh, holding>>
  PROVE  Stock(issued)'
<1>1. Seq(issued) \subseteq Seq(issued')
  BY SMTT(30)
<1>2. nq \in Seq(issued') /\ pq \in Seq(issued') /\ \A w \in Workers : resultCh[w] \in Seq(issued')
  BY Zenon, <1>1 DEF Stock
<1>3. resultCh \in [Workers -> Seq(issued')]
  BY Zenon, <1>2 DEF Stock
<1>4. disp \in (Workers \X issued') \cup {Nil}
  BY Zenon DEF Stock
<1>. QED  BY Zenon, <1>2, <1>3, <1>4 DEF Stock

\* What the feeders need of a step that leaves them alone.
LEMMA FeedingStays ==
  ASSUME Feeding, UNCHANGED <<feeder, cancelled, asked, handler, phase, issued>>
  PROVE  Feeding'
BY Zenon DEF Feeding, FeedsJob

-----------------------------------------------------------------------------
(* The steps of a workerLoop. *)

\* A pull: the window has room for one more.
LEMMA SInvSend ==
  ASSUME SInv, NEW w \in Workers, NEW t \in issued, loop[w] \in {"top", "wait"}, Room(w),
         Send(w, t), nq' \in Seq(issued), pq' \in Seq(issued),
         UNCHANGED <<issued, disp, resultCh>>
  PROVE  Stock(issued)' /\ Loops'
<1>0. /\ inflight \in [Workers -> SUBSET issued] /\ out \in [Workers -> SUBSET issued]
      /\ holding \in [Workers -> issued \cup {Nil}] /\ loop \in [Workers -> LoopStates]
      /\ Window \in Nat /\ \A v \in Workers : IsFiniteSet(inflight[v])
  BY Zenon, SchedulerConstantsOK DEF SInv, Stock, Loops
<1>1. /\ inflight' \in [Workers -> SUBSET issued] /\ out' \in [Workers -> SUBSET issued]
      /\ holding' \in [Workers -> issued \cup {Nil}] /\ loop' \in [Workers -> LoopStates]
  <2>1. CASE t \in inflight[w]
    BY Zenon, <1>0, <2>1 DEF Send, GoTo, LoopStates
  <2>2. CASE t \notin inflight[w]
    <3>1. inflight[w] \cup {t} \in SUBSET issued /\ out[w] \cup {t} \in SUBSET issued
      BY Zenon, <1>0
    <3>. QED  BY Zenon, <1>0, <2>2, <3>1 DEF Send, GoTo, LoopStates
  <2>. QED  BY Zenon, <2>1, <2>2
<1>2. Stock(issued)'
  BY Zenon, <1>1 DEF SInv, Stock
<1>3. /\ Cardinality(inflight[w]) \in Nat /\ Cardinality(inflight[w]) < Window
      /\ IsFiniteSet(inflight[w] \cup {t})
      /\ t \notin inflight[w] => Cardinality(inflight[w] \cup {t}) = Cardinality(inflight[w]) + 1
  BY Zenon, <1>0, FS_AddElement, FS_CardinalityType DEF Room
<1>4. ASSUME NEW v \in Workers
      PROVE  /\ IsFiniteSet(inflight'[v]) /\ Cardinality(inflight'[v]) <= Window
             /\ loop'[v] = "hand" => holding'[v] # Nil
             /\ loop'[v] = "putback" => holding'[v] \in inflight'[v]
  <2>1. CASE v # w
    BY Zenon, <1>0, <2>1 DEF SInv, Loops, Send, GoTo
  <2>2. CASE v = w /\ t \in inflight[w]
    BY Zenon, <1>0, <1>3, <2>2 DEF SInv, Loops, Send, GoTo
  <2>3. CASE v = w /\ t \notin inflight[w]
    <3>1. inflight'[v] = inflight[w] \cup {t} /\ loop'[v] = "top"
      BY Zenon, <1>0, <2>3 DEF Send, GoTo
    <3>2. Cardinality(inflight'[v]) <= Window
      BY SMTT(30), <1>0, <1>3, <2>3, <3>1
    <3>. QED  BY Zenon, <1>3, <3>1, <3>2
  <2>. QED  BY Zenon, <2>1, <2>2, <2>3
<1>. QED  BY Zenon, <1>1, <1>2, <1>4 DEF Loops

\* The steps by which a workerLoop pulls, puts back, clones, hands back and ends.
LEMMA SInvWorker ==
  ASSUME TypeOK, SInv, NEW w \in Workers,
         \/ PullPQ(w) \/ Select(w) \/ PullNQ(w) \/ PutBack(w) \/ TakeResult(w) \/ WorkerTick(w)
         \/ WorkerDead(w) \/ WorkerExit(w) \/ WorkerStops(w) \/ \E t \in inflight[w] : Requeue(w, t)
  PROVE  SInv'
<1>0. /\ inflight \in [Workers -> SUBSET issued] /\ out \in [Workers -> SUBSET issued]
      /\ holding \in [Workers -> issued \cup {Nil}] /\ loop \in [Workers -> LoopStates]
      /\ nq \in Seq(issued) /\ pq \in Seq(issued) /\ resultCh \in [Workers -> Seq(issued)]
      /\ disp \in (Workers \X issued) \cup {Nil}
      /\ Window \in Nat /\ Nil \notin issued
      /\ \A v \in Workers : IsFiniteSet(inflight[v]) /\ Cardinality(inflight[v]) <= Window
  BY Zenon, SchedulerConstantsOK DEF TypeOK, SInv, Stock, Loops
<1>1. UNCHANGED <<vars, feeder, cancelled, disp>> 
  BY Zenon DEF PullPQ, Select, PullNQ, PutBack, TakeResult, WorkerTick, WorkerDead, WorkerExit,
         WorkerStops, Requeue, queueVars
<1>2. Feeding' /\ issued' = issued
  <2>1. UNCHANGED <<asked, handler, phase, issued>>
    BY Zenon, <1>1 DEF vars, memVars, connVars
  <2>. QED  BY Zenon, <1>1, <2>1, FeedingStays DEF SInv
<1>3. ASSUME Stock(issued)', Loops'  PROVE SInv'
  BY Zenon, <1>2, <1>3 DEF SInv
<1>4. CASE PullPQ(w)
  <2>1. Head(pq) \in issued /\ Tail(pq) \in Seq(issued)
    BY Zenon, <1>0, <1>4, InTail DEF PullPQ
  <2>. QED  BY Zenon, <1>0, <1>1, <1>2, <1>3, <1>4, <2>1, SInvSend DEF PullPQ
<1>5. CASE PullNQ(w)
  <2>1. Head(nq) \in issued /\ Tail(nq) \in Seq(issued)
    BY Zenon, <1>0, <1>5, InTail DEF PullNQ
  <2>. QED  BY Zenon, <1>0, <1>1, <1>2, <1>3, <1>5, <2>1, SInvSend DEF PullNQ
<1>6. CASE Select(w) \/ WorkerDead(w) \/ WorkerExit(w) \/ WorkerStops(w)
  <2>1. /\ UNCHANGED <<nq, pq, disp, inflight, out, resultCh, holding>>
        /\ \E s \in {"wait", "requeue", "exit"} : loop' = [loop EXCEPT ![w] = s]
    BY Zenon, <1>6 DEF Select, WorkerDead, WorkerExit, WorkerStops, GoTo, queueVars
  <2>2. Stock(issued)'
    BY Zenon, <1>2, <2>1 DEF SInv, Stock
  <2>3. Loops'
    BY Zenon, <1>0, <2>1 DEF SInv, Loops, LoopStates
  <2>. QED  BY Zenon, <1>3, <2>2, <2>3
<1>7. CASE PutBack(w)
  <2>1. holding[w] \in issued
    BY Zenon, <1>0, <1>7 DEF SInv, Loops, PutBack
  <2>2. pq' \in Seq(issued)
    BY Zenon, <1>0, <1>7, <2>1, InAppend DEF PutBack
  <2>3. UNCHANGED <<nq, disp, inflight, out, resultCh>> /\ holding' = [holding EXCEPT ![w] = Nil]
    BY Zenon, <1>7 DEF PutBack
  <2>4. Stock(issued)'
    BY Zenon, <1>0, <1>2, <2>2, <2>3 DEF Stock
  <2>5. Loops'
    BY Zenon, <1>0, <1>7, <2>3 DEF SInv, Loops, LoopStates, PutBack, GoTo
  <2>. QED  BY Zenon, <1>3, <2>4, <2>5
<1>8. CASE TakeResult(w)
  <2>. DEFINE t == Head(resultCh[w])
  <2>1. t \in issued /\ Tail(resultCh[w]) \in Seq(issued)
    BY Zenon, <1>0, <1>8, InTail DEF TakeResult
  <2>2. resultCh' = [resultCh EXCEPT ![w] = Tail(@)] /\ UNCHANGED <<nq, pq, disp, out>>
    BY Zenon, <1>8 DEF TakeResult, queueVars
  <2>3. resultCh' \in [Workers -> Seq(issued)]
    BY Zenon, <1>0, <2>1, <2>2
  <2>4. CASE t \notin inflight[w]
    <3>1. loop' = [loop EXCEPT ![w] = "top"] /\ UNCHANGED <<inflight, holding>>
      BY Zenon, <1>8, <2>4 DEF TakeResult, GoTo
    <3>2. Stock(issued)'
      BY Zenon, <1>0, <1>2, <2>2, <2>3, <3>1 DEF Stock
    <3>3. Loops'
      BY Zenon, <1>0, <3>1 DEF SInv, Loops, LoopStates
    <3>. QED  BY Zenon, <1>3, <3>2, <3>3
  <2>5. CASE t \in inflight[w]
    <3>1. /\ inflight' = [inflight EXCEPT ![w] = @ \ {t}] /\ holding' = [holding EXCEPT ![w] = t]
          /\ loop' = [loop EXCEPT ![w] = "hand"]
      BY Zenon, <1>8, <2>5 DEF TakeResult, GoTo
    <3>. HIDE DEF t
    <3>2. inflight' \in [Workers -> SUBSET issued] /\ holding' \in [Workers -> issued \cup {Nil}]
      BY Zenon, <1>0, <2>1, <3>1
    <3>3. Stock(issued)'
      BY Zenon, <1>0, <1>2, <2>2, <2>3, <3>2 DEF Stock
    <3>4. IsFiniteSet(inflight[w] \ {t}) /\ Cardinality(inflight[w] \ {t}) <= Window
      BY Zenon, <1>0, FewerInFlight
    <3>5. Loops'
      BY Zenon, <1>0, <2>1, <3>1, <3>4 DEF SInv, Loops, LoopStates
    <3>. QED  BY Zenon, <1>3, <3>3, <3>5
  <2>. QED  BY Zenon, <2>4, <2>5
<1>9. CASE WorkerTick(w)
  <2>1. PICK S \in SUBSET (inflight[w] \ speculated[w]) : \E order \in Listings(S) : pq' = pq \o order
    BY Zenon, <1>9 DEF WorkerTick
  <2>2. PICK order \in Listings(S) : pq' = pq \o order
    BY Zenon, <2>1
  <2>3. S \subseteq issued /\ Cardinality(S) \in Nat
    BY Zenon, <1>0, FS_Subset, FS_CardinalityType
  <2>4. order \in Seq(issued)
    BY Zenon, <1>0, <2>3, OrderType
  <2>5. pq' \in Seq(issued)
    BY Zenon, <1>0, <2>2, <2>4, InConcat
  <2>6. UNCHANGED <<nq, disp, inflight, out, resultCh, holding>> /\ loop' = [loop EXCEPT ![w] = "top"]
    BY Zenon, <1>9 DEF WorkerTick, GoTo
  <2>7. Stock(issued)'
    BY Zenon, <1>0, <1>2, <2>5, <2>6 DEF Stock
  <2>8. Loops'
    BY Zenon, <1>0, <2>6 DEF SInv, Loops, LoopStates
  <2>. QED  BY Zenon, <1>3, <2>7, <2>8
<1>10. ASSUME NEW t \in inflight[w], Requeue(w, t)  PROVE SInv'
  <2>1. /\ pq' = Append(pq, t) /\ inflight' = [inflight EXCEPT ![w] = @ \ {t}]
        /\ UNCHANGED <<nq, disp, out, resultCh, holding, loop>> /\ loop[w] = "requeue"
    BY Zenon, <1>10 DEF Requeue
  <2>2. t \in issued
    BY Zenon, <1>0
  <2>3. pq' \in Seq(issued) /\ inflight' \in [Workers -> SUBSET issued]
    BY Zenon, <1>0, <2>1, <2>2, InAppend
  <2>4. Stock(issued)'
    BY Zenon, <1>0, <1>2, <2>1, <2>3 DEF Stock
  <2>5. IsFiniteSet(inflight[w] \ {t}) /\ Cardinality(inflight[w] \ {t}) <= Window
    BY Zenon, <1>0, FewerInFlight
  <2>6. Loops'
    BY Zenon, <1>0, <2>1, <2>5 DEF SInv, Loops
  <2>. QED  BY Zenon, <1>3, <2>4, <2>6
<1>. QED  BY Zenon, <1>4, <1>5, <1>6, <1>7, <1>8, <1>9, <1>10
-----------------------------------------------------------------------------
(* The other steps. *)

\* Submitting, as the scheduler sees it.
LEMMA SubmitFacts ==
  ASSUME TypeOK, NEW c \in Conns, NEW j \in Jobs, Submit(c, j)
  PROVE  /\ phase = "run" /\ phase' = "run" /\ UNCHANGED <<asked, done>>
         /\ asked[c] = j /\ handler[c] = "submitting"
         /\ \A d \in Conns : handler'[d] = IF d = c THEN "exited" ELSE handler[d]
         /\ issued \subseteq issued'
         /\ \/ jobs' = jobs
            \/ jobs' = jobs \cup {j} /\ jobs' # jobs /\ \A i \in Idx(j) : <<j, i>> \in issued'
<1>1. handler \in [Conns -> {"idle", "submitting", "exited"}]
  BY Zenon DEF TypeOK
<1>2. /\ Submitting(c, j) /\ UNCHANGED done /\ issued \subseteq issued'
      /\ \/ jobs' = jobs
         \/ jobs' = jobs \cup {j} /\ j \notin jobs /\ issued' = issued \cup {<<j, i>> : i \in Idx(j)}
  BY Zenon DEF Submit, SubmitStored, SubmitRunning, SubmitNew, SubmitEmpty, IsNew, memVars
<1>. QED  BY Zenon, <1>1, <1>2 DEF Submitting

\* A result and a tick, as the scheduler sees them.
LEMMA AggregatorFacts ==
  ASSUME TypeOK, \/ \E t \in issued : Result(t)
               \/ \E D \in SUBSET Orphans, E \in SUBSET Stored : Tick(D, E)
  PROVE  /\ phase = "run" /\ UNCHANGED <<phase, issued, asked, handler, conn>>
         /\ jobs' \subseteq jobs /\ \A j \in jobs' : done[j] \subseteq done'[j]
<1>0. issued \subseteq Tasks /\ jobs \subseteq Jobs /\ done \in [Jobs -> SUBSET AllIdx]
  BY Zenon DEF TypeOK
<1>1. ASSUME NEW t \in issued, Result(t)
      PROVE  /\ phase = "run" /\ UNCHANGED <<phase, issued, asked, handler, conn>>
             /\ jobs' \subseteq jobs /\ \A j \in jobs' : done[j] \subseteq done'[j]
  BY Zenon, <1>0, <1>1 DEF Result, ResultDropped, ResultCounted, ResultLast, Finish, vars, memVars, connVars
<1>2. ASSUME NEW D \in SUBSET Orphans, NEW E \in SUBSET Stored, Tick(D, E)
      PROVE  /\ phase = "run" /\ UNCHANGED <<phase, issued, asked, handler, conn>>
             /\ jobs' \subseteq jobs /\ \A j \in jobs' : done[j] \subseteq done'[j]
  BY Zenon, <1>0, <1>2 DEF Tick, Finish, connVars
<1>. QED  BY Zenon, <1>1, <1>2

\* The aggregator takes a result, or keeps house.
LEMMA SInvAggregator ==
  ASSUME TypeOK, SInv, Housekeeping \/ \E w \in Workers : HandOver(w)
  PROVE  SInv'
<1>0. /\ holding \in [Workers -> issued \cup {Nil}] /\ loop \in [Workers -> LoopStates]
      /\ \A w \in Workers : loop[w] = "hand" => holding[w] \in issued
      /\ Nil \notin issued
  BY Zenon, SchedulerConstantsOK DEF TypeOK, SInv, Stock, Loops
<1>1. /\ Cancel /\ UNCHANGED <<feeder, nq, pq, disp, inflight, out, resultCh>>
      /\ phase = "run" /\ UNCHANGED <<phase, issued, asked, handler, conn>>
  <2>1. CASE Housekeeping
    BY Zenon, <2>1, AggregatorFacts DEF Housekeeping, loopVars
  <2>2. ASSUME NEW w \in Workers, HandOver(w)
        PROVE  /\ Cancel /\ UNCHANGED <<feeder, nq, pq, disp, inflight, out, resultCh>>
               /\ phase = "run" /\ UNCHANGED <<phase, issued, asked, handler, conn>>
    BY Zenon, <1>0, <2>2, AggregatorFacts DEF HandOver
  <2>. QED  BY Zenon, <2>1, <2>2
<1>2. Feeding'
  BY Zenon, <1>1 DEF SInv, Feeding, Cancel, FeedsJob
<1>3. CASE Housekeeping
  <2>1. UNCHANGED <<loop, holding>>
    BY Zenon, <1>3 DEF Housekeeping, loopVars
  <2>2. Stock(issued)' /\ Loops'
    BY Zenon, <1>1, <2>1 DEF SInv, Stock, Loops
  <2>. QED  BY Zenon, <1>2, <2>2 DEF SInv
<1>4. ASSUME NEW w \in Workers, HandOver(w)  PROVE SInv'
  <2>1. holding' = [holding EXCEPT ![w] = Nil] /\ loop' = [loop EXCEPT ![w] = "top"]
    BY Zenon, <1>4 DEF HandOver, GoTo
  <2>2. Stock(issued)'
    BY Zenon, <1>1, <2>1 DEF SInv, Stock
  <2>3. Loops'
    BY Zenon, <1>0, <1>1, <2>1 DEF SInv, Loops, LoopStates
  <2>. QED  BY Zenon, <1>2, <2>2, <2>3 DEF SInv
<1>. QED  BY Zenon, <1>3, <1>4

\* A handler submits and may start to feed.
LEMMA SInvHandle ==
  ASSUME TypeOK, SInv, NEW c \in Conns, NEW j \in Jobs, Handle(c, j)
  PROVE  SInv'
<1>1. /\ phase = "run" /\ phase' = "run" /\ UNCHANGED asked
      /\ asked[c] = j /\ handler[c] = "submitting"
      /\ \A d \in Conns : handler'[d] = IF d = c THEN "exited" ELSE handler[d]
      /\ issued \subseteq issued' /\ (jobs' # jobs => \A i \in Idx(j) : <<j, i>> \in issued')
  BY Zenon, SubmitFacts DEF Handle
<1>2. Conns \cap Jobs = {} /\ Idx(j) \subseteq Nat /\ Conns \subseteq Feeders
  BY SMTT(30), SchedulerConstantsOK, ConstantsOK DEF Idx, Feeders
<1>3. feeder \in [Feeders -> SUBSET Nat] /\ cancelled' = cancelled
      /\ feeder' = [feeder EXCEPT ![c] = IF jobs' # jobs THEN Idx(j) ELSE {}]
  BY Zenon DEF SInv, Feeding, Handle
<1>4. FeedsJob(c) = j /\ \A f \in Feeders : FeedsJob(f)' = FeedsJob(f)
  BY Zenon, <1>1, <1>2 DEF FeedsJob
<1>5. feeder' \in [Feeders -> SUBSET Nat]
  BY Zenon, <1>2, <1>3
<1>6. \A f \in Feeders : \A i \in feeder'[f] : <<FeedsJob(f)', i>> \in issued'
  BY Zenon, <1>1, <1>2, <1>3, <1>4 DEF SInv, Feeding
<1>7. \A d \in Conns : handler'[d] # "exited" => feeder'[d] = {} /\ d \notin cancelled'
  BY Zenon, <1>1, <1>2, <1>3 DEF SInv, Feeding
<1>8. Feeding'
  BY Zenon, <1>1, <1>5, <1>6, <1>7 DEF Feeding
<1>9. UNCHANGED <<nq, pq, disp, inflight, out, resultCh, holding, loop>>
  BY Zenon DEF Handle, loopVars
<1>10. Stock(issued)'
  BY Zenon, <1>1, <1>9, StockGrows DEF SInv
<1>. QED  BY Zenon, <1>8, <1>9, <1>10 DEF SInv, Loops

\* A crash, the replay, and the start of the goroutines.
LEMMA SInvRestart ==
  ASSUME TypeOK, NewIsIdle, SInv, ServerCrash \/ Replay \/ Start
  PROVE  SInv'
<1>1. CASE ServerCrash
  <2>1. PICK l : Restart(l)
    BY Zenon, <1>1 DEF ServerCrash, Crash, CrashInEmpty, CrashInFinish
  <2>2. issued' = {} /\ phase' = "replay"
    BY Zenon, <2>1 DEF Restart
  <2>3. Fresh /\ feeder' = [f \in Feeders |-> {}]
    BY Zenon, <1>1 DEF ServerCrash
  <2>4. Feeding'
    BY Zenon, <2>2, <2>3 DEF Feeding, Fresh, Feeders
  <2>5. Stock(issued)'
    <3>1. /\ nq' = <<>> /\ pq' = <<>> /\ disp' = Nil
          /\ inflight' = [w \in Workers |-> {}] /\ out' = [w \in Workers |-> {}]
          /\ resultCh' = [w \in Workers |-> <<>>] /\ holding' = [w \in Workers |-> Nil]
      BY Zenon, <2>3 DEF Fresh
    <3>2. <<>> \in Seq({})
      BY SMTT(30)
    <3>3. resultCh' \in [Workers -> Seq({})] /\ holding' \in [Workers -> {} \cup {Nil}]
      BY Zenon, <3>1, <3>2
    <3>4. inflight' \in [Workers -> SUBSET {}] /\ out' \in [Workers -> SUBSET {}]
      BY Zenon, <3>1
    <3>. QED  BY Zenon, <2>2, <3>1, <3>2, <3>3, <3>4 DEF Stock
  <2>6. IsFiniteSet({}) /\ Cardinality({}) = 0 /\ Window \in Nat
    BY Zenon, FS_EmptySet, SchedulerConstantsOK
  <2>7. Loops'
    BY SMTT(30), <2>3, <2>6 DEF Loops, LoopStates, Fresh
  <2>. QED  BY Zenon, <2>4, <2>5, <2>7 DEF SInv
<1>2. CASE Replay
  <2>1. UNCHANGED <<phase, issued, asked, handler>> /\ UNCHANGED schedVars
    BY Zenon, <1>2 DEF Replay, ReplayRecord, connVars
  <2>2. Feeding'
    BY Zenon, <2>1, FeedingStays DEF SInv, schedVars, queueVars
  <2>3. Stock(issued)' /\ Loops'
    BY Zenon, <2>1 DEF SInv, Stock, Loops, schedVars, queueVars, loopVars
  <2>. QED  BY Zenon, <2>2, <2>3 DEF SInv
<1>3. CASE Start
  <2>1. /\ phase = "replay" /\ phase' = "run" /\ UNCHANGED <<asked, handler>>
        /\ feeder' = [f \in Feeders |-> {t[2] : t \in {u \in issued' : u[1] = f}}]
        /\ UNCHANGED <<cancelled, nq, pq, disp, inflight, out, resultCh, holding, loop>>
    BY Zenon, <1>3 DEF Start, RecoverDone, connVars, loopVars
  <2>2. issued = {} /\ cancelled = {}
    BY Zenon, <2>1 DEF SInv, Feeding
  <2>3. issued' \subseteq Tasks
    <3>1. issued' = Feed(jobs \ {j \in jobs : job[j].remaining = 0})
      BY Zenon, <1>3 DEF Start, RecoverDone
    <3>2. jobs \subseteq Jobs /\ \A j \in Jobs : Idx(j) \subseteq AllIdx
      BY Zenon, ConstantsOK DEF TypeOK, AllIdx
    <3>. QED  BY SMTT(30), <3>1, <3>2 DEF Feed, Tasks
  <2>4. AllIdx \subseteq Nat /\ Conns \cap Jobs = {}
    BY SMTT(30), ConstantsOK, SchedulerConstantsOK DEF AllIdx, Idx
  <2>5. ASSUME NEW u \in issued'  PROVE u = <<u[1], u[2]>> /\ u[1] \in Jobs /\ u[2] \in Nat
    BY Zenon, <2>3, <2>4, TaskParts
  <2>6. \A f \in Feeders : feeder'[f] \subseteq Nat /\ (f \in Conns => feeder'[f] = {})
    BY Zenon, <2>1, <2>4, <2>5
  <2>7. feeder' \in [Feeders -> SUBSET Nat]
    BY Zenon, <2>1, <2>6
  <2>8. ASSUME NEW f \in Feeders, NEW i \in feeder'[f]  PROVE <<FeedsJob(f)', i>> \in issued'
    <3>1. PICK u \in issued' : u[1] = f /\ u[2] = i
      BY Zenon, <2>1
    <3>2. f \in Jobs /\ FeedsJob(f)' = f
      BY Zenon, <2>5, <3>1 DEF FeedsJob
    <3>. QED  BY Zenon, <2>5, <3>1, <3>2
  <2>9. Feeding'
    <3>1. \A c \in Conns : feeder'[c] = {} /\ c \notin cancelled'
      BY Zenon, <2>1, <2>2, <2>6 DEF Feeders
    <3>. QED  BY Zenon, <2>1, <2>7, <2>8, <3>1 DEF Feeding
  <2>10. Stock(issued)'
    BY Zenon, <2>1, <2>2, StockGrows DEF SInv
  <2>. QED  BY Zenon, <2>1, <2>9, <2>10 DEF SInv, Loops
<1>. QED  BY Zenon, <1>1, <1>2, <1>3

\* The feeders, the dispatcher and the shutdown.
LEMMA SInvOthers ==
  ASSUME TypeOK, NewIsIdle, SInv,
         \/ \E f \in Feeders : FeedPush(f) \/ FeedStop(f)
         \/ \E c \in Conns : \/ HandlerStops(c) \/ DispatchClientGone(c)
                             \/ ConnDies(c) /\ UNCHANGED schedVars
                             \/ \E j \in Jobs : DispatchRequest(c, j)
         \/ \E w \in Workers : \/ DispatchJoin(w) \/ DispatchWorkerLost(w)
                               \/ \E t \in out[w] : DispatchResult(w, t)
         \/ DispatchUnblocked \/ AggregatorStops \/ ServerClosed \/ UNCHANGED svars
  PROVE  SInv'
<1>0. /\ nq \in Seq(issued) /\ pq \in Seq(issued) /\ resultCh \in [Workers -> Seq(issued)]
      /\ disp \in (Workers \X issued) \cup {Nil} /\ out \in [Workers -> SUBSET issued]
      /\ loop \in [Workers -> LoopStates] /\ feeder \in [Feeders -> SUBSET Nat]
      /\ issued \subseteq Tasks /\ Nil \notin issued /\ Nil \notin Workers \X Tasks
      /\ handler \in [Conns -> {"idle", "submitting", "exited"}] /\ Conns \subseteq Feeders
      /\ asked \in [Conns -> Jobs \cup {Nil}] /\ Conns \cap Jobs = {}
  BY Zenon, SchedulerConstantsOK DEF TypeOK, SInv, Stock, Loops, Feeding, Feeders
<1>1. ASSUME UNCHANGED <<issued, nq, pq, disp, inflight, out, resultCh, holding, loop>>
      PROVE  Stock(issued)' /\ Loops'
  BY Zenon, <1>1 DEF SInv, Stock, Loops
<1>2. ASSUME NEW f \in Feeders, FeedPush(f)  PROVE SInv'
  <2>1. PICK i \in feeder[f] : /\ nq' = Append(nq, <<FeedsJob(f), i>>)
                               /\ feeder' = [feeder EXCEPT ![f] = @ \ {i}]
    BY Zenon, <1>2 DEF FeedPush
  <2>2. UNCHANGED <<vars, cancelled, pq, disp, loopVars, resultCh>>
    BY Zenon, <1>2 DEF FeedPush
  <2>3. <<FeedsJob(f), i>> \in issued
    BY Zenon DEF SInv, Feeding
  <2>4. nq' \in Seq(issued)
    BY Zenon, <1>0, <2>1, <2>3, InAppend
  <2>5. UNCHANGED <<issued, phase, handler, asked>> /\ \A g \in Feeders : FeedsJob(g)' = FeedsJob(g)
    BY Zenon, <2>2 DEF vars, memVars, connVars, FeedsJob
  <2>6. feeder' \in [Feeders -> SUBSET Nat] /\ \A g \in Feeders : feeder'[g] \subseteq feeder[g]
    BY Zenon, <1>0, <2>1
  <2>7. Feeding'
    BY Zenon, <1>0, <2>2, <2>5, <2>6 DEF SInv, Feeding
  <2>8. Stock(issued)' /\ Loops'
    BY Zenon, <2>2, <2>4, <2>5 DEF SInv, Stock, Loops, loopVars
  <2>. QED  BY Zenon, <2>7, <2>8 DEF SInv
<1>3. ASSUME NEW f \in Feeders, FeedStop(f)  PROVE SInv'
  <2>1. feeder' = [feeder EXCEPT ![f] = {}] /\ UNCHANGED <<vars, cancelled, nq, pq, disp, loopVars, resultCh>>
    BY Zenon, <1>3 DEF FeedStop
  <2>2. UNCHANGED <<issued, phase, handler, asked>> /\ \A g \in Feeders : FeedsJob(g)' = FeedsJob(g)
    BY Zenon, <2>1 DEF vars, memVars, connVars, FeedsJob
  <2>3. feeder' \in [Feeders -> SUBSET Nat] /\ \A g \in Feeders : feeder'[g] \subseteq feeder[g]
    BY Zenon, <1>0, <2>1
  <2>4. Feeding'
    BY Zenon, <1>0, <2>1, <2>2, <2>3 DEF SInv, Feeding
  <2>. QED  BY Zenon, <1>1, <2>1, <2>2, <2>4 DEF SInv, loopVars
<1>4. ASSUME NEW c \in Conns, HandlerStops(c)  PROVE SInv'
  <2>1. /\ UNCHANGED <<phase, issued, asked, schedVars>> /\ handler' = [handler EXCEPT ![c] = "exited"]
    BY Zenon, <1>4 DEF HandlerStops, memVars
  <2>2. Feeding'
    BY Zenon, <1>0, <2>1 DEF SInv, Feeding, FeedsJob, schedVars, queueVars
  <2>. QED  BY Zenon, <1>1, <2>1, <2>2 DEF SInv, schedVars, queueVars, loopVars
<1>5. ASSUME NEW c \in Conns, NEW j \in Jobs, DispatchRequest(c, j)  PROVE SInv'
  <2>1. /\ UNCHANGED <<phase, issued, schedVars>> /\ phase = "run" /\ conn[c] = "new"
        /\ asked' = [asked EXCEPT ![c] = j] /\ handler' = [handler EXCEPT ![c] = "submitting"]
    BY Zenon, <1>5 DEF DispatchRequest, Request, memVars
  <2>2. UNCHANGED <<feeder, cancelled>>
    BY Zenon, <2>1 DEF schedVars, queueVars
  <2>3. feeder[c] = {} /\ c \notin cancelled
    BY Zenon, <2>1 DEF SInv, Feeding, NewIsIdle
  <2>4. \A g \in Feeders : g # c => FeedsJob(g)' = FeedsJob(g)
    BY Zenon, <1>0, <2>1 DEF FeedsJob, Feeders
  <2>5. Feeding'
    BY Zenon, <1>0, <2>1, <2>2, <2>3, <2>4 DEF SInv, Feeding
  <2>. QED  BY Zenon, <1>1, <2>1, <2>5 DEF SInv, schedVars, queueVars, loopVars
<1>6. ASSUME UNCHANGED <<issued, phase, handler, asked, feeder, cancelled>>  PROVE Feeding'
  BY Zenon, <1>6, FeedingStays DEF SInv
<1>7. ASSUME NEW c \in Conns, DispatchClientGone(c) \/ (ConnDies(c) /\ UNCHANGED schedVars)
      PROVE  SInv'
  <2>1. UNCHANGED <<issued, phase, handler, asked, schedVars>>
    BY Zenon, <1>7 DEF DispatchClientGone, ClientGone, ConnDies, memVars
  <2>. QED  BY Zenon, <1>1, <1>6, <2>1 DEF SInv, schedVars, queueVars, loopVars
<1>8. CASE AggregatorStops \/ ServerClosed \/ UNCHANGED svars \/ \E w \in Workers : DispatchWorkerLost(w)
  <2>1. UNCHANGED <<issued, phase, handler, asked, queueVars, disp, loopVars, resultCh>>
    BY Zenon, <1>8 DEF AggregatorStops, ServerClosed, DispatchWorkerLost, vars, memVars, connVars, svars, schedVars
  <2>. QED  BY Zenon, <1>1, <1>6, <2>1 DEF SInv, queueVars, loopVars
<1>9. ASSUME NEW w \in Workers, DispatchJoin(w)  PROVE SInv'
  <2>1. /\ UNCHANGED <<vars, queueVars, disp, inflight, holding, out, resultCh>>
        /\ loop' = [loop EXCEPT ![w] = "top"]
    BY Zenon, <1>9 DEF DispatchJoin
  <2>2. UNCHANGED <<issued, phase, handler, asked, feeder, cancelled, nq, pq>>
    BY Zenon, <2>1 DEF vars, memVars, connVars, queueVars
  <2>3. Stock(issued)'
    BY Zenon, <2>1, <2>2 DEF SInv, Stock
  <2>4. Loops'
    BY Zenon, <1>0, <2>1 DEF SInv, Loops, LoopStates
  <2>. QED  BY Zenon, <1>6, <2>2, <2>3, <2>4 DEF SInv
<1>10. ASSUME NEW w \in Workers, NEW t \in issued,
              \/ disp' = <<w, t>> /\ UNCHANGED resultCh
              \/ disp' \in {disp, Nil} /\ resultCh' = [resultCh EXCEPT ![w] = Append(@, t)],
              UNCHANGED <<vars, queueVars, loopVars>>
       PROVE  SInv'
  <2>1. UNCHANGED <<issued, phase, handler, asked, feeder, cancelled, nq, pq, inflight, out, holding, loop>>
    BY Zenon, <1>10 DEF vars, memVars, connVars, queueVars, loopVars
  <2>2. Append(resultCh[w], t) \in Seq(issued)
    BY Zenon, <1>0, InAppend
  <2>3. disp' \in (Workers \X issued) \cup {Nil}
    <3>1. <<w, t>> \in Workers \X issued
      BY Zenon
    <3>2. disp' \in {<<w, t>>, disp, Nil}
      BY Zenon, <1>10
    <3>. QED  BY Zenon, <1>0, <3>1, <3>2
  <2>4. resultCh' \in [Workers -> Seq(issued)]
    BY Zenon, <1>0, <1>10, <2>2
  <2>6. Stock(issued)'
    BY Zenon, <2>1, <2>3, <2>4 DEF SInv, Stock
  <2>5. Loops'
    BY Zenon, <2>1 DEF SInv, Loops
  <2>. QED  BY Zenon, <1>6, <2>1, <2>5, <2>6 DEF SInv
<1>11. ASSUME NEW w \in Workers, NEW t \in out[w], DispatchResult(w, t)  PROVE SInv'
  <2>1. t \in issued
    BY Zenon, <1>0
  <2>. QED  BY Zenon, <1>10, <1>11, <2>1 DEF DispatchResult
<1>12. CASE DispatchUnblocked
  <2>1. disp \in Workers \X issued
    BY Zenon, <1>0, <1>12 DEF DispatchUnblocked
  <2>2. PICK w \in Workers, t \in issued : w = disp[1] /\ t = disp[2]
    BY Zenon, <2>1
  <2>3. /\ disp' = Nil /\ resultCh' = [resultCh EXCEPT ![w] = Append(@, t)]
        /\ UNCHANGED <<vars, queueVars, loopVars>>
    BY Zenon, <1>12, <2>2 DEF DispatchUnblocked
  <2>. QED  BY Zenon, <1>10, <2>3
<1>. QED  BY Zenon, <1>2, <1>3, <1>4, <1>5, <1>7, <1>8, <1>9, <1>11, <1>12

\* Every step preserves the invariant.
LEMMA SInvNext ==
  ASSUME TypeOK, NewIsIdle, SInv, [SNext]_svars
  PROVE  SInv'
BY Zenon, SInvWorker, SInvAggregator, SInvHandle, SInvRestart, SInvOthers DEF SNext, Goroutines, WorkerStep

-----------------------------------------------------------------------------
(* No task is lost between feeders, queues and workers. *)

Somewhere(t) == ToBeFed(t) \/ In(t, nq) \/ In(t, pq) \/ AtWorker(t)

\* TaskConserved in terms of Somewhere.
LEMMA ConservedMeans ==
  TaskConserved <=>
    (phase = "run" /\ ~stop => \A j \in jobs : \A i \in Idx(j) \ done[j] : Somewhere(<<j, i>>))
BY Zenon DEF TaskConserved, Somewhere, In, Queued, Urgent

\* It is enough that a step leaves every task that is still owed somewhere.
LEMMA ConservedStep ==
  ASSUME TaskConserved, phase' = "run" /\ ~stop' => phase = "run" /\ ~stop,
         ASSUME NEW j \in jobs', NEW i \in Idx(j) \ done'[j], phase' = "run", ~stop'
         PROVE  \/ Somewhere(<<j, i>>)'
                \/ j \in jobs /\ i \notin done[j] /\ (Somewhere(<<j, i>>) => Somewhere(<<j, i>>)')
  PROVE  TaskConserved'
<1>1. phase = "run" /\ ~stop => \A j \in jobs : \A i \in Idx(j) \ done[j] : Somewhere(<<j, i>>)
  BY Zenon, ConservedMeans
<1>2. phase' = "run" /\ ~stop' => \A j \in jobs' : \A i \in Idx(j) \ done'[j] : Somewhere(<<j, i>>)'
  BY Zenon, <1>1
<1>. QED  BY Zenon, <1>2 DEF TaskConserved, Somewhere, In, Queued, Urgent

\* What a pull takes from a queue is in flight afterwards.
LEMMA SendKeeps ==
  ASSUME SInv, NEW w \in Workers, NEW t \in issued, loop[w] \in {"top", "wait"}, Send(w, t)
  PROVE  AtWorker(t)' /\ \A u : AtWorker(u) => AtWorker(u)'
<1>0. inflight \in [Workers -> SUBSET issued] /\ loop \in [Workers -> LoopStates]
  BY Zenon DEF SInv, Stock, Loops
<1>1. /\ t \in inflight'[w] /\ loop'[w] \in {"top", "putback"}
      /\ inflight[w] \subseteq inflight'[w]
      /\ \A v \in Workers \ {w} : inflight'[v] = inflight[v] /\ loop'[v] = loop[v] /\ holding'[v] = holding[v]
  BY SMTT(30), <1>0 DEF Send, GoTo, SInv, Stock
<1>. QED  BY Zenon, <1>1 DEF AtWorker

\* A worker loop's step loses no task.
LEMMA ConservedWorker ==
  ASSUME TypeOK, SInv, TaskConserved, NEW w \in Workers,
         \/ PullPQ(w) \/ Select(w) \/ PullNQ(w) \/ PutBack(w) \/ TakeResult(w) \/ WorkerTick(w)
         \/ WorkerDead(w) \/ WorkerExit(w) \/ WorkerStops(w) \/ \E t \in inflight[w] : Requeue(w, t)
  PROVE  TaskConserved'
<1>0. /\ inflight \in [Workers -> SUBSET issued] /\ holding \in [Workers -> issued \cup {Nil}]
      /\ loop \in [Workers -> LoopStates]
      /\ nq \in Seq(issued) /\ pq \in Seq(issued) /\ resultCh \in [Workers -> Seq(issued)]
      /\ \A v \in Workers : IsFiniteSet(inflight[v])
  BY Zenon DEF SInv, Stock, Loops
<1>1. UNCHANGED <<vars, feeder, cancelled, stop>>
  BY Zenon DEF PullPQ, Select, PullNQ, PutBack, TakeResult, WorkerTick, WorkerDead, WorkerExit,
         WorkerStops, Requeue, queueVars, stopVars
<1>2. UNCHANGED <<phase, jobs, done, issued, asked>>
  BY Zenon, <1>1 DEF vars, memVars, connVars
<1>3. \A u : ToBeFed(u) => ToBeFed(u)'
  BY Zenon, <1>1, <1>2 DEF ToBeFed, FeedsJob
<1>4. ASSUME ~stop => \A u : In(u, nq) \/ In(u, pq) \/ AtWorker(u) =>
                               In(u, nq') \/ In(u, pq') \/ AtWorker(u)'
      PROVE  TaskConserved'
  <2>1. ~stop => \A u : Somewhere(u) => Somewhere(u)'
    BY Zenon, <1>3, <1>4 DEF Somewhere, In
  <2>. QED  BY Zenon, <1>1, <1>2, <2>1, ConservedStep
<1>5. CASE PullPQ(w)
  <2>1. PICK t \in issued : t = Head(pq) /\ \A u : In(u, pq) => u = t \/ In(u, Tail(pq))
    BY Zenon, <1>0, <1>5, InTail DEF PullPQ
  <2>2. AtWorker(t)' /\ \A u : AtWorker(u) => AtWorker(u)'
    BY Zenon, <1>5, <2>1, SendKeeps DEF PullPQ
  <2>3. pq' = Tail(pq) /\ nq' = nq
    BY Zenon, <1>5 DEF PullPQ
  <2>. QED  BY Zenon, <1>4, <2>1, <2>2, <2>3
<1>6. CASE PullNQ(w)
  <2>1. PICK t \in issued : t = Head(nq) /\ \A u : In(u, nq) => u = t \/ In(u, Tail(nq))
    BY Zenon, <1>0, <1>6, InTail DEF PullNQ
  <2>2. AtWorker(t)' /\ \A u : AtWorker(u) => AtWorker(u)'
    BY Zenon, <1>6, <2>1, SendKeeps DEF PullNQ
  <2>3. nq' = Tail(nq) /\ pq' = pq
    BY Zenon, <1>6 DEF PullNQ
  <2>. QED  BY Zenon, <1>4, <2>1, <2>2, <2>3
<1>7. CASE Select(w) \/ WorkerDead(w) \/ WorkerExit(w)
  <2>1. /\ UNCHANGED <<nq, pq, inflight, holding>> /\ loop[w] # "hand"
        /\ \E s \in {"wait", "requeue", "exit"} :
             loop' = [loop EXCEPT ![w] = s] /\ (s = "exit" => inflight[w] = {})
    BY Zenon, <1>7 DEF Select, WorkerDead, WorkerExit, GoTo, queueVars
  <2>2. \A u : AtWorker(u) => AtWorker(u)'
    BY Zenon, <1>0, <2>1 DEF AtWorker
  <2>. QED  BY Zenon, <1>4, <2>1, <2>2
<1>8. CASE WorkerStops(w)
  BY Zenon, <1>4, <1>8 DEF WorkerStops
<1>9. CASE PutBack(w)
  <2>1. holding[w] \in issued
    BY Zenon, <1>0, <1>9 DEF SInv, Loops, PutBack
  <2>2. \A u : In(u, pq) => In(u, pq')
    BY Zenon, <1>0, <1>9, <2>1, InAppend DEF PutBack
  <2>3. UNCHANGED <<nq, inflight>> /\ holding' = [holding EXCEPT ![w] = Nil]
        /\ loop' = [loop EXCEPT ![w] = "top"] /\ loop[w] = "putback"
    BY Zenon, <1>9 DEF PutBack, GoTo
  <2>4. \A u : AtWorker(u) => AtWorker(u)'
    BY Zenon, <1>0, <2>3 DEF AtWorker
  <2>. QED  BY Zenon, <1>4, <2>2, <2>3, <2>4
<1>10. CASE TakeResult(w)
  <2>. DEFINE t == Head(resultCh[w])
  <2>1. UNCHANGED <<nq, pq>> /\ loop[w] = "wait"
    BY Zenon, <1>10 DEF TakeResult, queueVars
  <2>2. CASE t \notin inflight[w]
    <3>1. UNCHANGED <<inflight, holding>> /\ loop' = [loop EXCEPT ![w] = "top"]
      BY Zenon, <1>10, <2>2 DEF TakeResult, GoTo
    <3>2. \A u : AtWorker(u) => AtWorker(u)'
      BY Zenon, <1>0, <2>1, <3>1 DEF AtWorker
    <3>. QED  BY Zenon, <1>4, <2>1, <3>2
  <2>3. CASE t \in inflight[w]
    <3>1. /\ inflight' = [inflight EXCEPT ![w] = @ \ {t}] /\ holding' = [holding EXCEPT ![w] = t]
          /\ loop' = [loop EXCEPT ![w] = "hand"]
      BY Zenon, <1>10, <2>3 DEF TakeResult, GoTo
    <3>. HIDE DEF t
    <3>2. \A u : AtWorker(u) => AtWorker(u)'
      BY Zenon, <1>0, <2>1, <3>1 DEF AtWorker
    <3>. QED  BY Zenon, <1>4, <2>1, <3>2
  <2>. QED  BY Zenon, <2>2, <2>3
<1>11. CASE WorkerTick(w)
  <2>1. PICK S \in SUBSET (inflight[w] \ speculated[w]) : \E order \in Listings(S) : pq' = pq \o order
    BY Zenon, <1>11 DEF WorkerTick
  <2>2. PICK order \in Listings(S) : pq' = pq \o order
    BY Zenon, <2>1
  <2>3. order \in Seq(issued)
    <3>1. S \subseteq issued /\ Cardinality(S) \in Nat
      BY Zenon, <1>0, FS_Subset, FS_CardinalityType
    <3>. QED  BY Zenon, <3>1, OrderType
  <2>4. \A u : In(u, pq) => In(u, pq')
    BY Zenon, <1>0, <2>2, <2>3, InConcat
  <2>5. UNCHANGED <<nq, inflight, holding>> /\ loop' = [loop EXCEPT ![w] = "top"] /\ loop[w] = "wait"
    BY Zenon, <1>11 DEF WorkerTick, GoTo
  <2>6. \A u : AtWorker(u) => AtWorker(u)'
    BY Zenon, <1>0, <2>5 DEF AtWorker
  <2>. QED  BY Zenon, <1>4, <2>4, <2>5, <2>6
<1>12. ASSUME NEW t \in inflight[w], Requeue(w, t)  PROVE TaskConserved'
  <2>1. /\ pq' = Append(pq, t) /\ inflight' = [inflight EXCEPT ![w] = @ \ {t}]
        /\ UNCHANGED <<nq, holding, loop>>
    BY Zenon, <1>12 DEF Requeue
  <2>2. In(t, pq') /\ \A u : In(u, pq) => In(u, pq')
    BY Zenon, <1>0, <2>1, InAppend
  <2>3. \A u : AtWorker(u) => u = t \/ AtWorker(u)'
    BY Zenon, <1>0, <2>1 DEF AtWorker
  <2>. QED  BY Zenon, <1>4, <2>1, <2>2, <2>3
<1>. QED  BY Zenon, <1>5, <1>6, <1>7, <1>8, <1>9, <1>10, <1>11, <1>12

\* The aggregator takes a result or keeps house: what it does not count stays where it
\* is, and only feeders of jobs that have ended are cancelled.
LEMMA ConservedAggregator ==
  ASSUME TypeOK, SInv, TaskConserved, Housekeeping \/ \E w \in Workers : HandOver(w)
  PROVE  TaskConserved'
<1>0. /\ loop \in [Workers -> LoopStates] /\ holding \in [Workers -> issued \cup {Nil}]
      /\ \A w \in Workers : loop[w] = "hand" => holding[w] \in issued
      /\ issued \subseteq Tasks /\ jobs \subseteq Jobs /\ done \in [Jobs -> SUBSET AllIdx]
  BY Zenon DEF TypeOK, SInv, Loops, Stock
<1>1. /\ Cancel /\ UNCHANGED <<feeder, nq, pq, inflight, stop>> /\ UNCHANGED <<phase, asked>>
      /\ jobs' \subseteq jobs /\ \A j \in jobs' : done[j] \subseteq done'[j]
  <2>1. CASE Housekeeping
    BY Zenon, <2>1, AggregatorFacts DEF Housekeeping, loopVars, stopVars
  <2>2. ASSUME NEW w \in Workers, HandOver(w)
        PROVE  /\ Cancel /\ UNCHANGED <<feeder, nq, pq, inflight, stop>> /\ UNCHANGED <<phase, asked>>
               /\ jobs' \subseteq jobs /\ \A j \in jobs' : done[j] \subseteq done'[j]
    BY Zenon, <1>0, <2>2, AggregatorFacts DEF HandOver, stopVars
  <2>. QED  BY Zenon, <2>1, <2>2
<1>2. ASSUME NEW j \in jobs', NEW i  PROVE ToBeFed(<<j, i>>) => ToBeFed(<<j, i>>)'
  BY Zenon, <1>1 DEF ToBeFed, Cancel, FeedsJob
<1>3. ASSUME NEW j \in jobs', NEW i \in Idx(j) \ done'[j], AtWorker(<<j, i>>)
      PROVE  AtWorker(<<j, i>>)'
  <2>1. CASE Housekeeping
    BY Zenon, <1>1, <1>3, <2>1 DEF Housekeeping, loopVars, AtWorker
  <2>2. ASSUME NEW w \in Workers, HandOver(w)  PROVE AtWorker(<<j, i>>)'
    <3>1. holding' = [holding EXCEPT ![w] = Nil] /\ loop' = [loop EXCEPT ![w] = "top"]
      BY Zenon, <2>2 DEF HandOver, GoTo
    <3>2. holding[w] # <<j, i>>
      <4>. SUFFICES ASSUME holding[w] = <<j, i>>  PROVE FALSE
        BY Zenon
      <4>1. Result(<<j, i>>)
        BY Zenon, <2>2 DEF HandOver
      <4>2. j \in jobs /\ j \in Jobs /\ i < NTasks[j] /\ i \notin done[j]
        <5>1. j \in jobs /\ j \in Jobs /\ i \notin done[j]
          BY Zenon, <1>0, <1>1
        <5>2. NTasks[j] \in Nat /\ i \in 0 .. NTasks[j] - 1
          BY Zenon, <5>1, ConstantsOK DEF Idx
        <5>. QED  BY SMTT(30), <5>1, <5>2
      <4>3. CASE ResultDropped(<<j, i>>)
        BY Zenon, <4>2, <4>3 DEF ResultDropped, Counts
      <4>4. CASE ResultCounted(<<j, i>>)
        <5>1. done' = [done EXCEPT ![j] = @ \cup {i}]
          BY Zenon, <4>4 DEF ResultCounted
        <5>. QED  BY Zenon, <1>0, <4>2, <5>1
      <4>5. CASE ResultLast(<<j, i>>)
        <5>1. jobs' = jobs \ {j}
          BY Zenon, <4>5 DEF ResultLast, Finish
        <5>. QED  BY Zenon, <5>1
      <4>. QED  BY Zenon, <4>1, <4>3, <4>4, <4>5 DEF Result
    <3>. QED  BY Zenon, <1>0, <1>1, <1>3, <3>1, <3>2 DEF AtWorker
  <2>. QED  BY Zenon, <2>1, <2>2
<1>4. ASSUME NEW j \in jobs', NEW i \in Idx(j) \ done'[j]
      PROVE  j \in jobs /\ i \notin done[j] /\ (Somewhere(<<j, i>>) => Somewhere(<<j, i>>)')
  BY Zenon, <1>1, <1>2, <1>3 DEF Somewhere, In
<1>. QED  BY Zenon, <1>1, <1>4, ConservedStep

\* The tasks of a new job are to be fed by the handler that submitted it.
LEMMA ConservedHandle ==
  ASSUME TypeOK, SInv, TaskConserved, NEW c \in Conns, NEW j \in Jobs, Handle(c, j)
  PROVE  TaskConserved'
<1>0. /\ feeder \in [Feeders -> SUBSET Nat] /\ c \in Feeders /\ c \notin Jobs
      /\ handler[c] = "submitting" => feeder[c] = {} /\ c \notin cancelled
  BY Zenon, SchedulerConstantsOK DEF SInv, Feeding, Feeders
<1>1. /\ phase = "run" /\ UNCHANGED <<asked, done>> /\ asked[c] = j /\ handler[c] = "submitting"
      /\ jobs' = jobs \/ (jobs' = jobs \cup {j} /\ jobs' # jobs)
  BY Zenon, SubmitFacts DEF Handle
<1>2. /\ UNCHANGED <<cancelled, nq, pq, loop, inflight, holding, stop>>
      /\ feeder' = [feeder EXCEPT ![c] = IF jobs' # jobs THEN Idx(j) ELSE {}]
  BY Zenon DEF Handle, loopVars, stopVars
<1>3. \A u : Somewhere(u) => Somewhere(u)'
  <2>1. \A u : ToBeFed(u) => ToBeFed(u)'
    BY Zenon, <1>0, <1>1, <1>2 DEF ToBeFed, FeedsJob
  <2>2. \A u : AtWorker(u) => AtWorker(u)'
    BY Zenon, <1>2 DEF AtWorker
  <2>. QED  BY Zenon, <1>2, <2>1, <2>2 DEF Somewhere, In
<1>4. ASSUME jobs' # jobs, NEW i \in Idx(j)  PROVE Somewhere(<<j, i>>)'
  <2>1. i \in feeder'[c] /\ c \notin cancelled' /\ FeedsJob(c)' = j
    BY Zenon, <1>0, <1>1, <1>2, <1>4 DEF FeedsJob
  <2>2. ToBeFed(<<j, i>>)'
    BY Zenon, <1>0, <2>1 DEF ToBeFed
  <2>. QED  BY Zenon, <2>2 DEF Somewhere
<1>. QED  BY Zenon, <1>1, <1>2, <1>3, <1>4, ConservedStep

\* After a restart every unfinished job has a feeder with the chunks it waits for.
LEMMA ConservedRestart ==
  ASSUME TypeOK, SInv, TaskConserved, NoTaskLost', TypeOK', ServerCrash \/ Replay \/ Start
  PROVE  TaskConserved'
<1>1. CASE ServerCrash \/ Replay
  <2>1. phase' = "replay"
    BY Zenon, <1>1 DEF ServerCrash, Crash, CrashInEmpty, CrashInFinish, Restart, Replay, ReplayRecord
  <2>. QED  BY Zenon, <2>1 DEF TaskConserved
<1>2. CASE Start
  <2>1. /\ cancelled = {} /\ cancelled' = {} /\ jobs' \subseteq Jobs /\ phase' = "run"
        /\ feeder' = [f \in Feeders |-> {t[2] : t \in {u \in issued' : u[1] = f}}]
    BY Zenon, <1>2 DEF Start, RecoverDone, SInv, Feeding, TypeOK
  <2>2. ASSUME NEW j \in jobs', NEW i \in Idx(j) \ done'[j]  PROVE ToBeFed(<<j, i>>)'
    <3>1. <<j, i>> \in issued'
      BY Zenon, <2>1 DEF NoTaskLost
    <3>2. j \in Feeders /\ FeedsJob(j)' = j
      BY Zenon, <2>1 DEF Feeders, FeedsJob
    <3>3. i \in feeder'[j]
      <4>1. feeder'[j] = {t[2] : t \in {u \in issued' : u[1] = j}}
        BY Zenon, <2>1, <3>2
      <4>2. <<j, i>>[1] = j /\ <<j, i>>[2] = i
        BY Zenon
      <4>. QED  BY Zenon, <3>1, <4>1, <4>2
    <3>. QED  BY Zenon, <2>1, <3>2, <3>3 DEF ToBeFed
  <2>. QED  BY Zenon, <2>2 DEF TaskConserved
<1>. QED  BY Zenon, <1>1, <1>2

\* A worker that has not joined has no loop.
NotJoined ==
  /\ wconn \in [Workers -> {"new", "up", "gone"}]
  /\ \A w \in Workers : wconn[w] = "new" => loop[w] = "none"

\* Every step keeps NotJoined.
LEMMA NotJoinedNext ==
  ASSUME SInv, NotJoined, [SNext]_svars
  PROVE  NotJoined'
<1>0. loop \in [Workers -> LoopStates]
  BY Zenon DEF SInv, Loops
<1>1. ASSUME UNCHANGED <<wconn, loop>>  PROVE NotJoined'
  BY Zenon, <1>1 DEF NotJoined
<1>2. ASSUME NEW w \in Workers, WorkerStep(w)  PROVE NotJoined'
  <2>1. wconn' = wconn /\ loop[w] # "none" /\ (loop' = loop \/ \E x : loop' = [loop EXCEPT ![w] = x])
    BY Zenon, <1>2 DEF WorkerStep, PullPQ, Select, PullNQ, PutBack, TakeResult, HandOver, WorkerTick,
       WorkerDead, WorkerExit, WorkerStops, Requeue, Send, GoTo
  <2>. QED  BY Zenon, <1>0, <2>1 DEF NotJoined
<1>3. ASSUME NEW w \in Workers, \/ DispatchJoin(w) \/ DispatchWorkerLost(w)
                                \/ \E t \in out[w] : DispatchResult(w, t)
      PROVE  NotJoined'
  BY Zenon, <1>0, <1>3 DEF DispatchJoin, DispatchWorkerLost, DispatchResult, loopVars, NotJoined
<1>4. CASE ServerCrash
  BY Zenon, <1>4 DEF ServerCrash, Fresh, NotJoined
<1>5. CASE Replay \/ Start \/ Housekeeping \/ DispatchUnblocked \/ AggregatorStops \/ ServerClosed
  BY Zenon, <1>1, <1>5 DEF Replay, Start, Housekeeping, DispatchUnblocked, AggregatorStops, ServerClosed,
     schedVars, loopVars
<1>6. ASSUME NEW c \in Conns, \/ HandlerStops(c) \/ DispatchClientGone(c)
                              \/ (ConnDies(c) /\ UNCHANGED schedVars)
                              \/ \E j \in Jobs : Handle(c, j) \/ DispatchRequest(c, j)
      PROVE  NotJoined'
  BY Zenon, <1>1, <1>6 DEF HandlerStops, DispatchClientGone, Handle, DispatchRequest, schedVars, loopVars
<1>7. ASSUME NEW f \in Feeders, FeedPush(f) \/ FeedStop(f)  PROVE NotJoined'
  BY Zenon, <1>1, <1>7 DEF FeedPush, FeedStop, loopVars
<1>8. CASE UNCHANGED svars
  BY Zenon, <1>1, <1>8 DEF svars, schedVars, loopVars
<1>9. CASE Goroutines
  BY Zenon, <1>2, <1>5, <1>6, <1>7, <1>9 DEF Goroutines
<1>10. CASE \E c \in Conns : DispatchClientGone(c) \/ \E j \in Jobs : DispatchRequest(c, j)
  BY Zenon, <1>6, <1>10
<1>11. CASE \E c \in Conns : ConnDies(c) /\ UNCHANGED schedVars
  BY Zenon, <1>6, <1>11
<1>12. CASE \E w \in Workers : \/ DispatchJoin(w) \/ DispatchWorkerLost(w)
                               \/ \E t \in out[w] : DispatchResult(w, t)
  BY Zenon, <1>3, <1>12
<1>. QED  BY Zenon, <1>4, <1>5, <1>8, <1>9, <1>10, <1>11, <1>12 DEF SNext

\* Feeders, messages and shutdown.
LEMMA ConservedOthers ==
  ASSUME TypeOK, NewIsIdle, SInv, NotJoined, TaskConserved,
         \/ \E f \in Feeders : FeedPush(f) \/ FeedStop(f)
         \/ \E c \in Conns : \/ HandlerStops(c) \/ DispatchClientGone(c)
                             \/ (ConnDies(c) /\ UNCHANGED schedVars)
                             \/ \E j \in Jobs : DispatchRequest(c, j)
         \/ \E w \in Workers : \/ DispatchJoin(w) \/ DispatchWorkerLost(w)
                               \/ \E t \in out[w] : DispatchResult(w, t)
         \/ DispatchUnblocked \/ AggregatorStops \/ ServerClosed \/ UNCHANGED svars
  PROVE  TaskConserved'
<1>0. /\ nq \in Seq(issued) /\ feeder \in [Feeders -> SUBSET Nat] /\ Conns \subseteq Feeders
      /\ loop \in [Workers -> LoopStates] /\ asked \in [Conns -> Jobs \cup {Nil}] /\ Conns \cap Jobs = {}
  BY Zenon, SchedulerConstantsOK DEF TypeOK, SInv, Stock, Loops, Feeding, Feeders
<1>1. ASSUME stop'  PROVE TaskConserved'
  BY Zenon, <1>1 DEF TaskConserved
<1>2. ASSUME UNCHANGED <<phase, jobs, done, stop>>, ~stop => \A u : Somewhere(u) => Somewhere(u)'
      PROVE  TaskConserved'
  BY Zenon, <1>2, ConservedStep
<1>3. ASSUME UNCHANGED <<phase, jobs, done, stop, asked, feeder, cancelled, nq, pq, loop, inflight, holding>>
      PROVE  TaskConserved'
  <2>1. \A u : Somewhere(u) => Somewhere(u)'
    BY Zenon, <1>3 DEF Somewhere, ToBeFed, FeedsJob, In, AtWorker
  <2>. QED  BY Zenon, <1>2, <1>3, <2>1
<1>4. ASSUME NEW f \in Feeders, FeedPush(f)  PROVE TaskConserved'
  <2>1. PICK i \in feeder[f] : /\ nq' = Append(nq, <<FeedsJob(f), i>>)
                               /\ feeder' = [feeder EXCEPT ![f] = @ \ {i}]
    BY Zenon, <1>4 DEF FeedPush
  <2>2. UNCHANGED <<phase, jobs, done, stop, asked, cancelled, pq, loop, inflight, holding>>
    BY Zenon, <1>4 DEF FeedPush, vars, memVars, connVars, loopVars, stopVars
  <2>3. PICK j : j = FeedsJob(f)
    BY Zenon
  <2>4. <<j, i>> \in issued
    BY Zenon, <2>3 DEF SInv, Feeding
  <2>5. In(<<j, i>>, nq') /\ \A u : In(u, nq) => In(u, nq')
    BY Zenon, <1>0, <2>1, <2>3, <2>4, InAppend
  <2>6. ASSUME NEW k, NEW n, ToBeFed(<<k, n>>)  PROVE In(<<k, n>>, nq') \/ ToBeFed(<<k, n>>)'
    BY Zenon, <1>0, <2>1, <2>2, <2>3, <2>5, <2>6 DEF ToBeFed, FeedsJob
  <2>7. ASSUME NEW k, NEW n, Somewhere(<<k, n>>)  PROVE Somewhere(<<k, n>>)'
    BY Zenon, <2>2, <2>5, <2>6, <2>7 DEF Somewhere, In, AtWorker
  <2>. QED  BY Zenon, <2>2, <2>7, ConservedStep
<1>5. ASSUME NEW f \in Feeders, FeedStop(f)  PROVE TaskConserved'
  <2>1. /\ UNCHANGED <<phase, jobs, done, stop, asked, cancelled, nq, pq, loop, inflight, holding>>
        /\ feeder' = [feeder EXCEPT ![f] = {}] /\ (f \in cancelled \/ stop)
    BY Zenon, <1>5 DEF FeedStop, vars, memVars, connVars, loopVars, stopVars
  <2>2. ~stop => \A u : Somewhere(u) => Somewhere(u)'
    BY Zenon, <1>0, <2>1 DEF Somewhere, ToBeFed, FeedsJob, In, AtWorker
  <2>. QED  BY Zenon, <1>2, <2>1, <2>2
<1>6. ASSUME NEW c \in Conns, NEW j \in Jobs, DispatchRequest(c, j)  PROVE TaskConserved'
  <2>1. /\ UNCHANGED <<phase, jobs, done, schedVars>> /\ conn[c] = "new"
        /\ asked' = [asked EXCEPT ![c] = j]
    BY Zenon, <1>6 DEF DispatchRequest, Request, memVars
  <2>2. UNCHANGED <<stop, feeder, cancelled, nq, pq, loop, inflight, holding>>
    BY Zenon, <2>1 DEF schedVars, queueVars, loopVars, stopVars
  <2>3. feeder[c] = {}
    BY Zenon, <2>1 DEF SInv, Feeding, NewIsIdle
  <2>4. \A g \in Feeders : g # c => FeedsJob(g)' = FeedsJob(g)
    BY Zenon, <1>0, <2>1 DEF FeedsJob, Feeders
  <2>5. \A u : ToBeFed(u) => ToBeFed(u)'
    BY Zenon, <2>2, <2>3, <2>4 DEF ToBeFed
  <2>6. \A u : Somewhere(u) => Somewhere(u)'
    BY Zenon, <2>2, <2>5 DEF Somewhere, In, AtWorker
  <2>. QED  BY Zenon, <1>2, <2>1, <2>2, <2>6
<1>7. ASSUME NEW c \in Conns, DispatchClientGone(c) \/ (ConnDies(c) /\ UNCHANGED schedVars)
      PROVE  TaskConserved'
  <2>1. UNCHANGED <<phase, jobs, done, asked, schedVars>>
    BY Zenon, <1>7 DEF DispatchClientGone, ClientGone, ConnDies, memVars
  <2>. QED  BY Zenon, <1>3, <2>1 DEF schedVars, queueVars, loopVars, stopVars
<1>8. ASSUME NEW w \in Workers, DispatchJoin(w)  PROVE TaskConserved'
  <2>1. /\ UNCHANGED <<phase, jobs, done, stop, asked, feeder, cancelled, nq, pq, inflight, holding>>
        /\ loop[w] = "none" /\ loop' = [loop EXCEPT ![w] = "top"]
    BY Zenon, <1>8 DEF DispatchJoin, NotJoined, vars, memVars, connVars, queueVars, stopVars
  <2>2. \A u : AtWorker(u) => AtWorker(u)'
    BY Zenon, <1>0, <2>1 DEF AtWorker
  <2>3. \A u : Somewhere(u) => Somewhere(u)'
    BY Zenon, <2>1, <2>2 DEF Somewhere, ToBeFed, FeedsJob, In
  <2>. QED  BY Zenon, <1>2, <2>1, <2>3
<1>9. ASSUME \/ DispatchUnblocked \/ UNCHANGED svars
             \/ \E w \in Workers : DispatchWorkerLost(w) \/ \E t \in out[w] : DispatchResult(w, t)
      PROVE  TaskConserved'
  <2>1. UNCHANGED <<vars, queueVars, loopVars, stopVars>>
    BY Zenon, <1>9 DEF DispatchUnblocked, DispatchWorkerLost, DispatchResult, svars, schedVars
  <2>. QED  BY Zenon, <1>3, <2>1 DEF vars, memVars, connVars, queueVars, loopVars, stopVars
<1>10. ASSUME AggregatorStops \/ ServerClosed \/ \E c \in Conns : HandlerStops(c)  PROVE TaskConserved'
  <2>1. CASE AggregatorStops
    BY Zenon, <1>1, <2>1 DEF AggregatorStops
  <2>2. CASE ServerClosed
    BY Zenon, <1>1, <2>2 DEF ServerClosed
  <2>3. CASE \E c \in Conns : HandlerStops(c)
    <3>1. stop /\ stop' = stop
      BY Zenon, <2>3 DEF HandlerStops, schedVars, stopVars
    <3>. QED  BY Zenon, <1>1, <3>1
  <2>. QED  BY Zenon, <1>10, <2>1, <2>2, <2>3
<1>. QED  BY Zenon, <1>4, <1>5, <1>6, <1>7, <1>8, <1>9, <1>10

\* No step loses a task.
LEMMA ConservedNext ==
  ASSUME TypeOK, NewIsIdle, SInv, NotJoined, TaskConserved, NoTaskLost', TypeOK', [SNext]_svars
  PROVE  TaskConserved'
<1>1. ASSUME NEW w \in Workers, WorkerStep(w)  PROVE TaskConserved'
  <2>1. CASE HandOver(w)
    BY Zenon, <2>1, ConservedAggregator
  <2>2. CASE ~HandOver(w)
    <3>1. \/ PullPQ(w) \/ Select(w) \/ PullNQ(w) \/ PutBack(w) \/ TakeResult(w) \/ WorkerTick(w)
          \/ WorkerDead(w) \/ WorkerExit(w) \/ WorkerStops(w) \/ \E t \in inflight[w] : Requeue(w, t)
      BY Zenon, <1>1, <2>2 DEF WorkerStep
    <3>. QED  BY Zenon, <3>1, ConservedWorker
  <2>. QED  BY Zenon, <2>1, <2>2
<1>2. CASE Goroutines
  BY Zenon, <1>1, <1>2, ConservedAggregator, ConservedHandle, ConservedRestart, ConservedOthers
     DEF Goroutines
<1>3. CASE ServerCrash
  BY Zenon, <1>3, ConservedRestart
<1>. QED  BY Zenon, <1>2, <1>3, ConservedOthers DEF SNext

-----------------------------------------------------------------------------
(* The aggregator inside the scheduler. *)

\* Until the server is closed, what the scheduler does to the aggregator is one of
\* the aggregator's own steps, or nothing.
LEMMA AggregatorStep ==
  ASSUME Inv1, SInv, [SNext]_svars
  PROVE  \/ Next \/ UNCHANGED vars
         \/ AggregatorStops \/ \E c \in Conns : HandlerStops(c)
<1>1. ASSUME NEW w \in Workers, loop[w] = "hand"  PROVE holding[w] \in issued
  BY Zenon, <1>1 DEF SInv, Stock, Loops
<1>2. ASSUME NEW w \in Workers, WorkerStep(w)  PROVE Next \/ UNCHANGED vars
  <2>1. CASE HandOver(w)
    BY Zenon, <1>1, <2>1 DEF HandOver, Next
  <2>. QED
    BY Zenon, <1>2, <2>1 DEF WorkerStep, PullPQ, Select, PullNQ, PutBack, TakeResult, WorkerTick,
       WorkerDead, WorkerExit, WorkerStops, Requeue
<1>3. CASE ServerCrash
  BY Zenon, <1>1, <1>3 DEF ServerCrash, Next
<1>4. CASE Replay \/ Start \/ Housekeeping \/ DispatchUnblocked \/ ServerClosed
  BY Zenon, <1>4 DEF Replay, Start, Housekeeping, DispatchUnblocked, ServerClosed, Next
<1>5. ASSUME NEW c \in Conns, DispatchClientGone(c) \/ (ConnDies(c) /\ UNCHANGED schedVars)
      PROVE  Next
  BY Zenon, <1>5 DEF DispatchClientGone, Next
<1>6. ASSUME NEW c \in Conns, NEW j \in Jobs, Handle(c, j) \/ DispatchRequest(c, j)  PROVE Next
  BY Zenon, <1>6 DEF Handle, DispatchRequest, Next
<1>7. ASSUME NEW f \in Feeders, FeedPush(f) \/ FeedStop(f)  PROVE UNCHANGED vars
  BY Zenon, <1>7 DEF FeedPush, FeedStop
<1>8. ASSUME NEW w \in Workers, \/ DispatchJoin(w) \/ DispatchWorkerLost(w)
                                \/ \E t \in out[w] : DispatchResult(w, t)
      PROVE  UNCHANGED vars
  BY Zenon, <1>8 DEF DispatchJoin, DispatchWorkerLost, DispatchResult
<1>9. CASE UNCHANGED svars
  BY Zenon, <1>9 DEF svars
<1>10. CASE Goroutines
  BY Zenon, <1>2, <1>4, <1>6, <1>7, <1>10 DEF Goroutines
<1>11. CASE \E c \in Conns : DispatchClientGone(c) \/ \E j \in Jobs : DispatchRequest(c, j)
  BY Zenon, <1>5, <1>6, <1>11
<1>12. CASE \E c \in Conns : ConnDies(c) /\ UNCHANGED schedVars
  BY Zenon, <1>5, <1>12
<1>13. CASE \E w \in Workers : \/ DispatchJoin(w) \/ DispatchWorkerLost(w)
                               \/ \E t \in out[w] : DispatchResult(w, t)
  BY Zenon, <1>8, <1>13
<1>. QED  BY Zenon, <1>3, <1>4, <1>9, <1>10, <1>11, <1>12, <1>13 DEF SNext

\* What is proved of the aggregator alone.
AggInv == Inv1 /\ ConnInv /\ AnswerInv /\ RunningXorStored

\* Closing the log and dismissing a handler keep it.
LEMMA AggInvStops ==
  ASSUME AggInv, AggregatorStops \/ \E c \in Conns : HandlerStops(c)
  PROVE  AggInv'
<1>1. /\ UNCHANGED <<phase, memVars, chunks, wal, log, dirty, pos, conn, asked, got, crashes>>
      /\ \/ handler' = handler /\ synced' \in {synced, Len(log)}
         \/ synced' = synced /\ \E c \in Conns : /\ handler[c] = "submitting"
                                                 /\ handler' = [handler EXCEPT ![c] = "exited"]
  BY Zenon DEF AggregatorStops, HandlerStops, connVars, walVars
<1>2. TypeOK /\ log \in Seq(Record)
  BY Zenon DEF AggInv, Inv1, TypeOK
<1>3. TypeOK'
  <2>1. synced' \in 0 .. Len(log')
    <3>1. log' = log /\ synced' \in {synced, Len(log)}
      BY Zenon, <1>1
    <3>2. synced \in 0 .. Len(log)
      BY Zenon, <1>2 DEF TypeOK
    <3>3. Len(log) \in Nat
      BY Zenon, <1>2, SeqLen
    <3>. QED  BY SMTT(30), <3>1, <3>2, <3>3
  <2>2. handler' \in [Conns -> {"idle", "submitting", "exited"}]
    BY Zenon, <1>1, <1>2 DEF TypeOK
  <2>. QED  BY Zenon, <1>1, <1>2, <2>1, <2>2 DEF TypeOK, memVars
<1>4. ExactlyOnce' /\ RunningXorStored' /\ AnswerInv'
  BY Zenon, <1>1 DEF AggInv, Inv1, ExactlyOnce, RunningXorStored, AnswerInv, memVars
<1>5. ConnInv'
  <2>1. AttachmentConsistent' /\ LossWillBeNoticed' /\ OneResultPerConn'
    BY SMTT(30), <1>1 DEF AggInv, ConnInv, AttachmentConsistent, LossWillBeNoticed, OneResultPerConn, memVars
  <2>2. \A c \in Conns : /\ conn[c] = "new" => handler'[c] = "idle"
                         /\ handler'[c] # "exited" => handler[c] # "exited"
    BY Zenon, <1>1, <1>2 DEF AggInv, ConnInv, TypeOK
  <2>. QED  BY Zenon, <1>1, <2>1, <2>2 DEF AggInv, ConnInv, memVars
<1>. QED  BY Zenon, <1>3, <1>4, <1>5 DEF AggInv, Inv1

\* Every step of the scheduler keeps the aggregator's invariants.
LEMMA AggInvNext ==
  ASSUME AggInv, SInv, [SNext]_svars
  PROVE  AggInv'
<1>1. [Next]_vars \/ AggregatorStops \/ \E c \in Conns : HandlerStops(c)
  BY Zenon, AggregatorStep DEF AggInv
<1>. QED  BY Zenon, <1>1, AggInvStops, Inv1Next, ConnInvNext, AnswerInvNext, XorNext DEF AggInv

\* Both invariants hold at the start and in every reachable state of the scheduler.
LEMMA SchedulerInvariant == SSpec => [](AggInv /\ SInv)
<1>1. SInit => AggInv /\ SInv
  <2>. SUFFICES ASSUME SInit  PROVE AggInv /\ SInv
    BY Zenon
  <2>1. Inv1 /\ ConnInv
    BY Zenon, Inv1Init, ConnInvInit DEF SInit
  <2>2. AnswerInv /\ RunningXorStored
    BY SMTT(30) DEF SInit, Init, AnswerInv, RunningXorStored
  <2>3. IsFiniteSet({}) /\ Cardinality({}) = 0 /\ Window \in Nat
    BY Zenon, FS_EmptySet, SchedulerConstantsOK
  <2>4. Stock(issued)
    <3>1. \A S : <<>> \in Seq(S)
      BY SMTT(30)
    <3>. QED  BY Zenon, <3>1 DEF SInit, Stock
  <2>5. Feeding
    BY Zenon DEF SInit, Init, Feeding, Feeders
  <2>6. Loops
    BY SMTT(30), <2>3 DEF SInit, Loops, LoopStates
  <2>. QED  BY Zenon, <2>1, <2>2, <2>4, <2>5, <2>6 DEF AggInv, SInv
<1>2. AggInv /\ SInv /\ [SNext]_svars => (AggInv /\ SInv)'
  <2>1. AggInv => TypeOK /\ NewIsIdle
    BY Zenon DEF AggInv, Inv1, ConnInv, NewIsIdle
  <2>. QED  BY Zenon, <2>1, AggInvNext, SInvNext
<1>. QED  BY <1>1, <1>2, PTL DEF SSpec

\* A worker never has more than window tasks in flight, whatever the order of pulls,
\* clones, duplicates and hand-backs (worker.go:55-179, docs/architecture.md).
THEOREM WindowKept == SSpec => []WindowRespected
<1>1. AggInv /\ SInv => WindowRespected
  BY Zenon DEF SInv, Loops, WindowRespected
<1>. QED  BY <1>1, SchedulerInvariant, PTL

\* What holds of the aggregator alone holds of it inside the scheduler, where its
\* results come from workerLoops: each chunk is counted once, answers are complete
\* and nobody is answered twice, also while the server is being closed.
THEOREM ScheduledAnswers == SSpec => [](ExactlyOnce /\ AnswersComplete /\ OneResultPerConn)
<1>1. AggInv /\ SInv => ExactlyOnce /\ AnswersComplete /\ OneResultPerConn
  BY Zenon, AnswerInvSuffices DEF AggInv, Inv1, ConnInv
<1>. QED  BY <1>1, SchedulerInvariant, PTL

\* Until the server is closed the scheduler implements module Aggregator: its steps
\* move the aggregator by one of the aggregator's own steps or not at all, so a
\* result the aggregator is handed is one of a task it issued (sched.go:118-210,
\* worker.go:55-179).
THEOREM AggregatorImplemented == SSpec => Init /\ [][stop \/ Next]_vars
<1>1. SInit => Init
  BY Zenon DEF SInit
<1>2. AggInv /\ SInv /\ [SNext]_svars => [stop \/ Next]_vars
  BY Zenon, AggregatorStep DEF AggInv, AggregatorStops, HandlerStops
<1>. QED  BY <1>1, <1>2, SchedulerInvariant, PTL DEF SSpec

\* Every step of the scheduler keeps TaskInv.
LEMMA TaskInvScheduler ==
  ASSUME AggInv, SInv, ~ReuseIDs, TaskInv, [SNext]_svars
  PROVE  TaskInv'
<1>1. CASE Next \/ UNCHANGED vars
  BY Zenon, <1>1, TaskInvNext DEF AggInv
<1>2. CASE AggregatorStops \/ \E c \in Conns : HandlerStops(c)
  <2>1. UNCHANGED <<phase, jobs, done, issued, chunks, log, pos>>
    BY Zenon, <1>2 DEF AggregatorStops, HandlerStops, memVars, walVars
  <2>. QED  BY Zenon, <2>1 DEF TaskInv, NoTaskLost
<1>. QED  BY Zenon, <1>1, <1>2, AggregatorStep DEF AggInv

\* If job IDs are not reused, no task a running job still waits for is ever lost: it
\* is to be fed, queued, in flight at a worker that lives or is being requeued, or
\* about to be handed over, through clones, lost workers, cancelled feeders, crashes
\* and restarts (sched.go:118-253, worker.go:55-179, recover.go:94-112).
THEOREM TasksConserved == ASSUME ~ReuseIDs PROVE SSpec => []TaskConserved
<1>. DEFINE CInv == TaskInv /\ NotJoined /\ TaskConserved
<1>1. SInit => CInv
  <2>. SUFFICES ASSUME SInit  PROVE CInv
    BY Zenon
  <2>2. jobs = {} /\ chunks = [j \in Jobs |-> {}] /\ log = <<>>
    BY Zenon DEF SInit, Init
  <2>3. TaskInv
    BY Zenon, <2>2, StartsFirstEmpty DEF TaskInv, NoTaskLost
  <2>4. NotJoined /\ TaskConserved
    BY Zenon, <2>2 DEF SInit, NotJoined, TaskConserved
  <2>. QED  BY Zenon, <2>3, <2>4
<1>2. AggInv /\ SInv /\ (AggInv /\ SInv)' /\ CInv /\ [SNext]_svars => CInv'
  <2>. SUFFICES ASSUME AggInv, SInv, AggInv', TaskInv, NotJoined, TaskConserved, [SNext]_svars
                PROVE  CInv'
    BY Zenon
  <2>1. TaskInv' /\ NotJoined'
    BY Zenon, TaskInvScheduler, NotJoinedNext
  <2>2. NoTaskLost' /\ TypeOK'
    BY Zenon, <2>1 DEF TaskInv, AggInv, Inv1
  <2>3. TaskConserved'
    <3>1. TypeOK /\ NewIsIdle
      BY Zenon DEF AggInv, Inv1, ConnInv, NewIsIdle
    <3>. QED  BY Zenon, <2>2, <3>1, ConservedNext
  <2>. QED  BY Zenon, <2>1, <2>3
<1>3. CInv => TaskConserved
  BY Zenon
<1>. HIDE DEF CInv
<1>. QED  BY <1>1, <1>2, <1>3, SchedulerInvariant, PTL DEF SSpec
=============================================================================
