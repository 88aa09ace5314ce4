------------------------------ MODULE Aggregator ------------------------------
(***************************************************************************)
(* The aggregator goroutine of package sched: the owner of jobs, done, the *)
(* stored answers and the write-ahead log, and the recovery that rebuilds  *)
(* its state from the log after a crash.                                   *)
(*                                                                         *)
(* Abstractions.  A job ID stands for one request, so the number of tasks  *)
(* of a job is a constant.  A workload.Partial is a bag of task indices:   *)
(* Zero is the empty bag and Merge is bag union, the most discriminating   *)
(* commutative and associative Merge there is.  Times are left out: that a *)
(* grace period or a TTL has elapsed is a free choice of the housekeeping  *)
(* tick.  The rest of the scheduler is the environment: a task may produce *)
(* results, any number of times and in any order, from the moment its      *)
(* feeder may push it into nq until the process ends.                      *)
(***************************************************************************)
EXTENDS Integers, FiniteSets, Sequences, Functions

CONSTANTS
  Jobs,          \* job IDs clients may ask for
  NTasks,        \* NTasks[j]: jobSpec.n of job j
  Conns,         \* client connections, in any life of the server process
  Nil,           \* Go's nil, and "no entry in the map"
  WalModes,      \* how the server is started: "ok" with a log, "none" without
  CompactAbove,  \* records beyond which an idle aggregator rewrites the log
  DiskFaults,    \* TRUE: writing the log may start to fail
  ReuseIDs,      \* FALSE: a job ID the log has seen and dropped is not new again
  MaxCrashes     \* bound on the crashes of a behaviour

Idx(j) == 0 .. NTasks[j] - 1
AllIdx == UNION {Idx(j) : j \in Jobs}
Tasks == Jobs \X AllIdx
Partial == [AllIdx -> Nat]
Zero == [i \in AllIdx |-> 0]
Merge(p, i) == [p EXCEPT ![i] = @ + 1]

ASSUME ConstantsOK ==
  /\ NTasks \in [Jobs -> Nat]
  /\ Nil \notin Conns /\ Nil \notin Jobs
  /\ Nil \notin Partial
  /\ IsFiniteSet(Jobs)
  /\ WalModes \subseteq {"ok", "none"}
  /\ CompactAbove \in Nat /\ MaxCrashes \in Nat
  /\ DiskFaults \in BOOLEAN /\ ReuseIDs \in BOOLEAN

\* The orders in which a Go map may be ranged over, and one of them, for the places
\* where no property depends on the order.
Listings(S) == {f \in [1 .. Cardinality(S) -> S] : IsInjective(f)}
Listing(S) == CHOOSE f \in Listings(S) : TRUE

(* wal.Record *)
JobStart(j) == [typ |-> "JobStart", job |-> j]
ChunkDone(j, i) == [typ |-> "ChunkDone", job |-> j, idx |-> i]
JobDone(j, p) == [typ |-> "JobDone", job |-> j, acc |-> p]
JobDrop(j) == [typ |-> "JobDrop", job |-> j]
Record ==
  [typ : {"JobStart", "JobDrop"}, job : Jobs]
    \cup [typ : {"ChunkDone"}, job : Jobs, idx : AllIdx]
    \cup [typ : {"JobDone"}, job : Jobs, acc : Partial]

VARIABLES
  phase,    \* "replay" while recover() runs, "run" once the goroutines do
  jobs,     \* IDs of the running jobs (the keys of jobs)
  job,      \* the job struct of each running job
  done,     \* done[j]: indices counted for j
  results,  \* stored answers; Nil where there is none
  byConn,   \* client connection -> the job it is waiting for
  chunks,   \* recover(): the ChunkDone records kept for each job
  issued,   \* tasks some feeder of this process has been told to push
  wal,      \* "ok", "failing" (write errors) or "none" (no WALPath)
  log,      \* the records appended, in order
  synced,   \* how many of them are known to be on stable storage
  dirty,    \* appended since the last Sync
  pos,      \* how many records of log the state reflects
  conn,     \* "new", "up", "down" (Done closed, notice pending), "gone"
  asked,    \* the job in the connection's Request
  handler,  \* the connection's clientHandler: "idle", "submitting", "exited"
  got,      \* Results written to the connection
  crashes

memVars == <<jobs, job, done, results, byConn, issued>>
walVars == <<wal, log, synced, dirty, pos>>
connVars == <<conn, asked, handler, got>>
vars == <<phase, memVars, chunks, walVars, connVars, crashes>>

Job == [remaining : Nat, acc : Partial,
        client : Conns \cup {Nil}, orphaned : BOOLEAN]
NewJob(j, c, o) ==
  [remaining |-> NTasks[j], acc |-> Zero, client |-> c, orphaned |-> o]
NoJobs == [j \in Jobs |-> NewJob(j, Nil, FALSE)]

Init ==
  /\ phase = "replay" /\ wal \in WalModes
  /\ jobs = {} /\ job = NoJobs
  /\ done = [j \in Jobs |-> {}] /\ results = [j \in Jobs |-> Nil]
  /\ byConn = [c \in Conns |-> Nil]
  /\ chunks = [j \in Jobs |-> {}] /\ issued = {}
  /\ log = <<>> /\ synced = 0 /\ dirty = FALSE /\ pos = 0
  /\ conn = [c \in Conns |-> "new"] /\ asked = [c \in Conns |-> Nil]
  /\ handler = [c \in Conns |-> "idle"] /\ got = [c \in Conns |-> <<>>]
  /\ crashes = 0

-----------------------------------------------------------------------------
(* The local functions of aggregator(). *)

\* Mutant of WriteLog: Sync is called before Append.
WriteLogSyncFirst(rs, syncNow) ==
  /\ UNCHANGED wal
  /\ IF wal = "ok"
     THEN /\ log' = log \o rs /\ pos' = Len(log')
          /\ synced' = IF syncNow THEN Len(log) ELSE synced
          /\ dirty' = ~syncNow
     ELSE UNCHANGED <<log, synced, pos, dirty>>

\* record: append rs and, if syncNow, force everything appended so far out.
\* A write error only counts WALErrors; dirty then depends on whether it was
\* Append or Sync that failed.
WriteLog(rs, syncNow) ==
  /\ UNCHANGED wal
  /\ IF wal = "ok"
     THEN /\ log' = log \o rs
          /\ synced' = IF syncNow THEN Len(log') ELSE synced
          /\ dirty' = ~syncNow
          /\ pos' = Len(log')
     ELSE /\ UNCHANGED <<log, synced, pos>>
          /\ dirty' \in IF wal = "none" THEN {dirty}
                        ELSE IF syncNow THEN BOOLEAN ELSE {TRUE}

\* reply: Write drops the message when the connection has ended.
Reply(c, j, p) ==
  got' = [d \in Conns |-> IF d = c /\ conn[c] = "up"
                          THEN Append(got[d], [job |-> j, acc |-> p])
                          ELSE got[d]]

\* Mutant of Finish: detach is forgotten.
FinishAttached(S) ==
  /\ jobs' = jobs \ S
  /\ job' = [j \in Jobs |-> IF j \in S THEN NewJob(j, Nil, FALSE) ELSE job[j]]
  /\ done' = [j \in Jobs |-> IF j \in S THEN {} ELSE done[j]]
  /\ UNCHANGED byConn

\* finish, for the set S of jobs that end in this step, without its record.
Finish(S) ==
  /\ jobs' = jobs \ S
  /\ job' = [j \in Jobs |-> IF j \in S THEN NewJob(j, Nil, FALSE) ELSE job[j]]
  /\ done' = [j \in Jobs |-> IF j \in S THEN {} ELSE done[j]]
  /\ byConn' = [c \in Conns |-> IF \E j \in S : job[j].client = c
                                THEN Nil ELSE byConn[c]]

\* Mutant of Attach: the old client is detached, the new one not attached.
AttachNobody(c, j) ==
  byConn' = [d \in Conns |-> IF j \in jobs /\ job[j].client = d THEN Nil ELSE byConn[d]]

\* Mutant of ClientOf: no look at Done().
ClientOfUnchecked(c) == c

\* The select on Done(): attach c to j, or start the grace period at once.
\* Whoever was attached to j before is detached.
Attach(c, j) ==
  byConn' = [d \in Conns |->
               IF d = c /\ conn[c] = "up" THEN j
               ELSE IF j \in jobs /\ job[j].client = d THEN Nil
               ELSE byConn[d]]
ClientOf(c) == IF conn[c] = "up" THEN c ELSE Nil

-----------------------------------------------------------------------------
(* case req := <-s.submitCh *)

\* Mutant of Submitting: the handler submits the request again.
SubmittingAgain(c, j) ==
  /\ phase = "run" /\ handler[c] = "submitting" /\ asked[c] = j
  /\ UNCHANGED <<phase, chunks, conn, asked, handler, crashes>>

Submitting(c, j) ==
  /\ phase = "run" /\ handler[c] = "submitting" /\ asked[c] = j
  /\ handler' = [handler EXCEPT ![c] = "exited"]
  /\ UNCHANGED <<phase, chunks, conn, asked, crashes>>

IsNew(j) ==
  /\ results[j] = Nil /\ j \notin jobs
  /\ ReuseIDs \/ \A n \in 1 .. Len(log) : log[n].job # j

\* Mutant of SubmitStored: answers from the map without asking whether it has
\* an entry.
SubmitStoredUnchecked(c, j) ==
  /\ Submitting(c, j)
  /\ Reply(c, j, results[j])
  /\ UNCHANGED <<memVars, walVars>>

\* Already answered once: answer again.
SubmitStored(c, j) ==
  /\ Submitting(c, j) /\ results[j] # Nil
  /\ Reply(c, j, results[j])
  /\ UNCHANGED <<memVars, walVars>>

\* The client came back, or the job was recovered from the log.
SubmitRunning(c, j) ==
  /\ Submitting(c, j) /\ results[j] = Nil /\ j \in jobs
  /\ Attach(c, j)
  /\ job' = [job EXCEPT ![j] = [@ EXCEPT !.client = ClientOf(c),
                                         !.orphaned = (conn[c] # "up")]]
  /\ UNCHANGED <<jobs, done, results, issued, walVars, got>>

\* A new job: its JobStart is synced before the handler is told to feed.
SubmitNew(c, j) ==
  /\ Submitting(c, j) /\ IsNew(j) /\ NTasks[j] > 0
  /\ WriteLog(<<JobStart(j)>>, TRUE)
  /\ jobs' = jobs \cup {j}
  /\ Attach(c, j)
  /\ job' = [job EXCEPT ![j] = NewJob(j, ClientOf(c), conn[c] # "up")]
  /\ issued' = issued \cup {<<j, i>> : i \in Idx(j)}
  /\ UNCHANGED <<done, results, got>>

\* Empty range: started, answered and finished in one go.
SubmitEmpty(c, j) ==
  /\ Submitting(c, j) /\ IsNew(j) /\ NTasks[j] = 0
  /\ WriteLog(<<JobStart(j), JobDone(j, Zero)>>, TRUE)
  /\ results' = [results EXCEPT ![j] = Zero]
  /\ Reply(c, j, Zero)
  /\ UNCHANGED <<jobs, job, done, byConn, issued>>

-----------------------------------------------------------------------------
(* case r := <-s.resultsCh *)

\* Merge the chunk and count down.
OneMore(jb, i) == [jb EXCEPT !.acc = Merge(@, i), !.remaining = @ - 1]

\* Mutant of Counts: no look at done.
CountsAgain(t) == t[1] \in jobs /\ t[2] < NTasks[t[1]]
Counts(t) == t[1] \in jobs /\ t[2] < NTasks[t[1]] /\ t[2] \notin done[t[1]]

\* The job is gone, or this is a late copy: drop it.
ResultDropped(t) ==
  /\ phase = "run" /\ ~Counts(t)
  /\ UNCHANGED vars

ResultCounted(t) ==
  LET j == t[1]  i == t[2] IN
  /\ phase = "run" /\ Counts(t) /\ job[j].remaining # 1
  /\ done' = [done EXCEPT ![j] = @ \cup {i}]
  /\ job' = [job EXCEPT ![j] = OneMore(@, i)]
  /\ WriteLog(<<ChunkDone(j, i)>>, FALSE)
  /\ UNCHANGED <<phase, jobs, results, byConn, issued, chunks, connVars, crashes>>

\* Mutant of ResultLast: answers before the last chunk is merged.
ResultLastUnmerged(t) ==
  LET j == t[1]  p == job[t[1]].acc IN
  /\ phase = "run" /\ Counts(t) /\ job[j].remaining = 1
  /\ Reply(job[j].client, j, p)
  /\ Finish({j})
  /\ results' = [results EXCEPT ![j] = p]
  /\ WriteLog(<<ChunkDone(j, t[2]), JobDone(j, p)>>, TRUE)
  /\ UNCHANGED <<phase, issued, chunks, conn, asked, handler, crashes>>

\* The last chunk: log it, answer the client, then store and log the answer.
ResultLast(t) ==
  LET j == t[1]  p == Merge(job[t[1]].acc, t[2]) IN
  /\ phase = "run" /\ Counts(t) /\ job[j].remaining = 1
  /\ Reply(job[j].client, j, p)
  /\ Finish({j})
  /\ results' = [results EXCEPT ![j] = p]
  /\ WriteLog(<<ChunkDone(j, t[2]), JobDone(j, p)>>, TRUE)
  /\ UNCHANGED <<phase, issued, chunks, conn, asked, handler, crashes>>

-----------------------------------------------------------------------------
(* case conn := <-s.clientGoneCh.  A missing entry of byConn reads as job 0. *)

\* Mutant of ClientGone: detaches, but starts no grace period.
ClientGoneNoGrace(c) ==
  LET j == byConn[c] IN
  /\ phase = "run" /\ conn[c] = "down"
  /\ conn' = [conn EXCEPT ![c] = "gone"]
  /\ byConn' = [byConn EXCEPT ![c] = Nil]
  /\ job' = IF j # Nil THEN [job EXCEPT ![j].client = Nil] ELSE job
  /\ UNCHANGED <<phase, jobs, done, results, issued, chunks, walVars,
                 asked, handler, got, crashes>>

ClientGone(c) ==
  LET j == IF byConn[c] = Nil THEN 0 ELSE byConn[c] IN
  /\ phase = "run" /\ conn[c] = "down"
  /\ conn' = [conn EXCEPT ![c] = "gone"]
  /\ byConn' = [byConn EXCEPT ![c] = Nil]
  /\ job' = IF j \in jobs /\ job[j].client = c
            THEN [job EXCEPT ![j] = [@ EXCEPT !.client = Nil, !.orphaned = TRUE]]
            ELSE job
  /\ UNCHANGED <<phase, jobs, done, results, issued, chunks, walVars,
                 asked, handler, got, crashes>>

-----------------------------------------------------------------------------
(* case now := <-tick.C *)

Orphans == {j \in jobs : job[j].orphaned}
Stored == {j \in Jobs : results[j] # Nil}

\* The log of a scheduler with no running jobs (snapshotResults).
SnapshotResults(R) ==
  Listing({JobDone(j, R[j]) : j \in {k \in Jobs : R[k] # Nil}})

\* log.Rewrite(recs): the old file or the new one, never a mixture.
Rewrite(recs) ==
  /\ log' = recs /\ synced' = Len(recs) /\ pos' = Len(recs)
  /\ wal' = "ok" /\ dirty' = FALSE

\* Mutant of Drops: an expired answer is dropped without a record.
DropsOrphansOnly(D, E) == Listing(D)
Drops(D, E) == Listing(D) \o Listing(E)

\* The grace period of the jobs in D and the TTL of the answers in E are over.
\* Then an idle aggregator compacts a long log, and a dirty log is synced.
Tick(D, E) ==
  LET drops == Drops(D, E)
      recs == [n \in 1 .. Len(drops) |-> JobDrop(drops[n])]
      appended == IF wal = "ok" THEN log \o recs ELSE log
      compact == wal # "none" /\ jobs \ D = {} /\ Len(appended) > CompactAbove
  IN
  /\ phase = "run" /\ D \subseteq Orphans /\ E \subseteq Stored
  /\ Finish(D)
  /\ results' = [j \in Jobs |-> IF j \in E THEN Nil ELSE results[j]]
  /\ \/ compact /\ Rewrite(SnapshotResults(results'))
     \/ /\ compact => DiskFaults      \* Rewrite failed: the old file stays
        /\ log' = appended /\ dirty' = FALSE /\ UNCHANGED wal
        /\ pos' = IF wal = "ok" THEN Len(appended) ELSE pos
        /\ synced' = IF ~compact /\ wal = "ok" /\ (dirty \/ drops # <<>>)
                     THEN Len(appended) ELSE synced
  /\ UNCHANGED <<phase, issued, chunks, connVars, crashes>>

\* The disk fills up or fails: every later Append or Sync reports an error.
DiskFails ==
  /\ DiskFaults /\ wal = "ok" /\ phase = "run"
  /\ wal' = "failing"
  /\ UNCHANGED <<phase, memVars, chunks, log, synced, dirty, pos, connVars, crashes>>

-----------------------------------------------------------------------------
(* The dispatcher and the connections, as far as the aggregator meets them. *)

\* node.Submit: a client asks for a job over a new connection, which carries one
\* request; the dispatcher spawns its handler.
Request(c, j) ==
  /\ phase = "run" /\ conn[c] = "new"
  /\ conn' = [conn EXCEPT ![c] = "up"]
  /\ asked' = [asked EXCEPT ![c] = j]
  /\ handler' = [handler EXCEPT ![c] = "submitting"]
  /\ UNCHANGED <<phase, memVars, chunks, walVars, got, crashes>>

\* The transport ends the connection: Done is closed, and the dispatcher will
\* read the error some time later.
ConnDies(c) ==
  /\ conn[c] = "up"
  /\ conn' = [conn EXCEPT ![c] = "down"]
  /\ UNCHANGED <<phase, memVars, chunks, walVars, asked, handler, got, crashes>>

-----------------------------------------------------------------------------
(* Crash and recovery. *)

\* The process ends when l has been appended: some prefix of l that holds all
\* that was synced is in the file, everything in memory is gone.
Restart(l) ==
  /\ crashes < MaxCrashes /\ crashes' = crashes + 1
  /\ phase' = "replay" /\ pos' = 0
  /\ \E n \in synced .. Len(l) : log' = SubSeq(l, 1, n)
  /\ wal' = IF wal = "none" THEN "none" ELSE "ok"
  /\ dirty' = FALSE /\ UNCHANGED synced
  /\ jobs' = {} /\ job' = NoJobs
  /\ done' = [j \in Jobs |-> {}] /\ results' = [j \in Jobs |-> Nil]
  /\ byConn' = [c \in Conns |-> Nil]
  /\ chunks' = [j \in Jobs |-> {}] /\ issued' = {}
  /\ conn' = [c \in Conns |-> IF conn[c] = "new" THEN "new" ELSE "gone"]
  /\ handler' = [c \in Conns |-> IF conn[c] = "new" THEN "idle" ELSE "exited"]
  /\ UNCHANGED asked

Crash == Restart(log) /\ UNCHANGED got

\* The process ends inside finish: the last chunk (or the start of an empty
\* job) has been appended and the Result may be out, JobDone is not.
CrashInFinish(t) ==
  LET j == t[1] IN
  /\ phase = "run" /\ wal = "ok" /\ Counts(t) /\ job[j].remaining = 1
  /\ Restart(Append(log, ChunkDone(j, t[2])))
  /\ Reply(job[j].client, j, Merge(job[j].acc, t[2])) \/ UNCHANGED got

CrashInEmpty(c, j) ==
  /\ phase = "run" /\ wal = "ok" /\ handler[c] = "submitting" /\ asked[c] = j
  /\ IsNew(j) /\ NTasks[j] = 0
  /\ Restart(Append(log, JobStart(j)))
  /\ Reply(c, j, Zero) \/ UNCHANGED got

\* The cases of the replay loop of recover(), for a record of job j.
ReplayStart(j) ==
  /\ j \notin jobs
  /\ jobs' = jobs \cup {j}
  /\ job' = [job EXCEPT ![j] = NewJob(j, Nil, TRUE)]
  /\ results' = [results EXCEPT ![j] = Nil]
  /\ UNCHANGED <<done, chunks>>

ReplayChunk(j, i) ==
  /\ Counts(<<j, i>>)
  /\ done' = [done EXCEPT ![j] = @ \cup {i}]
  /\ job' = [job EXCEPT ![j] = OneMore(@, i)]
  /\ chunks' = [chunks EXCEPT ![j] = @ \cup {i}]
  /\ UNCHANGED <<jobs, results>>

\* Mutant of ReplayEnd: the job stays in the map.
ReplayEndKept(j, r) ==
  /\ results' = [results EXCEPT ![j] = r]
  /\ UNCHANGED <<jobs, job, done, chunks>>

\* forget(j): the chunks kept for the job stay behind.
ReplayEnd(j, r) ==
  /\ jobs' = jobs \ {j}
  /\ job' = [job EXCEPT ![j] = NewJob(j, Nil, FALSE)]
  /\ done' = [done EXCEPT ![j] = {}]
  /\ results' = [results EXCEPT ![j] = r]
  /\ UNCHANGED chunks

ReplaySkip(rec) ==
  /\ \/ rec.typ = "JobStart" /\ rec.job \in jobs
     \/ rec.typ = "ChunkDone" /\ ~Counts(<<rec.job, rec.idx>>)
  /\ UNCHANGED <<jobs, job, done, results, chunks>>

Replayed(rec) ==
  \/ rec.typ = "JobStart" /\ ReplayStart(rec.job)
  \/ rec.typ = "ChunkDone" /\ ReplayChunk(rec.job, rec.idx)
  \/ rec.typ = "JobDone" /\ ReplayEnd(rec.job, rec.acc)
  \/ rec.typ = "JobDrop" /\ ReplayEnd(rec.job, Nil)
  \/ ReplaySkip(rec)

ReplayRecord ==
  /\ phase = "replay" /\ pos < Len(log)
  /\ pos' = pos + 1
  /\ Replayed(log[pos + 1])
  /\ UNCHANGED <<phase, byConn, issued, wal, log, synced, dirty, connVars, crashes>>

\* Map iteration fixes no order between jobs; a job's JobStart precedes its
\* chunks, which is all that replaying depends on.
Compacted(R, J) ==
  SnapshotResults(R) \o Listing({JobStart(j) : j \in J})
    \o Listing(UNION {{ChunkDone(j, i) : i \in chunks[j]} : j \in J})

\* Mutant of Feed: assumes that the chunks counted are the first ones.
FeedFromCount(J) ==
  UNION {{<<j, i>> : i \in Cardinality(chunks[j]) .. NTasks[j] - 1} : j \in J}

\* resume: the tasks a recovered job's feeder pushes, all but the skipped ones.
Feed(J) == UNION {{<<j, i>> : i \in Idx(j) \ chunks[j]} : j \in J}

\* The end of recover() and the start of Run(): a job whose last chunk was
\* logged is finished, the log is compacted, unfinished jobs get a feeder.
RecoverDone ==
  LET ended == {j \in jobs : job[j].remaining = 0} IN
  /\ phase = "replay" /\ pos = Len(log)
  /\ phase' = "run"
  /\ Finish(ended)
  /\ results' = [j \in Jobs |-> IF j \in ended THEN job[j].acc ELSE results[j]]
  /\ issued' = Feed(jobs \ ended)
  /\ chunks' = [j \in Jobs |-> {}]
  /\ IF log # <<>> THEN Rewrite(Compacted(results', jobs \ ended)) ELSE UNCHANGED walVars
  /\ UNCHANGED <<connVars, crashes>>

-----------------------------------------------------------------------------
Submit(c, j) ==
  SubmitStored(c, j) \/ SubmitRunning(c, j) \/ SubmitNew(c, j) \/ SubmitEmpty(c, j)
Result(t) == ResultDropped(t) \/ ResultCounted(t) \/ ResultLast(t)

Next ==
  \/ \E c \in Conns, j \in Jobs : Request(c, j) \/ Submit(c, j) \/ CrashInEmpty(c, j)
  \/ \E t \in issued : Result(t) \/ CrashInFinish(t)
  \/ \E c \in Conns : ConnDies(c) \/ ClientGone(c)
  \/ \E D \in SUBSET Orphans, E \in SUBSET Stored : Tick(D, E)
  \/ DiskFails \/ Crash \/ ReplayRecord \/ RecoverDone

Spec == Init /\ [][Next]_vars
-----------------------------------------------------------------------------
(* Properties. *)

\* The types of the state: job structs, stored answers and log records are
\* well formed, and the log is never shorter than what was synced or replayed.
TypeOK ==
  /\ phase \in {"replay", "run"} /\ crashes \in 0 .. MaxCrashes
  /\ jobs \subseteq Jobs
  /\ job \in [Jobs -> Job]
  /\ done \in [Jobs -> SUBSET AllIdx] /\ chunks \in [Jobs -> SUBSET AllIdx]
  /\ results \in [Jobs -> Partial \cup {Nil}]
  /\ byConn \in [Conns -> Jobs \cup {Nil}]
  /\ issued \subseteq Tasks
  /\ wal \in {"ok", "failing", "none"} /\ dirty \in BOOLEAN
  /\ log \in Seq(Record)
  /\ synced \in 0 .. Len(log) /\ pos \in 0 .. Len(log)
  /\ conn \in [Conns -> {"new", "up", "down", "gone"}]
  /\ asked \in [Conns -> Jobs \cup {Nil}]
  /\ handler \in [Conns -> {"idle", "submitting", "exited"}]
  /\ got \in [Conns -> Seq([job : Jobs, acc : Partial])]

Counted(S) == [i \in AllIdx |-> IF i \in S THEN 1 ELSE 0]

\* End-to-end exactly-once (aggregator.go:30-35): whatever is delivered twice,
\* recomputed or replayed, the accumulator of a running job holds each counted
\* chunk exactly once and nothing else, and remaining counts the others.
ExactlyOnce ==
  \A j \in Jobs :
    /\ done[j] \subseteq (IF j \in jobs THEN Idx(j) ELSE {})
    /\ j \in jobs =>
         /\ job[j].acc = Counted(done[j])
         /\ job[j].remaining = NTasks[j] - Cardinality(done[j])

\* Every answer, stored, logged or written to a client, is the merge of all
\* chunks of the job that client asked for, each exactly once.
AnswersComplete ==
  /\ \A j \in Jobs : results[j] \in {Counted(Idx(j)), Nil}
  /\ \A n \in 1 .. Len(log) : log[n].typ = "JobDone" => log[n].acc = Counted(Idx(log[n].job))
  /\ \A c \in Conns : \A n \in 1 .. Len(got[c]) :
       got[c][n] = [job |-> asked[c], acc |-> Counted(Idx(asked[c]))]

\* A connection is sent at most one Result, whether its job was running,
\* stored, recovered or taken over by another connection (aggregator.go:66-97).
OneResultPerConn == \A c \in Conns : Len(got[c]) <= 1

\* A job is running or answered, never both: the submit case relies on it to
\* choose between the stored answer and the running job (aggregator.go:103-118).
RunningXorStored == \A j \in jobs : results[j] = Nil

\* byConn and job.client are inverse to each other, and a job is without a
\* client exactly while its grace period runs (aggregator.go:71-76, 119-127).
AttachmentConsistent ==
  /\ \A c \in Conns, j \in Jobs : byConn[c] = j <=> j \in jobs /\ job[j].client = c
  /\ \A j \in jobs : job[j].orphaned <=> job[j].client = Nil

\* A job is never attached to a connection whose loss has already been
\* reported: such a job would be kept for ever (aggregator.go:119-127).
LossWillBeNoticed ==
  \A j \in jobs : job[j].client # Nil => conn[job[j].client] \in {"up", "down"}

Rivals(c) == {d \in Conns \ {c} : asked[d] = asked[c] /\ handler[d] = "exited"}

\* A live client whose request was taken has its Result or is attached to the
\* running job, unless another connection asked for the same job.
WaitingIsAttached ==
  \A c \in Conns :
    handler[c] = "exited" /\ conn[c] = "up" /\ got[c] = <<>> /\ Rivals(c) = {}
      => byConn[c] = asked[c]

\* The same without the exception: "if the job is still running the connection
\* is attached to it and will receive its Result" (docs/wire-format.md).
EveryWaiterAttached ==
  \A c \in Conns :
    handler[c] = "exited" /\ conn[c] = "up" /\ got[c] = <<>> => byConn[c] = asked[c]

\* Every chunk a running job still waits for has been given to a feeder, also
\* after recovery (recover.go:94-106): otherwise the job can never complete.
NoTaskLost ==
  phase = "run" => \A j \in jobs : \A i \in Idx(j) \ done[j] : <<j, i>> \in issued

\* What the first n records of the log say about job j.
LifeAt(n, j) == {k \in 1 .. n : log[k].job = j /\ log[k].typ # "ChunkDone"}
LastLife(n, j) ==
  IF LifeAt(n, j) = {} THEN 0
  ELSE CHOOSE k \in LifeAt(n, j) : \A l \in LifeAt(n, j) : l <= k
LogState(n, j) == IF LastLife(n, j) = 0 THEN "none" ELSE log[LastLife(n, j)].typ
LogDone(n, j) ==
  {log[k].idx : k \in {l \in LastLife(n, j) + 1 .. n :
                         log[l].job = j /\ log[l].typ = "ChunkDone"}}

\* The log alone tells the state: which jobs run, which chunks they have
\* counted and which answers are stored are what its records say, so a restart
\* at this point would lose nothing (recover.go:31-34).
StateMatchesLog ==
  wal = "ok" =>
    \A j \in Jobs :
      /\ j \in jobs <=> LogState(pos, j) = "JobStart"
      /\ results[j] # Nil <=> LogState(pos, j) = "JobDone"
      /\ j \in jobs => done[j] = LogDone(pos, j)
      /\ phase = "run" => pos = Len(log)

\* With a healthy log, a job whose tasks are handed out and an answer that is
\* stored survive a crash at any moment: their record is within the synced part.
\* When dirty is clear nothing is left to sync.  The exception is a compaction
\* that failed, which clears dirty too (aggregator.go:187-192): what it leaves
\* unsynced is never about a running job.
DurableBeforeUse ==
  wal = "ok" /\ phase = "run" =>
    /\ \A j \in jobs : LogState(synced, j) = "JobStart"
    /\ \A j \in Stored : LogState(synced, j) = "JobDone"
    /\ ~dirty => \A n \in synced + 1 .. Len(log) : DiskFaults /\ log[n].job \notin jobs

\* The goroutines run, connection losses are reported and grace periods elapse.
Fairness ==
  /\ WF_vars(ReplayRecord) /\ WF_vars(RecoverDone)
  /\ \A c \in Conns : WF_vars(ClientGone(c))
  /\ \A j \in Jobs : WF_vars(\E D \in SUBSET Orphans : j \in D /\ Tick(D, {}))

FairSpec == Spec /\ Fairness

\* Every task given to a feeder is computed some time.
TasksComputed ==
  \A j \in Jobs : \A i \in Idx(j) :
    LET t == <<j, i>> IN WF_vars(t \in issued /\ (ResultCounted(t) \/ ResultLast(t)))

Abandoned(j) == j \in jobs /\ (job[j].client # Nil => conn[job[j].client] # "up")

\* A job nobody is waiting for any more does not stay, even when no worker ever
\* computes anything: it is dropped, unless a client comes back for it or it
\* completes (aggregator.go:164-179).
AbandonedJobEnds == \A j \in Jobs : Abandoned(j) ~> ~Abandoned(j)

\* If tasks are computed, no client stays attached to a job for ever, also when
\* the job was recovered from the log (aggregator.go:134-162, recover.go:94-112).
\* By WaitingIsAttached it is then answered, gone, or displaced by another.
NobodyWaitsForever ==
  TasksComputed => \A c \in Conns : byConn[c] # Nil ~> byConn[c] = Nil \/ conn[c] # "up"
=============================================================================
