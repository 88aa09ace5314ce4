----------------------------- MODULE AnswerProofs -----------------------------
(***************************************************************************)
(* What a client gets in the end: answers are complete, nobody whose       *)
(* request was taken is forgotten, and no task of a running job is lost,   *)
(* through crashes, replays and compactions.                               *)
(***************************************************************************)
EXTENDS AggregatorProofs

-----------------------------------------------------------------------------
(* A job is running or answered. *)

\* Replaying one record keeps running and answered jobs apart.
LEMMA XorReplay ==
  ASSUME Inv1, RunningXorStored, ReplayRecord
  PROVE  RunningXorStored'
<1>0. jobs \subseteq Jobs /\ results \in [Jobs -> Partial \cup {Nil}] /\ log \in Seq(Record)
  BY Zenon DEF Inv1, TypeOK
<1>1. pos + 1 \in 1 .. Len(log)
  BY SMTT(30), <1>0, SeqLen DEF Inv1, TypeOK, ReplayRecord
<1>. DEFINE rec == log[pos + 1]
<1>2. rec \in Record /\ Replayed(rec)
  BY Zenon, <1>0, <1>1, SeqMember DEF ReplayRecord
<1>. HIDE DEF rec
<1>3. rec.job \in Jobs
  BY Zenon, <1>2 DEF Record
<1>. QED  BY Zenon, <1>0, <1>2, <1>3 DEF RunningXorStored, Replayed, ReplayStart, ReplayChunk, ReplayEnd, ReplaySkip

\* Every step does.
LEMMA XorNext ==
  ASSUME Inv1, RunningXorStored, [Next]_vars
  PROVE  RunningXorStored'
<1>0. jobs \subseteq Jobs /\ results \in [Jobs -> Partial \cup {Nil}] /\ issued \subseteq Tasks
  BY Zenon DEF Inv1, TypeOK
<1>1. ASSUME NEW c \in Conns, NEW j \in Jobs, Submit(c, j)  PROVE RunningXorStored'
  BY Zenon, <1>0, <1>1 DEF RunningXorStored, Submit, SubmitStored, SubmitRunning, SubmitNew, SubmitEmpty, IsNew, memVars
<1>2. ASSUME NEW t \in issued, Result(t)  PROVE RunningXorStored'
  <2>1. t[1] \in Jobs
    BY Zenon, <1>0 DEF Tasks
  <2>. QED  BY Zenon, <1>0, <1>2, <2>1 DEF RunningXorStored, Result, ResultDropped, ResultCounted, ResultLast, Finish, vars, memVars
<1>3. ASSUME NEW D \in SUBSET Orphans, NEW E \in SUBSET Stored, Tick(D, E)  PROVE RunningXorStored'
  BY Zenon, <1>0, <1>3 DEF RunningXorStored, Tick, Finish
<1>4. ASSUME UNCHANGED <<jobs, results>>  PROVE RunningXorStored'
  BY Zenon, <1>4 DEF RunningXorStored
<1>5. ASSUME NEW c \in Conns, \/ ClientGone(c) \/ ConnDies(c) \/ \E j \in Jobs : Request(c, j)
      PROVE  RunningXorStored'
  BY Zenon, <1>4, <1>5 DEF ClientGone, ConnDies, Request, memVars
<1>6. CASE DiskFails \/ UNCHANGED vars
  BY Zenon, <1>4, <1>6 DEF DiskFails, vars, memVars
<1>7. ASSUME NEW l, Restart(l)  PROVE RunningXorStored'
  BY Zenon, <1>7 DEF RunningXorStored, Restart
<1>8. CASE RecoverDone
  BY Zenon, <1>0, <1>8 DEF RunningXorStored, RecoverDone, Finish
<1>. QED
  BY Zenon, <1>1, <1>2, <1>3, <1>5, <1>6, <1>7, <1>8, XorReplay DEF Next, Crash, CrashInFinish, CrashInEmpty

\* A job is running or answered, never both: the submit case relies on it to choose
\* between the stored answer and the running job (aggregator.go:103-118).
THEOREM RunningOrStored == Spec => []RunningXorStored
<1>1. Init => RunningXorStored
  BY Zenon DEF Init, RunningXorStored
<1>2. Inv1 /\ RunningXorStored /\ [Next]_vars => RunningXorStored'
  BY Zenon, XorNext
<1>3. Spec => []Inv1
  BY ConnInvariant, PTL
<1>. QED  BY <1>1, <1>2, <1>3, PTL DEF Spec

-----------------------------------------------------------------------------
(* Answers are complete. *)

Answer(j) == Counted(Idx(j))

\* The records whose answer, if they hold one, is complete.
Truthful == {r \in Record : r.typ = "JobDone" => r.acc = Answer(r.job)}

\* What AnswersComplete needs: an attached client is attached to the job it asked for.
AnswerInv ==
  /\ \A j \in Jobs : results[j] \in {Answer(j), Nil}
  /\ log \in Seq(Truthful)
  /\ \A c \in Conns :
       /\ byConn[c] # Nil => asked[c] = byConn[c]
       /\ got[c] \in Seq({[job |-> asked[c], acc |-> Answer(asked[c])]})

\* The invariant says what it is meant to say.
LEMMA AnswerInvSuffices == ASSUME AnswerInv PROVE AnswersComplete
<1>1. ASSUME NEW n \in 1 .. Len(log), log[n].typ = "JobDone"
      PROVE  log[n].acc = Counted(Idx(log[n].job))
  <2>1. log[n] \in Truthful
    BY Zenon, SeqMember DEF AnswerInv
  <2>. QED  BY Zenon, <1>1, <2>1 DEF Truthful, Answer
<1>2. ASSUME NEW c \in Conns, NEW n \in 1 .. Len(got[c])
      PROVE  got[c][n] = [job |-> asked[c], acc |-> Counted(Idx(asked[c]))]
  <2>. DEFINE m == [job |-> asked[c], acc |-> Answer(asked[c])]
  <2>1. got[c] \in Seq({m})
    BY Zenon DEF AnswerInv
  <2>. HIDE DEF m
  <2>2. got[c][n] \in {m}
    BY Zenon, <2>1, SeqMember
  <2>. QED  BY Zenon, <2>2 DEF m, Answer
<1>. QED  BY Zenon, <1>1, <1>2 DEF AnswerInv, AnswersComplete, Answer

\* The records written are truthful.
LEMMA TruthfulRecords ==
  ASSUME NEW j \in Jobs
  PROVE  /\ JobStart(j) \in Truthful /\ JobDrop(j) \in Truthful
         /\ \A i \in AllIdx : ChunkDone(j, i) \in Truthful
         /\ Answer(j) \in Partial /\ JobDone(j, Answer(j)) \in Truthful
<1>1. Answer(j) \in Partial
  BY Zenon DEF Answer, Counted, Partial
<1>. QED  BY Zenon, <1>1, RecordTypes DEF Truthful, JobStart, JobDrop, ChunkDone, JobDone

\* The answer of a job without tasks, of one whose last chunk has come, and of one
\* that recovery finds with nothing left to do.
LEMMA AnswerOfEmpty == ASSUME NEW j \in Jobs, NTasks[j] = 0 PROVE Answer(j) = Zero
<1>1. Idx(j) = {}
  BY SMTT(30) DEF Idx
<1>. QED  BY Zenon, <1>1, CountNone DEF Answer

\* Merging the last missing partial into acc gives the answer of the whole job.
LEMMA AnswerOfLast ==
  ASSUME Inv1, NEW j \in Jobs, NEW i \in AllIdx, Counts(<<j, i>>), job[j].remaining = 1
  PROVE  Merge(job[j].acc, i) = Answer(j)
<1>1. j \in jobs /\ i \notin done[j] /\ i < NTasks[j] /\ i \in Nat
  BY Zenon, AllIdxIsFinite DEF Counts
<1>2. i \in Idx(j) /\ NTasks[j] \in Nat
  BY SMTT(30), <1>1, ConstantsOK DEF Idx
<1>3. /\ done[j] \in SUBSET Idx(j) /\ job[j].acc = Counted(done[j])
      /\ job[j].remaining = NTasks[j] - Cardinality(done[j])
  BY Zenon, <1>1 DEF Inv1, ExactlyOnce
<1>4. /\ Cardinality(done[j]) \in Nat
      /\ Cardinality(done[j] \cup {i}) = Cardinality(done[j]) + 1
      /\ Merge(job[j].acc, i) = Counted(done[j] \cup {i})
  BY Zenon, <1>1, <1>2, <1>3, CountOne
<1>5. Cardinality(done[j] \cup {i}) = NTasks[j]
  BY SMTT(30), <1>2, <1>3, <1>4
<1>6. done[j] \cup {i} \in SUBSET Idx(j)
  BY Zenon, <1>2, <1>3
<1>7. done[j] \cup {i} = Idx(j)
  BY SMTT(30), <1>5, <1>6, CountAll
<1>. QED  BY Zenon, <1>4, <1>7 DEF Answer

\* A job with nothing remaining has accumulated its answer.
LEMMA AnswerOfEnded ==
  ASSUME Inv1, NEW j \in jobs, job[j].remaining = 0
  PROVE  job[j].acc = Answer(j)
<1>1. /\ j \in Jobs /\ done[j] \in SUBSET Idx(j) /\ job[j].acc = Counted(done[j])
      /\ 0 = NTasks[j] - Cardinality(done[j])
  BY Zenon DEF Inv1, TypeOK, ExactlyOnce
<1>2. Cardinality(done[j]) = NTasks[j]
  BY SMTT(30), <1>1, IdxFacts, FS_Subset, FS_CardinalityType
<1>3. done[j] = Idx(j)
  BY Zenon, <1>1, <1>2, CountAll
<1>. QED  BY Zenon, <1>1, <1>3 DEF Answer

\* Logging truthful records keeps the log truthful.
LEMMA TruthfulWrite ==
  ASSUME log \in Seq(Truthful), NEW rs \in Seq(Truthful), NEW b, WriteLog(rs, b)
  PROVE  log' \in Seq(Truthful)
BY Zenon, SeqConcat DEF WriteLog

\* A log rebuilt from truthful answers is truthful.
LEMMA TruthfulSnapshot ==
  ASSUME NEW R \in [Jobs -> Partial \cup {Nil}], \A j \in Jobs : R[j] \in {Answer(j), Nil}
  PROVE  SnapshotResults(R) \in Seq(Truthful)
<1>. DEFINE S == {JobDone(j, R[j]) : j \in {k \in Jobs : R[k] # Nil}}
<1>1. SnapshotResults(R) \in Seq(S)
  BY Zenon, SnapshotType
<1>2. S \subseteq Truthful
  BY Zenon, TruthfulRecords
<1>. HIDE DEF S
<1>. QED  BY Zenon, <1>1, <1>2, SeqWider

\* The log recovery writes back holds only true answers.
LEMMA TruthfulCompacted ==
  ASSUME TypeOK, NEW R \in [Jobs -> Partial \cup {Nil}], NEW J \in SUBSET Jobs,
         \A j \in Jobs : R[j] \in {Answer(j), Nil}
  PROVE  Compacted(R, J) \in Seq(Truthful)
<1>. DEFINE S1 == {JobStart(j) : j \in J}
            S2 == UNION {{ChunkDone(j, i) : i \in chunks[j]} : j \in J}
            K == [typ : {"ChunkDone"}, job : Jobs, idx : AllIdx]
<1>1. Listing(S1) \in Seq(S1) /\ Listing(S2) \in Seq(S2) /\ S2 \subseteq K
  BY Zenon, StartsType, ChunksType
<1>2. S1 \subseteq Truthful
  BY Zenon, TruthfulRecords
<1>3. K \subseteq Truthful
  BY Zenon DEF Record, Truthful
<1>4. Listing(S1) \in Seq(Truthful) /\ Listing(S2) \in Seq(Truthful)
  <2>. HIDE DEF S1, S2, K
  <2>. QED  BY Zenon, <1>1, <1>2, <1>3, SeqWider
<1>5. SnapshotResults(R) \in Seq(Truthful)
  BY Zenon, TruthfulSnapshot
<1>. QED  BY Zenon, <1>4, <1>5, SeqConcat DEF Compacted

\* Answering the job a connection asked for.
LEMMA TruthfulReply ==
  ASSUME TypeOK, AnswerInv, NEW j \in Jobs, NEW c \in Conns \cup {Nil}, Reply(c, j, Answer(j)),
         c \in Conns => asked[c] = j
  PROVE  \A d \in Conns : got'[d] \in Seq({[job |-> asked[d], acc |-> Answer(asked[d])]})
<1>. TAKE d \in Conns
<1>. DEFINE m == [job |-> asked[d], acc |-> Answer(asked[d])]
<1>1. got[d] \in Seq({m})
  BY Zenon DEF AnswerInv
<1>2. CASE got'[d] = got[d]
  BY Zenon, <1>1, <1>2
<1>3. CASE got'[d] # got[d]
  <2>1. d = c /\ got'[d] = Append(got[d], [job |-> j, acc |-> Answer(j)])
    BY Zenon, <1>3 DEF Reply
  <2>2. got'[d] = Append(got[d], m)
    BY Zenon, <2>1
  <2>. HIDE DEF m
  <2>3. Append(got[d], m) \in Seq({m})
    BY Zenon, <1>1, SeqAppend
  <2>. QED  BY Zenon, <2>2, <2>3 DEF m
<1>. QED  BY Zenon, <1>2, <1>3

\* A step that answers nobody and stores, logs and attaches nothing.
LEMMA SameAnswers ==
  ASSUME AnswerInv, UNCHANGED <<results, log, asked, got>>,
         \A c \in Conns : byConn'[c] \in {byConn[c], Nil}
  PROVE  AnswerInv'
BY Zenon DEF AnswerInv

\* Taking a request.
LEMMA AnswerInvSubmit ==
  ASSUME Inv1, AnswerInv, NEW c \in Conns, NEW j \in Jobs, Submit(c, j)
  PROVE  AnswerInv'
<1>0. /\ TypeOK /\ results \in [Jobs -> Partial \cup {Nil}] /\ log \in Seq(Truthful)
      /\ asked[c] = j /\ UNCHANGED asked
  BY Zenon DEF Inv1, TypeOK, AnswerInv, Submit, SubmitStored, SubmitRunning, SubmitNew, SubmitEmpty, Submitting
<1>1. CASE SubmitStored(c, j)
  <2>1. results[j] = Answer(j)
    BY Zenon, <1>1 DEF AnswerInv, SubmitStored
  <2>2. \A d \in Conns : got'[d] \in Seq({[job |-> asked[d], acc |-> Answer(asked[d])]})
    BY Zenon, <1>0, <1>1, <2>1, TruthfulReply DEF SubmitStored
  <2>. QED  BY Zenon, <1>0, <1>1, <2>2 DEF AnswerInv, SubmitStored, memVars, walVars
<1>2. CASE SubmitRunning(c, j)
  BY Zenon, <1>0, <1>2 DEF AnswerInv, SubmitRunning, Attach, walVars
<1>3. CASE SubmitNew(c, j)
  <2>1. <<JobStart(j)>> \in Seq(Truthful)
    BY SMTT(30), TruthfulRecords
  <2>2. log' \in Seq(Truthful)
    BY Zenon, <1>0, <1>3, <2>1, TruthfulWrite DEF SubmitNew
  <2>. QED  BY Zenon, <1>0, <1>3, <2>2 DEF AnswerInv, SubmitNew, Attach
<1>4. CASE SubmitEmpty(c, j)
  <2>1. Zero = Answer(j)
    BY Zenon, <1>4, AnswerOfEmpty DEF SubmitEmpty
  <2>2. <<JobStart(j), JobDone(j, Zero)>> \in Seq(Truthful)
    BY SMTT(30), <2>1, TruthfulRecords
  <2>3. log' \in Seq(Truthful)
    BY Zenon, <1>0, <1>4, <2>2, TruthfulWrite DEF SubmitEmpty
  <2>4. \A d \in Conns : got'[d] \in Seq({[job |-> asked[d], acc |-> Answer(asked[d])]})
    BY Zenon, <1>0, <1>4, <2>1, TruthfulReply DEF SubmitEmpty
  <2>5. \A k \in Jobs : results'[k] \in {Answer(k), Nil}
    BY Zenon, <1>0, <1>4, <2>1 DEF AnswerInv, SubmitEmpty
  <2>. QED  BY Zenon, <1>0, <1>4, <2>3, <2>4, <2>5 DEF AnswerInv, SubmitEmpty
<1>. QED  BY Zenon, <1>1, <1>2, <1>3, <1>4 DEF Submit

\* The client of a running job has asked for that job.
LEMMA ClientAsked ==
  ASSUME Inv1, ConnInv, AnswerInv, NEW j \in jobs
  PROVE  job[j].client \in Conns \cup {Nil} /\ (job[j].client \in Conns => asked[job[j].client] = j)
<1>1. j \in Jobs /\ j # Nil /\ job[j].client \in Conns \cup {Nil}
  BY Zenon, ConstantsOK DEF Inv1, TypeOK, Job
<1>2. job[j].client \in Conns => byConn[job[j].client] = j
  BY Zenon, <1>1 DEF ConnInv, AttachmentConsistent
<1>. QED  BY Zenon, <1>1, <1>2 DEF AnswerInv

\* A result, the last one included.
LEMMA AnswerInvResult ==
  ASSUME Inv1, ConnInv, AnswerInv, NEW t \in issued, Result(t)
  PROVE  AnswerInv'
<1>0. /\ TypeOK /\ t[1] \in Jobs /\ t[2] \in AllIdx /\ t = <<t[1], t[2]>> /\ log \in Seq(Truthful)
      /\ results \in [Jobs -> Partial \cup {Nil}]
  <2>1. TypeOK /\ t \in Tasks /\ log \in Seq(Truthful) /\ results \in [Jobs -> Partial \cup {Nil}]
    BY Zenon DEF Inv1, TypeOK, AnswerInv
  <2>. QED  BY SMTT(30), <2>1 DEF Tasks
<1>. DEFINE j == t[1]
            i == t[2]
<1>1. CASE ResultDropped(t)
  BY Zenon, <1>1, SameAnswers DEF ResultDropped, vars, memVars, walVars, connVars
<1>2. CASE ResultCounted(t)
  <2>1. <<ChunkDone(j, i)>> \in Seq(Truthful)
    BY SMTT(30), <1>0, TruthfulRecords
  <2>2. log' \in Seq(Truthful)
    BY Zenon, <1>0, <1>2, <2>1, TruthfulWrite DEF ResultCounted
  <2>. QED  BY Zenon, <1>2, <2>2 DEF AnswerInv, ResultCounted, connVars
<1>3. CASE ResultLast(t)
  <2>1. Merge(job[j].acc, i) = Answer(j)
    BY Zenon, <1>0, <1>3, AnswerOfLast DEF ResultLast
  <2>2. <<ChunkDone(j, i), JobDone(j, Answer(j))>> \in Seq(Truthful)
    BY SMTT(30), <1>0, TruthfulRecords
  <2>3. log' \in Seq(Truthful)
    BY Zenon, <1>0, <1>3, <2>1, <2>2, TruthfulWrite DEF ResultLast
  <2>4. j \in jobs /\ Reply(job[j].client, j, Answer(j))
    BY Zenon, <1>3, <2>1 DEF ResultLast, Counts
  <2>5. \A d \in Conns : got'[d] \in Seq({[job |-> asked[d], acc |-> Answer(asked[d])]})
    BY Zenon, <1>0, <2>4, ClientAsked, TruthfulReply
  <2>6. \A k \in Jobs : results'[k] \in {Answer(k), Nil}
    BY Zenon, <1>0, <1>3, <2>1 DEF AnswerInv, ResultLast
  <2>7. UNCHANGED asked /\ \A c \in Conns : byConn'[c] \in {byConn[c], Nil}
    BY Zenon, <1>3 DEF ResultLast, Finish
  <2>. QED  BY Zenon, <2>3, <2>5, <2>6, <2>7 DEF AnswerInv
<1>. QED  BY Zenon, <1>1, <1>2, <1>3 DEF Result

\* A new connection has not been answered, and is not attached to anything.
LEMMA AnswerInvRequest ==
  ASSUME Inv1, ConnInv, AnswerInv, NEW c \in Conns, NEW j \in Jobs, Request(c, j)
  PROVE  AnswerInv'
<1>1. got[c] = <<>> /\ byConn[c] = Nil
  BY Zenon DEF ConnInv, Request
<1>2. UNCHANGED <<results, log, byConn, got>>
  BY Zenon DEF Request, memVars, walVars
<1>3. \A d \in Conns : asked'[d] = IF d = c THEN j ELSE asked[d]
  BY Zenon DEF Inv1, TypeOK, Request
<1>4. ASSUME NEW d \in Conns
      PROVE  /\ byConn[d] # Nil => asked'[d] = byConn[d]
             /\ got[d] \in Seq({[job |-> asked'[d], acc |-> Answer(asked'[d])]})
  <2>1. CASE d = c
    <3>1. \A S : <<>> \in Seq(S)
      BY SMTT(30)
    <3>. QED  BY <1>1, <2>1, <3>1, Zenon
  <2>2. CASE d # c
    <3>1. asked'[d] = asked[d]
      BY Zenon, <1>3, <2>2
    <3>. QED  BY Zenon, <3>1 DEF AnswerInv
  <2>. QED  BY Zenon, <2>1, <2>2
<1>. QED  BY Zenon, <1>2, <1>4 DEF AnswerInv

\* Housekeeping drops answers and writes the rest back.
LEMMA AnswerInvTick ==
  ASSUME Inv1, AnswerInv, NEW D \in SUBSET Orphans, NEW E \in SUBSET Stored, Tick(D, E)
  PROVE  AnswerInv'
<1>. DEFINE drops == Drops(D, E)
            recs == [n \in 1 .. Len(drops) |-> JobDrop(drops[n])]
            K == [typ : {"JobDrop"}, job : Jobs]
<1>0. /\ results \in [Jobs -> Partial \cup {Nil}] /\ log \in Seq(Truthful)
      /\ D \in SUBSET Jobs /\ E \in SUBSET Jobs
  BY Zenon DEF Inv1, TypeOK, AnswerInv, Orphans, Stored
<1>1. /\ results' \in [Jobs -> Partial \cup {Nil}]
      /\ \A j \in Jobs : results'[j] \in {Answer(j), Nil}
  BY Zenon, <1>0 DEF AnswerInv, Tick
<1>2. UNCHANGED <<asked, got>> /\ \A c \in Conns : byConn'[c] \in {byConn[c], Nil}
  BY Zenon DEF Tick, Finish, connVars
<1>3. recs \in Seq(K)
  BY Zenon, <1>0, DropsType DEF Drops
<1>4. K \subseteq Truthful
  BY Zenon DEF Truthful, Record
<1>5. log \o recs \in Seq(Truthful)
  <2>. HIDE DEF recs, K
  <2>1. recs \in Seq(Truthful)
    BY Zenon, <1>3, <1>4, SeqWider
  <2>. QED  BY Zenon, <1>0, <2>1, SeqConcat
<1>6. log' = SnapshotResults(results') \/ log' = log \o recs \/ log' = log
  BY Zenon DEF Tick, Rewrite
<1>7. SnapshotResults(results') \in Seq(Truthful)
  BY Zenon, <1>1, TruthfulSnapshot
<1>8. log' \in Seq(Truthful)
  BY Zenon, <1>0, <1>5, <1>6, <1>7
<1>. QED  BY Zenon, <1>1, <1>2, <1>8 DEF AnswerInv

\* The log a crash leaves is truthful if the log was.
LEMMA AnswerInvRestart ==
  ASSUME Inv1, NEW l \in Seq(Truthful), Restart(l),
         \A d \in Conns : got'[d] \in Seq({[job |-> asked[d], acc |-> Answer(asked[d])]})
  PROVE  AnswerInv'
<1>1. PICK n \in synced .. Len(l) : log' = SubSeq(l, 1, n)
  BY Zenon DEF Restart
<1>2. n \in 0 .. Len(l)
  BY SMTT(30), <1>1, SeqLen DEF Inv1, TypeOK
<1>3. log' \in Seq(Truthful)
  BY Zenon, <1>1, <1>2, SeqPrefix
<1>. QED  BY Zenon, <1>3 DEF AnswerInv, Restart

\* A crash, also one in the middle of a handler, keeps AnswerInv.
LEMMA AnswerInvCrash ==
  ASSUME Inv1, ConnInv, AnswerInv,
         \/ Crash
         \/ \E t \in issued : CrashInFinish(t)
         \/ \E c \in Conns, j \in Jobs : CrashInEmpty(c, j)
  PROVE  AnswerInv'
<1>0. TypeOK /\ log \in Seq(Truthful) /\ issued \subseteq Tasks
  BY Zenon DEF Inv1, TypeOK, AnswerInv
<1>1. ASSUME UNCHANGED got
      PROVE  \A d \in Conns : got'[d] \in Seq({[job |-> asked[d], acc |-> Answer(asked[d])]})
  BY Zenon, <1>1 DEF AnswerInv
<1>2. CASE Crash
  BY Zenon, <1>0, <1>1, <1>2, AnswerInvRestart DEF Crash
<1>3. ASSUME NEW t \in issued, CrashInFinish(t)  PROVE AnswerInv'
  <2>. DEFINE j == t[1]
              i == t[2]
  <2>1. j \in Jobs /\ i \in AllIdx /\ t = <<j, i>>
    BY SMTT(30), <1>0 DEF Tasks
  <2>2. Append(log, ChunkDone(j, i)) \in Seq(Truthful)
    BY Zenon, <1>0, <2>1, TruthfulRecords, SeqAppend
  <2>3. Merge(job[j].acc, i) = Answer(j) /\ j \in jobs
    BY Zenon, <1>3, <2>1, AnswerOfLast DEF CrashInFinish, Counts
  <2>4. \A d \in Conns : got'[d] \in Seq({[job |-> asked[d], acc |-> Answer(asked[d])]})
    <3>1. CASE Reply(job[j].client, j, Answer(j))
      BY Zenon, <1>0, <2>1, <2>3, <3>1, ClientAsked, TruthfulReply
    <3>. QED  BY Zenon, <1>1, <1>3, <2>3, <3>1 DEF CrashInFinish
  <2>. QED  BY Zenon, <1>3, <2>2, <2>4, AnswerInvRestart DEF CrashInFinish
<1>4. ASSUME NEW c \in Conns, NEW j \in Jobs, CrashInEmpty(c, j)  PROVE AnswerInv'
  <2>1. Append(log, JobStart(j)) \in Seq(Truthful)
    BY Zenon, <1>0, TruthfulRecords, SeqAppend
  <2>2. Zero = Answer(j)
    BY Zenon, <1>4, AnswerOfEmpty DEF CrashInEmpty
  <2>3. \A d \in Conns : got'[d] \in Seq({[job |-> asked[d], acc |-> Answer(asked[d])]})
    <3>1. CASE Reply(c, j, Answer(j))
      BY Zenon, <1>0, <1>4, <3>1, TruthfulReply DEF CrashInEmpty
    <3>. QED  BY Zenon, <1>1, <1>4, <2>2, <3>1 DEF CrashInEmpty
  <2>. QED  BY Zenon, <1>4, <2>1, <2>3, AnswerInvRestart DEF CrashInEmpty
<1>. QED  BY Zenon, <1>2, <1>3, <1>4

\* Replaying a truthful record.
LEMMA AnswerInvReplay ==
  ASSUME Inv1, AnswerInv, ReplayRecord
  PROVE  AnswerInv'
<1>0. /\ results \in [Jobs -> Partial \cup {Nil}] /\ log \in Seq(Truthful)
      /\ UNCHANGED <<byConn, log, asked, got>>
  BY Zenon DEF Inv1, TypeOK, AnswerInv, ReplayRecord, connVars
<1>1. pos + 1 \in 1 .. Len(log)
  BY SMTT(30), <1>0, SeqLen DEF Inv1, TypeOK, ReplayRecord
<1>. DEFINE rec == log[pos + 1]
<1>2. rec \in Truthful /\ Replayed(rec)
  BY Zenon, <1>0, <1>1, SeqMember DEF ReplayRecord
<1>. HIDE DEF rec
<1>3. rec.job \in Jobs /\ (rec.typ = "JobDone" => rec.acc = Answer(rec.job))
  BY Zenon, <1>2 DEF Record, Truthful
<1>4. \A j \in Jobs : results[j] \in {Answer(j), Nil}
  BY Zenon DEF AnswerInv
<1>5. \A j \in Jobs : results'[j] \in {Answer(j), Nil}
  BY Zenon, <1>0, <1>2, <1>3, <1>4 DEF Replayed, ReplayStart, ReplayChunk, ReplayEnd, ReplaySkip
<1>. QED  BY Zenon, <1>0, <1>5 DEF AnswerInv

\* The end of recovery: the answers it completes and the log it writes back.
LEMMA AnswerInvRecover ==
  ASSUME Inv1, AnswerInv, RecoverDone
  PROVE  AnswerInv'
<1>. DEFINE ended == {j \in jobs : job[j].remaining = 0}
<1>0. /\ TypeOK /\ results \in [Jobs -> Partial \cup {Nil}] /\ jobs \subseteq Jobs
      /\ job \in [Jobs -> Job] /\ log \in Seq(Truthful)
      /\ UNCHANGED <<asked, got>> /\ \A c \in Conns : byConn'[c] \in {byConn[c], Nil}
  BY Zenon DEF Inv1, TypeOK, AnswerInv, RecoverDone, Finish, connVars
<1>1. results' = [j \in Jobs |-> IF j \in ended THEN job[j].acc ELSE results[j]]
  BY Zenon DEF RecoverDone
<1>2. \A j \in ended : job[j].acc = Answer(j)
  BY Zenon, AnswerOfEnded
<1>3. log' = log \/ log' = Compacted(results', jobs \ ended)
  BY Zenon DEF RecoverDone, Rewrite, walVars
<1>4. jobs \ ended \in SUBSET Jobs
  BY Zenon, <1>0
<1>. HIDE DEF ended
<1>5. /\ results' \in [Jobs -> Partial \cup {Nil}]
      /\ \A j \in Jobs : results'[j] \in {Answer(j), Nil}
  BY Zenon, <1>0, <1>1, <1>2, TruthfulRecords DEF AnswerInv
<1>6. Compacted(results', jobs \ ended) \in Seq(Truthful)
  BY Zenon, <1>0, <1>4, <1>5, TruthfulCompacted
<1>7. log' \in Seq(Truthful)
  BY Zenon, <1>0, <1>3, <1>6
<1>. QED  BY Zenon, <1>0, <1>5, <1>7 DEF AnswerInv

\* Every step preserves the invariant.
LEMMA AnswerInvNext ==
  ASSUME Inv1, ConnInv, AnswerInv, [Next]_vars
  PROVE  AnswerInv'
<1>1. ASSUME NEW c \in Conns, ClientGone(c) \/ ConnDies(c)  PROVE AnswerInv'
  <2>1. UNCHANGED <<results, log, asked, got>> /\ \A d \in Conns : byConn'[d] \in {byConn[d], Nil}
    BY Zenon, <1>1 DEF ClientGone, ConnDies, memVars, walVars, Inv1, TypeOK
  <2>. QED  BY Zenon, <2>1, SameAnswers
<1>2. CASE DiskFails \/ UNCHANGED vars
  BY Zenon, <1>2, SameAnswers DEF DiskFails, vars, memVars, walVars, connVars
<1>. QED
  BY Zenon, <1>1, <1>2, AnswerInvSubmit, AnswerInvResult, AnswerInvRequest, AnswerInvTick,
     AnswerInvCrash, AnswerInvReplay, AnswerInvRecover DEF Next

\* Both invariants of the clients hold in every reachable state.
LEMMA AnswerInvariant == Spec => [](Inv1 /\ ConnInv /\ AnswerInv)
<1>1. Init => AnswerInv
  BY SMTT(30) DEF Init, AnswerInv
<1>2. Inv1 /\ ConnInv /\ AnswerInv /\ [Next]_vars => AnswerInv'
  BY Zenon, AnswerInvNext
<1>. QED  BY <1>1, <1>2, ConnInvariant, PTL DEF Spec

\* Every answer, stored, logged or written to a client, is the merge of all chunks
\* of the job that client asked for, each exactly once, whatever was lost, repeated
\* or replayed on the way (aggregator.go:134-162, recover.go:36-112).
THEOREM CompleteAnswers == Spec => []AnswersComplete
<1>1. Inv1 /\ ConnInv /\ AnswerInv => AnswersComplete
  BY Zenon, AnswerInvSuffices
<1>. QED  BY <1>1, AnswerInvariant, PTL

-----------------------------------------------------------------------------
(* Nobody is forgotten. *)

\* WaitingIsAttached, and that no connection is alive while recovery runs.
WaitInv ==
  /\ WaitingIsAttached
  /\ phase = "replay" => \A c \in Conns : conn[c] \in {"new", "gone"}

\* Once a client has a rival it keeps it, so whoever waits after a step waited
\* before and kept its job, or was given its job, or has a rival.
LEMMA StillAttached ==
  ASSUME WaitInv, UNCHANGED asked,
         \A c \in Conns : handler[c] = "exited" => handler'[c] = "exited",
         \A c \in Conns :
           handler'[c] = "exited" /\ conn'[c] = "up" /\ got'[c] = <<>> =>
             \/ /\ handler[c] = "exited" /\ conn[c] = "up" /\ got[c] = <<>>
                /\ byConn'[c] = byConn[c]
             \/ byConn'[c] = asked[c]
             \/ \E d \in Conns \ {c} : asked[d] = asked[c] /\ handler'[d] = "exited"
  PROVE  WaitingIsAttached'
BY Zenon DEF WaitInv, WaitingIsAttached, Rivals

\* A live connection that is replied to has its Result.
LEMMA RepliedTo ==
  ASSUME TypeOK, NEW c \in Conns \cup {Nil}, NEW j, NEW p, Reply(c, j, p)
  PROVE  \A d \in Conns : IF d = c /\ conn[d] = "up" THEN got'[d] # <<>> ELSE got'[d] = got[d]
<1>. TAKE d \in Conns
<1>1. CASE d = c /\ conn[d] = "up"
  <2>1. got'[d] = Append(got[d], [job |-> j, acc |-> p])
    BY Zenon, <1>1 DEF Reply
  <2>2. got[d] \in Seq([job : Jobs, acc : Partial])
    BY Zenon DEF TypeOK
  <2>3. Len(got'[d]) = Len(got[d]) + 1 /\ Len(got[d]) \in Nat
    BY SMTT(30), <2>1, <2>2
  <2>4. Len(<<>>) = 0
    BY Zenon
  <2>5. got'[d] # <<>>
    BY SMTT(30), <2>3, <2>4
  <2>. QED  BY Zenon, <1>1, <2>5
<1>2. CASE ~(d = c /\ conn[d] = "up")
  BY Zenon, <1>2 DEF Reply
<1>. QED  BY Zenon, <1>1, <1>2

\* A submission keeps WaitInv.
LEMMA WaitInvSubmit ==
  ASSUME Inv1, ConnInv, AnswerInv, WaitInv, NEW c \in Conns, NEW j \in Jobs, Submit(c, j)
  PROVE  WaitInv'
<1>0. /\ TypeOK /\ handler \in [Conns -> {"idle", "submitting", "exited"}] /\ Submitting(c, j)
  BY Zenon DEF Inv1, TypeOK, Submit, SubmitStored, SubmitRunning, SubmitNew, SubmitEmpty
<1>1. /\ phase' = "run" /\ asked[c] = j /\ UNCHANGED <<conn, asked>>
      /\ \A d \in Conns : handler'[d] = IF d = c THEN "exited" ELSE handler[d]
  BY Zenon, <1>0 DEF Submitting
<1>2. ASSUME NEW p, Reply(c, j, p), UNCHANGED byConn  PROVE WaitingIsAttached'
  <2>1. \A d \in Conns : IF d = c /\ conn[d] = "up" THEN got'[d] # <<>> ELSE got'[d] = got[d]
    BY Zenon, <1>0, <1>2, RepliedTo
  <2>. QED  BY Zenon, <1>1, <1>2, <2>1, StillAttached
<1>3. ASSUME Attach(c, j), UNCHANGED got  PROVE WaitingIsAttached'
  <2>1. \A d \in Conns : j \in jobs /\ job[j].client = d => asked[d] = j
    BY Zenon, ClientAsked
  <2>2. \A d \in Conns \ {c} : byConn'[d] = byConn[d] \/ asked[d] = j
    BY Zenon, <1>3, <2>1 DEF Attach
  <2>3. conn[c] = "up" => byConn'[c] = j
    BY Zenon, <1>3 DEF Attach
  <2>. QED  BY Zenon, <1>1, <1>3, <2>2, <2>3, StillAttached
<1>4. WaitingIsAttached'
  BY Zenon, <1>2, <1>3 DEF Submit, SubmitStored, SubmitRunning, SubmitNew, SubmitEmpty, memVars
<1>. QED  BY Zenon, <1>1, <1>4 DEF WaitInv

\* A result keeps WaitInv: a finished job answers everyone attached.
LEMMA WaitInvResult ==
  ASSUME Inv1, ConnInv, AnswerInv, WaitInv, NEW t \in issued, Result(t)
  PROVE  WaitInv'
<1>1. CASE ResultDropped(t) \/ ResultCounted(t)
  <2>1. UNCHANGED <<phase, byConn, connVars>>
    BY Zenon, <1>1 DEF ResultDropped, ResultCounted, vars, memVars
  <2>. QED  BY Zenon, <2>1 DEF WaitInv, WaitingIsAttached, Rivals, connVars
<1>2. CASE ResultLast(t)
  <2>. DEFINE j == t[1]
              b == job[j].client
  <2>1. /\ j \in jobs /\ UNCHANGED <<conn, asked, handler>> /\ phase' = "run"
        /\ Finish({j}) /\ Reply(b, j, Merge(job[t[1]].acc, t[2]))
    BY Zenon, <1>2 DEF ResultLast, Counts
  <2>2. b \in Conns \cup {Nil} /\ TypeOK
    BY Zenon, <2>1, ClientAsked DEF Inv1
  <2>3. \A d \in Conns : IF d = b /\ conn[d] = "up" THEN got'[d] # <<>> ELSE got'[d] = got[d]
    BY Zenon, <2>1, <2>2, RepliedTo
  <2>4. \A d \in Conns \ {b} : byConn'[d] = byConn[d]
    BY Zenon, <2>1 DEF Finish
  <2>. HIDE DEF b, j
  <2>5. WaitingIsAttached'
    BY Zenon, <2>1, <2>3, <2>4, StillAttached
  <2>. QED  BY Zenon, <2>1, <2>5 DEF WaitInv
<1>. QED  BY Zenon, <1>1, <1>2 DEF Result

\* Every step keeps WaitInv.
LEMMA WaitInvNext ==
  ASSUME Inv1, ConnInv, AnswerInv, WaitInv, [Next]_vars
  PROVE  WaitInv'
<1>0. /\ TypeOK /\ conn \in [Conns -> {"new", "up", "down", "gone"}]
      /\ handler \in [Conns -> {"idle", "submitting", "exited"}]
      /\ asked \in [Conns -> Jobs \cup {Nil}] /\ byConn \in [Conns -> Jobs \cup {Nil}]
      /\ Nil \notin Conns /\ job \in [Jobs -> Job] /\ jobs \subseteq Jobs
  BY Zenon, ConstantsOK DEF Inv1, TypeOK
<1>1. ASSUME NEW c \in Conns, NEW j \in Jobs, Request(c, j)  PROVE WaitInv'
  <2>1. handler[c] = "idle"
    BY Zenon, <1>1 DEF ConnInv, Request
  <2>2. /\ UNCHANGED <<phase, byConn, got>> /\ phase = "run"
        /\ \A d \in Conns \ {c} : UNCHANGED <<conn[d], asked[d], handler[d]>>
        /\ handler'[c] = "submitting"
    BY Zenon, <1>0, <1>1 DEF Request, memVars
  <2>3. \A d \in Conns : handler'[d] = "exited" => d # c
    BY Zenon, <2>2
  <2>4. \A d \in Conns : handler[d] = "exited" => d # c
    BY Zenon, <2>1
  <2>5. \A d \in Conns : d # c /\ Rivals(d)' = {} => Rivals(d) = {}
    BY Zenon, <2>2, <2>4 DEF Rivals
  <2>6. WaitingIsAttached'
    BY Zenon, <2>2, <2>3, <2>5 DEF WaitInv, WaitingIsAttached
  <2>. QED  BY Zenon, <2>2, <2>6 DEF WaitInv
<1>2. ASSUME NEW c \in Conns, ConnDies(c) \/ ClientGone(c)  PROVE WaitInv'
  <2>1. /\ UNCHANGED <<phase, asked, handler, got>>
        /\ \A d \in Conns \ {c} : UNCHANGED <<conn[d], byConn[d]>>
        /\ conn'[c] \in {"down", "gone"}
    BY Zenon, <1>0, <1>2 DEF ConnDies, ClientGone, memVars
  <2>2. phase # "replay"
    BY Zenon, <1>2 DEF ConnDies, ClientGone, WaitInv
  <2>3. WaitingIsAttached'
    BY Zenon, <2>1, StillAttached
  <2>. QED  BY Zenon, <2>1, <2>2, <2>3 DEF WaitInv
<1>3. ASSUME NEW D \in SUBSET Orphans, NEW E \in SUBSET Stored, Tick(D, E)  PROVE WaitInv'
  <2>1. \A j \in D : job[j].client = Nil
    BY Zenon DEF ConnInv, AttachmentConsistent, Orphans
  <2>2. byConn' = byConn
    BY Zenon, <1>0, <1>3, <2>1 DEF Tick, Finish
  <2>3. phase' = "run" /\ UNCHANGED connVars
    BY Zenon, <1>3 DEF Tick
  <2>. QED  BY Zenon, <2>2, <2>3 DEF WaitInv, WaitingIsAttached, Rivals, connVars
<1>4. ASSUME UNCHANGED <<phase, byConn, connVars>>  PROVE WaitInv'
  BY Zenon, <1>4 DEF WaitInv, WaitingIsAttached, Rivals, connVars
<1>5. CASE DiskFails \/ ReplayRecord \/ UNCHANGED vars
  BY Zenon, <1>4, <1>5 DEF DiskFails, ReplayRecord, vars, memVars
<1>6. ASSUME NEW l, Restart(l)  PROVE WaitInv'
  BY Zenon, <1>6 DEF WaitInv, WaitingIsAttached, Restart
<1>7. CASE RecoverDone
  <2>1. phase = "replay" /\ phase' = "run" /\ UNCHANGED conn
    BY Zenon, <1>7 DEF RecoverDone, connVars
  <2>. QED  BY Zenon, <2>1 DEF WaitInv, WaitingIsAttached
<1>. QED
  BY Zenon, <1>1, <1>2, <1>3, <1>5, <1>6, <1>7, WaitInvSubmit, WaitInvResult
  DEF Next, Crash, CrashInFinish, CrashInEmpty

\* A live client whose request was taken has its Result or is attached to the
\* running job, unless another connection asked for the same job, whatever crashed,
\* was dropped or was taken over in between (aggregator.go:99-132).
THEOREM NobodyForgotten == Spec => []WaitingIsAttached
<1>1. Init => WaitInv
  BY Zenon DEF Init, WaitInv, WaitingIsAttached
<1>2. Inv1 /\ ConnInv /\ AnswerInv /\ WaitInv /\ [Next]_vars => WaitInv'
  BY Zenon, WaitInvNext
<1>3. WaitInv => WaitingIsAttached
  BY Zenon DEF WaitInv
<1>. QED  BY <1>1, <1>2, <1>3, AnswerInvariant, PTL DEF Spec

-----------------------------------------------------------------------------
(* No task is lost, if no job ID is used for a second life. *)

\* In l, the first record of a job that is started is its JobStart.
StartsFirst(l) ==
  \A n \in 1 .. Len(l) : l[n].typ = "JobStart" => \A m \in 1 .. n - 1 : l[m].job # l[n].job

\* What NoTaskLost needs: recovery must not keep chunks of an earlier life of a job
\* it starts, so it keeps none of a job the log has not mentioned yet.
TaskInv ==
  /\ NoTaskLost /\ StartsFirst(log)
  /\ phase = "replay" =>
       \A j \in Jobs : /\ j \in jobs => chunks[j] \subseteq done[j]
                       /\ chunks[j] # {} => \E m \in 1 .. pos : log[m].job = j

\* The empty log has no record before its job's start.
LEMMA StartsFirstEmpty == StartsFirst(<<>>)
<1>1. Len(<<>>) = 0
  BY Zenon
<1>2. 1 .. 0 = {}
  BY SMTT(30)
<1>. QED  BY Zenon, <1>1, <1>2 DEF StartsFirst

\* Appending records of jobs the log does not know keeps starts first.
LEMMA StartsFirstConcat ==
  ASSUME NEW S, NEW l \in Seq(S), NEW rs \in Seq(S), StartsFirst(l), StartsFirst(rs),
         \A n \in 1 .. Len(rs) :
           rs[n].typ = "JobStart" => \A m \in 1 .. Len(l) : l[m].job # rs[n].job
  PROVE  StartsFirst(l \o rs)
<1>1. Len(l) \in Nat /\ Len(rs) \in Nat /\ Len(l \o rs) = Len(l) + Len(rs)
  BY Zenon, SeqLen, SeqConcat
<1>2. \A n \in 1 .. Len(l \o rs) : (l \o rs)[n] = IF n <= Len(l) THEN l[n] ELSE rs[n - Len(l)]
  BY SMTT(30), SeqConcat
<1>. SUFFICES ASSUME NEW n \in 1 .. Len(l \o rs), (l \o rs)[n].typ = "JobStart",
                     NEW m \in 1 .. n - 1
              PROVE  (l \o rs)[m].job # (l \o rs)[n].job
  BY Zenon DEF StartsFirst
<1>3. m \in 1 .. Len(l \o rs) /\ m < n
  BY SMTT(30), <1>1
<1>4. CASE n <= Len(l)
  <2>1. (l \o rs)[n] = l[n] /\ (l \o rs)[m] = l[m]
    BY SMTT(30), <1>1, <1>2, <1>3, <1>4
  <2>2. n \in 1 .. Len(l)
    BY SMTT(30), <1>1, <1>4
  <2>. QED  BY Zenon, <2>1, <2>2 DEF StartsFirst
<1>5. CASE n > Len(l) /\ m <= Len(l)
  <2>1. (l \o rs)[n] = rs[n - Len(l)] /\ (l \o rs)[m] = l[m]
    BY SMTT(30), <1>1, <1>2, <1>3, <1>5
  <2>2. n - Len(l) \in 1 .. Len(rs) /\ m \in 1 .. Len(l)
    BY SMTT(30), <1>1, <1>5
  <2>. QED  BY Zenon, <2>1, <2>2
<1>6. CASE n > Len(l) /\ m > Len(l)
  <2>1. (l \o rs)[n] = rs[n - Len(l)] /\ (l \o rs)[m] = rs[m - Len(l)]
    BY SMTT(30), <1>1, <1>2, <1>3, <1>6
  <2>2. n - Len(l) \in 1 .. Len(rs) /\ m - Len(l) \in 1 .. (n - Len(l)) - 1
    BY SMTT(30), <1>1, <1>3, <1>6
  <2>. QED  BY Zenon, <2>1, <2>2 DEF StartsFirst
<1>. QED  BY SMTT(30), <1>1, <1>3, <1>4, <1>5, <1>6

\* Records that start no job can be appended to any log.
LEMMA StartsFirstMore ==
  ASSUME NEW l \in Seq(Record), NEW rs \in Seq(Record), StartsFirst(l),
         \A n \in 1 .. Len(rs) : rs[n].typ # "JobStart"
  PROVE  StartsFirst(l \o rs)
<1>1. StartsFirst(rs)
  BY Zenon DEF StartsFirst
<1>. QED  BY Zenon, <1>1, StartsFirstConcat

\* What a crash leaves of a log.
LEMMA StartsFirstPrefix ==
  ASSUME NEW l \in Seq(Record), NEW n \in 0 .. Len(l), StartsFirst(l)
  PROVE  StartsFirst(SubSeq(l, 1, n))
<1>1. Len(SubSeq(l, 1, n)) = n /\ n \in Nat /\ Len(l) \in Nat
  BY SMTT(30), SeqPrefix, SeqLen
<1>2. \A k \in 1 .. n : SubSeq(l, 1, n)[k] = l[k]
  BY SMTT(30), <1>1, SeqPrefix
<1>3. \A k \in 1 .. n : k \in 1 .. Len(l) /\ \A m \in 1 .. k - 1 : m \in 1 .. n
  BY SMTT(30), <1>1
<1>. QED  BY Zenon, <1>1, <1>2, <1>3 DEF StartsFirst

\* The log recovery writes back: answered jobs, then each running job's start, then
\* chunks.  No job is both answered and running.
LEMMA StartsFirstCompacted ==
  ASSUME TypeOK, NEW R \in [Jobs -> Partial \cup {Nil}], NEW J \in SUBSET Jobs,
         \A j \in J : R[j] = Nil
  PROVE  StartsFirst(Compacted(R, J)) /\ StartsFirst(SnapshotResults(R))
<1>. DEFINE S0 == {JobDone(j, R[j]) : j \in {k \in Jobs : R[k] # Nil}}
            S1 == {JobStart(j) : j \in J}
            S2 == UNION {{ChunkDone(j, i) : i \in chunks[j]} : j \in J}
            K == [typ : {"ChunkDone"}, job : Jobs, idx : AllIdx]
            A == SnapshotResults(R)
            B == Listing(S1)
            C == Listing(S2)
<1>1. /\ A \in Seq(S0) /\ S0 \subseteq Record
      /\ B \in Seq(S1) /\ IsInjective(B) /\ S1 \subseteq Record
      /\ C \in Seq(S2) /\ S2 \subseteq K
  BY Zenon, SnapshotType, StartsType, ChunksType
<1>2. K \subseteq Record
  BY Zenon DEF Record
<1>3. ASSUME NEW r \in S0  PROVE r.typ = "JobDone" /\ R[r.job] # Nil
  <2>1. PICK j \in Jobs : R[j] # Nil /\ r = JobDone(j, R[j])
    BY Zenon
  <2>2. r.typ = "JobDone" /\ r.job = j
    BY Zenon, <2>1 DEF JobDone
  <2>. QED  BY Zenon, <2>1, <2>2
<1>4. \A r \in S1 : r.typ = "JobStart" /\ r.job \in J /\ r = JobStart(r.job)
  BY SMTT(30) DEF JobStart
<1>5. \A r \in S2 : r.typ = "ChunkDone"
  BY Zenon, <1>1
<1>6. Compacted(R, J) = (A \o B) \o C
  BY Zenon DEF Compacted
<1>. HIDE DEF S0, S1, S2, K, A, B, C
<1>7. A \in Seq(Record) /\ B \in Seq(Record) /\ C \in Seq(Record)
  BY Zenon, <1>1, <1>2, SeqWider
<1>8. /\ \A n \in 1 .. Len(A) : A[n].typ = "JobDone" /\ R[A[n].job] # Nil
      /\ \A n \in 1 .. Len(B) : B[n].typ = "JobStart" /\ B[n].job \in J /\ B[n] = JobStart(B[n].job)
      /\ \A n \in 1 .. Len(C) : C[n].typ = "ChunkDone"
  BY Zenon, <1>1, <1>3, <1>4, <1>5, SeqMember
<1>9. StartsFirst(A)
  BY Zenon, <1>8 DEF StartsFirst
<1>10. StartsFirst(B)
  <2>. SUFFICES ASSUME NEW n \in 1 .. Len(B), NEW m \in 1 .. n - 1
                PROVE  B[m].job # B[n].job
    BY Zenon DEF StartsFirst
  <2>1. m \in 1 .. Len(B) /\ m # n
    BY SMTT(30), <1>7, SeqLen
  <2>2. DOMAIN B = 1 .. Len(B)
    BY Zenon, <1>7, SeqLen
  <2>3. B[m] # B[n]
    BY Zenon, <1>1, <2>1, <2>2 DEF IsInjective
  <2>. QED  BY SMTT(30), <1>8, <2>1, <2>3
<1>11. StartsFirst(A \o B)
  BY SMTT(30), <1>7, <1>8, <1>9, <1>10, StartsFirstConcat
<1>12. A \o B \in Seq(Record)
  BY Zenon, <1>7, SeqConcat
<1>13. StartsFirst((A \o B) \o C)
  BY Zenon, <1>7, <1>8, <1>11, <1>12, StartsFirstMore
<1>. QED  BY Zenon, <1>6, <1>9, <1>13 DEF A

\* Running steps: no task of a job that goes on is taken back.
LEMMA TasksStay ==
  ASSUME TaskInv, phase' = "run", phase = "run", issued \subseteq issued',
         \A j \in jobs' : \/ j \in jobs /\ done[j] \subseteq done'[j]
                          \/ {<<j, i>> : i \in Idx(j)} \subseteq issued',
         StartsFirst(log')
  PROVE  TaskInv'
<1>1. ASSUME NEW j \in jobs', NEW i \in Idx(j) \ done'[j]  PROVE <<j, i>> \in issued'
  <2>1. CASE {<<j, k>> : k \in Idx(j)} \subseteq issued'
    BY Zenon, <2>1
  <2>2. CASE j \in jobs /\ done[j] \subseteq done'[j]
    BY Zenon, <2>2 DEF TaskInv, NoTaskLost
  <2>. QED  BY Zenon, <2>1, <2>2
<1>. QED  BY Zenon, <1>1 DEF TaskInv, NoTaskLost

\* A new job's JobStart is the first the log hears of it.
LEMMA FirstOfNew ==
  ASSUME Inv1, ~ReuseIDs, StartsFirst(log), NEW j \in Jobs, IsNew(j),
         NEW rs \in {<<JobStart(j)>>, <<JobStart(j), JobDone(j, Zero)>>}
  PROVE  StartsFirst(log \o rs)
<1>1. log \in Seq(Record) /\ rs \in Seq(Record)
  <2>1. JobStart(j) \in Record /\ JobDone(j, Zero) \in Record
    BY Zenon, RecordTypes, CountNone
  <2>2. <<JobStart(j)>> \in Seq(Record) /\ <<JobStart(j), JobDone(j, Zero)>> \in Seq(Record)
    BY SMTT(30), <2>1
  <2>. QED  BY Zenon, <2>2 DEF Inv1, TypeOK
<1>2. \A m \in 1 .. Len(log) : log[m].job # j
  BY Zenon DEF IsNew
<1>3. /\ Len(rs) \in 1 .. 2 /\ rs[1].typ = "JobStart" /\ rs[1].job = j
      /\ Len(rs) = 2 => rs[2].typ = "JobDone"
  BY SMTT(30) DEF JobStart, JobDone
<1>4. StartsFirst(rs)
  BY SMTT(30), <1>3 DEF StartsFirst
<1>5. \A n \in 1 .. Len(rs) : rs[n].typ = "JobStart" => rs[n].job = j
  BY SMTT(30), <1>3
<1>. QED  BY Zenon, <1>1, <1>2, <1>4, <1>5, StartsFirstConcat

\* A submission keeps TaskInv: a new job gives all its chunks to a feeder.
LEMMA TaskInvSubmit ==
  ASSUME Inv1, ~ReuseIDs, TaskInv, NEW c \in Conns, NEW j \in Jobs, Submit(c, j)
  PROVE  TaskInv'
<1>0. phase = "run" /\ phase' = "run" /\ StartsFirst(log)
  BY Zenon DEF TaskInv, Submit, SubmitStored, SubmitRunning, SubmitNew, SubmitEmpty, Submitting
<1>1. CASE SubmitStored(c, j) \/ SubmitRunning(c, j)
  BY Zenon, <1>0, <1>1, TasksStay DEF SubmitStored, SubmitRunning, memVars, walVars
<1>2. CASE SubmitNew(c, j)
  <2>1. StartsFirst(log \o <<JobStart(j)>>)
    BY Zenon, <1>0, <1>2, FirstOfNew DEF SubmitNew
  <2>2. StartsFirst(log')
    BY Zenon, <1>0, <1>2, <2>1 DEF SubmitNew, WriteLog
  <2>3. jobs' = jobs \cup {j} /\ done' = done /\ issued' = issued \cup {<<j, i>> : i \in Idx(j)}
    BY Zenon, <1>2 DEF SubmitNew
  <2>. QED  BY Zenon, <1>0, <2>2, <2>3, TasksStay
<1>3. CASE SubmitEmpty(c, j)
  <2>1. StartsFirst(log \o <<JobStart(j), JobDone(j, Zero)>>)
    BY Zenon, <1>0, <1>3, FirstOfNew DEF SubmitEmpty
  <2>2. StartsFirst(log')
    BY Zenon, <1>0, <1>3, <2>1 DEF SubmitEmpty, WriteLog
  <2>. QED  BY Zenon, <1>0, <1>3, <2>2, TasksStay DEF SubmitEmpty
<1>. QED  BY Zenon, <1>1, <1>2, <1>3 DEF Submit

\* A result keeps TaskInv: what is counted is no longer owed.
LEMMA TaskInvResult ==
  ASSUME Inv1, TaskInv, NEW t \in issued, Result(t)
  PROVE  TaskInv'
<1>0. /\ t[1] \in Jobs /\ t[2] \in AllIdx /\ log \in Seq(Record) /\ StartsFirst(log)
      /\ done \in [Jobs -> SUBSET AllIdx] /\ jobs \subseteq Jobs
  <2>1. /\ t \in Tasks /\ log \in Seq(Record) /\ StartsFirst(log)
        /\ done \in [Jobs -> SUBSET AllIdx] /\ jobs \subseteq Jobs
    BY Zenon DEF Inv1, TypeOK, TaskInv
  <2>. QED  BY Zenon, <2>1 DEF Tasks
<1>. DEFINE j == t[1]
            i == t[2]
<1>1. ASSUME NEW rs \in Seq(Record), NEW b, WriteLog(rs, b),
             \A n \in 1 .. Len(rs) : rs[n].typ # "JobStart"
      PROVE  StartsFirst(log')
  BY Zenon, <1>0, <1>1, StartsFirstMore DEF WriteLog
<1>2. CASE ResultDropped(t)
  BY Zenon, <1>0, <1>2, TasksStay DEF ResultDropped, vars, memVars, walVars
<1>3. CASE ResultCounted(t)
  <2>. DEFINE rs == <<ChunkDone(j, i)>>
  <2>1. rs \in Seq(Record) /\ \A n \in 1 .. Len(rs) : rs[n].typ # "JobStart"
    BY SMTT(30), <1>0, RecordTypes DEF ChunkDone
  <2>2. WriteLog(rs, FALSE)
    BY Zenon, <1>3 DEF ResultCounted
  <2>. HIDE DEF rs
  <2>3. StartsFirst(log')
    BY Zenon, <1>1, <2>1, <2>2
  <2>4. /\ UNCHANGED <<jobs, issued>> /\ \A k \in jobs : done[k] \subseteq done'[k]
        /\ phase = "run" /\ phase' = "run"
    BY Zenon, <1>0, <1>3 DEF ResultCounted
  <2>. QED  BY Zenon, <2>3, <2>4, TasksStay
<1>4. CASE ResultLast(t)
  <2>. DEFINE p == Merge(job[t[1]].acc, t[2])
              rs == <<ChunkDone(j, i), JobDone(j, p)>>
  <2>1. p \in Partial
    BY Zenon, <1>0, MergeType DEF Inv1, TypeOK, Job
  <2>2. WriteLog(rs, TRUE)
    BY Zenon, <1>4 DEF ResultLast
  <2>. HIDE DEF p
  <2>3. rs \in Seq(Record) /\ \A n \in 1 .. Len(rs) : rs[n].typ # "JobStart"
    <3>1. ChunkDone(j, i) \in Record /\ JobDone(j, p) \in Record
      BY Zenon, <1>0, <2>1, RecordTypes
    <3>2. ChunkDone(j, i).typ = "ChunkDone" /\ JobDone(j, p).typ = "JobDone"
      BY Zenon DEF ChunkDone, JobDone
    <3>3. rs \in Seq(Record)
      BY SMTT(30), <3>1
    <3>4. Len(rs) = 2 /\ rs[1] = ChunkDone(j, i) /\ rs[2] = JobDone(j, p)
      BY Zenon
    <3>5. \A n \in 1 .. 2 : n = 1 \/ n = 2
      BY SMTT(30)
    <3>. HIDE DEF rs
    <3>. QED  BY Zenon, <3>2, <3>3, <3>4, <3>5
  <2>. HIDE DEF rs
  <2>4. StartsFirst(log')
    BY Zenon, <1>1, <2>2, <2>3
  <2>5. /\ issued' = issued /\ jobs' \subseteq jobs /\ \A k \in jobs' : done'[k] = done[k]
        /\ phase = "run" /\ phase' = "run"
    BY Zenon, <1>0, <1>4 DEF ResultLast, Finish
  <2>. QED  BY Zenon, <2>4, <2>5, TasksStay
<1>. QED  BY Zenon, <1>2, <1>3, <1>4 DEF Result

\* A housekeeping tick keeps TaskInv.
LEMMA TaskInvTick ==
  ASSUME Inv1, TaskInv, NEW D \in SUBSET Orphans, NEW E \in SUBSET Stored, Tick(D, E)
  PROVE  TaskInv'
<1>. DEFINE drops == Drops(D, E)
            recs == [n \in 1 .. Len(drops) |-> JobDrop(drops[n])]
            K == [typ : {"JobDrop"}, job : Jobs]
<1>0. /\ TypeOK /\ results \in [Jobs -> Partial \cup {Nil}] /\ log \in Seq(Record) /\ StartsFirst(log)
      /\ D \in SUBSET Jobs /\ E \in SUBSET Jobs /\ jobs \subseteq Jobs
  BY Zenon DEF Inv1, TypeOK, TaskInv, Orphans, Stored
<1>1. recs \in Seq(K)
  BY Zenon, <1>0, DropsType DEF Drops
<1>2. K \subseteq Record /\ \A r \in K : r.typ # "JobStart"
  BY Zenon DEF Record
<1>3. StartsFirst(log \o recs)
  <2>. HIDE DEF recs, K
  <2>1. recs \in Seq(Record) /\ \A n \in 1 .. Len(recs) : recs[n].typ # "JobStart"
    BY Zenon, <1>1, <1>2, SeqWider, SeqMember
  <2>. QED  BY Zenon, <1>0, <2>1, StartsFirstMore
<1>4. log' = SnapshotResults(results') \/ log' = log \o recs \/ log' = log
  BY Zenon DEF Tick, Rewrite
<1>5. results' \in [Jobs -> Partial \cup {Nil}]
  BY Zenon, <1>0 DEF Tick
<1>6. StartsFirst(SnapshotResults(results'))
  <2>1. {} \in SUBSET Jobs /\ \A j \in {} : results'[j] = Nil
    BY Zenon
  <2>. QED  BY Zenon, <1>0, <1>5, <2>1, StartsFirstCompacted
<1>7. StartsFirst(log')
  BY Zenon, <1>0, <1>3, <1>4, <1>6
<1>8. /\ issued' = issued /\ jobs' \subseteq jobs /\ \A k \in jobs' : done'[k] = done[k]
      /\ phase = "run" /\ phase' = "run"
  BY Zenon, <1>0 DEF Tick, Finish
<1>. QED  BY Zenon, <1>7, <1>8, TasksStay

\* A restart from any surviving prefix of l keeps TaskInv.
LEMMA TaskInvRestart ==
  ASSUME Inv1, NEW l \in Seq(Record), StartsFirst(l), Restart(l)
  PROVE  TaskInv'
<1>1. PICK n \in synced .. Len(l) : log' = SubSeq(l, 1, n)
  BY Zenon DEF Restart
<1>2. n \in 0 .. Len(l)
  BY SMTT(30), <1>1, SeqLen DEF Inv1, TypeOK
<1>3. StartsFirst(log')
  BY Zenon, <1>1, <1>2, StartsFirstPrefix
<1>. QED  BY Zenon, <1>3 DEF TaskInv, NoTaskLost, Restart

\* A crash, also one in the middle of a handler, keeps TaskInv.
LEMMA TaskInvCrash ==
  ASSUME Inv1, ~ReuseIDs, TaskInv,
         \/ Crash
         \/ \E t \in issued : CrashInFinish(t)
         \/ \E c \in Conns, j \in Jobs : CrashInEmpty(c, j)
  PROVE  TaskInv'
<1>0. log \in Seq(Record) /\ StartsFirst(log) /\ issued \subseteq Tasks
  BY Zenon DEF Inv1, TypeOK, TaskInv
<1>1. CASE Crash
  BY Zenon, <1>0, <1>1, TaskInvRestart DEF Crash
<1>2. ASSUME NEW r \in Record, StartsFirst(log \o <<r>>), Restart(Append(log, r))
      PROVE  TaskInv'
  <2>1. Append(log, r) = log \o <<r>> /\ Append(log, r) \in Seq(Record)
    BY Zenon, <1>0, SeqSnoc, SeqAppend
  <2>. QED  BY Zenon, <1>2, <2>1, TaskInvRestart
<1>3. ASSUME NEW t \in issued, CrashInFinish(t)  PROVE TaskInv'
  <2>. DEFINE r == ChunkDone(t[1], t[2])
  <2>1. t[1] \in Jobs /\ t[2] \in AllIdx
    BY Zenon, <1>0 DEF Tasks
  <2>2. r \in Record /\ r.typ # "JobStart"
    BY Zenon, <2>1, RecordTypes DEF ChunkDone
  <2>3. Restart(Append(log, r))
    BY Zenon, <1>3 DEF CrashInFinish
  <2>. HIDE DEF r
  <2>4. <<r>> \in Seq(Record) /\ \A n \in 1 .. Len(<<r>>) : <<r>>[n].typ # "JobStart"
    BY SMTT(30), <2>2
  <2>5. StartsFirst(log \o <<r>>)
    BY Zenon, <1>0, <2>4, StartsFirstMore
  <2>. QED  BY Zenon, <1>2, <2>2, <2>3, <2>5
<1>4. ASSUME NEW c \in Conns, NEW j \in Jobs, CrashInEmpty(c, j)  PROVE TaskInv'
  <2>1. JobStart(j) \in Record /\ StartsFirst(log \o <<JobStart(j)>>)
    BY Zenon, <1>0, <1>4, RecordTypes, FirstOfNew DEF CrashInEmpty
  <2>. QED  BY Zenon, <1>2, <1>4, <2>1 DEF CrashInEmpty
<1>. QED  BY Zenon, <1>1, <1>3, <1>4

\* Replaying one record keeps TaskInv.
LEMMA TaskInvReplay ==
  ASSUME Inv1, TaskInv, ReplayRecord
  PROVE  TaskInv'
<1>0. /\ jobs \subseteq Jobs /\ log \in Seq(Record) /\ pos \in Nat
      /\ done \in [Jobs -> SUBSET AllIdx] /\ chunks \in [Jobs -> SUBSET AllIdx]
      /\ phase = "replay" /\ phase' = "replay" /\ log' = log /\ pos' = pos + 1
  BY SMTT(30), SeqLen DEF Inv1, TypeOK, ReplayRecord
<1>1. pos + 1 \in 1 .. Len(log)
  BY SMTT(30), <1>0, SeqLen DEF Inv1, TypeOK, ReplayRecord
<1>. DEFINE rec == log[pos + 1]
            k == rec.job
<1>2. rec \in Record /\ Replayed(rec)
  BY Zenon, <1>0, <1>1, SeqMember DEF ReplayRecord
<1>3. k \in Jobs
  BY Zenon, <1>2 DEF Record
<1>4. rec.typ = "JobStart" => chunks[k] = {}
  <2>1. rec.typ = "JobStart" => \A m \in 1 .. pos : log[m].job # k
    BY SMTT(30), <1>0, <1>1 DEF TaskInv, StartsFirst
  <2>. QED  BY Zenon, <1>0, <1>3, <2>1 DEF TaskInv
<1>5. \A j \in Jobs : (\E m \in 1 .. pos : log[m].job = j) \/ j = k => \E m \in 1 .. pos' : log'[m].job = j
  BY SMTT(30), <1>0, <1>1
<1>. HIDE DEF rec, k
<1>6. \A j \in Jobs : /\ j \in jobs => chunks[j] \subseteq done[j]
                      /\ chunks[j] # {} => \E m \in 1 .. pos : log[m].job = j
  BY Zenon, <1>0 DEF TaskInv
<1>7. ASSUME NEW j \in Jobs
      PROVE  /\ j \in jobs' => chunks'[j] \subseteq done'[j]
             /\ chunks'[j] # {} => chunks[j] # {} \/ j = k
  <2>1. CASE rec.typ = "JobStart" /\ ReplayStart(k)
    BY Zenon, <1>0, <1>3, <1>4, <1>6, <2>1 DEF ReplayStart
  <2>2. CASE ReplayChunk(k, rec.idx)
    BY Zenon, <1>0, <1>3, <1>6, <2>2 DEF ReplayChunk
  <2>3. ASSUME NEW r, ReplayEnd(k, r)
        PROVE  /\ j \in jobs' => chunks'[j] \subseteq done'[j]
               /\ chunks'[j] # {} => chunks[j] # {} \/ j = k
    BY Zenon, <1>0, <1>3, <1>6, <2>3 DEF ReplayEnd
  <2>4. CASE ReplaySkip(rec)
    BY Zenon, <1>6, <2>4 DEF ReplaySkip
  <2>. QED  BY Zenon, <1>2, <2>1, <2>2, <2>3, <2>4 DEF Replayed, k
<1>. QED  BY Zenon, <1>0, <1>5, <1>6, <1>7 DEF TaskInv, NoTaskLost

\* The end of recovery keeps TaskInv: the feeds skip only what is counted.
LEMMA TaskInvRecover ==
  ASSUME Inv1, RunningXorStored, TaskInv, RecoverDone
  PROVE  TaskInv'
<1>. DEFINE ended == {j \in jobs : job[j].remaining = 0}
            J == jobs \ ended
<1>0. /\ TypeOK /\ results \in [Jobs -> Partial \cup {Nil}] /\ jobs \subseteq Jobs
      /\ job \in [Jobs -> Job] /\ log \in Seq(Record) /\ StartsFirst(log)
      /\ phase = "replay" /\ phase' = "run"
  BY Zenon DEF Inv1, TypeOK, TaskInv, RecoverDone
<1>1. /\ results' = [j \in Jobs |-> IF j \in ended THEN job[j].acc ELSE results[j]]
      /\ log' = log \/ log' = Compacted(results', J)
      /\ issued' = Feed(J) /\ Finish(ended)
  BY Zenon DEF RecoverDone, Rewrite, walVars
<1>2. J \in SUBSET Jobs /\ J \cap ended = {} /\ ended \in SUBSET Jobs
  BY Zenon, <1>0
<1>3. \A j \in J : j \in jobs
  BY Zenon
<1>4. \A j \in jobs' : j \in J
  BY Zenon, <1>1 DEF Finish
<1>. HIDE DEF J, ended
<1>5. results' \in [Jobs -> Partial \cup {Nil}] /\ \A j \in J : results'[j] = Nil
  BY Zenon, <1>0, <1>1, <1>2, <1>3 DEF RunningXorStored, Job
<1>6. StartsFirst(log')
  BY Zenon, <1>0, <1>1, <1>2, <1>5, StartsFirstCompacted
<1>7. ASSUME NEW j \in jobs', NEW i \in Idx(j) \ done'[j]  PROVE <<j, i>> \in issued'
  <2>1. j \in J /\ j \in Jobs /\ done'[j] = done[j]
    BY Zenon, <1>1, <1>2, <1>4 DEF Finish
  <2>2. chunks[j] \subseteq done[j]
    BY Zenon, <1>0, <1>3, <2>1 DEF TaskInv
  <2>3. <<j, i>> \in {<<j, k>> : k \in Idx(j) \ chunks[j]}
    BY Zenon, <2>1, <2>2
  <2>. QED  BY Zenon, <1>1, <2>1, <2>3 DEF Feed
<1>. QED  BY Zenon, <1>0, <1>6, <1>7 DEF TaskInv, NoTaskLost

\* Every step keeps TaskInv.
LEMMA TaskInvNext ==
  ASSUME Inv1, ~ReuseIDs, RunningXorStored, TaskInv, [Next]_vars
  PROVE  TaskInv'
<1>1. ASSUME UNCHANGED <<phase, jobs, done, issued, chunks, log, pos>>  PROVE TaskInv'
  BY Zenon, <1>1 DEF TaskInv, NoTaskLost
<1>2. ASSUME NEW c \in Conns, \/ ClientGone(c) \/ ConnDies(c) \/ \E j \in Jobs : Request(c, j)
      PROVE  TaskInv'
  BY Zenon, <1>1, <1>2 DEF ClientGone, ConnDies, Request, memVars, walVars
<1>3. CASE DiskFails \/ UNCHANGED vars
  BY Zenon, <1>1, <1>3 DEF DiskFails, vars, memVars, walVars
<1>. QED
  BY Zenon, <1>2, <1>3, TaskInvSubmit, TaskInvResult, TaskInvTick, TaskInvCrash, TaskInvReplay,
     TaskInvRecover DEF Next

\* If job IDs are not reused, every chunk a running job still waits for has been
\* given to a feeder, however often the process crashed and replayed its log
\* (recover.go:36-112).  With reuse it fails: the run recovery_reuse shows how.
THEOREM TasksKept == ASSUME ~ReuseIDs PROVE Spec => []NoTaskLost
<1>1. Init => TaskInv
  <2>1. Init => jobs = {} /\ chunks = [j \in Jobs |-> {}] /\ log = <<>>
    BY Zenon DEF Init
  <2>. QED  BY Zenon, <2>1, StartsFirstEmpty DEF TaskInv, NoTaskLost
<1>2. Inv1 /\ RunningXorStored /\ TaskInv /\ [Next]_vars => TaskInv'
  BY Zenon, TaskInvNext
<1>3. TaskInv => NoTaskLost
  BY Zenon DEF TaskInv
<1>4. Spec => []Inv1
  BY ConnInvariant, PTL
<1>. QED  BY <1>1, <1>2, <1>3, <1>4, RunningOrStored, PTL DEF Spec
=============================================================================
