------------------------------- MODULE LogProofs -------------------------------
(***************************************************************************)
(* Proofs about Aggregator, alone and inside Scheduler: what the log says  *)
(* is what the aggregator knows, and what it acted upon is on the disk.    *)
(***************************************************************************)
EXTENDS SystemProofs, LogLemmas

-----------------------------------------------------------------------------
(* Recovery. *)

\* The log recovery writes back.
LEMMA CompactedState ==
  ASSUME TypeOK, NEW R \in [Jobs -> Partial \cup {Nil}], NEW J \in SUBSET Jobs,
         \A k \in J : R[k] = Nil, NEW j \in Jobs
  PROVE  LET l == Compacted(R, J)
         IN  /\ StateIn(l, Len(l), j) = IF j \in J THEN "JobStart"
                                        ELSE IF R[j] # Nil THEN "JobDone" ELSE "none"
             /\ j \in J => DoneIn(l, Len(l), j) = chunks[j]
<1>. DEFINE S0 == {JobDone(k, R[k]) : k \in {i \in Jobs : R[i] # Nil}}
            S1 == {JobStart(k) : k \in J}
            S2 == UNION {{ChunkDone(k, i) : i \in chunks[k]} : k \in J}
            T == S0 \cup S1 \cup S2
            A == Listing(S0)
            B == Listing(S1)
            C == Listing(S2)
            l == Compacted(R, J)
            n == Len(l)
<1>1. /\ IsFiniteSet(S0) /\ IsFiniteSet(S1) /\ IsFiniteSet(S2)
      /\ A \in Seq(S0) /\ B \in Seq(S1) /\ C \in Seq(S2)
  BY Zenon, SnapshotType, StartsType, ChunksType DEF SnapshotResults
<1>2. l = (A \o B) \o C
  BY Zenon DEF Compacted, SnapshotResults
<1>3. StartsFirst(l)
  BY Zenon, StartsFirstCompacted
<1>4. ASSUME NEW r \in T, r.job = j
      PROVE  /\ j \notin J => R[j] # Nil /\ r.typ = "JobDone"
             /\ j \in J => r = JobStart(j) \/ \E i \in chunks[j] : r = ChunkDone(j, i)
  <2>1. CASE r \in S0
    <3>1. PICK k \in Jobs : R[k] # Nil /\ r = JobDone(k, R[k])
      BY Zenon, <2>1
    <3>2. k = j /\ r.typ = "JobDone"
      BY Zenon, <1>4, <3>1 DEF JobDone
    <3>. QED  BY Zenon, <3>1, <3>2
  <2>2. CASE r \in S1
    <3>1. PICK k \in J : r = JobStart(k)
      BY Zenon, <2>2
    <3>2. k = j
      BY Zenon, <1>4, <3>1 DEF JobStart
    <3>. QED  BY Zenon, <3>1, <3>2
  <2>3. CASE r \in S2
    <3>1. PICK k \in J : r \in {ChunkDone(k, i) : i \in chunks[k]}
      BY Zenon, <2>3
    <3>2. PICK i \in chunks[k] : r = ChunkDone(k, i)
      BY Zenon, <3>1
    <3>3. k = j
      BY Zenon, <1>4, <3>2 DEF ChunkDone
    <3>. QED  BY Zenon, <3>1, <3>2, <3>3
  <2>. QED  BY Zenon, <2>1, <2>2, <2>3
<1>5. /\ R[j] # Nil => JobDone(j, R[j]) \in T
      /\ j \in J => JobStart(j) \in T /\ \A i \in chunks[j] : ChunkDone(j, i) \in T
  <2>1. R[j] # Nil => JobDone(j, R[j]) \in S0
    BY Zenon
  <2>2. j \in J => JobStart(j) \in S1
    BY Zenon
  <2>3. ASSUME j \in J, NEW i \in chunks[j]  PROVE ChunkDone(j, i) \in S2
    BY SMTT(30), <2>3
  <2>. HIDE DEF S0, S1, S2
  <2>. QED  BY Zenon, <2>1, <2>2, <2>3
<1>6. S0 \subseteq T /\ S1 \subseteq T /\ S2 \subseteq T /\ \A r \in T : r \in S0 \/ r \in S1 \/ r \in S2
  BY Zenon
<1>7. /\ JobStart(j).job = j /\ JobStart(j).typ = "JobStart"
      /\ JobDone(j, R[j]).job = j
  BY Zenon DEF JobStart, JobDone
<1>7b. \A i \in chunks[j] : LET r == ChunkDone(j, i)
                            IN  r.job = j /\ r.typ = "ChunkDone" /\ r.idx = i
  BY Zenon DEF ChunkDone
<1>. HIDE DEF S0, S1, S2, T, l
<1>8. l \in Seq(T) /\ \A r \in T : \E k \in 1 .. n : l[k] = r
  <2>. HIDE DEF A, B, C
  <2>1. A \in Seq(T) /\ B \in Seq(T) /\ C \in Seq(T)
    BY Zenon, <1>1, <1>6, SeqWider
  <2>2. A \o B \in Seq(T) /\ (A \o B) \o C \in Seq(T)
    BY Zenon, <2>1, SeqConcat
  <2>3. ASSUME NEW r \in T  PROVE Holds((A \o B) \o C, r)
    <3>1. Holds(A, r) \/ Holds(B, r) \/ Holds(C, r)
      BY Zenon, <1>1, <1>6, ListingIsAll DEF A, B, C, Holds
    <3>2. Holds(A, r) \/ Holds(B, r) => Holds(A \o B, r)
      BY Zenon, <2>1, ConcatIsAll
    <3>. QED  BY Zenon, <2>1, <2>2, <3>1, <3>2, ConcatIsAll
  <2>. QED  BY Zenon, <1>2, <2>2, <2>3 DEF Holds
<1>9. n \in Nat /\ \A k \in 1 .. n : l[k] \in T
  BY Zenon, <1>8, SeqLen, SeqMember
<1>. HIDE DEF n
<1>10. CASE j \in J
  <2>1. PICK k \in 1 .. n : l[k] = JobStart(j)
    BY Zenon, <1>5, <1>8, <1>10 DEF n
  <2>2. \A m \in 1 .. n : l[m].job = j => l[m] = JobStart(j) \/ \E i \in chunks[j] : l[m] = ChunkDone(j, i)
    BY Zenon, <1>4, <1>9, <1>10
  <2>3. ASSUME NEW m \in 1 .. n, l[m].job = j, m # k  PROVE l[m].typ = "ChunkDone" /\ k < m
    <3>1. \A x, y \in 1 .. n : x \in 1 .. y - 1 => ~(l[x].job = j /\ l[y] = JobStart(j))
      <4>. SUFFICES ASSUME NEW x \in 1 .. n, NEW y \in 1 .. n, x \in 1 .. y - 1, l[y] = JobStart(j)
                    PROVE  l[x].job # j
        BY Zenon
      <4>1. l[y].typ = "JobStart" /\ l[y].job = j
        BY Zenon, <1>7
      <4>. QED  BY Zenon, <1>3, <4>1 DEF StartsFirst, n
    <3>2. k < m \/ m < k
      BY SMTT(30), <1>9, <2>3
    <3>3. \A x, y \in 1 .. n : x < y => x \in 1 .. y - 1
      BY SMTT(30), <1>9
    <3>4. k < m
      BY Zenon, <2>1, <2>3, <3>1, <3>2, <3>3
    <3>5. l[m] # JobStart(j)
      <4>1. k \in 1 .. m - 1 /\ l[k].job = j
        BY Zenon, <1>7, <2>1, <3>3, <3>4
      <4>. QED  BY Zenon, <3>1, <4>1
    <3>6. PICK i \in chunks[j] : l[m] = ChunkDone(j, i)
      BY Zenon, <2>2, <2>3, <3>5
    <3>. QED  BY Zenon, <1>7b, <3>4, <3>6
  <2>. DEFINE X == ChunkRecs(l, n, j)
  <2>4. StateIn(l, n, j) = "JobStart" /\ DoneIn(l, n, j) = {l[m].idx : m \in X}
    <3>1. l[k].job = j /\ l[k].typ = "JobStart"
      BY Zenon, <1>7, <2>1
    <3>2. StartsAt(l, n, j, k)
      BY Zenon, <2>3, <3>1 DEF StartsAt
    <3>. QED  BY Zenon, <1>9, <3>2, StartedOnce
  <2>5. ASSUME NEW q \in X  PROVE l[q].idx \in chunks[j]
    <3>1. l[q].job = j /\ l[q].typ = "ChunkDone" /\ q \in 1 .. n
      BY Zenon DEF ChunkRecs
    <3>2. l[q] # JobStart(j)
      BY Zenon, <1>7, <3>1
    <3>3. PICK i \in chunks[j] : l[q] = ChunkDone(j, i)
      BY Zenon, <2>2, <3>1, <3>2
    <3>. QED  BY Zenon, <1>7b, <3>3
  <2>6. \A i \in chunks[j] : \E q \in X : l[q].idx = i
    <3>1. \A i \in chunks[j] : \E q \in 1 .. n : l[q] = ChunkDone(j, i)
      BY Zenon, <1>5, <1>8, <1>10 DEF n
    <3>. QED  BY Zenon, <1>7b, <3>1 DEF ChunkRecs
  <2>7. {l[m].idx : m \in X} = chunks[j]
    <3>. HIDE DEF X
    <3>. QED  BY SMTT(30), <2>5, <2>6
  <2>. QED  BY Zenon, <1>10, <2>4, <2>7 DEF n, l
<1>11. CASE j \notin J /\ R[j] # Nil
  <2>1. PICK k \in 1 .. n : l[k] = JobDone(j, R[j])
    BY Zenon, <1>5, <1>8, <1>11 DEF n
  <2>2. \A m \in 1 .. n : l[m].job = j => l[m].typ = "JobDone"
    BY Zenon, <1>4, <1>9, <1>11
  <2>3. "JobDone" # "ChunkDone" /\ 1 \in Nat \ {0}
    BY SMTT(30)
  <2>4. Ends(l, 1, n, j, "JobDone")
    <3>1. l[k].job = j
      BY Zenon, <1>7, <2>1
    <3>. QED  BY Zenon, <1>9, <2>2, <2>3, <3>1 DEF Ends
  <2>5. StateIn(l, n, j) = "JobDone"
    BY Zenon, <2>4, LastKind
  <2>. QED  BY Zenon, <1>11, <2>5 DEF n, l
<1>12. CASE j \notin J /\ R[j] = Nil
  <2>1. \A k \in 1 .. n : l[k].job # j
    BY Zenon, <1>4, <1>9, <1>12
  <2>2. StateIn(l, n, j) = "none"
    BY Zenon, <1>9, <2>1, Untouched
  <2>. QED  BY Zenon, <1>12, <2>2 DEF n, l
<1>. QED  BY Zenon, <1>10, <1>11, <1>12

\* Replaying one record is the fold that the log is read with.
LEMMA LogInvReplay ==
  ASSUME Inv1, TaskInv, LogInv, ReplayRecord
  PROVE  LogInv'
<1>. DEFINE rec == log[pos + 1]
            k == rec.job
<1>0. /\ jobs \subseteq Jobs /\ log \in Seq(Record) /\ pos \in Nat /\ Nil \notin Partial
      /\ done \in [Jobs -> SUBSET AllIdx] /\ chunks \in [Jobs -> SUBSET AllIdx]
      /\ results \in [Jobs -> Partial \cup {Nil}] /\ wal \in {"ok", "failing", "none"}
      /\ phase = "replay" /\ phase' = "replay" /\ log' = log /\ pos' = pos + 1 /\ wal' = wal
      /\ StartsFirst(log)
  BY SMTT(30), SeqLen, ConstantsOK DEF Inv1, TypeOK, TaskInv, ReplayRecord
<1>1. pos + 1 \in 1 .. Len(log)
  BY SMTT(30), <1>0, SeqLen DEF Inv1, TypeOK, ReplayRecord
<1>2. wal = "ok"
  <2>1. log # <<>>
    BY SMTT(30), <1>1
  <2>. QED  BY Zenon, <1>0, <2>1 DEF LogInv
<1>3. Matches(log, pos, jobs, results, done) /\ InRange(log) /\ \A j \in jobs : done[j] \subseteq chunks[j]
  BY Zenon, <1>0, <1>2 DEF LogInv
<1>4. rec \in Record /\ Replayed(rec) /\ k \in Jobs
  <2>1. rec \in Record /\ Replayed(rec)
    BY Zenon, <1>0, <1>1, SeqMember DEF ReplayRecord
  <2>. QED  BY Zenon, <2>1 DEF Record
<1>5. rec.typ = "JobStart" => k \notin jobs
  <2>. SUFFICES ASSUME rec.typ = "JobStart"  PROVE k \notin jobs
    BY Zenon
  <2>1. \A m \in 1 .. pos : log[m].job # k
    BY SMTT(30), <1>0, <1>1 DEF StartsFirst
  <2>2. StateIn(log, pos, k) = "none"
    BY Zenon, <1>0, <2>1, Untouched
  <2>3. "none" # "JobStart"
    BY Zenon
  <2>. QED  BY Zenon, <1>3, <1>4, <2>2, <2>3 DEF Matches
<1>6. rec.typ = "ChunkDone" => rec.idx \in Idx(k) /\ rec.idx < NTasks[k]
  <2>. SUFFICES ASSUME rec.typ = "ChunkDone"  PROVE rec.idx \in Idx(k) /\ rec.idx < NTasks[k]
    BY Zenon
  <2>1. rec.idx \in Idx(k)
    BY Zenon, <1>1, <1>3 DEF InRange
  <2>2. NTasks[k] \in Nat
    BY Zenon, <1>4, ConstantsOK
  <2>. HIDE DEF rec, k
  <2>. QED  BY SMTT(30), <2>1, <2>2 DEF Idx
<1>7. k \notin jobs => done[k] = {}
  BY Zenon, <1>4 DEF Inv1, ExactlyOnce
<1>. HIDE DEF rec, k
<1>8. /\ Applied(rec, jobs, results, done, jobs', results', done')
      /\ \A j \in jobs' : done'[j] \subseteq chunks'[j]
  <2>1. CASE rec.typ = "JobStart" /\ ReplayStart(k)
    <3>1. /\ jobs' = jobs \cup {k} /\ done' = done /\ chunks' = chunks /\ k \notin jobs
          /\ results'[k] = Nil /\ \A j \in Jobs \ {k} : results'[j] = results[j]
      BY Zenon, <1>0, <1>4, <2>1 DEF ReplayStart
    <3>2. Applied(rec, jobs, results, done, jobs', results', done')
      BY Zenon, <1>7, <2>1, <3>1 DEF Applied, k
    <3>. QED  BY Zenon, <1>3, <1>7, <3>1, <3>2
  <2>2. CASE rec.typ = "ChunkDone" /\ ReplayChunk(k, rec.idx)
    <3>1. /\ jobs' = jobs /\ results' = results
          /\ done'[k] = done[k] \cup {rec.idx} /\ chunks'[k] = chunks[k] \cup {rec.idx}
          /\ \A j \in Jobs \ {k} : done'[j] = done[j] /\ chunks'[j] = chunks[j]
      BY Zenon, <1>0, <1>4, <2>2 DEF ReplayChunk
    <3>2. Applied(rec, jobs, results, done, jobs', results', done')
      BY Zenon, <2>2, <3>1 DEF Applied, k
    <3>3. ASSUME NEW j \in jobs'  PROVE done'[j] \subseteq chunks'[j]
      <4>1. j \in jobs /\ j \in Jobs /\ done[j] \subseteq chunks[j]
        BY Zenon, <1>0, <1>3, <3>1
      <4>2. CASE j = k
        BY Zenon, <3>1, <4>1, <4>2
      <4>3. CASE j # k
        BY Zenon, <3>1, <4>1, <4>3
      <4>. QED  BY Zenon, <4>2, <4>3
    <3>. QED  BY Zenon, <3>2, <3>3
  <2>3. ASSUME NEW r, ReplayEnd(k, r), \/ rec.typ = "JobDone" /\ r # Nil
                                       \/ rec.typ = "JobDrop" /\ r = Nil
        PROVE  /\ Applied(rec, jobs, results, done, jobs', results', done')
               /\ \A j \in jobs' : done'[j] \subseteq chunks'[j]
    <3>1. /\ jobs' = jobs \ {k} /\ chunks' = chunks
          /\ results'[k] = r /\ \A j \in Jobs \ {k} : results'[j] = results[j] /\ done'[j] = done[j]
      BY Zenon, <1>0, <1>4, <2>3 DEF ReplayEnd
    <3>2. Applied(rec, jobs, results, done, jobs', results', done')
      BY Zenon, <2>3, <3>1 DEF Applied, k
    <3>3. \A j \in jobs' : j \in Jobs \ {k} /\ j \in jobs
      BY Zenon, <1>0, <3>1
    <3>. QED  BY Zenon, <1>3, <3>1, <3>2, <3>3
  <2>4. CASE ReplaySkip(rec)
    <3>1. jobs' = jobs /\ done' = done /\ results' = results /\ chunks' = chunks
      BY Zenon, <2>4 DEF ReplaySkip
    <3>2. rec.typ = "ChunkDone" /\ ~Counts(<<k, rec.idx>>)
      BY Zenon, <1>5, <2>4 DEF ReplaySkip, k
    <3>3. k \in jobs => rec.idx \in done[k]
      BY SMTT(30), <1>6, <3>2 DEF Counts
    <3>4. k \in jobs => done[k] = done[k] \cup {rec.idx}
      BY Zenon, <3>3
    <3>5. Applied(rec, jobs, results, done, jobs', results', done')
      BY Zenon, <3>1, <3>2, <3>4 DEF Applied, k
    <3>. QED  BY Zenon, <1>3, <3>1, <3>5
  <2>5. rec.typ = "JobDone" => rec.acc # Nil
    <3>1. rec.typ = "JobDone" => rec.acc \in Partial
      BY SMTT(30), <1>4 DEF Record
    <3>. QED  BY Zenon, <1>0, <3>1
  <2>. QED  BY Zenon, <1>4, <2>1, <2>2, <2>3, <2>4, <2>5 DEF Replayed, k
<1>9. Matches(log, pos + 1, jobs', results', done')
  BY Zenon, <1>0, <1>3, <1>8, MatchesNext DEF rec
<1>10. "replay" # "run" /\ "ok" # "none" /\ "ok" # "failing"
  BY Zenon
<1>. QED  BY Zenon, <1>0, <1>2, <1>3, <1>8, <1>9, <1>10 DEF LogInv

\* The end of recovery keeps LogInv: the compacted log yields the same state.
LEMMA LogInvRecover ==
  ASSUME Inv1, RunningXorStored, TaskInv, LogInv, RecoverDone
  PROVE  LogInv'
<1>. DEFINE ended == {j \in jobs : job[j].remaining = 0}
            J == jobs \ ended
<1>0. /\ TypeOK /\ results \in [Jobs -> Partial \cup {Nil}] /\ jobs \subseteq Jobs
      /\ job \in [Jobs -> Job] /\ log \in Seq(Record) /\ Nil \notin Partial
      /\ phase = "replay" /\ phase' = "run" /\ pos = Len(log)
      /\ InRange(log) /\ (wal = "none" => log = <<>>)
  BY Zenon, ConstantsOK DEF Inv1, TypeOK, LogInv, RecoverDone
<1>1. /\ results' = [j \in Jobs |-> IF j \in ended THEN job[j].acc ELSE results[j]]
      /\ jobs' = J /\ done' = [j \in Jobs |-> IF j \in ended THEN {} ELSE done[j]]
      /\ IF log # <<>> THEN Rewrite(Compacted(results', J)) ELSE UNCHANGED walVars
  BY Zenon DEF RecoverDone, Finish
<1>2. J \in SUBSET Jobs /\ J \cap ended = {} /\ ended \in SUBSET Jobs /\ J \subseteq jobs /\ ended \subseteq jobs
  BY Zenon, <1>0
<1>. HIDE DEF J, ended
<1>3. results' \in [Jobs -> Partial \cup {Nil}] /\ \A j \in J : results'[j] = Nil
  BY Zenon, <1>0, <1>1, <1>2 DEF RunningXorStored, Job
<1>4. ASSUME NEW j \in J  PROVE done'[j] = chunks[j] /\ chunks[j] \subseteq Idx(j)
  <2>1. j \in jobs /\ j \in Jobs /\ done'[j] = done[j]
    BY Zenon, <1>1, <1>2
  <2>2. chunks[j] \subseteq done[j] /\ done[j] \subseteq chunks[j] /\ done[j] \subseteq Idx(j)
    BY Zenon, <1>0, <2>1 DEF TaskInv, LogInv, Inv1, ExactlyOnce
  <2>. QED  BY Zenon, <2>1, <2>2
<1>5. CASE log # <<>>
  <2>. DEFINE l == Compacted(results', J)
  <2>1. log' = l /\ pos' = Len(l) /\ wal' = "ok" /\ "ok" # "none"
    BY Zenon, <1>1, <1>5 DEF Rewrite
  <2>2. InRange(l)
    BY Zenon, <1>0, <1>2, <1>3, <1>4, InRangeCompacted
  <2>3. ASSUME NEW j \in Jobs
        PROVE  /\ StateIn(l, Len(l), j) = IF j \in J THEN "JobStart"
                                          ELSE IF results'[j] # Nil THEN "JobDone" ELSE "none"
               /\ j \in J => DoneIn(l, Len(l), j) = chunks[j]
    BY Zenon, <1>0, <1>2, <1>3, CompactedState
  <2>. HIDE DEF l
  <2>4. ASSUME NEW j \in Jobs
        PROVE  /\ j \in jobs' <=> StateIn(l, Len(l), j) = "JobStart"
               /\ results'[j] # Nil <=> StateIn(l, Len(l), j) = "JobDone"
               /\ j \in jobs' => done'[j] = DoneIn(l, Len(l), j)
    <3>1. "JobDone" # "JobStart" /\ "none" # "JobStart" /\ "none" # "JobDone"
      BY Zenon
    <3>. QED  BY Zenon, <1>1, <1>3, <1>4, <2>3, <3>1
  <2>5. Matches(l, Len(l), jobs', results', done')
    BY Zenon, <2>4 DEF Matches
  <2>. QED  BY Zenon, <1>0, <2>1, <2>2, <2>5, LogInvRun
<1>6. CASE log = <<>>
  <2>1. log' = log /\ pos' = pos /\ wal' = wal
    BY Zenon, <1>1, <1>6 DEF walVars
  <2>2. ASSUME wal = "ok"  PROVE Matches(log', Len(log'), jobs', results', done')
    <3>1. Matches(log, pos, jobs, results, done) /\ pos = 0
      BY Zenon, <1>0, <1>6, <2>2 DEF LogInv
    <3>2. "none" # "JobStart" /\ "none" # "JobDone"
      BY Zenon
    <3>3. \A j \in Jobs : j \notin jobs /\ results[j] = Nil
      BY Zenon, <3>1, <3>2, StateAtStart DEF Matches
    <3>4. jobs' = {} /\ \A j \in Jobs : results'[j] = Nil
      BY Zenon, <1>1, <1>2, <3>3
    <3>5. Len(log') = 0
      BY Zenon, <1>0, <2>1, <3>1
    <3>. QED  BY Zenon, <3>4, <3>5, MatchesNothing
  <2>. QED  BY Zenon, <1>0, <2>1, <2>2, LogInvRun
<1>. QED  BY Zenon, <1>5, <1>6

-----------------------------------------------------------------------------
(* The log alone tells the state. *)

\* Every step keeps LogInv.
LEMMA LogInvNext ==
  ASSUME Inv1, RunningXorStored, TaskInv, LogInv, [Next]_vars
  PROVE  LogInv'
<1>1. ASSUME NEW c \in Conns, \/ ClientGone(c) \/ ConnDies(c) \/ \E j \in Jobs : Request(c, j)
      PROVE  LogInv'
  BY Zenon, <1>1, LogInvSame DEF ClientGone, ConnDies, Request, memVars, walVars
<1>2. CASE UNCHANGED vars
  BY Zenon, <1>2, LogInvSame DEF vars, memVars, walVars
<1>3. CASE DiskFails
  <2>1. /\ log' = log /\ phase = "run" /\ phase' = "run" /\ wal' = "failing"
        /\ "failing" # "ok" /\ "failing" # "none"
    BY Zenon, <1>3 DEF DiskFails
  <2>2. InRange(log)
    BY Zenon DEF LogInv
  <2>. QED  BY Zenon, <2>1, <2>2, LogInvRun
<1>. QED
  BY Zenon, <1>1, <1>2, <1>3, LogInvSubmit, LogInvResult, LogInvTick, LogInvCrash, LogInvReplay,
     LogInvRecover DEF Next

\* LogInv holds initially.
LEMMA LogInvInit == Init => LogInv
<1>. SUFFICES ASSUME Init  PROVE LogInv
  BY Zenon
<1>1. /\ log = <<>> /\ pos = 0 /\ jobs = {} /\ done = [j \in Jobs |-> {}]
      /\ results = [j \in Jobs |-> Nil] /\ wal \in WalModes
  BY Zenon DEF Init
<1>2. Len(log) = 0 /\ 1 .. 0 = {} /\ wal # "failing"
  BY SMTT(30), <1>1, ConstantsOK
<1>3. Matches(log, pos, jobs, results, done)
  BY Zenon, <1>1, MatchesNothing
<1>4. InRange(log)
  BY Zenon, <1>2 DEF InRange
<1>. QED  BY Zenon, <1>1, <1>2, <1>3, <1>4 DEF LogInv

\* The inductive invariants of the aggregator together.
LEMMA LogInvariant == ASSUME ~ReuseIDs PROVE Spec => [](Inv1 /\ RunningXorStored /\ TaskInv /\ LogInv)
<1>1. Init => TaskInv
  <2>1. Init => jobs = {} /\ chunks = [j \in Jobs |-> {}] /\ log = <<>>
    BY Zenon DEF Init
  <2>. QED  BY Zenon, <2>1, StartsFirstEmpty DEF TaskInv, NoTaskLost
<1>2. Inv1 /\ RunningXorStored /\ TaskInv /\ [Next]_vars => TaskInv'
  BY Zenon, TaskInvNext
<1>3. Inv1 /\ RunningXorStored /\ TaskInv /\ LogInv /\ [Next]_vars => LogInv'
  BY Zenon, LogInvNext
<1>4. Spec => []Inv1
  BY ConnInvariant, PTL
<1>. QED  BY <1>1, <1>2, <1>3, <1>4, LogInvInit, RunningOrStored, PTL DEF Spec

\* If job IDs are not reused, the log alone tells the state: which jobs run, which
\* chunks they have counted and which answers are stored are what its records say,
\* in every step of the aggregator, of a replay and of the recovery that follows it
\* (recover.go:31-112, aggregator.go:42-60).
THEOREM LogTellsState == ASSUME ~ReuseIDs PROVE Spec => []StateMatchesLog
<1>1. LogInv => StateMatchesLog
  BY Zenon, LogIsRead DEF LogInv, Matches, StateMatchesLog
<1>. QED  BY <1>1, LogInvariant, PTL

-----------------------------------------------------------------------------
(* What is used is on the disk. *)

\* Every step keeps DurInv.
LEMMA DurNext ==
  ASSUME Inv1, Inv1', LogInv', DurInv, [Next]_vars
  PROVE  DurInv'
<1>0. TypeOK /\ TypeOK'
  BY Zenon DEF Inv1
<1>1. ASSUME UNCHANGED <<phase, jobs, results, walVars>>  PROVE DurInv'
  BY Zenon, <1>1 DEF DurInv, walVars
<1>2. ASSUME NEW c \in Conns, \/ ClientGone(c) \/ ConnDies(c) \/ \E j \in Jobs : Request(c, j)
      PROVE  DurInv'
  BY Zenon, <1>1, <1>2 DEF ClientGone, ConnDies, Request, memVars
<1>3. CASE UNCHANGED vars
  BY Zenon, <1>1, <1>3 DEF vars, memVars
<1>4. ASSUME phase' = "replay" \/ wal' = "failing"  PROVE DurInv'
  <2>1. "replay" # "run" /\ "failing" # "ok"
    BY Zenon
  <2>. QED  BY Zenon, <1>4, <2>1 DEF DurInv
<1>5. CASE DiskFails \/ ReplayRecord
  BY Zenon, <1>4, <1>5 DEF DiskFails, ReplayRecord
<1>6. ASSUME NEW l, Restart(l)  PROVE DurInv'
  BY Zenon, <1>4, <1>6 DEF Restart
<1>7. CASE RecoverDone
  <2>1. CASE log # <<>>
    <3>1. synced' = Len(log')
      BY Zenon, <1>7, <2>1 DEF RecoverDone, Rewrite
    <3>. QED  BY Zenon, <1>0, <3>1, DurableSynced
  <2>2. CASE log = <<>>
    <3>1. synced' = synced /\ log' = log
      BY Zenon, <1>7, <2>2 DEF RecoverDone, walVars
    <3>2. synced = 0 /\ Len(log) = 0
      BY SMTT(30), <1>0, <2>2 DEF TypeOK
    <3>. QED  BY Zenon, <1>0, <3>1, <3>2, DurableSynced
  <2>. QED  BY Zenon, <2>1, <2>2
<1>. QED
  BY Zenon, <1>2, <1>3, <1>5, <1>6, <1>7, DurSubmit, DurResult, DurTick
  DEF Next, Crash, CrashInFinish, CrashInEmpty

\* If job IDs are not reused, a job whose tasks are handed out and an answer that is
\* stored or sent again survive a crash at any moment: their record is in the synced
\* part of the log (aggregator.go:42-60, 129-131, 152-157).
THEOREM UsedIsDurable == ASSUME ~ReuseIDs PROVE Spec => []DurableBeforeUse
<1>1. Init => DurInv
  <2>1. "replay" # "run"
    BY Zenon
  <2>. QED  BY Zenon, <2>1 DEF Init, DurInv
<1>2. Inv1 /\ Inv1' /\ LogInv' /\ DurInv /\ [Next]_vars => DurInv'
  BY Zenon, DurNext
<1>3. DurInv => DurableBeforeUse
  BY Zenon, DurIs
<1>. QED  BY <1>1, <1>2, <1>3, LogInvariant, PTL DEF Spec

-----------------------------------------------------------------------------
(* The log of the whole scheduler. *)

\* A step of the scheduler keeps both invariants.  Beside the steps of the aggregator
\* there are the ones that end it: the log is synced and closed, and handlers leave.
LEMMA LogInvScheduler ==
  ASSUME AggInv, AggInv', SInv, TaskInv, LogInv, DurInv, [SNext]_svars
  PROVE  LogInv' /\ DurInv'
<1>1. Inv1 /\ Inv1' /\ RunningXorStored
  BY Zenon DEF AggInv
<1>2. CASE [Next]_vars
  <2>1. LogInv'
    BY Zenon, <1>1, <1>2, LogInvNext
  <2>. QED  BY Zenon, <1>1, <1>2, <2>1, DurNext
<1>3. CASE AggregatorStops \/ \E c \in Conns : HandlerStops(c)
  <2>1. /\ phase' = phase /\ jobs' = jobs /\ results' = results /\ done' = done /\ chunks' = chunks
        /\ wal' = wal /\ log' = log /\ dirty' = dirty /\ pos' = pos
        /\ synced' = synced \/ synced' = Len(log)
    BY Zenon, <1>3 DEF AggregatorStops, HandlerStops, memVars, walVars
  <2>2. LogInv'
    BY Zenon, <2>1 DEF LogInv
  <2>3. CASE synced' = synced
    BY Zenon, <2>1, <2>2, <2>3 DEF DurInv
  <2>4. CASE synced' = Len(log')
    BY Zenon, <1>1, <2>2, <2>4, DurableSynced DEF Inv1
  <2>. QED  BY Zenon, <2>1, <2>2, <2>3, <2>4
<1>. QED  BY Zenon, <1>1, <1>2, <1>3, AggregatorStep

\* What holds of the log of the aggregator alone holds in the whole scheduler, also
\* while the server is being closed: the log tells the state, and what was acted upon
\* is on the disk (recover.go:31-112, aggregator.go:42-60, 129-131, 152-157).
THEOREM ScheduledLog == ASSUME ~ReuseIDs PROVE SSpec => [](StateMatchesLog /\ DurableBeforeUse)
<1>1. SInit => TaskInv /\ LogInv /\ DurInv
  <2>. SUFFICES ASSUME SInit  PROVE TaskInv /\ LogInv /\ DurInv
    BY Zenon
  <2>1. Init
    BY Zenon DEF SInit
  <2>2. jobs = {} /\ chunks = [j \in Jobs |-> {}] /\ log = <<>> /\ phase = "replay" /\ "replay" # "run"
    BY Zenon, <2>1 DEF Init
  <2>3. TaskInv
    BY Zenon, <2>2, StartsFirstEmpty DEF TaskInv, NoTaskLost
  <2>4. DurInv
    BY Zenon, <2>2 DEF DurInv
  <2>. QED  BY Zenon, <2>1, <2>3, <2>4, LogInvInit
<1>2. (AggInv /\ SInv) /\ (AggInv /\ SInv)' /\ TaskInv /\ LogInv /\ DurInv /\ [SNext]_svars
        => (TaskInv /\ LogInv /\ DurInv)'
  BY Zenon, TaskInvScheduler, LogInvScheduler
<1>3. LogInv /\ DurInv => StateMatchesLog /\ DurableBeforeUse
  BY Zenon, DurIs, LogIsRead DEF LogInv, Matches, StateMatchesLog
<1>. QED  BY <1>1, <1>2, <1>3, SchedulerInvariant, PTL DEF SSpec
=============================================================================
