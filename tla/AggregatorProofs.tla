--------------------------- MODULE AggregatorProofs ---------------------------
(* Proofs about the aggregator, for every value of its constants. *)
EXTENDS Aggregator, FiniteSetTheorems, TLAPS

-----------------------------------------------------------------------------
(* Sequences. *)

\* A sequence is a function on an interval.
LEMMA SeqLen ==
  ASSUME NEW S, NEW q \in Seq(S)
  PROVE  Len(q) \in Nat /\ DOMAIN q = 1 .. Len(q) /\ q \in [1 .. Len(q) -> S]
BY SMTT(30)

\* A sequence over S is one over every larger set.
LEMMA SeqWider ==
  ASSUME NEW S, NEW T, S \subseteq T, NEW q \in Seq(S)
  PROVE  q \in Seq(T)
BY SMTT(30)

\* The elements of a sequence over S are in S.
LEMMA SeqMember ==
  ASSUME NEW S, NEW q \in Seq(S), NEW i \in 1 .. Len(q)
  PROVE  q[i] \in S
BY SMTT(30)

\* The type, length and elements of a concatenation.
LEMMA SeqConcat ==
  ASSUME NEW S, NEW p \in Seq(S), NEW q \in Seq(S)
  PROVE  /\ p \o q \in Seq(S) /\ Len(p \o q) = Len(p) + Len(q)
         /\ \A i \in 1 .. Len(p) + Len(q) : (p \o q)[i] = IF i <= Len(p) THEN p[i] ELSE q[i - Len(p)]
BY SMTT(30)

\* The type, length and elements of an appended sequence.
LEMMA SeqAppend ==
  ASSUME NEW S, NEW q \in Seq(S), NEW x \in S
  PROVE  /\ Append(q, x) \in Seq(S) /\ Append(q, x) # <<>> /\ Len(Append(q, x)) = Len(q) + 1
         /\ \A i \in 1 .. Len(q) : Append(q, x)[i] = q[i]
         /\ Append(q, x)[Len(q) + 1] = x
BY SMTT(30)

\* Append is concatenation with one element.
LEMMA SeqSnoc ==
  ASSUME NEW S, NEW q \in Seq(S), NEW x \in S
  PROVE  Append(q, x) = q \o <<x>>
BY SMTT(30)

\* The type, length and elements of a prefix.
LEMMA SeqPrefix ==
  ASSUME NEW S, NEW q \in Seq(S), NEW n \in 0 .. Len(q)
  PROVE  /\ SubSeq(q, 1, n) \in Seq(S) /\ Len(SubSeq(q, 1, n)) = n
         /\ \A i \in 1 .. n : SubSeq(q, 1, n)[i] = q[i]
BY SMTT(30)

-----------------------------------------------------------------------------
(* Lemmas about the helpers. *)

\* Listing lists the elements of a finite set, none of them twice.
LEMMA ListingIsSeq ==
  ASSUME NEW S, IsFiniteSet(S)
  PROVE  Listing(S) \in Seq(S) /\ IsInjective(Listing(S))
<1>1. PICK n \in Nat : ExistsBijection(1 .. n, S)
  BY Zenon, FS_NatBijection
<1>2. n = Cardinality(S)
  BY Zenon, <1>1, FS_CountingElements
<1>3. PICK f \in Bijection(1 .. n, S) : TRUE
  BY Zenon, <1>1 DEF ExistsBijection
<1>4. f \in [1 .. Cardinality(S) -> S] /\ IsInjective(f)
  BY Zenon, <1>2, <1>3 DEF Bijection, Injection, IsInjective
<1>5. Listing(S) \in [1 .. Cardinality(S) -> S] /\ IsInjective(Listing(S))
  BY Zenon, <1>4 DEF Listing, Listings
<1>. QED
  BY SMTT(30), <1>2, <1>5

\* The image of a finite set under a function is finite.
LEMMA ImageIsFinite ==
  ASSUME NEW S, NEW T, NEW f \in [S -> T], IsFiniteSet(S),
         \A y \in T : \E x \in S : f[x] = y
  PROVE  IsFiniteSet(T)
<1>1. f \in Surjection(S, T)
  BY Zenon DEF Surjection
<1>. QED
  BY Zenon, <1>1, FS_Surjection

\* The indices of a job: finitely many, NTasks[j] of them, all in AllIdx.
LEMMA IdxFacts ==
  ASSUME NEW j \in Jobs
  PROVE  /\ NTasks[j] \in Nat
         /\ Idx(j) \subseteq AllIdx
         /\ IsFiniteSet(Idx(j))
         /\ Cardinality(Idx(j)) = NTasks[j]
<1>1. NTasks[j] \in Nat /\ Idx(j) \subseteq AllIdx
  BY Zenon, ConstantsOK DEF AllIdx
<1>2. \A n \in Int : IsFiniteSet(0 .. n) /\ Cardinality(0 .. n) = IF 0 > n THEN 0 ELSE n + 1
  BY SMTT(30), FS_Interval
<1>3. NTasks[j] - 1 \in Int
  BY SMTT(30), <1>1
<1>. DEFINE m == NTasks[j] - 1
<1>4. IsFiniteSet(0 .. m) /\ Cardinality(0 .. m) = IF 0 > m THEN 0 ELSE m + 1
  <2>. HIDE DEF m
  <2>. QED  BY Zenon, <1>2, <1>3 DEF m
<1>5. (IF 0 > m THEN 0 ELSE m + 1) = NTasks[j]
  BY SMTT(30), <1>1
<1>6. IsFiniteSet(Idx(j)) /\ Cardinality(Idx(j)) = NTasks[j]
  BY SMTT(30), <1>4, <1>5 DEF Idx
<1>. QED
  BY Zenon, <1>1, <1>6

\* There are finitely many task indices, all of them natural numbers.
LEMMA AllIdxIsFinite == IsFiniteSet(AllIdx) /\ AllIdx \subseteq Nat
<1>. DEFINE T == {Idx(j) : j \in Jobs}
            f == [j \in Jobs |-> Idx(j)]
<1>1. f \in [Jobs -> T] /\ \A y \in T : \E x \in Jobs : f[x] = y
  BY Zenon
<1>2. IsFiniteSet(T)
  <2>. HIDE DEF T, f
  <2>. QED  BY Zenon, <1>1, ImageIsFinite, ConstantsOK
<1>3. \A U \in T : IsFiniteSet(U)
  BY Zenon, IdxFacts
<1>4. IsFiniteSet(UNION T)
  <2>. HIDE DEF T
  <2>. QED  BY Zenon, <1>2, <1>3, FS_UNION
<1>. QED
  BY SMTT(30), <1>4, ConstantsOK DEF AllIdx, Idx

\* Counting one more chunk of a job whose counted chunks are S.
LEMMA CountOne ==
  ASSUME NEW j \in Jobs, NEW S \in SUBSET Idx(j), NEW i \in Idx(j), i \notin S
  PROVE  /\ Cardinality(S) \in Nat
         /\ Cardinality(S) < NTasks[j]
         /\ Cardinality(S \cup {i}) = Cardinality(S) + 1
         /\ Merge(Counted(S), i) = Counted(S \cup {i})
<1>1. IsFiniteSet(S) /\ Cardinality(S) \in Nat
  BY Zenon, IdxFacts, FS_Subset, FS_CardinalityType
<1>2. Cardinality(S \cup {i}) = Cardinality(S) + 1 /\ IsFiniteSet(S \cup {i})
  BY Zenon, <1>1, FS_AddElement
<1>3. Cardinality(S \cup {i}) <= NTasks[j]
  BY SMTT(30), IdxFacts, FS_Subset
<1>4. i \in AllIdx
  BY Zenon, IdxFacts
<1>5. Merge(Counted(S), i) = Counted(S \cup {i})
  <2>1. \A k \in AllIdx : Merge(Counted(S), i)[k] = Counted(S \cup {i})[k]
    BY SMTT(30), <1>4 DEF Merge, Counted
  <2>2. DOMAIN Merge(Counted(S), i) = AllIdx /\ DOMAIN Counted(S \cup {i}) = AllIdx
    BY Zenon DEF Merge, Counted
  <2>. QED
    BY Zenon, <2>1, <2>2 DEF Merge, Counted
<1>. QED
  BY SMTT(30), <1>1, <1>2, <1>3, <1>5, IdxFacts

\* A job none of whose chunks is missing has counted all of them.
LEMMA CountAll ==
  ASSUME NEW j \in Jobs, NEW S \in SUBSET Idx(j), Cardinality(S) = NTasks[j]
  PROVE  S = Idx(j)
BY Zenon, IdxFacts, FS_Subset

\* With nothing counted, the accumulator is Zero.
LEMMA CountNone == Counted({}) = Zero /\ Zero \in Partial /\ Cardinality({}) = 0
BY Zenon, FS_EmptySet DEF Counted, Zero, Partial

-----------------------------------------------------------------------------
(* Type correctness and exactly-once counting are one inductive invariant: *)
(* that remaining stays a natural number needs the count.                  *)

Inv1 == TypeOK /\ ExactlyOnce

\* The records the aggregator writes are well formed.
LEMMA RecordTypes ==
  ASSUME NEW j \in Jobs
  PROVE  /\ JobStart(j) \in Record /\ JobDrop(j) \in Record
         /\ \A i \in AllIdx : ChunkDone(j, i) \in Record
         /\ \A p \in Partial : JobDone(j, p) \in Record
BY Zenon DEF JobStart, JobDrop, ChunkDone, JobDone, Record

\* Writing well-formed records keeps the log well formed.
LEMMA WriteLogType ==
  ASSUME TypeOK, NEW rs \in Seq(Record), NEW b \in BOOLEAN, WriteLog(rs, b)
  PROVE  /\ wal' \in {"ok", "failing", "none"} /\ dirty' \in BOOLEAN
         /\ log' \in Seq(Record)
         /\ synced' \in 0 .. Len(log') /\ pos' \in 0 .. Len(log')
<1>1. CASE wal = "ok"
  <2>1. log' = log \o rs /\ log' \in Seq(Record) /\ Len(log') = Len(log) + Len(rs)
    <3>1. log' = log \o rs
      BY Zenon, <1>1 DEF WriteLog
    <3>2. log \in Seq(Record)
      BY Zenon DEF TypeOK
    <3>. QED
      BY Zenon, <3>1, <3>2, SeqConcat
  <2>. QED
    BY SMTT(30), <1>1, <2>1 DEF TypeOK, WriteLog
<1>2. CASE wal # "ok"
  BY Zenon, <1>2 DEF TypeOK, WriteLog
<1>. QED
  BY Zenon, <1>1, <1>2

\* The snapshot of the stored answers is a well-formed log.
LEMMA SnapshotType ==
  ASSUME NEW R \in [Jobs -> Partial \cup {Nil}]
  PROVE  LET S == {JobDone(j, R[j]) : j \in {k \in Jobs : R[k] # Nil}}
         IN  SnapshotResults(R) \in Seq(S) /\ S \subseteq Record /\ IsFiniteSet(S)
<1>. DEFINE K == {k \in Jobs : R[k] # Nil}
            f == [j \in K |-> JobDone(j, R[j])]
            S == {JobDone(j, R[j]) : j \in K}
<1>1. IsFiniteSet(K)
  BY Zenon, FS_Subset, ConstantsOK
<1>2. f \in [K -> S] /\ \A y \in S : \E x \in K : f[x] = y
  BY Zenon
<1>3. IsFiniteSet(S)
  <2>. HIDE DEF K, S, f
  <2>. QED  BY Zenon, <1>1, <1>2, ImageIsFinite
<1>4. S \subseteq Record
  BY Zenon, RecordTypes
<1>. QED
  BY Zenon, <1>3, <1>4, ListingIsSeq DEF SnapshotResults

\* The JobStart records recovery writes back, each job's once.
LEMMA StartsType ==
  ASSUME NEW J \in SUBSET Jobs
  PROVE  LET S == {JobStart(j) : j \in J}
         IN  /\ Listing(S) \in Seq(S) /\ IsInjective(Listing(S))
             /\ S \subseteq Record /\ IsFiniteSet(S)
<1>. DEFINE S == {JobStart(j) : j \in J}
            f == [j \in J |-> JobStart(j)]
<1>1. f \in [J -> S] /\ \A y \in S : \E x \in J : f[x] = y
  BY Zenon
<1>2. IsFiniteSet(J)
  BY Zenon, ConstantsOK, FS_Subset
<1>3. IsFiniteSet(S)
  <2>. HIDE DEF S, f
  <2>. QED  BY Zenon, <1>1, <1>2, ImageIsFinite
<1>4. S \subseteq Record
  BY Zenon, RecordTypes
<1>. QED  BY Zenon, <1>3, <1>4, ListingIsSeq

\* The ChunkDone records recovery writes back.
LEMMA ChunksType ==
  ASSUME TypeOK, NEW J \in SUBSET Jobs
  PROVE  LET S == UNION {{ChunkDone(j, i) : i \in chunks[j]} : j \in J}
         IN  /\ Listing(S) \in Seq(S) /\ IsFiniteSet(S)
             /\ S \subseteq [typ : {"ChunkDone"}, job : Jobs, idx : AllIdx]
<1>. DEFINE S == UNION {{ChunkDone(j, i) : i \in chunks[j]} : j \in J}
            P == {t \in Jobs \X AllIdx : t[1] \in J /\ t[2] \in chunks[t[1]]}
            f == [t \in P |-> ChunkDone(t[1], t[2])]
<1>1. S \subseteq [typ : {"ChunkDone"}, job : Jobs, idx : AllIdx]
  <2>. SUFFICES ASSUME NEW j \in J, NEW i, i \in chunks[j]
                PROVE  ChunkDone(j, i) \in [typ : {"ChunkDone"}, job : Jobs, idx : AllIdx]
    BY SMTT(30)
  <2>. QED  BY Zenon DEF TypeOK, ChunkDone
<1>2. \A t \in P : f[t] \in S
  BY SMTT(30)
<1>3. \A y \in S : \E x \in P : f[x] = y
  <2>. TAKE y \in S
  <2>0. PICK j \in J : y \in {ChunkDone(j, k) : k \in chunks[j]}
    BY Zenon
  <2>1. PICK i \in chunks[j] : y = ChunkDone(j, i)
    BY Zenon, <2>0
  <2>2. <<j, i>> \in P
    BY Zenon DEF TypeOK
  <2>3. f[<<j, i>>] = y
    BY Zenon, <2>1, <2>2
  <2>. QED  BY Zenon, <2>2, <2>3
<1>4. IsFiniteSet(P)
  <2>1. IsFiniteSet(Jobs \X AllIdx)
    BY Zenon, FS_Product, AllIdxIsFinite, ConstantsOK
  <2>2. P \in SUBSET (Jobs \X AllIdx)
    BY Zenon
  <2>. HIDE DEF P
  <2>. QED  BY Zenon, <2>1, <2>2, FS_Subset
<1>5. f \in [P -> S]
  BY Zenon, <1>2
<1>6. IsFiniteSet(S)
  <2>. HIDE DEF S, f, P
  <2>. QED  BY Zenon, <1>3, <1>4, <1>5, ImageIsFinite
<1>. QED  BY Zenon, <1>1, <1>6, ListingIsSeq

\* The log recovery writes back is well formed.
LEMMA CompactedType ==
  ASSUME TypeOK, NEW R \in [Jobs -> Partial \cup {Nil}], NEW J \in SUBSET Jobs
  PROVE  Compacted(R, J) \in Seq(Record)
<1>. DEFINE S1 == {JobStart(j) : j \in J}
            S2 == UNION {{ChunkDone(j, i) : i \in chunks[j]} : j \in J}
            K == [typ : {"ChunkDone"}, job : Jobs, idx : AllIdx]
<1>1. Listing(S1) \in Seq(S1) /\ S1 \subseteq Record
  BY Zenon, StartsType
<1>2. Listing(S2) \in Seq(S2) /\ S2 \subseteq K
  BY Zenon, ChunksType
<1>3. K \subseteq Record
  BY Zenon DEF Record
<1>4. Listing(S1) \in Seq(Record) /\ Listing(S2) \in Seq(Record)
  <2>. HIDE DEF S1, S2, K
  <2>. QED  BY Zenon, <1>1, <1>2, <1>3, SeqWider
<1>5. SnapshotResults(R) \in Seq(Record)
  BY Zenon, SnapshotType, SeqWider
<1>. QED  BY Zenon, <1>4, <1>5, SeqConcat DEF Compacted

\* The drop records of a housekeeping tick.
LEMMA DropsType ==
  ASSUME NEW D \in SUBSET Jobs, NEW E \in SUBSET Jobs
  PROVE  LET drops == Listing(D) \o Listing(E)
         IN  [n \in 1 .. Len(drops) |-> JobDrop(drops[n])] \in Seq([typ : {"JobDrop"}, job : Jobs])
<1>. DEFINE drops == Listing(D) \o Listing(E)
<1>1. Listing(D) \in Seq(Jobs) /\ Listing(E) \in Seq(Jobs)
  BY Zenon, ConstantsOK, FS_Subset, ListingIsSeq, SeqWider
<1>2. drops \in Seq(Jobs)
  BY Zenon, <1>1, SeqConcat
<1>. HIDE DEF drops
<1>3. [n \in 1 .. Len(drops) |-> JobDrop(drops[n])] \in Seq([typ : {"JobDrop"}, job : Jobs])
  BY SMTT(30), <1>2 DEF JobDrop
<1>. QED
  BY Zenon, <1>3 DEF drops

\* A reply leaves well-formed Results in the hands of the clients.
LEMMA ReplyType ==
  ASSUME TypeOK, NEW c \in Conns \cup {Nil}, NEW j \in Jobs, NEW p \in Partial, Reply(c, j, p)
  PROVE  got' \in [Conns -> Seq([job : Jobs, acc : Partial])]
<1>1. got \in [Conns -> Seq([job : Jobs, acc : Partial])]
  BY Zenon DEF TypeOK
<1>2. \A d \in Conns : Append(got[d], [job |-> j, acc |-> p]) \in Seq([job : Jobs, acc : Partial])
  <2>. DEFINE m == [job |-> j, acc |-> p]
              M == [job : Jobs, acc : Partial]
  <2>1. m \in M
    BY Zenon
  <2>. HIDE DEF m, M
  <2>2. \A d \in Conns : Append(got[d], m) \in Seq(M)
    BY Zenon, <1>1, <2>1, SeqAppend DEF M
  <2>. QED
    BY Zenon, <2>2 DEF m, M
<1>. QED
  BY Zenon, <1>1, <1>2 DEF Reply

\* Attaching a client keeps byConn well typed.
LEMMA AttachType ==
  ASSUME TypeOK, NEW c \in Conns, NEW j \in Jobs, Attach(c, j)
  PROVE  byConn' \in [Conns -> Jobs \cup {Nil}]
BY Zenon DEF TypeOK, Attach

\* A new job struct is well typed.
LEMMA NewJobType ==
  ASSUME NEW j \in Jobs, NEW c \in Conns \cup {Nil}, NEW o \in BOOLEAN
  PROVE  NewJob(j, c, o) \in Job
BY Zenon, IdxFacts, CountNone DEF NewJob, Job

\* Ending jobs keeps the maps of the aggregator well typed.
LEMMA FinishType ==
  ASSUME TypeOK, NEW S \in SUBSET Jobs, Finish(S)
  PROVE  /\ jobs' \subseteq Jobs
         /\ job' \in [Jobs -> Job]
         /\ done' \in [Jobs -> SUBSET AllIdx]
         /\ byConn' \in [Conns -> Jobs \cup {Nil}]
BY Zenon, NewJobType DEF TypeOK, Finish

\* A process starts with nothing counted and an empty log.
LEMMA Inv1Init == Init => Inv1
<1>. SUFFICES ASSUME Init PROVE TypeOK /\ ExactlyOnce
  BY Zenon DEF Inv1
<1>1. NoJobs \in [Jobs -> Job]
  BY Zenon, NewJobType DEF NoJobs
<1>2. <<>> \in Seq(Record) /\ Len(<<>>) = 0
  BY SMTT(30)
<1>3. got \in [Conns -> Seq([job : Jobs, acc : Partial])]
  BY SMTT(30) DEF Init
<1>4. log \in Seq(Record) /\ synced \in 0 .. Len(log) /\ pos \in 0 .. Len(log)
  BY SMTT(30), <1>2 DEF Init
<1>5. wal \in {"ok", "failing", "none"} /\ crashes \in 0 .. MaxCrashes
  BY SMTT(30), ConstantsOK DEF Init
<1>6. TypeOK
  BY Zenon, <1>1, <1>3, <1>4, <1>5 DEF Init, TypeOK
<1>. QED
  BY Zenon, <1>6 DEF Init, ExactlyOnce

\* Taking a request, whatever becomes of it, preserves the invariant.
LEMMA Inv1Submit ==
  ASSUME Inv1, NEW c \in Conns, NEW j \in Jobs, Submit(c, j)
  PROVE  Inv1'
<1>. USE DEF Inv1
<1>1. CASE SubmitStored(c, j)
  <2>1. results[j] \in Partial
    BY Zenon, <1>1 DEF SubmitStored, TypeOK
  <2>2. got' \in [Conns -> Seq([job : Jobs, acc : Partial])]
    BY Zenon, <1>1, <2>1, ReplyType DEF SubmitStored
  <2>3. TypeOK'
    BY Zenon, <1>1, <2>2 DEF SubmitStored, Submitting, TypeOK, memVars, walVars
  <2>4. ExactlyOnce'
    BY Zenon, <1>1 DEF SubmitStored, ExactlyOnce, memVars
  <2>. QED  BY Zenon, <2>3, <2>4
<1>2. CASE SubmitRunning(c, j)
  <2>1. byConn' \in [Conns -> Jobs \cup {Nil}]
    BY Zenon, <1>2, AttachType DEF SubmitRunning
  <2>2. job' \in [Jobs -> Job]
    <3>1. job[j] \in Job /\ ClientOf(c) \in Conns \cup {Nil}
      BY Zenon DEF TypeOK, ClientOf
    <3>2. [job[j] EXCEPT !.client = ClientOf(c), !.orphaned = (conn[c] # "up")] \in Job
      BY Zenon, <3>1 DEF Job
    <3>. QED
      BY Zenon, <1>2, <3>2 DEF SubmitRunning, TypeOK
  <2>3. TypeOK'
    BY Zenon, <1>2, <2>1, <2>2 DEF SubmitRunning, Submitting, TypeOK, walVars
  <2>4. \A k \in Jobs : job'[k].acc = job[k].acc /\ job'[k].remaining = job[k].remaining
    BY SMTT(30), <1>2 DEF SubmitRunning, TypeOK, Job
  <2>5. ExactlyOnce'
    BY Zenon, <1>2, <2>4 DEF SubmitRunning, ExactlyOnce
  <2>. QED  BY Zenon, <2>3, <2>5
<1>3. CASE SubmitNew(c, j)
  <2>1. byConn' \in [Conns -> Jobs \cup {Nil}]
    BY Zenon, <1>3, AttachType DEF SubmitNew
  <2>2. job' \in [Jobs -> Job]
    BY Zenon, <1>3, NewJobType DEF SubmitNew, TypeOK, ClientOf
  <2>3. <<JobStart(j)>> \in Seq(Record)
    BY SMTT(30), RecordTypes
  <2>4. /\ wal' \in {"ok", "failing", "none"} /\ dirty' \in BOOLEAN
        /\ log' \in Seq(Record)
        /\ synced' \in 0 .. Len(log') /\ pos' \in 0 .. Len(log')
    BY Zenon, <1>3, <2>3, WriteLogType DEF SubmitNew
  <2>5. issued' \subseteq Tasks
    <3>1. issued \subseteq Tasks
      BY Zenon DEF TypeOK
    <3>2. issued' = issued \cup {<<j, i>> : i \in Idx(j)}
      BY Zenon, <1>3 DEF SubmitNew
    <3>3. Idx(j) \subseteq AllIdx
      BY Zenon, IdxFacts
    <3>4. {<<j, i>> : i \in Idx(j)} \subseteq Tasks
      BY SMTT(30), <3>3 DEF Tasks
    <3>. QED  BY Zenon, <3>1, <3>2, <3>4
  <2>6. TypeOK'
    BY Zenon, <1>3, <2>1, <2>2, <2>4, <2>5 DEF SubmitNew, Submitting, TypeOK
  <2>7. j \notin jobs /\ done[j] = {}
    BY Zenon, <1>3 DEF SubmitNew, IsNew, ExactlyOnce
  <2>8. job'[j].acc = Counted({}) /\ job'[j].remaining = NTasks[j]
    BY Zenon, <1>3, CountNone DEF SubmitNew, NewJob, TypeOK
  <2>9. ExactlyOnce'
    <3>. SUFFICES ASSUME NEW k \in Jobs
                  PROVE  /\ done'[k] \subseteq (IF k \in jobs' THEN Idx(k) ELSE {})
                         /\ k \in jobs' =>
                              /\ job'[k].acc = Counted(done'[k])
                              /\ job'[k].remaining = NTasks[k] - Cardinality(done'[k])
      BY Zenon DEF ExactlyOnce
    <3>1. CASE k = j
      <4>1. done'[k] = {} /\ k \in jobs'
        BY Zenon, <1>3, <2>7, <3>1 DEF SubmitNew
      <4>2. NTasks[k] = NTasks[k] - Cardinality({})
        BY SMTT(30), CountNone, IdxFacts
      <4>. QED  BY Zenon, <2>8, <3>1, <4>1, <4>2
    <3>2. CASE k # j
      BY Zenon, <1>3, <3>2 DEF SubmitNew, ExactlyOnce, TypeOK
    <3>. QED  BY Zenon, <3>1, <3>2
  <2>. QED  BY Zenon, <2>6, <2>9
<1>4. CASE SubmitEmpty(c, j)
  <2>1. <<JobStart(j), JobDone(j, Zero)>> \in Seq(Record)
    BY SMTT(30), RecordTypes, CountNone
  <2>2. /\ wal' \in {"ok", "failing", "none"} /\ dirty' \in BOOLEAN
        /\ log' \in Seq(Record)
        /\ synced' \in 0 .. Len(log') /\ pos' \in 0 .. Len(log')
    BY Zenon, <1>4, <2>1, WriteLogType DEF SubmitEmpty
  <2>3. got' \in [Conns -> Seq([job : Jobs, acc : Partial])]
    BY Zenon, <1>4, CountNone, ReplyType DEF SubmitEmpty
  <2>4. TypeOK'
    BY Zenon, <1>4, <2>2, <2>3, CountNone DEF SubmitEmpty, Submitting, TypeOK
  <2>5. ExactlyOnce'
    BY Zenon, <1>4 DEF SubmitEmpty, ExactlyOnce
  <2>. QED  BY Zenon, <2>4, <2>5
<1>. QED
  BY Zenon, <1>1, <1>2, <1>3, <1>4 DEF Submit

\* Merging a chunk gives a partial answer.
LEMMA MergeType ==
  ASSUME NEW p \in Partial, NEW i \in AllIdx
  PROVE  Merge(p, i) \in Partial
BY SMTT(30) DEF Merge, Partial

\* The job struct after one more chunk, as ResultCounted and the replay of a
\* ChunkDone record update it.
LEMMA OneMoreType ==
  ASSUME NEW b \in Job, NEW i, Merge(b.acc, i) \in Partial, b.remaining - 1 \in Nat
  PROVE  /\ OneMore(b, i) \in Job
         /\ OneMore(b, i).acc = Merge(b.acc, i)
         /\ OneMore(b, i).remaining = b.remaining - 1
         /\ OneMore(b, i).client = b.client
         /\ OneMore(b, i).orphaned = b.orphaned
<1>. DEFINE m == Merge(b.acc, i)
            r == b.remaining - 1
<1>1. OneMore(b, i) = [[b EXCEPT !.acc = m] EXCEPT !.remaining = r]
  BY Zenon DEF OneMore
<1>2. m \in Partial /\ r \in Nat
  BY Zenon
<1>. HIDE DEF m, r
<1>. DEFINE x == [b EXCEPT !.acc = m]
<1>3. /\ x \in Job /\ x.acc = m
      /\ x.client = b.client /\ x.orphaned = b.orphaned
  BY Zenon, <1>2 DEF Job
<1>4. OneMore(b, i) = [x EXCEPT !.remaining = r]
  BY Zenon, <1>1
<1>. HIDE DEF x
<1>5. /\ OneMore(b, i) \in Job /\ OneMore(b, i).acc = m /\ OneMore(b, i).remaining = r
      /\ OneMore(b, i).client = b.client /\ OneMore(b, i).orphaned = b.orphaned
  BY Zenon, <1>2, <1>3, <1>4 DEF Job
<1>. QED  BY Zenon, <1>5 DEF m, r

\* What a countable result finds, and what counting it makes of the job.
LEMMA CountStep ==
  ASSUME Inv1, NEW j \in Jobs, NEW i, Counts(<<j, i>>), i \in AllIdx
  PROVE  /\ j \in jobs /\ i \in Idx(j) /\ i \notin done[j]
         /\ done[j] \subseteq Idx(j)
         /\ job[j].remaining \in Nat \ {0}
         /\ Merge(job[j].acc, i) = Counted(done[j] \cup {i})
         /\ job[j].remaining - 1 = NTasks[j] - Cardinality(done[j] \cup {i})
<1>1. j \in jobs /\ i \notin done[j] /\ i < NTasks[j]
  BY Zenon DEF Counts
<1>2. i \in Idx(j)
  BY SMTT(30), <1>1, AllIdxIsFinite, IdxFacts DEF Idx
<1>3. /\ done[j] \subseteq Idx(j) /\ job[j].acc = Counted(done[j])
      /\ job[j].remaining = NTasks[j] - Cardinality(done[j])
  BY Zenon, <1>1 DEF Inv1, ExactlyOnce
<1>4. /\ Cardinality(done[j]) \in Nat /\ Cardinality(done[j]) < NTasks[j]
      /\ Cardinality(done[j] \cup {i}) = Cardinality(done[j]) + 1
      /\ Merge(Counted(done[j]), i) = Counted(done[j] \cup {i})
  BY Zenon, <1>1, <1>2, <1>3, CountOne
<1>5. NTasks[j] \in Nat
  BY Zenon, IdxFacts
<1>6. job[j].remaining \in Nat \ {0}
  BY SMTT(30), <1>3, <1>4, <1>5
<1>7. job[j].remaining - 1 = NTasks[j] - Cardinality(done[j] \cup {i})
  BY SMTT(30), <1>3, <1>4, <1>5
<1>. QED
  BY Zenon, <1>1, <1>2, <1>3, <1>4, <1>6, <1>7

\* ResultCounted, and the replay of a ChunkDone record, count one chunk once.
LEMMA CountedJob ==
  ASSUME Inv1, NEW j \in Jobs, NEW i \in AllIdx, Counts(<<j, i>>),
         done' = [done EXCEPT ![j] = @ \cup {i}],
         job' = [job EXCEPT ![j] = OneMore(@, i)],
         jobs' = jobs
  PROVE  /\ job' \in [Jobs -> Job] /\ done' \in [Jobs -> SUBSET AllIdx]
         /\ ExactlyOnce'
<1>1. /\ j \in jobs /\ i \in Idx(j) /\ i \notin done[j] /\ done[j] \subseteq Idx(j)
      /\ job[j].remaining \in Nat \ {0}
      /\ Merge(job[j].acc, i) = Counted(done[j] \cup {i})
      /\ job[j].remaining - 1 = NTasks[j] - Cardinality(done[j] \cup {i})
  BY CountStep, Zenon
<1>2. job \in [Jobs -> Job] /\ done \in [Jobs -> SUBSET AllIdx]
  BY Zenon DEF Inv1, TypeOK
<1>4. Counted(done[j] \cup {i}) \in Partial
  BY Zenon DEF Counted, Partial
<1>5. job[j].remaining - 1 \in Nat
  BY SMTT(30), <1>1
<1>. DEFINE new == OneMore(job[j], i)
<1>7. new \in Job /\ new.acc = Counted(done[j] \cup {i})
      /\ new.remaining = NTasks[j] - Cardinality(done[j] \cup {i})
  <2>1. job[j] \in Job /\ Merge(job[j].acc, i) \in Partial
    BY Zenon, <1>1, <1>2, <1>4
  <2>2. /\ new \in Job /\ new.acc = Merge(job[j].acc, i)
        /\ new.remaining = job[j].remaining - 1
    BY Zenon, <1>5, <2>1, OneMoreType
  <2>. QED  BY Zenon, <1>1, <2>2
<1>. HIDE DEF new
<1>8. job' \in [Jobs -> Job] /\ done' \in [Jobs -> SUBSET AllIdx]
  <2>1. done[j] \cup {i} \in SUBSET AllIdx
    BY Zenon, <1>2
  <2>. QED  BY Zenon, <1>2, <1>7, <2>1 DEF new
<1>9. ExactlyOnce'
  <2>. SUFFICES ASSUME NEW k \in Jobs
                PROVE  /\ done'[k] \subseteq (IF k \in jobs' THEN Idx(k) ELSE {})
                       /\ k \in jobs' =>
                            /\ job'[k].acc = Counted(done'[k])
                            /\ job'[k].remaining = NTasks[k] - Cardinality(done'[k])
    BY Zenon DEF ExactlyOnce
  <2>1. CASE k = j
    <3>1. done'[k] = done[j] \cup {i} /\ job'[k] = new /\ k \in jobs'
      BY Zenon, <1>1, <1>2, <2>1 DEF new
    <3>. QED
      BY Zenon, <1>1, <1>7, <2>1, <3>1
  <2>2. CASE k # j
    <3>1. done'[k] = done[k] /\ job'[k] = job[k]
      BY Zenon, <1>2, <2>2
    <3>. QED
      BY Zenon, <3>1 DEF Inv1, ExactlyOnce
  <2>. QED  BY Zenon, <2>1, <2>2
<1>. QED
  BY Zenon, <1>8, <1>9

\* Jobs that end leave no counted chunk behind, the others are untouched.
LEMMA FinishCounts ==
  ASSUME Inv1, NEW S \in SUBSET Jobs, Finish(S)
  PROVE  ExactlyOnce'
BY Zenon DEF Inv1, Finish, ExactlyOnce

\* So does a result, dropped, counted or the last of its job.
LEMMA Inv1Result ==
  ASSUME Inv1, NEW t \in issued, Result(t)
  PROVE  Inv1'
<1>. USE DEF Inv1
<1>0. t \in Tasks /\ t[1] \in Jobs /\ t[2] \in AllIdx /\ t = <<t[1], t[2]>>
  BY SMTT(30) DEF TypeOK, Tasks
<1>1. CASE ResultDropped(t)
  BY Zenon, <1>1 DEF ResultDropped, vars, memVars, walVars, connVars, TypeOK, ExactlyOnce
<1>2. CASE ResultCounted(t)
  <2>1. <<ChunkDone(t[1], t[2])>> \in Seq(Record)
    BY SMTT(30), <1>0, RecordTypes
  <2>2. /\ wal' \in {"ok", "failing", "none"} /\ dirty' \in BOOLEAN
        /\ log' \in Seq(Record)
        /\ synced' \in 0 .. Len(log') /\ pos' \in 0 .. Len(log')
    BY Zenon, <1>2, <2>1, WriteLogType DEF ResultCounted
  <2>3. job' \in [Jobs -> Job] /\ done' \in [Jobs -> SUBSET AllIdx] /\ ExactlyOnce'
    BY Zenon, <1>0, <1>2, CountedJob DEF ResultCounted
  <2>4. TypeOK'
    BY Zenon, <1>2, <2>2, <2>3 DEF ResultCounted, TypeOK, connVars
  <2>. QED  BY Zenon, <2>3, <2>4
<1>3. CASE ResultLast(t)
  <2>1. Merge(job[t[1]].acc, t[2]) \in Partial
    BY Zenon, <1>0, MergeType DEF TypeOK, Job
  <2>2. <<ChunkDone(t[1], t[2]), JobDone(t[1], Merge(job[t[1]].acc, t[2]))>> \in Seq(Record)
    BY SMTT(30), <1>0, <2>1, RecordTypes
  <2>3. /\ wal' \in {"ok", "failing", "none"} /\ dirty' \in BOOLEAN
        /\ log' \in Seq(Record)
        /\ synced' \in 0 .. Len(log') /\ pos' \in 0 .. Len(log')
    BY Zenon, <1>3, <2>2, WriteLogType DEF ResultLast
  <2>4. job[t[1]].client \in Conns \cup {Nil}
    BY Zenon, <1>0 DEF TypeOK, Job
  <2>5. got' \in [Conns -> Seq([job : Jobs, acc : Partial])]
    BY Zenon, <1>0, <1>3, <2>1, <2>4, ReplyType DEF ResultLast
  <2>6. /\ jobs' \subseteq Jobs /\ job' \in [Jobs -> Job]
        /\ done' \in [Jobs -> SUBSET AllIdx] /\ byConn' \in [Conns -> Jobs \cup {Nil}]
    BY Zenon, <1>0, <1>3, FinishType DEF ResultLast
  <2>7. results' \in [Jobs -> Partial \cup {Nil}]
    BY Zenon, <1>0, <1>3, <2>1 DEF ResultLast, TypeOK
  <2>8. TypeOK'
    BY Zenon, <1>3, <2>3, <2>5, <2>6, <2>7 DEF ResultLast, TypeOK
  <2>9. ExactlyOnce'
    BY Zenon, <1>0, <1>3, FinishCounts DEF ResultLast
  <2>. QED  BY Zenon, <2>8, <2>9
<1>. QED
  BY Zenon, <1>1, <1>2, <1>3 DEF Result

\* So does the loss of a client.
LEMMA Inv1ClientGone ==
  ASSUME Inv1, NEW c \in Conns, ClientGone(c)
  PROVE  Inv1'
<1>. USE DEF Inv1
<1>. DEFINE j == IF byConn[c] = Nil THEN 0 ELSE byConn[c]
<1>1. job' \in [Jobs -> Job] /\ ExactlyOnce'
  <2>1. CASE j \in jobs /\ job[j].client = c
    <3>. DEFINE b == [job[j] EXCEPT !.client = Nil, !.orphaned = TRUE]
    <3>1. j \in Jobs /\ job' = [job EXCEPT ![j] = b] /\ job[j] \in Job
      BY Zenon, <2>1 DEF ClientGone, TypeOK
    <3>2. b \in Job /\ b.acc = job[j].acc /\ b.remaining = job[j].remaining
      BY Zenon, <3>1 DEF Job
    <3>. HIDE DEF b, j
    <3>3. job' \in [Jobs -> Job]
      BY Zenon, <3>1, <3>2 DEF TypeOK
    <3>4. \A k \in Jobs : job'[k].acc = job[k].acc /\ job'[k].remaining = job[k].remaining
      BY Zenon, <3>1, <3>2 DEF TypeOK
    <3>. QED  BY Zenon, <3>3, <3>4 DEF ExactlyOnce, ClientGone
  <2>2. CASE ~(j \in jobs /\ job[j].client = c)
    BY Zenon, <2>2 DEF ClientGone, ExactlyOnce, TypeOK
  <2>. QED  BY Zenon, <2>1, <2>2
<1>2. byConn' \in [Conns -> Jobs \cup {Nil}] /\ conn' \in [Conns -> {"new", "up", "down", "gone"}]
  BY Zenon DEF ClientGone, TypeOK
<1>3. TypeOK'
  BY Zenon, <1>1, <1>2 DEF ClientGone, TypeOK, walVars
<1>. QED  BY Zenon, <1>1, <1>3

\* So does housekeeping, with or without compaction.
LEMMA Inv1Tick ==
  ASSUME Inv1, NEW D \in SUBSET Orphans, NEW E \in SUBSET Stored, Tick(D, E)
  PROVE  Inv1'
<1>. USE DEF Inv1
<1>. DEFINE drops == Listing(D) \o Listing(E)
            recs == [n \in 1 .. Len(drops) |-> JobDrop(drops[n])]
            appended == IF wal = "ok" THEN log \o recs ELSE log
            R == [j \in Jobs |-> IF j \in E THEN Nil ELSE results[j]]
<1>1. D \in SUBSET Jobs /\ E \in SUBSET Jobs /\ Finish(D)
  BY Zenon DEF Orphans, Stored, Tick, TypeOK
<1>2. recs \in Seq(Record)
  <2>1. recs \in Seq([typ : {"JobDrop"}, job : Jobs])
    BY <1>1, DropsType, Zenon
  <2>2. [typ : {"JobDrop"}, job : Jobs] \subseteq Record
    BY Zenon DEF Record
  <2>. HIDE DEF recs
  <2>. QED  BY Zenon, <2>1, <2>2, SeqWider
<1>3. appended \in Seq(Record) /\ Len(log) <= Len(appended)
  <2>. HIDE DEF recs
  <2>1. log \o recs \in Seq(Record) /\ Len(log \o recs) = Len(log) + Len(recs)
        /\ Len(recs) \in Nat /\ Len(log) \in Nat
    BY Zenon, <1>2, SeqConcat, SeqLen DEF TypeOK
  <2>. QED  BY SMTT(30), <2>1 DEF TypeOK
<1>4. R \in [Jobs -> Partial \cup {Nil}] /\ results' = R
  BY Zenon DEF Tick, TypeOK
<1>5. SnapshotResults(R) \in Seq(Record)
  <2>. HIDE DEF R
  <2>. DEFINE S == {JobDone(j, R[j]) : j \in {k \in Jobs : R[k] # Nil}}
  <2>1. SnapshotResults(R) \in Seq(S) /\ S \subseteq Record
    BY Zenon, <1>4, SnapshotType
  <2>. HIDE DEF S
  <2>. QED  BY Zenon, <2>1, SeqWider
<1>6. /\ wal' \in {"ok", "failing", "none"} /\ dirty' \in BOOLEAN
      /\ log' \in Seq(Record)
      /\ synced' \in 0 .. Len(log') /\ pos' \in 0 .. Len(log')
  <2>1. CASE Rewrite(SnapshotResults(R))
    <3>. HIDE DEF R
    <3>1. Len(SnapshotResults(R)) \in Nat
      BY Zenon, <1>5, SeqLen
    <3>. DEFINE s == SnapshotResults(R)
    <3>. HIDE DEF s
    <3>2. log' = s /\ s \in Seq(Record) /\ synced' = Len(s) /\ pos' = Len(s) /\ Len(s) \in Nat
      BY Zenon, <1>5, <2>1, <3>1 DEF Rewrite, s
    <3>3. synced' \in 0 .. Len(log') /\ pos' \in 0 .. Len(log')
      BY SMTT(30), <3>2
    <3>. QED  BY Zenon, <2>1, <3>2, <3>3 DEF Rewrite
  <2>2. CASE /\ log' = appended /\ dirty' = FALSE /\ UNCHANGED wal
             /\ pos' \in {pos, Len(appended)} /\ synced' \in {synced, Len(appended)}
    <3>. HIDE DEF appended
    <3>1. Len(appended) \in Nat /\ Len(log) \in Nat
      BY Zenon, <1>3, SeqLen DEF TypeOK
    <3>2. synced \in 0 .. Len(log) /\ pos \in 0 .. Len(log)
      BY Zenon DEF TypeOK
    <3>3. synced' \in 0 .. Len(appended) /\ pos' \in 0 .. Len(appended)
      BY SMTT(30), <1>3, <2>2, <3>1, <3>2
    <3>. QED  BY Zenon, <1>3, <2>2, <3>3 DEF TypeOK
  <2>. QED
    BY Zenon, <1>4, <2>1, <2>2 DEF Tick, Drops
<1>7. /\ jobs' \subseteq Jobs /\ job' \in [Jobs -> Job]
      /\ done' \in [Jobs -> SUBSET AllIdx] /\ byConn' \in [Conns -> Jobs \cup {Nil}]
  BY Zenon, <1>1, FinishType
<1>8. TypeOK'
  BY Zenon, <1>4, <1>6, <1>7 DEF Tick, TypeOK, connVars
<1>9. ExactlyOnce'
  BY Zenon, <1>1, FinishCounts
<1>. QED  BY Zenon, <1>8, <1>9

\* So do the events around the aggregator.
LEMMA Inv1Conns ==
  ASSUME Inv1, DiskFails \/ \E c \in Conns : ConnDies(c) \/ \E j \in Jobs : Request(c, j)
  PROVE  Inv1'
<1>. USE DEF Inv1
<1>1. CASE DiskFails
  BY Zenon, <1>1 DEF DiskFails, TypeOK, ExactlyOnce, memVars, connVars
<1>2. ASSUME NEW c \in Conns, ConnDies(c)  PROVE Inv1'
  BY Zenon, <1>2 DEF ConnDies, TypeOK, ExactlyOnce, memVars, walVars
<1>3. ASSUME NEW c \in Conns, NEW j \in Jobs, Request(c, j)  PROVE Inv1'
  BY Zenon, <1>3 DEF Request, TypeOK, ExactlyOnce, memVars, walVars
<1>. QED  BY Zenon, <1>1, <1>2, <1>3

\* A process that ends leaves a well-formed log and no other state.
LEMMA Inv1Restart ==
  ASSUME Inv1, NEW l \in Seq(Record), Len(log) <= Len(l), Restart(l),
         got' \in [Conns -> Seq([job : Jobs, acc : Partial])]
  PROVE  Inv1'
<1>. USE DEF Inv1
<1>1. PICK n \in synced .. Len(l) : log' = SubSeq(l, 1, n)
  BY Zenon DEF Restart
<1>2. log' \in Seq(Record) /\ Len(log') = n /\ synced \in Nat /\ n \in Nat
  <2>1. Len(l) \in Nat /\ synced \in Nat /\ n \in 0 .. Len(l)
    BY SMTT(30), SeqLen DEF TypeOK
  <2>2. SubSeq(l, 1, n) \in Seq(Record) /\ Len(SubSeq(l, 1, n)) = n
    BY Zenon, <2>1, SeqPrefix
  <2>. QED  BY SMTT(30), <1>1, <2>1, <2>2
<1>3. synced' \in 0 .. Len(log') /\ pos' \in 0 .. Len(log')
  BY SMTT(30), <1>1, <1>2 DEF Restart
<1>4. crashes' \in 0 .. MaxCrashes
  BY SMTT(30), ConstantsOK DEF Restart, TypeOK
<1>5. job' \in [Jobs -> Job]
  BY Zenon, NewJobType DEF Restart, NoJobs
<1>6. /\ conn' \in [Conns -> {"new", "up", "down", "gone"}]
      /\ handler' \in [Conns -> {"idle", "submitting", "exited"}]
  BY Zenon DEF Restart, TypeOK
<1>7. /\ phase' \in {"replay", "run"} /\ jobs' \subseteq Jobs
      /\ done' \in [Jobs -> SUBSET AllIdx] /\ chunks' \in [Jobs -> SUBSET AllIdx]
      /\ results' \in [Jobs -> Partial \cup {Nil}]
      /\ byConn' \in [Conns -> Jobs \cup {Nil}] /\ issued' \subseteq Tasks
      /\ wal' \in {"ok", "failing", "none"} /\ dirty' \in BOOLEAN
      /\ asked' \in [Conns -> Jobs \cup {Nil}]
  BY Zenon DEF Restart, TypeOK
<1>8. TypeOK'
  BY Zenon, <1>2, <1>3, <1>4, <1>5, <1>6, <1>7 DEF TypeOK
<1>9. ExactlyOnce'
  BY Zenon DEF Restart, ExactlyOnce
<1>. QED  BY Zenon, <1>8, <1>9

\* A crash preserves the invariant, also between two records of one step.
LEMMA Inv1Crash ==
  ASSUME Inv1,
         \/ Crash
         \/ \E t \in issued : CrashInFinish(t)
         \/ \E c \in Conns, j \in Jobs : CrashInEmpty(c, j)
  PROVE  Inv1'
<1>0. /\ log \in Seq(Record) /\ Len(log) \in Nat /\ job \in [Jobs -> Job]
      /\ got \in [Conns -> Seq([job : Jobs, acc : Partial])] /\ TypeOK
  BY Zenon, SeqLen DEF Inv1, TypeOK
<1>1. CASE Crash
  <2>1. Len(log) <= Len(log)
    BY SMTT(30), <1>0
  <2>2. Restart(log) /\ got' \in [Conns -> Seq([job : Jobs, acc : Partial])]
    BY Zenon, <1>0, <1>1 DEF Crash
  <2>. QED  BY <1>0, <2>1, <2>2, Inv1Restart, Zenon
<1>2. ASSUME NEW t \in issued, CrashInFinish(t)  PROVE Inv1'
  <2>1. t[1] \in Jobs /\ t[2] \in AllIdx
    BY Zenon DEF Inv1, TypeOK, Tasks
  <2>. DEFINE r == ChunkDone(t[1], t[2])
  <2>2. r \in Record
    BY Zenon, <2>1, RecordTypes
  <2>. HIDE DEF r
  <2>3. Append(log, r) \in Seq(Record) /\ Len(log) <= Len(Append(log, r))
    BY SMTT(30), <1>0, <2>2, SeqAppend
  <2>4. /\ job[t[1]].client \in Conns \cup {Nil}
        /\ Merge(job[t[1]].acc, t[2]) \in Partial
    BY Zenon, <1>0, <2>1, MergeType DEF Job
  <2>5. got' \in [Conns -> Seq([job : Jobs, acc : Partial])]
    BY Zenon, <1>0, <1>2, <2>1, <2>4, ReplyType DEF CrashInFinish
  <2>6. Restart(Append(log, r))
    BY Zenon, <1>2 DEF CrashInFinish, r
  <2>. QED  BY Zenon, <2>3, <2>5, <2>6, Inv1Restart
<1>3. ASSUME NEW c \in Conns, NEW j \in Jobs, CrashInEmpty(c, j)  PROVE Inv1'
  <2>. DEFINE r == JobStart(j)
  <2>2. r \in Record
    BY Zenon, RecordTypes
  <2>. HIDE DEF r
  <2>3. Append(log, r) \in Seq(Record) /\ Len(log) <= Len(Append(log, r))
    BY SMTT(30), <1>0, <2>2, SeqAppend
  <2>5. got' \in [Conns -> Seq([job : Jobs, acc : Partial])]
    BY Zenon, <1>0, <1>3, CountNone, ReplyType DEF CrashInEmpty
  <2>6. Restart(Append(log, r))
    BY Zenon, <1>3 DEF CrashInEmpty, r
  <2>. QED  BY Zenon, <2>3, <2>5, <2>6, Inv1Restart
<1>. QED  BY Zenon, <1>1, <1>2, <1>3

\* Replaying a record counts as the running aggregator does.
LEMMA Inv1Replay ==
  ASSUME Inv1, ReplayRecord
  PROVE  Inv1'
<1>. DEFINE Good == /\ jobs' \subseteq Jobs /\ job' \in [Jobs -> Job]
                    /\ done' \in [Jobs -> SUBSET AllIdx]
                    /\ chunks' \in [Jobs -> SUBSET AllIdx]
                    /\ results' \in [Jobs -> Partial \cup {Nil}]
                    /\ ExactlyOnce'
<1>0. TypeOK /\ ExactlyOnce
  BY Zenon DEF Inv1
<1>1. ASSUME NEW j \in Jobs, ReplayStart(j)  PROVE Good
  <2>1. done[j] = {} /\ Counted(done[j]) = Zero /\ Cardinality(done[j]) = 0 /\ NTasks[j] \in Nat
    BY Zenon, <1>0, <1>1, CountNone, IdxFacts DEF ExactlyOnce, ReplayStart
  <2>2. /\ NewJob(j, Nil, TRUE).acc = Zero /\ NewJob(j, Nil, TRUE) \in Job
        /\ NewJob(j, Nil, TRUE).remaining = NTasks[j] - Cardinality(done[j])
    <3>1. NewJob(j, Nil, TRUE) \in Job
      BY Zenon, NewJobType
    <3>2. NewJob(j, Nil, TRUE).acc = Zero /\ NewJob(j, Nil, TRUE).remaining = NTasks[j]
      BY Zenon DEF NewJob
    <3>3. NTasks[j] = NTasks[j] - Cardinality(done[j])
      BY SMTT(30), <2>1
    <3>. QED  BY Zenon, <3>1, <3>2, <3>3
  <2>3. ASSUME NEW k \in Jobs
        PROVE  /\ done'[k] \subseteq (IF k \in jobs' THEN Idx(k) ELSE {})
               /\ k \in jobs' =>
                    /\ job'[k].acc = Counted(done'[k])
                    /\ job'[k].remaining = NTasks[k] - Cardinality(done'[k])
    <3>1. CASE k = j
      <4>1. job'[k] = NewJob(j, Nil, TRUE) /\ done'[k] = {} /\ done'[k] = done[j]
        BY Zenon, <1>0, <1>1, <2>1, <3>1 DEF TypeOK, ReplayStart
      <4>. QED  BY Zenon, <2>1, <2>2, <3>1, <4>1
    <3>2. CASE k # j
      <4>1. job'[k] = job[k] /\ done'[k] = done[k] /\ (k \in jobs' <=> k \in jobs)
        BY Zenon, <1>0, <1>1, <3>2 DEF TypeOK, ReplayStart
      <4>. QED  BY Zenon, <1>0, <4>1 DEF ExactlyOnce
    <3>. QED  BY Zenon, <3>1, <3>2
  <2>4. ExactlyOnce'
    BY <2>3, Zenon DEF ExactlyOnce
  <2>. QED  BY Zenon, <1>0, <1>1, <2>2, <2>4 DEF TypeOK, ReplayStart
<1>2. ASSUME NEW j \in Jobs, NEW i \in AllIdx, ReplayChunk(j, i)  PROVE Good
  <2>1. job' \in [Jobs -> Job] /\ done' \in [Jobs -> SUBSET AllIdx] /\ ExactlyOnce'
    BY Zenon, <1>2, CountedJob DEF ReplayChunk
  <2>2. chunks' \in [Jobs -> SUBSET AllIdx]
    BY Zenon, <1>0, <1>2 DEF TypeOK, ReplayChunk
  <2>. QED  BY Zenon, <1>0, <1>2, <2>1, <2>2 DEF TypeOK, ReplayChunk
<1>3. ASSUME NEW j \in Jobs, NEW r \in Partial \cup {Nil}, ReplayEnd(j, r)  PROVE Good
  <2>1. NewJob(j, Nil, FALSE) \in Job
    BY Zenon, NewJobType
  <2>2. ExactlyOnce'
    BY Zenon, <1>0, <1>3 DEF ExactlyOnce, TypeOK, ReplayEnd
  <2>. QED  BY Zenon, <1>0, <1>3, <2>1, <2>2 DEF TypeOK, ReplayEnd
<1>4. ASSUME UNCHANGED <<jobs, job, done, results, chunks>>  PROVE Good
  BY Zenon, <1>0, <1>4 DEF TypeOK, ExactlyOnce
<1>. HIDE DEF Good
<1>5. pos + 1 \in 1 .. Len(log) /\ pos + 1 \in 0 .. Len(log)
  BY SMTT(30), <1>0, SeqLen DEF TypeOK, ReplayRecord
<1>6. Good
  <2>. DEFINE rec == log[pos + 1]
  <2>1. rec \in Record
    BY Zenon, <1>0, <1>5, SeqMember DEF TypeOK
  <2>2. Replayed(rec)
    BY Zenon DEF ReplayRecord
  <2>. HIDE DEF rec
  <2>3. /\ rec.job \in Jobs
        /\ rec.typ = "ChunkDone" => rec.idx \in AllIdx
        /\ rec.typ = "JobDone" => rec.acc \in Partial
    BY Zenon, <2>1 DEF Record
  <2>. QED  BY Zenon, <1>1, <1>2, <1>3, <1>4, <2>2, <2>3 DEF Replayed, ReplaySkip
<1>7. UNCHANGED <<phase, byConn, issued, wal, log, synced, dirty, conn, asked, handler, got, crashes>>
  BY Zenon DEF ReplayRecord, connVars
<1>8. pos' \in 0 .. Len(log')
  BY Zenon, <1>5, <1>7 DEF ReplayRecord
<1>9. TypeOK'
  BY Zenon, <1>0, <1>6, <1>7, <1>8 DEF TypeOK, Good
<1>. QED  BY Zenon, <1>6, <1>9 DEF Inv1, Good

\* Recovery gives the feeders tasks of the jobs they are for.
LEMMA FeedType ==
  ASSUME NEW J \in SUBSET Jobs
  PROVE  Feed(J) \subseteq Tasks
BY SMTT(30), IdxFacts DEF Feed, Tasks

\* So does the end of recovery.
LEMMA Inv1Recover ==
  ASSUME Inv1, RecoverDone
  PROVE  Inv1'
<1>. DEFINE ended == {j \in jobs : job[j].remaining = 0}
            R == [j \in Jobs |-> IF j \in ended THEN job[j].acc ELSE results[j]]
            J == jobs \ ended
<1>0. TypeOK /\ ended \in SUBSET Jobs /\ J \in SUBSET Jobs /\ Finish(ended)
  BY Zenon DEF Inv1, TypeOK, RecoverDone
<1>1. R \in [Jobs -> Partial \cup {Nil}] /\ results' = R
  BY Zenon DEF Inv1, TypeOK, Job, RecoverDone
<1>. HIDE DEF ended
<1>2. Compacted(R, J) \in Seq(Record)
  <2>. HIDE DEF R, J
  <2>. QED  BY Zenon, <1>0, <1>1, CompactedType
<1>3. /\ wal' \in {"ok", "failing", "none"} /\ dirty' \in BOOLEAN
      /\ log' \in Seq(Record)
      /\ synced' \in 0 .. Len(log') /\ pos' \in 0 .. Len(log')
  <2>1. CASE Rewrite(Compacted(R, J))
    <3>. DEFINE s == Compacted(R, J)
    <3>. HIDE DEF s
    <3>1. log' = s /\ s \in Seq(Record) /\ synced' = Len(s) /\ pos' = Len(s)
      BY Zenon, <1>2, <2>1 DEF Rewrite, s
    <3>2. Len(s) \in Nat
      BY Zenon, <3>1, SeqLen
    <3>3. synced' \in 0 .. Len(log') /\ pos' \in 0 .. Len(log')
      BY SMTT(30), <3>1, <3>2
    <3>. QED  BY Zenon, <2>1, <3>1, <3>3 DEF Rewrite
  <2>2. CASE UNCHANGED walVars
    BY Zenon, <1>0, <2>2 DEF TypeOK, walVars
  <2>3. Rewrite(Compacted(results', jobs \ ended)) \/ UNCHANGED walVars
    BY Zenon DEF RecoverDone, ended
  <2>4. Rewrite(Compacted(R, J)) \/ UNCHANGED walVars
    <3>. HIDE DEF R
    <3>. QED  BY Zenon, <1>1, <2>3 DEF J
  <2>. HIDE DEF R, J
  <2>. QED  BY Zenon, <2>1, <2>2, <2>4
<1>4. issued' \subseteq Tasks
  <2>1. issued' = Feed(J)
    BY Zenon DEF RecoverDone, ended
  <2>. HIDE DEF J
  <2>. QED  BY Zenon, <1>0, <2>1, FeedType
<1>5. /\ jobs' \subseteq Jobs /\ job' \in [Jobs -> Job]
      /\ done' \in [Jobs -> SUBSET AllIdx] /\ byConn' \in [Conns -> Jobs \cup {Nil}]
  BY Zenon, <1>0, FinishType
<1>6. /\ phase' = "run" /\ chunks' \in [Jobs -> SUBSET AllIdx]
      /\ UNCHANGED <<conn, asked, handler, got, crashes>>
  BY Zenon DEF RecoverDone, connVars
<1>7. TypeOK'
  BY Zenon, <1>0, <1>1, <1>3, <1>4, <1>5, <1>6 DEF TypeOK
<1>8. ExactlyOnce'
  BY Zenon, <1>0, FinishCounts DEF Inv1
<1>. QED  BY Zenon, <1>7, <1>8 DEF Inv1

\* Every step preserves the invariant.
LEMMA Inv1Next ==
  ASSUME Inv1, [Next]_vars
  PROVE  Inv1'
<1>1. CASE Next
  BY Zenon, <1>1, Inv1Submit, Inv1Result, Inv1ClientGone, Inv1Tick, Inv1Conns, Inv1Crash,
     Inv1Replay, Inv1Recover DEF Next
<1>2. CASE UNCHANGED vars
  BY Zenon, <1>2 DEF vars, memVars, walVars, connVars, Inv1, TypeOK, ExactlyOnce
<1>. QED  BY Zenon, <1>1, <1>2

\* Every reachable state of the aggregator is well typed.
THEOREM TypeCorrect == Spec => []TypeOK
<1>1. Inv1 => TypeOK
  BY Zenon DEF Inv1
<1>. QED  BY <1>1, Inv1Init, Inv1Next, PTL DEF Spec

\* Each chunk of a running job is counted exactly once, over any interleaving of
\* results, duplicates, crashes and replays, for every set of jobs and clients.
THEOREM CountedExactlyOnce == Spec => []ExactlyOnce
<1>1. Inv1 => ExactlyOnce
  BY Zenon DEF Inv1
<1>. QED  BY <1>1, Inv1Init, Inv1Next, PTL DEF Spec

-----------------------------------------------------------------------------
(* What the aggregator owes its clients: who is attached to which job, and that
   nobody is answered twice. *)

\* What AttachmentConsistent, LossWillBeNoticed and OneResultPerConn need: a
\* connection is attached, and answered, only after its handler has submitted, an
\* attached one has not been answered, and recovery attaches nobody.
ConnInv ==
  /\ AttachmentConsistent /\ LossWillBeNoticed /\ OneResultPerConn
  /\ \A c \in Conns :
       /\ conn[c] = "new" => handler[c] = "idle"
       /\ handler[c] # "exited" => byConn[c] = Nil /\ got[c] = <<>>
       /\ byConn[c] # Nil => got[c] = <<>>
       /\ phase = "replay" => byConn[c] = Nil

\* A process starts without connections.
LEMMA ConnInvInit == Init => ConnInv
BY SMTT(30), ConstantsOK DEF Init, ConnInv, AttachmentConsistent, LossWillBeNoticed, OneResultPerConn

\* A step that leaves connections and attachments alone.
LEMMA SameClients ==
  ASSUME ConnInv, UNCHANGED <<phase, jobs, byConn, conn, handler, got>>,
         \A j \in jobs : job'[j].client = job[j].client /\ job'[j].orphaned = job[j].orphaned
  PROVE  ConnInv'
<1>1. AttachmentConsistent'
  BY SMTT(30) DEF ConnInv, AttachmentConsistent
<1>2. LossWillBeNoticed' /\ OneResultPerConn'
  BY Zenon DEF ConnInv, LossWillBeNoticed, OneResultPerConn
<1>. QED  BY Zenon, <1>1, <1>2 DEF ConnInv

\* A reply reaches the connection it is for, if that is up, and no other.
LEMMA ReplyFacts ==
  ASSUME TypeOK, NEW c \in Conns \cup {Nil}, NEW j, NEW p, Reply(c, j, p)
  PROVE  \A d \in Conns :
           \/ got'[d] = got[d]
           \/ d = c /\ conn[d] = "up" /\ (got[d] = <<>> => Len(got'[d]) = 1)
<1>. SUFFICES ASSUME NEW d \in Conns, d = c, conn[d] = "up", got[d] = <<>>
              PROVE  Len(got'[d]) = 1
  BY Zenon DEF Reply
<1>1. got'[d] = Append(<<>>, [job |-> j, acc |-> p])
  BY Zenon DEF Reply
<1>. QED  BY SMTT(30), <1>1

\* Whoever is attached to a job that ends is detached, and may be answered.
LEMMA FinishConns ==
  ASSUME Inv1, ConnInv, NEW S \in SUBSET jobs, Finish(S), UNCHANGED <<conn, handler>>,
         phase' = "run",
         \A c \in Conns : \/ got'[c] = got[c]
                          \/ \E j \in S : job[j].client = c /\ (got[c] = <<>> => Len(got'[c]) = 1)
  PROVE  ConnInv'
<1>0. /\ jobs \subseteq Jobs /\ job \in [Jobs -> Job] /\ byConn \in [Conns -> Jobs \cup {Nil}]
      /\ Nil \notin Jobs /\ Nil \notin Conns
  BY Zenon, ConstantsOK DEF Inv1, TypeOK
<1>1. \A c \in Conns, j \in jobs : job[j].client = c <=> byConn[c] = j
  BY Zenon, <1>0 DEF ConnInv, AttachmentConsistent
<1>2. \A c \in Conns : byConn'[c] = IF byConn[c] \in S THEN Nil ELSE byConn[c]
  BY SMTT(30), <1>0, <1>1 DEF Finish
<1>3. jobs' = jobs \ S /\ \A j \in jobs' : job'[j] = job[j]
  BY Zenon, <1>0 DEF Finish
<1>4. AttachmentConsistent'
  <2>1. ASSUME NEW c \in Conns, NEW j \in Jobs
        PROVE  byConn'[c] = j <=> j \in jobs' /\ job'[j].client = c
    BY SMTT(30), <1>0, <1>2, <1>3 DEF ConnInv, AttachmentConsistent
  <2>2. \A j \in jobs' : job'[j].orphaned <=> job'[j].client = Nil
    BY Zenon, <1>3 DEF ConnInv, AttachmentConsistent
  <2>. QED  BY Zenon, <2>1, <2>2 DEF AttachmentConsistent
<1>5. LossWillBeNoticed'
  BY Zenon, <1>3 DEF ConnInv, LossWillBeNoticed
<1>6. ASSUME NEW c \in Conns
      PROVE  /\ handler[c] # "exited" => byConn'[c] = Nil /\ got'[c] = <<>>
             /\ byConn'[c] # Nil => got'[c] = <<>>
             /\ Len(got'[c]) <= 1
  <2>1. CASE got'[c] = got[c]
    BY Zenon, <1>2, <2>1 DEF ConnInv, OneResultPerConn
  <2>2. CASE \E j \in S : job[j].client = c /\ (got[c] = <<>> => Len(got'[c]) = 1)
    <3>1. byConn[c] \in S /\ byConn[c] # Nil
      BY SMTT(30), <1>0, <1>1, <2>2
    <3>2. handler[c] = "exited" /\ got[c] = <<>>
      BY Zenon, <3>1 DEF ConnInv
    <3>3. Len(got'[c]) = 1 /\ byConn'[c] = Nil
      BY Zenon, <1>2, <2>2, <3>1, <3>2
    <3>. QED  BY SMTT(30), <3>2, <3>3
  <2>. QED  BY Zenon, <2>1, <2>2
<1>. QED  BY Zenon, <1>4, <1>5, <1>6 DEF ConnInv, OneResultPerConn

\* A process that ends takes its connections with it; one of them may have been
\* answered at the last moment.
LEMMA RestartConns ==
  ASSUME Inv1, ConnInv, NEW l, Restart(l),
         \A c \in Conns : \/ got'[c] = got[c]
                          \/ conn[c] # "new" /\ got[c] = <<>> /\ Len(got'[c]) = 1
  PROVE  ConnInv'
<1>1. jobs' = {} /\ \A c \in Conns : byConn'[c] = Nil
  BY Zenon DEF Restart
<1>2. AttachmentConsistent' /\ LossWillBeNoticed'
  BY Zenon, <1>1, ConstantsOK DEF AttachmentConsistent, LossWillBeNoticed
<1>3. OneResultPerConn'
  <2>1. \A c \in Conns : Len(got[c]) <= 1
    BY Zenon DEF ConnInv, OneResultPerConn
  <2>2. ASSUME NEW c \in Conns  PROVE Len(got'[c]) <= 1
    <3>1. CASE got'[c] = got[c]
      <4>. Len(got'[c]) = Len(got[c])  BY <3>1, Zenon
      <4>. QED  BY Zenon, <2>1
    <3>2. CASE Len(got'[c]) = 1
      BY SMTT(30), <3>2
    <3>. QED  BY Zenon, <3>1, <3>2
  <2>. QED  BY Zenon, <2>2 DEF OneResultPerConn
<1>4. ASSUME NEW c \in Conns
      PROVE  /\ conn'[c] = "new" => handler'[c] = "idle"
             /\ handler'[c] # "exited" => got'[c] = <<>>
  <2>1. CASE conn[c] = "new"
    <3>1. handler'[c] = "idle" /\ got'[c] = got[c]
      BY Zenon, <2>1 DEF Restart
    <3>2. handler[c] # "exited"
      BY Zenon, <2>1 DEF ConnInv
    <3>. QED  BY Zenon, <3>1, <3>2 DEF ConnInv
  <2>2. CASE conn[c] # "new"
    BY Zenon, <2>2 DEF Restart
  <2>. QED  BY Zenon, <2>1, <2>2
<1>. QED  BY Zenon, <1>1, <1>2, <1>3, <1>4 DEF ConnInv

\* Attaching c, if it is up, to job j: the end of SubmitRunning and SubmitNew.
LEMMA AttachConns ==
  ASSUME Inv1, ConnInv, NEW c \in Conns, NEW j \in Jobs, Submitting(c, j), Attach(c, j),
         UNCHANGED got, jobs' = jobs \cup {j},
         \A k \in jobs \ {j} : job'[k] = job[k],
         job'[j].client = ClientOf(c), job'[j].orphaned = (conn[c] # "up")
  PROVE  ConnInv'
<1>0. /\ jobs \subseteq Jobs /\ byConn \in [Conns -> Jobs \cup {Nil}] /\ handler[c] = "submitting"
      /\ Nil \notin Jobs /\ Nil \notin Conns
      /\ handler' = [handler EXCEPT ![c] = "exited"] /\ UNCHANGED <<phase, conn>>
      /\ phase = "run" /\ handler \in [Conns -> {"idle", "submitting", "exited"}]
  BY Zenon, ConstantsOK DEF Inv1, TypeOK, Submitting
<1>1. byConn[c] = Nil /\ got[c] = <<>> /\ conn[c] # "new"
  BY Zenon, <1>0 DEF ConnInv
<1>2. \A d \in Conns : byConn'[d] = IF d = c /\ conn[c] = "up" THEN j
                                    ELSE IF byConn[d] = j THEN Nil ELSE byConn[d]
  BY SMTT(30) DEF Attach, ConnInv, AttachmentConsistent
<1>3. AttachmentConsistent'
  <2>1. ASSUME NEW d \in Conns, NEW k \in Jobs
        PROVE  byConn'[d] = k <=> k \in jobs' /\ job'[k].client = d
    <3>1. CASE k = j
      BY Zenon, <1>0, <1>2, <3>1 DEF ClientOf
    <3>2. CASE k # j
      BY SMTT(30), <1>0, <1>1, <1>2, <3>2 DEF ConnInv, AttachmentConsistent
    <3>. QED  BY Zenon, <3>1, <3>2
  <2>2. ASSUME NEW k \in jobs'
        PROVE  job'[k].orphaned <=> job'[k].client = Nil
    <3>1. CASE k = j
      BY Zenon, <1>0, <3>1 DEF ClientOf
    <3>2. CASE k # j
      BY Zenon, <3>2 DEF ConnInv, AttachmentConsistent
    <3>. QED  BY Zenon, <3>1, <3>2
  <2>. QED  BY Zenon, <2>1, <2>2 DEF AttachmentConsistent
<1>4. LossWillBeNoticed'
  BY SMTT(30), <1>0 DEF ConnInv, LossWillBeNoticed, ClientOf
<1>5. OneResultPerConn'
  BY Zenon DEF ConnInv, OneResultPerConn
<1>6. ASSUME NEW d \in Conns
      PROVE  /\ conn'[d] = "new" => handler'[d] = "idle"
             /\ handler'[d] # "exited" => byConn'[d] = Nil /\ got'[d] = <<>>
             /\ byConn'[d] # Nil => got'[d] = <<>>
  <2>1. CASE d = c
    BY Zenon, <1>0, <1>1, <1>2, <2>1
  <2>2. CASE d # c
    BY Zenon, <1>0, <1>2, <2>2 DEF ConnInv
  <2>. QED  BY Zenon, <2>1, <2>2
<1>. QED  BY Zenon, <1>0, <1>3, <1>4, <1>5, <1>6 DEF ConnInv

\* Taking a request, whatever becomes of it.
LEMMA ConnInvSubmit ==
  ASSUME Inv1, ConnInv, NEW c \in Conns, NEW j \in Jobs, Submit(c, j)
  PROVE  ConnInv'
<1>0. TypeOK /\ jobs \subseteq Jobs /\ job \in [Jobs -> Job]
  BY Zenon DEF Inv1, TypeOK
<1>1. ASSUME NEW p, Submitting(c, j), Reply(c, j, p), UNCHANGED <<jobs, job, byConn>>
      PROVE  ConnInv'
  <2>1. /\ handler[c] = "submitting" /\ UNCHANGED <<phase, conn>> /\ phase = "run"
        /\ \A d \in Conns : handler'[d] = IF d = c THEN "exited" ELSE handler[d]
    BY Zenon, <1>0, <1>1 DEF Submitting, TypeOK
  <2>2. byConn[c] = Nil /\ got[c] = <<>> /\ conn[c] # "new"
    BY Zenon, <2>1 DEF ConnInv
  <2>3. \A d \in Conns : got'[d] = got[d] \/ (d = c /\ Len(got'[d]) = 1)
    BY Zenon, <1>0, <1>1, <2>2, ReplyFacts
  <2>4. AttachmentConsistent' /\ LossWillBeNoticed'
    BY SMTT(30), <1>1, <2>1 DEF ConnInv, AttachmentConsistent, LossWillBeNoticed
  <2>5. OneResultPerConn'
    <3>1. \A d \in Conns : Len(got[d]) <= 1
      BY Zenon DEF ConnInv, OneResultPerConn
    <3>2. ASSUME NEW d \in Conns  PROVE Len(got'[d]) <= 1
      <4>1. CASE got'[d] = got[d]
        <5>. Len(got'[d]) = Len(got[d])  BY <4>1, Zenon
        <5>. QED  BY Zenon, <3>1
      <4>2. CASE Len(got'[d]) = 1
        BY SMTT(30), <4>2
      <4>. QED  BY Zenon, <2>3, <4>1, <4>2
    <3>. QED  BY Zenon, <3>2 DEF OneResultPerConn
  <2>6. ASSUME NEW d \in Conns
        PROVE  /\ conn'[d] = "new" => handler'[d] = "idle"
               /\ handler'[d] # "exited" => byConn'[d] = Nil /\ got'[d] = <<>>
               /\ byConn'[d] # Nil => got'[d] = <<>>
    <3>1. CASE d = c
      BY Zenon, <1>1, <2>1, <2>2, <3>1
    <3>2. CASE d # c
      BY Zenon, <1>1, <2>1, <2>3, <3>2 DEF ConnInv
    <3>. QED  BY Zenon, <3>1, <3>2
  <2>. QED  BY Zenon, <2>1, <2>4, <2>5, <2>6 DEF ConnInv
<1>2. CASE SubmitStored(c, j)
  BY Zenon, <1>1, <1>2 DEF SubmitStored, memVars
<1>3. CASE SubmitEmpty(c, j)
  BY Zenon, <1>1, <1>3 DEF SubmitEmpty
<1>4. CASE SubmitRunning(c, j)
  <2>1. /\ job'[j].client = ClientOf(c) /\ job'[j].orphaned = (conn[c] # "up")
        /\ \A k \in jobs \ {j} : job'[k] = job[k]
    BY Zenon, <1>0, <1>4 DEF SubmitRunning, Job
  <2>. QED  BY Zenon, <1>4, <2>1, AttachConns DEF SubmitRunning
<1>5. CASE SubmitNew(c, j)
  <2>1. /\ job'[j].client = ClientOf(c) /\ job'[j].orphaned = (conn[c] # "up")
        /\ \A k \in jobs \ {j} : job'[k] = job[k]
    BY Zenon, <1>0, <1>5 DEF SubmitNew, NewJob
  <2>. QED  BY Zenon, <1>5, <2>1, AttachConns DEF SubmitNew
<1>. QED  BY Zenon, <1>2, <1>3, <1>4, <1>5 DEF Submit

\* Counting a chunk attaches and detaches nobody.
LEMMA CountKeepsClient ==
  ASSUME Inv1, NEW j \in Jobs, NEW i \in AllIdx, Counts(<<j, i>>),
         job' = [job EXCEPT ![j] = OneMore(@, i)]
  PROVE  \A k \in Jobs : job'[k].client = job[k].client /\ job'[k].orphaned = job[k].orphaned
<1>1. job \in [Jobs -> Job] /\ job[j] \in Job
  BY Zenon DEF Inv1, TypeOK
<1>2. job[j].remaining \in Nat \ {0}
  BY Zenon, CountStep
<1>3. Merge(job[j].acc, i) \in Partial
  BY Zenon, <1>1, MergeType DEF Job
<1>4. OneMore(job[j], i).client = job[j].client /\ OneMore(job[j], i).orphaned = job[j].orphaned
  <2>1. job[j].remaining - 1 \in Nat
    BY SMTT(30), <1>2
  <2>. QED  BY Zenon, <1>1, <1>3, <2>1, OneMoreType
<1>. QED  BY Zenon, <1>1, <1>4

\* A result: the last one of a job answers its client and detaches it.
LEMMA ConnInvResult ==
  ASSUME Inv1, ConnInv, NEW t \in issued, Result(t)
  PROVE  ConnInv'
<1>0. /\ TypeOK /\ t[1] \in Jobs /\ t[2] \in AllIdx /\ t = <<t[1], t[2]>>
      /\ jobs \subseteq Jobs /\ job \in [Jobs -> Job]
  <2>1. TypeOK /\ t \in Tasks /\ jobs \subseteq Jobs /\ job \in [Jobs -> Job]
    BY Zenon DEF Inv1, TypeOK
  <2>. QED  BY SMTT(30), <2>1 DEF Tasks
<1>1. CASE ResultDropped(t)
  BY Zenon, <1>1, SameClients DEF ResultDropped, vars, memVars, connVars
<1>2. CASE ResultCounted(t)
  <2>1. \A k \in Jobs : job'[k].client = job[k].client /\ job'[k].orphaned = job[k].orphaned
    BY Zenon, <1>0, <1>2, CountKeepsClient DEF ResultCounted
  <2>. QED  BY Zenon, <1>0, <1>2, <2>1, SameClients DEF ResultCounted, connVars
<1>3. CASE ResultLast(t)
  <2>. DEFINE j == t[1]
              b == job[j].client
  <2>1. j \in jobs /\ b \in Conns \cup {Nil}
    BY Zenon, <1>0, <1>3 DEF ResultLast, Counts, Job
  <2>2. \A c \in Conns : got'[c] = got[c] \/ (c = b /\ (got[c] = <<>> => Len(got'[c]) = 1))
    BY Zenon, <1>0, <1>3, <2>1, ReplyFacts DEF ResultLast
  <2>3. Finish({j}) /\ UNCHANGED <<conn, handler>> /\ phase' = "run"
    BY Zenon, <1>3 DEF ResultLast
  <2>. HIDE DEF j
  <2>4. \A c \in Conns : \/ got'[c] = got[c]
                         \/ \E k \in {j} : job[k].client = c /\ (got[c] = <<>> => Len(got'[c]) = 1)
    BY Zenon, <2>2
  <2>5. {j} \in SUBSET jobs
    BY Zenon, <2>1
  <2>. QED  BY Zenon, <2>3, <2>4, <2>5, FinishConns
<1>. QED  BY Zenon, <1>1, <1>2, <1>3 DEF Result

\* The loss of a connection detaches it from its job.
LEMMA ConnInvClientGone ==
  ASSUME Inv1, ConnInv, NEW c \in Conns, ClientGone(c)
  PROVE  ConnInv'
<1>. DEFINE j == IF byConn[c] = Nil THEN 0 ELSE byConn[c]
<1>0. /\ jobs \subseteq Jobs /\ job \in [Jobs -> Job] /\ byConn \in [Conns -> Jobs \cup {Nil}]
      /\ conn \in [Conns -> {"new", "up", "down", "gone"}]
      /\ Nil \notin Jobs /\ Nil \notin Conns
      /\ UNCHANGED <<phase, jobs, handler, got>> /\ conn[c] = "down"
      /\ conn' = [conn EXCEPT ![c] = "gone"] /\ byConn' = [byConn EXCEPT ![c] = Nil]
  BY Zenon, ConstantsOK DEF Inv1, TypeOK, ClientGone
<1>1. \A k \in jobs : job[k].client = c <=> byConn[c] = k
  BY Zenon, <1>0 DEF ConnInv, AttachmentConsistent
<1>2. \A k \in jobs : /\ job'[k].client = IF job[k].client = c THEN Nil ELSE job[k].client
                      /\ job'[k].orphaned = IF job[k].client = c THEN TRUE ELSE job[k].orphaned
  <2>1. CASE j \in jobs /\ job[j].client = c
    <3>1. byConn[c] = j
      BY Zenon, <1>1, <2>1
    <3>. DEFINE b == [job[j] EXCEPT !.client = Nil, !.orphaned = TRUE]
    <3>2. job' = [job EXCEPT ![j] = b] /\ job[j] \in Job /\ j \in Jobs
      BY Zenon, <1>0, <2>1 DEF ClientGone
    <3>3. b.client = Nil /\ b.orphaned = TRUE
      BY Zenon, <3>2 DEF Job
    <3>. HIDE DEF b, j
    <3>. QED  BY Zenon, <1>0, <1>1, <2>1, <3>1, <3>2, <3>3
  <2>2. CASE ~(j \in jobs /\ job[j].client = c)
    <3>1. job' = job
      BY Zenon, <2>2 DEF ClientGone
    <3>2. \A k \in jobs : job[k].client # c
      BY Zenon, <1>0, <1>1, <2>2
    <3>. QED  BY Zenon, <3>1, <3>2
  <2>. QED  BY Zenon, <2>1, <2>2
<1>. HIDE DEF j
<1>3. AttachmentConsistent'
  <2>1. ASSUME NEW d \in Conns, NEW k \in Jobs
        PROVE  byConn'[d] = k <=> k \in jobs' /\ job'[k].client = d
    <3>1. byConn[d] = k <=> k \in jobs /\ job[k].client = d
      BY Zenon DEF ConnInv, AttachmentConsistent
    <3>2. CASE d = c
      BY Zenon, <1>0, <1>2, <3>2
    <3>3. CASE d # c
      BY Zenon, <1>0, <1>2, <3>1, <3>3
    <3>. QED  BY Zenon, <3>2, <3>3
  <2>2. \A k \in jobs' : job'[k].orphaned <=> job'[k].client = Nil
    BY Zenon, <1>0, <1>2 DEF ConnInv, AttachmentConsistent
  <2>. QED  BY Zenon, <2>1, <2>2 DEF AttachmentConsistent
<1>4. LossWillBeNoticed'
  <2>. SUFFICES ASSUME NEW k \in jobs, job'[k].client # Nil
                PROVE  conn'[job'[k].client] \in {"up", "down"}
    BY Zenon, <1>0 DEF LossWillBeNoticed
  <2>1. job'[k].client = job[k].client /\ job[k].client # c /\ job[k].client \in Conns
    BY Zenon, <1>0, <1>2 DEF Job
  <2>. QED  BY Zenon, <1>0, <2>1 DEF ConnInv, LossWillBeNoticed
<1>5. OneResultPerConn'
  BY Zenon, <1>0 DEF ConnInv, OneResultPerConn
<1>. QED  BY Zenon, <1>0, <1>3, <1>4, <1>5 DEF ConnInv

\* Housekeeping detaches the clients of the jobs it drops; there are none.
LEMMA ConnInvTick ==
  ASSUME Inv1, ConnInv, NEW D \in SUBSET Orphans, NEW E \in SUBSET Stored, Tick(D, E)
  PROVE  ConnInv'
<1>1. D \in SUBSET jobs /\ Finish(D) /\ UNCHANGED <<conn, handler, got>> /\ phase' = "run"
  BY Zenon DEF Orphans, Tick, connVars
<1>. QED  BY Zenon, <1>1, FinishConns

\* A new connection is attached to nothing, and a dying one will be noticed.
LEMMA ConnInvConns ==
  ASSUME Inv1, ConnInv, DiskFails \/ \E c \in Conns : ConnDies(c) \/ \E j \in Jobs : Request(c, j)
  PROVE  ConnInv'
<1>0. /\ conn \in [Conns -> {"new", "up", "down", "gone"}] /\ job \in [Jobs -> Job]
      /\ handler \in [Conns -> {"idle", "submitting", "exited"}] /\ jobs \subseteq Jobs
      /\ Nil \notin Conns
  BY Zenon, ConstantsOK DEF Inv1, TypeOK
<1>1. CASE DiskFails
  BY Zenon, <1>1, SameClients DEF DiskFails, memVars, connVars
<1>2. ASSUME UNCHANGED <<phase, jobs, job, byConn, got>>,
             \A d \in Conns : /\ conn'[d] = "new" => handler'[d] = "idle"
                              /\ handler'[d] # "exited" => handler[d] # "exited"
                              /\ conn[d] \in {"up", "down"} => conn'[d] \in {"up", "down"}
      PROVE  ConnInv'
  <2>1. AttachmentConsistent'
    BY SMTT(30), <1>2 DEF ConnInv, AttachmentConsistent
  <2>2. OneResultPerConn'
    BY Zenon, <1>2 DEF ConnInv, OneResultPerConn
  <2>3. LossWillBeNoticed'
    <3>1. \A k \in jobs : job[k].client \in Conns \cup {Nil}
      BY Zenon, <1>0 DEF Job
    <3>. QED  BY Zenon, <1>2, <3>1 DEF ConnInv, LossWillBeNoticed
  <2>. QED  BY Zenon, <1>2, <2>1, <2>2, <2>3 DEF ConnInv
<1>3. ASSUME NEW c \in Conns, ConnDies(c)  PROVE ConnInv'
  BY Zenon, <1>0, <1>2, <1>3 DEF ConnDies, memVars, ConnInv
<1>4. ASSUME NEW c \in Conns, NEW j \in Jobs, Request(c, j)  PROVE ConnInv'
  BY Zenon, <1>0, <1>2, <1>4 DEF Request, memVars, ConnInv
<1>. QED  BY Zenon, <1>1, <1>3, <1>4

\* A crash, also one that comes just after an answer was sent.
LEMMA ConnInvCrash ==
  ASSUME Inv1, ConnInv,
         \/ Crash
         \/ \E t \in issued : CrashInFinish(t)
         \/ \E c \in Conns, j \in Jobs : CrashInEmpty(c, j)
  PROVE  ConnInv'
<1>0. TypeOK /\ jobs \subseteq Jobs /\ job \in [Jobs -> Job] /\ Nil \notin Conns /\ Nil \notin Jobs
  BY Zenon, ConstantsOK DEF Inv1, TypeOK
<1>1. CASE Crash
  BY Zenon, <1>1, RestartConns DEF Crash
<1>2. ASSUME NEW t \in issued, CrashInFinish(t)  PROVE ConnInv'
  <2>. DEFINE b == job[t[1]].client
  <2>1. t[1] \in jobs /\ t[1] \in Jobs /\ b \in Conns \cup {Nil}
    BY Zenon, <1>0, <1>2 DEF CrashInFinish, Counts, Job
  <2>2. b \in Conns => got[b] = <<>>
    <3>1. b \in Conns => byConn[b] = t[1]
      BY SMTT(30), <2>1 DEF ConnInv, AttachmentConsistent
    <3>. QED  BY Zenon, <1>0, <2>1, <3>1 DEF ConnInv
  <2>3. \A c \in Conns : got'[c] = got[c] \/ (c = b /\ conn[c] = "up" /\ (got[c] = <<>> => Len(got'[c]) = 1))
    BY Zenon, <1>0, <1>2, <2>1, ReplyFacts DEF CrashInFinish
  <2>. QED  BY Zenon, <1>2, <2>2, <2>3, RestartConns DEF CrashInFinish
<1>3. ASSUME NEW c \in Conns, NEW j \in Jobs, CrashInEmpty(c, j)  PROVE ConnInv'
  <2>1. got[c] = <<>>
    BY Zenon, <1>3 DEF CrashInEmpty, ConnInv
  <2>2. \A d \in Conns : got'[d] = got[d] \/ (d = c /\ conn[d] = "up" /\ (got[d] = <<>> => Len(got'[d]) = 1))
    BY Zenon, <1>0, <1>3, ReplyFacts DEF CrashInEmpty
  <2>. QED  BY Zenon, <1>3, <2>1, <2>2, RestartConns DEF CrashInEmpty
<1>. QED  BY Zenon, <1>1, <1>2, <1>3

\* Recovery meets no connection.
LEMMA ConnInvReplay ==
  ASSUME Inv1, ConnInv, ReplayRecord
  PROVE  ConnInv'
<1>0. /\ jobs \subseteq Jobs /\ job \in [Jobs -> Job] /\ log \in Seq(Record) /\ TypeOK
      /\ Nil \notin Jobs /\ Nil \notin Conns
      /\ phase = "replay" /\ UNCHANGED <<phase, byConn, conn, handler, got>>
  BY Zenon, ConstantsOK DEF Inv1, TypeOK, ReplayRecord, connVars
<1>1. \A c \in Conns : byConn[c] = Nil
  BY Zenon, <1>0 DEF ConnInv
<1>2. \A j \in jobs : job[j].client = Nil /\ job[j].orphaned
  <2>1. \A j \in jobs : job[j].client \in Conns \cup {Nil}
    BY Zenon, <1>0 DEF Job
  <2>2. AttachmentConsistent
    BY Zenon DEF ConnInv
  <2>3. ASSUME NEW j \in jobs  PROVE job[j].client \notin Conns
    BY SMTT(30), <1>0, <1>1, <2>2 DEF AttachmentConsistent
  <2>4. \A j \in jobs : job[j].client = Nil
    BY Zenon, <2>1, <2>3
  <2>. QED  BY Zenon, <1>0, <2>2, <2>4 DEF AttachmentConsistent
<1>3. ASSUME \A j \in jobs' : job'[j].client = Nil /\ job'[j].orphaned  PROVE ConnInv'
  <2>1. AttachmentConsistent'
    BY Zenon, <1>0, <1>1, <1>3 DEF AttachmentConsistent
  <2>2. LossWillBeNoticed' /\ OneResultPerConn'
    BY Zenon, <1>0, <1>3 DEF ConnInv, LossWillBeNoticed, OneResultPerConn
  <2>. QED  BY Zenon, <1>0, <2>1, <2>2 DEF ConnInv
<1>4. pos + 1 \in 1 .. Len(log)
  BY SMTT(30), <1>0, SeqLen DEF TypeOK, ReplayRecord
<1>. DEFINE rec == log[pos + 1]
<1>5. rec \in Record /\ Replayed(rec)
  BY Zenon, <1>0, <1>4, SeqMember DEF ReplayRecord
<1>. HIDE DEF rec
<1>6. rec.job \in Jobs /\ (rec.typ = "ChunkDone" => rec.idx \in AllIdx)
  BY Zenon, <1>5 DEF Record
<1>7. CASE ReplayStart(rec.job)
  BY Zenon, <1>0, <1>2, <1>3, <1>6, <1>7 DEF ReplayStart, NewJob
<1>8. CASE rec.typ = "ChunkDone" /\ ReplayChunk(rec.job, rec.idx)
  <2>1. \A k \in Jobs : job'[k].client = job[k].client /\ job'[k].orphaned = job[k].orphaned
    BY Zenon, <1>6, <1>8, CountKeepsClient DEF ReplayChunk
  <2>. QED  BY Zenon, <1>0, <1>2, <1>3, <1>8, <2>1 DEF ReplayChunk
<1>9. ASSUME NEW r, ReplayEnd(rec.job, r)  PROVE ConnInv'
  BY Zenon, <1>0, <1>2, <1>3, <1>6, <1>9 DEF ReplayEnd
<1>10. CASE ReplaySkip(rec)
  BY Zenon, <1>2, <1>3, <1>10 DEF ReplaySkip
<1>. QED  BY Zenon, <1>5, <1>7, <1>8, <1>9, <1>10 DEF Replayed

\* Nor does its end.
LEMMA ConnInvRecover ==
  ASSUME Inv1, ConnInv, RecoverDone
  PROVE  ConnInv'
<1>. DEFINE ended == {j \in jobs : job[j].remaining = 0}
<1>1. ended \in SUBSET jobs /\ Finish(ended) /\ UNCHANGED <<conn, handler, got>> /\ phase' = "run"
  BY Zenon DEF RecoverDone, connVars
<1>. HIDE DEF ended
<1>. QED  BY Zenon, <1>1, FinishConns

\* Every step preserves the invariant.
LEMMA ConnInvNext ==
  ASSUME Inv1, ConnInv, [Next]_vars
  PROVE  ConnInv'
<1>1. CASE Next
  BY Zenon, <1>1, ConnInvSubmit, ConnInvResult, ConnInvClientGone, ConnInvTick, ConnInvConns,
     ConnInvCrash, ConnInvReplay, ConnInvRecover DEF Next
<1>2. CASE UNCHANGED vars
  BY Zenon, <1>2, SameClients DEF vars, memVars, connVars
<1>. QED  BY Zenon, <1>1, <1>2

\* The clients' invariant holds in every reachable state.
LEMMA ConnInvariant == Spec => [](Inv1 /\ ConnInv)
<1>1. Init => Inv1 /\ ConnInv
  BY Zenon, Inv1Init, ConnInvInit
<1>2. Inv1 /\ ConnInv /\ [Next]_vars => (Inv1 /\ ConnInv)'
  BY Zenon, Inv1Next, ConnInvNext
<1>. QED  BY <1>1, <1>2, PTL DEF Spec

\* byConn and job.client are inverse to each other, and a job is without a client
\* exactly while its grace period runs, through every attachment, take-over, loss
\* and crash (aggregator.go:71-76, 119-127).
THEOREM AttachedConsistently == Spec => []AttachmentConsistent
<1>1. Inv1 /\ ConnInv => AttachmentConsistent
  BY Zenon DEF ConnInv
<1>. QED  BY <1>1, ConnInvariant, PTL

\* No job hangs on a connection whose loss has been reported (aggregator.go:119-127).
THEOREM LossNoticed == Spec => []LossWillBeNoticed
<1>1. Inv1 /\ ConnInv => LossWillBeNoticed
  BY Zenon DEF ConnInv
<1>. QED  BY <1>1, ConnInvariant, PTL

\* No connection is sent two Results, also across a crash between sending and
\* logging an answer (aggregator.go:66-97).
THEOREM AnsweredOnce == Spec => []OneResultPerConn
<1>1. Inv1 /\ ConnInv => OneResultPerConn
  BY Zenon DEF ConnInv
<1>. QED  BY <1>1, ConnInvariant, PTL
=============================================================================
