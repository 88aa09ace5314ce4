------------------------------- MODULE LogLemmas -------------------------------
(***************************************************************************)
(* What a log of the aggregator says: lemmas about sequences of records,   *)
(* whoever wrote them.  And what follows for the handlers of Aggregator:   *)
(* they write what they do, and sync what must not be lost.  LogProofs     *)
(* adds recovery and has the theorems.                                     *)
(***************************************************************************)
EXTENDS AggregatorProofs, WellFoundedInduction

-----------------------------------------------------------------------------
(* What a log says about a job. *)

\* LifeAt, LastLife, LogState and LogDone for any log l.
LifeIn(l, n, j) == {k \in 1 .. n : l[k].job = j /\ l[k].typ # "ChunkDone"}
Greatest(S) == IF S = {} THEN 0 ELSE CHOOSE k \in S : \A m \in S : m <= k
LastIn(l, n, j) == Greatest(LifeIn(l, n, j))
StateIn(l, n, j) == IF LastIn(l, n, j) = 0 THEN "none" ELSE l[LastIn(l, n, j)].typ
DoneIn(l, n, j) ==
  {l[k].idx : k \in {m \in LastIn(l, n, j) + 1 .. n : l[m].job = j /\ l[m].typ = "ChunkDone"}}

\* These are Aggregator's own definitions applied to the current log.
LEMMA LogIsRead ==
  ASSUME NEW n, NEW j
  PROVE  LogState(n, j) = StateIn(log, n, j) /\ LogDone(n, j) = DoneIn(log, n, j)
BY Zenon DEF LogState, LogDone, StateIn, DoneIn, LastLife, LastIn, Greatest, LifeAt, LifeIn

\* A set of numbers up to n that is not empty has a greatest one.
LEMMA MaxExists ==
  ASSUME NEW n \in Nat, NEW T \in SUBSET (1 .. n), T # {}
  PROVE  \E k \in T : \A m \in T : m <= k
<1>. DEFINE R == OpToRel(<, Nat)
            Q == {x \in Nat : n - x \in T}
<1>1. IsWellFoundedOn(R, Nat)
  BY Zenon, NatLessThanWellFounded
<1>2. \A x, y \in Nat : x < y => <<x, y>> \in R
  BY SMTT(30) DEF OpToRel
<1>3. \A t \in T : n - t \in Nat /\ n - (n - t) = t /\ t \in Nat
  BY SMTT(30)
<1>4. Q \subseteq Nat /\ Q # {}
  BY Zenon, <1>3
<1>. HIDE DEF R
<1>5. PICK x \in Q : \A y \in Q : ~(<<y, x>> \in R)
  BY Zenon, <1>1, <1>4, WFMin
<1>6. x \in Nat /\ n - x \in T
  BY Zenon, <1>5
<1>7. ASSUME NEW m \in T  PROVE m <= n - x
  <2>1. n - m \in Q
    BY Zenon, <1>3
  <2>2. ~(n - m < x)
    BY Zenon, <1>2, <1>3, <1>5, <1>6, <2>1
  <2>. QED  BY SMTT(30), <1>3, <1>6, <2>2
<1>. QED  BY Zenon, <1>6, <1>7

\* LastIn is the greatest of LifeIn, if there is one.
LEMMA LastIs ==
  ASSUME NEW l, NEW n \in Nat, NEW j
  PROVE  /\ LastIn(l, n, j) \in 0 .. n
         /\ LifeIn(l, n, j) = {} => LastIn(l, n, j) = 0
         /\ LifeIn(l, n, j) # {} => /\ LastIn(l, n, j) \in LifeIn(l, n, j)
                                    /\ LastIn(l, n, j) # 0
                                    /\ \A m \in LifeIn(l, n, j) : m <= LastIn(l, n, j)
<1>. DEFINE L == LifeIn(l, n, j)
<1>1. L \in SUBSET (1 .. n)
  BY Zenon DEF LifeIn
<1>2. CASE L = {}
  <2>1. LastIn(l, n, j) = 0
    BY Zenon, <1>2 DEF LastIn, Greatest
  <2>. QED  BY SMTT(30), <1>2, <2>1
<1>3. CASE L # {}
  <2>. HIDE DEF L
  <2>1. \E k \in L : \A m \in L : m <= k
    BY Zenon, <1>1, <1>3, MaxExists
  <2>2. LastIn(l, n, j) = CHOOSE k \in L : \A m \in L : m <= k
    BY Zenon, <1>3 DEF LastIn, Greatest, L
  <2>3. LastIn(l, n, j) \in L /\ \A m \in L : m <= LastIn(l, n, j)
    BY Zenon, <2>1, <2>2
  <2>4. \A k \in 1 .. n : k \in 0 .. n /\ k # 0
    BY SMTT(30)
  <2>. QED  BY Zenon, <1>1, <1>3, <2>3, <2>4 DEF L
<1>. QED  BY Zenon, <1>2, <1>3

\* A last life record that is known.
LEMMA LastBy ==
  ASSUME NEW l, NEW n \in Nat, NEW j, NEW k \in LifeIn(l, n, j), \A m \in LifeIn(l, n, j) : m <= k
  PROVE  LastIn(l, n, j) = k /\ StateIn(l, n, j) = l[k].typ
<1>1. /\ LastIn(l, n, j) \in LifeIn(l, n, j) /\ LastIn(l, n, j) # 0
      /\ k <= LastIn(l, n, j) /\ LastIn(l, n, j) <= k
  BY Zenon, LastIs
<1>2. \A a, b \in 1 .. n : a <= b /\ b <= a => a = b
  BY SMTT(30)
<1>3. LastIn(l, n, j) = k
  BY Zenon, <1>1, <1>2 DEF LifeIn
<1>. QED  BY Zenon, <1>1, <1>3 DEF StateIn

\* Two logs that agree up to n say the same at n.
LEMMA SamePart ==
  ASSUME NEW l, NEW k, NEW n \in Nat, \A m \in 1 .. n : l[m] = k[m], NEW j
  PROVE  StateIn(l, n, j) = StateIn(k, n, j) /\ DoneIn(l, n, j) = DoneIn(k, n, j)
<1>1. LifeIn(l, n, j) = LifeIn(k, n, j)
  BY Zenon DEF LifeIn
<1>2. LastIn(l, n, j) = LastIn(k, n, j)
  BY Zenon, <1>1 DEF LastIn
<1>3. LastIn(l, n, j) \in 0 .. n
  BY Zenon, LastIs
<1>4. LastIn(l, n, j) # 0 => l[LastIn(l, n, j)] = k[LastIn(l, n, j)]
  <2>1. \A x \in 0 .. n : x # 0 => x \in 1 .. n
    BY SMTT(30)
  <2>. QED  BY Zenon, <1>3, <2>1
<1>5. \A m \in LastIn(l, n, j) + 1 .. n : l[m] = k[m]
  <2>1. \A x \in 0 .. n : \A m \in x + 1 .. n : m \in 1 .. n
    BY SMTT(30)
  <2>. QED  BY Zenon, <1>3, <2>1
<1>. DEFINE X == {m \in LastIn(l, n, j) + 1 .. n : l[m].job = j /\ l[m].typ = "ChunkDone"}
            Y == {m \in LastIn(k, n, j) + 1 .. n : k[m].job = j /\ k[m].typ = "ChunkDone"}
<1>6. X = Y /\ \A m \in X : l[m] = k[m]
  BY Zenon, <1>2, <1>5
<1>7. {l[m].idx : m \in X} = {k[m].idx : m \in Y}
  <2>. HIDE DEF X, Y
  <2>. QED  BY Zenon, <1>6
<1>8. StateIn(l, n, j) = StateIn(k, n, j)
  BY Zenon, <1>2, <1>4 DEF StateIn
<1>. QED  BY Zenon, <1>7, <1>8 DEF DoneIn

\* Before its first record, a log says nothing.
LEMMA StateAtStart ==
  ASSUME NEW l, NEW j
  PROVE  StateIn(l, 0, j) = "none"
<1>1. 1 .. 0 = {} /\ 0 \in Nat
  BY SMTT(30)
<1>2. LifeIn(l, 0, j) = {}
  BY Zenon, <1>1 DEF LifeIn
<1>. QED  BY Zenon, <1>1, <1>2, LastIs DEF StateIn

\* Nor does one without a record about the job say anything about it.
LEMMA Untouched ==
  ASSUME NEW l, NEW n \in Nat, NEW j, \A k \in 1 .. n : l[k].job # j
  PROVE  StateIn(l, n, j) = "none"
<1>1. LifeIn(l, n, j) = {}
  BY Zenon DEF LifeIn
<1>. QED  BY Zenon, <1>1 DEF StateIn, LastIn, Greatest

\* Records about other jobs change nothing.
LEMMA OtherJobs ==
  ASSUME NEW l, NEW n \in Nat, NEW m \in Nat, n <= m, NEW j, \A k \in n + 1 .. m : l[k].job # j
  PROVE  StateIn(l, m, j) = StateIn(l, n, j) /\ DoneIn(l, m, j) = DoneIn(l, n, j)
<1>1. \A k \in 1 .. m : l[k].job = j => k \in 1 .. n
  BY SMTT(30)
<1>2. \A k \in 1 .. n : k \in 1 .. m
  BY SMTT(30)
<1>3. LifeIn(l, m, j) = LifeIn(l, n, j)
  BY Zenon, <1>1, <1>2 DEF LifeIn
<1>4. LastIn(l, m, j) = LastIn(l, n, j) /\ LastIn(l, n, j) \in 0 .. n
  BY Zenon, <1>3, LastIs DEF LastIn
<1>5. \A x \in 0 .. n : /\ \A k \in x + 1 .. m : k \in 1 .. m /\ (k \in 1 .. n => k \in x + 1 .. n)
                        /\ \A k \in x + 1 .. n : k \in x + 1 .. m
  BY SMTT(30)
<1>. DEFINE x == LastIn(l, n, j)
            X == {k \in x + 1 .. m : l[k].job = j /\ l[k].typ = "ChunkDone"}
            Y == {k \in x + 1 .. n : l[k].job = j /\ l[k].typ = "ChunkDone"}
<1>6. X = Y
  <2>. HIDE DEF x
  <2>1. x \in 0 .. n
    BY Zenon, <1>4 DEF x
  <2>. QED  BY Zenon, <1>1, <1>5, <2>1
<1>. QED  BY Zenon, <1>4, <1>6 DEF StateIn, DoneIn

\* What one more record changes.
LEMMA NextRecord ==
  ASSUME NEW l, NEW n \in Nat, NEW j
  PROVE  /\ l[n + 1].job # j =>
              StateIn(l, n + 1, j) = StateIn(l, n, j) /\ DoneIn(l, n + 1, j) = DoneIn(l, n, j)
         /\ l[n + 1].job = j /\ l[n + 1].typ # "ChunkDone" =>
              StateIn(l, n + 1, j) = l[n + 1].typ /\ DoneIn(l, n + 1, j) = {}
         /\ l[n + 1].job = j /\ l[n + 1].typ = "ChunkDone" =>
              /\ StateIn(l, n + 1, j) = StateIn(l, n, j)
              /\ DoneIn(l, n + 1, j) = DoneIn(l, n, j) \cup {l[n + 1].idx}
<1>0. n + 1 \in Nat /\ n <= n + 1 /\ n + 1 \in 1 .. n + 1 /\ \A k \in n + 1 .. n + 1 : k = n + 1
  BY SMTT(30)
<1>1. CASE l[n + 1].job # j
  <2>1. \A k \in n + 1 .. n + 1 : l[k].job # j
    BY Zenon, <1>0, <1>1
  <2>2. StateIn(l, n + 1, j) = StateIn(l, n, j) /\ DoneIn(l, n + 1, j) = DoneIn(l, n, j)
    BY Zenon, <1>0, <2>1, OtherJobs
  <2>. QED  BY Zenon, <1>1, <2>2
<1>2. CASE l[n + 1].job = j /\ l[n + 1].typ # "ChunkDone"
  <2>1. n + 1 \in LifeIn(l, n + 1, j) /\ \A m \in LifeIn(l, n + 1, j) : m <= n + 1
    <3>1. \A m \in 1 .. n + 1 : m <= n + 1
      BY SMTT(30)
    <3>. QED  BY Zenon, <1>0, <1>2, <3>1 DEF LifeIn
  <2>2. LastIn(l, n + 1, j) = n + 1 /\ StateIn(l, n + 1, j) = l[n + 1].typ
    BY Zenon, <1>0, <2>1, LastBy
  <2>3. (n + 1) + 1 .. n + 1 = {}
    BY SMTT(30)
  <2>. QED  BY Zenon, <1>2, <2>2, <2>3 DEF DoneIn
<1>3. CASE l[n + 1].job = j /\ l[n + 1].typ = "ChunkDone"
  <2>1. \A k \in 1 .. n + 1 : k = n + 1 \/ k \in 1 .. n
    BY SMTT(30)
  <2>2. \A k \in 1 .. n : k \in 1 .. n + 1 /\ k # n + 1
    BY SMTT(30)
  <2>3. LifeIn(l, n + 1, j) = LifeIn(l, n, j)
    BY Zenon, <1>3, <2>1, <2>2 DEF LifeIn
  <2>4. LastIn(l, n + 1, j) = LastIn(l, n, j) /\ LastIn(l, n, j) \in 0 .. n
    BY Zenon, <2>3, LastIs DEF LastIn
  <2>. DEFINE x == LastIn(l, n, j)
              X == {k \in x + 1 .. n + 1 : l[k].job = j /\ l[k].typ = "ChunkDone"}
              Y == {k \in x + 1 .. n : l[k].job = j /\ l[k].typ = "ChunkDone"}
  <2>5. x + 1 .. n + 1 = (x + 1 .. n) \cup {n + 1}
    <3>. HIDE DEF x
    <3>1. x \in 0 .. n
      BY Zenon, <2>4 DEF x
    <3>. QED  BY SMTT(30), <3>1
  <2>6. X = Y \cup {n + 1}
    BY Zenon, <1>3, <2>5
  <2>7. {l[k].idx : k \in X} = {l[k].idx : k \in Y} \cup {l[n + 1].idx}
    <3>. HIDE DEF X, Y
    <3>. QED  BY Zenon, <2>6
  <2>. QED  BY Zenon, <1>3, <2>4, <2>7 DEF StateIn, DoneIn
<1>. QED  BY Zenon, <1>1, <1>2, <1>3

\* The last records about j are all of one kind, which is not ChunkDone.
Ends(l, a, m, j, t) ==
  /\ a \in Nat \ {0} /\ m \in Nat /\ t # "ChunkDone"
  /\ \A k \in a .. m : l[k].job = j => l[k].typ = t
  /\ \E k \in a .. m : l[k].job = j

\* After a last record about its life that nothing follows, the log says its type.
LEMMA LastKind ==
  ASSUME NEW l, NEW a, NEW m, NEW j, NEW t, Ends(l, a, m, j, t)
  PROVE  StateIn(l, m, j) = t
<1>0. a \in Nat \ {0} /\ m \in Nat /\ t # "ChunkDone"
  BY Zenon DEF Ends
<1>1. PICK k \in a .. m : l[k].job = j
  BY Zenon DEF Ends
<1>2. k \in LifeIn(l, m, j)
  <2>1. k \in 1 .. m
    BY SMTT(30), <1>0
  <2>. QED  BY Zenon, <1>0, <1>1, <2>1 DEF LifeIn, Ends
<1>3. LastIn(l, m, j) \in LifeIn(l, m, j) /\ k <= LastIn(l, m, j) /\ LastIn(l, m, j) # 0
  BY Zenon, <1>0, <1>2, LastIs
<1>4. \A x \in 1 .. m : k <= x => x \in a .. m
  BY SMTT(30), <1>0
<1>5. LastIn(l, m, j) \in a .. m /\ l[LastIn(l, m, j)].job = j
  BY Zenon, <1>3, <1>4 DEF LifeIn
<1>. QED  BY Zenon, <1>3, <1>5 DEF StateIn, Ends

\* A job that is started once, before its chunks.
StartsAt(l, n, j, k) ==
  /\ k \in 1 .. n /\ l[k].job = j /\ l[k].typ = "JobStart"
  /\ \A m \in 1 .. n : l[m].job = j /\ m # k => l[m].typ = "ChunkDone" /\ k < m

ChunkRecs(l, n, j) == {q \in 1 .. n : l[q].job = j /\ l[q].typ = "ChunkDone"}

\* After a start that only chunks follow, the log says running with those chunks.
LEMMA StartedOnce ==
  ASSUME NEW l, NEW n \in Nat, NEW j, NEW k, StartsAt(l, n, j, k)
  PROVE  /\ StateIn(l, n, j) = "JobStart"
         /\ DoneIn(l, n, j) = {l[m].idx : m \in ChunkRecs(l, n, j)}
<1>1. k \in LifeIn(l, n, j) /\ (\A m \in LifeIn(l, n, j) : m = k) /\ l[k].typ = "JobStart"
  <2>1. "JobStart" # "ChunkDone"
    BY Zenon
  <2>. QED  BY Zenon, <2>1 DEF LifeIn, StartsAt
<1>2. k <= k /\ k \in 1 .. n
  BY SMTT(30) DEF StartsAt
<1>3. LastIn(l, n, j) = k /\ StateIn(l, n, j) = "JobStart"
  <2>1. \A m \in LifeIn(l, n, j) : m <= k
    BY Zenon, <1>1, <1>2
  <2>2. LastIn(l, n, j) = k /\ StateIn(l, n, j) = l[k].typ
    BY SMTT(30), <1>1, <2>1, LastBy
  <2>. QED  BY Zenon, <1>1, <2>2
<1>4. \A m \in 1 .. n : k < m => m \in k + 1 .. n
  BY SMTT(30), <1>2
<1>5. \A m \in k + 1 .. n : m \in 1 .. n
  BY SMTT(30), <1>2
<1>6. {q \in k + 1 .. n : l[q].job = j /\ l[q].typ = "ChunkDone"}
        = ChunkRecs(l, n, j)
  <2>1. \A m \in 1 .. n : l[m].job = j /\ l[m].typ = "ChunkDone" => k < m
    BY Zenon, <1>1 DEF StartsAt
  <2>. QED  BY Zenon, <1>4, <1>5, <2>1 DEF ChunkRecs
<1>. QED  BY Zenon, <1>3, <1>6 DEF DoneIn

-----------------------------------------------------------------------------
(* What the logs that are built at once say. *)

\* A listing of a finite set leaves nothing out.
LEMMA ListingIsAll ==
  ASSUME NEW S, IsFiniteSet(S), NEW r \in S
  PROVE  \E n \in 1 .. Len(Listing(S)) : Listing(S)[n] = r
<1>1. PICK n \in Nat : ExistsBijection(1 .. n, S)
  BY Zenon, FS_NatBijection
<1>2. n = Cardinality(S)
  BY Zenon, <1>1, FS_CountingElements
<1>3. PICK f \in Bijection(1 .. n, S) : TRUE
  BY Zenon, <1>1 DEF ExistsBijection
<1>4. f \in [1 .. Cardinality(S) -> S] /\ IsInjective(f)
  BY Zenon, <1>2, <1>3 DEF Bijection, Injection, IsInjective
<1>5. Listing(S) \in [1 .. Cardinality(S) -> S] /\ IsInjective(Listing(S))
  BY Zenon, <1>4 DEF Listing, Listings
<1>. DEFINE g == Listing(S)
<1>6. DOMAIN g = 1 .. n /\ Len(g) = n
  <2>1. g \in Seq(S)
    BY Zenon, ListingIsSeq
  <2>2. DOMAIN g = 1 .. Len(g) /\ Len(g) \in Nat
    BY Zenon, <2>1, SeqLen
  <2>3. DOMAIN g = 1 .. n
    BY Zenon, <1>2, <1>5
  <2>4. \A a, b \in Nat : 1 .. a = 1 .. b => a = b
    BY SMTT(30)
  <2>. QED  BY Zenon, <2>2, <2>3, <2>4
<1>7. g \in Injection(1 .. n, S)
  BY Zenon, <1>2, <1>5, <1>6 DEF Injection, IsInjective
<1>8. Cardinality(1 .. n) = n
  BY SMTT(30), FS_Interval
<1>9. g \in Surjection(1 .. n, S)
  BY Zenon, <1>2, <1>7, <1>8, FS_Injection
<1>. QED  BY Zenon, <1>6, <1>9 DEF Surjection

\* A concatenation holds what its parts hold.
Holds(q, r) == \E n \in 1 .. Len(q) : q[n] = r
\* What holds for the elements of both parts holds for their concatenation.
LEMMA ConcatIsAll ==
  ASSUME NEW S, NEW p \in Seq(S), NEW q \in Seq(S), NEW r, Holds(p, r) \/ Holds(q, r)
  PROVE  Holds(p \o q, r)
<1>1. /\ Len(p) \in Nat /\ Len(q) \in Nat /\ Len(p \o q) = Len(p) + Len(q)
      /\ \A i \in 1 .. Len(p) + Len(q) : (p \o q)[i] = IF i <= Len(p) THEN p[i] ELSE q[i - Len(p)]
  BY Zenon, SeqLen, SeqConcat
<1>2. ASSUME NEW n \in 1 .. Len(p), p[n] = r  PROVE Holds(p \o q, r)
  <2>1. n \in 1 .. Len(p) + Len(q) /\ n <= Len(p)
    BY SMTT(30), <1>1
  <2>. QED  BY Zenon, <1>1, <1>2, <2>1 DEF Holds
<1>3. ASSUME NEW n \in 1 .. Len(q), q[n] = r  PROVE Holds(p \o q, r)
  <2>1. Len(p) + n \in 1 .. Len(p) + Len(q) /\ ~(Len(p) + n <= Len(p)) /\ (Len(p) + n) - Len(p) = n
    BY SMTT(30), <1>1
  <2>. QED  BY Zenon, <1>1, <1>3, <2>1 DEF Holds
<1>. QED  BY Zenon, <1>2, <1>3 DEF Holds

\* The snapshot of the answers.
LEMMA SnapshotState ==
  ASSUME NEW R \in [Jobs -> Partial \cup {Nil}], NEW j \in Jobs
  PROVE  LET l == SnapshotResults(R)
         IN  StateIn(l, Len(l), j) = IF R[j] # Nil THEN "JobDone" ELSE "none"
<1>. DEFINE S == {JobDone(k, R[k]) : k \in {i \in Jobs : R[i] # Nil}}
            l == SnapshotResults(R)
            n == Len(l)
<1>1. l \in Seq(S) /\ IsFiniteSet(S) /\ l = Listing(S)
  BY Zenon, SnapshotType DEF SnapshotResults
<1>2. \A r \in S : r.typ = "JobDone" /\ R[r.job] # Nil
  <2>. SUFFICES ASSUME NEW k \in Jobs, R[k] # Nil
                PROVE  JobDone(k, R[k]).typ = "JobDone" /\ R[JobDone(k, R[k]).job] # Nil
    BY Zenon
  <2>. QED  BY Zenon DEF JobDone
<1>3. R[j] # Nil => JobDone(j, R[j]) \in S /\ JobDone(j, R[j]).job = j
  BY Zenon DEF JobDone
<1>. HIDE DEF S, l
<1>4. n \in Nat /\ \A k \in 1 .. n : l[k].typ = "JobDone" /\ R[l[k].job] # Nil
  BY Zenon, <1>1, <1>2, SeqLen, SeqMember
<1>5. 0 \in Nat /\ 0 <= n /\ 0 + 1 = 1
  BY SMTT(30), <1>4
<1>. HIDE DEF n
<1>6. CASE R[j] # Nil
  <2>1. \E k \in 1 .. n : l[k] = JobDone(j, R[j])
    BY Zenon, <1>1, <1>3, <1>6, ListingIsAll DEF n
  <2>2. \E k \in 1 .. n : l[k].job = j
    BY Zenon, <1>3, <1>6, <2>1
  <2>3. \A k \in 1 .. n : l[k].job = j => l[k].typ = "JobDone"
    BY Zenon, <1>4
  <2>4. "JobDone" # "ChunkDone" /\ 1 \in Nat \ {0}
    BY SMTT(30)
  <2>5. Ends(l, 1, n, j, "JobDone")
    BY Zenon, <1>4, <2>2, <2>3, <2>4 DEF Ends
  <2>6. StateIn(l, n, j) = "JobDone"
    BY Zenon, <2>5, LastKind
  <2>. QED  BY Zenon, <1>6, <2>6 DEF n, l
<1>7. CASE R[j] = Nil
  <2>1. \A k \in 1 .. n : l[k].job # j
    BY Zenon, <1>4, <1>5, <1>7
  <2>2. StateIn(l, n, j) = "none"
    BY Zenon, <1>4, <1>5, <2>1, Untouched
  <2>. QED  BY Zenon, <1>7, <2>2 DEF n, l
<1>. QED  BY Zenon, <1>6, <1>7

-----------------------------------------------------------------------------
(* The state that a log stands for: running jobs J, answers R, counted chunks F. *)

Matches(l, n, J, R, F) ==
  \A j \in Jobs : /\ j \in J <=> StateIn(l, n, j) = "JobStart"
                  /\ R[j] # Nil <=> StateIn(l, n, j) = "JobDone"
                  /\ j \in J => F[j] = DoneIn(l, n, j)

\* Record r turns J, R and F into K, S and G.
Applied(r, J, R, F, K, S, G) ==
  /\ \A j \in Jobs \ {r.job} : (j \in K <=> j \in J) /\ S[j] = R[j] /\ (j \in J => G[j] = F[j])
  /\ LET j == r.job IN
       \/ r.typ = "JobStart" /\ j \in K /\ S[j] = Nil /\ G[j] = {}
       \/ /\ r.typ = "ChunkDone" /\ (j \in K <=> j \in J) /\ S[j] = R[j]
          /\ j \in J => G[j] = F[j] \cup {r.idx}
       \/ r.typ = "JobDone" /\ j \notin K /\ S[j] # Nil
       \/ r.typ = "JobDrop" /\ j \notin K /\ S[j] = Nil

\* The empty log.
LEMMA MatchesNothing ==
  ASSUME NEW l, NEW R, NEW F, \A j \in Jobs : R[j] = Nil
  PROVE  Matches(l, 0, {}, R, F)
<1>1. \A j \in Jobs : StateIn(l, 0, j) = "none"
  BY Zenon, StateAtStart
<1>2. "none" # "JobStart" /\ "none" # "JobDone"
  BY Zenon
<1>. QED  BY Zenon, <1>1, <1>2 DEF Matches

\* One more record.
LEMMA MatchesNext ==
  ASSUME NEW l, NEW n \in Nat, NEW J, NEW R, NEW F, NEW K, NEW S, NEW G,
         Matches(l, n, J, R, F), Applied(l[n + 1], J, R, F, K, S, G)
  PROVE  Matches(l, n + 1, K, S, G)
<1>. DEFINE r == l[n + 1]
<1>1. ASSUME NEW j \in Jobs, j # r.job
      PROVE  /\ j \in K <=> StateIn(l, n + 1, j) = "JobStart"
             /\ S[j] # Nil <=> StateIn(l, n + 1, j) = "JobDone"
             /\ j \in K => G[j] = DoneIn(l, n + 1, j)
  <2>1. StateIn(l, n + 1, j) = StateIn(l, n, j) /\ DoneIn(l, n + 1, j) = DoneIn(l, n, j)
    BY Zenon, <1>1, NextRecord
  <2>2. (j \in K <=> j \in J) /\ S[j] = R[j] /\ (j \in J => G[j] = F[j])
    BY Zenon, <1>1 DEF Applied
  <2>. QED  BY Zenon, <2>1, <2>2 DEF Matches
<1>2. ASSUME NEW j \in Jobs, j = r.job
      PROVE  /\ j \in K <=> StateIn(l, n + 1, j) = "JobStart"
             /\ S[j] # Nil <=> StateIn(l, n + 1, j) = "JobDone"
             /\ j \in K => G[j] = DoneIn(l, n + 1, j)
  <2>1. CASE r.typ = "ChunkDone" /\ (j \in K <=> j \in J) /\ S[j] = R[j]
             /\ (j \in J => G[j] = F[j] \cup {r.idx})
    <3>1. /\ StateIn(l, n + 1, j) = StateIn(l, n, j)
          /\ DoneIn(l, n + 1, j) = DoneIn(l, n, j) \cup {r.idx}
      <4>1. l[n + 1].job = j /\ l[n + 1].typ = "ChunkDone" =>
              /\ StateIn(l, n + 1, j) = StateIn(l, n, j)
              /\ DoneIn(l, n + 1, j) = DoneIn(l, n, j) \cup {l[n + 1].idx}
        BY Zenon, NextRecord
      <4>. QED  BY Zenon, <1>2, <2>1, <4>1
    <3>. QED  BY Zenon, <2>1, <3>1 DEF Matches
  <2>2. CASE r.typ # "ChunkDone"
    <3>1. StateIn(l, n + 1, j) = r.typ /\ DoneIn(l, n + 1, j) = {}
      BY Zenon, <1>2, <2>2, NextRecord
    <3>2. \/ r.typ = "JobStart" /\ j \in K /\ S[j] = Nil /\ G[j] = {}
          \/ r.typ = "JobDone" /\ j \notin K /\ S[j] # Nil
          \/ r.typ = "JobDrop" /\ j \notin K /\ S[j] = Nil
      BY Zenon, <1>2, <2>2 DEF Applied
    <3>. QED  BY SMTT(30), <3>1, <3>2
  <2>. QED  BY Zenon, <1>2, <2>1, <2>2 DEF Applied
<1>. QED  BY Zenon, <1>1, <1>2 DEF Matches

\* Only the part up to n counts.
LEMMA MatchesPart ==
  ASSUME NEW l, NEW k, NEW n \in Nat, \A m \in 1 .. n : l[m] = k[m], NEW J, NEW R, NEW F,
         Matches(k, n, J, R, F)
  PROVE  Matches(l, n, J, R, F)
<1>1. \A j : StateIn(l, n, j) = StateIn(k, n, j) /\ DoneIn(l, n, j) = DoneIn(k, n, j)
  BY Zenon, SamePart
<1>. QED  BY Zenon, <1>1 DEF Matches

\* One record, and two records, appended.
LEMMA MatchesOne ==
  ASSUME NEW l \in Seq(Record), NEW r \in Record, NEW J, NEW R, NEW F, NEW K, NEW S, NEW G,
         Matches(l, Len(l), J, R, F), Applied(r, J, R, F, K, S, G)
  PROVE  /\ l \o <<r>> \in Seq(Record)
         /\ Matches(l \o <<r>>, Len(l \o <<r>>), K, S, G)
<1>. DEFINE k == Append(l, r)
<1>1. k = l \o <<r>> /\ k \in Seq(Record) /\ Len(k) = Len(l) + 1 /\ Len(l) \in Nat
  BY Zenon, SeqSnoc, SeqAppend, SeqLen
<1>2. (\A i \in 1 .. Len(l) : k[i] = l[i]) /\ k[Len(l) + 1] = r
  BY SMTT(30), SeqAppend
<1>. HIDE DEF k
<1>3. Matches(k, Len(l), J, R, F)
  BY Zenon, <1>1, <1>2, MatchesPart
<1>4. Matches(k, Len(l) + 1, K, S, G)
  BY Zenon, <1>1, <1>2, <1>3, MatchesNext
<1>. QED  BY Zenon, <1>1, <1>4

\* A sequence of two records.
LEMMA SeqTwo ==
  ASSUME NEW S, NEW q \in Seq(S), NEW a \in S, NEW b \in S
  PROVE  (q \o <<a>>) \o <<b>> = q \o <<a, b>>
<1>. DEFINE x == (q \o <<a>>) \o <<b>>
            y == q \o <<a, b>>
<1>1. x \in Seq(S) /\ y \in Seq(S) /\ Len(x) = Len(q) + 2 /\ Len(y) = Len(q) + 2
  BY SMTT(30)
<1>2. \A i \in 1 .. Len(q) + 2 : x[i] = y[i]
  <2>1. \A i \in 1 .. Len(q) : x[i] = q[i] /\ y[i] = q[i]
    BY SMTT(30)
  <2>2. x[Len(q) + 1] = a /\ y[Len(q) + 1] = a
    BY SMTT(30)
  <2>3. x[Len(q) + 2] = b /\ y[Len(q) + 2] = b
    BY SMTT(30)
  <2>. HIDE DEF x, y
  <2>. QED  BY SMTT(30), <2>1, <2>2, <2>3
<1>. HIDE DEF x, y
<1>3. x = y
  BY SMTT(30), <1>1, <1>2
<1>. QED  BY Zenon, <1>3 DEF x, y

\* Two records written at once, if the state changes by both.
LEMMA MatchesTwo ==
  ASSUME NEW l \in Seq(Record), NEW a \in Record, NEW b \in Record, NEW J, NEW R, NEW F,
         NEW J1, NEW R1, NEW F1, NEW K, NEW S, NEW G,
         Matches(l, Len(l), J, R, F), Applied(a, J, R, F, J1, R1, F1), Applied(b, J1, R1, F1, K, S, G)
  PROVE  Matches(l \o <<a, b>>, Len(l \o <<a, b>>), K, S, G)
<1>1. l \o <<a>> \in Seq(Record) /\ Matches(l \o <<a>>, Len(l \o <<a>>), J1, R1, F1)
  BY Zenon, MatchesOne
<1>. DEFINE k == l \o <<a>>
<1>2. k \o <<b>> = l \o <<a, b>>
  BY Zenon, SeqTwo
<1>. HIDE DEF k
<1>3. Matches(k \o <<b>>, Len(k \o <<b>>), K, S, G)
  BY Zenon, <1>1, MatchesOne DEF k
<1>. QED  BY Zenon, <1>2, <1>3

\* The records of the jobs and answers a housekeeping tick drops.
DropRecs(D, E) == [n \in 1 .. Len(Drops(D, E)) |-> JobDrop(Drops(D, E)[n])]

\* q drops the jobs in T and no others.
DropsAll(q, T) ==
  /\ q \in Seq(Record)
  /\ \A n \in 1 .. Len(q) : q[n].typ = "JobDrop" /\ q[n].job \in T
  /\ \A j \in T : \E n \in 1 .. Len(q) : q[n].job = j

\* They are records, all of them drops, one for each job and answer dropped.
LEMMA DropsAre ==
  ASSUME NEW D \in SUBSET Jobs, NEW E \in SUBSET Jobs
  PROVE  DropsAll(DropRecs(D, E), D \cup E)
<1>. DEFINE T == D \cup E
            d == Drops(D, E)
            q == DropRecs(D, E)
<1>1. IsFiniteSet(D) /\ IsFiniteSet(E)
  BY Zenon, ConstantsOK, FS_Subset
<1>2. Listing(D) \in Seq(T) /\ Listing(E) \in Seq(T)
  <2>1. Listing(D) \in Seq(D) /\ Listing(E) \in Seq(E) /\ D \subseteq T /\ E \subseteq T
    BY Zenon, <1>1, ListingIsSeq
  <2>. HIDE DEF T
  <2>. QED  BY Zenon, <2>1, SeqWider
<1>3. d \in Seq(T)
  BY Zenon, <1>2, SeqConcat DEF Drops
<1>4. ASSUME NEW j \in T  PROVE Holds(d, j)
  <2>1. Holds(Listing(D), j) \/ Holds(Listing(E), j)
    BY Zenon, <1>1, ListingIsAll DEF Holds
  <2>. QED  BY Zenon, <1>2, <2>1, ConcatIsAll DEF Drops
<1>5. T \subseteq Jobs
  BY Zenon
<1>. HIDE DEF T, d
<1>6. Len(d) \in Nat /\ \A n \in 1 .. Len(d) : d[n] \in T
  BY Zenon, <1>3, SeqLen, SeqMember
<1>7. \A n \in 1 .. Len(d) : q[n] = JobDrop(d[n])
  BY Zenon DEF DropRecs, d
<1>8. \A n \in 1 .. Len(d) : JobDrop(d[n]) \in Record
  BY Zenon, <1>5, <1>6, RecordTypes
<1>9. q \in Seq(Record) /\ Len(q) = Len(d)
  <2>1. q = [n \in 1 .. Len(d) |-> JobDrop(d[n])]
    BY Zenon DEF DropRecs, d
  <2>. HIDE DEF q
  <2>. QED  BY SMTT(30), <1>6, <1>8, <2>1
<1>10. \A n \in 1 .. Len(d) : q[n].typ = "JobDrop" /\ q[n].job = d[n]
  <2>. TAKE n \in 1 .. Len(d)
  <2>1. q[n] = JobDrop(d[n])
    BY Zenon, <1>7
  <2>. QED  BY SMTT(30), <2>1 DEF JobDrop
<1>. HIDE DEF q
<1>11. \A n \in 1 .. Len(q) : q[n].typ = "JobDrop" /\ q[n].job \in T
  BY Zenon, <1>6, <1>9, <1>10
<1>12. \A j \in T : \E n \in 1 .. Len(q) : q[n].job = j
  BY Zenon, <1>4, <1>9, <1>10 DEF Holds
<1>. QED  BY Zenon, <1>9, <1>11, <1>12 DEF T, q, DropsAll

\* After a tick has logged what it drops, the log tells the state that is left.
LEMMA MatchesDrops ==
  ASSUME NEW l \in Seq(Record), NEW D \in SUBSET Jobs, NEW E \in SUBSET Jobs,
         NEW J, NEW R, NEW F, NEW S, NEW G, Matches(l, Len(l), J, R, F),
         \A j \in Jobs : S[j] = IF j \in E THEN Nil ELSE R[j],
         \A j \in Jobs \ D : G[j] = F[j],
         \A j \in D : R[j] = Nil, \A j \in E : j \notin J
  PROVE  Matches(l \o DropRecs(D, E), Len(l \o DropRecs(D, E)), J \ D, S, G)
<1>. DEFINE q == DropRecs(D, E)
            k == l \o q
            a == Len(l)
            n == Len(k)
<1>1. /\ q \in Seq(Record)
      /\ \A i \in 1 .. Len(q) : q[i].typ = "JobDrop" /\ q[i].job \in D \cup E
      /\ \A j \in D \cup E : \E i \in 1 .. Len(q) : q[i].job = j
  <2>1. DropsAll(q, D \cup E)
    BY Zenon, DropsAre
  <2>. HIDE DEF q
  <2>. QED  BY Zenon, <2>1 DEF DropsAll
<1>. HIDE DEF q
<1>2. /\ a \in Nat /\ Len(q) \in Nat /\ n = a + Len(q)
      /\ \A i \in 1 .. n : k[i] = IF i <= a THEN l[i] ELSE q[i - a]
  BY SMTT(30), <1>1, SeqLen, SeqConcat
<1>. HIDE DEF k, a, n
<1>3. /\ \A i \in 1 .. a : k[i] = l[i]
      /\ \A i \in a + 1 .. n : i - a \in 1 .. Len(q) /\ k[i] = q[i - a]
      /\ \A i \in 1 .. Len(q) : a + i \in a + 1 .. n /\ k[a + i] = q[i]
  <2>1. \A i \in 1 .. a : i \in 1 .. n /\ i <= a
    BY SMTT(30), <1>2
  <2>2. \A i \in a + 1 .. n : i \in 1 .. n /\ ~(i <= a) /\ i - a \in 1 .. Len(q)
    BY SMTT(30), <1>2
  <2>3. \A i \in 1 .. Len(q) : a + i \in a + 1 .. n /\ (a + i) - a = i
    BY SMTT(30), <1>2
  <2>4. \A i \in a + 1 .. n : k[i] = q[i - a]
    BY Zenon, <1>2, <2>2
  <2>. QED  BY Zenon, <1>2, <2>1, <2>2, <2>3, <2>4
<1>4. Matches(k, a, J, R, F)
  BY Zenon, <1>2, <1>3, MatchesPart DEF a
<1>5. a \in Nat /\ n \in Nat /\ a <= n /\ a + 1 \in Nat \ {0}
  BY SMTT(30), <1>2
<1>6. ASSUME NEW j \in Jobs, j \in D \cup E
      PROVE  StateIn(k, n, j) = "JobDrop"
  <2>1. PICK i \in 1 .. Len(q) : q[i].job = j
    BY Zenon, <1>1, <1>6
  <2>2. a + i \in a + 1 .. n /\ k[a + i].job = j
    BY Zenon, <1>3, <2>1
  <2>3. ASSUME NEW m \in a + 1 .. n  PROVE k[m].typ = "JobDrop"
    <3>1. m - a \in 1 .. Len(q) /\ k[m] = q[m - a]
      BY Zenon, <1>3
    <3>2. q[m - a].typ = "JobDrop"
      BY Zenon, <1>1, <3>1
    <3>. QED  BY Zenon, <3>1, <3>2
  <2>4. "JobDrop" # "ChunkDone"
    BY Zenon
  <2>5. Ends(k, a + 1, n, j, "JobDrop")
    BY Zenon, <1>5, <2>2, <2>3, <2>4 DEF Ends
  <2>. QED  BY Zenon, <2>5, LastKind
<1>7. ASSUME NEW j \in Jobs, j \notin D \cup E
      PROVE  StateIn(k, n, j) = StateIn(k, a, j) /\ DoneIn(k, n, j) = DoneIn(k, a, j)
  <2>1. ASSUME NEW m \in a + 1 .. n  PROVE k[m].job # j
    <3>1. m - a \in 1 .. Len(q) /\ k[m] = q[m - a]
      BY Zenon, <1>3
    <3>2. q[m - a].job \in D \cup E
      BY Zenon, <1>1, <3>1
    <3>. QED  BY Zenon, <1>7, <3>1, <3>2
  <2>. QED  BY Zenon, <1>5, <2>1, OtherJobs
<1>8. ASSUME NEW j \in Jobs
      PROVE  /\ j \in J \ D <=> StateIn(k, n, j) = "JobStart"
             /\ S[j] # Nil <=> StateIn(k, n, j) = "JobDone"
             /\ j \in J \ D => G[j] = DoneIn(k, n, j)
  <2>1. CASE j \in D \cup E
    <3>1. j \notin J \ D /\ S[j] = Nil
      BY Zenon, <2>1
    <3>2. "JobDrop" # "JobStart" /\ "JobDrop" # "JobDone"
      BY Zenon
    <3>. QED  BY Zenon, <1>6, <2>1, <3>1, <3>2
  <2>2. CASE j \notin D \cup E
    <3>1. (j \in J \ D <=> j \in J) /\ S[j] = R[j] /\ G[j] = F[j]
      BY Zenon, <2>2
    <3>. QED  BY Zenon, <1>4, <1>7, <2>2, <3>1 DEF Matches
  <2>. QED  BY Zenon, <2>1, <2>2
<1>. QED  BY Zenon, <1>8 DEF Matches, k, n, q

-----------------------------------------------------------------------------
(* Every ChunkDone record is about a chunk of its job. *)

InRange(l) == \A n \in 1 .. Len(l) : l[n].typ = "ChunkDone" => l[n].idx \in Idx(l[n].job)

\* Appending keeps the chunks in range.
LEMMA InRangeConcat ==
  ASSUME NEW S, NEW l \in Seq(S), NEW q \in Seq(S), InRange(l), InRange(q)
  PROVE  InRange(l \o q)
<1>1. /\ Len(l) \in Nat /\ Len(q) \in Nat /\ Len(l \o q) = Len(l) + Len(q)
      /\ \A i \in 1 .. Len(l \o q) : (l \o q)[i] = IF i <= Len(l) THEN l[i] ELSE q[i - Len(l)]
  BY SMTT(30), SeqLen, SeqConcat
<1>2. \A i \in 1 .. Len(l) + Len(q) : i \in 1 .. Len(l) \/ (~(i <= Len(l)) /\ i - Len(l) \in 1 .. Len(q))
  BY SMTT(30), <1>1
<1>3. \A i \in 1 .. Len(l) : i <= Len(l)
  BY SMTT(30), <1>1
<1>. QED  BY Zenon, <1>1, <1>2, <1>3 DEF InRange

\* So does losing the end of the log.
LEMMA InRangePrefix ==
  ASSUME NEW l \in Seq(Record), NEW n \in 0 .. Len(l), InRange(l)
  PROVE  InRange(SubSeq(l, 1, n))
<1>1. Len(SubSeq(l, 1, n)) = n /\ \A i \in 1 .. n : SubSeq(l, 1, n)[i] = l[i]
  BY Zenon, SeqPrefix
<1>2. \A i \in 1 .. n : i \in 1 .. Len(l)
  BY SMTT(30), SeqLen
<1>. QED  BY Zenon, <1>1, <1>2 DEF InRange

\* Records without a chunk are in range.
LEMMA InRangeOther ==
  ASSUME NEW l, \A n \in 1 .. Len(l) : l[n].typ # "ChunkDone"
  PROVE  InRange(l)
BY Zenon DEF InRange

\* The log recovery writes back is in range.
LEMMA InRangeCompacted ==
  ASSUME TypeOK, NEW R \in [Jobs -> Partial \cup {Nil}], NEW J \in SUBSET Jobs,
         \A j \in J : chunks[j] \subseteq Idx(j)
  PROVE  InRange(Compacted(R, J)) /\ InRange(SnapshotResults(R))
<1>. DEFINE S0 == {JobDone(k, R[k]) : k \in {i \in Jobs : R[i] # Nil}}
            S1 == {JobStart(k) : k \in J}
            S2 == UNION {{ChunkDone(k, i) : i \in chunks[k]} : k \in J}
            T == S0 \cup S1 \cup S2
            A == SnapshotResults(R)
            B == Listing(S1)
            C == Listing(S2)
<1>1. A \in Seq(S0) /\ B \in Seq(S1) /\ C \in Seq(S2)
  BY Zenon, SnapshotType, StartsType, ChunksType
<1>2. Compacted(R, J) = (A \o B) \o C
  BY Zenon DEF Compacted
<1>3. \A r \in S0 : r.typ # "ChunkDone"
  BY SMTT(30) DEF JobDone
<1>4. \A r \in S1 : r.typ # "ChunkDone"
  BY SMTT(30) DEF JobStart
<1>5. ASSUME NEW r \in S2  PROVE r.idx \in Idx(r.job)
  <2>1. PICK k \in J : r \in {ChunkDone(k, i) : i \in chunks[k]}
    BY Zenon
  <2>2. PICK i \in chunks[k] : r = ChunkDone(k, i)
    BY Zenon, <2>1
  <2>3. r.idx = i /\ r.job = k
    BY Zenon, <2>2 DEF ChunkDone
  <2>. QED  BY Zenon, <2>2, <2>3
<1>6. S0 \subseteq T /\ S1 \subseteq T /\ S2 \subseteq T
  BY Zenon
<1>. HIDE DEF S0, S1, S2, T, A, B, C
<1>7. InRange(A) /\ InRange(B) /\ InRange(C)
  BY Zenon, <1>1, <1>3, <1>4, <1>5, SeqMember DEF InRange
<1>8. A \in Seq(T) /\ B \in Seq(T) /\ C \in Seq(T)
  BY Zenon, <1>1, <1>6, SeqWider
<1>9. A \o B \in Seq(T) /\ InRange(A \o B)
  BY Zenon, <1>7, <1>8, SeqConcat, InRangeConcat
<1>. QED  BY Zenon, <1>2, <1>7, <1>8, <1>9, InRangeConcat DEF A

-----------------------------------------------------------------------------
(* The handlers write what they do. *)

\* What StateMatchesLog needs: recovery starts with a log that can be written and
\* keeps exactly the chunks it counts, since it writes them back.
LogInv ==
  /\ wal = "ok" => Matches(log, pos, jobs, results, done)
  /\ wal = "ok" /\ phase = "run" => pos = Len(log)
  /\ wal = "none" => log = <<>>
  /\ phase = "replay" => wal # "failing" /\ \A j \in jobs : done[j] \subseteq chunks[j]
  /\ InRange(log)

\* While running it is enough that the whole log tells the state.
LEMMA LogInvRun ==
  ASSUME phase' = "run", InRange(log'), wal' = "none" => log' = <<>>,
         wal' = "ok" => pos' = Len(log') /\ Matches(log', Len(log'), jobs', results', done')
  PROVE  LogInv'
BY Zenon DEF LogInv

\* A step that writes no record and changes none of the three maps.
LEMMA LogInvSame ==
  ASSUME LogInv, UNCHANGED <<phase, jobs, results, done, chunks, wal, log, pos>>
  PROVE  LogInv'
<1>1. /\ phase' = phase /\ jobs' = jobs /\ results' = results /\ done' = done
      /\ chunks' = chunks /\ wal' = wal /\ log' = log /\ pos' = pos
  BY Zenon
<1>. QED  BY Zenon, <1>1 DEF LogInv

\* A record a job is in, whose chunk is one of the job's.
Sound(r) == r \in Record /\ (r.typ = "ChunkDone" => r.idx \in Idx(r.job))

\* One record.
LEMMA SoundOne ==
  ASSUME NEW r, Sound(r)
  PROVE  <<r>> \in Seq(Record) /\ InRange(<<r>>)
<1>1. r \in Record
  BY Zenon DEF Sound
<1>2. <<r>> \in Seq(Record) /\ Len(<<r>>) = 1 /\ <<r>>[1] = r /\ \A n \in 1 .. 1 : n = 1
  BY SMTT(30), <1>1
<1>. QED  BY Zenon, <1>2 DEF InRange, Sound

\* Two records.
LEMMA SoundTwo ==
  ASSUME NEW a, NEW b, Sound(a), Sound(b)
  PROVE  <<a, b>> \in Seq(Record) /\ InRange(<<a, b>>)
<1>1. a \in Record /\ b \in Record
  BY Zenon DEF Sound
<1>2. /\ <<a, b>> \in Seq(Record) /\ Len(<<a, b>>) = 2 /\ <<a, b>>[1] = a /\ <<a, b>>[2] = b
      /\ \A n \in 1 .. 2 : n = 1 \/ n = 2
  BY SMTT(30), <1>1
<1>. QED  BY Zenon, <1>2 DEF InRange, Sound

\* A handler that logs one record and applies it.
LEMMA LogInvOne ==
  ASSUME Inv1, LogInv, phase = "run", phase' = "run", NEW r, NEW b, Sound(r), WriteLog(<<r>>, b),
         Applied(r, jobs, results, done, jobs', results', done')
  PROVE  LogInv'
<1>0. log \in Seq(Record) /\ InRange(log) /\ wal' = wal /\ r \in Record /\ (wal = "none" => log = <<>>)
  BY Zenon DEF Inv1, TypeOK, LogInv, WriteLog, Sound
<1>1. CASE wal = "ok"
  <2>1. log' = log \o <<r>> /\ pos' = Len(log')
    BY Zenon, <1>1 DEF WriteLog
  <2>2. Matches(log, Len(log), jobs, results, done)
    BY Zenon, <1>1 DEF LogInv
  <2>3. Matches(log', Len(log'), jobs', results', done')
    BY Zenon, <1>0, <2>1, <2>2, MatchesOne
  <2>4. InRange(log')
    BY Zenon, <1>0, <2>1, SoundOne, InRangeConcat
  <2>5. wal' # "none"
    BY Zenon, <1>0, <1>1
  <2>. QED  BY Zenon, <2>1, <2>3, <2>4, <2>5, LogInvRun
<1>2. CASE wal # "ok"
  <2>1. log' = log
    BY Zenon, <1>2 DEF WriteLog
  <2>. QED  BY Zenon, <1>0, <1>2, <2>1, LogInvRun
<1>. QED  BY Zenon, <1>1, <1>2

\* A handler that logs two records and applies both.
LEMMA LogInvTwo ==
  ASSUME Inv1, LogInv, phase = "run", phase' = "run", NEW r, NEW q, NEW b, Sound(r), Sound(q),
         WriteLog(<<r, q>>, b), NEW J, NEW R, NEW F,
         Applied(r, jobs, results, done, J, R, F), Applied(q, J, R, F, jobs', results', done')
  PROVE  LogInv'
<1>0. /\ log \in Seq(Record) /\ InRange(log) /\ wal' = wal /\ r \in Record /\ q \in Record
      /\ wal = "none" => log = <<>>
  BY Zenon DEF Inv1, TypeOK, LogInv, WriteLog, Sound
<1>1. CASE wal = "ok"
  <2>1. log' = log \o <<r, q>> /\ pos' = Len(log')
    BY Zenon, <1>1 DEF WriteLog
  <2>2. Matches(log, Len(log), jobs, results, done)
    BY Zenon, <1>1 DEF LogInv
  <2>3. Matches(log', Len(log'), jobs', results', done')
    BY Zenon, <1>0, <2>1, <2>2, MatchesTwo
  <2>4. InRange(log')
    BY Zenon, <1>0, <2>1, SoundTwo, InRangeConcat
  <2>5. wal' # "none"
    BY Zenon, <1>0, <1>1
  <2>. QED  BY Zenon, <2>1, <2>3, <2>4, <2>5, LogInvRun
<1>2. CASE wal # "ok"
  <2>1. log' = log
    BY Zenon, <1>2 DEF WriteLog
  <2>. QED  BY Zenon, <1>0, <1>2, <2>1, LogInvRun
<1>. QED  BY Zenon, <1>1, <1>2

\* A submission keeps LogInv.
LEMMA LogInvSubmit ==
  ASSUME Inv1, LogInv, NEW c \in Conns, NEW j \in Jobs, Submit(c, j)
  PROVE  LogInv'
<1>0. /\ phase = "run" /\ phase' = "run" /\ chunks' = chunks
      /\ done \in [Jobs -> SUBSET AllIdx] /\ results \in [Jobs -> Partial \cup {Nil}] /\ Nil \notin Partial
      /\ j \notin jobs => done[j] = {}
  BY Zenon, ConstantsOK
     DEF Inv1, TypeOK, ExactlyOnce, Submit, SubmitStored, SubmitRunning, SubmitNew, SubmitEmpty, Submitting
<1>1. CASE SubmitStored(c, j) \/ SubmitRunning(c, j)
  BY Zenon, <1>0, <1>1, LogInvSame DEF SubmitStored, SubmitRunning, memVars, walVars
<1>. DEFINE r == JobStart(j)
            q == JobDone(j, Zero)
<1>2. /\ Sound(r) /\ r.typ = "JobStart" /\ r.job = j
      /\ Sound(q) /\ q.typ = "JobDone" /\ q.job = j
  <2>1. r \in Record /\ q \in Record
    BY Zenon, RecordTypes, CountNone
  <2>2. r.typ = "JobStart" /\ r.job = j /\ q.typ = "JobDone" /\ q.job = j
    BY Zenon DEF JobStart, JobDone
  <2>3. "JobStart" # "ChunkDone" /\ "JobDone" # "ChunkDone"
    BY Zenon
  <2>. HIDE DEF r, q
  <2>. QED  BY Zenon, <2>1, <2>2, <2>3 DEF Sound
<1>3. Zero # Nil
  BY Zenon, <1>0, CountNone
<1>. HIDE DEF r, q
<1>4. CASE SubmitNew(c, j)
  <2>1. /\ jobs' = jobs \cup {j} /\ done' = done /\ results' = results
        /\ results[j] = Nil /\ j \notin jobs /\ WriteLog(<<r>>, TRUE)
    BY Zenon, <1>4 DEF SubmitNew, IsNew, r
  <2>2. Applied(r, jobs, results, done, jobs', results', done')
    BY Zenon, <1>0, <1>2, <2>1 DEF Applied
  <2>. QED  BY Zenon, <1>0, <1>2, <2>1, <2>2, LogInvOne
<1>5. CASE SubmitEmpty(c, j)
  <2>1. /\ jobs' = jobs /\ done' = done /\ results' = [results EXCEPT ![j] = Zero]
        /\ results[j] = Nil /\ j \notin jobs /\ WriteLog(<<r, q>>, TRUE)
    BY Zenon, <1>5 DEF SubmitEmpty, IsNew, r, q
  <2>2. results'[j] = Zero /\ \A k \in Jobs \ {j} : results'[k] = results[k]
    BY Zenon, <1>0, <2>1
  <2>3. Applied(r, jobs, results, done, jobs \cup {j}, results, done)
    BY Zenon, <1>0, <1>2, <2>1 DEF Applied
  <2>4. Applied(q, jobs \cup {j}, results, done, jobs', results', done')
    BY Zenon, <1>0, <1>2, <1>3, <2>1, <2>2 DEF Applied
  <2>. QED  BY Zenon, <1>0, <1>2, <2>1, <2>3, <2>4, LogInvTwo
<1>. QED  BY Zenon, <1>1, <1>4, <1>5 DEF Submit

\* A chunk that counts is one of its job's.
LEMMA CountsInRange ==
  ASSUME NEW j \in Jobs, NEW i \in AllIdx, i < NTasks[j]
  PROVE  i \in Idx(j)
<1>1. i \in Nat /\ NTasks[j] \in Nat
  BY Zenon, AllIdxIsFinite, ConstantsOK
<1>. QED  BY SMTT(30), <1>1 DEF Idx

\* A result keeps LogInv: a chunk is logged when counted, JobDone with the last.
LEMMA LogInvResult ==
  ASSUME Inv1, LogInv, NEW t \in issued, Result(t)
  PROVE  LogInv'
<1>. DEFINE j == t[1]
            i == t[2]
<1>0. /\ done \in [Jobs -> SUBSET AllIdx] /\ results \in [Jobs -> Partial \cup {Nil}]
      /\ j \in Jobs /\ i \in AllIdx /\ job \in [Jobs -> Job] /\ Nil \notin Partial
  <2>1. /\ done \in [Jobs -> SUBSET AllIdx] /\ results \in [Jobs -> Partial \cup {Nil}]
        /\ t \in Tasks /\ job \in [Jobs -> Job] /\ Nil \notin Partial
    BY Zenon, ConstantsOK DEF Inv1, TypeOK
  <2>. QED  BY Zenon, <2>1 DEF Tasks
<1>1. CASE ResultDropped(t)
  BY Zenon, <1>1, LogInvSame DEF ResultDropped, vars, memVars, walVars
<1>. DEFINE r == ChunkDone(j, i)
            F == [done EXCEPT ![j] = @ \cup {i}]
<1>2. Counts(t) => Sound(r) /\ r.typ = "ChunkDone" /\ r.job = j /\ r.idx = i /\ j \in jobs
  <2>1. r \in Record /\ r.typ = "ChunkDone" /\ r.job = j /\ r.idx = i
    BY Zenon, <1>0, RecordTypes DEF ChunkDone
  <2>2. Counts(t) => i \in Idx(j)
    BY Zenon, <1>0, CountsInRange DEF Counts
  <2>. HIDE DEF r
  <2>. QED  BY Zenon, <2>1, <2>2 DEF Sound, Counts
<1>. HIDE DEF r
<1>3. F[j] = done[j] \cup {i} /\ \A k \in Jobs \ {j} : F[k] = done[k]
  BY Zenon, <1>0
<1>. HIDE DEF F
<1>4. CASE ResultCounted(t)
  <2>1. /\ phase = "run" /\ phase' = "run" /\ Counts(t) /\ WriteLog(<<r>>, FALSE)
        /\ jobs' = jobs /\ results' = results /\ done' = F
    BY Zenon, <1>4 DEF ResultCounted, r, F
  <2>2. Applied(r, jobs, results, done, jobs', results', done')
    BY Zenon, <1>2, <1>3, <2>1 DEF Applied
  <2>. QED  BY Zenon, <1>2, <2>1, <2>2, LogInvOne
<1>5. CASE ResultLast(t)
  <2>. DEFINE p == Merge(job[j].acc, i)
              q == JobDone(j, p)
  <2>1. /\ phase = "run" /\ phase' = "run" /\ Counts(t) /\ WriteLog(<<r, q>>, TRUE)
        /\ jobs' = jobs \ {j} /\ results' = [results EXCEPT ![j] = p]
        /\ done' = [k \in Jobs |-> IF k \in {j} THEN {} ELSE done[k]]
    BY Zenon, <1>5 DEF ResultLast, Finish, r
  <2>2. p \in Partial /\ p # Nil
    <3>1. job[j] \in Job
      BY Zenon, <1>0
    <3>2. job[j].acc \in Partial
      BY Zenon, <3>1 DEF Job
    <3>. QED  BY Zenon, <1>0, <3>2, MergeType
  <2>3. Sound(q) /\ q.typ = "JobDone" /\ q.job = j
    <3>1. q \in Record
      BY Zenon, <1>0, <2>2, RecordTypes
    <3>2. q.typ = "JobDone" /\ q.job = j /\ "JobDone" # "ChunkDone"
      BY Zenon DEF JobDone
    <3>. HIDE DEF q
    <3>. QED  BY Zenon, <3>1, <3>2 DEF Sound
  <2>. HIDE DEF p, q
  <2>4. Applied(r, jobs, results, done, jobs, results, F)
    BY Zenon, <1>2, <1>3, <2>1 DEF Applied
  <2>5. /\ results'[j] = p /\ \A k \in Jobs \ {j} : results'[k] = results[k] /\ done'[k] = done[k]
    BY Zenon, <1>0, <2>1
  <2>6. Applied(q, jobs, results, F, jobs', results', done')
    BY Zenon, <1>3, <2>1, <2>2, <2>3, <2>5 DEF Applied
  <2>. QED  BY Zenon, <1>2, <2>1, <2>3, <2>4, <2>6, LogInvTwo
<1>. QED  BY Zenon, <1>1, <1>4, <1>5 DEF Result

\* A tick keeps LogInv, whether it appends, compacts or fails to compact.
LEMMA LogInvTick ==
  ASSUME Inv1, RunningXorStored, LogInv,
         NEW D \in SUBSET Orphans, NEW E \in SUBSET Stored, Tick(D, E)
  PROVE  LogInv'
<1>0. /\ results \in [Jobs -> Partial \cup {Nil}] /\ log \in Seq(Record) /\ jobs \subseteq Jobs
      /\ D \in SUBSET Jobs /\ E \in SUBSET Jobs /\ D \subseteq jobs /\ TypeOK
      /\ wal \in {"ok", "failing", "none"}
  BY Zenon DEF Inv1, TypeOK, Orphans, Stored
<1>1. /\ phase = "run" /\ phase' = "run" /\ jobs' = jobs \ D
      /\ done' = [j \in Jobs |-> IF j \in D THEN {} ELSE done[j]]
      /\ results' = [j \in Jobs |-> IF j \in E THEN Nil ELSE results[j]]
  BY Zenon DEF Tick, Finish
<1>. DEFINE recs == DropRecs(D, E)
            appended == IF wal = "ok" THEN log \o recs ELSE log
<1>2. \/ jobs \ D = {} /\ Rewrite(SnapshotResults(results'))
      \/ log' = appended /\ wal' = wal /\ pos' = IF wal = "ok" THEN Len(appended) ELSE pos
  BY Zenon DEF Tick, DropRecs
<1>3. InRange(log) /\ (wal = "none" => log = <<>>)
  BY Zenon DEF LogInv
<1>4. results' \in [Jobs -> Partial \cup {Nil}]
  BY Zenon, <1>0, <1>1
<1>5. CASE jobs \ D = {} /\ Rewrite(SnapshotResults(results'))
  <2>. DEFINE l == SnapshotResults(results')
  <2>1. log' = l /\ pos' = Len(l) /\ wal' = "ok"
    BY Zenon, <1>5 DEF Rewrite
  <2>2. InRange(l)
    <3>1. {} \in SUBSET Jobs /\ \A j \in {} : chunks[j] \subseteq Idx(j)
      BY Zenon
    <3>. QED  BY Zenon, <1>0, <1>4, <3>1, InRangeCompacted
  <2>3. \A j \in Jobs : StateIn(l, Len(l), j) = IF results'[j] # Nil THEN "JobDone" ELSE "none"
    BY Zenon, <1>4, SnapshotState
  <2>. HIDE DEF l
  <2>4. Matches(l, Len(l), jobs', results', done')
    <3>1. \A j \in Jobs : j \notin jobs'
      BY Zenon, <1>1, <1>5
    <3>2. "JobDone" # "JobStart" /\ "none" # "JobStart" /\ "none" # "JobDone"
      BY Zenon
    <3>. QED  BY Zenon, <2>3, <3>1, <3>2 DEF Matches
  <2>5. wal' # "none"
    BY Zenon, <2>1
  <2>. QED  BY Zenon, <1>1, <2>1, <2>2, <2>4, <2>5, LogInvRun
<1>6. CASE log' = appended /\ wal' = wal /\ pos' = IF wal = "ok" THEN Len(appended) ELSE pos
  <2>1. CASE wal = "ok"
    <3>1. log' = log \o recs /\ pos' = Len(log')
      BY Zenon, <1>6, <2>1
    <3>2. Matches(log, Len(log), jobs, results, done)
      BY Zenon, <1>1, <2>1 DEF LogInv
    <3>3. /\ \A j \in Jobs : results'[j] = IF j \in E THEN Nil ELSE results[j]
          /\ \A j \in Jobs \ D : done'[j] = done[j]
          /\ \A j \in D : results[j] = Nil
          /\ \A j \in E : j \notin jobs
      BY Zenon, <1>0, <1>1 DEF RunningXorStored, Stored
    <3>4. Matches(log', Len(log'), jobs', results', done')
      BY Zenon, <1>0, <1>1, <3>1, <3>2, <3>3, MatchesDrops
    <3>5. recs \in Seq(Record) /\ InRange(recs)
      <4>1. recs \in Seq(Record) /\ \A n \in 1 .. Len(recs) : recs[n].typ = "JobDrop"
        BY Zenon, <1>0, DropsAre DEF DropsAll
      <4>2. "JobDrop" # "ChunkDone"
        BY Zenon
      <4>. QED  BY Zenon, <4>1, <4>2, InRangeOther
    <3>6. InRange(log')
      BY Zenon, <1>0, <1>3, <3>1, <3>5, InRangeConcat
    <3>7. wal' # "none"
      BY Zenon, <1>6, <2>1
    <3>. QED  BY Zenon, <1>1, <3>1, <3>4, <3>6, <3>7, LogInvRun
  <2>2. CASE wal # "ok"
    BY Zenon, <1>1, <1>3, <1>6, <2>2, LogInvRun
  <2>. QED  BY Zenon, <2>1, <2>2
<1>. QED  BY Zenon, <1>2, <1>5, <1>6

\* A restart from any surviving prefix of l keeps LogInv: nothing is replayed yet.
LEMMA LogInvRestart ==
  ASSUME Inv1, NEW l \in Seq(Record), InRange(l), wal = "none" => l = <<>>, Restart(l)
  PROVE  LogInv'
<1>1. PICK n \in synced .. Len(l) : log' = SubSeq(l, 1, n)
  BY Zenon DEF Restart
<1>2. n \in 0 .. Len(l)
  BY SMTT(30), <1>1, SeqLen DEF Inv1, TypeOK
<1>3. InRange(log')
  BY Zenon, <1>1, <1>2, InRangePrefix
<1>4. wal' = "none" => log' = <<>>
  <2>1. wal' = "none" => l = <<>>
    BY Zenon DEF Restart
  <2>2. l = <<>> => SubSeq(l, 1, n) = <<>>
    BY SMTT(30), <1>2
  <2>. QED  BY Zenon, <1>1, <2>1, <2>2
<1>5. /\ phase' = "replay" /\ pos' = 0 /\ jobs' = {} /\ wal' \in {"none", "ok"}
      /\ \A j \in Jobs : results'[j] = Nil
  BY Zenon DEF Restart
<1>6. Matches(log', pos', jobs', results', done')
  BY Zenon, <1>5, MatchesNothing
<1>7. "replay" # "run" /\ "none" # "failing" /\ "ok" # "failing"
  BY Zenon
<1>. QED  BY Zenon, <1>3, <1>4, <1>5, <1>6, <1>7 DEF LogInv

\* A crash, also one in the middle of a handler, keeps LogInv.
LEMMA LogInvCrash ==
  ASSUME Inv1, LogInv,
         \/ Crash
         \/ \E t \in issued : CrashInFinish(t)
         \/ \E c \in Conns, j \in Jobs : CrashInEmpty(c, j)
  PROVE  LogInv'
<1>0. log \in Seq(Record) /\ InRange(log) /\ (wal = "none" => log = <<>>) /\ issued \subseteq Tasks
  BY Zenon DEF Inv1, TypeOK, LogInv
<1>1. CASE Crash
  BY Zenon, <1>0, <1>1, LogInvRestart DEF Crash
<1>2. ASSUME NEW r, Sound(r), wal = "ok", Restart(Append(log, r))  PROVE LogInv'
  <2>1. r \in Record /\ <<r>> \in Seq(Record) /\ InRange(<<r>>)
    BY Zenon, <1>2, SoundOne DEF Sound
  <2>2. Append(log, r) = log \o <<r>> /\ Append(log, r) \in Seq(Record)
    BY Zenon, <1>0, <2>1, SeqSnoc, SeqAppend
  <2>3. InRange(log \o <<r>>) /\ wal # "none"
    BY Zenon, <1>0, <1>2, <2>1, InRangeConcat
  <2>. QED  BY Zenon, <1>2, <2>2, <2>3, LogInvRestart
<1>3. ASSUME NEW t \in issued, CrashInFinish(t)  PROVE LogInv'
  <2>. DEFINE j == t[1]
              i == t[2]
              r == ChunkDone(j, i)
  <2>1. j \in Jobs /\ i \in AllIdx
    BY Zenon, <1>0 DEF Tasks
  <2>2. r \in Record /\ r.typ = "ChunkDone" /\ r.job = j /\ r.idx = i
    BY Zenon, <2>1, RecordTypes DEF ChunkDone
  <2>3. Counts(t) => i \in Idx(j)
    BY Zenon, <2>1, CountsInRange DEF Counts
  <2>4. Counts(t) /\ wal = "ok" /\ Restart(Append(log, r))
    BY Zenon, <1>3 DEF CrashInFinish
  <2>. HIDE DEF r
  <2>. QED  BY Zenon, <1>2, <2>2, <2>3, <2>4 DEF Sound
<1>4. ASSUME NEW c \in Conns, NEW j \in Jobs, CrashInEmpty(c, j)  PROVE LogInv'
  <2>1. wal = "ok" /\ Restart(Append(log, JobStart(j)))
    BY Zenon, <1>4 DEF CrashInEmpty
  <2>2. Sound(JobStart(j))
    <3>1. JobStart(j) \in Record /\ JobStart(j).typ = "JobStart" /\ "JobStart" # "ChunkDone"
      BY Zenon, RecordTypes DEF JobStart
    <3>. QED  BY Zenon, <3>1 DEF Sound
  <2>. QED  BY Zenon, <1>2, <2>1, <2>2
<1>. QED  BY Zenon, <1>1, <1>3, <1>4

-----------------------------------------------------------------------------
(* The handlers sync what they use. *)

Durable(l, s, J, R, d) ==
  /\ \A j \in J : StateIn(l, s, j) = "JobStart"
  /\ \A j \in Jobs : R[j] # Nil => StateIn(l, s, j) = "JobDone"
  /\ ~d => \A n \in s + 1 .. Len(l) : DiskFaults /\ l[n].job \notin J

DurInv == wal = "ok" /\ phase = "run" => Durable(log, synced, jobs, results, dirty)

\* DurInv is DurableBeforeUse.
LEMMA DurIs == DurInv <=> DurableBeforeUse
BY Zenon, LogIsRead DEF DurInv, Durable, DurableBeforeUse, Stored

\* Right after a sync.
LEMMA DurableSynced ==
  ASSUME TypeOK', LogInv', synced' = Len(log')
  PROVE  DurInv'
<1>. SUFFICES ASSUME wal' = "ok", phase' = "run"
              PROVE  Durable(log', synced', jobs', results', dirty')
  BY Zenon DEF DurInv
<1>1. Matches(log', synced', jobs', results', done') /\ jobs' \subseteq Jobs /\ log' \in Seq(Record)
  BY Zenon DEF LogInv, TypeOK
<1>2. synced' + 1 .. Len(log') = {}
  <2>1. Len(log') \in Nat
    BY Zenon, <1>1, SeqLen
  <2>. QED  BY SMTT(30), <2>1
<1>. QED  BY Zenon, <1>1, <1>2 DEF Matches, Durable

\* Records behind the synced part do not matter to it.
LEMMA DurableMore ==
  ASSUME TypeOK, DurInv, wal = "ok", phase = "run", NEW q \in Seq(Record),
         log' = log \o q, synced' = synced, jobs' \subseteq jobs,
         \A j \in Jobs : results'[j] # Nil => results[j] # Nil,
         ~dirty' => \A n \in synced + 1 .. Len(log') : DiskFaults /\ log'[n].job \notin jobs'
  PROVE  DurInv'
<1>1. Durable(log, synced, jobs, results, dirty) /\ log \in Seq(Record)
  BY Zenon DEF DurInv, TypeOK
<1>2. synced \in Nat /\ \A m \in 1 .. synced : (log \o q)[m] = log[m]
  <2>1. /\ Len(log) \in Nat /\ Len(q) \in Nat
        /\ \A i \in 1 .. Len(log) + Len(q) : (log \o q)[i] = IF i <= Len(log) THEN log[i] ELSE q[i - Len(log)]
    BY Zenon, <1>1, SeqLen, SeqConcat
  <2>2. synced \in 0 .. Len(log)
    BY Zenon DEF TypeOK
  <2>3. synced \in Nat /\ \A m \in 1 .. synced : m \in 1 .. Len(log) + Len(q) /\ m <= Len(log)
    BY SMTT(30), <2>1, <2>2
  <2>. QED  BY Zenon, <2>1, <2>3
<1>3. \A j : StateIn(log', synced, j) = StateIn(log, synced, j)
  <2>. DEFINE l == log \o q
  <2>1. \A m \in 1 .. synced : l[m] = log[m]
    BY Zenon, <1>2
  <2>2. synced \in Nat
    BY Zenon, <1>2
  <2>. HIDE DEF l
  <2>3. \A j : StateIn(l, synced, j) = StateIn(log, synced, j)
    BY Zenon, <2>1, <2>2, SamePart
  <2>. QED  BY Zenon, <2>3 DEF l
<1>. QED  BY Zenon, <1>1, <1>3 DEF Durable, DurInv

\* A submission keeps DurInv: a start is synced before its tasks are fed.
LEMMA DurSubmit ==
  ASSUME Inv1, Inv1', LogInv', DurInv, NEW c \in Conns, NEW j \in Jobs, Submit(c, j)
  PROVE  DurInv'
<1>1. CASE SubmitStored(c, j) \/ SubmitRunning(c, j)
  <2>1. UNCHANGED <<phase, jobs, results, walVars>>
    BY Zenon, <1>1 DEF SubmitStored, SubmitRunning, Submitting, memVars
  <2>. QED  BY Zenon, <2>1 DEF DurInv, walVars
<1>2. ASSUME NEW q, WriteLog(q, TRUE)  PROVE DurInv'
  <2>1. wal' = wal /\ (wal = "ok" => synced' = Len(log'))
    BY Zenon, <1>2 DEF WriteLog
  <2>2. CASE wal = "ok"
    BY Zenon, <2>1, <2>2, DurableSynced DEF Inv1
  <2>3. CASE wal # "ok"
    BY Zenon, <2>1, <2>3 DEF DurInv
  <2>. QED  BY Zenon, <2>2, <2>3
<1>. QED  BY Zenon, <1>1, <1>2 DEF Submit, SubmitNew, SubmitEmpty

\* A result keeps DurInv: a JobDone is synced, a chunk leaves the log dirty.
LEMMA DurResult ==
  ASSUME Inv1, Inv1', LogInv', DurInv, NEW t \in issued, Result(t)
  PROVE  DurInv'
<1>0. TypeOK /\ TypeOK'
  BY Zenon DEF Inv1
<1>1. CASE ResultDropped(t)
  BY Zenon, <1>1 DEF ResultDropped, vars, memVars, walVars, DurInv
<1>2. CASE ResultCounted(t)
  <2>. DEFINE q == <<ChunkDone(t[1], t[2])>>
  <2>1. /\ wal' = wal /\ phase = "run" /\ jobs' = jobs /\ results' = results
        /\ wal = "ok" => log' = log \o q /\ synced' = synced /\ dirty'
    BY Zenon, <1>2 DEF ResultCounted, WriteLog
  <2>2. q \in Seq(Record)
    <3>1. t \in Tasks
      BY Zenon, <1>0 DEF TypeOK
    <3>2. ChunkDone(t[1], t[2]) \in Record
      BY Zenon, <3>1, RecordTypes DEF Tasks
    <3>. QED  BY SMTT(30), <3>2
  <2>. HIDE DEF q
  <2>3. CASE wal = "ok"
    BY Zenon, <1>0, <2>1, <2>2, <2>3, DurableMore
  <2>4. CASE wal # "ok"
    BY Zenon, <2>1, <2>4 DEF DurInv
  <2>. QED  BY Zenon, <2>3, <2>4
<1>3. CASE ResultLast(t)
  <2>1. wal' = wal /\ (wal = "ok" => synced' = Len(log'))
    BY Zenon, <1>3 DEF ResultLast, WriteLog
  <2>. QED  BY Zenon, <1>0, <2>1, DurableSynced DEF DurInv
<1>. QED  BY Zenon, <1>1, <1>2, <1>3 DEF Result

\* A tick keeps DurInv, whether it syncs, compacts or fails to compact.
LEMMA DurTick ==
  ASSUME Inv1, Inv1', LogInv', DurInv, NEW D \in SUBSET Orphans, NEW E \in SUBSET Stored, Tick(D, E)
  PROVE  DurInv'
<1>. DEFINE recs == DropRecs(D, E)
            appended == IF wal = "ok" THEN log \o recs ELSE log
            compact == wal # "none" /\ jobs \ D = {} /\ Len(appended) > CompactAbove
<1>0. TypeOK /\ TypeOK' /\ D \in SUBSET Jobs /\ E \in SUBSET Jobs /\ log \in Seq(Record)
  BY Zenon DEF Inv1, TypeOK, Orphans, Stored
<1>1. /\ phase = "run" /\ jobs' = jobs \ D
      /\ results' = [j \in Jobs |-> IF j \in E THEN Nil ELSE results[j]]
  BY Zenon DEF Tick, Finish
<1>2. \/ Rewrite(SnapshotResults(results'))
      \/ /\ compact => DiskFaults
         /\ log' = appended /\ dirty' = FALSE /\ wal' = wal
         /\ synced' = IF ~compact /\ wal = "ok" /\ (dirty \/ Drops(D, E) # <<>>)
                      THEN Len(appended) ELSE synced
  BY Zenon DEF Tick, DropRecs
<1>3. CASE Rewrite(SnapshotResults(results'))
  BY Zenon, <1>0, <1>3, DurableSynced DEF Rewrite
<1>4. CASE wal' = wal /\ wal # "ok"
  BY Zenon, <1>4 DEF DurInv
<1>5. ASSUME wal = "ok", compact => DiskFaults, log' = appended, dirty' = FALSE, wal' = wal,
             synced' = IF ~compact /\ wal = "ok" /\ (dirty \/ Drops(D, E) # <<>>)
                       THEN Len(appended) ELSE synced
      PROVE  DurInv'
  <2>1. recs \in Seq(Record) /\ log' = log \o recs
    BY Zenon, <1>0, <1>5, DropsAre DEF DropsAll
  <2>2. CASE synced' = Len(log')
    BY Zenon, <1>0, <2>2, DurableSynced
  <2>3. jobs' \subseteq jobs /\ \A j \in Jobs : results'[j] # Nil => results[j] # Nil
    BY Zenon, <1>1
  <2>4. CASE compact /\ synced' = synced
    <3>1. DiskFaults /\ jobs' = {}
      BY Zenon, <1>1, <1>5, <2>4
    <3>2. \A n \in synced + 1 .. Len(log') : DiskFaults /\ log'[n].job \notin jobs'
      BY Zenon, <3>1
    <3>. QED  BY Zenon, <1>0, <1>1, <1>5, <2>1, <2>3, <2>4, <3>2, DurableMore
  <2>5. CASE ~dirty /\ Drops(D, E) = <<>> /\ synced' = synced
    <3>1. log' = log
      <4>1. recs = <<>>
        BY SMTT(30), <2>5 DEF DropRecs
      <4>. HIDE DEF recs
      <4>. QED  BY SMTT(30), <1>0, <2>1, <4>1
    <3>2. \A n \in synced + 1 .. Len(log') : DiskFaults /\ log'[n].job \notin jobs'
      BY Zenon, <1>1, <1>5, <2>3, <2>5, <3>1 DEF DurInv, Durable
    <3>. QED  BY Zenon, <1>0, <1>1, <1>5, <2>1, <2>3, <2>5, <3>2, DurableMore
  <2>. QED  BY Zenon, <1>5, <2>2, <2>4, <2>5
<1>. QED  BY Zenon, <1>2, <1>3, <1>4, <1>5
=============================================================================
