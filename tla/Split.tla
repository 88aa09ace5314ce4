-------------------------------- MODULE Split ---------------------------------
(***************************************************************************)
(* The arithmetic of a job: split and feed (sched.go) cut [lo, hi) into    *)
(* chunks, Compute and Merge (workload/hashsearch) search a chunk and      *)
(* combine the answers.  Unsigned integers are 0 .. MaxU, and sums,        *)
(* differences and products are modulo MaxU + 1.  The hash of a nonce is   *)
(* any function.  Chunks are answered in any order, some more than once.   *)
(***************************************************************************)
EXTENDS Integers

CONSTANTS
  MaxU,       \* math.MaxUint64
  MaxChunks,  \* maxChunksPerJob
  Hashes      \* hash functions, of 0 .. MaxU to 0 .. MaxU

ASSUME SplitConstantsOK ==
  /\ MaxU \in Nat /\ MaxChunks \in Nat \ {0, 1}
  /\ \A h \in Hashes : h \in [0 .. MaxU -> 0 .. MaxU]

U == 0 .. MaxU
Wrap(x) == x % (MaxU + 1)

-----------------------------------------------------------------------------
(* Package hashsearch. *)

Partial == [hash : U, nonce : U]
Zero == [hash |-> MaxU, nonce |-> MaxU]

\* The order of Compute and Merge: by hash, then by nonce.
Less(a, b) == a.hash < b.hash \/ (a.hash = b.hash /\ a.nonce < b.nonce)

\* (mutant) a tie goes to the later answer
MergeTie(a, b) == IF b.hash <= a.hash THEN b ELSE a
Merge(a, b) == IF Less(b, a) THEN b ELSE a

\* Compute: scan lo, lo + 1, ... below hi.
Compute(h, lo, hi) ==
  LET best[x \in 0 .. hi] ==  \* what is known before x is tried
        IF x <= lo THEN Zero
        ELSE LET p == [hash |-> h[x - 1], nonce |-> x - 1] IN
             IF Less(p, best[x - 1]) THEN p ELSE best[x - 1]
  IN  best[hi]

-----------------------------------------------------------------------------
(* split and feed. *)

\* (mutant) rounded down
SizeFloor(span, chunkSize) ==
  IF span \div chunkSize >= MaxChunks THEN span \div MaxChunks ELSE chunkSize
Size(span, chunkSize) ==
  IF span \div chunkSize >= MaxChunks THEN span \div MaxChunks + 1 ELSE chunkSize

\* (mutant) the rest is left out
CountFloor(span, size) == span \div size
Count(span, size) == span \div size + (IF span % size # 0 THEN 1 ELSE 0)

\* split(lo, hi, chunkSize).  The limit of uint32 is never met.
split(lo, hi, chunkSize) ==
  IF hi <= lo THEN [n |-> 0, size |-> chunkSize]
  ELSE LET size == Size(hi - lo, chunkSize) IN [n |-> Count(hi - lo, size), size |-> size]

\* feed: the bounds of task i.
TaskLo(spec, i) == Wrap(spec.lo + Wrap(i * spec.size))
TaskHi(spec, i) ==
  LET lo == TaskLo(spec, i) IN
  IF Wrap(spec.hi - lo) > spec.size THEN Wrap(lo + spec.size) ELSE spec.hi

-----------------------------------------------------------------------------
(* One job. *)

VARIABLES
  spec,   \* jobSpec: lo, hi, n, size
  hash,   \* the hash function
  done,   \* the tasks counted
  acc     \* the merged answer

splitVars == <<spec, hash, done, acc>>

\* clientHandler; ChunkSize is not 0 (Params.WithDefaults).
SplitInit ==
  /\ \E lo \in U, hi \in U, chunkSize \in U \ {0} :
       LET s == split(lo, hi, chunkSize) IN
       spec = [lo |-> lo, hi |-> hi, n |-> s.n, size |-> s.size]
  /\ hash \in Hashes /\ done = {} /\ acc = Zero

\* A result of task i is merged, perhaps once more.
Answer(i) ==
  /\ done' = done \cup {i}
  /\ acc' = Merge(acc, Compute(hash, TaskLo(spec, i), TaskHi(spec, i)))
  /\ UNCHANGED <<spec, hash>>

SplitNext == \E i \in 0 .. spec.n - 1 : Answer(i)
SplitSpec == SplitInit /\ [][SplitNext]_splitVars
-----------------------------------------------------------------------------
(* Properties. *)

Task(i) == TaskLo(spec, i) .. TaskHi(spec, i) - 1
Range0 == spec.lo .. spec.hi - 1

\* The tasks of a job cover its range exactly: no nonce is left out, searched
\* twice or outside, whatever the bounds, up to the largest integer
\* (sched.go:211-251).
ExactCover ==
  /\ UNION {Task(i) : i \in 0 .. spec.n - 1} = Range0
  /\ \A i, k \in 0 .. spec.n - 1 : i # k => Task(i) \cap Task(k) = {}
  /\ \A i \in 0 .. spec.n - 1 : Task(i) # {}

\* A job has at most maxChunksPerJob tasks (params.go:57-59).
FewChunks == spec.n <= MaxChunks

\* The smallest pair of hash and nonce, in the order of Less.
Best(S) == IF S = {} THEN Zero ELSE CHOOSE p \in S : \A q \in S : ~Less(q, p)

\* Whatever the order of the results, and however often one is merged, the answer
\* is that of one scan of all that was counted (aggregator.go:146, hashsearch.go).
AnswerIsBest ==
  acc = Best({[hash |-> hash[x], nonce |-> x] : x \in UNION {Task(i) : i \in done}})
=============================================================================
