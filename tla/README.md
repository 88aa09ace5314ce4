# A TLA+ model of rudp-scheduler

The repository is a fault-tolerant scheduler in Go. Clients ask for the best
answer over a range of integers; the server cuts the range into chunks, has
workers compute them, merges the partial answers and replies. Messages travel
over `rudp`, a reliable transport on UDP, or over TCP. A write-ahead log lets the
server recover its jobs after a crash.

This directory holds TLA+ specifications of the parts of the system that have
state and run concurrently, configurations that check small instances with
TLC, and proofs that TLAPS checks for every instance. `PROJECT.json` relates every
definition to source lines and lists the runs, the hazards, the findings and the
theorems.

## 1. The system and where it is modelled

| Part | Source | Module | Proofs |
|---|---|---|---|
| aggregator: owner of jobs, counted chunks, stored answers, log | `sched/aggregator.go` | `Aggregator` | `AggregatorProofs`, `AnswerProofs`, `LogLemmas`, `LogProofs` |
| recovery from the log | `sched/recover.go` | `Aggregator` | `AnswerProofs`, `LogProofs` |
| dispatcher, client handlers, feeders, queues, shutdown | `sched/sched.go` | `Scheduler` | `SystemProofs`, `LogProofs` |
| worker loops: window, speculation, hand-back | `sched/worker.go` | `Scheduler` | `SystemProofs` |
| cutting a range, searching it, merging answers | `sched/sched.go`, `workload/hashsearch` | `Split` | `PartsProofs` |
| connection: window, acknowledgement, retransmission, close | `rudp/conn.go`, `rudp/ordered.go` | `RudpConn`, contract in `ConnContract` | `ConnProofs` |
| client handshake, server's connection table, shutdown | `rudp/client.go`, `rudp/server.go` | `RudpServer` | `EdgeProofs` |
| TCP transport | `transport/tcp.go` | `Tcp` | `EdgeProofs` |
| write-ahead log file | `wal/wal.go` | `Wal`, contract in `LogContract` | `EdgeProofs` |
| metrics collector | `internal/metrics/metrics.go` | `Metrics` | `PartsProofs` |
| worker and client processes | `node/` | environment of `Scheduler` and `Aggregator` | |
| wire formats, parameters, commands, lossy sockets, paced workload | the rest | none, see section 7 | |

How the parts meet:

* A client's `Request` reaches the dispatcher through the transport. The
  dispatcher starts a `clientHandler`, which submits the request to the
  aggregator and, if the job is new, feeds its chunks into the queue `nq`.
* Each worker has a `workerLoop` that pulls chunks from `nq` and from the
  priority queue `pq`, keeps at most `window` of them in flight, clones slow
  ones into `pq`, and hands everything back to `pq` when its worker is lost.
* A result goes from the dispatcher to the worker's loop and from there to the
  aggregator, which counts each chunk once, logs it, and answers when the last
  one is in.

The modules are composed along these lines. `Scheduler` EXTENDS `Aggregator`: a
result reaches the aggregator only from a worker loop. `Aggregator` treats its
log as a sequence of which a crash loses at most an unsynced suffix; `Wal` is
shown to implement that (`LogContract`). `Aggregator` and `Scheduler` take the
transport to deliver at least once, in any order, while both ends are up;
`RudpConn` is shown to implement that (`ConnContract`, `AtLeastOnce`).
`RudpServer` treats the inside of a connection as open, flushing or dead, and
its assumption that a flush ends is `CloseEnds` of `RudpConn`.

Definitions of modules that a proof module brings together carry the name of
their part: `SplitSpec`, `WalSpec`, `ServerSpec` beside the plain `Spec` of the
others.

## 2. The modules

### Aggregator

One action per case of the aggregator's `select`, with a separate action for
each early return: `SubmitStored`, `SubmitRunning`, `SubmitNew`, `SubmitEmpty`;
`ResultDropped`, `ResultCounted`, `ResultLast`; `ClientGone`; `Tick` with what
its grace periods and TTLs let go, followed by compaction or sync as in the
code. `ReplayRecord` and `RecoverDone` are `recover()`. `Crash` may happen at any
moment; `CrashInFinish` and `CrashInEmpty` are the crashes between two records
written by one step. (A crash between the drop records of one `Tick` leaves
what a smaller `Tick` followed by a crash leaves.)

A partial answer is a bag of chunk indices and `Merge` is bag union. That is
the most discriminating associative and commutative merge: a chunk counted
twice or forgotten shows in the accumulator, whichever workload is used. Time is
absent; that a grace period or TTL is over is a free choice.

A disk that fails is modelled: after `DiskFails` every write of the log reports
an error, until a rewrite succeeds.

### Scheduler

Adds the dispatcher (which may block on a full `resultCh`), the feeders of new
and of recovered jobs, the two bounded queues, and each `workerLoop` as a small
program: `top` (look at `pq` first), `wait` (the `select`), `hand` (blocked on the
aggregator), `putback` (its own clone came back), `requeue` (its worker is lost). A
worker may answer anything ever written to it, any number of times. Whether a
task is a straggler is a free choice, made only for a worker with a round-trip
sample as in the code. `ServerClosed` closes the stop channel, and every goroutine
then has its way out (`AggregatorStops`, `HandlerStops`, `FeedStop`,
`WorkerStops`). `ServerCrash` may happen at any time; the process then replays the
log and `Start` resumes the unfinished jobs. `DiskFails` is left to `Aggregator`.

### RudpConn and ConnContract

Both ends of an established connection and a network that loses, reorders and
repeats. One action per case of `mainLoop`, with `flushThenExit` and
`drainAndExit` as states of the end. Which messages have timed out at a tick is
a free choice. `ConnContract` states what users of the package rely on: only
what was written is read, and Read reports that the peer closed only after
everything it wrote.

### RudpServer

The handshake with retries, the tables `conns` and `byAddr`, routing by
connection ID and source address, the once-an-epoch sweep, shutdown and restart
of the server process. The network never forgets a packet: anything sent may
arrive at any time, also in a later run of the server, and any number of times.

### Tcp

At each end of a connection the goroutines `queue`, `writer` and `read`, on the
server's side the accept loop, and the calls Dial, Write, Read and Close. The two
kernels are external: buffers of bounded size, delivery in order, and a reset when
one end has hung up with something unread. The network may be cut.

### Wal and LogContract

The log file as frames, with a buffered writer that reaches the file in any
portion and fails stickily, torn frames, `Open`'s truncation, and `Rewrite` in
its steps (write, sync, rename, sync the directory), each of which a crash or an
error may follow. Encoding and checksum are abstracted to a frame being intact or
not.

### Split

`split` and the bounds computed by `feed`, in arithmetic modulo `MaxU + 1`; the
scan of a chunk and `Merge` of hash search; and one job whose chunks are answered
in any order, some repeatedly.

### Metrics

The collector and the owners that publish to it (connections and worker loops
follow the same protocol). An owner never waits for the collector: a copy that
finds the channel full is dropped, the final one included. A series without news
for `staleAfter` is retired by the next scrape.

## 3. What is checked

One row for each run; the properties that matter most are explained below.

| Run | Instance | Checks |
|---|---|---|
| `aggregator` | two jobs (two chunks, none), two connections, with and without a log, disk faults, two crashes, fair; 179,622 states | `TypeOK`, `ExactlyOnce`, `AnswersComplete`, `OneResultPerConn`, `RunningXorStored`, `AttachmentConsistent`, `LossWillBeNoticed`, `WaitingIsAttached`, `NoTaskLost`, `StateMatchesLog`, `DurableBeforeUse`, `AbandonedJobEnds`, `NobodyWaitsForever` |
| `recovery_reuse` | job ID used again, one crash | `NoTaskLost` is violated: finding 1 |
| `rival_clients` | two connections, one job | `EveryWaiterAttached` is violated: finding 2 |
| `scheduler` | one job of three chunks, a worker with window 2, all channels of capacity 1, one crash, shutdown; 652,557 states | `TaskConserved`, `WindowRespected`, `StopReachesAll` |
| `scheduler_live` | one worker that stays, one that is lost or hangs, window 1; 77,273 states | `TaskConserved`, `JobsEnd`, `DispatcherFree` |
| `rudp_conn` | two messages, window 2, both delivery modes, one repetition; 622,983 states | `AtLeastOnce`, `InOrder`, `ImplementsContract` |
| `rudp_live` | two messages, window 1, fair; 44,135 states | `BacklogOnlyWhenFull`, `EventuallyRead`, `NoHalfOpen`, `CloseEnds` |
| `rudp_server` | two clients, two connection IDs, two runs of the server; 84,272 states | `OneConnPerAddr`, `OnlyFromPeer`, `ServerCloseReturns` |
| `wal` | two records, at most four frames; 11,638 states | `ImplementsLog` |
| `split` | all ranges and chunk sizes of four-bit integers, at most five chunks, some hash functions; 23,256 states | `ExactCover`, `FewChunks`, `AnswerIsBest` |
| `tcp` | one connection, kernel buffers of one message, resets and a cut network; 134,981 states | `CloseDelivers`, `CloseEnds`, `ServerCloseEnds`, `EndReported` |
| `metrics` | two owners, one of which may be late, a channel of one; 175,160 states | `CountedOnce`, `NeverDown`, `EndedLeaves` |

* `ExactlyOnce`: the accumulator of a running job holds each counted chunk once
  and nothing else, and `remaining` counts the others, however often results are
  delivered, recomputed or replayed from the log.
* `AnswersComplete`: every answer stored, logged or sent is the merge of all
  chunks of the job that was asked for.
* `StateMatchesLog`, `DurableBeforeUse`, `NoTaskLost`: the log alone determines
  the state; what has been acted on is on stable storage; and after recovery
  every chunk still missing is in the hands of a feeder.
* `TaskConserved`: a chunk not yet counted always has a copy somewhere from where
  it can reach the aggregator, through full queues, dropped clones, lost workers
  and restarts.
* `StopReachesAll`: once the server is closed, some goroutine can still move until
  all have ended.
* `AttachmentConsistent`, `LossWillBeNoticed`: `byConn` and `job.client` agree, and
  no job hangs on a connection whose loss has already been reported.
* `AtLeastOnce`, `ImplementsContract`: no message is forgotten on the strength of
  an acknowledgement that was not for it, and Close flushes.
* `ImplementsLog`: the log file, with torn writes and a rewrite in several steps,
  implements the log that the aggregator assumes.
* `CloseDelivers`: when the server is told that a TCP connection has ended, it has
  read everything the client wrote before Close. A server that was itself closed, a
  cut network, and a server whose own messages the client left unread (the kernel
  then resets the connection) are excepted.
* `CountedOnce`: the totals never claim more than happened. An owner that was
  silent beyond `staleAfter` and lived on is excepted: it is retired twice.

### Bounds, and why they are enough to be interesting

Two chunks are the least for which one may be counted and another outstanding
at a crash; the empty job takes the path that starts and finishes in one step.
Two connections are the least for a client that comes back, or is displaced. A
second crash may hit the recovery from the first. `CompactAbove = 3` lets a log of
a few records be compacted. Three chunks with a window of two and queues of one
make every blocking send block. The messages exceed the window of `rudp_live`, so
a backlog forms; in `rudp_conn` the second message may overtake the first.
`MaxBacklog` bounds the messages that wait for Read: a packet beyond it waits in
the network. `MaxDups` bounds the packets the network repeats, in addition to
retransmissions; sequence numbers do not wrap in these runs (see hazards).
Connection IDs are given again by the second run of the server. With four-bit
integers all wrap-arounds of 64-bit ones occur.

Symmetry of connections is declared in the two runs that show a finding. Deadlock
is checked where the system never stops (`aggregator`, `scheduler_live`, `wal`); a
closed connection, a server that has shut down, a stopped collector and an
answered job may stop.

## 4. Fairness

* Aggregator: recovery runs, the loss of a connection is reported, and the grace
  period of an orphaned job ends. The goroutines do not block on each other
  (that is `DispatcherFree`), and the housekeeping ticker fires for ever.
  `NobodyWaitsForever` has "tasks given to a feeder are computed" as an explicit
  hypothesis, which `JobsEnd` looks into.
* Scheduler: goroutines run (weak fairness of feeders, of the dispatcher and of each
  worker loop). Go's `select` chooses at random among ready cases, hence strong
  fairness for pulling from `nq`. One worker stays and answers. Any other worker
  answers its first chunk or is lost, and may then hang for ever: without a first
  answer there is no round-trip sample and the code never clones its tasks. The
  transport repeats itself finitely often.
* RudpConn: tickers fire, a capped timeout runs out, the application reads, and
  a packet sent again and again arrives some time. The last is what any protocol
  over UDP needs.
* RudpServer: the sweep runs every epoch, and a flush ends.
* Tcp: goroutines run, the kernels deliver, reset or notice a cut network, and the
  server's user reads until it is told that the server is closed. The client's user
  need not read.
* Metrics: the collector serves its channel and is scraped, and a live owner now
  and then finds room in the channel.

## 5. What is proved

The theorems hold for any values of the constants that satisfy the named
assumptions of each module (`ConstantsOK` and its like): finite sets of jobs,
workers and publishing owners, natural numbers for bounds, a `Nil` that is none of the values it is told
apart from. Further assumptions are stated in the theorem: `~ReuseIDs`, that no job
ID is started twice in one log (finding 1 is what happens otherwise), and `NoWrap`,
that a connection sends fewer messages than there are sequence numbers.

### The aggregator

| Theorem | States |
|---|---|
| `TypeCorrect`, `CountedExactlyOnce` | `Spec => []TypeOK`, `Spec => []ExactlyOnce` |
| `AttachedConsistently`, `LossNoticed`, `AnsweredOnce` | `AttachmentConsistent`, `LossWillBeNoticed`, `OneResultPerConn` |
| `RunningOrStored`, `CompleteAnswers`, `NobodyForgotten` | `RunningXorStored`, `AnswersComplete`, `WaitingIsAttached` |
| `TasksKept`, `LogTellsState`, `UsedIsDurable` (with `~ReuseIDs`) | `NoTaskLost`, `StateMatchesLog`, `DurableBeforeUse` |

`Inv1 == TypeOK /\ ExactlyOnce` is inductive, and neither half is without the other:
that `remaining` stays a natural number when a chunk is counted needs to know that
it is the number of chunks not in `done`, and the count needs `done` to be a finite
set of indices of the job. `CountOne` and `CountStep` carry the argument: a result
that passes the guard of the code names an index of a running job that is not in
`done`, so merging it adds exactly one copy and `remaining` is still positive.
Replay uses the same guard, hence the same lemma.

The other invariants are layered on it.

* `ConnInv` adds four facts about a connection's life: it has no handler before it is
  up; it is attached or answered only after its handler has submitted; while it is
  attached it has not been answered; recovery attaches nobody. Without the third, a
  job ending could answer a connection twice; without the second, so could a
  submission.
* `AnswerInv` says that every stored answer and every `JobDone` record is the true one,
  and that an attached client is attached to the job it asked for.
* `TaskInv` adds to `NoTaskLost` what recovery relies on: the chunks it keeps for a
  running job are counted ones, it keeps none for a job the log has not mentioned,
  and in a log without reused IDs nothing about a job precedes its `JobStart`.
* `LogInv` is `StateMatchesLog` for whatever part of the log has been replayed, with
  what makes it inductive: every `ChunkDone` names a chunk of its job, recovery starts
  with a log that can be written, and what recovery has counted it has also kept,
  since that is what it writes back. `LogLemmas` says how a log is read: what one more
  record does (`NextRecord`), that only the part read so far counts (`SamePart`), and
  that records about others do not matter (`OtherJobs`). On that rest three facts: the
  handlers write the records of what they do (`MatchesOne`, `MatchesTwo`,
  `MatchesDrops`), replaying a record is the fold the log is read with
  (`LogInvReplay`), and the compacted log yields the same state (`CompactedState`,
  `LogInvRecover`). Of the order in which Go iterates over its maps the argument uses
  only that each entry is written once.
* `DurInv` then follows from `LogInv` after every sync, and needs an argument of its own
  only for what does not sync: a counted chunk, a tick with nothing to do, and a
  compaction that failed.

### The scheduler

| Theorem | States |
|---|---|
| `AggregatorImplemented` | until the server is closed, the scheduler takes only steps of `Aggregator` |
| `ScheduledAnswers` | `ExactlyOnce`, `AnswersComplete` and `OneResultPerConn` of the whole |
| `WindowKept` | `WindowRespected` |
| `TasksConserved` (with `~ReuseIDs`) | `TaskConserved` |
| `ScheduledLog` (with `~ReuseIDs`) | `StateMatchesLog` and `DurableBeforeUse` of the whole |

`SInv` says that every task in a queue, a channel or at a worker was issued, that
feeders push on behalf of handlers that have submitted, and that a worker loop holds
a task exactly where it needs one. The first is what makes the scheduler implement
the aggregator: a result that is handed over is one of a task it issued. `TaskConserved`
is proved step by step from it and from `NoTaskLost` of the aggregator: it is enough
that a step leaves every task still owed somewhere. `ScheduledLog`, in `LogProofs`,
carries the invariants of the log over: besides the aggregator's own steps only its end
touches the log, which is synced once more.

### One connection

| Theorem (with `NoWrap`) | States |
|---|---|
| `NothingIsLost` | `AtLeastOnce` |
| `ReadInOrder` | `InOrder` |
| `WindowIsFilled` | `BacklogOnlyWhenFull` |
| `ContractImplemented` | `Spec => ImplementsContract`, the refinement of `ConnContract` |

The inductive invariant of `ConnProofs` has a part for each direction and one for each
packet on its way: the k-th message has number k; the receiver has accepted every
number below `next` and holds some above; an `Ack` on its way, like a number that is
gone from the send buffer, stands for a message the peer has accepted; a `Close` on its
way stands for a peer that ended with everything acknowledged. An end that has been
closed locally drops what it acknowledges, so acceptance is claimed only of an end
that still listens (`Hears`). Without the part about packets nothing could be said
about an acknowledgement that arrives late.

### Network and disk (`EdgeProofs`)

| Theorem | States |
|---|---|
| `LogImplemented` | `WalSpec => ImplementsLog`, the refinement of `LogContract` |
| `TablesAgree`, `NoStrangers` | `OneConnPerAddr`, `OnlyFromPeer` |
| `WrittenIsDelivered`, `NobodyIsForgotten` | `CloseDelivers`; a closed TCP server has hung up on everybody |

`FileInv` of the log says that a file has at most one torn frame, at its end, that what
is stable is intact, and that a rewrite past its sync has a stable new file. `TableInv`
relates the server's two tables to all packets ever sent. `TcpInv` counts, per
direction, what was sent, taken, written and read, and says that an undisturbed
connection loses nothing between those counts.

### Splitting and metrics (`PartsProofs`)

| Theorem | States |
|---|---|
| `RangeCovered`, `ChunksBounded` | `ExactCover`, `FewChunks`, for integers of any width |
| `MergeLaws` | `Merge` is commutative, associative, idempotent, and `Zero` is its identity |
| `AnswersAreBest` | `AnswerIsBest`, for any hash function |
| `AnswerOfWholeRange` | the answer of a job is what one `Compute` over its whole range returns |
| `NothingCountedTwice` | `CountedOnce` |
| `CountersNeverDown` | `Spec => NeverDown` |

A job's bounds never change, so its invariant (`Cut`) says what `split` has computed:
`(n - 1) * size < hi - lo <= n * size`. From it follows that the lower bound of every
task is below `hi`, so that no operation of `feed` wraps around, and division gives
each nonce the one task it lies in. The assumption is that `maxChunksPerJob` (2^20 in
the code) is at least two: with one, a range of all integers would give a chunk size
that does not fit.

For the answer, `IsBest` says without any loop what the best partial answer of a set of
nonces is; there is exactly one (`BestExists`, `BestIs`), and merging the bests of two
sets gives the best of their union (`BestOfUnion`). `ComputeFindsBest` shows that the
scan of `Compute` returns it. `BestInv` then says that the merged answer is the best of
the nonces searched so far, and `ExactCover` that at the end those are all.

`MetricsInv` has a part for every owner and one for those that were never late. Of any
owner, the copies on their way grow from the one the collector has up to the counter
(`Growing`); that is why a final copy never takes anything back. Of an owner that was
never late (`Regular`), a final copy is its last, nothing of it is on the way once it is
retired, and its series is not stale while it lives or has something on the way; that is
why it is not retired twice. For `NeverDown`, no step takes anything from what is shown
of one owner (`SharesGrow`), and a sum grows with its terms (`SumGrows`).

Two definitions here are recursive, the scan of `Compute` and the sum of `Total`. The
proofs name a function that satisfies the recursion (the best of the nonces scanned; the
number of things counted), so that the recursion means something, and then argue that
there is no least argument for which the claim fails (`MinExists`).

### What stays with TLC

Everything that must eventually happen, and `StopReachesAll`, which is about `ENABLED`:
outside what the prover handles.

## 6. Findings

1. **Recovery forgets to forget chunks** (`sched/recover.go:99`, run
   `recovery_reuse`). `recover()` gathers the counted chunks of a job over the whole
   log, and ending a job does not clear them. If a job ID occurs twice in the log
   (counted partly, dropped after its grace period, asked for again), the feeder of
   the recovered job skips the chunks of its first life. They are never computed and
   the job never completes. The `aggregator` run and the theorems about the log
   therefore start each ID once per log (`ReuseIDs = FALSE`), so that they say
   something about everything else.
2. **A second connection displaces the first** (`sched/aggregator.go:111`, run
   `rival_clients`). A request for a running job detaches the client attached before,
   which may be alive and is never told. `docs/wire-format.md` says that a connection
   attached to a running job will receive its result.

## 7. What is not modelled

* Wire formats: encoding of fixed records, without state.
* Round-trip estimation, timeouts and straggler thresholds: real time. The models
  allow any timing, so safety does not depend on it.
* The lossy sockets used by tests, the paced workload, parameters and commands; of
  the metrics, the rendering and the aggregator's statistics.
* Sequence numbers that wrap (`rudp/conn.go:233`), and a delayed Connect of a
  previous run of the server (`rudp/server.go:172`): the modules express both, the
  hazards in `PROJECT.json` say what is known about them.
* The directory sync of `Rewrite` is taken to succeed (`wal/wal.go:185`).

## 8. Plan

1. `DurableBeforeUse` without the assumption that IDs are not reused.
2. Sequence numbers that wrap: what `NoWrap` could be weakened to.
