--------------------------------- MODULE Wal ----------------------------------
(***************************************************************************)
(* Package wal: the write-ahead log file.  A file is a sequence of frames, *)
(* each an intact record or Torn, what a write cut short leaves: a frame   *)
(* that readAll rejects for its length or its checksum.  The log has one   *)
(* owner, so only a failure or a crash comes between the steps of a call.  *)
(*                                                                         *)
(* What the operating system does is external: the buffer of bufio reaches *)
(* the file from its front, in any portion; a crash keeps what was synced, *)
(* and of the rest some prefix, the last frame of it possibly torn; a      *)
(* rename survives a crash for sure once the directory is synced.          *)
(***************************************************************************)
EXTENDS Integers, Sequences

CONSTANTS
  Records,   \* records to append
  Snapshots, \* sequences of records to rewrite the log with
  Torn,      \* a frame that is not intact
  NoFile,
  MaxFrames  \* bound on the records of the log

ASSUME WalConstantsOK ==
  /\ Torn \notin Records /\ NoFile \notin Seq(Records) /\ MaxFrames \in Nat
  /\ \A recs \in Snapshots : recs \in Seq(Records)

VARIABLES
  file,    \* the file the Log writes to
  stable,  \* the number of its frames that are on stable storage
  buf,     \* records in the bufio.Writer
  cut,     \* the file ends with a part of the first of them
  werr,    \* the sticky error of the bufio.Writer
  tmp,     \* Rewrite: the new file, and whether it is on stable storage
  tmpSynced,
  call     \* where the owner is: "down", "ready", or in Rewrite "write", "synced", "renamed"

fileVars == <<file, stable, buf, cut, werr, tmp, tmpSynced, call>>

WalInit ==
  /\ file = <<>> /\ stable = 0 /\ buf = <<>> /\ cut = FALSE /\ werr = FALSE
  /\ tmp = NoFile /\ tmpSynced = FALSE /\ call = "down"

\* readAll: the records before the first frame that is not intact.
Intact(f) ==
  SubSeq(f, 1, CHOOSE n \in 0 .. Len(f) : /\ \A i \in 1 .. n : f[i] # Torn
                                          /\ n < Len(f) => f[n + 1] = Torn)

\* Open: the file is cut after the last intact record.
Open ==
  /\ call = "down" /\ call' = "ready"
  /\ file' = Intact(file)
  /\ UNCHANGED <<stable, buf, cut, werr, tmp, tmpSynced>>

\* Append: fails without effect once the writer has failed.
Append1(r) ==
  /\ call = "ready" /\ ~werr /\ Len(file) + Len(buf) < MaxFrames
  /\ buf' = Append(buf, r)
  /\ UNCHANGED <<file, stable, cut, werr, tmp, tmpSynced, call>>

\* The first n records of the buffer reach the file, and part of the next one.
Written(n, torn) ==
  (IF cut THEN SubSeq(file, 1, Len(file) - 1) ELSE file) \o SubSeq(buf, 1, n) \o (IF torn THEN <<Torn>> ELSE <<>>)

\* The buffer overflows in Append, or a Flush fails on the way; of the record
\* that is cut the buffer keeps the rest.
FlushSome(n, torn) ==
  /\ call = "ready" /\ ~werr /\ n \in 0 .. Len(buf)
  /\ (torn => n < Len(buf)) /\ (cut /\ n = 0 => torn)
  /\ file' = Written(n, torn)
  /\ buf' = SubSeq(buf, n + 1, Len(buf)) /\ cut' = torn
  /\ werr' \in BOOLEAN
  /\ UNCHANGED <<stable, tmp, tmpSynced, call>>

\* Sync succeeds.  (A failing fsync leaves what FlushSome leaves.)
Sync ==
  /\ call = "ready" /\ ~werr
  /\ file' = Written(Len(buf), FALSE) /\ buf' = <<>> /\ cut' = FALSE
  /\ stable' = Len(file')
  /\ UNCHANGED <<werr, tmp, tmpSynced, call>>

\* Close: a last Sync, whose failure leaves the buffer behind.
CloseLog ==
  /\ call = "ready" /\ call' = "down"
  /\ IF werr THEN UNCHANGED <<file, stable>>
     ELSE file' = Written(Len(buf), FALSE) /\ stable' = Len(file')
  /\ buf' = <<>> /\ cut' = FALSE /\ werr' = FALSE
  /\ UNCHANGED <<tmp, tmpSynced>>

\* Rewrite: create the temporary file and write the records to it, ...
RewriteStart(recs) ==
  /\ call = "ready" /\ call' = "write" /\ tmp' = recs /\ tmpSynced' = FALSE
  /\ UNCHANGED <<file, stable, buf, cut, werr>>

\* (mutant) the sync is forgotten
RewriteNoSync ==
  /\ call = "write" /\ call' = "synced"
  /\ UNCHANGED <<file, stable, buf, cut, werr, tmp, tmpSynced>>

\* ... sync it, ...
RewriteSync ==
  /\ call = "write" /\ call' = "synced" /\ tmpSynced' = TRUE
  /\ UNCHANGED <<file, stable, buf, cut, werr, tmp>>

\* ... rename it over the log, ...
RewriteRename ==
  /\ call = "synced" /\ call' = "renamed"
  /\ UNCHANGED <<file, stable, buf, cut, werr, tmp, tmpSynced>>

\* ... sync the directory, and go on with the new file.
RewriteEnd ==
  /\ call = "renamed" /\ call' = "ready"
  /\ file' = tmp /\ stable' = (IF tmpSynced THEN Len(tmp) ELSE 0)
  /\ buf' = <<>> /\ cut' = FALSE /\ werr' = FALSE /\ tmp' = NoFile /\ tmpSynced' = FALSE

\* An error up to the rename: Rewrite returns, the log is as before.
RewriteFails ==
  /\ call \in {"write", "synced"} /\ call' = "ready" /\ tmp' = NoFile /\ tmpSynced' = FALSE
  /\ UNCHANGED <<file, stable, buf, cut, werr>>

-----------------------------------------------------------------------------
\* A crash leaves, of a file f whose first s frames are stable, at least those.
CrashLeaves(f, s) ==
  /\ \E n \in s .. Len(f) :
       \/ file' = SubSeq(f, 1, n)
       \/ n < Len(f) /\ file' = Append(SubSeq(f, 1, n), Torn)
  /\ stable' \in s .. Len(Intact(file'))

\* Until the directory is synced either file may be found under the log's name.
Crash ==
  /\ call # "down" /\ call' = "down"
  /\ \/ CrashLeaves(file, stable)
     \/ call = "renamed" /\ CrashLeaves(tmp, IF tmpSynced THEN Len(tmp) ELSE 0)
  /\ buf' = <<>> /\ cut' = FALSE /\ werr' = FALSE /\ tmp' = NoFile /\ tmpSynced' = FALSE

WalNext ==
  \/ Open \/ CloseLog \/ Sync \/ RewriteSync \/ RewriteRename \/ RewriteEnd \/ RewriteFails \/ Crash
  \/ \E r \in Records : Append1(r)
  \/ \E n \in 0 .. Len(buf), torn \in BOOLEAN : FlushSome(n, torn)
  \/ \E recs \in Snapshots : RewriteStart(recs)

WalSpec == WalInit /\ [][WalNext]_fileVars
-----------------------------------------------------------------------------
(* Properties. *)

\* The file implements the log the aggregator relies on: a crash loses at most an
\* unsynced suffix, a crash in Rewrite leaves the old log or the new one and never
\* a mixture, a failed Rewrite leaves the old one (wal.go:75-79, 157-163).
Contents == Intact(file) \o buf
Target == IF call = "renamed" THEN tmp ELSE Contents
Contract == INSTANCE LogContract WITH log <- Contents, safe <- stable, target <- Target
ImplementsLog == Contract!Spec
=============================================================================
