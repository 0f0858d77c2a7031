--------------------------- MODULE SegmentWindow ---------------------------
(***************************************************************************)
(* Which segment files of one camera the uploader's poll loop takes        *)
(* (streaming/hls_uploader.rs), against FFmpeg writing them, the orphan    *)
(* sweep deleting them and the supervisor restarting FFmpeg, which wipes   *)
(* the directory and numbers the segments from 0 again.                    *)
(*                                                                         *)
(* A segment is its sequence number, its file name.  Within one FFmpeg run *)
(* segment `written` is the file being written and those below it are      *)
(* closed.  Two gaps of the code are microseconds and a segment takes a    *)
(* second, so no segment is completed inside them: between the spawn of    *)
(* FFmpeg and the bump of restart_epoch, and between the epoch check and   *)
(* the directory scan of a poll.  Everything else interleaves with them.   *)
(* A sweep runs on a thread of its own, and is over before the next is due.*)
(***************************************************************************)
EXTENDS Integers, FiniteSets, SequencesExt

CONSTANTS
  SeenCap,         \* SEEN_CAP
  ResetGap,        \* RESET_GAP
  SweepEvery,      \* SWEEP_EVERY_CYCLES
  SweepKeep,       \* sweep_keep_count
  ListSize,        \* hls_list_size: entries of stream.m3u8
  CleanupMayFail,  \* can cleanup() abort partway?
  MaxSeq,          \* bound: segments of one FFmpeg run
  MaxEpoch,        \* bound: restarts
  MaxBacklog,      \* bound: closed segments no poll has taken yet
  SweepSlack       \* bound: those of them while a sweep is under way

ASSUME WindowAssumption ==
  /\ SeenCap \in Nat \ {0}
  /\ ResetGap \in Nat
  /\ SweepEvery \in Nat \ {0}
  /\ SweepKeep \in Nat \ {0}
  /\ ListSize \in Nat \ {0}
  /\ CleanupMayFail \in BOOLEAN
  /\ MaxSeq \in Nat /\ MaxEpoch \in Nat /\ MaxBacklog \in Nat \ {0}
  /\ SweepSlack \in Nat

Seqs == 0 .. MaxSeq

VARIABLES
  disk,         \* the segment files in the output directory
  listed,       \* the segments named by stream.m3u8; {} if there is no file
  written,      \* the segment being written, or the last one if FFmpeg died
  alive,        \* FFmpeg is running
  epoch,        \* restart_epoch
  bumpPending,  \* FFmpeg was spawned, restart_epoch is not bumped yet
  pc,           \* where the poll loop is
  lastEpoch,    \* last_restart_epoch
  seenOrder,    \* seen_order; `seen` is the set of its elements
  maxEnqueued,  \* max_enqueued_seq
  sweepCounter, \* sweep_counter
  sweepDue,     \* a sweep was handed to a blocking thread
  \* History variables.
  taken,        \* segments of the current run handed to upload tasks
  duplicate,    \* some segment of one run was handed over twice
  lost          \* a sweep deleted a closed segment no poll had handed over

ffmpegVars == <<written, alive, epoch, bumpPending>>
pollVars == <<pc, lastEpoch, seenOrder, maxEnqueued, sweepCounter>>
vars == <<disk, listed, ffmpegVars, pollVars, sweepDue, taken, duplicate, lost>>

Closed == {s \in disk : s < written}
Backlog == Closed \ taken

\* `seen_order` holds no name twice, so that it and `seen` agree, and never
\* more than SeenCap names between two polls.
TypeOK ==
  /\ disk \in SUBSET Seqs
  /\ listed \in SUBSET Seqs
  /\ written \in Seqs
  /\ alive \in BOOLEAN
  /\ epoch \in 0 .. MaxEpoch
  /\ bumpPending \in BOOLEAN
  /\ pc \in {"check", "scan"}
  /\ lastEpoch \in 0 .. MaxEpoch
  /\ seenOrder \in Seq(Seqs) /\ IsInjective(seenOrder)
  /\ Len(seenOrder) <= SeenCap
  /\ maxEnqueued \in Seqs
  /\ sweepCounter \in 0 .. SweepEvery - 1
  /\ sweepDue \in BOOLEAN
  /\ taken \in SUBSET Seqs
  /\ duplicate \in BOOLEAN
  /\ lost \in BOOLEAN

\* The uploader is spawned before the supervisor starts FFmpeg.
Init ==
  /\ disk = {}
  /\ listed = {}
  /\ written = 0
  /\ alive = FALSE
  /\ epoch = 0
  /\ bumpPending = FALSE
  /\ pc = "check"
  /\ lastEpoch = 0
  /\ seenOrder = <<>>
  /\ maxEnqueued = 0
  /\ sweepCounter = 0
  /\ sweepDue = FALSE
  /\ taken = {}
  /\ duplicate = FALSE
  /\ lost = FALSE
-----------------------------------------------------------------------------
(* FFmpeg's HLS muxer: it closes a segment, then lists it.                 *)

CompleteSegment ==
  /\ alive /\ written < MaxSeq
  /\ ~bumpPending /\ pc = "check"
  /\ Cardinality(Backlog) < MaxBacklog
  /\ sweepDue => Cardinality(Backlog) < SweepSlack
  /\ written' = written + 1
  /\ disk' = disk \union {written'}
  /\ listed' = {s \in 0 .. written : s > written - ListSize}
  /\ UNCHANGED <<alive, epoch, bumpPending, pollVars, sweepDue, taken,
                 duplicate, lost>>

FfmpegDies ==
  /\ alive /\ ~bumpPending
  /\ alive' = FALSE
  /\ UNCHANGED <<disk, listed, written, epoch, bumpPending, pollVars,
                 sweepDue, taken, duplicate, lost>>
-----------------------------------------------------------------------------
(* The supervisor's restart: start_with, then the bump of restart_epoch.   *)

Restart ==
  /\ ~alive /\ epoch < MaxEpoch
  /\ disk' = {0}
  /\ listed' = {}
  /\ written' = 0
  /\ alive' = TRUE
  /\ bumpPending' = TRUE
  /\ taken' = {}
  /\ UNCHANGED <<epoch, pollVars, sweepDue, duplicate, lost>>

\* A start that fails does not bump the epoch: either the directory is wiped
\* and FFmpeg cannot be spawned, or cleanup() itself stopped at the first file
\* it could not delete.
FailedStart ==
  /\ ~alive /\ disk # {}
  /\ \/ disk' = {} /\ listed' = {}
     \/ CleanupMayFail /\ disk' \in SUBSET disk /\ listed' \in {listed, {}}
  /\ UNCHANGED <<ffmpegVars, pollVars, sweepDue, taken, duplicate, lost>>

BumpEpoch ==
  /\ bumpPending
  /\ bumpPending' = FALSE
  /\ epoch' = epoch + 1
  /\ UNCHANGED <<disk, listed, written, alive, pollVars, sweepDue, taken,
                 duplicate, lost>>
-----------------------------------------------------------------------------
(* One poll of the uploader.                                               *)

\* Mutant: the epoch is noted, the dedup state is kept.
CheckEpochOnly ==
  /\ pc = "check"
  /\ pc' = "scan"
  /\ lastEpoch' = epoch
  /\ UNCHANGED <<disk, listed, ffmpegVars, seenOrder, maxEnqueued,
                 sweepCounter, sweepDue, taken, duplicate, lost>>

CheckEpoch ==
  /\ pc = "check"
  /\ pc' = "scan"
  /\ lastEpoch' = epoch
  /\ IF epoch # lastEpoch
     THEN seenOrder' = <<>> /\ maxEnqueued' = 0
     ELSE UNCHANGED <<seenOrder, maxEnqueued>>
  /\ UNCHANGED <<disk, listed, ffmpegVars, sweepCounter, sweepDue, taken,
                 duplicate, lost>>

\* A highest number on disk far below the highest one taken means that the
\* counter restarted.
CounterReset ==
  /\ disk # {}
  /\ maxEnqueued > ResetGap
  /\ Max(disk) + ResetGap < maxEnqueued

\* Mutant: every file on disk is a candidate.
AnyOnDisk(s) == TRUE

\* Mutant: what has rotated out of the playlist is not a candidate.
ListedOnly(s) == s \in listed

\* Only what the muxer has closed is a candidate: a listed segment, or one
\* that has rotated out of the playlist and is no longer being written.
Eligible(s) ==
  \/ s \in listed
  \/ listed # {} /\ s < Min(listed) /\ s # written

\* Only the SeenCap most recently discovered names are remembered.
Pruned(order) ==
  SubSeq(order, Len(order) - (IF Len(order) < SeenCap THEN Len(order) ELSE SeenCap) + 1,
         Len(order))

\* The dedup set as a scan uses it, and the segments the scan takes.
Known == IF CounterReset THEN <<>> ELSE seenOrder
NewSegments == {s \in disk : s \notin ToSet(Known) /\ Eligible(s)}

\* The names found in one scan are discovered in directory order: any order.
ScanDirectory ==
  LET sweepNow == sweepCounter + 1 >= SweepEvery
  IN  /\ pc = "scan"
      /\ ~(sweepNow /\ sweepDue)
      /\ pc' = "check"
      /\ \E order \in SetToSeqs(NewSegments) : seenOrder' = Pruned(Known \o order)
      /\ maxEnqueued' =
           Max(NewSegments \union {IF CounterReset THEN 0 ELSE maxEnqueued})
      /\ taken' = taken \union NewSegments
      /\ duplicate' = (duplicate \/ NewSegments \intersect taken # {})
      /\ sweepCounter' = IF sweepNow THEN 0 ELSE sweepCounter + 1
      /\ sweepDue' = (sweepDue \/ sweepNow)
      /\ UNCHANGED <<disk, listed, ffmpegVars, lastEpoch, lost>>

\* sweep_orphan_segments keeps the highest numbers.  The poll that starts it has
\* scanned the directory before, and it is over within milliseconds: SweepSlack
\* bounds what FFmpeg completes meanwhile.  Without a playlist a poll takes
\* nothing, so that only a sweep beside one can lose what was to be taken.
KeptBySweep ==
  {s \in disk : Cardinality({t \in disk : t > s}) < SweepKeep}

Sweep ==
  /\ sweepDue
  /\ sweepDue' = FALSE
  /\ disk' = KeptBySweep
  /\ lost' = (lost \/ (listed # {} /\ Backlog \ KeptBySweep # {}))
  /\ UNCHANGED <<listed, ffmpegVars, pollVars, taken, duplicate>>
-----------------------------------------------------------------------------
Next ==
  \/ CompleteSegment \/ FfmpegDies
  \/ Restart \/ FailedStart \/ BumpEpoch
  \/ CheckEpoch \/ ScanDirectory \/ Sweep

Spec == Init /\ [][Next]_vars

\* The runtime keeps running the poll loop, its sweeps and the supervisor.
FairSpec ==
  /\ Spec
  /\ WF_vars(CheckEpoch \/ ScanDirectory)
  /\ WF_vars(Sweep)
  /\ WF_vars(BumpEpoch)
-----------------------------------------------------------------------------
(* Correctness.                                                            *)

\* A segment is handed to an upload task at most once, whatever restarts,
\* sweeps and prunes of the dedup set happen: a second time is a second
\* upload and a second row in the archive.
NoDuplicate == ~duplicate

\* However many segments were completed since the last poll, the playlist's and
\* those already rotated out of it, and however few files the sweep keeps: the
\* sweep deletes no closed segment that was not handed over.  It is about the
\* sweep only; a restart wipes the directory, whatever is in it.
NothingLostToSweep == ~lost

\* The uploader catches up again and again: as long as there is a playlist,
\* every closed segment on disk is eventually handed over.  In particular the
\* fresh low numbers after a restart are not mistaken for the old ones.
EventuallyTaken == []<>(listed = {} \/ Backlog = {})
=============================================================================
