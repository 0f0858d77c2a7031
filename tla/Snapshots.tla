----------------------------- MODULE Snapshots ------------------------------
(***************************************************************************)
(* Snapshots of one camera: take_snapshot and its helpers (api/commands.rs)*)
(* run by several tasks at once, HTTP routes (server/api.rs) and the       *)
(* command channel, on a directory FFmpeg writes and the sweep trims, into *)
(* the snapshots table (storage/database.rs) that users, retention and     *)
(* wipe_data delete from.                                                  *)
(*                                                                         *)
(* Time is counted in segment lengths of one second.  A file is when its   *)
(* first frame was recorded and its modification time; all files are of    *)
(* one FFmpeg run.  An image is that moment, the run, and whether FFmpeg   *)
(* had finished the file; a row is the task whose image it holds.          *)
(***************************************************************************)
EXTENDS Integers, FiniteSets, Functions, FiniteSetsExt

CONSTANTS
  Takers,     \* tasks that may run take_snapshot at the same time
  None,       \* an absent value
  ListSize,   \* hls_list_size
  SweepKeep,  \* files the orphan sweep leaves
  MaxClock,   \* bound: time
  MaxRuns,    \* bound: FFmpeg runs
  MaxRows     \* bound: snapshots ever saved

ASSUME SnapshotAssumption ==
  /\ None \notin Int
  /\ ListSize \in Nat \ {0} /\ SweepKeep \in Nat \ {0, 1}
  /\ MaxClock \in Nat /\ MaxRuns \in Nat /\ MaxRows \in Nat

VARIABLES
  dir,      \* the segment files: [begin, end] by sequence number
  listed,   \* the segments stream.m3u8 names
  alive,    \* FFmpeg is running
  run,      \* FFmpeg runs so far
  clock,
  rows,     \* the snapshots table: image by id, each named for its taker
  lastId,   \* AUTOINCREMENT
  task      \* what each taker is doing

fileVars == <<dir, listed, alive, run, clock>>
rowVars == <<rows, lastId>>
snapVars == <<fileVars, rowVars, task>>

Idle == [step |-> "idle", at |-> None, run |-> 0, timed |-> <<>>, path |-> None,
         frame |-> None, image |-> None, id |-> None, reply |-> None, latest |-> None]

\* What a task keeps once its image is saved, and once it has its reply.
Saved(id) == [Idle EXCEPT !.step = "saved", !.id = id]
Replied(reply, image) == [Idle EXCEPT !.step = "done", !.reply = reply, !.image = image]

SnapInit ==
  /\ dir = <<>> /\ listed = {} /\ alive = FALSE /\ run = 0 /\ clock = 1
  /\ rows = <<>> /\ lastId = 0
  /\ task = [t \in Takers |-> Idle]

-----------------------------------------------------------------------------
(* The segment directory.                                                  *)

Newest == Max(DOMAIN dir)

\* HlsGenerator wipes the directory and starts FFmpeg, which numbers from 0.
StartFfmpeg ==
  /\ ~alive /\ run < MaxRuns
  /\ run' = run + 1 /\ alive' = TRUE
  /\ dir' = [s \in {0} |-> [begin |-> clock, end |-> clock]]
  /\ listed' = {}
  /\ UNCHANGED <<clock, rowVars, task>>

\* FFmpeg finishes a segment, lists it and opens the next one.
CompleteSegment ==
  /\ alive /\ clock < MaxClock
  /\ clock' = clock + 1
  /\ dir' = [s \in DOMAIN dir \union {Newest + 1} |->
               IF s = Newest + 1 THEN [begin |-> clock', end |-> clock']
               ELSE IF s = Newest THEN [dir[s] EXCEPT !.end = clock'] ELSE dir[s]]
  /\ listed' = {s \in DOMAIN dir : s > Newest - ListSize}
  /\ UNCHANGED <<alive, run, rowVars, task>>

\* FFmpeg dies; time passes until the supervisor starts it again.
FfmpegDies ==
  /\ alive /\ clock < MaxClock
  /\ alive' = FALSE /\ clock' = clock + 1
  /\ UNCHANGED <<dir, listed, run, rowVars, task>>

Sweep ==
  /\ Cardinality(DOMAIN dir) > SweepKeep
  /\ dir' = Restrict(dir, {s \in DOMAIN dir : s > Newest - SweepKeep})
  /\ UNCHANGED <<listed, alive, run, clock, rowVars, task>>

-----------------------------------------------------------------------------
(* take_snapshot.                                                          *)

\* timed_segments: all files but the newest, with the time each one started.
Complete == DOMAIN dir \ {Newest}

StartOf(s) ==
  LET before == {p \in Complete : p < s}
  IN IF before = {} THEN dir[s].end - 1 ELSE dir[Max(before)].end

TimedSegments ==
  [s \in IF dir = <<>> THEN {} ELSE Complete |-> [start |-> StartOf(s), end |-> dir[s].end]]

\* Mutant: a segment that finished at the very moment is taken for it.
SegmentBefore(timed, at) ==
  LET after == {s \in DOMAIN timed : timed[s].end >= at}
  IN IF after = {} THEN Max(DOMAIN timed) ELSE Min(after)

\* segment_at, once the moment is known to be retained: the first segment
\* that finished after it, or the newest complete one.
SegmentAt(timed, at) ==
  LET after == {s \in DOMAIN timed : timed[s].end > at}
  IN IF after = {} THEN Max(DOMAIN timed) ELSE Min(after)

Retained(timed, at) == at >= timed[Min(DOMAIN timed)].start

FrameTime(timed, s) == IF s \in DOMAIN timed THEN timed[s].start ELSE None

Fail(t) == task' = [task EXCEPT ![t] = Replied("failed", None)]

\* What the directory held when it was read: the moment its newest complete file
\* began.  No code reads it; it is kept with the task for the property.
NewestWhole == IF Cardinality(DOMAIN dir) < 2 THEN None ELSE dir[Newest - 1].begin

\* The directory is read.  With a moment to look back to, the segment is
\* chosen from this reading, or the request refused.
ScanSegments(t, at) ==
  /\ task[t].step = "idle"
  /\ LET timed == TimedSegments
         asked == [Idle EXCEPT !.at = at, !.run = run, !.latest = NewestWhole] IN
       task' = [task EXCEPT ![t] =
         IF at = None THEN [asked EXCEPT !.step = "find", !.timed = timed]
         ELSE IF timed = <<>> \/ ~Retained(timed, at)
           THEN Replied("failed", None)
         ELSE LET s == SegmentAt(timed, at)
              IN [asked EXCEPT !.step = "grab", !.path = s,
                    !.frame = FrameTime(timed, s)]]
  /\ UNCHANGED <<fileVars, rowVars>>

\* last_segment_from_fs: the second newest file, or the only one.
LastFromFs ==
  IF Cardinality(DOMAIN dir) >= 2 THEN {Max(Complete)} ELSE DOMAIN dir

\* find_latest_segment: the last one listed if it is on disk, else from the
\* directory.
LatestSegment ==
  IF listed # {} /\ Max(listed) \in DOMAIN dir THEN {Max(listed)} ELSE LastFromFs

FindLatest(t) ==
  /\ task[t].step = "find"
  /\ IF LatestSegment = {} THEN Fail(t)
     ELSE \E s \in LatestSegment :
            task' = [task EXCEPT ![t].step = "grab", ![t].path = s, ![t].timed = <<>>,
                       ![t].frame = FrameTime(task[t].timed, s)]
  /\ UNCHANGED <<fileVars, rowVars>>

\* FFmpeg opens the file by its name and reads one frame.
GrabFrame(t) ==
  /\ task[t].step = "grab"
  /\ task[t].path \in DOMAIN dir
  /\ LET s == task[t].path IN
       task' = [task EXCEPT ![t].step = "save", ![t].path = None,
         ![t].image = [run |-> run, begin |-> dir[s].begin, whole |-> s # Newest]]
  /\ UNCHANGED <<fileVars, rowVars>>

\* The file is gone, or FFmpeg finds no frame in it.
GrabFails(t) ==
  /\ task[t].step = "grab"
  /\ Fail(t)
  /\ UNCHANGED <<fileVars, rowVars>>

\* save_snapshot inserts the row and reads its id under one lock.
SaveSnapshot(t) ==
  /\ task[t].step = "save" /\ lastId < MaxRows
  /\ lastId' = lastId + 1
  /\ rows' = [id \in DOMAIN rows \union {lastId'} |-> IF id = lastId' THEN t ELSE rows[id]]
  /\ task' = [task EXCEPT ![t] = Saved(lastId')]
  /\ UNCHANGED fileVars

\* The disk is below the safety floor, or the insert fails.  (With the floor,
\* the route answers 503, and the command fails for want of an id.)
SaveSkipped(t) ==
  /\ task[t].step = "save"
  /\ Fail(t)
  /\ UNCHANGED <<fileVars, rowVars>>

\* post_snapshot answers with the id; the browser loads the image later.
AnswerWithId(t) ==
  /\ task[t].step = "saved"
  /\ task' = [task EXCEPT ![t] = Idle]
  /\ UNCHANGED <<fileVars, rowVars>>

\* Mutant: the row is looked up again as the camera's newest.
FetchNewest(t) ==
  /\ task[t].step = "saved"
  /\ IF rows # <<>>
     THEN task' = [task EXCEPT ![t] = Replied("ok", rows[Max(DOMAIN rows)])]
     ELSE Fail(t)
  /\ UNCHANGED <<fileVars, rowVars>>

\* Mutant: a row that is not there is waited for.
FetchWhenThere(t) ==
  /\ task[t].step = "saved"
  /\ task[t].id \in DOMAIN rows
  /\ task' = [task EXCEPT ![t] = Replied("ok", rows[task[t].id])]
  /\ UNCHANGED <<fileVars, rowVars>>

\* fetch_snapshot_jpeg reads the row back for the command channel.
FetchImage(t) ==
  /\ task[t].step = "saved"
  /\ IF task[t].id \in DOMAIN rows
     THEN task' = [task EXCEPT ![t] = Replied("ok", rows[task[t].id])]
     ELSE Fail(t)
  /\ UNCHANGED <<fileVars, rowVars>>

Return(t) ==
  /\ task[t].step = "done"
  /\ task' = [task EXCEPT ![t] = Idle]
  /\ UNCHANGED <<fileVars, rowVars>>

\* A user deletes the snapshot, or retention does, the oldest first.
DeleteSnapshot ==
  /\ \E id \in DOMAIN rows : rows' = Restrict(rows, DOMAIN rows \ {id})
  /\ UNCHANGED <<fileVars, lastId, task>>

Files == StartFfmpeg \/ CompleteSegment \/ FfmpegDies \/ Sweep

\* One step of take_snapshot up to the saved row.
Take(t) ==
  \/ FindLatest(t) \/ GrabFrame(t) \/ GrabFails(t)
  \/ SaveSnapshot(t) \/ SaveSkipped(t)
=============================================================================
