---------------------------- MODULE SegmentUpload ----------------------------
(***************************************************************************)
(* The upload tasks of one camera (streaming/hls_uploader.rs and           *)
(* segment_uploader.rs): the poll loop of SegmentWindow spawns one for     *)
(* every segment it takes; a task waits for one of the camera's permits,   *)
(* pushes the segment to Command Center, and files it in the archive if    *)
(* the camera is recording.                                                *)
(*                                                                         *)
(* A task knows its segment by path only, and opens the file twice: what   *)
(* is there may by then have been swept, or written by another FFmpeg run. *)
(* The sets the heartbeats maintain (suspended cameras, recording_state,   *)
(* the disk floor) may change at any time: each read of one is a free      *)
(* choice.  The playlist push and the motion detection a task spawns touch *)
(* nothing of this state and are left out.                                 *)
(***************************************************************************)
EXTENDS SegmentWindow

CONSTANTS
  Permits,      \* MAX_CONCURRENT_UPLOADS_PER_CAMERA
  MaxRetries,   \* retry_count
  MaxTasks      \* bound: upload tasks alive at the same time

ASSUME UploadAssumption ==
  /\ Permits \in Nat \ {0}
  /\ MaxRetries \in Nat
  /\ MaxTasks \in Nat \ {0}

VARIABLES
  mode,          \* NodeMode
  tasks,         \* the live upload tasks, by the segment they are for and a number
  queue,         \* the tasks that wait for a permit, in order of arrival
  permits,       \* permits of upload_semaphore left
  codecDetected, \* codec_detected
  \* History variables.
  codecReports,  \* report_codec calls, saturated at 2
  misread        \* some task read a file that is not its own whole segment

uploadVars == <<mode, tasks, queue, permits, codecDetected, codecReports,
                misread>>
allVars == <<vars, uploadVars>>

\* The FFmpeg run whose files are on disk.
Run == IF bumpPending THEN epoch + 1 ELSE epoch

\* A task is for one closed segment of one run.  The number tells tasks for the same
\* segment apart: with a dedup set that is too small, SegmentWindow takes one
\* again, perhaps while its first task is alive.
TaskIds == (1 .. MaxEpoch) \X (0 .. MaxSeq - 1) \X (1 .. MaxTasks)
Live == DOMAIN tasks
Labels == {"new", "queued", "reading", "pushing", "pushed", "codec",
           "archive", "saving"}

\* No more permits than there are, no task twice in the queue.
UploadTypeOK ==
  /\ mode \in {"local", "connected"}
  /\ Live \subseteq TaskIds
  /\ \A id \in Live :
       tasks[id] \in [at : Labels, tries : 0 .. MaxRetries]
  /\ queue \in Seq(Live) /\ IsInjective(queue)
  /\ permits \in 0 .. Permits
  /\ codecDetected \in BOOLEAN
  /\ codecReports \in 0 .. 2
  /\ misread \in BOOLEAN

UploadInit ==
  /\ Init
  /\ mode \in {"local", "connected"}
  /\ tasks = <<>>
  /\ queue = <<>>
  /\ permits = Permits
  /\ codecDetected = FALSE
  /\ codecReports = 0
  /\ misread = FALSE

At(id, label) == id \in Live /\ tasks[id].at = label
Goto(id, label) == tasks' = [tasks EXCEPT ![id].at = label]

\* The task returns; the permit it may hold is dropped.
End(id) == tasks' = Restrict(tasks, Live \ {id})

\* What is at the task's path, and whether it is what the task is for.
Missing(id) == id[2] \notin disk
Own(id) == id[1] = Run /\ id[2] \in Closed
-----------------------------------------------------------------------------
NewTasks(number) == {Run} \X NewSegments \X {number}

\* The poll loop: every segment a scan takes gets a task of its own, under the
\* first number that no live task has.
Scan ==
  /\ ScanDirectory
  /\ \E number \in 1 .. MaxTasks :
       /\ NewTasks(number) \intersect Live = {}
       /\ \A n \in 1 .. number - 1 : NewTasks(n) \intersect Live # {}
       /\ Cardinality(Live \union NewTasks(number)) <= MaxTasks
       /\ tasks' = [id \in Live \union NewTasks(number) |->
                   IF id \in Live THEN tasks[id] ELSE [at |-> "new", tries |-> 0]]
  /\ UNCHANGED <<mode, queue, permits, codecDetected, codecReports, misread>>

\* FFmpeg, the supervisor, the epoch check and the orphan sweep spawn nothing.
Beside ==
  /\ \/ CompleteSegment \/ FfmpegDies \/ Restart \/ FailedStart \/ BumpEpoch
     \/ CheckEpoch \/ Sweep
  /\ UNCHANGED uploadVars

\* A camera suspended by the plan is skipped; else the task asks for a permit.
\* The tasks of one scan get here in any order.
Enqueue(id) ==
  /\ At(id, "new")
  /\ \/ End(id) /\ UNCHANGED queue
     \/ Goto(id, "queued") /\ queue' = Append(queue, id)
  /\ UNCHANGED <<vars, mode, permits, codecDetected, codecReports, misread>>

\* The semaphore is fair.  A local node has nothing to push.
AcquirePermit(id) ==
  /\ At(id, "queued")
  /\ queue # <<>> /\ Head(queue) = id
  /\ permits > 0
  /\ permits' = permits - 1
  /\ queue' = Tail(queue)
  /\ Goto(id, IF mode = "local" THEN "pushed" ELSE "reading")
  /\ UNCHANGED <<vars, mode, codecDetected, codecReports, misread>>

\* Mutant: a push that fails keeps its permit.
LeakPermit(id) == End(id) /\ UNCHANGED permits

Return(id) == End(id) /\ permits' = permits + 1

\* push_segment reads the file: none, too small to be a segment, or a payload.
ReadForPush(id) ==
  /\ At(id, "reading")
  /\ \/ /\ Missing(id) \/ ~Own(id)
        /\ Return(id)
        /\ UNCHANGED misread
     \/ /\ ~Missing(id)
        /\ Goto(id, "pushing") /\ UNCHANGED permits
        /\ misread' = (misread \/ ~Own(id))
  /\ UNCHANGED <<vars, mode, queue, codecDetected, codecReports>>

\* One attempt: accepted, failed for now, or failed for good.
Push(id) ==
  /\ At(id, "pushing")
  /\ \/ tasks' = [tasks EXCEPT ![id] = [at |-> "pushed", tries |-> 0]] /\ UNCHANGED permits
     \/ /\ tasks[id].tries < MaxRetries
        /\ tasks' = [tasks EXCEPT ![id].tries = @ + 1]
        /\ UNCHANGED permits
     \/ Return(id)
  /\ UNCHANGED <<vars, mode, queue, codecDetected, codecReports, misread>>

\* Mutant: the flag is loaded, and stored in a step of its own.
LookThenClaim(id) ==
  /\ \/ /\ At(id, "pushed")
        /\ Goto(id, IF codecDetected THEN "archive" ELSE "claiming")
        /\ UNCHANGED codecDetected
     \/ /\ At(id, "claiming")
        /\ Goto(id, "codec")
        /\ codecDetected' = TRUE
  /\ UNCHANGED <<vars, mode, queue, permits, codecReports, misread>>

\* compare_exchange(false, true): one task claims the codec detection.
ClaimCodec(id) ==
  /\ At(id, "pushed")
  /\ Goto(id, IF codecDetected THEN "archive" ELSE "codec")
  /\ codecDetected' = TRUE
  /\ UNCHANGED <<vars, mode, queue, permits, codecReports, misread>>

\* detect_codec may fail; a report is sent once, and may fail as well.
ReportCodec(id) ==
  /\ At(id, "codec")
  /\ Goto(id, "archive")
  /\ codecReports' \in {codecReports, IF codecReports < 2 THEN codecReports + 1 ELSE 2}
  /\ UNCHANGED <<vars, mode, queue, permits, codecDetected, misread>>

\* Not recording, or paused, or the file is gone: nothing is archived.
ReadForArchive(id) ==
  /\ At(id, "archive")
  /\ \/ Return(id) /\ UNCHANGED misread
     \/ /\ ~Missing(id)
        /\ Goto(id, "saving") /\ UNCHANGED permits
        /\ misread' = (misread \/ ~Own(id))
  /\ UNCHANGED <<vars, mode, queue, codecDetected, codecReports>>

\* Mutant: the task deletes its segment when it is done with it.
SaveRowAndDelete(id) ==
  /\ At(id, "saving")
  /\ Return(id)
  /\ disk' = disk \ {id[2]}
  /\ UNCHANGED <<listed, ffmpegVars, pollVars, sweepDue, taken, duplicate, lost,
                 mode, queue, codecDetected, codecReports, misread>>

\* save_recording_segment on a blocking thread; an error is only logged.
SaveRow(id) ==
  /\ At(id, "saving")
  /\ Return(id)
  /\ UNCHANGED <<vars, mode, queue, codecDetected, codecReports, misread>>

TaskStep(id) ==
  \/ Enqueue(id) \/ AcquirePermit(id)
  \/ ReadForPush(id) \/ Push(id)
  \/ ClaimCodec(id) \/ ReportCodec(id)
  \/ ReadForArchive(id) \/ SaveRow(id)
-----------------------------------------------------------------------------
UploadNext == Scan \/ Beside \/ \E id \in Live : TaskStep(id)

UploadSpec == UploadInit /\ [][UploadNext]_allVars

\* The runtime runs every task; a request is answered or times out after 10 s.
FairUploadSpec ==
  /\ UploadSpec
  /\ WF_pc(Scan \/ (CheckEpoch /\ UNCHANGED uploadVars))
  /\ WF_sweepDue(Sweep /\ UNCHANGED uploadVars)
  /\ WF_bumpPending(BumpEpoch /\ UNCHANGED uploadVars)
  /\ \A id \in TaskIds : WF_tasks(TaskStep(id))
-----------------------------------------------------------------------------
(* Correctness.                                                            *)

\* However many tasks have pushed their segment at the same time, one claims the
\* codec detection: Command Center gets one report, not one from each of them.
CodecReportedOnce == codecReports <= 1

\* Every upload task ends, whatever it waits for and however long the poll loop
\* goes on spawning others: none holds its permit, or its place in the queue for
\* one, for ever.
EveryTaskEnds == \A id \in TaskIds : []<>(id \notin Live)

\* The upload tasks are no part of what SegmentWindow promises: they neither
\* delete files nor touch the poll loop's state.
ImplementsSegmentWindow == Spec

\* What a task pushes and archives under its segment's number is that segment,
\* whole and never one that FFmpeg still writes, however long the task waited for
\* its permit: until FFmpeg is restarted.  After that the path may name the file
\* of another run.
OwnSegmentUntilRestart == misread => Run > 1
=============================================================================
