--------------------------- MODULE CameraPipeline ---------------------------
(***************************************************************************)
(* One camera's pipeline: the supervisor of module Supervisor, the FFmpeg  *)
(* process, and what the uploader's poll loop does about silence           *)
(* (streaming/hls_uploader.rs, start_with_dashboard).  The uploader counts *)
(* its polls without a new segment and asks the supervisor, through        *)
(* stall_flag, to kill an FFmpeg that is alive but produces nothing.       *)
(*                                                                         *)
(* Which segments the uploader takes is the subject of SegmentWindow: here *)
(* a poll finds new segments or it does not.                               *)
(***************************************************************************)
EXTENDS Supervisor

CONSTANTS
  WarnCycles,   \* 10: silent polls before the camera is reported in error
  KillCycles,   \* STALL_KILL_CYCLES
  MaxUploads    \* bound on the upload tasks in flight the model tracks

ASSUME UploaderAssumption ==
  /\ WarnCycles \in Nat \ {0}
  /\ KillCycles \in Nat /\ KillCycles > WarnCycles
  /\ MaxUploads \in Nat

VARIABLES
  wedged,       \* FFmpeg is alive but has stopped producing segments
  fresh,        \* completed segments are on disk that no poll has seen
  upPc,         \* where the poll loop is
  found,        \* the poll in progress found new segments
  staleCycles,  \* stale_cycles, saturated past KillCycles
  uploads       \* segment upload tasks that have not finished

uploaderVars == <<upPc, found, staleCycles, uploads>>
pipelineVars == <<vars, wedged, fresh, uploaderVars>>

\* The types of the supervisor and of the uploader's poll loop.
PipelineTypeOK ==
  /\ TypeOK
  /\ wedged \in BOOLEAN
  /\ fresh \in BOOLEAN
  /\ upPc \in {"scan", "status", "flag", "aborted"}
  /\ found \in BOOLEAN
  /\ staleCycles \in 0 .. KillCycles + 1
  /\ uploads \in 0 .. MaxUploads

PipelineInit ==
  /\ Init
  /\ wedged = FALSE
  /\ fresh = FALSE
  /\ upPc = "scan"
  /\ found = FALSE
  /\ staleCycles = 0
  /\ uploads = 0
-----------------------------------------------------------------------------
(* FFmpeg and the segment directory.                                       *)

\* cleanup() empties the directory before FFmpeg is spawned; a start that
\* fails may leave it as it was.
CleanupOnStart ==
  /\ wedged' = FALSE
  /\ IF startOk' THEN fresh' = FALSE ELSE fresh' \in {fresh, FALSE}

Produce ==
  /\ ffmpeg = "running" /\ ~wedged
  /\ fresh' = TRUE
  /\ UNCHANGED <<vars, wedged, uploaderVars>>

Wedge ==
  /\ ffmpeg = "running" /\ ~wedged
  /\ wedged' = TRUE
  /\ UNCHANGED <<vars, fresh, uploaderVars>>

Unwedge ==
  /\ wedged
  /\ wedged' = FALSE
  /\ UNCHANGED <<vars, fresh, uploaderVars>>

\* A supervisor step; a dead FFmpeg is not wedged.
Supervise ==
  /\ SupervisorStep \/ Environment
  /\ IF StartFfmpeg
     THEN CleanupOnStart
     ELSE wedged' = (wedged /\ ffmpeg' = "running") /\ UNCHANGED fresh
  /\ UNCHANGED uploaderVars
-----------------------------------------------------------------------------
(* One poll of the uploader.                                               *)

Scan ==
  /\ upPc = "scan"
  /\ found' = fresh
  /\ fresh' = FALSE
  /\ staleCycles' = IF fresh THEN staleCycles
                             ELSE AtMost(KillCycles + 1, staleCycles + 1)
  /\ upPc' = "status"
  /\ UNCHANGED <<vars, wedged, uploads>>

\* Mutant: reporting the silence starts the count over.
ReportAndStartOver ==
  /\ upPc = "status"
  /\ upPc' = "flag"
  /\ status' = IF ~found /\ staleCycles = WarnCycles THEN "error" ELSE status
  /\ staleCycles' = IF staleCycles = WarnCycles THEN 0 ELSE staleCycles
  /\ UNCHANGED <<loopVars, stopFlag, stallFlag, restartEpoch, historyVars,
                 wedged, fresh, found, uploads>>

ReportStatus ==
  /\ upPc = "status"
  /\ upPc' = "flag"
  /\ status' = CASE ~found /\ staleCycles = WarnCycles -> "error"
                 [] found /\ staleCycles >= WarnCycles -> "streaming"
                 [] OTHER -> status
  /\ UNCHANGED <<loopVars, stopFlag, stallFlag, restartEpoch, historyVars,
                 wedged, fresh, found, staleCycles, uploads>>

\* Mutant: the uploader kills FFmpeg behind the supervisor's back.
KillFromUploader ==
  /\ upPc = "flag"
  /\ upPc' = "scan"
  /\ ffmpeg' = IF ~found /\ staleCycles = KillCycles THEN "none" ELSE ffmpeg
  /\ staleCycles' = IF found THEN 0 ELSE staleCycles
  /\ uploads' = IF found THEN AtMost(MaxUploads, uploads + 1) ELSE uploads
  /\ UNCHANGED <<pc, source, fallbackConsumed, backoff, crashHistory, timer,
                 aliveFor, startOk, sharedVars, historyVars,
                 wedged, fresh, found>>

\* The flag is raised once, when the count reaches KillCycles, and lowered
\* whenever there are new segments; those are handed to upload tasks.
RaiseOrLowerFlag ==
  /\ upPc = "flag"
  /\ upPc' = "scan"
  /\ stallFlag' = IF found THEN FALSE
                  ELSE stallFlag \/ staleCycles = KillCycles
  /\ staleCycles' = IF found THEN 0 ELSE staleCycles
  /\ uploads' = IF found THEN AtMost(MaxUploads, uploads + 1) ELSE uploads
  /\ UNCHANGED <<loopVars, stopFlag, restartEpoch, status, historyVars,
                 wedged, fresh, found>>

\* An upload task ends whenever the network lets it: a successful push
\* reports the camera as streaming.
FinishUpload ==
  /\ uploads > 0
  /\ uploads' = uploads - 1
  /\ status' \in {status, "streaming"}
  /\ UNCHANGED <<loopVars, stopFlag, stallFlag, restartEpoch, historyVars,
                 wedged, fresh, upPc, found, staleCycles>>

\* Shutdown aborts the poll loop at its sleep.
AbortUploader ==
  /\ stopFlag
  /\ upPc = "scan"
  /\ upPc' = "aborted"
  /\ UNCHANGED <<vars, wedged, fresh, found, staleCycles, uploads>>

Poll == Scan \/ ReportStatus \/ RaiseOrLowerFlag
-----------------------------------------------------------------------------
PipelineNext ==
  \/ Supervise
  \/ Produce \/ Wedge \/ Unwedge
  \/ Poll \/ FinishUpload \/ AbortUploader

PipelineSpec == PipelineInit /\ [][PipelineNext]_pipelineVars

\* The runtime runs both tasks and the clock; FFmpeg and the network are free.
FairPipelineSpec ==
  /\ PipelineSpec
  /\ WF_pipelineVars(SupervisorStep /\ Supervise)
  /\ WF_pipelineVars(Tick /\ Supervise)
  /\ WF_pipelineVars(Poll)
-----------------------------------------------------------------------------
(* Correctness.                                                            *)

\* A kill request is only ever outstanding while the uploader's count says
\* the camera has been silent for KillCycles polls: progress withdraws it.
FlagMeansSilence == stallFlag => staleCycles >= KillCycles

\* An FFmpeg that wedges while it is being supervised, and before the
\* uploader's count has reached KillCycles, does not stay wedged.
FirstWedgeIsKilled ==
  pc \in {"watch", "polling"} /\ wedged /\ staleCycles < KillCycles ~> ~wedged

\* The pipeline is an implementation of the supervisor in its environment:
\* the uploader touches nothing but the flag and the reported status.
ImplementsSupervisor == Spec

\* Violated.  The promise of the module comment of supervisor.rs: a wedged
\* but alive FFmpeg is killed and restarted, also when the one before it was.
WedgeIsKilled == pc \in {"watch", "polling"} /\ wedged ~> ~wedged

=============================================================================
