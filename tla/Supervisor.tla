----------------------------- MODULE Supervisor -----------------------------
(***************************************************************************)
(* The FFmpeg supervisor of one camera: supervise_hls and the parts of     *)
(* HlsGenerator it drives (streaming/supervisor.rs, hls_generator.rs).     *)
(*                                                                         *)
(* Each action is the code between two points at which another task can    *)
(* interleave: an access to a shared atomic, or an await.  Time is counted *)
(* in seconds and is only a lower bound: a sleep lasts AT LEAST its        *)
(* duration, every step may be arbitrarily late.  Instants are kept as     *)
(* ages, saturated one past the largest value they are compared with, so   *)
(* the model has no horizon: TLC explores every run, however long.         *)
(***************************************************************************)
EXTENDS Integers, FiniteSets

CONSTANTS
  PollInterval,     \* POLL_INTERVAL
  BaseBackoff,      \* BASE_BACKOFF
  MaxBackoff,       \* MAX_BACKOFF
  RestartWindow,    \* RESTART_WINDOW
  MaxRestarts,      \* MAX_RESTARTS_IN_WINDOW
  HealthyReset,     \* HEALTHY_RESET_THRESHOLD
  EpochModulus,     \* restart_epoch is an AtomicU64: it wraps at 2^64
  HasFallback       \* is SupervisorConfig.fallback Some(_) ?

ASSUME ConstantsAssumption ==
  /\ PollInterval \in Nat \ {0}
  /\ BaseBackoff \in Nat \ {0}
  /\ MaxBackoff \in Nat /\ MaxBackoff >= BaseBackoff
  /\ RestartWindow \in Nat
  /\ MaxRestarts \in Nat \ {0}
  /\ HealthyReset \in Nat
  /\ EpochModulus \in Nat \ {0}
  /\ HasFallback \in BOOLEAN

\* The three thresholds of the code (60 s, 1 s, 60 s) are chosen
\* independently; the restart budget needs them to satisfy this.
ASSUME ThresholdsAssumption == HealthyReset + BaseBackoff > RestartWindow

VARIABLES
  pc,               \* where supervise_hls is
  source,           \* active_source
  fallbackConsumed, \* fallback_consumed
  backoff,          \* backoff
  crashHistory,     \* crash_history, as the set of the ages of its instants
  timer,            \* what is left of the sleep in progress
  aliveFor,         \* alive_since.elapsed(), saturated at HealthyReset
  ffmpeg,           \* the child process of the current generator
  startOk,          \* start_result.is_ok()
  stopFlag,         \* stop_flag, shared with the runner
  stallFlag,        \* stall_flag, shared with the uploader
  restartEpoch,     \* restart_epoch, shared with the uploader
  status,           \* the camera's status in the Dashboard
  \* History variables: read by no action, only by the properties.
  crashes,          \* ages of ALL crashes, neither pruned nor cleared
  attempts,         \* start attempts so far, saturated at 3
  hotStarts         \* start attempts since the last sleep

sharedVars == <<stopFlag, stallFlag, restartEpoch, status>>
loopVars == <<pc, source, fallbackConsumed, backoff, crashHistory, timer,
              aliveFor, ffmpeg, startOk>>
historyVars == <<crashes, attempts, hotStarts>>
vars == <<loopVars, sharedVars, historyVars>>

Ages == 0 .. RestartWindow + 1
Recent(ages) == {a \in ages : a <= RestartWindow}
AtMost(bound, n) == IF n > bound THEN bound ELSE n
Later(ages) == {AtMost(RestartWindow + 1, a + 1) : a \in ages}

Labels == {"top", "starting", "started", "clearing", "watch", "polling",
           "backingOff", "returned"}
Statuses == {"starting", "streaming", "error", "restarting", "failed"}

\* The backoff stays between its base and its cap, the epoch within its
\* modulus, and every other variable in its type.
TypeOK ==
  /\ pc \in Labels
  /\ source \in {"primary", "fallback"}
  /\ fallbackConsumed \in BOOLEAN
  /\ backoff \in BaseBackoff .. MaxBackoff
  /\ crashHistory \in SUBSET Ages
  /\ timer \in Nat /\ timer <= PollInterval + MaxBackoff
  /\ aliveFor \in 0 .. HealthyReset
  /\ ffmpeg \in {"none", "running", "exited"}
  /\ startOk \in BOOLEAN
  /\ stopFlag \in BOOLEAN
  /\ stallFlag \in BOOLEAN
  /\ restartEpoch \in 0 .. EpochModulus - 1
  /\ status \in Statuses
  /\ crashes \in SUBSET Ages
  /\ attempts \in 0 .. 3
  /\ hotStarts \in 0 .. 3

Init ==
  /\ pc = "top"
  /\ source = "primary"
  /\ fallbackConsumed = FALSE
  /\ backoff = BaseBackoff
  /\ crashHistory = {}
  /\ timer = 0
  /\ aliveFor = 0
  /\ ffmpeg = "none"
  /\ startOk = FALSE
  /\ stopFlag = FALSE
  /\ stallFlag = FALSE
  /\ restartEpoch = 0
  /\ status = "starting"
  /\ crashes = {}
  /\ attempts = 0
  /\ hotStarts = 0
-----------------------------------------------------------------------------
(* The head of the outer loop.                                             *)

ReturnIfStopped ==
  /\ pc = "top"
  /\ stopFlag
  /\ pc' = "returned"
  /\ UNCHANGED <<source, fallbackConsumed, backoff, crashHistory, timer,
                 aliveFor, ffmpeg, startOk, sharedVars, historyVars>>

\* HlsGenerator::new: its only fallible step is create_dir_all.
NewGenerator ==
  /\ pc = "top"
  /\ ~stopFlag
  /\ \/ /\ pc' = "starting"
        /\ UNCHANGED status
     \/ /\ pc' = "returned"
        /\ status' = "failed"
  /\ UNCHANGED <<source, fallbackConsumed, backoff, crashHistory, timer,
                 aliveFor, ffmpeg, startOk, stopFlag, stallFlag, restartEpoch,
                 historyVars>>

\* start_with: device validation, cleanup() of the segment directory and the
\* spawn of FFmpeg; any of them may fail, and then no child is left behind.
StartFfmpeg ==
  /\ pc = "starting"
  /\ pc' = "started"
  /\ \E ok \in BOOLEAN :
       /\ startOk' = ok
       /\ ffmpeg' = IF ok THEN "running" ELSE "none"
  /\ attempts' = AtMost(3, attempts + 1)
  /\ hotStarts' = AtMost(3, hotStarts + 1)
  /\ UNCHANGED <<source, fallbackConsumed, backoff, crashHistory, timer,
                 aliveFor, sharedVars, crashes>>

\* A flag meant for the previous FFmpeg must not kill the new one.
ClearStallFlag ==
  /\ pc = "started"
  /\ pc' = "clearing"
  /\ stallFlag' = FALSE
  /\ UNCHANGED <<source, fallbackConsumed, backoff, crashHistory, timer,
                 aliveFor, ffmpeg, startOk, stopFlag, restartEpoch, status,
                 historyVars>>

FfmpegUp ==
  /\ pc = "clearing"
  /\ startOk
  /\ restartEpoch' = (restartEpoch + 1) % EpochModulus
  /\ fallbackConsumed' = TRUE
  /\ status' = "streaming"
  /\ aliveFor' = 0
  /\ pc' = "watch"
  /\ UNCHANGED <<source, backoff, crashHistory, timer, ffmpeg, startOk,
                 stopFlag, stallFlag, historyVars>>
-----------------------------------------------------------------------------
(* Crashes and the restart budget.                                         *)

\* The window of record_crash_and_maybe_bail after a crash now.
CrashWindow(history) == Recent(history \union {0})

NextBackoff == AtMost(MaxBackoff, 2 * backoff)

\* record_crash_and_maybe_bail on `history`, and what both its callers do
\* next: return if it bailed, else sleep for the current backoff.
Crash(history, restarting) ==
  LET window == CrashWindow(history)
      bail == Cardinality(window) > MaxRestarts
  IN  /\ crashHistory' = window
      /\ crashes' = crashes \union {0}
      /\ IF bail
         THEN /\ pc' = "returned"
              /\ status' = "failed"
              /\ UNCHANGED timer
         ELSE /\ pc' = "backingOff"
              /\ status' = restarting
              /\ timer' = backoff'

MayProbeFallback == ~fallbackConsumed /\ crashHistory = {} /\ HasFallback

\* The one-shot probe of the fallback source: retried with no backoff.
UseFallback ==
  /\ pc = "clearing"
  /\ ~startOk
  /\ MayProbeFallback
  /\ source' = "fallback"
  /\ fallbackConsumed' = TRUE
  /\ pc' = "top"
  /\ UNCHANGED <<backoff, crashHistory, timer, aliveFor, ffmpeg, startOk,
                 sharedVars, historyVars>>

\* A failed start is a crash, but leaves the status as it was.
StartFailed ==
  /\ pc = "clearing"
  /\ ~startOk
  /\ ~MayProbeFallback
  /\ UNCHANGED backoff
  /\ Crash(crashHistory, status)
  /\ UNCHANGED <<source, fallbackConsumed, aliveFor, ffmpeg, startOk,
                 stopFlag, stallFlag, restartEpoch, attempts, hotStarts>>

\* The end of the backoff sleep: the delay doubles, the loop starts over and
\* the previous generator is dropped (Drop stops a child that still runs).
BackoffOver ==
  /\ pc = "backingOff"
  /\ timer = 0
  /\ backoff' = NextBackoff
  /\ pc' = "top"
  /\ ffmpeg' = "none"
  /\ hotStarts' = 0
  /\ UNCHANGED <<source, fallbackConsumed, crashHistory, timer, aliveFor,
                 startOk, sharedVars, crashes, attempts>>
-----------------------------------------------------------------------------
(* The poll loop while FFmpeg is up.                                       *)

\* Mutant: the poll loop never looks at the stop flag.
StopIgnored ==
  /\ pc = "watch"
  /\ stopFlag
  /\ pc' = "polling"
  /\ timer' = PollInterval
  /\ UNCHANGED <<source, fallbackConsumed, backoff, crashHistory, aliveFor,
                 ffmpeg, startOk, sharedVars, historyVars>>

\* Mutant: the loop returns without killing FFmpeg.
StopWithoutKill ==
  /\ pc = "watch"
  /\ stopFlag
  /\ pc' = "returned"
  /\ UNCHANGED <<source, fallbackConsumed, backoff, crashHistory, timer,
                 aliveFor, ffmpeg, startOk, sharedVars, historyVars>>

StopFfmpeg ==
  /\ pc = "watch"
  /\ stopFlag
  /\ ffmpeg' = "none"
  /\ pc' = "returned"
  /\ UNCHANGED <<source, fallbackConsumed, backoff, crashHistory, timer,
                 aliveFor, startOk, sharedVars, historyVars>>

SleepPoll ==
  /\ pc = "watch"
  /\ ~stopFlag
  /\ timer' = PollInterval
  /\ pc' = "polling"
  /\ UNCHANGED <<source, fallbackConsumed, backoff, crashHistory, aliveFor,
                 ffmpeg, startOk, sharedVars, historyVars>>

\* Mutant: any run that survives a poll counts as healthy.
RanAtAll == aliveFor >= PollInterval

RanHealthy == aliveFor >= HealthyReset

\* What follows the end of a run: a healthy run forgives the earlier crashes
\* and the delay they built up before this crash is recorded.
RunEnded ==
  /\ backoff' = IF RanHealthy THEN BaseBackoff ELSE backoff
  /\ Crash(IF RanHealthy THEN {} ELSE crashHistory, "restarting")
  /\ UNCHANGED <<source, fallbackConsumed, aliveFor, startOk, stopFlag,
                 restartEpoch, attempts, hotStarts>>

\* Mutant: the killed child's exit status is waited for.  stop() reaped it,
\* so check_process sees no child, "still running", for ever.
KillThenPoll ==
  /\ pc = "polling" /\ timer = 0
  /\ stallFlag
  /\ stallFlag' = FALSE
  /\ ffmpeg' = "none"
  /\ pc' = "watch"
  /\ UNCHANGED <<source, fallbackConsumed, backoff, crashHistory, timer,
                 aliveFor, startOk, stopFlag, restartEpoch, status,
                 historyVars>>

\* stall_flag.swap(false) found the flag raised: stop() kills and reaps.
KillStalled ==
  /\ pc = "polling" /\ timer = 0
  /\ stallFlag
  /\ stallFlag' = FALSE
  /\ ffmpeg' = "none"
  /\ RunEnded

\* check_process reaped an exited child.
ReapExited ==
  /\ pc = "polling" /\ timer = 0
  /\ ~stallFlag
  /\ ffmpeg = "exited"
  /\ ffmpeg' = "none"
  /\ UNCHANGED stallFlag
  /\ RunEnded

\* check_process found no exit status.
StillRunning ==
  /\ pc = "polling" /\ timer = 0
  /\ ~stallFlag
  /\ ffmpeg # "exited"
  /\ pc' = "watch"
  /\ UNCHANGED <<source, fallbackConsumed, backoff, crashHistory, timer,
                 aliveFor, ffmpeg, startOk, sharedVars, historyVars>>
-----------------------------------------------------------------------------
(* The environment: the FFmpeg process, the runner, and the clock.         *)

FfmpegExits ==
  /\ ffmpeg = "running"
  /\ ffmpeg' = "exited"
  /\ UNCHANGED <<pc, source, fallbackConsumed, backoff, crashHistory, timer,
                 aliveFor, startOk, sharedVars, historyVars>>

\* Ctrl+C, SIGTERM, /quit and the service stop all store true.
RequestStop ==
  /\ ~stopFlag
  /\ stopFlag' = TRUE
  /\ UNCHANGED <<loopVars, stallFlag, restartEpoch, status, historyVars>>

\* Shutdown aborts the task at an await; dropping its future drops the
\* generator, whose Drop stops the child.
Abort ==
  /\ stopFlag
  /\ pc \in {"polling", "backingOff"}
  /\ pc' = "returned"
  /\ ffmpeg' = "none"
  /\ UNCHANGED <<source, fallbackConsumed, backoff, crashHistory, timer,
                 aliveFor, startOk, sharedVars, historyVars>>

\* One second passes.
Tick ==
  /\ timer' = IF timer > 0 THEN timer - 1 ELSE 0
  /\ aliveFor' = AtMost(HealthyReset, aliveFor + 1)
  /\ crashHistory' = Later(crashHistory)
  /\ crashes' = Later(crashes)
  /\ UNCHANGED <<pc, source, fallbackConsumed, backoff, ffmpeg, startOk,
                 sharedVars, attempts, hotStarts>>

\* What the uploader's tasks do to the shared state, as the supervisor sees
\* it.  CameraPipeline puts the uploader's own code in its place.
UploaderActs ==
  /\ stallFlag' \in BOOLEAN
  /\ status' \in {status, "streaming", "error"}
  /\ UNCHANGED <<loopVars, stopFlag, restartEpoch, historyVars>>
-----------------------------------------------------------------------------
SupervisorStep ==
  \/ ReturnIfStopped \/ NewGenerator \/ StartFfmpeg \/ ClearStallFlag
  \/ FfmpegUp \/ UseFallback \/ StartFailed \/ BackoffOver
  \/ StopFfmpeg \/ SleepPoll \/ KillStalled \/ ReapExited \/ StillRunning

Environment == FfmpegExits \/ RequestStop \/ Abort \/ Tick

Next == SupervisorStep \/ Environment \/ UploaderActs

Spec == Init /\ [][Next]_vars

\* The runtime keeps polling a ready task and the clock keeps running.
FairSpec == Spec /\ WF_vars(SupervisorStep) /\ WF_vars(Tick)
-----------------------------------------------------------------------------
(* Correctness.                                                            *)

\* The restart budget is global: whatever crash_history forgot, through
\* pruning or through the reset after a healthy run, a camera that is still
\* supervised has crashed at most MaxRestarts times in the last window.
RestartBudget ==
  pc # "returned" => Cardinality(Recent(crashes)) <= MaxRestarts

\* The converse: a crash ends the supervision only if it is one too many for
\* the window, so no camera is given up for crashes long ago.
GivesUpOnlyOnBurst ==
  [][pc' = "returned" /\ pc \in {"clearing", "polling"} /\ ~stopFlag
       => Cardinality(Recent(crashes')) > MaxRestarts]_vars

\* Two starts with no delay in between happen at most once, and only as the
\* fallback probe after the very first attempt.
OnlyTheProbeIsHot ==
  /\ hotStarts <= 2
  /\ hotStarts = 2 => attempts = 2 /\ source = "fallback"

\* No FFmpeg is alive while its camera waits for a restart or is no longer
\* supervised: two of them would write the same segment directory.
NoFfmpegLeftBehind ==
  pc \in {"top", "starting", "backingOff", "returned"} => ffmpeg # "running"

\* A request to stop ends the supervision, wherever the loop is.
StopReturns == stopFlag ~> pc = "returned"

\* A run that ended, by exit or by kill, is started again or given up.
EndedRunIsRetried ==
  pc \in {"watch", "polling"} /\ ffmpeg # "running"
    ~> pc \in {"starting", "returned"}
=============================================================================
