----------------------------- MODULE CameraProofs -----------------------------
(***************************************************************************)
(* Theorems about the cameras of a node, for every value of the constants: *)
(* first the supervisor of one camera in an arbitrary environment          *)
(* (Supervisor), then its pipeline, which implements it (CameraPipeline),  *)
(* then how the node finds its cameras, starts a pipeline for each and     *)
(* reports on them (CameraRoster, EncoderChoice).                          *)
(*                                                                         *)
(* The restart budget is not inductive: crash_history forgets crashes, by  *)
(* pruning and by the reset after a healthy run, and the budget counts all *)
(* of them.  What makes it true is time: SinceLastCrash bounds from below  *)
(* the age of every crash by how long the loop has slept and how long      *)
(* FFmpeg has run since, so that a run of HealthyReset seconds, plus the   *)
(* shortest backoff before it, puts every earlier crash outside the window.*)
(*                                                                         *)
(* The pipeline implements Supervisor, so all of that holds of the         *)
(* supervisor beside the uploader's own code; and the kill request the two *)
(* share is sound.                                                         *)
(*                                                                         *)
(* Of the roster: an encoder that nobody named passed the test once,       *)
(* whatever was stored before (EncoderInv); the buses tell cameras apart,  *)
(* so the scan finds each once (CamerasInv); with distinct names each id   *)
(* is in its camera's row only, so that the supervisor, which writes by    *)
(* id, and the uploader, which writes by name, write to one row            *)
(* (HeartbeatInv).                                                         *)
(***************************************************************************)
EXTENDS CameraPipeline, CameraRoster, FiniteSetTheorems, WellFoundedInduction, TLAPS

\* Every crash is at least n seconds old, as far as ages are told apart.
AllOlder(n) == \A a \in crashes : a >= AtMost(RestartWindow + 1, n)

SinceLastCrash ==
  /\ pc = "backingOff" => AllOlder(BaseBackoff - timer)
  /\ pc \in {"top", "starting", "started", "clearing"} => AllOlder(BaseBackoff)
  /\ pc \in {"watch", "polling"} => AllOlder(aliveFor + BaseBackoff)

\* crash_history has no crash that did not happen, and until the supervisor
\* returns it has every crash of the window.
HistoryIsExact ==
  /\ crashHistory \subseteq crashes
  /\ pc # "returned" => Recent(crashes) \subseteq crashHistory

HistoryInBudget ==
  pc # "returned" => Cardinality(Recent(crashHistory)) <= MaxRestarts

BudgetInv == TypeOK /\ SinceLastCrash /\ HistoryIsExact /\ HistoryInBudget

\* No child is left behind by a failed start.
ChildInv ==
  /\ NoFfmpegLeftBehind
  /\ pc \in {"started", "clearing"} /\ ~startOk => ffmpeg = "none"

\* Until a start succeeded, a crash was recorded or the fallback was probed,
\* the attempt in progress is the first one.
FirstAttempt ==
  ~fallbackConsumed /\ crashHistory = {} =>
    /\ pc # "backingOff"
    /\ pc \in {"top", "starting"} => attempts = 0 /\ hotStarts = 0
    /\ pc \in {"started", "clearing"} => attempts = 1 /\ hotStarts = 1

\* Before a start there is no attempt since the last sleep, or the one that
\* the fallback probe follows; a start that is under way adds one.
HotStartsInv ==
  /\ pc \in {"top", "starting"} =>
       hotStarts = 0 \/ (hotStarts = 1 /\ attempts = 1 /\ source = "fallback"
                         /\ fallbackConsumed)
  /\ pc \in {"started", "clearing"} => hotStarts > 0
  /\ OnlyTheProbeIsHot
  /\ source = "fallback" => fallbackConsumed

ProbeInv == TypeOK /\ FirstAttempt /\ HotStartsInv
-----------------------------------------------------------------------------
(* Lemmas about windows of ages.                                           *)

\* A window is finite, and a smaller history has a smaller window.
LEMMA WindowIsFinite ==
  ASSUME NEW S \in SUBSET Ages
  PROVE  /\ Recent(S) \in SUBSET Ages
         /\ IsFiniteSet(Recent(S))
         /\ Cardinality(Recent(S)) \in Nat
  <1>1. IsFiniteSet(Ages)
    BY ConstantsAssumption, FS_Interval DEF Ages
  <1>2. Recent(S) \in SUBSET Ages
    BY DEF Recent
  <1> QED
    BY <1>1, <1>2, FS_Subset, FS_CardinalityType

\* A subset of a history has no larger a window.
LEMMA WindowIsMonotone ==
  ASSUME NEW T \in SUBSET Ages, NEW S \in SUBSET T
  PROVE  Cardinality(Recent(S)) <= Cardinality(Recent(T))
  <1>1. Recent(S) \in SUBSET Recent(T)
    BY DEF Recent
  <1> QED
    BY <1>1, WindowIsFinite, FS_Subset

\* One second later there are no more crashes in the window than before:
\* each of them was in the window a second ago.
LEMMA WindowShrinks ==
  ASSUME NEW S \in SUBSET Ages
  PROVE  /\ Later(S) \in SUBSET Ages
         /\ Cardinality(Recent(Later(S))) <= Cardinality(Recent(S))
  <1> DEFINE before == [a \in Recent(Later(S)) |-> a - 1]
  <1>1. Later(S) \in SUBSET Ages
    BY ConstantsAssumption DEF Later, Ages, AtMost
  <1>2. \A a \in Recent(Later(S)) : a \in Int /\ a - 1 \in Recent(S)
    BY ConstantsAssumption DEF Recent, Later, Ages, AtMost
  <1>3. before \in Injection(Recent(Later(S)), Recent(S))
    <2>1. before \in [Recent(Later(S)) -> Recent(S)]
      BY <1>2
    <2>2. \A a, b \in Recent(Later(S)) : before[a] = before[b] => a = b
      BY <1>2
    <2> QED
      BY <2>1, <2>2 DEF Injection, IsInjective
  <1>4. IsFiniteSet(Recent(S))
    BY WindowIsFinite
  <1> HIDE DEF before
  <1>5. Cardinality(Recent(Later(S))) <= Cardinality(Recent(S))
    BY <1>3, <1>4, FS_Injection
  <1> QED
    BY <1>1, <1>5

\* What CrashWindow returns is the part within the window.
LEMMA CrashWindowType ==
  ASSUME NEW history \in SUBSET Ages
  PROVE  /\ CrashWindow(history) \in SUBSET Ages
         /\ Recent(CrashWindow(history)) = CrashWindow(history)
         /\ 0 \in CrashWindow(history)
  <1>1. 0 \in Ages /\ 0 <= RestartWindow
    BY ConstantsAssumption DEF Ages
  <1>2. CrashWindow(history) \in SUBSET Ages
    BY <1>1 DEF CrashWindow, Recent
  <1>3. Recent(CrashWindow(history)) = CrashWindow(history)
    BY DEF CrashWindow, Recent
  <1>4. 0 \in CrashWindow(history)
    BY <1>1 DEF CrashWindow, Recent
  <1> QED
    BY <1>2, <1>3, <1>4
-----------------------------------------------------------------------------
(* Type correctness.                                                       *)

\* The typed values Crash leaves behind.
LEMMA CrashType ==
  ASSUME TypeOK, NEW history \in SUBSET Ages, NEW restarting \in Statuses,
         backoff' \in BaseBackoff .. MaxBackoff,
         Crash(history, restarting)
  PROVE  /\ pc' \in {"returned", "backingOff"}
         /\ crashHistory' \in SUBSET Ages
         /\ crashes' \in SUBSET Ages
         /\ timer' \in Nat /\ timer' <= PollInterval + MaxBackoff
         /\ status' \in Statuses
  <1>1. crashHistory' \in SUBSET Ages
    BY CrashWindowType DEF Crash
  <1>2. crashes' \in SUBSET Ages
    BY ConstantsAssumption DEF Crash, TypeOK, Ages
  <1>3. timer' \in Nat /\ timer' <= PollInterval + MaxBackoff
    BY ConstantsAssumption DEF Crash, TypeOK
  <1>4. /\ pc' \in {"returned", "backingOff"}
        /\ status' \in Statuses
    BY DEF Crash, TypeOK, Statuses
  <1> QED
    BY <1>1, <1>2, <1>3, <1>4

\* The types hold initially.
LEMMA TypeInit == Init => TypeOK
  <1> SUFFICES ASSUME Init PROVE TypeOK
    OBVIOUS
  <1> USE ConstantsAssumption
  <1>1. /\ backoff \in BaseBackoff .. MaxBackoff
        /\ timer \in Nat /\ timer <= PollInterval + MaxBackoff
        /\ aliveFor \in 0 .. HealthyReset
        /\ restartEpoch \in 0 .. EpochModulus - 1
        /\ attempts \in 0 .. 3 /\ hotStarts \in 0 .. 3
    BY DEF Init
  <1>2. pc \in Labels /\ status \in Statuses
    BY DEF Init, Labels, Statuses
  <1>3. crashHistory \in SUBSET Ages /\ crashes \in SUBSET Ages
    BY DEF Init
  <1> QED
    BY <1>1, <1>2, <1>3 DEF Init, TypeOK

\* The types are preserved by every step.
LEMMA TypeStep ==
  ASSUME TypeOK, [Next]_vars
  PROVE  TypeOK'
  <1> USE ConstantsAssumption
  <1>1. CASE ReturnIfStopped
    BY <1>1 DEF ReturnIfStopped, TypeOK, Labels, sharedVars, historyVars
  <1>2. CASE NewGenerator
    BY <1>2 DEF NewGenerator, TypeOK, Labels, Statuses, historyVars
  <1>3. CASE StartFfmpeg
    BY <1>3 DEF StartFfmpeg, TypeOK, Labels, sharedVars, AtMost
  <1>4. CASE ClearStallFlag
    BY <1>4 DEF ClearStallFlag, TypeOK, Labels, historyVars
  <1>5. CASE FfmpegUp
    <2>1. restartEpoch' \in 0 .. EpochModulus - 1
      BY <1>5 DEF FfmpegUp, TypeOK
    <2> QED
      BY <1>5, <2>1 DEF FfmpegUp, TypeOK, Labels, Statuses, historyVars
  <1>6. CASE UseFallback
    BY <1>6 DEF UseFallback, TypeOK, Labels, sharedVars, historyVars
  <1>7. CASE StartFailed
    <2>1. backoff' \in BaseBackoff .. MaxBackoff /\ Crash(crashHistory, status)
      BY <1>7 DEF StartFailed, TypeOK
    <2>2. crashHistory \in SUBSET Ages /\ status \in Statuses
      BY DEF TypeOK
    <2> QED
      BY <1>7, <2>1, <2>2, CrashType DEF StartFailed, TypeOK, Labels
  <1>8. CASE BackoffOver
    <2>1. backoff' \in BaseBackoff .. MaxBackoff
      BY <1>8 DEF BackoffOver, NextBackoff, AtMost, TypeOK
    <2> QED
      BY <1>8, <2>1 DEF BackoffOver, TypeOK, Labels, sharedVars
  <1>9. CASE StopFfmpeg
    BY <1>9 DEF StopFfmpeg, TypeOK, Labels, sharedVars, historyVars
  <1>10. CASE SleepPoll
    BY <1>10 DEF SleepPoll, TypeOK, Labels, sharedVars, historyVars
  <1>11. CASE KillStalled \/ ReapExited
    <2>1. PICK history \in SUBSET Ages : Crash(history, "restarting")
      BY <1>11 DEF KillStalled, ReapExited, RunEnded, TypeOK
    <2>2. backoff' \in BaseBackoff .. MaxBackoff
      BY <1>11 DEF KillStalled, ReapExited, RunEnded, TypeOK
    <2>3. "restarting" \in Statuses
      BY DEF Statuses
    <2> QED
      BY <1>11, <2>1, <2>2, <2>3, CrashType
         DEF KillStalled, ReapExited, RunEnded, TypeOK, Labels
  <1>12. CASE StillRunning
    BY <1>12 DEF StillRunning, TypeOK, Labels, sharedVars, historyVars
  <1>13. CASE FfmpegExits
    BY <1>13 DEF FfmpegExits, TypeOK, sharedVars, historyVars
  <1>14. CASE RequestStop
    BY <1>14 DEF RequestStop, TypeOK, loopVars, historyVars
  <1>15. CASE Abort
    BY <1>15 DEF Abort, TypeOK, Labels, sharedVars, historyVars
  <1>16. CASE Tick
    <2>1. crashHistory' \in SUBSET Ages /\ crashes' \in SUBSET Ages
      BY <1>16, WindowShrinks DEF Tick, TypeOK
    <2> QED
      BY <1>16, <2>1 DEF Tick, TypeOK, sharedVars, AtMost
  <1>17. CASE UploaderActs
    BY <1>17 DEF UploaderActs, TypeOK, loopVars, historyVars, Statuses
  <1>18. CASE UNCHANGED vars
    BY <1>18 DEF vars, loopVars, sharedVars, historyVars, TypeOK
  <1> QED
    BY <1>1, <1>2, <1>3, <1>4, <1>5, <1>6, <1>7, <1>8, <1>9, <1>10, <1>11,
       <1>12, <1>13, <1>14, <1>15, <1>16, <1>17, <1>18
       DEF Next, SupervisorStep, Environment

\* Every reachable state of the supervisor is well typed; in particular the
\* backoff stays between its two bounds.
THEOREM TypeCorrect == Spec => []TypeOK
  BY TypeInit, TypeStep, PTL DEF Spec
-----------------------------------------------------------------------------
(* The restart budget.                                                     *)

\* BudgetInv speaks of these variables alone.
LEMMA BudgetFrame ==
  ASSUME BudgetInv, TypeOK',
         UNCHANGED <<pc, crashHistory, timer, aliveFor, crashes>>
  PROVE  BudgetInv'
  BY DEF BudgetInv, SinceLastCrash, HistoryIsExact, HistoryInBudget, AllOlder,
         Recent

\* A crash keeps the invariant if the history it is added to has every crash
\* of the window, and no crash that did not happen.
LEMMA BudgetAfterCrash ==
  ASSUME TypeOK, TypeOK', NEW history \in SUBSET crashes, NEW restarting,
         Recent(crashes) \subseteq history,
         Crash(history, restarting)
  PROVE  /\ BudgetInv'
         /\ pc' = "returned" => Cardinality(Recent(crashes')) > MaxRestarts
  <1> USE ConstantsAssumption
  <1>1. history \in SUBSET Ages /\ crashes' \in SUBSET Ages
    BY DEF TypeOK
  <1>2. /\ crashHistory' = Recent(history \union {0})
        /\ crashes' = crashes \union {0}
        /\ pc' \in {"returned", "backingOff"}
        /\ pc' = "backingOff" => timer' = backoff'
        /\ pc' = "returned" <=> Cardinality(crashHistory') > MaxRestarts
    BY DEF Crash, CrashWindow
  <1>3. Recent(crashes') = crashHistory'
    BY <1>2 DEF Recent
  <1>4. Recent(crashHistory') = crashHistory'
    BY <1>1, <1>2, CrashWindowType DEF CrashWindow
  <1>5. Cardinality(crashHistory') \in Nat
    BY <1>1, <1>3, WindowIsFinite
  <1>6. SinceLastCrash'
    <2>1. ASSUME NEW t \in Int, t >= BaseBackoff, NEW a \in Nat
          PROVE  a >= AtMost(RestartWindow + 1, BaseBackoff - t)
      BY <2>1 DEF AtMost
    <2>2. crashes' \subseteq Nat
      BY <1>1 DEF Ages
    <2>3. ASSUME pc' = "backingOff"
          PROVE  AllOlder(BaseBackoff - timer)'
      <3>1. backoff' \in Int /\ backoff' >= BaseBackoff
        BY DEF TypeOK
      <3>2. timer' = backoff'
        BY <1>2, <2>3
      <3>3. \A a \in crashes' : a >= AtMost(RestartWindow + 1,
                                            BaseBackoff - timer')
        BY <2>1, <2>2, <3>1, <3>2
      <3> QED
        BY <3>3 DEF AllOlder
    <2> QED
      BY <1>2, <2>3 DEF SinceLastCrash
  <1>7. HistoryIsExact'
    BY <1>2, <1>3 DEF HistoryIsExact, Recent
  <1>8. HistoryInBudget'
    BY <1>2, <1>4, <1>5 DEF HistoryInBudget, Recent
  <1> QED
    BY <1>2, <1>3, <1>5, <1>6, <1>7, <1>8 DEF BudgetInv

\* After a healthy run the window is empty: nothing is forgotten that counts.
LEMMA HealthyRunOutlivesWindow ==
  ASSUME BudgetInv, pc \in {"watch", "polling"}, RanHealthy
  PROVE  Recent(crashes) = {}
  <1>1. aliveFor = HealthyReset
    BY ConstantsAssumption DEF BudgetInv, TypeOK, RanHealthy
  <1>2. \A a \in crashes : a \in Int /\ a >= AtMost(RestartWindow + 1,
                                                   HealthyReset + BaseBackoff)
    BY <1>1 DEF BudgetInv, SinceLastCrash, AllOlder, TypeOK, Ages
  <1>3. \A a \in crashes : a > RestartWindow
    BY <1>2, ConstantsAssumption, ThresholdsAssumption DEF AtMost
  <1> QED
    BY <1>3, <1>2, ConstantsAssumption DEF Recent

\* The strengthened restart budget holds initially.
LEMMA BudgetInit == Init => BudgetInv
  <1> SUFFICES ASSUME Init PROVE BudgetInv
    OBVIOUS
  <1>1. crashes = {} /\ crashHistory = {} /\ Recent({}) = {}
    BY DEF Init, Recent
  <1>2. HistoryInBudget
    BY <1>1, FS_EmptySet, ConstantsAssumption DEF HistoryInBudget
  <1> QED
    BY <1>1, <1>2, TypeInit
       DEF BudgetInv, SinceLastCrash, AllOlder, HistoryIsExact

\* The strengthened restart budget is preserved by every step.
LEMMA BudgetStep ==
  ASSUME BudgetInv, [Next]_vars
  PROVE  BudgetInv'
  <1> USE ConstantsAssumption
  <1>t. TypeOK /\ TypeOK'
    BY TypeStep DEF BudgetInv
  <1>1. CASE ReturnIfStopped \/ StopFfmpeg \/ Abort
    <2>1. /\ pc' = "returned"
          /\ UNCHANGED <<crashHistory, crashes>>
      BY <1>1 DEF ReturnIfStopped, StopFfmpeg, Abort, historyVars
    <2> QED
      BY <2>1, <1>t
         DEF BudgetInv, SinceLastCrash, HistoryIsExact, HistoryInBudget
  <1>2. CASE NewGenerator \/ StartFfmpeg \/ ClearStallFlag \/ UseFallback
    <2>1. /\ pc \in {"top", "starting", "started", "clearing"}
          /\ pc' \in {"top", "starting", "started", "clearing", "returned"}
          /\ UNCHANGED <<crashHistory, crashes>>
      BY <1>2 DEF NewGenerator, StartFfmpeg, ClearStallFlag, UseFallback,
                  historyVars
    <2> QED
      BY <2>1, <1>t DEF BudgetInv, SinceLastCrash, AllOlder, HistoryIsExact,
                        HistoryInBudget, Recent
  <1>3. CASE FfmpegUp
    <2>1. /\ pc = "clearing" /\ pc' = "watch" /\ aliveFor' = 0
          /\ UNCHANGED <<crashHistory, crashes>>
      BY <1>3 DEF FfmpegUp, historyVars
    <2> QED
      BY <2>1, <1>t DEF BudgetInv, SinceLastCrash, AllOlder, HistoryIsExact,
                        HistoryInBudget, Recent
  <1>4. CASE StartFailed
    <2>1. Crash(crashHistory, status) /\ pc # "returned"
      BY <1>4 DEF StartFailed
    <2>2. crashHistory \in SUBSET crashes /\ Recent(crashes) \subseteq crashHistory
      BY <2>1 DEF BudgetInv, HistoryIsExact
    <2> QED
      BY <2>1, <2>2, <1>t, BudgetAfterCrash
  <1>5. CASE KillStalled \/ ReapExited
    <2> DEFINE history == IF RanHealthy THEN {} ELSE crashHistory
    <2>1. Crash(history, "restarting") /\ pc = "polling"
      BY <1>5 DEF KillStalled, ReapExited, RunEnded
    <2>2. history \in SUBSET crashes /\ Recent(crashes) \subseteq history
      BY <2>1, HealthyRunOutlivesWindow DEF BudgetInv, HistoryIsExact
    <2> QED
      BY <2>1, <2>2, <1>t, BudgetAfterCrash
  <1>6. CASE BackoffOver
    <2>1. /\ pc = "backingOff" /\ timer = 0 /\ pc' = "top"
          /\ UNCHANGED <<crashHistory, crashes>>
      BY <1>6 DEF BackoffOver
    <2>2. AllOlder(BaseBackoff)
      BY <2>1 DEF BudgetInv, SinceLastCrash, AllOlder
    <2> QED
      BY <2>1, <2>2, <1>t DEF BudgetInv, SinceLastCrash, AllOlder,
                              HistoryIsExact, HistoryInBudget, Recent
  <1>7. CASE SleepPoll \/ StillRunning
    <2>1. /\ pc \in {"watch", "polling"} /\ pc' \in {"watch", "polling"}
          /\ UNCHANGED <<crashHistory, crashes, aliveFor>>
      BY <1>7 DEF SleepPoll, StillRunning, historyVars
    <2> QED
      BY <2>1, <1>t DEF BudgetInv, SinceLastCrash, AllOlder, HistoryIsExact,
                        HistoryInBudget, Recent
  <1>8. CASE Tick
    <2>1. /\ pc' = pc
          /\ timer' = IF timer > 0 THEN timer - 1 ELSE 0
          /\ aliveFor' = AtMost(HealthyReset, aliveFor + 1)
          /\ crashHistory' = Later(crashHistory)
          /\ crashes' = Later(crashes)
      BY <1>8 DEF Tick
    <2>2. crashes \in SUBSET Ages /\ crashHistory \in SUBSET Ages
      BY <1>t DEF TypeOK
    <2>3. SinceLastCrash'
      <3>1. ASSUME NEW n \in Int, NEW m \in Int, m <= n + 1, AllOlder(n)
            PROVE  \A a \in crashes' : a >= AtMost(RestartWindow + 1, m)
        BY <2>1, <2>2, <3>1 DEF AllOlder, AtMost, Later, Ages
      <3>2. CASE pc = "backingOff"
        <4>1. AllOlder(BaseBackoff - timer)
          BY <3>2 DEF BudgetInv, SinceLastCrash
        <4>2. BaseBackoff - timer' <= (BaseBackoff - timer) + 1
          BY <2>1, <1>t DEF TypeOK
        <4>3. BaseBackoff - timer \in Int /\ BaseBackoff - timer' \in Int
          BY <1>t DEF TypeOK
        <4>4. \A a \in crashes' : a >= AtMost(RestartWindow + 1,
                                              BaseBackoff - timer')
          BY <3>1, <4>1, <4>2, <4>3
        <4> QED
          BY <4>4, <2>1, <3>2 DEF SinceLastCrash, AllOlder
      <3>3. CASE pc \in {"top", "starting", "started", "clearing"}
        <4>1. AllOlder(BaseBackoff)
          BY <3>3 DEF BudgetInv, SinceLastCrash
        <4>2. \A a \in crashes' : a >= AtMost(RestartWindow + 1, BaseBackoff)
          BY <3>1, <4>1
        <4> QED
          BY <4>2, <2>1, <3>3 DEF SinceLastCrash, AllOlder
      <3>4. CASE pc \in {"watch", "polling"}
        <4>1. AllOlder(aliveFor + BaseBackoff)
          BY <3>4 DEF BudgetInv, SinceLastCrash
        <4>2. aliveFor' + BaseBackoff <= (aliveFor + BaseBackoff) + 1
          BY <2>1, <1>t DEF TypeOK, AtMost
        <4>3. /\ aliveFor + BaseBackoff \in Int
              /\ aliveFor' + BaseBackoff \in Int
          BY <1>t DEF TypeOK
        <4>4. \A a \in crashes' : a >= AtMost(RestartWindow + 1,
                                              aliveFor' + BaseBackoff)
          BY <3>1, <4>1, <4>2, <4>3
        <4> QED
          BY <4>4, <2>1, <3>4 DEF SinceLastCrash, AllOlder
      <3>5. CASE pc = "returned"
        BY <2>1, <3>5 DEF SinceLastCrash
      <3> QED
        BY <3>2, <3>3, <3>4, <3>5, <1>t DEF TypeOK, Labels
    <2>4. HistoryIsExact'
      BY <2>1, <2>2 DEF BudgetInv, HistoryIsExact, Later, Recent, AtMost, Ages
    <2>5. HistoryInBudget'
      <3>1. Cardinality(Recent(crashHistory')) <= Cardinality(Recent(crashHistory))
        BY <2>1, <2>2, WindowShrinks
      <3>2. /\ Cardinality(Recent(crashHistory)) \in Nat
            /\ Cardinality(Recent(crashHistory')) \in Nat
        BY <2>2, <1>t, WindowIsFinite DEF TypeOK
      <3> QED
        BY <2>1, <3>1, <3>2 DEF BudgetInv, HistoryInBudget
    <2> QED
      BY <2>3, <2>4, <2>5, <1>t DEF BudgetInv
  <1>9. CASE FfmpegExits \/ RequestStop \/ UploaderActs \/ UNCHANGED vars
    <2>1. UNCHANGED <<pc, crashHistory, timer, aliveFor, crashes>>
      BY <1>9 DEF FfmpegExits, RequestStop, UploaderActs, vars, loopVars,
                  historyVars
    <2> QED
      BY <2>1, <1>t, BudgetFrame
  <1> QED
    BY <1>1, <1>2, <1>3, <1>4, <1>5, <1>6, <1>7, <1>8, <1>9
       DEF Next, SupervisorStep, Environment

\* The strengthened restart budget holds of every behaviour.
LEMMA BudgetInvariant == Spec => []BudgetInv
  BY BudgetInit, BudgetStep, PTL DEF Spec

\* Whatever crash_history forgot, a camera that is still supervised crashed
\* at most MAX_RESTARTS_IN_WINDOW times in the last window, provided that
\* HealthyReset + BaseBackoff > RestartWindow.
THEOREM RestartBudgetHolds == Spec => []RestartBudget
  <1>1. BudgetInv => RestartBudget
    <2> SUFFICES ASSUME BudgetInv, pc # "returned"
                 PROVE  Cardinality(Recent(crashes)) <= MaxRestarts
      BY DEF RestartBudget
    <2>1. /\ crashHistory \in SUBSET Ages /\ crashes \in SUBSET Ages
          /\ Recent(crashes) \in SUBSET Recent(crashHistory)
      BY DEF BudgetInv, HistoryIsExact, TypeOK, Recent
    <2>2. Cardinality(Recent(crashes)) <= Cardinality(Recent(crashHistory))
      BY <2>1, WindowIsFinite, FS_Subset
    <2>3. /\ Cardinality(Recent(crashes)) \in Nat
          /\ Cardinality(Recent(crashHistory)) \in Nat
      BY <2>1, WindowIsFinite
    <2> QED
      BY <2>2, <2>3, ConstantsAssumption DEF BudgetInv, HistoryInBudget
  <1> QED
    BY <1>1, BudgetInvariant, PTL

\* A crash ends the supervision only if the crashes of the last window, the
\* forgotten ones included, exceed the budget.
THEOREM GivesUpOnlyOnBurstHolds == Spec => GivesUpOnlyOnBurst
  <1>1. ASSUME BudgetInv, [Next]_vars,
               pc' = "returned", pc \in {"clearing", "polling"}, ~stopFlag
        PROVE  Cardinality(Recent(crashes')) > MaxRestarts
    <2> DEFINE healthy == pc = "polling" /\ RanHealthy
               history == IF healthy THEN {} ELSE crashHistory
    <2>1. TypeOK /\ TypeOK'
      BY <1>1, TypeStep DEF BudgetInv
    <2>2. StartFailed \/ KillStalled \/ ReapExited
      BY <1>1 DEF Next, SupervisorStep, Environment, ReturnIfStopped,
         NewGenerator, StartFfmpeg, ClearStallFlag, FfmpegUp, UseFallback,
         BackoffOver, StopFfmpeg, SleepPoll, StillRunning, FfmpegExits,
         RequestStop, Abort, Tick, UploaderActs, vars, loopVars
    <2>3. \E restarting : Crash(history, restarting)
      BY <2>2 DEF StartFailed, KillStalled, ReapExited, RunEnded
    <2>4. history \in SUBSET crashes /\ Recent(crashes) \subseteq history
      BY <1>1, HealthyRunOutlivesWindow DEF BudgetInv, HistoryIsExact
    <2> HIDE DEF history
    <2> QED
      BY <1>1, <2>1, <2>3, <2>4, BudgetAfterCrash
  <1>2. BudgetInv /\ [Next]_vars =>
          [pc' = "returned" /\ pc \in {"clearing", "polling"} /\ ~stopFlag
             => Cardinality(Recent(crashes')) > MaxRestarts]_vars
    BY <1>1
  <1> QED
    BY <1>2, BudgetInvariant, PTL DEF Spec, GivesUpOnlyOnBurst
-----------------------------------------------------------------------------
(* No second FFmpeg.                                                       *)

\* No step leaves a child behind.
LEMMA ChildStep ==
  ASSUME TypeOK, ChildInv, [Next]_vars
  PROVE  ChildInv'
  <1>1. CASE ReturnIfStopped \/ NewGenerator
    BY <1>1 DEF ReturnIfStopped, NewGenerator, ChildInv, NoFfmpegLeftBehind
  <1>2. CASE StartFfmpeg
    BY <1>2 DEF StartFfmpeg, ChildInv, NoFfmpegLeftBehind
  <1>3. CASE ClearStallFlag
    BY <1>3 DEF ClearStallFlag, ChildInv, NoFfmpegLeftBehind
  <1>4. CASE FfmpegUp
    BY <1>4 DEF FfmpegUp, ChildInv, NoFfmpegLeftBehind
  <1>5. CASE UseFallback
    BY <1>5 DEF UseFallback, ChildInv, NoFfmpegLeftBehind
  <1>6. CASE StartFailed
    BY <1>6 DEF StartFailed, Crash, ChildInv, NoFfmpegLeftBehind
  <1>7. CASE BackoffOver
    BY <1>7 DEF BackoffOver, ChildInv, NoFfmpegLeftBehind
  <1>8. CASE StopFfmpeg \/ Abort
    BY <1>8 DEF StopFfmpeg, Abort, ChildInv, NoFfmpegLeftBehind
  <1>9. CASE SleepPoll \/ StillRunning
    BY <1>9 DEF SleepPoll, StillRunning, ChildInv, NoFfmpegLeftBehind
  <1>10. CASE KillStalled \/ ReapExited
    BY <1>10 DEF KillStalled, ReapExited, RunEnded, Crash, ChildInv,
                 NoFfmpegLeftBehind
  <1>11. CASE FfmpegExits
    BY <1>11 DEF FfmpegExits, ChildInv, NoFfmpegLeftBehind
  <1>12. CASE RequestStop \/ Tick \/ UploaderActs \/ UNCHANGED vars
    BY <1>12 DEF RequestStop, Tick, UploaderActs, vars, loopVars, ChildInv,
                 NoFfmpegLeftBehind
  <1> QED
    BY <1>1, <1>2, <1>3, <1>4, <1>5, <1>6, <1>7, <1>8, <1>9, <1>10, <1>11,
       <1>12 DEF Next, SupervisorStep, Environment

\* No FFmpeg is alive while its camera waits for a restart or is no longer
\* supervised: at most one at a time writes the segment directory.
THEOREM NoFfmpegLeftBehindHolds == Spec => []NoFfmpegLeftBehind
  <1>1. Init => ChildInv
    BY DEF Init, ChildInv, NoFfmpegLeftBehind
  <1>2. ChildInv => NoFfmpegLeftBehind
    BY DEF ChildInv
  <1> QED
    BY <1>1, <1>2, TypeCorrect, ChildStep, PTL DEF Spec
-----------------------------------------------------------------------------
(* No hot loop.                                                            *)

\* A crash leaves its own instant in the window, so the fallback probe, which
\* needs an empty crash_history, is not open again.
LEMMA CrashFillsHistory ==
  ASSUME TypeOK, NEW history \in SUBSET Ages, NEW restarting,
         Crash(history, restarting)
  PROVE  crashHistory' # {} /\ pc' \in {"returned", "backingOff"}
  BY CrashWindowType DEF Crash

\* No step starts FFmpeg twice without a delay, but the fallback probe.
LEMMA ProbeStep ==
  ASSUME ProbeInv, [Next]_vars
  PROVE  ProbeInv'
  <1>t. TypeOK /\ TypeOK'
    BY TypeStep DEF ProbeInv
  <1>1. CASE ReturnIfStopped \/ NewGenerator \/ ClearStallFlag
    BY <1>1, <1>t DEF ReturnIfStopped, NewGenerator, ClearStallFlag, historyVars,
       ProbeInv, FirstAttempt, HotStartsInv, OnlyTheProbeIsHot
  <1>2. CASE StartFfmpeg
    <2>1. /\ pc = "starting" /\ pc' = "started"
          /\ hotStarts = 0 \/ (hotStarts = 1 /\ attempts = 1)
          /\ UNCHANGED <<source, fallbackConsumed, crashHistory>>
      BY <1>2 DEF StartFfmpeg, ProbeInv, HotStartsInv
    <2>2. hotStarts' = hotStarts + 1
      BY <1>2, <2>1 DEF StartFfmpeg, AtMost
    <2>3. attempts \in {0, 1, 2} => attempts' = attempts + 1
      BY <1>2 DEF StartFfmpeg, AtMost
    <2> QED
      BY <2>1, <2>2, <2>3, <1>t
         DEF ProbeInv, FirstAttempt, HotStartsInv, OnlyTheProbeIsHot
  <1>3. CASE FfmpegUp
    BY <1>3, <1>t DEF FfmpegUp, historyVars, ProbeInv, FirstAttempt,
       HotStartsInv, OnlyTheProbeIsHot
  <1>4. CASE UseFallback
    BY <1>4, <1>t DEF UseFallback, MayProbeFallback, historyVars, ProbeInv,
       FirstAttempt, HotStartsInv, OnlyTheProbeIsHot
  <1>5. CASE StartFailed \/ KillStalled \/ ReapExited
    <2>1. PICK history, restarting :
            history \in SUBSET Ages /\ Crash(history, restarting)
      BY <1>5, <1>t DEF StartFailed, KillStalled, ReapExited, RunEnded, TypeOK
    <2>2. crashHistory' # {} /\ pc' \in {"returned", "backingOff"}
      BY <2>1, <1>t, CrashFillsHistory
    <2>3. UNCHANGED <<source, fallbackConsumed, attempts, hotStarts>>
      BY <1>5 DEF StartFailed, KillStalled, ReapExited, RunEnded
    <2> QED
      BY <2>2, <2>3, <1>t DEF ProbeInv, FirstAttempt, HotStartsInv,
                              OnlyTheProbeIsHot
  <1>6. CASE BackoffOver
    <2>1. fallbackConsumed \/ crashHistory # {}
      BY <1>6 DEF BackoffOver, ProbeInv, FirstAttempt
    <2> QED
      BY <1>6, <2>1, <1>t DEF BackoffOver, ProbeInv, FirstAttempt, HotStartsInv,
                              OnlyTheProbeIsHot
  <1>7. CASE StopFfmpeg \/ SleepPoll \/ StillRunning \/ Abort
    BY <1>7, <1>t DEF StopFfmpeg, SleepPoll, StillRunning, Abort, historyVars,
       ProbeInv, FirstAttempt, HotStartsInv, OnlyTheProbeIsHot
  <1>8. CASE Tick
    <2>1. crashHistory' = {} => crashHistory = {}
      BY <1>8 DEF Tick, Later
    <2> QED
      BY <1>8, <2>1, <1>t DEF Tick, ProbeInv, FirstAttempt, HotStartsInv,
                              OnlyTheProbeIsHot
  <1>9. CASE FfmpegExits \/ RequestStop \/ UploaderActs \/ UNCHANGED vars
    BY <1>9, <1>t DEF FfmpegExits, RequestStop, UploaderActs, vars, loopVars,
       historyVars, ProbeInv, FirstAttempt, HotStartsInv, OnlyTheProbeIsHot
  <1> QED
    BY <1>1, <1>2, <1>3, <1>4, <1>5, <1>6, <1>7, <1>8, <1>9
       DEF Next, SupervisorStep, Environment

\* Two starts with no sleep in between happen at most once in the life of a
\* camera, and only as the fallback probe after the very first attempt.
THEOREM OnlyTheProbeIsHotHolds == Spec => []OnlyTheProbeIsHot
  <1>1. Init => ProbeInv
    BY TypeInit DEF Init, ProbeInv, FirstAttempt, HotStartsInv,
                    OnlyTheProbeIsHot
  <1>2. ProbeInv => OnlyTheProbeIsHot
    BY DEF ProbeInv, HotStartsInv
  <1> QED
    BY <1>1, <1>2, ProbeStep, PTL DEF Spec

-----------------------------------------------------------------------------
(* The pipeline: the supervisor with the uploader's own code.              *)

\* The uploader's steps are steps of the supervisor's environment, or do not
\* concern the supervisor at all.
LEMMA PipelineStepSimulation ==
  ASSUME TypeOK, [PipelineNext]_pipelineVars
  PROVE  [Next]_vars
  <1>1. CASE Supervise
    BY <1>1 DEF Supervise, Next
  <1>2. CASE \/ Produce \/ Wedge \/ Unwedge \/ Scan \/ AbortUploader
             \/ UNCHANGED pipelineVars
    BY <1>2 DEF Produce, Wedge, Unwedge, Scan, AbortUploader, pipelineVars
  <1>3. CASE ReportStatus
    <2>1. stallFlag' \in BOOLEAN
      BY <1>3 DEF ReportStatus, TypeOK
    <2>2. status' \in {status, "streaming", "error"}
      BY <1>3 DEF ReportStatus
    <2> QED
      BY <1>3, <2>1, <2>2 DEF ReportStatus, UploaderActs, Next
  <1>4. CASE RaiseOrLowerFlag
    <2>1. stallFlag' \in BOOLEAN
      BY <1>4 DEF RaiseOrLowerFlag, TypeOK
    <2> QED
      BY <1>4, <2>1 DEF RaiseOrLowerFlag, UploaderActs, Next
  <1>5. CASE FinishUpload
    <2>1. stallFlag' \in BOOLEAN
      BY <1>5 DEF FinishUpload, TypeOK
    <2> QED
      BY <1>5, <2>1 DEF FinishUpload, UploaderActs, Next
  <1> QED
    BY <1>1, <1>2, <1>3, <1>4, <1>5 DEF PipelineNext, Poll

\* The pipeline implements the supervisor in its environment.
THEOREM ImplementsSupervisorHolds == PipelineSpec => ImplementsSupervisor
  <1>1. PipelineInit => Init /\ TypeOK
    BY TypeInit DEF PipelineInit
  <1>2. TypeOK /\ [PipelineNext]_pipelineVars => TypeOK' /\ [Next]_vars
    BY PipelineStepSimulation, TypeStep
  <1> QED
    BY <1>1, <1>2, PTL DEF PipelineSpec, ImplementsSupervisor, Spec

\* The restart budget holds of a camera whose uploader kills its FFmpeg, too.
COROLLARY PipelineRestartBudget == PipelineSpec => []RestartBudget
  BY ImplementsSupervisorHolds, RestartBudgetHolds, PTL DEF ImplementsSupervisor

\* At most one FFmpeg per camera, whatever the uploader asks for.
COROLLARY PipelineNoFfmpegLeftBehind == PipelineSpec => []NoFfmpegLeftBehind
  BY ImplementsSupervisorHolds, NoFfmpegLeftBehindHolds, PTL
     DEF ImplementsSupervisor
-----------------------------------------------------------------------------
(* The kill request.                                                       *)

\* The types of the pipeline are preserved by its steps.
LEMMA PipelineTypeStep ==
  ASSUME PipelineTypeOK, [PipelineNext]_pipelineVars
  PROVE  PipelineTypeOK'
  <1> USE UploaderAssumption
  <1>t. TypeOK /\ TypeOK'
    BY PipelineStepSimulation, TypeStep DEF PipelineTypeOK
  <1>1. CASE Supervise
    <2>1. fresh' = fresh \/ fresh' = FALSE
      BY <1>1 DEF Supervise, CleanupOnStart
    <2>2. wedged' \in BOOLEAN
      BY <1>1 DEF Supervise, CleanupOnStart
    <2>3. fresh' \in BOOLEAN
      BY <2>1 DEF PipelineTypeOK
    <2>4. UNCHANGED uploaderVars
      BY <1>1 DEF Supervise
    <2> QED
      BY <1>t, <2>2, <2>3, <2>4 DEF PipelineTypeOK, uploaderVars
  <1>2. CASE Produce \/ Wedge \/ Unwedge
    BY <1>2, <1>t DEF Produce, Wedge, Unwedge, PipelineTypeOK, uploaderVars
  <1>3. CASE Scan
    <2>1. staleCycles' \in 0 .. KillCycles + 1
      BY <1>3 DEF Scan, PipelineTypeOK, AtMost
    <2>2. found' \in BOOLEAN /\ fresh' \in BOOLEAN
      BY <1>3 DEF Scan, PipelineTypeOK
    <2> QED
      BY <1>3, <1>t, <2>1, <2>2 DEF Scan, PipelineTypeOK
  <1>4. CASE ReportStatus \/ AbortUploader
    BY <1>4, <1>t DEF ReportStatus, AbortUploader, PipelineTypeOK
  <1>5. CASE RaiseOrLowerFlag
    BY <1>5, <1>t DEF RaiseOrLowerFlag, PipelineTypeOK, AtMost
  <1>6. CASE FinishUpload
    BY <1>6, <1>t DEF FinishUpload, PipelineTypeOK
  <1>7. CASE UNCHANGED pipelineVars
    BY <1>7, <1>t DEF pipelineVars, PipelineTypeOK, uploaderVars
  <1> QED
    BY <1>1, <1>2, <1>3, <1>4, <1>5, <1>6, <1>7 DEF PipelineNext, Poll

\* Every reachable state of the pipeline is well typed.
THEOREM PipelineTypeCorrect == PipelineSpec => []PipelineTypeOK
  <1>1. PipelineInit => PipelineTypeOK
    <2>1. PipelineInit => TypeOK
      BY TypeInit DEF PipelineInit
    <2>2. 0 \in 0 .. KillCycles + 1 /\ 0 \in 0 .. MaxUploads
      BY UploaderAssumption
    <2> QED
      BY <2>1, <2>2 DEF PipelineInit, PipelineTypeOK
  <1> QED
    BY <1>1, PipelineTypeStep, PTL DEF PipelineSpec

\* The supervisor only ever lowers the flag.
LEMMA SupervisorLowersFlag ==
  ASSUME SupervisorStep \/ Environment
  PROVE  stallFlag' = stallFlag \/ stallFlag' = FALSE
  <1>1. CASE \/ KillStalled \/ ClearStallFlag
    BY <1>1 DEF KillStalled, ClearStallFlag
  <1>2. CASE \/ ReturnIfStopped \/ NewGenerator \/ StartFfmpeg \/ FfmpegUp
             \/ UseFallback \/ StartFailed \/ BackoffOver
    BY <1>2 DEF ReturnIfStopped, NewGenerator, StartFfmpeg, FfmpegUp,
                UseFallback, StartFailed, BackoffOver, sharedVars
  <1>3. CASE \/ StopFfmpeg \/ SleepPoll \/ ReapExited \/ StillRunning
             \/ FfmpegExits \/ RequestStop \/ Abort \/ Tick
    BY <1>3 DEF StopFfmpeg, SleepPoll, ReapExited, StillRunning, FfmpegExits,
                RequestStop, Abort, Tick, sharedVars
  <1> QED
    BY <1>1, <1>2, <1>3 DEF SupervisorStep, Environment

\* FlagMeansSilence is preserved: the count only restarts in the step that
\* lowers the flag.
LEMMA FlagStep ==
  ASSUME PipelineTypeOK, FlagMeansSilence, [PipelineNext]_pipelineVars
  PROVE  FlagMeansSilence'
  <1> USE UploaderAssumption
  <1>1. CASE Supervise
    BY <1>1, SupervisorLowersFlag DEF Supervise, FlagMeansSilence, uploaderVars
  <1>2. CASE Produce \/ Wedge \/ Unwedge
    BY <1>2 DEF Produce, Wedge, Unwedge, FlagMeansSilence, uploaderVars, vars,
                sharedVars
  <1>3. CASE Scan
    <2>1. staleCycles \in Int /\ staleCycles <= KillCycles + 1
      BY DEF PipelineTypeOK
    <2>2. staleCycles' >= staleCycles
      BY <1>3, <2>1 DEF Scan, AtMost
    <2>3. stallFlag' = stallFlag /\ staleCycles' \in Int
      BY <1>3, <2>1 DEF Scan, AtMost, vars, sharedVars
    <2> QED
      BY <2>1, <2>2, <2>3 DEF FlagMeansSilence
  <1>4. CASE ReportStatus \/ FinishUpload
    BY <1>4 DEF ReportStatus, FinishUpload, FlagMeansSilence
  <1>5. CASE RaiseOrLowerFlag
    <2>1. CASE found
      BY <1>5, <2>1 DEF RaiseOrLowerFlag, FlagMeansSilence
    <2>2. CASE ~found
      <3>1. /\ staleCycles' = staleCycles
            /\ stallFlag' => stallFlag \/ staleCycles = KillCycles
        BY <1>5, <2>2 DEF RaiseOrLowerFlag
      <3> QED
        BY <3>1 DEF FlagMeansSilence
    <2> QED
      BY <2>1, <2>2
  <1>6. CASE AbortUploader \/ UNCHANGED pipelineVars
    BY <1>6 DEF AbortUploader, pipelineVars, uploaderVars, FlagMeansSilence,
                vars, sharedVars
  <1> QED
    BY <1>1, <1>2, <1>3, <1>4, <1>5, <1>6 DEF PipelineNext, Poll

\* A kill request is outstanding only while the uploader's count says the
\* camera has been silent for KillCycles polls.
THEOREM FlagMeansSilenceHolds == PipelineSpec => []FlagMeansSilence
  <1>1. PipelineInit => FlagMeansSilence
    BY DEF PipelineInit, Init, FlagMeansSilence
  <1> QED
    BY <1>1, PipelineTypeCorrect, FlagStep, PTL DEF PipelineSpec

-----------------------------------------------------------------------------
(* The encoder.                                                            *)

\* What is stored, and so what a run starts with, passed the test once, is the
\* software encoder, was named, or is retired and will be forgotten; the software
\* encoder that a run has chosen is one of this FFmpeg, which is not exchanged
\* during the run.
EncoderInv ==
  /\ good \subseteq Probed /\ proven \subseteq Probed
  /\ listed \in Installs
  /\ named \intersect Retired = {}
  /\ override \in {Empty} \union Retired \union named
  /\ stored \in {Empty, "libx264"} \union Retired \union proven \union named
  /\ phase # "off" =>
       /\ encoder \in {Empty, "libx264"} \union Retired \union proven \union named
       /\ chosen \in {Empty} \union (Software \intersect listed)
  /\ phase = "online" => encoder \in {"libx264"} \union proven \union named

\* A finite set of numbers has a lowest one: a chain of the sets {y \in S : y < x}
\* that gets smaller comes to an end.
LEMMA Lowest ==
  ASSUME NEW S, IsFiniteSet(S), S \subseteq Nat, S # {}
  PROVE  \E m \in S : \A x \in S : m <= x
<1> DEFINE Below(x) == {y \in S : y < x}
           All == {Below(x) : x \in S}
<1>1. All \subseteq FiniteSubsetsOf(S) /\ All # {}
  <2>1. \A x \in S : IsFiniteSet(Below(x)) /\ Below(x) \in SUBSET S
    BY FS_Subset
  <2>2. \A x \in S : Below(x) \in FiniteSubsetsOf(S)
    BY <2>1 DEF FiniteSubsetsOf
  <2> QED BY <2>2
<1>2. PICK T \in All : \A U \in All : <<U, T>> \notin StrictSubsetOrdering(S)
  <2> HIDE DEF All
  <2>1. IsWellFoundedOn(StrictSubsetOrdering(S), FiniteSubsetsOf(S))
    BY FS_StrictSubsetOrderingWellFounded
  <2> QED BY <1>1, <2>1, WFMin, Zenon
<1>3. PICK m \in S : T = Below(m)
  BY <1>2
<1>4. \A x \in S : m <= x
  <2> SUFFICES ASSUME NEW x \in S, ~(m <= x) PROVE FALSE
    OBVIOUS
  <2>1. m \in Int /\ x \in Int /\ \A z \in S : z \in Int
    OBVIOUS
  <2>2. \A z \in S : z < x => z < m
    BY <2>1
  <2>3. x \in Below(m) /\ x \notin Below(x)
    BY <2>1
  <2>4. <<Below(x), T>> \in StrictSubsetOrdering(S)
    BY <1>3, <2>2, <2>3 DEF StrictSubsetOrdering
  <2> QED BY <1>2, <2>4
<1> QED BY <1>4

\* A test that an encoder passes shows that it is good (probe_output_is_playable):
\* of the streams of one that is not, some field has no value.
LEMMA ProbeFindsGood ==
  ASSUME NEW probe \in Probes
  PROVE  OrSoftware(Detected(probe)) \in {"libx264"} \union ({Detected(probe)} \intersect good)
<1> DEFINE passing == {i \in DOMAIN Candidates :
                         Candidates[i] \in listed /\ Playable(probe[Candidates[i]])}
<1>1. CASE passing = {}
  <2>1. Detected(probe) = Empty
    BY <1>1 DEF Detected
  <2> QED BY <2>1 DEF OrSoftware
<1>2. CASE passing # {}
  <2>1. passing \subseteq Nat /\ IsFiniteSet(passing)
    <3>1. Len(Candidates) \in Nat /\ DOMAIN Candidates = 1 .. Len(Candidates)
      BY EncoderAssumption
    <3>2. IsFiniteSet(1 .. Len(Candidates))
      BY <3>1, FS_Interval
    <3> QED BY <3>1, <3>2, FS_Subset
  <2>2. \E i \in passing : \A j \in passing : i <= j
    BY <1>2, <2>1, Lowest
  <2>3. PICK i \in passing : Detected(probe) = Candidates[i]
    <3> HIDE DEF passing
    <3> DEFINE first == CHOOSE i \in passing : \A j \in passing : i <= j
    <3>1. first \in passing
      BY <2>2
    <3>2. Detected(probe) = Candidates[first]
      BY <1>2 DEF Detected, passing
    <3> QED BY <3>1, <3>2
  <2>4. Candidates[i] \in Probed
    BY DEF Probed
  <2>5. Candidates[i] \in good
    <3> SUFFICES ASSUME Candidates[i] \notin good PROVE FALSE
      OBVIOUS
    <3> DEFINE trial == probe[Candidates[i]]
    <3>1. trial \in Trials /\ (trial.level <= 0 \/ trial.width <= 0)
      BY <2>4 DEF Probes
    <3>2. trial.level > 0 /\ trial.width > 0
      BY DEF Playable
    <3>3. trial.level \in Int /\ trial.width \in Int
      BY <3>1, EncoderAssumption
    <3> QED BY <3>1, <3>2, <3>3
  <2>6. Detected(probe) # Empty
    BY <2>3, <2>4, EncoderAssumption
  <2> QED BY <2>3, <2>5, <2>6 DEF OrSoftware
<1> QED BY <1>1, <1>2

LEMMA EncoderInvInit == RosterInit => EncoderInv
BY DEF RosterInit, EncoderInit, EncoderInv

\* Every software encoder that is asked for is one of this FFmpeg.
LEMMA SoftwareEncoderIsListed ==
  ASSUME EncoderInv, phase # "off"
  PROVE  SoftwareEncoder \in Software \intersect listed
<1>1. "libx264" \in listed \/ "libopenh264" \in listed
  BY EncoderAssumption DEF EncoderInv, Software
<1> QED BY <1>1 DEF EncoderInv, SoftwareEncoder, Software

LEMMA EncoderInvNext == EncoderInv /\ [RosterNext]_rosterVars => EncoderInv'
<1> SUFFICES ASSUME EncoderInv, [RosterNext]_rosterVars PROVE EncoderInv'
  OBVIOUS
<1>1. CASE Launch
  BY <1>1 DEF Launch, LoadEncoder, EncoderInv
<1>2. CASE Register
  BY <1>2 DEF Register, EncoderInv, encoderVars
<1>3. CASE Wire
  <2>1. PICK probe \in Probes :
          /\ Pick(OrSoftware(Detected(probe)))
          /\ proven' = proven \union ({Detected(probe)} \intersect good)
          /\ UNCHANGED <<chosen, listed, good, override, named>>
    BY <1>3 DEF Wire, PickEncoder
  <2> DEFINE e == OrSoftware(Detected(probe))
  <2>2. e \in {"libx264"} \union proven'
    BY <2>1, ProbeFindsGood
  <2>3. phase = "picking" /\ phase' = "online"
    BY <1>3 DEF Wire
  <2> HIDE DEF e
  <2>4. /\ encoder' \in {"libx264"} \union proven' \union named'
        /\ stored' \in {Empty, "libx264"} \union Retired \union proven' \union named'
    BY <2>1, <2>2, <2>3 DEF Pick, EncoderInv, e
  <2> QED BY <2>1, <2>3, <2>4 DEF EncoderInv
<1>4. CASE End
  BY <1>4 DEF End, EncoderInv, encoderVars
<1>5. CASE Setup
  <2>1. PICK probe \in Probes :
          /\ stored' \in {OrSoftware(Detected(probe)), "libx264", stored}
                          \union ({override} \ {Empty})
          /\ proven' = proven \union ({Detected(probe)} \intersect good)
          /\ UNCHANGED <<encoder, chosen, listed, good, override, named>>
    BY <1>5 DEF Setup, SetupPicksEncoder
  <2>2. OrSoftware(Detected(probe)) \in {"libx264"} \union proven'
    BY <2>1, ProbeFindsGood
  <2>3. phase = "off" /\ phase' = "off"
    BY <1>5 DEF Setup, cameraVars
  <2> QED BY <2>1, <2>2, <2>3 DEF EncoderInv
<1>6. ASSUME NEW id \in DOMAIN streams, StartCamera(id) PROVE EncoderInv'
  <2>1. phase = "online" /\ phase' = "online"
    BY <1>6 DEF StartCamera
  <2> QED BY <1>6, <2>1, SoftwareEncoderIsListed DEF StartCamera, UseEncoder, EncoderInv
<1>7. ASSUME NEW id \in DOMAIN streams, StartTestPattern(id) PROVE EncoderInv'
  <2>1. phase = "online" /\ phase' = "online"
    BY <1>7 DEF StartTestPattern
  <2> QED BY <1>7, <2>1, SoftwareEncoderIsListed DEF StartTestPattern, UseSoftware, EncoderInv
<1>8. ASSUME NEW id \in DOMAIN streams, FfmpegFailed(id) PROVE EncoderInv'
  BY <1>8 DEF FfmpegFailed, EncoderInv, encoderVars
<1>9. ASSUME NEW id \in DOMAIN streams, UploaderReports(id) PROVE EncoderInv'
  BY <1>9 DEF UploaderReports, EncoderInv, encoderVars
<1>10. CASE Unplug
  BY <1>10 DEF Unplug, EncoderInv, encoderVars
<1>11. CASE Boot
  BY <1>11 DEF Boot, MachineChanges, EncoderInv
<1>12. CASE UNCHANGED rosterVars
  BY <1>12 DEF rosterVars, cameraVars, encoderVars, EncoderInv
<1>13. CASE ChooseEncoder
  BY <1>13 DEF ChooseEncoder, SetEncoder, cameraVars, EncoderInv
<1> QED
  BY <1>1, <1>2, <1>3, <1>4, <1>5, <1>6, <1>7, <1>8, <1>9, <1>10, <1>11, <1>12, <1>13
     DEF RosterNext

\* The encoder that FFmpeg is started with (build_encoding_args) passed the test,
\* was named or is software, and never is a retired one; the software encoder the
\* program chooses is of this FFmpeg: through any number of boots, setups, changes
\* of the drivers and of the environment, uses of /set, and tests that fail.
THEOREM EncoderWorksHolds == RosterSpec => []EncoderWorks
<1>1. EncoderInv => EncoderWorks
  <2> SUFFICES ASSUME EncoderInv, phase = "online"
               PROVE  /\ EncoderOfFfmpeg \in (Software \union proven \union named) \ Retired
                      /\ encoder = "libx264" => EncoderOfFfmpeg \in listed
                      /\ chosen # Empty => chosen \in listed
    BY DEF EncoderWorks, OnlyProvenOrNamed, SoftwareIsThere
  <2>1. phase # "off"
    OBVIOUS
  <2>2. CASE encoder = "libx264"
    BY <2>1, <2>2, SoftwareEncoderIsListed, EncoderAssumption
       DEF EncoderOfFfmpeg, EncoderInv
  <2>3. CASE encoder # "libx264"
    <3>1. encoder \in (proven \union named) \ Retired
      BY <2>3, EncoderAssumption DEF EncoderInv
    <3> QED BY <2>1, <2>3, <3>1 DEF EncoderOfFfmpeg, EncoderInv
  <2> QED BY <2>2, <2>3
<1> QED BY <1>1, EncoderInvInit, EncoderInvNext, PTL DEF RosterSpec
-----------------------------------------------------------------------------
(* The cameras and their pipelines.                                        *)

\* The devices tell cameras apart by their buses, as the scan trusts, also when
\* some are unplugged; the cameras found are those that could be read, each
\* once; every one has its pipeline.
DevicesInv == DOMAIN dev = Nodes /\ BusNamesCamera(dev)

FoundInv ==
  /\ DOMAIN detected \subseteq Nodes
  /\ {detected[n].unit : n \in DOMAIN detected} = attached
  /\ \A n, m \in DOMAIN detected : detected[n].unit = detected[m].unit => n = m

WiredInv ==
  /\ DOMAIN mapping \subseteq DOMAIN detected
  /\ phase \in {"off", "registering"} => DOMAIN mapping = {}
  /\ \A n \in DOMAIN mapping : mapping[n] = <<"cloud", n>>
  /\ phase = "online" =>
       /\ DOMAIN streams = {CameraId(n) : n \in DOMAIN detected}
       /\ \A n \in DOMAIN detected : streams[CameraId(n)] = n

CamerasInv == DevicesInv /\ FoundInv /\ WiredInv

LEMMA CamerasInvInit == RosterInit => CamerasInv
<1> SUFFICES ASSUME RosterInit PROVE CamerasInv
  OBVIOUS
<1>1. DevicesInv
  BY RosterAssumption, MachineAssumption DEF RosterInit, DevicesInv
<1>2. FoundInv /\ WiredInv
  BY DEF RosterInit, FoundInv, WiredInv
<1> QED BY <1>1, <1>2 DEF CamerasInv

\* The scan (detect_cameras): every camera that can be read is found at the first
\* of its nodes that captures.
LEMMA ScanFindsCameras ==
  ASSUME DevicesInv, Launch
  PROVE  FoundInv'
<1> DEFINE kept == {m \in Nodes : Captures(m) /\ ~Duplicate(m)}
           all == {m \in Nodes : Captures(m)}
<1>1. /\ detected' = [n \in kept |-> [name |-> dev[n].name, unit |-> dev[n].unit]]
      /\ attached' = {dev[n].unit : n \in all} \intersect Cameras
  BY DEF Launch, DetectCameras
<1>2. \A n, m \in all :
        /\ dev[n].unit \in Cameras
        /\ dev[n].unit = dev[m].unit <=> n = m \/ (dev[n].bus # Empty /\ dev[n].bus = dev[m].bus)
  BY DEF DevicesInv, BusNamesCamera, Captures
<1>3. ASSUME NEW n \in all
      PROVE  \E m \in kept : dev[m].unit = dev[n].unit
  <2> DEFINE mates == {m \in all : dev[m].unit = dev[n].unit}
  <2>1. IsFiniteSet(mates) /\ mates \subseteq Nat /\ n \in mates
    BY RosterAssumption, FS_Subset
  <2>2. PICK m \in mates : \A k \in mates : m <= k
    <3> HIDE DEF mates
    <3> QED BY <2>1, Lowest
  <2>3. ~Duplicate(m)
    <3> SUFFICES ASSUME Duplicate(m) PROVE FALSE
      OBVIOUS
    <3>1. PICK k \in Nodes : k < m /\ Captures(k) /\ dev[k].bus = dev[m].bus
      BY DEF Duplicate
    <3>2. k \in mates
      BY <1>2, <3>1 DEF Duplicate
    <3>3. m \in Nat /\ k \in Nat
      BY <2>1, <3>2
    <3> QED BY <2>2, <3>1, <3>2, <3>3
  <2> QED BY <2>3
<1>4. ASSUME NEW n \in kept, NEW m \in kept, dev[n].unit = dev[m].unit
      PROVE  n = m
  <2> SUFFICES ASSUME n # m PROVE FALSE
    OBVIOUS
  <2>1. dev[n].bus # Empty /\ dev[n].bus = dev[m].bus
    BY <1>2, <1>4
  <2>2. n \in Nat /\ m \in Nat
    BY RosterAssumption
  <2>3. n < m \/ m < n
    BY <2>2
  <2> QED BY <2>1, <2>3 DEF Duplicate
<1>5. \A n \in kept : n \in all
  OBVIOUS
<1>6. {dev[n].unit : n \in kept} = attached'
  BY <1>1, <1>2, <1>3, <1>5
<1> HIDE DEF kept, all
<1>7. /\ DOMAIN detected' = kept
      /\ \A n \in kept : detected'[n].unit = dev[n].unit
  BY <1>1
<1>8. kept \subseteq Nodes
  BY DEF kept
<1> QED BY <1>4, <1>6, <1>7, <1>8 DEF FoundInv

\* Two cameras never have the same id.
LEMMA IdsAreDistinct ==
  ASSUME WiredInv, NEW n, NEW m, CameraId(n) = CameraId(m)
  PROVE  n = m
<1>1. \A k : CameraId(k) = <<"cloud", k>> \/ CameraId(k) = <<"local", k>>
  BY DEF WiredInv, CameraId, LocalId
<1> QED BY <1>1

LEMMA CamerasInvNext == CamerasInv /\ [RosterNext]_rosterVars => CamerasInv'
<1> SUFFICES ASSUME CamerasInv, [RosterNext]_rosterVars PROVE CamerasInv'
  OBVIOUS
<1> USE DEF CamerasInv
\* What most steps leave alone.
<1>1. ASSUME UNCHANGED <<dev, phase, detected, mapping, streams, attached>>
      PROVE  CamerasInv'
  BY <1>1 DEF DevicesInv, BusNamesCamera, FoundInv, WiredInv, CameraId, LocalId
<1>2. CASE Launch
  <2>1. FoundInv' /\ DevicesInv'
    BY <1>2, ScanFindsCameras DEF Launch, DevicesInv, BusNamesCamera
  <2>2. WiredInv'
    <3>1. phase = "off" /\ phase' = "registering" /\ mapping' = mapping
      BY <1>2 DEF Launch
    <3> QED BY <3>1 DEF WiredInv
  <2> QED BY <2>1, <2>2
<1>3. CASE Register
  <2>1. UNCHANGED <<dev, detected, attached>> /\ phase' = "picking"
    BY <1>3 DEF Register
  <2>2. DevicesInv' /\ FoundInv'
    BY <2>1 DEF DevicesInv, BusNamesCamera, FoundInv
  <2>3. /\ DOMAIN mapping' \subseteq DOMAIN detected
        /\ \A n \in DOMAIN mapping' : mapping'[n] = <<"cloud", n>>
    <3>1. CASE mapping' = <<>>
      BY <3>1
    <3>2. ASSUME NEW accepted \in SUBSET DOMAIN detected,
                 mapping' = [n \in accepted |-> <<"cloud", n>>]
          PROVE  /\ DOMAIN mapping' \subseteq DOMAIN detected
                 /\ \A n \in DOMAIN mapping' : mapping'[n] = <<"cloud", n>>
      BY <3>2
    <3> QED BY <1>3, <3>1, <3>2 DEF Register
  <2> QED BY <2>1, <2>2, <2>3 DEF WiredInv
<1>4. CASE Wire
  <2>1. UNCHANGED <<dev, detected, mapping, attached>> /\ phase = "picking"
    BY <1>4 DEF Wire
  <2>2. DevicesInv' /\ FoundInv'
    BY <2>1 DEF DevicesInv, BusNamesCamera, FoundInv
  <2>3. \A n : CameraId(n)' = CameraId(n)
    BY <2>1 DEF CameraId, LocalId
  <2>4. /\ DOMAIN streams' = {CameraId(n) : n \in DOMAIN detected}
        /\ \A n \in DOMAIN detected : streams'[CameraId(n)] = n
    <3>1. streams' = [id \in {CameraId(n) : n \in DOMAIN detected} |->
                        CHOOSE n \in DOMAIN detected : CameraId(n) = id]
      BY <1>4 DEF Wire
    <3>2. ASSUME NEW n \in DOMAIN detected
          PROVE  (CHOOSE m \in DOMAIN detected : CameraId(m) = CameraId(n)) = n
      BY IdsAreDistinct
    <3> QED BY <3>1, <3>2
  <2>5. WiredInv'
    <3>1. phase' = "online"
      BY <1>4 DEF Wire
    <3> QED BY <2>1, <2>3, <2>4, <3>1 DEF WiredInv
  <2> QED BY <2>2, <2>5
<1>5. CASE End
  <2>1. /\ dev' = dev /\ phase' = "off" /\ attached' = {}
        /\ DOMAIN detected' = {} /\ DOMAIN mapping' = {}
    BY <1>5 DEF End
  <2> QED BY <2>1 DEF DevicesInv, BusNamesCamera, FoundInv, WiredInv
<1>6. CASE Setup \/ ChooseEncoder
  BY <1>1, <1>6 DEF Setup, ChooseEncoder, cameraVars
<1>7. ASSUME NEW id \in DOMAIN streams,
             StartCamera(id) \/ StartTestPattern(id) \/ FfmpegFailed(id) \/ UploaderReports(id)
      PROVE  CamerasInv'
  BY <1>1, <1>7 DEF StartCamera, StartTestPattern, FfmpegFailed, UploaderReports
<1>8. CASE Unplug
  <2>1. UNCHANGED <<phase, detected, mapping, streams, attached>>
    BY <1>8 DEF Unplug
  <2>2. FoundInv' /\ WiredInv'
    BY <2>1 DEF FoundInv, WiredInv, CameraId, LocalId
  <2>3. DOMAIN dev' = Nodes /\ \A n \in Nodes : dev'[n] = dev[n] \/ dev'[n] = Empty
    BY <1>8 DEF Unplug
  <2>4. \A n \in Nodes : Passes(dev'[n]) => dev'[n] = dev[n]
    BY <2>3 DEF Passes
  <2>5. BusNamesCamera(dev')
    BY <2>4 DEF DevicesInv, BusNamesCamera
  <2> QED BY <2>2, <2>3, <2>5 DEF DevicesInv
<1>9. CASE Boot
  <2>1. UNCHANGED <<phase, detected, mapping, streams, attached>> /\ dev' \in Plugged
    BY <1>9 DEF Boot
  <2>2. FoundInv' /\ WiredInv'
    BY <2>1 DEF FoundInv, WiredInv, CameraId, LocalId
  <2> QED BY <2>1, <2>2, RosterAssumption, MachineAssumption DEF DevicesInv
<1>10. CASE UNCHANGED rosterVars
  BY <1>1, <1>10 DEF rosterVars, cameraVars
<1> QED
  BY <1>2, <1>3, <1>4, <1>5, <1>6, <1>7, <1>8, <1>9, <1>10 DEF RosterNext

\* A node that passes the filters is started once for each camera, and each
\* camera is started (the loop over detected_cameras in run_internal), whatever
\* was plugged in, may be read, was left out by the plan or is numbered anew.
THEOREM EachCameraOnceHolds == RosterSpec => []EachCameraOnce
<1>1. CamerasInv => EachCameraOnce
  <2> SUFFICES ASSUME CamerasInv, phase = "online"
               PROVE  /\ {detected[streams[id]].unit : id \in DOMAIN streams} = attached
                      /\ Cardinality(DOMAIN streams) = Cardinality(attached)
    BY DEF EachCameraOnce
  <2> USE DEF CamerasInv
  <2>1. /\ DOMAIN streams = {CameraId(n) : n \in DOMAIN detected}
        /\ \A n \in DOMAIN detected : streams[CameraId(n)] = n
    BY DEF WiredInv
  <2>2. {detected[streams[id]].unit : id \in DOMAIN streams} = attached
    BY <2>1 DEF FoundInv
  <2>3. Cardinality(attached) = Cardinality(DOMAIN detected)
    <3> DEFINE f == [n \in DOMAIN detected |-> detected[n].unit]
    <3>1. f \in Bijection(DOMAIN detected, attached)
      BY DEF FoundInv, Bijection, Injection, Surjection, IsInjective
    <3>2. IsFiniteSet(DOMAIN detected)
      BY RosterAssumption, FS_Subset DEF FoundInv
    <3> QED BY <3>1, <3>2, FS_Bijection DEF ExistsBijection
  <2>4. Cardinality(DOMAIN streams) = Cardinality(DOMAIN detected)
    <3> DEFINE f == [n \in DOMAIN detected |-> CameraId(n)]
    <3>1. f \in Bijection(DOMAIN detected, DOMAIN streams)
      BY <2>1, IdsAreDistinct DEF Bijection, Injection, Surjection, IsInjective
    <3>2. IsFiniteSet(DOMAIN detected)
      BY RosterAssumption, FS_Subset DEF FoundInv
    <3> QED BY <3>1, <3>2, FS_Bijection DEF ExistsBijection
  <2> QED BY <2>2, <2>3, <2>4
<1> QED BY <1>1, CamerasInvInit, CamerasInvNext, PTL DEF RosterSpec
-----------------------------------------------------------------------------
(* What a heartbeat reports.                                               *)

\* The rows are those of the cameras found.  With distinct names every camera
\* that has an id has it in its own row and in no other, and the row holds what
\* its pipeline wrote last.
RowsInv ==
  /\ DOMAIN rows = DOMAIN detected
  /\ \A n \in DOMAIN rows :
       DOMAIN rows[n] = {"name", "id", "status"} /\ rows[n].name = detected[n].name
  /\ phase = "registering" => \A n \in DOMAIN rows : rows[n].id = Empty
  /\ phase \in {"registering", "picking"} => \A n \in DOMAIN rows : rows[n].status = "Starting"

IdsInv ==
  phase \in {"picking", "online"} /\ DistinctNames =>
    \A n \in DOMAIN rows : IF n \in DOMAIN mapping THEN rows[n].id = mapping[n]
                                                  ELSE rows[n].id \in {Empty, LocalId(n)}

StatusInv ==
  phase = "online" =>
    /\ DOMAIN truth = DOMAIN streams
    /\ DistinctNames => \A n \in DOMAIN mapping : rows[n].status = truth[mapping[n]]

HeartbeatInv == CamerasInv /\ RowsInv /\ IdsInv /\ StatusInv

\* set_camera_id changes nothing but ids, and those of distinct names go where
\* they belong.
LEMMA WithIdsKeeps ==
  ASSUME RowsInv, NEW ids
  PROVE  /\ DOMAIN WithIds(rows, ids) = DOMAIN rows
         /\ \A n \in DOMAIN rows :
              /\ DOMAIN WithIds(rows, ids)[n] = {"name", "id", "status"}
              /\ WithIds(rows, ids)[n].name = rows[n].name
              /\ WithIds(rows, ids)[n].status = rows[n].status
BY DEF WithIds, RowsInv

LEMMA WithIdsGives ==
  ASSUME RowsInv, DistinctNames, DOMAIN detected \subseteq Nat,
         NEW ids, DOMAIN ids \subseteq DOMAIN detected, NEW n \in DOMAIN rows
  PROVE  WithIds(rows, ids)[n].id = IF n \in DOMAIN ids THEN ids[n] ELSE rows[n].id
<1> DEFINE givers == {p \in DOMAIN detected \intersect DOMAIN ids :
                        n \in RowOfName(rows, detected[p].name)}
<1>1. \A p \in DOMAIN detected : n \in RowOfName(rows, detected[p].name) <=> p = n
  <2> SUFFICES ASSUME NEW p \in DOMAIN detected
               PROVE  n \in RowOfName(rows, detected[p].name) <=> p = n
    OBVIOUS
  <2>1. {m \in DOMAIN rows : rows[m].name = detected[p].name} = {p}
    BY DEF RowsInv, DistinctNames, IsInjective
  <2> QED BY <2>1 DEF RowOfName, FirstOf
<1>2. givers = IF n \in DOMAIN ids THEN {n} ELSE {}
  BY <1>1 DEF RowsInv
<1>3. WithIds(rows, ids)[n] =
        IF givers = {} THEN rows[n] ELSE [rows[n] EXCEPT !.id = ids[Max(givers)]]
  BY DEF WithIds
<1> HIDE DEF givers
<1>4. CASE n \in DOMAIN ids
  <2>1. Max({n}) = n
    BY DEF Max, RowsInv
  <2> QED BY <1>2, <1>3, <1>4, <2>1 DEF RowsInv
<1> QED BY <1>2, <1>3, <1>4

\* What a write of a status does to the rows.
LEMMA UpdateKeeps ==
  ASSUME RowsInv, NEW hit, NEW word, UpdateStatus(hit, word)
  PROVE  /\ DOMAIN rows' = DOMAIN rows
         /\ \A n \in DOMAIN rows :
              /\ DOMAIN rows'[n] = {"name", "id", "status"}
              /\ rows'[n].name = rows[n].name /\ rows'[n].id = rows[n].id
              /\ rows'[n].status = IF n \in hit THEN word ELSE rows[n].status
BY DEF UpdateStatus, RowsInv

\* A camera's row is the one of its id, and of its name.
LEMMA RowOfCamera ==
  ASSUME HeartbeatInv, DistinctNames, phase = "online",
         NEW id \in DOMAIN streams, NEW n \in DOMAIN mapping
  PROVE  /\ n \in RowOfId(rows, id) <=> id = mapping[n]
         /\ n \in RowOfName(rows, detected[streams[id]].name) <=> id = mapping[n]
<1> USE DEF HeartbeatInv, CamerasInv
<1>1. DOMAIN rows = DOMAIN detected /\ n \in DOMAIN rows /\ DOMAIN rows \subseteq Nat
  BY RosterAssumption DEF RowsInv, WiredInv, FoundInv
<1>2. PICK k \in DOMAIN detected : id = CameraId(k) /\ streams[id] = k
  BY DEF WiredInv
<1>3. mapping[n] = CameraId(n) /\ mapping[n] = <<"cloud", n>>
  BY DEF WiredInv, CameraId
<1>4. k = n <=> id = mapping[n]
  BY <1>2, <1>3, IdsAreDistinct
<1>5. n \in RowOfName(rows, detected[k].name) <=> k = n
  <2>1. {m \in DOMAIN rows : rows[m].name = detected[k].name} = {k}
    BY <1>1 DEF RowsInv, DistinctNames, IsInjective
  <2> QED BY <1>1, <2>1 DEF RowOfName, FirstOf
<1>6. \A m \in DOMAIN rows : rows[m].id = mapping[n] <=> m = n
  <2> SUFFICES ASSUME NEW m \in DOMAIN rows PROVE rows[m].id = mapping[n] <=> m = n
    OBVIOUS
  <2>1. CASE m \in DOMAIN mapping
    BY <1>3, <2>1 DEF IdsInv, WiredInv
  <2>2. CASE m \notin DOMAIN mapping
    <3>1. rows[m].id \in {Empty, <<"local", m>>}
      BY <2>2 DEF IdsInv, LocalId
    <3>2. mapping[n] # Empty /\ mapping[n] # <<"local", m>>
      <4>1. n \in Nodes
        BY <1>1 DEF FoundInv
      <4> QED BY <1>3, <4>1, RosterAssumption
    <3> QED BY <2>2, <3>1, <3>2
  <2> QED BY <2>1, <2>2
<1>7. n \in RowOfId(rows, id) <=> id = mapping[n]
  <2>1. CASE id = mapping[n]
    <3>1. {m \in DOMAIN rows : rows[m].id = id} = {n}
      BY <1>1, <1>6, <2>1
    <3> QED BY <1>1, <2>1, <3>1 DEF RowOfId, FirstOf
  <2>2. CASE n \in RowOfId(rows, id)
    BY <1>1, <1>6, <2>2 DEF RowOfId, FirstOf, IdsInv
  <2> QED BY <2>1, <2>2
<1> QED BY <1>2, <1>4, <1>5, <1>7

\* A write of the supervisor or of the uploader: its camera's row and no other
\* camera's, and its camera's truth.
LEMMA WriteKeepsHeartbeat ==
  ASSUME HeartbeatInv, phase = "online", NEW id \in DOMAIN streams, NEW word, NEW hit,
         hit \in {RowOfId(rows, id), RowOfName(rows, detected[streams[id]].name)},
         UpdateStatus(hit, word), Wrote(id, word),
         UNCHANGED <<phase, detected, mapping, streams>>
  PROVE  RowsInv' /\ IdsInv' /\ StatusInv'
<1>1. /\ DOMAIN rows' = DOMAIN rows
      /\ \A n \in DOMAIN rows :
           /\ DOMAIN rows'[n] = {"name", "id", "status"}
           /\ rows'[n].name = rows[n].name /\ rows'[n].id = rows[n].id
           /\ rows'[n].status = IF n \in hit THEN word ELSE rows[n].status
  BY UpdateKeeps DEF HeartbeatInv
<1>2. RowsInv'
  BY <1>1 DEF HeartbeatInv, RowsInv
<1>3. DistinctNames' = DistinctNames /\ \A n : LocalId(n)' = LocalId(n)
  BY DEF DistinctNames, LocalId
<1>4. IdsInv'
  BY <1>1, <1>3 DEF HeartbeatInv, IdsInv
<1>5. DOMAIN truth' = DOMAIN streams'
  BY DEF Wrote, HeartbeatInv, StatusInv
<1>6. ASSUME DistinctNames, NEW n \in DOMAIN mapping
      PROVE  rows'[n].status = truth'[mapping[n]]
  <2>1. n \in hit <=> id = mapping[n]
    BY <1>6, RowOfCamera
  <2>2. n \in DOMAIN rows /\ mapping[n] \in DOMAIN truth /\ id \in DOMAIN truth
    <3>1. n \in DOMAIN detected /\ DOMAIN streams = {CameraId(m) : m \in DOMAIN detected}
      BY DEF HeartbeatInv, CamerasInv, WiredInv
    <3>2. mapping[n] \in DOMAIN streams
      BY <3>1 DEF CameraId
    <3> QED BY <3>1, <3>2 DEF HeartbeatInv, RowsInv, StatusInv
  <2>3. truth'[mapping[n]] = IF id = mapping[n] THEN word ELSE truth[mapping[n]]
    BY <2>2 DEF Wrote
  <2>4. rows[n].status = truth[mapping[n]]
    BY <1>6 DEF HeartbeatInv, StatusInv
  <2> QED BY <1>1, <2>1, <2>2, <2>3, <2>4
<1> QED BY <1>2, <1>3, <1>4, <1>5, <1>6 DEF StatusInv

LEMMA HeartbeatInvInit == RosterInit => HeartbeatInv
<1>1. RosterInit => RowsInv /\ IdsInv /\ StatusInv
  BY DEF RosterInit, RowsInv, IdsInv, StatusInv
<1> QED BY <1>1, CamerasInvInit DEF HeartbeatInv

LEMMA HeartbeatInvNext == HeartbeatInv /\ [RosterNext]_rosterVars => HeartbeatInv'
<1> SUFFICES ASSUME HeartbeatInv, [RosterNext]_rosterVars PROVE HeartbeatInv'
  OBVIOUS
<1>a. CamerasInv'
  BY CamerasInvNext DEF HeartbeatInv
<1> SUFFICES RowsInv' /\ IdsInv' /\ StatusInv'
  BY <1>a DEF HeartbeatInv
<1> USE DEF HeartbeatInv
<1>1. ASSUME UNCHANGED <<phase, detected, rows, mapping, streams, truth>>
      PROVE  RowsInv' /\ IdsInv' /\ StatusInv'
  BY <1>1 DEF RowsInv, IdsInv, StatusInv, DistinctNames, LocalId
<1>2. CASE Launch
  <2>1. /\ phase' = "registering"
        /\ rows' = [n \in DOMAIN detected' |-> NewRow(detected'[n])]
    BY <1>2 DEF Launch
  <2> QED BY <2>1 DEF NewRow, RowsInv, IdsInv, StatusInv
<1>3. CASE Register
  <2>1. /\ phase = "registering" /\ phase' = "picking" /\ UNCHANGED detected
        /\ DOMAIN rows = DOMAIN detected
        /\ DOMAIN detected \subseteq Nat
    BY <1>3, RosterAssumption DEF Register, CamerasInv, FoundInv, RowsInv
  <2>2. PICK ids : /\ rows' = WithIds(rows, ids)
                   /\ DOMAIN ids \subseteq DOMAIN detected
                   /\ \A n \in DOMAIN detected :
                        IF n \in DOMAIN mapping' THEN n \in DOMAIN ids /\ ids[n] = mapping'[n]
                        ELSE n \in DOMAIN ids => ids[n] = LocalId(n)
    <3>1. CASE mode = "local" /\ mapping' = <<>>
               /\ rows' = WithIds(rows, [n \in DOMAIN detected |-> LocalId(n)])
      <4> DEFINE ids == [n \in DOMAIN detected |-> LocalId(n)]
      <4>1. /\ rows' = WithIds(rows, ids) /\ DOMAIN ids = DOMAIN detected
            /\ \A n \in DOMAIN detected : ids[n] = LocalId(n)
        BY <3>1
      <4>2. DOMAIN mapping' = {}
        BY <3>1
      <4> HIDE DEF ids
      <4> QED BY <4>1, <4>2
    <3>2. CASE mode = "connected" /\ rows' = WithIds(rows, mapping')
      <4>1. DOMAIN mapping' \subseteq DOMAIN detected
        BY <1>a, <2>1 DEF CamerasInv, WiredInv
      <4> QED BY <3>2, <4>1
    <3> QED BY <1>3, <3>1, <3>2 DEF Register
  <2>3. RowsInv'
    BY <2>1, <2>2, WithIdsKeeps DEF RowsInv
  <2>4. IdsInv'
    <3> SUFFICES ASSUME DistinctNames, NEW n \in DOMAIN rows
                 PROVE  IF n \in DOMAIN mapping' THEN rows'[n].id = mapping'[n]
                        ELSE rows'[n].id \in {Empty, LocalId(n)}
      BY <2>1, <2>3 DEF IdsInv, DistinctNames, LocalId, RowsInv
    <3>1. rows'[n].id = IF n \in DOMAIN ids THEN ids[n] ELSE rows[n].id
      BY <2>1, <2>2, WithIdsGives
    <3>2. rows[n].id = Empty
      BY <2>1 DEF RowsInv
    <3> QED BY <2>1, <2>2, <3>1, <3>2
  <2> QED BY <2>1, <2>3, <2>4 DEF StatusInv
<1>4. CASE Wire
  <2>1. /\ phase = "picking" /\ phase' = "online"
        /\ UNCHANGED <<detected, rows, mapping>>
        /\ truth' = [id \in {CameraId(n) : n \in DOMAIN detected} |-> "Starting"]
        /\ DOMAIN streams' = DOMAIN truth'
    BY <1>4 DEF Wire
  <2>2. RowsInv' /\ IdsInv'
    BY <2>1 DEF RowsInv, IdsInv, DistinctNames, LocalId
  <2>3. ASSUME NEW n \in DOMAIN mapping
        PROVE  rows[n].status = truth'[mapping[n]]
    <3>1. n \in DOMAIN detected /\ mapping[n] = CameraId(n)
      BY DEF CamerasInv, WiredInv, CameraId
    <3> QED BY <2>1, <3>1 DEF RowsInv
  <2> QED BY <2>1, <2>2, <2>3 DEF StatusInv
<1>5. CASE End
  <2>1. phase' = "off" /\ DOMAIN rows' = {} /\ DOMAIN detected' = {}
    BY <1>5 DEF End
  <2> QED BY <2>1 DEF RowsInv, IdsInv, StatusInv
<1>6. CASE Setup \/ ChooseEncoder
  BY <1>1, <1>6 DEF Setup, ChooseEncoder, cameraVars
<1>7. ASSUME NEW id \in DOMAIN streams, StartCamera(id)
      PROVE  RowsInv' /\ IdsInv' /\ StatusInv'
  BY <1>7, WriteKeepsHeartbeat DEF StartCamera
<1>8. ASSUME NEW id \in DOMAIN streams, StartTestPattern(id)
      PROVE  RowsInv' /\ IdsInv' /\ StatusInv'
  BY <1>8, WriteKeepsHeartbeat DEF StartTestPattern
<1>9. ASSUME NEW id \in DOMAIN streams, FfmpegFailed(id)
      PROVE  RowsInv' /\ IdsInv' /\ StatusInv'
  BY <1>9, WriteKeepsHeartbeat DEF FfmpegFailed
<1>10. ASSUME NEW id \in DOMAIN streams, UploaderReports(id)
       PROVE  RowsInv' /\ IdsInv' /\ StatusInv'
  BY <1>10, WriteKeepsHeartbeat DEF UploaderReports
<1>11. CASE Unplug
  BY <1>1, <1>11 DEF Unplug
<1>12. CASE Boot
  BY <1>1, <1>12 DEF Boot
<1>13. CASE UNCHANGED rosterVars
  BY <1>1, <1>13 DEF rosterVars, cameraVars
<1> QED
  BY <1>2, <1>3, <1>4, <1>5, <1>6, <1>7, <1>8, <1>9, <1>10, <1>11, <1>12, <1>13 DEF RosterNext

\* What Command Center is told of a camera (build_heartbeat) is what the
\* camera's own supervisor or uploader wrote last, for any number of cameras with
\* names of their own, of which the plan may leave out any.
THEOREM HeartbeatIsTrueHolds == RosterSpec => []HeartbeatIsTrue
<1>1. HeartbeatInv => HeartbeatIsTrue
  <2> SUFFICES ASSUME HeartbeatInv, phase = "online", DistinctNames, NEW n \in DOMAIN mapping
               PROVE  Reported(mapping[n]) = truth[mapping[n]]
    BY DEF HeartbeatIsTrue
  <2>1. mapping[n] \in DOMAIN streams
    BY DEF HeartbeatInv, CamerasInv, WiredInv, CameraId
  <2>2. n \in RowOfId(rows, mapping[n])
    BY <2>1, RowOfCamera
  <2>3. \A m \in RowOfId(rows, mapping[n]) : m = n
    <3>1. DOMAIN rows \subseteq Nat
      BY RosterAssumption DEF HeartbeatInv, CamerasInv, FoundInv, RowsInv
    <3> QED BY <2>2, <3>1 DEF RowOfId, FirstOf
  <2>4. Reported(mapping[n]) = rows[n].status
    BY <2>2, <2>3 DEF Reported
  <2> QED BY <2>4 DEF HeartbeatInv, StatusInv
<1> QED BY <1>1, HeartbeatInvInit, HeartbeatInvNext, PTL DEF RosterSpec
=============================================================================
