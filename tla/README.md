# TLA+ models of the Sentinel CameraNode

The CameraNode is one process (Rust, tokio) that runs an FFmpeg per camera,
uploads the HLS segments FFmpeg writes to Command Center, archives them in an
encrypted SQLite database, and serves a local web UI. This directory models
the parts of it in which tasks, FFmpeg processes, clocks, requests, restarts
and failures interleave. All paths below are under `src/src/`.

## 1. The system

| Part | State | Operations | Talks to |
|---|---|---|---|
| Supervisor, one task per camera (`streaming/supervisor.rs`, `hls_generator.rs`) | source in use, backoff, crash window, FFmpeg child | start, poll, kill, restart, give up, stop | uploader through `stall_flag` and `restart_epoch`, runner through `stop_flag`, dashboard status |
| Encoder choice (`hls_generator.rs`, `node/runner.rs`, `setup/`) | config row `encoder`, `encoder` of the process, cached software encoder | probe and verify hardware, fall back on software, persist | FFmpeg, ffprobe, configuration |
| Uploader poll loop, one task per camera (`streaming/hls_uploader.rs`) | dedup set and its order, highest number taken, stale count, sweep counter | one poll per second: epoch check, directory scan, stale check, spawn of upload tasks, sweep every 60 polls | FFmpeg through the segment directory, supervisor, upload tasks |
| Upload tasks, one per segment (`hls_uploader.rs`, `segment_uploader.rs`) | path and number of the segment, a permit of the camera's semaphore | push with retries, codec claim, motion detection, playlist push, archive write | Command Center, database, dashboard |
| Motion and codec detection (`motion_detector.rs`, `codec_detector.rs`) | `last_motion`, the codec claim | peek, decode, claim, report; probe once, derive the codec string | upload tasks, Command Center |
| Archive (`storage/database.rs`) | recording and snapshot rows, config rows, local recording rows | save, delete, sum, list a day, `enforce_retention`, wipe; each under one connection mutex | upload tasks, HTTP, WebSocket, retention loop |
| Storage cap (`storage/stats.rs`) | `StorageCap` atomic, config row `max_size_gb` | `change_cap`, read by each retention pass | HTTP `PUT /api/storage`, WebSocket `set_storage_cap` |
| Recording state (`server/api.rs`, `node/runner.rs`, `api/websocket.rs`) | shared set of recording cameras, rows of `local_recording_state` | toggle (Local mode only), heartbeat reconciliation (Connected mode only), reseed at boot | upload tasks read the set |
| Heartbeat (`node/runner.rs`) | suspended cameras, disk floor | heartbeat every 30 s with retries | Command Center, dashboard |
| Command channel (`api/websocket.rs`, `api/commands.rs`) | connection, backoff | reconnect, serial dispatch, snapshots | Command Center, segment directory, archive |
| Local server (`server/*.rs`) | certificate rows, sessions, login throttle, stream tokens | start with TLS, sign in and out, mint tokens, serve playlists and segments | browser, Home Assistant |
| Configuration (`config/`), setup and recovery (`setup/`) | the `config` table, two rows of it encrypted | load, override by the environment, save row by row; wizard, quick setup, repair, reset | `main.rs`, the runner |
| Node life (`main.rs`, `service.rs`, `node/runner.rs`, `dashboard/commands.rs`) | `stop_flag`, service status, armed command | start or set up, register, run, stop, wipe, reauth | operator, service manager, Command Center |
| Camera detection (`camera/`) and roster (`dashboard/`) | nodes of the kernel, rows by name and id, path to id mapping | scan, group, register, start one pipeline per camera, write a status, heartbeat | everyone |

What is hard here: the supervisor, the uploader and FFmpeg share two atomics
and a directory, with no lock; a restart wipes the directory and starts the
segment numbers over while upload tasks still hold paths; the archive is
written, trimmed and wiped by several tasks, and a pass takes the mutex twice;
sign-ins, snapshots, motion detections and toggles run several at once, each in
more than one critical section; a configuration and a certificate are several
rows, written one by one; any of it can die half-way; connections drop with a
command's result. `PROJECT.json` lists these hazards line by line, with the
properties that cover each, or the reason why none does.

What makes each part correct:

* supervisor: restarts within a budget, no orphaned FFmpeg, stop always obeyed,
  a run that ended retried;
* watchdog: a wedged FFmpeg is killed, and what the supervisor may see of the
  uploader is no more than it is made for;
* poll loop: each closed segment taken, none swept before it was taken, no camera
  silent after a restart; none taken twice (which does not hold);
* upload tasks: every task ends, one codec report, a task handles the segment
  it is named after;
* motion, codec, playback: reports at least a cooldown apart, a codec string the
  frames fit in, a day played in order;
* archive: settles under the cap, keeps the newest recordings without a hole,
  arithmetic does not wrap, the cap a restart loads is a recent one;
* recording state: what Command Center orders, or what the operator last
  toggled, survives lost answers and restarts;
* commands: at most once, "success" only if done, every one settled; a snapshot
  shows the moment it was asked for, or the newest complete segment, and is
  answered with its own image;
* server: a bounded number of guesses, access exactly with a live session or
  token, HTTPS whenever it is wanted;
* node: open to its network only if asked, tuning kept (of the encoder not by
  every setup, see section 3), destruction confirmed,
  a stop honoured, a node that is kept alive runs;
* roster: one pipeline per camera, its status under its own id, no encoder of the
  program's own choice that does not work.

## 2. The modules

| Module | Models | State and actions |
|---|---|---|
| `Supervisor` | `supervise_hls`, `record_crash_and_maybe_bail`, start/stop/check/drop of `HlsGenerator` | `pc` is the place between two awaits or shared accesses; one action per stretch. `UploaderActs` is an uploader that does anything it could do to the shared state |
| `CameraPipeline` | extends `Supervisor` with the poll loop's stale count, status reports and stall flag | `Supervise` is any supervisor step plus its effect on the directory; `Scan`, `ReportStatus`, `RaiseOrLowerFlag` are one poll cut at its shared accesses |
| `SegmentWindow` | which files a poll takes: epoch check, playlist gate, dedup set, reset heuristic, pruning; the sweep; FFmpeg and its restart | a segment is its number; `taken`, `duplicate`, `lost` (to a sweep) are history variables |
| `SegmentUpload` | extends `SegmentWindow` with the upload tasks | a task is a record under (run, number) with a label and a retry count; `queue` and `permits` are tokio's fair semaphore; `Beside` is any other step of `SegmentWindow` |
| `CodecDetector` | `build_h264_codec`, levels and the values they are derived from | operators only |
| `AfterUpload` | extends `CodecDetector`: motion tasks, the codec claim, the archive write of a segment, the playlist of a day | one record per motion task, cut at the two locks; a row of the archive is its day, its number and, as history, the segment that was read |
| `Retention` | archive rows, `enforce_retention`, `change_cap`, retention loop, wipe, restart | one pc and one record of locals per task; one action per critical section, one per committed DELETE; `recent` is history: the caps of the last request and of those it overlapped with |
| `RecordingState` | the recording set, the suspended set, `local_recording_state` and the disk pause: toggle, heartbeat task, restart | `toggle` is what each HTTP thread executes, cut between its two locks; `hb` is the heartbeat task cut at its awaits and locks. `policies`, the sequence of Command Center's orders, is hidden from the node; `heard` and `unsure` are history variables |
| `Snapshots` | `take_snapshot` and its helpers on the segment directory and the snapshots table, run by several tasks | one record per task: choose from the directory, read the frame, save, read back; FFmpeg, its restart, the sweep and deletions run beside; `latest` of a task is history: where the newest complete segment began when the directory was read |
| `AtMostOnceCalls` | no code: what a caller may rely on | abstract specification of the command channel; `performed` counts how often a call took effect |
| `CommandChannel` | extends `Snapshots` with `run_ws_client`, `handle_message`, `dispatch_command` | `inbox` is what the connection holds, `current` the command that runs, `outcome` its result until it is sent; `answer` is what Command Center knows. A command other than a snapshot takes effect and comes to its outcome in one step |
| `LoginThrottle` | `login` and the throttle | a request is in flight between its two critical sections; `guesses` and `lockedSince` are history variables |
| `LocalServer` | extends `LoginThrottle` with the start and its certificate, the order of the routes, the guard, sessions and cookies, stream tokens | `Fetch` is what a request is answered with; the certificate is two rows, one action per row |
| `ConfigStore` | `Config::load`, `save_to_db`, encrypted rows, environment overrides | a save is a sequence of row writes, executed one per step |
| `NodeStartup` | extends `ConfigStore` with `main`, wizard, quick setup, registration, recovery, service, commands of the dashboard | `pc` of the program; `todo` and `then` are the writes of a save that are left and where it goes on; `tuned`, the rows `/set` wrote last, and `asked` are history |
| `EncoderChoice` | candidates, test encode, verification, software encoder, persistence; names from the environment, `/set` and older versions | `proven` and `named` are history: the encoders a test has shown to work, and the names given from outside that are not retired |
| `CameraRoster` | extends `EncoderChoice` with the V4L2 scan, registration, mapping, pipelines, dashboard rows, status writes (`RosterSpec`) | one action per step of a start, `phase` is how far it came; cameras and rows are kept by the number of their node, in whose order the code adds them; `truth` is what each pipeline wrote last |
| `MCRecordingState`, `MCCommandChannel`, `MCLocalServer`, `MCCameraRoster`, `MCAfterUpload` | constants that are not scalars, for TLC | |
| `SegmentUploadProofs`, `RetentionProofs`, `RecordingStateProofs`, `LocalServerProofs`, `CommandChannelProofs`, `AfterUploadProofs`, `NodeStartupProofs` | theorems of the modules they are named after, and of those these extend | |
| `CameraProofs` | theorems of `Supervisor`, `CameraPipeline`, `EncoderChoice` and `CameraRoster` | |

Three abstract/detailed pairs. `Supervisor` is the abstract specification that
`CameraPipeline` implements (`ImplementsSupervisor`), and `SegmentWindow` the
one that `SegmentUpload` implements (`ImplementsSegmentWindow`); there the
refinement mapping is the identity on the abstract variables. `CommandChannel`
implements `AtMostOnceCalls` (`ImplementsCalls`, an `INSTANCE ... WITH`): the
connection, its queue and the steps of a snapshot are hidden. All three are
checked by TLC and proved.

Conventions. Instants in `Supervisor` and `CameraPipeline` are ages saturated
just past the largest value they are compared with, so they have no horizon. A
sleep lasts at least its duration and any step may come late. History variables
are read by properties only. A definition commented `Mutant:` is a plausible
bug; no specification uses it, and substituting it for the definition it
precedes breaks the property named in `PROJECT.json`.

Simplifications worth knowing:

* `child.kill()` is taken to succeed (the kernel always delivers SIGKILL to a
  child that has not been reaped).
* `CameraPipeline` abstracts a poll to "found new segments or not";
  `SegmentWindow` says when that is.
* In `SegmentWindow` no segment is completed between the spawn of FFmpeg and
  the bump of `restart_epoch`, or between the epoch check and the directory
  scan of one poll: both are microseconds, a segment takes a second.
  Restarts, deaths and sweeps may fall into both. The three-second quiescence
  test of the backstop is "not the file being written"; files under 188 bytes
  do not occur.
* In `SegmentUpload` the suspended set, the recording set and the disk floor
  are free choices at each read; `RecordingState` says what they can be. Motion
  and codec contents are in `AfterUpload`, the playlist push in no module.
* In `Retention` a row is an id and a size, sizes and caps share one unit, and
  the sum of the tables is what the code's `size_bytes` columns hold.
* In `RecordingState` the mode is fixed: a node that was set up again in the
  other mode, with rows left from before, is not considered. Free space is
  "above the floor", "below it" or "none".
* In `Snapshots` time is counted in segments, and a restart of FFmpeg empties
  the directory. `CommandChannel` keeps four kinds of command; a cap command
  takes effect or not, `Retention` has its steps. Version hints, pings and malformed messages
  are left out.
* In `LocalServer` a signature is the secret it was made with. The throttle's
  clock and that of the tokens are one.
* In `ConfigStore` the tuning rows are one row, the encoder has its own. Only rows
  a start depends on are kept. An encoder of the environment is in
  `EncoderChoice`; the storage cap and the port, which a setup asks for or finds,
  are no tuning here.
* A setup in `NodeStartup` picks an encoder or not (`Picked`); which one, and how
  it is tested, is in `EncoderChoice`.
* In `CameraRoster` and `EncoderChoice` the platform is Linux; what a test of an
  encoder may come to is a constant set. An encoder variable that is set to
  nothing is one that is not set.

## 3. What is checked

All runs finish without an error except `CameraPipelineWedge` and
`SegmentWindowRetaken`. Each of them shows that a sentence in the comments is
not what the code does; `PROJECT.json` quotes it.

| Run | What it shows |
|---|---|
| `Supervisor` | `RestartBudget`, `NoFfmpegLeftBehind`, `StopReturns`, `EndedRunIsRetried`: the supervisor against an FFmpeg, a runner, an uploader and a clock that do what they like |
| `CameraPipeline` | `FirstWedgeIsKilled`, `ImplementsSupervisor`: the supervisor with the real uploader |
| `CameraPipelineWedge` | `WedgeIsKilled` violated: the flag is raised when the count equals 20, a restart does not reset the count, so an FFmpeg that wedges again before its first segment stays wedged |
| `SegmentWindowRetaken` | `NoDuplicate` violated: the set of 200 names forgets a segment that is still among the up to 305 files that two sweeps leave room for, and the next scan takes it for a new one (all the code's numbers divided by five) |
| `SegmentUpload` | `NothingLostToSweep`, `EventuallyTaken`: the uploader takes every closed segment, before a sweep deletes it, also after restarts of FFmpeg and cleanups that abort. `CodecReportedOnce`, `OwnSegmentUntilRestart`, `EveryTaskEnds`, `ImplementsSegmentWindow`: two tasks at once past the semaphore, which race for the codec claim and the files |
| `Retention` | `NoUnderflow`, `NoHoles`, `FreedIsGone`, `CapSurvivesRestart`, `SettlesUnderCap`: passes, overlapping cap changes, writes, deletions and wipes with errors and deaths in between |
| `RecordingState` | `SetsAreRecent`, `SetMatchesRows`, `FollowsPolicy`, `FlagFollowsDisk`: toggles on two threads, heartbeats with failed attempts and answers without the field |
| `CommandChannel` | `FrameIsOfItsTime`, `AnswersOwnImage`, `ImplementsCalls` (a second effect of a command is no step of `AtMostOnceCalls`), `CommandsSettle`: a snapshot of the channel and one of the web UI in a directory that changes, wipes, dropped connections |
| `LocalServer` | `GuessBudget`, `AccessIsExact`, `HttpsWhenWanted`: overlapping sign-ins, cookies and tokens across restarts, setups and moves to another machine |
| `NodeStartup` | `LanIsAskedFor`, `AdminCanSignIn`, `TuningIsKept`, `DestructionIsConfirmed`, `StopIsHonoured`, `RunsUnlessSecretUnreadable`: setups of a fresh and of a configured node (from Local to Connected and back), recoveries, wipes and commands, with a death between any two writes |
| `CameraRoster` | `HeartbeatIsTrue`, `EachCameraOnce`, `EncoderWorks`: boots with cameras that come, go and change their nodes, encoders that lie, names from the environment, `/set` and older versions, FFmpeg that is exchanged |
| `AfterUpload` | `ReportsAreSpaced`, `DayPlaysInOrder`, `CodecFitsFrames`: motion and archive tasks of several segments in any order, across a restart of FFmpeg and midnight |

Where a property sets a case aside, the code does go wrong in it. These are
visible in the models, and no run is spent on them:

* *Status.* The uploader's `Error` or `Streaming` overwrites the `Failed` of a
  supervisor that gave up.
* *Poll loop.* A segment is taken twice not only when its name was forgotten
  (`SegmentWindowRetaken`): with `CleanupMayFail = TRUE`, a cleanup that dies
  after the newest files looks like a counter reset.
* *Upload.* After a restart of FFmpeg a waiting task reads another segment at
  its path; `OwnSegmentUntilRestart` says that nothing else has this effect. A
  restart also deletes closed segments nobody has taken yet; `NothingLostToSweep`
  is about the sweep.
* *Retention.* Two overlapping cap changes can be saved in one order and put in
  force in the other; `CapSurvivesRestart` says that both caps are of the last
  request or of one it overlapped with. Two overlapping passes each delete what
  they measured.
* *Recording.* Two overlapping toggles of one camera can leave set and row
  different until the next toggle or restart. Only the heartbeat measures the
  disk, so Local mode never pauses; 0 bytes free is taken for an unidentified
  disk and leaves the pause as it was.
* *Motion and codec.* A report that cannot be sent is not retried, and its
  cooldown runs. Codec detection is not tried again if it fails. A width or
  height that ffprobe reports as 0 counts as given (`.or` replaces only one that
  is left out), so the coded one is not used and the level is announced as if
  the size were unknown; `CodecFitsFrames` sets this aside (`Measured`).
* *Playback.* Segment numbers start over with FFmpeg: on a day with a restart
  numbers occur twice, the older rows are hidden and the order is by number.
  A segment is dated when it is archived.
* *Commands.* `take_snapshot` sets FFmpeg no time limit; while it hangs, no
  command of the connection is read.
* *Server.* The registration announces HTTPS before the certificate is made.
* *Setup.* A save that is torn can leave a node on the LAN without a password. A
  session secret of another machine ends the load, also the one a new setup
  starts with; recovery proposes that setup. A stale key in the environment wins
  over the one just entered. The comments at `setup/mod.rs:252` and
  `setup/tui.rs:1225` promise that a re-run does not reset what `/set` adjusted;
  of the encoder this is not so: the quick setup always writes the row
  (`setup/mod.rs:351`), the wizard always on Windows, and elsewhere when it finds
  a hardware encoder. `TuningIsKept` counts the encoder until such a setup.
* *Roster.* Of two cameras with the same name only one row gets an id. Ids follow
  `/dev/videoN`, so cameras that swap numbers swap ids. An encoder test that
  fails once stores the software encoder for good. An encoder that the
  environment, `/set` or an older version names is used untested, unless it is
  retired; `EncoderWorks` has these names in `named`.

Bounds, and why they are enough:

* `Supervisor`: seconds are scaled so that poll < backoff < window (1, 1..4,
  7), the budget is 3 restarts and the healthy threshold equals the window, as
  in the code (60 s both). The state space is finite without further bounds;
  the proofs lift the numbers.
* `CameraPipeline`: smaller thresholds, warn 1 and kill 2 polls, one upload in
  flight, no fallback. Every order of polls, kills, restarts and silence
  occurs, also several wedges in a row.
* `SegmentWindowRetaken`: one run of FFmpeg, the sweep's reserve (185), its
  period (60 polls) and the dedup set (200), each divided by five, one segment
  per poll as in the code. The violation is a matter of these three numbers:
  `NoDuplicateHolds` says of which.
* `SegmentUpload`: 3 segments per run, two restarts, a sweep at every poll that
  keeps 2, a dedup set of 3, one retry, two permits and two tasks alive, so that
  two tasks are past the semaphore at once and race for the codec claim; cleanup
  may fail. Up to two closed segments wait for a poll, as many as the sweep
  keeps, and one is completed while a sweep is under way (`SweepSlack`: a sweep
  takes milliseconds, a segment a second). The bound on tasks makes `Scan` wait,
  which the code does not do; `EveryTaskEnds` is stated for each task, and holds
  however often scans go on. A task that waits for its permit behind two others
  would be a third one; the proofs have any number of tasks and permits.
* `Retention`: two caps, one size each of recordings and snapshots, three rows, two
  requesters beside the loop, whose changes may overlap at each step. The theorems
  hold for any number of requesters.
* `RecordingState`: two cameras and two HTTP threads, three attempts as in the
  code, three toggles (one may run alone after two overlapped), three policies
  of which two come into force, one change of the disk, one restart. Every
  failure of an attempt, an answer without the field and a failing write may
  occur at each step.
* `CommandChannel`: a snapshot for a moment and a wipe, two takers, two FFmpeg
  runs, four instants, two rows, one dropped connection: the file that was
  chosen may be replaced, swept or of another run when it is opened, and the
  wipe may fall between save and read-back. The proof lifts the numbers of
  commands, drops and takers.
* `LocalServer`: threshold 3 and two requests in flight, so that a request may
  pass the check before the lock and count after it; two lock lengths show that
  the lock grows and stays; two setups, two certificates, two cameras. The proof
  lifts the throttle.
* `NodeStartup`: four events from outside (starts without a terminal, setups the
  operator starts, `/set`, ends of a run, moves, rotated keys). Saves are cut at every row. Four is a move, a
  start as a service, a rotation and an end in one behaviour. The proofs lift
  the number.
* `CameraRoster`: three nodes, four pluggings with every case of the scan (two
  nodes of a camera, raw and metadata nodes, no bus, an ISP, a codec), two boots,
  one hardware encoder, one retired name and one that is neither tested nor
  retired, and two builds of FFmpeg: with the hardware encoder and libx264, with
  libopenh264 only. The theorems hold for any nodes, pluggings that satisfy the
  assumption, boots, encoders, names and builds with a software encoder.
* `AfterUpload`: two FFmpeg runs of three segments, four instants with a
  cooldown of two, two days, two tasks at once, and the reports with level 0
  or none, one pair of dimensions, none, one of each, 0 beside the coded pair, or
  a level between two.

Fairness. Weak fairness of the supervisor's steps, of the poll loop, of the
sweep thread and of the upload tasks: the tokio runtime polls ready tasks and
the blocking pool runs what it is given. Weak fairness of the clock. A push is
answered or times out after 10 s (`api/client.rs:79`), so a task is never
stuck in it. Weak fairness of retention passes: the loop sleeps five minutes
and tries again, for ever. In `RecordingState`, weak fairness of the heartbeat
task and of the toggles' threads, and strong fairness of three things that may
fail any number of times but not for ever: the disk figure, a complete answer
of Command Center, its way back. In `CommandChannel`, weak fairness of the
channel's task, which includes that FFmpeg ends, and strong fairness of the
connection: attempts may fail, not for ever. In `NodeStartup`, weak fairness of
the program together with an operator who starts a program that is down and
answers the wizard: `RunsUnlessSecretUnreadable` is about a node somebody cares
for. Elsewhere nothing is assumed of FFmpeg, the network, the operator or
Command Center. `CHECK_DEADLOCK FALSE` in the runs whose bounds, or a
supervisor that returned, end a behaviour; `CameraRoster` never stops.

## 4. What is proved

For every value of the constants that satisfies the named assumptions.

* **Supervisor.** `TypeCorrect`; `NoFfmpegLeftBehindHolds` (needs that a failed
  start leaves no child); `OnlyTheProbeIsHotHolds` (needs that an unconsumed
  fallback with an empty history means the first attempt);
  `RestartBudgetHolds` and `GivesUpOnlyOnBurstHolds`. The restart budget is
  the interesting one: `crash_history` is pruned and cleared, so the bound on
  its length says nothing about all crashes. `BudgetInv` adds
  `SinceLastCrash`, a lower bound on the age of every crash by the time slept
  and run since: when the history is cleared, FFmpeg ran `HealthyReset`
  seconds after a sleep of at least `BaseBackoff`, so every earlier crash is
  older than the window. This needs `ThresholdsAssumption`
  (`HealthyReset + BaseBackoff > RestartWindow`), which the code's three
  independently chosen constants satisfy by one second.
* **CameraPipeline.** `ImplementsSupervisorHolds`, hence
  `PipelineRestartBudget` and `PipelineNoFfmpegLeftBehind`;
  `PipelineTypeCorrect`; `FlagMeansSilenceHolds` (the flag is raised at
  `KillCycles` and the count returns to 0 only in the step that lowers it).
* **SegmentWindow.** `WindowTypeCorrect`. `NothingLostHolds` assumes that the
  sweep keeps more than FFmpeg completes while it is under way (185 against 1),
  and holds however many closed segments waited for the poll before it, because a
  scan takes them all, and although cleanups abort; `NothingLostBesideUploads` carries it over to
  `SegmentUpload`. `NoDuplicateHolds` assumes `DedupCovers`: cleanups work, and
  what a sweep leaves (`SweepKeep`) together with what arrives in the two sweep
  periods until the next sweep has surely ended, less one poll, is at most
  `SeenCap + 2`. The bound is tight, and the code's numbers miss it:
  185 + 119 > 202. `DirectoryInv` says that
  the segments taken are those below some number, the files are an interval
  around it whose length is bounded by the scans since the last sweep (`Scans`,
  which counts a sweep that is due but has not run), and every name that was
  forgotten is older than `SeenCap` names allow. Names are not in order within
  a batch (`NamesInOrder`), which costs the 2.
* **SegmentUpload.** `UploadTypeCorrect`, `CodecReportedOnceHolds`,
  `ImplementsSegmentWindowHolds`, `OwnSegmentUntilRestartHolds`. The inductive
  invariant `UploadInv` says that the tasks past the semaphore and the permits
  left add up to `Permits`, that the queue holds exactly queued tasks, each
  once, and that at most one task is between its codec claim and its report.
  `OwnSegmentUntilRestart` needs that in the first run a task's segment is
  either whole on disk or gone.
* **Retention.** `RetentionTypeCorrect`; `NoUnderflowHolds`: nothing is known of
  the tables when a pass deletes, but it deletes only while what it freed is
  below the excess it counted, and a row is no larger than a cap
  (`RowsAreSmall`). `NoHolesHolds`: `SuffixInv` says that the recordings are the
  ids from the oldest one up to the last id ever given, which an insert
  continues and every deletion shortens from below. `CapSurvivesRestartHolds`:
  `SavedCapInv` says, of any number of overlapping requests, that what is saved
  and what a request is about to put in force are caps of `recent`, and that the
  cap in force is one once none is about to be put in force; a request that
  saves while no other is at that point makes `recent` its own cap.
  `FreedIsGoneHolds`: the units of a row are its own, so a table without it takes
  up just its size less (`RowFrees`, which needs the cardinality of the units
  rather than a fold), and every other step that changes a table waits for the
  mutex (`OthersWait`). A pass that ends without an error therefore leaves at
  most its limit and what was saved between its sum and its deletions.
* **RecordingState.** `TypeCorrect`; `AnswersStayRecent`: the invariant must
  follow the answer through its retries, so `AnswerInv` says that an answer at
  hand is an order that was in force at some moment since its attempt was sent
  (`hb.began`). `ToggleSurvives`: `ToggleInv` says that a toggle under way that
  is alone is the only one of its camera and the set already shows its value;
  one that is not has marked its camera in `unsure`.
* **LocalServer.** `GuessBudgetHolds`: the bound alone is not inductive, for the
  requests in flight will still count. `GuessInv` charges them in advance: while
  the lock is on, guesses made and requests in flight stay within the allowance;
  while it is off, a full round fits in. A second of the clock pays for a round
  (`AnotherRound`), and a lock lasts a second at least.
  `HttpsWhenWantedHolds`: in `CertInv`, a key row that this machine can read
  belongs to the certificate row, because the certificate is written first and
  only while no key can be read. `AccessIsExactHolds`: the guard refuses an
  expired session, and the property says nothing of expiry; `AccessInv` says that
  the browser has dropped a cookie before it expires. `ServerTypeCorrect` joins
  the types of the throttle, the certificate and the cookie.
* **CommandChannel.** `ImplementsCallsHolds`: `ChannelInv` says that a command
  that waits in the inbox is there once and has neither taken effect nor been
  answered, and that the one that runs has taken effect, once, only if its
  outcome or the place of its snapshot says so. `FrameIsOfItsTimeHolds`,
  `AnswersOwnImageHolds`: `SnapshotInv` says what a task still knows of the file
  it chose, as long as no restart came in between: it is there with the begin
  and the completeness it was chosen for, the moment asked for or the newest
  complete one (`latest`), or it was swept; and that a saved
  snapshot's id is in the table with its own image or not at all, because ids
  are not used again. `ChannelTypeCorrect`: a snapshot of the channel runs only
  as its current command, and a connection that is gone holds nothing.
* **AfterUpload.** `ReportsAreSpacedHolds`, `OnlyMotionSuppressesHolds`: the
  instants of motion tasks reach the lock in any order; `MotionInv` says that
  the cooldown counts from the last report, and the claim under the lock
  compares with it again. `DayPlaysInOrderHolds`: `ArchiveInv` says that the
  number of a row is that of the segment that was read, of whatever run; in a
  day of one run the number therefore names the segment, and a finite set of
  numbers can be listed in order (`Listable`, by the least subset that cannot).
  `CodecFitsFramesHolds`, about the operators of `CodecDetector`: rounding to the
  nearest valid level passes no valid level (`RoundingKeeps`), and each row of
  the code's table has room for its frames in the standard's. It assumes
  `Ordinary` reports: dimensions, where given, at least those of the frame, a
  frame of at most 36864 macroblocks, and padding to whole macroblocks that crosses no limit of
  the table, 1920x1080 excepted. Without the last it is false: the table counts
  pixels, and a frame one pixel wide is coded sixteen wide.
* **NodeStartup.** For any number of events: `TuningIsKeptHolds`,
  `AdminCanSignInHolds`, `LanIsAskedForHolds`, `DestructionIsConfirmedHolds`. A
  save stops anywhere, so `TuningInv` asks of each row that still waits what it
  asks of the table, and `StoreInv` says that on its own machine a table can be
  read, so that a setup starts from it. What the access depends on is four rows
  together, which are out of step during a save: `AccessInv` says that there is
  a configuration that is safe and that the waiting rows complete the table to,
  whichever setup wrote them and over whatever configuration;
  once a save is torn nothing is claimed. `ArmedInv` ties the armed command to
  the last line. `StartupTypeCorrect` includes that a node runs only with a
  complete configuration: the rows that wait have the types of the table
  (`RowsInv`), and from the load on the program keeps what it validated
  (`PlaceInv`), also while it saves, and while a stop that came before the
  registration waits to be polled. The assumptions say that `None` is no value
  of a row.
* **EncoderChoice, CameraRoster.** `EncoderWorksHolds`: `EncoderInv` says that
  what is stored, loaded or in the environment is retired, the software name,
  passed the test once, or was named from outside; the retired names are not
  probed and no software, so none of them survives the pick. `EachCameraOnceHolds` assumes
  `MachineAssumption`: only nodes of cameras pass the filters, and two of them
  belong to one camera just if they name one bus, as the comments of the scan
  say. `CamerasInv` follows that from the nodes (`DevicesInv`) through the scan
  (`FoundInv`) to the ids and pipelines (`WiredInv`), with an id per node even
  where Command Center's list leaves cameras out. `HeartbeatIsTrueHolds`: the
  supervisor finds its row by id, the uploader by name, and the heartbeat by id;
  `HeartbeatInv` adds that with distinct names each row has its camera's id
  (`IdsInv`), so that all three find one row (`StatusInv`).

Only model-checked: liveness under fairness, which is out of the proof system's
reach. These are `StopReturns`, `EndedRunIsRetried`, `FirstWedgeIsKilled`,
`EveryTaskEnds`, `EventuallyTaken`, `SettlesUnderCap`, `FollowsPolicy`,
`FlagFollowsDisk`, `CommandsSettle`, `StopIsHonoured` and
`RunsUnlessSecretUnreadable`. Every invariant and every action property a passing
run checks is proved for all values of the constants, under the assumptions
named above.

Definitions chosen so that they can be reasoned about: the size of a table in
`Retention` is the number of units its rows take up rather than a fold, and the
playlist of `AfterUpload` is the listing of a day's numbers that is in order
rather than the result of a sort; the ids of `CameraRoster` are given to all rows
at once (`WithIds`: of those that find a row the last one leaves its id) rather
than by a fold.

## 5. Not modelled

* Terminal rendering and animations (`dashboard/render.rs`, `setup/ui.rs`,
  `setup/animations.rs`, most of `setup/tui.rs`): output and key handling; what
  the wizard decides is in `NodeStartup`.
* WSL preflight, the Windows and macOS detectors, `camera/capture.rs`: calls of
  foreign programs, one after the other.
* The playlist push: background tasks that read the current file; they change
  nothing the models keep.
* Paths, logging, network helpers: pure.
* AES-GCM, Argon2, TLS, HMAC: library calls, taken by what they promise.
* The web UI and the installers: other programs.
