----------------------------- MODULE AfterUpload ------------------------------
(***************************************************************************)
(* What an uploaded segment of a camera sets off (streaming/               *)
(* hls_uploader.rs): the first one the codec detection (CodecDetector),    *)
(* every one the motion detection, a task of its own with a cooldown it    *)
(* shares with the others (motion_detector.rs), and the archive            *)
(* (storage/database.rs), from which the local server plays a day back     *)
(* (server/api.rs).                                                        *)
(*                                                                         *)
(* A segment is the FFmpeg run it is of and its number in it; a restart    *)
(* begins at 0 again.  The tasks know a segment by its path: after a       *)
(* restart they read another one there, or none.  A row of the archive is  *)
(* its day, its number and, as history, the segment that was read.         *)
(***************************************************************************)
EXTENDS CodecDetector, FiniteSets, Functions, SequencesExt

CONSTANTS
  Cooldown,     \* motion.cooldown_secs
  Reports,      \* what ffprobe may say of a segment, and its frame: [columns, lines]
  None,         \* no instant, no segment, no codec
  MaxRun, MaxNumber, MaxTime, MaxDay, MaxTasks  \* bounds

ASSUME AfterUploadAssumption ==
  /\ Cooldown \in Nat \ {0} /\ None \notin Int
  /\ {MaxRun, MaxNumber, MaxTime, MaxDay, MaxTasks} \subseteq Nat

VARIABLES
  run, written,  \* the FFmpeg run, and the segments it has closed
  now, today,    \* the clock of the process, the date
  detecting,     \* motion tasks, by segment: [at, time]
  last_motion,
  probing,       \* the segment whose codec is being detected
  codec_detected,
  published,     \* the codec announced, and the report it was derived from
  archiving,     \* archive tasks, by segment: [at, day, read]
  archive,       \* recording_segments of the camera, in the order of their ids
  reported       \* history: the instants of the motion reports, in order

clock == <<now, today>>
files == <<run, written>>
motion == <<detecting, last_motion, reported>>
recording == <<archiving, archive>>
codec == <<probing, codec_detected, published>>
vars == <<files, clock, motion, recording, codec>>

Init ==
  /\ run = 0 /\ written = 0
  /\ now = 0 /\ today = 0
  /\ detecting = <<>> /\ last_motion = None /\ reported = <<>>
  /\ archiving = <<>> /\ archive = <<>>
  /\ probing = None /\ codec_detected = FALSE /\ published = None

Without(tasks, s) == Restrict(tasks, DOMAIN tasks \ {s})
With(tasks, s, task) == [t \in DOMAIN tasks \union {s} |-> IF t = s THEN task ELSE tasks[t]]

\* What is at the path of a segment; the file being written can be read as well.
AtPath(s) == IF s[2] <= written /\ s[2] < MaxNumber THEN <<run, s[2]>> ELSE None

-----------------------------------------------------------------------------
(* FFmpeg and time.                                                        *)

\* A segment is searched for motion if that is enabled, and archived if the camera
\* is recording.
StartTasks(s) ==
  /\ detecting' \in {detecting, With(detecting, s, [at |-> "peek", time |-> 0])}
  /\ archiving' \in {archiving, With(archiving, s, [at |-> "date", day |-> 0, read |-> None])}
  /\ Cardinality(DOMAIN detecting') + Cardinality(DOMAIN archiving') <= MaxTasks

\* A segment is closed and uploaded.  The first one claims the codec detection.
Upload ==
  /\ written < MaxNumber
  /\ written' = written + 1
  /\ codec_detected' = TRUE
  /\ IF codec_detected
     THEN StartTasks(<<run, written>>) /\ UNCHANGED probing
     ELSE probing' = <<run, written>> /\ UNCHANGED <<detecting, archiving>>
  /\ UNCHANGED <<run, clock, last_motion, reported, archive, published>>

\* detect_codec may fail, as on a segment that is gone; it is not tried again.
DetectCodec ==
  /\ probing # None /\ probing' = None
  /\ StartTasks(probing)
  /\ \/ UNCHANGED published
     \/ /\ AtPath(probing) # None
        /\ \E r \in Reports : published' = [codec |-> HlsCodec(r), report |-> r]
  /\ UNCHANGED <<files, clock, last_motion, reported, archive, codec_detected>>

\* FFmpeg is restarted: cleanup empties the directory.
Restart ==
  /\ run < MaxRun
  /\ run' = run + 1 /\ written' = 0
  /\ UNCHANGED <<clock, motion, recording, codec>>

Tick == now < MaxTime /\ now' = now + 1 /\ UNCHANGED <<today, files, motion, recording, codec>>

Midnight == today < MaxDay /\ today' = today + 1 /\ UNCHANGED <<now, files, motion, recording, codec>>

-----------------------------------------------------------------------------
(* spawn_motion_detection.                                                 *)

\* duration_since is 0 for an instant in the future.
Cooling(time) == last_motion # None /\ time - last_motion < Cooldown

\* The cooldown is looked at, to save the decode.
Peek(s) ==
  /\ s \in DOMAIN detecting /\ detecting[s].at = "peek"
  /\ detecting' = IF Cooling(now) THEN Without(detecting, s)
                                  ELSE [detecting EXCEPT ![s].at = "decode"]
  /\ UNCHANGED <<files, clock, last_motion, reported, recording, codec>>

\* detect_motion reads the file and has FFmpeg decode it: None for a segment that
\* is gone, for a failure or a timeout, and for changes below the threshold.
Decode(s) ==
  /\ s \in DOMAIN detecting /\ detecting[s].at = "decode"
  /\ \/ detecting' = Without(detecting, s)
     \/ AtPath(s) # None /\ detecting' = [detecting EXCEPT ![s] = [at |-> "claim", time |-> now]]
  /\ UNCHANGED <<files, clock, last_motion, reported, recording, codec>>

\* Mutant: the cooldown is not looked at again.
ClaimAtOnce(s) ==
  /\ s \in DOMAIN detecting /\ detecting[s].at = "claim"
  /\ detecting' = Without(detecting, s)
  /\ last_motion' = detecting[s].time
  /\ reported' = Append(reported, detecting[s].time)
  /\ UNCHANGED <<files, clock, recording, codec>>

\* The instant was taken before the lock.  The report is sent once; if it fails
\* that is logged, and the cooldown runs all the same.
Claim(s) ==
  /\ s \in DOMAIN detecting /\ detecting[s].at = "claim"
  /\ detecting' = Without(detecting, s)
  /\ IF Cooling(detecting[s].time)
     THEN UNCHANGED <<last_motion, reported>>
     ELSE /\ last_motion' = detecting[s].time
          /\ reported' = Append(reported, detecting[s].time)
  /\ UNCHANGED <<files, clock, recording, codec>>

-----------------------------------------------------------------------------
(* The archive.                                                            *)

\* The segment gets the date of its archiving.
Date(s) ==
  /\ s \in DOMAIN archiving /\ archiving[s].at = "date"
  /\ archiving' = [archiving EXCEPT ![s] = [at |-> "read", day |-> today, read |-> None]]
  /\ UNCHANGED <<files, clock, motion, archive, codec>>

\* The file at its path; none is logged.
Read(s) ==
  /\ s \in DOMAIN archiving /\ archiving[s].at = "read"
  /\ archiving' = IF AtPath(s) = None THEN Without(archiving, s)
                  ELSE [archiving EXCEPT ![s] = [at |-> "save", day |-> archiving[s].day,
                                                 read |-> AtPath(s)]]
  /\ UNCHANGED <<files, clock, motion, archive, codec>>

\* save_recording_segment; an error is logged.
Save(s) ==
  /\ s \in DOMAIN archiving /\ archiving[s].at = "save"
  /\ archiving' = Without(archiving, s)
  /\ archive' \in {archive, Append(archive, [day |-> archiving[s].day, number |-> s[2],
                                             segment |-> archiving[s].read])}
  /\ UNCHANGED <<files, clock, motion, codec>>

\* enforce_retention deletes the oldest rows.
Retain ==
  /\ archive # <<>> /\ archive' = Tail(archive)
  /\ UNCHANGED <<files, clock, motion, archiving, codec>>

-----------------------------------------------------------------------------
(* Playback.                                                               *)

Numbers(day) == {archive[i].number : i \in {j \in DOMAIN archive : archive[j].day = day}}

\* Mutant: the playlist is in the order of the rows.
ListByRow(day) ==
  LET OfDay(row) == row.day = day
      rows == SelectSeq(archive, OfDay)
  IN  [i \in DOMAIN rows |-> rows[i].number]

\* list_recording_segment_seqs and build_m3u8: every number once, ascending.
Playlist(day) ==
  CHOOSE listing \in [1 .. Cardinality(Numbers(day)) -> Numbers(day)] :
    /\ Range(listing) = Numbers(day)
    /\ \A i, j \in DOMAIN listing : i < j => listing[i] < listing[j]

\* get_recording_segment: the newest row of that number.
Served(day, number) ==
  LET ids == {i \in DOMAIN archive : archive[i].day = day /\ archive[i].number = number}
  IN  archive[CHOOSE i \in ids : \A j \in ids : j <= i].segment

\* list_recordings: the days with a row.
Days == {archive[i].day : i \in DOMAIN archive}

\* What a player of the day's playlist fetches, one segment after the other.
Played(day) == [i \in DOMAIN Playlist(day) |-> Served(day, Playlist(day)[i])]

-----------------------------------------------------------------------------
Next ==
  \/ Upload \/ DetectCodec \/ Restart \/ Tick \/ Midnight \/ Retain
  \/ \E s \in DOMAIN detecting : Peek(s) \/ Decode(s) \/ Claim(s)
  \/ \E s \in DOMAIN archiving : Date(s) \/ Read(s) \/ Save(s)

Spec == Init /\ [][Next]_vars

-----------------------------------------------------------------------------
(* Correctness.                                                            *)

\* However many decodes overlap, two motion reports of a camera are at least a
\* cooldown apart.
ReportsAreSpaced ==
  \A i, j \in DOMAIN reported : i < j => reported[j] - reported[i] >= Cooldown

\* A motion is kept back only because of another one that was reported: a segment
\* without motion, or one whose decode failed, never starts the cooldown.
OnlyMotionSuppresses ==
  last_motion # None => reported # <<>> /\ last_motion = Last(reported)

SegmentsOf(day) == {archive[i].segment : i \in {j \in DOMAIN archive : archive[j].day = day}}
OneRun(day) == \A s, t \in SegmentsOf(day) : s[1] = t[1]

\* A day that was recorded without a restart of FFmpeg is played back whole, every
\* segment once and in the order it was recorded, whatever order the tasks that
\* archived them came in.
DayPlaysInOrder ==
  \A day \in Days : OneRun(day) =>
    LET played == Played(day)
    IN  /\ Range(played) = SegmentsOf(day)
        /\ \A i, j \in DOMAIN played : i < j => played[i][2] < played[j][2]

\* H.264 Annex A, Table A-1: the most macroblocks a frame of each level has.
MaxFrameSize(level) ==
  CASE level = 10 -> 99 [] level \in {11, 12, 13, 20} -> 396 [] level = 21 -> 792
    [] level \in {22, 30} -> 1620 [] level = 31 -> 3600 [] level = 32 -> 5120
    [] level \in {40, 41} -> 8192 [] level = 42 -> 8704 [] level = 50 -> 22080
    [] OTHER -> 36864

Macroblocks(report) == ((report.columns + 15) \div 16) * ((report.lines + 15) \div 16)

\* Each dimension is in the report, or is left out and coded_width or coded_height
\* is there.  A dimension reported as 0 does not count: the code takes the 0, looks
\* at no coded one, and announces a level as if the size of the frame were unknown.
Measured(report) ==
  \A pair \in {<<report.width, report.coded_width>>, <<report.height, report.coded_height>>} :
    pair[1] > 0 \/ (pair[1] = Absent /\ pair[2] > 0)

\* Whatever level an encoder writes into its SPS, the stream is announced with one
\* that allows its frames if ffprobe could measure them, be it before cropping; and
\* never with a lower level than the encoder declared, if that is one.
CodecFitsFrames ==
  published # None =>
    LET level == published.codec.level
        report == published.report
    IN  /\ Measured(report) => Macroblocks(report) <= MaxFrameSize(level)
        /\ report.level \in ValidLevels => level >= report.level

=============================================================================
