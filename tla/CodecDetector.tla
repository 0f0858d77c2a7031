---------------------------- MODULE CodecDetector ----------------------------
(***************************************************************************)
(* The codec string a camera's stream is announced with                    *)
(* (streaming/codec_detector.rs), from what ffprobe says of a segment: its *)
(* profile, its level and its dimensions.  Of a faulty SPS ffprobe may     *)
(* leave any of them out, or report it as 0 or as what the encoder made    *)
(* up.  A browser refuses a stream whose frames are larger than the        *)
(* announced level allows.                                                 *)
(*                                                                         *)
(* Every FFmpeg the node starts encodes H.264: the names of the other      *)
(* codecs are left out.                                                    *)
(***************************************************************************)
EXTENDS Integers, FiniteSetsExt

\* A number ffprobe leaves out of its report; those it gives are not negative.
Absent == -1

ValidLevels == {10, 11, 12, 13, 20, 21, 22, 30, 31, 32, 40, 41, 42, 50, 51, 52}

Distance(a, b) == IF a < b THEN b - a ELSE a - b

\* normalize_h264_level: the nearest valid level, the lower one of two.
NormalizeLevel(level) ==
  CHOOSE v \in ValidLevels :
    \A w \in ValidLevels \ {v} :
      \/ Distance(v, level) < Distance(w, level)
      \/ Distance(v, level) = Distance(w, level) /\ v < w

\* The most pixels a frame of each level has; beyond them it is level 51.
PixelLimits ==
  {<<25344, 10>>, <<101376, 12>>, <<307200, 22>>, <<414720, 30>>,
   <<921600, 31>>, <<2073600, 40>>, <<3686400, 50>>}

\* derive_level_from_resolution
DeriveLevel(width, height) ==
  Min({51} \union {limit[2] : limit \in {l \in PixelLimits : width * height <= l[1]}})

\* Width and height, or those before cropping if ffprobe leaves them out.  One it
\* reports as 0 stays 0.
Width(report) == IF report.width = Absent THEN report.coded_width ELSE report.width
Height(report) == IF report.height = Absent THEN report.coded_height ELSE report.height

Sized(report) == Width(report) > 0 /\ Height(report) > 0

\* Mutant: a level that ffprobe reports is believed.
ReportedLevel(report) ==
  IF report.level > 0 THEN report.level
  ELSE IF Sized(report) THEN DeriveLevel(Width(report), Height(report)) ELSE 30

\* The greater of the level reported, if it is one, and the level that the
\* dimensions need, if they are known; without either, 3.0.
EffectiveLevel(report) ==
  LET sane == IF report.level >= 10 THEN {report.level} ELSE {}
      needed == IF Sized(report) THEN {DeriveLevel(Width(report), Height(report))} ELSE {}
  IN  IF sane \union needed = {} THEN 30 ELSE Max(sane \union needed)

\* An unknown profile is Baseline.
ProfileBytes(profile) ==
  CASE profile = "Main" -> "4da0"
    [] profile = "High" -> "64a0"
    [] OTHER -> "42e0"

\* to_hls_codec_string: avc1.<profile and constraints><level>.
HlsCodec(report) ==
  [profile |-> ProfileBytes(report.profile), level |-> NormalizeLevel(EffectiveLevel(report))]

=============================================================================
