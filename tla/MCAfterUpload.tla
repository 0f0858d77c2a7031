---------------------------- MODULE MCAfterUpload ----------------------------
(* What ffprobe may say of a segment: the level 0 of a faulty SPS or a level    *)
(* between two that exist; both pairs of dimensions, only one of them, one of   *)
(* each, none, or 0 beside the coded pair.                                      *)
EXTENDS AfterUpload

Report(columns, lines, level, width, height, coded) ==
  [columns |-> columns, lines |-> lines, profile |-> "High", level |-> level,
   width |-> width, height |-> height,
   coded_width |-> coded, coded_height |-> IF coded = Absent THEN Absent ELSE lines]

MCReports ==
  {Report(1920, 1080, 0, 1920, 1080, 1920), Report(1920, 1080, 10, Absent, Absent, 1920),
   Report(1920, 1080, 0, 0, 0, 1920), Report(1920, 1080, Absent, Absent, Absent, Absent),
   Report(1280, 720, 42, 1280, 720, Absent), Report(640, 480, 26, 640, Absent, 640)}
=============================================================================
