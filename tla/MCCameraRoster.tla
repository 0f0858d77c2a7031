---------------------------- MODULE MCCameraRoster ----------------------------
(* Two cameras of one model, one of them with two nodes that capture and one  *)
(* that does not; two cameras without a bus; an ISP and a codec.              *)
EXTENDS CameraRoster, TLC

Device(unit, bus, caps, name) ==
  [unit |-> unit, bus |-> bus, caps |-> caps, driver |-> name, name |-> name]

C1 == Device("c1", "usb1", {"capture"}, "C920")
C1Raw == Device("c1", "usb1", {"capture", "raw"}, "C920")
C1Meta == Device("c1", "usb1", {"meta"}, "C920")
C2 == Device("c2", "usb2", {"capture"}, "C920")
C3 == Device("c3", Empty, {"capture"}, "Loop")
C4 == Device("c4", Empty, {"capture"}, "Loop 2")
Isp == Device("isp", "soc", {"capture"}, "bcm2835-isp")
Codec == Device("codec", "soc", {"capture", "m2m"}, "codec")

Numbered(a, b, c) == 0 :> a @@ 1 :> b @@ 2 :> c

MCPlugged ==
  {Numbered(C1, C1Meta, C2), Numbered(C1Raw, C1, C3), Numbered(C3, C4, Isp),
   Numbered(Codec, C4, Empty)}

Trial(packets, level, width) ==
  [encoded |-> TRUE, packets |-> packets, probed |-> TRUE, profile |-> "Main",
   level |-> level, width |-> width, height |-> width]
MCTrials == {Trial(0, 0, 0), Trial(9, -99, 1280), Trial(9, 31, 1280)}
MCInstalls == {{"h264_nvenc", "libx264"}, {"libopenh264"}}
MCCandidates == <<"h264_nvenc">>
=============================================================================
