SPECIFICATION RosterSpec
CONSTANTS
  Empty = Empty
  Candidates <- MCCandidates
  Retired = {"h264_v4l2m2m"}
  Names = {"h264_v4l2m2m", "h264_qsv"}
  Installs <- MCInstalls
  Trials <- MCTrials
  Nodes = {0, 1, 2}
  Plugged <- MCPlugged
  NonCameras = {"bcm2835-isp"}
  Cameras = {"c1", "c2", "c3", "c4"}
  MaxBoots = 1
INVARIANTS
  HeartbeatIsTrue
  EachCameraOnce
  
