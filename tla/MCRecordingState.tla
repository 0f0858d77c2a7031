-------------------------- MODULE MCRecordingState --------------------------
(***************************************************************************)
(* Two cameras and three policies for TLC: no camera is ordered by all of  *)
(* them, and each one suspends other cameras than the others.              *)
(***************************************************************************)
EXTENDS RecordingState

CONSTANTS c1, c2

MCPolicies ==
  {[record |-> {c1}, suspend |-> {}],
   [record |-> {c2}, suspend |-> {c1}],
   [record |-> {}, suspend |-> {c1, c2}]}
=============================================================================
