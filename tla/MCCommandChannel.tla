-------------------------- MODULE MCCommandChannel --------------------------
(***************************************************************************)
(* Commands for TLC: a snapshot and a command of another kind.             *)
(***************************************************************************)
EXTENDS CommandChannel, TLC

CONSTANTS shot, erase

MCKinds == shot :> "take_snapshot" @@ erase :> "wipe_data"
MCMoments == {2}
=============================================================================
