---------------------------- MODULE EncoderChoice ----------------------------
(***************************************************************************)
(* Which H.264 encoder FFmpeg is started with: the probe of the hardware   *)
(* encoders and its verification (streaming/hls_generator.rs), the choice  *)
(* kept in the config table by the first start or by setup                 *)
(* (node/runner.rs, setup/mod.rs, setup/tui.rs), and the software encoder  *)
(* it falls back on.  The drivers and the FFmpeg of the machine may change *)
(* between two runs of the program; a probe of an encoder that works may   *)
(* fail, as when the GPU is busy.                                          *)
(*                                                                         *)
(* A name that the environment, /set or the database of an older version   *)
(* gives is used as it is, without a test, unless it is retired.           *)
(***************************************************************************)
EXTENDS Integers, Sequences, FiniteSets

CONSTANTS
  Candidates,   \* the hardware encoders, in the order they are probed
  Retired,      \* encoders once persisted, no longer probed
  Names,        \* what the environment, /set and an older version may give
  Installs,     \* builds of FFmpeg: the encoders each of them has
  Empty,        \* no value
  Trials        \* what the test of an encoder may come to, see Playable

Software == {"libx264", "libopenh264"}
Probed == {Candidates[i] : i \in DOMAIN Candidates}

ASSUME EncoderAssumption ==
  /\ Retired \intersect (Probed \union Software) = {}
  /\ Probed \intersect Software = {} /\ Empty \notin Probed \union Software \union Names
  /\ \A ffmpeg \in Installs : ffmpeg \intersect Software # {}
  /\ Candidates \in Seq(STRING)
  /\ \A trial \in Trials : {trial.packets, trial.level, trial.width, trial.height} \subseteq Int

VARIABLES
  stored,    \* config row "encoder"
  encoder,   \* config.streaming.encoder of this process
  chosen,    \* software_encoder's answer, kept for the life of the process
  listed,    \* ffmpeg -encoders
  good,      \* encoders whose output a browser plays, on this machine now
  override,  \* SOURCEBOX_SENTRY_ENCODER
  \* History:
  proven,    \* encoders that were good when they passed the test
  named      \* names given, but for the retired ones

encoderVars == <<stored, encoder, chosen, listed, good, override, proven, named>>

EncoderInit ==
  /\ stored \in {Empty} \union Names
  /\ encoder = Empty /\ chosen = Empty
  /\ listed \in Installs
  /\ good \in SUBSET Probed
  /\ override \in {Empty} \union Names
  /\ proven = {} /\ named = {stored, override} \ ({Empty} \union Retired)

-----------------------------------------------------------------------------
(* The test of one encoder.                                                *)

\* Mutant: a field that is there is good enough.
PlayableIfThere(trial) == trial.encoded /\ trial.packets > 0 /\ trial.probed /\ trial.profile # Empty

\* verify_encoder and probe_output_is_playable: the encode succeeds and fills a
\* packet at least, ffprobe reads it, and every field of the stream has a value.
Playable(trial) ==
  /\ trial.encoded /\ trial.packets > 0 /\ trial.probed
  /\ trial.profile \notin {Empty, "unknown", "N/A"}
  /\ trial.level > 0 /\ trial.width > 0 /\ trial.height > 0

\* What the tests of a probe may come to: no stream of a bad encoder has all its fields.
Probes == {p \in [Probed -> Trials] :
             \A e \in Probed \ good : p[e].level <= 0 \/ p[e].width <= 0}

\* detect_hw_encoder: the first in the list that FFmpeg has and that passes.
Detected(probe) ==
  LET passing == {i \in DOMAIN Candidates :
                    Candidates[i] \in listed /\ Playable(probe[Candidates[i]])}
  IN  IF passing = {} THEN Empty
      ELSE Candidates[CHOOSE i \in passing : \A j \in passing : i <= j]

OrSoftware(e) == IF e = Empty THEN "libx264" ELSE e

-----------------------------------------------------------------------------
(* The steps of the program.                                               *)

\* from_db and the override of the environment.
LoadEncoder ==
  /\ encoder' = IF override # Empty THEN override ELSE stored
  /\ chosen' = Empty

\* run_internal: a retired encoder is forgotten; then, if there is none, one is
\* detected and kept.  The write may fail, with a warning.
Pick(e) ==
  LET retired == encoder \in Retired
      cleared == IF retired THEN {stored, Empty} ELSE {stored}
      detect == retired \/ encoder = Empty
  IN  /\ encoder' = IF detect THEN e ELSE encoder
      /\ stored' \in IF detect THEN cleared \union {e} ELSE {stored}

PickEncoder ==
  \E probe \in Probes :
    /\ Pick(OrSoftware(Detected(probe)))
    /\ proven' = proven \union ({Detected(probe)} \intersect good)
    /\ UNCHANGED <<chosen, listed, good, override, named>>

\* The setup's own probe; the wizard lets the operator refuse what it found, and
\* stores nothing if it found nothing or the node is to run in WSL.  Before, a
\* setup saves the configuration it loaded, with the override if there is one.
SetupPicksEncoder ==
  \E probe \in Probes :
    /\ stored' \in {OrSoftware(Detected(probe)), "libx264", stored}
                    \union ({override} \ {Empty})
    /\ proven' = proven \union ({Detected(probe)} \intersect good)
    /\ UNCHANGED <<encoder, chosen, listed, good, override, named>>

\* software_encoder: the one this FFmpeg has.
SoftwareEncoder ==
  IF chosen # Empty THEN chosen
  ELSE IF "libx264" \notin listed /\ "libopenh264" \in listed THEN "libopenh264"
  ELSE "libx264"

\* start_from_device and build_encoding_args: what FFmpeg gets as -c:v.
EncoderOfFfmpeg == IF encoder = "libx264" THEN SoftwareEncoder ELSE encoder

\* The encoder is asked for at every start of an FFmpeg.
UseEncoder ==
  /\ chosen' = IF encoder = "libx264" THEN SoftwareEncoder ELSE chosen
  /\ UNCHANGED <<stored, encoder, listed, good, override, proven, named>>

\* start_from_frames: the test pattern goes through the software encoder.
UseSoftware ==
  /\ chosen' = SoftwareEncoder
  /\ UNCHANGED <<stored, encoder, listed, good, override, proven, named>>

\* /set encoder: whatever the operator types is stored, for the next run.
SetEncoder ==
  /\ stored' \in Names
  /\ named' = named \union ({stored'} \ Retired)
  /\ UNCHANGED <<encoder, chosen, listed, good, override, proven>>

\* Between two runs: a driver, another FFmpeg, another environment.
MachineChanges ==
  /\ good' \in SUBSET Probed
  /\ listed' \in Installs
  /\ override' \in {Empty} \union Names
  /\ named' = named \union ({override'} \ ({Empty} \union Retired))
  /\ UNCHANGED <<stored, encoder, chosen, proven>>

=============================================================================
