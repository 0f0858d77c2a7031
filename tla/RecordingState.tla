--------------------------- MODULE RecordingState ---------------------------
(***************************************************************************)
(* What decides, segment by segment, whether a camera's video is archived  *)
(* or pushed at all: the shared recording set, the set of cameras          *)
(* suspended by the plan, and the flag that pauses the archive on a full   *)
(* disk.  In Local mode the recording toggle (server/api.rs) writes the    *)
(* set and the table local_recording_state, and a restart reseeds the set  *)
(* from the table.  In Connected mode the toggle is refused with 409 and   *)
(* the heartbeat task (node/runner.rs, api/client.rs) replaces the sets    *)
(* with Command Center's answers and takes the disk figure                 *)
(* (storage/stats.rs).  The readers are the upload tasks of SegmentUpload. *)
(*                                                                         *)
(* policies is the history of what Command Center orders; the node sees    *)
(* only the answers.  The contents of a heartbeat, plan badges and hints   *)
(* do not matter here.                                                     *)
(***************************************************************************)
EXTENDS Naturals, Sequences

CONSTANTS
  Cameras,
  Handlers,     \* HTTP worker threads that may run a toggle
  Modes,        \* modes the node may be configured for
  Policies,     \* what Command Center may order: [record, suspend]
  MaxAttempts,  \* attempts of heartbeat_with_retry
  MaxPolicies,  \* bound: policies ever in force
  MaxToggles,   \* bound: toggles
  MaxDiskSteps, \* bound: changes of the disk
  MaxRestarts   \* bound: restarts of the node

ASSUME RecordingAssumption ==
  /\ Modes \subseteq {"Local", "Connected"}
  /\ Policies \subseteq [record : SUBSET Cameras, suspend : SUBSET Cameras]
  /\ MaxAttempts \in Nat \ {0}
  /\ MaxPolicies \in Nat \ {0}

VARIABLES
  mode,
  known,        \* cameras registered with the dashboard in this run
  recording,    \* recording_state, shared with the upload tasks
  row,          \* local_recording_state
  suspended,    \* disabled_cameras of the dashboard
  paused,       \* RECORDING_PAUSED_FOR_DISK
  toggle,       \* the toggle each handler is executing
  unsure,       \* cameras whose toggles overlapped or failed: the set and
                \* the table may differ
  hb,           \* the heartbeat task
  heard,        \* a policy in force no longer ago than the last attempt that
                \* was answered, for each of the two sets; 0 before the first
  policies,     \* policies of Command Center, the last one in force
  disk,         \* free space: above the floor, below it, or none
  count         \* toggles, disk steps and restarts so far

nodeVars == <<known, recording, row, suspended, paused, toggle, unsure>>
vars == <<mode, nodeVars, hb, heard, policies, disk, count>>

Idle == [step |-> "idle"]
Toggles == {Idle} \union
  [step : {"set"}, camera : Cameras, on : BOOLEAN, alone : BOOLEAN]
\* The answer to a heartbeat; orders holds the set of cameras to record, or
\* nothing if an older backend left out the field recording_state.
Answers == [orders : {{}} \union {{set} : set \in SUBSET Cameras},
            suspend : SUBSET Cameras]
NoAnswer == [orders |-> {}, suspend |-> {}]
Heartbeats ==
  [step : {"collect", "send", "sent", "answered", "reconcile", "sleep"},
   attempts : 0 .. MaxAttempts - 1,
   began : Nat,           \* policies known when the attempt was sent
   answer : Answers]
FirstHeartbeat ==
  [step |-> "collect", attempts |-> 0, began |-> 0, answer |-> NoAnswer]

InForce == policies[Len(policies)]
Toggling(c) == {h \in Handlers : toggle[h] # Idle /\ toggle[h].camera = c}
Stored(on) == IF on THEN "on" ELSE "off"
OnRows == {c \in Cameras : row[c] = "on"}

\* The heartbeat task exists in Connected mode only, the recording rows are
\* written in Local mode only.
TypeOK ==
  /\ mode \in Modes
  /\ known \in SUBSET Cameras /\ recording \in SUBSET Cameras
  /\ suspended \in SUBSET Cameras /\ unsure \in SUBSET Cameras
  /\ row \in [Cameras -> {"none", "on", "off"}]
  /\ paused \in BOOLEAN
  /\ toggle \in [Handlers -> Toggles]
  /\ hb \in Heartbeats
  /\ heard \in [record : Nat, suspend : Nat]
  /\ policies \in Seq(Policies) /\ Len(policies) \in 1 .. MaxPolicies
  /\ disk \in {"ample", "low", "none"}
  /\ count \in [toggles : Nat, disk : Nat, restarts : Nat]
  /\ mode = "Connected" => row = [c \in Cameras |-> "none"]
  /\ mode = "Local" => hb = FirstHeartbeat

Init ==
  /\ mode \in Modes
  /\ known \in SUBSET Cameras
  /\ row = [c \in Cameras |-> "none"]
  /\ recording = {} /\ suspended = {} /\ unsure = {}
  /\ paused = FALSE
  /\ toggle = [h \in Handlers |-> Idle]
  /\ hb = FirstHeartbeat
  /\ heard = [record |-> 0, suspend |-> 0]
  /\ \E p \in Policies : policies = <<p>>
  /\ disk \in {"ample", "low", "none"}
  /\ count = [toggles |-> 0, disk |-> 0, restarts |-> 0]

-----------------------------------------------------------------------------
(* The recording toggle: the shared set first, then the database.          *)

\* The set after the toggle's insert or remove.
Toggled(set, c, on) == IF on THEN set \union {c} ELSE set \ {c}

\* A toggle that starts while another one of the same camera runs overlaps
\* with it: neither is alone.
Overlaps(h, c) ==
  [g \in Handlers |-> IF g \in Toggling(c) THEN [toggle[g] EXCEPT !.alone = FALSE]
                      ELSE toggle[g]]

\* In Connected mode (409) and for an unknown camera (404) nothing changes.
MayToggle(c) == mode = "Local" /\ c \in known

\* POST /api/cameras/{id}/recording up to the release of the set's lock.
ToggleSet(h, c, on) ==
  /\ MayToggle(c)
  /\ toggle[h] = Idle
  /\ count.toggles < MaxToggles
  /\ count' = [count EXCEPT !.toggles = @ + 1]
  /\ recording' = Toggled(recording, c, on)
  /\ toggle' = [Overlaps(h, c) EXCEPT
       ![h] = [step |-> "set", camera |-> c, on |-> on, alone |-> Toggling(c) = {}]]
  /\ unsure' = IF Toggling(c) = {} THEN unsure ELSE unsure \union {c}
  /\ UNCHANGED <<mode, known, row, suspended, paused, hb, heard, policies, disk>>

\* set_local_recording writes the row and the toggle is acknowledged.
ToggleSave(h) ==
  /\ toggle[h] # Idle
  /\ row' = [row EXCEPT ![toggle[h].camera] = Stored(toggle[h].on)]
  /\ unsure' = IF toggle[h].alone THEN unsure \ {toggle[h].camera} ELSE unsure
  /\ toggle' = [toggle EXCEPT ![h] = Idle]
  /\ UNCHANGED <<mode, known, recording, suspended, paused, hb, heard, policies,
                 disk, count>>

\* The write fails: 500, with the set already changed.
ToggleSaveFails(h) ==
  /\ toggle[h] # Idle
  /\ unsure' = unsure \union {toggle[h].camera}
  /\ toggle' = [toggle EXCEPT ![h] = Idle]
  /\ UNCHANGED <<mode, known, recording, row, suspended, paused, hb, heard,
                 policies, disk, count>>

-----------------------------------------------------------------------------
(* The heartbeat task.                                                     *)

\* Mutant: the pause is never released.
PausedOnceLow(free) == paused \/ free = "low"

\* StorageStats::collect sees a figure and sets the flag from it; a figure of
\* 0 stands for "no disk identified" and leaves the flag alone.
PausedAfter(free) == IF free = "none" THEN paused ELSE free = "low"

CollectDisk ==
  /\ mode = "Connected" /\ hb.step = "collect"
  /\ paused' = PausedAfter(disk)
  /\ hb' = [hb EXCEPT !.step = "send", !.attempts = 0]
  /\ UNCHANGED <<mode, known, recording, row, suspended, toggle, unsure, heard,
                 policies, disk, count>>

\* total_size fails, so that collect is not called, or no mount point
\* matches the data directory.
NoDiskFigure ==
  /\ mode = "Connected" /\ hb.step = "collect"
  /\ hb' = [hb EXCEPT !.step = "send", !.attempts = 0]
  /\ UNCHANGED <<mode, nodeVars, heard, policies, disk, count>>

\* ApiClient::heartbeat posts the request.
SendHeartbeat ==
  /\ hb.step = "send"
  /\ hb' = [hb EXCEPT !.step = "sent", !.began = Len(policies), !.answer = NoAnswer]
  /\ UNCHANGED <<mode, nodeVars, heard, policies, disk, count>>

\* Command Center answers from the policy in force; an older one omits the
\* recording states.  One that does not know suspension orders none.
Answer(info) ==
  /\ hb.step = "sent"
  /\ hb' = [hb EXCEPT !.step = "answered",
       !.answer = [orders |-> IF info THEN {InForce.record} ELSE {},
                   suspend |-> InForce.suspend]]
  /\ UNCHANGED <<mode, nodeVars, heard, policies, disk, count>>

\* The attempt fails, before or after Command Center saw it: wait and retry,
\* or give up until the next tick.
AttemptFails ==
  /\ hb.step \in {"sent", "answered"}
  /\ hb' = [hb EXCEPT !.answer = NoAnswer,
       !.step = IF hb.attempts + 1 >= MaxAttempts THEN "sleep" ELSE "send",
       !.attempts = IF hb.attempts + 1 >= MaxAttempts THEN 0 ELSE @ + 1]
  /\ UNCHANGED <<mode, nodeVars, heard, policies, disk, count>>

\* Mutant: an empty list is taken for a missing field.
NewlySuspended(incoming) == IF incoming = {} THEN suspended ELSE incoming

\* set_disabled_cameras: the next suspended set is the answer's.
Suspended(incoming) == incoming

\* The suspended set is replaced under the dashboard's lock ...
ApplyPlan ==
  /\ hb.step = "answered"
  /\ suspended' = Suspended(hb.answer.suspend)
  /\ heard' = [heard EXCEPT !.suspend = hb.began]
  /\ hb' = [hb EXCEPT !.step = "reconcile"]
  /\ UNCHANGED <<mode, known, recording, row, paused, toggle, unsure, policies,
                 disk, count>>

\* Mutant: the answer is merged, not a replacement.
ReconciledByInsert(current, target) == current \union target

\* reconcile_recording_state: the next set is the answer's, whatever the
\* current one holds.
Reconciled(current, target) == target

\* ... and then, under the other lock, the recording set is reconciled.
ApplyRecording ==
  /\ hb.step = "reconcile"
  /\ hb' = [hb EXCEPT !.step = "sleep", !.attempts = 0, !.answer = NoAnswer]
  /\ \/ hb.answer.orders = {} /\ UNCHANGED <<recording, heard>>
     \/ \E target \in hb.answer.orders :
          /\ recording' = Reconciled(recording, target)
          /\ heard' = [heard EXCEPT !.record = hb.began]
  /\ UNCHANGED <<mode, known, row, suspended, paused, toggle, unsure, policies,
                 disk, count>>

NextTick ==
  /\ hb.step = "sleep"
  /\ hb' = [hb EXCEPT !.step = "collect"]
  /\ UNCHANGED <<mode, nodeVars, heard, policies, disk, count>>

-----------------------------------------------------------------------------
(* The node stops, cleanly or not, and boots: the sets and the flag are    *)
(* in memory only.  In Local mode the set is seeded from the table, or     *)
(* left empty if the table cannot be read.                                 *)

\* Mutant: the seed ignores what the row says.
SeedFromEveryRow(readable) ==
  IF mode = "Local" /\ readable THEN {c \in Cameras : row[c] # "none"} ELSE {}

Seed(readable) == IF mode = "Local" /\ readable THEN OnRows ELSE {}

Restart(cameras, readable) ==
  /\ count.restarts < MaxRestarts
  /\ count' = [count EXCEPT !.restarts = @ + 1]
  /\ known' = cameras
  /\ recording' = Seed(readable)
  /\ unsure' = IF readable THEN {} ELSE OnRows
  /\ suspended' = {} /\ paused' = FALSE
  /\ toggle' = [h \in Handlers |-> Idle]
  /\ hb' = FirstHeartbeat
  /\ heard' = [record |-> 0, suspend |-> 0]
  /\ UNCHANGED <<mode, row, policies, disk>>

\* The operator or the clock changes the policy at Command Center.
ChangePolicy(p) ==
  /\ mode = "Connected"
  /\ Len(policies) < MaxPolicies
  /\ policies' = Append(policies, p)
  /\ UNCHANGED <<mode, nodeVars, hb, heard, disk, count>>

\* Anything on the host fills or frees the disk.
DiskChanges(free) ==
  /\ count.disk < MaxDiskSteps /\ disk # free
  /\ count' = [count EXCEPT !.disk = @ + 1]
  /\ disk' = free
  /\ UNCHANGED <<mode, nodeVars, hb, heard, policies>>

Next ==
  \/ \E h \in Handlers, c \in Cameras, on \in BOOLEAN : ToggleSet(h, c, on)
  \/ \E h \in Handlers : ToggleSave(h)
  \/ \E h \in Handlers : ToggleSaveFails(h)
  \/ CollectDisk
  \/ NoDiskFigure
  \/ SendHeartbeat
  \/ \E info \in BOOLEAN : Answer(info)
  \/ AttemptFails
  \/ ApplyPlan
  \/ ApplyRecording
  \/ NextTick
  \/ \E cameras \in SUBSET Cameras, readable \in BOOLEAN : Restart(cameras, readable)
  \/ \E p \in Policies : ChangePolicy(p)
  \/ \E free \in {"ample", "low", "none"} : DiskChanges(free)

Spec == Init /\ [][Next]_vars

\* A complete answer comes through.
ReceiveOrders == ApplyPlan /\ hb.answer.orders # {}

(* The steps of the task are taken: a request ends in an answer or in the  *)
(* client's timeout of 10 s, a handler runs to its end.  The network, an   *)
(* older backend and the database may fail any number of times, but what   *)
(* could succeed infinitely often sometimes does: the disk figure, a       *)
(* complete answer, its way back.                                          *)
Fairness ==
  /\ WF_vars(CollectDisk \/ NoDiskFigure) /\ SF_vars(CollectDisk)
  /\ WF_vars(SendHeartbeat)
  /\ WF_vars(AttemptFails \/ \E info \in BOOLEAN : Answer(info))
  /\ SF_vars(Answer(TRUE)) /\ SF_vars(ReceiveOrders) /\ WF_vars(ApplyPlan \/ AttemptFails)
  /\ WF_vars(ApplyRecording) /\ WF_vars(NextTick)
  /\ \A h \in Handlers : WF_vars(ToggleSave(h) \/ ToggleSaveFails(h))

FairSpec == Spec /\ Fairness

-----------------------------------------------------------------------------
(* Properties.                                                             *)

\* Whatever answers were lost, retried or incomplete, each set is what Command
\* Center ordered at some moment since the last answered attempt was sent: never
\* a mixture of two orders, nor one already replaced by then
\* (reconcile_recording_state and set_disabled_cameras replace wholesale).
SetsAreRecent ==
  mode = "Connected" =>
    /\ heard.record > 0 =>
         \E v \in heard.record .. Len(policies) : recording = policies[v].record
    /\ heard.suspend > 0 =>
         \E v \in heard.suspend .. Len(policies) : suspended = policies[v].suspend

\* Once the orders no longer change, the node comes to follow them and stays
\* with them, through failed attempts, older backends and restarts (the
\* "self-healing" of the heartbeat loop).
FollowsPolicy ==
  <>[](mode = "Connected" =>
         recording = InForce.record /\ suspended = InForce.suspend)

\* With a heartbeat running, a disk that stays below the floor comes to pause
\* the archive for good, and one that stays above it comes to release it.
FlagFollowsDisk ==
  mode = "Connected" => /\ <>[](disk = "low") => <>[]paused
                        /\ <>[](disk = "ample") => <>[]~paused

\* In Local mode a restart would load the set as it is, for every camera without
\* a toggle under way, unless its toggles overlapped or failed and none has
\* run alone since: the set and the table, each under its own lock, agree.
SetMatchesRows ==
  mode = "Local" =>
    \A c \in Cameras \ unsure :
      Toggling(c) = {} => (c \in recording <=> row[c] = "on")

=============================================================================
