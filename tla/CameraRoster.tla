----------------------------- MODULE CameraRoster -----------------------------
(***************************************************************************)
(* How a start of the node finds its cameras and keeps track of them: the  *)
(* scan of the V4L2 nodes (camera/platform/linux.rs), the rows of the      *)
(* dashboard, the registration and the wiring of one pipeline per camera   *)
(* (node/runner.rs), and the statuses that the supervisor and the uploader *)
(* write and a heartbeat reads (dashboard/, api/websocket.rs).             *)
(*                                                                         *)
(* Three names of a camera meet here: the path of its node, its display    *)
(* name, and the id Command Center gave to the path.  The supervisor       *)
(* writes by id, the uploader by name.  Two cameras of one model have the  *)
(* same name; a boot may number the nodes differently.                     *)
(***************************************************************************)
EXTENDS EncoderChoice, FiniteSetsExt

CONSTANTS
  Nodes,        \* the numbers N of /dev/videoN
  Plugged,      \* what the numbers may be: devices [unit, bus, caps, driver, name]
  NonCameras,   \* NON_CAMERA_DRIVER_PREFIXES
  Cameras,      \* the units that are cameras
  MaxBoots      \* bound: boots of the machine

ASSUME RosterAssumption ==
  /\ Nodes \subseteq Nat /\ IsFiniteSet(Nodes) /\ MaxBoots \in Nat
  /\ \A d \in Plugged : DOMAIN d = Nodes
  /\ Empty \notin {"local", "cloud"} \X Nodes

\* What query_v4l2_caps returns passes the filters.
Passes(node) ==
  /\ node # Empty
  /\ "capture" \in node.caps /\ "m2m" \notin node.caps
  /\ node.driver \notin NonCameras

\* What the scan relies on: only nodes of cameras pass, and two that pass belong
\* to one camera just if they name one bus.
BusNamesCamera(d) ==
  \A n, m \in Nodes :
    Passes(d[n]) /\ Passes(d[m]) =>
      /\ d[n].unit \in Cameras
      /\ d[n].unit = d[m].unit <=> n = m \/ (d[n].bus # Empty /\ d[n].bus = d[m].bus)

ASSUME MachineAssumption == \A d \in Plugged : BusNamesCamera(d)

VARIABLES
  dev,       \* the node of each number
  readable,  \* the nodes the user may open
  mode,      \* "local" or "connected"
  phase,     \* "off", "registering", "picking", "online"
  detected,  \* detected_cameras, by the number of their node
  rows,      \* dashboard rows, likewise: they are added in the order of the nodes
  mapping,   \* camera_mapping: id by node
  streams,   \* the pipelines: node by camera id
  boots,
  \* History:
  attached,  \* cameras with a node that could be read when the nodes were scanned
  truth      \* the status each pipeline wrote last

cameraVars == <<dev, readable, mode, phase, detected, rows, mapping, streams, boots, attached, truth>>
rosterVars == <<cameraVars, encoderVars>>

RosterInit ==
  /\ dev \in Plugged /\ readable \in {Nodes} \union {Nodes \ {n} : n \in Nodes}
  /\ mode \in {"local", "connected"}
  /\ phase = "off" /\ boots = 0
  /\ detected = <<>> /\ rows = <<>> /\ mapping = <<>> /\ streams = <<>>
  /\ attached = {} /\ truth = <<>>
  /\ EncoderInit

-----------------------------------------------------------------------------
(* The scan.                                                               *)

Captures(n) == n \in readable /\ Passes(dev[n])

\* Mutant: a node without a bus is a duplicate of another one.
DuplicateOfAny(n) == \E m \in Nodes : m < n /\ Captures(m) /\ dev[m].bus = dev[n].bus

\* The first node of a bus wins; a node without a bus is never a duplicate.
Duplicate(n) ==
  /\ dev[n].bus # Empty
  /\ \E m \in Nodes : m < n /\ Captures(m) /\ dev[m].bus = dev[n].bus

\* Of a camera: its name and (history) its unit.
DetectCameras ==
  [n \in {m \in Nodes : Captures(m) /\ ~Duplicate(m)} |->
     [name |-> dev[n].name, unit |-> dev[n].unit]]

-----------------------------------------------------------------------------
(* The rows of the dashboard.                                              *)

\* find: the first of the rows that match, if there is one.
FirstOf(matching) == {n \in matching : \A m \in matching : n <= m}
RowOfName(table, name) == FirstOf({n \in DOMAIN table : table[n].name = name})
RowOfId(table, id) == FirstOf({n \in DOMAIN table : table[n].id = id})

UpdateStatus(found, status) ==
  rows' = [n \in DOMAIN rows |-> IF n \in found THEN [rows[n] EXCEPT !.status = status]
                                                ELSE rows[n]]

NewRow(camera) == [name |-> camera.name, id |-> Empty, status |-> "Starting"]

\* The id the node makes up for a path, and the id its pipeline runs under.
LocalId(n) == <<"local", n>>
CameraId(n) == IF n \in DOMAIN mapping THEN mapping[n] ELSE LocalId(n)

\* Mutant: the ids are handed to the rows in the order they come.
WithIdsInOrder(table, ids) ==
  LET upTo(n, S) == Cardinality({m \in S : m <= n})
      givers(n) == {p \in DOMAIN ids : upTo(p, DOMAIN ids) = upTo(n, DOMAIN table)}
  IN  [n \in DOMAIN table |-> IF givers(n) = {} THEN table[n]
                             ELSE [table[n] EXCEPT !.id = ids[Max(givers(n))]]]

\* set_camera_id for every camera whose path has an id: of those that find the
\* same row, the last one leaves its id there.
WithIds(table, ids) ==
  LET givers(n) == {p \in DOMAIN detected \intersect DOMAIN ids :
                      n \in RowOfName(table, detected[p].name)}
  IN  [n \in DOMAIN table |-> IF givers(n) = {} THEN table[n]
                             ELSE [table[n] EXCEPT !.id = ids[Max(givers(n))]]]

-----------------------------------------------------------------------------
(* A start of the node.                                                    *)

Launch ==
  /\ phase = "off" /\ phase' = "registering"
  /\ LoadEncoder
  /\ detected' = DetectCameras
  /\ rows' = [n \in DOMAIN detected' |-> NewRow(detected'[n])]
  /\ attached' = {dev[n].unit : n \in {m \in Nodes : Captures(m)}} \intersect Cameras
  /\ UNCHANGED <<dev, readable, mode, mapping, streams, boots, truth,
                 stored, listed, good, override, proven, named>>

\* register_with_cloud: Command Center gives ids to the paths it accepts; the
\* plan may leave cameras out.  A local node makes up all of them.
Register ==
  /\ phase = "registering" /\ phase' = "picking"
  /\ \/ /\ mode = "local"
        /\ mapping' = <<>> /\ rows' = WithIds(rows, [n \in DOMAIN detected |-> LocalId(n)])
     \/ /\ mode = "connected"
        /\ \E accepted \in SUBSET DOMAIN detected :
             mapping' = [n \in accepted |-> <<"cloud", n>>]
        /\ rows' = WithIds(rows, mapping')
  /\ UNCHANGED <<dev, readable, mode, detected, streams, boots, attached, truth, encoderVars>>

\* The encoder, then an uploader and a supervisor for every camera found.
Wire ==
  /\ phase = "picking" /\ phase' = "online"
  /\ PickEncoder
  /\ LET ids == {CameraId(n) : n \in DOMAIN detected}
     IN  /\ streams' = [id \in ids |-> CHOOSE n \in DOMAIN detected : CameraId(n) = id]
         /\ truth' = [id \in ids |-> "Starting"]
  /\ UNCHANGED <<dev, readable, mode, detected, rows, mapping, boots, attached>>

\* validate_device_available.
Available(n) == n \in readable /\ dev[n] # Empty

Wrote(id, status) == truth' = [truth EXCEPT ![id] = status]

\* A start by the supervisor, which writes by id.  A first start without the
\* device falls back on the test pattern; a later one is a crash.
StartCamera(id) ==
  /\ phase = "online" /\ Available(streams[id])
  /\ UseEncoder
  /\ UpdateStatus(RowOfId(rows, id), "Streaming") /\ Wrote(id, "Streaming")
  /\ UNCHANGED <<dev, readable, mode, phase, detected, mapping, streams, boots, attached>>

StartTestPattern(id) ==
  /\ phase = "online" /\ ~Available(streams[id]) /\ truth[id] \in {"Starting", "Error"}
  /\ UseSoftware
  /\ UpdateStatus(RowOfId(rows, id), "Streaming") /\ Wrote(id, "Streaming")
  /\ UNCHANGED <<dev, readable, mode, phase, detected, mapping, streams, boots, attached>>

\* A crash of FFmpeg: Restarting or Failed, which are one status here.
FfmpegFailed(id) ==
  /\ phase = "online"
  /\ UpdateStatus(RowOfId(rows, id), "Failed") /\ Wrote(id, "Failed")
  /\ UNCHANGED <<dev, readable, mode, phase, detected, mapping, streams, boots, attached, encoderVars>>

\* The uploader sees segments, or none for too long; it writes by name.
UploaderReports(id) ==
  /\ phase = "online"
  /\ \E status \in {"Streaming", "Error"} :
       UpdateStatus(RowOfName(rows, detected[streams[id]].name), status) /\ Wrote(id, status)
  /\ UNCHANGED <<dev, readable, mode, phase, detected, mapping, streams, boots, attached, encoderVars>>

\* The operator, at the dashboard.
ChooseEncoder ==
  /\ phase = "online" /\ SetEncoder
  /\ UNCHANGED cameraVars

\* The program ends or dies.
End ==
  /\ phase # "off" /\ phase' = "off"
  /\ detected' = <<>> /\ rows' = <<>> /\ mapping' = <<>> /\ streams' = <<>>
  /\ attached' = {} /\ truth' = <<>>
  /\ UNCHANGED <<dev, readable, mode, boots, encoderVars>>

-----------------------------------------------------------------------------
(* The machine.                                                            *)

\* A unit goes, with all its nodes.
Unplug ==
  /\ phase # "off"
  /\ \E unit \in {dev[n].unit : n \in {m \in Nodes : dev[m] # Empty}} :
       dev' = [n \in Nodes |-> IF dev[n] # Empty /\ dev[n].unit = unit THEN Empty ELSE dev[n]]
  /\ UNCHANGED <<readable, mode, phase, detected, rows, mapping, streams, boots, attached, truth,
                 encoderVars>>

\* The next boot may number the nodes in another order.
Boot ==
  /\ phase = "off" /\ boots < MaxBoots
  /\ boots' = boots + 1
  /\ dev' \in Plugged /\ readable' = Nodes
  /\ MachineChanges
  /\ UNCHANGED <<mode, phase, detected, rows, mapping, streams, attached, truth>>

\* A setup between two runs.
Setup ==
  /\ phase = "off" /\ SetupPicksEncoder
  /\ UNCHANGED cameraVars

RosterNext ==
  \/ Launch \/ Register \/ Wire \/ End \/ Setup \/ ChooseEncoder
  \/ \E id \in DOMAIN streams : StartCamera(id) \/ StartTestPattern(id)
                             \/ FfmpegFailed(id) \/ UploaderReports(id)
  \/ Unplug \/ Boot

RosterSpec == RosterInit /\ [][RosterNext]_rosterVars

-----------------------------------------------------------------------------
(* Correctness.                                                            *)

\* build_heartbeat: the status of the row with the id; without one, "Streaming".
Reported(id) ==
  LET found == RowOfId(rows, id)
  IN  IF found = {} THEN "Streaming" ELSE rows[CHOOSE n \in found : TRUE].status

DistinctNames == IsInjective([n \in DOMAIN detected |-> detected[n].name])

\* What a heartbeat says of a camera is what that camera's own pipeline wrote
\* last, whichever of its two writers that was, and whatever cameras the plan
\* leaves out: as long as no two cameras have the same name.
HeartbeatIsTrue ==
  phase = "online" /\ DistinctNames =>
    \A n \in DOMAIN mapping : Reported(mapping[n]) = truth[mapping[n]]

\* One pipeline for every camera that can be read, and no other: not two on
\* the nodes of one camera, none on a codec or the metadata of a camera.
EachCameraOnce ==
  phase = "online" =>
    /\ {detected[streams[id]].unit : id \in DOMAIN streams} = attached
    /\ Cardinality(DOMAIN streams) = Cardinality(attached)

\* What FFmpeg is started with passed the test, is software, or was named in the
\* environment, with /set or by an older version: those names are used untested.
\* A retired encoder is started by no path, whoever named it.
OnlyProvenOrNamed ==
  phase = "online" => EncoderOfFfmpeg \in (Software \union proven \union named) \ Retired

\* If it is to be software, it is a software encoder this FFmpeg has, also when
\* the choice was stored while another FFmpeg was installed; and so is that of
\* the test pattern.
SoftwareIsThere ==
  phase = "online" =>
    /\ encoder = "libx264" => EncoderOfFfmpeg \in listed
    /\ chosen # Empty => chosen \in listed

\* No choice that the program makes, in whatever order starts, setups, changes of
\* the machine and of the environment, and /set come, gives FFmpeg an encoder that
\* does not work: only a name given from outside may.
EncoderWorks == OnlyProvenOrNamed /\ SoftwareIsThere

=============================================================================
