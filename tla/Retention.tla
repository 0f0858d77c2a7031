----------------------------- MODULE Retention ------------------------------
(***************************************************************************)
(* The recording archive of a node and its storage cap: NodeDatabase's     *)
(* tables (storage/database.rs), StorageCap and change_cap                 *)
(* (storage/stats.rs), the retention loop (node/runner.rs) and the two     *)
(* handlers that change the cap (server/api.rs, api/websocket.rs).         *)
(*                                                                         *)
(* A row is its id and its size; sizes and caps share one unit.  Every     *)
(* method of NodeDatabase holds the connection mutex while it runs, so it  *)
(* is one step; enforce_retention takes the mutex twice, and its DELETEs   *)
(* commit one by one, so that a crash keeps those already done.            *)
(***************************************************************************)
EXTENDS Integers, FiniteSets, Functions, FiniteSetsExt

CONSTANTS
  Changers,     \* tasks that may run change_cap at the same time
  Loop,         \* the retention loop
  NoTask,       \* nobody holds the connection mutex
  Caps,         \* the caps validate_cap_gb accepts
  DefaultCap,   \* max_size_gb of a node that has none saved
  NoRow,        \* the config table has no max_size_gb
  SegmentSizes, \* sizes of segments
  SnapshotSizes,\* sizes of snapshots
  MaxRows       \* bound: rows ever saved

Tasks == Changers \union {Loop}
Sizes == SegmentSizes \union SnapshotSizes

ASSUME RetentionAssumption ==
  /\ Loop \notin Changers /\ NoTask \notin Tasks
  /\ Caps \subseteq Nat \ {0} /\ DefaultCap \in Caps /\ NoRow \notin Caps
  /\ Sizes \subseteq Nat \ {0}
  /\ MaxRows \in Nat

\* A cap is at least 1 GiB, a segment or a snapshot is a few MiB.
ASSUME RowsAreSmall == \A size \in Sizes, c \in Caps : size <= c

VARIABLES
  recordings,   \* recording_segments: size by id
  lastRecording,\* AUTOINCREMENT: an id is never used again
  snapshots,    \* snapshots: size by id
  lastSnapshot,
  cap,          \* StorageCap, shared by all tasks
  savedCap,     \* config row max_size_gb
  lock,         \* the task that keeps the connection mutex across its steps
  pc,           \* where each task is in change_cap and enforce_retention
  local,        \* their local variables: gb, previous_gb, max_bytes, total,
                \* freed
  recent        \* the caps of the last change and of those it overlapped with;
                \* no code reads it

tables == <<recordings, lastRecording, snapshots, lastSnapshot>>
vars == <<tables, cap, savedCap, lock, pc, local, recent>>

\* Every unit that a row of the table takes up.
SizeOf(table) == Cardinality(UNION {{id} \X (1 .. table[id]) : id \in DOMAIN table})
Total == SizeOf(recordings) + SizeOf(snapshots)

Locals == [gb : Caps, previous : Caps, limit : Caps, total : Nat, freed : Nat]
NoLocals == [gb |-> DefaultCap, previous |-> DefaultCap, limit |-> DefaultCap,
             total |-> 0, freed |-> 0]

\* The task that deletes, and no other, holds the connection mutex.
TypeOK ==
  /\ DOMAIN recordings \subseteq 1 .. lastRecording
  /\ DOMAIN snapshots \subseteq 1 .. lastSnapshot
  /\ Range(recordings) \union Range(snapshots) \subseteq Sizes
  /\ lastRecording \in 0 .. MaxRows /\ lastSnapshot \in 0 .. MaxRows
  /\ cap \in Caps
  /\ savedCap \in Caps \union {NoRow}
  /\ lock \in Tasks \union {NoTask}
  /\ pc \in [Tasks -> {"idle", "save", "read", "set", "limit", "sum", "lock",
                       "delete"}]
  /\ local \in [Tasks -> Locals]
  /\ \A t \in Tasks : pc[t] = "delete" <=> lock = t
  /\ recent \subseteq Caps

Init ==
  /\ recordings = <<>> /\ lastRecording = 0
  /\ snapshots = <<>> /\ lastSnapshot = 0
  /\ cap = DefaultCap
  /\ savedCap = NoRow
  /\ lock = NoTask
  /\ pc = [t \in Tasks |-> "idle"]
  /\ local = [t \in Tasks |-> NoLocals]
  /\ recent = {DefaultCap}

Inserted(table, id, size) ==
  [row \in DOMAIN table \union {id} |-> IF row = id THEN size ELSE table[row]]
Without(table, id) == Restrict(table, DOMAIN table \ {id})

Goto(t, label) == pc' = [pc EXCEPT ![t] = label]

\* The task's current call is over, and its locals are gone.
Return(t) == Goto(t, "idle") /\ local' = [local EXCEPT ![t] = NoLocals]
-----------------------------------------------------------------------------
(* What else writes the tables.                                            *)

SaveRecordingSegment ==
  /\ lock = NoTask /\ lastRecording + lastSnapshot < MaxRows
  /\ lastRecording' = lastRecording + 1
  /\ \E size \in SegmentSizes : recordings' = Inserted(recordings, lastRecording', size)
  /\ UNCHANGED <<snapshots, lastSnapshot, cap, savedCap, lock, pc, local, recent>>

\* Mutant: the rows are written on a connection of their own.
SaveSnapshotBeside ==
  /\ lastRecording + lastSnapshot < MaxRows
  /\ lastSnapshot' = lastSnapshot + 1
  /\ \E size \in SnapshotSizes : snapshots' = Inserted(snapshots, lastSnapshot', size)
  /\ UNCHANGED <<recordings, lastRecording, cap, savedCap, lock, pc, local, recent>>

SaveSnapshot ==
  /\ lock = NoTask /\ lastRecording + lastSnapshot < MaxRows
  /\ lastSnapshot' = lastSnapshot + 1
  /\ \E size \in SnapshotSizes : snapshots' = Inserted(snapshots, lastSnapshot', size)
  /\ UNCHANGED <<recordings, lastRecording, cap, savedCap, lock, pc, local, recent>>

DeleteSnapshot ==
  /\ lock = NoTask
  /\ \E id \in DOMAIN snapshots : snapshots' = Without(snapshots, id)
  /\ UNCHANGED <<recordings, lastRecording, lastSnapshot, cap, savedCap, lock,
                 pc, local, recent>>

\* The command wipe_data empties the tables, the config included, and the
\* node runs on.  The DELETEs commit one by one, in this order: an error or a
\* crash may come after any of them.
WipeAll ==
  /\ lock = NoTask
  /\ snapshots' = <<>>
  /\ recordings' \in {recordings, <<>>}
  /\ savedCap' \in {savedCap} \union (IF recordings' = <<>> THEN {NoRow} ELSE {})
  /\ UNCHANGED <<lastRecording, lastSnapshot, cap, lock, pc, local, recent>>
-----------------------------------------------------------------------------
(* change_cap.                                                             *)

\* A refused value changes nothing, so only valid requests are modelled.
RequestCap(t) ==
  /\ t \in Changers /\ pc[t] = "idle"
  /\ \E c \in Caps : local' = [local EXCEPT ![t].gb = c]
  /\ Goto(t, "save")
  /\ UNCHANGED <<tables, cap, savedCap, lock, recent>>

\* The row is written, and the cap in force is not changed yet.
Changing(t) == pc[t] \in {"read", "set"}

SaveCap(t) ==
  /\ pc[t] = "save" /\ lock = NoTask
  /\ savedCap' = local[t].gb
  /\ Goto(t, "read")
  /\ recent' = {local[t].gb} \union (IF \E u \in Changers : Changing(u) THEN recent ELSE {})
  /\ UNCHANGED <<tables, cap, lock, local>>

\* Mutant: the error is logged, and the cap is put in force all the same.
GoOnUnsaved(t) ==
  /\ pc[t] = "save" /\ lock = NoTask
  /\ Goto(t, "read")
  /\ UNCHANGED <<tables, cap, savedCap, lock, local, recent>>

\* The database refuses the write: change_cap returns early.
SaveCapFails(t) ==
  /\ pc[t] = "save" /\ lock = NoTask
  /\ Return(t)
  /\ UNCHANGED <<tables, cap, savedCap, lock, recent>>

ReadPreviousCap(t) ==
  /\ pc[t] = "read"
  /\ local' = [local EXCEPT ![t].previous = cap]
  /\ Goto(t, "set")
  /\ UNCHANGED <<tables, cap, savedCap, lock, recent>>

IsLower(t) == local[t].gb < local[t].previous

SetCap(t) ==
  /\ pc[t] = "set"
  /\ cap' = local[t].gb
  /\ IF IsLower(t) THEN Goto(t, "limit") /\ UNCHANGED local ELSE Return(t)
  /\ UNCHANGED <<tables, savedCap, lock, recent>>
-----------------------------------------------------------------------------
(* enforce_retention, run by change_cap and by the loop.                   *)

\* cap.bytes(), read again: it may be another request's by now.  The loop
\* wakes up every 5 minutes.
ReadLimit(t) ==
  /\ pc[t] = "limit" \/ (t = Loop /\ pc[t] = "idle")
  /\ local' = [local EXCEPT ![t].limit = cap]
  /\ Goto(t, "sum")
  /\ UNCHANGED <<tables, cap, savedCap, lock, recent>>

\* Mutant: the snapshots are forgotten.
RecordingsOnly == SizeOf(recordings)

\* total_size sums both tables in one critical section.
TotalSize == Total

SumTotal(t) ==
  /\ pc[t] = "sum" /\ lock = NoTask
  /\ IF TotalSize <= local[t].limit
     THEN Return(t)
     ELSE Goto(t, "lock") /\ local' = [local EXCEPT ![t].total = TotalSize]
  /\ UNCHANGED <<tables, cap, savedCap, lock, recent>>

\* The mutex was released after the sum: the tables may differ by now.
LockConnection(t) ==
  /\ pc[t] = "lock" /\ lock = NoTask
  /\ lock' = t
  /\ Goto(t, "delete")
  /\ UNCHANGED <<tables, cap, savedCap, local, recent>>

\* Mutant: everything counted is excess.
ExcessIsTotal(t) == local[t].total

Excess(t) == local[t].total - local[t].limit

\* Mutant: the newest row goes first.
NewestFirst(table) == Max(DOMAIN table)

FreedEnough(t) == local[t].freed >= Excess(t)
Oldest(table) == Min(DOMAIN table)

DeleteRecording(t) ==
  /\ pc[t] = "delete" /\ ~FreedEnough(t)
  /\ DOMAIN recordings # {}
  /\ LET id == Oldest(recordings)
     IN  /\ recordings' = Without(recordings, id)
         /\ local' = [local EXCEPT ![t].freed = @ + recordings[id]]
  /\ UNCHANGED <<lastRecording, snapshots, lastSnapshot, cap, savedCap, lock,
                 pc, recent>>

DeleteOldSnapshot(t) ==
  /\ pc[t] = "delete" /\ ~FreedEnough(t)
  /\ DOMAIN recordings = {} /\ DOMAIN snapshots # {}
  /\ LET id == Oldest(snapshots)
     IN  /\ snapshots' = Without(snapshots, id)
         /\ local' = [local EXCEPT ![t].freed = @ + snapshots[id]]
  /\ UNCHANGED <<recordings, lastRecording, lastSnapshot, cap, savedCap, lock,
                 pc, recent>>

\* The pass is over, and returns total - freed in unsigned arithmetic.
FinishPass(t) ==
  /\ pc[t] = "delete"
  /\ FreedEnough(t) \/ Total = 0
  /\ lock' = NoTask
  /\ Return(t)
  /\ UNCHANGED <<tables, cap, savedCap, recent>>

\* An error of the database ends the pass where it is.
PassFails(t) ==
  /\ pc[t] = "delete" \/ (pc[t] \in {"sum", "lock"} /\ lock = NoTask)
  /\ lock' = NoTask
  /\ Return(t)
  /\ UNCHANGED <<tables, cap, savedCap, recent>>
-----------------------------------------------------------------------------
\* The process dies and starts again: the cap is read from the config.
Restart ==
  /\ cap' = IF savedCap = NoRow THEN DefaultCap ELSE savedCap
  /\ lock' = NoTask
  /\ pc' = [t \in Tasks |-> "idle"]
  /\ local' = [t \in Tasks |-> NoLocals]
  /\ recent' = {cap'}
  /\ UNCHANGED <<tables, savedCap>>

PassStep(t) ==
  \/ ReadLimit(t) \/ SumTotal(t) \/ LockConnection(t)
  \/ DeleteRecording(t) \/ DeleteOldSnapshot(t) \/ FinishPass(t)

ChangeStep(t) == SaveCap(t) \/ ReadPreviousCap(t) \/ SetCap(t)

Next ==
  \/ SaveRecordingSegment \/ SaveSnapshot \/ DeleteSnapshot \/ WipeAll
  \/ \E t \in Tasks :
       \/ RequestCap(t) \/ ChangeStep(t) \/ SaveCapFails(t)
       \/ PassStep(t) \/ PassFails(t)
  \/ Restart

Spec == Init /\ [][Next]_vars

\* The loop wakes up for ever, and a task that runs is not starved.
FairSpec ==
  Spec /\ \A t \in Tasks : WF_vars(PassStep(t)) /\ WF_vars(ChangeStep(t))
-----------------------------------------------------------------------------
(* Correctness.                                                            *)

\* total - freed does not wrap around, whatever is saved, deleted or freed by
\* another pass between the sum and the deletions.
NoUnderflow == \A t \in Tasks : local[t].freed <= local[t].total

\* What retention leaves of the recordings is the newest of them: no pass,
\* interrupted or not, cuts a hole into the archive.
NoHoles ==
  \A i, j \in DOMAIN recordings : i .. j \subseteq DOMAIN recordings

\* While a task deletes, what is left of the archive and what the task has freed
\* add up to what there was when it took the mutex: every row it counts is gone,
\* and neither a writer nor another pass changes the tables beside it.  What a
\* finished pass leaves is therefore its limit, and what was saved between its
\* sum and the mutex.
FreedIsGone ==
  [][\A t \in Tasks : lock = t /\ lock' = t =>
       Total' + local'[t].freed = Total + local[t].freed]_vars

\* Whenever nothing but retention touches the archive any more, it ends up
\* within the cap and stays there.
SettlesUnderCap ==
  <>[][\E t \in Tasks : PassStep(t) \/ ChangeStep(t)]_vars
    => <>[](Total <= cap)

\* When no change has saved its cap and not put it in force yet, the cap in
\* force, and the one a restart would load if one is saved, are both caps of the
\* last request and of those that overlapped with it: they are the same when it ran
\* alone, and none of an earlier request.  Two requests that overlap, one from the
\* dashboard's HTTP server and one from Command Center's WebSocket, may be saved in
\* one order and put in force in the other.
CapSurvivesRestart ==
  (\A t \in Changers : ~Changing(t)) =>
     cap \in recent /\ savedCap \in recent \union {NoRow}
=============================================================================
