--------------------------- MODULE RetentionProofs ----------------------------
(***************************************************************************)
(* Theorems about Retention, for every number of tasks, caps, sizes and    *)
(* rows.                                                                   *)
(*                                                                         *)
(* NoUnderflow: a pass deletes one more row only while it has freed less   *)
(* than the excess it counted, and no row is larger than a cap.  Nothing   *)
(* is assumed of what the tables hold by then.                             *)
(*                                                                         *)
(* NoHoles: the recordings are the ids from some id on up to the last one  *)
(* ever given, or none: an insert continues them, and a deletion takes the *)
(* first.                                                                  *)
(*                                                                         *)
(* FreedIsGone: the units of a row are its own, so a table without it      *)
(* takes up so much less; and the task that deletes has the mutex, which   *)
(* every other change of the tables waits for.                             *)
(*                                                                         *)
(* CapSurvivesRestart: a request that has saved its cap and not put it in  *)
(* force is one of those `recent` remembers the caps of.                   *)
(***************************************************************************)
EXTENDS Retention, FiniteSetTheorems, WellFoundedInduction, TLAPS

-----------------------------------------------------------------------------
(* The tables.                                                             *)

\* What a table is: sizes by ids that were given.
Table(table, last) ==
  /\ last \in Nat
  /\ DOMAIN table \subseteq 1 .. last
  /\ \A id \in DOMAIN table : table[id] \in Sizes

TablesInv == Table(recordings, lastRecording) /\ Table(snapshots, lastSnapshot)

Units(table) == UNION {{id} \X (1 .. table[id]) : id \in DOMAIN table}

LEMMA UnitsAreFinite ==
  ASSUME NEW table, NEW last, Table(table, last)
  PROVE  IsFiniteSet(Units(table))
<1>1. DefaultCap \in Nat /\ \A id \in DOMAIN table : table[id] \in Nat /\ table[id] <= DefaultCap
  BY RetentionAssumption, RowsAreSmall DEF Table
<1>2. Units(table) \subseteq (1 .. last) \X (1 .. DefaultCap)
  <2> SUFFICES ASSUME NEW id \in DOMAIN table, NEW unit \in {id} \X (1 .. table[id])
               PROVE  unit \in (1 .. last) \X (1 .. DefaultCap)
    BY DEF Units
  <2>1. unit[2] \in 1 .. DefaultCap /\ unit[1] = id /\ id \in 1 .. last
    BY <1>1 DEF Table
  <2> QED BY <2>1
<1>3. IsFiniteSet((1 .. last) \X (1 .. DefaultCap))
  <2>1. IsFiniteSet(1 .. last) /\ IsFiniteSet(1 .. DefaultCap)
    BY <1>1, FS_Interval DEF Table
  <2> QED BY <2>1, FS_Product
<1> QED BY <1>2, <1>3, FS_Subset

LEMMA SizeIsNatural ==
  ASSUME NEW table, NEW last, Table(table, last)
  PROVE  SizeOf(table) \in Nat
<1>1. Cardinality(Units(table)) \in Nat
  BY UnitsAreFinite, FS_CardinalityType
<1> QED BY <1>1 DEF SizeOf, Units

\* A row takes up as many units as it is large, and no other row's.
LEMMA RowFrees ==
  ASSUME NEW table, NEW last, Table(table, last), NEW row \in DOMAIN table
  PROVE  SizeOf(Without(table, row)) + table[row] = SizeOf(table)
<1> DEFINE mine == {row} \X (1 .. table[row])
           others == Units(Without(table, row))
<1>1. table[row] \in Nat
  BY RetentionAssumption DEF Table
<1>2. /\ DOMAIN Without(table, row) = DOMAIN table \ {row}
      /\ \A id \in DOMAIN table \ {row} : Without(table, row)[id] = table[id]
  BY DEF Without, Restrict
<1>3. Units(table) = others \union mine
  BY <1>2 DEF Units
<1>4. others \intersect mine = {}
  <2> SUFFICES ASSUME NEW unit \in others, unit \in mine PROVE FALSE
    OBVIOUS
  <2>1. PICK id \in DOMAIN table \ {row} : unit \in {id} \X (1 .. table[id])
    BY <1>2 DEF Units
  <2>2. unit[1] = id /\ unit[1] = row
    BY <2>1
  <2> QED BY <2>1, <2>2
<1>5. IsFiniteSet(mine) /\ Cardinality(mine) = table[row]
  <2>1. IsFiniteSet({row}) /\ Cardinality({row}) = 1
    BY FS_Singleton
  <2>2. IsFiniteSet(1 .. table[row]) /\ Cardinality(1 .. table[row]) = table[row]
    BY <1>1, FS_Interval
  <2>3. IsFiniteSet(mine) /\ Cardinality(mine) = 1 * table[row]
    BY <2>1, <2>2, FS_Product
  <2> QED BY <1>1, <2>3
<1>6. IsFiniteSet(others) /\ Cardinality(others) \in Nat
  <2>1. Table(Without(table, row), last)
    BY <1>2 DEF Table
  <2> QED BY <2>1, UnitsAreFinite, FS_CardinalityType
<1>7. Cardinality(others \intersect mine) = 0
  BY <1>4, FS_EmptySet
<1>8. Cardinality(others \union mine)
        = Cardinality(others) + Cardinality(mine) - Cardinality(others \intersect mine)
  <2> HIDE DEF others, mine
  <2> QED BY <1>5, <1>6, FS_Union
<1>9. Cardinality(Units(table)) = Cardinality(others) + table[row]
  <2> HIDE DEF others, mine
  <2> QED BY <1>1, <1>3, <1>5, <1>6, <1>7, <1>8
<1> QED BY <1>1, <1>6, <1>9 DEF SizeOf, Units

\* A set of ids that is not empty has a first one.
LEMMA FirstId ==
  ASSUME NEW last \in Nat, NEW S \in SUBSET (1 .. last), S # {}
  PROVE  Min(S) \in S /\ \A x \in S : Min(S) <= x
<1> DEFINE Below(x) == {y \in S : y < x}
           All == {Below(x) : x \in S}
<1>1. IsFiniteSet(S)
  <2>1. IsFiniteSet(1 .. last)
    BY FS_Interval
  <2> QED BY <2>1, FS_Subset
<1>2. All \subseteq FiniteSubsetsOf(S) /\ All # {}
  <2>1. \A x \in S : IsFiniteSet(Below(x)) /\ Below(x) \in SUBSET S
    BY <1>1, FS_Subset
  <2>2. \A x \in S : Below(x) \in FiniteSubsetsOf(S)
    BY <2>1 DEF FiniteSubsetsOf
  <2> QED BY <2>2
<1>3. PICK T \in All : \A U \in All : <<U, T>> \notin StrictSubsetOrdering(S)
  <2> HIDE DEF All
  <2>1. IsWellFoundedOn(StrictSubsetOrdering(S), FiniteSubsetsOf(S))
    BY FS_StrictSubsetOrderingWellFounded
  <2> QED BY <1>2, <2>1, WFMin, Zenon
<1>4. PICK m \in S : T = Below(m)
  BY <1>3
<1>5. \A x \in S : m <= x
  <2> SUFFICES ASSUME NEW x \in S, ~(m <= x) PROVE FALSE
    OBVIOUS
  <2>1. m \in Int /\ x \in Int /\ \A z \in S : z \in Int
    OBVIOUS
  <2>2. \A z \in S : z < x => z < m
    BY <2>1
  <2>3. x \in Below(m) /\ x \notin Below(x)
    BY <2>1
  <2>4. <<Below(x), T>> \in StrictSubsetOrdering(S)
    BY <1>4, <2>2, <2>3 DEF StrictSubsetOrdering
  <2> QED BY <1>3, <2>4
<1> QED BY <1>5 DEF Min

\* The row that a pass deletes is the first one, and one of the table's.
LEMMA OldestIsFirst ==
  ASSUME NEW table, NEW last, Table(table, last), DOMAIN table # {}
  PROVE  /\ Oldest(table) \in DOMAIN table
         /\ \A id \in DOMAIN table : Oldest(table) <= id
         /\ table[Oldest(table)] \in Sizes
<1>1. last \in Nat /\ DOMAIN table \in SUBSET (1 .. last)
  BY DEF Table
<1>2. Min(DOMAIN table) \in DOMAIN table /\ \A id \in DOMAIN table : Min(DOMAIN table) <= id
  BY <1>1, FirstId
<1> QED BY <1>2 DEF Oldest, Table

\* What the two steps that delete a row do to the task's count.
LEMMA DeletionFrees ==
  ASSUME TablesInv, NEW t \in Tasks, DeleteRecording(t) \/ DeleteOldSnapshot(t)
  PROVE  \E size \in Sizes : local' = [local EXCEPT ![t].freed = @ + size]
<1>1. CASE DeleteRecording(t)
  BY <1>1, OldestIsFirst DEF TablesInv, DeleteRecording
<1>2. CASE DeleteOldSnapshot(t)
  BY <1>2, OldestIsFirst DEF TablesInv, DeleteOldSnapshot
<1> QED BY <1>1, <1>2

LEMMA InsertedIsTable ==
  ASSUME NEW table, NEW last, Table(table, last), NEW size \in Sizes
  PROVE  Table(Inserted(table, last + 1, size), last + 1)
BY DEF Table, Inserted

LEMMA WithoutIsTable ==
  ASSUME NEW table, NEW last, Table(table, last), NEW id
  PROVE  Table(Without(table, id), last)
BY DEF Table, Without, Restrict

LEMMA EmptyIsTable ==
  ASSUME NEW table, NEW last, Table(table, last)
  PROVE  Table(<<>>, last)
BY DEF Table

LEMMA TablesStep ==
  ASSUME TablesInv, [Next]_vars
  PROVE  TablesInv'
<1> USE DEF TablesInv
<1>1. CASE SaveRecordingSegment
  BY <1>1, InsertedIsTable DEF SaveRecordingSegment, Sizes
<1>2. CASE SaveSnapshot
  BY <1>2, InsertedIsTable DEF SaveSnapshot, Sizes
<1>3. CASE DeleteSnapshot
  BY <1>3, WithoutIsTable DEF DeleteSnapshot
<1>4. CASE WipeAll
  BY <1>4, EmptyIsTable DEF WipeAll
<1>5. ASSUME NEW t \in Tasks, DeleteRecording(t) PROVE TablesInv'
  BY <1>5, WithoutIsTable DEF DeleteRecording
<1>6. ASSUME NEW t \in Tasks, DeleteOldSnapshot(t) PROVE TablesInv'
  BY <1>6, WithoutIsTable DEF DeleteOldSnapshot
<1>7. CASE UNCHANGED tables
  BY <1>7 DEF tables
<1>8. ASSUME NEW t \in Tasks,
             \/ RequestCap(t) \/ ChangeStep(t) \/ SaveCapFails(t) \/ PassFails(t)
             \/ ReadLimit(t) \/ SumTotal(t) \/ LockConnection(t) \/ FinishPass(t)
      PROVE  UNCHANGED tables
  BY <1>8 DEF RequestCap, ChangeStep, SaveCap, ReadPreviousCap, SetCap, SaveCapFails,
              PassFails, ReadLimit, SumTotal, LockConnection, FinishPass
<1>9. Restart \/ UNCHANGED vars => UNCHANGED tables
  BY DEF Restart, vars
<1> QED
  BY <1>1, <1>2, <1>3, <1>4, <1>5, <1>6, <1>7, <1>8, <1>9 DEF Next, PassStep

LEMMA TotalIsNatural ==
  ASSUME TablesInv
  PROVE  Total \in Nat
<1>1. SizeOf(recordings) \in Nat /\ SizeOf(snapshots) \in Nat
  BY SizeIsNatural DEF TablesInv
<1> QED BY <1>1 DEF Total

-----------------------------------------------------------------------------
(* The tasks.                                                              *)

TasksInv ==
  /\ cap \in Caps
  /\ savedCap \in Caps \union {NoRow}
  /\ lock \in Tasks \union {NoTask}
  /\ pc \in [Tasks -> {"idle", "save", "read", "set", "limit", "sum", "lock",
                       "delete"}]
  /\ local \in [Tasks -> Locals]
  /\ \A t \in Tasks : pc[t] = "delete" <=> lock = t
  /\ recent \subseteq Caps

LEMMA NoLocalsIsLocals == NoLocals \in Locals
BY RetentionAssumption DEF NoLocals, Locals

LEMMA TasksStep ==
  ASSUME TasksInv, TablesInv, [Next]_vars
  PROVE  TasksInv'
<1> USE DEF TasksInv
<1>0. NoTask \notin Tasks /\ DefaultCap \in Caps /\ NoLocals \in Locals
  BY RetentionAssumption, NoLocalsIsLocals
<1>1. CASE SaveRecordingSegment \/ SaveSnapshot \/ DeleteSnapshot
  BY <1>1 DEF SaveRecordingSegment, SaveSnapshot, DeleteSnapshot
<1>2. CASE WipeAll
  <2>1. savedCap' \in Caps \union {NoRow}
    BY <1>2 DEF WipeAll
  <2> QED BY <1>2, <2>1 DEF WipeAll
<1>3. ASSUME NEW t \in Tasks, RequestCap(t) PROVE TasksInv'
  <2>1. PICK c \in Caps : local' = [local EXCEPT ![t].gb = c]
    BY <1>3 DEF RequestCap
  <2>2. local' \in [Tasks -> Locals]
    BY <2>1 DEF Locals
  <2> QED BY <1>3, <2>2 DEF RequestCap, Goto
<1>4. ASSUME NEW t \in Tasks, SaveCap(t) PROVE TasksInv'
  <2>1. savedCap' \in Caps /\ recent' \subseteq Caps
    BY <1>4 DEF SaveCap, Locals
  <2> QED BY <1>4, <2>1 DEF SaveCap, Goto
<1>5. ASSUME NEW t \in Tasks, SaveCapFails(t) PROVE TasksInv'
  BY <1>0, <1>5 DEF SaveCapFails, Return, Goto
<1>6. ASSUME NEW t \in Tasks, ReadPreviousCap(t) PROVE TasksInv'
  <2>1. local' \in [Tasks -> Locals]
    BY <1>6 DEF ReadPreviousCap, Locals
  <2> QED BY <1>6, <2>1 DEF ReadPreviousCap, Goto
<1>7. ASSUME NEW t \in Tasks, SetCap(t) PROVE TasksInv'
  <2>1. cap' \in Caps
    BY <1>7 DEF SetCap, Locals
  <2>2. CASE IsLower(t)
    BY <1>7, <2>1, <2>2 DEF SetCap, Goto
  <2>3. CASE ~IsLower(t)
    BY <1>0, <1>7, <2>1, <2>3 DEF SetCap, Return, Goto
  <2> QED BY <2>2, <2>3
<1>8. ASSUME NEW t \in Tasks, ReadLimit(t) PROVE TasksInv'
  <2>1. local' \in [Tasks -> Locals]
    BY <1>8 DEF ReadLimit, Locals
  <2> QED BY <1>8, <2>1 DEF ReadLimit, Goto
<1>9. ASSUME NEW t \in Tasks, SumTotal(t) PROVE TasksInv'
  <2>1. CASE Total <= local[t].limit
    BY <1>0, <1>9, <2>1 DEF SumTotal, TotalSize, Return, Goto
  <2>2. CASE ~(Total <= local[t].limit)
    <3>1. PICK total \in Nat : total = Total
      BY TotalIsNatural
    <3>2. local' = [local EXCEPT ![t].total = total]
      BY <1>9, <2>2, <3>1 DEF SumTotal, TotalSize
    <3>3. local' \in [Tasks -> Locals]
      BY <3>2 DEF Locals
    <3> QED BY <1>9, <2>2, <3>3 DEF SumTotal, TotalSize, Goto
  <2> QED BY <2>1, <2>2
<1>10. ASSUME NEW t \in Tasks, LockConnection(t) PROVE TasksInv'
  BY <1>0, <1>10 DEF LockConnection, Goto
<1>11. ASSUME NEW t \in Tasks, DeleteRecording(t) \/ DeleteOldSnapshot(t) PROVE TasksInv'
  <2>1. PICK size \in Sizes : local' = [local EXCEPT ![t].freed = @ + size]
    BY <1>11, DeletionFrees
  <2>2. local' \in [Tasks -> Locals]
    BY <2>1, RetentionAssumption DEF Locals
  <2> QED BY <1>11, <2>2 DEF DeleteRecording, DeleteOldSnapshot
<1>12. ASSUME NEW t \in Tasks, FinishPass(t) PROVE TasksInv'
  BY <1>0, <1>12 DEF FinishPass, Return, Goto
<1>13. ASSUME NEW t \in Tasks, PassFails(t) PROVE TasksInv'
  BY <1>0, <1>13 DEF PassFails, Return, Goto
<1>14. CASE Restart
  BY <1>0, RetentionAssumption, <1>14 DEF Restart
<1>15. CASE UNCHANGED vars
  BY <1>15 DEF vars
<1> QED
  BY <1>1, <1>2, <1>3, <1>4, <1>5, <1>6, <1>7, <1>8, <1>9, <1>10, <1>11, <1>12,
     <1>13, <1>14, <1>15 DEF Next, ChangeStep, PassStep

LEMMA RetentionInit == Init => TablesInv /\ TasksInv
<1> SUFFICES ASSUME Init PROVE TablesInv /\ TasksInv
  OBVIOUS
<1>1. TablesInv
  BY DEF Init, TablesInv, Table
<1>2. TasksInv
  BY RetentionAssumption, NoLocalsIsLocals DEF Init, TasksInv
<1> QED BY <1>1, <1>2

LEMMA RetentionInvariant == Spec => [](TablesInv /\ TasksInv)
<1>1. TablesInv /\ TasksInv /\ [Next]_vars => TablesInv' /\ TasksInv'
  BY TablesStep, TasksStep
<1> QED BY <1>1, RetentionInit, PTL DEF Spec

\* Ids are given within the bound.
LEMMA RowsStep ==
  ASSUME TablesInv, lastRecording \in 0 .. MaxRows, lastSnapshot \in 0 .. MaxRows, [Next]_vars
  PROVE  lastRecording' \in 0 .. MaxRows /\ lastSnapshot' \in 0 .. MaxRows
<1>0. MaxRows \in Nat
  BY RetentionAssumption
<1>1. CASE SaveRecordingSegment \/ SaveSnapshot
  BY <1>0, <1>1 DEF SaveRecordingSegment, SaveSnapshot
<1>2. CASE UNCHANGED <<lastRecording, lastSnapshot>>
  BY <1>2
<1> QED
  BY <1>1, <1>2 DEF Next, DeleteSnapshot, WipeAll, RequestCap, ChangeStep, SaveCap,
     ReadPreviousCap, SetCap, SaveCapFails, PassStep, ReadLimit, SumTotal, LockConnection,
     DeleteRecording, DeleteOldSnapshot, FinishPass, PassFails, Restart, vars, tables

\* The variables keep their types, for any number of tasks; in particular a task
\* deletes only while it holds the connection mutex (NodeDatabase of
\* storage/database.rs), so that no two passes delete at the same time.
THEOREM RetentionTypeCorrect == Spec => []TypeOK
<1> DEFINE Bound == lastRecording \in 0 .. MaxRows /\ lastSnapshot \in 0 .. MaxRows
<1>1. TablesInv /\ TasksInv /\ Bound => TypeOK
  BY DEF TablesInv, TasksInv, Table, TypeOK, Range
<1>2. Init => Bound
  BY RetentionAssumption DEF Init
<1>3. TablesInv /\ Bound /\ [Next]_vars => Bound'
  BY RowsStep
<1> HIDE DEF Bound
<1> QED BY <1>1, <1>2, <1>3, RetentionInvariant, PTL DEF Spec

-----------------------------------------------------------------------------
(* No underflow.                                                           *)

\* A task has freed something only while it deletes.
FreedInv ==
  \A t \in Tasks : /\ local[t].freed <= local[t].total
                   /\ pc[t] # "delete" => local[t].freed = 0

LEMMA FreedStep ==
  ASSUME TablesInv, TasksInv, FreedInv, [Next]_vars
  PROVE  FreedInv'
<1> USE DEF FreedInv, TasksInv
<1>0. NoLocals.freed = 0 /\ NoLocals.total = 0
  BY DEF NoLocals
<1>1. CASE UNCHANGED <<pc, local>>
  BY <1>1
<1>2. ASSUME NEW t \in Tasks, RequestCap(t) \/ ReadPreviousCap(t) \/ ReadLimit(t)
      PROVE  FreedInv'
  <2>1. \A u \in Tasks : /\ local'[u].freed = local[u].freed
                         /\ local'[u].total = local[u].total
    BY <1>2 DEF RequestCap, ReadPreviousCap, ReadLimit, Locals
  <2>2. \A u \in Tasks : pc'[u] # "delete" => pc[u] # "delete"
    BY <1>2 DEF RequestCap, ReadPreviousCap, ReadLimit, Goto
  <2> QED BY <2>1, <2>2
<1>3. ASSUME NEW t \in Tasks, SaveCap(t) \/ LockConnection(t) PROVE FreedInv'
  BY <1>3 DEF SaveCap, LockConnection, Goto
<1>4. ASSUME NEW t \in Tasks, Return(t) PROVE FreedInv'
  BY <1>0, <1>4 DEF Return, Goto
<1>5. ASSUME NEW t \in Tasks, SetCap(t) PROVE FreedInv'
  <2>1. CASE IsLower(t)
    BY <1>5, <2>1 DEF SetCap, Goto
  <2>2. CASE ~IsLower(t)
    BY <1>4, <1>5, <2>2 DEF SetCap
  <2> QED BY <2>1, <2>2
<1>6. ASSUME NEW t \in Tasks, SumTotal(t) PROVE FreedInv'
  <2>1. CASE Total <= local[t].limit
    BY <1>4, <1>6, <2>1 DEF SumTotal, TotalSize
  <2>2. CASE ~(Total <= local[t].limit)
    <3>1. PICK total \in Nat : total = Total
      BY TotalIsNatural
    <3>2. local' = [local EXCEPT ![t].total = total]
      BY <1>6, <2>2, <3>1 DEF SumTotal, TotalSize
    <3>3. pc[t] = "sum" /\ pc' = [pc EXCEPT ![t] = "lock"]
      BY <1>6, <2>2 DEF SumTotal, TotalSize, Goto
    <3>4. local'[t].freed = 0 /\ local'[t].total = total
      BY <3>2, <3>3 DEF Locals
    <3>5. \A u \in Tasks \ {t} : local'[u] = local[u] /\ pc'[u] = pc[u]
      BY <3>2, <3>3
    <3> QED BY <3>1, <3>4, <3>5
  <2> QED BY <2>1, <2>2
<1>7. ASSUME NEW t \in Tasks, DeleteRecording(t) \/ DeleteOldSnapshot(t) PROVE FreedInv'
  <2>1. PICK size \in Sizes : local' = [local EXCEPT ![t].freed = @ + size]
    BY <1>7, DeletionFrees
  <2>2. size \in Nat /\ size <= local[t].limit /\ local[t] \in Locals
    BY RetentionAssumption, RowsAreSmall DEF Locals
  <2>3. local[t].freed < local[t].total - local[t].limit
    BY <1>7, <2>2, RetentionAssumption DEF DeleteRecording, DeleteOldSnapshot, FreedEnough,
       Excess, Locals
  <2>4. local'[t].freed = local[t].freed + size /\ local'[t].total = local[t].total
    BY <2>1, <2>2 DEF Locals
  <2>5. local'[t].freed <= local'[t].total
    <3>1. local[t].freed \in Nat /\ local[t].total \in Nat /\ local[t].limit \in Caps
      BY <2>2 DEF Locals
    <3>2. local[t].limit \in Nat
      BY <3>1, RetentionAssumption
    <3> QED BY <2>2, <2>3, <2>4, <3>1, <3>2
  <2>6. pc' = pc /\ pc[t] = "delete" /\ \A u \in Tasks \ {t} : local'[u] = local[u]
    BY <1>7, <2>1 DEF DeleteRecording, DeleteOldSnapshot
  <2> QED BY <2>5, <2>6
<1>8. CASE Restart
  BY <1>0, <1>8 DEF Restart
<1> QED
  BY <1>1, <1>2, <1>3, <1>4, <1>5, <1>6, <1>7, <1>8 DEF Next, PassStep, ChangeStep, vars,
     SaveRecordingSegment, SaveSnapshot, DeleteSnapshot, WipeAll, SaveCapFails, PassFails,
     FinishPass

\* However many passes run, and whatever is saved, deleted or wiped between the
\* sum and the deletions, total - freed does not wrap around (enforce_retention
\* of storage/database.rs), as long as no row is larger than a cap.
THEOREM NoUnderflowHolds == Spec => []NoUnderflow
<1>1. Init => FreedInv
  BY DEF Init, FreedInv, NoLocals
<1>2. FreedInv => NoUnderflow
  BY DEF FreedInv, NoUnderflow
<1>3. TablesInv /\ TasksInv /\ FreedInv /\ [Next]_vars => FreedInv'
  BY FreedStep
<1> QED BY <1>1, <1>2, <1>3, RetentionInvariant, PTL DEF Spec

-----------------------------------------------------------------------------
(* No holes.                                                               *)

SuffixInv == \A i \in DOMAIN recordings : i .. lastRecording \subseteq DOMAIN recordings

LEMMA SuffixStep ==
  ASSUME TablesInv, SuffixInv, [Next]_vars
  PROVE  SuffixInv'
<1> USE DEF SuffixInv
<1>1. CASE SaveRecordingSegment
  <2>1. PICK size \in Sizes : recordings' = Inserted(recordings, lastRecording + 1, size)
    BY <1>1 DEF SaveRecordingSegment, Sizes
  <2>2. /\ DOMAIN recordings' = DOMAIN recordings \union {lastRecording + 1}
        /\ lastRecording' = lastRecording + 1
        /\ lastRecording \in Nat /\ DOMAIN recordings \subseteq 1 .. lastRecording
    BY <1>1, <2>1 DEF SaveRecordingSegment, Inserted, TablesInv, Table
  <2> QED BY <2>2
<1>2. CASE WipeAll
  <2>1. lastRecording' = lastRecording /\ (recordings' = recordings \/ recordings' = <<>>)
    BY <1>2 DEF WipeAll
  <2>2. DOMAIN <<>> = {}
    OBVIOUS
  <2> QED BY <2>1, <2>2
<1>3. ASSUME NEW t \in Tasks, DeleteRecording(t) PROVE SuffixInv'
  <2>1. PICK first : first = Oldest(recordings)
    OBVIOUS
  <2>2. /\ DOMAIN recordings' = DOMAIN recordings \ {first}
        /\ lastRecording' = lastRecording
    BY <1>3, <2>1 DEF DeleteRecording, Without, Restrict
  <2>3. /\ first \in DOMAIN recordings /\ \A id \in DOMAIN recordings : first <= id
        /\ lastRecording \in Nat /\ DOMAIN recordings \subseteq 1 .. lastRecording
    BY <1>3, <2>1, OldestIsFirst DEF DeleteRecording, TablesInv, Table
  <2> SUFFICES ASSUME NEW i \in DOMAIN recordings \ {first}, NEW j \in i .. lastRecording
               PROVE  j \in DOMAIN recordings \ {first}
    BY <2>2
  <2>4. i \in Int /\ first \in Int /\ first < i /\ j \in Int /\ i <= j
    BY <2>3
  <2> QED BY <2>4
<1>4. CASE UNCHANGED <<recordings, lastRecording>>
  BY <1>4
<1> QED
  BY <1>1, <1>2, <1>3, <1>4 DEF Next, SaveSnapshot, DeleteSnapshot, RequestCap, ChangeStep,
     SaveCap, ReadPreviousCap, SetCap, SaveCapFails, PassStep, ReadLimit, SumTotal,
     LockConnection, DeleteOldSnapshot, FinishPass, PassFails, Restart, vars, tables

\* What retention leaves is the newest of the recordings: no pass, interrupted,
\* failed or overlapping another, cuts a hole into the archive.
THEOREM NoHolesHolds == Spec => []NoHoles
<1>1. TablesInv /\ SuffixInv => NoHoles
  <2> SUFFICES ASSUME TablesInv, SuffixInv, NEW i \in DOMAIN recordings,
                      NEW j \in DOMAIN recordings, NEW k \in i .. j
               PROVE  k \in DOMAIN recordings
    BY DEF NoHoles
  <2>1. i \in Int /\ j \in Int /\ j <= lastRecording /\ lastRecording \in Int
    BY DEF TablesInv, Table
  <2> QED BY <2>1 DEF SuffixInv
<1>2. Init => SuffixInv
  BY DEF Init, SuffixInv
<1>3. TablesInv /\ SuffixInv /\ [Next]_vars => SuffixInv'
  BY SuffixStep
<1> QED BY <1>1, <1>2, <1>3, RetentionInvariant, PTL DEF Spec

-----------------------------------------------------------------------------
(* What a pass frees is gone.                                              *)

LEMMA DeletionStep ==
  ASSUME TablesInv, TasksInv, NEW t \in Tasks, DeleteRecording(t) \/ DeleteOldSnapshot(t)
  PROVE  Total' + local'[t].freed = Total + local[t].freed
<1>1. /\ SizeOf(recordings) \in Nat /\ SizeOf(snapshots) \in Nat
      /\ local \in [Tasks -> Locals] /\ local[t].freed \in Nat
  BY SizeIsNatural DEF TablesInv, TasksInv, Locals
<1>2. CASE DeleteRecording(t)
  <2>1. PICK row : row = Oldest(recordings)
    OBVIOUS
  <2>2. /\ row \in DOMAIN recordings /\ recordings[row] \in Nat
        /\ recordings' = Without(recordings, row) /\ snapshots' = snapshots
        /\ local'[t].freed = local[t].freed + recordings[row]
    BY <1>1, <1>2, <2>1, OldestIsFirst, RetentionAssumption
       DEF DeleteRecording, TablesInv, Table, Locals
  <2>3. SizeOf(recordings') + recordings[row] = SizeOf(recordings) /\ SizeOf(recordings') \in Nat
    BY <2>2, RowFrees, WithoutIsTable, SizeIsNatural DEF TablesInv
  <2> QED BY <1>1, <2>2, <2>3 DEF Total
<1>3. CASE DeleteOldSnapshot(t)
  <2>1. PICK row : row = Oldest(snapshots)
    OBVIOUS
  <2>2. /\ row \in DOMAIN snapshots /\ snapshots[row] \in Nat
        /\ snapshots' = Without(snapshots, row) /\ recordings' = recordings
        /\ local'[t].freed = local[t].freed + snapshots[row]
    BY <1>1, <1>3, <2>1, OldestIsFirst, RetentionAssumption
       DEF DeleteOldSnapshot, TablesInv, Table, Locals
  <2>3. SizeOf(snapshots') + snapshots[row] = SizeOf(snapshots) /\ SizeOf(snapshots') \in Nat
    BY <2>2, RowFrees, WithoutIsTable, SizeIsNatural DEF TablesInv
  <2> QED BY <1>1, <2>2, <2>3 DEF Total
<1> QED BY <1>2, <1>3

\* A step that neither deletes nor gives the mutex away leaves the tables and the
\* count of the task that has it alone.
LEMMA OthersWait ==
  ASSUME TasksInv, [Next]_vars, NEW t \in Tasks, lock = t, lock' = t,
         ~DeleteRecording(t), ~DeleteOldSnapshot(t)
  PROVE  UNCHANGED <<recordings, snapshots>> /\ local'[t] = local[t]
<1>0. t # NoTask /\ pc[t] = "delete" /\ \A u \in Tasks : pc[u] = "delete" => u = t
  BY RetentionAssumption DEF TasksInv
<1>1. ~(SaveRecordingSegment \/ SaveSnapshot \/ DeleteSnapshot \/ WipeAll \/ Restart)
  BY <1>0 DEF SaveRecordingSegment, SaveSnapshot, DeleteSnapshot, WipeAll, Restart
<1>2. ASSUME NEW u \in Tasks, RequestCap(u) \/ ChangeStep(u) \/ SaveCapFails(u) \/ PassFails(u)
                               \/ PassStep(u)
      PROVE  UNCHANGED <<recordings, snapshots>> /\ local'[t] = local[t]
  <2>1. ~(SumTotal(u) \/ LockConnection(u) \/ FinishPass(u) \/ PassFails(u) \/ SaveCap(u)
          \/ SaveCapFails(u))
    BY <1>0 DEF SumTotal, LockConnection, FinishPass, PassFails, SaveCap, SaveCapFails
  <2>2. ~(DeleteRecording(u) \/ DeleteOldSnapshot(u))
    BY <1>0 DEF DeleteRecording, DeleteOldSnapshot
  <2>3. CASE RequestCap(u) \/ ReadPreviousCap(u) \/ ReadLimit(u)
    <3>1. u # t
      BY <1>0, <2>3 DEF RequestCap, ReadPreviousCap, ReadLimit
    <3> QED BY <2>3, <3>1 DEF RequestCap, ReadPreviousCap, ReadLimit, tables, TasksInv
  <2>4. CASE SetCap(u)
    <3>1. u # t
      BY <1>0, <2>4 DEF SetCap
    <3>2. CASE IsLower(u)
      BY <2>4, <3>2 DEF SetCap, tables
    <3>3. CASE ~IsLower(u)
      BY <2>4, <3>1, <3>3 DEF SetCap, tables, Return, TasksInv
    <3> QED BY <3>2, <3>3
  <2> QED BY <1>2, <2>1, <2>2, <2>3, <2>4 DEF ChangeStep, PassStep
<1>3. CASE UNCHANGED vars
  BY <1>3 DEF vars, tables
<1> QED BY <1>1, <1>2, <1>3 DEF Next

\* However many passes, writers and wipes there are: while a task deletes, every
\* row it counts is gone and nothing else changes the tables (enforce_retention
\* keeps the connection mutex of storage/database.rs), so that what it leaves is
\* what it found less what it freed.
THEOREM FreedIsGoneHolds == Spec => FreedIsGone
<1>1. ASSUME TablesInv, TasksInv, [Next]_vars
      PROVE  [\A t \in Tasks : lock = t /\ lock' = t =>
                Total' + local'[t].freed = Total + local[t].freed]_vars
  <2> SUFFICES ASSUME NEW t \in Tasks, lock = t, lock' = t
               PROVE  Total' + local'[t].freed = Total + local[t].freed
    OBVIOUS
  <2>1. CASE DeleteRecording(t) \/ DeleteOldSnapshot(t)
    BY <1>1, <2>1, DeletionStep
  <2>2. CASE ~DeleteRecording(t) /\ ~DeleteOldSnapshot(t)
    BY <1>1, <2>2, OthersWait DEF Total
  <2> QED BY <2>1, <2>2
<1> QED BY <1>1, RetentionInvariant, PTL DEF Spec, FreedIsGone

-----------------------------------------------------------------------------
(* The cap after a restart.                                                *)

\* The retention loop changes no cap.  What is saved and what is about to be put
\* in force are caps of the last requests; and so is the cap in force, once all of
\* them have put in force what they saved.
SavedCapInv ==
  /\ pc[Loop] \notin {"save", "read", "set"}
  /\ savedCap \in recent \union {NoRow}
  /\ \A t \in Changers : Changing(t) => local[t].gb \in recent
  /\ (\A t \in Changers : ~Changing(t)) => cap \in recent

\* A step that changes neither cap and lets no request go on from a save.
LEMMA NoCapStep ==
  ASSUME SavedCapInv, UNCHANGED <<cap, recent>>, savedCap' \in {savedCap, NoRow},
         pc'[Loop] \notin {"save", "read", "set"},
         \A t \in Changers : Changing(t)' <=> Changing(t),
         \A t \in Changers : Changing(t) => local'[t].gb = local[t].gb
  PROVE  SavedCapInv'
BY DEF SavedCapInv

LEMMA SavedCapStep ==
  ASSUME TasksInv, SavedCapInv, [Next]_vars
  PROVE  SavedCapInv'
<1> USE DEF TasksInv
<1>0. Loop \notin Changers /\ Loop \in Tasks /\ Changers \subseteq Tasks
  BY RetentionAssumption DEF Tasks
<1>1. CASE UNCHANGED <<cap, savedCap, pc, local, recent>>
  BY <1>1, NoCapStep DEF Changing, SavedCapInv
<1>2. CASE WipeAll
  <2>1. savedCap' = savedCap \/ savedCap' = NoRow
    BY <1>2 DEF WipeAll
  <2> QED BY <1>2, <2>1, NoCapStep DEF WipeAll, Changing, SavedCapInv
<1>3. ASSUME NEW t \in Tasks, RequestCap(t) PROVE SavedCapInv'
  <2>1. t \in Changers /\ pc[t] = "idle" /\ pc' = [pc EXCEPT ![t] = "save"]
        /\ \A u \in Tasks \ {t} : local'[u] = local[u]
    BY <1>3 DEF RequestCap, Goto
  <2> QED BY <1>0, <1>3, <2>1, NoCapStep DEF RequestCap, Changing, SavedCapInv
<1>4. ASSUME NEW t \in Tasks, SaveCap(t) PROVE SavedCapInv'
  <2>1. t \in Changers
    BY <1>4 DEF SaveCap, Tasks, SavedCapInv
  <2>2. /\ savedCap' = local[t].gb /\ pc' = [pc EXCEPT ![t] = "read"] /\ local' = local
        /\ recent' = {local[t].gb} \union
                       (IF \E u \in Changers : Changing(u) THEN recent ELSE {})
    BY <1>4 DEF SaveCap, Goto
  <2>3. \A u \in Changers : Changing(u)' => u = t \/ Changing(u)
    BY <1>0, <2>2 DEF Changing
  <2>4. Changing(t)' /\ pc'[Loop] = pc[Loop]
    BY <1>0, <2>1, <2>2 DEF Changing
  <2>5. \A u \in Changers : Changing(u)' => local'[u].gb \in recent'
    BY <2>2, <2>3 DEF SavedCapInv
  <2> QED BY <2>1, <2>2, <2>4, <2>5 DEF SavedCapInv
<1>5. ASSUME NEW t \in Tasks, ReadPreviousCap(t) PROVE SavedCapInv'
  <2>1. pc' = [pc EXCEPT ![t] = "set"] /\ pc[t] = "read" /\ t # Loop
    BY <1>5 DEF ReadPreviousCap, Goto, SavedCapInv
  <2>2. \A u \in Tasks : local'[u].gb = local[u].gb
    BY <1>5 DEF ReadPreviousCap, Locals
  <2> QED BY <1>0, <1>5, <2>1, <2>2, NoCapStep DEF ReadPreviousCap, Changing, SavedCapInv
<1>6. ASSUME NEW t \in Tasks, SetCap(t) PROVE SavedCapInv'
  <2>1. t \in Changers /\ local[t].gb \in recent
    BY <1>6 DEF SetCap, Tasks, SavedCapInv, Changing
  <2>2. /\ pc'[t] \notin {"read", "set"} /\ cap' = local[t].gb
        /\ UNCHANGED <<savedCap, recent>>
        /\ \A u \in Tasks \ {t} : pc'[u] = pc[u] /\ local'[u] = local[u]
    <3>1. CASE IsLower(t)
      BY <1>0, <1>6, <2>1, <3>1 DEF SetCap, Goto
    <3>2. CASE ~IsLower(t)
      BY <1>0, <1>6, <2>1, <3>2 DEF SetCap, Return, Goto
    <3> QED BY <3>1, <3>2
  <2> QED BY <1>0, <2>1, <2>2 DEF SavedCapInv, Changing
<1>7. ASSUME NEW t \in Tasks, NEW label \in {"idle", "sum", "lock", "delete"},
             ~Changing(t), pc' = [pc EXCEPT ![t] = label],
             UNCHANGED <<cap, savedCap, recent>>,
             \A u \in Tasks \ {t} : local'[u] = local[u]
      PROVE  SavedCapInv'
  BY <1>0, <1>7, NoCapStep DEF Changing, SavedCapInv
<1>8. ASSUME NEW t \in Tasks, SaveCapFails(t) \/ PassFails(t) \/ FinishPass(t)
      PROVE  SavedCapInv'
  BY <1>7, <1>8 DEF SaveCapFails, PassFails, FinishPass, Return, Goto, Changing
<1>9. ASSUME NEW t \in Tasks, ReadLimit(t) \/ LockConnection(t) PROVE SavedCapInv'
  BY <1>7, <1>9 DEF ReadLimit, LockConnection, Goto, Changing
<1>10. ASSUME NEW t \in Tasks, SumTotal(t) PROVE SavedCapInv'
  <2>1. CASE Total <= local[t].limit
    BY <1>7, <1>10, <2>1 DEF SumTotal, TotalSize, Return, Goto, Changing
  <2>2. CASE ~(Total <= local[t].limit)
    BY <1>7, <1>10, <2>2 DEF SumTotal, TotalSize, Goto, Changing
  <2> QED BY <2>1, <2>2
<1>11. ASSUME NEW t \in Tasks, DeleteRecording(t) \/ DeleteOldSnapshot(t) PROVE SavedCapInv'
  <2>1. UNCHANGED <<cap, savedCap, pc, recent>>
    BY <1>11 DEF DeleteRecording, DeleteOldSnapshot
  <2>2. \A u \in Tasks : local'[u].gb = local[u].gb
    BY <1>11 DEF DeleteRecording, DeleteOldSnapshot, Locals
  <2> QED BY <1>0, <2>1, <2>2, NoCapStep DEF Changing, SavedCapInv
<1>12. CASE Restart
  BY <1>0, <1>12 DEF Restart, SavedCapInv, Changing
<1> QED
  BY <1>1, <1>2, <1>3, <1>4, <1>5, <1>6, <1>8, <1>9, <1>10, <1>11, <1>12 DEF Next, PassStep,
     ChangeStep, vars, SaveRecordingSegment, SaveSnapshot, DeleteSnapshot

\* However many requests overlap, whatever fails and whenever the node stops, the
\* cap in force and the one a restart loads are of the last request or of one it
\* overlapped with: the same, when requests come one at a time (change_cap of
\* storage/stats.rs).
THEOREM CapSurvivesRestartHolds == Spec => []CapSurvivesRestart
<1>1. SavedCapInv => CapSurvivesRestart
  BY DEF SavedCapInv, CapSurvivesRestart
<1>2. Init => SavedCapInv
  BY RetentionAssumption DEF Init, SavedCapInv, Tasks, Changing
<1>3. TasksInv /\ SavedCapInv /\ [Next]_vars => SavedCapInv'
  BY SavedCapStep
<1> QED BY <1>1, <1>2, <1>3, RetentionInvariant, PTL DEF Spec
=============================================================================
