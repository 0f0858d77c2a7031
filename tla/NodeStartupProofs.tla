-------------------------- MODULE NodeStartupProofs --------------------------
(***************************************************************************)
(* What the operator tuned is kept, a node that can be reached has a       *)
(* password and was asked to be open, and nothing is destroyed             *)
(* unconfirmed, for any number of setups, deaths, moves, rotated keys and  *)
(* commands.                                                               *)
(*                                                                         *)
(* A save is interrupted between any two rows, so the tuning must be safe  *)
(* in what is left of the save as well as in the table: every write that   *)
(* waits keeps it (Sound).  A save starts from what was loaded, and on its *)
(* own machine a table can always be loaded (StoreInv).  The access of     *)
(* others depends on several rows, which are out of step during a save:    *)
(* the rows that wait complete the table to a configuration that is safe   *)
(* (AccessInv).  Types are proved last, on top of the same invariants.     *)
(***************************************************************************)
EXTENDS NodeStartup, SequenceTheorems, TLAPS

Kept == IF machine = Home THEN tuned ELSE {}

SoundWrite(write, kept) ==
  /\ write.key \in Keys
  /\ write.key = "mode" => write.value # None
  /\ write.key \in kept => write.value = "tuned"

Sound(writes, kept) ==
  /\ writes # <<>>
  /\ \E S : writes \in Seq(S) /\ \A w \in S : SoundWrite(w, kept)

StoreInv ==
  /\ machine \in Nat \ {0}
  /\ DOMAIN rows = Keys
  /\ \A k \in Encrypted : rows[k] # None => rows[k].by \in Nat /\ rows[k].by <= machine

\* What the program is about to write: a node that has not registered yet detects
\* an encoder unless one was loaded.
Registering == pc = "registering" \/ (pc = "saving" /\ then = "registering")

SaveInv ==
  /\ pc = "saving" => Sound(todo, Kept) /\ then # "saving"
  /\ Registering /\ config.encoder = None => "encoder" \notin Kept

TuningInv ==
  /\ SaveInv
  /\ tuned \subseteq Tunable
  /\ tuned # {} => rows.mode # None
  /\ \A k \in Kept : rows[k] = "tuned"

ArmedInv == armed # None => line # None /\ line.cmd = armed

-----------------------------------------------------------------------------
(* Loading and saving.                                                     *)

\* A configuration that may be saved without losing the tuning.
Safe(c) ==
  /\ DOMAIN c = Keys
  /\ c.mode # None
  /\ \A k \in Kept : c[k] = "tuned"

LEMMA RowIsSafe ==
  ASSUME NEW c, NEW key \in Keys,
         NEW S, S = {Put(k, c[k]) : k \in {j \in Keys : c[j] # None}}
  PROVE  Row(c, key) \in Seq(S)
<1>1. CASE c[key] = None
  BY <1>1 DEF Row
<1>2. CASE c[key] # None
  <2>1. Put(key, c[key]) \in S
    BY <1>2
  <2> QED
    BY <1>2, <2>1 DEF Row
<1> QED
  BY <1>1, <1>2

LEMMA JoinIn ==
  ASSUME NEW S, NEW a \in Seq(S), NEW b \in Seq(S)
  PROVE  /\ a \o b \in Seq(S)
         /\ a # <<>> => a \o b # <<>>
OBVIOUS

\* save_to_db writes rows of the configuration only, and the mode always.
LEMMA WritesOfConfig ==
  ASSUME NEW c, c.mode # None,
         NEW S, S = {Put(k, c[k]) : k \in {j \in Keys : c[j] # None}}
  PROVE  Writes(c) \in Seq(S) /\ Writes(c) # <<>>
<1> DEFINE r1 == Row(c, "mode")
           r2 == Row(c, "node_id")
           r3 == Row(c, "tuning")
           r4 == Row(c, "encoder")
           r5 == Row(c, "bind")
           r6 == Row(c, "api_key")
           r7 == Row(c, "hash")
           r8 == Row(c, "secret")
<1>1. /\ r1 \in Seq(S) /\ r2 \in Seq(S) /\ r3 \in Seq(S) /\ r4 \in Seq(S)
      /\ r5 \in Seq(S) /\ r6 \in Seq(S) /\ r7 \in Seq(S) /\ r8 \in Seq(S)
  BY RowIsSafe DEF Keys
<1>2. r1 # <<>>
  BY DEF Row
<1>3. Writes(c) = ((((((r1 \o r2) \o r3) \o r4) \o r5) \o r6) \o r7) \o r8
  BY DEF Writes
<1> HIDE DEF r1, r2, r3, r4, r5, r6, r7, r8
<1>4. r1 \o r2 \in Seq(S) /\ r1 \o r2 # <<>>
  BY <1>1, <1>2, JoinIn
<1>5. (r1 \o r2) \o r3 \in Seq(S) /\ (r1 \o r2) \o r3 # <<>>
  BY <1>1, <1>4, JoinIn
<1>6. ((r1 \o r2) \o r3) \o r4 \in Seq(S) /\ ((r1 \o r2) \o r3) \o r4 # <<>>
  BY <1>1, <1>5, JoinIn
<1>7. /\ (((r1 \o r2) \o r3) \o r4) \o r5 \in Seq(S)
      /\ (((r1 \o r2) \o r3) \o r4) \o r5 # <<>>
  BY <1>1, <1>6, JoinIn
<1>8. /\ ((((r1 \o r2) \o r3) \o r4) \o r5) \o r6 \in Seq(S)
      /\ ((((r1 \o r2) \o r3) \o r4) \o r5) \o r6 # <<>>
  BY <1>1, <1>7, JoinIn
<1>9. /\ (((((r1 \o r2) \o r3) \o r4) \o r5) \o r6) \o r7 \in Seq(S)
      /\ (((((r1 \o r2) \o r3) \o r4) \o r5) \o r6) \o r7 # <<>>
  BY <1>1, <1>8, JoinIn
<1> QED
  BY <1>1, <1>3, <1>9, JoinIn

\* What a setup writes after the rows of its configuration.
Extra(picks) ==
  {Delete("node_id"), Delete("api_key")} \union (IF picks THEN {Put("encoder", "picked")} ELSE {})

LEMMA ExtraWrites ==
  ASSUME NEW picks \in BOOLEAN, NEW S, S \in {Extra(picks), Extra(TRUE)}
  PROVE  /\ Picked(picks) \in Seq(S) /\ Unpair \in Seq(S)
         /\ Unpair \o Picked(picks) \in Seq(S)
<1>1. Extra(picks) \subseteq S
  BY DEF Extra
<1>2. /\ Delete("node_id") \in S /\ Delete("api_key") \in S
      /\ picks => Put("encoder", "picked") \in S
  BY <1>1 DEF Extra
<1>3. Picked(picks) \in Seq(S)
  <2>1. CASE picks
    <3>1. PICK x : x = Put("encoder", "picked")
      OBVIOUS
    <3>2. x \in S /\ Picked(picks) = <<x>>
      BY <1>2, <2>1, <3>1 DEF Picked
    <3> QED
      BY <3>2
  <2>2. CASE ~picks
    <3>1. Picked(picks) = <<>>
      BY <2>2 DEF Picked
    <3> QED
      BY <3>1
  <2> QED
    BY <2>1, <2>2
<1>4. Unpair \in Seq(S)
  <2>1. PICK x, y : x = Delete("node_id") /\ y = Delete("api_key")
    OBVIOUS
  <2>2. x \in S /\ y \in S /\ Unpair = <<x, y>>
    BY <1>2, <2>1 DEF Unpair
  <2> QED
    BY <2>2
<1> QED
  BY <1>3, <1>4, JoinIn

LEMMA UnpairIsSound ==
  ASSUME NEW kept, kept \subseteq Tunable
  PROVE  Sound(Unpair, kept)
<1> DEFINE S == {Delete("node_id"), Delete("api_key")}
<1>1. Unpair \in Seq(S) /\ Unpair # <<>>
  BY DEF Unpair
<1>2. \A w \in S : SoundWrite(w, kept)
  BY DEF SoundWrite, Delete, Put, Keys, Tunable
<1> QED
  BY <1>1, <1>2 DEF Sound

\* The encoder a setup picks comes after the rows of its configuration.
LEMMA WritesAreSound ==
  ASSUME NEW c, Safe(c), Kept \subseteq Tunable
  PROVE  /\ Sound(Writes(c), Kept)
         /\ \A picks \in BOOLEAN : \A rest :
              rest \in Seq(Extra(picks)) =>
                Sound(Writes(c) \o rest, IF picks THEN Kept \ {"encoder"} ELSE Kept)
<1> DEFINE S == {Put(k, c[k]) : k \in {j \in Keys : c[j] # None}}
<1>1. Writes(c) \in Seq(S) /\ Writes(c) # <<>>
  BY WritesOfConfig DEF Safe
<1>2. \A w \in S : SoundWrite(w, Kept)
  BY DEF SoundWrite, Safe, Put, Keys
<1> HIDE DEF S
<1>3. Sound(Writes(c), Kept)
  BY <1>1, <1>2 DEF Sound
<1>4. ASSUME NEW picks \in BOOLEAN, NEW rest \in Seq(Extra(picks))
      PROVE  Sound(Writes(c) \o rest, IF picks THEN Kept \ {"encoder"} ELSE Kept)
  <2> DEFINE T == S \union Extra(picks)
             kept == IF picks THEN Kept \ {"encoder"} ELSE Kept
  <2>1. \A w \in T : SoundWrite(w, kept)
    <3>1. \A w \in S : SoundWrite(w, kept)
      BY <1>2 DEF SoundWrite
    <3>2. \A w \in Extra(picks) : SoundWrite(w, kept)
      BY DEF SoundWrite, Extra, Delete, Put, Keys, Tunable
    <3> QED
      BY <3>1, <3>2
  <2>2. Writes(c) \in Seq(T) /\ rest \in Seq(T)
    BY <1>1, <1>4
  <2> HIDE DEF T
  <2>3. Writes(c) \o rest \in Seq(T) /\ Writes(c) \o rest # <<>>
    BY <1>1, <2>2, JoinIn
  <2> QED
    BY <2>1, <2>3 DEF Sound
<1> QED
  BY <1>3, <1>4

\* On the machine that wrote it, a table can be read.
LEMMA HomeIsReadable ==
  ASSUME StoreInv, machine = Home
  PROVE  ~Unreadable
BY DEF StoreInv, Unreadable, Opens, Home, OldKey

LEMMA LoadedIsSafe ==
  ASSUME StoreInv, TuningInv
  PROVE  /\ Safe(Loaded) /\ Safe(SetupBase)
         /\ Kept \subseteq Tunable /\ (tuned # {} => HasConfig)
<1>0. Kept \subseteq tuned /\ Kept \subseteq Tunable
  BY DEF TuningInv, Kept
<1>1. tuned # {} => HasConfig
  BY DEF TuningInv, HasConfig
<1>2. DOMAIN Default = Keys /\ Default.mode # None
  <2>1. DOMAIN Default = Keys
    BY DEF Default, Keys
  <2>2. Default.mode = "connected"
    BY DEF Default
  <2>3. "connected" # None
    BY StoreAssumption DEF Words
  <2> QED
    BY <2>1, <2>2, <2>3
<1>3. DOMAIN FromRows = Keys /\ FromRows.mode # None /\ \A k \in Kept : FromRows[k] = "tuned"
  <2>1. DOMAIN FromRows = Keys
    BY DEF FromRows
  <2>2. FromRows.mode # None
    BY <1>2 DEF FromRows, Keys, Encrypted
  <2>3. ASSUME NEW k \in Kept PROVE FromRows[k] = "tuned"
    <3>1. "tuned" # None
      BY StoreAssumption DEF Words
    <3>2. k \in Keys /\ k \notin Encrypted
      BY <1>0 DEF Keys, Encrypted, Tunable
    <3>3. rows[k] = "tuned"
      BY DEF TuningInv
    <3> QED
      BY <3>1, <3>2, <3>3 DEF FromRows
  <2> QED
    BY <2>1, <2>2, <2>3
<1>4. ASSUME NEW c, DOMAIN c = Keys, c.mode # None
      PROVE  /\ DOMAIN WithEnvironment(c) = Keys /\ WithEnvironment(c).mode # None
             /\ \A k \in Tunable : WithEnvironment(c)[k] = c[k]
  BY <1>4 DEF WithEnvironment, Keys, Tunable
<1>5. Safe(Loaded)
  <2>1. CASE HasConfig
    <3>1. Loaded = WithEnvironment(FromRows)
      BY <2>1 DEF Loaded
    <3> QED
      BY <1>0, <1>3, <1>4, <3>1 DEF Safe
  <2>2. CASE ~HasConfig
    <3>1. Loaded = WithEnvironment(Default) /\ Kept = {}
      BY <1>0, <1>1, <2>2 DEF Loaded
    <3> QED
      BY <1>2, <1>4, <3>1 DEF Safe
  <2> QED
    BY <2>1, <2>2
<1>6. Safe(SetupBase)
  <2>1. CASE HasConfig /\ ~Unreadable
    BY <1>5, <2>1 DEF SetupBase
  <2>2. CASE ~(HasConfig /\ ~Unreadable)
    <3>1. Kept = {}
      BY <1>1, <2>2, HomeIsReadable DEF Kept
    <3> QED
      BY <1>2, <2>2, <3>1 DEF SetupBase, Safe
  <2> QED
    BY <2>1, <2>2
<1> QED
  BY <1>0, <1>1, <1>5, <1>6

LEMMA LoadingKeepsRows ==
  ASSUME StoreInv
  PROVE  /\ DOMAIN LoadedRows = Keys
         /\ \A k \in Keys \ Encrypted : LoadedRows[k] = rows[k]
         /\ \A k \in Encrypted : LoadedRows[k] # None =>
              LoadedRows[k].by \in Nat /\ LoadedRows[k].by <= machine
<1>1. CASE ~HasConfig
  BY <1>1 DEF LoadedRows, StoreInv
<1>2. CASE HasConfig
  <2>1. LoadedRows = Migrated
    BY <1>2 DEF LoadedRows
  <2>2. DOMAIN Migrated = Keys /\ \A k \in Keys \ Encrypted : Migrated[k] = rows[k]
    BY DEF Migrated
  <2>3. ASSUME NEW k \in Encrypted, Migrated[k] # None
        PROVE  Migrated[k].by \in Nat /\ Migrated[k].by <= machine
    <3>1. k \in Keys
      BY DEF Keys, Encrypted
    <3>2. CASE rows[k] # None /\ Opens(rows[k])
      BY <3>1, <3>2 DEF Migrated, Seal, StoreInv
    <3>3. CASE ~(rows[k] # None /\ Opens(rows[k]))
      BY <2>3, <3>1, <3>3 DEF Migrated, StoreInv
    <3> QED
      BY <3>2, <3>3
  <2> QED
    BY <2>1, <2>2, <2>3
<1> QED
  BY <1>1, <1>2

-----------------------------------------------------------------------------
(* The steps.                                                              *)

LEMMA SameTable ==
  ASSUME StoreInv, TuningInv, UNCHANGED <<rows, machine>>, tuned' \subseteq tuned, SaveInv'
  PROVE  StoreInv' /\ TuningInv'
BY DEF StoreInv, TuningInv, Kept

\* The node detects an encoder only where none is tuned.
LEMMA DetectedTable ==
  ASSUME NEW CONSTANT table, DOMAIN table = Keys, NEW c, rows' \in Detected(table, c)
  PROVE  /\ DOMAIN rows' = Keys
         /\ \A k \in Keys \ {"encoder"} : rows'[k] = table[k]
         /\ c.encoder # None => rows' = table
BY DEF Detected

LEMMA LoadedTable ==
  ASSUME StoreInv, TuningInv, UNCHANGED machine, tuned' \subseteq tuned, SaveInv',
         NEW CONSTANT table, table \in {rows, LoadedRows},
         DOMAIN rows' = Keys, \A k \in Keys \ {"encoder"} : rows'[k] = table[k],
         "encoder" \in Kept => rows' = table
  PROVE  StoreInv' /\ TuningInv'
<1>1. /\ DOMAIN table = Keys /\ \A k \in Keys \ Encrypted : table[k] = rows[k]
      /\ \A k \in Encrypted : table[k] # None => table[k].by \in Nat /\ table[k].by <= machine
  <2>1. CASE table = rows
    BY <2>1 DEF StoreInv
  <2>2. CASE table = LoadedRows
    BY <2>2, LoadingKeepsRows
  <2> QED
    BY <2>1, <2>2
<1>2. Encrypted \subseteq Keys \ {"encoder"} /\ "mode" \in Keys \ Encrypted
      /\ Tunable \subseteq Keys \ Encrypted
  BY DEF Encrypted, Keys, Tunable
<1>3. StoreInv'
  BY <1>1, <1>2 DEF StoreInv
<1>4. rows'.mode = rows.mode
  BY <1>1, <1>2
<1>5. ASSUME NEW k \in Kept PROVE rows'[k] = "tuned"
  <2>1. k \in Tunable /\ rows[k] = "tuned"
    BY DEF TuningInv, Kept
  <2>2. table[k] = "tuned"
    BY <1>1, <1>2, <2>1
  <2>3. rows'[k] = table[k]
    BY <1>2, <2>1
  <2> QED
    BY <2>2, <2>3
<1>6. Kept' \subseteq Kept
  BY DEF Kept
<1> QED
  BY <1>3, <1>4, <1>5, <1>6 DEF TuningInv

LEMMA EmptiedTable ==
  ASSUME StoreInv, TuningInv, rows' = NoRows, tuned' = {}, UNCHANGED machine, pc' # "saving"
  PROVE  StoreInv' /\ TuningInv'
<1>1. DOMAIN rows' = Keys /\ \A k \in Encrypted : rows'[k] = None
  BY DEF NoRows, Keys, Encrypted
<1> QED
  BY <1>1 DEF StoreInv, TuningInv, SaveInv, Kept

LEMMA StoreInit == Init => StoreInv /\ TuningInv
<1> SUFFICES ASSUME Init PROVE StoreInv /\ TuningInv
  OBVIOUS
<1>1. machine = 1 /\ tuned = {} /\ pc = "off"
  BY DEF Init, Home
<1>2. TuningInv
  BY <1>1 DEF TuningInv, SaveInv, Kept
<1>3. DOMAIN NoRows = Keys /\ \A k \in Keys : NoRows[k] = None
  BY DEF NoRows
<1>4. Encrypted \subseteq Keys
  BY DEF Encrypted, Keys
<1>5. CASE rows = NoRows
  BY <1>1, <1>2, <1>3, <1>4, <1>5 DEF StoreInv
<1>6. CASE rows = [NoRows EXCEPT !.node_id = "id", !.tuning = "default",
                                 !.api_key = [value |-> 1, by |-> OldKey]]
  <2>1. DOMAIN rows = Keys
    BY <1>3, <1>6
  <2>2. "api_key" \in Keys /\ "secret" \in Keys
    BY DEF Keys
  <2>3. rows["secret"] = None
    BY <1>3, <1>6, <2>2
  <2>4. rows["api_key"] = [value |-> 1, by |-> OldKey]
    BY <1>3, <1>6, <2>2
  <2>5. rows["api_key"].by = 0
    BY <2>4 DEF OldKey
  <2> QED
    BY <1>1, <1>2, <2>1, <2>3, <2>5 DEF StoreInv, Encrypted
<1> QED
  BY <1>5, <1>6 DEF Init

\* One row of a save: the rows that wait keep the tuning, so each of them does.
LEMMA SaveRowKeeps ==
  ASSUME StoreInv, TuningInv, SaveRow
  PROVE  StoreInv' /\ TuningInv'
<1> DEFINE w == Head(todo)
<1>1. PICK S : todo \in Seq(S) /\ \A x \in S : SoundWrite(x, Kept)
  BY DEF SaveRow, TuningInv, SaveInv, Sound
<1>2. todo # <<>> /\ then # "saving"
  BY DEF SaveRow, TuningInv, SaveInv, Sound
<1>3. w \in S /\ Tail(todo) \in Seq(S)
  BY <1>1, <1>2
<1>4. SoundWrite(w, Kept)
  BY <1>1, <1>3
<1>5. rows' = [rows EXCEPT ![w.key] = Stored(w)]
  BY DEF SaveRow, Execute
<1>6. UNCHANGED <<machine, tuned, config>> /\ todo' = Tail(todo)
  BY DEF SaveRow, history
<1>70. Kept' = Kept
  BY <1>6 DEF Kept
<1>7. pc' = "saving" => Sound(todo', Kept) /\ then' # "saving"
  <2>1. CASE Len(todo) = 1
    BY <1>2, <2>1 DEF SaveRow
  <2>2. CASE Len(todo) # 1
    <3>1. Tail(todo) # <<>>
      <4>1. Len(todo) \in Nat \ {0} /\ Len(Tail(todo)) = Len(todo) - 1
        BY <1>1, <1>2
      <4>2. Len(Tail(todo)) # 0
        BY <2>2, <4>1
      <4>3. Tail(todo) \in Seq(S)
        BY <1>3
      <4> QED
        BY <4>2, <4>3, EmptySeq
    <3>2. then' = then
      BY <2>2 DEF SaveRow
    <3> QED
      BY <1>1, <1>2, <1>3, <1>6, <3>1, <3>2 DEF Sound
  <2> QED
    BY <2>1, <2>2
<1> HIDE DEF w
<1>8. DOMAIN rows' = Keys
  BY <1>5 DEF StoreInv
<1>9. ASSUME NEW k \in Encrypted, rows'[k] # None
      PROVE  rows'[k].by \in Nat /\ rows'[k].by <= machine'
  <2>1. CASE k = w.key
    <3>1. rows'[k] = Stored(w)
      BY <1>4, <1>5, <2>1 DEF StoreInv, SoundWrite
    <3>2. Stored(w) = Seal(w.value)
      BY <1>9, <2>1, <3>1 DEF Stored
    <3> QED
      BY <1>6, <3>1, <3>2 DEF Seal, StoreInv
  <2>2. CASE k # w.key
    <3>1. rows'[k] = rows[k]
      BY <1>5, <2>2 DEF StoreInv, Encrypted, Keys
    <3> QED
      BY <1>6, <1>9, <3>1 DEF StoreInv
  <2> QED
    BY <2>1, <2>2
<1>10. StoreInv'
  BY <1>6, <1>8, <1>9 DEF StoreInv
<1>11. tuned # {} => rows'.mode # None
  <2>1. CASE w.key = "mode"
    BY <1>4, <1>5, <2>1 DEF SoundWrite, Stored, Encrypted, StoreInv
  <2>2. CASE w.key # "mode"
    BY <1>5, <2>2 DEF TuningInv, StoreInv, Keys
  <2> QED
    BY <2>1, <2>2
<1>12. ASSUME NEW k \in Kept PROVE rows'[k] = "tuned"
  <2>0. k \in Tunable /\ rows[k] = "tuned"
    BY DEF TuningInv, Kept
  <2>1. CASE w.key = k
    BY <1>4, <1>5, <2>0, <2>1 DEF SoundWrite, Stored, Encrypted, StoreInv, Tunable
  <2>2. CASE w.key # k
    BY <1>5, <2>0, <2>2 DEF StoreInv, Keys, Tunable
  <2> QED
    BY <2>1, <2>2
<1>13. Registering' => Registering
  BY <1>2 DEF SaveRow, Registering
<1>14. SaveInv'
  BY <1>6, <1>7, <1>70, <1>13 DEF SaveInv, TuningInv
<1> QED
  BY <1>6, <1>70, <1>10, <1>11, <1>12, <1>14 DEF TuningInv

\* What a setup or a start without a database saves.
LEMMA SetupKeeps ==
  ASSUME StoreInv, TuningInv,
         \/ \E f \in {"terminal", "headless"} : Launch(f)
         \/ LaunchService
         \/ \E picks \in BOOLEAN : WizardLocal(picks) \/ WizardConnected(picks)
         \/ \E f \in {"terminal", "headless"}, lan \in BOOLEAN : QuickSetup(f, lan)
  PROVE  StoreInv' /\ TuningInv'
<1>1. Safe(Loaded) /\ Safe(SetupBase) /\ Kept \subseteq Tunable
  BY LoadedIsSafe
<1>2. Safe(Paired(SetupBase))
  <2>1. ASSUME NEW c, Safe(c) PROVE Safe(Paired(c))
    BY <1>1, <2>1, StoreAssumption DEF Safe, Paired, Keys, Words, Tunable
  <2> QED
    BY <1>1, <2>1
<1>3. ASSUME NEW c, Safe(c), NEW v
      PROVE  Safe([c EXCEPT !.bind = v]) /\ Safe(Secured(c, v))
  BY <1>1, <1>3 DEF Safe, Secured, Keys, Tunable
<1>4. PICK loaded : loaded = LoadedRows
  OBVIOUS
<1>5. DOMAIN LoadedRows = Keys
  BY LoadingKeepsRows
<1>6. \/ \E f \in {"terminal", "headless"} : Launch(f)
      \/ LaunchService
      => StoreInv' /\ TuningInv'
  <2> SUFFICES ASSUME \/ \E f \in {"terminal", "headless"} : Launch(f)
                      \/ LaunchService
               PROVE  StoreInv' /\ TuningInv'
    OBVIOUS
  <2>1. rows' = LoadedRows /\ UNCHANGED <<machine, tuned>>
    BY DEF Launch, LaunchService, history
  <2>2. Kept' = Kept
    BY <2>1 DEF Kept
  <2>3. pc' = "saving" => Sound(todo', Kept) /\ then' # "saving"
    <3>1. Sound(Writes(Loaded), Kept)
      BY <1>1, WritesAreSound
    <3> QED
      BY <3>1 DEF Launch, LaunchService, GoOn, SaveThen
  <2>4. Registering' => config'.encoder = Loaded.encoder
    BY DEF Launch, LaunchService, GoOn, SaveThen, Registering
  <2>5. "encoder" \in Kept => Loaded.encoder # None
    BY <1>1, StoreAssumption DEF Safe, Words
  <2>6. SaveInv'
    BY <2>2, <2>3, <2>4, <2>5 DEF SaveInv
  <2> QED
    BY <1>4, <1>5, <2>1, <2>6, LoadedTable
<1>7. ASSUME NEW CONSTANT c, Safe(c), NEW CONSTANT picks \in BOOLEAN,
             NEW CONSTANT rest \in Seq(Extra(picks)),
             rows' = LoadedRows, UNCHANGED machine, tuned' = Untouched(picks),
             SaveThen(Writes(c) \o rest, "starting")
      PROVE  StoreInv' /\ TuningInv'
  <2>1. Kept' = IF picks THEN Kept \ {"encoder"} ELSE Kept
    BY <1>7 DEF Kept, Untouched
  <2>2. Sound(todo', Kept') /\ then' = "starting" /\ pc' = "saving"
    BY <1>1, <1>7, <2>1, WritesAreSound DEF SaveThen
  <2>3. SaveInv'
    BY <2>2 DEF SaveInv, Registering
  <2>4. tuned' \subseteq tuned
    BY <1>7 DEF Untouched
  <2> QED
    BY <1>4, <1>5, <1>7, <2>3, <2>4, LoadedTable
<1>8. CASE \E picks \in BOOLEAN : WizardLocal(picks)
  <2>1. PICK picks \in BOOLEAN : WizardLocal(picks)
    BY <1>8
  <2>2. ASSUME NEW b, Safe(b)
        PROVE  Safe([b EXCEPT !.mode = "local", !.node_id = None,
                              !.api_key = None, !.bind = "lan"])
    BY <1>1, <2>2, StoreAssumption DEF Safe, Keys, Words, Tunable
  <2>3. PICK c : c = Secured([SetupBase EXCEPT !.mode = "local", !.node_id = None,
                                               !.api_key = None, !.bind = "lan"], passwords + 1)
    OBVIOUS
  <2>4. Safe(c)
    BY <1>1, <1>3, <2>2, <2>3
  <2>5. /\ rows' = LoadedRows /\ UNCHANGED machine /\ tuned' = Untouched(picks)
        /\ SaveThen(Writes(c) \o (Unpair \o Picked(picks)), "starting")
    BY <2>1, <2>3 DEF WizardLocal
  <2> QED
    BY <1>7, <2>4, <2>5, ExtraWrites
<1>9. CASE \E picks \in BOOLEAN : WizardConnected(picks)
  <2>1. PICK picks \in BOOLEAN : WizardConnected(picks)
    BY <1>9
  <2>2. PICK c : c = [Paired(SetupBase) EXCEPT !.bind = IF SetupBase.mode = "local" THEN "loopback"
                                                         ELSE SetupBase.bind]
    OBVIOUS
  <2>3. Safe(c)
    BY <1>2, <1>3, <2>2
  <2>4. /\ rows' = LoadedRows /\ UNCHANGED machine /\ tuned' = Untouched(picks)
        /\ SaveThen(Writes(c) \o Picked(picks), "starting")
    BY <2>1, <2>2 DEF WizardConnected
  <2> QED
    BY <1>7, <2>3, <2>4, ExtraWrites
<1>10. CASE \E f \in {"terminal", "headless"}, lan \in BOOLEAN : QuickSetup(f, lan)
  <2>1. PICK f \in {"terminal", "headless"}, lan \in BOOLEAN : QuickSetup(f, lan)
    BY <1>10
  <2>2. PICK b : b = [Paired(SetupBase) EXCEPT !.bind = IF lan THEN "lan" ELSE "loopback"]
    OBVIOUS
  <2>3. PICK c : c = IF lan THEN Secured(b, passwords + 1) ELSE b
    OBVIOUS
  <2>4. Safe(c)
    BY <1>2, <1>3, <2>2, <2>3
  <2>5. /\ rows' = LoadedRows /\ UNCHANGED machine /\ tuned' = Untouched(TRUE)
        /\ SaveThen(Writes(c) \o Picked(TRUE), "starting")
    BY <2>1, <2>2, <2>3 DEF QuickSetup
  <2> QED
    BY <1>7, <2>4, <2>5, ExtraWrites
<1> QED
  BY <1>6, <1>8, <1>9, <1>10

\* The steps that leave the table and what is tuned as they are.
LEMMA OthersKeep ==
  ASSUME StoreInv, TuningInv,
         \/ RegisterRefused \/ RegisterFails \/ StopNode
         \/ WizardEnds \/ SetupAgain \/ RequestStop \/ OtherCommand \/ ConfirmExpires
         \/ \E cmd \in {"wipe", "reauth"}, how \in {"bare", "args"} : Arm(cmd, how)
         \/ \E how \in {"bare", "confirm"} : Reauth(how)
         \/ ChangeEnvironment \/ RotateKey \/ Die
  PROVE  StoreInv' /\ TuningInv'
<1>1. UNCHANGED <<rows, machine, tuned>>
  BY DEF RegisterRefused, RegisterFails, StopNode, WizardEnds, SetupAgain, RequestStop,
         OtherCommand, ConfirmExpires, Arm, Reauth, ChangeEnvironment, RotateKey, Die,
         storeVars, history
<1>2. Kept' = Kept
  BY <1>1 DEF Kept
<1>3. SaveInv'
  <2>0. Sound(Unpair, Kept)
    BY LoadedIsSafe, UnpairIsSound
  <2>1. CASE RegisterRefused \/ \E how \in {"bare", "confirm"} : Reauth(how)
    BY <1>2, <2>0, <2>1 DEF RegisterRefused, Reauth, SaveThen, Ended, SaveInv, Registering
  <2>2. CASE RegisterFails \/ StopNode \/ WizardEnds \/ SetupAgain \/ Die
    BY <2>2 DEF RegisterFails, StopNode, WizardEnds, SetupAgain, Die, Ended, GoOn, SaveInv,
                Registering
  <2>3. CASE \/ RequestStop \/ OtherCommand \/ ConfirmExpires \/ ChangeEnvironment \/ RotateKey
             \/ \E cmd \in {"wipe", "reauth"}, how \in {"bare", "args"} : Arm(cmd, how)
    <3>1. UNCHANGED <<pc, todo, then, config>>
      BY <2>3 DEF RequestStop, OtherCommand, ConfirmExpires, ChangeEnvironment, RotateKey, Arm,
                  process, save
    <3> QED
      BY <1>2, <3>1 DEF TuningInv, SaveInv, Registering
  <2> QED
    BY <2>1, <2>2, <2>3
<1> QED
  BY <1>1, <1>3, SameTable

\* The node goes up, and may have detected an encoder.
LEMMA UpKeeps ==
  ASSUME StoreInv, TuningInv, Start \/ RegisterSucceeds
  PROVE  StoreInv' /\ TuningInv'
<1>1. PICK table : table = IF pc = "starting" THEN LoadedRows ELSE rows
  OBVIOUS
<1>2. DOMAIN table = Keys /\ table \in {rows, LoadedRows}
  BY <1>1, LoadingKeepsRows DEF StoreInv
<1>3. UNCHANGED <<machine, tuned>> /\ Kept' = Kept
  BY DEF Start, RegisterSucceeds, history, Kept
<1>4. "encoder" \in Kept => Loaded.encoder # None
  BY LoadedIsSafe, StoreAssumption DEF Safe, Words
<1>5. rows' = table \/ \E c : rows' \in Detected(table, c) /\ ("encoder" \in Kept => c.encoder # None)
  <2>1. CASE Start
    BY <1>1, <1>4, <2>1 DEF Start
  <2>2. CASE RegisterSucceeds
    <3>1. "encoder" \in Kept => config.encoder # None
      BY <2>2 DEF RegisterSucceeds, TuningInv, SaveInv, Registering
    <3> QED
      BY <1>1, <2>2, <3>1 DEF RegisterSucceeds
  <2> QED
    BY <2>1, <2>2
<1>6. /\ DOMAIN rows' = Keys /\ \A k \in Keys \ {"encoder"} : rows'[k] = table[k]
      /\ "encoder" \in Kept => rows' = table
  BY <1>2, <1>5, DetectedTable
<1>7. SaveInv'
  <2>1. CASE Start
    <3>1. pc' # "saving" /\ (Registering' => config'.encoder = Loaded.encoder)
      BY <2>1 DEF Start, Ended, GoOn, Registering
    <3> QED
      BY <1>3, <1>4, <3>1 DEF SaveInv
  <2>2. CASE RegisterSucceeds
    BY <2>2 DEF RegisterSucceeds, GoOn, SaveInv, Registering
  <2> QED
    BY <2>1, <2>2
<1> QED
  BY <1>2, <1>3, <1>6, <1>7, LoadedTable

LEMMA StoreNext == StoreInv /\ TuningInv /\ [Next]_vars => StoreInv' /\ TuningInv'
<1> SUFFICES ASSUME StoreInv, TuningInv, [Next]_vars PROVE StoreInv' /\ TuningInv'
  OBVIOUS
<1>1. CASE SaveRow
  BY <1>1, SaveRowKeeps
<1>2. CASE Start \/ RegisterSucceeds
  BY <1>2, UpKeeps
<1>3. CASE \E key \in Tunable : SetTuning(key)
  <2>1. PICK key \in Tunable : SetTuning(key)
    BY <1>3
  <2>2. /\ rows' = [rows EXCEPT ![key] = "tuned"]
        /\ tuned' = IF rows.mode = None THEN {} ELSE tuned \union {key}
        /\ pc' = "running" /\ machine' = machine
    BY <2>1 DEF SetTuning, AtDashboard, process
  <2>3. key \in Keys /\ key \notin Encrypted /\ key # "mode"
    BY DEF Tunable, Keys, Encrypted
  <2>4. DOMAIN rows' = Keys /\ \A k \in Keys \ {key} : rows'[k] = rows[k]
    BY <2>2 DEF StoreInv
  <2>5. rows'[key] = "tuned"
    BY <2>2, <2>3 DEF StoreInv
  <2>6. StoreInv'
    BY <2>2, <2>3, <2>4 DEF StoreInv, Encrypted, Keys
  <2>7. SaveInv'
    BY <2>2 DEF SaveInv, Registering
  <2>8. tuned' \subseteq Tunable /\ (tuned' # {} => rows'.mode # None)
    BY <2>2, <2>3, <2>4 DEF TuningInv, Keys
  <2>9. \A k \in Kept' : rows'[k] = "tuned"
    <3>1. ASSUME NEW k \in Kept', k # key PROVE rows'[k] = "tuned"
      <4>1. k \in Kept
        BY <2>2, <3>1 DEF Kept
      <4>2. k \in Keys
        BY <4>1 DEF Kept, TuningInv, Tunable, Keys
      <4> QED
        BY <2>4, <3>1, <4>1, <4>2 DEF TuningInv
    <3> QED
      BY <2>5, <3>1
  <2> QED
    BY <2>6, <2>7, <2>8, <2>9 DEF TuningInv
<1>4. CASE WipedFromAfar
  BY <1>4, EmptiedTable DEF WipedFromAfar, process
<1>5. CASE \E how \in {"bare", "confirm"} : Wipe(how)
  <2>1. pc = "running" /\ pc' = pc /\ machine' = machine /\ UNCHANGED save
    BY <1>5 DEF Wipe, AtDashboard
  <2>2. \/ rows' = NoRows /\ tuned' = {}
        \/ UNCHANGED <<rows, tuned>>
    BY <1>5 DEF Wipe
  <2>3. SaveInv'
    BY <2>1 DEF SaveInv, Registering
  <2> QED
    BY <2>1, <2>2, <2>3, EmptiedTable, SameTable
<1>6. CASE Move
  <2>1. pc' = "off" /\ machine' = machine + 1 /\ UNCHANGED <<rows, tuned>>
    BY <1>6 DEF Move, process, history
  <2>2. Kept' = {}
    BY <2>1 DEF StoreInv, Kept, Home
  <2>3. SaveInv'
    BY <2>1 DEF SaveInv, Registering
  <2>4. StoreInv'
    BY <2>1 DEF StoreInv
  <2> QED
    BY <2>1, <2>2, <2>3, <2>4 DEF TuningInv
<1>7. CASE UNCHANGED vars
  <2>1. UNCHANGED <<rows, machine, tuned, pc, todo, then, config>>
    BY <1>7 DEF vars, storeVars, process, save, history
  <2>2. SaveInv'
    BY <2>1 DEF SaveInv, TuningInv, Registering, Kept
  <2> QED
    BY <2>1, <2>2, SameTable
<1> QED
  BY <1>1, <1>2, <1>3, <1>4, <1>5, <1>6, <1>7, SetupKeeps, OthersKeep
     DEF Next, Program, Operator, World

\* What the operator tuned survives every setup, every death in the middle of one
\* and every reset of the credentials (save_to_db, the setups, recovery.rs), for any
\* number of them; the encoder, every setup that picks none (setup/mod.rs:351-358 and
\* setup/tui.rs:874-889 write one over it).
THEOREM TuningIsKeptHolds == Spec => []TuningIsKept
<1>1. TuningInv => TuningIsKept
  BY DEF TuningInv, TuningIsKept, Kept
<1> QED
  BY <1>1, StoreInit, StoreNext, PTL DEF Spec

-----------------------------------------------------------------------------
(* The confirmation of a destructive command.                              *)

\* The dashboard remembers a command until it is done or forgotten; no other step
\* touches it.
LEMMA LinesOfSteps ==
  ASSUME [Next]_vars
  PROVE  \/ armed' = None /\ line' = None
         \/ UNCHANGED <<armed, line>>
         \/ \E cmd \in {"wipe", "reauth"}, how \in {"bare", "args"} : Arm(cmd, how)
         \/ \E how \in {"bare", "confirm"} : Wipe(how) \/ Reauth(how)
         \/ armed' = None /\ line' \in [cmd : {"set", "other"}, how : {"args", "bare"}]
<1>1. CASE Program
  BY <1>1 DEF Program, SaveRow, Start, RegisterSucceeds, RegisterRefused, StopNode,
              Ended, GoOn, SaveThen, console
<1>2. CASE World
  BY <1>2 DEF World, ConfirmExpires, RegisterFails, WipedFromAfar, RotateKey, Die, Move, Ended, console
<1>3. CASE Operator
  <2>1. CASE \/ \E f \in {"terminal", "headless"} : Launch(f)
             \/ SetupAgain \/ LaunchService \/ WizardEnds
             \/ \E picks \in BOOLEAN : WizardLocal(picks) \/ WizardConnected(picks)
             \/ \E f \in {"terminal", "headless"}, lan \in BOOLEAN : QuickSetup(f, lan)
    BY <2>1 DEF Launch, SetupAgain, LaunchService, WizardLocal, WizardConnected, WizardEnds,
                QuickSetup, Ended, GoOn, SaveThen, console
  <2>2. CASE OtherCommand \/ \E key \in Tunable : SetTuning(key)
    BY <2>2 DEF SetTuning, OtherCommand
  <2>3. CASE RequestStop \/ ChangeEnvironment
    BY <2>3 DEF RequestStop, ChangeEnvironment, console
  <2> QED
    BY <1>3, <2>1, <2>2, <2>3 DEF Operator
<1>4. CASE UNCHANGED vars
  BY <1>4 DEF vars, console
<1> QED
  BY <1>1, <1>2, <1>3, <1>4 DEF Next

LEMMA ArmedNext == ArmedInv /\ [Next]_vars => ArmedInv'
<1> SUFFICES ASSUME ArmedInv, [Next]_vars PROVE ArmedInv'
  OBVIOUS
<1>1. CASE armed' = None
  BY <1>1 DEF ArmedInv
<1>2. CASE UNCHANGED <<armed, line>>
  BY <1>2 DEF ArmedInv
<1>3. CASE \E cmd \in {"wipe", "reauth"}, how \in {"bare", "args"} : Arm(cmd, how)
  <2>1. PICK cmd \in {"wipe", "reauth"}, how \in {"bare", "args"} : Arm(cmd, how)
    BY <1>3
  <2>2. armed' = cmd /\ line' = [cmd |-> cmd, how |-> how]
    BY <2>1 DEF Arm
  <2>3. [cmd |-> cmd, how |-> how] \in Lines
    BY DEF Lines, Commands
  <2> QED
    BY <2>2, <2>3, StartupAssumption DEF ArmedInv
<1>4. CASE \E how \in {"bare", "confirm"} : Wipe(how) \/ Reauth(how)
  BY <1>1, <1>4 DEF Wipe, Reauth
<1> QED
  BY <1>1, <1>2, <1>3, <1>4, LinesOfSteps

\* /wipe and /reauth are carried out only on "confirm" or on a second press of the
\* same command (check_or_arm_confirm), whatever is typed in between.
THEOREM DestructionIsConfirmedHolds == Spec => DestructionIsConfirmed
<1> DEFINE Forgets == armed' = None /\ line' # None /\ line' # line
           Destroys == line'.cmd \in {"wipe", "reauth"}
           Confirms == line'.how = "confirm" \/ (line # None /\ line.cmd = line'.cmd)
<1>1. Init => ArmedInv
  BY DEF Init, ArmedInv
<1>2. ArmedInv /\ [Next]_vars => [Forgets /\ Destroys => Confirms]_vars
  <2> SUFFICES ASSUME ArmedInv, [Next]_vars, Forgets, Destroys PROVE Confirms
    OBVIOUS
  <2>1. CASE \E cmd \in {"wipe", "reauth"}, how \in {"bare", "args"} : Arm(cmd, how)
    BY <2>1, StartupAssumption DEF Arm, Commands
  <2>2. CASE \E how \in {"bare", "confirm"} : Wipe(how) \/ Reauth(how)
    <3>1. PICK cmd \in {"wipe", "reauth"}, how \in {"bare", "confirm"} :
             Confirmed(cmd, how) /\ line' = [cmd |-> cmd, how |-> how]
      BY <2>2 DEF Wipe, Reauth
    <3>2. cmd # None
      BY StartupAssumption DEF Commands
    <3> QED
      BY <3>1, <3>2 DEF Confirmed, ArmedInv
  <2> QED
    BY <2>1, <2>2, LinesOfSteps
<1> QED
  BY <1>1, <1>2, ArmedNext, PTL DEF Spec, DestructionIsConfirmed

-----------------------------------------------------------------------------
(* Who may reach the node, and with which password.                        *)

\* A node other machines can reach has a password, and the session secret drawn
\* with it; unless it is Local, somebody asked for its being open.
Guarded(c) == c.bind = "lan" => c.hash # None /\ c.secret = c.hash
Asked(c, who) == c.mode # "local" /\ c.bind = "lan" => who = "lan"

Elements(s) == {s[i] : i \in 1 .. Len(s)}
Watched == {"mode", "bind", "hash", "secret"}

SoundAccess(write) ==
  /\ write.key \in Watched => write.value # None
  /\ write.key = "secret" => write.value \in Nat

\* The rows that wait complete the table to the configuration c.
Completes(s, c) ==
  \A k \in Watched :
    /\ \A w \in Elements(s) : w.key = k => w.value = c[k]
    /\ (\A w \in Elements(s) : w.key # k) => FromRows[k] = c[k]

\* The program runs with the configuration, or will once the save is done.
Active ==
  /\ ~stop
  /\ pc \in {"registering", "running"} \/ (pc = "saving" /\ then \in {"registering", "running"})

AccessInv ==
  /\ passwords \in Nat
  /\ rows["secret"] # None => rows["secret"].value \in Nat
  /\ pc = "saving" => \A w \in Elements(todo) : SoundAccess(w)
  /\ ~torn =>
       /\ pc # "saving" => Guarded(FromRows) /\ Asked(FromRows, asked)
       /\ pc = "saving" => \E c : Completes(todo, c) /\ Guarded(c) /\ Asked(c, asked)
       /\ Guarded(config)
       /\ Active => Asked(config, asked)

\* What a save may start from.
Sane(c) ==
  /\ DOMAIN c = Keys
  /\ c.mode # None /\ c.bind # None
  /\ c.secret \in Nat \union {None}

LEMMA ElementsOfJoin ==
  ASSUME NEW S, NEW a \in Seq(S), NEW b \in Seq(S)
  PROVE  Elements(a \o b) = Elements(a) \union Elements(b)
<1>1. /\ Len(a) \in Nat /\ Len(b) \in Nat /\ Len(a \o b) = Len(a) + Len(b)
  OBVIOUS
<1>2. ASSUME NEW i \in 1 .. Len(a) PROVE (a \o b)[i] = a[i] /\ i \in 1 .. Len(a \o b)
  BY <1>1
<1>3. ASSUME NEW i \in 1 .. Len(b)
      PROVE  (a \o b)[Len(a) + i] = b[i] /\ Len(a) + i \in 1 .. Len(a \o b)
  BY <1>1
<1>4. ASSUME NEW i \in 1 .. Len(a \o b)
      PROVE  \/ i \in 1 .. Len(a) /\ (a \o b)[i] = a[i]
             \/ i - Len(a) \in 1 .. Len(b) /\ (a \o b)[i] = b[i - Len(a)]
  BY <1>1
<1>5. Elements(a \o b) \subseteq Elements(a) \union Elements(b)
  BY <1>4 DEF Elements
<1>6. Elements(a) \subseteq Elements(a \o b)
  BY <1>2 DEF Elements
<1>7. Elements(b) \subseteq Elements(a \o b)
  <2> SUFFICES ASSUME NEW i \in 1 .. Len(b) PROVE b[i] \in Elements(a \o b)
    BY DEF Elements
  <2> QED
    BY <1>3 DEF Elements
<1> QED
  BY <1>5, <1>6, <1>7

LEMMA ElementsOfRow ==
  ASSUME NEW c, NEW key
  PROVE  Elements(Row(c, key)) = IF c[key] = None THEN {} ELSE {Put(key, c[key])}
<1>1. CASE c[key] = None
  BY <1>1 DEF Row, Elements
<1>2. CASE c[key] # None
  <2>1. Row(c, key) = <<Put(key, c[key])>>
    BY <1>2 DEF Row
  <2> QED
    BY <1>2, <2>1 DEF Elements
<1> QED
  BY <1>1, <1>2

\* A save writes every row the configuration has a value for, and no other.
LEMMA ElementsOfWrites ==
  ASSUME NEW c
  PROVE  Elements(Writes(c)) = {Put(k, c[k]) : k \in {j \in Keys : c[j] # None}}
<1> DEFINE S == {Put(k, c[k]) : k \in {j \in Keys : c[j] # None}}
           R(k) == Row(c, k)
           E(k) == IF c[k] = None THEN {} ELSE {Put(k, c[k])}
<1>1. \A k \in Keys : R(k) \in Seq(S) /\ Elements(R(k)) = E(k)
  BY RowIsSafe, ElementsOfRow
<1>2. Writes(c) = ((((((R("mode") \o R("node_id")) \o R("tuning")) \o R("encoder")) \o R("bind"))
                     \o R("api_key")) \o R("hash")) \o R("secret")
  BY DEF Writes
<1> HIDE DEF R, E
<1>3. /\ R("mode") \in Seq(S) /\ R("node_id") \in Seq(S) /\ R("tuning") \in Seq(S)
      /\ R("encoder") \in Seq(S) /\ R("bind") \in Seq(S) /\ R("api_key") \in Seq(S) /\ R("hash") \in Seq(S)
      /\ R("secret") \in Seq(S)
  BY <1>1 DEF Keys
<1> HIDE DEF S
<1>4. ASSUME NEW a \in Seq(S), NEW b \in Seq(S)
      PROVE  a \o b \in Seq(S) /\ Elements(a \o b) = Elements(a) \union Elements(b)
  BY JoinIn, ElementsOfJoin
<1> DEFINE s2 == R("mode") \o R("node_id")
           s3 == s2 \o R("tuning")
           t4 == s3 \o R("encoder")
           s4 == t4 \o R("bind")
           s5 == s4 \o R("api_key")
           s6 == s5 \o R("hash")
<1>5. s2 \in Seq(S) /\ Elements(s2) = E("mode") \union E("node_id")
  BY <1>1, <1>3, <1>4 DEF Keys
<1>6. s3 \in Seq(S) /\ Elements(s3) = Elements(s2) \union E("tuning")
  <2> HIDE DEF s2
  <2> QED
    BY <1>1, <1>3, <1>4, <1>5 DEF Keys
<1>60. t4 \in Seq(S) /\ Elements(t4) = Elements(s3) \union E("encoder")
  <2> HIDE DEF s3
  <2> QED
    BY <1>1, <1>3, <1>4, <1>6 DEF Keys
<1>7. s4 \in Seq(S) /\ Elements(s4) = Elements(t4) \union E("bind")
  <2> HIDE DEF t4
  <2> QED
    BY <1>1, <1>3, <1>4, <1>60 DEF Keys
<1>8. s5 \in Seq(S) /\ Elements(s5) = Elements(s4) \union E("api_key")
  <2> HIDE DEF s4
  <2> QED
    BY <1>1, <1>3, <1>4, <1>7 DEF Keys
<1>9. s6 \in Seq(S) /\ Elements(s6) = Elements(s5) \union E("hash")
  <2> HIDE DEF s5
  <2> QED
    BY <1>1, <1>3, <1>4, <1>8 DEF Keys
<1>10. Elements(s6 \o R("secret")) = Elements(s6) \union E("secret")
  <2> HIDE DEF s6
  <2> QED
    BY <1>1, <1>3, <1>4, <1>9 DEF Keys
<1>11. Writes(c) = s6 \o R("secret")
  BY <1>2
<1> HIDE DEF s2, s3, t4, s4, s5, s6
<1>12. Elements(Writes(c)) = E("mode") \union E("node_id") \union E("tuning")
                              \union E("encoder") \union E("bind") \union E("api_key")
                              \union E("hash") \union E("secret")
  BY <1>5, <1>6, <1>60, <1>7, <1>8, <1>9, <1>10, <1>11
<1> QED
  BY <1>12 DEF S, E, Keys

LEMMA ElementsOfUnpair == Elements(Unpair) = {Delete("node_id"), Delete("api_key")}
BY DEF Elements, Unpair

LEMMA ElementsOfTail ==
  ASSUME NEW S, NEW s \in Seq(S), s # <<>>
  PROVE  Elements(s) = {Head(s)} \union Elements(Tail(s))
<1>1. /\ Len(s) \in Nat \ {0} /\ Len(Tail(s)) = Len(s) - 1
      /\ \A i \in 1 .. Len(s) - 1 : Tail(s)[i] = s[i + 1]
      /\ Head(s) = s[1]
  OBVIOUS
<1>2. Elements(s) \subseteq {Head(s)} \union Elements(Tail(s))
  <2> SUFFICES ASSUME NEW i \in 1 .. Len(s), i # 1 PROVE s[i] \in Elements(Tail(s))
    BY <1>1 DEF Elements
  <2>1. i - 1 \in 1 .. Len(Tail(s)) /\ Tail(s)[i - 1] = s[i]
    BY <1>1
  <2> QED
    BY <2>1 DEF Elements
<1>3. Elements(Tail(s)) \subseteq Elements(s)
  <2> SUFFICES ASSUME NEW i \in 1 .. Len(Tail(s)) PROVE Tail(s)[i] \in Elements(s)
    BY DEF Elements
  <2>1. i + 1 \in 1 .. Len(s) /\ Tail(s)[i] = s[i + 1]
    BY <1>1
  <2> QED
    BY <2>1 DEF Elements
<1> QED
  BY <1>1, <1>2, <1>3 DEF Elements

\* The save of a configuration completes the table to it; what it has no value for
\* stays as it is, and no row the access depends on comes after it.
LEMMA SaveCompletes ==
  ASSUME NEW CONSTANT c, Sane(c), NEW CONSTANT rest, rest \in Seq(Extra(TRUE)),
         \A k \in Watched : FromRows'[k] = FromRows[k],
         todo' = Writes(c) \/ todo' = Writes(c) \o rest
  PROVE  /\ \A w \in Elements(todo') : SoundAccess(w)
         /\ Guarded(c) /\ Asked(c, asked') =>
              \E d : (Completes(todo, d) /\ Guarded(d) /\ Asked(d, asked))'
<1> DEFINE written == {Put(k, c[k]) : k \in {j \in Keys : c[j] # None}}
           extra == Extra(TRUE)
           table == [k \in Keys |-> IF c[k] = None THEN FromRows[k] ELSE c[k]]
<1>1. written \subseteq Elements(todo') /\ Elements(todo') \subseteq written \union extra
  <2>1. Elements(Writes(c)) = written /\ Writes(c) \in Seq(written)
    BY ElementsOfWrites, WritesOfConfig DEF Sane
  <2>2. Elements(rest) \subseteq extra
    <3>1. ASSUME NEW S, NEW t \in Seq(S) PROVE Elements(t) \subseteq S
      BY DEF Elements
    <3>2. rest \in Seq(extra)
      OBVIOUS
    <3> HIDE DEF extra
    <3> QED
      BY <3>1, <3>2
  <2> HIDE DEF written, extra
  <2>3. Writes(c) \in Seq(written \union extra) /\ rest \in Seq(written \union extra)
    <3>1. rest \in Seq(extra)
      BY DEF extra
    <3> QED
      BY <2>1, <3>1
  <2>4. Elements(Writes(c) \o rest) = written \union Elements(rest)
    BY <2>1, <2>3, ElementsOfJoin
  <2> QED
    BY <2>1, <2>2, <2>4
<1>2. Watched \subseteq Keys
  BY DEF Watched, Keys
<1>3. ASSUME NEW w \in Elements(todo'), w.key \in Watched
      PROVE  w.value = c[w.key] /\ w.value # None
  <2>1. w \notin extra
    BY <1>3 DEF Extra, Delete, Put, Watched
  <2>2. PICK k \in Keys : w = Put(k, c[k]) /\ c[k] # None
    BY <1>1, <2>1
  <2> QED
    BY <2>2 DEF Put
<1>4. ASSUME NEW k \in Watched, \A w \in Elements(todo') : w.key # k
      PROVE  c[k] = None
  <2> SUFFICES ASSUME c[k] # None PROVE FALSE
    OBVIOUS
  <2>1. Put(k, c[k]) \in Elements(todo')
    BY <1>1, <1>2
  <2> QED
    BY <1>4, <2>1 DEF Put
<1>5. \A w \in Elements(todo') : SoundAccess(w)
  <2> SUFFICES ASSUME NEW w \in Elements(todo') PROVE SoundAccess(w)
    OBVIOUS
  <2>1. w.key = "secret" => w.value = c["secret"] /\ w.value # None
    BY <1>3 DEF Watched
  <2> QED
    BY <1>3, <2>1 DEF SoundAccess, Sane
<1>6. PICK d : d = table
  OBVIOUS
<1>7. \A k \in Watched : d[k] = IF c[k] = None THEN FromRows[k] ELSE c[k]
  BY <1>2, <1>6
<1> HIDE DEF table
<1>8. ASSUME NEW k \in Watched
      PROVE  /\ \A w \in Elements(todo') : w.key = k => w.value = d[k]
             /\ (\A w \in Elements(todo') : w.key # k) => FromRows'[k] = d[k]
  BY <1>3, <1>4, <1>7, <1>8
<1>9. Completes(todo, d)'
  BY <1>8 DEF Completes
<1>10. d.bind = c.bind /\ d.mode = c.mode
  BY <1>7 DEF Watched, Sane
<1>11. Guarded(c) => Guarded(d)
  BY <1>7, <1>10 DEF Watched, Guarded
<1>12. Asked(c, asked') => Asked(d, asked')
  BY <1>10 DEF Asked
<1>13. Guarded(c) /\ Asked(c, asked') => (Completes(todo, d) /\ Guarded(d) /\ Asked(d, asked))'
  BY <1>9, <1>11, <1>12 DEF Guarded, Asked
<1> QED
  BY <1>5, <1>13

LEMMA DefaultIsSane == Sane(Default) /\ Guarded(Default) /\ \A who : Asked(Default, who)
<1>1. /\ DOMAIN Default = Keys /\ Default.mode = "connected" /\ Default.bind = "loopback"
      /\ Default.secret = None
  BY DEF Default, Keys
<1>2. "connected" # None /\ "loopback" # None
  BY StoreAssumption DEF Words
<1> QED
  BY <1>1, <1>2 DEF Sane, Guarded, Asked

LEMMA EnvironmentIsSane ==
  ASSUME NEW c, Sane(c)
  PROVE  /\ Sane(WithEnvironment(c))
         /\ Guarded(c) => Guarded(WithEnvironment(c))
         /\ \A who : Asked(c, who) => Asked(WithEnvironment(c), who)
BY DEF Sane, Guarded, Asked, WithEnvironment, Keys

\* What is loaded while no save is torn or under way.
LEMMA LoadedIsSane ==
  ASSUME StoreInv, AccessInv
  PROVE  /\ Sane(Loaded) /\ Sane(SetupBase)
         /\ ~torn /\ pc # "saving" =>
              /\ Guarded(Loaded) /\ Asked(Loaded, asked)
              /\ Guarded(SetupBase) /\ Asked(SetupBase, asked)
<1>1. Sane(FromRows)
  <2>1. DOMAIN FromRows = Keys
    BY DEF FromRows
  <2>2. FromRows.mode # None /\ FromRows.bind # None
    <3>1. Default.mode # None /\ Default.bind # None
      BY DefaultIsSane DEF Sane
    <3>2. {"mode", "bind"} \subseteq Keys \ Encrypted
      BY DEF Keys, Encrypted
    <3> QED
      BY <3>1, <3>2 DEF FromRows
  <2>3. FromRows.secret \in Nat \union {None}
    <3>1. "secret" \in Keys /\ "secret" \in Encrypted
      BY DEF Keys, Encrypted
    <3>2. FromRows.secret = IF rows["secret"] = None THEN Default["secret"]
                                                     ELSE rows["secret"].value
      BY <3>1 DEF FromRows
    <3> QED
      BY <3>2 DEF AccessInv, Default
  <2> QED
    BY <2>1, <2>2, <2>3 DEF Sane
<1>2. /\ Sane(Loaded)
      /\ ~torn /\ pc # "saving" => Guarded(Loaded) /\ Asked(Loaded, asked)
  <2>1. CASE HasConfig
    <3>1. Loaded = WithEnvironment(FromRows)
      BY <2>1 DEF Loaded
    <3> QED
      BY <1>1, <3>1, EnvironmentIsSane DEF AccessInv
  <2>2. CASE ~HasConfig
    <3>1. Loaded = WithEnvironment(Default)
      BY <2>2 DEF Loaded
    <3> QED
      BY <3>1, DefaultIsSane, EnvironmentIsSane
  <2> QED
    BY <2>1, <2>2
<1>3. SetupBase = Loaded \/ SetupBase = Default
  BY DEF SetupBase
<1> QED
  BY <1>2, <1>3, DefaultIsSane

\* Encrypting a row anew leaves what can be read in it.
LEMMA LoadingKeepsValues ==
  ASSUME StoreInv, AccessInv, NEW CONSTANT table, table \in {rows, LoadedRows},
         \A k \in Keys \ {"encoder"} : rows'[k] = table[k]
  PROVE  /\ \A k \in Watched : FromRows'[k] = FromRows[k]
         /\ rows'["secret"] # None => rows'["secret"].value \in Nat
<1>1. Watched \subseteq Keys \ {"encoder"} /\ "secret" \in Watched /\ "secret" \in Encrypted
      /\ Watched \ {"secret"} \subseteq Keys \ Encrypted
  BY DEF Watched, Keys, Encrypted
<1>2. CASE table = rows \/ ~HasConfig
  <2>1. \A k \in Watched : rows'[k] = rows[k]
    BY <1>1, <1>2 DEF LoadedRows
  <2>2. \A k \in Watched : FromRows'[k] = FromRows[k]
    BY <1>1, <2>1 DEF FromRows
  <2> QED
    BY <1>1, <2>1, <2>2 DEF AccessInv
<1>3. CASE table = LoadedRows /\ HasConfig
  <2>1. table = Migrated
    BY <1>3 DEF LoadedRows
  <2>2. \A k \in Watched \ {"secret"} : rows'[k] = rows[k]
    BY <1>1, <2>1 DEF Migrated
  <2>3. \A k \in Watched \ {"secret"} : FromRows'[k] = FromRows[k]
    BY <1>1, <2>2 DEF FromRows
  <2>4. CASE rows["secret"] # None /\ Opens(rows["secret"])
    <3>1. rows'["secret"] = [value |-> rows["secret"].value, by |-> machine]
      BY <1>1, <2>1, <2>4 DEF Migrated, Seal
    <3>2. rows["secret"].value \in Nat /\ machine \in Nat
      BY <2>4 DEF AccessInv, StoreInv
    <3>3. rows'["secret"] # None
      BY <3>1, <3>2, StoreAssumption
    <3>4. FromRows'["secret"] = FromRows["secret"]
      BY <1>1, <2>4, <3>1, <3>3 DEF FromRows
    <3> QED
      BY <2>3, <3>1, <3>2, <3>4
  <2>5. CASE ~(rows["secret"] # None /\ Opens(rows["secret"]))
    <3>1. rows'["secret"] = rows["secret"]
      BY <1>1, <2>1, <2>5 DEF Migrated
    <3>2. FromRows'["secret"] = FromRows["secret"]
      BY <1>1, <3>1 DEF FromRows
    <3> QED
      BY <2>3, <3>1, <3>2 DEF AccessInv
  <2> QED
    BY <2>4, <2>5
<1> QED
  BY <1>2, <1>3

LEMMA AccessInit == Init => AccessInv
<1> SUFFICES ASSUME Init PROVE AccessInv
  OBVIOUS
<1>1. /\ passwords = 0 /\ pc = "off" /\ config = Default /\ asked = "loopback"
  BY DEF Init
<1>2. {"secret", "bind", "node_id", "tuning", "api_key"} \subseteq Keys
      /\ "secret" \in Encrypted /\ "bind" \notin Encrypted
  BY DEF Keys, Encrypted
<1>3. DOMAIN NoRows = Keys /\ \A k \in Keys : NoRows[k] = None
  BY DEF NoRows
<1>4. rows["secret"] = None /\ rows["bind"] = None
  BY <1>2, <1>3 DEF Init
<1>5. FromRows.bind = "loopback"
  BY <1>2, <1>4 DEF FromRows, Default
<1> QED
  BY <1>1, <1>4, <1>5, DefaultIsSane DEF AccessInv, Active, Guarded, Asked

\* A step that begins the save of a configuration.
LEMMA SaveBegins ==
  ASSUME StoreInv, AccessInv, rows' = LoadedRows, passwords' \in Nat, torn' = torn,
         NEW CONSTANT c, Sane(c), ~torn => Guarded(c) /\ Asked(c, asked'),
         NEW CONSTANT rest, rest \in Seq(Extra(TRUE)),
         todo' = Writes(c) \/ todo' = Writes(c) \o rest,
         pc' = "saving",
         ~torn => Guarded(config') /\ (Active' => Asked(config', asked'))
  PROVE  AccessInv'
<1>0. PICK table : table = LoadedRows
  OBVIOUS
<1>1. /\ \A k \in Watched : FromRows'[k] = FromRows[k]
      /\ rows'["secret"] # None => rows'["secret"].value \in Nat
  BY <1>0, LoadingKeepsValues
<1>2. /\ \A w \in Elements(todo') : SoundAccess(w)
      /\ ~torn => \E d : (Completes(todo, d) /\ Guarded(d) /\ Asked(d, asked))'
  BY <1>1, SaveCompletes
<1>3. (\A w \in Elements(todo) : SoundAccess(w))'
  BY <1>2 DEF SoundAccess
<1> QED
  BY <1>1, <1>2, <1>3 DEF AccessInv, Guarded, Asked

\* A step in which nothing is saved but, perhaps, an encoder.
LEMMA NothingSaved ==
  ASSUME StoreInv, AccessInv, NEW CONSTANT table, table \in {rows, LoadedRows},
         \A k \in Keys \ {"encoder"} : rows'[k] = table[k],
         UNCHANGED <<passwords, torn, asked>>,
         pc # "saving", pc' # "saving",
         ~torn => Guarded(config') /\ (Active' => Asked(config', asked'))
  PROVE  AccessInv'
<1>1. /\ \A k \in Watched : FromRows'[k] = FromRows[k]
      /\ rows'["secret"] # None => rows'["secret"].value \in Nat
  BY LoadingKeepsValues
<1>2. ~torn => (Guarded(FromRows) /\ Asked(FromRows, asked))'
  BY <1>1 DEF AccessInv, Guarded, Asked, Watched
<1> QED
  BY <1>1, <1>2 DEF AccessInv, Guarded, Asked

\* A step beside what the program does.
LEMMA SaveGoesOn ==
  ASSUME AccessInv, UNCHANGED <<rows, passwords, torn, asked, config, pc, todo, then>>,
         stop' = stop \/ stop'
  PROVE  AccessInv'
<1>1. FromRows' = FromRows
  BY DEF FromRows
<1>2. \A c : Completes(todo, c) => Completes(todo, c)'
  BY <1>1 DEF Completes, Elements
<1>3. Active' => Active
  BY DEF Active
<1> QED
  BY <1>1, <1>2, <1>3 DEF AccessInv, SoundAccess, Guarded, Asked, Elements

\* The credentials are deleted: no row the access depends on is written.
LEMMA UnpairBegins ==
  ASSUME AccessInv, UNCHANGED <<rows, passwords, torn, asked, config>>,
         pc # "saving", pc' = "saving", todo' = Unpair, ~Active'
  PROVE  AccessInv'
<1>1. FromRows' = FromRows
  BY DEF FromRows
<1>2. \A w \in Elements(todo') : w.key \notin Watched
  BY ElementsOfUnpair DEF Delete, Put, Watched
<1>3. PICK d : d = FromRows
  OBVIOUS
<1>4. Completes(todo, d)'
  BY <1>1, <1>2, <1>3 DEF Completes
<1>5. ~torn => (Guarded(d) /\ Asked(d, asked))'
  BY <1>3 DEF AccessInv, Guarded, Asked
<1>6. (\A w \in Elements(todo) : SoundAccess(w))'
  BY <1>2 DEF SoundAccess, Watched
<1> QED
  BY <1>4, <1>5, <1>6 DEF AccessInv, Guarded, Asked

\* One row: the rows that are left still complete the table, and after the last one
\* it is complete.
LEMMA SaveRowAccess ==
  ASSUME StoreInv, TuningInv, AccessInv, SaveRow
  PROVE  AccessInv'
<1> DEFINE w == Head(todo)
<1>1. PICK S : todo \in Seq(S) /\ \A x \in S : SoundWrite(x, Kept)
  BY DEF SaveRow, TuningInv, SaveInv, Sound
<1>2. todo # <<>> /\ then # "saving" /\ pc = "saving"
  BY DEF SaveRow, TuningInv, SaveInv, Sound
<1>3. /\ todo' = Tail(todo) /\ rows' = [rows EXCEPT ![w.key] = Stored(w)]
      /\ UNCHANGED <<machine, config, passwords, asked, torn>>
      /\ stop' = (stop /\ pc' # "off")
  BY DEF SaveRow, Execute, history
<1>4. Elements(todo) = {w} \union Elements(todo')
  BY <1>1, <1>2, <1>3, ElementsOfTail
<1>5. w.key \in Keys
  <2>1. w \in S
    BY <1>1, <1>2
  <2> QED
    BY <1>1, <2>1 DEF SoundWrite
<1>6. SoundAccess(w)
  BY <1>2, <1>4 DEF AccessInv
<1>7. Len(todo) = 1 => Elements(todo') = {}
  <2> SUFFICES ASSUME Len(todo) = 1 PROVE Elements(todo') = {}
    OBVIOUS
  <2>1. Len(Tail(todo)) = 0
    BY <1>1, <1>2
  <2>2. Elements(Tail(todo)) = {}
    <3>1. 1 .. 0 = {}
      OBVIOUS
    <3> QED
      BY <2>1, <3>1, Zenon DEF Elements
  <2> QED
    BY <1>3, <2>2
<1>8. /\ Len(todo) = 1 => pc' = then
      /\ Len(todo) # 1 => pc' = "saving" /\ then' = then
  BY <1>2 DEF SaveRow
<1> HIDE DEF w
<1>9. DOMAIN rows = Keys /\ Watched \subseteq Keys /\ "secret" \in Watched
      /\ "secret" \in Encrypted /\ \A k \in Watched \ {"secret"} : k \notin Encrypted
  BY DEF StoreInv, Watched, Keys, Encrypted
<1>10. ASSUME w.key = "secret"
       PROVE  /\ rows'["secret"].value = w.value /\ rows'["secret"] # None
              /\ w.value \in Nat
  <2>1. w.value \in Nat /\ w.value # None /\ machine \in Nat
    BY <1>6, <1>9, <1>10 DEF SoundAccess, StoreInv
  <2>2. rows'["secret"] = [value |-> w.value, by |-> machine]
    BY <1>3, <1>9, <1>10, <2>1 DEF Stored, Seal
  <2> QED
    BY <2>1, <2>2, StoreAssumption
<1>11. ASSUME NEW k \in Watched
       PROVE  FromRows'[k] = IF w.key = k THEN w.value ELSE FromRows[k]
  <2>1. CASE w.key # k
    <3>1. rows'[k] = rows[k]
      BY <1>3, <1>9, <2>1
    <3> QED
      BY <1>9, <2>1, <3>1 DEF FromRows
  <2>2. CASE w.key = k /\ k = "secret"
    BY <1>9, <1>10, <2>2 DEF FromRows
  <2>3. CASE w.key = k /\ k # "secret"
    <3>1. rows'[k] = w.value /\ w.value # None
      BY <1>3, <1>6, <1>9, <2>3 DEF Stored, SoundAccess
    <3> QED
      BY <1>9, <2>3, <3>1 DEF FromRows
  <2> QED
    BY <2>1, <2>2, <2>3
<1>12. rows'["secret"] # None => rows'["secret"].value \in Nat
  <2>1. CASE w.key = "secret"
    BY <1>10, <2>1
  <2>2. CASE w.key # "secret"
    BY <1>3, <1>9, <2>2 DEF AccessInv
  <2> QED
    BY <2>1, <2>2
<1>13. (\A x \in Elements(todo) : SoundAccess(x))'
  <2>1. \A x \in Elements(todo') : SoundAccess(x)
    BY <1>2, <1>4 DEF AccessInv
  <2> QED
    BY <2>1 DEF SoundAccess
<1>14. ASSUME ~torn
       PROVE  /\ pc' # "saving" => (Guarded(FromRows) /\ Asked(FromRows, asked))'
              /\ pc' = "saving" => \E c : (Completes(todo, c) /\ Guarded(c) /\ Asked(c, asked))'
  <2>1. PICK c : Completes(todo, c) /\ Guarded(c) /\ Asked(c, asked)
    BY <1>2, <1>14 DEF AccessInv
  <2>2. Completes(todo, c)'
    <3>1. ASSUME NEW k \in Watched
          PROVE  /\ \A x \in Elements(todo') : x.key = k => x.value = c[k]
                 /\ (\A x \in Elements(todo') : x.key # k) => FromRows'[k] = c[k]
      BY <1>4, <1>11, <2>1, <3>1 DEF Completes
    <3> QED
      BY <3>1 DEF Completes
  <2>3. (Guarded(c) /\ Asked(c, asked))'
    BY <1>3, <2>1 DEF Guarded, Asked
  <2>4. CASE pc' = "saving"
    BY <2>2, <2>3, <2>4
  <2>5. CASE pc' # "saving"
    <3>1. Elements(todo') = {}
      BY <1>7, <1>8, <2>5
    <3>2. \A k \in Watched : FromRows'[k] = c[k]
      BY <2>2, <3>1 DEF Completes
    <3> QED
      BY <2>3, <2>5, <3>2 DEF Guarded, Asked, Watched
  <2> QED
    BY <2>4, <2>5
<1>15. Active' => Active
  BY <1>2, <1>3, <1>8 DEF Active
<1> QED
  BY <1>3, <1>12, <1>13, <1>14, <1>15 DEF AccessInv, Guarded, Asked

LEMMA SetupAccess ==
  ASSUME StoreInv, AccessInv,
         \/ \E f \in {"terminal", "headless"} : Launch(f)
         \/ LaunchService
         \/ \E picks \in BOOLEAN : WizardLocal(picks) \/ WizardConnected(picks)
         \/ \E f \in {"terminal", "headless"}, lan \in BOOLEAN : QuickSetup(f, lan)
  PROVE  AccessInv'
<1>1. /\ Sane(Loaded) /\ Sane(SetupBase)
      /\ ~torn /\ pc # "saving" =>
           /\ Guarded(Loaded) /\ Asked(Loaded, asked)
           /\ Guarded(SetupBase) /\ Asked(SetupBase, asked)
  BY LoadedIsSane
<1>2. passwords \in Nat /\ (~torn => Guarded(config))
  BY DEF AccessInv
<1>3. PICK base : base = SetupBase
  OBVIOUS
<1>4. PICK loaded : loaded = Loaded
  OBVIOUS
<1>10. PICK table : table = LoadedRows
  OBVIOUS
<1>11. \A picks \in BOOLEAN :
         Picked(picks) \in Seq(Extra(TRUE)) /\ Unpair \o Picked(picks) \in Seq(Extra(TRUE))
  <2> SUFFICES ASSUME NEW picks \in BOOLEAN
               PROVE  /\ Picked(picks) \in Seq(Extra(TRUE))
                      /\ Unpair \o Picked(picks) \in Seq(Extra(TRUE))
    OBVIOUS
  <2> QED
    BY ExtraWrites
<1>5. CASE \E f \in {"terminal", "headless"} : Launch(f)
  <2>1. /\ rows' = LoadedRows /\ UNCHANGED <<passwords, torn, asked, config>>
        /\ pc = "off" /\ pc' \in {"wizard", "starting", "saving"}
        /\ pc' = "saving" => todo' = Writes(Loaded) /\ then' = "starting"
    BY <1>5 DEF Launch, GoOn, SaveThen, history
  <2>2. ~Active' /\ (~torn => Guarded(config'))
    BY <1>2, <2>1 DEF Active, Guarded
  <2>3. CASE pc' = "saving"
    BY <1>1, <1>2, <1>4, <1>11, <2>1, <2>2, <2>3, SaveBegins
  <2>4. CASE pc' # "saving"
    BY <1>10, <2>1, <2>2, <2>4, NothingSaved
  <2> QED
    BY <2>3, <2>4
<1>6. CASE LaunchService
  <2>1. /\ rows' = LoadedRows /\ UNCHANGED <<passwords, torn, asked>>
        /\ pc = "off" /\ pc' \in {"off", "registering", "saving"}
        /\ pc' = "saving" => todo' = Writes(Loaded)
        /\ config' = config \/ config' = Loaded
        /\ pc' # "off" => config' = Loaded
    BY <1>6 DEF LaunchService, GoOn, SaveThen, history
  <2>2. ~torn => Guarded(config') /\ (Active' => Asked(config', asked'))
    BY <1>1, <1>2, <2>1 DEF Active
  <2>3. CASE pc' = "saving"
    BY <1>1, <1>2, <1>4, <1>11, <2>1, <2>2, <2>3, SaveBegins
  <2>4. CASE pc' # "saving"
    BY <1>10, <2>1, <2>2, <2>4, NothingSaved
  <2> QED
    BY <2>3, <2>4
<1>7. CASE \E picks \in BOOLEAN : WizardLocal(picks)
  <2>6. PICK picks \in BOOLEAN : WizardLocal(picks)
    BY <1>7
  <2>0. PICK rest : WizardLocal(picks) /\ rest = Unpair \o Picked(picks)
    BY <2>6
  <2>1. PICK c : c = Secured([base EXCEPT !.mode = "local", !.node_id = None,
                                          !.api_key = None, !.bind = "lan"], passwords + 1)
    OBVIOUS
  <2>2. /\ rows' = LoadedRows /\ UNCHANGED <<torn, config>> /\ passwords' = passwords + 1
        /\ pc = "wizard" /\ pc' = "saving" /\ then' = "starting"
        /\ todo' = Writes(c) \o rest /\ asked' = "local"
    BY <1>3, <2>0, <2>1 DEF WizardLocal, SaveThen
  <2>3. Sane(c) /\ Guarded(c) /\ Asked(c, asked')
    <3>1. "local" # None /\ "lan" # None /\ passwords + 1 # None /\ passwords + 1 \in Nat
      BY <1>2, StoreAssumption DEF Words
    <3> QED
      BY <1>1, <1>3, <2>1, <3>1 DEF Sane, Guarded, Asked, Secured, Keys
  <2>4. ~Active' /\ (~torn => Guarded(config')) /\ passwords' \in Nat
    BY <1>2, <2>2 DEF Active, Guarded
  <2>5. rest \in Seq(Extra(TRUE))
    BY <1>11, <2>0
  <2> QED
    BY <2>2, <2>3, <2>4, <2>5, SaveBegins
<1>8. CASE \E picks \in BOOLEAN : WizardConnected(picks)
  <2>6. PICK picks \in BOOLEAN : WizardConnected(picks)
    BY <1>8
  <2>0. PICK rest : WizardConnected(picks) /\ rest = Picked(picks)
    BY <2>6
  <2>1. PICK c : c = [Paired(base) EXCEPT !.bind = IF base.mode = "local" THEN "loopback"
                                                    ELSE base.bind]
    OBVIOUS
  <2>2. /\ rows' = LoadedRows /\ UNCHANGED <<torn, config, passwords>>
        /\ asked' = IF asked = "local" THEN "loopback" ELSE asked
        /\ pc = "wizard" /\ pc' = "saving" /\ then' = "starting"
        /\ todo' = Writes(c) \o rest
    BY <1>3, <2>0, <2>1 DEF WizardConnected, SaveThen
  <2>3. Sane(c) /\ (~torn => Guarded(c) /\ Asked(c, asked'))
    <3>1. "connected" # None /\ "loopback" # None
      BY StoreAssumption DEF Words
    <3>2. /\ DOMAIN c = Keys /\ c.mode = "connected" /\ c.hash = base.hash
          /\ c.secret = base.secret
          /\ c.bind = IF base.mode = "local" THEN "loopback" ELSE base.bind
      BY <1>1, <1>3, <2>1 DEF Sane, Paired, Keys
    <3>3. Sane(c)
      BY <1>1, <1>3, <3>1, <3>2 DEF Sane
    <3>4. ~torn => Guarded(base) /\ Asked(base, asked)
      BY <1>1, <1>3, <2>2
    <3> QED
      BY <2>2, <3>2, <3>3, <3>4 DEF Guarded, Asked
  <2>4. ~Active' /\ (~torn => Guarded(config')) /\ passwords' \in Nat
    BY <1>2, <2>2 DEF Active, Guarded
  <2>5. rest \in Seq(Extra(TRUE))
    BY <1>11, <2>0
  <2> QED
    BY <2>2, <2>3, <2>4, <2>5, SaveBegins
<1>9. CASE \E f \in {"terminal", "headless"}, lan \in BOOLEAN : QuickSetup(f, lan)
  <2>1. PICK f \in {"terminal", "headless"}, lan \in BOOLEAN : QuickSetup(f, lan)
    BY <1>9
  <2>2. PICK b : b = [Paired(base) EXCEPT !.bind = IF lan THEN "lan" ELSE "loopback"]
    OBVIOUS
  <2>3. PICK c : c = IF lan THEN Secured(b, passwords + 1) ELSE b
    OBVIOUS
  <2>7. PICK rest : rest = Picked(TRUE)
    OBVIOUS
  <2>4. /\ rows' = LoadedRows /\ UNCHANGED <<torn, config>>
        /\ passwords' = IF lan THEN passwords + 1 ELSE passwords
        /\ asked' = IF lan THEN "lan" ELSE "loopback"
        /\ pc' = "saving" /\ then' = "starting"
        /\ todo' = Writes(c) \o rest
    BY <1>3, <2>1, <2>2, <2>3, <2>7 DEF QuickSetup, SaveThen
  <2>5. Sane(c) /\ Guarded(c) /\ Asked(c, asked')
    <3>1. /\ "connected" # None /\ "loopback" # None /\ "lan" # None
          /\ passwords + 1 # None /\ passwords + 1 \in Nat
      BY <1>2, StoreAssumption DEF Words
    <3>2. /\ DOMAIN b = Keys /\ b.mode = "connected" /\ b.secret = base.secret
          /\ b.bind = IF lan THEN "lan" ELSE "loopback"
      BY <1>1, <1>3, <2>2 DEF Sane, Paired, Keys
    <3>3. CASE lan
      BY <2>3, <2>4, <3>1, <3>2, <3>3 DEF Sane, Guarded, Asked, Secured, Keys
    <3>4. CASE ~lan
      BY <1>1, <1>3, <2>3, <3>1, <3>2, <3>4 DEF Sane, Guarded, Asked
    <3> QED
      BY <3>3, <3>4
  <2>6. ~Active' /\ (~torn => Guarded(config')) /\ passwords' \in Nat
    BY <1>2, <2>4 DEF Active, Guarded
  <2>8. rest \in Seq(Extra(TRUE))
    BY <1>11, <2>7
  <2> QED
    BY <2>4, <2>5, <2>6, <2>8, SaveBegins
<1> QED
  BY <1>5, <1>6, <1>7, <1>8, <1>9

LEMMA WipedAccess ==
  ASSUME AccessInv, rows' = NoRows, UNCHANGED <<passwords, torn, config>>,
         pc' # "saving", Active' => Active /\ asked' = asked
  PROVE  AccessInv'
<1>1. {"secret", "bind"} \subseteq Keys /\ "secret" \in Encrypted /\ "bind" \notin Encrypted
  BY DEF Keys, Encrypted
<1>2. rows'["secret"] = None /\ rows'["bind"] = None
  BY <1>1 DEF NoRows
<1>3. FromRows'.bind = "loopback"
  BY <1>1, <1>2 DEF FromRows, Default
<1>4. (Guarded(FromRows) /\ Asked(FromRows, asked))'
  BY <1>3 DEF Guarded, Asked
<1> QED
  BY <1>2, <1>4 DEF AccessInv, Guarded, Asked

LEMMA AccessNext == StoreInv /\ TuningInv /\ AccessInv /\ [Next]_vars => AccessInv'
<1> SUFFICES ASSUME StoreInv, TuningInv, AccessInv, [Next]_vars PROVE AccessInv'
  OBVIOUS
<1>1. CASE SaveRow
  BY <1>1, SaveRowAccess
<1>0. PICK now : now = rows
  OBVIOUS
<1>2. CASE Start
  <2>0. PICK table : table = LoadedRows
    OBVIOUS
  <2>1. /\ rows' = table \/ rows' \in Detected(table, Loaded)
        /\ UNCHANGED <<passwords, torn, asked>>
        /\ pc = "starting" /\ pc' \in {"off", "running", "registering"}
        /\ config' = config \/ config' = Loaded
        /\ pc' # "off" => config' = Loaded
    BY <1>2, <2>0 DEF Start, Ended, GoOn, history
  <2>2. ~torn => Guarded(config') /\ (Active' => Asked(config', asked'))
    BY <2>1, LoadedIsSane DEF Active, AccessInv
  <2>3. \A k \in Keys \ {"encoder"} : rows'[k] = table[k]
    BY <2>0, <2>1, LoadingKeepsRows, DetectedTable
  <2> QED
    BY <2>0, <2>1, <2>2, <2>3, NothingSaved
<1>11. CASE RegisterSucceeds
  <2>1. /\ rows' \in Detected(now, config)
        /\ UNCHANGED <<passwords, torn, asked, config>>
        /\ pc = "registering" /\ pc' = "running" /\ stop' = stop
    BY <1>0, <1>11 DEF RegisterSucceeds, GoOn, history
  <2>2. ~torn => Guarded(config') /\ (Active' => Asked(config', asked'))
    BY <2>1 DEF Active, AccessInv, Guarded, Asked
  <2>3. \A k \in Keys \ {"encoder"} : rows'[k] = now[k]
    BY <1>0, <2>1, DetectedTable DEF StoreInv
  <2> QED
    BY <1>0, <2>1, <2>2, <2>3, NothingSaved
<1>3. CASE StopNode \/ WizardEnds \/ RegisterFails \/ SetupAgain
  <2>1. /\ UNCHANGED <<rows, passwords, torn, asked, config>>
        /\ pc \in {"off", "registering", "running", "wizard"} /\ pc' \in {"off", "wizard"}
    BY <1>3 DEF StopNode, WizardEnds, RegisterFails, SetupAgain, Ended, GoOn, storeVars, history
  <2>2. ~torn => Guarded(config') /\ (Active' => Asked(config', asked'))
    BY <2>1 DEF Active, AccessInv, Guarded, Asked
  <2> QED
    BY <1>0, <2>1, <2>2, NothingSaved
<1>4. CASE RegisterRefused
  <2>1. /\ UNCHANGED <<rows, passwords, torn, asked, config>> /\ pc = "registering"
        /\ \/ pc' = "saving" /\ todo' = Unpair /\ then' = "wizard"
           \/ pc' = "off"
    BY <1>4 DEF RegisterRefused, SaveThen, Ended, storeVars, history
  <2>2. ~Active' /\ (~torn => Guarded(config'))
    BY <2>1 DEF Active, AccessInv, Guarded
  <2> QED
    BY <1>0, <2>1, <2>2, NothingSaved, UnpairBegins
<1>5. CASE \E how \in {"bare", "confirm"} : Reauth(how)
  <2>1. /\ UNCHANGED <<rows, passwords, torn, asked, config>> /\ pc = "running"
        /\ pc' = "saving" /\ todo' = Unpair /\ stop' = TRUE
    BY <1>5 DEF Reauth, AtDashboard, storeVars, history
  <2> QED
    BY <2>1, UnpairBegins DEF Active
<1>6. CASE \E how \in {"bare", "confirm"} : Wipe(how)
  <2>1. /\ UNCHANGED <<passwords, torn, config, pc, todo, then>> /\ pc = "running" /\ ~stop
        /\ \/ rows' = NoRows /\ asked' = IF stop' THEN "loopback" ELSE asked
           \/ UNCHANGED <<rows, asked, stop>>
    BY <1>6 DEF Wipe, AtDashboard, save
  <2> QED
    BY <2>1, WipedAccess, SaveGoesOn DEF Active
<1>7. CASE WipedFromAfar
  <2>1. /\ rows' = NoRows /\ UNCHANGED <<passwords, torn, config, asked, pc, stop>>
        /\ pc = "running"
    BY <1>7 DEF WipedFromAfar, process
  <2> QED
    BY <2>1, WipedAccess DEF Active
<1>8. CASE \E key \in Tunable : SetTuning(key)
  <2>0. PICK key \in Tunable : SetTuning(key)
    BY <1>8
  <2>1. /\ rows' = [rows EXCEPT ![key] = "tuned"] /\ pc = "running"
        /\ UNCHANGED <<passwords, torn, asked, config, pc, todo, then, stop>>
    BY <2>0 DEF SetTuning, AtDashboard, process, save
  <2>2. Watched \subseteq Keys /\ key \notin Watched /\ "secret" \in Watched
    BY DEF Watched, Keys, Tunable
  <2>3. \A k \in Watched : rows'[k] = rows[k]
    BY <2>1, <2>2 DEF StoreInv
  <2>4. \A k \in Watched : FromRows'[k] = FromRows[k]
    BY <2>2, <2>3 DEF FromRows
  <2>5. ~torn => (Guarded(FromRows) /\ Asked(FromRows, asked))'
    BY <2>1, <2>4 DEF AccessInv, Guarded, Asked, Watched
  <2>6. Active' => Active
    BY <2>1 DEF Active
  <2> QED
    BY <2>1, <2>2, <2>3, <2>5, <2>6 DEF AccessInv, Guarded, Asked
<1>9. CASE Die
  <2>1. /\ UNCHANGED <<rows, passwords, asked, config>> /\ pc' = "off"
        /\ torn' = (torn \/ pc = "saving")
    BY <1>9 DEF Die, Ended, storeVars
  <2>2. FromRows' = FromRows /\ ~Active'
    BY <2>1 DEF FromRows, Active
  <2> QED
    BY <2>1, <2>2 DEF AccessInv, Guarded, Asked
<1>10. CASE \/ RequestStop \/ OtherCommand \/ ConfirmExpires \/ ChangeEnvironment \/ RotateKey
            \/ Move \/ UNCHANGED vars
            \/ \E cmd \in {"wipe", "reauth"}, how \in {"bare", "args"} : Arm(cmd, how)
  <2>1. UNCHANGED <<rows, passwords, torn, asked, config, pc, todo, then>>
    BY <1>10 DEF RequestStop, OtherCommand, ConfirmExpires, ChangeEnvironment, RotateKey, Move,
                 Arm, vars, storeVars, process, save, history
  <2>2. stop' = stop \/ stop'
    BY <1>10 DEF RequestStop, OtherCommand, ConfirmExpires, ChangeEnvironment, RotateKey, Move,
                 Arm, vars, process
  <2> QED
    BY <2>1, <2>2, SaveGoesOn
<1> QED
  BY <1>1, <1>2, <1>3, <1>4, <1>5, <1>6, <1>7, <1>8, <1>9, <1>10, <1>11, SetupAccess
     DEF Next, Program, Operator, World

\* Any number of setups, switches between the modes, wipes, moves and rotated keys
\* leave a node that other machines can reach with a password and with the session
\* secret that was drawn with it (the setups, save_to_db, Config::load).
THEOREM AdminCanSignInHolds == Spec => []AdminCanSignIn
<1>1. AccessInv => AdminCanSignIn
  BY DEF AccessInv, AdminCanSignIn, Guarded
<1> QED
  BY <1>1, StoreInit, StoreNext, AccessInit, AccessNext, PTL DEF Spec

\* A paired node is open to its network only if the last setup that decided on it
\* asked for that (setup/tui.rs and the quick setup of setup/mod.rs).
THEOREM LanIsAskedForHolds == Spec => []LanIsAskedFor
<1>1. "connected" # "local"
  OBVIOUS
<1>2. AccessInv => LanIsAskedFor
  BY <1>1 DEF AccessInv, LanIsAskedFor, Running, Active, Asked
<1> QED
  BY <1>2, StoreInit, StoreNext, AccessInit, AccessNext, PTL DEF Spec

-----------------------------------------------------------------------------
(* Types.  The rows are written from saves that were cut anywhere, so what *)
(* waits must have the types of the table as well (RowsInv); the program's *)
(* place decides the rest (PlaceInv).                                      *)

Plain == {"mode", "bind", "hash"}

TypedValue(key, value, n) ==
  /\ key = "mode" => value \in {"connected", "local"}
  /\ key = "bind" => value \in {"loopback", "lan"}
  /\ key = "hash" => value \in 1 .. n

Typed(c, n) == \A k \in Plain : c[k] # None => TypedValue(k, c[k], n)

RowsInv ==
  /\ Typed(rows, passwords)
  /\ \A w \in Elements(todo) : TypedValue(w.key, w.value, passwords)

\* The program has loaded the configuration it runs with.
Committed == pc \in {"registering", "running"} \/ (pc = "saving" /\ then \in {"registering", "running"})

PlaceInv ==
  /\ pc \in {"off", "wizard", "saving", "starting", "registering", "running"}
  /\ pc = "saving" <=> todo # <<>>
  /\ pc = "saving" => then \in {"wizard", "starting", "registering", "running"}
  /\ stop => \/ pc = "running" \/ (pc = "saving" /\ then = "running")
             \/ pc = "registering" /\ scm = "Running"
  /\ scm = "Running" => frontend = "service"
  /\ Committed => Configured(config)
  /\ armed # None => pc = "running" /\ frontend = "terminal"

WorldInv ==
  /\ events \in 0 .. MaxEvents
  /\ valid \in Nat \ {0}
  /\ env \in {None} \union 1 .. valid

LEMMA WorldInit == Init => WorldInv
BY StartupAssumption DEF Init, WorldInv

LEMMA WorldNext == WorldInv /\ [Next]_vars => WorldInv'
<1> SUFFICES ASSUME WorldInv, [Next]_vars PROVE WorldInv'
  OBVIOUS
<1>1. events' = events \/ Event
  <2>1. CASE Program
    BY <2>1 DEF Program, SaveRow, Start, RegisterSucceeds, RegisterRefused, StopNode
  <2>2. CASE World
    BY <2>2 DEF World, ConfirmExpires, RegisterFails, WipedFromAfar, RotateKey, Die, Move
  <2>3. CASE Operator
    BY <2>3 DEF Operator, Launch, LaunchService, WizardLocal, WizardConnected, WizardEnds,
                QuickSetup, SetupAgain, RequestStop, SetTuning, OtherCommand, Arm, Wipe, Reauth,
                ChangeEnvironment
  <2>4. CASE UNCHANGED vars
    BY <2>4 DEF vars
  <2> QED
    BY <2>1, <2>2, <2>3, <2>4 DEF Next
<1>2. events' \in 0 .. MaxEvents
  BY <1>1, StartupAssumption DEF WorldInv, Event
<1>3. valid' = valid \/ valid' = valid + 1
  <2>1. CASE Program
    BY <2>1 DEF Program, SaveRow, Start, RegisterSucceeds, RegisterRefused, StopNode
  <2>2. CASE World
    BY <2>2 DEF World, ConfirmExpires, RegisterFails, WipedFromAfar, RotateKey, Die, Move
  <2>3. CASE Operator
    BY <2>3 DEF Operator, Launch, LaunchService, WizardLocal, WizardConnected, WizardEnds,
                QuickSetup, SetupAgain, RequestStop, SetTuning, OtherCommand, Arm, Wipe, Reauth,
                ChangeEnvironment
  <2>4. CASE UNCHANGED vars
    BY <2>4 DEF vars
  <2> QED
    BY <2>1, <2>2, <2>3, <2>4 DEF Next
<1>4. env' = env \/ env' \in {None, valid}
  <2>1. CASE Program
    BY <2>1 DEF Program, SaveRow, Start, RegisterSucceeds, RegisterRefused, StopNode, storeVars
  <2>2. CASE World
    BY <2>2 DEF World, ConfirmExpires, RegisterFails, WipedFromAfar, RotateKey, Die, Move, storeVars
  <2>3. CASE Operator
    BY <2>3 DEF Operator, Launch, LaunchService, WizardLocal, WizardConnected, WizardEnds,
                QuickSetup, SetupAgain, RequestStop, SetTuning, OtherCommand, Arm, Wipe, Reauth,
                ChangeEnvironment, storeVars
  <2>4. CASE UNCHANGED vars
    BY <2>4 DEF vars, storeVars
  <2> QED
    BY <2>1, <2>2, <2>3, <2>4 DEF Next
<1> QED
  BY <1>2, <1>3, <1>4 DEF WorldInv

LEMMA PlaceInit == Init => PlaceInv
BY DEF Init, PlaceInv, Committed

\* The place after a save was begun.
LEMMA SavePlace ==
  ASSUME NEW writes, Sound(writes, Kept),
         NEW where, where \in {"wizard", "starting", "registering", "running"},
         SaveThen(writes, where),
         stop => where = "running",
         scm' = "Running" => frontend' = "service",
         where \in {"registering", "running"} => Configured(config')
  PROVE  PlaceInv'
BY DEF SaveThen, PlaceInv, Committed, Sound

\* The place of a program that is gone.
LEMMA EndedPlace ==
  ASSUME Ended, scm' = "Running" => frontend' = "service"
  PROVE  PlaceInv'
BY DEF Ended, PlaceInv, Committed

LEMMA SamePlace ==
  ASSUME PlaceInv, UNCHANGED <<pc, todo, then, config, scm, frontend>>,
         armed' = None \/ armed' = armed \/ (pc = "running" /\ frontend = "terminal"),
         stop' = stop \/ ~stop' \/ pc = "running" \/ (pc = "registering" /\ scm = "Running")
  PROVE  PlaceInv'
BY DEF PlaceInv, Committed

LEMMA PlaceNext == StoreInv /\ TuningInv /\ PlaceInv /\ [Next]_vars => PlaceInv'
<1> SUFFICES ASSUME StoreInv, TuningInv, PlaceInv, [Next]_vars PROVE PlaceInv'
  OBVIOUS
<1>0. /\ Safe(Loaded) /\ Sound(Writes(Loaded), Kept)
      /\ Sound(Unpair, Kept)
  BY LoadedIsSafe, WritesAreSound, UnpairIsSound
<1>1. CASE SaveRow
  <2>1. PICK S : todo \in Seq(S)
    BY <1>1 DEF SaveRow, TuningInv, SaveInv, Sound
  <2>2. todo # <<>> /\ pc = "saving" /\ then # "saving" /\ Len(todo) \in Nat
    BY <1>1, <2>1 DEF SaveRow, TuningInv, SaveInv, Sound
  <2>3. Tail(todo) \in Seq(S) /\ Len(Tail(todo)) = Len(todo) - 1
    BY <2>1, <2>2
  <2>4. UNCHANGED <<config, scm, frontend, armed>> /\ todo' = Tail(todo)
    BY <1>1 DEF SaveRow, console
  <2>5. CASE Len(todo) = 1
    <3>1. Tail(todo) = <<>>
      <4>1. Len(Tail(todo)) = 0
        BY <2>3, <2>5
      <4> QED
        BY <2>3, <4>1, EmptySeq
    <3>2. pc' = then /\ then' = "off" /\ stop' = (stop /\ pc' # "off")
      BY <1>1, <2>5 DEF SaveRow
    <3>3. ~stop => ~stop'
      BY <3>2
    <3> QED
      BY <2>2, <2>4, <3>1, <3>2, <3>3 DEF PlaceInv, Committed
  <2>6. CASE Len(todo) # 1
    <3>1. Tail(todo) # <<>>
      <4>1. Len(Tail(todo)) # 0
        BY <2>2, <2>3, <2>6
      <4> QED
        BY <2>3, <4>1, EmptySeq
    <3>2. pc' = pc /\ then' = then /\ stop' = (stop /\ pc' # "off")
      BY <1>1, <2>6 DEF SaveRow
    <3>3. ~stop => ~stop'
      BY <3>2
    <3> QED
      BY <2>2, <2>4, <3>1, <3>2, <3>3 DEF PlaceInv, Committed
  <2> QED
    BY <2>5, <2>6
<1>2. CASE Start
  <2>1. CASE NeedsSetup
    BY <1>2, <2>1, EndedPlace DEF Start, PlaceInv
  <2>2. CASE ~NeedsSetup
    <3>1. /\ config' = Loaded /\ pc = "starting" /\ pc' \in {"running", "registering"}
          /\ UNCHANGED <<todo, then, armed, stop, scm, frontend>>
      BY <1>2, <2>2 DEF Start, GoOn, save, console
    <3>2. Configured(Loaded)
      BY <2>2 DEF NeedsSetup
    <3>3. Configured(config')
      BY <3>1, <3>2 DEF Configured
    <3>4. ~stop /\ ~stop'
      BY <3>1 DEF PlaceInv
    <3> QED
      BY <3>1, <3>3, <3>4 DEF PlaceInv, Committed
  <2> QED
    BY <2>1, <2>2
<1>3. CASE RegisterSucceeds
  <2>1. /\ pc = "registering" /\ pc' = "running"
        /\ UNCHANGED <<todo, then, armed, stop, scm, frontend, config>>
    BY <1>3 DEF RegisterSucceeds, GoOn, save, console
  <2> QED
    BY <2>1 DEF PlaceInv, Committed
<1>4. CASE RegisterRefused
  <2>1. pc = "registering" /\ frontend' = frontend
    BY <1>4 DEF RegisterRefused
  <2>2. CASE frontend = "terminal" /\ SaveThen(Unpair, "wizard") /\ scm' = scm
    BY <1>0, <2>1, <2>2, SavePlace DEF PlaceInv
  <2>3. CASE Ended /\ (scm' = scm \/ scm' = "Stopped")
    BY <2>1, <2>3, EndedPlace DEF PlaceInv
  <2> QED
    BY <1>4, <2>2, <2>3 DEF RegisterRefused
<1>5. CASE StopNode \/ RegisterFails \/ WizardEnds \/ Die
  <2>1. Ended /\ frontend' = frontend /\ scm' \in {scm, "Stopped", "none"}
    BY <1>5 DEF StopNode, RegisterFails, WizardEnds, Die
  <2> QED
    BY <2>1, EndedPlace DEF PlaceInv
<1>11. CASE SetupAgain
  <2>1. /\ pc = "off" /\ pc' = "wizard" /\ scm' = "none"
        /\ UNCHANGED <<todo, then, armed, stop, config>>
    BY <1>11 DEF SetupAgain, GoOn, save, console
  <2> QED
    BY <2>1 DEF PlaceInv, Committed
<1>6. CASE \E f \in {"terminal", "headless"} : Launch(f)
  <2>1. PICK f \in {"terminal", "headless"} : Launch(f)
    BY <1>6
  <2>2. pc = "off" /\ scm' = "none" /\ config' = config /\ ~stop
    BY <2>1 DEF Launch, PlaceInv
  <2>3. CASE GoOn("wizard") \/ GoOn("starting")
    <3>1. /\ UNCHANGED <<todo, then, armed, stop>> /\ pc' \in {"wizard", "starting"}
      BY <2>3 DEF GoOn, save, console
    <3> QED
      BY <2>2, <3>1 DEF PlaceInv, Committed
  <2>4. CASE SaveThen(Writes(Loaded), "starting")
    BY <1>0, <2>2, <2>4, SavePlace
  <2> QED
    BY <2>1, <2>3, <2>4 DEF Launch
<1>7. CASE LaunchService
  <2>1. pc = "off" /\ frontend' = "service" /\ ~stop /\ armed = None
    BY <1>7 DEF LaunchService, PlaceInv
  <2>2. CASE NeedsSetup
    <3>1. UNCHANGED <<pc, todo, then, armed, stop, config>>
      BY <1>7, <2>2 DEF LaunchService, save, console
    <3> QED
      BY <2>1, <3>1 DEF PlaceInv, Committed
  <2>3. CASE ~NeedsSetup
    <3>1. Configured(Loaded) /\ config' = Loaded
      BY <1>7, <2>3 DEF LaunchService, NeedsSetup
    <3>2. Configured(config')
      BY <3>1 DEF Configured
    <3>3. CASE GoOn("registering")
      <4>1. UNCHANGED <<todo, then, armed, stop>> /\ pc' = "registering"
        BY <3>3 DEF GoOn, save, console
      <4> QED
        BY <2>1, <3>2, <4>1 DEF PlaceInv, Committed
    <3>4. CASE SaveThen(Writes(Loaded), "registering")
      BY <1>0, <2>1, <3>2, <3>4, SavePlace
    <3> QED
      BY <1>7, <2>3, <3>3, <3>4 DEF LaunchService
  <2> QED
    BY <2>2, <2>3
<1>8. CASE \/ \E picks \in BOOLEAN : WizardLocal(picks) \/ WizardConnected(picks)
           \/ \E f \in {"terminal", "headless"}, lan \in BOOLEAN : QuickSetup(f, lan)
  <2>1. (pc = "wizard" /\ UNCHANGED <<frontend, scm>>) \/ (pc = "off" /\ scm' = "none")
    BY <1>8 DEF WizardLocal, WizardConnected, QuickSetup
  <2>2. pc' = "saving" /\ then' = "starting" /\ armed' = None /\ stop' = stop
    BY <1>8 DEF WizardLocal, WizardConnected, QuickSetup, SaveThen
  <2>3. StoreInv' /\ TuningInv'
    BY <1>8, SetupKeeps
  <2>4. todo' # <<>>
    BY <2>2, <2>3 DEF TuningInv, SaveInv, Sound
  <2>5. ~stop
    BY <2>1 DEF PlaceInv
  <2> QED
    BY <2>1, <2>2, <2>4, <2>5 DEF PlaceInv, Committed
<1>9. CASE \E how \in {"bare", "confirm"} : Reauth(how)
  <2>1. /\ pc = "running" /\ UNCHANGED <<frontend, scm, config>>
        /\ pc' = "saving" /\ todo' = Unpair /\ then' = "running" /\ armed' = None
    BY <1>9 DEF Reauth, AtDashboard
  <2>2. todo' # <<>>
    BY <1>0, <2>1 DEF Sound
  <2> QED
    BY <2>1, <2>2 DEF PlaceInv, Committed
<1>10. CASE \/ RequestStop \/ OtherCommand \/ ConfirmExpires \/ WipedFromAfar
            \/ RotateKey \/ Move \/ ChangeEnvironment \/ UNCHANGED vars
            \/ \E cmd \in {"wipe", "reauth"}, how \in {"bare", "args"} : Arm(cmd, how)
            \/ \E how \in {"bare", "confirm"} : Wipe(how)
            \/ \E key \in Tunable : SetTuning(key)
  <2>1. UNCHANGED <<pc, todo, then, config, scm, frontend>>
    BY <1>10 DEF RequestStop, SetTuning, OtherCommand, ConfirmExpires, WipedFromAfar, RotateKey,
                 Move, ChangeEnvironment, Arm, Wipe, vars, process, save
  <2>2. armed' = None \/ armed' = armed \/ (pc = "running" /\ frontend = "terminal")
    BY <1>10 DEF RequestStop, SetTuning, OtherCommand, ConfirmExpires, WipedFromAfar, RotateKey,
                 Move, ChangeEnvironment, Arm, Wipe, AtDashboard, vars, console
  <2>3. stop' = stop \/ ~stop' \/ pc = "running" \/ (pc = "registering" /\ scm = "Running")
    BY <1>10 DEF RequestStop, SetTuning, OtherCommand, ConfirmExpires, WipedFromAfar, RotateKey,
                 Move, ChangeEnvironment, Arm, Wipe, AtDashboard, vars, process
  <2> QED
    BY <2>1, <2>2, <2>3, SamePlace
<1> QED
  BY <1>1, <1>2, <1>3, <1>4, <1>5, <1>6, <1>7, <1>8, <1>9, <1>10, <1>11
     DEF Next, Program, Operator, World

LEMMA PlainKeys ==
  /\ Plain \subseteq Keys \ Encrypted
  /\ \A k \in Plain : k # "node_id" /\ k # "api_key" /\ k # "secret" /\ k \notin Tunable
BY DEF Plain, Keys, Encrypted, Tunable

LEMMA TypedGrows ==
  ASSUME NEW n \in Nat, NEW m \in Nat, n <= m
  PROVE  /\ \A k, v : TypedValue(k, v, n) => TypedValue(k, v, m)
         /\ \A c : Typed(c, n) => Typed(c, m)
<1>1. \A k, v : TypedValue(k, v, n) => TypedValue(k, v, m)
  BY DEF TypedValue
<1> QED
  BY <1>1 DEF Typed

LEMMA DefaultIsTyped == \A n : Typed(Default, n)
BY DEF Default, Typed, TypedValue, Plain

LEMMA EnvironmentIsTyped ==
  ASSUME NEW c, DOMAIN c = Keys, NEW n, Typed(c, n)
  PROVE  Typed(WithEnvironment(c), n)
<1>1. \A k \in Plain : WithEnvironment(c)[k] = c[k]
  BY PlainKeys DEF WithEnvironment
<1> QED
  BY <1>1 DEF Typed

\* What is loaded has the types of the table.
LEMMA LoadedIsTyped ==
  ASSUME RowsInv
  PROVE  Typed(Loaded, passwords) /\ Typed(SetupBase, passwords) /\ Typed(LoadedRows, passwords)
<1>1. DOMAIN FromRows = Keys /\ Typed(FromRows, passwords)
  <2>1. \A k \in Plain : FromRows[k] = IF rows[k] = None THEN Default[k] ELSE rows[k]
    BY PlainKeys DEF FromRows
  <2>2. DOMAIN FromRows = Keys
    BY DEF FromRows
  <2> QED
    BY <2>1, <2>2, DefaultIsTyped DEF Typed, RowsInv
<1>2. DOMAIN Default = Keys
  BY DEF Default, Keys
<1>3. Typed(Loaded, passwords)
  <2>1. CASE HasConfig
    <3>1. Loaded = WithEnvironment(FromRows)
      BY <2>1 DEF Loaded
    <3> QED
      BY <1>1, <3>1, EnvironmentIsTyped
  <2>2. CASE ~HasConfig
    <3>1. Loaded = WithEnvironment(Default)
      BY <2>2 DEF Loaded
    <3> QED
      BY <1>2, <3>1, DefaultIsTyped, EnvironmentIsTyped
  <2> QED
    BY <2>1, <2>2
<1>4. Typed(SetupBase, passwords)
  BY <1>3, DefaultIsTyped DEF SetupBase
<1>5. Typed(LoadedRows, passwords)
  <2>1. \A k \in Plain : LoadedRows[k] = rows[k]
    BY PlainKeys DEF LoadedRows, Migrated
  <2> QED
    BY <2>1 DEF Typed, RowsInv
<1> QED
  BY <1>3, <1>4, <1>5

\* A save of typed values, with what comes after it.
LEMMA WritesAreTyped ==
  ASSUME NEW c, c.mode # None, NEW n, Typed(c, n), NEW rest, rest \in Seq(Extra(TRUE)),
         NEW w, w \in Elements(Writes(c)) \/ w \in Elements(Writes(c) \o rest)
  PROVE  TypedValue(w.key, w.value, n)
<1> DEFINE written == {Put(k, c[k]) : k \in {j \in Keys : c[j] # None}}
           extra == Extra(TRUE)
<1>1. w \in written \union extra
  <2>1. Elements(Writes(c)) = written /\ Writes(c) \in Seq(written)
    BY ElementsOfWrites, WritesOfConfig
  <2>2. Elements(rest) \subseteq extra
    <3>1. ASSUME NEW S, NEW t \in Seq(S) PROVE Elements(t) \subseteq S
      BY DEF Elements
    <3>2. rest \in Seq(extra)
      OBVIOUS
    <3> HIDE DEF extra
    <3> QED
      BY <3>1, <3>2
  <2>3. Elements(Writes(c) \o rest) = Elements(Writes(c)) \union Elements(rest)
    <3>1. rest \in Seq(extra)
      OBVIOUS
    <3> HIDE DEF written, extra
    <3>2. Writes(c) \in Seq(written \union extra) /\ rest \in Seq(written \union extra)
      BY <2>1, <3>1
    <3> QED
      BY <3>2, ElementsOfJoin
  <2> HIDE DEF written, extra
  <2> QED
    BY <2>1, <2>2, <2>3
<1>2. CASE w \in extra
  BY <1>2 DEF Extra, Delete, Put, TypedValue
<1>3. CASE w \in written
  <2>1. PICK k \in Keys : w = Put(k, c[k]) /\ c[k] # None
    BY <1>3
  <2>2. w.key = k /\ w.value = c[k]
    BY <2>1 DEF Put
  <2>3. CASE k \in Plain
    BY <2>1, <2>2, <2>3 DEF Typed
  <2>4. CASE k \notin Plain
    BY <2>2, <2>4 DEF Plain, TypedValue
  <2> QED
    BY <2>3, <2>4
<1> QED
  BY <1>1, <1>2, <1>3

LEMMA RowsInit == Init => RowsInv
<1> SUFFICES ASSUME Init PROVE RowsInv
  OBVIOUS
<1>1. \A k \in Keys : NoRows[k] = None
  BY DEF NoRows
<1>2. DOMAIN NoRows = Keys
  BY DEF NoRows
<1>3. \A k \in Plain : rows[k] = None
  BY <1>1, <1>2, PlainKeys DEF Init, Tunable
<1>4. Elements(todo) = {}
  BY DEF Init, Elements
<1> QED
  BY <1>3, <1>4 DEF RowsInv, Typed

\* A step that begins the save of a configuration.
LEMMA TypedSave ==
  ASSUME RowsInv, passwords \in Nat, passwords' \in Nat, passwords <= passwords',
         rows' = LoadedRows \/ rows' = rows,
         NEW CONSTANT c, c.mode # None, Typed(c, passwords'),
         NEW CONSTANT rest, rest \in Seq(Extra(TRUE)),
         todo' = Writes(c) \/ todo' = Writes(c) \o rest
  PROVE  RowsInv'
<1>1. Typed(rows', passwords')
  BY LoadedIsTyped, TypedGrows DEF RowsInv
<1>2. \A w \in Elements(todo') : TypedValue(w.key, w.value, passwords')
  BY WritesAreTyped
<1> QED
  BY <1>1, <1>2 DEF RowsInv, Typed, TypedValue

\* A step in which no save of a configuration begins.
LEMMA TypedRest ==
  ASSUME RowsInv, UNCHANGED passwords,
         NEW table, table \in {LoadedRows, rows, NoRows},
         \A k \in Keys \ Tunable : rows'[k] = table[k],
         todo' = todo \/ todo' = <<>> \/ todo' = Unpair
  PROVE  RowsInv'
<1>1. Typed(rows', passwords')
  <2>1. Typed(table, passwords)
    <3>1. CASE table = NoRows
      BY <3>1, PlainKeys DEF NoRows, Typed
    <3>2. CASE table \in {LoadedRows, rows}
      BY <3>2, LoadedIsTyped DEF RowsInv
    <3> QED
      BY <3>1, <3>2
  <2>2. \A k \in Plain : rows'[k] = table[k]
    BY PlainKeys
  <2> QED
    BY <2>1, <2>2 DEF Typed
<1>2. \A w \in Elements(todo') : TypedValue(w.key, w.value, passwords')
  <2>1. CASE todo' = todo
    BY <2>1 DEF RowsInv
  <2>2. CASE todo' = <<>>
    <3>1. Elements(todo') = {}
      BY <2>2 DEF Elements
    <3> QED
      BY <3>1
  <2>3. CASE todo' = Unpair
    BY <2>3, ElementsOfUnpair DEF Delete, Put, TypedValue
  <2> QED
    BY <2>1, <2>2, <2>3
<1> QED
  BY <1>1, <1>2 DEF RowsInv, Typed, TypedValue

LEMMA SaveRowTyped ==
  ASSUME StoreInv, TuningInv, RowsInv, SaveRow
  PROVE  RowsInv'
<1> DEFINE w == Head(todo)
<1>1. PICK S : todo \in Seq(S) /\ \A x \in S : SoundWrite(x, Kept)
  BY DEF SaveRow, TuningInv, SaveInv, Sound
<1>2. todo # <<>>
  BY DEF SaveRow, TuningInv, SaveInv, Sound
<1>3. /\ todo' = Tail(todo) /\ rows' = [rows EXCEPT ![w.key] = Stored(w)]
      /\ passwords' = passwords
  BY DEF SaveRow, Execute, history
<1>4. Elements(todo) = {w} \union Elements(todo')
  BY <1>1, <1>2, <1>3, ElementsOfTail
<1> HIDE DEF w
<1>5. TypedValue(w.key, w.value, passwords)
  BY <1>4 DEF RowsInv
<1>6. ASSUME NEW k \in Plain, rows'[k] # None
      PROVE  TypedValue(k, rows'[k], passwords)
  <2>1. CASE k = w.key
    <3>1. rows'[k] = w.value
      BY <1>3, <2>1, PlainKeys DEF Stored, StoreInv
    <3> QED
      BY <1>5, <2>1, <3>1
  <2>2. CASE k # w.key
    <3>1. rows'[k] = rows[k]
      BY <1>3, <2>2, PlainKeys DEF StoreInv
    <3> QED
      BY <1>6, <3>1 DEF RowsInv, Typed
  <2> QED
    BY <2>1, <2>2
<1> QED
  BY <1>3, <1>4, <1>6 DEF RowsInv, Typed, TypedValue

\* What a setup saves.
LEMMA SetupIsTyped ==
  ASSUME StoreInv, TuningInv, RowsInv, passwords \in Nat,
         \/ \E picks \in BOOLEAN : WizardLocal(picks) \/ WizardConnected(picks)
         \/ \E f \in {"terminal", "headless"}, lan \in BOOLEAN : QuickSetup(f, lan)
  PROVE  RowsInv'
<1>1. PICK base : base = SetupBase
  OBVIOUS
<1>2. /\ Typed(base, passwords) /\ Typed(base, passwords + 1)
      /\ DOMAIN base = Keys /\ base.mode # None
  <2>1. Typed(base, passwords)
    BY <1>1, LoadedIsTyped
  <2>2. DOMAIN base = Keys /\ base.mode # None
    BY <1>1, LoadedIsSafe DEF Safe
  <2> QED
    BY <2>1, <2>2, TypedGrows
<1>3. "connected" # None /\ "local" # None
  BY StoreAssumption DEF Words
<1>7. PICK rests : rests = {Picked(FALSE), Picked(TRUE),
                            Unpair \o Picked(FALSE), Unpair \o Picked(TRUE)}
  OBVIOUS
<1>8. \A rest \in rests : rest \in Seq(Extra(TRUE))
  <2>1. ASSUME NEW picks \in BOOLEAN
        PROVE  Picked(picks) \in Seq(Extra(TRUE)) /\ Unpair \o Picked(picks) \in Seq(Extra(TRUE))
    BY ExtraWrites
  <2> QED
    BY <1>7, <2>1
<1>4. CASE \E picks \in BOOLEAN : WizardLocal(picks)
  <2>0. PICK picks \in BOOLEAN, rest \in rests :
          WizardLocal(picks) /\ rest = Unpair \o Picked(picks)
    BY <1>4, <1>7
  <2>1. PICK c : c = Secured([base EXCEPT !.mode = "local", !.node_id = None,
                                          !.api_key = None, !.bind = "lan"], passwords + 1)
    OBVIOUS
  <2>2. /\ rows' = LoadedRows /\ passwords' = passwords + 1
        /\ todo' = Writes(c) \o rest
    BY <1>1, <2>0, <2>1 DEF WizardLocal, SaveThen
  <2>3. c.mode = "local" /\ c.bind = "lan" /\ c.hash = passwords + 1
    BY <1>2, <2>1 DEF Secured, Keys
  <2>4. Typed(c, passwords')
    BY <2>2, <2>3 DEF Typed, TypedValue, Plain
  <2>5. passwords' \in Nat /\ passwords <= passwords' /\ c.mode # None
    BY <1>3, <2>2, <2>3
  <2> QED
    BY <1>8, <2>2, <2>4, <2>5, TypedSave
<1>5. CASE \E picks \in BOOLEAN : WizardConnected(picks)
  <2>0. PICK picks \in BOOLEAN, rest \in rests : WizardConnected(picks) /\ rest = Picked(picks)
    BY <1>5, <1>7
  <2>1. PICK c : c = [Paired(base) EXCEPT !.bind = IF base.mode = "local" THEN "loopback"
                                                    ELSE base.bind]
    OBVIOUS
  <2>2. rows' = LoadedRows /\ passwords' = passwords /\ todo' = Writes(c) \o rest
    BY <1>1, <2>0, <2>1 DEF WizardConnected, SaveThen
  <2>3. /\ c.mode = "connected" /\ c.hash = base.hash
        /\ c.bind = IF base.mode = "local" THEN "loopback" ELSE base.bind
    BY <1>2, <2>1 DEF Paired, Keys
  <2>4. Typed(c, passwords')
    BY <1>2, <2>2, <2>3 DEF Typed, TypedValue, Plain
  <2>5. passwords' \in Nat /\ passwords <= passwords' /\ c.mode # None
    BY <1>3, <2>2, <2>3
  <2> QED
    BY <1>8, <2>2, <2>4, <2>5, TypedSave
<1>6. CASE \E f \in {"terminal", "headless"}, lan \in BOOLEAN : QuickSetup(f, lan)
  <2>1. PICK f \in {"terminal", "headless"}, lan \in BOOLEAN : QuickSetup(f, lan)
    BY <1>6
  <2>2. PICK b : b = [Paired(base) EXCEPT !.bind = IF lan THEN "lan" ELSE "loopback"]
    OBVIOUS
  <2>3. PICK c : c = IF lan THEN Secured(b, passwords + 1) ELSE b
    OBVIOUS
  <2>9. PICK rest \in rests : rest = Picked(TRUE)
    BY <1>7
  <2>4. /\ rows' = LoadedRows
        /\ passwords' = IF lan THEN passwords + 1 ELSE passwords
        /\ todo' = Writes(c) \o rest
    BY <1>1, <2>1, <2>2, <2>3, <2>9 DEF QuickSetup, SaveThen
  <2>5. /\ b.mode = "connected" /\ b.hash = base.hash /\ DOMAIN b = Keys
        /\ b.bind = IF lan THEN "lan" ELSE "loopback"
    BY <1>2, <2>2 DEF Paired, Keys
  <2>6. /\ c.mode = "connected" /\ c.bind \in {"lan", "loopback"}
        /\ c.hash = IF lan THEN passwords + 1 ELSE base.hash
    BY <2>3, <2>5 DEF Secured, Keys
  <2>7. Typed(c, passwords')
    <3>1. CASE lan
      BY <2>4, <2>6, <3>1 DEF Typed, TypedValue, Plain
    <3>2. CASE ~lan
      BY <1>2, <2>4, <2>6, <3>2 DEF Typed, TypedValue, Plain
    <3> QED
      BY <3>1, <3>2
  <2>8. passwords' \in Nat /\ passwords <= passwords' /\ c.mode # None
    BY <1>3, <2>4, <2>6
  <2> QED
    BY <1>8, <2>4, <2>7, <2>8, TypedSave
<1> QED
  BY <1>4, <1>5, <1>6

LEMMA RowsNext ==
  StoreInv /\ TuningInv /\ AccessInv /\ RowsInv /\ [Next]_vars => RowsInv'
<1> SUFFICES ASSUME StoreInv, TuningInv, AccessInv, RowsInv, [Next]_vars PROVE RowsInv'
  OBVIOUS
<1>0. passwords \in Nat
  BY DEF AccessInv
<1>1. CASE SaveRow
  BY <1>1, SaveRowTyped
<1>2. CASE \/ \E picks \in BOOLEAN : WizardLocal(picks) \/ WizardConnected(picks)
           \/ \E f \in {"terminal", "headless"}, lan \in BOOLEAN : QuickSetup(f, lan)
  BY <1>0, <1>2, SetupIsTyped
<1>3. CASE LaunchService \/ \E f \in {"terminal", "headless"} : Launch(f)
  <2>1. PICK loaded : loaded = Loaded
    OBVIOUS
  <2>2. loaded.mode # None /\ Typed(loaded, passwords)
    BY <2>1, LoadedIsSafe, LoadedIsTyped DEF Safe
  <2>3. /\ rows' = LoadedRows /\ passwords' = passwords
        /\ todo' = todo \/ todo' = Writes(loaded)
    BY <1>3, <2>1 DEF Launch, LaunchService, GoOn, SaveThen, save, history
  <2>4. PICK rest : rest = Unpair
    OBVIOUS
  <2>5. rest \in Seq(Extra(TRUE))
    BY <2>4, ExtraWrites
  <2> QED
    <3>1. CASE todo' = todo
      <4>1. \A k \in Keys \ Tunable : rows'[k] = LoadedRows[k]
        BY <2>3
      <4> QED
        BY <2>3, <3>1, <4>1, TypedRest
    <3>2. CASE todo' = Writes(loaded)
      <4>1. Typed(loaded, passwords') /\ passwords' \in Nat /\ passwords <= passwords'
        BY <1>0, <2>2, <2>3
      <4> QED
        BY <2>2, <2>3, <2>5, <3>2, <4>1, TypedSave
    <3> QED
      BY <2>3, <3>1, <3>2
<1>4. CASE \E key \in Tunable : SetTuning(key)
  <2>1. /\ \A k \in Keys \ Tunable : rows'[k] = rows[k]
        /\ UNCHANGED <<passwords, todo>>
    BY <1>4 DEF SetTuning, save, StoreInv
  <2> QED
    BY <2>1, TypedRest
<1>6. CASE Start \/ RegisterSucceeds
  <2>1. PICK table : table = IF pc = "starting" THEN LoadedRows ELSE rows
    OBVIOUS
  <2>2. DOMAIN table = Keys /\ table \in {LoadedRows, rows, NoRows}
    BY <2>1, LoadingKeepsRows DEF StoreInv
  <2>3. rows' = table \/ \E c : rows' \in Detected(table, c)
    BY <1>6, <2>1 DEF Start, RegisterSucceeds
  <2>4. \A k \in Keys \ Tunable : rows'[k] = table[k]
    BY <2>2, <2>3, DetectedTable DEF Tunable
  <2>5. passwords' = passwords /\ todo' \in {todo, <<>>}
    BY <1>6 DEF Start, RegisterSucceeds, history, save, Ended, GoOn
  <2> QED
    BY <2>2, <2>4, <2>5, TypedRest
<1>5. CASE \/ RegisterRefused \/ RegisterFails \/ StopNode
           \/ WizardEnds \/ SetupAgain \/ RequestStop \/ OtherCommand \/ ConfirmExpires
           \/ WipedFromAfar
           \/ \E cmd \in {"wipe", "reauth"}, how \in {"bare", "args"} : Arm(cmd, how)
           \/ \E how \in {"bare", "confirm"} : Wipe(how) \/ Reauth(how)
           \/ ChangeEnvironment \/ RotateKey \/ Die \/ Move \/ UNCHANGED vars
  <2>1. passwords' = passwords
    BY <1>5 DEF RegisterRefused, RegisterFails, StopNode, WizardEnds, SetupAgain,
                RequestStop, OtherCommand, ConfirmExpires, WipedFromAfar, Arm, Wipe, Reauth,
                ChangeEnvironment, RotateKey, Die, Move, vars, history
  <2>2. rows' = rows \/ rows' = NoRows
    BY <1>5 DEF RegisterRefused, RegisterFails, StopNode, WizardEnds, SetupAgain,
                RequestStop, OtherCommand, ConfirmExpires, WipedFromAfar, Arm, Wipe, Reauth,
                ChangeEnvironment, RotateKey, Die, Move, vars, storeVars
  <2>3. todo' = todo \/ todo' = <<>> \/ todo' = Unpair
    BY <1>5 DEF RegisterRefused, RegisterFails, StopNode, WizardEnds, SetupAgain,
                RequestStop, OtherCommand, ConfirmExpires, WipedFromAfar, Arm, Wipe, Reauth,
                ChangeEnvironment, RotateKey, Die, Move, vars, save, Ended, GoOn, SaveThen
  <2> QED
    BY <2>1, <2>2, <2>3, TypedRest
<1> QED
  BY <1>1, <1>2, <1>3, <1>4, <1>5, <1>6 DEF Next, Program, Operator, World

\* The table, the environment and the place of the program stay in their types for
\* any number of saves cut between two rows: a node runs only with a configuration
\* that is complete (load_and_validate_config), a stop is pending only where it will
\* be polled, and a command is armed only at the dashboard.
THEOREM StartupTypeCorrect == Spec => []TypeOK
<1>1. StoreInv /\ AccessInv /\ RowsInv /\ PlaceInv /\ WorldInv => TypeOK
  <2> SUFFICES ASSUME StoreInv, AccessInv, RowsInv, PlaceInv, WorldInv PROVE TypeOK
    OBVIOUS
  <2>1. /\ rows.mode \in {None, "connected", "local"}
        /\ rows.bind \in {None, "loopback", "lan"}
        /\ rows.hash \in {None} \union 1 .. passwords
    BY DEF RowsInv, Typed, TypedValue, Plain
  <2>2. DOMAIN rows = Keys
    BY DEF StoreInv
  <2>3. \A k \in Encrypted : rows[k] # None => rows[k].by \in 0 .. machine
    BY DEF StoreInv
  <2>4. /\ pc \in {"off", "wizard", "saving", "starting", "registering", "running"}
        /\ pc = "saving" <=> todo # <<>>
        /\ stop => pc \in {"registering", "saving", "running"}
        /\ pc = "running" => Configured(config)
        /\ armed # None => pc = "running" /\ frontend = "terminal"
    BY DEF PlaceInv, Committed
  <2> QED
    BY <2>1, <2>2, <2>3, <2>4 DEF TypeOK, WorldInv
<1> QED
  BY <1>1, StoreInit, StoreNext, AccessInit, AccessNext, RowsInit, RowsNext,
     PlaceInit, PlaceNext, WorldInit, WorldNext, PTL DEF Spec
=============================================================================
