-------------------------- MODULE AfterUploadProofs --------------------------
(***************************************************************************)
(* Theorems about AfterUpload, for every cooldown, every number of tasks   *)
(* and every bound.                                                        *)
(*                                                                         *)
(* ReportsAreSpaced, OnlyMotionSuppresses: the instant of a report is      *)
(* taken before the lock under which it is claimed, so instants come to    *)
(* the lock in any order.  What makes the spacing inductive is that the    *)
(* reports are in the order of their instants and the cooldown counts from *)
(* the last of them.                                                       *)
(*                                                                         *)
(* DayPlaysInOrder: the rows of a day come in the order their tasks end    *)
(* in, but each has the number of the segment that was read.               *)
(*                                                                         *)
(* CodecFitsFrames: of the operators of CodecDetector, for every report of *)
(* an ordinary stream.                                                     *)
(***************************************************************************)
EXTENDS AfterUpload, FiniteSetTheorems, WellFoundedInduction, TLAPS

MotionInv ==
  /\ now \in Nat
  /\ \A s \in DOMAIN detecting : detecting[s].time \in Nat /\ DOMAIN detecting[s] = {"at", "time"}
  /\ reported \in Seq(Nat)
  /\ last_motion \in Nat \union {None}
  /\ last_motion # None <=> reported # <<>>
  /\ reported # <<>> => last_motion = reported[Len(reported)]
  /\ \A i, j \in 1 .. Len(reported) : i < j => reported[j] - reported[i] >= Cooldown

\* The part of it that the tasks' bookkeeping can disturb.
TimesOK ==
  \A s \in DOMAIN detecting : detecting[s].time \in Nat /\ DOMAIN detecting[s] = {"at", "time"}

LEMMA SameReports ==
  ASSUME MotionInv, TimesOK', UNCHANGED <<last_motion, reported>>, now' \in Nat
  PROVE  MotionInv'
BY DEF MotionInv, TimesOK

LEMMA WithoutKeepsTimes ==
  ASSUME TimesOK, NEW s, detecting' = Without(detecting, s)
  PROVE  TimesOK'
BY DEF TimesOK, Without, Restrict

LEMMA WithKeepsTimes ==
  ASSUME TimesOK, NEW s, NEW task, DOMAIN task = {"at", "time"}, task.time \in Nat,
         detecting' = With(detecting, s, task)
  PROVE  TimesOK'
BY DEF TimesOK, With

LEMMA StartKeepsTimes ==
  ASSUME TimesOK, NEW s, StartTasks(s)
  PROVE  TimesOK'
<1> DEFINE task == [at |-> "peek", time |-> 0]
<1>1. DOMAIN task = {"at", "time"} /\ task.time \in Nat
  OBVIOUS
<1>2. detecting' = detecting \/ detecting' = With(detecting, s, task)
  BY DEF StartTasks
<1> HIDE DEF task
<1>3. CASE detecting' = detecting
  BY <1>3 DEF TimesOK
<1>4. CASE detecting' = With(detecting, s, task)
  BY <1>1, <1>4, WithKeepsTimes
<1> QED
  BY <1>2, <1>3, <1>4

\* A report that is not suppressed is a cooldown later than the last one, and so
\* than all of them.
LEMMA ClaimKeepsSpacing ==
  ASSUME MotionInv, NEW s \in DOMAIN detecting, Claim(s)
  PROVE  MotionInv'
<1> DEFINE time == detecting[s].time
<1>1. /\ time \in Nat /\ now' = now /\ now \in Nat /\ TimesOK
      /\ detecting' = Without(detecting, s)
  BY DEF MotionInv, TimesOK, Claim, clock
<1>2. TimesOK'
  BY <1>1, WithoutKeepsTimes
<1>3. CASE Cooling(time)
  BY <1>1, <1>2, <1>3, SameReports DEF Claim
<1>4. CASE ~Cooling(time)
  <2>1. last_motion' = time /\ reported' = Append(reported, time)
    BY <1>4 DEF Claim
  <2>2. /\ reported' \in Seq(Nat) /\ reported' # <<>>
        /\ Len(reported) \in Nat /\ Len(reported') = Len(reported) + 1
        /\ reported'[Len(reported')] = time
        /\ \A i \in 1 .. Len(reported) : reported'[i] = reported[i] /\ reported[i] \in Nat
    BY <1>1, <2>1 DEF MotionInv
  <2>3. last_motion' \in Nat /\ last_motion' # None
    BY <1>1, <2>1, AfterUploadAssumption
  <2>4. ASSUME NEW i \in 1 .. Len(reported)
        PROVE  time - reported[i] >= Cooldown
    <3>1. reported # <<>>
      BY DEF MotionInv
    <3>2. /\ last_motion # None /\ last_motion \in Nat
          /\ last_motion = reported[Len(reported)] /\ Len(reported) \in 1 .. Len(reported)
      BY <2>2, <3>1 DEF MotionInv
    <3>3. time - last_motion >= Cooldown
      BY <1>1, <1>4, <3>2, AfterUploadAssumption DEF Cooling
    <3>4. reported[i] <= last_motion
      <4>1. CASE i = Len(reported)
        BY <2>2, <3>2, <4>1
      <4>2. CASE i < Len(reported)
        <5>1. reported[Len(reported)] - reported[i] >= Cooldown
          BY <3>2, <4>2 DEF MotionInv
        <5> QED
          BY <2>2, <3>2, <5>1, AfterUploadAssumption
      <4> QED
        BY <2>2, <4>1, <4>2
    <3> QED
      BY <1>1, <2>2, <3>2, <3>3, <3>4, AfterUploadAssumption
  <2>5. ASSUME NEW i \in 1 .. Len(reported'), NEW j \in 1 .. Len(reported'), i < j
        PROVE  reported'[j] - reported'[i] >= Cooldown
    <3>1. i \in 1 .. Len(reported)
      BY <2>2, <2>5
    <3>2. CASE j = Len(reported')
      BY <2>2, <2>4, <3>1, <3>2
    <3>3. CASE j # Len(reported')
      <4>1. j \in 1 .. Len(reported)
        BY <2>2, <3>3
      <4> QED
        BY <2>2, <2>5, <3>1, <4>1 DEF MotionInv
    <3> QED
      BY <3>2, <3>3
  <2> HIDE DEF time
  <2> QED
    BY <1>1, <1>2, <2>1, <2>2, <2>3, <2>5 DEF MotionInv, TimesOK
<1> QED
  BY <1>3, <1>4

LEMMA MotionInvInit == Init => MotionInv
<1> SUFFICES ASSUME Init PROVE MotionInv
  OBVIOUS
<1> QED
  BY AfterUploadAssumption DEF Init, MotionInv

LEMMA MotionInvNext == MotionInv /\ [Next]_vars => MotionInv'
<1> SUFFICES ASSUME MotionInv, [Next]_vars PROVE MotionInv'
  OBVIOUS
<1>1. TimesOK /\ now \in Nat
  BY DEF MotionInv, TimesOK
<1>2. CASE Upload
  <2>1. UNCHANGED <<now, last_motion, reported>>
    BY <1>2 DEF Upload, clock
  <2>2. TimesOK'
    <3>1. CASE codec_detected
      BY <1>1, <1>2, <3>1, StartKeepsTimes DEF Upload
    <3>2. CASE ~codec_detected
      BY <1>1, <1>2, <3>2 DEF Upload, TimesOK
    <3> QED
      BY <3>1, <3>2
  <2> QED
    BY <1>1, <2>1, <2>2, SameReports
<1>3. CASE DetectCodec
  <2>1. UNCHANGED <<now, last_motion, reported>> /\ StartTasks(probing)
    BY <1>3 DEF DetectCodec, clock
  <2> QED
    BY <1>1, <2>1, StartKeepsTimes, SameReports
<1>4. CASE Tick
  BY <1>1, <1>4, SameReports DEF Tick, motion, TimesOK
<1>5. CASE Restart \/ Midnight \/ Retain
  BY <1>1, <1>5, SameReports DEF Restart, Midnight, Retain, clock, motion, TimesOK
<1>6. ASSUME NEW s \in DOMAIN detecting, Peek(s) PROVE MotionInv'
  <2>1. UNCHANGED <<now, last_motion, reported>>
    BY <1>6 DEF Peek, clock
  <2>2. CASE detecting' = Without(detecting, s)
    BY <1>1, <2>1, <2>2, WithoutKeepsTimes, SameReports
  <2>3. CASE detecting' = [detecting EXCEPT ![s].at = "decode"]
    <3>1. TimesOK'
      BY <1>1, <2>3 DEF TimesOK
    <3> QED
      BY <1>1, <2>1, <3>1, SameReports
  <2> QED
    BY <1>6, <2>2, <2>3 DEF Peek
<1>7. ASSUME NEW s \in DOMAIN detecting, Decode(s) PROVE MotionInv'
  <2>1. UNCHANGED <<now, last_motion, reported>>
    BY <1>7 DEF Decode, clock
  <2>2. CASE detecting' = Without(detecting, s)
    BY <1>1, <2>1, <2>2, WithoutKeepsTimes, SameReports
  <2>3. CASE detecting' = [detecting EXCEPT ![s] = [at |-> "claim", time |-> now]]
    <3>1. TimesOK'
      BY <1>1, <2>3 DEF TimesOK
    <3> QED
      BY <1>1, <2>1, <3>1, SameReports
  <2> QED
    BY <1>7, <2>2, <2>3 DEF Decode
<1>8. ASSUME NEW s \in DOMAIN detecting, Claim(s) PROVE MotionInv'
  BY <1>8, ClaimKeepsSpacing
<1>9. ASSUME NEW s \in DOMAIN archiving, Date(s) \/ Read(s) \/ Save(s) PROVE MotionInv'
  BY <1>1, <1>9, SameReports DEF Date, Read, Save, clock, motion, TimesOK
<1>10. CASE UNCHANGED vars
  BY <1>1, <1>10, SameReports DEF vars, clock, motion, TimesOK
<1> QED
  BY <1>2, <1>3, <1>4, <1>5, <1>6, <1>7, <1>8, <1>9, <1>10 DEF Next

\* However many detections overlap, two motion reports of a camera are a cooldown
\* apart (spawn_motion_detection of streaming/hls_uploader.rs).
THEOREM ReportsAreSpacedHolds == Spec => []ReportsAreSpaced
<1>1. MotionInv => ReportsAreSpaced
  <2> SUFFICES ASSUME MotionInv PROVE ReportsAreSpaced
    OBVIOUS
  <2>1. DOMAIN reported = 1 .. Len(reported)
    BY DEF MotionInv
  <2> QED
    BY <2>1 DEF MotionInv, ReportsAreSpaced
<1> QED
  BY <1>1, MotionInvInit, MotionInvNext, PTL DEF Spec

\* The cooldown in force is always that of the last report.
THEOREM OnlyMotionSuppressesHolds == Spec => []OnlyMotionSuppresses
<1>1. MotionInv => OnlyMotionSuppresses
  BY DEF MotionInv, OnlyMotionSuppresses, Last
<1> QED
  BY <1>1, MotionInvInit, MotionInvNext, PTL DEF Spec

-----------------------------------------------------------------------------
(* Playback.  What the tasks that archive a day read is the segment of the *)
(* number they were started for, whatever run it is of by then: so a row's *)
(* number is that of its segment, in whatever order the rows come.  And a  *)
(* finite set of numbers can be listed in ascending order.                 *)

\* A finite set of integers that is not empty has a greatest element.
LEMMA Greatest ==
  ASSUME NEW S \in SUBSET Int, IsFiniteSet(S), S # {}
  PROVE  \E m \in S : \A x \in S : x <= m
<1> DEFINE Above(x) == {y \in S : y > x}
           All == {Above(x) : x \in S}
<1>1. All \subseteq FiniteSubsetsOf(S) /\ All # {}
  <2>1. \A x \in S : IsFiniteSet(Above(x)) /\ Above(x) \in SUBSET S
    BY FS_Subset
  <2>2. \A x \in S : Above(x) \in FiniteSubsetsOf(S)
    BY <2>1 DEF FiniteSubsetsOf
  <2> QED BY <2>2
<1>2. PICK T \in All : \A U \in All : <<U, T>> \notin StrictSubsetOrdering(S)
  <2> HIDE DEF All
  <2>1. IsWellFoundedOn(StrictSubsetOrdering(S), FiniteSubsetsOf(S))
    BY FS_StrictSubsetOrderingWellFounded
  <2> QED BY <1>1, <2>1, WFMin, Zenon
<1>3. PICK m \in S : T = Above(m)
  BY <1>2
<1> SUFFICES ASSUME NEW x \in S, ~(x <= m) PROVE FALSE
  BY <1>3
<1>4. m \in Int /\ x \in Int /\ \A z \in S : z \in Int
  OBVIOUS
<1>5. \A z \in S : z > x => z > m
  BY <1>4
<1>6. x \in Above(m) /\ x \notin Above(x)
  BY <1>4
<1>7. <<Above(x), T>> \in StrictSubsetOrdering(S)
  BY <1>3, <1>5, <1>6 DEF StrictSubsetOrdering
<1> QED BY <1>2, <1>7

Ascending(listing) == \A i, j \in DOMAIN listing : i < j => listing[i] < listing[j]
Listings(S) == {listing \in [1 .. Cardinality(S) -> S] : Range(listing) = S /\ Ascending(listing)}

\* A listing without the greatest element is continued with it.
LEMMA ListingContinues ==
  ASSUME NEW S \in SUBSET Int, IsFiniteSet(S), NEW m \in S, \A x \in S : x <= m,
         Listings(S \ {m}) # {}
  PROVE  Listings(S) # {}
<1>1. PICK g : g \in Listings(S \ {m})
  OBVIOUS
<1> DEFINE n == Cardinality(S \ {m})
           f == [i \in 1 .. n + 1 |-> IF i = n + 1 THEN m ELSE g[i]]
<1>2. n \in Nat /\ Cardinality(S) = n + 1
  <2>1. IsFiniteSet(S \ {m}) /\ Cardinality(S) \in Nat
        /\ Cardinality(S \ {m}) = Cardinality(S) - 1
    BY FS_RemoveElement, FS_CardinalityType
  <2>2. Cardinality(S \ {m}) \in Nat
    BY <2>1, FS_CardinalityType
  <2> QED BY <2>1, <2>2
<1>3. g \in [1 .. n -> S \ {m}] /\ Range(g) = S \ {m} /\ Ascending(g)
  BY <1>1 DEF Listings
<1> HIDE DEF n
<1>4. f \in [1 .. n + 1 -> S]
  BY <1>2, <1>3
<1>5. Range(f) = S
  <2>1. ASSUME NEW x \in S PROVE \E i \in DOMAIN f : f[i] = x
    <3>1. CASE x = m
      BY <1>2, <3>1
    <3>2. CASE x # m
      <4>1. PICK i \in 1 .. n : g[i] = x
        BY <1>3, <3>2 DEF Range
      <4> QED BY <1>2, <4>1
    <3> QED BY <3>1, <3>2
  <2>2. \A x \in S : x \in Range(f)
    BY <2>1 DEF Range
  <2>3. \A x \in Range(f) : x \in S
    BY <1>4 DEF Range
  <2> QED BY <2>2, <2>3
<1>6. Ascending(f)
  <2> SUFFICES ASSUME NEW i \in 1 .. n + 1, NEW j \in 1 .. n + 1, i < j PROVE f[i] < f[j]
    BY DEF Ascending
  <2>0. i \in 1 .. n
    BY <1>2
  <2>1. f[i] = g[i] /\ g[i] \in S \ {m} /\ g[i] \in Int /\ m \in Int
    <3>1. i \in 1 .. n + 1 /\ i # n + 1
      BY <1>2, <2>0
    <3>2. g[i] \in S \ {m}
      BY <1>3, <2>0
    <3> QED BY <3>1, <3>2
  <2>2. CASE j = n + 1
    <3>1. f[j] = m /\ g[i] <= m /\ g[i] # m
      BY <2>1, <2>2
    <3> QED BY <2>1, <3>1
  <2>3. CASE j # n + 1
    <3>1. j \in 1 .. n /\ f[j] = g[j]
      BY <1>2, <2>3
    <3> QED BY <1>3, <2>0, <2>1, <3>1 DEF Ascending
  <2> QED BY <2>2, <2>3
<1> HIDE DEF f
<1> QED BY <1>2, <1>4, <1>5, <1>6 DEF Listings

\* Every finite set of integers can be listed in ascending order: one of which
\* every smaller subset can be is continued with its greatest element.
LEMMA Listable ==
  ASSUME NEW S \in SUBSET Int, IsFiniteSet(S)
  PROVE  Listings(S) # {}
<1> DEFINE Bad == {T \in SUBSET S : Listings(T) = {}}
<1> SUFFICES ASSUME Bad # {} PROVE FALSE
  OBVIOUS
<1>1. \A T \in SUBSET S : IsFiniteSet(T)
  BY FS_Subset
<1>2. PICK T \in Bad : \A U \in Bad : <<U, T>> \notin StrictSubsetOrdering(S)
  <2>1. Bad \subseteq FiniteSubsetsOf(S)
    BY <1>1 DEF FiniteSubsetsOf
  <2>2. IsWellFoundedOn(StrictSubsetOrdering(S), FiniteSubsetsOf(S))
    BY FS_StrictSubsetOrderingWellFounded
  <2> HIDE DEF Bad
  <2> QED BY <2>1, <2>2, WFMin, Zenon
<1>3. T \in SUBSET Int /\ IsFiniteSet(T) /\ T \in SUBSET S /\ Listings(T) = {}
  BY <1>1, <1>2
<1>4. T # {}
  <2> SUFFICES ASSUME T = {} PROVE FALSE
    OBVIOUS
  <2>1. Cardinality(T) = 0 /\ 1 .. 0 = {}
    BY FS_EmptySet
  <2>2. <<>> \in [1 .. Cardinality(T) -> T]
    BY <2>1
  <2>3. <<>> \in Listings(T)
    BY <2>1, <2>2 DEF Listings, Range, Ascending
  <2> QED BY <1>3, <2>3
<1>5. PICK m \in T : \A x \in T : x <= m
  BY <1>3, <1>4, Greatest
<1>6. Listings(T \ {m}) # {}
  <2>1. <<T \ {m}, T>> \in StrictSubsetOrdering(S)
    BY <1>3 DEF StrictSubsetOrdering
  <2> QED BY <1>2, <1>3, <2>1
<1> QED BY <1>3, <1>5, <1>6, ListingContinues

Segments == Nat \X Nat

\* What an archive task knows of its segment.
TasksOK ==
  \A s \in DOMAIN archiving :
    /\ s \in Segments /\ archiving[s].day \in Nat
    /\ archiving[s].at = "save" => archiving[s].read \in Segments /\ archiving[s].read[2] = s[2]

RowsOK ==
  /\ archive \in Seq([day : Nat, number : Nat, segment : Segments])
  /\ \A i \in 1 .. Len(archive) : archive[i].number = archive[i].segment[2]

ArchiveInv ==
  /\ run \in Nat /\ written \in Nat /\ today \in Nat
  /\ probing # None => probing \in Segments
  /\ TasksOK /\ RowsOK

LEMMA StartKeepsTasks ==
  ASSUME TasksOK, NEW s \in Segments, StartTasks(s)
  PROVE  TasksOK'
<1> DEFINE task == [at |-> "date", day |-> 0, read |-> None]
<1>1. task.day \in Nat /\ task.at # "save"
  OBVIOUS
<1>2. archiving' = archiving \/ archiving' = With(archiving, s, task)
  BY DEF StartTasks
<1> HIDE DEF task
<1> QED
  BY <1>1, <1>2 DEF TasksOK, With

LEMMA ArchiveInvInit == Init => ArchiveInv
BY DEF Init, ArchiveInv, TasksOK, RowsOK

LEMMA ArchiveInvNext == ArchiveInv /\ [Next]_vars => ArchiveInv'
<1> SUFFICES ASSUME ArchiveInv, [Next]_vars PROVE ArchiveInv'
  OBVIOUS
<1> USE DEF ArchiveInv
<1>1. CASE Upload
  <2>1. /\ run' = run /\ today' = today /\ archive' = archive /\ written' \in Nat
        /\ <<run, written>> \in Segments
    BY <1>1 DEF Upload, clock, Segments
  <2>2. CASE codec_detected
    BY <1>1, <2>1, <2>2, StartKeepsTasks DEF Upload, RowsOK
  <2>3. CASE ~codec_detected
    <3>1. probing' \in Segments /\ archiving' = archiving
      BY <1>1, <2>1, <2>3 DEF Upload
    <3> QED BY <2>1, <3>1 DEF RowsOK, TasksOK
  <2> QED BY <2>2, <2>3
<1>2. CASE DetectCodec
  <2>1. probing \in Segments /\ StartTasks(probing)
    BY <1>2 DEF DetectCodec
  <2>2. UNCHANGED <<run, written, today, archive>> /\ probing' = None
    BY <1>2 DEF DetectCodec, files, clock
  <2>3. TasksOK'
    BY <2>1, StartKeepsTasks
  <2> QED BY <2>2, <2>3 DEF RowsOK
<1>3. CASE Restart
  BY <1>3 DEF Restart, clock, recording, codec, TasksOK, RowsOK
<1>4. CASE Tick
  BY <1>4 DEF Tick, files, recording, codec, TasksOK, RowsOK
<1>5. CASE Midnight
  BY <1>5 DEF Midnight, files, recording, codec, TasksOK, RowsOK
<1>6. CASE Retain
  <2>1. UNCHANGED <<run, written, today, probing, archiving>>
    BY <1>6 DEF Retain, files, clock, codec
  <2>2. RowsOK'
    <3>1. archive # <<>> /\ archive' = Tail(archive)
      BY <1>6 DEF Retain
    <3>2. /\ archive' \in Seq([day : Nat, number : Nat, segment : Segments])
          /\ \A i \in 1 .. Len(archive') : archive'[i] = archive[i + 1] /\ i + 1 \in 1 .. Len(archive)
      BY <3>1 DEF RowsOK
    <3> QED BY <3>2 DEF RowsOK
  <2> QED BY <2>1, <2>2 DEF TasksOK
<1>7. ASSUME NEW s \in DOMAIN detecting, Peek(s) \/ Decode(s) \/ Claim(s) PROVE ArchiveInv'
  BY <1>7 DEF Peek, Decode, Claim, files, clock, recording, codec, TasksOK, RowsOK
<1>8. ASSUME NEW s \in DOMAIN archiving, Date(s) PROVE ArchiveInv'
  BY <1>8 DEF Date, files, clock, codec, TasksOK, RowsOK
<1>9. ASSUME NEW s \in DOMAIN archiving, Read(s) PROVE ArchiveInv'
  <2>1. UNCHANGED <<run, written, today, probing, archive>>
    BY <1>9 DEF Read, files, clock, codec
  <2>2. CASE AtPath(s) = None
    BY <1>9, <2>1, <2>2 DEF Read, Without, Restrict, TasksOK, RowsOK
  <2>3. CASE AtPath(s) # None
    <3>1. AtPath(s) = <<run, s[2]>> /\ AtPath(s) \in Segments /\ AtPath(s)[2] = s[2]
      BY <2>3 DEF AtPath, TasksOK, Segments
    <3>2. PICK path : path = AtPath(s)
      OBVIOUS
    <3>3. archiving' = [archiving EXCEPT ![s] = [at |-> "save", day |-> archiving[s].day,
                                                 read |-> path]]
      BY <1>9, <2>3, <3>2 DEF Read
    <3> QED BY <2>1, <3>1, <3>2, <3>3 DEF TasksOK, RowsOK
  <2> QED BY <2>2, <2>3
<1>10. ASSUME NEW s \in DOMAIN archiving, Save(s) PROVE ArchiveInv'
  <2>1. /\ UNCHANGED <<run, written, today, probing>>
        /\ archiving' = Without(archiving, s)
    BY <1>10 DEF Save, files, clock, codec
  <2>2. TasksOK'
    BY <2>1 DEF TasksOK, Without, Restrict
  <2>3. PICK row : /\ row = [day |-> archiving[s].day, number |-> s[2],
                             segment |-> archiving[s].read]
                   /\ archive' = archive \/ archive' = Append(archive, row)
    BY <1>10 DEF Save
  <2>4. row \in [day : Nat, number : Nat, segment : Segments] /\ row.number = row.segment[2]
    <3>1. s \in Segments /\ s[2] \in Nat /\ archiving[s].at = "save"
      BY <1>10 DEF Save, TasksOK, Segments
    <3> QED BY <2>3, <3>1 DEF TasksOK
  <2>5. RowsOK'
    <3>1. CASE archive' = archive
      BY <3>1 DEF RowsOK
    <3>2. CASE archive' = Append(archive, row)
      <4>1. /\ archive' \in Seq([day : Nat, number : Nat, segment : Segments])
            /\ Len(archive) \in Nat /\ Len(archive') = Len(archive) + 1
            /\ archive'[Len(archive')] = row
            /\ \A i \in 1 .. Len(archive) : archive'[i] = archive[i]
        BY <2>4, <3>2 DEF RowsOK
      <4>2. \A i \in 1 .. Len(archive') : i \in 1 .. Len(archive) \/ i = Len(archive')
        BY <4>1
      <4> QED BY <2>4, <4>1, <4>2 DEF RowsOK
    <3> QED BY <2>3, <3>1, <3>2
  <2> QED BY <2>1, <2>2, <2>5
<1>11. CASE UNCHANGED vars
  BY <1>11 DEF vars, files, clock, recording, codec, TasksOK, RowsOK
<1> QED
  BY <1>1, <1>2, <1>3, <1>4, <1>5, <1>6, <1>7, <1>8, <1>9, <1>10, <1>11 DEF Next

\* RowsOK, row by row.
LEMMA EachRow ==
  ASSUME RowsOK
  PROVE  /\ DOMAIN archive = 1 .. Len(archive) /\ Len(archive) \in Nat
         /\ \A i \in DOMAIN archive : /\ archive[i].number \in Nat
                                      /\ archive[i].segment \in Segments
                                      /\ archive[i].segment[2] = archive[i].number
<1>1. DOMAIN archive = 1 .. Len(archive) /\ Len(archive) \in Nat
  BY DEF RowsOK
<1> DEFINE Row == [day : Nat, number : Nat, segment : Segments]
<1>2. \A i \in 1 .. Len(archive) : archive[i] \in Row
  <2>1. archive \in Seq(Row)
    BY DEF RowsOK
  <2> HIDE DEF Row
  <2> QED BY <2>1
<1> QED BY <1>1, <1>2 DEF RowsOK

\* The playlist of a day is what it is chosen to be.
LEMMA PlaylistIsAscending ==
  ASSUME RowsOK, NEW day
  PROVE  /\ Playlist(day) \in [1 .. Cardinality(Numbers(day)) -> Numbers(day)]
         /\ Range(Playlist(day)) = Numbers(day)
         /\ Ascending(Playlist(day))
<1>1. Numbers(day) \in SUBSET Int /\ IsFiniteSet(Numbers(day))
  <2> DEFINE ids == {j \in DOMAIN archive : archive[j].day = day}
  <2>1. IsFiniteSet(ids) /\ ids \subseteq 1 .. Len(archive)
    <3>1. DOMAIN archive = 1 .. Len(archive) /\ Len(archive) \in Nat
      BY DEF RowsOK
    <3>2. IsFiniteSet(1 .. Len(archive))
      BY <3>1, FS_Interval
    <3> QED BY <3>1, <3>2, FS_Subset
  <2> HIDE DEF ids
  <2>2. IsFiniteSet({archive[i].number : i \in ids})
    <3> DEFINE T == {archive[i].number : i \in ids}
               f == [i \in ids |-> archive[i].number]
    <3>1. f \in Surjection(ids, T)
      BY DEF Surjection
    <3> QED BY <2>1, <3>1, FS_Surjection
  <2>3. \A i \in ids : archive[i].number \in Int
    BY <2>1, EachRow
  <2> QED BY <2>2, <2>3 DEF Numbers, ids
<1>2. PICK listing : listing \in Listings(Numbers(day))
  BY <1>1, Listable
<1> QED BY <1>2 DEF Listings, Playlist, Ascending

\* The newest row of a number is one of the day, with that number.
LEMMA ServedIsOfTheDay ==
  ASSUME RowsOK, NEW day, NEW number \in Numbers(day)
  PROVE  Served(day, number) \in SegmentsOf(day) /\ Served(day, number)[2] = number
<1> DEFINE ids == {i \in DOMAIN archive : archive[i].day = day /\ archive[i].number = number}
<1>1. DOMAIN archive = 1 .. Len(archive) /\ Len(archive) \in Nat
  BY DEF RowsOK
<1>2. IsFiniteSet(ids) /\ ids \in SUBSET Int
  <2>1. IsFiniteSet(1 .. Len(archive))
    BY <1>1, FS_Interval
  <2> QED BY <1>1, <2>1, FS_Subset
<1>3. ids # {}
  BY DEF Numbers
<1>4. PICK i \in ids : i = CHOOSE k \in ids : \A j \in ids : j <= k
  <2> HIDE DEF ids
  <2> QED BY <1>2, <1>3, Greatest
<1>5. Served(day, number) = archive[i].segment
  BY <1>4 DEF Served
<1> QED BY <1>5, EachRow DEF SegmentsOf

LEMMA RowsPlayInOrder ==
  ASSUME RowsOK PROVE DayPlaysInOrder
<1> SUFFICES ASSUME NEW day, OneRun(day)
             PROVE  /\ Range(Played(day)) = SegmentsOf(day)
                    /\ \A i, j \in DOMAIN Played(day) :
                         i < j => Played(day)[i][2] < Played(day)[j][2]
  BY DEF DayPlaysInOrder
<1> DEFINE list == Playlist(day)
           played == Played(day)
<1>1. /\ DOMAIN played = DOMAIN list
      /\ \A i \in DOMAIN list : /\ list[i] \in Numbers(day)
                                /\ played[i] = Served(day, list[i])
  BY PlaylistIsAscending DEF Played
<1>2. \A i \in DOMAIN list : played[i] \in SegmentsOf(day) /\ played[i][2] = list[i]
  BY <1>1, ServedIsOfTheDay
<1>3. Ascending(list) /\ Range(list) = Numbers(day)
  BY PlaylistIsAscending
<1>4. SegmentsOf(day) \subseteq Segments
  BY EachRow DEF SegmentsOf
<1>5. ASSUME NEW t \in SegmentsOf(day) PROVE \E i \in DOMAIN played : played[i] = t
  <2>1. t[2] \in Numbers(day)
    <3>1. PICK i \in DOMAIN archive : archive[i].day = day /\ archive[i].segment = t
      BY DEF SegmentsOf
    <3>2. archive[i].number = t[2]
      BY <3>1, EachRow
    <3> QED BY <3>1, <3>2 DEF Numbers
  <2>2. PICK i \in DOMAIN list : list[i] = t[2]
    BY <1>3, <2>1 DEF Range
  <2>3. played[i] \in SegmentsOf(day) /\ played[i][2] = t[2] /\ played[i][1] = t[1]
    BY <1>2, <2>2 DEF OneRun
  <2>4. played[i] = t
    BY <1>4, <2>3 DEF Segments
  <2> QED BY <1>1, <2>4
<1> HIDE DEF list, played
<1>6. Range(played) = SegmentsOf(day)
  BY <1>1, <1>2, <1>5 DEF Range
<1>7. \A i, j \in DOMAIN played : i < j => played[i][2] < played[j][2]
  BY <1>1, <1>2, <1>3 DEF Ascending
<1> QED BY <1>6, <1>7 DEF played

\* A day recorded without a restart of FFmpeg plays back whole, each segment once
\* and in order, however many tasks archived it and in whatever order they came
\* (list_recording_segment_seqs of storage/database.rs, build_m3u8 of server/api.rs).
THEOREM DayPlaysInOrderHolds == Spec => []DayPlaysInOrder
<1>1. ArchiveInv => DayPlaysInOrder
  BY RowsPlayInOrder DEF ArchiveInv
<1> QED BY <1>1, ArchiveInvInit, ArchiveInvNext, PTL DEF Spec

-----------------------------------------------------------------------------
(* The codec announced.  The level is the nearest valid one to the greater *)
(* of what ffprobe reports and what the dimensions need: rounding to it    *)
(* never falls below a valid level that was not above it.                  *)

ValidLevel(v) ==
  \/ v = 10 \/ v = 11 \/ v = 12 \/ v = 13 \/ v = 20 \/ v = 21 \/ v = 22 \/ v = 30
  \/ v = 31 \/ v = 32 \/ v = 40 \/ v = 41 \/ v = 42 \/ v = 50 \/ v = 51 \/ v = 52

LEMMA EachValidLevel == \A v : v \in ValidLevels <=> ValidLevel(v)
BY DEF ValidLevels, ValidLevel

\* A finite set of integers that is not empty has a least element as well.
LEMMA Least ==
  ASSUME NEW S \in SUBSET Int, IsFiniteSet(S), S # {}
  PROVE  \E m \in S : \A x \in S : m <= x
<1> DEFINE T == {0 - x : x \in S}
           f == [x \in S |-> 0 - x]
<1>1. IsFiniteSet(T)
  <2>1. f \in Surjection(S, T)
    BY DEF Surjection
  <2> QED BY <2>1, FS_Surjection
<1>2. T \in SUBSET Int /\ T # {}
  <2>1. \A x \in S : 0 - x \in Int
    OBVIOUS
  <2> QED BY <2>1
<1>3. PICK t \in T : \A x \in T : x <= t
  <2> HIDE DEF T
  <2> QED BY <1>1, <1>2, Greatest
<1>4. PICK m \in S : t = 0 - m
  OBVIOUS
<1>5. \A x \in S : 0 - x <= 0 - m
  BY <1>3, <1>4
<1>6. \A x \in S : m <= x
  BY <1>5
<1> QED BY <1>6

\* The nearest valid level exists: of the levels by distance and then by value,
\* the first.
LEMMA NearestLevel ==
  ASSUME NEW level \in Int
  PROVE  /\ NormalizeLevel(level) \in ValidLevels
         /\ \A w \in ValidLevels \ {NormalizeLevel(level)} :
              \/ Distance(NormalizeLevel(level), level) < Distance(w, level)
              \/ /\ Distance(NormalizeLevel(level), level) = Distance(w, level)
                 /\ NormalizeLevel(level) < w
<1> DEFINE weight(v) == 64 * Distance(v, level) + v
           Weights == {weight(v) : v \in ValidLevels}
<1>1. IsFiniteSet(ValidLevels) /\ \A v \in ValidLevels : v \in 10 .. 52
  <2>1. \A v \in ValidLevels : v \in 10 .. 52
    BY EachValidLevel DEF ValidLevel
  <2>2. IsFiniteSet(10 .. 52) /\ ValidLevels \in SUBSET (10 .. 52)
    <3>1. \A a, b \in Int : IsFiniteSet(a .. b)
      BY FS_Interval
    <3>2. 10 \in Int /\ 52 \in Int
      OBVIOUS
    <3>3. IsFiniteSet(10 .. 52)
      BY <3>1, <3>2, Zenon
    <3> QED BY <2>1, <3>3
  <2> QED BY <2>1, <2>2, FS_Subset
<1>2. \A v \in ValidLevels : weight(v) \in Int /\ Distance(v, level) \in Nat
  BY <1>1 DEF Distance
<1>3. IsFiniteSet(Weights)
  <2> DEFINE f == [v \in ValidLevels |-> weight(v)]
  <2>1. f \in Surjection(ValidLevels, Weights)
    BY DEF Surjection
  <2> QED BY <1>1, <2>1, FS_Surjection
<1>4. PICK v \in ValidLevels : \A w \in ValidLevels : weight(v) <= weight(w)
  <2>1. Weights \in SUBSET Int /\ Weights # {}
    <3>1. weight(10) \in Weights
      BY DEF ValidLevels
    <3>2. \A y \in Weights : y \in Int
      <4> HIDE DEF weight
      <4> QED BY <1>2
    <3> QED BY <3>1, <3>2
  <2>2. PICK x \in Weights : \A y \in Weights : x <= y
    BY <1>3, <2>1, Least
  <2> QED BY <2>2
<1>5. ASSUME NEW w \in ValidLevels \ {v}
      PROVE  \/ Distance(v, level) < Distance(w, level)
             \/ Distance(v, level) = Distance(w, level) /\ v < w
  <2> DEFINE dv == Distance(v, level)
             dw == Distance(w, level)
  <2>1. dv \in Nat /\ dw \in Nat /\ v \in 10 .. 52 /\ w \in 10 .. 52 /\ v # w
    BY <1>1, <1>2
  <2>2. 64 * dv + v <= 64 * dw + w
    BY <1>4
  <2> HIDE DEF dv, dw
  <2>3. dv < dw \/ (dv = dw /\ v < w)
    BY <2>1, <2>2
  <2> QED BY <2>3 DEF dv, dw
<1> QED BY <1>5 DEF NormalizeLevel

\* What rounding preserves: a valid level is its own, and none is passed.
LEMMA RoundingKeeps ==
  ASSUME NEW level \in Int, NEW v \in ValidLevels, v <= level
  PROVE  NormalizeLevel(level) >= v /\ NormalizeLevel(level) \in Int
<1> DEFINE n == NormalizeLevel(level)
<1>1. n \in ValidLevels
  BY NearestLevel
<1>2. n \in Int /\ v \in Int
  BY <1>1, EachValidLevel DEF ValidLevel
<1>3. CASE n = v
  BY <1>2, <1>3
<1>4. CASE n # v
  <2>1. Distance(n, level) < Distance(v, level) \/ (Distance(n, level) = Distance(v, level) /\ n < v)
    BY <1>4, NearestLevel
  <2> HIDE DEF n
  <2>2. n >= v
    BY <1>2, <2>1 DEF Distance
  <2> QED BY <1>2, <2>2 DEF n
<1> QED BY <1>3, <1>4

\* The limits of two of the code's levels, of which the first is no higher, are in
\* the standard's order.
LEMMA LimitsGrow ==
  ASSUME NEW v \in ValidLevels, NEW w \in ValidLevels, v <= w
  PROVE  MaxFrameSize(v) <= MaxFrameSize(w) /\ MaxFrameSize(v) \in Int /\ MaxFrameSize(w) \in Int
<1> DEFINE Row(x) ==
      \/ x = 10 /\ MaxFrameSize(x) = 99
      \/ (x = 11 \/ x = 12 \/ x = 13 \/ x = 20) /\ MaxFrameSize(x) = 396
      \/ x = 21 /\ MaxFrameSize(x) = 792
      \/ (x = 22 \/ x = 30) /\ MaxFrameSize(x) = 1620
      \/ x = 31 /\ MaxFrameSize(x) = 3600
      \/ x = 32 /\ MaxFrameSize(x) = 5120
      \/ (x = 40 \/ x = 41) /\ MaxFrameSize(x) = 8192
      \/ x = 42 /\ MaxFrameSize(x) = 8704
      \/ x = 50 /\ MaxFrameSize(x) = 22080
      \/ (x = 51 \/ x = 52) /\ MaxFrameSize(x) = 36864
<1>1. ASSUME NEW x, ValidLevel(x) PROVE Row(x)
  BY <1>1 DEF ValidLevel, MaxFrameSize
<1>2. Row(v) /\ Row(w)
  BY <1>1, EachValidLevel
<1> QED BY <1>2

\* A report as ffprobe gives it, of a stream whose frame is not larger than the
\* dimensions it gives, if it gives them, nor than the standard allows at all.  A
\* frame is coded in whole macroblocks: the frame padded to them crosses no limit
\* of the code's table that the frame itself does not cross, with the one
\* exception of 1920x1080 (8160 macroblocks, for which the standard's level 4.0
\* has room).
Ordinary(r) ==
  /\ {r.columns, r.lines} \subseteq Nat
  /\ {r.width, r.height, r.coded_width, r.coded_height} \subseteq Nat \union {Absent}
  /\ r.level \in Int
  /\ Sized(r) => /\ r.columns <= Width(r) /\ r.lines <= Height(r)
                 /\ Macroblocks(r) <= 36864
                 /\ \/ r.columns = 1920 /\ r.lines = 1080
                    \/ \A limit \in PixelLimits :
                         r.columns * r.lines <= limit[1] => 256 * Macroblocks(r) <= limit[1]

\* The level derived from the dimensions is 51 or that of a row that has room.
LEMMA DerivedLevel ==
  ASSUME NEW width, NEW height
  PROVE  LET level == DeriveLevel(width, height)
         IN  \/ level = 51
             \/ \E limit \in PixelLimits : level = limit[2] /\ width * height <= limit[1]
<1> DEFINE rows == {l \in PixelLimits : width * height <= l[1]}
           levels == {51} \union {l[2] : l \in rows}
<1>1. \A v \in levels : v = 51 \/ v = 10 \/ v = 12 \/ v = 22 \/ v = 30 \/ v = 31 \/ v = 40 \/ v = 50
  BY DEF PixelLimits
<1>2. IsFiniteSet(levels) /\ levels \in SUBSET Int /\ levels # {}
  <2> HIDE DEF levels
  <2>1. \A v \in levels : v \in 10 .. 52 /\ v \in Int
    BY <1>1
  <2>2. IsFiniteSet(10 .. 52) /\ levels \in SUBSET (10 .. 52)
    <3>1. \A a, b \in Int : IsFiniteSet(a .. b)
      BY FS_Interval
    <3>2. 10 \in Int /\ 52 \in Int
      OBVIOUS
    <3>3. IsFiniteSet(10 .. 52)
      BY <3>1, <3>2, Zenon
    <3> QED BY <2>1, <3>3
  <2>3. IsFiniteSet(levels)
    BY <2>2, FS_Subset
  <2>4. levels # {}
    BY DEF levels
  <2> QED BY <2>1, <2>3, <2>4
<1>3. Min(levels) \in levels
  <2> HIDE DEF levels
  <2>1. \E m \in levels : \A x \in levels : m <= x
    BY <1>2, Least
  <2> QED BY <2>1 DEF Min
<1>4. DeriveLevel(width, height) = Min(levels)
  BY DEF DeriveLevel
<1>5. PICK level : level = Min(levels)
  OBVIOUS
<1>6. level = 51 \/ \E l \in rows : level = l[2]
  BY <1>3, <1>5
<1> QED BY <1>4, <1>5, <1>6

\* A larger frame has at least as many pixels.
LEMMA AreaGrows ==
  ASSUME NEW a \in Nat, NEW b \in Nat, NEW c \in Nat, NEW d \in Nat, a <= c, b <= d
  PROVE  a * b <= c * d
<1>1. a * b <= c * b
  <2>1. (c - a) * b >= 0 /\ (c - a) * b = c * b - a * b
    OBVIOUS
  <2> QED BY <2>1
<1>2. c * b <= c * d
  <2>1. c * (d - b) >= 0 /\ c * (d - b) = c * d - c * b
    OBVIOUS
  <2> QED BY <2>1
<1> QED BY <1>1, <1>2

\* The level that the dimensions need has room for the frame.
LEMMA NeededLevelFits ==
  ASSUME NEW r, Ordinary(r), Sized(r)
  PROVE  LET needed == DeriveLevel(Width(r), Height(r))
         IN  needed \in ValidLevels /\ Macroblocks(r) <= MaxFrameSize(needed)
<1>1. PICK needed : needed = DeriveLevel(Width(r), Height(r))
  OBVIOUS
<1>2. PICK pixels : pixels = r.columns * r.lines
  OBVIOUS
<1>3. PICK mbs : mbs = Macroblocks(r)
  OBVIOUS
<1>4. pixels \in Nat /\ mbs \in Int /\ mbs <= 36864
  <2>1. r.columns \in Nat /\ r.lines \in Nat
    BY DEF Ordinary
  <2>2. (r.columns + 15) \div 16 \in Int /\ (r.lines + 15) \div 16 \in Int
    BY <2>1
  <2> QED BY <1>2, <1>3, <2>1, <2>2 DEF Ordinary, Macroblocks
<1>5. \/ pixels = 2073600 /\ mbs = 8160
      \/ \A limit \in PixelLimits : pixels <= limit[1] => 256 * mbs <= limit[1]
  BY <1>2, <1>3 DEF Ordinary, Macroblocks
<1>6. CASE needed = 51
  BY <1>1, <1>3, <1>4, <1>6 DEF ValidLevels, MaxFrameSize
<1>7. CASE needed # 51
  <2>1. PICK limit \in PixelLimits : needed = limit[2] /\ Width(r) * Height(r) <= limit[1]
    BY <1>1, <1>7, DerivedLevel
  <2>2. pixels <= Width(r) * Height(r) /\ Width(r) * Height(r) \in Int
    <3>1. /\ r.columns \in Nat /\ r.lines \in Nat /\ Width(r) \in Nat /\ Height(r) \in Nat
          /\ r.columns <= Width(r) /\ r.lines <= Height(r)
      BY DEF Ordinary, Sized, Width, Height, Absent
    <3> QED BY <1>2, <3>1, AreaGrows
  <2>3. limit[1] \in Int
    BY DEF PixelLimits
  <2>4. pixels <= limit[1]
    BY <1>4, <2>1, <2>2, <2>3
  <2>5. (pixels = 2073600 /\ mbs = 8160) \/ 256 * mbs <= limit[1]
    BY <1>5, <2>4
  <2>6. \/ limit[1] = 25344 /\ needed = 10
        \/ limit[1] = 101376 /\ needed = 12
        \/ limit[1] = 307200 /\ needed = 22
        \/ limit[1] = 414720 /\ needed = 30
        \/ limit[1] = 921600 /\ needed = 31
        \/ limit[1] = 2073600 /\ needed = 40
        \/ limit[1] = 3686400 /\ needed = 50
    <3>1. \/ limit = <<25344, 10>> \/ limit = <<101376, 12>> \/ limit = <<307200, 22>>
          \/ limit = <<414720, 30>> \/ limit = <<921600, 31>> \/ limit = <<2073600, 40>>
          \/ limit = <<3686400, 50>>
      BY DEF PixelLimits
    <3> QED BY <2>1, <3>1
  <2>7. needed \in ValidLevels
    BY <2>6, EachValidLevel DEF ValidLevel
  <2>8. \/ limit[1] = 25344 /\ MaxFrameSize(needed) = 99
        \/ limit[1] = 101376 /\ MaxFrameSize(needed) = 396
        \/ limit[1] = 307200 /\ MaxFrameSize(needed) = 1620
        \/ limit[1] = 414720 /\ MaxFrameSize(needed) = 1620
        \/ limit[1] = 921600 /\ MaxFrameSize(needed) = 3600
        \/ limit[1] = 2073600 /\ MaxFrameSize(needed) = 8192
        \/ limit[1] = 3686400 /\ MaxFrameSize(needed) = 22080
    BY <2>6 DEF MaxFrameSize
  <2>9. mbs <= MaxFrameSize(needed)
    BY <1>4, <2>4, <2>5, <2>8
  <2> QED BY <1>1, <1>3, <2>7, <2>9
<1> QED BY <1>6, <1>7

\* The effective level is not below the one reported, if that counts, nor below
\* the one needed, if that is known.
LEMMA EffectiveLevelIsGreatest ==
  ASSUME NEW r, r.level \in Int,
         Sized(r) => DeriveLevel(Width(r), Height(r)) \in ValidLevels
  PROVE  /\ EffectiveLevel(r) \in Int
         /\ r.level >= 10 => EffectiveLevel(r) >= r.level
         /\ Sized(r) => EffectiveLevel(r) >= DeriveLevel(Width(r), Height(r))
<1> DEFINE needed == DeriveLevel(Width(r), Height(r))
           sane == IF r.level >= 10 THEN {r.level} ELSE {}
           both == sane \union (IF Sized(r) THEN {needed} ELSE {})
<1>1. \A x \in both : x \in Int
  BY EachValidLevel DEF ValidLevel
<1>2. EffectiveLevel(r) = IF both = {} THEN 30 ELSE Max(both)
  BY DEF EffectiveLevel
<1>3. CASE both = {}
  BY <1>2, <1>3
<1>4. CASE both # {}
  <2>1. IsFiniteSet(both)
    <3>1. IsFiniteSet({r.level, needed}) /\ both \in SUBSET {r.level, needed}
      <4> HIDE DEF needed
      <4>1. IsFiniteSet({r.level})
        BY FS_Singleton
      <4>2. IsFiniteSet({r.level} \union {needed})
        BY <4>1, FS_AddElement
      <4>3. {r.level} \union {needed} = {r.level, needed}
        OBVIOUS
      <4>4. both \in SUBSET {r.level, needed}
        OBVIOUS
      <4> QED BY <4>2, <4>3, <4>4
    <3> QED BY <3>1, FS_Subset
  <2>2. \A x \in both : Max(both) >= x /\ Max(both) \in both
    <3> HIDE DEF both
    <3>1. PICK m \in both : \A x \in both : x <= m
      BY <1>1, <1>4, <2>1, Greatest
    <3>2. \A x \in both : m >= x
      BY <1>1, <3>1
    <3> QED BY <3>2 DEF Max
  <2> QED BY <1>1, <1>2, <1>4, <2>2
<1> QED BY <1>3, <1>4

\* The stream is announced with a level that allows its frames, and never with a
\* lower one than the encoder declared.
LEMMA CodecFits ==
  ASSUME NEW r, Ordinary(r)
  PROVE  LET level == HlsCodec(r).level
         IN  /\ Sized(r) => Macroblocks(r) <= MaxFrameSize(level)
             /\ r.level \in ValidLevels => level >= r.level
<1> DEFINE level == HlsCodec(r).level
           needed == DeriveLevel(Width(r), Height(r))
<1>1. level = NormalizeLevel(EffectiveLevel(r))
  BY DEF HlsCodec
<1>2. Sized(r) => needed \in ValidLevels /\ Macroblocks(r) <= MaxFrameSize(needed)
  BY NeededLevelFits
<1>3. /\ EffectiveLevel(r) \in Int
      /\ r.level >= 10 => EffectiveLevel(r) >= r.level
      /\ Sized(r) => EffectiveLevel(r) >= needed
  BY <1>2, EffectiveLevelIsGreatest DEF Ordinary
<1>4. level \in ValidLevels
  BY <1>1, <1>3, NearestLevel
<1>5. ASSUME Sized(r) PROVE Macroblocks(r) <= MaxFrameSize(level)
  <2>1. needed \in ValidLevels /\ needed \in Int /\ needed <= EffectiveLevel(r)
    BY <1>2, <1>3, <1>5, EachValidLevel DEF ValidLevel
  <2>2. needed <= level
    <3>1. NormalizeLevel(EffectiveLevel(r)) >= needed /\ level \in Int
      BY <1>1, <1>3, <2>1, RoundingKeeps
    <3> QED BY <1>1, <2>1, <3>1
  <2>3. MaxFrameSize(needed) <= MaxFrameSize(level) /\ MaxFrameSize(needed) \in Int
        /\ MaxFrameSize(level) \in Int
    BY <1>4, <2>1, <2>2, LimitsGrow
  <2>4. Macroblocks(r) \in Int
    <3>1. r.columns \in Nat /\ r.lines \in Nat
      BY DEF Ordinary
    <3>2. (r.columns + 15) \div 16 \in Int /\ (r.lines + 15) \div 16 \in Int
      BY <3>1
    <3> QED BY <3>2 DEF Macroblocks
  <2> HIDE DEF level, needed
  <2> QED BY <1>2, <1>5, <2>3, <2>4
<1>6. ASSUME r.level \in ValidLevels PROVE level >= r.level
  <2>1. r.level \in Int /\ r.level >= 10 /\ r.level <= EffectiveLevel(r)
    BY <1>3, <1>6, EachValidLevel DEF ValidLevel
  <2> QED BY <1>1, <1>3, <1>6, <2>1, RoundingKeeps
<1> QED BY <1>5, <1>6

\* What is announced was derived from a report, by the code's derivation.
CodecInv ==
  published # None =>
    published.report \in Reports /\ published.codec = HlsCodec(published.report)

LEMMA CodecInvHolds == Spec => []CodecInv
<1>1. Init => CodecInv
  BY DEF Init, CodecInv
<1>2. ASSUME CodecInv, [Next]_vars PROVE CodecInv'
  <2>1. CASE UNCHANGED published
    BY <1>2, <2>1 DEF CodecInv, HlsCodec
  <2>2. CASE DetectCodec
    BY <1>2, <2>2 DEF DetectCodec, CodecInv
  <2>3. DetectCodec \/ UNCHANGED published
    BY <1>2 DEF Next, vars, codec, Upload, Restart, Tick, Midnight, Retain, Peek, Decode,
                Claim, Date, Read, Save
  <2> QED BY <2>1, <2>2, <2>3
<1> QED BY <1>1, <1>2, PTL DEF Spec

\* Whatever level an encoder with a faulty SPS writes and whichever pair of
\* dimensions ffprobe leaves out, the stream of ordinary frames is announced with a
\* level that allows them (codec_detector.rs), as long as none is reported as 0.
THEOREM CodecFitsFramesHolds ==
  ASSUME \A r \in Reports : Ordinary(r)
  PROVE  Spec => []CodecFitsFrames
<1>1. CodecInv => CodecFitsFrames
  <2> SUFFICES ASSUME CodecInv, published # None
               PROVE  LET level == published.codec.level
                          report == published.report
                      IN  /\ Measured(report) => Macroblocks(report) <= MaxFrameSize(level)
                          /\ report.level \in ValidLevels => level >= report.level
    BY DEF CodecFitsFrames
  <2>1. PICK r \in Reports : r = published.report /\ published.codec = HlsCodec(r)
    BY DEF CodecInv
  <2>2. Measured(r) => Sized(r)
    BY DEF Measured, Sized, Width, Height, Absent
  <2> QED BY <2>1, <2>2, CodecFits
<1> QED BY <1>1, CodecInvHolds, PTL
=============================================================================
