------------------------- MODULE SegmentUploadProofs -------------------------
(***************************************************************************)
(* Theorems about SegmentWindow and SegmentUpload, for every number of     *)
(* segments, runs, tasks and permits.                                      *)
(*                                                                         *)
(* The upload tasks: their bookkeeping with queue and permits is sound     *)
(* (UploadTypeOK), the codec is reported at most once, and they change     *)
(* nothing of what the poll loop works on.                                 *)
(*                                                                         *)
(* The poll loop: the sweep deletes nothing that was not taken, for the    *)
(* poll that starts it takes all there is (NothingLostToSweep).  No        *)
(* segment is taken twice, as long as the dedup set covers the directory   *)
(* (NoDuplicate): DirectoryInv places every file on disk in a window that  *)
(* the last SeenCap names reach back to.                                   *)
(***************************************************************************)
EXTENDS SegmentUpload, FiniteSetTheorems, SequenceTheorems, WellFoundedInduction,
        TLAPS

\* The ranges of the files, the epochs and FFmpeg.
WindowInv ==
  /\ disk \subseteq Seqs
  /\ written \in Seqs
  /\ epoch \in 0 .. MaxEpoch
  /\ bumpPending \in BOOLEAN
  /\ bumpPending => alive /\ epoch < MaxEpoch
  /\ Run = 0 => disk = {} /\ ~alive

\* There is a first segment, and finitely many.
LEMMA SeqsIsFinite == 0 \in Seqs /\ IsFiniteSet(Seqs)
  BY WindowAssumption, FS_Interval DEF Seqs

\* A non-empty set of segments has a highest one.
LEMMA HighestSegment ==
  ASSUME NEW S \in SUBSET Seqs, S # {}
  PROVE  Max(S) \in S /\ \A y \in S : Max(S) >= y
<1> DEFINE Above(x) == {y \in S : y > x}
           All == {Above(x) : x \in S}
<1>1. S \in SUBSET Int
  BY WindowAssumption DEF Seqs
<1>2. All \subseteq FiniteSubsetsOf(S) /\ All # {}
  <2>1. IsFiniteSet(S)
    BY SeqsIsFinite, FS_Subset
  <2>2. \A x \in S : IsFiniteSet(Above(x)) /\ Above(x) \in SUBSET S
    BY <2>1, FS_Subset
  <2>3. \A x \in S : Above(x) \in FiniteSubsetsOf(S)
    BY <2>2 DEF FiniteSubsetsOf
  <2> QED BY <2>3
<1>3. PICK T \in All : \A U \in All : <<U, T>> \notin StrictSubsetOrdering(S)
  <2> HIDE DEF All
  <2>1. IsWellFoundedOn(StrictSubsetOrdering(S), FiniteSubsetsOf(S))
    BY FS_StrictSubsetOrderingWellFounded
  <2> QED BY <1>2, <2>1, WFMin, Zenon
<1>4. PICK x \in S : T = Above(x)
  BY <1>3
<1>5. \A y \in S : x >= y
  <2> SUFFICES ASSUME NEW y \in S, ~(x >= y) PROVE FALSE
    OBVIOUS
  <2>0. y > x
    BY <1>1
  <2>1. y \in Above(x) /\ y \notin Above(y) /\ Above(y) \subseteq Above(x)
    <3>1. x \in Int /\ y \in Int /\ \A z \in S : z \in Int
      BY <1>1
    <3>2. \A z \in S : z > y => z > x
      BY <3>1, <2>0
    <3>3. y \notin Above(y)
      BY <3>1
    <3> QED BY <3>2, <3>3, <2>0
  <2>2. <<Above(y), T>> \in StrictSubsetOrdering(S)
    BY <1>4, <2>1 DEF StrictSubsetOrdering
  <2> QED BY <1>3, <2>2
<1> QED BY <1>4, <1>5 DEF Max

EpochInv ==
  /\ lastEpoch \in 0 .. epoch
  /\ bumpPending => listed = {}
  /\ lastEpoch # Run => taken = {}
  /\ lastEpoch # Run /\ pc = "scan" => listed = {}

FilesInv ==
  /\ disk \subseteq 0 .. written
  /\ taken \subseteq 0 .. written - 1
  /\ listed # {} => listed = {s \in 0 .. written - 1 : s > written - 1 - ListSize}

\* The candidates of a scan are the closed segments, once there is a playlist.
LEMMA CandidatesAreClosed ==
  ASSUME WindowInv, FilesInv
  PROVE  {s \in disk : Eligible(s)} = IF listed = {} THEN {} ELSE Closed
<1>1. CASE listed = {}
  <2>1. \A s : ~Eligible(s)
    BY <1>1 DEF Eligible
  <2> QED BY <1>1, <2>1
<1>2. CASE listed # {}
  <2> DEFINE first == IF written < ListSize THEN 0 ELSE written - ListSize
  <2>1. /\ written \in Nat /\ disk \subseteq Nat /\ ListSize \in Nat \ {0}
        /\ \A s \in Seqs : s \in Nat
    BY WindowAssumption DEF WindowInv, Seqs
  <2>2. listed = first .. written - 1
    <3>1. listed = {s \in 0 .. written - 1 : s > written - 1 - ListSize}
      BY <1>2 DEF FilesInv
    <3>2. first \in Nat
      BY <2>1
    <3>3. \A s : s \in listed <=> s \in first .. written - 1
      BY <2>1, <3>1, <3>2
    <3> QED BY <3>3
  <2>3. first \in listed /\ \A s \in listed : first <= s
    BY <1>2, <2>1, <2>2
  <2>4. Min(listed) \in listed /\ \A s \in listed : Min(listed) <= s
    BY <2>3 DEF Min
  <2>5. Min(listed) = first
    BY <2>1, <2>2, <2>3, <2>4
  <2>6. \A s \in disk : Eligible(s) <=> s < written
    <3>1. first \in Nat /\ first < written
      BY <2>2, <2>3, <2>1
    <3> HIDE DEF first
    <3> QED BY <1>2, <2>1, <2>2, <2>5, <3>1 DEF Eligible
  <2> QED BY <1>2, <2>6 DEF Closed
<1> QED BY <1>1, <1>2

-----------------------------------------------------------------------------
(* The dedup set.                                                          *)

\* The orders in which a scan may discover a set of segments name each once.
LEMMA DiscoveryOrder ==
  ASSUME NEW S \in SUBSET Seqs, NEW order \in SetToSeqs(S)
  PROVE  order \in Seq(Seqs) /\ IsInjective(order) /\ ToSet(order) = S
<1>1. IsFiniteSet(S)
  BY SeqsIsFinite, FS_Subset
<1>2. Cardinality(S) \in Nat
  BY <1>1, FS_CardinalityType
<1> DEFINE D == 1 .. Cardinality(S)
<1>3. order \in [D -> S] /\ \A i, j \in D : i # j => order[i] # order[j]
  BY DEF SetToSeqs
<1>4. order \in Injection(D, S)
  BY <1>3 DEF Injection, IsInjective
<1>5. IsFiniteSet(D) /\ Cardinality(D) = Cardinality(S)
  BY <1>2, FS_Interval
<1>6. order \in Surjection(D, S)
  <2> HIDE DEF D
  <2> QED BY <1>1, <1>4, <1>5, FS_Injection
<1>7. ToSet(order) = S
  BY <1>3, <1>6 DEF Surjection, ToSet
<1>8. order \in Seq(Seqs)
  BY <1>2, <1>3
<1> QED BY <1>4, <1>7, <1>8 DEF Injection

\* The names of a list are those it has a position for.
LEMMA NamesOf ==
  ASSUME NEW S, NEW order \in Seq(S)
  PROVE  \A x : x \in ToSet(order) <=> \E i \in 1 .. Len(order) : order[i] = x
<1>1. DOMAIN order = 1 .. Len(order)
  OBVIOUS
<1> QED BY <1>1 DEF ToSet

\* One list of names after another that shares none of them.
LEMMA Appended ==
  ASSUME NEW a \in Seq(Seqs), NEW b \in Seq(Seqs)
  PROVE  /\ a \o b \in Seq(Seqs)
         /\ ToSet(a \o b) = ToSet(a) \union ToSet(b)
         /\ IsInjective(a) /\ IsInjective(b) /\ ToSet(a) \intersect ToSet(b) = {}
              => IsInjective(a \o b)
<1>1. /\ a \o b \in Seq(Seqs) /\ Len(a \o b) = Len(a) + Len(b)
      /\ Len(a) \in Nat /\ Len(b) \in Nat
      /\ \A i \in 1 .. Len(a) : (a \o b)[i] = a[i]
      /\ \A i \in 1 .. Len(b) : (a \o b)[Len(a) + i] = b[i]
      /\ \A i \in 1 .. Len(a) + Len(b) :
           i \in 1 .. Len(a) \/ \E j \in 1 .. Len(b) : i = Len(a) + j
  <2>1. \A i \in 1 .. Len(a) + Len(b) :
           i \in 1 .. Len(a) \/ \E j \in 1 .. Len(b) : i = Len(a) + j
    <3> SUFFICES ASSUME NEW i \in 1 .. Len(a) + Len(b), i \notin 1 .. Len(a)
                 PROVE  i - Len(a) \in 1 .. Len(b) /\ i = Len(a) + (i - Len(a))
      OBVIOUS
    <3> QED OBVIOUS
  <2> QED BY <2>1
<1> DEFINE ab == a \o b
<1> HIDE DEF ab
<1>2. /\ ab \in Seq(Seqs) /\ Len(ab) = Len(a) + Len(b)
      /\ \A i \in 1 .. Len(a) : ab[i] = a[i]
      /\ \A i \in 1 .. Len(b) : ab[Len(a) + i] = b[i]
  BY <1>1 DEF ab
<1>3. ToSet(ab) = ToSet(a) \union ToSet(b)
  <2>1. \A i \in 1 .. Len(a) : i \in 1 .. Len(ab)
    BY <1>1, <1>2
  <2>2. \A i \in 1 .. Len(b) : Len(a) + i \in 1 .. Len(ab)
    BY <1>1, <1>2
  <2>3. \A x : x \in ToSet(ab) <=> \E i \in 1 .. Len(ab) : ab[i] = x
    BY <1>2, NamesOf
  <2>4. \A x : x \in ToSet(a) <=> \E i \in 1 .. Len(a) : a[i] = x
    BY NamesOf
  <2>5. \A x : x \in ToSet(b) <=> \E i \in 1 .. Len(b) : b[i] = x
    BY NamesOf
  <2>6. ASSUME NEW x \in ToSet(ab) PROVE x \in ToSet(a) \/ x \in ToSet(b)
    <3>1. PICK i \in 1 .. Len(a) + Len(b) : ab[i] = x
      BY <1>2, <2>3
    <3>2. CASE i \in 1 .. Len(a)
      BY <1>2, <2>4, <3>1, <3>2
    <3>3. CASE \E j \in 1 .. Len(b) : i = Len(a) + j
      BY <1>2, <2>5, <3>1, <3>3
    <3> QED BY <1>1, <3>2, <3>3
  <2>7. \A x : x \in ToSet(a) \/ x \in ToSet(b) => x \in ToSet(ab)
    BY <1>2, <2>1, <2>2, <2>3, <2>4, <2>5
  <2> QED BY <2>6, <2>7
<1>4. ASSUME IsInjective(a), IsInjective(b), ToSet(a) \intersect ToSet(b) = {}
      PROVE  IsInjective(ab)
  <2> SUFFICES ASSUME NEW i \in 1 .. Len(ab), NEW j \in 1 .. Len(ab), ab[i] = ab[j]
               PROVE  i = j
    BY <1>2 DEF IsInjective
  <2>1. \A k \in 1 .. Len(a), m \in 1 .. Len(b) : a[k] # b[m]
    <3>1. \A k \in 1 .. Len(a) : a[k] \in ToSet(a)
      BY NamesOf
    <3>2. \A m \in 1 .. Len(b) : b[m] \in ToSet(b)
      BY NamesOf
    <3> QED BY <1>4, <3>1, <3>2
  <2>2. CASE i \in 1 .. Len(a) /\ j \in 1 .. Len(a)
    BY <1>2, <1>4, <2>2 DEF IsInjective
  <2>3. CASE i \notin 1 .. Len(a) /\ j \notin 1 .. Len(a)
    <3>1. PICK k \in 1 .. Len(b) : i = Len(a) + k
      BY <1>1, <1>2, <2>3
    <3>2. PICK m \in 1 .. Len(b) : j = Len(a) + m
      BY <1>1, <1>2, <2>3
    <3> QED BY <1>2, <1>4, <3>1, <3>2 DEF IsInjective
  <2> QED BY <1>1, <1>2, <2>1, <2>2, <2>3
<1> QED BY <1>1, <1>3, <1>4 DEF ab

\* What pruning keeps: a tail of the list.
LEMMA PrunedIsTail ==
  ASSUME NEW order \in Seq(Seqs)
  PROVE  \E drop \in 0 .. Len(order) :
           /\ Pruned(order) \in Seq(Seqs)
           /\ Len(Pruned(order)) = Len(order) - drop
           /\ \A i \in 1 .. Len(order) - drop : Pruned(order)[i] = order[drop + i]
           /\ Len(order) - drop <= SeenCap
           /\ drop = 0 \/ Len(order) - drop = SeenCap
<1> DEFINE keep == IF Len(order) < SeenCap THEN Len(order) ELSE SeenCap
           drop == Len(order) - keep
<1>1. /\ Len(order) \in Nat /\ SeenCap \in Nat /\ keep \in Nat /\ keep <= Len(order)
      /\ drop \in 0 .. Len(order) /\ Len(order) - drop = keep
  BY WindowAssumption
<1>2. \A i \in drop + 1 .. Len(order) : order[i] \in Seqs
  <2> HIDE DEF keep
  <2> QED BY <1>1
<1> DEFINE tail == SubSeq(order, drop + 1, Len(order))
<1>3. Pruned(order) = tail
  BY DEF Pruned
<1>4. /\ tail \in Seq(Seqs)
      /\ Len(tail) = IF drop + 1 <= Len(order) THEN Len(order) - (drop + 1) + 1 ELSE 0
      /\ \A i \in 1 .. Len(order) - (drop + 1) + 1 : tail[i] = order[drop + 1 + i - 1]
  <2> HIDE DEF keep
  <2>1. drop + 1 \in Int /\ Len(order) \in Int
    BY <1>1
  <2> HIDE DEF drop
  <2> QED BY <1>2, <2>1, SubSeqProperties
<1>5. /\ Len(tail) = Len(order) - drop
      /\ \A i \in 1 .. Len(order) - drop : tail[i] = order[drop + i]
  <2> HIDE DEF keep, drop, tail
  <2> QED BY <1>1, <1>4
<1>6. Len(order) - drop <= SeenCap /\ (drop = 0 \/ Len(order) - drop = SeenCap)
  BY <1>1
<1> QED
  <2> HIDE DEF keep, drop, tail
  <2> QED BY <1>1, <1>3, <1>4, <1>5, <1>6

\* What pruning keeps is short, names nothing twice and nothing new.
LEMMA PrunedIsSound ==
  ASSUME NEW order \in Seq(Seqs), IsInjective(order)
  PROVE  /\ Pruned(order) \in Seq(Seqs) /\ IsInjective(Pruned(order))
         /\ Len(Pruned(order)) <= SeenCap
         /\ ToSet(Pruned(order)) \subseteq ToSet(order)
<1> DEFINE tail == Pruned(order)
<1> HIDE DEF tail
<1>1. PICK drop \in 0 .. Len(order) :
           /\ tail \in Seq(Seqs)
           /\ Len(tail) = Len(order) - drop
           /\ \A i \in 1 .. Len(order) - drop : tail[i] = order[drop + i]
           /\ Len(order) - drop <= SeenCap
  BY PrunedIsTail DEF tail
<1>2. \A i \in 1 .. Len(tail) : drop + i \in 1 .. Len(order) /\ tail[i] = order[drop + i]
  BY <1>1
<1>3. IsInjective(tail)
  <2> SUFFICES ASSUME NEW i \in 1 .. Len(tail), NEW j \in 1 .. Len(tail), tail[i] = tail[j]
               PROVE  i = j
    BY <1>1 DEF IsInjective
  <2>1. drop + i = drop + j
    BY <1>2 DEF IsInjective
  <2> QED BY <1>1, <2>1
<1>4. ToSet(tail) \subseteq ToSet(order)
  <2>1. \A x : x \in ToSet(tail) => \E i \in 1 .. Len(tail) : tail[i] = x
    BY <1>1, NamesOf
  <2>2. \A i \in 1 .. Len(order) : order[i] \in ToSet(order)
    BY NamesOf
  <2> QED BY <1>2, <2>1, <2>2
<1> QED BY <1>1, <1>3, <1>4 DEF tail

\* A name that pruning drops is followed by SeenCap others; if no name stands
\* MaxBacklog or more above a later one, it is that far from the highest.
LEMMA DroppedIsOld ==
  ASSUME NEW order \in Seq(Seqs), IsInjective(order),
         \A j, k \in 1 .. Len(order) : j < k => order[j] < order[k] + MaxBacklog,
         NEW t \in Nat, \A s \in ToSet(order) : s < t,
         NEW s \in ToSet(order), s \notin ToSet(Pruned(order))
  PROVE  s + SeenCap <= t + MaxBacklog - 2
<1> DEFINE tail == Pruned(order)
           above == (s - MaxBacklog + 1 .. t - 1) \ {s}
<1> HIDE DEF tail
<1>0. SeenCap \in Nat \ {0} /\ MaxBacklog \in Nat \ {0} /\ Len(order) \in Nat
      /\ \A x \in Seqs : x \in Nat
  BY WindowAssumption DEF Seqs
<1>1. PICK p \in 1 .. Len(order) : s = order[p]
  BY DEF ToSet
<1>2. PICK drop \in 0 .. Len(order) :
           /\ tail \in Seq(Seqs)
           /\ Len(tail) = Len(order) - drop
           /\ \A i \in 1 .. Len(order) - drop : tail[i] = order[drop + i]
           /\ drop = 0 \/ Len(order) - drop = SeenCap
  BY PrunedIsTail DEF tail
<1>3. p <= drop
  <2> SUFFICES ASSUME p > drop PROVE FALSE
    BY <1>1, <1>2
  <2>1. p - drop \in 1 .. Len(tail) /\ tail[p - drop] = order[p]
    BY <1>1, <1>2
  <2> QED BY <1>1, <1>2, <2>1 DEF ToSet, tail
<1>4. Len(order) = drop + SeenCap
  BY <1>0, <1>1, <1>2, <1>3
<1> DEFINE f == [i \in 1 .. SeenCap |-> order[drop + i]]
<1>5. \A i \in 1 .. SeenCap : drop + i \in 1 .. Len(order) /\ drop + i > p
  BY <1>0, <1>1, <1>2, <1>3, <1>4
<1>6. s \in Nat /\ s < t
  BY <1>0, <1>1
<1>7. \A i \in 1 .. SeenCap : order[drop + i] \in above
  <2> SUFFICES ASSUME NEW i \in 1 .. SeenCap PROVE order[drop + i] \in above
    OBVIOUS
  <2>1. order[drop + i] \in Nat /\ order[drop + i] < t
    BY <1>0, <1>5 DEF ToSet
  <2>2. order[drop + i] # s
    BY <1>1, <1>5 DEF IsInjective
  <2>3. s < order[drop + i] + MaxBacklog
    BY <1>1, <1>5
  <2> QED BY <1>0, <1>6, <2>1, <2>2, <2>3
<1>8. f \in Injection(1 .. SeenCap, above)
  <2>1. \A i, j \in 1 .. SeenCap : order[drop + i] = order[drop + j] => i = j
    <3> SUFFICES ASSUME NEW i \in 1 .. SeenCap, NEW j \in 1 .. SeenCap,
                        order[drop + i] = order[drop + j]
                 PROVE  i = j
      OBVIOUS
    <3>1. drop + i = drop + j
      BY <1>5 DEF IsInjective
    <3> QED BY <1>0, <1>2, <3>1
  <2> HIDE DEF above
  <2> QED BY <1>7, <2>1 DEF Injection, IsInjective
<1>9. IsFiniteSet(above) /\ Cardinality(above) = t - s + MaxBacklog - 2
  <2>1. /\ IsFiniteSet(s - MaxBacklog + 1 .. t - 1)
        /\ Cardinality(s - MaxBacklog + 1 .. t - 1) = t - s + MaxBacklog - 1
    <3> DEFINE first == s - MaxBacklog + 1
               last == t - 1
    <3>1. /\ first \in Int /\ last \in Int /\ ~(first > last)
          /\ last - first + 1 = t - s + MaxBacklog - 1
      BY <1>0, <1>6
    <3> HIDE DEF first, last
    <3>2. IsFiniteSet(first .. last) /\ Cardinality(first .. last) = last - first + 1
      BY <3>1, FS_Interval
    <3> QED BY <3>1, <3>2 DEF first, last
  <2>2. s \in s - MaxBacklog + 1 .. t - 1
    BY <1>0, <1>6
  <2> DEFINE all == s - MaxBacklog + 1 .. t - 1
  <2>3. IsFiniteSet(all \ {s}) /\ Cardinality(all \ {s}) = Cardinality(all) - 1
    <3> HIDE DEF all
    <3> QED BY <2>1, <2>2, FS_RemoveElement DEF all
  <2> QED BY <1>0, <1>6, <2>1, <2>3
<1>10. Cardinality(1 .. SeenCap) = SeenCap
  BY <1>0, FS_Interval
<1>11. SeenCap <= t - s + MaxBacklog - 2
  <2> HIDE DEF above, f
  <2> QED BY <1>8, <1>9, <1>10, FS_Injection
<1> QED BY <1>0, <1>6, <1>11
-----------------------------------------------------------------------------
(* What a poll sees, and what it takes.                                    *)

SeenInv ==
  /\ seenOrder \in Seq(Seqs) /\ IsInjective(seenOrder)
  /\ Len(seenOrder) <= SeenCap
  /\ lastEpoch = Run => ToSet(seenOrder) \subseteq taken

CounterInv ==
  /\ pc \in {"check", "scan"}
  /\ alive \in BOOLEAN
  /\ maxEnqueued \in Seqs
  /\ sweepCounter \in 0 .. SweepEvery - 1
  /\ sweepDue \in BOOLEAN
  /\ duplicate \in BOOLEAN
  /\ lost \in BOOLEAN

PollInv == WindowInv /\ EpochInv /\ FilesInv /\ SeenInv /\ CounterInv

\* A scan takes nothing unless there is a playlist, and then it has taken notice
\* of the last restart and takes every closed segment that is not known.
LEMMA WhatAScanTakes ==
  ASSUME PollInv, pc = "scan"
  PROVE  /\ listed = {} => NewSegments = {}
         /\ listed # {} => /\ lastEpoch = Run
                           /\ NewSegments = Closed \ ToSet(Known)
         /\ NewSegments \in SUBSET Seqs
<1>1. {s \in disk : Eligible(s)} = IF listed = {} THEN {} ELSE Closed
  BY CandidatesAreClosed DEF PollInv
<1>2. NewSegments = {s \in disk : Eligible(s)} \ ToSet(Known)
  BY DEF NewSegments
<1>3. NewSegments \in SUBSET Seqs
  BY DEF NewSegments, PollInv, WindowInv
<1> QED
  BY <1>1, <1>2, <1>3 DEF PollInv, EpochInv

\* The dedup set a scan works with is the one it found, or empty.
LEMMA WhatAScanKnows ==
  ASSUME PollInv
  PROVE  /\ Known \in Seq(Seqs) /\ IsInjective(Known)
         /\ ToSet(Known) \subseteq ToSet(seenOrder)
         /\ lastEpoch = Run => ToSet(Known) \subseteq taken
<1>1. << >> \in Seq(Seqs) /\ IsInjective(<< >>) /\ ToSet(<< >>) = {}
  BY DEF IsInjective, ToSet
<1> QED BY <1>1 DEF Known, PollInv, SeenInv

\* What a scan leaves behind.
LEMMA AfterAScan ==
  ASSUME PollInv, ScanDirectory
  PROVE  \E order \in Seq(Seqs) :
           /\ IsInjective(order) /\ ToSet(order) = NewSegments
           /\ seenOrder' = Pruned(Known \o order)
           /\ Known \o order \in Seq(Seqs) /\ IsInjective(Known \o order)
           /\ ToSet(Known \o order) = ToSet(Known) \union NewSegments
           /\ seenOrder' \in Seq(Seqs) /\ IsInjective(seenOrder')
           /\ Len(seenOrder') <= SeenCap
           /\ ToSet(seenOrder') \subseteq ToSet(Known) \union NewSegments
<1>1. NewSegments \in SUBSET Seqs
  BY DEF NewSegments, PollInv, WindowInv
<1>2. PICK order \in SetToSeqs(NewSegments) : seenOrder' = Pruned(Known \o order)
  BY DEF ScanDirectory
<1>3. order \in Seq(Seqs) /\ IsInjective(order) /\ ToSet(order) = NewSegments
  BY <1>1, DiscoveryOrder
<1>4. Known \in Seq(Seqs) /\ IsInjective(Known)
  BY WhatAScanKnows
<1>5. ToSet(Known) \intersect NewSegments = {}
  BY DEF NewSegments
<1>6. /\ Known \o order \in Seq(Seqs) /\ IsInjective(Known \o order)
      /\ ToSet(Known \o order) = ToSet(Known) \union NewSegments
  BY <1>3, <1>4, <1>5, Appended
<1>7. /\ seenOrder' \in Seq(Seqs) /\ IsInjective(seenOrder')
      /\ Len(seenOrder') <= SeenCap
      /\ ToSet(seenOrder') \subseteq ToSet(Known) \union NewSegments
  BY <1>2, <1>6, PrunedIsSound
<1> QED BY <1>2, <1>3, <1>6, <1>7

\* No step of SegmentWindow leaves the ranges.
LEMMA WindowStep ==
  ASSUME WindowInv, [Next]_vars
  PROVE  WindowInv'
<1> USE DEF Run
<1>1. CASE CompleteSegment
  BY <1>1, WindowAssumption DEF WindowInv, CompleteSegment, Seqs
<1>2. CASE FfmpegDies
  BY <1>2 DEF WindowInv, FfmpegDies
<1>3. CASE Restart
  <2>1. Run' = epoch + 1 /\ Run' # 0
    BY <1>3, WindowAssumption DEF WindowInv, Restart
  <2>2. 0 \in Seqs /\ {0} \subseteq Seqs
    BY SeqsIsFinite
  <2> QED BY <1>3, <2>1, <2>2 DEF WindowInv, Restart
<1>4. CASE FailedStart
  BY <1>4 DEF WindowInv, FailedStart, ffmpegVars
<1>5. CASE BumpEpoch
  <2>1. epoch \in Int /\ epoch >= 0 /\ epoch < MaxEpoch /\ MaxEpoch \in Int
    BY <1>5, WindowAssumption DEF WindowInv, BumpEpoch
  <2>2. epoch' \in 0 .. MaxEpoch
    BY <1>5, <2>1 DEF BumpEpoch
  <2> QED
    BY <1>5, <2>2 DEF WindowInv, BumpEpoch
<1>6. CASE CheckEpoch
  BY <1>6 DEF WindowInv, CheckEpoch, ffmpegVars
<1>7. CASE ScanDirectory
  BY <1>7 DEF WindowInv, ScanDirectory, ffmpegVars
<1>8. CASE Sweep
  BY <1>8 DEF WindowInv, Sweep, KeptBySweep, ffmpegVars
<1>9. CASE UNCHANGED vars
  BY <1>9 DEF WindowInv, vars, ffmpegVars
<1> QED
  BY <1>1, <1>2, <1>3, <1>4, <1>5, <1>6, <1>7, <1>8, <1>9 DEF Next

\* The epochs: until a poll has noticed a restart, nothing of the new run is
\* taken, and a poll that started before the bump finds no playlist.
LEMMA EpochStep ==
  ASSUME PollInv, [Next]_vars
  PROVE  EpochInv'
<1> USE DEF PollInv, EpochInv, Run
<1>0. epoch \in Nat /\ epoch' \in Nat /\ bumpPending \in BOOLEAN
  BY WindowStep, WindowAssumption DEF WindowInv
<1>1. CASE CompleteSegment
  BY <1>0, <1>1 DEF CompleteSegment, pollVars
<1>2. CASE FfmpegDies
  BY <1>2 DEF FfmpegDies, pollVars
<1>3. CASE Restart
  BY <1>0, <1>3 DEF Restart, pollVars, WindowInv
<1>4. CASE FailedStart
  BY <1>4 DEF FailedStart, ffmpegVars, pollVars
<1>5. CASE BumpEpoch
  BY <1>0, <1>5 DEF BumpEpoch, pollVars
<1>6. CASE CheckEpoch
  BY <1>0, <1>6 DEF CheckEpoch, ffmpegVars
<1>7. CASE ScanDirectory
  <2>1. NewSegments = {} \/ lastEpoch = Run
    BY <1>7, WhatAScanTakes DEF ScanDirectory
  <2> QED BY <1>7, <2>1 DEF ScanDirectory, ffmpegVars
<1>8. CASE Sweep
  BY <1>8 DEF Sweep, ffmpegVars, pollVars
<1>9. CASE UNCHANGED vars
  BY <1>9 DEF vars, ffmpegVars, pollVars
<1> QED
  BY <1>1, <1>2, <1>3, <1>4, <1>5, <1>6, <1>7, <1>8, <1>9 DEF Next

\* The files: none above the one being written, and only closed ones are taken.
LEMMA FilesStep ==
  ASSUME PollInv, [Next]_vars
  PROVE  FilesInv'
<1> USE DEF PollInv, FilesInv
<1>0. written \in Nat /\ \A s \in disk : s \in Nat
  BY WindowAssumption DEF WindowInv, Seqs
<1>1. CASE CompleteSegment
  <2>1. disk' \subseteq 0 .. written' /\ taken' \subseteq 0 .. written' - 1
    BY <1>0, <1>1 DEF CompleteSegment
  <2>2. listed' = {s \in 0 .. written' - 1 : s > written' - 1 - ListSize}
    BY <1>0, <1>1 DEF CompleteSegment
  <2> QED BY <2>1, <2>2
<1>2. CASE FfmpegDies
  BY <1>2 DEF FfmpegDies
<1>3. CASE Restart
  BY <1>0, <1>3 DEF Restart
<1>4. CASE FailedStart
  BY <1>4 DEF FailedStart, ffmpegVars
<1>5. CASE BumpEpoch
  BY <1>5 DEF BumpEpoch
<1>6. CASE CheckEpoch
  BY <1>6 DEF CheckEpoch, ffmpegVars
<1>7. CASE ScanDirectory
  <2>1. NewSegments \subseteq 0 .. written - 1
    <3>1. \A s \in Closed : s \in Nat /\ s < written
      BY <1>0 DEF Closed
    <3>2. Closed \subseteq 0 .. written - 1
      BY <1>0, <3>1
    <3> QED BY <1>7, <3>2, WhatAScanTakes DEF ScanDirectory
  <2> QED BY <1>7, <2>1 DEF ScanDirectory, ffmpegVars
<1>8. CASE Sweep
  BY <1>8 DEF Sweep, KeptBySweep, ffmpegVars
<1>9. CASE UNCHANGED vars
  BY <1>9 DEF vars, ffmpegVars
<1> QED
  BY <1>1, <1>2, <1>3, <1>4, <1>5, <1>6, <1>7, <1>8, <1>9 DEF Next

\* The dedup set: each name once, never more than SeenCap, and once a restart is
\* noticed only names of the current run.
LEMMA SeenStep ==
  ASSUME PollInv, [Next]_vars
  PROVE  SeenInv'
<1> USE DEF PollInv, SeenInv, Run
<1>0. /\ epoch \in Nat /\ lastEpoch \in 0 .. epoch /\ bumpPending \in BOOLEAN
      /\ bumpPending => alive
  BY WindowAssumption DEF WindowInv, EpochInv
<1>1. CASE CompleteSegment
  BY <1>1 DEF CompleteSegment, pollVars
<1>2. CASE FfmpegDies
  BY <1>2 DEF FfmpegDies, pollVars
<1>3. CASE Restart
  <2>1. (lastEpoch # Run)'
    BY <1>0, <1>3 DEF Restart, pollVars
  <2> QED BY <1>3, <2>1 DEF Restart, pollVars
<1>4. CASE FailedStart
  BY <1>4 DEF FailedStart, ffmpegVars, pollVars
<1>5. CASE BumpEpoch
  BY <1>0, <1>5 DEF BumpEpoch, pollVars
<1>6. CASE CheckEpoch
  <2>1. CASE epoch # lastEpoch
    <3>1. << >> \in Seq(Seqs) /\ IsInjective(<< >>) /\ ToSet(<< >>) = {} /\ Len(<< >>) = 0
      BY DEF IsInjective, ToSet
    <3>2. seenOrder' = << >>
      BY <1>6, <2>1 DEF CheckEpoch
    <3> QED BY <3>1, <3>2, WindowAssumption
  <2>2. CASE epoch = lastEpoch
    BY <1>6, <2>2 DEF CheckEpoch, ffmpegVars
  <2> QED BY <2>1, <2>2
<1>7. CASE ScanDirectory
  <2>1. /\ seenOrder' \in Seq(Seqs) /\ IsInjective(seenOrder')
        /\ Len(seenOrder') <= SeenCap
        /\ ToSet(seenOrder') \subseteq ToSet(Known) \union NewSegments
    BY <1>7, AfterAScan
  <2>2. lastEpoch = Run => ToSet(Known) \subseteq taken
    BY WhatAScanKnows
  <2>3. taken' = taken \union NewSegments /\ UNCHANGED <<lastEpoch, epoch, bumpPending>>
    BY <1>7 DEF ScanDirectory, ffmpegVars
  <2> QED BY <2>1, <2>2, <2>3
<1>8. CASE Sweep
  BY <1>8 DEF Sweep, ffmpegVars, pollVars
<1>9. CASE UNCHANGED vars
  BY <1>9 DEF vars, ffmpegVars, pollVars
<1> QED
  BY <1>1, <1>2, <1>3, <1>4, <1>5, <1>6, <1>7, <1>8, <1>9 DEF Next

\* The counters and flags of the poll loop.
LEMMA CounterStep ==
  ASSUME PollInv, [Next]_vars
  PROVE  CounterInv'
<1> USE DEF PollInv, CounterInv
<1>1. CASE CompleteSegment
  BY <1>1 DEF CompleteSegment, pollVars
<1>2. CASE FfmpegDies
  BY <1>2 DEF FfmpegDies, pollVars
<1>3. CASE Restart
  BY <1>3 DEF Restart, pollVars
<1>4. CASE FailedStart
  BY <1>4 DEF FailedStart, ffmpegVars, pollVars
<1>5. CASE BumpEpoch
  BY <1>5 DEF BumpEpoch, pollVars
<1>6. CASE CheckEpoch
  BY <1>6, SeqsIsFinite DEF CheckEpoch, ffmpegVars
<1>7. CASE ScanDirectory
  <2> DEFINE seqs == NewSegments \union {IF CounterReset THEN 0 ELSE maxEnqueued}
  <2>1. NewSegments \in SUBSET Seqs
    BY DEF NewSegments, WindowInv
  <2>2. seqs \in SUBSET Seqs /\ seqs # {}
    BY <2>1, SeqsIsFinite
  <2>3. Max(seqs) \in Seqs
    <3> HIDE DEF seqs
    <3> QED BY <2>2, HighestSegment
  <2>4. maxEnqueued' \in Seqs
    BY <1>7, <2>3 DEF ScanDirectory
  <2>5. sweepCounter' \in 0 .. SweepEvery - 1
    BY <1>7, WindowAssumption DEF ScanDirectory
  <2>6. sweepDue' \in BOOLEAN /\ duplicate' \in BOOLEAN
    BY <1>7 DEF ScanDirectory
  <2> QED
    BY <1>7, <2>4, <2>5, <2>6 DEF ScanDirectory, ffmpegVars
<1>8. CASE Sweep
  BY <1>8 DEF Sweep, ffmpegVars, pollVars
<1>9. CASE UNCHANGED vars
  BY <1>9 DEF vars, ffmpegVars, pollVars
<1> QED
  BY <1>1, <1>2, <1>3, <1>4, <1>5, <1>6, <1>7, <1>8, <1>9 DEF Next

\* The poll loop's invariant holds before FFmpeg is started.
LEMMA PollInvInitially == Init => PollInv
<1> SUFFICES ASSUME Init PROVE PollInv
  OBVIOUS
<1>1. 0 \in Seqs /\ 0 \in 0 .. MaxEpoch /\ 0 \in 0 .. SweepEvery - 1 /\ 0 \in 0 .. 0
  BY SeqsIsFinite, WindowAssumption
<1>2. << >> \in Seq(Seqs) /\ IsInjective(<< >>) /\ ToSet(<< >>) = {} /\ Len(<< >>) = 0
  BY DEF IsInjective, ToSet
<1>3. WindowInv /\ EpochInv
  BY <1>1 DEF Init, WindowInv, EpochInv, Run
<1>4. FilesInv /\ CounterInv
  BY <1>1 DEF Init, FilesInv, CounterInv
<1>5. SeenInv
  BY <1>2, WindowAssumption DEF Init, SeenInv
<1> QED BY <1>3, <1>4, <1>5 DEF PollInv

\* Every step of the poll loop, of FFmpeg and of its supervisor preserves it.
LEMMA PollInvIsInductive == PollInv /\ [Next]_vars => PollInv'
  BY WindowStep, EpochStep, FilesStep, SeenStep, CounterStep DEF PollInv

\* So it holds of every behaviour.
LEMMA PollInvHolds == Spec => []PollInv
  BY PollInvInitially, PollInvIsInductive, PTL DEF Spec

\* The variables of the poll loop keep their types: in particular seen_order names
\* no segment twice and never more than SeenCap, whatever a scan discovers.
THEOREM WindowTypeCorrect == Spec => []TypeOK
<1>1. PollInv => TypeOK
  <2> SUFFICES ASSUME PollInv PROVE TypeOK
    OBVIOUS
  <2>1. listed \in SUBSET Seqs /\ taken \in SUBSET Seqs
    BY WindowAssumption DEF PollInv, FilesInv, WindowInv, Seqs
  <2>2. lastEpoch \in 0 .. MaxEpoch
    BY WindowAssumption DEF PollInv, EpochInv, WindowInv
  <2> QED
    BY <2>1, <2>2 DEF PollInv, WindowInv, SeenInv, CounterInv, TypeOK
<1> QED BY <1>1, PollInvHolds, PTL
-----------------------------------------------------------------------------
(* Nothing is lost.                                                        *)

\* What no poll has taken yet is newer than all that was taken, and while a sweep
\* is under way little: the poll that started it has taken all there was.
BacklogInv ==
  /\ \A s \in taken, b \in Backlog : s < b
  /\ sweepDue /\ listed # {} => Cardinality(Backlog) <= SweepSlack

\* The backlog is finite: it can be counted.
LEMMA BacklogFinite ==
  ASSUME WindowInv
  PROVE  IsFiniteSet(Backlog) /\ Cardinality(Backlog) \in Nat
<1>1. Backlog \in SUBSET Seqs
  BY DEF Backlog, Closed, WindowInv
<1> QED BY <1>1, SeqsIsFinite, FS_Subset, FS_CardinalityType

\* A scan leaves no backlog, unless there is no playlist.
LEMMA BacklogAfterScan ==
  ASSUME PollInv, ScanDirectory
  PROVE  \/ Backlog' = {}
         \/ listed' = {} /\ taken' = taken /\ Backlog' = Backlog
<1>1. taken' = taken \union NewSegments /\ Closed' = Closed /\ pc = "scan"
  BY DEF ScanDirectory, Closed, ffmpegVars
<1>2. CASE listed = {}
  BY <1>1, <1>2, WhatAScanTakes DEF Backlog, ScanDirectory
<1>3. CASE listed # {}
  <2>1. NewSegments = Closed \ ToSet(Known) /\ ToSet(Known) \subseteq taken
    BY <1>1, <1>3, WhatAScanTakes, WhatAScanKnows
  <2> QED BY <1>1, <2>1 DEF Backlog
<1> QED BY <1>2, <1>3

\* A backlog that does not grow stays small and new.
LEMMA BacklogShrinks ==
  ASSUME WindowInv, BacklogInv, taken' = taken, Backlog' \subseteq Backlog,
         (sweepDue /\ listed # {})' => sweepDue /\ listed # {}
  PROVE  BacklogInv'
<1>1. Cardinality(Backlog') <= Cardinality(Backlog) /\ Cardinality(Backlog') \in Nat
  BY BacklogFinite, FS_Subset, FS_CardinalityType
<1>2. (sweepDue /\ listed # {})' => Cardinality(Backlog') <= SweepSlack
  BY <1>1, BacklogFinite, WindowAssumption DEF BacklogInv
<1> QED BY <1>2 DEF BacklogInv

\* Without a backlog there is nothing to show.
LEMMA NoBacklog ==
  ASSUME Backlog' = {}
  PROVE  BacklogInv'
  BY FS_EmptySet, WindowAssumption DEF BacklogInv

\* Every step keeps the backlog small and newer than what was taken.
LEMMA BacklogStep ==
  ASSUME PollInv, BacklogInv, [Next]_vars
  PROVE  BacklogInv'
<1>0. WindowInv /\ written \in Nat /\ \A s \in disk : s \in Nat
  BY WindowAssumption DEF PollInv, WindowInv, Seqs
<1>1. CASE CompleteSegment
  <2>1. Backlog' \subseteq Backlog \union {written}
    BY <1>0, <1>1 DEF CompleteSegment, Backlog, Closed
  <2>2. /\ IsFiniteSet(Backlog \union {written})
        /\ Cardinality(Backlog \union {written}) <= Cardinality(Backlog) + 1
        /\ Cardinality(Backlog \union {written}) \in Nat
    <3>1. /\ IsFiniteSet(Backlog \union {written})
          /\ Cardinality(Backlog \union {written}) =
               IF written \in Backlog THEN Cardinality(Backlog) ELSE Cardinality(Backlog) + 1
      BY <1>0, BacklogFinite, FS_AddElement
    <3> QED BY <1>0, <3>1, BacklogFinite
  <2>3. Cardinality(Backlog') <= Cardinality(Backlog \union {written})
        /\ Cardinality(Backlog') \in Nat
    BY <2>1, <2>2, FS_Subset, FS_CardinalityType
  <2>4. /\ sweepDue' => Cardinality(Backlog) < SweepSlack
        /\ taken' = taken
    BY <1>1 DEF CompleteSegment
  <2>5. sweepDue' => Cardinality(Backlog') <= SweepSlack
    BY <1>0, <2>2, <2>3, <2>4, BacklogFinite, WindowAssumption
  <2>6. \A s \in taken : s < written
    BY <1>0 DEF PollInv, FilesInv
  <2> QED BY <2>1, <2>4, <2>5, <2>6 DEF BacklogInv
<1>2. CASE FfmpegDies
  BY <1>0, <1>2, BacklogShrinks DEF FfmpegDies, Backlog, Closed
<1>3. CASE Restart
  <2>1. Closed' = {}
    BY <1>3 DEF Restart, Closed
  <2> QED BY <2>1, NoBacklog DEF Backlog
<1>4. CASE FailedStart
  <2>1. Backlog' \subseteq Backlog
    BY <1>4 DEF FailedStart, ffmpegVars, Backlog, Closed
  <2> QED BY <1>0, <1>4, <2>1, BacklogShrinks DEF FailedStart
<1>5. CASE BumpEpoch
  BY <1>0, <1>5, BacklogShrinks DEF BumpEpoch, Backlog, Closed
<1>6. CASE CheckEpoch
  BY <1>0, <1>6, BacklogShrinks DEF CheckEpoch, ffmpegVars, Backlog, Closed
<1>7. CASE ScanDirectory
  <2>1. CASE Backlog' = {}
    BY <2>1, NoBacklog
  <2>2. CASE listed' = {} /\ taken' = taken /\ Backlog' = Backlog
    BY <1>0, <2>2, BacklogShrinks
  <2> QED BY <1>7, <2>1, <2>2, BacklogAfterScan
<1>8. CASE Sweep
  <2>1. Backlog' \subseteq Backlog
    BY <1>8 DEF Sweep, KeptBySweep, ffmpegVars, Backlog, Closed
  <2> QED BY <1>0, <1>8, <2>1, BacklogShrinks DEF Sweep
<1>9. CASE UNCHANGED vars
  BY <1>0, <1>9, BacklogShrinks DEF vars, ffmpegVars, Backlog, Closed
<1> QED
  BY <1>1, <1>2, <1>3, <1>4, <1>5, <1>6, <1>7, <1>8, <1>9 DEF Next

\* The sweep keeps the backlog: what is newer than one of its segments is
\* backlog itself, or the segment being written.
LEMMA SweepKeepsBacklog ==
  ASSUME PollInv, BacklogInv, sweepDue, listed # {}, SweepSlack < SweepKeep
  PROVE  Backlog \subseteq KeptBySweep
<1> SUFFICES ASSUME NEW b \in Backlog PROVE b \in KeptBySweep
  OBVIOUS
<1> DEFINE newer == {t \in disk : t > b}
<1>0. /\ WindowInv /\ written \in Nat /\ b \in Nat /\ b \in disk /\ b < written
      /\ \A s \in disk : s \in Nat /\ s <= written
  BY WindowAssumption DEF PollInv, WindowInv, FilesInv, Seqs, Backlog, Closed
<1>1. newer \subseteq (Backlog \ {b}) \union {written}
  <2> SUFFICES ASSUME NEW t \in disk, t > b, t # written
               PROVE  t \in Backlog \ {b}
    OBVIOUS
  <2>1. t < written /\ t # b
    BY <1>0
  <2>2. t \notin taken
    BY <1>0 DEF BacklogInv
  <2> QED BY <2>1, <2>2 DEF Backlog, Closed
<1>2. /\ IsFiniteSet(Backlog \ {b})
      /\ Cardinality(Backlog \ {b}) = Cardinality(Backlog) - 1
  BY <1>0, BacklogFinite, FS_RemoveElement
<1>3. /\ IsFiniteSet((Backlog \ {b}) \union {written})
      /\ Cardinality((Backlog \ {b}) \union {written}) =
           IF written \in Backlog \ {b} THEN Cardinality(Backlog \ {b})
           ELSE Cardinality(Backlog \ {b}) + 1
  BY <1>2, FS_AddElement
<1>4. IsFiniteSet(newer) /\ Cardinality(newer) <= Cardinality((Backlog \ {b}) \union {written})
  <2> HIDE DEF newer
  <2> QED BY <1>1, <1>3, FS_Subset
<1>5. Cardinality(newer) \in Nat
  BY <1>4, FS_CardinalityType
<1>6. Cardinality(newer) < SweepKeep
  <2> HIDE DEF newer
  <2>1. Cardinality(Backlog) \in Nat /\ Cardinality(Backlog) <= SweepSlack
    BY <1>0, BacklogFinite DEF BacklogInv
  <2> QED BY <1>2, <1>3, <1>4, <1>5, <2>1, WindowAssumption
<1> QED BY <1>0, <1>6 DEF KeptBySweep

\* If the sweep keeps more segments than FFmpeg completes while it is under way,
\* it deletes no closed segment that was not handed to an upload task: however
\* many were waiting for the poll before it, also if a cleanup aborts partway,
\* with any dedup set and through any number of restarts.
THEOREM NothingLostHolds == SweepSlack < SweepKeep => (Spec => []NothingLostToSweep)
<1> SUFFICES ASSUME SweepSlack < SweepKeep PROVE Spec => []NothingLostToSweep
  OBVIOUS
<1>1. Init => BacklogInv /\ ~lost
  <2> SUFFICES ASSUME Init PROVE BacklogInv /\ ~lost
    OBVIOUS
  <2>1. Backlog = {} /\ ~lost /\ ~sweepDue
    BY DEF Init, Backlog, Closed
  <2> QED BY <2>1, FS_EmptySet, WindowAssumption DEF BacklogInv
<1>2. PollInv /\ BacklogInv /\ ~lost /\ [Next]_vars => (BacklogInv /\ ~lost)'
  <2> SUFFICES ASSUME PollInv, BacklogInv, ~lost, [Next]_vars
               PROVE  BacklogInv' /\ ~lost'
    OBVIOUS
  <2>1. BacklogInv'
    BY BacklogStep
  <2>2. sweepDue /\ listed # {} => Backlog \ KeptBySweep = {}
    BY SweepKeepsBacklog
  <2>3. ~lost'
    BY <2>2 DEF Next, vars, CompleteSegment, FfmpegDies, Restart, FailedStart,
       BumpEpoch, CheckEpoch, ScanDirectory, Sweep
  <2> QED BY <2>1, <2>3
<1>3. ~lost => NothingLostToSweep
  BY DEF NothingLostToSweep
<1> QED BY <1>1, <1>2, <1>3, PollInvHolds, PTL DEF Spec
-----------------------------------------------------------------------------
(* Nothing is taken twice, if the dedup set covers the directory.          *)

\* What the dedup set must hold: what one sweep leaves, and what arrives until
\* the next one is over.
DedupCovers ==
  /\ ~CleanupMayFail
  /\ MaxBacklog < SweepKeep
  /\ SweepKeep + (2 * SweepEvery - 1) * MaxBacklog <= SeenCap + 2

\* The scans since the last sweep, at most.
Scans == IF sweepDue THEN SweepEvery + sweepCounter ELSE sweepCounter

\* The names in seenOrder come from batches of at most MaxBacklog segments.
NamesInOrder ==
  \A j, k \in 1 .. Len(seenOrder) :
    j < k => seenOrder[j] < seenOrder[k] + MaxBacklog

\* The segments below t are taken, those from lo on are on disk, and those the
\* dedup set has forgotten are too old to be there at the next scan.
DirectoryAt(lo, t) ==
  /\ taken = 0 .. t - 1 /\ t <= written
  /\ alive => disk # {}
  /\ disk # {} => /\ disk = lo .. written /\ lo <= t
                  /\ written - t <= MaxBacklog
                  /\ t - lo <= SweepKeep - 1 + Scans * MaxBacklog
  /\ lastEpoch = Run =>
       /\ NamesInOrder
       /\ maxEnqueued <= written
       /\ \A s \in 0 .. t - 1 :
            s \in ToSet(seenOrder) \/ s + SeenCap <= t + MaxBacklog - 2

DirectoryInv == ~duplicate /\ \E lo, t \in Nat : DirectoryAt(lo, t)

\* A product the bounds are about grows with its factor.
LEMMA MoreScans ==
  ASSUME NEW a \in Nat, NEW b \in Nat, a <= b
  PROVE  /\ a * MaxBacklog \in Nat /\ b * MaxBacklog \in Nat
         /\ a * MaxBacklog <= b * MaxBacklog
         /\ (a + 1) * MaxBacklog = a * MaxBacklog + MaxBacklog
  BY WindowAssumption

\* When a scan may run, no forgotten segment is on disk.
LEMMA ForgottenAreGone ==
  ASSUME DedupCovers, PollInv, ScanDirectory, NEW lo \in Nat, NEW t \in Nat,
         DirectoryAt(lo, t), lastEpoch = Run
  PROVE  \A s \in disk \intersect taken : s \in ToSet(seenOrder)
<1> SUFFICES ASSUME NEW s \in disk, s \in taken, s \notin ToSet(seenOrder)
             PROVE  FALSE
  OBVIOUS
<1>0. /\ SeenCap \in Nat /\ SweepEvery \in Nat \ {0} /\ SweepKeep \in Nat
      /\ MaxBacklog \in Nat /\ written \in Nat /\ sweepCounter \in 0 .. SweepEvery - 1
      /\ sweepDue \in BOOLEAN
  BY WindowAssumption DEF PollInv, WindowInv, CounterInv, Seqs
<1>1. s \in Nat /\ lo <= s /\ s < t /\ s + SeenCap <= t + MaxBacklog - 2
      /\ t - lo <= SweepKeep - 1 + Scans * MaxBacklog
  BY <1>0 DEF DirectoryAt
<1>2. Scans \in Nat /\ Scans + 1 <= 2 * SweepEvery - 1
  BY <1>0 DEF ScanDirectory, Scans
<1>3. /\ (Scans + 1) * MaxBacklog <= (2 * SweepEvery - 1) * MaxBacklog
      /\ (Scans + 1) * MaxBacklog = Scans * MaxBacklog + MaxBacklog
      /\ Scans * MaxBacklog \in Nat /\ (2 * SweepEvery - 1) * MaxBacklog \in Nat
  <2>1. 2 * SweepEvery - 1 \in Nat
    BY <1>0
  <2> QED BY <1>2, <2>1, MoreScans
<1>4. SweepKeep + (2 * SweepEvery - 1) * MaxBacklog <= SeenCap + 2
  BY DEF DedupCovers
<1> QED
  <2> DEFINE p == Scans * MaxBacklog
             q == (2 * SweepEvery - 1) * MaxBacklog
  <2>1. p \in Nat /\ q \in Nat /\ p + MaxBacklog <= q
    BY <1>3
  <2>2. SweepKeep + q <= SeenCap + 2 /\ t - lo <= SweepKeep - 1 + p
    BY <1>1, <1>4
  <2> HIDE DEF p, q
  <2> QED BY <1>0, <1>1, <2>1, <2>2

\* What a sweep keeps of an interval is its upper part.
LEMMA SweptInterval ==
  ASSUME WindowInv, NEW lo \in Nat, disk = lo .. written
  PROVE  KeptBySweep = {s \in disk : written - s < SweepKeep}
<1>1. written \in Nat
  BY WindowAssumption DEF WindowInv, Seqs
<1>2. ASSUME NEW s \in disk
      PROVE  Cardinality({t \in disk : t > s}) = written - s
  <2>1. s \in Nat /\ lo <= s /\ s <= written
    BY <1>1
  <2> DEFINE next == s + 1
  <2>2. {t \in disk : t > s} = next .. written
    BY <1>1, <2>1
  <2>3. next \in Int /\ written \in Int /\ written - next + 1 = written - s
        /\ (next > written => written - s = 0)
    BY <1>1, <2>1
  <2> HIDE DEF next
  <2>4. Cardinality(next .. written) = IF next > written THEN 0 ELSE written - next + 1
    BY <2>3, FS_Interval
  <2> QED BY <2>2, <2>3, <2>4
<1> QED BY <1>2 DEF KeptBySweep
\* The bounds of a directory, for a state in which lo and t do not move.
LEMMA SameDirectory ==
  ASSUME NEW lo \in Nat, NEW t \in Nat, DirectoryAt(lo, t),
         taken' = taken, written' = written, disk' = disk \/ disk' = {},
         Scans' = Scans, alive' => alive /\ disk' = disk,
         (lastEpoch = Run)' => /\ lastEpoch = Run
                               /\ seenOrder' = seenOrder /\ maxEnqueued' = maxEnqueued
  PROVE  DirectoryAt(lo, t)'
  BY DEF DirectoryAt, NamesInOrder

\* A completed segment is one more on disk.
LEMMA CompleteSegmentDirectory ==
  ASSUME PollInv, CompleteSegment, NEW lo \in Nat, NEW t \in Nat, DirectoryAt(lo, t)
  PROVE  DirectoryAt(lo, t)'
<1>0. /\ written \in Nat /\ disk = lo .. written /\ lo <= t
      /\ t <= written /\ MaxBacklog \in Nat /\ lo <= written
  BY WindowAssumption DEF CompleteSegment, PollInv, WindowInv, DirectoryAt, Seqs
<1>1. Backlog = t .. written - 1
  BY <1>0 DEF Backlog, Closed, DirectoryAt
<1>2. Cardinality(t .. written - 1) = written - t
  <2> DEFINE last == written - 1
  <2>1. last \in Int /\ t \in Int /\ last - t + 1 = written - t
        /\ (t > last => written - t = 0)
    BY <1>0
  <2> HIDE DEF last
  <2>2. Cardinality(t .. last) = IF t > last THEN 0 ELSE last - t + 1
    BY <2>1, FS_Interval
  <2> QED BY <2>1, <2>2 DEF last
<1>3. written - t < MaxBacklog
  BY <1>1, <1>2 DEF CompleteSegment
<1>4. disk' = lo .. written' /\ written' = written + 1
  BY <1>0 DEF CompleteSegment
<1>5. UNCHANGED <<taken, sweepCounter, sweepDue, lastEpoch, epoch, bumpPending, seenOrder>>
      /\ maxEnqueued' = maxEnqueued
  BY DEF CompleteSegment, pollVars
<1>6. (lastEpoch = Run) => maxEnqueued \in Nat /\ maxEnqueued <= written
  BY WindowAssumption DEF DirectoryAt, PollInv, CounterInv, Seqs
<1>7. (lastEpoch = Run)' <=> lastEpoch = Run
  BY <1>5 DEF Run
<1>8. Scans' = Scans
  BY <1>5 DEF Scans
<1>9. written' - t <= MaxBacklog /\ t <= written'
  BY <1>0, <1>3, <1>4
<1>10. (lastEpoch = Run)' => maxEnqueued' <= written'
  BY <1>0, <1>4, <1>5, <1>6, <1>7
<1>11. disk' # {}
  BY <1>0, <1>4
<1> QED
  BY <1>0, <1>4, <1>5, <1>7, <1>8, <1>9, <1>10, <1>11 DEF DirectoryAt, NamesInOrder

\* A sweep moves the lower end up, at most to what it keeps.
LEMMA SweepDirectory ==
  ASSUME DedupCovers, PollInv, Sweep, NEW lo \in Nat, NEW t \in Nat, DirectoryAt(lo, t)
  PROVE  \E low \in Nat : DirectoryAt(low, t)'
<1>0. /\ written \in Nat /\ MaxBacklog \in Nat /\ SweepKeep \in Nat /\ t <= written
      /\ MaxBacklog < SweepKeep /\ sweepCounter \in Nat
  BY WindowAssumption DEF PollInv, WindowInv, CounterInv, Seqs, DirectoryAt, DedupCovers
<1>1. /\ UNCHANGED <<taken, written, alive, lastEpoch, epoch, bumpPending, seenOrder>>
      /\ maxEnqueued' = maxEnqueued /\ disk' = KeptBySweep
      /\ sweepCounter' = sweepCounter /\ sweepDue' = FALSE
  BY DEF Sweep, ffmpegVars, pollVars
<1>2. (lastEpoch = Run)' <=> lastEpoch = Run
  BY <1>1 DEF Run
<1>3. Scans' = sweepCounter
  BY <1>1 DEF Scans
<1>4. CASE disk = {}
  <2>1. disk' = {}
    BY <1>1, <1>4 DEF KeptBySweep
  <2>2. DirectoryAt(lo, t)'
    BY <1>1, <1>2, <1>4, <2>1 DEF DirectoryAt, NamesInOrder
  <2> QED BY <2>2
<1>5. CASE disk # {}
  <2>1. disk = lo .. written /\ lo <= t /\ written - t <= MaxBacklog
    BY <1>5 DEF DirectoryAt
  <2>2. KeptBySweep = {s \in disk : written - s < SweepKeep}
    BY <2>1, SweptInterval DEF PollInv
  <2>3. PICK low \in Nat :
           /\ low <= t /\ written - low <= SweepKeep - 1
           /\ low = IF lo + SweepKeep <= written THEN written - SweepKeep + 1 ELSE lo
    <3> DEFINE new == IF lo + SweepKeep <= written THEN written - SweepKeep + 1 ELSE lo
    <3>1. new \in Nat /\ new <= t /\ written - new <= SweepKeep - 1
      BY <1>0, <2>1
    <3> QED BY <3>1
  <2>4. disk' = low .. written
    <3>1. \A s : s \in KeptBySweep <=> s \in low .. written
      BY <1>0, <2>1, <2>2, <2>3
    <3> QED BY <1>1, <3>1
  <2>5. t - low <= SweepKeep - 1 + sweepCounter * MaxBacklog
    BY <1>0, <2>3, MoreScans
  <2>6. DirectoryAt(low, t)'
    BY <1>0, <1>1, <1>2, <1>3, <1>5, <2>1, <2>3, <2>4, <2>5 DEF DirectoryAt, NamesInOrder
  <2> QED BY <2>3, <2>6
<1> QED BY <1>4, <1>5
\* While its bounds hold, the numbers on disk do not look like a reset.
LEMMA NoFalseReset ==
  ASSUME PollInv, NEW lo \in Nat, NEW t \in Nat, DirectoryAt(lo, t), lastEpoch = Run
  PROVE  Known = seenOrder /\ ~CounterReset
<1> SUFFICES ASSUME CounterReset PROVE FALSE
  BY DEF Known
<1>1. disk # {} /\ Max(disk) + ResetGap < maxEnqueued
  BY DEF CounterReset
<1>2. /\ disk = lo .. written /\ lo <= written /\ written \in Nat /\ maxEnqueued \in Nat
      /\ maxEnqueued <= written /\ ResetGap \in Nat
  BY <1>1, WindowAssumption DEF DirectoryAt, PollInv, WindowInv, CounterInv, Seqs
<1>3. written \in disk /\ \A s \in disk : written >= s
  BY <1>2
<1>4. Max(disk) \in disk /\ \A s \in disk : Max(disk) >= s
  BY <1>3 DEF Max
<1> QED BY <1>1, <1>2, <1>3, <1>4

\* The segments a scan takes are the next ones, at most MaxBacklog.
LEMMA NextSegments ==
  ASSUME DedupCovers, PollInv, ScanDirectory, NEW lo \in Nat, NEW t \in Nat,
         DirectoryAt(lo, t)
  PROVE  /\ NewSegments \intersect taken = {}
         /\ NewSegments = {} \/ /\ lastEpoch = Run /\ disk # {}
                                /\ NewSegments = t .. written - 1
<1>0. pc = "scan" /\ written \in Nat
  BY WindowAssumption DEF ScanDirectory, PollInv, WindowInv, Seqs
<1>1. CASE NewSegments = {}
  BY <1>1
<1>2. CASE NewSegments # {}
  <2>1. lastEpoch = Run /\ NewSegments = Closed \ ToSet(Known)
    BY <1>0, <1>2, WhatAScanTakes
  <2>2. Known = seenOrder
    BY <2>1, NoFalseReset
  <2>3. \A s \in disk \intersect taken : s \in ToSet(seenOrder)
    BY <2>1, ForgottenAreGone
  <2>4. ToSet(seenOrder) \subseteq taken
    BY <2>1 DEF PollInv, SeenInv
  <2>5. NewSegments = Closed \ taken
    BY <2>1, <2>2, <2>3, <2>4 DEF Closed
  <2>6. disk # {} /\ disk = lo .. written /\ lo <= t /\ taken = 0 .. t - 1
    BY <1>2, <2>1 DEF Closed, DirectoryAt
  <2>7. \A s : s \in NewSegments <=> s \in t .. written - 1
    BY <1>0, <2>5, <2>6 DEF Closed
  <2>8. NewSegments = t .. written - 1
    BY <2>7
  <2> QED BY <2>1, <2>5, <2>6, <2>8
<1> QED BY <1>1, <1>2

\* Another scan since the last sweep.
LEMMA ScanCounted ==
  ASSUME PollInv, ScanDirectory
  PROVE  Scans \in Nat /\ Scans' = Scans + 1
<1>1. /\ SweepEvery \in Nat \ {0} /\ sweepCounter \in 0 .. SweepEvery - 1
      /\ sweepDue \in BOOLEAN
  BY WindowAssumption DEF PollInv, CounterInv
<1>2. CASE sweepCounter + 1 >= SweepEvery
  <2>1. sweepCounter' = 0 /\ ~sweepDue /\ sweepDue'
    BY <1>2 DEF ScanDirectory
  <2>2. sweepCounter = SweepEvery - 1
    BY <1>1, <1>2
  <2> QED BY <1>1, <2>1, <2>2 DEF Scans
<1>3. CASE ~(sweepCounter + 1 >= SweepEvery)
  <2>1. sweepCounter' = sweepCounter + 1 /\ sweepDue' = sweepDue
    BY <1>1, <1>3 DEF ScanDirectory
  <2> QED BY <1>1, <2>1 DEF Scans
<1> QED BY <1>2, <1>3

\* The dedup set after a scan that has noticed the last restart: in order, and
\* whatever it has forgotten is old.
LEMMA SeenAfterScan ==
  ASSUME DedupCovers, PollInv, ScanDirectory, NEW lo \in Nat, NEW t \in Nat,
         DirectoryAt(lo, t), lastEpoch = Run,
         NEW u \in Nat, t <= u, u <= t + MaxBacklog, NewSegments = t .. u - 1
  PROVE  /\ NamesInOrder'
         /\ \A s \in 0 .. u - 1 :
              s \in ToSet(seenOrder') \/ s + SeenCap <= u + MaxBacklog - 2
<1>1. PICK order \in Seq(Seqs) :
        /\ ToSet(order) = NewSegments
        /\ seenOrder' = Pruned(Known \o order)
        /\ Known \o order \in Seq(Seqs) /\ IsInjective(Known \o order)
        /\ ToSet(Known \o order) = ToSet(Known) \union NewSegments
  BY AfterAScan
<1> DEFINE all == seenOrder \o order
<1>2. Known = seenOrder
  BY NoFalseReset
<1>3. /\ seenOrder \in Seq(Seqs) /\ MaxBacklog \in Nat \ {0} /\ SeenCap \in Nat
      /\ \A s \in Seqs : s \in Nat
      /\ ToSet(seenOrder) \subseteq taken /\ taken = 0 .. t - 1
      /\ NamesInOrder
      /\ \A s \in 0 .. t - 1 : s \in ToSet(seenOrder) \/ s + SeenCap <= t + MaxBacklog - 2
  BY WindowAssumption DEF PollInv, SeenInv, DirectoryAt, Seqs
<1>4. /\ Len(all) = Len(seenOrder) + Len(order)
      /\ Len(seenOrder) \in Nat /\ Len(order) \in Nat
      /\ \A i \in 1 .. Len(seenOrder) : all[i] = seenOrder[i]
      /\ \A i \in 1 .. Len(all) :
           i \notin 1 .. Len(seenOrder) =>
             i - Len(seenOrder) \in 1 .. Len(order) /\ all[i] = order[i - Len(seenOrder)]
  BY <1>1, <1>3
<1>5. \A i \in 1 .. Len(seenOrder) : seenOrder[i] \in Nat /\ seenOrder[i] < t
  <2>1. \A i \in 1 .. Len(seenOrder) : seenOrder[i] \in ToSet(seenOrder)
    BY <1>3, NamesOf
  <2> QED BY <1>3, <2>1
<1>6. \A i \in 1 .. Len(order) : order[i] \in t .. u - 1
  <2>1. \A i \in 1 .. Len(order) : order[i] \in ToSet(order)
    BY NamesOf
  <2> QED BY <1>1, <2>1
<1>7. /\ all \in Seq(Seqs) /\ IsInjective(all) /\ seenOrder' = Pruned(all)
      /\ ToSet(all) = ToSet(seenOrder) \union NewSegments
  BY <1>1, <1>2
<1> HIDE DEF all
<1>8. \A j, k \in 1 .. Len(all) : j < k => all[j] < all[k] + MaxBacklog
  <2> SUFFICES ASSUME NEW j \in 1 .. Len(all), NEW k \in 1 .. Len(all), j < k
               PROVE  all[j] < all[k] + MaxBacklog
    OBVIOUS
  <2>1. CASE k \in 1 .. Len(seenOrder)
    <3>1. j \in 1 .. Len(seenOrder)
      BY <1>4, <2>1
    <3> QED BY <1>3, <1>4, <2>1, <3>1 DEF NamesInOrder
  <2>2. CASE k \notin 1 .. Len(seenOrder)
    <3>1. all[k] \in t .. u - 1
      BY <1>4, <1>6, <2>2
    <3>2. all[j] \in Nat /\ all[j] < u
      <4>1. CASE j \in 1 .. Len(seenOrder)
        BY <1>4, <1>5, <4>1
      <4>2. CASE j \notin 1 .. Len(seenOrder)
        <5>1. all[j] \in t .. u - 1
          BY <1>4, <1>6, <4>2
        <5> QED BY <5>1
      <4> QED BY <4>1, <4>2
    <3> QED BY <1>3, <3>1, <3>2
  <2> QED BY <2>1, <2>2
<1>9. \A s \in ToSet(all) : s \in Nat /\ s < u
  BY <1>3, <1>7
<1>10. \A s \in ToSet(all) :
         s \in ToSet(Pruned(all)) \/ s + SeenCap <= u + MaxBacklog - 2
  BY <1>7, <1>8, <1>9, DroppedIsOld
<1>11. ASSUME NEW s \in 0 .. u - 1
       PROVE  s \in ToSet(seenOrder') \/ s + SeenCap <= u + MaxBacklog - 2
  <2>1. CASE s \in ToSet(all)
    BY <1>7, <1>10, <2>1
  <2>2. CASE s \notin ToSet(all)
    <3>1. s \in 0 .. t - 1 /\ s \notin ToSet(seenOrder)
      BY <1>7, <2>2
    <3>2. s + SeenCap <= t + MaxBacklog - 2
      BY <1>3, <3>1
    <3> QED BY <1>3, <3>1, <3>2
  <2> QED BY <2>1, <2>2
<1>12. NamesInOrder'
  <2>1. PICK drop \in 0 .. Len(all) :
           /\ Len(seenOrder') = Len(all) - drop
           /\ \A i \in 1 .. Len(all) - drop : seenOrder'[i] = all[drop + i]
    BY <1>7, PrunedIsTail
  <2> SUFFICES ASSUME NEW j \in 1 .. Len(seenOrder'), NEW k \in 1 .. Len(seenOrder'), j < k
               PROVE  seenOrder'[j] < seenOrder'[k] + MaxBacklog
    BY DEF NamesInOrder
  <2>2. drop + j \in 1 .. Len(all) /\ drop + k \in 1 .. Len(all) /\ drop + j < drop + k
    BY <1>4, <2>1
  <2>3. seenOrder'[j] = all[drop + j] /\ seenOrder'[k] = all[drop + k]
    BY <2>1
  <2> QED BY <1>8, <2>2, <2>3
<1> QED BY <1>11, <1>12

\* A scan takes the next segments and leaves the directory as it is.
LEMMA ScanDirectoryStep ==
  ASSUME DedupCovers, PollInv, ScanDirectory, NEW lo \in Nat, NEW t \in Nat,
         DirectoryAt(lo, t)
  PROVE  \E u \in Nat : DirectoryAt(lo, u)'
<1>0. /\ written \in Nat /\ MaxBacklog \in Nat /\ maxEnqueued \in Nat
      /\ UNCHANGED <<disk, written, alive, lastEpoch, epoch, bumpPending>>
      /\ taken' = taken \union NewSegments
  BY WindowAssumption DEF PollInv, WindowInv, CounterInv, Seqs, ScanDirectory, ffmpegVars
<1>1. (lastEpoch = Run)' <=> lastEpoch = Run
  BY <1>0 DEF Run
<1>2. PICK u \in Nat :
        /\ t <= u /\ u <= written /\ NewSegments = t .. u - 1
        /\ disk # {} => u <= t + MaxBacklog
        /\ u <= t + MaxBacklog
  <2>1. CASE NewSegments = {}
    <3>1. t .. t - 1 = {} /\ t <= written
      BY DEF DirectoryAt
    <3> QED BY <1>0, <2>1, <3>1
  <2>2. CASE NewSegments # {}
    <3>1. disk # {} /\ NewSegments = t .. written - 1
      BY <2>2, NextSegments
    <3>2. t <= written /\ written - t <= MaxBacklog
      BY <3>1 DEF DirectoryAt
    <3> QED BY <1>0, <3>1, <3>2
  <2> QED BY <2>1, <2>2
<1>3. taken' = 0 .. u - 1
  <2>1. \A s : s \in taken' <=> s \in 0 .. u - 1
    BY <1>0, <1>2 DEF DirectoryAt
  <2> QED BY <2>1
<1>4. ASSUME disk' # {}
      PROVE  /\ disk' = lo .. written' /\ lo <= u /\ written' - u <= MaxBacklog
             /\ u - lo <= SweepKeep - 1 + Scans' * MaxBacklog
  <2>1. /\ disk = lo .. written /\ lo <= t /\ written - t <= MaxBacklog
        /\ t - lo <= SweepKeep - 1 + Scans * MaxBacklog
    BY <1>0, <1>4 DEF DirectoryAt
  <2>2. Scans' * MaxBacklog = Scans * MaxBacklog + MaxBacklog /\ Scans * MaxBacklog \in Nat
    BY ScanCounted, MoreScans
  <2> DEFINE p == Scans * MaxBacklog
  <2>3. u - lo <= SweepKeep - 1 + (p + MaxBacklog)
    <3>1. t - lo <= SweepKeep - 1 + p /\ p \in Nat /\ SweepKeep \in Nat
      BY <2>1, <2>2, WindowAssumption
    <3> HIDE DEF p
    <3> QED BY <1>0, <1>2, <3>1
  <2> QED BY <1>0, <1>2, <2>1, <2>2, <2>3
<1>5. ASSUME lastEpoch = Run
      PROVE  /\ NamesInOrder' /\ maxEnqueued' <= written
             /\ \A s \in 0 .. u - 1 :
                  s \in ToSet(seenOrder') \/ s + SeenCap <= u + MaxBacklog - 2
  <2>1. maxEnqueued <= written /\ ~CounterReset
    BY <1>5, NoFalseReset DEF DirectoryAt
  <2> DEFINE seqs == NewSegments \union {maxEnqueued}
  <2>2. maxEnqueued' = Max(seqs)
    BY <2>1 DEF ScanDirectory
  <2>3. seqs \in SUBSET Seqs /\ seqs # {} /\ \A s \in seqs : s <= written
    <3>1. NewSegments \in SUBSET Seqs /\ maxEnqueued \in Seqs
      BY DEF NewSegments, PollInv, WindowInv, CounterInv
    <3> QED BY <1>0, <1>2, <2>1, <3>1
  <2>4. Max(seqs) \in seqs
    <3> HIDE DEF seqs
    <3> QED BY <2>3, HighestSegment
  <2> QED BY <1>2, <1>5, <2>2, <2>3, <2>4, SeenAfterScan
<1>6. alive' => disk' # {}
  BY <1>0 DEF DirectoryAt
<1> QED BY <1>0, <1>1, <1>2, <1>3, <1>4, <1>5, <1>6 DEF DirectoryAt
\* The bounds of the directory hold from one state to the next.
LEMMA DirectoryStep ==
  ASSUME DedupCovers, PollInv, DirectoryInv, [Next]_vars
  PROVE  DirectoryInv'
<1>0. PICK lo \in Nat, t \in Nat : DirectoryAt(lo, t)
  BY DEF DirectoryInv
<1>1. CASE CompleteSegment
  BY <1>0, <1>1, CompleteSegmentDirectory DEF DirectoryInv, CompleteSegment
<1>2. CASE FfmpegDies
  <2>1. DirectoryAt(lo, t)'
    BY <1>0, <1>2, SameDirectory DEF FfmpegDies, pollVars, Scans, Run
  <2> QED BY <1>2, <2>1 DEF DirectoryInv, FfmpegDies
<1>3. CASE Restart
  <2>1. /\ taken' = {} /\ disk' = {0} /\ written' = 0
        /\ UNCHANGED <<epoch, sweepCounter, sweepDue, lastEpoch, duplicate>>
        /\ bumpPending' = TRUE
    BY <1>3 DEF Restart, pollVars
  <2>2. (lastEpoch # Run)'
    BY <2>1, WindowAssumption DEF PollInv, EpochInv, WindowInv, Run
  <2>3. Scans' * MaxBacklog \in Nat
    BY <2>1, WindowAssumption DEF PollInv, CounterInv, Scans
  <2>4. 0 .. 0 - 1 = {} /\ 0 .. 0 = {0}
    OBVIOUS
  <2>5. DirectoryAt(0, 0)'
    BY <2>1, <2>2, <2>3, <2>4, WindowAssumption DEF DirectoryAt
  <2> QED BY <2>1, <2>5 DEF DirectoryInv
<1>4. CASE FailedStart
  <2>1. disk' = {} /\ ~alive
    BY <1>4 DEF FailedStart, DedupCovers
  <2>2. DirectoryAt(lo, t)'
    BY <1>0, <1>4, <2>1, SameDirectory
    DEF FailedStart, ffmpegVars, pollVars, Scans, Run
  <2> QED BY <1>4, <2>2 DEF DirectoryInv, FailedStart
<1>5. CASE BumpEpoch
  <2>1. (lastEpoch = Run)' => lastEpoch = Run
    BY <1>5 DEF BumpEpoch, pollVars, Run
  <2>2. DirectoryAt(lo, t)'
    BY <1>0, <1>5, <2>1, SameDirectory DEF BumpEpoch, pollVars, Scans
  <2> QED BY <1>5, <2>2 DEF DirectoryInv, BumpEpoch
<1>6. CASE CheckEpoch
  <2>1. CASE epoch = lastEpoch
    <3>1. DirectoryAt(lo, t)'
      BY <1>0, <1>6, <2>1, SameDirectory DEF CheckEpoch, ffmpegVars, Scans, Run
    <3> QED BY <1>6, <3>1 DEF DirectoryInv, CheckEpoch
  <2>2. CASE epoch # lastEpoch
    <3>1. /\ seenOrder' = << >> /\ maxEnqueued' = 0
          /\ UNCHANGED <<disk, taken, written, alive, sweepCounter, sweepDue, duplicate>>
      BY <1>6, <2>2 DEF CheckEpoch, ffmpegVars
    <3>2. lastEpoch # Run
      BY <2>2, WindowAssumption DEF PollInv, EpochInv, WindowInv, Run
    <3>3. taken = {} /\ t = 0
      <4>1. taken = {} /\ taken = 0 .. t - 1
        BY <1>0, <3>2 DEF PollInv, EpochInv, DirectoryAt
      <4>2. t # 0 => 0 \in 0 .. t - 1
        OBVIOUS
      <4> QED BY <4>1, <4>2
    <3>4. NamesInOrder' /\ maxEnqueued' <= written' /\ 0 .. t - 1 = {}
      BY <3>1, <3>3, WindowAssumption DEF NamesInOrder, PollInv, WindowInv, Seqs
    <3>5. Scans' = Scans
      BY <3>1 DEF Scans
    <3>6. DirectoryAt(lo, t)'
      BY <1>0, <3>1, <3>4, <3>5 DEF DirectoryAt
    <3> QED BY <3>1, <3>6 DEF DirectoryInv
  <2> QED BY <2>1, <2>2
<1>7. CASE ScanDirectory
  <2>1. NewSegments \intersect taken = {}
    BY <1>0, <1>7, NextSegments
  <2>2. ~duplicate'
    BY <1>7, <2>1 DEF ScanDirectory, DirectoryInv
  <2>3. \E u \in Nat : DirectoryAt(lo, u)'
    BY <1>0, <1>7, ScanDirectoryStep
  <2> QED BY <2>2, <2>3 DEF DirectoryInv
<1>8. CASE Sweep
  <2>1. \E low \in Nat : DirectoryAt(low, t)'
    BY <1>0, <1>8, SweepDirectory
  <2> QED BY <1>8, <2>1 DEF DirectoryInv, Sweep
<1>9. CASE UNCHANGED vars
  <2>1. DirectoryAt(lo, t)'
    BY <1>0, <1>9, SameDirectory DEF vars, ffmpegVars, pollVars, Scans, Run
  <2> QED BY <1>9, <2>1 DEF DirectoryInv, vars
<1> QED
  BY <1>1, <1>2, <1>3, <1>4, <1>5, <1>6, <1>7, <1>8, <1>9 DEF Next

\* With a dedup set that covers what one sweep leaves and what arrives until the
\* next one is over, and a cleanup that does not abort, no segment is handed to
\* an upload task twice: through any number of restarts, failed starts, sweeps
\* and prunes.
THEOREM NoDuplicateHolds == DedupCovers => (Spec => []NoDuplicate)
<1> SUFFICES ASSUME DedupCovers PROVE Spec => []NoDuplicate
  OBVIOUS
<1>1. Init => DirectoryInv
  <2> SUFFICES ASSUME Init PROVE DirectoryInv
    OBVIOUS
  <2>1. 0 .. 0 - 1 = {}
    OBVIOUS
  <2>2. NamesInOrder
    BY DEF Init, NamesInOrder
  <2>3. DirectoryAt(0, 0) /\ ~duplicate
    BY <2>1, <2>2 DEF Init, DirectoryAt
  <2> QED BY <2>3 DEF DirectoryInv
<1>2. PollInv /\ DirectoryInv /\ [Next]_vars => DirectoryInv'
  BY DirectoryStep
<1>3. DirectoryInv => NoDuplicate
  BY DEF DirectoryInv, NoDuplicate
<1> QED BY <1>1, <1>2, <1>3, PollInvHolds, PTL DEF Spec
-----------------------------------------------------------------------------
(* The invariant of the upload tasks, in parts.                            *)

Task == [at : Labels, tries : 0 .. MaxRetries]

TasksInv ==
  /\ Live \subseteq TaskIds
  /\ tasks \in [Live -> Task]

\* The queue holds the queued tasks, each once.
QueueInv ==
  /\ queue \in Seq(TaskIds)
  /\ \A k \in 1 .. Len(queue) : At(queue[k], "queued")
  /\ \A j, k \in 1 .. Len(queue) : queue[j] = queue[k] => j = k

\* The tasks that are past the semaphore; each holds one permit.
Holders == {id \in Live : tasks[id].at \notin {"new", "queued"}}

PermitsInv ==
  /\ permits \in 0 .. Permits
  /\ IsFiniteSet(Holders)
  /\ Cardinality(Holders) + permits = Permits

\* The task that claimed the codec detection, if any, has not reported yet,
\* and nobody claims it again.
CodecInv ==
  /\ codecDetected \in BOOLEAN
  /\ codecReports \in 0 .. 1
  /\ \A id \in Live : At(id, "codec") => codecDetected /\ codecReports = 0
  /\ \A i, j \in Live : At(i, "codec") /\ At(j, "codec") => i = j
  /\ ~codecDetected => codecReports = 0

RestInv == mode \in {"local", "connected"} /\ misread \in BOOLEAN

USE DEF Labels

-----------------------------------------------------------------------------
(* The poll loop and the disk.                                             *)

\* The run whose files are on disk is one of the bounded number of runs.
LEMMA RunInRange == WindowInv => Run \in 0 .. MaxEpoch
  BY WindowAssumption DEF WindowInv, Run

\* The tasks a scan spawns have ids of the right type.
LEMMA NewInRange ==
  ASSUME PollInv, pc = "scan", NEW number \in 1 .. MaxTasks
  PROVE  NewTasks(number) \in SUBSET TaskIds
<1>0. WindowInv /\ written \in Nat /\ MaxSeq \in Nat /\ written <= MaxSeq
  BY WindowAssumption DEF PollInv, WindowInv, Seqs
<1>1. ASSUME NEW s \in NewSegments
      PROVE  Run \in 1 .. MaxEpoch /\ s \in 0 .. MaxSeq - 1
  <2>1. s \in Closed
    BY WhatAScanTakes
  <2>2. s \in disk /\ s \in Nat /\ s < written
    BY <1>0, <2>1, WindowAssumption DEF Closed, WindowInv, Seqs
  <2>3. Run \in 0 .. MaxEpoch /\ Run # 0
    BY <1>0, <2>2, RunInRange DEF WindowInv
  <2> QED BY <1>0, <2>2, <2>3, WindowAssumption
<1> QED BY <1>1 DEF NewTasks, TaskIds

\* A step of SegmentUpload is a step of SegmentWindow, or leaves it alone.
LEMMA StepOfWindow ==
  ASSUME [UploadNext]_allVars
  PROVE  [Next]_vars
<1>1. CASE Scan
  BY <1>1 DEF Scan, Next
<1>2. CASE Beside
  BY <1>2 DEF Beside, Next
<1>3. CASE \E id \in Live : TaskStep(id)
  BY <1>3 DEF TaskStep, Enqueue, AcquirePermit, ReadForPush, Push, ClaimCodec,
              ReportCodec, ReadForArchive, SaveRow
<1>4. CASE UNCHANGED allVars
  BY <1>4 DEF allVars
<1> QED
  BY <1>1, <1>2, <1>3, <1>4 DEF UploadNext
-----------------------------------------------------------------------------
(* What the steps do to the tasks and to the holders of permits.           *)

\* A task that moves on stays a task, and the others stay as they are.
LEMMA GotoTask ==
  ASSUME TasksInv, NEW id \in Live, NEW label \in Labels, Goto(id, label)
  PROVE  /\ TasksInv'
         /\ Live' = Live
         /\ tasks'[id].at = label
         /\ \A i \in Live \ {id} : tasks'[i] = tasks[i]
  BY DEF TasksInv, Goto, Live, Task

\* A task that ends is gone, and the others stay as they are.
LEMMA EndTask ==
  ASSUME TasksInv, NEW id \in Live, End(id)
  PROVE  /\ TasksInv'
         /\ Live' = Live \ {id}
         /\ \A i \in Live' : tasks'[i] = tasks[i]
<1>1. tasks' = [i \in Live \ {id} |-> tasks[i]]
  BY DEF End, Restrict, Live
<1> QED
  BY <1>1 DEF TasksInv, Live

\* The tasks a scan spawns are tasks, and the others stay as they are.
LEMMA SpawnTasks ==
  ASSUME TasksInv, NEW ids \in SUBSET TaskIds,
         tasks' = [id \in Live \union ids |->
                     IF id \in Live THEN tasks[id] ELSE [at |-> "new", tries |-> 0]]
  PROVE  /\ TasksInv'
         /\ Live' = Live \union ids
         /\ \A i \in Live : tasks'[i] = tasks[i]
         /\ \A i \in ids \ Live : tasks'[i].at = "new"
<1>1. [at |-> "new", tries |-> 0] \in Task
  BY UploadAssumption DEF Task
<1> QED
  BY <1>1 DEF TasksInv, Live

\* Nobody took or gave back a permit.
LEMMA SameHolders ==
  ASSUME PermitsInv, Holders' = Holders, permits' = permits
  PROVE  PermitsInv'
  BY DEF PermitsInv

\* A permit taken by a task is one more holder and one permit less.
LEMMA OneMoreHolder ==
  ASSUME PermitsInv, NEW id, id \notin Holders,
         Holders' = Holders \union {id}, permits > 0, permits' = permits - 1
  PROVE  PermitsInv'
<1>0. IsFiniteSet(Holders)
  BY DEF PermitsInv
<1>1. /\ IsFiniteSet(Holders \union {id})
      /\ Cardinality(Holders \union {id}) = Cardinality(Holders) + 1
  BY <1>0, FS_AddElement
<1>2. Cardinality(Holders) \in Nat
  BY <1>0, FS_CardinalityType
<1> QED
  BY <1>1, <1>2, UploadAssumption DEF PermitsInv

\* A permit returned by a task is one holder less and one permit more.
LEMMA OneFewerHolder ==
  ASSUME PermitsInv, NEW id \in Holders,
         Holders' = Holders \ {id}, permits' = permits + 1
  PROVE  PermitsInv'
<1>0. IsFiniteSet(Holders)
  BY DEF PermitsInv
<1>1. /\ IsFiniteSet(Holders \ {id})
      /\ Cardinality(Holders \ {id}) = Cardinality(Holders) - 1
  BY <1>0, FS_RemoveElement
<1>2. Cardinality(Holders) \in Nat /\ Cardinality(Holders \ {id}) \in Nat
  BY <1>0, <1>1, FS_CardinalityType
<1> QED
  BY <1>1, <1>2, UploadAssumption DEF PermitsInv
-----------------------------------------------------------------------------
(* The induction step, one lemma per conjunct that most steps leave alone   *)
(* and one per action.                                                     *)

\* The queue stays sound as long as the queued tasks stay where they are.
LEMMA SameQueue ==
  ASSUME QueueInv, queue' = queue,
         \A i \in TaskIds : At(i, "queued") => At(i, "queued")'
  PROVE  QueueInv'
<1>1. \A k \in 1 .. Len(queue) : queue[k] \in TaskIds
  BY DEF QueueInv
<1> QED
  BY <1>1 DEF QueueInv

\* No step but the claim and the report concerns the codec.
LEMMA SameCodec ==
  ASSUME CodecInv, codecDetected' = codecDetected, codecReports' = codecReports,
         \A i : At(i, "codec")' => At(i, "codec")
  PROVE  CodecInv'
<1>1. \A i : At(i, "codec") => i \in Live
  BY DEF At
<1> QED
  BY <1>1 DEF CodecInv

\* What a task is doing after one of them moved on.
LEMMA AfterGoto ==
  ASSUME TasksInv, NEW id \in Live, NEW label \in Labels, Goto(id, label)
  PROVE  /\ \A i, l : i # id => (At(i, l)' <=> At(i, l))
         /\ \A l : At(id, l)' <=> label = l
         /\ Holders' = IF label \in {"new", "queued"} THEN Holders \ {id}
                       ELSE Holders \union {id}
<1>1. /\ Live' = Live
      /\ tasks'[id].at = label
      /\ \A i \in Live \ {id} : tasks'[i] = tasks[i]
  BY GotoTask
<1>2. \A i, l : i # id => (At(i, l)' <=> At(i, l))
  BY <1>1 DEF At
<1>3. \A l : At(id, l)' <=> label = l
  BY <1>1 DEF At
<1>4. Holders' = {i \in Live : tasks'[i].at \notin {"new", "queued"}}
  BY <1>1 DEF Holders
<1>5. Holders' = IF label \in {"new", "queued"} THEN Holders \ {id}
                 ELSE Holders \union {id}
  BY <1>1, <1>4 DEF Holders
<1> QED
  BY <1>2, <1>3, <1>5

\* What the end of a task that is not queued leaves of the invariant.
LEMMA AfterEnd ==
  ASSUME TasksInv, NEW id \in Live, End(id)
  PROVE  /\ \A i, l : i # id => (At(i, l)' <=> At(i, l))
         /\ \A l : ~At(id, l)'
         /\ Holders' = Holders \ {id}
<1>1. Live' = Live \ {id} /\ \A i \in Live' : tasks'[i] = tasks[i]
  BY EndTask
<1>2. \A i, l : i # id => (At(i, l)' <=> At(i, l))
  BY <1>1 DEF At
<1>3. \A l : ~At(id, l)'
  BY <1>1 DEF At
<1>4. Holders' = {i \in Live \ {id} : tasks'[i].at \notin {"new", "queued"}}
  BY <1>1 DEF Holders
<1>5. Holders' = Holders \ {id}
  BY <1>1, <1>4 DEF Holders
<1> QED
  BY <1>2, <1>3, <1>5

BookInv == TasksInv /\ QueueInv /\ PermitsInv /\ CodecInv

\* A task that holds a permit moves on and keeps it, or returns.
LEMMA HolderMoves ==
  ASSUME BookInv, NEW id \in Holders, NEW label \in Labels,
         label \notin {"new", "queued", "codec"},
         \/ Goto(id, label) /\ permits' = permits
         \/ Return(id),
         queue' = queue, codecDetected' = codecDetected,
         codecReports' = codecReports
  PROVE  BookInv'
<1>0. id \in Live /\ ~At(id, "queued")
  BY DEF Holders, At
<1>1. CASE Goto(id, label) /\ permits' = permits
  <2>1. /\ \A i, l : i # id => (At(i, l)' <=> At(i, l))
        /\ \A l : At(id, l)' <=> label = l
        /\ Holders' = Holders
    BY <1>0, <1>1, AfterGoto DEF BookInv
  <2>2. TasksInv'
    BY <1>0, <1>1, GotoTask DEF BookInv
  <2>3. QueueInv'
    BY <1>0, <2>1, SameQueue DEF BookInv
  <2>4. PermitsInv'
    BY <1>1, <2>1, SameHolders DEF BookInv
  <2>5. CodecInv'
    BY <2>1, SameCodec DEF BookInv
  <2> QED BY <2>2, <2>3, <2>4, <2>5 DEF BookInv
<1>2. CASE Return(id)
  <2>1. /\ \A i, l : i # id => (At(i, l)' <=> At(i, l))
        /\ \A l : ~At(id, l)'
        /\ Holders' = Holders \ {id}
    BY <1>0, <1>2, AfterEnd DEF BookInv, Return
  <2>2. TasksInv'
    BY <1>0, <1>2, EndTask DEF BookInv, Return
  <2>3. QueueInv'
    BY <1>0, <2>1, SameQueue DEF BookInv
  <2>4. PermitsInv'
    BY <1>2, <2>1, OneFewerHolder DEF BookInv, Return
  <2>5. CodecInv'
    BY <2>1, SameCodec DEF BookInv
  <2> QED BY <2>2, <2>3, <2>4, <2>5 DEF BookInv
<1> QED BY <1>1, <1>2

\* The invariant is preserved by a scan: new tasks hold no permit.
LEMMA ScanStep ==
  ASSUME PollInv, BookInv, Scan
  PROVE  BookInv'
<1>0. PICK number \in 1 .. MaxTasks :
        tasks' = [id \in Live \union NewTasks(number) |->
                    IF id \in Live THEN tasks[id] ELSE [at |-> "new", tries |-> 0]]
  BY DEF Scan
<1> DEFINE ids == NewTasks(number)
<1>1. ids \in SUBSET TaskIds
  BY NewInRange DEF Scan, ScanDirectory
<1>2. tasks' = [id \in Live \union ids |->
                  IF id \in Live THEN tasks[id] ELSE [at |-> "new", tries |-> 0]]
  BY <1>0
<1>3. UNCHANGED <<queue, permits, codecDetected, codecReports>>
  BY DEF Scan
<1> HIDE DEF ids
<1>4. /\ TasksInv'
      /\ Live' = Live \union ids
      /\ \A i \in Live : tasks'[i] = tasks[i]
      /\ \A i \in ids \ Live : tasks'[i].at = "new"
  BY <1>1, <1>2, SpawnTasks DEF BookInv
<1>5. \A i : /\ At(i, "queued")' <=> At(i, "queued")
             /\ At(i, "codec")' <=> At(i, "codec")
  BY <1>4 DEF At
<1>6. Holders' = {i \in Live \union ids : tasks'[i].at \notin {"new", "queued"}}
  BY <1>4 DEF Holders
<1>7. Holders' = Holders
  BY <1>4, <1>6 DEF Holders
<1> QED
  BY <1>3, <1>4, <1>5, <1>7, SameQueue, SameCodec, SameHolders DEF BookInv

\* The invariant is preserved by Enqueue: a task joins the queue at most once.
LEMMA EnqueueStep ==
  ASSUME BookInv, NEW id \in Live, Enqueue(id)
  PROVE  BookInv'
<1>1. /\ id \notin Holders /\ id \in TaskIds
      /\ ~At(id, "queued") /\ ~At(id, "codec")
  BY DEF Enqueue, At, Holders, BookInv, TasksInv
<1>2. CASE End(id) /\ UNCHANGED queue
  <2>1. /\ \A i, l : i # id => (At(i, l)' <=> At(i, l))
        /\ \A l : ~At(id, l)'
        /\ Holders' = Holders
    BY <1>1, <1>2, AfterEnd DEF BookInv
  <2>2. TasksInv'
    BY <1>2, EndTask DEF BookInv
  <2> QED
    BY <1>1, <1>2, <2>1, <2>2, SameQueue, SameCodec, SameHolders
    DEF BookInv, Enqueue
<1>3. CASE Goto(id, "queued") /\ queue' = Append(queue, id)
  <2>1. /\ \A i, l : i # id => (At(i, l)' <=> At(i, l))
        /\ \A l : At(id, l)' <=> "queued" = l
        /\ Holders' = Holders
    BY <1>1, <1>3, AfterGoto DEF BookInv
  <2>2. TasksInv'
    BY <1>3, GotoTask DEF BookInv
  <2>3. QueueInv'
    <3>1. /\ queue \in Seq(TaskIds) /\ queue' \in Seq(TaskIds)
          /\ Len(queue') = Len(queue) + 1
          /\ queue'[Len(queue) + 1] = id
          /\ \A k \in 1 .. Len(queue) : queue'[k] = queue[k]
      BY <1>1, <1>3 DEF BookInv, QueueInv
    <3>2. \A k \in 1 .. Len(queue) : queue[k] # id /\ At(queue[k], "queued")
      BY <1>1 DEF BookInv, QueueInv
    <3>3. \A k \in 1 .. Len(queue') : At(queue[k], "queued")'
      BY <2>1, <3>1, <3>2
    <3>4. \A j, k \in 1 .. Len(queue') : queue'[j] = queue'[k] => j = k
      BY <3>1, <3>2 DEF BookInv, QueueInv
    <3> QED BY <3>1, <3>3, <3>4 DEF QueueInv
  <2> QED
    BY <1>1, <1>3, <2>1, <2>2, <2>3, SameCodec, SameHolders
    DEF BookInv, Enqueue
<1> QED BY <1>2, <1>3 DEF Enqueue

\* The invariant is preserved by AcquirePermit: the head of the queue becomes
\* a holder.
LEMMA AcquireStep ==
  ASSUME BookInv, NEW id \in Live, AcquirePermit(id)
  PROVE  BookInv'
<1> DEFINE label == IF mode = "local" THEN "pushed" ELSE "reading"
<1>1. /\ id \notin Holders /\ ~At(id, "codec")
      /\ Goto(id, label) /\ label \in {"pushed", "reading"}
      /\ permits > 0 /\ permits' = permits - 1
      /\ codecDetected' = codecDetected /\ codecReports' = codecReports
  BY DEF AcquirePermit, At, Holders
<1>2. Head(queue) = id /\ queue' = Tail(queue)
  BY DEF AcquirePermit
<1>0. queue # << >>
  BY DEF AcquirePermit
<1> HIDE DEF label
<1>3. /\ \A i, l : i # id => (At(i, l)' <=> At(i, l))
      /\ \A l : At(id, l)' <=> label = l
      /\ Holders' = Holders \union {id}
  BY <1>1, AfterGoto DEF BookInv
<1>4. TasksInv'
  BY <1>1, GotoTask DEF BookInv
<1>5. PermitsInv'
  BY <1>1, <1>3, OneMoreHolder DEF BookInv
<1>6. CodecInv'
  BY <1>1, <1>3, SameCodec DEF BookInv
<1>7. QueueInv'
  <2>1. /\ queue \in Seq(TaskIds) /\ queue' \in Seq(TaskIds)
        /\ Len(queue') = Len(queue) - 1 /\ Len(queue) \in Nat
        /\ \A k \in 1 .. Len(queue') :
             k + 1 \in 1 .. Len(queue) /\ queue'[k] = queue[k + 1]
        /\ queue[1] = id /\ 1 \in 1 .. Len(queue)
    BY <1>0, <1>2 DEF BookInv, QueueInv
  <2>2. \A k \in 1 .. Len(queue') :
          queue[k + 1] # id /\ At(queue[k + 1], "queued")
    BY <2>1 DEF BookInv, QueueInv
  <2>3. \A k \in 1 .. Len(queue') : At(queue[k], "queued")'
    BY <1>3, <2>1, <2>2
  <2>4. \A j, k \in 1 .. Len(queue') : queue'[j] = queue'[k] => j = k
    <3> SUFFICES ASSUME NEW j \in 1 .. Len(queue'), NEW k \in 1 .. Len(queue'),
                        queue'[j] = queue'[k]
                 PROVE  j = k
      OBVIOUS
    <3>1. j + 1 = k + 1
      BY <2>1 DEF BookInv, QueueInv
    <3> QED BY <2>1, <3>1
  <2> QED BY <2>1, <2>3, <2>4 DEF QueueInv
<1> QED BY <1>4, <1>5, <1>6, <1>7 DEF BookInv

\* The invariant is preserved by ReadForPush, an early return included.
LEMMA ReadForPushStep ==
  ASSUME BookInv, NEW id \in Live, ReadForPush(id)
  PROVE  BookInv'
<1>1. id \in Holders
  BY DEF ReadForPush, At, Holders
<1> QED BY <1>1, HolderMoves DEF ReadForPush

\* The invariant is preserved by Push: accepted, retried, or failed for good.
LEMMA PushStep ==
  ASSUME BookInv, NEW id \in Live, Push(id)
  PROVE  BookInv'
<1>1. id \in Holders
  BY DEF Push, At, Holders
<1>2. CASE Return(id)
  BY <1>1, <1>2, HolderMoves DEF Push
<1>4. CASE /\ tasks' = [tasks EXCEPT ![id] = [at |-> "pushed", tries |-> 0]]
           /\ UNCHANGED permits
  <2>1. TasksInv /\ tasks[id] \in Task /\ [at |-> "pushed", tries |-> 0] \in Task
    BY UploadAssumption DEF BookInv, TasksInv, Task
  <2>2. /\ Live' = Live
        /\ tasks'[id] = [at |-> "pushed", tries |-> 0]
        /\ \A i \in Live \ {id} : tasks'[i] = tasks[i]
        /\ tasks' = [i \in Live |-> tasks'[i]]
    BY <1>4, <2>1 DEF TasksInv, Live
  <2>3. TasksInv'
    BY <2>1, <2>2 DEF TasksInv
  <2>4. /\ \A i : At(i, "queued")' <=> At(i, "queued")
        /\ \A i : At(i, "codec")' <=> At(i, "codec")
    BY <2>2 DEF At, Push
  <2>5. Holders' = Holders
    BY <1>1, <2>2 DEF Holders
  <2> QED
    BY <1>4, <2>3, <2>4, <2>5, SameQueue, SameCodec, SameHolders
    DEF BookInv, Push
<1>3. CASE /\ tasks[id].tries < MaxRetries
           /\ tasks' = [tasks EXCEPT ![id].tries = @ + 1]
           /\ UNCHANGED permits
  <2>1. TasksInv /\ tasks[id] \in Task
    BY DEF BookInv, TasksInv
  <2>2. /\ Live' = Live
        /\ tasks'[id] = [tasks[id] EXCEPT !.tries = @ + 1]
        /\ \A i \in Live \ {id} : tasks'[i] = tasks[i]
        /\ tasks' = [i \in Live |-> tasks'[i]]
    BY <1>3, <2>1 DEF TasksInv, Live
  <2>3. tasks'[id] \in Task /\ tasks'[id].at = tasks[id].at
    BY <1>3, <2>1, <2>2, UploadAssumption DEF Task
  <2>4. TasksInv'
    BY <2>1, <2>2, <2>3 DEF TasksInv
  <2>5. \A i, l : At(i, l)' <=> At(i, l)
    BY <2>2, <2>3 DEF At
  <2>6. Holders' = Holders
    BY <2>2, <2>3 DEF Holders
  <2> QED
    BY <1>3, <2>4, <2>5, <2>6, SameQueue, SameCodec, SameHolders
    DEF BookInv, Push
<1> QED BY <1>2, <1>3, <1>4 DEF Push

\* The invariant is preserved by ClaimCodec: only the first task gets past it.
LEMMA ClaimCodecStep ==
  ASSUME BookInv, NEW id \in Live, ClaimCodec(id)
  PROVE  BookInv'
<1>1. id \in Holders
  BY DEF ClaimCodec, At, Holders
<1>2. CASE codecDetected
  BY <1>1, <1>2, HolderMoves DEF ClaimCodec, BookInv, CodecInv
<1>3. CASE ~codecDetected
  <2>1. /\ Goto(id, "codec") /\ ~At(id, "queued")
        /\ UNCHANGED <<queue, permits, codecReports>> /\ codecDetected' = TRUE
    BY <1>3 DEF ClaimCodec, At
  <2>2. /\ \A i, l : i # id => (At(i, l)' <=> At(i, l))
        /\ \A l : At(id, l)' <=> "codec" = l
        /\ Holders' = Holders
    BY <1>1, <2>1, AfterGoto DEF BookInv
  <2>3. TasksInv'
    BY <2>1, GotoTask DEF BookInv
  <2>4. CodecInv'
    <3>1. codecReports = 0 /\ \A i : ~At(i, "codec")
      BY <1>3 DEF BookInv, CodecInv, At
    <3>2. \A i : At(i, "codec")' <=> i = id
      BY <2>2, <3>1
    <3> QED BY <2>1, <3>1, <3>2 DEF CodecInv
  <2> QED
    BY <2>1, <2>2, <2>3, <2>4, SameQueue, SameHolders DEF BookInv
<1> QED BY <1>2, <1>3 DEF BookInv, CodecInv

\* The task at "codec" is the only one there, and nobody reported before it.
LEMMA ReportCodecStep ==
  ASSUME BookInv, NEW id \in Live, ReportCodec(id)
  PROVE  BookInv'
<1>1. /\ id \in Holders /\ At(id, "codec") /\ ~At(id, "queued")
      /\ Goto(id, "archive")
      /\ UNCHANGED <<queue, permits, codecDetected>>
  BY DEF ReportCodec, At, Holders
<1>2. /\ \A i, l : i # id => (At(i, l)' <=> At(i, l))
      /\ \A l : At(id, l)' <=> "archive" = l
      /\ Holders' = Holders
  BY <1>1, AfterGoto DEF BookInv
<1>3. TasksInv'
  BY <1>1, GotoTask DEF BookInv
<1>4. codecDetected /\ codecReports = 0 /\ \A i : At(i, "codec") => i = id
  BY <1>1 DEF BookInv, CodecInv, At
<1>5. codecReports' \in 0 .. 1
  BY <1>4 DEF ReportCodec
<1>6. CodecInv'
  BY <1>1, <1>2, <1>4, <1>5 DEF BookInv, CodecInv
<1> QED
  BY <1>1, <1>2, <1>3, <1>6, SameQueue, SameHolders DEF BookInv

\* The invariant is preserved by ReadForArchive, an early return included.
LEMMA ReadForArchiveStep ==
  ASSUME BookInv, NEW id \in Live, ReadForArchive(id)
  PROVE  BookInv'
<1>1. id \in Holders
  BY DEF ReadForArchive, At, Holders
<1> QED BY <1>1, HolderMoves DEF ReadForArchive

\* The invariant is preserved by SaveRow: the task ends and returns its permit.
LEMMA SaveRowStep ==
  ASSUME BookInv, NEW id \in Live, SaveRow(id)
  PROVE  BookInv'
<1>1. id \in Holders
  BY DEF SaveRow, At, Holders
<1> QED BY <1>1, HolderMoves DEF SaveRow
-----------------------------------------------------------------------------
(* The theorems.                                                           *)

UploadInv == PollInv /\ BookInv /\ RestInv

\* The invariant holds before the first scan.
LEMMA UploadInvHoldsInitially == UploadInit => UploadInv
<1> SUFFICES ASSUME UploadInit PROVE UploadInv
  OBVIOUS
<1>1. PollInv
  BY PollInvInitially DEF UploadInit
<1>2. Live = {} /\ Holders = {}
  BY DEF UploadInit, Live, Holders
<1>3. TasksInv
  BY <1>2 DEF UploadInit, TasksInv, Live
<1>4. QueueInv
  BY DEF UploadInit, QueueInv
<1>5. PermitsInv
  BY <1>2, FS_EmptySet, UploadAssumption DEF UploadInit, PermitsInv
<1>6. CodecInv
  <2>1. 0 \in 0 .. 1
    OBVIOUS
  <2> QED BY <1>2, <2>1, Zenon DEF UploadInit, CodecInv
<1>7. RestInv
  BY DEF UploadInit, RestInv
<1> QED
  BY <1>1, <1>3, <1>4, <1>5, <1>6, <1>7 DEF UploadInv, BookInv

\* Every step of the specification preserves the invariant.
LEMMA UploadInvIsInductive ==
  ASSUME UploadInv, [UploadNext]_allVars
  PROVE  UploadInv'
<1>1. PollInv'
  BY StepOfWindow, PollInvIsInductive DEF UploadInv
<1>2. RestInv'
  BY DEF UploadInv, RestInv, UploadNext, Scan, Beside, TaskStep, Enqueue,
         AcquirePermit, ReadForPush, Push, ClaimCodec, ReportCodec,
         ReadForArchive, SaveRow, uploadVars, allVars
<1>3. CASE Scan
  BY <1>1, <1>2, <1>3, ScanStep DEF UploadInv
<1>4. CASE UNCHANGED uploadVars
  <2>1. \A i, l : At(i, l)' <=> At(i, l)
    BY <1>4 DEF uploadVars, At, Live
  <2>2. Holders' = Holders /\ TasksInv'
    BY <1>4 DEF uploadVars, Holders, Live, UploadInv, BookInv, TasksInv
  <2>3. BookInv'
    BY <1>4, <2>1, <2>2, SameQueue, SameCodec, SameHolders
    DEF uploadVars, UploadInv, BookInv
  <2> QED BY <1>1, <1>2, <2>3 DEF UploadInv
<1>5. ASSUME NEW id \in Live, TaskStep(id) PROVE UploadInv'
  <2>1. BookInv'
    BY <1>5, EnqueueStep, AcquireStep, ReadForPushStep, PushStep,
       ClaimCodecStep, ReportCodecStep, ReadForArchiveStep, SaveRowStep
    DEF TaskStep, UploadInv
  <2> QED BY <1>1, <1>2, <2>1 DEF UploadInv
<1> QED
  BY <1>3, <1>4, <1>5 DEF UploadNext, Beside, allVars

\* The invariant holds of every behaviour.
LEMMA UploadInvHolds == UploadSpec => []UploadInv
  BY UploadInvHoldsInitially, UploadInvIsInductive, PTL DEF UploadSpec

\* The variables keep their types: in particular the permits stay between 0
\* and their number, and no task waits twice or waits after it ended.
THEOREM UploadTypeCorrect == UploadSpec => []UploadTypeOK
<1>1. UploadInv => UploadTypeOK
  <2> SUFFICES ASSUME UploadInv PROVE UploadTypeOK
    OBVIOUS
  <2>1. queue \in Seq(Live)
    <3>1. queue \in Seq(TaskIds) /\ \A k \in 1 .. Len(queue) : queue[k] \in Live
      BY DEF UploadInv, BookInv, QueueInv, At
    <3> QED BY <3>1
  <2>2. IsInjective(queue)
    BY DEF UploadInv, BookInv, QueueInv, IsInjective
  <2> QED
    BY <2>1, <2>2, UploadAssumption
    DEF UploadInv, BookInv, TasksInv, Task, PermitsInv, CodecInv, RestInv,
        UploadTypeOK
<1> QED BY <1>1, UploadInvHolds, PTL

\* Command Center gets at most one codec report, however many tasks push
\* their segments at once.
THEOREM CodecReportedOnceHolds == UploadSpec => []CodecReportedOnce
<1>1. UploadInv => CodecReportedOnce
  BY DEF UploadInv, BookInv, CodecInv, CodecReportedOnce
<1> QED BY <1>1, UploadInvHolds, PTL

\* The upload tasks implement SegmentWindow: they are invisible to it.
THEOREM ImplementsSegmentWindowHolds == UploadSpec => ImplementsSegmentWindow
<1>1. UploadInit => Init
  BY DEF UploadInit
<1>2. [UploadNext]_allVars => [Next]_vars
  BY StepOfWindow
<1> QED
  BY <1>1, <1>2, PTL DEF UploadSpec, ImplementsSegmentWindow, Spec

\* So what SegmentWindow promises holds beside the upload tasks as well: none of
\* them makes the sweep delete a segment that was not handed over.
THEOREM NothingLostBesideUploads == SweepSlack < SweepKeep => (UploadSpec => []NothingLostToSweep)
  BY NothingLostHolds, ImplementsSegmentWindowHolds, PTL DEF ImplementsSegmentWindow
-----------------------------------------------------------------------------
(* What a task reads at its path.                                          *)

\* Until FFmpeg is started nothing is on disk and no task is alive; in its first
\* run every task is for a segment FFmpeg has closed, and has read no other.
FirstRunInv ==
  /\ Run <= 1 => ~misread
  /\ Run = 0 => disk = {} /\ Live = {} /\ ~alive
  /\ Run = 1 => \A id \in Live : id[1] = 1 /\ id[2] \in Nat /\ id[2] < written

\* No step of a task changes which run it is, and what a task reads in the first
\* run is its own segment.
LEMMA TaskReadsItsOwn ==
  ASSUME WindowInv, TasksInv, FirstRunInv, NEW id \in Live, TaskStep(id)
  PROVE  FirstRunInv'
<1>1. UNCHANGED <<disk, written, alive, epoch, bumpPending>>
  BY DEF TaskStep, Enqueue, AcquirePermit, ReadForPush, Push, ClaimCodec, ReportCodec,
         ReadForArchive, SaveRow, vars, ffmpegVars
<1>2. Run' = Run /\ Run # 0 /\ Run \in Nat
  <2>1. Run' = Run
    BY <1>1 DEF Run
  <2>2. Run \in Nat
    BY RunInRange, WindowAssumption
  <2> QED BY <2>1, <2>2 DEF FirstRunInv
<1>3. Live' \subseteq Live
  <2>1. \/ \E l \in Labels : Goto(id, l)
        \/ End(id)
        \/ tasks' = [tasks EXCEPT ![id].tries = @ + 1]
        \/ tasks' = [tasks EXCEPT ![id] = [at |-> "pushed", tries |-> 0]]
    BY DEF TaskStep, Enqueue, AcquirePermit, ReadForPush, Push, ClaimCodec, ReportCodec,
           ReadForArchive, SaveRow, Return
  <2>2. CASE \E l \in Labels : Goto(id, l)
    BY <2>2, GotoTask
  <2>3. CASE End(id)
    BY <2>3, EndTask
  <2>4. CASE \/ tasks' = [tasks EXCEPT ![id].tries = @ + 1]
             \/ tasks' = [tasks EXCEPT ![id] = [at |-> "pushed", tries |-> 0]]
    BY <2>4 DEF Live
  <2> QED BY <2>1, <2>2, <2>3, <2>4
<1>4. ASSUME Run = 1 PROVE ~misread'
  <2>1. id[1] = Run /\ id[2] < written
    BY <1>4 DEF FirstRunInv
  <2>2. ~Missing(id) => Own(id)
    BY <2>1 DEF Missing, Own, Closed
  <2>3. ~misread
    BY <1>4 DEF FirstRunInv
  <2> QED
    BY <2>2, <2>3 DEF TaskStep, Enqueue, AcquirePermit, ReadForPush, Push, ClaimCodec,
       ReportCodec, ReadForArchive, SaveRow
<1> QED BY <1>1, <1>2, <1>3, <1>4 DEF FirstRunInv

\* The segments a scan takes in the first run are closed; before it there are
\* none.
LEMMA ScanInFirstRun ==
  ASSUME PollInv, TasksInv, FirstRunInv, Scan
  PROVE  FirstRunInv'
<1>1. UNCHANGED <<disk, written, alive, epoch, bumpPending, misread>> /\ pc = "scan"
  BY DEF Scan, ScanDirectory, ffmpegVars
<1>2. Run' = Run
  BY <1>1 DEF Run
<1>3. PICK number : Live' = Live \union ({Run} \X NewSegments \X {number})
  BY DEF Scan, NewTasks, Live
<1>4. \A s \in NewSegments : s \in disk /\ s \in Nat /\ s < written
  <2>1. NewSegments \subseteq Closed
    BY <1>1, WhatAScanTakes
  <2> QED
    BY <2>1, WindowAssumption DEF Closed, PollInv, WindowInv, Seqs
<1>5. CASE Run = 0
  <2>1. NewSegments = {}
    BY <1>4, <1>5 DEF FirstRunInv
  <2>2. Live' = {}
    BY <1>3, <1>5, <2>1 DEF FirstRunInv
  <2> QED BY <1>1, <1>2, <1>5, <2>2 DEF FirstRunInv
<1>6. CASE Run # 0
  BY <1>1, <1>2, <1>3, <1>4, <1>6 DEF FirstRunInv
<1> QED BY <1>5, <1>6

\* FFmpeg, its supervisor, the epoch check and the sweep: a start is the only
\* step that begins a run.
LEMMA BesideInFirstRun ==
  ASSUME PollInv, TasksInv, FirstRunInv, Beside
  PROVE  FirstRunInv'
<1>0. /\ written \in Nat /\ epoch \in Nat /\ Run \in Nat /\ bumpPending \in BOOLEAN
      /\ bumpPending => alive
      /\ Live' = Live /\ misread' = misread
  <2>1. Run \in Nat
    BY RunInRange, WindowAssumption DEF PollInv
  <2>2. Live' = Live /\ misread' = misread
    BY DEF Beside, uploadVars, Live
  <2> QED BY <2>1, <2>2, WindowAssumption DEF PollInv, WindowInv, Seqs
<1>1. CASE CompleteSegment
  <2>1. Run' = Run /\ Run # 0 /\ written' = written + 1
    BY <1>1 DEF CompleteSegment, Run, FirstRunInv
  <2> QED BY <1>0, <2>1 DEF FirstRunInv
<1>2. CASE Restart
  <2>1. ~bumpPending /\ Run = epoch /\ Run' = Run + 1
    BY <1>0, <1>2 DEF Restart, Run
  <2> QED BY <1>0, <2>1 DEF FirstRunInv
<1>3. CASE BumpEpoch
  <2>1. Run' = Run /\ UNCHANGED <<disk, written, alive>>
    BY <1>0, <1>3 DEF BumpEpoch, Run
  <2> QED BY <1>0, <2>1 DEF FirstRunInv
<1>4. CASE FfmpegDies \/ FailedStart \/ CheckEpoch \/ Sweep
  <2>1. UNCHANGED <<written, epoch, bumpPending>> /\ disk' \subseteq disk /\ (alive' => alive)
    <3>1. CASE FfmpegDies
      BY <3>1 DEF FfmpegDies
    <3>2. CASE FailedStart
      BY <3>2 DEF FailedStart, ffmpegVars
    <3>3. CASE CheckEpoch
      BY <3>3 DEF CheckEpoch, ffmpegVars
    <3>4. CASE Sweep
      BY <3>4 DEF Sweep, KeptBySweep, ffmpegVars
    <3> QED BY <1>4, <3>1, <3>2, <3>3, <3>4
  <2>2. Run' = Run
    BY <2>1 DEF Run
  <2> QED BY <1>0, <2>1, <2>2 DEF FirstRunInv
<1> QED BY <1>1, <1>2, <1>3, <1>4 DEF Beside

\* Until FFmpeg is restarted, what a task pushes or archives under a segment's
\* number is that segment, whole, however long the task waited for its permit and
\* whatever was swept meanwhile.
THEOREM OwnSegmentUntilRestartHolds == UploadSpec => []OwnSegmentUntilRestart
<1>1. UploadInit => FirstRunInv
  BY DEF UploadInit, Init, FirstRunInv, Run, Live
<1>2. PollInv /\ UploadInv /\ FirstRunInv /\ [UploadNext]_allVars => FirstRunInv'
  <2> SUFFICES ASSUME PollInv, UploadInv, FirstRunInv, [UploadNext]_allVars
               PROVE  FirstRunInv'
    OBVIOUS
  <2>0. TasksInv /\ WindowInv
    BY DEF UploadInv, BookInv, PollInv
  <2>1. CASE UNCHANGED allVars
    BY <2>1 DEF allVars, vars, ffmpegVars, uploadVars, FirstRunInv, Run, Live
  <2> QED
    BY <2>0, <2>1, ScanInFirstRun, BesideInFirstRun, TaskReadsItsOwn DEF UploadNext
<1>3. PollInv /\ FirstRunInv => OwnSegmentUntilRestart
  BY RunInRange, WindowAssumption DEF FirstRunInv, OwnSegmentUntilRestart, PollInv
<1>4. UploadSpec => []PollInv
  BY PollInvHolds, ImplementsSegmentWindowHolds, PTL DEF ImplementsSegmentWindow
<1> QED BY <1>1, <1>2, <1>3, <1>4, UploadInvHolds, PTL DEF UploadSpec
=============================================================================
