------------------------ MODULE RecordingStateProofs ------------------------
(***************************************************************************)
(* Theorems about RecordingState, for any cameras, handlers, policies and  *)
(* bounds: type correctness, that the sets are never older than the last   *)
(* answered attempt, and that in Local mode the set and the table agree    *)
(* wherever no toggle overlapped or failed.                                *)
(***************************************************************************)
EXTENDS RecordingState, SequenceTheorems, TLAPS

\* Every policy ordered since the attempt under way was sent.
SinceAttempt == hb.began .. Len(policies)

\* The answer an attempt holds was in force at a moment since it was sent.
AnswerInv ==
  /\ hb.step \in {"sent", "answered", "reconcile"} =>
       hb.began \in 1 .. Len(policies)
  /\ hb.step = "answered" =>
       \E v \in SinceAttempt : hb.answer.suspend = policies[v].suspend
  /\ hb.step \in {"answered", "reconcile"} =>
       \A target \in hb.answer.orders :
         \E v \in SinceAttempt : target = policies[v].record

\* A handler executes a toggle of camera c.
Busy(h, c) == toggle[h] # Idle /\ toggle[h].camera = c

\* Toggles of one camera know of each other; one that is alone has just
\* written the set, and one that is not has marked its camera.
ToggleInv ==
  /\ \A g, h \in Handlers, c \in Cameras :
       Busy(g, c) /\ Busy(h, c) /\ g # h => ~toggle[g].alone
  /\ \A h \in Handlers, c \in Cameras :
       Busy(h, c) => IF toggle[h].alone THEN c \in recording <=> toggle[h].on
                     ELSE c \in unsure

LocalInv == mode = "Local" => ToggleInv /\ SetMatchesRows

\* Handlers are only busy in Local mode.
ModeInv == mode = "Connected" => \A h \in Handlers : toggle[h] = Idle

-----------------------------------------------------------------------------
\* The initial state is well typed.
LEMMA InitTypeOK == Init => TypeOK
<1> SUFFICES ASSUME Init PROVE TypeOK
  OBVIOUS
<1>1. policies \in Seq(Policies) /\ Len(policies) \in 1 .. MaxPolicies
  BY RecordingAssumption DEF Init
<1>2. hb \in Heartbeats
  BY RecordingAssumption DEF Init, Heartbeats, FirstHeartbeat, Answers, NoAnswer
<1>3. toggle \in [Handlers -> Toggles]
  BY DEF Init, Toggles
<1> QED
  BY <1>1, <1>2, <1>3 DEF Init, TypeOK

\* An answer carries what the policy in force orders.
LEMMA PoliciesTyped ==
  ASSUME TypeOK
  PROVE  /\ InForce.record \in SUBSET Cameras
         /\ InForce.suspend \in SUBSET Cameras
         /\ Len(policies) \in Nat \ {0}
<1>1. Len(policies) \in Nat \ {0}
  BY RecordingAssumption DEF TypeOK
<1>2. InForce \in Policies
  BY <1>1 DEF TypeOK, InForce
<1> QED
  BY <1>1, <1>2, RecordingAssumption

USE DEF Idle

\* A well-typed heartbeat, spelled out for the steps that change one field.
LEMMA HeartbeatFields ==
  ASSUME TypeOK
  PROVE  /\ hb = [step |-> hb.step, attempts |-> hb.attempts,
                  began |-> hb.began, answer |-> hb.answer]
         /\ hb.attempts \in 0 .. MaxAttempts - 1 /\ hb.began \in Nat
         /\ hb.answer \in Answers /\ NoAnswer \in Answers
  BY RecordingAssumption DEF TypeOK, Heartbeats, Answers, NoAnswer

\* Every step of a toggle keeps the types.
LEMMA ToggleTypeOK ==
  ASSUME TypeOK, ModeInv, NEW h \in Handlers,
         \/ \E c \in Cameras, on \in BOOLEAN : ToggleSet(h, c, on)
         \/ ToggleSave(h)
         \/ ToggleSaveFails(h)
  PROVE  TypeOK' /\ ModeInv'
<1>1. ASSUME NEW c \in Cameras, NEW on \in BOOLEAN, ToggleSet(h, c, on)
      PROVE  TypeOK' /\ ModeInv'
  <2>1. recording' \in SUBSET Cameras /\ unsure' \in SUBSET Cameras
    BY <1>1 DEF TypeOK, ToggleSet, Toggled
  <2>2. Overlaps(h, c) \in [Handlers -> Toggles]
    <3> SUFFICES ASSUME NEW g \in Handlers, g \in Toggling(c)
                 PROVE  [toggle[g] EXCEPT !.alone = FALSE] \in Toggles
      BY DEF Overlaps, TypeOK
    <3>1. toggle[g] \in [step : {"set"}, camera : Cameras, on : BOOLEAN,
                          alone : BOOLEAN]
      BY DEF Toggling, TypeOK, Toggles
    <3>2. [toggle[g] EXCEPT !.alone = FALSE] \in
            [step : {"set"}, camera : Cameras, on : BOOLEAN, alone : BOOLEAN]
      BY <3>1
    <3> QED
      BY <3>2 DEF Toggles
  <2>3. toggle' \in [Handlers -> Toggles]
    BY <1>1, <2>2 DEF ToggleSet, Toggles
  <2>4. count' \in [toggles : Nat, disk : Nat, restarts : Nat]
    BY <1>1 DEF ToggleSet, TypeOK
  <2> QED
    BY <1>1, <2>1, <2>3, <2>4 DEF TypeOK, ToggleSet, MayToggle, ModeInv
<1>2. CASE ToggleSave(h)
  <2>1. toggle[h].camera \in Cameras /\ toggle[h].on \in BOOLEAN
    BY <1>2 DEF ToggleSave, TypeOK, Toggles
  <2>2. toggle' \in [Handlers -> Toggles]
    BY <1>2 DEF ToggleSave, TypeOK, Toggles
  <2>3. row' \in [Cameras -> {"none", "on", "off"}] /\ unsure' \in SUBSET Cameras
    BY <1>2, <2>1 DEF ToggleSave, TypeOK, Stored
  <2>4. mode = "Local"
    BY <1>2, RecordingAssumption DEF ToggleSave, ModeInv, TypeOK
  <2> QED
    BY <1>2, <2>2, <2>3, <2>4 DEF ToggleSave, TypeOK, ModeInv
<1>3. CASE ToggleSaveFails(h)
  <2>1. toggle[h].camera \in Cameras
    BY <1>3 DEF ToggleSaveFails, TypeOK, Toggles
  <2>2. toggle' \in [Handlers -> Toggles]
    BY <1>3 DEF ToggleSaveFails, TypeOK, Toggles
  <2> QED
    BY <1>3, <2>1, <2>2 DEF ToggleSaveFails, TypeOK, ModeInv
<1> QED
  BY <1>1, <1>2, <1>3

\* Every step of the heartbeat task keeps the types.
LEMMA HeartbeatTypeOK ==
  ASSUME TypeOK, ModeInv,
         \/ CollectDisk \/ NoDiskFigure \/ SendHeartbeat
         \/ \E info \in BOOLEAN : Answer(info)
         \/ AttemptFails \/ ApplyPlan \/ ApplyRecording \/ NextTick
  PROVE  TypeOK' /\ ModeInv'
<1> DEFINE Rest == <<mode, known, row, toggle, unsure, policies, disk, count>>
<1>1. SUFFICES ASSUME UNCHANGED Rest,
                      hb' \in Heartbeats, recording' \in SUBSET Cameras,
                      suspended' \in SUBSET Cameras, paused' \in BOOLEAN,
                      heard' \in [record : Nat, suspend : Nat],
                      mode = "Local" => hb' = FirstHeartbeat
               PROVE  TypeOK' /\ ModeInv'
  <2>1. UNCHANGED Rest
    BY DEF CollectDisk, NoDiskFigure, SendHeartbeat, Answer, AttemptFails,
           ApplyPlan, ApplyRecording, NextTick, nodeVars
  <2>2. mode = "Connected"
    <3>1. mode = "Local" => hb.step = "collect"
      BY DEF TypeOK, FirstHeartbeat
    <3>2. CASE CollectDisk \/ NoDiskFigure
      BY <3>2 DEF CollectDisk, NoDiskFigure
    <3>3. CASE ~(CollectDisk \/ NoDiskFigure)
      <4>1. hb.step # "collect"
        BY <3>3 DEF SendHeartbeat, Answer, AttemptFails, ApplyPlan, ApplyRecording,
                    NextTick
      <4> QED
        BY <3>1, <4>1, RecordingAssumption DEF TypeOK
    <3> QED
      BY <3>2, <3>3
  <2>3. hb' \in Heartbeats
    <3>0. hb \in Heartbeats /\ 0 \in 0 .. MaxAttempts - 1
      BY RecordingAssumption DEF TypeOK
    <3>1. CASE CollectDisk \/ NoDiskFigure
      <4>1. hb' = [hb EXCEPT !.step = "send", !.attempts = 0]
        BY <3>1 DEF CollectDisk, NoDiskFigure
      <4> QED
        BY <3>0, <4>1 DEF Heartbeats
    <3>2. CASE SendHeartbeat
      BY <3>2, HeartbeatFields, PoliciesTyped DEF SendHeartbeat, Heartbeats, TypeOK
    <3>3. ASSUME NEW info \in BOOLEAN, Answer(info)
          PROVE  hb' \in Heartbeats
      <4>1. [orders |-> IF info THEN {InForce.record} ELSE {},
             suspend |-> InForce.suspend] \in Answers
        BY PoliciesTyped DEF Answers
      <4> QED
        BY <3>3, <4>1 DEF Answer, Heartbeats, TypeOK
    <3>4. CASE AttemptFails
      <4>1. CASE hb.attempts + 1 >= MaxAttempts
        <5>1. hb' = [hb EXCEPT !.answer = NoAnswer, !.step = "sleep", !.attempts = 0]
          BY <3>4, <4>1 DEF AttemptFails
        <5> QED
          BY <3>0, <5>1, HeartbeatFields DEF Heartbeats
      <4>2. CASE ~(hb.attempts + 1 >= MaxAttempts)
        <5>1. hb' = [hb EXCEPT !.answer = NoAnswer, !.step = "send",
                               !.attempts = hb.attempts + 1]
          BY <3>4, <4>2 DEF AttemptFails
        <5>2. hb.attempts + 1 \in 0 .. MaxAttempts - 1
          BY <4>2, HeartbeatFields, RecordingAssumption
        <5> QED
          BY <3>0, <5>1, <5>2, HeartbeatFields DEF Heartbeats
      <4> QED
        BY <4>1, <4>2
    <3>5. CASE ApplyPlan
      BY <3>5 DEF ApplyPlan, Heartbeats, TypeOK
    <3>6. CASE ApplyRecording
      BY <3>0, <3>6, HeartbeatFields DEF ApplyRecording, Heartbeats
    <3>7. CASE NextTick
      BY <3>7 DEF NextTick, Heartbeats, TypeOK
    <3> QED
      BY <3>1, <3>2, <3>3, <3>4, <3>5, <3>6, <3>7
  <2>4. recording' \in SUBSET Cameras
    <3>1. ASSUME NEW target \in hb.answer.orders
          PROVE  target \in SUBSET Cameras
      BY HeartbeatFields DEF Answers
    <3>2. CASE ApplyRecording
      BY <3>1, <3>2 DEF ApplyRecording, Reconciled, TypeOK
    <3>3. CASE ~ApplyRecording
      BY <3>3 DEF TypeOK, CollectDisk, NoDiskFigure, SendHeartbeat, Answer,
                  AttemptFails, ApplyPlan, NextTick, nodeVars
    <3> QED
      BY <3>2, <3>3
  <2>5. suspended' \in SUBSET Cameras
    BY HeartbeatFields
    DEF TypeOK, Answers, CollectDisk, NoDiskFigure, SendHeartbeat, Answer, AttemptFails,
        ApplyPlan, ApplyRecording, NextTick, nodeVars, Suspended
  <2>6. paused' \in BOOLEAN
    BY DEF TypeOK, CollectDisk, NoDiskFigure, SendHeartbeat, Answer, AttemptFails,
           ApplyPlan, ApplyRecording, NextTick, nodeVars, PausedAfter
  <2>7. heard' \in [record : Nat, suspend : Nat]
    BY HeartbeatFields
    DEF TypeOK, CollectDisk, NoDiskFigure, SendHeartbeat, Answer, AttemptFails,
        ApplyPlan, ApplyRecording, NextTick, nodeVars
  <2> QED
    BY <2>1, <2>2, <2>3, <2>4, <2>5, <2>6, <2>7
<1> QED
  BY <1>1 DEF TypeOK, ModeInv

\* A restart, the policy and the disk keep the types.
LEMMA EnvironmentTypeOK ==
  ASSUME TypeOK, ModeInv,
         \/ \E cameras \in SUBSET Cameras, readable \in BOOLEAN : Restart(cameras, readable)
         \/ \E p \in Policies : ChangePolicy(p)
         \/ \E free \in {"ample", "low", "none"} : DiskChanges(free)
  PROVE  TypeOK' /\ ModeInv'
<1>1. ASSUME NEW cameras \in SUBSET Cameras, NEW readable \in BOOLEAN,
             Restart(cameras, readable)
      PROVE  TypeOK' /\ ModeInv'
  <2>1. recording' \in SUBSET Cameras /\ unsure' \in SUBSET Cameras
    BY <1>1 DEF Restart, Seed, OnRows
  <2>2. toggle' = [h \in Handlers |-> Idle] /\ toggle' \in [Handlers -> Toggles]
    BY <1>1 DEF Restart, Toggles
  <2>3. hb' \in Heartbeats /\ hb' = FirstHeartbeat
    BY <1>1, RecordingAssumption, HeartbeatFields
    DEF Restart, Heartbeats, FirstHeartbeat
  <2>4. count' \in [toggles : Nat, disk : Nat, restarts : Nat]
    BY <1>1 DEF Restart, TypeOK
  <2> QED
    BY <1>1, <2>1, <2>2, <2>3, <2>4 DEF Restart, TypeOK, ModeInv
<1>2. ASSUME NEW p \in Policies, ChangePolicy(p)
      PROVE  TypeOK' /\ ModeInv'
  <2>1. policies' \in Seq(Policies) /\ Len(policies') \in 1 .. MaxPolicies
    BY <1>2, RecordingAssumption DEF ChangePolicy, TypeOK
  <2> QED
    BY <1>2, <2>1 DEF ChangePolicy, nodeVars, TypeOK, ModeInv
<1>3. ASSUME NEW free \in {"ample", "low", "none"}, DiskChanges(free)
      PROVE  TypeOK' /\ ModeInv'
  <2>1. count' \in [toggles : Nat, disk : Nat, restarts : Nat]
    BY <1>3 DEF DiskChanges, TypeOK
  <2> QED
    BY <1>3, <2>1 DEF DiskChanges, nodeVars, TypeOK, ModeInv
<1> QED
  BY <1>1, <1>2, <1>3

-----------------------------------------------------------------------------
(* The heartbeat's answers.                                                *)

\* A policy history only grows, so what was in force since a moment stays so.
LEMMA HistoryGrows ==
  ASSUME TypeOK, TypeOK', [Next]_vars
  PROVE  /\ Len(policies') \in Nat /\ Len(policies) \in Nat
         /\ Len(policies) <= Len(policies')
         /\ \A v \in 1 .. Len(policies) : policies'[v] = policies[v]
<1>1. Len(policies) \in Nat /\ Len(policies') \in Nat
  BY DEF TypeOK
<1>2. CASE UNCHANGED policies
  BY <1>1, <1>2
<1>3. ASSUME NEW p \in Policies, ChangePolicy(p)
      PROVE  policies' = Append(policies, p)
  BY <1>3 DEF ChangePolicy
<1>4. UNCHANGED policies \/ \E p \in Policies : ChangePolicy(p)
  BY DEF Next, vars, ToggleSet, ToggleSave, ToggleSaveFails, CollectDisk, NoDiskFigure,
         SendHeartbeat, Answer, AttemptFails, ApplyPlan, ApplyRecording, NextTick,
         Restart, DiskChanges
<1>5. ASSUME NEW p \in Policies, ChangePolicy(p)
      PROVE  /\ Len(policies) <= Len(policies')
             /\ \A v \in 1 .. Len(policies) : policies'[v] = policies[v]
  <2>1. policies \in Seq(Policies)
    BY DEF TypeOK
  <2> QED
    BY <1>1, <1>3, <1>5, <2>1
<1> QED
  BY <1>1, <1>2, <1>4, <1>5

\* The answer at hand, and each set taken from one, is an order in force since
\* the attempt was sent.
LEMMA AnswerStep ==
  ASSUME TypeOK, TypeOK', AnswerInv, SetsAreRecent, [Next]_vars
  PROVE  AnswerInv' /\ SetsAreRecent'
<1>1. /\ Len(policies') \in Nat /\ Len(policies) \in Nat
      /\ Len(policies) <= Len(policies')
      /\ \A v \in 1 .. Len(policies) : policies'[v] = policies[v]
  BY HistoryGrows
<1>2. hb.began \in Nat /\ heard.record \in Nat /\ heard.suspend \in Nat
  BY DEF TypeOK, Heartbeats
\* The attempt and its answer go on as they are.
<1>3. ASSUME UNCHANGED hb
      PROVE  AnswerInv'
  <2>1. hb'.began = hb.began /\ hb'.step = hb.step /\ hb'.answer = hb.answer
    BY <1>3
  <2>2. \A v \in SinceAttempt : hb.began >= 1 =>
          v \in SinceAttempt' /\ policies'[v] = policies[v]
    BY <1>1, <1>2, <2>1 DEF SinceAttempt
  <2> QED
    BY <1>1, <1>2, <2>1, <2>2 DEF AnswerInv
\* The sets stay as they are.
<1>4. ASSUME UNCHANGED <<mode, recording, suspended, heard>>
      PROVE  SetsAreRecent'
  <2>1. ASSUME NEW k \in Nat \ {0}, NEW v \in k .. Len(policies)
        PROVE  v \in k .. Len(policies') /\ policies'[v] = policies[v]
    BY <1>1, <2>1
  <2>2. ASSUME mode = "Connected", heard.record > 0
        PROVE  \E v \in heard.record .. Len(policies') : recording = policies'[v].record
    <3>1. PICK v \in heard.record .. Len(policies) : recording = policies[v].record
      BY <2>2 DEF SetsAreRecent
    <3>2. heard.record \in Nat \ {0}
      BY <1>2, <2>2
    <3>3. v \in heard.record .. Len(policies') /\ policies'[v] = policies[v]
      BY <2>1, <3>2
    <3> QED
      BY <3>1, <3>3
  <2>3. ASSUME mode = "Connected", heard.suspend > 0
        PROVE  \E v \in heard.suspend .. Len(policies') :
                 suspended = policies'[v].suspend
    <3>1. PICK v \in heard.suspend .. Len(policies) : suspended = policies[v].suspend
      BY <2>3 DEF SetsAreRecent
    <3>2. heard.suspend \in Nat \ {0}
      BY <1>2, <2>3
    <3>3. v \in heard.suspend .. Len(policies') /\ policies'[v] = policies[v]
      BY <2>1, <3>2
    <3> QED
      BY <3>1, <3>3
  <2> QED
    BY <1>4, <2>2, <2>3 DEF SetsAreRecent
<1>5. CASE UNCHANGED vars
  BY <1>3, <1>4, <1>5 DEF vars, nodeVars
<1>6. ASSUME NEW h \in Handlers,
             \/ \E c \in Cameras, on \in BOOLEAN : ToggleSet(h, c, on)
             \/ ToggleSave(h)
             \/ ToggleSaveFails(h)
      PROVE  AnswerInv' /\ SetsAreRecent'
  <2>1. UNCHANGED <<mode, hb, suspended, heard>>
    BY <1>6 DEF ToggleSet, ToggleSave, ToggleSaveFails
  <2>2. CASE mode = "Connected"
    <3>1. UNCHANGED recording
      BY <1>6, <2>2 DEF ToggleSet, ToggleSave, ToggleSaveFails, MayToggle
    <3> QED
      BY <1>3, <1>4, <2>1, <3>1
  <2>3. CASE mode # "Connected"
    BY <1>3, <2>1, <2>3 DEF SetsAreRecent
  <2> QED
    BY <2>2, <2>3
<1>7. CASE CollectDisk \/ NoDiskFigure \/ AttemptFails \/ NextTick
  <2>1. UNCHANGED <<mode, recording, suspended, heard>>
    BY <1>7 DEF CollectDisk, NoDiskFigure, AttemptFails, NextTick, nodeVars
  <2>2. hb'.step \in {"send", "sleep", "collect"}
    BY <1>7 DEF CollectDisk, NoDiskFigure, AttemptFails, NextTick, TypeOK, Heartbeats
  <2> QED
    BY <1>4, <2>1, <2>2 DEF AnswerInv
<1>8. CASE SendHeartbeat
  <2>1. UNCHANGED <<mode, recording, suspended, heard, policies>>
    BY <1>8 DEF SendHeartbeat, nodeVars
  <2>2. hb'.step = "sent" /\ hb'.began = Len(policies) /\ hb'.answer = NoAnswer
    BY <1>8 DEF SendHeartbeat, TypeOK, Heartbeats
  <2> QED
    BY <1>1, <1>4, <2>1, <2>2, PoliciesTyped DEF AnswerInv, NoAnswer
<1>9. ASSUME NEW info \in BOOLEAN, Answer(info)
      PROVE  AnswerInv' /\ SetsAreRecent'
  <2>1. UNCHANGED <<mode, recording, suspended, heard, policies>>
    BY <1>9 DEF Answer, nodeVars
  <2>2. /\ hb.step = "sent" /\ hb'.step = "answered" /\ hb'.began = hb.began
        /\ hb'.answer.suspend = InForce.suspend
        /\ \A target \in hb'.answer.orders : target = InForce.record
    BY <1>9 DEF Answer, TypeOK, Heartbeats
  <2>3. hb.began \in 1 .. Len(policies)
    BY <2>2 DEF AnswerInv
  <2>4. Len(policies) \in SinceAttempt' /\ InForce = policies'[Len(policies)]
    BY <1>1, <2>1, <2>2, <2>3 DEF SinceAttempt, InForce
  <2> QED
    BY <1>4, <2>1, <2>2, <2>3, <2>4 DEF AnswerInv
<1>10. CASE ApplyPlan
  <2>1. UNCHANGED <<mode, recording, policies>>
    BY <1>10 DEF ApplyPlan
  <2>2. /\ hb.step = "answered" /\ hb'.step = "reconcile" /\ hb'.began = hb.began
        /\ hb'.answer = hb.answer
    BY <1>10 DEF ApplyPlan, TypeOK, Heartbeats
  <2>3. /\ suspended' = hb.answer.suspend
        /\ heard'.suspend = hb.began /\ heard'.record = heard.record
    BY <1>10 DEF ApplyPlan, Suspended, TypeOK
  <2>4. AnswerInv'
    BY <2>1, <2>2 DEF AnswerInv, SinceAttempt
  <2> QED
    BY <2>1, <2>2, <2>3, <2>4 DEF AnswerInv, SetsAreRecent, SinceAttempt
<1>11. CASE ApplyRecording
  <2>1. UNCHANGED <<mode, suspended, policies>>
    BY <1>11 DEF ApplyRecording
  <2>2. hb.step = "reconcile" /\ hb'.step = "sleep"
    BY <1>11 DEF ApplyRecording, TypeOK, Heartbeats
  <2>3. CASE UNCHANGED <<recording, heard>>
    BY <1>4, <2>1, <2>2, <2>3 DEF AnswerInv
  <2>4. ASSUME NEW target \in hb.answer.orders,
               recording' = target, heard' = [heard EXCEPT !.record = hb.began]
        PROVE  AnswerInv' /\ SetsAreRecent'
    <3>1. heard'.record = hb.began /\ heard'.suspend = heard.suspend
      BY <2>4 DEF TypeOK
    <3> QED
      BY <2>1, <2>2, <2>4, <3>1 DEF AnswerInv, SetsAreRecent, SinceAttempt
  <2> QED
    BY <1>11, <2>3, <2>4 DEF ApplyRecording, Reconciled
<1>12. ASSUME NEW cameras \in SUBSET Cameras, NEW readable \in BOOLEAN,
              Restart(cameras, readable)
       PROVE  AnswerInv' /\ SetsAreRecent'
  <2>1. hb'.step = "collect" /\ heard'.record = 0 /\ heard'.suspend = 0
    BY <1>12 DEF Restart, FirstHeartbeat
  <2> QED
    BY <2>1 DEF AnswerInv, SetsAreRecent
<1>13. ASSUME NEW p \in Policies, ChangePolicy(p)
       PROVE  AnswerInv' /\ SetsAreRecent'
  BY <1>3, <1>4, <1>13 DEF ChangePolicy, nodeVars
<1>14. ASSUME NEW free \in {"ample", "low", "none"}, DiskChanges(free)
       PROVE  AnswerInv' /\ SetsAreRecent'
  BY <1>3, <1>4, <1>14 DEF DiskChanges, nodeVars
<1> QED
  BY <1>5, <1>6, <1>7, <1>8, <1>9, <1>10, <1>11, <1>12, <1>13, <1>14 DEF Next

-----------------------------------------------------------------------------
(* The toggles.                                                            *)

\* Overlapping and failing toggles are the only reason for the set and the
\* table to differ.
LEMMA ToggleStep ==
  ASSUME TypeOK, TypeOK', ModeInv', LocalInv, [Next]_vars
  PROVE  LocalInv'
<1> SUFFICES ASSUME mode' = "Local"
             PROVE  ToggleInv' /\ SetMatchesRows'
  BY DEF LocalInv
<1>1. mode = "Local"
  BY DEF Next, vars, nodeVars, ToggleSet, ToggleSave, ToggleSaveFails, CollectDisk,
         NoDiskFigure, SendHeartbeat, Answer, AttemptFails, ApplyPlan, ApplyRecording,
         NextTick, Restart, ChangePolicy, DiskChanges
<1>2. ToggleInv /\ SetMatchesRows
  BY <1>1 DEF LocalInv
<1>3. hb.step = "collect"
  BY <1>1 DEF TypeOK, FirstHeartbeat
<1>4. CASE UNCHANGED <<mode, recording, row, toggle, unsure>>
  BY <1>2, <1>4 DEF ToggleInv, SetMatchesRows, Busy, Toggling
<1>5. ASSUME NEW h \in Handlers, NEW c \in Cameras, NEW on \in BOOLEAN,
             ToggleSet(h, c, on)
      PROVE  ToggleInv' /\ SetMatchesRows'
  <2>1. /\ toggle[h] = Idle /\ row' = row /\ mode' = mode
        /\ recording' = Toggled(recording, c, on)
        /\ unsure \subseteq unsure' /\ (Toggling(c) # {} => c \in unsure')
        /\ unsure' \subseteq unsure \union {c}
    BY <1>5 DEF ToggleSet
  <2>2. toggle'[h] = [step |-> "set", camera |-> c, on |-> on,
                      alone |-> Toggling(c) = {}]
    BY <1>5 DEF ToggleSet, Overlaps, TypeOK
  <2>3. ASSUME NEW g \in Handlers, g # h
        PROVE  /\ toggle[g] = Idle => toggle'[g] = Idle
               /\ toggle[g] # Idle =>
                    /\ toggle'[g] # Idle
                    /\ toggle'[g].camera = toggle[g].camera
                    /\ toggle'[g].on = toggle[g].on
                    /\ toggle'[g].alone =
                         (toggle[g].alone /\ toggle[g].camera # c)
    <3>1. toggle'[g] = IF g \in Toggling(c) THEN [toggle[g] EXCEPT !.alone = FALSE]
                       ELSE toggle[g]
      BY <1>5, <2>3 DEF ToggleSet, Overlaps, TypeOK
    <3>2. toggle[g] # Idle => /\ toggle[g].step = "set" /\ toggle[g].alone \in BOOLEAN
                              /\ toggle[g] \in [step : {"set"}, camera : Cameras,
                                                on : BOOLEAN, alone : BOOLEAN]
      BY DEF TypeOK, Toggles
    <3>3. CASE g \in Toggling(c)
      BY <3>1, <3>2, <3>3 DEF Toggling
    <3>4. CASE g \notin Toggling(c)
      BY <3>1, <3>2, <3>4 DEF Toggling
    <3> QED
      BY <3>3, <3>4
  <2>4. ToggleInv'
    <3>1. ASSUME NEW g \in Handlers, g # h, NEW d \in Cameras, Busy(g, d)'
          PROVE  /\ Busy(g, d)
                 /\ toggle'[g].on = toggle[g].on
                 /\ toggle'[g].alone = (toggle[g].alone /\ d # c)
                 /\ d = c => Toggling(c) # {}
      BY <2>3, <3>1 DEF Busy, Toggling
    <3>2. ASSUME NEW d \in Cameras, Busy(h, d)'
          PROVE  /\ d = c /\ toggle'[h].on = on
                 /\ toggle'[h].alone <=> Toggling(c) = {}
      <4>1. toggle'[h].camera = c
        BY <2>2
      <4>2. toggle'[h].on = on
        BY <2>2
      <4>3. toggle'[h].alone <=> Toggling(c) = {}
        <5>1. CASE Toggling(c) = {}
          <6>1. toggle'[h] = [step |-> "set", camera |-> c, on |-> on, alone |-> TRUE]
            BY <2>2, <5>1
          <6> QED
            BY <5>1, <6>1
        <5>2. CASE Toggling(c) # {}
          <6>1. toggle'[h] = [step |-> "set", camera |-> c, on |-> on, alone |-> FALSE]
            BY <2>2, <5>2
          <6> QED
            BY <5>2, <6>1
        <5> QED
          BY <5>1, <5>2
      <4> QED
        BY <3>2, <4>1, <4>2, <4>3 DEF Busy
    <3>3. ASSUME NEW g \in Handlers, NEW k \in Handlers, NEW d \in Cameras,
                 Busy(g, d)', Busy(k, d)', g # k
          PROVE  ~toggle'[g].alone
      <4>1. CASE g = h
        BY <3>1, <3>2, <3>3, <4>1
      <4>2. CASE k = h
        BY <3>1, <3>2, <3>3, <4>2
      <4>3. CASE g # h /\ k # h
        BY <1>2, <3>1, <3>3, <4>3 DEF ToggleInv
      <4> QED
        BY <4>1, <4>2, <4>3
    <3>4. ASSUME NEW g \in Handlers, NEW d \in Cameras, Busy(g, d)', toggle'[g].alone
          PROVE  d \in recording' <=> toggle'[g].on
      <4>1. CASE g = h
        BY <2>1, <3>2, <3>4, <4>1 DEF Toggled
      <4>2. CASE g # h
        BY <1>2, <2>1, <3>1, <3>4, <4>2 DEF ToggleInv, Toggled
      <4> QED
        BY <4>1, <4>2
    <3>5. ASSUME NEW g \in Handlers, NEW d \in Cameras, Busy(g, d)', ~toggle'[g].alone
          PROVE  d \in unsure'
      <4>1. CASE g = h
        BY <2>1, <3>2, <3>5, <4>1
      <4>2. CASE g # h
        BY <1>2, <2>1, <3>1, <3>5, <4>2 DEF ToggleInv
      <4> QED
        BY <4>1, <4>2
    <3> QED
      BY <3>3, <3>4, <3>5 DEF ToggleInv
  <2>5. SetMatchesRows'
    <3> SUFFICES ASSUME NEW d \in Cameras \ unsure', Toggling(d)' = {}
                 PROVE  d \in recording' <=> row'[d] = "on"
      BY DEF SetMatchesRows
    <3>1. d # c
      BY <2>2 DEF Toggling
    <3>2. Toggling(d) = {}
      BY <2>1, <2>3 DEF Toggling
    <3> QED
      BY <1>1, <1>2, <2>1, <3>1, <3>2 DEF SetMatchesRows, Toggled
  <2> QED
    BY <2>4, <2>5
<1>6. ASSUME NEW h \in Handlers, ToggleSave(h) \/ ToggleSaveFails(h)
      PROVE  ToggleInv' /\ SetMatchesRows'
  <2> DEFINE c == toggle[h].camera
  <2>1. /\ toggle[h] # Idle /\ c \in Cameras /\ toggle[h].on \in BOOLEAN
        /\ toggle[h].alone \in BOOLEAN /\ recording' = recording
    BY <1>6 DEF ToggleSave, ToggleSaveFails, TypeOK, Toggles
  <2>2. /\ toggle'[h] = Idle
        /\ \A g \in Handlers : g # h => toggle'[g] = toggle[g]
    BY <1>6 DEF ToggleSave, ToggleSaveFails, TypeOK
  <2>3. Busy(h, c)
    BY <2>1 DEF Busy
  <2>4. \A d \in Cameras : d # c => /\ d \in unsure' <=> d \in unsure
                                    /\ row'[d] = row[d]
    BY <1>6 DEF ToggleSave, ToggleSaveFails, TypeOK
  <2>5. c \notin unsure' => toggle[h].alone /\ row'[c] = Stored(toggle[h].on)
    BY <1>2, <1>6, <2>1, <2>3 DEF ToggleSave, ToggleSaveFails, TypeOK, ToggleInv
  <2>6. toggle[h].alone => \A g \in Handlers : Busy(g, c) => g = h
    BY <1>2, <2>1, <2>3 DEF ToggleInv
  <2>7. ToggleInv'
    <3>1. ASSUME NEW g \in Handlers, NEW d \in Cameras, Busy(g, d)'
          PROVE  g # h /\ Busy(g, d) /\ toggle'[g] = toggle[g]
      BY <2>2, <3>1 DEF Busy
    <3>2. ASSUME NEW g \in Handlers, NEW d \in Cameras, Busy(g, d)', ~toggle'[g].alone
          PROVE  d \in unsure'
      BY <1>2, <2>1, <2>3, <2>4, <2>5, <2>6, <3>1, <3>2 DEF ToggleInv
    <3> QED
      BY <1>2, <2>1, <3>1, <3>2 DEF ToggleInv
  <2>8. SetMatchesRows'
    <3> SUFFICES ASSUME NEW d \in Cameras \ unsure', Toggling(d)' = {}
                 PROVE  d \in recording' <=> row'[d] = "on"
      BY DEF SetMatchesRows
    <3>1. CASE d = c
      BY <1>2, <2>1, <2>3, <2>5, <3>1 DEF ToggleInv, Stored
    <3>2. CASE d # c
      <4>1. Toggling(d) = {}
        BY <2>1, <2>2, <3>2 DEF Toggling
      <4> QED
        BY <1>1, <1>2, <2>1, <2>4, <3>2, <4>1 DEF SetMatchesRows
    <3> QED
      BY <3>1, <3>2
  <2> QED
    BY <2>7, <2>8
<1>7. ASSUME NEW cameras \in SUBSET Cameras, NEW readable \in BOOLEAN,
             Restart(cameras, readable)
      PROVE  ToggleInv' /\ SetMatchesRows'
  <2>1. \A h \in Handlers : toggle'[h] = Idle
    BY <1>7 DEF Restart
  <2>2. row' = row /\ recording' = Seed(readable)
        /\ unsure' = IF readable THEN {} ELSE OnRows
    BY <1>7 DEF Restart
  <2> QED
    BY <1>1, <2>1, <2>2 DEF ToggleInv, SetMatchesRows, Busy, Seed, OnRows
<1> QED
  BY <1>3, <1>4, <1>5, <1>6, <1>7
  DEF Next, vars, nodeVars, CollectDisk, NoDiskFigure, SendHeartbeat, Answer,
      AttemptFails, ApplyPlan, ApplyRecording, NextTick, ChangePolicy, DiskChanges

-----------------------------------------------------------------------------
(* The theorems.                                                           *)

IInv == TypeOK /\ ModeInv /\ AnswerInv /\ SetsAreRecent /\ LocalInv

\* The inductive invariant holds at the start and in every step.
LEMMA Inductive == Spec => []IInv
<1>1. Init => IInv
  <2> SUFFICES ASSUME Init PROVE IInv
    OBVIOUS
  <2>1. TypeOK
    BY InitTypeOK
  <2>2. /\ hb.step = "collect" /\ heard.record = 0 /\ heard.suspend = 0
        /\ \A h \in Handlers : toggle[h] = Idle
        /\ recording = {} /\ \A c \in Cameras : row[c] = "none"
    BY DEF Init, FirstHeartbeat
  <2> QED
    BY <2>1, <2>2
    DEF IInv, ModeInv, AnswerInv, SetsAreRecent, LocalInv, ToggleInv, SetMatchesRows,
        Busy
<1>2. IInv /\ [Next]_vars => IInv'
  <2> SUFFICES ASSUME IInv, [Next]_vars PROVE IInv'
    OBVIOUS
  <2>1. TypeOK /\ ModeInv
    BY DEF IInv
  <2>2. TypeOK' /\ ModeInv'
    <3>1. CASE UNCHANGED vars
      BY <2>1, <3>1 DEF vars, nodeVars, TypeOK, ModeInv
    <3>2. CASE Next
      BY <2>1, <3>2, ToggleTypeOK, HeartbeatTypeOK, EnvironmentTypeOK DEF Next
    <3> QED
      BY <3>1, <3>2
  <2> QED
    BY <2>1, <2>2, AnswerStep, ToggleStep DEF IInv
<1> QED
  BY <1>1, <1>2, PTL DEF Spec

\* The heartbeat task runs in Connected mode only and the rows of
\* local_recording_state are written in Local mode only; every variable
\* stays in its range.
THEOREM TypeCorrect == Spec => []TypeOK
<1>1. IInv => TypeOK
  BY DEF IInv
<1> QED
  BY <1>1, Inductive, PTL

\* Whatever attempts fail, each set the node works with was ordered by Command
\* Center since the last answered attempt was sent.
THEOREM AnswersStayRecent == Spec => []SetsAreRecent
<1>1. IInv => SetsAreRecent
  BY DEF IInv
<1> QED
  BY <1>1, Inductive, PTL

\* In Local mode only a toggle that overlapped another one of its camera, or
\* whose write failed, or an unreadable table at boot, makes the set differ from
\* what a restart loads.
THEOREM ToggleSurvives == Spec => []SetMatchesRows
<1>1. IInv => SetMatchesRows
  BY DEF IInv, LocalInv, SetMatchesRows
<1> QED
  BY <1>1, Inductive, PTL
=============================================================================
