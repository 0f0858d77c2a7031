------------------------ MODULE CommandChannelProofs -------------------------
(***************************************************************************)
(* The command channel implements AtMostOnceCalls, for any commands, any  *)
(* number of dropped connections and of tasks beside it.                  *)
(*                                                                        *)
(* The inductive invariant follows a command from the inbox to its answer: *)
(* what waits in the inbox waits once, has not run and was not answered;  *)
(* the command being run has taken effect exactly when its snapshot is    *)
(* saved or its outcome is known to be a success; and what is at hand on a *)
(* connection that is not broken was sent on this very connection, so     *)
(* Command Center still waits for it.                                     *)
(*                                                                        *)
(* The snapshots the channel and the HTTP routes take are proved to be of *)
(* the moment they are said to be, and to come back as they were saved.   *)
(***************************************************************************)
EXTENDS CommandChannel, FiniteSetTheorems, TLAPS

Step == task[Ws].step

TasksOK ==
  /\ DOMAIN task = Takers
  /\ \A t \in Takers : DOMAIN task[t] = DOMAIN Idle
  /\ lastId \in Nat

Waiting(c) == c \in sent /\ performed[c] = 0 /\ answer[c] \in {"none", "lost"}

InboxInv ==
  /\ inbox \in Seq(Commands)
  /\ \A i \in 1 .. Len(inbox) :
       /\ Waiting(inbox[i]) /\ inbox[i] # current
       /\ ~broken => answer[inbox[i]] = "none"
       /\ \A j \in 1 .. Len(inbox) : inbox[i] = inbox[j] => i = j
  /\ inbox # <<>> => conn = "up"

CurrentInv ==
  /\ current \in Commands \union {None}
  /\ current = None => outcome = None /\ Step = "idle"
  /\ current # None =>
       /\ conn = "up"
       /\ current \in sent
       /\ answer[current] \in {"none", "lost"}
       /\ ~broken => answer[current] = "none"
       /\ performed[current] = 1 =>
            outcome # None \/ (Kinds[current] = "take_snapshot" /\ Step \in {"saved", "done"})
       /\ Step = "saved" => performed[current] = 1
       /\ Step = "done" => task[Ws].reply \in {"ok", "failed"}
       /\ Step = "done" /\ task[Ws].reply = "ok" => performed[current] = 1
       /\ Step # "idle" => outcome = None /\ Kinds[current] = "take_snapshot"
       /\ outcome \in {None, "ok", "failed"}
       /\ outcome = "ok" => performed[current] = 1

ChannelInv ==
  /\ TasksOK
  /\ answer \in [Commands -> {"none", "ok", "failed", "lost"}]
  /\ sent \subseteq Commands /\ performed \in [Commands -> {0, 1}]
  /\ \A c \in Commands : c \notin sent => answer[c] = "none" /\ performed[c] = 0
  /\ InboxInv
  /\ CurrentInv

-----------------------------------------------------------------------------
LEMMA ChannelInvInit == Init => ChannelInv /\ Channel!Init
BY ChannelAssumption
   DEF Init, SnapInit, ChannelInv, TasksOK, InboxInv, CurrentInv, Step, Idle, Channel!Init

-----------------------------------------------------------------------------
(* What the steps of take_snapshot do to the tasks.                       *)

\* A task goes on, the others stay.
LEMMA OneTask ==
  ASSUME TasksOK, NEW t \in Takers, NEW next, DOMAIN next = DOMAIN Idle,
         task' = [task EXCEPT ![t] = next], lastId' \in Nat
  PROVE  /\ TasksOK'
         /\ task'[t] = next
         /\ \A u \in Takers \ {t} : task'[u] = task[u]
BY DEF TasksOK

\* The records a task may become keep the fields of Idle.
LEMMA Fields ==
  /\ \A id : DOMAIN Saved(id) = DOMAIN Idle /\ Saved(id).step = "saved"
  /\ \A reply, image :
       /\ DOMAIN Replied(reply, image) = DOMAIN Idle
       /\ Replied(reply, image).step = "done" /\ Replied(reply, image).reply = reply
BY DEF Saved, Replied, Idle

Failed(t) == task'[t].step = "done" /\ task'[t].reply = "failed"

LEMMA FailEffect ==
  ASSUME TasksOK, NEW t \in Takers, Fail(t), lastId' = lastId
  PROVE  /\ TasksOK' /\ Failed(t)
         /\ \A u \in Takers \ {t} : task'[u] = task[u]
<1> DEFINE next == Replied("failed", None)
<1>1. lastId' \in Nat /\ task' = [task EXCEPT ![t] = next]
  BY DEF TasksOK, Fail
<1>2. DOMAIN next = DOMAIN Idle /\ next.step = "done" /\ next.reply = "failed"
  BY Fields
<1> HIDE DEF next
<1> QED
  BY <1>1, <1>2, OneTask DEF Failed

LEMMA ScanEffect ==
  ASSUME TasksOK, NEW t \in Takers, NEW at, ScanSegments(t, at)
  PROVE  /\ TasksOK' /\ UNCHANGED <<fileVars, rowVars>>
         /\ task[t].step = "idle"
         /\ task'[t].step \in {"find", "grab"} \/ Failed(t)
         /\ \A u \in Takers \ {t} : task'[u] = task[u]
<1>1. lastId' \in Nat /\ UNCHANGED <<fileVars, rowVars>>
  BY DEF TasksOK, ScanSegments, rowVars
<1> DEFINE asked == [Idle EXCEPT !.at = at, !.run = run, !.latest = NewestWhole]
           timed == TimedSegments
           s == SegmentAt(timed, at)
           next == IF at = None THEN [asked EXCEPT !.step = "find", !.timed = timed]
                   ELSE IF timed = <<>> \/ ~Retained(timed, at) THEN Replied("failed", None)
                   ELSE [asked EXCEPT !.step = "grab", !.path = s, !.frame = FrameTime(timed, s)]
<1>2. task[t].step = "idle" /\ task' = [task EXCEPT ![t] = next]
  BY DEF ScanSegments
<1>3. /\ DOMAIN next = DOMAIN Idle
      /\ next.step \in {"find", "grab"} \/ (next.step = "done" /\ next.reply = "failed")
  <2>1. CASE at = None
    <3>1. next = [asked EXCEPT !.step = "find", !.timed = timed]
      BY <2>1
    <3> HIDE DEF next
    <3> QED
      BY <3>1 DEF Idle
  <2>2. CASE at # None /\ (timed = <<>> \/ ~Retained(timed, at))
    <3>1. next = Replied("failed", None)
      BY <2>2
    <3> HIDE DEF next
    <3> QED
      BY <3>1, Fields
  <2>3. CASE at # None /\ ~(timed = <<>> \/ ~Retained(timed, at))
    <3>1. next = [asked EXCEPT !.step = "grab", !.path = s, !.frame = FrameTime(timed, s)]
      BY <2>3
    <3> HIDE DEF next, timed, s
    <3> QED
      BY <3>1 DEF Idle
  <2> QED
    BY <2>1, <2>2, <2>3
<1> HIDE DEF next
<1> QED
  BY <1>1, <1>2, <1>3, OneTask DEF Failed

LEMMA TakeEffect ==
  ASSUME TasksOK, NEW t \in Takers, Take(t)
  PROVE  /\ TasksOK'
         /\ task[t].step \in {"find", "grab", "save"}
         /\ \/ lastId' = lastId /\ (task'[t].step \in {"grab", "save"} \/ Failed(t))
            \/ lastId' = lastId + 1 /\ task'[t].step = "saved"
         /\ \A u \in Takers \ {t} : task'[u] = task[u]
<1>1. lastId \in Nat /\ DOMAIN task[t] = DOMAIN Idle
  BY DEF TasksOK
<1>2. CASE FindLatest(t)
  <2>1. task[t].step = "find" /\ lastId' = lastId
    BY <1>2 DEF FindLatest, rowVars
  <2>2. CASE LatestSegment = {}
    BY <1>2, <2>1, <2>2, FailEffect DEF FindLatest
  <2>3. CASE LatestSegment # {}
    <3>1. PICK s \in LatestSegment :
            task' = [task EXCEPT ![t].step = "grab", ![t].path = s, ![t].timed = <<>>,
                       ![t].frame = FrameTime(task[t].timed, s)]
      BY <1>2, <2>3 DEF FindLatest
    <3> DEFINE frame == FrameTime(task[t].timed, s)
               next == [task[t] EXCEPT !.step = "grab", !.path = s, !.timed = <<>>, !.frame = frame]
    <3>2. task' = [task EXCEPT ![t] = next]
      <4> HIDE DEF frame
      <4> QED
        BY <3>1 DEF TasksOK, frame
    <3>3. DOMAIN next = DOMAIN Idle /\ next.step = "grab"
      <4> HIDE DEF frame
      <4> QED
        BY <1>1 DEF Idle
    <3> HIDE DEF next
    <3> QED
      BY <1>1, <2>1, <3>2, <3>3, OneTask
  <2> QED
    BY <2>2, <2>3
<1>3. CASE GrabFrame(t)
  <2>1. task[t].step = "grab" /\ lastId' = lastId
    BY <1>3 DEF GrabFrame, rowVars
  <2> DEFINE image == [run |-> run, begin |-> dir[task[t].path].begin,
                       whole |-> task[t].path # Newest]
             next == [task[t] EXCEPT !.step = "save", !.path = None, !.image = image]
  <2>2. task' = [task EXCEPT ![t] = next]
    <3>1. task' = [task EXCEPT ![t].step = "save", ![t].path = None, ![t].image = image]
      BY <1>3 DEF GrabFrame
    <3> HIDE DEF image
    <3> QED
      BY <3>1 DEF TasksOK
  <2>3. DOMAIN next = DOMAIN Idle /\ next.step = "save"
    <3> HIDE DEF image
    <3> QED
      BY <1>1 DEF Idle
  <2> HIDE DEF next
  <2> QED
    BY <1>1, <2>1, <2>2, <2>3, OneTask
<1>4. CASE GrabFails(t)
  BY <1>4, FailEffect DEF GrabFails, rowVars
<1>5. CASE SaveSnapshot(t)
  <2> DEFINE next == Saved(lastId + 1)
  <2>1. /\ task[t].step = "save" /\ lastId' = lastId + 1
        /\ task' = [task EXCEPT ![t] = next]
    BY <1>5 DEF SaveSnapshot
  <2>2. DOMAIN next = DOMAIN Idle /\ next.step = "saved"
    BY Fields
  <2>3. lastId' \in Nat
    BY <1>1, <2>1
  <2> HIDE DEF next
  <2>4. /\ TasksOK' /\ task'[t] = next
        /\ \A u \in Takers \ {t} : task'[u] = task[u]
    BY <2>1, <2>2, <2>3, OneTask
  <2> QED
    BY <2>1, <2>2, <2>4
<1>6. CASE SaveSkipped(t)
  BY <1>6, FailEffect DEF SaveSkipped, rowVars
<1> QED
  BY <1>2, <1>3, <1>4, <1>5, <1>6 DEF Take

LEMMA FetchEffect ==
  ASSUME TasksOK, NEW t \in Takers, FetchImage(t)
  PROVE  /\ TasksOK' /\ lastId' = lastId
         /\ task[t].step = "saved"
         /\ task'[t].step = "done" /\ task'[t].reply \in {"ok", "failed"}
         /\ \A u \in Takers \ {t} : task'[u] = task[u]
<1>1. lastId \in Nat /\ lastId' = lastId /\ task[t].step = "saved"
  BY DEF TasksOK, FetchImage, rowVars
<1>2. CASE Fail(t)
  BY <1>1, <1>2, FailEffect DEF Failed
<1>3. CASE task' = [task EXCEPT ![t] = Replied("ok", rows[task[t].id])]
  <2> DEFINE next == Replied("ok", rows[task[t].id])
  <2>1. task' = [task EXCEPT ![t] = next]
    BY <1>3
  <2>2. DOMAIN next = DOMAIN Idle /\ next.step = "done" /\ next.reply = "ok"
    BY Fields
  <2> HIDE DEF next
  <2> QED
    BY <1>1, <2>1, <2>2, OneTask
<1> QED
  BY <1>1, <1>2, <1>3 DEF FetchImage

LEMMA ReturnEffect ==
  ASSUME TasksOK, NEW t \in Takers, Return(t) \/ AnswerWithId(t)
  PROVE  /\ TasksOK' /\ lastId' = lastId
         /\ task'[t].step = "idle"
         /\ \A u \in Takers \ {t} : task'[u] = task[u]
<1>1. lastId' = lastId /\ lastId' \in Nat /\ task' = [task EXCEPT ![t] = Idle]
  BY DEF TasksOK, Return, AnswerWithId, rowVars
<1>2. Idle.step = "idle"
  BY DEF Idle
<1> QED
  BY <1>1, <1>2, OneTask

-----------------------------------------------------------------------------
(* The steps of the channel.  Each keeps the invariant and is a step of   *)
(* AtMostOnceCalls, or changes nothing Command Center can tell.           *)

Simulates == ChannelInv' /\ [Channel!Next]_(Channel!callVars)

\* Steps of the others.
LEMMA OthersStep ==
  ASSUME ChannelInv, TasksOK', task'[Ws] = task[Ws], UNCHANGED <<wsVars, ccVars>>
  PROVE  Simulates
BY DEF Simulates, ChannelInv, InboxInv, CurrentInv, Step, Waiting, wsVars, ccVars, Channel!callVars

LEMMA HttpStepSimulates ==
  ASSUME ChannelInv, NEW t \in Takers \ {Ws}, HttpStep(t)
  PROVE  Simulates
<1>1. TasksOK /\ Ws \in Takers \ {t}
  BY ChannelAssumption DEF ChannelInv
<1>2. TasksOK' /\ task'[Ws] = task[Ws]
  <2>1. CASE ScanSegments(t, None)
    BY <1>1, <2>1, ScanEffect
  <2>2. CASE Take(t)
    BY <1>1, <2>2, TakeEffect
  <2>3. CASE Return(t) \/ AnswerWithId(t)
    BY <1>1, <2>3, ReturnEffect
  <2> QED
    BY <2>1, <2>2, <2>3 DEF HttpStep
<1> QED
  BY <1>2, OthersStep DEF HttpStep

LEMMA BesideSimulates ==
  ASSUME ChannelInv, Beside
  PROVE  Simulates
<1>1. UNCHANGED <<lastId, task>>
  BY DEF Beside, Files, StartFfmpeg, CompleteSegment, FfmpegDies, Sweep, DeleteSnapshot,
         rowVars, fileVars
<1>2. TasksOK'
  BY <1>1 DEF ChannelInv, TasksOK
<1> QED
  BY <1>1, <1>2, OthersStep DEF Beside

\* Connecting and reconnecting: nothing is at hand.
LEMMA ConnectingSimulates ==
  ASSUME ChannelInv, Connect \/ ConnectFails \/ BackoffOver \/ NoticeDrop
  PROVE  Simulates
<1>1. /\ UNCHANGED <<lastId, task, current, outcome, sent, performed, answer>>
      /\ conn' # "up" => current = None
      /\ inbox' = <<>> \/ (UNCHANGED inbox /\ conn # "up")
      /\ current = None
  BY DEF ChannelInv, CurrentInv, Connect, ConnectFails, BackoffOver, NoticeDrop,
         snapVars, rowVars, ccVars
<1>2. inbox' = <<>>
  BY <1>1 DEF ChannelInv, InboxInv
<1> QED
  BY <1>1, <1>2 DEF Simulates, ChannelInv, TasksOK, InboxInv, CurrentInv, Step, Channel!callVars

\* What Command Center waits for, it gives up.
LEMMA DropSimulates ==
  ASSUME ChannelInv, ConnectionDrops
  PROVE  Simulates
<1>1. /\ UNCHANGED <<lastId, task, current, outcome, sent, performed, conn>>
      /\ broken'
      /\ answer' = [c \in Commands |->
           IF c \in sent /\ answer[c] = "none" THEN "lost" ELSE answer[c]]
  BY DEF ConnectionDrops, snapVars, rowVars
<1>2. PICK n \in 0 .. Len(inbox) : inbox' = SubSeq(inbox, 1, n)
  BY DEF ConnectionDrops
<1>3. inbox' \in Seq(Commands) /\ Len(inbox') = n /\ \A i \in 1 .. n : inbox'[i] = inbox[i]
  BY <1>2 DEF ChannelInv, InboxInv
<1>4. answer' \in [Commands -> {"none", "ok", "failed", "lost"}]
  BY <1>1 DEF ChannelInv
<1>5. InboxInv'
  <2>1. ASSUME NEW i \in 1 .. Len(inbox')
        PROVE  /\ Waiting(inbox[i])' /\ inbox'[i] = inbox[i] /\ inbox[i] # current
               /\ \A j \in 1 .. Len(inbox') : inbox'[i] = inbox'[j] => i = j
    <3>1. inbox[i] \in Commands /\ i \in 1 .. Len(inbox)
      BY <1>2, <1>3 DEF ChannelInv, InboxInv
    <3>2. Waiting(inbox[i])
      BY <3>1 DEF ChannelInv, InboxInv
    <3> QED
      BY <1>1, <1>2, <1>3, <3>1, <3>2 DEF ChannelInv, InboxInv, Waiting
  <2>2. conn = "up"
    BY DEF ConnectionDrops
  <2> QED
    BY <1>1, <1>3, <2>1, <2>2 DEF InboxInv, Waiting
<1>6. CurrentInv' /\ TasksOK'
  BY <1>1 DEF ChannelInv, CurrentInv, TasksOK, Step
<1>7. Channel!GiveUp
  BY <1>1 DEF Channel!GiveUp
<1> QED
  BY <1>1, <1>4, <1>5, <1>6, <1>7 DEF Simulates, ChannelInv, Channel!Next

LEMMA SendSimulates ==
  ASSUME ChannelInv, NEW c \in Commands, SendCommand(c)
  PROVE  Simulates
<1>1. /\ UNCHANGED <<lastId, task, current, outcome, performed, answer, conn, broken>>
      /\ conn = "up" /\ ~broken /\ c \notin sent
      /\ sent' = sent \union {c} /\ inbox' = Append(inbox, c)
  BY DEF SendCommand, snapVars, rowVars
<1>2. /\ inbox' \in Seq(Commands) /\ Len(inbox') = Len(inbox) + 1
      /\ \A i \in 1 .. Len(inbox) : inbox'[i] = inbox[i]
      /\ inbox'[Len(inbox) + 1] = c /\ Len(inbox) \in Nat
  BY <1>1 DEF ChannelInv, InboxInv
<1>3. answer[c] = "none" /\ performed[c] = 0 /\ c # current
  BY <1>1, ChannelAssumption DEF ChannelInv, CurrentInv
<1>4. \A i \in 1 .. Len(inbox) : inbox[i] \in sent
  BY DEF ChannelInv, InboxInv, Waiting
<1>5. InboxInv'
  <2>1. ASSUME NEW i \in 1 .. Len(inbox')
        PROVE  /\ Waiting(inbox[i])' /\ inbox'[i] # current /\ answer[inbox'[i]] = "none"
               /\ \A j \in 1 .. Len(inbox') : inbox'[i] = inbox'[j] => i = j
    <3>1. CASE i = Len(inbox) + 1
      BY <1>1, <1>2, <1>3, <1>4, <3>1 DEF Waiting
    <3>2. CASE i \in 1 .. Len(inbox)
      BY <1>1, <1>2, <1>4, <3>2 DEF ChannelInv, InboxInv, Waiting
    <3> QED
      BY <1>2, <3>1, <3>2
  <2> QED
    BY <1>1, <1>2, <2>1 DEF InboxInv
<1>6. CurrentInv' /\ TasksOK'
  BY <1>1 DEF ChannelInv, CurrentInv, TasksOK, Step
<1>7. Channel!Send(c)
  BY <1>1 DEF Channel!Send
<1> QED
  BY <1>1, <1>3, <1>5, <1>6, <1>7 DEF Simulates, ChannelInv, Channel!Next

LEMMA ReceiveSimulates ==
  ASSUME ChannelInv, Receive
  PROVE  Simulates
<1>1. /\ UNCHANGED <<lastId, task, outcome, sent, performed, answer, conn, broken>>
      /\ conn = "up" /\ current = None /\ inbox # <<>>
      /\ current' = Head(inbox) /\ inbox' = Tail(inbox)
  BY DEF Receive, snapVars, rowVars, ccVars
<1>2. /\ inbox' \in Seq(Commands) /\ Len(inbox') = Len(inbox) - 1 /\ Len(inbox) \in Nat \ {0}
      /\ current' = inbox[1] /\ current' \in Commands
      /\ \A i \in 1 .. Len(inbox') : inbox'[i] = inbox[i + 1] /\ i + 1 \in 1 .. Len(inbox)
  BY <1>1 DEF ChannelInv, InboxInv
<1>3. Waiting(current') /\ (~broken => answer[current'] = "none")
  BY <1>2 DEF ChannelInv, InboxInv
<1>4. InboxInv'
  BY <1>1, <1>2 DEF ChannelInv, InboxInv, Waiting
<1>5. CurrentInv' /\ TasksOK'
  BY <1>1, <1>2, <1>3, ChannelAssumption DEF ChannelInv, CurrentInv, TasksOK, Step, Waiting
<1> QED
  BY <1>1, <1>4, <1>5 DEF Simulates, ChannelInv, Channel!callVars

\* The inbox is as before; what ran is the command at hand, which is not in it.
LEMMA SameInbox ==
  ASSUME ChannelInv, current # None, UNCHANGED <<inbox, sent, answer, conn, broken, current>>,
         Effect \/ UNCHANGED performed
  PROVE  InboxInv'
<1>1. \A c \in Commands \ {current} : performed'[c] = performed[c]
  BY DEF Effect, ChannelInv
<1>2. \A i \in 1 .. Len(inbox) : inbox[i] \in Commands \ {current}
  BY DEF ChannelInv, InboxInv
<1> QED
  BY <1>1, <1>2 DEF ChannelInv, InboxInv, Waiting

\* The command at hand, which had no effect yet, takes effect.
LEMMA EffectIs ==
  ASSUME ChannelInv, current # None, performed[current] # 1, Effect, UNCHANGED <<sent, answer>>
  PROVE  /\ current \in Commands /\ performed' \in [Commands -> {0, 1}] /\ performed'[current] = 1
         /\ \A c \in Commands : c \notin sent => performed'[c] = 0
         /\ Channel!Perform(current)
<1>1. /\ current \in Commands /\ current \in sent /\ performed[current] = 0
      /\ answer[current] \in {"none", "lost"}
  BY DEF ChannelInv, CurrentInv
<1>2. performed' = [performed EXCEPT ![current] = 1]
  BY <1>1 DEF Effect
<1> QED
  BY <1>1, <1>2 DEF ChannelInv, Channel!Perform

LEMMA StartSnapshotSimulates ==
  ASSUME ChannelInv, NEW at \in Moments, StartSnapshot(at)
  PROVE  Simulates
<1>1. /\ UNCHANGED <<wsVars, ccVars>> /\ current # None /\ outcome = None
      /\ Kinds[current] = "take_snapshot"
      /\ TasksOK /\ Ws \in Takers /\ ScanSegments(Ws, at)
  BY ChannelAssumption DEF StartSnapshot, Shooting, ChannelInv
<1>2. /\ TasksOK' /\ Step = "idle"
      /\ Step' \in {"find", "grab"} \/ Failed(Ws)
  BY <1>1, ScanEffect DEF Step
<1>3. InboxInv'
  BY <1>1, SameInbox DEF wsVars, ccVars
<1>4. CurrentInv'
  BY <1>1, <1>2 DEF ChannelInv, CurrentInv, Step, Failed, wsVars, ccVars
<1> QED
  BY <1>1, <1>2, <1>3, <1>4 DEF Simulates, ChannelInv, wsVars, ccVars, Channel!callVars

LEMMA StepSnapshotSimulates ==
  ASSUME ChannelInv, StepSnapshot
  PROVE  Simulates
<1>1. /\ UNCHANGED <<wsVars, sent, answer>> /\ current # None /\ outcome = None
      /\ Kinds[current] = "take_snapshot"
      /\ IF lastId' > lastId THEN Effect ELSE UNCHANGED performed
      /\ TasksOK /\ Ws \in Takers /\ lastId \in Nat
  BY ChannelAssumption DEF StepSnapshot, Shooting, ChannelInv, TasksOK
<1>2. InboxInv'
  BY <1>1, SameInbox DEF wsVars, Effect
<1>3. CASE Take(Ws)
  <2>1. /\ TasksOK' /\ Step \in {"find", "grab", "save"}
        /\ \/ lastId' = lastId /\ (Step' \in {"grab", "save"} \/ Failed(Ws))
           \/ lastId' = lastId + 1 /\ Step' = "saved"
    BY <1>1, <1>3, TakeEffect DEF Step
  <2>2. performed[current] # 1 /\ current \in sent /\ answer[current] \in {"none", "lost"}
    BY <1>1, <2>1 DEF ChannelInv, CurrentInv
  <2>3. CASE lastId' = lastId
    <3>1. performed' = performed /\ (Step' \in {"grab", "save"} \/ Failed(Ws))
      BY <1>1, <2>1, <2>3
    <3>2. CurrentInv'
      BY <1>1, <2>1, <2>2, <3>1 DEF ChannelInv, CurrentInv, Step, Failed, wsVars
    <3> QED
      BY <1>1, <1>2, <2>1, <3>1, <3>2 DEF Simulates, ChannelInv, wsVars, Channel!callVars
  <2>4. CASE lastId' = lastId + 1 /\ Step' = "saved"
    <3>1. /\ current \in Commands /\ performed' \in [Commands -> {0, 1}] /\ performed'[current] = 1
          /\ \A c \in Commands : c \notin sent => performed'[c] = 0
          /\ Channel!Perform(current)
      BY <1>1, <2>2, <2>4, EffectIs
    <3>2. CurrentInv'
      BY <1>1, <2>1, <2>2, <2>4, <3>1 DEF ChannelInv, CurrentInv, Step, wsVars
    <3> QED
      BY <1>1, <1>2, <2>1, <2>2, <3>1, <3>2 DEF Simulates, ChannelInv, wsVars, Channel!Next
  <2> QED
    BY <2>1, <2>3, <2>4
<1>4. CASE FetchImage(Ws)
  <2>1. /\ TasksOK' /\ lastId' = lastId /\ Step = "saved"
        /\ Step' = "done" /\ task'[Ws].reply \in {"ok", "failed"}
    BY <1>1, <1>4, FetchEffect DEF Step
  <2>2. performed' = performed /\ performed[current] = 1
    BY <1>1, <2>1 DEF ChannelInv, CurrentInv
  <2>3. CurrentInv'
    BY <1>1, <2>1, <2>2 DEF ChannelInv, CurrentInv, Step, wsVars
  <2> QED
    BY <1>1, <1>2, <2>1, <2>2, <2>3 DEF Simulates, ChannelInv, wsVars, Channel!callVars
<1> QED
  BY <1>3, <1>4 DEF StepSnapshot

LEMMA FinishSimulates ==
  ASSUME ChannelInv, FinishSnapshot
  PROVE  Simulates
<1>1. /\ UNCHANGED <<conn, broken, inbox, current, sent, performed, answer>>
      /\ current # None /\ Kinds[current] = "take_snapshot" /\ outcome' = task[Ws].reply
      /\ Step = "done" /\ Return(Ws) /\ Ws \in Takers /\ TasksOK
  BY ChannelAssumption
     DEF FinishSnapshot, Shooting, Return, ccVars, ChannelInv, Step
<1>2. TasksOK' /\ Step' = "idle"
  BY <1>1, ReturnEffect DEF Step
<1>3. InboxInv'
  BY <1>1, SameInbox
<1>4. CurrentInv'
  BY <1>1, <1>2, ChannelAssumption DEF ChannelInv, CurrentInv, Step
<1> QED
  BY <1>1, <1>2, <1>3, <1>4 DEF Simulates, ChannelInv, Channel!callVars

LEMMA RunAtOnceSimulates ==
  ASSUME ChannelInv, RunAtOnce
  PROVE  Simulates
<1>1. /\ UNCHANGED <<lastId, task, conn, broken, inbox, current, sent, answer>>
      /\ current # None /\ Kinds[current] # "take_snapshot" /\ outcome = None
      /\ \/ Effect /\ outcome' \in {"ok", "failed"}
         \/ performed' = performed /\ outcome' = "failed"
  BY DEF RunAtOnce
<1>2. Step = "idle" /\ current \in sent /\ performed[current] # 1 /\ answer[current] \in {"none", "lost"}
  BY <1>1 DEF ChannelInv, CurrentInv
<1>3. InboxInv'
  BY <1>1, SameInbox
<1>4. Effect =>
        /\ current \in Commands /\ performed' \in [Commands -> {0, 1}] /\ performed'[current] = 1
        /\ \A c \in Commands : c \notin sent => performed'[c] = 0
        /\ Channel!Perform(current)
  BY <1>1, <1>2, EffectIs
<1>5. TasksOK' /\ CurrentInv'
  BY <1>1, <1>2, <1>4, ChannelAssumption DEF ChannelInv, CurrentInv, TasksOK, Step
<1> QED
  BY <1>1, <1>2, <1>3, <1>4, <1>5
     DEF Simulates, ChannelInv, Channel!Next, Channel!callVars

\* On a connection that is not broken, Command Center still waits for the result.
LEMMA SendResultSimulates ==
  ASSUME ChannelInv, SendResult
  PROVE  Simulates
<1>1. /\ UNCHANGED <<lastId, task, sent, performed>>
      /\ current # None /\ outcome \in {"ok", "failed"}
      /\ current' = None /\ outcome' = None
  BY DEF SendResult, snapVars, rowVars, ChannelInv, CurrentInv
<1>2. TasksOK' /\ CurrentInv' /\ current \in Commands
  BY <1>1, ChannelAssumption DEF ChannelInv, TasksOK, CurrentInv, Step
<1>3. current' \notin Commands
  BY <1>1, ChannelAssumption
<1>4. \A i \in 1 .. Len(inbox) : inbox[i] \in Commands
  BY DEF ChannelInv, InboxInv
<1>5. CASE ~broken
  <2>1. /\ answer' = [answer EXCEPT ![current] = outcome]
        /\ UNCHANGED <<conn, broken, inbox>>
    BY <1>5 DEF SendResult
  <2>2. answer[current] = "none" /\ current \in sent
    BY <1>1, <1>5 DEF ChannelInv, CurrentInv
  <2>3. outcome = "ok" => performed[current] = 1
    BY <1>1 DEF ChannelInv, CurrentInv
  <2>4. answer' \in [Commands -> {"none", "ok", "failed", "lost"}]
    BY <1>1, <1>2, <2>1 DEF ChannelInv
  <2>5. \A i \in 1 .. Len(inbox) : answer'[inbox[i]] = answer[inbox[i]]
    BY <1>4, <2>1 DEF ChannelInv, InboxInv
  <2>6. InboxInv'
    BY <1>1, <1>3, <1>4, <2>1, <2>5 DEF ChannelInv, InboxInv, Waiting
  <2>7. Channel!Answer(current)
    BY <1>1, <2>1, <2>2, <2>3 DEF Channel!Answer
  <2>8. \A c \in Commands : c \notin sent => answer'[c] = "none"
    BY <1>2, <2>1, <2>2 DEF ChannelInv
  <2> QED
    BY <1>1, <1>2, <2>4, <2>6, <2>7, <2>8 DEF Simulates, ChannelInv, Channel!Next
<1>6. CASE broken
  <2>1. /\ answer' = answer
        /\ inbox' = <<>> \/ UNCHANGED <<inbox, conn, broken>>
    BY <1>6 DEF SendResult
  <2>2. InboxInv'
    <3>1. CASE inbox' = <<>>
      BY <3>1 DEF InboxInv
    <3>2. CASE UNCHANGED <<inbox, conn, broken>>
      BY <1>1, <1>3, <1>4, <2>1, <3>2 DEF ChannelInv, InboxInv, Waiting
    <3> QED
      BY <2>1, <3>1, <3>2
  <2> QED
    BY <1>1, <1>2, <2>1, <2>2 DEF Simulates, ChannelInv, Channel!callVars
<1> QED
  BY <1>5, <1>6

LEMMA StutterSimulates ==
  ASSUME ChannelInv, UNCHANGED vars
  PROVE  Simulates
BY DEF Simulates, ChannelInv, TasksOK, InboxInv, CurrentInv, Step, Waiting, Channel!callVars,
       vars, snapVars, rowVars, wsVars, ccVars

LEMMA ChannelNextSimulates == ChannelInv /\ [Next]_vars => Simulates
<1> SUFFICES ASSUME ChannelInv, [Next]_vars PROVE Simulates
  OBVIOUS
<1>1. CASE Connect \/ ConnectFails \/ BackoffOver \/ NoticeDrop
  BY <1>1, ConnectingSimulates
<1>2. CASE ConnectionDrops
  BY <1>2, DropSimulates
<1>3. ASSUME NEW c \in Commands, SendCommand(c) PROVE Simulates
  BY <1>3, SendSimulates
<1>4. CASE Receive
  BY <1>4, ReceiveSimulates
<1>5. ASSUME NEW at \in Moments, StartSnapshot(at) PROVE Simulates
  BY <1>5, StartSnapshotSimulates
<1>6. CASE StepSnapshot
  BY <1>6, StepSnapshotSimulates
<1>7. CASE FinishSnapshot
  BY <1>7, FinishSimulates
<1>8. CASE RunAtOnce
  BY <1>8, RunAtOnceSimulates
<1>9. CASE SendResult
  BY <1>9, SendResultSimulates
<1>10. ASSUME NEW t \in Takers \ {Ws}, HttpStep(t) PROVE Simulates
  BY <1>10, HttpStepSimulates
<1>11. CASE Beside
  BY <1>11, BesideSimulates
<1>12. CASE UNCHANGED vars
  BY <1>12, StutterSimulates
<1> QED
  BY <1>1, <1>2, <1>3, <1>4, <1>5, <1>6, <1>7, <1>8, <1>9, <1>10, <1>11, <1>12 DEF Next

\* Whatever connections drop and whatever runs beside the channel, a command
\* (dispatch_command of api/websocket.rs) takes effect at most once and only after
\* it was sent, and Command Center hears "success" only of one that did.
THEOREM ImplementsCallsHolds == Spec => ImplementsCalls
<1>1. ChannelInv /\ [Next]_vars => ChannelInv' /\ [Channel!Next]_(Channel!callVars)
  BY ChannelNextSimulates DEF Simulates
<1> QED
  BY <1>1, ChannelInvInit, PTL DEF Spec, ImplementsCalls, Channel!Spec

-----------------------------------------------------------------------------
(* Snapshots.  What take_snapshot knows of a file it has read the directory *)
(* for stays true while FFmpeg, its restart and the sweep go on, because a  *)
(* number stands for one file as long as FFmpeg is not restarted; and the   *)
(* id of a row for one image, whatever is deleted.                          *)

\* The files are numbered without a gap, and each is one second long: a file
\* begins when the one before it ended.
FilesAre(lo, hi, off) ==
  /\ DOMAIN dir = lo .. hi
  /\ \A s \in lo .. hi : dir[s] \in [begin : Int, end : Int] /\ dir[s].begin = s + off
  /\ \A s \in lo .. hi : s < hi => dir[s].end = s + off + 1
  /\ alive => clock = hi + off

\* The list ends with the newest complete file.
FilesInv ==
  /\ run \in Nat /\ clock \in Int
  /\ DOMAIN dir = {} => ~alive
  /\ listed # {} => Max(listed) = Newest - 1
  /\ DOMAIN dir # {} => \E lo, hi, off \in Int : lo <= hi /\ FilesAre(lo, hi, off)

\* Segment s was complete when it was read, and its file, if it is still there,
\* begins at `start`.
Begins(s, start) ==
  /\ s \in Int /\ s < Newest
  /\ s \in DOMAIN dir => dir[s].begin = start

\* The file that begins at `start` is one FrameIsOfItsTime lets a task use.
Wanted(snap, start) ==
  /\ snap.at # None => start <= snap.at /\ (snap.at < start + 1 \/ start = snap.latest)
  /\ snap.at = None /\ snap.latest # None => start >= snap.latest

\* A complete file is there that begins at `start` or later.
WholeSince(start) == Newest - 1 \in DOMAIN dir /\ dir[Newest - 1].begin >= start

\* What a task knows of the files of the run it has read the directory of.
Knows(t) ==
  LET snap == task[t] IN
  /\ snap.step = "find" =>
       /\ \A s \in DOMAIN snap.timed : Begins(s, snap.timed[s].start)
       /\ snap.latest # None => WholeSince(snap.latest)
  /\ snap.step = "grab" =>
       /\ snap.path \in Int /\ snap.path <= Newest
       /\ snap.frame # None => Begins(snap.path, snap.frame)
       /\ snap.latest # None => snap.path < Newest
       /\ snap.at # None => snap.latest # None
       /\ snap.path \in DOMAIN dir => Wanted(snap, dir[snap.path].begin)

\* FrameIsOfItsTime, of one task.
HasFrame(t) ==
  LET snap == task[t] IN
  snap.step = "save" /\ snap.image.run = snap.run =>
    /\ snap.frame # None => snap.image.begin = snap.frame
    /\ Wanted(snap, snap.image.begin)
    /\ snap.image.whole \/ (snap.latest = None /\ snap.frame = None)

\* A row never changes its image, and its id is never given again.
Owns(t) ==
  LET snap == task[t] IN
  /\ snap.reply = "ok" => snap.step = "done" /\ snap.image = t
  /\ snap.step = "saved" =>
       snap.id \in Int /\ snap.id <= lastId /\ (snap.id \in DOMAIN rows => rows[snap.id] = t)

TaskInv(t) ==
  /\ task[t].run \in Int /\ task[t].run <= run
  /\ task[t].step = "find" => task[t].at = None
  /\ task[t].latest \in Int \union {None}
  /\ task[t].run = run => Knows(t)
  /\ HasFrame(t)
  /\ Owns(t)

SnapshotInv ==
  /\ FilesInv
  /\ \A id \in DOMAIN rows : id \in Int /\ id <= lastId
  /\ \A t \in Takers : TaskInv(t)

LEMMA SnapMaxIs ==
  ASSUME NEW S, NEW m \in S, \A x \in S : x \in Int /\ x <= m
  PROVE  Max(S) = m
<1>1. Max(S) \in S /\ \A x \in S : Max(S) >= x
  BY DEF Max
<1>2. Max(S) \in Int /\ Max(S) <= m /\ m \in Int
  BY <1>1
<1>3. Max(S) >= m
  BY <1>1
<1> QED
  BY <1>2, <1>3

LEMMA SnapMinIs ==
  ASSUME NEW S, NEW m \in S, \A x \in S : x \in Int /\ m <= x
  PROVE  Min(S) = m
<1>1. Min(S) \in S /\ \A x \in S : Min(S) <= x
  BY DEF Min
<1>2. Min(S) \in Int /\ m <= Min(S) /\ m \in Int
  BY <1>1
<1>3. Min(S) <= m
  BY <1>1
<1> QED
  BY <1>2, <1>3

LEMMA RangeMax ==
  ASSUME NEW lo \in Int, NEW hi \in Int, lo <= hi
  PROVE  Max(lo .. hi) = hi
<1>1. hi \in lo .. hi /\ \A x \in lo .. hi : x \in Int /\ x <= hi
  OBVIOUS
<1> QED
  BY <1>1, SnapMaxIs

LEMMA NewestIs ==
  ASSUME NEW lo \in Int, NEW hi \in Int, lo <= hi, DOMAIN dir = lo .. hi
  PROVE  Newest = hi /\ Complete = lo .. hi - 1
<1>1. Newest = hi
  BY RangeMax DEF Newest
<1>2. \A x : x \in Complete <=> x \in lo .. hi - 1
  BY <1>1 DEF Complete
<1> QED
  BY <1>1, <1>2

\* FFmpeg and the sweep: nothing they do to a run changes when the file that
\* a number stands for was begun.
SameRun ==
  /\ run' = run /\ Newest \in Int /\ Newest' \in Int /\ Newest <= Newest'
  /\ \A s \in DOMAIN dir' : s <= Newest => s \in DOMAIN dir /\ dir'[s].begin = dir[s].begin
  /\ \A start \in Int : WholeSince(start) => WholeSince(start)'

LEMMA FileStep ==
  ASSUME FilesInv, Files
  PROVE  /\ FilesInv' /\ UNCHANGED <<rowVars, task>>
         /\ run' = run + 1 \/ SameRun
<1>1. run \in Nat /\ clock \in Int
  BY DEF FilesInv
<1>2. CASE StartFfmpeg
  <2>1. /\ run' = run + 1 /\ UNCHANGED <<clock, rowVars, task>> /\ listed' = {}
        /\ dir' = [s \in {0} |-> [begin |-> clock, end |-> clock]]
    BY <1>2 DEF StartFfmpeg
  <2>2. DOMAIN dir' = {0} /\ dir'[0] \in [begin : Int, end : Int] /\ dir'[0].begin = clock
    BY <1>1, <2>1
  <2>3. 0 .. 0 = {0}
    OBVIOUS
  <2>4. FilesAre(0, 0, clock)'
    BY <1>1, <2>1, <2>2, <2>3 DEF FilesAre
  <2>5. FilesInv'
    BY <1>1, <2>1, <2>2, <2>4 DEF FilesInv
  <2> QED
    BY <2>1, <2>5
<1>3. CASE CompleteSegment \/ FfmpegDies \/ Sweep
  <2>1. DOMAIN dir # {}
    <3>1. CASE DOMAIN dir = {}
      <4>1. ~alive /\ Cardinality(DOMAIN dir) = 0
        BY <3>1, FS_EmptySet DEF FilesInv
      <4> QED
        BY <1>3, <4>1, SnapshotAssumption DEF CompleteSegment, FfmpegDies, Sweep
    <3> QED
      BY <3>1
  <2>2. PICK lo, hi, off \in Int : lo <= hi /\ FilesAre(lo, hi, off)
    BY <2>1 DEF FilesInv
  <2>3. /\ Newest = hi /\ DOMAIN dir = lo .. hi
        /\ \A s \in lo .. hi : dir[s] \in [begin : Int, end : Int] /\ dir[s].begin = s + off
        /\ \A s \in lo .. hi : s < hi => dir[s].end = s + off + 1
        /\ alive => clock = hi + off
    BY <2>2, NewestIs DEF FilesAre
  <2>4. CASE CompleteSegment
    <3>1. /\ alive' = alive /\ alive /\ run' = run /\ clock' = clock + 1
          /\ UNCHANGED <<rowVars, task>>
          /\ listed' = {s \in lo .. hi : s > hi - ListSize}
          /\ dir' = [s \in DOMAIN dir \union {hi + 1} |->
                       IF s = hi + 1 THEN [begin |-> clock', end |-> clock']
                       ELSE IF s = hi THEN [dir[s] EXCEPT !.end = clock'] ELSE dir[s]]
      BY <2>3, <2>4 DEF CompleteSegment
    <3>2. DOMAIN dir' = lo .. hi + 1
      <4>1. \A s : s \in lo .. hi \union {hi + 1} <=> s \in lo .. hi + 1
        BY <2>2
      <4>2. lo .. hi \union {hi + 1} = lo .. hi + 1
        BY <4>1
      <4> QED
        BY <2>3, <3>1, <4>2
    <3>3. /\ dir'[hi + 1] = [begin |-> clock', end |-> clock']
          /\ dir'[hi] = [dir[hi] EXCEPT !.end = clock']
          /\ \A s \in lo .. hi : s # hi => dir'[s] = dir[s]
      BY <2>2, <2>3, <3>1
    <3>4. clock' = hi + off + 1 /\ clock' \in Int
      BY <1>1, <2>3, <3>1
    <3>5. /\ dir'[hi + 1] \in [begin : Int, end : Int] /\ dir'[hi + 1].begin = hi + 1 + off
          /\ dir'[hi] \in [begin : Int, end : Int] /\ dir'[hi].begin = hi + off
          /\ dir'[hi].end = hi + off + 1
      <4>1. dir[hi] \in [begin : Int, end : Int] /\ dir[hi].begin = hi + off
        BY <2>2, <2>3
      <4> QED
        BY <3>3, <3>4, <4>1
    <3>6. ASSUME NEW s \in lo .. hi + 1
          PROVE  /\ dir'[s] \in [begin : Int, end : Int] /\ dir'[s].begin = s + off
                 /\ s < hi + 1 => dir'[s].end = s + off + 1
      <4>1. CASE s = hi + 1
        BY <3>5, <4>1
      <4>2. CASE s = hi
        BY <3>5, <4>2
      <4>3. CASE s \in lo .. hi /\ s < hi
        BY <2>3, <3>3, <4>3
      <4> QED
        BY <4>1, <4>2, <4>3
    <3>7. FilesAre(lo, hi + 1, off)'
      BY <3>2, <3>4, <3>6 DEF FilesAre
    <3>8. lo <= hi + 1 /\ hi + 1 \in Int /\ hi + 1 \in DOMAIN dir'
      BY <2>2, <3>2
    <3>9. Newest' = hi + 1
      BY <3>2, <3>8, RangeMax DEF Newest
    <3>10. Max(listed') = hi
      <4>1. hi \in listed' /\ \A s \in listed' : s \in Int /\ s <= hi
        BY <2>2, <3>1, SnapshotAssumption
      <4> QED
        BY <4>1, SnapMaxIs
    <3>11. FilesInv'
      BY <1>1, <3>1, <3>4, <3>7, <3>8, <3>9, <3>10 DEF FilesInv
    <3>12. ASSUME NEW start \in Int, WholeSince(start) PROVE WholeSince(start)'
      <4>1. hi - 1 \in lo .. hi /\ dir[hi - 1].begin >= start
        BY <2>3, <3>12 DEF WholeSince
      <4>2. start <= hi - 1 + off
        BY <2>3, <4>1
      <4>3. hi \in DOMAIN dir' /\ dir'[hi].begin = hi + off /\ Newest' - 1 = hi
        BY <2>2, <3>2, <3>6, <3>9
      <4>4. dir'[hi].begin >= start
        BY <4>2, <4>3
      <4> QED
        BY <4>3, <4>4 DEF WholeSince
    <3>13. SameRun
      BY <2>3, <3>1, <3>2, <3>6, <3>9, <3>12 DEF SameRun
    <3> QED
      BY <3>1, <3>11, <3>13
  <2>5. CASE FfmpegDies
    <3>1. /\ ~alive' /\ clock' = clock + 1 /\ UNCHANGED <<dir, listed, run, rowVars, task>>
      BY <2>5 DEF FfmpegDies
    <3>2. FilesAre(lo, hi, off)'
      BY <2>3, <3>1 DEF FilesAre
    <3>3. Newest' = Newest
      BY <3>1 DEF Newest
    <3>4. FilesInv'
      BY <1>1, <2>1, <2>2, <3>1, <3>2, <3>3 DEF FilesInv
    <3> QED
      BY <2>3, <3>1, <3>3, <3>4 DEF SameRun, WholeSince
  <2>6. CASE Sweep
    <3> DEFINE low == IF lo > hi - SweepKeep THEN lo ELSE hi - SweepKeep + 1
    <3>1. /\ UNCHANGED <<listed, alive, run, clock, rowVars, task>>
          /\ dir' = [s \in {s \in lo .. hi : s > hi - SweepKeep} |-> dir[s]]
      BY <2>3, <2>6 DEF Sweep, Restrict
    <3>2. low \in Int /\ lo <= low /\ low <= hi /\ (lo < hi => low < hi)
      BY <2>2, SnapshotAssumption
    <3>3. {s \in lo .. hi : s > hi - SweepKeep} = low .. hi
      <4>1. \A s : s \in {r \in lo .. hi : r > hi - SweepKeep} <=> s \in low .. hi
        BY <2>2, SnapshotAssumption
      <4> QED
        BY <4>1
    <3> HIDE DEF low
    <3>4. DOMAIN dir' = low .. hi /\ \A s \in low .. hi : dir'[s] = dir[s] /\ s \in lo .. hi
      BY <3>1, <3>2, <3>3
    <3>5. FilesAre(low, hi, off)'
      BY <2>3, <3>1, <3>4 DEF FilesAre
    <3>6. DOMAIN dir' # {}
      BY <3>2, <3>4
    <3>7. Newest' = hi
      BY <3>2, <3>4, RangeMax DEF Newest
    <3>8. FilesInv'
      BY <1>1, <2>3, <3>1, <3>2, <3>5, <3>6, <3>7 DEF FilesInv
    <3>9. ASSUME NEW start \in Int, WholeSince(start) PROVE WholeSince(start)'
      <4>1. hi - 1 \in lo .. hi /\ dir[hi - 1].begin >= start
        BY <2>3, <3>9 DEF WholeSince
      <4>2. hi - 1 \in low .. hi
        BY <2>2, <3>2, <4>1
      <4> QED
        BY <3>4, <3>7, <4>1, <4>2 DEF WholeSince
    <3> QED
      BY <2>3, <3>1, <3>4, <3>7, <3>8, <3>9 DEF SameRun
  <2> QED
    BY <1>3, <2>4, <2>5, <2>6
<1> QED
  BY <1>2, <1>3 DEF Files

LEMMA TaskUnderFiles ==
  ASSUME FilesInv, NEW t \in Takers, TaskInv(t), UNCHANGED <<rowVars, task>>,
         run' = run + 1 \/ SameRun
  PROVE  TaskInv(t)'
<1>1. run \in Nat /\ task[t].run \in Int /\ task[t].run <= run
  BY DEF FilesInv, TaskInv
<1>2. Owns(t)' /\ HasFrame(t)'
  BY DEF TaskInv, Owns, HasFrame, rowVars
<1>3. CASE run' = run + 1
  <2>1. task[t].run # run' /\ task[t].run <= run'
    BY <1>1, <1>3
  <2> QED
    BY <1>1, <1>2, <2>1 DEF TaskInv
<1>4. CASE SameRun
  <2>1. ASSUME task[t].run = run
        PROVE  Knows(t)'
    <3>1. Knows(t)
      BY <2>1 DEF TaskInv
    <3>2. \A s, start : Begins(s, start) => Begins(s, start)'
      BY <1>4 DEF SameRun, Begins
    <3>3. \A s \in Int : s <= Newest => s <= Newest'
      BY <1>4 DEF SameRun
    <3>4. \A s \in Int : s < Newest => s < Newest'
      BY <1>4 DEF SameRun
    <3>5. task[t].step = "find" =>
            \A s \in DOMAIN task[t].timed : Begins(s, task[t].timed[s].start)'
      BY <3>1, <3>2 DEF Knows
    <3>6. task[t].step = "grab" /\ task[t].frame # None => Begins(task[t].path, task[t].frame)'
      BY <3>1, <3>2 DEF Knows
    <3>7. task[t].step = "grab" => task[t].path \in Int /\ task[t].path <= Newest'
      BY <3>1, <3>3 DEF Knows
    <3>8. task[t].step = "grab" /\ task[t].latest # None => task[t].path < Newest'
      BY <3>1, <3>4 DEF Knows
    <3>9. task[t].step = "grab" /\ task[t].path \in DOMAIN dir' =>
            Wanted(task[t], dir'[task[t].path].begin)
      BY <1>4, <3>1 DEF Knows, SameRun
    <3>10. task[t].step = "find" /\ task[t].latest # None => WholeSince(task[t].latest)'
      BY <1>4, <3>1 DEF Knows, SameRun, TaskInv
    <3> QED
      BY <3>1, <3>5, <3>6, <3>7, <3>8, <3>9, <3>10 DEF Knows, Wanted
  <2>2. run' = run
    BY <1>4 DEF SameRun
  <2> QED
    BY <1>1, <1>2, <2>1, <2>2 DEF TaskInv
<1> QED
  BY <1>3, <1>4

-----------------------------------------------------------------------------
\* timed_segments: each complete file with the second it covers.
LEMMA TimedIs ==
  ASSUME NEW lo \in Int, NEW hi \in Int, NEW off \in Int, lo <= hi, FilesAre(lo, hi, off)
  PROVE  /\ DOMAIN TimedSegments = lo .. hi - 1
         /\ \A s \in lo .. hi - 1 : /\ TimedSegments[s].start = s + off
                                    /\ TimedSegments[s].end = s + off + 1
<1>1. /\ DOMAIN dir = lo .. hi /\ Complete = lo .. hi - 1
      /\ \A s \in lo .. hi : s < hi => dir[s].end = s + off + 1
  BY NewestIs DEF FilesAre
<1>2. dir # <<>>
  <2>1. lo \in DOMAIN dir
    BY <1>1
  <2>2. 1 .. 0 = {}
    OBVIOUS
  <2> QED
    BY <2>1, <2>2
<1>3. TimedSegments = [s \in lo .. hi - 1 |-> [start |-> StartOf(s), end |-> dir[s].end]]
  BY <1>1, <1>2 DEF TimedSegments
<1>4. ASSUME NEW s \in lo .. hi - 1
      PROVE  StartOf(s) = s + off
  <2> DEFINE before == {p \in lo .. hi - 1 : p < s}
  <2>1. StartOf(s) = IF before = {} THEN dir[s].end - 1 ELSE dir[Max(before)].end
    BY <1>1 DEF StartOf
  <2>2. CASE s = lo
    <3>1. before = {}
      BY <2>2
    <3>2. dir[s].end = s + off + 1
      BY <1>1
    <3> QED
      BY <2>1, <3>1, <3>2
  <2>3. CASE s > lo
    <3>1. s - 1 \in before /\ \A p \in before : p \in Int /\ p <= s - 1
      BY <2>3
    <3>2. dir[s - 1].end = s + off
      BY <1>1, <2>3
    <3> HIDE DEF before
    <3>3. Max(before) = s - 1
      BY <3>1, SnapMaxIs
    <3> QED
      BY <2>1, <3>1, <3>2, <3>3
  <2> QED
    BY <2>2, <2>3
<1> QED
  BY <1>1, <1>3, <1>4

LEMMA NothingTimed ==
  ASSUME DOMAIN TimedSegments = {} PROVE TimedSegments = <<>>
<1> DEFINE timed == IF dir = <<>> THEN {} ELSE Complete
<1>1. TimedSegments = [s \in timed |-> [start |-> StartOf(s), end |-> dir[s].end]]
  BY DEF TimedSegments
<1>2. timed = {}
  BY <1>1
<1> HIDE DEF timed
<1> QED
  BY <1>1, <1>2

\* The newest complete file, if there are two.
LEMMA WholeIs ==
  /\ DOMAIN dir = {} => NewestWhole = None
  /\ \A lo, hi, off \in Int :
       lo <= hi /\ FilesAre(lo, hi, off) =>
         NewestWhole = IF lo = hi THEN None ELSE hi - 1 + off
<1>1. DOMAIN dir = {} => NewestWhole = None
  BY FS_EmptySet DEF NewestWhole
<1>2. ASSUME NEW lo \in Int, NEW hi \in Int, NEW off \in Int, lo <= hi, FilesAre(lo, hi, off)
      PROVE  NewestWhole = IF lo = hi THEN None ELSE hi - 1 + off
  <2>1. Newest = hi /\ DOMAIN dir = lo .. hi /\ Cardinality(lo .. hi) = hi - lo + 1
    <3>1. DOMAIN dir = lo .. hi
      BY <1>2 DEF FilesAre
    <3>2. Newest = hi
      BY <1>2, <3>1, NewestIs
    <3>3. Cardinality(lo .. hi) = IF lo > hi THEN 0 ELSE hi - lo + 1
      BY FS_Interval
    <3> QED
      BY <1>2, <3>1, <3>2, <3>3
  <2>2. lo < hi => dir[hi - 1].begin = hi - 1 + off
    BY <1>2 DEF FilesAre
  <2> QED
    BY <1>2, <2>1, <2>2 DEF NewestWhole
<1> QED
  BY <1>1, <1>2

\* segment_at: a moment that is retained gets the segment that held it, or the
\* newest complete one.
LEMMA SegmentAtIs ==
  ASSUME NEW lo \in Int, NEW hi \in Int, NEW off \in Int, lo < hi, FilesAre(lo, hi, off),
         NEW at \in Int, Retained(TimedSegments, at)
  PROVE  /\ SegmentAt(TimedSegments, at) \in lo .. hi - 1
         /\ SegmentAt(TimedSegments, at) + off <= at
         /\ \/ at < SegmentAt(TimedSegments, at) + off + 1
            \/ SegmentAt(TimedSegments, at) = hi - 1
<1> DEFINE timed == TimedSegments
           after == {s \in lo .. hi - 1 : s + off + 1 > at}
<1>1. /\ DOMAIN timed = lo .. hi - 1
      /\ \A s \in lo .. hi - 1 : timed[s].start = s + off /\ timed[s].end = s + off + 1
  BY TimedIs
<1>2. lo \in lo .. hi - 1 /\ \A s \in lo .. hi - 1 : s \in Int /\ lo <= s
  OBVIOUS
<1>3. Min(lo .. hi - 1) = lo
  BY <1>2, SnapMinIs
<1>4. at >= lo + off
  BY <1>1, <1>2, <1>3 DEF Retained
<1>5. {s \in lo .. hi - 1 : timed[s].end > at} = after
  BY <1>1
<1>6. SegmentAt(timed, at) = IF after = {} THEN Max(lo .. hi - 1) ELSE Min(after)
  BY <1>1, <1>5 DEF SegmentAt
<1> HIDE DEF timed
<1>7. CASE after = {}
  <2>1. hi - 1 \in lo .. hi - 1 /\ Max(lo .. hi - 1) = hi - 1
    BY RangeMax
  <2>2. ~(hi - 1 + off + 1 > at)
    BY <1>7, <2>1
  <2> QED
    BY <1>6, <1>7, <2>1, <2>2 DEF timed
<1>8. CASE after # {}
  <2>1. PICK s : s \in lo .. hi - 1 /\ s + off + 1 > at
    BY <1>8
  <2>2. at - off \in after /\ \A r \in after : r \in Int /\ at - off <= r
    BY <1>4, <2>1
  <2> HIDE DEF after
  <2>3. Min(after) = at - off
    BY <2>2, SnapMinIs
  <2>4. at - off \in lo .. hi - 1
    BY <2>2 DEF after
  <2> QED
    BY <1>6, <1>8, <2>3, <2>4 DEF timed
<1> QED
  BY <1>7, <1>8

-----------------------------------------------------------------------------
\* The others are not concerned by what one task does.
LEMMA OthersKeep ==
  ASSUME NEW t \in Takers, TaskInv(t), task'[t] = task[t], UNCHANGED <<fileVars, rowVars>>
  PROVE  TaskInv(t)'
BY DEF TaskInv, Owns, HasFrame, Knows, Begins, WholeSince, Newest, fileVars, rowVars

\* A task that is idle or has its reply, and no image of its own to name.
LEMMA RestingKeeps ==
  ASSUME FilesInv, NEW t \in Takers,
         task'[t].run = 0, task'[t].latest = None, UNCHANGED run,
         task'[t].step = "idle" \/ task'[t].step = "done",
         task'[t].reply = "ok" => task'[t].step = "done" /\ task'[t].image = t
  PROVE  TaskInv(t)'
<1>1. run \in Nat
  BY DEF FilesInv
<1> QED
  BY <1>1 DEF TaskInv, Owns, HasFrame, Knows

LEMMA RestingFields ==
  /\ Idle.run = 0 /\ Idle.latest = None /\ Idle.step = "idle" /\ Idle.reply # "ok"
  /\ \A image : LET next == Replied("failed", image)
                IN next.run = 0 /\ next.latest = None /\ next.step = "done" /\ next.reply # "ok"
  /\ \A image : LET next == Replied("ok", image)
                IN next.run = 0 /\ next.latest = None /\ next.step = "done" /\ next.image = image
BY ChannelAssumption DEF Idle, Replied

LEMMA FailKeeps ==
  ASSUME FilesInv, TasksOK, NEW t \in Takers, Fail(t), UNCHANGED run
  PROVE  TaskInv(t)'
<1> DEFINE next == Replied("failed", None)
<1>1. next.run = 0 /\ next.latest = None /\ next.step = "done" /\ next.reply # "ok"
  BY RestingFields
<1>2. task'[t] = next
  BY DEF Fail, TasksOK
<1> HIDE DEF next
<1> QED
  BY <1>1, <1>2, RestingKeeps

LEMMA ScanKeeps ==
  ASSUME FilesInv, TasksOK, NEW t \in Takers, NEW at \in Int \union {None}, ScanSegments(t, at)
  PROVE  TaskInv(t)'
<1> DEFINE timed == TimedSegments
           asked == [Idle EXCEPT !.at = at, !.run = run, !.latest = NewestWhole]
           s == SegmentAt(timed, at)
           found == [asked EXCEPT !.step = "find", !.timed = timed]
           chosen == [asked EXCEPT !.step = "grab", !.path = s, !.frame = FrameTime(timed, s)]
<1>1. /\ UNCHANGED <<run, dir, lastId, rows>> /\ run \in Nat
      /\ task'[t] = IF at = None THEN found
                    ELSE IF timed = <<>> \/ ~Retained(timed, at) THEN Replied("failed", None)
                    ELSE chosen
  BY DEF ScanSegments, FilesInv, TasksOK, fileVars, rowVars
<1>2. DOMAIN dir = {} => DOMAIN timed = {}
  BY DEF TimedSegments, Complete
<1>3. ASSUME DOMAIN dir # {}
      PROVE  \E lo, hi, off \in Int :
               /\ lo <= hi /\ FilesAre(lo, hi, off) /\ Newest = hi /\ DOMAIN dir = lo .. hi
               /\ \A r \in lo .. hi : dir[r].begin = r + off
               /\ DOMAIN timed = lo .. hi - 1
               /\ \A r \in lo .. hi - 1 : timed[r].start = r + off
               /\ NewestWhole = IF lo = hi THEN None ELSE hi - 1 + off
  <2>1. PICK lo, hi, off \in Int : lo <= hi /\ FilesAre(lo, hi, off)
    BY <1>3 DEF FilesInv
  <2>2. /\ DOMAIN timed = lo .. hi - 1
        /\ \A r \in lo .. hi - 1 : timed[r].start = r + off
    BY <2>1, TimedIs
  <2>3. DOMAIN dir = lo .. hi /\ \A r \in lo .. hi : dir[r].begin = r + off
    BY <2>1 DEF FilesAre
  <2>4. Newest = hi
    BY <2>1, <2>3, NewestIs
  <2>5. NewestWhole = IF lo = hi THEN None ELSE hi - 1 + off
    BY <2>1, WholeIs
  <2> HIDE DEF timed
  <2> QED
    BY <2>1, <2>2, <2>3, <2>4, <2>5
<1>7. NewestWhole # None => WholeSince(NewestWhole) /\ NewestWhole \in Int
  <2>1. CASE DOMAIN dir = {}
    BY <2>1, WholeIs
  <2>2. CASE DOMAIN dir # {}
    BY <1>3, <2>2 DEF WholeSince
  <2> QED
    BY <2>1, <2>2
<1> HIDE DEF timed
<1>4. CASE at = None
  <2>1. /\ task'[t].run = run /\ task'[t].step = "find" /\ task'[t].at = None
        /\ task'[t].timed = timed /\ task'[t].reply = None /\ task'[t].latest = NewestWhole
    <3>1. task'[t] = found
      BY <1>1, <1>4
    <3> QED
      BY <1>4, <3>1 DEF Idle
  <2>2. \A r \in DOMAIN timed : Begins(r, timed[r].start)
    <3>1. CASE DOMAIN dir = {}
      BY <1>2, <3>1
    <3>2. CASE DOMAIN dir # {}
      BY <1>3, <3>2 DEF Begins
    <3> QED
      BY <3>1, <3>2
  <2>3. \A r, start : Begins(r, start)' <=> Begins(r, start)
    BY <1>1 DEF Begins, Newest
  <2>4. Knows(t)'
    <3>1. \A start : WholeSince(start)' <=> WholeSince(start)
      BY <1>1 DEF WholeSince, Newest
    <3>2. task'[t].latest # None => WholeSince(task[t].latest)'
      BY <1>7, <2>1, <3>1
    <3> QED
      BY <2>1, <2>2, <2>3, <3>2 DEF Knows
  <2> QED
    BY <1>1, <1>7, <2>1, <2>4, ChannelAssumption DEF TaskInv, Owns, HasFrame
<1>5. CASE at # None /\ (timed = <<>> \/ ~Retained(timed, at))
  BY <1>1, <1>5, RestingFields, RestingKeeps
<1>6. CASE at # None /\ timed # <<>> /\ Retained(timed, at)
  <2>1. at \in Int
    BY <1>6
  <2>2. DOMAIN timed # {}
    BY <1>6, NothingTimed DEF timed
  <2>3. PICK lo, hi, off \in Int :
               /\ lo <= hi /\ FilesAre(lo, hi, off) /\ Newest = hi /\ DOMAIN dir = lo .. hi
               /\ \A r \in lo .. hi : dir[r].begin = r + off
               /\ DOMAIN timed = lo .. hi - 1
               /\ \A r \in lo .. hi - 1 : timed[r].start = r + off
               /\ NewestWhole = IF lo = hi THEN None ELSE hi - 1 + off
    BY <1>2, <1>3, <2>2
  <2>4. lo < hi
    BY <2>2, <2>3
  <2>5. s \in lo .. hi - 1 /\ s + off <= at /\ (at < s + off + 1 \/ s = hi - 1)
    BY <1>6, <2>1, <2>3, <2>4, SegmentAtIs DEF timed
  <2>6. FrameTime(timed, s) = s + off
    BY <2>3, <2>5 DEF FrameTime
  <2> HIDE DEF s
  <2>7. /\ task'[t].run = run /\ task'[t].step = "grab" /\ task'[t].at = at
        /\ task'[t].path = s /\ task'[t].frame = s + off /\ task'[t].reply = None
        /\ task'[t].latest = hi - 1 + off
    <3>1. task'[t] = chosen /\ NewestWhole = hi - 1 + off
      BY <1>1, <1>6, <2>3, <2>4
    <3> QED
      BY <2>6, <3>1 DEF Idle
  <2>8. Knows(t)'
    <3>1. UNCHANGED Newest /\ s \in Int /\ s < Newest /\ s \in lo .. hi
      BY <1>1, <2>3, <2>5 DEF Newest
    <3>2. dir'[s].begin = s + off
      BY <1>1, <2>3, <3>1
    <3>3. Wanted(task'[t], s + off)
      <4>1. (at < s + off + 1 \/ s + off = hi - 1 + off) /\ s + off <= at
        BY <2>3, <2>5
      <4> QED
        BY <1>6, <2>7, <4>1 DEF Wanted
    <3> QED
      BY <2>3, <2>5, <2>7, <3>1, <3>2, <3>3, SnapshotAssumption DEF Knows, Begins
  <2> QED
    BY <1>1, <2>3, <2>7, <2>8, ChannelAssumption DEF TaskInv, Owns, HasFrame
<1> QED
  BY <1>4, <1>5, <1>6

\* What a task chooses is a file of the directory as it is now: the newest
\* complete one, if there is one.
LEMMA LatestIs ==
  ASSUME FilesInv, NEW s \in LatestSegment
  PROVE  /\ s \in DOMAIN dir /\ s \in Int /\ s <= Newest /\ Newest \in Int
         /\ Newest - 1 \in DOMAIN dir => s = Newest - 1
<1>1. CASE listed # {} /\ Max(listed) \in DOMAIN dir
  <2>1. s = Newest - 1 /\ s \in DOMAIN dir
    BY <1>1 DEF LatestSegment, FilesInv
  <2>2. PICK lo, hi, off \in Int : lo <= hi /\ FilesAre(lo, hi, off)
    BY <2>1 DEF FilesInv
  <2>3. DOMAIN dir = lo .. hi /\ Newest = hi
    BY <2>2, NewestIs DEF FilesAre
  <2> QED
    BY <2>1, <2>3
<1>2. CASE ~(listed # {} /\ Max(listed) \in DOMAIN dir)
  <2>1. s \in LastFromFs
    BY <1>2 DEF LatestSegment
  <2>2. DOMAIN dir # {}
    BY <2>1, FS_EmptySet DEF LastFromFs
  <2>3. PICK lo, hi, off \in Int : lo <= hi /\ FilesAre(lo, hi, off)
    BY <2>2 DEF FilesInv
  <2>4. /\ DOMAIN dir = lo .. hi /\ Newest = hi /\ Complete = lo .. hi - 1
        /\ Cardinality(lo .. hi) = hi - lo + 1
    <3>1. DOMAIN dir = lo .. hi
      BY <2>3 DEF FilesAre
    <3>2. Newest = hi /\ Complete = lo .. hi - 1
      BY <2>3, <3>1, NewestIs
    <3>3. Cardinality(lo .. hi) = IF lo > hi THEN 0 ELSE hi - lo + 1
      BY FS_Interval
    <3> QED
      BY <2>3, <3>1, <3>2, <3>3
  <2>5. CASE lo = hi
    BY <2>1, <2>4, <2>5 DEF LastFromFs
  <2>6. CASE lo < hi
    <3>1. lo <= hi - 1 /\ Max(lo .. hi - 1) = hi - 1
      BY <2>3, <2>6, RangeMax
    <3>2. s = hi - 1
      BY <2>1, <2>4, <2>6, <3>1 DEF LastFromFs
    <3> QED
      BY <2>4, <3>1, <3>2
  <2> QED
    BY <2>3, <2>5, <2>6
<1> QED
  BY <1>1, <1>2

LEMMA FindKeeps ==
  ASSUME FilesInv, TasksOK, NEW t \in Takers, TaskInv(t), FindLatest(t)
  PROVE  TaskInv(t)'
<1>1. /\ task[t].step = "find" /\ task[t].at = None
      /\ DOMAIN task[t] = DOMAIN Idle /\ UNCHANGED <<run, dir, lastId, rows>>
  BY DEF FindLatest, TaskInv, TasksOK, fileVars, rowVars
<1>2. CASE LatestSegment = {}
  BY <1>1, <1>2, FailKeeps DEF FindLatest
<1>3. CASE LatestSegment # {}
  <2>1. PICK s \in LatestSegment :
          task' = [task EXCEPT ![t].step = "grab", ![t].path = s, ![t].timed = <<>>,
                     ![t].frame = FrameTime(task[t].timed, s)]
    BY <1>3 DEF FindLatest
  <2> DEFINE frame == FrameTime(task[t].timed, s)
             next == [task[t] EXCEPT !.step = "grab", !.path = s, !.timed = <<>>, !.frame = frame]
  <2>2. task'[t] = next
    <3> HIDE DEF frame
    <3> QED
      BY <2>1 DEF TasksOK, frame
  <2>3. /\ task'[t].step = "grab" /\ task'[t].path = s /\ task'[t].frame = frame
        /\ task'[t].at = task[t].at /\ task'[t].run = task[t].run /\ task'[t].reply = task[t].reply
        /\ task'[t].latest = task[t].latest
    <3> HIDE DEF frame
    <3> QED
      BY <1>1, <2>2 DEF Idle
  <2>4. /\ s \in DOMAIN dir /\ s \in Int /\ s <= Newest /\ Newest \in Int
        /\ Newest - 1 \in DOMAIN dir => s = Newest - 1
    BY LatestIs
  <2>5. frame # None => s \in DOMAIN task[t].timed /\ frame = task[t].timed[s].start
    BY DEF FrameTime
  <2> HIDE DEF frame, next
  <2>6. ASSUME task[t].run = run
        PROVE  Knows(t)'
    <3>1. \A r \in DOMAIN task[t].timed : Begins(r, task[t].timed[r].start)
      BY <1>1, <2>6 DEF TaskInv, Knows
    <3>2. frame # None => Begins(s, frame)
      BY <2>5, <3>1
    <3>3. UNCHANGED Newest
      BY <1>1 DEF Newest
    <3>4. \A r, start : Begins(r, start)' <=> Begins(r, start)
      BY <1>1, <3>3 DEF Begins
    <3>5. task[t].latest # None => WholeSince(task[t].latest)
      BY <1>1, <2>6 DEF TaskInv, Knows
    <3>6. task[t].latest # None => s < Newest /\ dir[s].begin >= task[t].latest
      BY <2>4, <3>5 DEF WholeSince
    <3>7. Wanted(task'[t], dir[s].begin)
      BY <1>1, <2>3, <3>6 DEF Wanted
    <3> QED
      BY <1>1, <2>3, <2>4, <3>2, <3>3, <3>4, <3>6, <3>7 DEF Knows
  <2>7. task[t].reply # "ok"
    BY <1>1 DEF TaskInv, Owns
  <2> QED
    BY <1>1, <2>3, <2>6, <2>7 DEF TaskInv, Owns, HasFrame
<1> QED
  BY <1>2, <1>3

LEMMA GrabKeeps ==
  ASSUME FilesInv, TasksOK, NEW t \in Takers, TaskInv(t), GrabFrame(t)
  PROVE  TaskInv(t)'
<1>1. /\ task[t].step = "grab" /\ task[t].path \in DOMAIN dir
      /\ DOMAIN task[t] = DOMAIN Idle /\ UNCHANGED <<run, dir, lastId, rows>>
  BY DEF GrabFrame, TasksOK, fileVars, rowVars
<1> DEFINE image == [run |-> run, begin |-> dir[task[t].path].begin,
                     whole |-> task[t].path # Newest]
           next == [task[t] EXCEPT !.step = "save", !.path = None, !.image = image]
<1>2. task'[t] = next
  <2>1. task' = [task EXCEPT ![t].step = "save", ![t].path = None, ![t].image = image]
    BY DEF GrabFrame
  <2> HIDE DEF image
  <2> QED
    BY <2>1 DEF TasksOK
<1>3. /\ task'[t].step = "save" /\ task'[t].image = image /\ task'[t].frame = task[t].frame
      /\ task'[t].at = task[t].at /\ task'[t].run = task[t].run /\ task'[t].reply = task[t].reply
      /\ task'[t].latest = task[t].latest
  <2> HIDE DEF image
  <2> QED
    BY <1>1, <1>2 DEF Idle
<1>4. /\ image.run = run /\ image.begin = dir[task[t].path].begin
      /\ image.whole <=> task[t].path # Newest
  OBVIOUS
<1> HIDE DEF image, next
<1>5. ASSUME task[t].run = run
      PROVE  HasFrame(t)'
  <2>1. Knows(t)
    BY <1>5 DEF TaskInv
  <2>2. task[t].frame # None => Begins(task[t].path, task[t].frame)
    BY <1>1, <2>1 DEF Knows
  <2>3. /\ task[t].path \in Int
        /\ task[t].latest # None => task[t].path < Newest
        /\ Wanted(task[t], image.begin)
    BY <1>1, <1>4, <2>1 DEF Knows
  <2>4. Newest \in Int
    <3>1. PICK lo, hi, off \in Int : lo <= hi /\ FilesAre(lo, hi, off)
      BY <1>1 DEF FilesInv
    <3> QED
      BY <3>1, NewestIs DEF FilesAre
  <2>5. task[t].path < Newest => image.whole
    BY <1>4, <2>3, <2>4
  <2>6. task[t].frame # None => image.whole /\ image.begin = task[t].frame
    BY <1>1, <1>4, <2>2, <2>5 DEF Begins
  <2>7. task[t].latest # None => image.whole
    BY <2>3, <2>5
  <2>8. Wanted(task'[t], task'[t].image.begin)
    BY <1>3, <2>3 DEF Wanted
  <2> QED
    BY <1>3, <2>6, <2>7, <2>8 DEF HasFrame
<1>6. task[t].run # run => HasFrame(t)'
  BY <1>3, <1>4 DEF HasFrame
<1>7. task[t].reply # "ok"
  BY <1>1 DEF TaskInv, Owns
<1> QED
  BY <1>1, <1>3, <1>5, <1>6, <1>7 DEF TaskInv, Owns, Knows

LEMMA FetchKeeps ==
  ASSUME FilesInv, TasksOK, NEW t \in Takers, TaskInv(t), FetchImage(t)
  PROVE  TaskInv(t)'
<1>1. task[t].step = "saved" /\ UNCHANGED run
  BY DEF FetchImage, fileVars
<1>2. CASE task[t].id \in DOMAIN rows
  <2> DEFINE next == Replied("ok", rows[task[t].id])
  <2>1. rows[task[t].id] = t
    BY <1>1, <1>2 DEF TaskInv, Owns
  <2>2. next.run = 0 /\ next.latest = None /\ next.step = "done" /\ next.image = t
    BY <2>1, RestingFields
  <2>3. task'[t] = next
    BY <1>2 DEF FetchImage, TasksOK
  <2> HIDE DEF next
  <2> QED
    BY <1>1, <2>2, <2>3, RestingKeeps
<1>3. CASE task[t].id \notin DOMAIN rows
  BY <1>1, <1>3, FailKeeps DEF FetchImage
<1> QED
  BY <1>2, <1>3

LEMMA ReturnKeeps ==
  ASSUME FilesInv, TasksOK, NEW t \in Takers, Return(t) \/ AnswerWithId(t)
  PROVE  TaskInv(t)'
<1>1. UNCHANGED run /\ task'[t] = Idle
  BY DEF Return, AnswerWithId, fileVars, TasksOK
<1> QED
  BY <1>1, RestingFields, RestingKeeps

\* Rows that go, and one row with a new id, take nothing away from what the
\* tasks own.
LEMMA RowsKeep ==
  ASSUME NEW t \in Takers, TaskInv(t), task'[t] = task[t], UNCHANGED fileVars,
         lastId \in Int, lastId' \in Int, lastId <= lastId',
         \A id \in DOMAIN rows' : id \in Int /\ id <= lastId =>
           id \in DOMAIN rows /\ rows'[id] = rows[id]
  PROVE  TaskInv(t)'
<1>1. Owns(t)'
  BY DEF TaskInv, Owns
<1> QED
  BY <1>1 DEF TaskInv, HasFrame, Knows, Begins, WholeSince, Newest, fileVars

LEMMA SaveKeeps ==
  ASSUME SnapshotInv, TasksOK, NEW t \in Takers, SaveSnapshot(t)
  PROVE  SnapshotInv'
<1> DEFINE next == Saved(lastId + 1)
<1>1. /\ lastId' = lastId + 1 /\ UNCHANGED fileVars /\ lastId \in Nat
      /\ rows' = [id \in DOMAIN rows \union {lastId + 1} |-> IF id = lastId + 1 THEN t ELSE rows[id]]
      /\ task' = [task EXCEPT ![t] = next]
  BY DEF SaveSnapshot, TasksOK
<1>2. next.step = "saved" /\ next.id = lastId + 1 /\ next.run = 0 /\ next.latest = None /\ next.reply # "ok"
  BY ChannelAssumption DEF Saved, Idle
<1> HIDE DEF next
<1>3. /\ DOMAIN rows' = DOMAIN rows \union {lastId + 1} /\ rows'[lastId + 1] = t
      /\ \A id \in DOMAIN rows : id # lastId + 1 => rows'[id] = rows[id]
  BY <1>1
<1>4. \A id \in DOMAIN rows' : id \in Int /\ id <= lastId'
  BY <1>1, <1>3 DEF SnapshotInv
<1>5. \A id \in DOMAIN rows' : id <= lastId => id \in DOMAIN rows /\ rows'[id] = rows[id]
  BY <1>1, <1>3
<1>6. FilesInv'
  BY <1>1 DEF SnapshotInv, FilesInv, FilesAre, Newest, fileVars
<1>7. task'[t] = next
  BY <1>1 DEF TasksOK
<1>8. TaskInv(t)'
  <2>1. Owns(t)'
    BY <1>1, <1>2, <1>3, <1>7 DEF Owns
  <2>2. run' = run /\ run \in Nat
    BY <1>1 DEF SnapshotInv, FilesInv, fileVars
  <2> QED
    BY <1>2, <1>7, <2>1, <2>2 DEF TaskInv, HasFrame, Knows
<1>9. ASSUME NEW u \in Takers, u # t
      PROVE  TaskInv(u)'
  <2>1. task'[u] = task[u] /\ TaskInv(u)
    BY <1>1, <1>9 DEF TasksOK, SnapshotInv
  <2>2. lastId' \in Int /\ lastId <= lastId'
    BY <1>1
  <2> QED
    BY <1>1, <1>5, <2>1, <2>2, RowsKeep
<1> QED
  BY <1>4, <1>6, <1>8, <1>9 DEF SnapshotInv

\* take_snapshot, by any task.
Steps(t) ==
  \/ \E at \in Int \union {None} : ScanSegments(t, at)
  \/ Take(t) \/ FetchImage(t) \/ AnswerWithId(t) \/ Return(t)

LEMMA StepKeeps ==
  ASSUME SnapshotInv, TasksOK, NEW t \in Takers, Steps(t)
  PROVE  SnapshotInv'
<1>1. CASE SaveSnapshot(t)
  BY <1>1, SaveKeeps
<1>2. CASE ~SaveSnapshot(t)
  <2>1. UNCHANGED <<fileVars, rowVars>>
    BY <1>2 DEF Steps, Take, ScanSegments, FindLatest, GrabFrame, GrabFails, SaveSkipped,
                FetchImage, AnswerWithId, Return
  <2>2. \A u \in Takers \ {t} : task'[u] = task[u]
    BY <1>2 DEF Steps, Take, ScanSegments, FindLatest, GrabFrame, GrabFails, SaveSkipped,
                FetchImage, AnswerWithId, Return, Fail, TasksOK
  <2>3. FilesInv /\ TaskInv(t) /\ UNCHANGED run
    BY <2>1 DEF SnapshotInv, fileVars
  <2>4. TaskInv(t)'
    <3>1. CASE \E at \in Int \union {None} : ScanSegments(t, at)
      BY <2>3, <3>1, ScanKeeps
    <3>2. CASE FindLatest(t)
      BY <2>3, <3>2, FindKeeps
    <3>3. CASE GrabFrame(t)
      BY <2>3, <3>3, GrabKeeps
    <3>4. CASE GrabFails(t) \/ SaveSkipped(t)
      BY <2>3, <3>4, FailKeeps DEF GrabFails, SaveSkipped
    <3>5. CASE FetchImage(t)
      BY <2>3, <3>5, FetchKeeps
    <3>6. CASE AnswerWithId(t) \/ Return(t)
      BY <2>3, <3>6, ReturnKeeps
    <3> QED
      BY <1>2, <3>1, <3>2, <3>3, <3>4, <3>5, <3>6 DEF Steps, Take
  <2>5. ASSUME NEW u \in Takers, u # t
        PROVE  TaskInv(u)'
    BY <2>1, <2>2, <2>5, OthersKeep DEF SnapshotInv
  <2>6. FilesInv'
    BY <2>1 DEF SnapshotInv, FilesInv, FilesAre, Newest, fileVars
  <2>7. \A id \in DOMAIN rows' : id \in Int /\ id <= lastId'
    BY <2>1 DEF SnapshotInv, rowVars
  <2> QED
    BY <2>4, <2>5, <2>6, <2>7 DEF SnapshotInv
<1> QED
  BY <1>1, <1>2

\* Deletions and a wipe.
LEMMA DeletionKeeps ==
  ASSUME SnapshotInv, TasksOK, UNCHANGED <<fileVars, lastId, task>>,
         \A id \in DOMAIN rows' : id \in DOMAIN rows /\ rows'[id] = rows[id]
  PROVE  SnapshotInv'
<1>1. lastId \in Int /\ lastId' \in Int /\ lastId <= lastId'
  BY DEF TasksOK
<1>2. \A t \in Takers : TaskInv(t)'
  BY <1>1, RowsKeep DEF SnapshotInv
<1>3. FilesInv'
  BY DEF SnapshotInv, FilesInv, FilesAre, Newest, fileVars
<1>4. \A id \in DOMAIN rows' : id \in Int /\ id <= lastId'
  BY DEF SnapshotInv
<1> QED
  BY <1>2, <1>3, <1>4 DEF SnapshotInv

LEMMA SnapshotInvInit == Init => SnapshotInv
<1> SUFFICES ASSUME Init PROVE SnapshotInv
  OBVIOUS
<1>1. /\ dir = <<>> /\ listed = {} /\ ~alive /\ run = 0 /\ clock = 1 /\ rows = <<>>
      /\ \A t \in Takers : task[t] = Idle
  BY DEF Init, SnapInit
<1>2. 1 .. 0 = {}
  OBVIOUS
<1>3. DOMAIN dir = {} /\ DOMAIN rows = {}
  BY <1>1, <1>2
<1>4. \A t \in Takers : TaskInv(t)
  <2>1. ASSUME NEW t \in Takers
        PROVE  task[t].run = 0 /\ task[t].latest = None /\ task[t].step = "idle" /\ task[t].reply # "ok"
    BY <1>1, RestingFields
  <2> QED
    BY <1>1, <2>1 DEF TaskInv, Owns, HasFrame, Knows
<1> QED
  BY <1>1, <1>3, <1>4 DEF SnapshotInv, FilesInv

LEMMA SnapshotInvNext ==
  ASSUME SnapshotInv, TasksOK, [Next]_vars
  PROVE  SnapshotInv'
<1>1. CASE UNCHANGED snapVars
  BY <1>1, DeletionKeeps DEF snapVars, rowVars
<1>2. ASSUME NEW t \in Takers \ {Ws}, HttpStep(t)
      PROVE  SnapshotInv'
  BY <1>2, StepKeeps DEF HttpStep, Steps
<1>3. ASSUME NEW at \in Moments, StartSnapshot(at)
      PROVE  SnapshotInv'
  BY <1>3, StepKeeps, ChannelAssumption DEF StartSnapshot, Steps
<1>4. CASE StepSnapshot
  BY <1>4, StepKeeps, ChannelAssumption DEF StepSnapshot, Steps
<1>5. CASE FinishSnapshot
  BY <1>5, StepKeeps, ChannelAssumption DEF FinishSnapshot, Steps
<1>6. CASE RunAtOnce
  <2>1. UNCHANGED <<fileVars, lastId, task>> /\ (rows' = <<>> \/ rows' = rows)
    BY <1>6 DEF RunAtOnce
  <2>2. 1 .. 0 = {}
    OBVIOUS
  <2>3. \A id \in DOMAIN rows' : id \in DOMAIN rows /\ rows'[id] = rows[id]
    BY <2>1, <2>2
  <2> QED
    BY <2>1, <2>3, DeletionKeeps
<1>7. CASE Beside
  <2>1. CASE Files
    <3>1. FilesInv /\ \A t \in Takers : TaskInv(t)
      BY DEF SnapshotInv
    <3>2. /\ FilesInv' /\ UNCHANGED <<rowVars, task>>
          /\ run' = run + 1 \/ SameRun
      BY <2>1, <3>1, FileStep
    <3>3. \A t \in Takers : TaskInv(t)'
      BY <3>1, <3>2, TaskUnderFiles
    <3> QED
      BY <3>2, <3>3 DEF SnapshotInv, rowVars
  <2>2. CASE DeleteSnapshot
    <3>1. PICK id \in DOMAIN rows : rows' = Restrict(rows, DOMAIN rows \ {id})
      BY <2>2 DEF DeleteSnapshot
    <3>2. \A r \in DOMAIN rows' : r \in DOMAIN rows /\ rows'[r] = rows[r]
      BY <3>1 DEF Restrict
    <3> QED
      BY <2>2, <3>2, DeletionKeeps DEF DeleteSnapshot
  <2> QED
    BY <1>7, <2>1, <2>2 DEF Beside
<1> QED
  BY <1>1, <1>2, <1>3, <1>4, <1>5, <1>6, <1>7
     DEF Next, Connect, ConnectFails, BackoffOver, ConnectionDrops, NoticeDrop, SendCommand,
         Receive, SendResult, vars

LEMMA SnapshotInvImplies == SnapshotInv => FrameIsOfItsTime /\ AnswersOwnImage
<1> SUFFICES ASSUME SnapshotInv PROVE FrameIsOfItsTime /\ AnswersOwnImage
  OBVIOUS
<1>1. FrameIsOfItsTime
  BY DEF SnapshotInv, TaskInv, HasFrame, Wanted, FrameIsOfItsTime
<1>2. AnswersOwnImage
  BY ChannelAssumption DEF SnapshotInv, TaskInv, Owns, AnswersOwnImage
<1> QED
  BY <1>1, <1>2

\* Both invariants; SnapshotInv needs the fields of the tasks, which ChannelInv
\* has.
LEMMA SnapshotInvHolds == Spec => []SnapshotInv
<1>1. Init => ChannelInv /\ SnapshotInv
  BY ChannelInvInit, SnapshotInvInit
<1>2. ChannelInv /\ SnapshotInv /\ [Next]_vars => (ChannelInv /\ SnapshotInv)'
  BY ChannelNextSimulates, SnapshotInvNext DEF Simulates, ChannelInv
<1> QED
  BY <1>1, <1>2, PTL DEF Spec

\* The frame an answer names a time for was recorded at that time, whatever
\* FFmpeg, its restarts and the sweep did to the directory between the reading
\* of it and the opening of the file (take_snapshot of api/commands.rs).
THEOREM FrameIsOfItsTimeHolds == Spec => []FrameIsOfItsTime
BY SnapshotInvHolds, SnapshotInvImplies, PTL

\* The row that is read back (fetch_snapshot_jpeg) is the one that was saved,
\* however many others save, delete and wipe in between.
THEOREM AnswersOwnImageHolds == Spec => []AnswersOwnImage
BY SnapshotInvHolds, SnapshotInvImplies, PTL

-----------------------------------------------------------------------------
(* Types.                                                                  *)

ConnectionInv ==
  /\ conn \in {"connect", "up", "wait"}
  /\ backoff \in 1 .. MaxBackoff
  /\ broken \in BOOLEAN
  /\ broken => conn = "up"

\* A task that rests has forgotten everything; rows are numbered from 1.
RestInv ==
  /\ Step = "idle" => task[Ws] = Idle
  /\ DOMAIN rows \subseteq 1 .. lastId

LEMMA RestInvInit == Init => ConnectionInv /\ RestInv
<1> SUFFICES ASSUME Init PROVE ConnectionInv /\ RestInv
  OBVIOUS
<1>1. ConnectionInv
  <2>1. conn = "connect" /\ backoff = 1 /\ ~broken
    BY DEF Init
  <2>2. broken \in BOOLEAN
    BY DEF Init
  <2> QED BY <2>1, <2>2, ChannelAssumption DEF ConnectionInv
<1>2. task[Ws] = Idle /\ rows = <<>>
  BY ChannelAssumption DEF Init, SnapInit
<1> QED BY <1>1, <1>2 DEF RestInv

LEMMA ConnectionStep ==
  ASSUME ConnectionInv, [Next]_vars
  PROVE  ConnectionInv'
<1> USE DEF ConnectionInv
<1>1. CASE Connect
  <2>1. conn' = "up" /\ backoff' = 1
    BY <1>1 DEF Connect
  <2>2. broken' \in BOOLEAN
    BY <1>1 DEF Connect
  <2> QED BY <2>1, <2>2, ChannelAssumption
<1>2. CASE ConnectFails
  BY <1>2 DEF ConnectFails
<1>3. CASE BackoffOver
  <2>1. backoff' \in 1 .. MaxBackoff
    BY <1>3, ChannelAssumption DEF BackoffOver
  <2> QED BY <1>3, <2>1 DEF BackoffOver
<1>4. CASE ConnectionDrops
  BY <1>4 DEF ConnectionDrops
<1>5. CASE NoticeDrop
  BY <1>5 DEF NoticeDrop
<1>6. CASE SendResult
  <2>1. backoff' = backoff
    BY <1>6 DEF SendResult
  <2>2. UNCHANGED <<conn, broken>> \/ (conn' = "wait" /\ ~broken')
    BY <1>6 DEF SendResult
  <2>3. broken' \in BOOLEAN
    BY <1>6 DEF SendResult
  <2> QED BY <2>1, <2>2, <2>3
<1>7. CASE UNCHANGED <<conn, backoff, broken>>
  BY <1>7
<1> QED
  BY <1>1, <1>2, <1>3, <1>4, <1>5, <1>6, <1>7
     DEF Next, SendCommand, Receive, StartSnapshot, StepSnapshot, FinishSnapshot, RunAtOnce,
         HttpStep, Beside, wsVars, vars

\* A row is added with the id that comes next, and else rows only go.
LEMMA RowsStep ==
  ASSUME DOMAIN rows \subseteq 1 .. lastId, lastId \in Nat, [Next]_vars
  PROVE  DOMAIN rows' \subseteq 1 .. lastId'
<1>1. ASSUME NEW t \in Takers, SaveSnapshot(t) PROVE DOMAIN rows' \subseteq 1 .. lastId'
  <2>1. DOMAIN rows' = DOMAIN rows \union {lastId + 1} /\ lastId' = lastId + 1
    BY <1>1 DEF SaveSnapshot
  <2> QED BY <2>1
<1>2. CASE DeleteSnapshot
  BY <1>2 DEF DeleteSnapshot, Restrict
<1>3. CASE RunAtOnce
  <2>1. DOMAIN <<>> = {}
    OBVIOUS
  <2>2. lastId' = lastId /\ (rows' = <<>> \/ rows' = rows)
    BY <1>3 DEF RunAtOnce
  <2> QED BY <2>1, <2>2
<1>4. CASE UNCHANGED rowVars
  BY <1>4 DEF rowVars
<1>5. ASSUME NEW t \in Takers, Steps(t) PROVE SaveSnapshot(t) \/ UNCHANGED rowVars
  BY <1>5 DEF Steps, ScanSegments, Take, FindLatest, GrabFrame, GrabFails, SaveSkipped,
              FetchImage, AnswerWithId, Return
<1>6. ASSUME NEW t \in Takers \ {Ws}, HttpStep(t) PROVE Steps(t)
  BY <1>6 DEF HttpStep, Steps
<1>7. (\E at \in Moments : StartSnapshot(at)) \/ StepSnapshot \/ FinishSnapshot => Steps(Ws)
  BY ChannelAssumption DEF StartSnapshot, StepSnapshot, FinishSnapshot, Steps
<1>8. Files => UNCHANGED rowVars
  BY DEF Files, StartFfmpeg, CompleteSegment, FfmpegDies, Sweep
<1> QED
  BY <1>1, <1>2, <1>3, <1>4, <1>5, <1>6, <1>7, <1>8, ChannelAssumption
     DEF Next, Connect, ConnectFails, BackoffOver, ConnectionDrops, NoticeDrop, SendCommand,
         Receive, SendResult, Beside, snapVars, vars

\* The channel's task rests again only by forgetting what it did.
LEMMA RestStep ==
  ASSUME ChannelInv, Step = "idle" => task[Ws] = Idle, [Next]_vars
  PROVE  (Step = "idle" => task[Ws] = Idle)'
<1> USE DEF Step
<1>0. TasksOK /\ Ws \in Takers
  BY ChannelAssumption DEF ChannelInv
<1>1. ASSUME NEW at \in Moments, StartSnapshot(at) PROVE Step' # "idle"
  BY <1>0, <1>1, ScanEffect DEF StartSnapshot, Failed
<1>2. CASE StepSnapshot
  BY <1>0, <1>2, TakeEffect, FetchEffect DEF StepSnapshot, Failed
<1>3. CASE FinishSnapshot
  BY <1>0, <1>3 DEF FinishSnapshot, Return, TasksOK
<1>4. ASSUME NEW t \in Takers \ {Ws}, HttpStep(t) PROVE task'[Ws] = task[Ws]
  <2>1. CASE ScanSegments(t, None)
    BY <1>0, <2>1, ScanEffect
  <2>2. CASE Take(t)
    BY <1>0, <2>2, TakeEffect
  <2>3. CASE Return(t) \/ AnswerWithId(t)
    BY <1>0, <2>3, ReturnEffect
  <2> QED BY <1>4, <2>1, <2>2, <2>3 DEF HttpStep
<1>5. CASE UNCHANGED task
  BY <1>5
<1>6. Beside => UNCHANGED task
  BY DEF Beside, Files, StartFfmpeg, CompleteSegment, FfmpegDies, Sweep, DeleteSnapshot
<1> QED
  BY <1>1, <1>2, <1>3, <1>4, <1>5, <1>6
     DEF Next, Connect, ConnectFails, BackoffOver, ConnectionDrops, NoticeDrop, SendCommand,
         Receive, RunAtOnce, SendResult, snapVars, vars

\* The variables of the channel keep their types; in particular one command at most
\* runs, only on a connection (run_ws_client of api/websocket.rs reads the next
\* message when dispatch_command is back), and the channel takes a snapshot only
\* for a command that asks for one.
THEOREM ChannelTypeCorrect == Spec => []TypeOK
<1>1. Init => ChannelInv /\ ConnectionInv /\ RestInv
  BY ChannelInvInit, RestInvInit
<1>2. ASSUME ChannelInv, ConnectionInv, RestInv, [Next]_vars
      PROVE  (ChannelInv /\ ConnectionInv /\ RestInv)'
  <2>1. ChannelInv'
    BY <1>2, ChannelNextSimulates DEF Simulates
  <2>2. lastId \in Nat
    BY <1>2 DEF ChannelInv, TasksOK
  <2>3. RestInv'
    BY <1>2, <2>2, RowsStep, RestStep DEF RestInv
  <2> QED BY <1>2, <2>1, <2>3, ConnectionStep
<1>3. ChannelInv /\ ConnectionInv /\ RestInv => TypeOK
  <2> SUFFICES ASSUME ChannelInv, ConnectionInv, RestInv PROVE TypeOK
    OBVIOUS
  <2>1. /\ inbox \in Seq(Commands) /\ (inbox # <<>> => conn = "up")
        /\ current \in Commands \union {None} /\ outcome \in {None, "ok", "failed"}
        /\ current # None => conn = "up"
        /\ Step # "idle" => current # None /\ Kinds[current] = "take_snapshot"
    BY DEF ChannelInv, InboxInv, CurrentInv
  <2> QED BY <2>1 DEF ConnectionInv, RestInv, TypeOK
<1> QED BY <1>1, <1>2, <1>3, PTL DEF Spec
=============================================================================
