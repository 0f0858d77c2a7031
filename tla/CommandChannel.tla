--------------------------- MODULE CommandChannel ---------------------------
(***************************************************************************)
(* The WebSocket to Command Center (run_ws_client, handle_message and      *)
(* dispatch_command of api/websocket.rs): one task connects, reconnects    *)
(* with backoff, sends heartbeats and runs the commands it reads one after *)
(* the other, each to its end before it reads the next message.  Snapshots *)
(* are the commands of several steps; the tasks of the HTTP routes, users, *)
(* FFmpeg and the sweep run beside them.                                   *)
(*                                                                         *)
(* The steps of change_cap and of a retention pass are those of Retention; *)
(* here a cap command takes effect or not.  Version hints, pings and       *)
(* malformed or unknown messages change nothing and are left out.          *)
(***************************************************************************)
EXTENDS Snapshots, SequencesExt

CONSTANTS
  Ws,         \* the task of the command channel
  Kinds,      \* commands Command Center may send: their kinds by id
  Moments,    \* moments a snapshot may be asked for
  MaxBackoff, \* max_backoff
  MaxDrops    \* bound: connections that drop

Commands == DOMAIN Kinds

ASSUME ChannelAssumption ==
  /\ Ws \in Takers
  /\ None \notin Commands \union {"ok", "failed"}
  /\ \A c \in Commands : Kinds[c] \in {"take_snapshot", "list", "wipe_data", "set_storage_cap"}
  /\ Moments \subseteq Int \union {None}
  /\ MaxBackoff \in Nat \ {0} /\ MaxDrops \in Nat

VARIABLES
  conn,      \* "connect", "up" or "wait"
  backoff,
  broken,    \* the connection is gone, and the task has not noticed
  inbox,     \* messages that arrived at the node's end, not read yet
  current,   \* the command being run, or None
  outcome,   \* what came of it, until the result is sent
  drops,
  \* What Command Center sent, how often each command took effect (nothing in the
  \* code reads this), and the answers Command Center has.
  sent, performed, answer

wsVars == <<conn, backoff, broken, inbox, current, outcome, drops>>
ccVars == <<sent, performed, answer>>
vars == <<snapVars, wsVars, ccVars>>

TypeOK ==
  /\ conn \in {"connect", "up", "wait"}
  /\ backoff \in 1 .. MaxBackoff
  /\ broken \in BOOLEAN /\ (broken => conn = "up")
  /\ inbox \in Seq(Commands)
  /\ current \in Commands \union {None}
  /\ outcome \in {None, "ok", "failed"}
  /\ current # None => conn = "up"
  /\ task[Ws] # Idle => current # None /\ Kinds[current] = "take_snapshot"
  /\ conn # "up" => inbox = <<>>
  /\ DOMAIN rows \subseteq 1 .. lastId

Init ==
  /\ SnapInit
  /\ conn = "connect" /\ backoff = 1 /\ broken = FALSE
  /\ inbox = <<>> /\ current = None /\ outcome = None /\ drops = 0
  /\ sent = {} /\ performed = [c \in Commands |-> 0] /\ answer = [c \in Commands |-> "none"]

-----------------------------------------------------------------------------
(* Connecting.                                                             *)

Connect ==
  /\ conn = "connect"
  /\ conn' = "up" /\ backoff' = 1 /\ broken' = FALSE
  /\ inbox' = <<>>
  /\ UNCHANGED <<snapVars, current, outcome, drops, ccVars>>

ConnectFails ==
  /\ conn = "connect"
  /\ conn' = "wait"
  /\ UNCHANGED <<snapVars, backoff, broken, inbox, current, outcome, drops,
                 ccVars>>

BackoffOver ==
  /\ conn = "wait"
  /\ conn' = "connect"
  /\ backoff' = IF 2 * backoff > MaxBackoff THEN MaxBackoff ELSE 2 * backoff
  /\ UNCHANGED <<snapVars, broken, inbox, current, outcome, drops, ccVars>>

\* The connection breaks: what had arrived may still be read, what was on its
\* way is lost, and Command Center gives up what it waits for.
ConnectionDrops ==
  /\ conn = "up" /\ ~broken /\ drops < MaxDrops
  /\ drops' = drops + 1
  /\ broken' = TRUE
  /\ \E n \in 0 .. Len(inbox) : inbox' = SubSeq(inbox, 1, n)
  /\ answer' = [c \in Commands |->
       IF c \in sent /\ answer[c] = "none" THEN "lost" ELSE answer[c]]
  /\ UNCHANGED <<snapVars, conn, backoff, current, outcome, sent, performed>>

\* A read or the send of a heartbeat fails, while no command is run.
NoticeDrop ==
  /\ conn = "up" /\ broken /\ current = None
  /\ conn' = "wait" /\ broken' = FALSE /\ inbox' = <<>>
  /\ UNCHANGED <<snapVars, backoff, current, outcome, drops, ccVars>>

-----------------------------------------------------------------------------
(* Commands.                                                               *)

\* Command Center sends a command on the connection it has.
SendCommand(c) ==
  /\ conn = "up" /\ ~broken /\ c \notin sent
  /\ sent' = sent \union {c}
  /\ inbox' = Append(inbox, c)
  /\ UNCHANGED <<snapVars, conn, backoff, broken, current, outcome, drops,
                 performed, answer>>

Receive ==
  /\ conn = "up" /\ current = None /\ inbox # <<>>
  /\ current' = Head(inbox) /\ inbox' = Tail(inbox)
  /\ UNCHANGED <<snapVars, conn, backoff, broken, outcome, drops, ccVars>>

\* The command being run takes effect.
Effect == performed' = [performed EXCEPT ![current] = @ + 1]

Shooting == current # None /\ Kinds[current] = "take_snapshot" /\ outcome = None

StartSnapshot(at) ==
  /\ Shooting
  /\ ScanSegments(Ws, at)
  /\ UNCHANGED <<wsVars, ccVars>>

\* The steps of take_snapshot; the row is its effect.
StepSnapshot ==
  /\ Shooting
  /\ Take(Ws) \/ FetchImage(Ws)
  /\ IF lastId' > lastId THEN Effect ELSE UNCHANGED performed
  /\ UNCHANGED <<wsVars, sent, answer>>

\* Mutant: a snapshot that failed is taken again.
TryAgain ==
  /\ Shooting
  /\ outcome' = IF task[Ws].reply = "failed" THEN None ELSE task[Ws].reply
  /\ Return(Ws)
  /\ UNCHANGED <<conn, backoff, broken, inbox, current, drops, ccVars>>

FinishSnapshot ==
  /\ Shooting
  /\ outcome' = task[Ws].reply
  /\ Return(Ws)
  /\ UNCHANGED <<conn, backoff, broken, inbox, current, drops, ccVars>>

\* list_snapshots, list_recordings and wipe_all run without a pause; change_cap
\* waits for a blocking thread, and what others do meanwhile comes before this
\* step or between it and the result.  An error comes before the effect, or after
\* some or all of it: the DELETEs of a wipe take effect one by one.
RunAtOnce ==
  /\ current # None /\ Kinds[current] # "take_snapshot" /\ outcome = None
  /\ \/ /\ Effect
        /\ rows' = IF Kinds[current] = "wipe_data" THEN <<>> ELSE rows
        /\ outcome' \in {"ok"} \union (IF Kinds[current] = "wipe_data" THEN {"failed"} ELSE {})
     \/ outcome' = "failed" /\ UNCHANGED <<performed, rows>>
  /\ UNCHANGED <<fileVars, lastId, task, conn, backoff, broken, inbox, current, drops, sent, answer>>

\* The result is sent and Command Center finds the command by its id.  On a
\* broken connection the send fails and the task reconnects, or it still seems
\* to succeed.
SendResult ==
  /\ current # None /\ outcome # None
  /\ current' = None /\ outcome' = None
  /\ \/ ~broken /\ answer' = [answer EXCEPT ![current] = outcome]
        /\ UNCHANGED <<conn, broken, inbox>>
     \/ broken /\ conn' = "wait" /\ broken' = FALSE /\ inbox' = <<>> /\ UNCHANGED answer
     \/ broken /\ UNCHANGED <<conn, broken, inbox, answer>>
  /\ UNCHANGED <<snapVars, backoff, drops, sent, performed>>

-----------------------------------------------------------------------------
\* The HTTP routes: POST snapshot, DELETE and GET of a snapshot.
HttpStep(t) ==
  /\ \/ ScanSegments(t, None)
     \/ Take(t) \/ AnswerWithId(t) \/ Return(t)
  /\ UNCHANGED <<wsVars, ccVars>>

Beside == (Files \/ DeleteSnapshot) /\ UNCHANGED <<wsVars, ccVars>>

Next ==
  \/ Connect
  \/ ConnectFails
  \/ BackoffOver
  \/ ConnectionDrops
  \/ NoticeDrop
  \/ \E c \in Commands : SendCommand(c)
  \/ Receive
  \/ \E at \in Moments : StartSnapshot(at)
  \/ StepSnapshot
  \/ FinishSnapshot
  \/ RunAtOnce
  \/ SendResult
  \/ \E t \in Takers \ {Ws} : HttpStep(t)
  \/ Beside

Spec == Init /\ [][Next]_vars

(* The task and the runtime run; FFmpeg ends once it has read a frame of a *)
(* file or found none (nothing in the code limits its time).  A backend    *)
(* that is reachable again and again is connected to at some time.         *)
Fairness ==
  /\ WF_vars(ConnectFails \/ Connect) /\ SF_vars(Connect)
  /\ WF_vars(BackoffOver) /\ WF_vars(NoticeDrop) /\ WF_vars(Receive)
  /\ WF_vars(\E at \in Moments : StartSnapshot(at)) /\ WF_vars(StepSnapshot)
  /\ WF_vars(FinishSnapshot) /\ WF_vars(RunAtOnce)
  /\ WF_vars(SendResult)

FairSpec == Spec /\ Fairness

-----------------------------------------------------------------------------
(* Properties.                                                             *)

\* Command Center may rely on the channel as on AtMostOnceCalls: whatever
\* drops or fails, a command takes effect at most once (one row of a snapshot, one
\* run of a wipe), and "success" means it did.
Channel == INSTANCE AtMostOnceCalls WITH
  Calls <- Commands, sent <- sent, performed <- performed, answer <- answer

ImplementsCalls == Channel!Spec

\* Every command that was sent is answered, or its connection dropped; a
\* reply is never stuck behind a command that does not end.
CommandsSettle == \A c \in Commands : c \in sent ~> answer[c] # "none"

\* While FFmpeg was not restarted in between, the frame was recorded at the time
\* the answer names, and it is the one asked for (segment_at, find_latest_segment):
\* of the segment that held the moment, or of the newest one complete when the
\* directory was read, if the moment was later than it; without a moment, of that
\* one or of one completed since.  A file still written is used only if it was the
\* only one there.
FrameIsOfItsTime ==
  \A t \in Takers :
    LET snap == task[t] IN
      (snap.step = "save" /\ snap.image.run = snap.run) =>
        /\ snap.frame # None => snap.image.begin = snap.frame
        /\ snap.at # None =>
             /\ snap.image.begin <= snap.at
             /\ snap.at < snap.image.begin + 1 \/ snap.image.begin = snap.latest
        /\ snap.at = None /\ snap.latest # None => snap.image.begin >= snap.latest
        /\ snap.image.whole \/ (snap.latest = None /\ snap.frame = None)

\* The image a command answers with is the one it took, although others save,
\* delete and wipe snapshots of the same camera meanwhile.
AnswersOwnImage ==
  task[Ws].reply = "ok" => task[Ws].image = Ws
=============================================================================
