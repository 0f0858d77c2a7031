-------------------------- MODULE AtMostOnceCalls ---------------------------
(***************************************************************************)
(* What a caller may rely on when it sends calls over a connection that    *)
(* may drop: a call is performed at most once, only after it was sent, and *)
(* never after it was answered; an answer "ok" means that it was performed.*)
(* A call that failed, or whose answer was lost, may have been performed.  *)
(***************************************************************************)
CONSTANT Calls

VARIABLES
  sent,       \* calls sent so far
  performed,  \* how often each call took effect
  answer      \* what the caller knows: "none", "ok", "failed" or "lost"

callVars == <<sent, performed, answer>>

Init ==
  /\ sent = {} /\ performed = [c \in Calls |-> 0]
  /\ answer = [c \in Calls |-> "none"]

Send(c) ==
  /\ c \notin sent
  /\ sent' = sent \union {c}
  /\ UNCHANGED <<performed, answer>>

Perform(c) ==
  /\ c \in sent /\ performed[c] = 0 /\ answer[c] \notin {"ok", "failed"}
  /\ performed' = [performed EXCEPT ![c] = 1]
  /\ UNCHANGED <<sent, answer>>

Answer(c) ==
  /\ c \in sent /\ answer[c] = "none"
  /\ \E a \in {"failed"} \union (IF performed[c] = 1 THEN {"ok"} ELSE {}) :
       answer' = [answer EXCEPT ![c] = a]
  /\ UNCHANGED <<sent, performed>>

\* The connection is gone: all calls without an answer are given up.
GiveUp ==
  /\ answer' = [c \in Calls |->
       IF c \in sent /\ answer[c] = "none" THEN "lost" ELSE answer[c]]
  /\ UNCHANGED <<sent, performed>>

Next ==
  \/ \E c \in Calls : Send(c) \/ Perform(c) \/ Answer(c)
  \/ GiveUp

Spec == Init /\ [][Next]_callVars
=============================================================================
