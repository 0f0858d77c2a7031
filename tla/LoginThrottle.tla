---------------------------- MODULE LoginThrottle ----------------------------
(***************************************************************************)
(* POST /api/auth/login (login and LoginThrottle of server/api.rs): the    *)
(* throttle is checked under its lock, the password is verified on another *)
(* thread without the lock, and the verdict is recorded under the lock     *)
(* again.  Several requests do so at once.                                 *)
(*                                                                         *)
(* Lockouts lists how long the lock lasts in seconds, by the number of     *)
(* failures past the threshold: 1, 2, 4, ... 256, and 300 from then on.    *)
(***************************************************************************)
EXTENDS Integers, Sequences, FiniteSets

CONSTANTS
  Attempts,   \* login requests that may be in flight at the same time
  None,       \* an absent value
  Threshold,  \* LOGIN_FAILURES_BEFORE_LOCKOUT
  Lockouts,   \* lengths of the lock
  MaxClock    \* bound: time

ASSUME ThrottleAssumption ==
  /\ IsFiniteSet(Attempts) /\ Attempts # {}
  /\ None \notin Int /\ None \notin {"right", "wrong"}
  /\ Threshold \in Nat \ {0}
  /\ Lockouts \in Seq(Nat \ {0}) /\ Len(Lockouts) > 0
  /\ MaxClock \in Nat

VARIABLES
  clock,
  failures,     \* consecutive_failures
  lockedUntil,  \* locked_until
  attempt,      \* what is known of each request's password: "right", "wrong"
  \* History, since the last success or restart:
  guesses,      \* passwords found wrong
  lockedSince   \* when the first lock was set

throttle == <<failures, lockedUntil>>
history == <<guesses, lockedSince>>
loginVars == <<clock, throttle, attempt, history>>

LoginInit ==
  /\ clock = 0
  /\ failures = 0 /\ lockedUntil = None
  /\ attempt = [t \in Attempts |-> None]
  /\ guesses = 0 /\ lockedSince = None

LockFor(n) ==
  LET over == n - Threshold + 1
  IN Lockouts[IF over < Len(Lockouts) THEN over ELSE Len(Lockouts)]

Locked == lockedUntil # None /\ lockedUntil > clock

\* Mutant: a lock that has passed takes the failures with it.
ForgetPassed ==
  /\ ~Locked
  /\ lockedUntil' = None
  /\ failures' = IF lockedUntil = None THEN failures ELSE 0

\* retry_after_secs: a lock that has passed is cleared.
AllowedNow ==
  /\ ~Locked
  /\ lockedUntil' = None
  /\ UNCHANGED failures

\* A request is let through to the verification.  (While the lock holds it is
\* answered 429, which changes nothing.)
BeginLogin(t, password) ==
  /\ attempt[t] = None
  /\ AllowedNow
  /\ attempt' = [attempt EXCEPT ![t] = password]
  /\ UNCHANGED <<clock, history>>

RecordFailure ==
  /\ failures' = failures + 1
  /\ lockedUntil' = IF failures' < Threshold THEN lockedUntil ELSE clock + LockFor(failures')

\* The password is wrong, or its verification did not come to an end.
LoginFails(t) ==
  /\ attempt[t] # None
  /\ attempt' = [attempt EXCEPT ![t] = None]
  /\ RecordFailure
  /\ guesses' = guesses + 1
  /\ lockedSince' = IF lockedSince = None /\ failures' >= Threshold THEN clock ELSE lockedSince
  /\ UNCHANGED clock

LoginSucceeds(t) ==
  /\ attempt[t] = "right"
  /\ attempt' = [attempt EXCEPT ![t] = None]
  /\ failures' = 0 /\ lockedUntil' = None
  /\ guesses' = 0 /\ lockedSince' = None
  /\ UNCHANGED clock

\* The throttle and the requests live in memory.
ForgetLogins ==
  /\ failures' = 0 /\ lockedUntil' = None
  /\ attempt' = [t \in Attempts |-> None]
  /\ guesses' = 0 /\ lockedSince' = None

Tick ==
  /\ clock < MaxClock
  /\ clock' = clock + 1
  /\ UNCHANGED <<throttle, attempt, history>>

-----------------------------------------------------------------------------
\* However many requests overlap, the wrong passwords since the last success are
\* fewer than the threshold plus one round of requests, and one round for each
\* second since the first lock: a request that passed the check before a lock
\* was set can be verified after it, and never opens a further one.
GuessBudget ==
  LET elapsed == IF lockedSince = None THEN 0 ELSE clock - lockedSince
  IN guesses < Threshold + Cardinality(Attempts) * (1 + elapsed)
=============================================================================
