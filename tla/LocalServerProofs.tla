-------------------------- MODULE LocalServerProofs --------------------------
(***************************************************************************)
(* The properties of the local server.  The budget of wrong passwords      *)
(* holds for any number of overlapping requests, any threshold and any     *)
(* lengths of the lock.                                                    *)
(*                                                                         *)
(* GuessBudget alone is not inductive: what is in flight counts.  While    *)
(* the lock holds nothing can join, so the guesses and the requests in     *)
(* flight together are within the budget.  Once it is open a full round of *)
(* requests may follow, and there is room for it, because the lock that    *)
(* just ended took a second at least, which paid for it.                   *)
(*                                                                         *)
(* HttpsWhenWanted rests on what the two rows of the certificate can be    *)
(* between two writes: a new pair is begun only when the key at hand       *)
(* cannot be read, and a key of another machine never becomes readable.    *)
(*                                                                         *)
(* AccessIsExact is about the order of the routes: what the chain answers  *)
(* is computed once, by the kind of the request, and the rest follows from *)
(* the browser's dropping a cookie in time.                                *)
(***************************************************************************)
EXTENDS LocalServer, FiniteSetTheorems, TLAPS

InFlight == {t \in Attempts : attempt[t] # None}
Round == Cardinality(Attempts)
Allowance(seconds) == Threshold + Round * (1 + seconds)

LoginTypeOK ==
  /\ clock \in Nat
  /\ failures \in Nat
  /\ lockedUntil \in Nat \union {None}
  /\ attempt \in [Attempts -> {None, "right", "wrong"}]
  /\ lockedSince \in Nat \union {None}

GuessInv ==
  /\ LoginTypeOK
  /\ guesses = failures
  /\ lockedSince = None <=> failures < Threshold
  /\ lockedSince = None => lockedUntil = None
  /\ lockedSince # None =>
       /\ lockedSince <= clock
       /\ guesses + (IF Locked THEN Cardinality(InFlight) ELSE Round)
            < Allowance(clock - lockedSince)

-----------------------------------------------------------------------------
\* Each second on the clock is worth one round of requests.
LEMMA AnotherRound ==
  ASSUME NEW seconds \in Nat
  PROVE  /\ Allowance(seconds) \in Nat
         /\ Allowance(seconds + 1) = Allowance(seconds) + Round
         /\ Allowance(0) = Threshold + Round
<1>1. Round \in Nat
  BY FS_CardinalityType, ThrottleAssumption DEF Round
<1>2. Threshold \in Nat
  BY ThrottleAssumption
<1>3. Round * (1 + seconds) \in Nat /\ Round * (1 + (seconds + 1)) = Round * (1 + seconds) + Round
  BY <1>1
<1>4. Round * (1 + 0) = Round
  BY <1>1
<1> QED
  BY <1>1, <1>2, <1>3, <1>4 DEF Allowance

\* The requests in flight are at most one round.
LEMMA InFlightBound ==
  /\ Round \in Nat
  /\ Cardinality(InFlight) \in Nat
  /\ Cardinality(InFlight) <= Round
  /\ IsFiniteSet(InFlight)
<1>1. InFlight \subseteq Attempts
  BY DEF InFlight
<1> QED
  BY <1>1, FS_Subset, FS_CardinalityType, ThrottleAssumption DEF Round

\* A request that ends leaves one fewer in flight.
LEMMA OneFewer ==
  ASSUME LoginTypeOK, NEW t \in Attempts, attempt[t] # None,
         attempt' = [attempt EXCEPT ![t] = None]
  PROVE  Cardinality(InFlight') = Cardinality(InFlight) - 1
<1>1. InFlight' = InFlight \ {t}
  BY DEF InFlight, LoginTypeOK
<1>2. t \in InFlight
  BY DEF InFlight
<1> QED
  BY <1>1, <1>2, InFlightBound, FS_RemoveElement

\* A lock that is set lasts a second at least.
LEMMA LocksLast ==
  ASSUME NEW n \in Nat, n >= Threshold
  PROVE  LockFor(n) \in Nat \ {0}
<1> DEFINE over == n - Threshold + 1
<1>1. over \in Nat \ {0} /\ Len(Lockouts) \in Nat \ {0}
  BY ThrottleAssumption
<1>2. (IF over < Len(Lockouts) THEN over ELSE Len(Lockouts)) \in 1 .. Len(Lockouts)
  BY <1>1
<1> QED
  BY <1>2, ThrottleAssumption DEF LockFor

-----------------------------------------------------------------------------
LEMMA GuessInvInit == Init => GuessInv
<1> SUFFICES ASSUME Init PROVE GuessInv
  OBVIOUS
<1> QED
  BY ThrottleAssumption DEF Init, LoginInit, GuessInv, LoginTypeOK

LEMMA GuessInvBegin ==
  ASSUME GuessInv, NEW t \in Attempts, NEW password \in {"right", "wrong"},
         BeginLogin(t, password)
  PROVE  GuessInv'
<1>1. LoginTypeOK' /\ lockedUntil' = None /\ ~Locked /\ ~Locked'
  BY DEF GuessInv, LoginTypeOK, BeginLogin, AllowedNow, Locked, history
<1>2. UNCHANGED <<clock, failures, guesses, lockedSince>>
  BY DEF BeginLogin, AllowedNow, history
<1>3. Allowance(clock - lockedSince)' = Allowance(clock - lockedSince)
  BY <1>2 DEF Allowance, Round
<1>4. Round' = Round
  BY DEF Round
<1> QED
  BY <1>1, <1>2, <1>3, <1>4 DEF GuessInv

LEMMA GuessInvFails ==
  ASSUME GuessInv, NEW t \in Attempts, LoginFails(t)
  PROVE  GuessInv'
<1> USE DEF GuessInv, LoginFails, RecordFailure
<1>1. Cardinality(InFlight') = Cardinality(InFlight) - 1
  BY OneFewer
<1>2. Cardinality(InFlight) \in Nat /\ Round \in Nat /\ Cardinality(InFlight) <= Round
  BY InFlightBound
<1>3. /\ clock \in Nat /\ failures \in Nat /\ Threshold \in Nat \ {0}
      /\ lockedSince \in Nat \union {None} /\ None \notin Int
  BY ThrottleAssumption DEF LoginTypeOK
<1>4. failures' = failures + 1 /\ guesses' = guesses + 1 /\ clock' = clock /\ guesses = failures
  OBVIOUS
<1>5. attempt' \in [Attempts -> {None, "right", "wrong"}]
  BY DEF LoginTypeOK
<1>6. CASE failures' < Threshold
  <2>1. lockedUntil' = lockedUntil /\ lockedSince' = lockedSince /\ lockedSince = None
    BY <1>3, <1>4, <1>6
  <2> QED
    BY <1>3, <1>4, <1>5, <1>6, <2>1 DEF LoginTypeOK
<1>7. CASE failures' >= Threshold
  <2>1. LockFor(failures') \in Nat \ {0}
    BY <1>3, <1>4, <1>7, LocksLast
  <2>2. lockedUntil' = clock + LockFor(failures') /\ lockedUntil' \in Nat /\ lockedUntil' > clock'
    BY <1>3, <1>4, <1>7, <2>1
  <2>3. Locked'
    BY <1>3, <2>2 DEF Locked
  <2>4. /\ lockedSince' \in Nat /\ lockedSince' <= clock'
        /\ guesses' + Cardinality(InFlight') < Allowance(clock' - lockedSince')
    <3>1. CASE lockedSince = None
      <4>1. lockedSince' = clock /\ clock' - lockedSince' = 0 /\ guesses < Threshold
        BY <1>3, <1>4, <1>7, <3>1
      <4>2. Allowance(0) = Threshold + Round
        BY AnotherRound
      <4> QED
        BY <1>1, <1>2, <1>3, <1>4, <4>1, <4>2
    <3>2. CASE lockedSince # None
      <4>1. lockedSince' = lockedSince /\ lockedSince \in Nat /\ lockedSince <= clock
        BY <1>3, <3>2
      <4>2. guesses + Cardinality(InFlight) < Allowance(clock - lockedSince)
        <5>1. clock - lockedSince \in Nat
          BY <1>3, <4>1
        <5>2. Allowance(clock - lockedSince) \in Nat
          BY <5>1, AnotherRound
        <5> QED
          BY <1>2, <1>3, <1>4, <3>2, <5>2
      <4> QED
        BY <1>1, <1>2, <1>3, <1>4, <4>1, <4>2
    <3> QED
      BY <3>1, <3>2
  <2>5. (Allowance(clock - lockedSince))' = Allowance(clock' - lockedSince')
    BY DEF Allowance, Round
  <2> QED
    BY <1>3, <1>4, <1>5, <1>7, <2>2, <2>3, <2>4, <2>5 DEF LoginTypeOK
<1> QED
  BY <1>3, <1>4, <1>6, <1>7

LEMMA GuessInvSucceeds ==
  ASSUME GuessInv, NEW t \in Attempts, LoginSucceeds(t)
  PROVE  GuessInv'
BY ThrottleAssumption DEF GuessInv, LoginTypeOK, LoginSucceeds

LEMMA GuessInvForget ==
  ASSUME GuessInv, ForgetLogins, UNCHANGED clock
  PROVE  GuessInv'
BY ThrottleAssumption DEF GuessInv, LoginTypeOK, ForgetLogins

\* The step that ends a lock pays for the round that may follow it.
LEMMA GuessInvTick ==
  ASSUME GuessInv, Tick
  PROVE  GuessInv'
<1>1. /\ clock \in Nat /\ failures \in Nat /\ guesses = failures
      /\ lockedSince \in Nat \union {None} /\ None \notin Int
      /\ lockedUntil \in Nat \union {None}
  BY ThrottleAssumption DEF GuessInv, LoginTypeOK
<1>2. clock' = clock + 1 /\ UNCHANGED <<failures, lockedUntil, attempt, guesses, lockedSince>>
  BY DEF Tick, throttle, history
<1>3. LoginTypeOK'
  BY <1>1, <1>2 DEF GuessInv, LoginTypeOK
<1>4. CASE lockedSince = None
  BY <1>2, <1>3, <1>4 DEF GuessInv
<1>5. CASE lockedSince # None
  <2>1. lockedSince \in Nat /\ lockedSince <= clock /\ clock - lockedSince \in Nat
    BY <1>1, <1>5 DEF GuessInv
  <2>2. /\ Allowance(clock - lockedSince) \in Nat
        /\ Allowance(clock' - lockedSince') = Allowance(clock - lockedSince) + Round
    <3>1. clock' - lockedSince' = (clock - lockedSince) + 1
      BY <1>1, <1>2, <2>1
    <3> QED
      BY <2>1, <3>1, AnotherRound
  <2>3. /\ Cardinality(InFlight) \in Nat /\ Round \in Nat /\ Cardinality(InFlight) <= Round
        /\ Cardinality(InFlight') = Cardinality(InFlight)
    BY <1>2, InFlightBound DEF InFlight
  <2>4. guesses < Allowance(clock - lockedSince)
    BY <1>1, <1>5, <2>2, <2>3 DEF GuessInv
  <2>5. Locked' => Locked
    BY <1>1, <1>2 DEF Locked
  <2>6. guesses' + (IF Locked' THEN Cardinality(InFlight') ELSE Round) < Allowance(clock' - lockedSince')
    BY <1>1, <1>2, <2>2, <2>3, <2>4
  <2>7. /\ (Allowance(clock - lockedSince))' = Allowance(clock' - lockedSince')
        /\ Round' = Round
    BY DEF Allowance, Round
  <2> QED
    BY <1>1, <1>2, <1>3, <1>5, <2>1, <2>6, <2>7 DEF GuessInv
<1> QED
  BY <1>4, <1>5

LEMMA GuessInvUnchanged ==
  ASSUME GuessInv, UNCHANGED loginVars
  PROVE  GuessInv'
<1>1. UNCHANGED <<clock, failures, lockedUntil, attempt, guesses, lockedSince>>
  BY DEF loginVars, throttle, history
<1>2. LoginTypeOK' /\ (Locked' <=> Locked) /\ InFlight' = InFlight /\ Round' = Round
  BY <1>1 DEF GuessInv, LoginTypeOK, Locked, InFlight, Round
<1>3. (Allowance(clock - lockedSince))' = Allowance(clock - lockedSince)
  BY <1>1 DEF Allowance, Round
<1> QED
  BY <1>1, <1>2, <1>3 DEF GuessInv

LEMMA GuessInvNext == GuessInv /\ [Next]_vars => GuessInv'
<1> SUFFICES ASSUME GuessInv, [Next]_vars PROVE GuessInv'
  OBVIOUS
<1>1. CASE StartServer
  BY <1>1, GuessInvUnchanged DEF StartServer
<1>2. CASE StorePair
  BY <1>2, GuessInvUnchanged DEF StorePair
<1>3. CASE StoreFails
  BY <1>3, GuessInvUnchanged DEF StoreFails
<1>4. CASE Stop
  BY <1>4, GuessInvForget DEF Stop
<1>5. CASE SetUpAgain
  BY <1>5, GuessInvUnchanged DEF SetUpAgain
<1>6. ASSUME NEW t \in Attempts, SignInBegins(t) PROVE GuessInv'
  BY <1>6, GuessInvBegin DEF SignInBegins
<1>7. ASSUME NEW t \in Attempts, SignInFails(t) PROVE GuessInv'
  BY <1>7, GuessInvFails DEF SignInFails
<1>8. ASSUME NEW t \in Attempts, SignInSucceeds(t) PROVE GuessInv'
  BY <1>8, GuessInvSucceeds DEF SignInSucceeds
<1>9. CASE RefreshSession
  BY <1>9, GuessInvUnchanged DEF RefreshSession
<1>10. CASE Logout
  BY <1>10, GuessInvUnchanged DEF Logout
<1>11. CASE TimePasses
  BY <1>11, GuessInvTick DEF TimePasses
<1>12. CASE UNCHANGED vars
  BY <1>12, GuessInvUnchanged DEF vars
<1> QED
  BY <1>1, <1>2, <1>3, <1>4, <1>5, <1>6, <1>7, <1>8, <1>9, <1>10, <1>11, <1>12 DEF Next

\* However many sign-ins overlap, wrong passwords stay within the threshold plus
\* one round of requests, and one round for each second since the first lock
\* (login and LoginThrottle of server/api.rs).
THEOREM GuessBudgetHolds == Spec => []GuessBudget
<1>1. GuessInv => GuessBudget
  <2> SUFFICES ASSUME GuessInv PROVE GuessBudget
    OBVIOUS
  <2>1. Round \in Nat /\ Cardinality(InFlight) \in Nat /\ Threshold \in Nat \ {0}
    BY InFlightBound, ThrottleAssumption
  <2>2. CASE lockedSince = None
    <3>1. Round * (1 + 0) = Round
      BY <2>1
    <3> QED
      BY <2>1, <2>2, <3>1 DEF GuessBudget, GuessInv, LoginTypeOK, Round
  <2>3. CASE lockedSince # None
    <3>1. lockedSince \in Nat /\ clock - lockedSince \in Nat /\ guesses \in Nat
      BY <2>3 DEF GuessInv, LoginTypeOK
    <3>2. Allowance(clock - lockedSince) \in Nat
      BY <3>1, AnotherRound
    <3>3. guesses < Allowance(clock - lockedSince)
      BY <2>1, <2>3, <3>1, <3>2 DEF GuessInv
    <3> QED
      BY <2>3, <3>3 DEF GuessBudget, Allowance, Round
  <2> QED
    BY <2>2, <2>3
<1> QED
  BY <1>1, GuessInvInit, GuessInvNext, PTL DEF Spec

-----------------------------------------------------------------------------
(* The certificate.                                                        *)

CertInv ==
  /\ machine \in Nat /\ pairs \in Nat
  /\ keyRow # None => certRow # None
  /\ keyRow # None => keyRow.machine \in Nat /\ keyRow.machine <= machine
  /\ server = "second" => certRow = pairs
  /\ server \in {"down", "first", "second", "up"}
  /\ "read" \notin trouble =>
       /\ Readable => certRow = keyRow.pair
       /\ server \in {"first", "second"} => ~Readable
  /\ HttpsWhenWanted

LEMMA CertInvInit == Init => CertInv
BY DEF Init, CertInv, Readable, HttpsWhenWanted

LEMMA CertInvStart ==
  ASSUME CertInv, StartServer
  PROVE  CertInv'
<1>1. PICK want \in BOOLEAN, misread \in BOOLEAN :
        /\ wantHttps' = want
        /\ trouble' = (trouble \ {"write"}) \union
                        (IF want /\ misread /\ Readable THEN {"read"} ELSE {})
        /\ server' = IF want /\ (misread \/ ~Readable) THEN "first" ELSE "up"
        /\ https' = (want /\ Readable /\ ~misread /\ certRow = keyRow.pair)
  BY DEF StartServer
<1>2. UNCHANGED <<certRow, keyRow, pairs, machine>>
  BY DEF StartServer
<1>3. Readable' <=> Readable
  BY <1>2 DEF Readable
<1>4. "read" \notin trouble' => "read" \notin trouble /\ ~(want /\ misread /\ Readable)
  BY <1>1
<1>5. server' \in {"first", "up"} /\ (server' = "first" => want /\ (misread \/ ~Readable))
  BY <1>1
<1>6. "read" \notin trouble' =>
        /\ Readable => certRow = keyRow.pair
        /\ server' \in {"first", "second"} => ~Readable
  BY <1>4, <1>5 DEF CertInv
<1>7. HttpsWhenWanted'
  <2> SUFFICES ASSUME server' = "up", want, trouble' = {} PROVE https'
    BY <1>1 DEF HttpsWhenWanted
  <2>1. ~misread /\ Readable
    BY <1>1
  <2> QED
    BY <1>1, <1>6, <2>1
<1> QED
  BY <1>2, <1>3, <1>5, <1>6, <1>7 DEF CertInv

LEMMA CertInvStore ==
  ASSUME CertInv, StorePair
  PROVE  CertInv'
<1>1. UNCHANGED <<wantHttps, trouble, machine>>
  BY DEF StorePair
<1>2. CASE server = "first"
  <2>1. server' = "second" /\ certRow' = pairs' /\ UNCHANGED <<https, keyRow>>
    BY <1>2 DEF StorePair
  <2>2. pairs' \in Nat /\ certRow' # None
    BY <1>2, <2>1, ThrottleAssumption DEF StorePair, MakePair, CertInv
  <2>3. "read" \notin trouble => ~Readable'
    BY <1>1, <1>2, <2>1 DEF CertInv, Readable
  <2> QED
    BY <1>1, <2>1, <2>2, <2>3 DEF CertInv, HttpsWhenWanted
<1>3. CASE server = "second"
  <2>1. /\ server' = "up" /\ https' = TRUE /\ keyRow' = KeyOf(pairs)
        /\ UNCHANGED <<pairs, certRow>> /\ certRow = pairs /\ certRow # None
    BY <1>3, ThrottleAssumption DEF StorePair, CertInv
  <2>2. keyRow'.machine = machine /\ keyRow'.pair = pairs
    BY <2>1 DEF KeyOf
  <2> QED
    BY <1>1, <2>1, <2>2 DEF CertInv, HttpsWhenWanted
<1> QED
  BY <1>2, <1>3 DEF StorePair

\* A node that moves leaves its keys behind.
LEMMA CertInvSetUpAgain ==
  ASSUME CertInv, SetUpAgain
  PROVE  CertInv'
<1>1. /\ UNCHANGED <<server, wantHttps, https, trouble, pairs>> /\ server = "down"
      /\ machine' \in {machine, machine + 1}
      /\ (certRow' = None /\ keyRow' = None) \/ UNCHANGED <<certRow, keyRow>>
  BY DEF SetUpAgain
<1>2. machine' \in Nat /\ machine <= machine'
  BY <1>1 DEF CertInv
<1>3. keyRow' # None => keyRow'.machine \in Nat /\ keyRow'.machine <= machine'
  BY <1>1, <1>2 DEF CertInv
<1>4. Readable' => Readable /\ UNCHANGED <<certRow, keyRow>>
  <2> SUFFICES ASSUME Readable' PROVE Readable /\ UNCHANGED <<certRow, keyRow>>
    OBVIOUS
  <2>1. UNCHANGED <<certRow, keyRow>> /\ keyRow # None /\ certRow # None
    BY <1>1 DEF Readable
  <2>2. keyRow.machine = machine' /\ keyRow.machine \in Nat /\ keyRow.machine <= machine
    BY <2>1 DEF Readable, CertInv
  <2>3. machine' = machine
    BY <1>1, <2>2 DEF CertInv
  <2> QED
    BY <2>1, <2>2, <2>3 DEF Readable
<1> QED
  BY <1>1, <1>2, <1>3, <1>4 DEF CertInv, HttpsWhenWanted

LEMMA CertInvUnchanged ==
  ASSUME CertInv, UNCHANGED <<tlsVars, machine>>
  PROVE  CertInv'
BY DEF CertInv, Readable, HttpsWhenWanted, tlsVars

LEMMA CertInvNext == CertInv /\ [Next]_vars => CertInv'
<1> SUFFICES ASSUME CertInv, [Next]_vars PROVE CertInv'
  OBVIOUS
<1>1. CASE StartServer
  BY <1>1, CertInvStart
<1>2. CASE StorePair
  BY <1>2, CertInvStore
<1>3. CASE StoreFails
  BY <1>3 DEF StoreFails, CertInv, Readable, HttpsWhenWanted
<1>4. CASE Stop
  BY <1>4 DEF Stop, CertInv, Readable, HttpsWhenWanted
<1>5. CASE SetUpAgain
  BY <1>5, CertInvSetUpAgain
<1>6. ASSUME NEW t \in Attempts, SignInBegins(t) \/ SignInFails(t) \/ SignInSucceeds(t)
      PROVE CertInv'
  BY <1>6, CertInvUnchanged DEF SignInBegins, SignInFails, SignInSucceeds
<1>7. CASE RefreshSession \/ Logout \/ TimePasses
  BY <1>7, CertInvUnchanged DEF RefreshSession, Logout, TimePasses
<1>8. CASE UNCHANGED vars
  BY <1>8, CertInvUnchanged DEF vars
<1> QED
  BY <1>1, <1>2, <1>3, <1>4, <1>5, <1>6, <1>7, <1>8 DEF Next

\* A node that is to serve HTTPS does, however often it was stopped between the
\* two writes of a certificate, wiped or moved (server/tls.rs), unless its
\* database fails.
THEOREM HttpsWhenWantedHolds == Spec => []HttpsWhenWanted
<1>1. CertInv => HttpsWhenWanted
  BY DEF CertInv
<1> QED
  BY <1>1, CertInvInit, CertInvNext, PTL DEF Spec

-----------------------------------------------------------------------------
(* Who is answered what.  The answers depend on what the cookie is alone,  *)
(* and AccessIsExact asks nothing of its expiry: the browser has dropped a *)
(* cookie before the guard would refuse it, which is what AccessInv says.  *)

AccessInv ==
  /\ clock \in Nat /\ https \in BOOLEAN /\ secret \in Nat
  /\ cookie # None =>
       cookie.exp \in Nat /\ cookie.exp > clock /\ cookie.secure \in BOOLEAN

Rest == {"api", "refresh", "page", "login"}

LEMMA AccessInvInit == Init => AccessInv
<1> SUFFICES ASSUME Init PROVE AccessInv
  OBVIOUS
<1>1. clock = 0 /\ secret = 1 /\ cookie = None
  BY DEF Init, LoginInit
<1>2. https \in BOOLEAN
  BY DEF Init
<1> QED
  BY <1>1, <1>2 DEF AccessInv

\* A cookie that is handed out is good for a lifetime.
LEMMA AccessInvSession ==
  ASSUME AccessInv, cookie' = Session(clock + Lifetime, https),
         UNCHANGED <<clock, https, secret>>
  PROVE  AccessInv'
<1>1. /\ cookie'.exp = clock + Lifetime /\ cookie'.secure = https
      /\ clock \in Nat /\ Lifetime \in Nat \ {0} /\ https \in BOOLEAN /\ secret \in Nat
  BY ServerAssumption DEF Session, AccessInv
<1>2. cookie'.exp \in Nat /\ cookie'.exp > clock /\ cookie'.secure \in BOOLEAN
  BY <1>1
<1> QED
  BY <1>1, <1>2 DEF AccessInv

LEMMA AccessInvNext == AccessInv /\ [Next]_vars => AccessInv'
<1> SUFFICES ASSUME AccessInv, [Next]_vars PROVE AccessInv'
  OBVIOUS
<1>1. CASE StartServer
  <2>1. UNCHANGED <<clock, secret, cookie>> /\ https' \in BOOLEAN
    BY <1>1 DEF StartServer, loginVars
  <2> QED
    BY <2>1 DEF AccessInv
<1>2. CASE StorePair
  <2>1. UNCHANGED <<clock, secret, cookie>> /\ (https' = https \/ https')
    BY <1>2 DEF StorePair, loginVars
  <2>2. https' = https \/ https' = TRUE
    BY <1>2 DEF StorePair
  <2> QED
    BY <2>1, <2>2 DEF AccessInv
<1>3. CASE StoreFails \/ Logout
  BY <1>3 DEF StoreFails, Logout, AccessInv, loginVars, tlsVars
<1>4. CASE Stop
  BY <1>4 DEF Stop, AccessInv
<1>5. CASE SetUpAgain
  BY <1>5 DEF SetUpAgain, AccessInv, loginVars
<1>6. ASSUME NEW t \in Attempts, SignInBegins(t) \/ SignInFails(t)
      PROVE AccessInv'
  BY <1>6 DEF SignInBegins, SignInFails, BeginLogin, LoginFails, AccessInv, tlsVars
<1>7. ASSUME NEW t \in Attempts, SignInSucceeds(t)
      PROVE AccessInv'
  BY <1>7, AccessInvSession DEF SignInSucceeds, LoginSucceeds, tlsVars
<1>8. CASE RefreshSession
  BY <1>8, AccessInvSession DEF RefreshSession, loginVars, tlsVars
<1>9. CASE TimePasses
  <2>1. clock' = clock + 1 /\ UNCHANGED <<https, secret>>
        /\ cookie' = IF cookie # None /\ cookie.exp <= clock' THEN None ELSE cookie
    BY <1>9 DEF TimePasses, Tick, tlsVars
  <2> QED
    BY <2>1 DEF AccessInv
<1>10. CASE UNCHANGED vars
  BY <1>10 DEF vars, loginVars, tlsVars, AccessInv
<1> QED
  BY <1>1, <1>2, <1>3, <1>4, <1>5, <1>6, <1>7, <1>8, <1>9, <1>10 DEF Next

\* The first route that does not reject a request answers it (server/http.rs).
LEMMA FirstThatAnswers ==
  ASSUME NEW req
  PROVE  Chain(req) = IF Health(req) # "reject" THEN Health(req)
                      ELSE IF AuthRoutes(req) # "reject" THEN AuthRoutes(req)
                      ELSE IF Guarded(req) # "reject" THEN Guarded(req)
                      ELSE IF StaticRoutes(req) # "reject" THEN StaticRoutes(req)
                      ELSE "error"
<1> DEFINE answers == <<Health(req), AuthRoutes(req), Guarded(req), StaticRoutes(req)>>
           taken == {i \in DOMAIN answers : answers[i] # "reject"}
<1>1. Chain(req) = IF taken = {} THEN "error" ELSE answers[Min(taken)]
  BY DEF Chain
<1>2. /\ answers[1] = Health(req) /\ answers[2] = AuthRoutes(req)
      /\ answers[3] = Guarded(req) /\ answers[4] = StaticRoutes(req)
  OBVIOUS
<1>3. DOMAIN answers = {1, 2, 3, 4}
  OBVIOUS
<1> HIDE DEF answers
<1>4. /\ 1 \in taken <=> Health(req) # "reject"
      /\ 2 \in taken <=> AuthRoutes(req) # "reject"
      /\ 3 \in taken <=> Guarded(req) # "reject"
      /\ 4 \in taken <=> StaticRoutes(req) # "reject"
  BY <1>2, <1>3
<1>5. \A i \in taken : i = 1 \/ i = 2 \/ i = 3 \/ i = 4
  BY <1>3
<1> HIDE DEF taken
<1>6. ASSUME NEW m \in taken, \A i \in taken : m <= i
      PROVE  Min(taken) = m
  <2>1. Min(taken) \in taken /\ \A i \in taken : Min(taken) <= i
    BY <1>6 DEF Min
  <2>2. Min(taken) <= m /\ m <= Min(taken)
    BY <2>1, <1>6
  <2>3. Min(taken) \in Int /\ m \in Int
    BY <2>1, <1>5
  <2> QED
    BY <2>2, <2>3
<1>7. 1 \in taken => Min(taken) = 1
  BY <1>5, <1>6
<1>8. 1 \notin taken /\ 2 \in taken => Min(taken) = 2
  BY <1>5, <1>6
<1>9. 1 \notin taken /\ 2 \notin taken /\ 3 \in taken => Min(taken) = 3
  BY <1>5, <1>6
<1>10. 1 \notin taken /\ 2 \notin taken /\ 3 \notin taken /\ 4 \in taken => Min(taken) = 4
  BY <1>5, <1>6
<1>11. taken = {} <=> 1 \notin taken /\ 2 \notin taken /\ 3 \notin taken /\ 4 \notin taken
  BY <1>5
<1> QED
  BY <1>1, <1>2, <1>4, <1>7, <1>8, <1>9, <1>10, <1>11

\* What a request of each kind gets from the chain: the guard alone decides on
\* the streams, the API and the refresh, and nothing else comes to it.
LEMMA ChainByKind ==
  ASSUME NEW req
  PROVE  /\ req.kind \in Streams \union {"api", "refresh"} =>
              Chain(req) = IF SessionOpens(req) \/ TokenOpens(req) THEN "content" ELSE "401"
         /\ req.kind = "page" => Chain(req) = "page"
         /\ req.kind = "login" => Chain(req) = "content"
<1>1. ASSUME req.kind \in Streams \union {"api", "refresh"}
      PROVE  Chain(req) = IF SessionOpens(req) \/ TokenOpens(req) THEN "content" ELSE "401"
  <2>1. Health(req) = "reject" /\ AuthRoutes(req) = "reject"
    BY <1>1 DEF Health, AuthRoutes, Streams
  <2>2. Guarded(req) = IF SessionOpens(req) \/ TokenOpens(req) THEN "content" ELSE "401"
    BY <1>1 DEF Guarded, Allowed
  <2> QED
    BY <2>1, <2>2, FirstThatAnswers
<1>2. ASSUME req.kind = "page" PROVE Chain(req) = "page"
  <2>1. /\ Health(req) = "reject" /\ AuthRoutes(req) = "reject"
        /\ Guarded(req) = "reject" /\ StaticRoutes(req) = "page"
    BY <1>2 DEF Health, AuthRoutes, Guarded, Allowed, StaticRoutes, Streams, Posts
  <2> QED
    BY <2>1, FirstThatAnswers
<1>3. ASSUME req.kind = "login" PROVE Chain(req) = "content"
  <2>1. Health(req) = "reject" /\ AuthRoutes(req) = "content"
    BY <1>3 DEF Health, AuthRoutes
  <2> QED
    BY <2>1, FirstThatAnswers
<1> QED
  BY <1>1, <1>2, <1>3

\* The redirect takes a request of plain HTTP to the same chain over HTTPS, but
\* for the streams, which are answered as they are.
LEMMA FetchIsChain ==
  ASSUME NEW kind \in Streams \union Rest, NEW scheme \in {"http", "https"},
         NEW camera, NEW jar, NEW token, scheme = "https" => https
  PROVE  LET final == IF https /\ kind \notin Streams THEN "https" ELSE scheme
         IN Fetch(Ask(kind, scheme, camera, jar, token)) =
              Chain(Ask(kind, final, camera, jar, token))
<1> DEFINE req == Ask(kind, scheme, camera, jar, token)
           secured == Ask(kind, "https", camera, jar, token)
<1>1. /\ req.kind = kind /\ req.scheme = scheme
      /\ secured.kind = kind /\ secured.scheme = "https"
      /\ [req EXCEPT !.scheme = "https"] = secured
      /\ scheme = "https" => req = secured
  BY DEF Ask
<1> HIDE DEF req, secured
<1>2. Chain(req) # "redirect" /\ Chain(secured) # "redirect"
  BY <1>1, ChainByKind DEF Rest
<1>3. kind \in Streams => Guarded(req) = Chain(req)
  <2>1. kind \in Streams => Guarded(req) \in {"content", "401"}
    BY <1>1 DEF Guarded
  <2>2. kind \in Streams => Health(req) = "reject" /\ AuthRoutes(req) = "reject"
    BY <1>1 DEF Health, AuthRoutes, Streams
  <2> QED
    BY <2>1, <2>2, FirstThatAnswers
<1>4. https => Answer(secured) = Chain(secured)
  BY <1>1 DEF Answer
<1>5. CASE ~https
  <2>1. Answer(req) = Chain(req)
    BY <1>1, <1>5 DEF Answer
  <2> QED
    BY <1>2, <1>5, <2>1 DEF Fetch, req
<1>6. CASE https /\ scheme = "https"
  BY <1>1, <1>2, <1>4, <1>6 DEF Fetch, req, secured
<1>7. CASE https /\ scheme = "http" /\ kind \in Streams
  <2>1. Answer(req) = Chain(req)
    BY <1>1, <1>3, <1>7 DEF Answer
  <2> QED
    BY <1>2, <1>7, <2>1 DEF Fetch, req
<1>8. CASE https /\ scheme = "http" /\ kind \notin Streams
  <2>1. Answer(req) = "redirect"
    BY <1>1, <1>8 DEF Answer
  <2>2. Fetch(req) = Chain(secured)
    BY <1>1, <1>4, <1>8, <2>1 DEF Fetch
  <2> QED
    BY <1>8, <2>2 DEF req, secured
<1> QED
  BY <1>5, <1>6, <1>7, <1>8

\* The browser's own requests: it is signed in while it has a cookie of this
\* setup that travels over the scheme the node serves.
LEMMA BrowserAccess ==
  ASSUME AccessInv, NEW kind \in Streams \union Rest, NEW scheme \in {"http", "https"},
         scheme = "https" => https, kind \in Streams => (https => scheme = "https")
  PROVE  LET signedIn == cookie # None /\ cookie.secret = secret /\ (cookie.secure => https)
             answer == Fetch(Ask(kind, scheme, None, cookie, None))
         IN /\ kind \in Streams \union {"api", "refresh"} =>
                 answer = IF signedIn THEN "content" ELSE "401"
            /\ kind = "page" => answer = "page"
            /\ kind = "login" => answer = "content"
<1> DEFINE final == IF https THEN "https" ELSE "http"
           req == Ask(kind, final, None, cookie, None)
           signedIn == cookie # None /\ cookie.secret = secret /\ (cookie.secure => https)
<1>1. Fetch(Ask(kind, scheme, None, cookie, None)) = Chain(req)
  BY FetchIsChain
<1>2. /\ req.kind = kind /\ req.scheme = final /\ req.cookie = cookie /\ req.token = None
  BY DEF Ask
<1> HIDE DEF req
<1>3. ~TokenOpens(req)
  BY <1>2 DEF TokenOpens
<1>4. cookie # None => cookie.exp > clock
  BY DEF AccessInv
<1>5. SessionOpens(req) <=> signedIn
  BY <1>2, <1>4 DEF SessionOpens
<1> QED
  BY <1>1, <1>2, <1>3, <1>5, ChainByKind

\* Home Assistant's requests: it shows a token and no cookie.
LEMMA TokenAccess ==
  ASSUME AccessInv, NEW kind \in Streams \union {"api"}, NEW c \in Cameras,
         NEW token \in [camera : Cameras, exp : Int, secret : Nat]
  PROVE  LET live == token.secret = secret /\ token.exp >= clock /\ token.camera = c
         IN Fetch(Ask(kind, "http", c, None, token)) =
              IF live /\ kind \in Streams THEN "content" ELSE "401"
<1> DEFINE final == IF https /\ kind \notin Streams THEN "https" ELSE "http"
           req == Ask(kind, final, c, None, token)
           live == token.secret = secret /\ token.exp >= clock /\ token.camera = c
<1>1. Fetch(Ask(kind, "http", c, None, token)) = Chain(req)
  BY FetchIsChain DEF Rest
<1>2. req.kind = kind /\ req.camera = c /\ req.cookie = None /\ req.token = token
  BY DEF Ask
<1> HIDE DEF req
<1>3. ~SessionOpens(req)
  BY <1>2 DEF SessionOpens
<1>4. token # None
  BY ServerAssumption
<1>5. TokenOpens(req) <=> live /\ kind \in Streams
  BY <1>2, <1>4 DEF TokenOpens
<1>6. req.kind \in Streams \union {"api", "refresh"}
  BY <1>2
<1> QED
  BY <1>1, <1>3, <1>5, <1>6, ChainByKind

LEMMA AccessInvIsExact == AccessInv => AccessIsExact
<1> SUFFICES ASSUME AccessInv PROVE AccessIsExact
  OBVIOUS
<1> DEFINE scheme == IF https THEN "https" ELSE "http"
           signedIn == cookie # None /\ cookie.secret = secret /\ (cookie.secure => https)
           Grant(ok) == IF ok THEN "content" ELSE "401"
           Tokens == [camera : Cameras, exp : {clock - 1, clock}, secret : 1 .. secret]
           Live(token, c) == token.secret = secret /\ token.exp >= clock /\ token.camera = c
<1>1. \A kind : Browse(kind) = Ask(kind, scheme, None, cookie, None)
  BY DEF Browse
<1>2. \A kind : [Browse(kind) EXCEPT !.scheme = "http"] = Ask(kind, "http", None, cookie, None)
  BY DEF Browse, Ask
<1>3. scheme \in {"http", "https"} /\ (scheme = "https" <=> https)
  OBVIOUS
<1>4. ASSUME NEW kind \in Streams \union {"api", "refresh"}
      PROVE  Fetch(Browse(kind)) = Grant(signedIn)
  BY <1>1, <1>3, BrowserAccess DEF Rest
<1>5. ASSUME NEW kind \in {"api", "refresh"}
      PROVE  Fetch([Browse(kind) EXCEPT !.scheme = "http"]) = Grant(signedIn)
  <2>1. kind \notin Streams /\ kind \in Rest
    BY DEF Streams, Rest
  <2> QED
    BY <1>2, <2>1, BrowserAccess
<1>6. Fetch(Browse("page")) = "page" /\ Fetch(Browse("login")) = "content"
  <2>1. {"page", "login"} \subseteq Rest
    BY DEF Rest
  <2> QED
    BY <1>1, <1>3, <2>1, BrowserAccess
<1>7. ASSUME NEW token \in Tokens, NEW c \in Cameras
      PROVE  LET playlist == Ask("playlist", "http", c, None, token) IN
               /\ Fetch(playlist) = Grant(Live(token, c))
               /\ Live(token, c) => Fetch(SegmentOf(playlist)) = "content"
               /\ Fetch([playlist EXCEPT !.kind = "api"]) = "401"
  <2>1. token \in [camera : Cameras, exp : Int, secret : Nat]
    BY DEF AccessInv
  <2>2. /\ SegmentOf(Ask("playlist", "http", c, None, token)) = Ask("segment", "http", c, None, token)
        /\ [Ask("playlist", "http", c, None, token) EXCEPT !.kind = "api"] =
             Ask("api", "http", c, None, token)
    BY DEF SegmentOf, Ask
  <2>3. "playlist" \in Streams /\ "segment" \in Streams /\ "api" \notin Streams
    BY DEF Streams
  <2> QED
    BY <2>1, <2>2, <2>3, TokenAccess
<1> QED
  BY <1>4, <1>5, <1>6, <1>7 DEF AccessIsExact

\* Through sign-ins, refreshes, logouts, restarts, setups and the redirect, a
\* browser gets content exactly while it is signed in, and Home Assistant the
\* streams of the token's camera exactly while the token lasts (server/http.rs,
\* server/auth.rs, server/stream_token.rs).
THEOREM AccessIsExactHolds == Spec => []AccessIsExact
BY AccessInvInit, AccessInvNext, AccessInvIsExact, PTL DEF Spec

-----------------------------------------------------------------------------
(* Types.                                                                  *)

\* Beside what the other invariants say: HTTPS is on only on a server that was
\* started to have it, and neither rows nor cookies are ahead of the counters they
\* were numbered by.
ServerInv ==
  /\ clock <= MaxClock
  /\ wantHttps \in BOOLEAN
  /\ https => server = "up" /\ wantHttps
  /\ server \in {"first", "second"} => wantHttps
  /\ certRow \in (1 .. pairs) \union {None}
  /\ keyRow # None => keyRow.pair \in Nat /\ keyRow.pair <= pairs
  /\ cookie # None => cookie.secret \in Nat /\ cookie.secret <= secret
  /\ server # "up" => \A t \in Attempts : attempt[t] = None

TypeInv == GuessInv /\ CertInv /\ AccessInv /\ ServerInv

LEMMA ServerInvInit == Init => ServerInv
<1> SUFFICES ASSUME Init PROVE ServerInv
  OBVIOUS
<1>1. clock <= MaxClock
  BY ThrottleAssumption DEF Init, LoginInit
<1>2. ~https /\ wantHttps = FALSE /\ server = "down"
  BY DEF Init
<1>3. certRow = None /\ keyRow = None /\ cookie = None /\ \A t \in Attempts : attempt[t] = None
  BY DEF Init, LoginInit
<1> QED BY <1>1, <1>2, <1>3 DEF ServerInv

LEMMA ServerInvStore ==
  ASSUME ServerInv, CertInv, StorePair
  PROVE  ServerInv'
<1>1. /\ pairs \in Nat /\ UNCHANGED <<clock, attempt, wantHttps, secret, cookie>>
  BY DEF CertInv, StorePair, loginVars
<1>2. CASE server = "first"
  <2>1. /\ server' = "second" /\ pairs' = pairs + 1 /\ certRow' = pairs'
        /\ UNCHANGED <<https, keyRow>>
    BY <1>2 DEF StorePair, MakePair
  <2> QED BY <1>1, <1>2, <2>1 DEF ServerInv
<1>3. CASE server = "second"
  <2>1. /\ server' = "up" /\ https' = TRUE /\ keyRow'.pair = pairs
        /\ UNCHANGED <<pairs, certRow>>
    BY <1>3 DEF StorePair, KeyOf
  <2> QED BY <1>1, <1>3, <2>1 DEF ServerInv
<1> QED BY <1>2, <1>3 DEF StorePair

LEMMA ServerInvSession ==
  ASSUME ServerInv, AccessInv, server = "up", cookie' = Session(clock + Lifetime, https),
         UNCHANGED <<clock, tlsVars, secret>>
  PROVE  ServerInv'
<1>1. cookie'.secret = secret /\ secret \in Nat
  BY DEF Session, AccessInv
<1> QED BY <1>1 DEF ServerInv, tlsVars

LEMMA ServerInvNext == TypeInv /\ [Next]_vars => ServerInv'
<1> SUFFICES ASSUME TypeInv, [Next]_vars PROVE ServerInv'
  OBVIOUS
<1> USE DEF TypeInv
<1>1. CASE StartServer
  <2>1. UNCHANGED <<clock, attempt, certRow, keyRow, pairs, secret, cookie>> /\ server = "down"
    BY <1>1 DEF StartServer, loginVars
  <2>2. PICK want \in BOOLEAN, misread \in BOOLEAN :
          /\ wantHttps' = want
          /\ server' = IF want /\ (misread \/ ~Readable) THEN "first" ELSE "up"
          /\ https' = (want /\ Readable /\ ~misread /\ certRow = keyRow.pair)
    BY <1>1 DEF StartServer
  <2>3. server' \in {"first", "up"} /\ (server' = "first" => want)
    BY <2>2
  <2>4. https' => server' = "up" /\ want
    BY <2>2
  <2> QED BY <2>1, <2>2, <2>3, <2>4 DEF ServerInv
<1>2. CASE StorePair
  BY <1>2, ServerInvStore
<1>3. CASE StoreFails
  BY <1>3 DEF StoreFails, ServerInv, loginVars
<1>4. CASE Stop
  BY <1>4 DEF Stop, ForgetLogins, ServerInv
<1>5. CASE SetUpAgain
  <2>1. /\ UNCHANGED <<clock, attempt, server, wantHttps, https, pairs, cookie>>
        /\ secret \in Nat /\ secret' = secret + 1
        /\ (certRow' = None /\ keyRow' = None) \/ UNCHANGED <<certRow, keyRow>>
    BY <1>5 DEF SetUpAgain, loginVars, AccessInv
  <2> QED BY <2>1 DEF ServerInv
<1>6. ASSUME NEW t \in Attempts, SignInBegins(t) PROVE ServerInv'
  BY <1>6 DEF SignInBegins, BeginLogin, ServerInv, tlsVars
<1>7. ASSUME NEW t \in Attempts, SignInFails(t) PROVE ServerInv'
  <2>1. server = "up"
    BY <1>7 DEF SignInFails, LoginFails, ServerInv
  <2> QED BY <1>7, <2>1 DEF SignInFails, LoginFails, ServerInv, tlsVars
<1>8. ASSUME NEW t \in Attempts, SignInSucceeds(t) PROVE ServerInv'
  <2>1. server = "up"
    BY <1>8, ThrottleAssumption DEF SignInSucceeds, LoginSucceeds, ServerInv, GuessInv
  <2>2. UNCHANGED <<clock, tlsVars, secret>> /\ cookie' = Session(clock + Lifetime, https)
    BY <1>8 DEF SignInSucceeds, LoginSucceeds
  <2> QED BY <2>1, <2>2, ServerInvSession
<1>9. CASE RefreshSession
  BY <1>9, ServerInvSession DEF RefreshSession, loginVars
<1>10. CASE Logout
  BY <1>10 DEF Logout, ServerInv, loginVars, tlsVars
<1>11. CASE TimePasses
  <2>1. /\ clock < MaxClock /\ clock' = clock + 1 /\ clock \in Nat /\ MaxClock \in Nat
        /\ UNCHANGED <<attempt, tlsVars, secret>> /\ cookie' \in {None, cookie}
    BY <1>11, ThrottleAssumption DEF TimePasses, Tick, AccessInv
  <2> QED BY <2>1 DEF ServerInv, tlsVars
<1>12. CASE UNCHANGED vars
  BY <1>12 DEF vars, loginVars, tlsVars, ServerInv
<1> QED
  BY <1>1, <1>2, <1>3, <1>4, <1>5, <1>6, <1>7, <1>8, <1>9, <1>10, <1>11, <1>12 DEF Next

\* The server's variables keep their types, for any number of requests: HTTPS is
\* on only while it is up and was to have it (HttpServer::run of server/http.rs),
\* no request is in flight while it is not, and no row of the certificate and no
\* cookie is numbered ahead of its time.
THEOREM ServerTypeCorrect == Spec => []TypeOK
<1>1. Init => TypeInv
  BY GuessInvInit, CertInvInit, AccessInvInit, ServerInvInit DEF TypeInv
<1>2. TypeInv /\ [Next]_vars => TypeInv'
  BY GuessInvNext, CertInvNext, AccessInvNext, ServerInvNext DEF TypeInv
<1>3. TypeInv => TypeOK
  <2> SUFFICES ASSUME TypeInv PROVE TypeOK
    OBVIOUS
  <2>1. clock \in 0 .. MaxClock
    BY ThrottleAssumption DEF TypeInv, AccessInv, ServerInv
  <2> QED BY <2>1 DEF TypeInv, GuessInv, LoginTypeOK, CertInv, AccessInv, ServerInv, TypeOK
<1> QED BY <1>1, <1>2, <1>3, PTL DEF Spec
=============================================================================
