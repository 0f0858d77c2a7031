----------------------------- MODULE LocalServer -----------------------------
(***************************************************************************)
(* The local web server as its clients see it, on a node other machines    *)
(* can reach: its start with the certificate it keeps in node.db           *)
(* (server/tls.rs), the order of its routes (server/http.rs), the guard    *)
(* and the sessions (server/auth.rs, server/api.rs), the stream tokens     *)
(* Home Assistant plays with (server/stream_token.rs), and the login       *)
(* throttle.                                                               *)
(*                                                                         *)
(* A signature is the secret it was made with; a certificate is the number *)
(* of the pair it belongs to.  A browser keeps one cookie, marked with its *)
(* Max-Age and Secure; the guard itself knows tokens, not cookies.         *)
(***************************************************************************)
EXTENDS LoginThrottle, FiniteSetsExt

CONSTANTS
  Cameras,
  Lifetime,    \* SESSION_LIFETIME_SECS
  MaxPairs,    \* bound: certificates made
  MaxSetups    \* bound: how often the node is set up

ASSUME ServerAssumption ==
  /\ Lifetime \in Nat \ {0} /\ MaxPairs \in Nat /\ MaxSetups \in Nat \ {0}
  /\ None \notin [camera : Cameras, exp : Int, secret : Nat]

VARIABLES
  server,    \* "down", "first" or "second" row to be stored, "up"
  wantHttps, \* wanted_for(bind): the environment may switch it off
  https,     \* tls::enabled
  certRow,   \* tls_cert_pem
  keyRow,    \* tls_key_pem: the pair, and the machine that encrypted it
  pairs,     \* pairs made so far
  machine,   \* the machine the node runs on
  secret,    \* session secret and node key: a number, new with each setup
  trouble,   \* history: the database failed where the certificate is concerned
  cookie     \* the browser's

tlsVars == <<server, wantHttps, https, certRow, keyRow, pairs, trouble>>
vars == <<loginVars, tlsVars, machine, secret, cookie>>

Session(exp, secure) == [exp |-> exp, secret |-> secret, secure |-> secure]

TypeOK ==
  /\ clock \in 0 .. MaxClock /\ failures \in Nat /\ lockedUntil \in Nat \union {None}
  /\ attempt \in [Attempts -> {None, "right", "wrong"}]
  /\ server \in {"down", "first", "second", "up"} /\ https \in BOOLEAN /\ wantHttps \in BOOLEAN
  /\ https => server = "up" /\ wantHttps
  /\ certRow \in 1 .. pairs \union {None}
  /\ keyRow # None => keyRow.pair <= pairs /\ keyRow.machine <= machine
  /\ cookie # None => cookie.secret <= secret
  /\ server # "up" => \A t \in Attempts : attempt[t] = None

Init ==
  /\ LoginInit
  /\ server = "down" /\ wantHttps = FALSE /\ https = FALSE
  /\ certRow = None /\ keyRow = None /\ pairs = 0 /\ trouble = {}
  /\ machine = 1 /\ secret = 1 /\ cookie = None

-----------------------------------------------------------------------------
(* Requests.                                                               *)

Streams == {"playlist", "segment"}
Posts == {"login", "logout", "refresh"}

\* [kind, scheme, camera, cookie, token]: what is asked for, and what the client
\* would show for it.  A token is [camera, exp, secret].
Ask(kind, scheme, camera, jar, token) ==
  [kind |-> kind, scheme |-> scheme, camera |-> camera, cookie |-> jar, token |-> token]

\* verify_session_token; a Secure cookie does not travel over plain HTTP.
SessionOpens(req) ==
  /\ req.cookie # None
  /\ req.cookie.secure => req.scheme = "https"
  /\ req.cookie.secret = secret /\ req.cookie.exp > clock

\* Mutant: the token is not tied to the camera.
AnyTokenOpens(req) ==
  /\ req.kind \in Streams /\ req.token # None
  /\ req.token.secret = secret /\ req.token.exp >= clock

\* stream_token_opens
TokenOpens(req) ==
  /\ req.kind \in Streams /\ req.token # None
  /\ req.token.secret = secret /\ req.token.exp >= clock
  /\ req.token.camera = req.camera

Allowed(req) ==
  req.kind \in Streams \union {"api", "refresh"} => SessionOpens(req) \/ TokenOpens(req)

\* Each route answers, or rejects the request and leaves it to the next one.
Health(req) == IF req.kind = "health" THEN "content" ELSE "reject"
AuthRoutes(req) == IF req.kind \in {"login", "logout"} THEN "content" ELSE "reject"

Guarded(req) ==
  IF ~Allowed(req) THEN "401"
  ELSE IF req.kind \in Streams \union {"api", "refresh"} THEN "content" ELSE "reject"

StaticRoutes(req) ==
  IF req.kind \in Posts THEN "reject"
  ELSE IF req.kind \in Streams \union {"api", "health"} THEN "404" ELSE "page"

Chain(req) ==
  LET answers == <<Health(req), AuthRoutes(req), Guarded(req), StaticRoutes(req)>>
      taken == {i \in DOMAIN answers : answers[i] # "reject"}
  IN IF taken = {} THEN "error" ELSE answers[Min(taken)]

\* serve: over HTTPS everything; over plain HTTP the streams, and a redirect.
Answer(req) ==
  IF req.scheme = "https" THEN (IF https THEN Chain(req) ELSE "none")
  ELSE IF ~https THEN Chain(req)
  ELSE IF req.kind \in Streams THEN Guarded(req)
  ELSE "redirect"

\* What a client ends up with when it follows the redirect (308 keeps method,
\* path and query).
Fetch(req) ==
  IF Answer(req) = "redirect" THEN Answer([req EXCEPT !.scheme = "https"]) ELSE Answer(req)

\* with_stream_token: the segments a playlist names, asked for as it names them.
SegmentOf(req) == [req EXCEPT !.kind = "segment"]

-----------------------------------------------------------------------------
(* Start and stop.                                                         *)

Readable == certRow # None /\ keyRow # None /\ keyRow.machine = machine

\* HttpServer::run up to the certificate: a stored pair that can be read is
\* used (rustls refuses one that does not match), otherwise one is made.
StartServer ==
  /\ server = "down"
  /\ \E want, misread \in BOOLEAN :
       /\ wantHttps' = want
       /\ trouble' = (trouble \ {"write"}) \union
                       (IF want /\ misread /\ Readable THEN {"read"} ELSE {})
       /\ server' = IF want /\ (misread \/ ~Readable) THEN "first" ELSE "up"
       /\ https' = (want /\ Readable /\ ~misread /\ certRow = keyRow.pair)
  /\ UNCHANGED <<loginVars, certRow, keyRow, pairs, machine, secret, cookie>>

MakePair == pairs < MaxPairs /\ pairs' = pairs + 1
KeyOf(n) == [pair |-> n, machine |-> machine]

\* Mutant: the key is stored first.
StoreKeyFirst ==
  /\ \/ /\ server = "first" /\ MakePair
        /\ server' = "second" /\ keyRow' = KeyOf(pairs')
        /\ UNCHANGED <<https, certRow>>
     \/ /\ server = "second"
        /\ server' = "up" /\ https' = TRUE /\ certRow' = pairs
        /\ UNCHANGED <<pairs, keyRow>>
  /\ UNCHANGED <<loginVars, wantHttps, trouble, machine, secret, cookie>>

\* A pair is made and stored, the certificate first, the key in a second write.
StorePair ==
  /\ \/ /\ server = "first" /\ MakePair
        /\ server' = "second" /\ certRow' = pairs'
        /\ UNCHANGED <<https, keyRow>>
     \/ /\ server = "second"
        /\ server' = "up" /\ https' = TRUE /\ keyRow' = KeyOf(pairs)
        /\ UNCHANGED <<pairs, certRow>>
  /\ UNCHANGED <<loginVars, wantHttps, trouble, machine, secret, cookie>>

\* A write fails: the node serves plain HTTP for this time.
StoreFails ==
  /\ server \in {"first", "second"}
  /\ server' = "up" /\ trouble' = trouble \union {"write"}
  /\ UNCHANGED <<loginVars, wantHttps, https, certRow, keyRow, pairs, machine, secret, cookie>>

Stop ==
  /\ server # "down"
  /\ server' = "down" /\ https' = FALSE
  /\ ForgetLogins
  /\ UNCHANGED <<clock, wantHttps, certRow, keyRow, pairs, trouble, machine, secret, cookie>>

\* The node is set up again, on this machine or, with a copy of its database, on
\* another; before that, its database may have been wiped.
SetUpAgain ==
  /\ server = "down" /\ secret < MaxSetups
  /\ secret' = secret + 1
  /\ machine' \in {machine, machine + 1}
  /\ \/ certRow' = None /\ keyRow' = None
     \/ UNCHANGED <<certRow, keyRow>>
  /\ UNCHANGED <<loginVars, server, wantHttps, https, pairs, trouble, cookie>>

-----------------------------------------------------------------------------
(* Signing in and out.                                                     *)

SignInBegins(t) ==
  /\ server = "up"
  /\ \E password \in {"right", "wrong"} : BeginLogin(t, password)
  /\ UNCHANGED <<tlsVars, machine, secret, cookie>>

SignInFails(t) ==
  /\ LoginFails(t)
  /\ UNCHANGED <<tlsVars, machine, secret, cookie>>

SignInSucceeds(t) ==
  /\ LoginSucceeds(t)
  /\ cookie' = Session(clock + Lifetime, https)
  /\ UNCHANGED <<tlsVars, machine, secret>>

Browse(kind) ==
  Ask(kind, IF https THEN "https" ELSE "http", None, cookie, None)

\* The page refreshes the session now and then.
RefreshSession ==
  /\ server = "up"
  /\ Fetch(Browse("refresh")) = "content"
  /\ cookie' = Session(clock + Lifetime, https)
  /\ UNCHANGED <<loginVars, tlsVars, machine, secret>>

Logout ==
  /\ server = "up" /\ cookie # None
  /\ cookie' = None
  /\ UNCHANGED <<loginVars, tlsVars, machine, secret>>

\* Time passes; the browser drops a cookie at its Max-Age.
TimePasses ==
  /\ Tick
  /\ cookie' = IF cookie # None /\ cookie.exp <= clock' THEN None ELSE cookie
  /\ UNCHANGED <<tlsVars, machine, secret>>

Next ==
  \/ StartServer
  \/ StorePair
  \/ StoreFails
  \/ Stop
  \/ SetUpAgain
  \/ \E t \in Attempts : SignInBegins(t) \/ SignInFails(t) \/ SignInSucceeds(t)
  \/ RefreshSession
  \/ Logout
  \/ TimePasses

Spec == Init /\ [][Next]_vars

-----------------------------------------------------------------------------
(* Properties.                                                             *)

\* A browser gets content exactly while it is signed in, and otherwise the 401
\* that sends its page to the login form, never the 404 or the page of another
\* route; over plain HTTP too, through the redirect.  Home Assistant gets the
\* playlist and every segment the playlist names over plain HTTP while its token
\* lasts, of the token's camera only, and nothing but streams.
AccessIsExact ==
  server = "up" =>
    LET signedIn == cookie # None /\ cookie.secret = secret /\ (cookie.secure => https)
        Grant(ok) == IF ok THEN "content" ELSE "401"
        tokens == [camera : Cameras, exp : {clock - 1, clock}, secret : 1 .. secret]
        Live(token, c) == token.secret = secret /\ token.exp >= clock /\ token.camera = c
    IN /\ \A kind \in Streams \union {"api", "refresh"} :
            /\ Fetch(Browse(kind)) = Grant(signedIn)
            /\ kind \notin Streams =>
                 Fetch([Browse(kind) EXCEPT !.scheme = "http"]) = Grant(signedIn)
       /\ Fetch(Browse("page")) = "page" /\ Fetch(Browse("login")) = "content"
       /\ \A token \in tokens, c \in Cameras :
            LET playlist == Ask("playlist", "http", c, None, token) IN
              /\ Fetch(playlist) = Grant(Live(token, c))
              /\ Live(token, c) => Fetch(SegmentOf(playlist)) = "content"
              /\ Fetch([playlist EXCEPT !.kind = "api"]) = "401"

\* A node that is to serve HTTPS does, after stops at any moment, wipes and moves
\* to another machine: the two rows of the certificate never come to belong to
\* different pairs.  Only a database that fails costs the node its HTTPS: a write,
\* until the next start; a read, perhaps for good.
HttpsWhenWanted ==
  server = "up" /\ wantHttps /\ trouble = {} => https
=============================================================================
