----------------------------- MODULE NodeStartup -----------------------------
(***************************************************************************)
(* The life of the program around one node.db: the start that decides      *)
(* between setup and running (main.rs), the wizard and the quick setup     *)
(* (setup/), the registration and the offer to start over (node/runner.rs, *)
(* setup/recovery.rs), the Windows service (service.rs), and the commands  *)
(* of the dashboard that end a run (dashboard/commands.rs).  It runs in a  *)
(* terminal, without one, or as the service; it may die between any two    *)
(* writes; its database may be moved to another machine; Command Center    *)
(* may rotate the key.                                                     *)
(*                                                                         *)
(* A password and the session secret drawn with it carry the number of the *)
(* setup that chose them.                                                  *)
(***************************************************************************)
EXTENDS ConfigStore

CONSTANT MaxEvents  \* bound: events from outside: the starts out of a terminal, the ends of a run, the moves

\* What may be typed at the dashboard.
Commands == {"set", "other", "wipe", "reauth"}
Lines == [cmd : Commands, how : {"bare", "args", "confirm"}]

ASSUME StartupAssumption ==
  /\ MaxEvents \in Nat
  /\ None \notin Commands \union Lines

VARIABLES
  pc,         \* "off", "wizard", "saving", "starting", "registering", "running"
  frontend,   \* "terminal", "headless", "service"
  scm,        \* what the service manager was told last
  todo, then, \* the writes of a save that are left, and where the program goes on
  config,     \* the configuration the node runs with
  stop,       \* stop_flag
  armed,      \* pending_confirm
  valid,      \* the key Command Center accepts
  events,
  \* History:
  passwords,  \* passwords chosen
  asked,      \* who may reach the node, by the last setup: "loopback", "local", "lan"
  torn,       \* a save did not come to its end
  tuned,      \* the rows the operator tuned, in a table that has a mode
  line        \* the last command typed, until it is forgotten

process == <<pc, frontend, scm, stop>>
save == <<todo, then>>
console == <<armed, line>>
history == <<passwords, asked, torn, tuned>>
vars == <<storeVars, process, save, config, console, valid, events, history>>

TypeOK ==
  /\ DOMAIN rows = Keys
  /\ rows.mode \in {None, "connected", "local"} /\ rows.bind \in {None, "loopback", "lan"}
  /\ rows.hash \in {None} \union 1 .. passwords
  /\ \A k \in Encrypted : rows[k] # None => rows[k].by \in 0 .. machine
  /\ env \in {None} \union 1 .. valid
  /\ pc \in {"off", "wizard", "saving", "starting", "registering", "running"}
  /\ pc = "saving" <=> todo # <<>>
  /\ stop => pc \in {"registering", "saving", "running"}
  /\ pc = "running" => Configured(config)
  /\ armed # None => pc = "running" /\ frontend = "terminal"
  /\ events \in 0 .. MaxEvents

Init ==
  /\ machine = Home /\ env \in {None, 1} /\ valid = 1
  /\ rows \in {NoRows, [NoRows EXCEPT !.node_id = "id", !.tuning = "default",
                                     !.api_key = [value |-> 1, by |-> OldKey]]}
  /\ pc = "off" /\ frontend = "terminal" /\ scm = "none" /\ stop = FALSE
  /\ todo = <<>> /\ then = "off" /\ config = Default
  /\ armed = None /\ line = None
  /\ events = 0 /\ passwords = 0
  /\ asked = "loopback" /\ torn = FALSE /\ tuned = {}

-----------------------------------------------------------------------------
(* Operators.                                                              *)

Event == events < MaxEvents /\ events' = events + 1

\* The process is gone, or its function returned.
Ended ==
  /\ pc' = "off" /\ stop' = FALSE
  /\ todo' = <<>> /\ then' = "off"
  /\ armed' = None /\ line' = None

GoOn(where) ==
  /\ pc' = where
  /\ UNCHANGED <<save, console, stop>>

SaveThen(writes, where) ==
  /\ pc' = "saving" /\ todo' = writes /\ then' = where
  /\ armed' = None /\ line' = None
  /\ UNCHANGED stop

NeedsSetup == LoadFails \/ ~Configured(Loaded)

\* Mutant: a save starts from the defaults.
FreshBase == Default

\* What a setup starts from: the stored configuration if it can be read.
SetupBase == IF HasConfig /\ ~Unreadable THEN Loaded ELSE Default

Paired(base) == [base EXCEPT !.mode = "connected", !.node_id = "id", !.api_key = valid]

\* Mutant: the session secret is drawn once, as long as there is one.
SecuredOnce(base, n) ==
  IF base.secret = None THEN [base EXCEPT !.hash = n, !.secret = n]
                        ELSE [base EXCEPT !.hash = n]

Secured(base, n) == [base EXCEPT !.hash = n, !.secret = n]

\* A setup that picks an encoder writes it over the row, whatever that says.
Picked(picks) == IF picks THEN <<Put("encoder", "picked")>> ELSE <<>>

\* What the operator tuned and such a setup leaves alone.
Untouched(picks) == IF picks THEN tuned \ {"encoder"} ELSE tuned

\* The node detects it only if none is configured; the write may fail.  (Names that
\* have been retired: EncoderChoice.)
Detected(table, loaded) ==
  IF loaded.encoder = None THEN {table, [table EXCEPT !.encoder = "picked"]} ELSE {table}

-----------------------------------------------------------------------------
(* Start.                                                                  *)

\* main::run.  Without a database, credentials of the environment are saved; a
\* failure to do so is like a stop at that write.  The wizard needs a terminal.
Launch(f) ==
  /\ pc = "off"
  /\ frontend' = f /\ scm' = "none"
  /\ rows' = LoadedRows
  /\ IF NeedsSetup THEN f = "terminal" /\ GoOn("wizard")
     ELSE IF HasConfig THEN GoOn("starting")
     ELSE SaveThen(Writes(Loaded), "starting")
  /\ IF f = "terminal" THEN UNCHANGED events ELSE Event
  /\ UNCHANGED <<machine, env, config, valid, history>>

\* setup without arguments: the wizard, whatever is configured.
SetupAgain ==
  /\ pc = "off" /\ Event
  /\ frontend' = "terminal" /\ scm' = "none"
  /\ GoOn("wizard")
  /\ UNCHANGED <<storeVars, config, valid, history>>

\* run_service up to the start of the node: a stop is accepted from then on.
LaunchService ==
  /\ pc = "off" /\ Event
  /\ frontend' = "service" /\ rows' = LoadedRows
  /\ IF NeedsSetup
     THEN scm' = "Stopped" /\ UNCHANGED <<pc, save, console, stop, config>>
     ELSE /\ scm' = "Running" /\ config' = Loaded
          /\ IF HasConfig THEN GoOn("registering") ELSE SaveThen(Writes(Loaded), "registering")
  /\ UNCHANGED <<machine, env, valid, history>>

\* The answers of the wizard, tested with Command Center: a Local node is open to
\* the network, with a password; a Connected one keeps its bind, unless it was
\* Local.  The wizard picks an encoder on Windows, and elsewhere if there is a
\* hardware encoder.
WizardLocal(picks) ==
  /\ pc = "wizard"
  /\ rows' = LoadedRows
  /\ passwords' = passwords + 1 /\ asked' = "local"
  /\ LET local == [SetupBase EXCEPT !.mode = "local", !.node_id = None,
                                    !.api_key = None, !.bind = "lan"] IN
       SaveThen(Writes(Secured(local, passwords + 1)) \o (Unpair \o Picked(picks)), "starting")
  /\ tuned' = Untouched(picks)
  /\ UNCHANGED <<machine, env, frontend, scm, config, valid, events, torn>>

\* Mutant: was_local is read after the mode was overwritten.
WizardConnectedKeepsBind(picks) ==
  /\ pc = "wizard"
  /\ rows' = LoadedRows
  /\ asked' = IF asked = "local" THEN "loopback" ELSE asked
  /\ SaveThen(Writes(Paired(SetupBase)) \o Picked(picks), "starting")
  /\ tuned' = Untouched(picks)
  /\ UNCHANGED <<machine, env, frontend, scm, config, valid, events, passwords, torn>>

WizardConnected(picks) ==
  /\ pc = "wizard"
  /\ rows' = LoadedRows
  /\ asked' = IF asked = "local" THEN "loopback" ELSE asked
  /\ LET bind == IF SetupBase.mode = "local" THEN "loopback" ELSE SetupBase.bind IN
       SaveThen(Writes([Paired(SetupBase) EXCEPT !.bind = bind]) \o Picked(picks), "starting")
  /\ tuned' = Untouched(picks)
  /\ UNCHANGED <<machine, env, frontend, scm, config, valid, events, passwords, torn>>

\* A prerequisite is missing, or the operator gives up.
WizardEnds ==
  /\ pc = "wizard" /\ Event
  /\ Ended
  /\ UNCHANGED <<storeVars, frontend, scm, config, valid, history>>

\* setup --url --node-id --key [--lan-streaming --password]
QuickSetup(f, lan) ==
  /\ pc = "off" /\ Event
  /\ frontend' = f /\ scm' = "none" /\ rows' = LoadedRows
  /\ asked' = IF lan THEN "lan" ELSE "loopback"
  /\ LET base == [Paired(SetupBase) EXCEPT !.bind = IF lan THEN "lan" ELSE "loopback"] IN
       IF lan
       THEN /\ passwords' = passwords + 1
            /\ SaveThen(Writes(Secured(base, passwords + 1)) \o Picked(TRUE), "starting")
       ELSE SaveThen(Writes(base) \o Picked(TRUE), "starting") /\ UNCHANGED passwords
  /\ tuned' = Untouched(TRUE)
  /\ UNCHANGED <<machine, env, config, valid, torn>>

\* One row; after the last one the program goes on.
SaveRow ==
  /\ pc = "saving"
  /\ Execute(Head(todo))
  /\ todo' = Tail(todo)
  /\ IF Len(todo) = 1 THEN pc' = then /\ then' = "off" ELSE UNCHANGED <<pc, then>>
  /\ stop' = (stop /\ pc' # "off")
  /\ UNCHANGED <<machine, env, frontend, scm, config, console, valid, events, history>>

\* run_cameranode_once up to the registration, which a Local node does not need.
Start ==
  /\ pc = "starting"
  /\ IF NeedsSetup THEN rows' = LoadedRows /\ Ended /\ UNCHANGED config
     ELSE /\ config' = Loaded
          /\ IF Loaded.mode = "local" THEN rows' \in Detected(LoadedRows, Loaded) /\ GoOn("running")
             ELSE rows' = LoadedRows /\ GoOn("registering")
  /\ UNCHANGED <<machine, env, frontend, scm, valid, events, history>>

Accepted == config.mode = "local" \/ config.api_key = valid

\* Mutant: the stop flag is made when the node is up.
RegisterSucceedsAnew ==
  /\ pc = "registering" /\ Accepted
  /\ pc' = "running" /\ stop' = FALSE
  /\ rows' \in Detected(rows, config)
  /\ UNCHANGED <<save, console>>
  /\ UNCHANGED <<machine, env, frontend, scm, config, valid, events, history>>

RegisterSucceeds ==
  /\ pc = "registering" /\ Accepted
  /\ GoOn("running")
  /\ rows' \in Detected(rows, config)
  /\ UNCHANGED <<machine, env, frontend, scm, config, valid, events, history>>

\* The credentials are refused: in a terminal the operator may have them deleted
\* and goes through the wizard at once.
RegisterRefused ==
  /\ pc = "registering" /\ ~Accepted
  /\ IF frontend = "terminal"
     THEN \/ SaveThen(Unpair, "wizard") /\ UNCHANGED <<scm, events>>
          \/ Ended /\ Event /\ UNCHANGED scm
     ELSE Ended /\ UNCHANGED events /\ scm' = IF frontend = "service" THEN "Stopped" ELSE scm
  /\ UNCHANGED <<storeVars, frontend, config, valid, history>>

\* Command Center cannot be reached or fails.
RegisterFails ==
  /\ pc = "registering" /\ config.mode = "connected" /\ Event
  /\ Ended
  /\ scm' = IF frontend = "service" THEN "Stopped" ELSE scm
  /\ UNCHANGED <<storeVars, frontend, config, valid, history>>

-----------------------------------------------------------------------------
(* Running.                                                                *)

\* Ctrl+C, SIGTERM, /quit, or the service manager, which may ask before the node
\* has registered.
RequestStop ==
  /\ pc = "running" \/ (pc = "registering" /\ scm = "Running")
  /\ ~stop /\ Event
  /\ stop' = TRUE
  /\ UNCHANGED <<storeVars, pc, frontend, scm, save, config, console, valid, history>>

\* The flag is polled once the node is up.
StopNode ==
  /\ pc = "running" /\ stop
  /\ Ended
  /\ scm' = IF frontend = "service" THEN "Stopped" ELSE scm
  /\ UNCHANGED <<storeVars, frontend, config, valid, events, history>>

AtDashboard == pc = "running" /\ frontend = "terminal" /\ ~stop

\* /set writes one row; the node uses it from its next start.
SetTuning(key) ==
  /\ AtDashboard /\ Event
  /\ rows' = [rows EXCEPT ![key] = "tuned"]
  /\ tuned' = IF rows.mode = None THEN {} ELSE tuned \union {key}
  /\ armed' = None /\ line' = [cmd |-> "set", how |-> "args"]
  /\ UNCHANGED <<machine, env, process, save, config, valid, passwords, asked, torn>>

\* Mutant: another command leaves the confirmation armed.
OtherCommandKeepsArmed ==
  /\ AtDashboard
  /\ line' = [cmd |-> "other", how |-> "bare"]
  /\ UNCHANGED <<storeVars, process, save, config, armed, valid, events, history>>

\* A command that is neither /wipe nor /reauth.  (A line that is no command
\* changes nothing.)
OtherCommand ==
  /\ AtDashboard
  /\ armed' = None /\ line' = [cmd |-> "other", how |-> "bare"]
  /\ UNCHANGED <<storeVars, process, save, config, valid, events, history>>

\* CONFIRM_TIMEOUT is over.
ConfirmExpires ==
  /\ armed # None
  /\ armed' = None /\ line' = None
  /\ UNCHANGED <<storeVars, process, save, config, valid, events, history>>

\* check_or_arm_confirm
Confirmed(cmd, how) == how = "confirm" \/ (how = "bare" /\ armed = cmd)

Arm(cmd, how) ==
  /\ AtDashboard /\ ~Confirmed(cmd, how)
  /\ armed' = cmd /\ line' = [cmd |-> cmd, how |-> how]
  /\ UNCHANGED <<storeVars, process, save, config, valid, events, history>>

\* /wipe: Command Center deletes the node, or the call fails; the table is emptied
\* and the node stops.  If the batch fails, before the table or after it, the node
\* goes on.
Wipe(how) ==
  /\ AtDashboard /\ Confirmed("wipe", how) /\ Event
  /\ valid' \in {valid, valid + 1}
  /\ \/ /\ rows' = NoRows /\ tuned' = {} /\ stop' \in BOOLEAN
        /\ asked' = IF stop' THEN "loopback" ELSE asked
     \/ UNCHANGED <<rows, tuned, asked, stop>>
  /\ armed' = None /\ line' = [cmd |-> "wipe", how |-> how]
  /\ UNCHANGED <<machine, env, pc, frontend, scm, save, config, passwords, torn>>

\* /reauth
Reauth(how) ==
  /\ AtDashboard /\ Confirmed("reauth", how) /\ Event
  /\ pc' = "saving" /\ todo' = Unpair /\ then' = "running" /\ stop' = TRUE
  /\ armed' = None /\ line' = [cmd |-> "reauth", how |-> how]
  /\ UNCHANGED <<storeVars, frontend, scm, config, valid, history>>

-----------------------------------------------------------------------------
(* The world.                                                              *)

\* The wipe_data command of Command Center: the node goes on.
WipedFromAfar ==
  /\ pc = "running" /\ config.mode = "connected" /\ Event
  /\ rows' = NoRows /\ tuned' = {}
  /\ UNCHANGED <<machine, env, process, save, config, console, valid, passwords, asked, torn>>

RotateKey ==
  /\ Event
  /\ valid' = valid + 1
  /\ UNCHANGED <<storeVars, process, save, config, console, history>>

\* The process is killed, or a write fails and ends the setup.
Die ==
  /\ pc # "off" /\ Event
  /\ torn' = (torn \/ pc = "saving")
  /\ Ended /\ scm' = "none"
  /\ UNCHANGED <<storeVars, frontend, config, valid, passwords, asked, tuned>>

\* The database is copied to another machine, or the system is reinstalled.
Move ==
  /\ pc = "off" /\ Event
  /\ machine' = machine + 1
  /\ UNCHANGED <<rows, env, process, save, config, console, valid, history>>

ChangeEnvironment ==
  /\ pc = "off" /\ Event
  /\ env' \in {None, valid} /\ env' # env
  /\ UNCHANGED <<rows, machine, process, save, config, console, valid, history>>

Program ==
  \/ SaveRow
  \/ Start
  \/ RegisterSucceeds
  \/ RegisterRefused
  \/ StopNode

Operator ==
  \/ \E f \in {"terminal", "headless"} : Launch(f)
  \/ SetupAgain
  \/ LaunchService
  \/ \E picks \in BOOLEAN : WizardLocal(picks) \/ WizardConnected(picks)
  \/ WizardEnds
  \/ \E f \in {"terminal", "headless"}, lan \in BOOLEAN : QuickSetup(f, lan)
  \/ RequestStop
  \/ \E key \in Tunable : SetTuning(key)
  \/ OtherCommand
  \/ \E cmd \in {"wipe", "reauth"}, how \in {"bare", "args"} : Arm(cmd, how)
  \/ \E how \in {"bare", "confirm"} : Wipe(how) \/ Reauth(how)
  \/ ChangeEnvironment

World ==
  \/ ConfirmExpires
  \/ RegisterFails
  \/ WipedFromAfar
  \/ RotateKey
  \/ Die
  \/ Move

Next == Program \/ Operator \/ World

\* The program goes on; the operator starts a program that is down in a terminal,
\* and answers the wizard.
Progress ==
  \/ Program
  \/ Launch("terminal")
  \/ \E picks \in BOOLEAN : WizardLocal(picks) \/ WizardConnected(picks)

Spec == Init /\ [][Next]_vars /\ WF_vars(Progress)

-----------------------------------------------------------------------------
(* Properties.                                                             *)

Running == pc = "running" /\ ~stop

\* A node paired with Command Center is open to its network only if the last
\* setup that decided on it asked for LAN streaming: a switch from Local closes
\* it, by whichever setup, and a new key leaves it alone.  This holds unless some
\* save was torn.
LanIsAskedFor ==
  Running /\ config.mode = "connected" /\ config.bind = "lan" /\ ~torn => asked = "lan"

\* A node other machines can reach has a password, and no session of an earlier
\* password opens it, unless some save was torn.
AdminCanSignIn ==
  Running /\ config.bind = "lan" /\ ~torn => config.hash # None /\ config.secret = config.hash

\* What the operator tuned survives every setup, death in the middle of one and
\* reset of the credentials; only a wipe or another machine ends it.  The encoder is
\* less safe than the comments of both setups say (setup/mod.rs:252-256,
\* setup/tui.rs:1225-1233: a re-run must not reset a /set adjustment): the quick
\* setup always writes its own over it, the wizard wherever it picks one; it is kept
\* until such a setup, and through those that pick none.  (A table of an older
\* version has no mode: its reset makes it one that does not count.  The cap and the
\* port are not meant: the setups ask for them or find another one.)
TuningIsKept ==
  machine = Home => \A key \in tuned : rows[key] = "tuned"

\* /wipe and /reauth do what they say only on "confirm", or on a second press of
\* the same command with no other command and no timeout in between.
DestructionIsConfirmed ==
  [][armed' = None /\ line' # None /\ line' # line /\ line'.cmd \in {"wipe", "reauth"}
       => \/ line'.how = "confirm"
          \/ line # None /\ line.cmd = line'.cmd]_vars

\* A stop that was asked for while the node still registers is not lost.
StopIsHonoured == stop ~> pc = "off"

\* What stands between an operator who keeps starting the node and a node that
\* runs: a session secret of another machine, or an old key in the environment.
SecretUnreadable == rows.secret # None /\ ~Opens(rows.secret)
StaleEnvironment == env \notin {None, valid}

RunsUnlessSecretUnreadable ==
  <>[]Running \/ []<>SecretUnreadable \/ []<>StaleEnvironment

=============================================================================
