----------------------------- MODULE ConfigStore -----------------------------
(***************************************************************************)
(* The config table of node.db: how a configuration is read from it        *)
(* (Config::load), which rows a save writes and in which order             *)
(* (save_to_db: each row is a transaction of its own), and the encryption  *)
(* of two of the rows with a key of the machine (storage/database.rs).     *)
(*                                                                         *)
(* The rows kept are those a start depends on, and the tuning: the rows    *)
(* that every save writes (frame rate, bitrate, motion, ...) are one, the  *)
(* encoder, which setups and the first run choose too, is another.  An     *)
(* encrypted row is its value and the machine whose identifier encrypted   *)
(* it; OldKey stands for the key older versions derived from the host name.*)
(* The environment gives credentials only: SOURCEBOX_SENTRY_ENCODER is in  *)
(* EncoderChoice.                                                          *)
(***************************************************************************)
EXTENDS Integers, Sequences

CONSTANT None

\* The words the rows hold.
Words == {"connected", "local", "id", "default", "tuned", "picked", "loopback", "lan"}

ASSUME StoreAssumption ==
  /\ None \notin Int \union Words
  /\ None \notin [value : Nat, by : Nat]

VARIABLES
  rows,     \* the table
  machine,  \* the machine the database is on
  env       \* the API key the environment gives, with the node's id

storeVars == <<rows, machine, env>>

Keys == {"mode", "node_id", "tuning", "encoder", "bind", "api_key", "hash", "secret"}
Tunable == {"tuning", "encoder"}
Encrypted == {"api_key", "secret"}

NoRows == [k \in Keys |-> None]

Default ==
  [mode |-> "connected", node_id |-> None, tuning |-> "default", encoder |-> None,
   bind |-> "loopback", api_key |-> None, hash |-> None, secret |-> None]

\* The machine of the host name, before a move.
OldKey == 0
Home == 1

Seal(value) == [value |-> value, by |-> machine]
Opens(cell) == cell.by = machine \/ (cell.by = OldKey /\ machine = Home)

HasConfig == rows.mode # None \/ rows.node_id # None
Unreadable == \E k \in Encrypted : rows[k] # None /\ ~Opens(rows[k])

\* A value that the old key opened is encrypted again with the machine's.
Migrated ==
  [k \in Keys |-> IF k \in Encrypted /\ rows[k] # None /\ Opens(rows[k])
                  THEN Seal(rows[k].value) ELSE rows[k]]

FromRows ==
  [k \in Keys |-> IF rows[k] = None THEN Default[k]
                  ELSE IF k \in Encrypted THEN rows[k].value ELSE rows[k]]

WithEnvironment(config) ==
  IF env = None THEN config ELSE [config EXCEPT !.node_id = "id", !.api_key = env]

\* Config::load: the first row that cannot be decrypted fails it.
LoadFails == HasConfig /\ Unreadable
Loaded == WithEnvironment(IF HasConfig THEN FromRows ELSE Default)
LoadedRows == IF HasConfig THEN Migrated ELSE rows

\* needs_setup, load_and_validate_config: the mode is enough for a Local node.
Configured(config) ==
  config.mode = "local" \/ (config.api_key # None /\ config.node_id # None)

Put(key, value) == [key |-> key, value |-> value]
Delete(key) == Put(key, None)

\* save_to_db: what is absent is left as it is in the table.
Row(config, key) == IF config[key] = None THEN <<>> ELSE <<Put(key, config[key])>>
Writes(config) ==
  Row(config, "mode") \o Row(config, "node_id") \o Row(config, "tuning") \o Row(config, "encoder")
    \o Row(config, "bind") \o Row(config, "api_key") \o Row(config, "hash") \o Row(config, "secret")

\* Both rows of the pairing with Command Center.
Unpair == <<Delete("node_id"), Delete("api_key")>>

Stored(write) ==
  IF write.key \in Encrypted /\ write.value # None THEN Seal(write.value) ELSE write.value

\* Mutant: a row that is there is not replaced.
ExecuteOnce(write) ==
  rows' = IF write.value = None \/ rows[write.key] = None
          THEN [rows EXCEPT ![write.key] = Stored(write)] ELSE rows

Execute(write) == rows' = [rows EXCEPT ![write.key] = Stored(write)]
=============================================================================
