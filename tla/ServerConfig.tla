---------------------------- MODULE ServerConfig ----------------------------
(***************************************************************************)
(* The configuration: the file, update_config_task that reads it every     *)
(* CONFIG_UPDATE_INTERVAL, and the watch channel that it publishes to      *)
(* (src/config.rs, src/lib.rs).                                            *)
(*                                                                         *)
(* A watch channel keeps the last value only: a reader that comes late     *)
(* skips those between.  unread is the set of the readers whose changed()  *)
(* is ready, held[r] the copy that reader r works with.                    *)
(***************************************************************************)
EXTENDS Naturals

CONSTANTS
  Reader,     \* the tasks with a watch::Receiver
  Unreadable, \* a file that is missing, or that does not have every key as a number
  Candidates  \* the configurations that are written to the file, good or bad

VARIABLES
  file,       \* what is under config_file_path
  published,  \* the value in the watch channel
  held, unread,
  updater     \* update_config_task: "starting", "running", "deaf" or "stopped"

watchVars == <<published, held, unread>>
configVars == <<file, watchVars, updater>>
-----------------------------------------------------------------------------
\* What each value of a VariableConfig may be.
Bounds ==
  [max_message_size |-> 100..10^8, max_payload_size |-> 100..10^8,
   max_players_per_room |-> 1..100, max_rooms |-> 1..4 * 10^5,
   player_queue_capacity |-> 1..10000, max_message_count |-> 5..100,
   join_room_time_limit_secs |-> 1..60, ping_interval_secs |-> 1..60,
   response_time_limit_secs |-> 5..120, room_time_limit_mins |-> 1..1440]

Key == DOMAIN Bounds

VariableConfig == [Key -> Nat]

DefaultConfig ==
  [max_message_size |-> 10100, max_payload_size |-> 10000,
   max_players_per_room |-> 10, max_rooms |-> 100, player_queue_capacity |-> 100,
   max_message_count |-> 20, join_room_time_limit_secs |-> 5,
   ping_interval_secs |-> 10, response_time_limit_secs |-> 30,
   room_time_limit_mins |-> 720]

\* Mutant: the comparisons are forgotten.
OnlyInRange(c) == \A k \in Key : c[k] \in Bounds[k]

validate(c) ==
  /\ \A k \in Key : c[k] \in Bounds[k]
  /\ c.max_payload_size < c.max_message_size
  /\ c.join_room_time_limit_secs < c.ping_interval_secs
  /\ c.ping_interval_secs < c.response_time_limit_secs

ASSUME CandidateAssumption ==
  /\ Candidates \subseteq VariableConfig
  /\ Unreadable \notin VariableConfig

\* VariableConfig::read_config_file returns Ok.
Readable(f) == f # Unreadable /\ validate(f)
-----------------------------------------------------------------------------
\* main creates the file when there is none; server_task publishes the default
\* before the file is read.
ConfigInit ==
  /\ file \in {DefaultConfig, Unreadable} \cup Candidates
  /\ published = DefaultConfig
  /\ held = [r \in Reader |-> DefaultConfig]
  /\ unread = {}
  /\ updater = "starting"

\* server_task spawns the task, with a receiver that only hears a shutdown signal
\* sent from now on (resubscribe): it is deaf to one that is sent already.
StartUpdates(late) ==
  /\ updater = "starting"
  /\ updater' = IF late THEN "deaf" ELSE "running"
  /\ UNCHANGED <<file, watchVars>>

\* The operator changes, breaks or removes the file, or is halfway through.
EditFile ==
  /\ file' \in ({Unreadable} \cup Candidates) \ {file}
  /\ UNCHANGED <<watchVars, updater>>

\* Mutant: the value is set without notice.
SetConfig ==
  /\ updater \in {"running", "deaf"}
  /\ Readable(file) /\ file # published
  /\ published' = file
  /\ UNCHANGED <<file, held, unread, updater>>

\* interval.tick(): the file is read, and its content published with
\* send_if_modified; a file that cannot be read changes nothing.
CheckFile ==
  /\ updater \in {"running", "deaf"}
  /\ Readable(file) /\ file # published
  /\ published' = file
  /\ unread' = Reader
  /\ UNCHANGED <<file, held, updater>>

\* changed() and borrow_and_update() of a reader's select!.
ReadConfig(r) ==
  /\ r \in unread
  /\ held' = [held EXCEPT ![r] = published]
  /\ unread' = unread \ {r}
  /\ UNCHANGED <<file, published, updater>>

\* shutdown_signal.recv(); the readers then keep what they have.
StopUpdates ==
  /\ updater = "running"
  /\ updater' = "stopped"
  /\ UNCHANGED <<file, watchVars>>
=============================================================================
