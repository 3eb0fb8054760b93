------------------------------- MODULE Telemetry -------------------------------
(***************************************************************************)
(* The telemetry of one daemon (daemon/src/telemetry/mod.rs) with the      *)
(* requests that steer it (handlers.rs, process_daemon_command), sending   *)
(* to a TelemetryServer that others send to as well.                       *)
(***************************************************************************)
EXTENDS TelemetryServer

CONSTANTS
  Scenes,  \* which of the requests may be of others: sets of requests
  MaxCommands, MaxStarts, MaxReports \* bounds

ASSUME BoundsAssumption == {MaxCommands, MaxStarts, MaxReports} \subseteq Nat

ASSUME ScenesAssumption == Scenes \subseteq SUBSET Requests

VARIABLES
  others,   \* the requests of others in this behaviour
  up,       \* the daemon runs
  state,    \* STATE: telemetry_enabled and telemetry_client_id
  file,     \* those settings on disk, or Torn
  flag,     \* TELEMETRY_ENABLED
  clientId, \* TELEMETRY_ID
  chan,     \* TELEMETRY_TX and its receiver
  worker,   \* worker_loop
  report,   \* kind of the report the worker has, or "none"
  cmd,      \* the request that is handled under the guard on STATE
  n,        \* counters: starts, commands, ids drawn, reports taken up
  \* History, for the properties only.
  told,     \* the client was told that telemetry is off
  stray,    \* reports posted since
  apart     \* of id and flag, what may differ from STATE, by a reset
            \* or by a failed save

daemonVars == <<up, state, file, flag, clientId, chan, worker, report, cmd, n>>
history    == <<others, told, stray, apart>>
vars       == <<serverVars, daemonVars, history>>

Torn    == [enabled |-> TRUE, id |-> 0]  \* does not decode

Init ==
  /\ ServerInit /\ others \in Scenes
  /\ up = FALSE /\ state = Torn /\ file = Torn
  /\ flag = TRUE /\ clientId = 0
  /\ chan = <<>> /\ worker = "none" /\ report = "none" /\ cmd = "none"
  /\ n = [starts |-> 0, commands |-> 0, ids |-> 0, reports |-> 0]
  /\ told = FALSE /\ stray = 0 /\ apart = {}

-----------------------------------------------------------------------------
(* main.                                                                   *)

(* Mutant of ClientIdAt: a start that reports draws an id of its own.       *)
ClientIdAtFresh(s) == IF s.enabled THEN n.ids + 2 ELSE s.id

(* telemetry::init.                                                        *)
ClientIdAt(s) == s.id

(* CurrentSettings::default, with the next id that is drawn.               *)
Default == [enabled |-> TRUE, id |-> n.ids + 1]

(* load_or_default, init, and the report of the start.                     *)
Start ==
  /\ ~up /\ n.starts < MaxStarts /\ others # Requests
  /\ up' = TRUE /\ worker' = "wait"
  /\ LET s == IF file = Torn THEN Default ELSE file IN
       /\ state' = s
       /\ flag' = s.enabled /\ clientId' = ClientIdAt(s)
       /\ chan' = IF s.enabled THEN <<"Startup">> ELSE <<>>
       /\ n' = [n EXCEPT !.starts = @ + 1, !.ids = IF s = Default THEN @ + 1 ELSE @]
  /\ told' = (told /\ file # Torn)
  /\ apart' = {}
  /\ UNCHANGED <<serverVars, file, report, cmd, others, stray>>

(* The daemon stops or crashes, perhaps inside a save.                     *)
Stop ==
  /\ up
  /\ up' = FALSE /\ worker' = "none"
  /\ chan' = <<>> /\ report' = "none" /\ cmd' = "none"
  /\ file' \in {file} \cup (IF cmd \in {"save on", "save off", "save"} THEN {Torn} ELSE {})
  /\ UNCHANGED <<serverVars, state, flag, clientId, n, history>>

-----------------------------------------------------------------------------
(* process_daemon_command.  The guard on STATE is held until cmd is "none".*)

Command == up /\ cmd = "none" /\ n.commands < MaxCommands

ActivateTelemetry(on) ==
  /\ Command
  /\ state' = [state EXCEPT !.enabled = on]
  /\ cmd' = IF on THEN "save on" ELSE "save off"
  /\ n' = [n EXCEPT !.commands = @ + 1]
  /\ told' = (told /\ ~on)
  /\ UNCHANGED <<serverVars, up, file, flag, clientId, chan, worker, report>>
  /\ UNCHANGED <<others, stray, apart>>

(* The flag and TELEMETRY_ID stay as they are.                             *)
RestoreDefaults ==
  /\ Command
  /\ state' = Default
  /\ cmd' = "save"
  /\ n' = [n EXCEPT !.commands = @ + 1, !.ids = @ + 1]
  /\ told' = FALSE /\ apart' = {"id", "flag"}
  /\ UNCHANGED <<serverVars, up, file, flag, clientId, chan, worker, report>>
  /\ UNCHANGED <<others, stray>>

(* state.save()?; a flush that fails goes unnoticed.                       *)
Save ==
  /\ cmd \in {"save on", "save off", "save"}
  /\ \/ /\ file' \in {state, Torn}
        /\ cmd' = CASE cmd = "save on" -> "enable"
                    [] cmd = "save off" -> "disable"
                    [] OTHER -> "none"
        /\ UNCHANGED apart
     \/ cmd' = "none" /\ apart' = apart \cup {"flag"} /\ UNCHANGED file
  /\ UNCHANGED <<serverVars, up, state, flag, clientId, chan, worker, report, n>>
  /\ UNCHANGED <<others, told, stray>>

(* telemetry::enable or disable, and the answer.                           *)
Switch ==
  /\ cmd \in {"enable", "disable"}
  /\ flag' = (cmd = "enable")
  /\ told' = (cmd = "disable")
  /\ stray' = IF told THEN stray ELSE 0
  /\ cmd' = "none" /\ apart' = apart \ {"flag"}
  /\ UNCHANGED <<serverVars, up, state, file, clientId, chan, worker, report, n>>
  /\ UNCHANGED others

(* A thread panics; the hook calls telemetry::send.                        *)
Panics ==
  /\ up /\ n.commands < MaxCommands /\ flag
  /\ chan' = Append(chan, "Panic")
  /\ n' = [n EXCEPT !.commands = @ + 1]
  /\ UNCHANGED <<serverVars, up, state, file, flag, clientId, worker, report, cmd, history>>

-----------------------------------------------------------------------------
(* worker_loop.                                                            *)

TakeUp(kind) ==
  /\ n.reports < MaxReports
  /\ worker' = "post"
  /\ report' = kind
  /\ n' = [n EXCEPT !.reports = @ + 1]

(* Mutant of Message: what is in the channel was allowed when it was sent. *)
MessageUnchecked ==
  /\ worker = "wait" /\ chan # <<>>
  /\ chan' = Tail(chan)
  /\ TakeUp(Head(chan))
  /\ UNCHANGED <<serverVars, up, state, file, flag, clientId, cmd, history>>

Message ==
  /\ worker = "wait" /\ chan # <<>>
  /\ chan' = Tail(chan)
  /\ \/ flag /\ TakeUp(Head(chan))
     \/ ~flag /\ UNCHANGED <<worker, report, n>>
  /\ UNCHANGED <<serverVars, up, state, file, flag, clientId, cmd, history>>

(* RecvTimeoutError::Timeout: the flag, and then the registers.            *)
Timeout ==
  /\ worker = "wait" /\ chan = <<>> /\ flag /\ n.reports < MaxReports
  /\ worker' = "read"
  /\ UNCHANGED <<serverVars, up, state, file, flag, clientId, chan, report, cmd, n, history>>

ReadSensors ==
  /\ worker = "read"
  /\ \/ TakeUp("Status")
     \/ worker' = "wait" /\ UNCHANGED <<report, n>>
  /\ UNCHANGED <<serverVars, up, state, file, flag, clientId, chan, cmd, history>>

(* send_to_server: the id as it is now, one request, no second attempt.    *)
Post(r) ==
  /\ worker = "post" /\ r \notin others
  /\ Arrive(r, Http("telemetry", "small", "V2", report, clientId))
  /\ worker' = "sent"
  /\ stray' = IF told THEN stray + 1 ELSE stray
  /\ UNCHANGED <<whole, lock, raw, parsed, answer>>
  /\ UNCHANGED <<up, state, file, flag, clientId, chan, report, cmd, n, others, told, apart>>

(* An answer, or an error at any moment: both are the end of it.           *)
Posted ==
  /\ worker \in {"post", "sent"}
  /\ worker' = "wait" /\ report' = "none"
  /\ UNCHANGED <<serverVars, up, state, file, flag, clientId, chan, cmd, n, history>>

-----------------------------------------------------------------------------
Daemon ==
  \/ Start \/ Stop
  \/ (\E on \in BOOLEAN : ActivateTelemetry(on)) \/ RestoreDefaults \/ Save \/ Switch \/ Panics
  \/ Message \/ Timeout \/ ReadSensors \/ Posted

Server(r) ==
  /\ Handle(r) \/ BodyComes(r)
  /\ UNCHANGED <<daemonVars, history>>

OthersSend(r) ==
  /\ r \in others
  /\ \E b \in Foreign : Arrive(r, b)
  /\ UNCHANGED <<whole, lock, raw, parsed, answer, daemonVars, history>>

Next ==
  \/ Daemon
  \/ \E r \in Requests : Post(r) \/ OthersSend(r) \/ Server(r)
  \/ ServerRestarts /\ UNCHANGED <<daemonVars, history>>

(* The server's threads run.  A body may never come.                       *)
HandlerRuns(r) == WF_vars(Handle(r) /\ UNCHANGED <<daemonVars, history>>)
Fairness       == \A r \in Requests : HandlerRuns(r)

Spec == Init /\ [][Next]_vars /\ Fairness

-----------------------------------------------------------------------------
DaemonTypeOK ==
  /\ up \in BOOLEAN /\ flag \in BOOLEAN /\ clientId \in Nat
  /\ {state, file} \subseteq [enabled : BOOLEAN, id : Nat]
  /\ chan \in Seq(Kinds) /\ worker \in {"none", "wait", "read", "post", "sent"}
  /\ report \in Kinds \cup {"none"} /\ (worker = "post" => report # "none")
  /\ cmd \in {"none", "save on", "save off", "save", "enable", "disable"}
  /\ n \in [{"starts", "commands", "ids", "reports"} -> Nat]
  /\ told \in BOOLEAN /\ stray \in Nat /\ apart \subseteq {"id", "flag"}

(* Every variable has its type.                                            *)
TypeOK == ServerTypeOK /\ DaemonTypeOK

(* Once a client was told that telemetry is off, at most one more report   *)
(* leaves, the one the worker had taken up by then, however many wait in   *)
(* the channel and whether or not the daemon is restarted, until telemetry *)
(* is switched on or the settings are reset or lost                        *)
(* (telemetry/mod.rs:47-79, handlers.rs:103-115).                          *)
OptOutStops == stray <= 1

(* What the settings tell of telemetry is so: the daemon reports under the *)
(* id of GetTelemetryId, and its worker goes by telemetry_enabled, except  *)
(* since a RestoreDefaults, which changes the settings only, or a save     *)
(* that failed half-way through ActivateTelemetry (telemetry/mod.rs:12-17, *)
(* 82, handlers.rs:95-123).                                                *)
SettingsTell ==
  /\ up /\ "id" \notin apart => clientId = state.id
  /\ up /\ "flag" \notin apart /\ cmd = "none" => flag = state.enabled

(* A request that came whole is done with, however slow the others are     *)
(* with their bodies: nothing is awaited under the database's mutex        *)
(* (main.rs:112-120).                                                      *)
SlowBlockNobody ==
  \A r \in Requests : r \in whole ~> handler[r] = "done"
=============================================================================
