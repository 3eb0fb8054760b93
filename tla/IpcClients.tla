------------------------------ MODULE IpcClients ------------------------------
(***************************************************************************)
(* The programs at the client's end of an IpcConnection: the commands of   *)
(* lecoo-ctrl (cli/src/main.rs), the GUI's setters (gui/src/tauri_cmds.rs, *)
(* send_one) and its poller (gui/src/ipc_client.rs, fetch_telemetry).      *)
(* What a request carries besides its kind is left out.                    *)
(***************************************************************************)
EXTENDS IpcConnection

VARIABLES
  cmd,   \* the command the client was started with
  exit,  \* how it ended
  errs   \* how many answers it read were errors (for the properties only)

(* The getters with the answers they have when they do not fail.           *)
GetterAnswers ==
  [GetSystemState |-> "SystemInfo", GetFansRPM |-> "FanRPM",
   GetTemperatures |-> "Temp", GetChargeLimit |-> "ChargeLimit",
   GetPowerProfile |-> "PowerLimit", GetKeyboardBacklight |-> "KeyboardBacklight",
   GetSettings |-> "Settings", GetTelemetryId |-> "TelemetryId",
   DisableTelemetry |-> "TelemetryDisabledInfo"]

Setters ==
  {"SetPowerProfile", "SetFanCpu", "SetFanGpu", "SetKeyboardBacklight",
   "SetChargeLimit", "SetLedMode", "EnableTelemetry", "RestoreDefaults",
   "ApplySettings"}

IpcRequest == DOMAIN GetterAnswers \cup Setters

(* handlers::do_work, when the request succeeds.                           *)
Meant(r) == IF r \in Setters THEN "Success" ELSE GetterAnswers[r]

AnswersOf(r) == {Meant(r), "Error"}
IpcResponse  == UNION {AnswersOf(r) : r \in IpcRequest}

ASSUME RequestsAssumption ==
  Requests = IpcRequest /\ \A r \in Requests : AnswersTo(r) = AnswersOf(r)

(* The requests a command makes, in order.                                 *)
Script ==
  [info |-> <<"GetSystemState">>, temps |-> <<"GetTemperatures">>,
   fans |-> <<"GetFansRPM">>,
   monitoring |-> <<"GetTemperatures", "GetFansRPM">>,
   power |-> <<"GetPowerProfile">>, power_set |-> <<"SetPowerProfile">>,
   fan_cpu |-> <<"SetFanCpu">>, fan_gpu |-> <<"SetFanGpu">>,
   fan_both |-> <<"SetFanCpu", "SetFanGpu">>,
   charge |-> <<"GetChargeLimit">>, charge_set |-> <<"SetChargeLimit">>,
   kbd |-> <<"GetKeyboardBacklight">>, kbd_set |-> <<"SetKeyboardBacklight">>,
   led |-> <<"SetLedMode">>,
   telemetry_on |-> <<"EnableTelemetry">>, telemetry_off |-> <<"DisableTelemetry">>,
   telemetry_id |-> <<"GetTelemetryId">>,
   reset |-> <<"RestoreDefaults">>, read |-> <<"GetSettings">>,
   apply |-> <<"ApplySettings">>, version |-> << >>]

GuiScript ==
  [gui_power |-> <<"SetPowerProfile">>, gui_fan |-> <<"SetFanCpu">>,
   gui_kbd |-> <<"SetKeyboardBacklight">>, gui_charge |-> <<"SetChargeLimit">>,
   gui_led |-> <<"SetLedMode">>, gui_reset |-> <<"RestoreDefaults">>,
   gui_poll |-> <<"GetTemperatures", "GetFansRPM", "GetChargeLimit">>]

Commands == DOMAIN Script \cup DOMAIN GuiScript
Asked(c) == IF c \in DOMAIN Script THEN Script[c] ELSE GuiScript[c]

(* Those that start over with their first request.                         *)
Loops == {"monitoring", "gui_poll"}

-----------------------------------------------------------------------------
(* The place in its script of the last, and of the next request.           *)
Last == ((asks - 1) % Len(Asked(cmd))) + 1
Following == (asks % Len(Asked(cmd))) + 1

(* Mutant of Verdict: an error is printed and the command goes on to Ok(()).*)
VerdictPrintsOnly ==
  IF asks = 0 THEN IF Asked(cmd) = <<>> THEN "ok" ELSE "next"
  ELSE IF cmd \in Loops \/ Last < Len(Asked(cmd)) THEN "next" ELSE "ok"

(* What the program makes of where it is: `daemon version` asks nothing,   *)
(* the monitoring loop panics on any answer but the one it destructures,   *)
(* the poller needs temperatures and fans and does without the battery,    *)
(* `fan both` drops the first answer, and a setter of the GUI takes        *)
(* Success only.                                                           *)
Verdict ==
  IF asks = 0 THEN IF Asked(cmd) = <<>> THEN "ok" ELSE "next"
  ELSE IF cmd = "monitoring" THEN IF got = Meant(req) THEN "next" ELSE "panic"
  ELSE IF cmd = "gui_poll" THEN
         IF got = Meant(req) \/ req = "GetChargeLimit" THEN "next" ELSE "error"
  ELSE IF Last < Len(Asked(cmd)) THEN "next"
  ELSE IF got = "Error" THEN "error"
  ELSE IF cmd \in DOMAIN GuiScript /\ got # "Success" THEN "error"
  ELSE "ok"

Begin ==
  /\ Init
  /\ cmd \in Commands /\ exit = "none" /\ errs = 0

(* The steps of the connection; what leaves by itself leaves by `?`.       *)
Protocol ==
  /\ ClientStep \/ ThreadStep \/ DaemonDies
  /\ exit' = IF client # "gone" /\ client' = "gone" THEN "error" ELSE exit
  /\ errs' = IF reads' > reads /\ got' = "Error" THEN errs + 1 ELSE errs
  /\ UNCHANGED cmd

AskNext ==
  /\ client = "open" /\ Verdict = "next"
  /\ Call(Asked(cmd)[Following])
  /\ UNCHANGED <<cmd, exit, errs>>

Finish ==
  /\ client = "open" /\ Verdict # "next"
  /\ Close
  /\ exit' = Verdict
  /\ UNCHANGED <<cmd, errs>>

(* Ctrl-C, or the GUI quits.                                               *)
Interrupt ==
  /\ Killed \/ Close
  /\ exit' = "killed"
  /\ UNCHANGED <<cmd, errs>>

Steps == Protocol \/ AskNext \/ Finish \/ Interrupt

allVars == <<vars, cmd, exit, errs>>

ClientsSpec ==
  /\ Begin /\ [][Steps]_allVars
  /\ WF_allVars(Protocol /\ ClientStep) /\ WF_allVars(Protocol /\ ThreadStep)

-----------------------------------------------------------------------------
(* The exit status can be relied on: 0 means that the daemon handled every *)
(* request of the command and that none of them failed, but for `fan both`,*)
(* which drops what became of the CPU fan; and only an error of the daemon *)
(* makes the monitoring loop reach its unreachable!() (main.rs:218-257,    *)
(* 316-367).                                                               *)
ExitTells ==
  /\ exit = "ok" =>
       /\ works = Len(Asked(cmd)) /\ reads = works
       /\ errs > 0 => cmd = "fan_both" /\ errs = 1 /\ got # "Error"
  /\ exit = "panic" => cmd = "monitoring" /\ errs > 0
=============================================================================
