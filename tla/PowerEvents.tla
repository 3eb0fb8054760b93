------------------------------ MODULE PowerEvents ------------------------------
(***************************************************************************)
(* How the sleep, the shutdown and the charger of the machine reach the    *)
(* daemon: the D-Bus threads of services/systemd_service.rs on Linux, the  *)
(* control handler of services/win_service.rs on Windows, the mpsc channel *)
(* to process_service (main.rs), and what that does to the ring, the       *)
(* settings and the charge indicator.  Module Daemon has process_service   *)
(* against clients, field by field, and takes events in any order; this    *)
(* one has the order.                                                      *)
(***************************************************************************)
EXTENDS Naturals, Sequences

CONSTANTS
  MaxSleeps, MaxEvents,   \* bounds on sleeps; and with charger changes
  MaxFaults,              \* bound on failed queries, EC accesses, busy STATE
  Limits, Levels          \* ram_bat_limit_max (0: no limit), ram_bat_rsoc

ASSUME BoundsAssumption == {MaxSleeps, MaxEvents, MaxFaults} \subseteq Nat
ASSUME PercentAssumption == Limits \cup Levels \subseteq 0..100

VARIABLES
  os, kind,           \* the system; how the machine sleeps
  power,              \* "awake", "leaving", "asleep", "down"
  plugged,            \* the charger is connected
  ring,               \* "user" (STATE.led_mode), "auto" or "sleep"
  port,               \* register GPDRA: which LEDs are lit, and another bit
  sig,                \* signals the daemon's threads have not taken (Linux)
  jobs,               \* the job that systemd-jobs asks about, or Idle
  queue,              \* the channel tx_to_core, rx_in_core
  core,               \* process_service; "init" while main waits on Windows
  copy,               \* apply_battery_leds: what it will write to the port
  n,                  \* counters; sent and served for the properties only
  hist                \* history, for the properties only

still == <<os, kind>>
vars  == <<still, power, plugged, ring, port, sig, jobs, queue, core, copy, n, hist>>

Kinds  == {"suspend", "hibernate"}
Jobs   == [kind : Kinds, type : {"start", "stop"}]
Idle   == [kind |-> "none", type |-> "none"]   \* waiting for a signal
Ready  == [kind |-> "none", type |-> "ready"]  \* Windows: Inited was sent
Counts == {"sleeps", "toggles", "faults", "sent", "served"}

(* late: a sleep event was sent behind the wake-up of its sleep.           *)
(* unbuilt: no proxy for a job.  stale: the last wake-up restored nothing. *)
(* unlit: the last charger event was lost.  bit: the port's other bit as   *)
(* the firmware left it.  raced: it did so between two batches.            *)
(* announced, done: a shutdown was announced, and is saved or given up.    *)
Flags == {"late", "unbuilt", "stale", "unlit", "bit", "raced", "announced", "done"}

Dark == [orange |-> FALSE, white |-> FALSE, other |-> FALSE]

(* InternalEvent.                                                          *)
SleepEvent(k) == IF k = "suspend" THEN "SystemSleeping" ELSE "SystemHibernating"
SleepEvents == {"SystemSleeping", "SystemHibernating"}
ChargerEvent(on) == IF on THEN "ChargerConnected" ELSE "ChargerDisconnected"
ChargerEvents == {"ChargerConnected", "ChargerDisconnected"}
Events == SleepEvents \cup ChargerEvents \cup
            {"SystemWakingUp", "SystemShuttingDown", "Inited"}

Send(e)     == queue' = Append(queue, e)
Count(c)    == n' = [n EXCEPT ![c] = @ + 1]
Set(f, b)   == hist' = [hist EXCEPT ![f] = b]
Another     == n.sleeps + n.toggles < MaxEvents
Fault       == n.faults < MaxFaults /\ Count("faults")

(* Nothing of the daemon runs while the machine sleeps.                    *)
Running == power # "asleep" /\ core # "dead"

-----------------------------------------------------------------------------
(* On Windows main waits for the first event of the channel; on Linux it   *)
(* does not, and events queue up until process_service is there.  The LED  *)
(* may be lit by an earlier daemon.                                        *)
Init ==
  /\ \/ os = "linux" /\ kind \in Kinds
     \/ os = "windows" /\ kind = "hibernate"
  /\ power = "awake" /\ plugged \in BOOLEAN /\ ring = "user"
  /\ copy = Dark
  /\ port = Dark \/ (plugged /\ port = [Dark EXCEPT !.white = TRUE])
  /\ sig = [job |-> <<>>, wake |-> 0, charger |-> 0, shut |-> FALSE]
  /\ jobs = Idle /\ queue = <<>>
  /\ core = IF os = "windows" THEN "init" ELSE "wait"
  /\ n = [c \in Counts |-> 0]
  /\ hist = [f \in Flags |-> f = "unlit" /\ plugged /\ port = Dark]

-----------------------------------------------------------------------------
(* The machine.  On Linux systemd starts the job of a sleep target, which  *)
(* lasts until the wake-up; then logind tells that the sleep is over and   *)
(* systemd stops the target.  On Windows the control handler is called: it *)
(* takes a Suspend for a hibernation, and a resume may come twice.         *)

SleepBegins ==
  /\ power = "awake" /\ Another /\ n.sleeps < MaxSleeps
  /\ power' = "leaving"
  /\ IF os = "linux"
       THEN /\ sig' = [sig EXCEPT !.job = Append(@, [kind |-> kind, type |-> "start"])]
            /\ Count("sleeps")
            /\ UNCHANGED queue
       ELSE /\ Send("SystemHibernating")
            /\ n' = [n EXCEPT !.sleeps = @ + 1, !.sent = @ + 1]
            /\ UNCHANGED sig
  /\ UNCHANGED <<still, plugged, ring, port, jobs, core, copy, hist>>

FallsAsleep ==
  /\ power = "leaving"
  /\ power' = "asleep"
  /\ UNCHANGED <<still, plugged, ring, port, sig, jobs, queue, core, copy, n, hist>>

WakesUp ==
  /\ power = "asleep"
  /\ power' = "awake"
  /\ IF os = "linux"
       THEN /\ sig' = [sig EXCEPT !.job = Append(@, [kind |-> kind, type |-> "stop"]),
                                  !.wake = @ + 1]
            /\ UNCHANGED queue
       ELSE /\ \E twice \in 1..2 : queue' = queue \o [i \in 1..twice |-> "SystemWakingUp"]
            /\ UNCHANGED sig
  /\ UNCHANGED <<still, plugged, ring, port, jobs, core, copy, n, hist>>

(* The charger is plugged in or out; on Windows the handler asks for the   *)
(* status at once, which may fail.                                         *)
Toggle ==
  /\ Another /\ power \in {"awake", "leaving"}
  /\ plugged' = ~plugged
  /\ IF os = "linux"
       THEN /\ sig' = [sig EXCEPT !.charger = @ + 1]
            /\ Count("toggles")
            /\ UNCHANGED <<queue, hist>>
       ELSE /\ \/ Send(ChargerEvent(~plugged)) /\ Set("unlit", FALSE)
               \/ Set("unlit", TRUE) /\ UNCHANGED queue
            /\ Count("toggles")
            /\ UNCHANGED sig
  /\ UNCHANGED <<still, power, ring, port, jobs, core, copy>>

ShutdownBegins ==
  /\ power = "awake"
  /\ power' = "down"
  /\ Set("announced", TRUE)
  /\ IF os = "linux" THEN sig' = [sig EXCEPT !.shut = TRUE] /\ UNCHANGED queue
                     ELSE Send("SystemShuttingDown") /\ UNCHANGED sig
  /\ UNCHANGED <<still, plugged, ring, port, jobs, core, copy, n>>

(* systemd ends the daemon, or the SCM is told Stopped after 500 ms.       *)
ProcessEnds ==
  /\ power = "down" /\ ~hist.done
  /\ core' = "dead"
  /\ Set("done", TRUE)
  /\ UNCHANGED <<still, power, plugged, ring, port, sig, jobs, queue, copy, n>>

(* The firmware uses the port for its own.  Only a write while the daemon  *)
(* is about to use the port tells on it.                                   *)
FirmwareWrites ==
  /\ ~hist.bit /\ core \in {"white", "orange", "off", "port"}
  /\ port' = [port EXCEPT !.other = TRUE]
  /\ hist' = [hist EXCEPT !.bit = TRUE, !.raced = (core = "port")]
  /\ UNCHANGED <<still, power, plugged, ring, sig, jobs, queue, core, copy, n>>

-----------------------------------------------------------------------------
(* Windows: my_service_main, after it has reported Running, and main,      *)
(* which takes whatever comes first for Inited.                            *)

Inited ==
  /\ os = "windows" /\ jobs = Idle /\ Running
  /\ jobs' = Ready
  /\ Send("Inited")
  /\ UNCHANGED <<still, power, plugged, ring, port, sig, core, copy, n, hist>>

MainGoesOn ==
  /\ core = "init" /\ queue # <<>> /\ Running
  /\ core' = "wait"
  /\ queue' = Tail(queue)
  /\ LET e == Head(queue) IN
       /\ n' = [n EXCEPT !.served = IF e \in SleepEvents THEN @ + 1 ELSE @]
       /\ hist' = [hist EXCEPT !.stale = @ \/ e = "SystemWakingUp",
                               !.unlit = @ \/ e \in ChargerEvents,
                               !.done = @ \/ e = "SystemShuttingDown"]
  /\ UNCHANGED <<still, power, plugged, ring, port, sig, jobs, copy>>

-----------------------------------------------------------------------------
(* Linux: the threads of systemd_service.rs.  systemd-jobs asks for the    *)
(* type of the job a signal is about; meanwhile the others go on.          *)

TakeJob ==
  /\ jobs = Idle /\ sig.job # <<>> /\ Running
  /\ jobs' = Head(sig.job)
  /\ sig' = [sig EXCEPT !.job = Tail(@)]
  /\ UNCHANGED <<still, power, plugged, ring, port, queue, core, copy, n, hist>>

(* The wake-up of the sleep this job began has been passed on.             *)
WokenUp == power = "awake" /\ sig.wake = 0

SendSleep ==
  /\ Send(SleepEvent(jobs.kind))
  /\ n' = [n EXCEPT !.sent = @ + 1]
  /\ Set("late", hist.late \/ WokenUp)

(* Mutant of JobIsKnown: the type of the job is not looked at.             *)
JobIsKnownAnyType == SendSleep

(* A start is sent on, any other type is ignored.                          *)
JobIsKnown ==
  \/ jobs.type = "start" /\ SendSleep
  \/ jobs.type # "start" /\ UNCHANGED <<queue, n, hist>>

(* The query failed, for instance because the job is over: no event.       *)
JobIsUnknown ==
  /\ n.faults < MaxFaults
  /\ n' = [n EXCEPT !.faults = @ + 1,
                    !.served = IF jobs.type = "start" THEN @ + 1 ELSE @]
  /\ UNCHANGED <<queue, hist>>

(* Without a proxy for the job the signal is taken for a start.            *)
ProxyFails ==
  /\ n.faults < MaxFaults
  /\ Send(SleepEvent(jobs.kind))
  /\ n' = [n EXCEPT !.faults = @ + 1, !.sent = @ + 1]
  /\ Set("unbuilt", TRUE)

JobAnswer ==
  /\ jobs \in Jobs /\ Running
  /\ JobIsKnown \/ JobIsUnknown \/ ProxyFails
  /\ jobs' = Idle
  /\ UNCHANGED <<still, power, plugged, ring, port, sig, core, copy>>

(* logind-sleep: the end of a sleep; its beginning is passed over.         *)
PrepareForSleep ==
  /\ sig.wake > 0 /\ Running
  /\ sig' = [sig EXCEPT !.wake = @ - 1]
  /\ Send("SystemWakingUp")
  /\ UNCHANGED <<still, power, plugged, ring, port, jobs, core, copy, n, hist>>

(* upower-monitor: the property as it is when it is read.                  *)
OnBatteryChanged ==
  /\ sig.charger > 0 /\ Running
  /\ sig' = [sig EXCEPT !.charger = @ - 1]
  /\ \/ Send(ChargerEvent(plugged)) /\ Set("unlit", FALSE) /\ UNCHANGED n
     \/ Fault /\ Set("unlit", TRUE) /\ UNCHANGED queue
  /\ UNCHANGED <<still, power, plugged, ring, port, jobs, core, copy>>

(* run_as_service: one shutdown, and it returns.                           *)
PrepareForShutdown ==
  /\ sig.shut /\ Running
  /\ sig' = [sig EXCEPT !.shut = FALSE]
  /\ Send("SystemShuttingDown")
  /\ UNCHANGED <<still, power, plugged, ring, port, jobs, core, copy, n, hist>>

-----------------------------------------------------------------------------
(* process_service: one event of the channel.  An EC access that fails, or *)
(* a STATE that is taken, is passed over.                                  *)

(* Mutant of Goodbye: a sleep is not saved, memory survives it.            *)
GoodbyeSavesLast(e) ==
  /\ e \in SleepEvents \cup {"SystemShuttingDown"}
  /\ ring' = IF e = "SystemSleeping" THEN "sleep" ELSE "auto"
  /\ core' = IF e = "SystemShuttingDown" THEN "last save" ELSE "wait"
  /\ UNCHANGED <<n, hist>>

(* The ring first, then read_and_save_state.                               *)
Goodbye(e) ==
  /\ e \in SleepEvents \cup {"SystemShuttingDown"}
  /\ \/ ring' = (IF e = "SystemSleeping" THEN "sleep" ELSE "auto") /\ UNCHANGED n
     \/ Fault /\ UNCHANGED ring
  /\ core' = IF e = "SystemShuttingDown" THEN "last save" ELSE "save"
  /\ UNCHANGED hist

(* Mutant of WakingUp: the ring is given back to the firmware.             *)
WakingUpAuto(e) ==
  /\ e = "SystemWakingUp"
  /\ ring' = "auto" /\ Set("stale", FALSE)
  /\ UNCHANGED <<core, n>>

WakingUp(e) ==
  /\ e = "SystemWakingUp"
  /\ \/ ring' = "user" /\ Set("stale", FALSE) /\ UNCHANGED n
     \/ Fault /\ Set("stale", TRUE) /\ UNCHANGED ring
  /\ UNCHANGED core

Connected(e) ==
  /\ e = "ChargerConnected"
  /\ \/ /\ \E level \in Levels, limit \in Limits :
             core' = IF level >= limit THEN "white" ELSE "orange"
        /\ UNCHANGED <<n, hist>>
     \/ Fault /\ Set("unlit", TRUE) /\ UNCHANGED core
  /\ UNCHANGED ring

Disconnected(e) ==
  /\ e = "ChargerDisconnected"
  /\ core' = "off"
  /\ UNCHANGED <<ring, n, hist>>

Handle(e) ==
  \/ Goodbye(e) \/ WakingUp(e) \/ Connected(e) \/ Disconnected(e)
  \/ e = "Inited" /\ UNCHANGED <<core, ring, n, hist>>

(* Mutant of Take: the event that came last is taken first.                *)
TakeNewest ==
  /\ core = "wait" /\ queue # <<>> /\ Running
  /\ queue' = SubSeq(queue, 1, Len(queue) - 1)
  /\ Handle(queue[Len(queue)])
  /\ UNCHANGED <<still, power, plugged, port, sig, jobs, copy>>

Take ==
  /\ core = "wait" /\ queue # <<>> /\ Running
  /\ queue' = Tail(queue)
  /\ Handle(Head(queue))
  /\ UNCHANGED <<still, power, plugged, port, sig, jobs, copy>>

(* read_and_save_state; Daemon has what it may fail to save.               *)
Save ==
  /\ core \in {"save", "last save"} /\ Running
  /\ core' = "wait"
  /\ n' = [n EXCEPT !.served = IF core = "save" THEN @ + 1 ELSE @]
  /\ Set("done", hist.done \/ core = "last save")
  /\ UNCHANGED <<still, power, plugged, ring, port, sig, jobs, queue, copy>>

(* Mutant of ReadPort: the other bits are not taken over.                  *)
ReadPortNot ==
  /\ core \in {"white", "orange", "off"} /\ Running
  /\ copy' = [orange |-> core = "orange", white |-> core = "white", other |-> FALSE]
  /\ core' = "port"
  /\ UNCHANGED <<still, power, plugged, ring, port, sig, jobs, queue, n, hist>>

(* apply_battery_leds: one batch to read the port ...                      *)
ReadPort ==
  /\ core \in {"white", "orange", "off"} /\ Running
  /\ \/ /\ copy' = [port EXCEPT !.orange = (core = "orange"), !.white = (core = "white")]
        /\ core' = "port"
        /\ UNCHANGED <<n, hist>>
     \/ Fault /\ Set("unlit", TRUE) /\ core' = "wait" /\ UNCHANGED copy
  /\ UNCHANGED <<still, power, plugged, ring, port, sig, jobs, queue>>

(* ... and one to write it.                                                *)
WritePort ==
  /\ core = "port" /\ Running
  /\ core' = "wait" /\ copy' = Dark
  /\ \/ port' = copy /\ UNCHANGED <<n, hist>>
     \/ Fault /\ Set("unlit", TRUE) /\ UNCHANGED port
  /\ UNCHANGED <<still, power, plugged, ring, sig, jobs, queue>>

-----------------------------------------------------------------------------
Listeners ==
  Inited \/ TakeJob \/ JobAnswer \/ PrepareForSleep \/ OnBatteryChanged
    \/ PrepareForShutdown
Core == MainGoesOn \/ Take \/ Save \/ ReadPort \/ WritePort

Next ==
  \/ SleepBegins \/ FallsAsleep \/ WakesUp
  \/ Toggle \/ ShutdownBegins \/ ProcessEnds \/ FirmwareWrites
  \/ Listeners \/ Core

Spec == Init /\ [][Next]_vars

(* The threads run; a machine that goes to sleep gets there and is woken.  *)
Fairness ==
  /\ WF_vars(Inited) /\ WF_vars(TakeJob) /\ WF_vars(JobAnswer)
  /\ WF_vars(PrepareForShutdown) /\ WF_vars(Core)
  /\ WF_vars(FallsAsleep) /\ WF_vars(WakesUp)

FairSpec == Spec /\ Fairness

-----------------------------------------------------------------------------
(* Every variable has its type.                                            *)
TypeOK ==
  /\ os \in {"linux", "windows"} /\ kind \in Kinds
  /\ power \in {"awake", "leaving", "asleep", "down"} /\ plugged \in BOOLEAN
  /\ ring \in {"user", "auto", "sleep"}
  /\ {port, copy} \subseteq [orange : BOOLEAN, white : BOOLEAN, other : BOOLEAN]
  /\ sig \in [job : Seq(Jobs), wake : Nat, charger : Nat, shut : BOOLEAN]
  /\ jobs \in Jobs \cup {Idle, Ready} /\ queue \in Seq(Events)
  /\ core \in {"init", "wait", "save", "last save", "white", "orange", "off", "port", "dead"}
  /\ n \in [Counts -> Nat] /\ n.faults <= MaxFaults
  /\ hist \in [Flags -> BOOLEAN]

(* Nothing is on its way any more.                                         *)
Quiet ==
  /\ sig.job = <<>> /\ sig.wake = 0 /\ sig.charger = 0 /\ jobs \notin Jobs
  /\ queue = <<>> /\ core = "wait"

(* The machine sleeps no oftener in the daemon's eyes than it does: the    *)
(* stop job of a sleep target, which comes with the wake-up, is no sleep   *)
(* (systemd_service.rs:122-139).                                           *)
NoPhantomSleep == n.sent > n.sleeps => hist.unbuilt

(* Once a machine is back from its sleep and all is said, the ring shows   *)
(* the user's mode again and not the breathing of the sleep, unless the    *)
(* restore failed, or the answer about the job came after the wake-up had  *)
(* been passed on (systemd_service.rs:122-170, main.rs:81-96).             *)
RingComesBack ==
  Quiet /\ power = "awake" /\ ~hist.late /\ ~hist.stale /\ ~hist.unbuilt => ring = "user"

(* Once all is said the indicator tells of the charger as it is now: dark  *)
(* on battery, white or orange, and not both, when it is connected.  Of    *)
(* several changes that are under way at a time the last one is shown      *)
(* (systemd_service.rs:191-203, win_service.rs:86-97, main.rs:98-112).     *)
IndicatorTells ==
  Quiet /\ ~hist.unlit => ~(port.orange /\ port.white) /\ (port.orange \/ port.white) = plugged

(* Lighting an LED loses no other bit of the port, unless the firmware     *)
(* changes one between the two batches (led.rs:72-89).                     *)
PortKeepsItsBits == ~hist.raced => port.other = hist.bit

(* Every sleep comes to its save, or its event was lost to a failed query  *)
(* or to main's wait for Inited; and a shutdown that is announced comes to *)
(* its save, or the process is ended before (systemd_service.rs:122-146,   *)
(* 209-215, win_service.rs:77-80, 135-148, main.rs:81-92).                 *)
SettingsAreSaved ==
  /\ []<>(n.served >= n.sleeps \/ power = "down")
  /\ []<>(hist.announced => hist.done)
=============================================================================
