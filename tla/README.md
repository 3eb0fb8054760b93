# A verification of Lecoo Control Center

TLA+ models of the daemon that drives the embedded controller (EC) of Lecoo and
Emdoor laptops, of the socket between it and its clients, of the CLI and the
GUI's background work, and of the telemetry worker with its server: TLC runs on
small instances and TLAPS proofs for all instances. Paths are relative to the
root of the repository (`daemon/src/...`, `gui/src/...`).

## 1. The system

| Component | State it keeps | Operations | What makes it correct |
|---|---|---|---|
| EC access layer, `daemon/src/ec/mod.rs` | chip latches behind two I/O ports; `io` mutex; `lock_held_since_ms`; port and RAM window found at the start | `new`, `probe_chip`, `with_batch`, `read_reg`, `write_reg`, `lock_age_ms` | an access reaches its own address; a batch takes effect at once; the watchdog sees a stuck batch; a late EC is waited for, and the right one opened |
| Board offsets, `daemon/src/ec/offsets.rs` | a table per board | none | no two settings share a register |
| Hardware accessors, `daemon/src/ec/hw/` | registers of the EC | `apply_*`, `read_*` | what is read back is what was set |
| LED ring and indicator, `daemon/src/ec/hw/led.rs` | `IS_LED_ALREADY_CUSTOM`; the ring's registers; the port of the two LEDs | `apply_led_mode`, `reset_led_anim_engine`, `apply_battery_leds` | the flag says the truth about the bypass; a mode that was set is shown; other bits of the port are kept |
| Settings core, `daemon/src/handlers.rs`, `main.rs` | `STATE`, `daemon_state.bin`, `TELEMETRY_ENABLED` | setters, daemon commands, `save`, `load`, `restore_state` | EC, `STATE` and file agree; nothing acknowledged is lost silently; a reset is complete; an opt-out holds |
| Power events, `main.rs` `process_service`, `services/` | a channel of `InternalEvent`, signals of systemd, logind and UPower, calls of the Windows service manager | sleep, hibernate, wake, shutdown, charger | settings survive a sleep; the ring comes back; the indicator tells |
| Telemetry worker, `daemon/src/telemetry/` | flag, id, channel | `init`, `send`, `enable`, `disable`, `worker_loop` | an opt-out stops the reports; the settings tell what is sent |
| Telemetry server, `telemetry_server/` | SQLite behind a mutex | a thread per HTTP request | rows belong together; senders are told what was stored; nobody waits for a slow body |
| IPC channel, `ipc/src/` | a stream per client | handshake, `send`, `recv`, `request` | one answer per request, handled at most once; versions agree; a regular end is recognised |
| CLI, `cli/src/main.rs` | none between calls | a command makes one request (`fan both`: two, `monitoring`: a loop) | the exit status tells |
| GUI poller, `gui/src/poller.rs`, `state.rs`, `tray.rs` | connection, `poll_paused`, `reconnect_signal`, status | `run`, window and tray handlers, `reconnect_now`, `set_poll_interval` | no wake-up is lost; samples come back; an outage is shown |
| Tauri commands, `gui/src/tauri_cmds.rs` | none between calls | a connection and a request each | errors reach the user |
| Updates, logging, diagnostics, `gui/src/` | log files of the days | `is_newer`, `civil_from_days`, `current_log_file` | the right order, the log of this day |
| Web UI, installers | presentation, scripts | | |

**How they interact.** The CLI and the GUI talk to the daemon over a local
socket; the daemon starts one thread per connection. Connection threads, the
service listener (power events, from an mpsc channel), the telemetry worker and
`main()` all call the EC layer, which serialises them on one mutex. `STATE` has
a mutex of its own that is only ever *try*-locked: whoever finds it taken gives
up. Setters write the EC first and `STATE` afterwards; the file is written by
some commands, when a client disconnects and before a sleep. In the GUI the
poller task and the main thread share `AppState`: atomics, and a
`tokio::sync::Notify`.

**What is hard.** The chip's address latches are shared by every access, and an
I/O error can leave them half-steered. The watchdog's mark is stored and cleared
beside the mutex, not under it. Setters, restores and read-backs of the same
field interleave between EC and `STATE`. The file is truncated in place and its
flush error is lost. `IS_LED_ALREADY_CUSTOM` is checked apart from the EC
transactions it describes. The poller's "check the flag, then wait" races with
"store the flag, then notify". Sleep and wake-up reach the daemon through two
threads that nobody orders, and the process may be ended in the middle of the
save they lead to. Either side of a connection may go between any two pieces of
a frame. The telemetry flag is looked at before six slow reads and a slow
request. `PROJECT.json` lists the hazards one by one,
each at its line, with the properties that cover it or the reason why none does.

## 2. Modules

| Module | Models | Relation |
|---|---|---|
| `EcMemory` | abstract: a register file used through atomic batches | |
| `EcDevice` | `with_batch` and the twelve port operations of an access; watchdog | refines `EcMemory` |
| `EcStart` | `EcDevice::new`: board table, probe, window | |
| `Daemon` | settings core: clients, service listener, `main()`, crashes | |
| `PowerEvents` | the listeners of both systems, the event channel, `process_service` with the indicator | |
| `LedRing` | `apply_led_mode` transaction by transaction | |
| `IpcChannel` | abstract: calls that are handled at most once and answered | |
| `IpcConnection` | handshake, frames and both ends of a connection | refines `IpcChannel` |
| `IpcClients` | the commands of the CLI and the request sequences of the GUI | on `IpcConnection` |
| `TelemetryServer` | handler threads over one database | |
| `Telemetry` | the daemon's worker and the commands that steer it | on `TelemetryServer` |
| `Poller` | `poller.rs` and those who notify it | |
| `Gui` | update check, diagnostics and the log of the day | on `Poller` |
| `EcDeviceProofs`, `EcStartProofs`, `DaemonProofs`, `LedRingProofs`, `IpcConnectionProofs`, `PowerEventsProofs`, `TelemetryProofs`, `GuiProofs` | proofs | each extends its module, `IpcConnectionProofs` also `IpcClients`, `GuiProofs` the `Poller` through `Gui` |
| `MCEcDevice`, `MCDaemon`, `MCLedRing`, `MCIpcClients`, `MCTelemetry`, `MCGui` | instances for TLC | |

The levels fit together like this. `EcDevice` shows that a batch is one atomic
step on a register file (`EcMemory`). `LedRing`, `Daemon` and `PowerEvents` build
on that: each transaction of `apply_led_mode` is one step of `LedRing`, each of
`apply_battery_leds` one of `PowerEvents`; in `Daemon` every `apply_*` is one
step, or stops half-way with an error. All of them but `apply_led_mode` are a
single batch; what happens between the batches of `apply_led_mode` is the subject
of `LedRing`. `IpcConnection` shows that a connection is a sequence of calls
(`IpcChannel`), which is how `Daemon` takes its clients: whole requests, with an
end on a message boundary (`Disconnect`) or off it (`Drop`). `Daemon` takes the
events of the operating system in any order; `PowerEvents` has the orders they
can really come in, with the settings reduced to "saved or not".

### EcDevice

`index`, `sub`, `high`, `low`, `mem` are the chip: the Super-I/O index register,
what index 2F reaches, the two address latches, the registers. `holder` is the
`io` mutex. A thread goes through `Lock` (`self.io.lock()`), `Mark` (store of
`lock_held_since_ms`), twelve port operations per access (`Outb` eleven times,
then `WriteByte` or `ReadByte`), `Unlock` and `ClearMark`. The order of the last
two is Rust's drop order: `batch`, declared last, owns the guard and is dropped
first; the `LockTimer` is dropped after it. `PortError` is the `?` behind any
port operation, `Stall` and `Resume` an SMI. `Tick` and `Watchdog` are time and
the loop of `ec-lock-watchdog`; ages are counted in ticks and a mark that was
just stored reads as zero, as in the code. The chip is external: it is modelled
from how `read_reg` and `write_reg` steer it.

`EcMemory` is implemented with `regs <- snap`, the memory as it was when the last
batch let go of the mutex: a batch takes effect with `Unlock`.

### Daemon

`ec` and `state.cfg` map the six settings to values; `pwm` is the second
register of the keyboard level. `holder` is the guard on `STATE`, `disk` the
file (`Absent`, `Torn` or settings), `enabled` is `TELEMETRY_ENABLED`, `queue`
the event channel. `pc`, `job`, `idx` and `result` say where each thread is.
Clients go through `Receive`, `ApplySet`/`RefuseSet`/`SetFails`,
`TryLock`/`TryLockFails`, the steps of their command, `Release`. `save` is
`OpenFile` (truncates) and `WriteFile`, with `OpenFails` and `WriteLost` (the
flush on drop fails and `save` returns `Ok`). `restore_state` is one step per
field. The read-back before a sleep reads register by register. `Crash` kills
the process anywhere; `PowerCut` also takes a file that had not reached the
medium, as nothing syncs it. `Panic` is `todo!()`; it holds no guard, so the
mutex is not poisoned.

`latched` is `IS_LED_ALREADY_CUSTOM`: a mode after which it stands leaves the
bypass alone, and without its bypass the LED shows nothing of it (`Shown`).
`Shared` is the N155D, where `ram_led_bypass` and `ram_thermal_policy_cpu` are one
register: a write of the LED or of the CPU fan overwrites what the other had put
there (`Clobbered`), in a setter as in `restore_state`.

The history variables record *reasons*. `origin` says of each field where its
value in the EC comes from, seen from `STATE`: the two were brought together
(`"state"`); a client's setter wrote it and is on its way to `STATE` (that client);
a restore is still to write it (`"unwritten"`); or, the last that happened to it,
one of eight events that part the two:

| Reason | What happened to the field |
|---|---|
| `refused` | its setter found `STATE` locked, by whomever, and answered with an error after its EC write (`handlers.rs:187-188`) |
| `overtaken` | its setter came to `STATE` after another request had put a value of its own into both |
| `failed` | an EC access failed in the middle of writing it |
| `stopped` | a restore or a reset ended before it came to the field |
| `firmware` | a hot key changed it, or the EC forgot it across a sleep |
| `listener` | LED only: set for a sleep, a hibernation or a shutdown, which `STATE` is not told (`main.rs:81-91`) |
| `bypass` | LED only: the bypass was left out because the flag stood, where the bypass was not known to be on (`led.rs:29, 40`) |
| `shared` | N155D, LED and CPU fan only: the other of the two was written |

Each is recorded by the step in which it happens and for that field alone, and goes
away with the next write of the field that meets none of them. `unsaved` tells that a
reason exists why the file may lag behind `STATE`, `cut` that a save was cut
short, `optedOut` that a client was told telemetry is off. The properties say
that nothing goes wrong without such a reason.

### LedRing

One step per EC transaction and per access to `IS_LED_ALREADY_CUSTOM`. A level
(`Custom`) and an animation are model values; the two bytes an animation is
turned into are told apart by the animation they were taken from. `met` is the
set of callers whose call another one overlaps; `sound` is true until an `Auto`
overlaps another mode or fails, the EC restarts, or the CPU fan of a N155D is set
(`FanIsSet`, which writes the register of the bypass), and again after an `Auto`
that ran alone or a restart of the daemon.

### Poller

`pc` is where `run()` is, `link` whether its connection leads to a living
daemon, `permit` the permit of the `Notify`. `WaitEnds` is the end of a
`select!`, by time or by the permit, which a timer may leave behind. `Show` and
`Notify` are the two steps of `bring_window_to_front`. The daemon may stop, start
and have an EC that does not answer.

### EcStart

`chip`, `window` and `decoys` are the machine: the port of its EC, the base where
the EC shows its RAM, and other bases where a byte looks like a temperature;
`ready` and `temp` change on their own. `ProbePort` is one turn of the loop of
`probe_chip`, `NoChip` its end with the retry of `new`, `TryBase` one turn of the
search for the window, `WindowEnds` what follows it. Tables are translated as
they stand in `offsets.rs`. Without an EC at the port (`--insecure`) reads return
anything.

### PowerEvents

`os` picks the Linux or the Windows listener. On Linux `sig` holds signals that
the threads have not taken, and `jobs` is where `systemd-jobs` is: it takes the
signal of a job (`TakeJob`) and asks for the type of the job (`JobAnswer`), while
the other threads go on; the query may fail, and without a proxy for the job the
code skips the check (`ProxyFails`). On Windows the control handler sends at once.
`queue` is the channel; `core` is where `process_service` is with an event it took
(`Take`), through the save and the two batches of the indicator (`ReadPort`,
`WritePort`). `MainGoesOn` is the `recv()` with which `main()` waits for `Inited`,
whatever comes first. `ring` tells which of three modes the ring was set to last.

### IpcConnection and IpcClients

`toDaemon` and `toClient` are the two directions of the stream. A greeting is one
piece; a frame is two halves of its length (so that a frame can end inside it),
the version and the payload. `ClientWrites`/`DaemonWrites` write one piece,
`ClientReads`/`DaemonReads` read one, with the checks of `recv` at the piece they
look at. A message of another release may or may not decode. `ClientLeaves` is
the drop of the stream, wherever the client was. In `IpcClients` `Script` has the
requests of every command of `lecoo-ctrl`, `GuiScript` those of the GUI, and
`Verdict` is what the program makes of the last answer.

### TelemetryServer and Telemetry

`handler` is where the thread of a request is; `raw` are the rows of
`raw_telemetry` by id, `parsed` those of the three event tables. A body arrives
whenever it likes (`BodyComes`). Whether a body decodes as V2 or V1 is a fact of
its format: V1 has no motherboard at the end of `Startup` and is V2 but for that,
and the decoder reads at most 64 KiB. In `Telemetry` the guard on `STATE` is
`cmd`, the command that is being handled; `Save` and `Switch` are its steps.
`Message`, `Timeout`, `ReadSensors`, `Post` and `Posted` are `worker_loop` with
`send_to_server`. `told`, `stray` and `apart` are history.

### Gui

`CheckForUpdates` and `GetDiagnosticsBundle` are the two commands; a version is
its numbers and whether it has a suffix. `Calendar` is the reference against
which `CivilFromDays` is checked and proved: the Gregorian calendar by the lengths of its
years and months, as the log appender names its files. `Logs` opens the file of
the day, `Midnight` passes while the GUI runs.

## 3. Runs

| Run | Question | Bounds |
|---|---|---|
| `ec_device` | is every access aimed right, does the device implement `EcMemory`, is a stuck batch reported? | 2 threads, 4 registers, batches of 2 accesses, limit 1 tick |
| `ec_start` | is the EC found however late, is it the right one, do registers keep apart? | all boards, ports, bases; one misleading base; 1 failed read |
| `daemon` | do EC, `STATE` and file agree, whatever two clients ask and whatever fails? | N155A, 2 clients, 3 requests of 7 kinds, 1 fault, 1 crash or power cut |
| `daemon_power` | sleep, wake-up, hot keys, an EC that forgets, against a client | N155D, 1 client, 1 request of 4 kinds, 2 events, 1 fault, 1 firmware change |
| `daemon_live` | is everyone served? | 2 clients, 2 requests, 1 hibernation |
| `daemon_wake_up` *(violation)* | does every wake-up restore? | 2 setters, 1 wake-up |
| `power` | what do the events leave in ring, indicator, port and file? | both systems, up to 2 sleeps and 3 changes of the charger, 3 in all, 1 fault, a shutdown anywhere |
| `led_ring` | is the flag right, is the last mode shown? | 3 callers, 2 levels, 2 animations, all mishaps |
| `led_stuck` *(violation)* | does a lone `Custom` always take? | 2 callers, no mishap |
| `ipc` | do versions agree, is a regular end saved, does the exit status tell, is the channel implemented, does nobody wait? | 28 commands, 4 versions on each side, 4 calls |
| `telemetry` | does an opt-out stop reports, do the settings tell, is the store sound, does a slow body block? | 2 requests, 2 commands, 2 starts, 2 reports |
| `poller` | lost wake-ups, samples, outages; is the right release offered; does the bundle have today's log? | 12 versions, 14 days |

**Why the bounds are enough.** `EcDevice`: an access disturbs another through
the two latches and one register file only, so two threads and two addresses
that differ in both halves show every mix-up; a failed access in front of a
complete one is among the behaviours. The theorems lift this to any instance.
`EcStart`: everything but failed reads is as large as in the code, and the
theorems are for any number of failed reads.
`Daemon`: every property relates two copies of one field or two threads, so two
clients, or a client and the service listener, suffice; three requests let a
third one meet what two others left behind. Values: the default and one other
value for what is set, and the sleep animation. The counters in `budget` bound requests,
events, crashes, faults and firmware changes, and nothing else bounds the model.
`PowerEvents`: events of one sleep can only be late for the next one, so two
sleeps show every overtaking; of three changes of the charger one can be on its way
to the port, one in the channel and one still a signal (Linux) or just sent
(Windows). Three sleeps and changes in all let a change meet two sleeps and a sleep
two changes.
`LedRing`: three callers so that a pair can overlap while a third comes alone.
`IpcConnection`: the state of a connection after an answer is that before the
call, so a few calls show all; four let `monitoring` go round twice, and three
the poller's sample be complete. The theorems are for any number.
`Telemetry`: the server's properties relate two requests; an opt-out, a restart
and an opt-in need two commands and two starts. The daemon's own reports and
those of others are run one or the other (`MCTelemetry`): the server treats them
alike. `Gui`: `MCGui` pairs the odd days with one version and the versions with
one day, for the two have nothing to do with each other; the days are the ends of
months and years, leap days, 2000 and 2100.

**Deadlock** is checked where the system goes on for ever: in `EcDevice`,
`Daemon`, `LedRing` and `Gui`. `EcStart` ends with the device open or refused, a
connection ends, and `PowerEvents` and `Telemetry` end with the shutdown or when
their bounds are used up, so their runs do not check it.

**Fairness.** `EcDevice`: threads run their next step, time passes, the watchdog
loops (`std::thread`, a `sleep(1s)` loop); a port operation caught in an SMI need
not come back, so `Resume` is not fair. The other models assume that it does: nothing
in the daemon ends a thread that is caught, the watchdog of `main.rs:175-200` only
logs. `Daemon`: each thread's own steps; not
clients, the OS, faults. `PowerEvents`: the listeners and `process_service` are
threads, and a machine that goes to sleep gets there and is woken; users,
firmware and the end of the process are free. `IpcConnection`: both ends are
threads that run, and `do_work` ends (the assumption on the ports again); leaving,
killing and dying are free. `TelemetryServer`: the
handler threads run, a body need never come. `Telemetry`'s worker is given no
fairness: `ureq` is called without a timeout, so a server that does not answer
holds it for ever, and nothing is claimed of what it must eventually do.
`Poller`: the runtime polls the task, and a handler that has begun ends; users
and daemon are free.

**What the properties leave open.** Some are as strong as the code allows and no
stronger, and their exceptions are named in them: `EcFollowsState` the eight reasons
of §2 (TLC shows EC and `STATE` apart for each of them: the first four in both of its
runs, the others in `daemon_power`); `FlagMeansBypassed` and `RingShowsLastMode` an
`Auto` that met another mode or failed, an EC that restarted, and the CPU fan of a
N155D; `RingComesBack` excepts a sleep
that was sent behind its own wake-up (the job query was slow) and a restore that
failed; `SettingsAreSaved` a sleep whose query failed, one that `main()` took for
`Inited`, and a process that is ended within the 500 ms of `win_service.rs`;
`IndicatorTells` a change whose reading or whose EC access failed, and it does not
ask for the right one of the two colours: at `FullCapacity`, whose limits are 0,
every level is white. `OptOutStops` lets one report through, the one the worker
had taken up. `ExitTells` excepts `fan both`. `RegistersApart` excepts the alias
of the N155D. Each was put into its property after TLC had shown a behaviour that needs it.

**Violations.** Two runs show where the code does not do what the repository
says of it (`findings` in `PROJECT.json`):

* `daemon_wake_up`: a wake-up that arrives while a setter holds `STATE` restores
  nothing.
* `led_stuck`: `Custom` passes the flag check and sets bypass and multiplexer,
  `Auto` clears the bypass and the flag, `Custom` stores the flag. The next
  `Custom`, alone, finds the flag up and skips the bypass.

Further disagreements that the models show and no run is spent on:

* `daemon/src/ec/mod.rs:170`: the `LockTimer` is dropped after the guard, and its
  0 may land on the mark of the next holder, whose batch the watchdog then does
  not see (the field comment promises "or 0 when it's free").
* `daemon/src/handlers.rs:186`: two clients that set the same field can write the
  EC in one order and `STATE` in the other (`README.md:154`: "both clients can run
  side by side without conflict").
* `daemon/src/handlers.rs:188`: a setter that finds `STATE` locked, if only by a
  `GetSettings`, answers with an error although the EC runs with its value.
* `daemon/src/ec/offsets.rs:135`: on the N155D `SetFanMode` for the CPU fan undoes the
  bypass of a custom LED mode, and an LED mode the policy of the fan; so does
  `restore_state`, which writes the LED first and the fan after it.
* `daemon/src/handlers.rs:97`: after `telemetry off` and `RestoreDefaults` the
  settings report telemetry as on while the worker stays off.
* `gui/src/poller.rs:77`: a failed poll reconnects without the pause that a failed
  connect has.
* `gui/src/updates.rs:41`: builds carry no suffix (`0.1.5` for the tag
  `v0.1.5-beta`), so the release of a beta's number is not offered to that beta.

## 4. Proofs

All proofs hold for any number of threads, clients, callers and calls, any
versions, values and bounds. They use the named assumptions of the modules only, which TLC evaluates
on the instances: special values differ from each other and from ordinary ones,
batches are non-empty sequences of operations, bounds are naturals.

**EcDevice** (`EcDeviceProofs`). The inductive invariant says that only the
holder is inside the mutex, that a finished batch has a result per operation,
that `snap` is `mem` while nobody is inside, and, for the thread inside, how far
`step` determines the latches: after port operation 2 the chip is at latch 11,
after 4 `high` is right, and so on up to 12. It also says that `mem` is `snap`
with the first `Len(got)` operations of the batch applied, which is what the
refinement needs: at `Unlock`, `mem` is `EcMemory`'s `After`. Errors need no
case of their own, because the first port operations of an access overwrite
whatever was left. Theorems: `TypeCorrect`, `AccessesHitTheirAddress`,
`MarksHaveBatches`, `BatchesTakeEffectAtomically` (the refinement), and
`OverdueIsReported`: a batch that stays over the limit is reported for good.

**Daemon** (`DaemonProofs`). `BaseHolds` is the type invariant strengthened with
which labels a thread may be at for its job, and that a thread between `TryLock`
and `Release` is the holder. From mutual exclusion on `STATE` follow
`SavesDoNotMeet` and, with what each kind of holder still has to save,
`NothingIsLostSilently`. `OptOutIsKept` needs that an opt-out on record is in
`STATE`, in a readable file and in the flag, unless somebody is about to undo it.
`EcFollows` and `ResetsAreComplete` follow several threads through one field.
`Tells` says what each origin means: with `"state"` the EC has the value in `STATE`;
with a client, its setter is at the lock and the EC has its value; with `"unwritten"` a
restore is to come to the field (`Due`) or the daemon is down; and a reason is one that
this field can have. `Kept` is what a step must leave alone for that: setters at the
lock stay there, and restores on their way to a field too, until they have written it.
`ReadsTrue` makes the two reads of the listener one: with origin `"state"` the first
register still says what it said. `Done` says of a field that a reset has written it,
or that whatever happened since was somebody else's doing, and `Resetting` how far a
`RestoreDefaults` has got; while it has the guard nobody else is due (`WritesAlone`), so
no field goes back to unwritten, overtaken or stopped.
That nobody waits for `STATE` is what makes the progress of the daemon easy to
measure: `Way` counts the steps a job has left at most, 17 from the farthest label,
and no step of another thread adds to it. `JobsEnd` comes from that, for every
thread; `RequestsAreAnswered` and `GuardIsLetGo` from `JobsEnd`, since a request that
is handled, and the guard, belong to a thread with a job. `EventsAreTakenUp` adds
`Listening`: once `main()` is at the accept loop the listener runs, and a process that is
gone has no queue.

**LedRing** (`LedRingProofs`). The flag is up only on a bypassed ring unless an
`Auto` is at work (`Flag`). That is inductive only together with `Meeting`:
while `sound` holds, calls in progress are all `Auto` or none is. `Switched`
and `Painted` say how far a call has got. Theorems: `TypeCorrect`,
`FlagIsReliable`, `LastModeIsShown`.

**EcStart** (`EcStartProofs`). `Probing` says that an EC that was ready when an
attempt began is at none of the ports the attempt has tried, unless a read
failed. `Searching` says that, as long as nothing has gone wrong (the EC has its
port, no read failed, the temperature is fit, no base before the window
misleads), none of the bases tried is the window.
`Ended` carries both into the last state. `RegistersApart` is arithmetic on the
tables, for each board and base.

**IpcConnection** (`IpcConnectionProofs`). The invariant follows a call through
the connection: where the client and the thread are determines which pieces are
in which direction, which of them have been written and read, and how far
`asks`, `works` and `reads` are apart; a client that is gone leaves a prefix of
that. With it every step is a step of `IpcChannel` or none. `VersionsAgree` needs
that the thread gets past the greeting for compatible versions only, and
`ClosedIsSaved` that a client that left between two calls left whole frames, so
that `dGot` is 0 when the stream ends. `ExitsTell` is about the programs
on it (`IpcClients`): every step of theirs is one of the connection
(`ProgramStep`), the calls of a program are no more than its script has, and it
has read an error for each answer that was one, fewer than answers if the last
was not (`Running`). `ProgramsKeepThePromises` follows: what holds of a connection
holds of the programs on it. `OneOfThemMoves` needs `Flow`, which says what is in the
stream when a side has to read (nothing written for the client is lost), so never do
both ends wait for a piece. In
`NobodyWaitsForEver` `ToDo`, less than 25, is what the two have to write, read and
work before the wait is over; it falls with every step of either.

**Poller and Gui** (`GuiProofs`). `Outstanding`: the poller is told to pause exactly
while the window is hidden, a request or a notify still to come means that it is
not, and what the user asked for is met by a permit unless the poller is at the top
of its loop or about to check. A GUI is a behaviour of its poller
(`GuiRunsThePoller`), so `NoWakeUpIsLost` is about both. `SamplesKeepComing` and
`OutagesAreShown` go once around `run()`, label by label.
`NewerIsAnOrder` looks at the first part in which two versions differ: `IsNewer` is
irreflexive and transitive, and total up to missing parts and suffixes. With that,
`OffersAreNewer` is for any versions whose numbers `Rank` can tell apart (at most
three parts, below 100), while `NewerIsAnOrder` knows no such bound.
`CivilFromDaysIsRight` is for every day from 1970 on. Both sides have their own idea of a
year: the code's begins in March and is found by dividing eras of 146097 days, the
calendar's by the lengths of the years. `MarchYear` and the lemmas before it say that
each finds the one year, and the one month in it, that the day is in; induction over
years is by the least counterexample (`LeastNumber`), which needs no operator as a
parameter. `BundlesAreOfToday` is then about the name of the file only.

**PowerEvents** (`PowerEventsProofs`). Each property speaks of a moment when all
is said; the invariant says what is under way before it. `Bits`: the copy that is
about to be written to the port has the other bits of the port. `Lit`: the charger as it is now is
told by the last charger event in the channel or, if there is none, shown by the
LEDs once `process_service` has finished with them. `Ring`: while sleeps are told
in time, a sleep that is in the channel, or shown by the ring, has its wake-up
ahead of it, in the channel or still to be sent. `Sleeps`: the signals of jobs
that nobody took start and stop in turns, so that each start among them, the one that is
asked about and each event that was sent are of a sleep of their own. Theorems:
`TypeCorrect`, `BitsAreKept`, `IndicatorIsRight`, `RingIsRestored`,
`SleepsAreReal`.

**Telemetry** (`TelemetryProofs`). `Storing`: the last raw row is of the thread
that holds the database, so the row id that the connection gives is that of its own raw row, and a thread
that is not at its second insert has left nothing. `Steering`: a request that is
handled is about what is in `STATE`. `OptedOut`: once the client was told, the
flag is down, no start would raise it, and a report under way is the first to
leave. Theorems: `TypeCorrect`, `TheStoreIsSound`, `ReportsStop`,
`TheSettingsTell`. `Under`: whoever has the database has the body of its request, and
is between its two inserts. So nothing is awaited there (`NobodyWaitsUnderTheLock`), a
whole request comes as far as the database however slow the other bodies are
(`WholeRequestsComeToTheLock`), and the database comes free
(`TheDatabaseComesFree`).

**How liveness is proved.** `OverdueIsReported`, `JobsEnd`, `RequestsAreAnswered`,
`GuardIsLetGo`, `EventsAreTakenUp`, `NobodyWaitsForEver`, `SamplesKeepComing`,
`OutagesAreShown`, `WholeRequestsComeToTheLock` and `TheDatabaseComesFree` take weak
fairness from the specification. Each shows by invariants what a step of the thread
does and that the steps of all others do not set it back, and puts a bounded number of
such steps together in temporal logic. What the provers cannot see is that the step is
`ENABLED`. Each of these theorems therefore has a hypothesis that says so, named
`...CanRun`: always, where the thread has a job (a turn, a report that is due), its
step is enabled. TLC finds what they say true in every reachable state of instances
like those of §3, so no behaviour of those is left out by them; for larger
instances it is an assumption that is visible in the theorem.

**What stays with TLC.** `ENABLED`, as just said; and liveness whose number of
steps has no bound in advance, because this would need an induction over temporal
formulas: that the clock comes to any limit (the other part of `StuckBatchIsReported`),
that a channel of any length is emptied (the second half of `RequestsAreServed`, of
which `EventsAreTakenUp` proves that the next event is taken up; and `SettingsAreSaved`), and that
a request gets its turn at the mutex of the database among finitely many
(`SlowBlockNobody`). Every invariant of the passing runs is proved, and so
are the two refinements.

## 5. Not modelled

* The web UI is presentation; what it asks for is among the requests of `Daemon`
  and `IpcClients`. Installers, localisation and the texts of messages have no
  state.
* Values: percentages, PWM values and the bytes of an animation are told apart
  and not computed; `as_percent` and `from_predefined` are tables.
* The Windows and Linux port back-ends are one port operation that may fail.
* Wall-clock time appears as ticks; a clock that is set back is not modelled, nor
  are the lengths of the daemon's pauses (300 s, 400 ms, 500 ms): what must not
  depend on them is checked for any length.
* A restart of the EC in the middle of a batch.
* A D-Bus connection or subscription that fails when the daemon starts: the thread
  ends for good, and its events never come.
* A panic of a server thread inside its transaction, which would poison the mutex
  of the database: no statement between `lock` and the end of the thread panics.
* Autostart, the log level and the log folder: the commands hand their argument to
  a library. `ac_connected` asks the OS.
