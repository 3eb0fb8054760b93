------------------------------- MODULE Daemon -------------------------------
(***************************************************************************)
(* The settings core of lecoo-ec-daemon (daemon/src/main.rs, handlers.rs): *)
(* one copy of the settings in the EC, one in STATE behind a mutex that is *)
(* only ever try-locked, one in the state file.  Connection threads serve  *)
(* requests, the service listener handles power events, main() restores    *)
(* the file at start, and the process may die at any point.                *)
(* A call of an apply function is one step, or stops half-way with an      *)
(* error: each but apply_led_mode is one batch of EcDevice; LedRing takes  *)
(* that one apart.                                                         *)
(***************************************************************************)
EXTENDS Naturals, Sequences, FiniteSets

CONSTANTS
  Conns,         \* connection threads, one per client
  Svc, Main,     \* the service listener and main()
  Values,        \* values of a setting
  Dflt,          \* the value CurrentSettings::default() gives (LED: Auto)
  SleepAnim,     \* the LED animation of BreathConfig::sleep()
  Custom,        \* the keyboard levels that need a second register (Custom(v))
  OutOfRange,    \* a fan duty above 220
  Mixed,         \* what a setting of several registers is when half-written
  Shared,        \* N155D: the bypass of the LED is the policy of the CPU fan
  Free,          \* nobody holds STATE
  Absent, Torn,  \* the state file does not exist / does not decode
  Requests,      \* what clients ask: [op, field, value]
  Events,        \* what the OS announces: "sleep", "hibernate", "wake"
  MaxRequests, MaxEvents, MaxCrashes, MaxFaults, MaxKeys   \* bounds

Fields == {"kbd", "led", "power", "charge", "fan_cpu", "fan_gpu"}

(* Mutant of RestoreOrder: the charge limit is not restored.               *)
RestoreOrderWithoutCharge == <<"kbd", "led", "power", "fan_cpu", "fan_gpu">>

(* The order of restore_state.                                             *)
RestoreOrder == <<"kbd", "led", "power", "charge", "fan_cpu", "fan_gpu">>

(* The reads of read_and_save_state: the keyboard level, for Custom also   *)
(* its value, the profile, and the two bounds of the charge limit; after a *)
(* failure it goes on with the next setting.                               *)
Reads == {"read_kbd", "read_pwm", "read_power", "read_min", "read_max"}

(* Mutant of AfterReads: the settings read back are not saved.             *)
AfterReadsForgetful == "done"

AfterReads == "open"

AfterFailedRead == [label \in Reads |->
                      CASE label \in {"read_kbd", "read_pwm"} -> "read_power"
                        [] label = "read_power"               -> "read_min"
                        [] OTHER                              -> AfterReads]

Ops     == {"set", "defaults", "telemetry_on", "telemetry_off", "apply",
            "get", "todo", "close", "sleep", "hibernate", "wake", "boot"}
Request == [op : Ops, field : Fields, value : Values \cup {OutOfRange}]
NoRequest == [op |-> "boot", field |-> "kbd", value |-> Dflt]

Settings == [cfg : [Fields -> Values], tele : BOOLEAN]
Default  == [cfg |-> [f \in Fields |-> Dflt], tele |-> TRUE]

Threads == Conns \cup {Svc, Main}

(* What the value of a field in the EC comes from, seen from STATE: the two *)
(* were brought together; or STATE has a value a restore is to write; or a *)
(* setter (a member of Conns) wrote it that is on its way to STATE; or,    *)
(* for one of these reasons, it need not be what STATE says, as            *)
(* EcFollowsState tells.                                                   *)
Reasons == {"refused", "overtaken", "failed", "stopped", "firmware",
            "listener", "bypass", "shared"}
Origins == Conns \cup {"state", "unwritten"} \cup Reasons

(* The reasons that a field can have.                                      *)
Excuses(f) == {why \in Reasons :
                 /\ why \in {"listener", "bypass"} => f = "led"
                 /\ why = "shared" => Shared /\ f \in {"led", "fan_cpu"}}

ASSUME ThreadsAssumption ==
  /\ Svc \notin Conns /\ Main \notin Conns /\ Svc # Main
  /\ Free \notin Threads
  /\ Conns \cap ({"state", "unwritten"} \cup Reasons) = {}
ASSUME ValuesAssumption ==
  /\ Dflt \in Values /\ SleepAnim \in Values
  /\ Custom \subseteq Values \ {Dflt} /\ Custom # {}
  /\ OutOfRange \notin Values /\ Mixed \notin Values
  /\ Shared \in BOOLEAN
ASSUME DiskAssumption ==
  Absent # Torn /\ Absent \notin Settings /\ Torn \notin Settings
ASSUME RequestsAssumption ==
  /\ Requests \subseteq Request
  /\ \A r \in Requests : r.op \in {"set", "defaults", "telemetry_on",
                                   "telemetry_off", "apply", "get", "todo"}
  /\ Events \subseteq {"sleep", "hibernate", "wake"}

ASSUME BoundsAssumption ==
  /\ MaxRequests \in Nat /\ MaxEvents \in Nat /\ MaxCrashes \in Nat
  /\ MaxFaults \in Nat /\ MaxKeys \in Nat

VARIABLES
  ec,        \* the settings the EC is running with
  pwm,       \* the register of the custom keyboard level
  latched,   \* IS_LED_ALREADY_CUSTOM
  state,     \* STATE (and, before it is set, main's daemon_state)
  holder,    \* the thread whose guard on STATE is alive, or Free
  disk,      \* the state file: Absent, Torn or settings
  pc,        \* per thread, where it is
  job,       \* per thread, the request or event it is serving
  idx,       \* per thread, position in RestoreOrder
  result,    \* per thread, the outcome of its job so far
  seen,      \* the charge limit whose lower bound the listener has read
  queue,     \* InternalEvents on their way to the service listener
  enabled,   \* TELEMETRY_ENABLED
  budget,    \* what is left of each bound
  \* History, for the properties only.
  origin,    \* per field, where its value in the EC comes from
  unsaved,   \* a reason is on record why the file may lag behind STATE
  cut,       \* the last save was cut short, or did not reach the medium
  optedOut   \* a client was told telemetry is off, and nobody undid it

work    == <<pc, job, idx, result>>
history == <<origin, unsaved, cut, optedOut>>
vars    == <<ec, pwm, latched, state, holder, disk, work, seen, queue, enabled, budget, history>>

Labels == {"down", "telemetry", "accept", "off", "closed", "recv", "set", "led",
           "lock", "open", "write", "switch", "restore", "done"} \cup Reads

Bounds == {"requests", "events", "crashes", "faults", "keys"}

Spend(what) == /\ budget[what] > 0
               /\ budget' = [budget EXCEPT ![what] = @ - 1]

Goto(t, label) == pc' = [pc EXCEPT ![t] = label]

Finish(t, outcome) == /\ Goto(t, "done")
                      /\ result' = [result EXCEPT ![t] = outcome]

Loadable == disk \notin {Absent, Torn}

(* Threads that have put a value of f into the EC and not yet into STATE.  *)
Pending(f) == {c \in Conns : pc[c] = "lock" /\ job[c].op = "set" /\ job[c].field = f}

(* The fields a restore by t still has to write.                           *)
Remaining(t) == {RestoreOrder[i] : i \in idx[t]..Len(RestoreOrder)}

(* A restore is under way that is still to write f.                        *)
Due(f) == \E t \in Threads : \/ pc[t] = "restore" /\ f \in Remaining(t)
                             \/ pc[t] \in {"open", "write"} /\ job[t].op = "defaults"

(* What is going to be written anyway needs no reason.                     *)
Cause(f, why) == IF Due(f) THEN "unwritten" ELSE why

(* The restore that was to write the fields has stopped.                   *)
Stopped(from) == [f \in Fields |-> IF from[f] = "unwritten" THEN "stopped" ELSE from[f]]

Unwritten == [f \in Fields |-> "unwritten"]

-----------------------------------------------------------------------------
Init ==
  /\ ec = [f \in Fields |-> Dflt]
  /\ pwm \in Custom
  /\ latched = FALSE
  /\ state = Default
  /\ holder = Free
  /\ disk = Absent
  /\ pc = [t \in Threads |-> CASE t = Main -> "down" [] t = Svc -> "off"
                               [] OTHER -> "closed"]
  /\ job = [t \in Threads |-> NoRequest]
  /\ idx = [t \in Threads |-> 1]
  /\ result = [t \in Threads |-> "Success"]
  /\ seen = Dflt
  /\ queue = << >>
  /\ enabled = TRUE
  /\ budget = [b \in Bounds |-> CASE b = "requests" -> MaxRequests
                                 [] b = "events"   -> MaxEvents
                                 [] b = "crashes"  -> MaxCrashes
                                 [] b = "faults"   -> MaxFaults
                                 [] b = "keys"     -> MaxKeys]
  /\ origin = Unwritten /\ unsaved = TRUE /\ cut = FALSE /\ optedOut = FALSE

-----------------------------------------------------------------------------
(* main().                                                                 *)

(* load_or_default(), then on to restore_state().                          *)
Boot(settings) ==
  /\ pc[Main] = "down"
  /\ state' = settings
  /\ Goto(Main, "restore")
  /\ idx' = [idx EXCEPT ![Main] = 1]
  /\ origin' = Unwritten
  /\ UNCHANGED <<ec, pwm, latched, holder, disk, job, result, seen, queue, enabled, cut>>

Load ==
  /\ Boot(IF Loadable THEN disk ELSE Default)
  /\ unsaved' = ~Loadable
  /\ UNCHANGED <<budget, optedOut>>

(* A file that is there but cannot be read is taken for a missing one.     *)
LoadFails ==
  /\ disk # Absent
  /\ Spend("faults")
  /\ Boot(Default)
  /\ unsaved' = TRUE /\ optedOut' = FALSE

(* Mutant of InitiallyEnabled: init(true, ...).                            *)
AlwaysEnabled == TRUE

InitiallyEnabled == state.tele

(* telemetry::init, STATE.set, the service listener and the accept loop.   *)
StartServing ==
  /\ pc[Main] = "telemetry"
  /\ enabled' = InitiallyEnabled
  /\ pc' = [pc EXCEPT ![Main] = "accept", ![Svc] = "recv"]
  /\ UNCHANGED <<ec, pwm, latched, state, holder, disk, job, idx, result, seen, queue, budget,
                 history>>

(* What is left when the process is gone: the EC and the file.             *)
ProcessGone ==
  /\ pc' = [t \in Threads |-> CASE t = Main -> "down" [] t = Svc -> "off"
                                [] OTHER -> "closed"]
  /\ job' = [t \in Threads |-> NoRequest]
  /\ idx' = [t \in Threads |-> 1]
  /\ result' = [t \in Threads |-> "Success"]
  /\ state' = Default
  /\ holder' = Free
  /\ seen' = Dflt
  /\ queue' = << >>
  /\ enabled' = TRUE
  /\ latched' = FALSE
  /\ origin' = Unwritten
  /\ UNCHANGED <<ec, pwm, unsaved>>

(* With telemetry on, main() reads the chip id for the start-up report; an *)
(* EC error there ends the process.                                        *)
StartFails ==
  /\ pc[Main] = "telemetry" /\ state.tele
  /\ Spend("faults")
  /\ ProcessGone
  /\ UNCHANGED <<disk, cut, optedOut>>

(* The process is killed.                                                  *)
Crash ==
  /\ pc[Main] # "down"
  /\ Spend("crashes")
  /\ ProcessGone
  /\ cut' = (cut \/ \E t \in Threads : pc[t] = "write")
  /\ optedOut' = (optedOut /\ ~cut')
  /\ UNCHANGED disk

(* The machine loses power before the last save reached the medium: save() *)
(* neither syncs nor writes to a file of another name first.               *)
PowerCut ==
  /\ pc[Main] # "down" /\ disk # Absent
  /\ Spend("crashes")
  /\ ProcessGone
  /\ disk' = Torn
  /\ cut' = TRUE /\ optedOut' = FALSE

-----------------------------------------------------------------------------
(* Clients: process_ipc_connection.                                        *)

Connect(c) ==
  /\ pc[Main] = "accept" /\ pc[c] = "closed"
  /\ Goto(c, "recv")
  /\ UNCHANGED <<ec, pwm, latched, state, holder, disk, job, idx, result, seen, queue,
                 enabled, budget, history>>

Receive(c) ==
  /\ pc[c] = "recv"
  /\ Spend("requests")
  /\ \E r \in Requests :
       /\ job' = [job EXCEPT ![c] = r]
       /\ Goto(c, IF r.op = "set" THEN "set" ELSE "lock")
  /\ result' = [result EXCEPT ![c] = "Success"]
  /\ UNCHANGED <<ec, pwm, latched, state, holder, disk, idx, seen, queue, enabled, history>>

(* EOF between two messages: recv reports ConnectionReset, and the thread  *)
(* goes on to save STATE.                                                  *)
Disconnect(c) ==
  /\ pc[c] = "recv"
  /\ job' = [job EXCEPT ![c] = [NoRequest EXCEPT !.op = "close"]]
  /\ Goto(c, "lock")
  /\ UNCHANGED <<ec, pwm, latched, state, holder, disk, idx, result, seen, queue, enabled,
                 budget, history>>

(* A send that fails, or a recv that ends inside a message: no save.       *)
Drop(c) ==
  /\ \/ pc[c] = "recv"
     \/ pc[c] = "done" /\ job[c].op # "close"
  /\ Goto(c, "closed")
  /\ job' = [job EXCEPT ![c] = NoRequest]
  /\ holder' = IF holder = c THEN Free ELSE holder
  /\ unsaved' = TRUE
  /\ UNCHANGED <<ec, pwm, latched, state, disk, idx, result, seen, queue, enabled, budget,
                 origin, cut, optedOut>>

(* todo!() in process_daemon_command: the thread panics and the connection *)
(* is gone, without a reply or a save.                                     *)
Panic(c) ==
  /\ pc[c] = "lock" /\ job[c].op = "todo"
  /\ Goto(c, "closed")
  /\ job' = [job EXCEPT ![c] = NoRequest]
  /\ unsaved' = TRUE
  /\ UNCHANGED <<ec, pwm, latched, state, holder, disk, idx, result, seen, queue, enabled,
                 budget, origin, cut, optedOut>>

-----------------------------------------------------------------------------
(* Setters: the EC first, then STATE.                                      *)

(* What a failed write of v to f may have left in the EC: keyboard levels   *)
(* and the profile have one deciding register, the others have several.    *)
HalfSet(f, v) ==
  CASE f = "kbd"   -> IF v \in Custom THEN {pwm} ELSE {}
    [] f = "power" -> {}
    [] OTHER       -> {Mixed}

(* apply_led_mode writes the bypass, but not for a mode after which         *)
(* IS_LED_ALREADY_CUSTOM already stands.                                   *)
SkipsBypass(f, v) == f = "led" /\ v # Dflt /\ latched

(* What a write of v to f makes of f: without its bypass the LED shows a    *)
(* mode only if the bypass is on.                                          *)
Shown(f, v) ==
  CASE SkipsBypass(f, v) /\ ec[f] = Dflt  -> {Mixed}
    [] SkipsBypass(f, v) /\ ec[f] = Mixed -> {v, Mixed}
    [] OTHER                              -> {v}

(* The setting that lives in the first register a write of v to f writes;  *)
(* what the defaults of the two put there is the same.                     *)
Clobbered(f, v) ==
  {g \in Fields : /\ Shared /\ {f, g} = {"led", "fan_cpu"}
                  /\ ~SkipsBypass(f, v)
                  /\ ~(v = Dflt /\ ec[g] = Dflt)}

Write(f, x, over) ==
  ec' = [g \in Fields |-> IF g = f THEN x ELSE IF g \in over THEN Mixed ELSE ec[g]]

Written(f, why, over) ==
  [g \in Fields |-> IF g = f THEN why
                    ELSE IF g \in over THEN Cause(g, "shared") ELSE origin[g]]

PutEc(f, v, why) ==
  /\ \E x \in Shown(f, v) :
       /\ Write(f, x, Clobbered(f, v))
       /\ origin' = Written(f, IF x = v THEN why ELSE "bypass", Clobbered(f, v))
  /\ pwm' = IF f = "kbd" /\ v \in Custom THEN v ELSE pwm
  /\ latched' = IF f = "led" THEN v # Dflt ELSE latched

(* An EC access fails, before the first register is written or after it.   *)
PutFails(f, v, over) ==
  /\ \/ over = {} /\ UNCHANGED <<ec, latched>>
     \/ /\ over = Clobbered(f, v)
        /\ \E x \in HalfSet(f, v) : Write(f, x, over)
        /\ latched' \in {latched, latched \/ (f = "led" /\ v # Dflt)}
  /\ UNCHANGED pwm

(* Mutant of Refused: no limit on the fan duty.                            *)
NeverRefused(c) == FALSE

(* apply_fan_mode bails out on a duty above 220.                           *)
Refused(c) == job[c].value = OutOfRange

ApplySet(c) ==
  /\ pc[c] = "set" /\ ~Refused(c)
  /\ PutEc(job[c].field, job[c].value, c)
  /\ Goto(c, "lock")
  /\ UNCHANGED <<state, holder, disk, job, idx, result, seen, queue, enabled,
                 budget, unsaved, cut, optedOut>>

RefuseSet(c) ==
  /\ pc[c] = "set" /\ Refused(c)
  /\ Finish(c, "Error")
  /\ UNCHANGED <<ec, pwm, latched, state, holder, disk, job, idx, seen, queue, enabled,
                 budget, history>>

SetFails(c) ==
  LET f == job[c].field
      mode == job[c].value
  IN /\ pc[c] = "set" /\ ~Refused(c)
     /\ Spend("faults")
     /\ Finish(c, "Error")
     /\ \E over \in {{}, Clobbered(f, mode)} :
          PutFails(f, mode, over) /\ origin' = Written(f, Cause(f, "failed"), over)
     /\ UNCHANGED <<state, holder, disk, job, idx, seen, queue, enabled, unsaved,
                    cut, optedOut>>

-----------------------------------------------------------------------------
(* The guard on STATE.                                                     *)

(* Mutant of Assigned: a fan setter always writes fan_mode_gpu.            *)
AssignedToGpuFan(t) ==
  IF job[t].op # "set" THEN state
  ELSE IF job[t].field \in {"fan_cpu", "fan_gpu"}
       THEN [state EXCEPT !.cfg["fan_gpu"] = job[t].value]
       ELSE [state EXCEPT !.cfg[job[t].field] = job[t].value]

(* What the job does to STATE as soon as it has the guard.                 *)
Assigned(t) ==
  CASE job[t].op = "set" ->
         [state EXCEPT !.cfg[job[t].field] = job[t].value]
    [] job[t].op = "defaults"      -> Default
    [] job[t].op = "telemetry_on"  -> [state EXCEPT !.tele = TRUE]
    [] job[t].op = "telemetry_off" -> [state EXCEPT !.tele = FALSE]
    [] OTHER                       -> state

(* Mutant of AfterLock: a closing connection does not save.                *)
AfterLockNoSave(op) ==
  CASE op \in {"set", "get", "close"}  -> "done"
    [] op \in {"apply", "wake"}        -> "restore"
    [] op \in {"sleep", "hibernate"}   -> "read_kbd"
    [] OTHER                           -> "open"

AfterLock(op) ==
  CASE op \in {"set", "get"}           -> "done"
    [] op \in {"apply", "wake"}        -> "restore"
    [] op \in {"sleep", "hibernate"}   -> "read_kbd"
    [] OTHER                           -> "open"

(* Mutant of CanLock: a closing connection saves without the guard.        *)
CanLockOrClose(t) == holder = Free \/ job[t].op = "close"

CanLock(t) == holder = Free

(* STATE gets the value a setter has written, unless somebody has written   *)
(* the field after it; what a restore does not find in place already it is *)
(* going to write.                                                         *)
OriginInState(t) ==
  CASE job[t].op = "set" ->
         [origin EXCEPT ![job[t].field] = IF @ = t THEN "state"
                                          ELSE IF @ = "state" THEN "overtaken" ELSE @]
    [] job[t].op = "defaults" ->
         [f \in Fields |-> IF origin[f] \in Conns THEN origin[f] ELSE "unwritten"]
    [] job[t].op \in {"apply", "wake"} ->
         [f \in Fields |-> IF origin[f] \in Conns \cup {"state"} THEN origin[f]
                           ELSE "unwritten"]
    [] OTHER -> origin

TryLock(t) ==
  /\ pc[t] = "lock" /\ job[t].op # "todo"
  /\ CanLock(t)
  /\ holder' = t
  /\ state' = Assigned(t)
  /\ Goto(t, AfterLock(job[t].op))
  /\ idx' = [idx EXCEPT ![t] = 1]
  /\ optedOut' = (optedOut /\ job[t].op \notin {"defaults", "telemetry_on"})
  /\ origin' = OriginInState(t)
  /\ UNCHANGED <<ec, pwm, latched, disk, job, result, seen, queue, enabled, budget,
                 unsaved, cut>>

(* Mutant of TryLockFails: lock() instead of try_lock(), which waits.      *)
NeverFails(t) == FALSE

(* The guard is taken: a request is answered with an error (a setter's EC  *)
(* write stays), a closing connection does not save, an event is skipped.  *)
TryLockFails(t) ==
  /\ pc[t] = "lock" /\ job[t].op # "todo"
  /\ ~CanLock(t)
  /\ Finish(t, "Error")
  /\ origin' = [f \in Fields |-> IF origin[f] = t THEN Cause(f, "refused") ELSE origin[f]]
  /\ unsaved' = (unsaved \/ (job[t].op = "close" /\ job[holder].op = "wake"))
  /\ UNCHANGED <<ec, pwm, latched, state, holder, disk, job, idx, seen, queue, enabled, budget,
                 cut, optedOut>>

(* Mutant of Release: the guard of a closing connection is leaked.         *)
ReleaseLeaky(t) ==
  /\ pc[t] = "done"
  /\ holder' = IF holder = t /\ job[t].op # "close" THEN Free ELSE holder
  /\ Goto(t, IF job[t].op = "close" THEN "closed" ELSE "recv")
  /\ job' = [job EXCEPT ![t] = NoRequest]
  /\ UNCHANGED <<ec, pwm, latched, state, disk, idx, result, seen, queue, enabled, budget,
                 history>>

(* The job is over: the guard is dropped, a request is answered.           *)
Release(t) ==
  /\ pc[t] = "done"
  /\ holder' = IF holder = t THEN Free ELSE holder
  /\ Goto(t, IF job[t].op = "close" THEN "closed" ELSE "recv")
  /\ job' = [job EXCEPT ![t] = NoRequest]
  /\ UNCHANGED <<ec, pwm, latched, state, disk, idx, result, seen, queue, enabled, budget,
                 history>>

-----------------------------------------------------------------------------
(* save(): File::create truncates, the buffer is written when it is dropped. *)

AfterSave(t) ==
  CASE job[t].op = "defaults" -> "restore"
    [] job[t].op \in {"telemetry_on", "telemetry_off"} -> "switch"
    [] OTHER -> "done"

OpenFile(t) ==
  /\ pc[t] = "open"
  /\ disk' = Torn
  /\ Goto(t, "write")
  /\ UNCHANGED <<ec, pwm, latched, state, holder, job, idx, result, seen, queue, enabled,
                 budget, history>>

(* Mutant of SaveError: the error of save() is ignored.                    *)
SaveErrorIgnored(t) == Goto(t, AfterSave(t)) /\ UNCHANGED result

SaveError(t) == Finish(t, "Error")

OpenFails(t) ==
  /\ pc[t] = "open"
  /\ Spend("faults")
  /\ SaveError(t)
  /\ unsaved' = TRUE
  /\ origin' = IF job[t].op = "defaults" THEN Stopped(origin) ELSE origin
  /\ UNCHANGED <<ec, pwm, latched, state, holder, disk, job, idx, seen, queue, enabled, cut,
                 optedOut>>

WriteFile(t) ==
  /\ pc[t] = "write"
  /\ disk' = state
  /\ Goto(t, AfterSave(t))
  /\ idx' = [idx EXCEPT ![t] = 1]
  /\ unsaved' = FALSE /\ cut' = FALSE
  /\ UNCHANGED <<ec, pwm, latched, state, holder, job, result, seen, queue, enabled, budget,
                 origin, optedOut>>

(* The flush on drop fails: the error is dropped too, save() returns Ok.   *)
WriteLost(t) ==
  /\ pc[t] = "write"
  /\ Spend("faults")
  /\ Goto(t, AfterSave(t))
  /\ idx' = [idx EXCEPT ![t] = 1]
  /\ unsaved' = TRUE /\ cut' = TRUE /\ optedOut' = FALSE
  /\ UNCHANGED <<ec, pwm, latched, state, holder, disk, job, result, seen, queue, enabled,
                 origin>>

(* telemetry::enable() / disable().                                        *)
Switch(t) ==
  /\ pc[t] = "switch"
  /\ enabled' = (job[t].op = "telemetry_on")
  /\ Goto(t, "done")
  /\ optedOut' = (job[t].op = "telemetry_off" /\ ~cut)
  /\ UNCHANGED <<ec, pwm, latched, state, holder, disk, job, idx, result, seen, queue, budget,
                 origin, unsaved, cut>>

-----------------------------------------------------------------------------
(* restore_state(): one field after the other, up to the first error; its  *)
(* place in the order is forgotten when it is over.                        *)

AfterRestore(t) == IF t = Main THEN "telemetry" ELSE "done"

Restore(t) ==
  LET f == RestoreOrder[idx[t]]
  IN /\ pc[t] = "restore"
     /\ PutEc(f, state.cfg[f], "state")
     /\ IF idx[t] = Len(RestoreOrder)
        THEN Goto(t, AfterRestore(t)) /\ idx' = [idx EXCEPT ![t] = 1]
        ELSE idx' = [idx EXCEPT ![t] = @ + 1] /\ UNCHANGED pc
     /\ UNCHANGED <<state, holder, disk, job, result, seen, queue, enabled,
                    budget, unsaved, cut, optedOut>>

RestoreFails(t) ==
  LET f == RestoreOrder[idx[t]]
      mode == state.cfg[f]
  IN /\ pc[t] = "restore"
     /\ Spend("faults")
     /\ Goto(t, AfterRestore(t)) /\ idx' = [idx EXCEPT ![t] = 1]
     /\ result' = [result EXCEPT ![t] = "Error"]
     /\ \E over \in {{}, Clobbered(f, mode)} :
          PutFails(f, mode, over) /\ origin' = Stopped(Written(f, "failed", over))
     /\ UNCHANGED <<state, holder, disk, job, seen, queue, enabled, unsaved,
                    cut, optedOut>>

-----------------------------------------------------------------------------
(* The service listener: process_service.                                  *)

TakeEvent ==
  /\ pc[Svc] = "recv"
  /\ queue # << >>
  /\ queue' = Tail(queue)
  /\ job' = [job EXCEPT ![Svc] = [NoRequest EXCEPT !.op = Head(queue)]]
  /\ Goto(Svc, IF Head(queue) = "wake" THEN "lock" ELSE "led")
  /\ result' = [result EXCEPT ![Svc] = "Success"]
  /\ UNCHANGED <<ec, pwm, latched, state, holder, disk, idx, seen, enabled, budget, history>>

(* The LED is set before STATE is locked; an error is ignored.             *)
SetLed ==
  LET mode == IF job[Svc].op = "sleep" THEN SleepAnim ELSE Dflt
  IN /\ pc[Svc] = "led"
     /\ \/ PutEc("led", mode, Cause("led", "listener")) /\ UNCHANGED budget
        \/ /\ Spend("faults")
           /\ \E over \in {{}, Clobbered("led", mode)} :
                /\ PutFails("led", mode, over)
                /\ origin' = Written("led", Cause("led", "failed"), over)
     /\ Goto(Svc, "lock")
     /\ UNCHANGED <<state, holder, disk, job, idx, result, seen, queue, enabled,
                    unsaved, cut, optedOut>>

(* read_and_save_state reads register by register, and other threads may   *)
(* write the EC between two reads.                                         *)
Read(label, next) ==
  /\ pc[Svc] = label
  /\ Goto(Svc, next)
  /\ UNCHANGED <<ec, pwm, latched, holder, disk, job, idx, result, queue, enabled, budget,
                 unsaved, cut, optedOut>>

(* STATE has f from the EC, if nobody wrote the EC between two reads of it. *)
Learned(f) ==
  origin' = [origin EXCEPT ![f] = IF @ \notin Conns /\ state'.cfg[f] = ec[f]
                                  THEN "state" ELSE @]

IsCustom(level) == level \in Custom

ReadKbd ==
  /\ Read("read_kbd", IF IsCustom(ec["kbd"]) THEN "read_pwm" ELSE "read_power")
  /\ state' = IF IsCustom(ec["kbd"]) THEN state
              ELSE [state EXCEPT !.cfg["kbd"] = ec["kbd"]]
  /\ IF IsCustom(ec["kbd"]) THEN UNCHANGED origin ELSE Learned("kbd")
  /\ UNCHANGED seen

ReadPwm ==
  /\ Read("read_pwm", "read_power")
  /\ state' = [state EXCEPT !.cfg["kbd"] = pwm]
  /\ Learned("kbd")
  /\ UNCHANGED seen

ReadPower ==
  /\ Read("read_power", "read_min")
  /\ state' = [state EXCEPT !.cfg["power"] = ec["power"]]
  /\ Learned("power")
  /\ UNCHANGED seen

ReadMin ==
  /\ Read("read_min", "read_max")
  /\ seen' = ec["charge"]
  /\ UNCHANGED <<state, origin>>

(* from_predefined() knows a limit by its two bounds: bounds of different  *)
(* limits are no limit, and STATE stays.  A bound of a half-written limit  *)
(* is one of the old or of the new limit.                                  *)
ReadMax ==
  LET bounds == {seen, ec["charge"]}
      limits == {v \in bounds \ {Mixed} : bounds \subseteq {v, Mixed}}
  IN /\ Read("read_max", AfterReads)
     /\ \/ \E v \in limits : state' = [state EXCEPT !.cfg["charge"] = v]
        \/ (limits = {} \/ Mixed \in bounds) /\ UNCHANGED state
     /\ seen' = Dflt
     /\ Learned("charge")

(* A read that fails, or decodes to nothing, leaves its field alone.       *)
ReadFails ==
  /\ pc[Svc] \in Reads
  /\ Spend("faults")
  /\ Goto(Svc, AfterFailedRead[pc[Svc]])
  /\ seen' = Dflt
  /\ UNCHANGED <<ec, pwm, latched, state, holder, disk, job, idx, result, queue, enabled,
                 origin, unsaved, cut, optedOut>>

-----------------------------------------------------------------------------
(* The surroundings: the OS announces power events, the firmware changes   *)
(* the two settings it has hot keys for, the EC forgets across a sleep.    *)

Announce ==
  /\ pc[Main] # "down"
  /\ Spend("events")
  /\ \E e \in Events : queue' = Append(queue, e)
  /\ UNCHANGED <<ec, pwm, latched, state, holder, disk, work, seen, enabled, history>>

HotKey ==
  /\ Spend("keys")
  /\ \E f \in {"kbd", "power"}, v \in Values :
       /\ f = "kbd" => v \notin Custom
       /\ ec' = [ec EXCEPT ![f] = v]
       /\ origin' = [origin EXCEPT ![f] = Cause(f, "firmware")]
  /\ UNCHANGED <<pwm, latched, state, holder, disk, work, seen, queue, enabled, unsaved, cut,
                 optedOut>>

EcForgets ==
  /\ Spend("keys")
  /\ ec' = [f \in Fields |-> Dflt]
  /\ origin' = [f \in Fields |-> Cause(f, "firmware")]
  /\ UNCHANGED <<pwm, latched, state, holder, disk, work, seen, queue, enabled, unsaved, cut,
                 optedOut>>

-----------------------------------------------------------------------------
(* What a thread does when it is scheduled and nothing fails.              *)
Step(t) ==
  \/ TryLock(t) \/ TryLockFails(t) \/ Release(t)
  \/ OpenFile(t) \/ WriteFile(t) \/ Switch(t) \/ Restore(t)

ConnStep(c) == Step(c) \/ ApplySet(c) \/ RefuseSet(c) \/ Panic(c)
SvcStep     == \/ Step(Svc) \/ TakeEvent \/ SetLed
               \/ ReadKbd \/ ReadPwm \/ ReadPower \/ ReadMin \/ ReadMax
MainStep    == Step(Main) \/ Load \/ StartServing

Faults(t) == OpenFails(t) \/ WriteLost(t) \/ RestoreFails(t)

Next ==
  \/ \E c \in Conns : \/ Connect(c) \/ Receive(c) \/ Disconnect(c) \/ Drop(c)
                      \/ ConnStep(c) \/ SetFails(c)
  \/ SvcStep \/ ReadFails
  \/ MainStep \/ LoadFails \/ StartFails
  \/ \E t \in Threads : Faults(t)
  \/ Announce \/ HotKey \/ EcForgets \/ Crash \/ PowerCut

Spec == Init /\ [][Next]_vars

(* Every thread of the daemon is scheduled, and its EC accesses come back  *)
(* (an assumption on the ports, which EcDevice does not make); clients,    *)
(* the OS and faults come as they like.                                    *)
ClientIsServed(c) == WF_vars(ConnStep(c))
Fairness ==
  /\ \A c \in Conns : ClientIsServed(c)
  /\ WF_vars(SvcStep)
  /\ WF_vars(MainStep)

FairSpec == Spec /\ Fairness

-----------------------------------------------------------------------------
(* Every variable has its type.                                            *)
TypeOK ==
  /\ ec \in [Fields -> Values \cup {Mixed}] /\ ec["kbd"] # Mixed /\ ec["power"] # Mixed
  /\ pwm \in Custom
  /\ latched \in BOOLEAN
  /\ state \in Settings
  /\ holder \in Threads \cup {Free}
  /\ disk \in Settings \cup {Absent, Torn}
  /\ pc \in [Threads -> Labels]
  /\ job \in [Threads -> Request]
  /\ idx \in [Threads -> 1..Len(RestoreOrder)]
  /\ result \in [Threads -> {"Success", "Error"}]
  /\ seen \in Values \cup {Mixed}
  /\ queue \in Seq(Events)
  /\ enabled \in BOOLEAN
  /\ budget \in [Bounds -> Nat]
  /\ origin \in [Fields -> Origins]
  /\ unsaved \in BOOLEAN /\ cut \in BOOLEAN /\ optedOut \in BOOLEAN

(* The file is unreadable only while the one thread that holds STATE is    *)
(* between truncating and writing it, or because that write was cut short  *)
(* (handlers.rs:18-27): two saves never get into each other.               *)
TornOnlyWhileSaving ==
  disk = Torn => cut \/ \E t \in Threads : pc[t] = "write" /\ holder = t

(* When every client has gone and no event is being handled, the file is   *)
(* what STATE is, unless a client broke off, a save failed, or a client's  *)
(* last save met the restore of a wake-up (main.rs:38-51, 62-75).          *)
NoSilentLoss ==
  /\ pc[Main] = "accept" /\ pc[Svc] = "recv"
  /\ \A c \in Conns : pc[c] = "closed"
  /\ ~unsaved
  => disk = state

(* A request is between the two copies of f: a setter whose value is in    *)
(* the EC is on its way to STATE, or a restore is still to write f.        *)
Halfway(f) ==
  \/ origin[f] \in Pending(f) /\ ec[f] = job[origin[f]].value
  \/ origin[f] = "unwritten" /\ Due(f)

(* While the daemon serves, the EC runs with what STATE says, field by     *)
(* field (handlers.rs:44-52, 178-219, main.rs:62-96), except where a       *)
(* request is half-way, or where the last that happened to the field is    *)
(*   "refused"    its setter found STATE locked, by whomever, and answered *)
(*                with an error after writing the EC (handlers.rs:187-188) *)
(*   "overtaken"  its setter came to STATE after another request had put   *)
(*                a value of its own into both                             *)
(*   "failed"     an EC access failed in the middle of writing it          *)
(*   "stopped"    a restore, or a reset, ended before it got to the field  *)
(*   "firmware"   a hot key, or the EC forgot it across a sleep            *)
(* or, for the LED alone,                                                  *)
(*   "listener"   the listener set it for a sleep, hibernation or shutdown *)
(*                without telling STATE (main.rs:86-91)                    *)
(*   "bypass"     apply_led_mode left the bypass out, its flag being set,  *)
(*                where the bypass was not known to be on (led.rs:29, 40)  *)
(* or, for the LED and the CPU fan of a N155D,                             *)
(*   "shared"     the other of the two was written into the register they  *)
(*                share (offsets.rs:99, 135, fan.rs:23, led.rs:22, 30, 41) *)
(* A later write of the field that meets none of these brings EC and STATE *)
(* together again.                                                         *)
EcFollowsState ==
  pc[Main] = "accept" =>
    \A f \in Fields : ec[f] = state.cfg[f] \/ Halfway(f) \/ origin[f] \in Excuses(f)

(* A RestoreDefaults that is answered with Success has put the defaults    *)
(* into STATE and into the file, and has written every field of the EC:    *)
(* none was left out, and one that differs now was changed by somebody     *)
(* else meanwhile (handlers.rs:95-101).                                    *)
ResetIsComplete ==
  \A c \in Conns :
    pc[c] = "done" /\ job[c].op = "defaults" /\ result[c] = "Success" =>
      /\ state = Default
      /\ disk = Default \/ cut
      /\ \A f \in Fields : /\ origin[f] \notin {"unwritten", "overtaken", "stopped"}
                           /\ origin[f] = "state" => ec[f] = Dflt

(* A client that was told telemetry is off keeps it off, through the saves *)
(* of other clients and restarts, until somebody enables it, resets to the *)
(* defaults, or a save is cut short (handlers.rs:103-115, main.rs:152-157). *)
OptOutHolds == pc[Main] = "accept" /\ optedOut => ~enabled

(* STATE is never held for good: whoever has the guard lets go of it.      *)
GuardIsReleased == holder # Free ~> holder = Free

(* Every request is answered, or its connection is closed, and every event *)
(* is taken up, however contended the guard is.                            *)
RequestsAreServed ==
  /\ \A c \in Conns : pc[c] = "lock" ~> pc[c] \in {"recv", "closed"}
  /\ queue # << >> ~> queue = << >>

(* CHANGELOG.md:366: "The daemon now completely restores all device        *)
(* settings ... upon system wake-up": a wake-up that is over has written   *)
(* every field.                                                            *)
WakeUpRestores ==
  pc[Svc] = "done" /\ job[Svc].op = "wake" =>
    result[Svc] = "Success" \/ budget["faults"] < MaxFaults
=============================================================================
