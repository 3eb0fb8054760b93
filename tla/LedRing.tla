------------------------------ MODULE LedRing ------------------------------
(***************************************************************************)
(* The LED ring (daemon/src/ec/hw/led.rs).  apply_led_mode is a sequence   *)
(* of EC transactions, each atomic on its own, steered by the process-wide *)
(* flag IS_LED_ALREADY_CUSTOM that says whether the ring is bypassed       *)
(* already.  Connection threads and the service listener call it without a *)
(* common lock: set_led_mode and process_service take STATE only later.    *)
(***************************************************************************)
EXTENDS Naturals, FiniteSets

CONSTANTS
  Callers,     \* threads that call apply_led_mode
  LedAuto,     \* PowerLedMode::Auto
  Levels,      \* PowerLedMode::Custom(_)
  Anims,       \* PowerLedMode::Animation(_)
  Unknown,     \* no mode: the ring may show anything
  Mishaps      \* which of Every are taken into account

Modes == {LedAuto} \cup Levels \cup Anims

ASSUME ModesAssumption ==
  /\ LedAuto \notin Levels \cup Anims /\ Levels \cap Anims = {}
  /\ Unknown \notin Modes
(* "fan" is a N155D: the bypass is the policy of its CPU fan.              *)
Every == {"error", "restart", "ec_reset", "fan"}

ASSUME MishapsAssumption == Mishaps \subseteq Every

VARIABLES
  \* The EC.
  bypass,      \* ram_led_bypass: the ring is taken from the firmware
  manual,      \* reg_gpio_a0_mux: the pin is in PWM mode
  breathing,   \* reg_led_breath_en
  duty,        \* reg_pwm_duty, a level
  pace,        \* reg_led_breath_step, as the animation it was taken from
  pause,       \* reg_led_breath_delay, likewise
  \* The daemon.
  custom,      \* IS_LED_ALREADY_CUSTOM
  pc,          \* per caller, the next transaction of its call
  mode,        \* per caller, the argument of its call
  \* History, for the properties only.
  met,         \* callers whose call another call overlaps
  sound,       \* nothing set flag and bypass apart since a lone Auto
  last         \* the mode of the last call, if the ring must show it

ring    == <<bypass, manual, breathing, duty, pace, pause>>
history == <<met, sound, last>>
vars    == <<ring, custom, pc, mode, history>>

Labels == {"idle", "load", "bypass", "mux", "remember", "clear", "reset",
           "forget", "duty", "pace", "pause", "launch", "done"}

Goto(t, label) == pc' = [pc EXCEPT ![t] = label]

Active == {t \in Callers : pc[t] # "idle"}

(* The ring looks the way mode m wants it.                                 *)
Shows(m) ==
  /\ m = LedAuto   => ~bypass /\ ~breathing
  /\ m \in Levels  => bypass /\ manual /\ ~breathing /\ duty = m
  /\ m \in Anims   => bypass /\ manual /\ breathing /\ pace = m /\ pause = m

-----------------------------------------------------------------------------
(* A daemon starts with the flag down, on an EC in any state.              *)
Init ==
  /\ bypass \in BOOLEAN /\ manual \in BOOLEAN /\ breathing \in BOOLEAN
  /\ duty \in Levels /\ pace \in Anims /\ pause \in Anims
  /\ custom = FALSE
  /\ pc = [t \in Callers |-> "idle"]
  /\ mode = [t \in Callers |-> LedAuto]
  /\ met = {} /\ sound = TRUE /\ last = Unknown

Call(t) ==
  /\ pc[t] = "idle"
  /\ \E m \in Modes :
       /\ mode' = [mode EXCEPT ![t] = m]
       /\ Goto(t, IF m = LedAuto THEN "clear" ELSE "load")
       /\ sound' = (sound /\ \A u \in Active : mode[u] = LedAuto <=> m = LedAuto)
  /\ met' = IF Active = {} THEN {} ELSE met \cup Active \cup {t}
  /\ last' = Unknown
  /\ UNCHANGED <<ring, custom>>

(* Mutant of Load: a set flag is taken for "the engine is off already".    *)
LoadSkipsReset(t) ==
  /\ pc[t] = "load"
  /\ Goto(t, IF ~custom THEN "bypass" ELSE IF mode[t] \in Levels THEN "duty" ELSE "pace")
  /\ UNCHANGED <<ring, custom, mode, history>>

(* if !IS_LED_ALREADY_CUSTOM                                               *)
Load(t) ==
  /\ pc[t] = "load"
  /\ Goto(t, IF custom THEN "reset" ELSE "bypass")
  /\ UNCHANGED <<ring, custom, mode, history>>

SetBypass(t) ==
  /\ pc[t] = "bypass"
  /\ bypass' = TRUE
  /\ Goto(t, "mux")
  /\ UNCHANGED <<manual, breathing, duty, pace, pause, custom, mode, history>>

SetMux(t) ==
  /\ pc[t] = "mux"
  /\ manual' = TRUE
  /\ Goto(t, "remember")
  /\ UNCHANGED <<bypass, breathing, duty, pace, pause, custom, mode, history>>

Remember(t) ==
  /\ pc[t] = "remember"
  /\ custom' = TRUE
  /\ Goto(t, "reset")
  /\ UNCHANGED <<ring, mode, history>>

ClearBypass(t) ==
  /\ pc[t] = "clear"
  /\ bypass' = FALSE
  /\ Goto(t, "reset")
  /\ UNCHANGED <<manual, breathing, duty, pace, pause, custom, mode, history>>

(* Mutant of Reset: Auto falls through to the duty of a level.             *)
ResetFallsThrough(t) ==
  /\ pc[t] = "reset"
  /\ breathing' = FALSE
  /\ Goto(t, IF mode[t] \in Anims THEN "pace" ELSE "duty")
  /\ UNCHANGED <<bypass, manual, duty, pace, pause, custom, mode, history>>

(* reset_led_anim_engine(); the prescaler and the cycle time only ever get *)
(* one value.                                                              *)
Reset(t) ==
  /\ pc[t] = "reset"
  /\ breathing' = FALSE
  /\ Goto(t, IF mode[t] = LedAuto THEN "forget"
             ELSE IF mode[t] \in Levels THEN "duty" ELSE "pace")
  /\ UNCHANGED <<bypass, manual, duty, pace, pause, custom, mode, history>>

(* Mutant of Forget: the flag stays up after Auto.                         *)
ForgetNothing(t) ==
  /\ pc[t] = "forget"
  /\ Goto(t, "done")
  /\ UNCHANGED <<ring, custom, mode, history>>

Forget(t) ==
  /\ pc[t] = "forget"
  /\ custom' = FALSE
  /\ Goto(t, "done")
  /\ UNCHANGED <<ring, mode, history>>

SetDuty(t) ==
  /\ pc[t] = "duty"
  /\ duty' = mode[t]
  /\ Goto(t, "done")
  /\ UNCHANGED <<bypass, manual, breathing, pace, pause, custom, mode, history>>

SetPace(t) ==
  /\ pc[t] = "pace"
  /\ pace' = mode[t]
  /\ Goto(t, "pause")
  /\ UNCHANGED <<bypass, manual, breathing, duty, pause, custom, mode, history>>

SetPause(t) ==
  /\ pc[t] = "pause"
  /\ pause' = mode[t]
  /\ Goto(t, "launch")
  /\ UNCHANGED <<bypass, manual, breathing, duty, pace, custom, mode, history>>

Launch(t) ==
  /\ pc[t] = "launch"
  /\ breathing' = TRUE
  /\ Goto(t, "done")
  /\ UNCHANGED <<bypass, manual, duty, pace, pause, custom, mode, history>>

(* The call returns Ok.  An Auto that met nobody leaves flag and ring in   *)
(* agreement whatever they were before.                                    *)
Return(t) ==
  /\ pc[t] = "done"
  /\ Goto(t, "idle")
  /\ sound' = (sound \/ (mode[t] = LedAuto /\ t \notin met))
  /\ last' = IF sound' /\ t \notin met THEN mode[t] ELSE Unknown
  /\ met' = met \ {t}
  /\ UNCHANGED <<ring, custom, mode>>

(* The labels at which a call is about to use the EC.                      *)
Transactions == Labels \ {"idle", "load", "remember", "forget", "done"}

(* Port I/O fails: `?` leaves the rest of the call undone.  The batch of   *)
(* reset_led_anim_engine may have got past its first write.                *)
Fails(t) ==
  /\ "error" \in Mishaps
  /\ pc[t] \in Transactions
  /\ Goto(t, "idle")
  /\ breathing' \in IF pc[t] = "reset" THEN {breathing, FALSE} ELSE {breathing}
  /\ sound' = (sound /\ mode[t] # LedAuto)
  /\ last' = Unknown
  /\ met' = met \ {t}
  /\ UNCHANGED <<bypass, manual, duty, pace, pause, custom, mode>>

(* The daemon is restarted.                                                *)
Restart ==
  /\ "restart" \in Mishaps
  /\ pc' = [t \in Callers |-> "idle"]
  /\ mode' = [t \in Callers |-> LedAuto]
  /\ custom' = FALSE
  /\ met' = {} /\ sound' = TRUE /\ last' = Unknown
  /\ UNCHANGED ring

(* The EC restarts (a deep sleep, say) and drives the ring itself again.   *)
EcReset ==
  /\ "ec_reset" \in Mishaps
  /\ bypass' = FALSE /\ manual' = FALSE /\ breathing' = FALSE
  /\ sound' = FALSE /\ last' = Unknown
  /\ UNCHANGED <<duty, pace, pause, custom, pc, mode, met>>

(* apply_fan_mode of the CPU fan on a N155D, with any policy.              *)
FanIsSet ==
  /\ "fan" \in Mishaps
  /\ bypass' \in BOOLEAN
  /\ met' = Active
  /\ sound' = FALSE /\ last' = Unknown
  /\ UNCHANGED <<manual, breathing, duty, pace, pause, custom, pc, mode>>

Step(t) ==
  \/ Load(t) \/ SetBypass(t) \/ SetMux(t) \/ Remember(t) \/ ClearBypass(t)
  \/ Reset(t) \/ Forget(t) \/ SetDuty(t) \/ SetPace(t) \/ SetPause(t)
  \/ Launch(t) \/ Return(t)

Next ==
  \/ \E t \in Callers : Call(t) \/ Step(t) \/ Fails(t)
  \/ Restart
  \/ EcReset
  \/ FanIsSet

Spec == Init /\ [][Next]_vars

-----------------------------------------------------------------------------
(* Every variable has its type.                                            *)
TypeOK ==
  /\ bypass \in BOOLEAN /\ manual \in BOOLEAN /\ breathing \in BOOLEAN
  /\ duty \in Levels /\ pace \in Anims /\ pause \in Anims
  /\ custom \in BOOLEAN
  /\ pc \in [Callers -> Labels]
  /\ mode \in [Callers -> Modes]
  /\ met \subseteq Callers /\ sound \in BOOLEAN
  /\ last \in Modes \cup {Unknown}

(* The flag says the ring is bypassed only when it is, unless an Auto met  *)
(* another mode or failed, or the EC restarted, or the CPU fan of a N155D  *)
(* was set (fan.rs:23, offsets.rs:99, 135), and no Auto has run alone      *)
(* since: calls of other modes may overlap and fail (led.rs:18-45).        *)
FlagMeansBypassed ==
  sound /\ custom /\ (\A t \in Active : mode[t] # LedAuto) => bypass /\ manual

(* A call that met nobody and returned Ok makes the ring show its mode, on *)
(* the same condition, also after a restart of the daemon (led.rs:18-70).  *)
RingShowsLastMode == last # Unknown => Shows(last)

(* led.rs:27, "Set LED to custom brightness value": a Custom that met      *)
(* nobody and is about to return Ok has done that.                         *)
CustomIsShown ==
  \A t \in Callers \ met :
    pc[t] = "done" /\ mode[t] \in Levels => Shows(mode[t])
=============================================================================
