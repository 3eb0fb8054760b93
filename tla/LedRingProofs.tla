--------------------------- MODULE LedRingProofs ---------------------------
(***************************************************************************)
(* Proofs about LedRing, for any number of callers and any modes: the type *)
(* invariant, what the flag means, and what the ring shows.                *)
(***************************************************************************)
EXTENDS LedRing, TLAPS

-----------------------------------------------------------------------------
(* The inductive invariant.                                                *)

(* Each mode has its own labels.                                           *)
Role(t) ==
  /\ pc[t] \in {"clear", "forget"} => mode[t] = LedAuto
  /\ pc[t] \in {"load", "bypass", "mux", "remember"} => mode[t] # LedAuto
  /\ pc[t] = "duty" => mode[t] \in Levels
  /\ pc[t] \in {"pace", "pause", "launch"} => mode[t] \in Anims

(* Two calls in progress have met; and while the flag can be relied on,    *)
(* they are all Auto or none is.                                           *)
Meeting(t, u) ==
  pc[t] # "idle" /\ pc[u] # "idle" /\ t # u =>
    /\ t \in met
    /\ sound => (mode[t] = LedAuto <=> mode[u] = LedAuto)

(* The flag is up on a ring that is bypassed, unless an Auto is at work.   *)
Flag ==
  sound /\ custom =>
    (bypass /\ manual) \/ \E t \in Callers : pc[t] # "idle" /\ mode[t] = LedAuto

(* How far a call has got with bypass, multiplexer and flag.               *)
Switched(t) ==
  sound =>
    /\ pc[t] \in {"mux", "remember"} => bypass
    /\ pc[t] = "remember" => manual
    /\ pc[t] \in {"reset", "duty", "pace", "pause", "launch", "done"} =>
         (custom \/ mode[t] = LedAuto)
    /\ pc[t] = "done" /\ mode[t] = LedAuto => ~custom

(* What a call that meets nobody has done to the ring so far; an animation *)
(* that is running is only known to run if the EC did not restart.         *)
Painted(t) ==
  t \notin met =>
    /\ mode[t] = LedAuto =>
         /\ pc[t] \in {"reset", "forget", "done"} => ~bypass
         /\ pc[t] \in {"forget", "done"} => ~breathing
         /\ pc[t] = "done" => ~custom
    /\ mode[t] \in Levels =>
         /\ pc[t] \in {"duty", "done"} => ~breathing
         /\ pc[t] = "done" => duty = mode[t]
    /\ mode[t] \in Anims =>
         /\ pc[t] \in {"pause", "launch", "done"} => pace = mode[t]
         /\ pc[t] \in {"launch", "done"} => pause = mode[t]
         /\ pc[t] = "done" /\ sound => breathing

Roles    == \A t \in Callers : Role(t)
Meetings == \A t, u \in Callers : Meeting(t, u)
Progress == \A t \in Callers : Switched(t)
Lone     == \A t \in Callers : Painted(t)

(* The ring shows the last mode only between two calls.                    *)
Shown ==
  last # Unknown => Shows(last) /\ \A t \in Callers : pc[t] = "idle"

IInv == TypeOK /\ Roles /\ Meetings /\ Flag /\ Progress /\ Lone /\ Shown

-----------------------------------------------------------------------------
USE DEF TypeOK, Labels, Modes, Goto, vars, ring, history

LEMMA InitInv == Init => IInv
  BY ModesAssumption
  DEF Init, IInv, Roles, Role, Meetings, Meeting, Flag, Progress, Switched, Lone,
      Painted, Shown

(* What the invariant says of one or two calls.                            *)
LEMMA OneCall ==
  ASSUME IInv, NEW t \in Callers
  PROVE  TypeOK /\ Role(t) /\ Switched(t) /\ Painted(t) /\ Flag /\ Shown
  BY DEF IInv, Roles, Progress, Lone

LEMMA TwoCalls ==
  ASSUME IInv, NEW t \in Callers, NEW u \in Callers
  PROVE  Meeting(t, u) /\ Meeting(u, t)
  BY DEF IInv, Meetings

(* The parts, put together again.                                          *)
LEMMA Together ==
  ASSUME TypeOK', Flag', Shown',
         \A u \in Callers : Role(u)' /\ Switched(u)' /\ Painted(u)',
         \A u, w \in Callers : Meeting(u, w)'
  PROVE  IInv'
  BY DEF IInv, Roles, Progress, Lone, Meetings

LEMMA StepInv == ASSUME IInv, NEW t \in Callers, Step(t) PROVE IInv'
  <1>1. TypeOK /\ Role(t) /\ Switched(t) /\ Painted(t) /\ Flag /\ Shown BY OneCall
  <1>2. \A u \in Callers : Role(u) /\ Switched(u) /\ Painted(u) BY OneCall
  <1>3. \A u \in Callers : Meeting(t, u) /\ Meeting(u, t) BY TwoCalls
  <1>4. \A u, w \in Callers : Meeting(u, w) BY TwoCalls
  <1>5. CASE Load(t)
    <2>1. TypeOK' BY <1>5, <1>1 DEF Load
    <2>2. Flag' BY <1>5, <1>1, <1>3 DEF Load, Flag, Role, Switched, Painted
    <2>3. Shown' BY <1>5, <1>1 DEF Load, Shown
    <2>4. ASSUME NEW u \in Callers PROVE Role(u)' /\ Switched(u)' /\ Painted(u)'
      <3>1. CASE u = t
        <4>1. Role(t)' BY <1>5, <1>1, ModesAssumption DEF Load, Role, Switched, Painted
        <4>2. Switched(t)' BY <1>5, <1>1, ModesAssumption DEF Load, Role, Switched, Painted
        <4>3. Painted(t)' BY <1>5, <1>1, ModesAssumption DEF Load, Role, Switched, Painted
        <4>. QED BY <3>1, <4>1, <4>2, <4>3
      <3>2. CASE u # t
        <4>1. Role(u)' BY <1>5, <3>2, <2>4, <1>1, <1>2, <1>3 DEF Load, Role
        <4>2. Switched(u)' BY <1>5, <3>2, <2>4, <1>1, <1>2, <1>3 DEF Load, Role, Switched, Meeting
        <4>3. Painted(u)' BY <1>5, <3>2, <2>4, <1>1, <1>2, <1>3 DEF Load, Role, Painted, Meeting
        <4>. QED BY <4>1, <4>2, <4>3
      <3>. QED BY <3>1, <3>2
    <2>5. ASSUME NEW u \in Callers, NEW w \in Callers PROVE Meeting(u, w)'
      BY <1>5, <2>5, <1>1, <1>4 DEF Load, Meeting
    <2>. QED BY <2>1, <2>2, <2>3, <2>4, <2>5, Together
  <1>6. CASE SetBypass(t)
    <2>1. TypeOK' BY <1>6, <1>1 DEF SetBypass
    <2>2. Flag' BY <1>6, <1>1, <1>3 DEF SetBypass, Flag, Role, Switched, Painted
    <2>3. Shown' BY <1>6, <1>1 DEF SetBypass, Shown
    <2>4. ASSUME NEW u \in Callers PROVE Role(u)' /\ Switched(u)' /\ Painted(u)'
      <3>1. CASE u = t
        <4>1. Role(t)' BY <1>6, <1>1, ModesAssumption DEF SetBypass, Role, Switched, Painted
        <4>2. Switched(t)' BY <1>6, <1>1, ModesAssumption DEF SetBypass, Role, Switched, Painted
        <4>3. Painted(t)' BY <1>6, <1>1, ModesAssumption DEF SetBypass, Role, Switched, Painted
        <4>. QED BY <3>1, <4>1, <4>2, <4>3
      <3>2. CASE u # t
        <4>1. Role(u)' BY <1>6, <3>2, <2>4, <1>1, <1>2, <1>3 DEF SetBypass, Role
        <4>2. Switched(u)' BY <1>6, <3>2, <2>4, <1>1, <1>2, <1>3 DEF SetBypass, Role, Switched, Meeting
        <4>3. Painted(u)' BY <1>6, <3>2, <2>4, <1>1, <1>2, <1>3 DEF SetBypass, Role, Painted, Meeting
        <4>. QED BY <4>1, <4>2, <4>3
      <3>. QED BY <3>1, <3>2
    <2>5. ASSUME NEW u \in Callers, NEW w \in Callers PROVE Meeting(u, w)'
      BY <1>6, <2>5, <1>1, <1>4 DEF SetBypass, Meeting
    <2>. QED BY <2>1, <2>2, <2>3, <2>4, <2>5, Together
  <1>7. CASE SetMux(t)
    <2>1. TypeOK' BY <1>7, <1>1 DEF SetMux
    <2>2. Flag' BY <1>7, <1>1, <1>3 DEF SetMux, Flag, Role, Switched, Painted
    <2>3. Shown' BY <1>7, <1>1 DEF SetMux, Shown
    <2>4. ASSUME NEW u \in Callers PROVE Role(u)' /\ Switched(u)' /\ Painted(u)'
      <3>1. CASE u = t
        <4>1. Role(t)' BY <1>7, <1>1, ModesAssumption DEF SetMux, Role, Switched, Painted
        <4>2. Switched(t)' BY <1>7, <1>1, ModesAssumption DEF SetMux, Role, Switched, Painted
        <4>3. Painted(t)' BY <1>7, <1>1, ModesAssumption DEF SetMux, Role, Switched, Painted
        <4>. QED BY <3>1, <4>1, <4>2, <4>3
      <3>2. CASE u # t
        <4>1. Role(u)' BY <1>7, <3>2, <2>4, <1>1, <1>2, <1>3 DEF SetMux, Role
        <4>2. Switched(u)' BY <1>7, <3>2, <2>4, <1>1, <1>2, <1>3 DEF SetMux, Role, Switched, Meeting
        <4>3. Painted(u)' BY <1>7, <3>2, <2>4, <1>1, <1>2, <1>3 DEF SetMux, Role, Painted, Meeting
        <4>. QED BY <4>1, <4>2, <4>3
      <3>. QED BY <3>1, <3>2
    <2>5. ASSUME NEW u \in Callers, NEW w \in Callers PROVE Meeting(u, w)'
      BY <1>7, <2>5, <1>1, <1>4 DEF SetMux, Meeting
    <2>. QED BY <2>1, <2>2, <2>3, <2>4, <2>5, Together
  <1>8. CASE Remember(t)
    <2>1. TypeOK' BY <1>8, <1>1 DEF Remember
    <2>2. Flag' BY <1>8, <1>1, <1>3 DEF Remember, Flag, Role, Switched, Painted
    <2>3. Shown' BY <1>8, <1>1 DEF Remember, Shown
    <2>4. ASSUME NEW u \in Callers PROVE Role(u)' /\ Switched(u)' /\ Painted(u)'
      <3>1. CASE u = t
        <4>1. Role(t)' BY <1>8, <1>1, ModesAssumption DEF Remember, Role, Switched, Painted
        <4>2. Switched(t)' BY <1>8, <1>1, ModesAssumption DEF Remember, Role, Switched, Painted
        <4>3. Painted(t)' BY <1>8, <1>1, ModesAssumption DEF Remember, Role, Switched, Painted
        <4>. QED BY <3>1, <4>1, <4>2, <4>3
      <3>2. CASE u # t
        <4>1. Role(u)' BY <1>8, <3>2, <2>4, <1>1, <1>2, <1>3 DEF Remember, Role
        <4>2. Switched(u)' BY <1>8, <3>2, <2>4, <1>1, <1>2, <1>3 DEF Remember, Role, Switched, Meeting
        <4>3. Painted(u)' BY <1>8, <3>2, <2>4, <1>1, <1>2, <1>3 DEF Remember, Role, Painted, Meeting
        <4>. QED BY <4>1, <4>2, <4>3
      <3>. QED BY <3>1, <3>2
    <2>5. ASSUME NEW u \in Callers, NEW w \in Callers PROVE Meeting(u, w)'
      BY <1>8, <2>5, <1>1, <1>4 DEF Remember, Meeting
    <2>. QED BY <2>1, <2>2, <2>3, <2>4, <2>5, Together
  <1>9. CASE ClearBypass(t)
    <2>1. TypeOK' BY <1>9, <1>1 DEF ClearBypass
    <2>2. Flag' BY <1>9, <1>1, <1>3 DEF ClearBypass, Flag, Role, Switched, Painted
    <2>3. Shown' BY <1>9, <1>1 DEF ClearBypass, Shown
    <2>4. ASSUME NEW u \in Callers PROVE Role(u)' /\ Switched(u)' /\ Painted(u)'
      <3>1. CASE u = t
        <4>1. Role(t)' BY <1>9, <1>1, ModesAssumption DEF ClearBypass, Role, Switched, Painted
        <4>2. Switched(t)' BY <1>9, <1>1, ModesAssumption DEF ClearBypass, Role, Switched, Painted
        <4>3. Painted(t)' BY <1>9, <1>1, ModesAssumption DEF ClearBypass, Role, Switched, Painted
        <4>. QED BY <3>1, <4>1, <4>2, <4>3
      <3>2. CASE u # t
        <4>1. Role(u)' BY <1>9, <3>2, <2>4, <1>1, <1>2, <1>3 DEF ClearBypass, Role
        <4>2. Switched(u)' BY <1>9, <3>2, <2>4, <1>1, <1>2, <1>3 DEF ClearBypass, Role, Switched, Meeting
        <4>3. Painted(u)' BY <1>9, <3>2, <2>4, <1>1, <1>2, <1>3 DEF ClearBypass, Role, Painted, Meeting
        <4>. QED BY <4>1, <4>2, <4>3
      <3>. QED BY <3>1, <3>2
    <2>5. ASSUME NEW u \in Callers, NEW w \in Callers PROVE Meeting(u, w)'
      BY <1>9, <2>5, <1>1, <1>4 DEF ClearBypass, Meeting
    <2>. QED BY <2>1, <2>2, <2>3, <2>4, <2>5, Together
  <1>10. CASE Reset(t)
    <2>1. TypeOK' BY <1>10, <1>1 DEF Reset
    <2>2. Flag' BY <1>10, <1>1, <1>3 DEF Reset, Flag, Role, Switched, Painted
    <2>3. Shown' BY <1>10, <1>1 DEF Reset, Shown
    <2>4. ASSUME NEW u \in Callers PROVE Role(u)' /\ Switched(u)' /\ Painted(u)'
      <3>1. CASE u = t
        <4>1. Role(t)'
          <5>0. mode' = mode /\ pc \in [Callers -> Labels] /\ mode[t] \in Modes
            BY <1>10, <1>1 DEF Reset
          <5>1. CASE mode[t] = LedAuto BY <5>0, <5>1, <1>10, ModesAssumption DEF Reset, Role
          <5>2. CASE mode[t] \in Levels
            BY <5>0, <5>2, <1>10, ModesAssumption DEF Reset, Role
          <5>3. CASE mode[t] \in Anims
            BY <5>0, <5>3, <1>10, ModesAssumption DEF Reset, Role
          <5>4. mode[t] = LedAuto \/ mode[t] \in Levels \/ mode[t] \in Anims BY <5>0
          <5>. QED BY <5>1, <5>2, <5>3, <5>4
        <4>2. Switched(t)' BY <1>10, <1>1, ModesAssumption DEF Reset, Role, Switched, Painted
        <4>3. Painted(t)' BY <1>10, <1>1, ModesAssumption DEF Reset, Role, Switched, Painted
        <4>. QED BY <3>1, <4>1, <4>2, <4>3
      <3>2. CASE u # t
        <4>1. Role(u)' BY <1>10, <3>2, <2>4, <1>1, <1>2, <1>3 DEF Reset, Role
        <4>2. Switched(u)' BY <1>10, <3>2, <2>4, <1>1, <1>2, <1>3 DEF Reset, Role, Switched, Meeting
        <4>3. Painted(u)' BY <1>10, <3>2, <2>4, <1>1, <1>2, <1>3 DEF Reset, Role, Painted, Meeting
        <4>. QED BY <4>1, <4>2, <4>3
      <3>. QED BY <3>1, <3>2
    <2>5. ASSUME NEW u \in Callers, NEW w \in Callers PROVE Meeting(u, w)'
      BY <1>10, <2>5, <1>1, <1>4 DEF Reset, Meeting
    <2>. QED BY <2>1, <2>2, <2>3, <2>4, <2>5, Together
  <1>11. CASE Forget(t)
    <2>1. TypeOK' BY <1>11, <1>1 DEF Forget
    <2>2. Flag' BY <1>11, <1>1, <1>3 DEF Forget, Flag, Role, Switched, Painted
    <2>3. Shown' BY <1>11, <1>1 DEF Forget, Shown
    <2>4. ASSUME NEW u \in Callers PROVE Role(u)' /\ Switched(u)' /\ Painted(u)'
      <3>1. CASE u = t
        <4>1. Role(t)' BY <1>11, <1>1, ModesAssumption DEF Forget, Role, Switched, Painted
        <4>2. Switched(t)' BY <1>11, <1>1, ModesAssumption DEF Forget, Role, Switched, Painted
        <4>3. Painted(t)'
          <5>1. mode[t] = LedAuto /\ mode' = mode /\ met' = met /\ ~custom'
            BY <1>11, <1>1 DEF Forget, Role
          <5>2. t \notin met => ~bypass /\ ~breathing
            BY <1>11, <1>1, <5>1 DEF Forget, Painted
          <5>3. (bypass' => bypass) /\ (breathing' => breathing) BY <1>11 DEF Forget
          <5>. QED BY <5>1, <5>2, <5>3, ModesAssumption DEF Painted
        <4>. QED BY <3>1, <4>1, <4>2, <4>3
      <3>2. CASE u # t
        <4>1. Role(u)' BY <1>11, <3>2, <2>4, <1>1, <1>2, <1>3 DEF Forget, Role
        <4>2. Switched(u)' BY <1>11, <3>2, <2>4, <1>1, <1>2, <1>3 DEF Forget, Role, Switched, Meeting
        <4>3. Painted(u)' BY <1>11, <3>2, <2>4, <1>1, <1>2, <1>3 DEF Forget, Role, Painted, Meeting
        <4>. QED BY <4>1, <4>2, <4>3
      <3>. QED BY <3>1, <3>2
    <2>5. ASSUME NEW u \in Callers, NEW w \in Callers PROVE Meeting(u, w)'
      BY <1>11, <2>5, <1>1, <1>4 DEF Forget, Meeting
    <2>. QED BY <2>1, <2>2, <2>3, <2>4, <2>5, Together
  <1>12. CASE SetDuty(t)
    <2>1. TypeOK' BY <1>12, <1>1 DEF SetDuty, Role
    <2>2. Flag' BY <1>12, <1>1, <1>3 DEF SetDuty, Flag, Role, Switched, Painted
    <2>3. Shown' BY <1>12, <1>1 DEF SetDuty, Shown
    <2>4. ASSUME NEW u \in Callers PROVE Role(u)' /\ Switched(u)' /\ Painted(u)'
      <3>1. CASE u = t
        <4>1. Role(t)' BY <1>12, <1>1, ModesAssumption DEF SetDuty, Role, Switched, Painted
        <4>0. /\ mode[t] \in Levels /\ mode[t] # LedAuto /\ mode' = mode /\ pc'[t] = "done"
              /\ (custom => custom') /\ (sound' => sound)
          BY <1>12, <1>1, ModesAssumption DEF SetDuty, Role
        <4>2. Switched(t)'
          <5>1. sound => custom BY <1>12, <1>1, <4>0 DEF SetDuty, Switched
          <5>. QED BY <4>0, <5>1 DEF Switched
        <4>3. Painted(t)'
          <5>1. /\ met' = met /\ (breathing' => breathing) /\ duty' = mode[t]
                /\ t \notin met => ~breathing
            BY <1>12, <1>1, <4>0 DEF SetDuty, Painted
          <5>. QED BY <4>0, <5>1, ModesAssumption DEF Painted
        <4>. QED BY <3>1, <4>1, <4>2, <4>3
      <3>2. CASE u # t
        <4>1. Role(u)' BY <1>12, <3>2, <2>4, <1>1, <1>2, <1>3 DEF SetDuty, Role
        <4>2. Switched(u)' BY <1>12, <3>2, <2>4, <1>1, <1>2, <1>3 DEF SetDuty, Role, Switched, Meeting
        <4>3. Painted(u)' BY <1>12, <3>2, <2>4, <1>1, <1>2, <1>3 DEF SetDuty, Role, Painted, Meeting
        <4>. QED BY <4>1, <4>2, <4>3
      <3>. QED BY <3>1, <3>2
    <2>5. ASSUME NEW u \in Callers, NEW w \in Callers PROVE Meeting(u, w)'
      BY <1>12, <2>5, <1>1, <1>4 DEF SetDuty, Meeting
    <2>. QED BY <2>1, <2>2, <2>3, <2>4, <2>5, Together
  <1>13. CASE SetPace(t)
    <2>1. TypeOK' BY <1>13, <1>1 DEF SetPace, Role
    <2>2. Flag' BY <1>13, <1>1, <1>3 DEF SetPace, Flag, Role, Switched, Painted
    <2>3. Shown' BY <1>13, <1>1 DEF SetPace, Shown
    <2>4. ASSUME NEW u \in Callers PROVE Role(u)' /\ Switched(u)' /\ Painted(u)'
      <3>1. CASE u = t
        <4>1. Role(t)' BY <1>13, <1>1, ModesAssumption DEF SetPace, Role, Switched, Painted
        <4>2. Switched(t)' BY <1>13, <1>1, ModesAssumption DEF SetPace, Role, Switched, Painted
        <4>3. Painted(t)' BY <1>13, <1>1, ModesAssumption DEF SetPace, Role, Switched, Painted
        <4>. QED BY <3>1, <4>1, <4>2, <4>3
      <3>2. CASE u # t
        <4>1. Role(u)' BY <1>13, <3>2, <2>4, <1>1, <1>2, <1>3 DEF SetPace, Role
        <4>2. Switched(u)' BY <1>13, <3>2, <2>4, <1>1, <1>2, <1>3 DEF SetPace, Role, Switched, Meeting
        <4>3. Painted(u)' BY <1>13, <3>2, <2>4, <1>1, <1>2, <1>3 DEF SetPace, Role, Painted, Meeting
        <4>. QED BY <4>1, <4>2, <4>3
      <3>. QED BY <3>1, <3>2
    <2>5. ASSUME NEW u \in Callers, NEW w \in Callers PROVE Meeting(u, w)'
      BY <1>13, <2>5, <1>1, <1>4 DEF SetPace, Meeting
    <2>. QED BY <2>1, <2>2, <2>3, <2>4, <2>5, Together
  <1>14. CASE SetPause(t)
    <2>1. TypeOK' BY <1>14, <1>1 DEF SetPause, Role
    <2>2. Flag' BY <1>14, <1>1, <1>3 DEF SetPause, Flag, Role, Switched, Painted
    <2>3. Shown' BY <1>14, <1>1 DEF SetPause, Shown
    <2>4. ASSUME NEW u \in Callers PROVE Role(u)' /\ Switched(u)' /\ Painted(u)'
      <3>1. CASE u = t
        <4>1. Role(t)' BY <1>14, <1>1, ModesAssumption DEF SetPause, Role, Switched, Painted
        <4>2. Switched(t)' BY <1>14, <1>1, ModesAssumption DEF SetPause, Role, Switched, Painted
        <4>3. Painted(t)' BY <1>14, <1>1, ModesAssumption DEF SetPause, Role, Switched, Painted
        <4>. QED BY <3>1, <4>1, <4>2, <4>3
      <3>2. CASE u # t
        <4>1. Role(u)' BY <1>14, <3>2, <2>4, <1>1, <1>2, <1>3 DEF SetPause, Role
        <4>2. Switched(u)' BY <1>14, <3>2, <2>4, <1>1, <1>2, <1>3 DEF SetPause, Role, Switched, Meeting
        <4>3. Painted(u)' BY <1>14, <3>2, <2>4, <1>1, <1>2, <1>3 DEF SetPause, Role, Painted, Meeting
        <4>. QED BY <4>1, <4>2, <4>3
      <3>. QED BY <3>1, <3>2
    <2>5. ASSUME NEW u \in Callers, NEW w \in Callers PROVE Meeting(u, w)'
      BY <1>14, <2>5, <1>1, <1>4 DEF SetPause, Meeting
    <2>. QED BY <2>1, <2>2, <2>3, <2>4, <2>5, Together
  <1>15. CASE Launch(t)
    <2>1. TypeOK' BY <1>15, <1>1 DEF Launch
    <2>2. Flag' BY <1>15, <1>1, <1>3 DEF Launch, Flag, Role, Switched, Painted
    <2>3. Shown' BY <1>15, <1>1 DEF Launch, Shown
    <2>4. ASSUME NEW u \in Callers PROVE Role(u)' /\ Switched(u)' /\ Painted(u)'
      <3>1. CASE u = t
        <4>1. Role(t)' BY <1>15, <1>1, ModesAssumption DEF Launch, Role, Switched, Painted
        <4>0. /\ mode[t] \in Anims /\ mode[t] # LedAuto /\ mode' = mode /\ pc'[t] = "done"
              /\ (custom => custom') /\ (sound' => sound)
          BY <1>15, <1>1, ModesAssumption DEF Launch, Role
        <4>2. Switched(t)'
          <5>1. sound => custom BY <1>15, <1>1, <4>0 DEF Launch, Switched
          <5>. QED BY <4>0, <5>1 DEF Switched
        <4>3. Painted(t)'
          <5>1. /\ met' = met /\ breathing' /\ pace' = pace /\ pause' = pause
                /\ t \notin met => pace = mode[t] /\ pause = mode[t]
            BY <1>15, <1>1, <4>0 DEF Launch, Painted
          <5>. QED BY <4>0, <5>1, ModesAssumption DEF Painted
        <4>. QED BY <3>1, <4>1, <4>2, <4>3
      <3>2. CASE u # t
        <4>1. Role(u)' BY <1>15, <3>2, <2>4, <1>1, <1>2, <1>3 DEF Launch, Role
        <4>2. Switched(u)' BY <1>15, <3>2, <2>4, <1>1, <1>2, <1>3 DEF Launch, Role, Switched, Meeting
        <4>3. Painted(u)' BY <1>15, <3>2, <2>4, <1>1, <1>2, <1>3 DEF Launch, Role, Painted, Meeting
        <4>. QED BY <4>1, <4>2, <4>3
      <3>. QED BY <3>1, <3>2
    <2>5. ASSUME NEW u \in Callers, NEW w \in Callers PROVE Meeting(u, w)'
      BY <1>15, <2>5, <1>1, <1>4 DEF Launch, Meeting
    <2>. QED BY <2>1, <2>2, <2>3, <2>4, <2>5, Together
  <1>16. CASE Return(t)
    <2>1. TypeOK' BY <1>16, <1>1 DEF Return
    <2>2. Flag'
      <3>0. /\ (bypass => bypass') /\ (manual => manual')
            /\ (custom' => custom) /\ mode' = mode
            /\ pc[t] = "done" /\ pc' = [pc EXCEPT ![t] = "idle"]
        BY <1>16 DEF Return
      <3>1. CASE mode[t] = LedAuto
        <4>1. sound \/ t \notin met => ~custom BY <1>1, <3>0, <3>1 DEF Switched, Painted
        <4>2. sound' => sound \/ t \notin met BY <1>16 DEF Return
        <4>. QED BY <3>0, <4>1, <4>2 DEF Flag
      <3>2. CASE mode[t] # LedAuto
        <4>1. sound' => sound BY <1>16, <1>1, <3>2 DEF Return
        <4>2. CASE bypass /\ manual BY <3>0, <4>2 DEF Flag
        <4>3. ASSUME NEW u \in Callers, pc[u] # "idle", mode[u] = LedAuto PROVE Flag'
          <5>1. u # t BY <4>3, <3>2
          <5>2. pc'[u] # "idle" /\ mode'[u] = LedAuto BY <5>1, <4>3, <3>0, <1>1
          <5>. QED BY <5>2 DEF Flag
        <4>. QED BY <1>1, <3>0, <4>1, <4>2, <4>3 DEF Flag
      <3>. QED BY <3>1, <3>2
    <2>3. Shown'
      <3>0. /\ (bypass <=> bypass') /\ (manual <=> manual') /\ (breathing <=> breathing')
            /\ duty' = duty /\ pace' = pace /\ pause' = pause
            /\ pc[t] = "done" /\ pc' = [pc EXCEPT ![t] = "idle"]
            /\ last' = IF sound' /\ t \notin met THEN mode[t] ELSE Unknown
        BY <1>16 DEF Return
      <3>. SUFFICES ASSUME sound', t \notin met PROVE Shown'
        BY <3>0 DEF Shown
      <3>1. \A u \in Callers : u # t => pc[u] = "idle"
        BY <1>3, <3>0 DEF Meeting
      <3>2. \A u \in Callers : pc'[u] = "idle" BY <3>0, <3>1, <1>1
      <3>3. mode[t] \in Modes /\ last' = mode[t] BY <1>1, <3>0
      <3>4. CASE mode[t] = LedAuto
        <4>1. ~bypass /\ ~breathing BY <1>1, <3>0, <3>4 DEF Painted
        <4>. QED BY <4>1, <3>0, <3>2, <3>3, <3>4, ModesAssumption DEF Shown, Shows
      <3>5. CASE mode[t] # LedAuto
        <4>1. sound BY <1>16, <3>5 DEF Return
        <4>2. custom BY <4>1, <3>0, <3>5, <1>1 DEF Switched
        <4>3. ASSUME NEW u \in Callers, pc[u] # "idle" PROVE mode[u] # LedAuto
          BY <4>3, <3>1, <3>5
        <4>4. bypass /\ manual BY <4>1, <4>2, <4>3, <1>1 DEF Flag
        <4>5. CASE mode[t] \in Levels
          <5>1. ~breathing /\ duty = mode[t] BY <1>1, <3>0, <4>5 DEF Painted
          <5>. QED BY <5>1, <4>4, <4>5, <3>0, <3>2, <3>3, ModesAssumption DEF Shown, Shows
        <4>6. CASE mode[t] \in Anims
          <5>1. breathing /\ pace = mode[t] /\ pause = mode[t]
            BY <1>1, <3>0, <4>1, <4>6 DEF Painted
          <5>. QED BY <5>1, <4>4, <4>6, <3>0, <3>2, <3>3, ModesAssumption DEF Shown, Shows
        <4>7. mode[t] \in Levels \/ mode[t] \in Anims BY <3>3, <3>5
        <4>. QED BY <4>5, <4>6, <4>7
      <3>. QED BY <3>4, <3>5
    <2>4. ASSUME NEW u \in Callers PROVE Role(u)' /\ Switched(u)' /\ Painted(u)'
      <3>1. CASE u = t
        <4>1. Role(t)' BY <1>16, <1>1, ModesAssumption DEF Return, Role, Switched, Painted
        <4>2. Switched(t)' BY <1>16, <1>1, ModesAssumption DEF Return, Role, Switched, Painted
        <4>3. Painted(t)' BY <1>16, <1>1, ModesAssumption DEF Return, Role, Switched, Painted
        <4>. QED BY <3>1, <4>1, <4>2, <4>3
      <3>2. CASE u # t
        <4>1. Role(u)' BY <1>16, <3>2, <2>4, <1>1, <1>2, <1>3 DEF Return, Role
        <4>2. Switched(u)' BY <1>16, <3>2, <2>4, <1>1, <1>2, <1>3 DEF Return, Role, Switched, Meeting
        <4>3. Painted(u)' BY <1>16, <3>2, <2>4, <1>1, <1>2, <1>3 DEF Return, Role, Painted, Meeting
        <4>. QED BY <4>1, <4>2, <4>3
      <3>. QED BY <3>1, <3>2
    <2>5. ASSUME NEW u \in Callers, NEW w \in Callers PROVE Meeting(u, w)'
      BY <1>16, <2>5, <1>1, <1>4 DEF Return, Meeting
    <2>. QED BY <2>1, <2>2, <2>3, <2>4, <2>5, Together
  <1>. QED BY <1>5, <1>6, <1>7, <1>8, <1>9, <1>10, <1>11, <1>12, <1>13, <1>14, <1>15, <1>16 DEF Step

LEMMA CallInv == ASSUME IInv, NEW t \in Callers, Call(t) PROVE IInv'
  <1>1. TypeOK /\ Role(t) /\ Switched(t) /\ Painted(t) /\ Flag /\ Shown BY OneCall
  <1>2. \A u \in Callers : Role(u) /\ Switched(u) /\ Painted(u) BY OneCall
  <1>3. \A u \in Callers : Meeting(t, u) /\ Meeting(u, t) BY TwoCalls
  <1>4. \A u, w \in Callers : Meeting(u, w) BY TwoCalls
  <1>5. Call(t) OBVIOUS
  <1>6. IInv'
    <2>1. TypeOK' BY <1>5, <1>1 DEF Call, Active
    <2>2. Flag' BY <1>5, <1>1, <1>3 DEF Call, Active, Flag, Role, Switched, Painted
    <2>3. Shown' BY <1>5, <1>1 DEF Call, Active, Shown
    <2>4. ASSUME NEW u \in Callers PROVE Role(u)' /\ Switched(u)' /\ Painted(u)'
      <3>1. CASE u = t
        <4>1. Role(t)'
          <5>1. PICK m \in Modes : /\ mode' = [mode EXCEPT ![t] = m]
                                   /\ pc' = [pc EXCEPT ![t] = IF m = LedAuto THEN "clear"
                                                              ELSE "load"]
            BY <1>5 DEF Call
          <5>2. CASE m = LedAuto BY <5>1, <5>2, <1>1 DEF Role
          <5>3. CASE m # LedAuto BY <5>1, <5>3, <1>1 DEF Role
          <5>. QED BY <5>2, <5>3
        <4>2. Switched(t)' BY <1>5, <1>1, ModesAssumption DEF Call, Active, Role, Switched, Painted
        <4>3. Painted(t)' BY <1>5, <1>1, ModesAssumption DEF Call, Active, Role, Switched, Painted
        <4>. QED BY <3>1, <4>1, <4>2, <4>3
      <3>2. CASE u # t
        <4>1. Role(u)' BY <1>5, <3>2, <2>4, <1>1, <1>2, <1>3 DEF Call, Active, Role
        <4>2. Switched(u)'
          <5>1. /\ pc'[u] = pc[u] /\ mode'[u] = mode[u] /\ (sound' => sound)
                /\ (bypass => bypass') /\ (manual => manual') /\ (custom <=> custom')
            BY <1>5, <1>1, <2>4, <3>2 DEF Call
          <5>. QED BY <5>1, <1>2, <2>4 DEF Switched
        <4>3. Painted(u)' BY <1>5, <3>2, <2>4, <1>1, <1>2, <1>3 DEF Call, Active, Role, Painted, Meeting
        <4>. QED BY <4>1, <4>2, <4>3
      <3>. QED BY <3>1, <3>2
    <2>5. ASSUME NEW u \in Callers, NEW w \in Callers PROVE Meeting(u, w)'
      <3>1. PICK m \in Modes :
              /\ mode' = [mode EXCEPT ![t] = m]
              /\ pc' = [pc EXCEPT ![t] = IF m = LedAuto THEN "clear" ELSE "load"]
              /\ sound' = (sound /\ \A v \in Active : mode[v] = LedAuto <=> m = LedAuto)
        BY <1>5 DEF Call
      <3>2. /\ \A v \in Callers : v # t => pc'[v] = pc[v] /\ mode'[v] = mode[v]
            /\ mode'[t] = m
        BY <3>1, <1>1
      <3>3. \A v \in Callers : pc[v] # "idle" => met' = met \cup Active \cup {t}
        BY <1>5 DEF Call, Active
      <3>4. sound' => sound /\ \A v \in Callers : pc[v] # "idle" =>
                                 (mode[v] = LedAuto <=> m = LedAuto)
        BY <3>1 DEF Active
      <3>5. Meeting(u, w) BY <1>4, <2>5
      <3>6. CASE u # t /\ w # t BY <3>2, <3>3, <3>4, <3>5, <3>6, <2>5 DEF Meeting, Active
      <3>7. CASE u = t /\ w # t BY <3>2, <3>3, <3>4, <3>7, <2>5 DEF Meeting, Active
      <3>8. CASE u # t /\ w = t BY <3>2, <3>3, <3>4, <3>8, <2>5 DEF Meeting, Active
      <3>9. CASE u = w BY <3>9 DEF Meeting
      <3>. QED BY <3>6, <3>7, <3>8, <3>9
    <2>. QED BY <2>1, <2>2, <2>3, <2>4, <2>5, Together
  <1>. QED BY <1>6

LEMMA FailsInv == ASSUME IInv, NEW t \in Callers, Fails(t) PROVE IInv'
  <1>1. TypeOK /\ Role(t) /\ Switched(t) /\ Painted(t) /\ Flag /\ Shown BY OneCall
  <1>2. \A u \in Callers : Role(u) /\ Switched(u) /\ Painted(u) BY OneCall
  <1>3. \A u \in Callers : Meeting(t, u) /\ Meeting(u, t) BY TwoCalls
  <1>4. \A u, w \in Callers : Meeting(u, w) BY TwoCalls
  <1>5. Fails(t) OBVIOUS
  <1>6. IInv'
    <2>1. TypeOK' BY <1>5, <1>1 DEF Fails, Transactions
    <2>2. Flag'
      <3>0. /\ (bypass => bypass') /\ (manual => manual')
            /\ (custom' => custom) /\ mode' = mode
            /\ pc' = [pc EXCEPT ![t] = "idle"]
        BY <1>5 DEF Fails
      <3>4. sound' => sound /\ mode[t] # LedAuto BY <1>5 DEF Fails
      <3>1. CASE bypass /\ manual BY <3>0, <3>1 DEF Flag
      <3>2. ASSUME NEW u \in Callers, pc[u] # "idle", mode[u] = LedAuto, sound' PROVE Flag'
        <4>1. pc'[u] # "idle" /\ mode'[u] = LedAuto BY <3>0, <3>2, <3>4, <1>1
        <4>. QED BY <4>1 DEF Flag
      <3>. QED BY <1>1, <3>0, <3>1, <3>2, <3>4 DEF Flag
    <2>3. Shown' BY <1>5, <1>1 DEF Fails, Transactions, Shown
    <2>4. ASSUME NEW u \in Callers PROVE Role(u)' /\ Switched(u)' /\ Painted(u)'
      <3>1. CASE u = t
        <4>1. Role(t)' BY <1>5, <1>1, ModesAssumption DEF Fails, Transactions, Role, Switched, Painted
        <4>2. Switched(t)' BY <1>5, <1>1, ModesAssumption DEF Fails, Transactions, Role, Switched, Painted
        <4>3. Painted(t)' BY <1>5, <1>1, ModesAssumption DEF Fails, Transactions, Role, Switched, Painted
        <4>. QED BY <3>1, <4>1, <4>2, <4>3
      <3>2. CASE u # t
        <4>1. Role(u)' BY <1>5, <3>2, <2>4, <1>1, <1>2, <1>3 DEF Fails, Transactions, Role
        <4>2. Switched(u)'
          <5>1. /\ pc'[u] = pc[u] /\ mode'[u] = mode[u] /\ (sound' => sound)
                /\ (bypass => bypass') /\ (manual => manual') /\ (custom <=> custom')
            BY <1>5, <1>1, <2>4, <3>2 DEF Fails
          <5>. QED BY <5>1, <1>2, <2>4 DEF Switched
        <4>3. Painted(u)' BY <1>5, <3>2, <2>4, <1>1, <1>2, <1>3 DEF Fails, Transactions, Role, Painted, Meeting
        <4>. QED BY <4>1, <4>2, <4>3
      <3>. QED BY <3>1, <3>2
    <2>5. ASSUME NEW u \in Callers, NEW w \in Callers PROVE Meeting(u, w)'
      BY <1>5, <2>5, <1>1, <1>4 DEF Fails, Transactions, Meeting
    <2>. QED BY <2>1, <2>2, <2>3, <2>4, <2>5, Together
  <1>. QED BY <1>6

LEMMA MishapInv == ASSUME IInv, Restart \/ EcReset \/ FanIsSet PROVE IInv'
  <1>1. TypeOK /\ Flag /\ Shown BY DEF IInv
  <1>2. \A u \in Callers : Role(u) /\ Switched(u) /\ Painted(u) BY OneCall
  <1>4. \A u, w \in Callers : Meeting(u, w) BY TwoCalls
  <1>5. CASE Restart
    BY <1>1, <1>5, Together DEF Restart, Flag, Shown, Role, Switched, Painted, Meeting
  <1>6. CASE EcReset
    <2>1. TypeOK' /\ Flag' /\ Shown' BY <1>1, <1>6 DEF EcReset, Flag, Shown
    <2>2. ASSUME NEW u \in Callers PROVE Role(u)' /\ Switched(u)' /\ Painted(u)'
      BY <1>1, <1>2, <1>6 DEF EcReset, Role, Switched, Painted
    <2>3. \A u, w \in Callers : Meeting(u, w)' BY <1>4, <1>6 DEF EcReset, Meeting
    <2>. QED BY <2>1, <2>2, <2>3, Together
  <1>7. CASE FanIsSet
    <2>1. TypeOK' /\ Flag' /\ Shown' BY <1>1, <1>7 DEF FanIsSet, TypeOK, Active, Flag, Shown
    <2>2. ASSUME NEW u \in Callers PROVE Role(u)' /\ Switched(u)' /\ Painted(u)'
      BY <1>1, <1>2, <1>7 DEF FanIsSet, Role, Switched, Painted, Active
    <2>3. \A u, w \in Callers : Meeting(u, w)' BY <1>4, <1>7 DEF FanIsSet, Meeting, Active
    <2>. QED BY <2>1, <2>2, <2>3, Together
  <1>. QED BY <1>5, <1>6, <1>7

-----------------------------------------------------------------------------
(* The inductive invariant holds.                                          *)
THEOREM IInvHolds == Spec => []IInv
  <1>1. IInv /\ [Next]_vars => IInv'
    <2>. SUFFICES ASSUME IInv, [Next]_vars PROVE IInv' OBVIOUS
    <2>1. ASSUME NEW t \in Callers, Call(t) \/ Step(t) \/ Fails(t) PROVE IInv'
      BY <2>1, CallInv, StepInv, FailsInv
    <2>2. CASE Restart \/ EcReset \/ FanIsSet BY <2>2, MishapInv
    <2>3. CASE UNCHANGED vars
      BY <2>3 DEF IInv, Roles, Role, Meetings, Meeting, Flag, Progress, Switched, Lone,
                  Painted, Shown, Shows
    <2>. QED BY <2>1, <2>2, <2>3 DEF Next
  <1>. QED BY InitInv, <1>1, PTL DEF Spec

(* Every variable has its type.                                            *)
THEOREM TypeCorrect == Spec => []TypeOK
  <1>1. IInv => TypeOK BY DEF IInv
  <1>. QED BY <1>1, IInvHolds, PTL

(* However many callers overlap, and wherever calls fail or the daemon is  *)
(* restarted, IS_LED_ALREADY_CUSTOM means that the ring is bypassed, except *)
(* after an Auto that met another mode or failed, or a restart of the EC.  *)
THEOREM FlagIsReliable == Spec => []FlagMeansBypassed
  <1>1. IInv => FlagMeansBypassed
    <2>. SUFFICES ASSUME IInv, sound, custom, \A t \in Active : mode[t] # LedAuto
                  PROVE  bypass /\ manual
      BY DEF FlagMeansBypassed
    <2>1. \A t \in Callers : pc[t] # "idle" => mode[t] # LedAuto BY DEF Active
    <2>. QED BY <2>1 DEF IInv, Flag
  <1>. QED BY <1>1, IInvHolds, PTL

(* On the same condition a call that met nobody and returned Ok makes the  *)
(* ring show its mode.                                                     *)
THEOREM LastModeIsShown == Spec => []RingShowsLastMode
  <1>1. IInv => RingShowsLastMode BY DEF IInv, Shown, RingShowsLastMode
  <1>. QED BY <1>1, IInvHolds, PTL
=============================================================================
