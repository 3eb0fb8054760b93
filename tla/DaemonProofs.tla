---------------------------- MODULE DaemonProofs ----------------------------
(***************************************************************************)
(* For every number of clients, every set of values and requests: Daemon   *)
(* keeps its types, writes the state file from one thread at a time, loses *)
(* no setting and no opt-out silently, keeps the EC at what STATE says and *)
(* completes the resets it reports as done.  If its threads are scheduled, *)
(* every job ends, every request is answered, the guard comes free, and an *)
(* event that waits is taken up.                                           *)
(***************************************************************************)
EXTENDS Daemon, TLAPS

USE ThreadsAssumption, ValuesAssumption, DiskAssumption, RequestsAssumption,
    BoundsAssumption

-----------------------------------------------------------------------------
(* Types.                                                                  *)

LEMMA OrderType == RestoreOrder \in Seq(Fields) /\ Len(RestoreOrder) = 6
  BY DEF RestoreOrder, Fields

LEMMA OrderFields == \A i \in 1..6 : RestoreOrder[i] \in Fields
  BY OrderType

LEMMA DefaultType == Default \in Settings /\ NoRequest \in Request
  BY DEF Default, Settings, NoRequest, Request, Ops, Fields

LEMMA SpendType ==
  ASSUME TypeOK, NEW what \in Bounds,
         Spend(what)
  PROVE  budget' \in [Bounds -> Nat]
  BY DEF TypeOK, Spend, Bounds

LEMMA UnwrittenType == Unwritten \in [Fields -> Origins]
  BY DEF Unwritten, Origins

LEMMA InitType == ASSUME Init PROVE TypeOK
<1> USE OrderType, DefaultType DEF Init
<1>1. ec \in [Fields -> Values \cup {Mixed}] /\ ec["kbd"] # Mixed /\ ec["power"] # Mixed
  BY DEF Fields
<1>2. pc \in [Threads -> Labels] /\ job \in [Threads -> Request]
  BY DEF Threads, Labels
<1>3. idx \in [Threads -> 1..Len(RestoreOrder)] /\ result \in [Threads -> {"Success", "Error"}]
  BY DEF Threads
<1>4. budget \in [Bounds -> Nat]
  BY DEF Bounds
<1>5. queue \in Seq(Events) /\ state \in Settings
  OBVIOUS
<1>6. origin \in [Fields -> Origins]
  BY UnwrittenType
<1> QED BY <1>1, <1>2, <1>3, <1>4, <1>5, <1>6 DEF TypeOK

LEMMA BootType ==
  ASSUME TypeOK, NEW s \in Settings, Boot(s), budget' \in [Bounds -> Nat],
         unsaved' \in BOOLEAN, optedOut' \in BOOLEAN
  PROVE  TypeOK'
  BY OrderType, UnwrittenType DEF TypeOK, Boot, Goto, Threads, Labels

LEMMA LoadType == ASSUME TypeOK, Load \/ LoadFails PROVE TypeOK'
<1>1. CASE Load
  BY <1>1, BootType, DefaultType DEF Load, Loadable, TypeOK
<1>2. CASE LoadFails
  BY <1>2, BootType, DefaultType, SpendType DEF Bounds, LoadFails
<1> QED BY <1>1, <1>2

LEMMA GoneType ==
  ASSUME TypeOK, ProcessGone, budget' \in [Bounds -> Nat], cut' \in BOOLEAN,
         optedOut' \in BOOLEAN, disk' \in Settings \cup {Absent, Torn}
  PROVE  TypeOK'
<1> USE DEF ProcessGone
<1>1. /\ pc' \in [Threads -> Labels] /\ job' \in [Threads -> Request]
      /\ idx' \in [Threads -> 1..Len(RestoreOrder)]
      /\ result' \in [Threads -> {"Success", "Error"}]
  BY OrderType, DefaultType DEF Threads, Labels
<1>2. queue' \in Seq(Events) /\ state' \in Settings /\ origin' \in [Fields -> Origins]
  BY DefaultType, UnwrittenType
<1> QED
  BY <1>1, <1>2, ValuesAssumption DEF TypeOK

LEMMA StopType ==
  ASSUME TypeOK, StartFails \/ Crash \/ PowerCut
  PROVE  TypeOK'
<1>1. CASE StartFails
  BY <1>1, GoneType, SpendType DEF Bounds, StartFails, TypeOK
<1>2. CASE Crash
  BY <1>2, GoneType, SpendType DEF Bounds, Crash, TypeOK
<1>3. CASE PowerCut
  BY <1>3, GoneType, SpendType DEF Bounds, PowerCut, TypeOK
<1> QED BY <1>1, <1>2, <1>3

LEMMA StartType == ASSUME TypeOK, StartServing PROVE TypeOK'
  BY DEF TypeOK, StartServing, InitiallyEnabled, Settings, Labels, history, Threads

LEMMA ClientType ==
  ASSUME TypeOK, NEW c \in Conns,
         Connect(c) \/ Receive(c) \/ Disconnect(c) \/ Drop(c) \/ Panic(c)
  PROVE  TypeOK'
<1> USE DEF TypeOK, Goto, Threads, history
<1>1. CASE Connect(c)
  BY <1>1 DEF Connect, Labels
<1>2. CASE Receive(c)
  <2>1. budget' \in [Bounds -> Nat]
    BY <1>2, SpendType DEF Bounds, Receive
  <2>2. job' \in [Threads -> Request] /\ pc' \in [Threads -> Labels]
    <3>1. PICK r \in Requests :
            /\ job' = [job EXCEPT ![c] = r]
            /\ pc' = [pc EXCEPT ![c] = IF r.op = "set" THEN "set" ELSE "lock"]
      BY <1>2 DEF Receive
    <3>2. r \in Request
      OBVIOUS
    <3> QED BY <3>1, <3>2 DEF Labels
  <2>3. result' \in [Threads -> {"Success", "Error"}]
    BY <1>2 DEF Receive
  <2> QED BY <1>2, <2>1, <2>2, <2>3 DEF Receive
<1>3. CASE Disconnect(c)
  <2>1. [NoRequest EXCEPT !.op = "close"] \in Request
    BY DefaultType DEF Request, Ops
  <2> QED BY <1>3, <2>1 DEF Disconnect, Labels
<1>4. CASE Drop(c)
  BY <1>4, DefaultType DEF Drop, Labels
<1>5. CASE Panic(c)
  BY <1>5, DefaultType DEF Panic, Labels
<1> QED BY <1>1, <1>2, <1>3, <1>4, <1>5

(* What a write to the EC may leave there.                                 *)
EcType == /\ ec \in [Fields -> Values \cup {Mixed}]
          /\ ec["kbd"] # Mixed /\ ec["power"] # Mixed

LEMMA WriteType ==
  ASSUME TypeOK, NEW f \in Fields, NEW x \in Values \cup {Mixed}, NEW over,
         x = Mixed => f \notin {"kbd", "power"}, over \subseteq {"led", "fan_cpu"},
         Write(f, x, over)
  PROVE  EcType'
<1>1. \A g \in Fields : ec'[g] = IF g = f THEN x ELSE IF g \in over THEN Mixed ELSE ec[g]
  BY DEF Write
<1>2. ec' \in [Fields -> Values \cup {Mixed}]
  BY DEF TypeOK, Write
<1> QED BY <1>1, <1>2 DEF TypeOK, EcType, Fields

LEMMA CauseType ==
  ASSUME NEW f, NEW why \in Origins
  PROVE  Cause(f, why) \in Origins
  BY DEF Cause, Origins

LEMMA WrittenType ==
  ASSUME TypeOK, NEW f, NEW why \in Origins, NEW over
  PROVE  Written(f, why, over) \in [Fields -> Origins]
<1>1. \A g \in Fields : Cause(g, "shared") \in Origins /\ origin[g] \in Origins
  BY CauseType DEF TypeOK, Origins, Reasons
<1> QED BY <1>1 DEF Written

LEMMA StoppedType ==
  ASSUME NEW from \in [Fields -> Origins]
  PROVE  Stopped(from) \in [Fields -> Origins]
  BY DEF Stopped, Origins, Reasons

LEMMA ClobberedIn ==
  ASSUME NEW f, NEW v
  PROVE  Clobbered(f, v) \subseteq {"led", "fan_cpu"} \ {f}
  BY DEF Clobbered

LEMMA PutEcType ==
  ASSUME TypeOK, NEW f \in Fields, NEW v \in Values, NEW why \in Origins,
         PutEc(f, v, why)
  PROVE  EcType' /\ pwm' \in Custom /\ latched' \in BOOLEAN /\ origin' \in [Fields -> Origins]
<1>1. PICK x \in Shown(f, v) :
        /\ Write(f, x, Clobbered(f, v))
        /\ origin' = Written(f, IF x = v THEN why ELSE "bypass", Clobbered(f, v))
  BY DEF PutEc
<1>2. x \in Values \cup {Mixed} /\ (x = Mixed => f = "led")
  BY <1>1 DEF Shown, SkipsBypass
<1>3. EcType'
  BY <1>1, <1>2, WriteType, ClobberedIn
<1>4. (IF x = v THEN why ELSE "bypass") \in Origins
  BY DEF Origins, Reasons
<1>5. origin' \in [Fields -> Origins]
  BY <1>1, <1>4, WrittenType
<1>6. pwm' \in Custom
  BY DEF PutEc, TypeOK
<1>7. latched' \in BOOLEAN
  BY DEF PutEc, TypeOK
<1> QED BY <1>3, <1>5, <1>6, <1>7

LEMMA PutFailsType ==
  ASSUME TypeOK, NEW f \in Fields, NEW v \in Values, NEW over, PutFails(f, v, over)
  PROVE  EcType' /\ pwm' = pwm /\ latched' \in BOOLEAN
<1>1. CASE UNCHANGED <<ec, latched>>
  BY <1>1 DEF PutFails, TypeOK, EcType
<1>2. CASE /\ over = Clobbered(f, v)
           /\ \E x \in HalfSet(f, v) : Write(f, x, over)
           /\ latched' \in {latched, latched \/ (f = "led" /\ v # Dflt)}
  <2>1. PICK x \in HalfSet(f, v) : Write(f, x, over)
    BY <1>2
  <2>2. x \in Values \cup {Mixed} /\ (x = Mixed => f \notin {"kbd", "power"})
    BY <2>1 DEF HalfSet, TypeOK
  <2>3. EcType'
    BY <1>2, <2>1, <2>2, WriteType, ClobberedIn
  <2>4. latched' \in BOOLEAN
    BY <1>2 DEF TypeOK
  <2> QED BY <2>3, <2>4 DEF PutFails
<1> QED BY <1>1, <1>2 DEF PutFails

LEMMA SetterType ==
  ASSUME TypeOK, NEW c \in Conns, ApplySet(c) \/ RefuseSet(c) \/ SetFails(c)
  PROVE  TypeOK'
<1>0. job[c].field \in Fields /\ (~Refused(c) => job[c].value \in Values)
  BY DEF TypeOK, Request, Threads, Refused
<1>1. CASE ApplySet(c)
  <2>1. EcType' /\ pwm' \in Custom /\ latched' \in BOOLEAN /\ origin' \in [Fields -> Origins]
    BY <1>0, <1>1, PutEcType DEF ApplySet, Origins
  <2> QED BY <2>1, <1>1 DEF ApplySet, TypeOK, EcType, Goto, Threads, Labels
<1>2. CASE RefuseSet(c)
  BY <1>2 DEF RefuseSet, TypeOK, Finish, Goto, Threads, Labels, history
<1>3. CASE SetFails(c)
  <2>1. PICK over : /\ PutFails(job[c].field, job[c].value, over)
                    /\ origin' = Written(job[c].field, Cause(job[c].field, "failed"), over)
    BY <1>3 DEF SetFails
  <2>2. EcType' /\ pwm' = pwm /\ latched' \in BOOLEAN
    BY <1>0, <1>3, <2>1, PutFailsType DEF SetFails
  <2>3. origin' \in [Fields -> Origins]
    BY <2>1, CauseType, WrittenType DEF Origins, Reasons
  <2>4. budget' \in [Bounds -> Nat]
    BY <1>3, SpendType DEF Bounds, SetFails
  <2>5. pc' \in [Threads -> Labels] /\ result' \in [Threads -> {"Success", "Error"}]
    BY <1>3 DEF SetFails, TypeOK, Finish, Goto, Labels
  <2> QED BY <2>2, <2>3, <2>4, <2>5, <1>3 DEF SetFails, TypeOK, EcType
<1> QED BY <1>1, <1>2, <1>3

LEMMA AssignedType ==
  ASSUME TypeOK, NEW t \in Threads, job[t].op = "set" => job[t].value \in Values
  PROVE  Assigned(t) \in Settings
<1>1. job[t].field \in Fields
  BY DEF TypeOK, Request
<1>2. [state EXCEPT !.tele = TRUE] \in Settings /\ [state EXCEPT !.tele = FALSE] \in Settings
  BY DEF TypeOK, Settings
<1>3. ASSUME job[t].value \in Values
      PROVE  [state EXCEPT !.cfg[job[t].field] = job[t].value] \in Settings
  BY <1>1, <1>3 DEF TypeOK, Settings
<1> QED BY <1>2, <1>3, DefaultType DEF Assigned, TypeOK

(* The commands on their way to the guard: none of them has an illegal     *)
(* duty, for apply_fan_mode has refused it.                                *)
InRange == \A t \in Threads : pc[t] = "lock" /\ job[t].op = "set" => job[t].value \in Values

LEMMA GuardType ==
  ASSUME TypeOK, InRange, NEW t \in Threads,
         TryLock(t) \/ TryLockFails(t) \/ Release(t)
  PROVE  TypeOK'
<1> USE DEF Goto, Threads
<1>1. CASE TryLock(t)
  <2>1. Assigned(t) \in Settings
    BY <1>1, AssignedType DEF InRange, TryLock
  <2>2. AfterLock(job[t].op) \in Labels
    BY DEF AfterLock, Labels, Reads
  <2>3. OriginInState(t) \in [Fields -> Origins]
    BY DEF OriginInState, TypeOK, Origins, Reasons
  <2> QED BY <1>1, <2>1, <2>2, <2>3, OrderType DEF TryLock, TypeOK
<1>2. CASE TryLockFails(t)
  <2>1. \A f \in Fields : Cause(f, "refused") \in Origins
    BY CauseType DEF Origins, Reasons
  <2>2. origin' \in [Fields -> Origins]
    BY <1>2, <2>1 DEF TryLockFails, TypeOK
  <2> QED BY <1>2, <2>2 DEF TryLockFails, Finish, TypeOK, Labels
<1>3. CASE Release(t)
  BY <1>3, DefaultType DEF Release, TypeOK, Labels, history
<1> QED BY <1>1, <1>2, <1>3

LEMMA SaveType ==
  ASSUME TypeOK, NEW t \in Threads,
         OpenFile(t) \/ OpenFails(t) \/ WriteFile(t) \/ WriteLost(t) \/ Switch(t)
  PROVE  TypeOK'
<1> USE DEF Goto, TypeOK
<1>0. AfterSave(t) \in Labels
  BY DEF AfterSave, Labels
<1>1. CASE OpenFile(t)
  BY <1>1 DEF OpenFile, Labels, history
<1>2. CASE OpenFails(t)
  <2>1. origin' \in [Fields -> Origins]
    BY <1>2, StoppedType DEF OpenFails
  <2> QED BY <1>2, <2>1, SpendType DEF Bounds, OpenFails, SaveError, Finish, Labels
<1>3. CASE WriteFile(t)
  <2>1. pc' \in [Threads -> Labels]
    BY <1>0, <1>3 DEF WriteFile
  <2>2. idx' \in [Threads -> 1..Len(RestoreOrder)]
    BY <1>3, OrderType DEF WriteFile
  <2> QED BY <1>3, <2>1, <2>2 DEF WriteFile
<1>4. CASE WriteLost(t)
  <2>1. pc' \in [Threads -> Labels]
    BY <1>0, <1>4 DEF WriteLost
  <2>2. idx' \in [Threads -> 1..Len(RestoreOrder)]
    BY <1>4, OrderType DEF WriteLost
  <2>3. budget' \in [Bounds -> Nat]
    BY <1>4, SpendType DEF Bounds, WriteLost
  <2> QED BY <1>4, <2>1, <2>2, <2>3 DEF WriteLost
<1>5. CASE Switch(t)
  BY <1>5 DEF Switch, Labels
<1> QED BY <1>1, <1>2, <1>3, <1>4, <1>5

LEMMA RestoreType ==
  ASSUME TypeOK, NEW t \in Threads, Restore(t) \/ RestoreFails(t)
  PROVE  TypeOK'
<1> DEFINE f == RestoreOrder[idx[t]]
<1>1. idx[t] \in 1..6 /\ f \in Fields
  BY OrderType, OrderFields DEF TypeOK
<1>2. state.cfg[f] \in Values
  BY <1>1 DEF TypeOK, Settings
<1>3. AfterRestore(t) \in Labels
  BY DEF AfterRestore, Labels
<1> HIDE DEF f
<1>5. CASE Restore(t)
  <2>1. EcType' /\ pwm' \in Custom /\ latched' \in BOOLEAN /\ origin' \in [Fields -> Origins]
    BY <1>1, <1>2, <1>5, PutEcType DEF Restore, f, Origins
  <2>2. pc' \in [Threads -> Labels] /\ idx' \in [Threads -> 1..Len(RestoreOrder)]
    <3>1. CASE idx[t] = 6
      <4>1. pc' = [pc EXCEPT ![t] = AfterRestore(t)] /\ idx' = [idx EXCEPT ![t] = 1]
        BY <1>5, <3>1, OrderType DEF Restore, Goto
      <4> QED BY <1>3, <4>1, OrderType DEF TypeOK
    <3>2. CASE idx[t] # 6
      <4>1. idx[t] + 1 \in 1..6
        BY <1>1, <3>2
      <4>2. idx' = [idx EXCEPT ![t] = @ + 1] /\ pc' = pc
        BY <1>5, <3>2, OrderType DEF Restore
      <4> QED BY <4>1, <4>2, OrderType DEF TypeOK
    <3> QED BY <3>1, <3>2
  <2> QED BY <1>5, <2>1, <2>2 DEF Restore, TypeOK, EcType
<1>6. CASE RestoreFails(t)
  <2>0. PICK over : /\ PutFails(f, state.cfg[f], over)
                    /\ origin' = Stopped(Written(f, "failed", over))
    BY <1>6 DEF RestoreFails, f
  <2>1. EcType' /\ pwm' = pwm /\ latched' \in BOOLEAN
    BY <1>1, <1>2, <2>0, PutFailsType
  <2>2. origin' \in [Fields -> Origins]
    BY <2>0, WrittenType, StoppedType DEF Origins, Reasons
  <2>3. pc' \in [Threads -> Labels] /\ budget' \in [Bounds -> Nat]
    BY <1>3, <1>6, SpendType DEF Bounds, RestoreFails, Goto, TypeOK
  <2>4. /\ result' \in [Threads -> {"Success", "Error"}]
        /\ idx' \in [Threads -> 1..Len(RestoreOrder)]
    BY <1>6, OrderType DEF RestoreFails, TypeOK
  <2> QED BY <1>6, <2>1, <2>2, <2>3, <2>4 DEF RestoreFails, TypeOK, EcType
<1> QED BY <1>5, <1>6

LEMMA EventType ==
  ASSUME TypeOK, TakeEvent \/ SetLed
  PROVE  TypeOK'
<1> USE DEF TypeOK, Goto, Threads, Labels
<1>1. CASE TakeEvent
  <2>1. Head(queue) \in {"sleep", "hibernate", "wake"} /\ Tail(queue) \in Seq(Events)
    BY <1>1 DEF TakeEvent
  <2>2. [NoRequest EXCEPT !.op = Head(queue)] \in Request
    BY <2>1, DefaultType DEF Request, Ops
  <2> QED BY <1>1, <2>1, <2>2 DEF TakeEvent, history
<1>2. CASE SetLed
  <2> DEFINE mode == IF job[Svc].op = "sleep" THEN SleepAnim ELSE Dflt
  <2>0. /\ mode \in Values /\ "led" \in Fields
        /\ Cause("led", "listener") \in Origins /\ Cause("led", "failed") \in Origins
    BY CauseType DEF Fields, Origins, Reasons
  <2>1. EcType' /\ pwm' \in Custom /\ latched' \in BOOLEAN /\ origin' \in [Fields -> Origins]
    <3>1. CASE PutEc("led", mode, Cause("led", "listener"))
      BY <2>0, <3>1, PutEcType
    <3>2. ASSUME NEW over, PutFails("led", mode, over),
                 origin' = Written("led", Cause("led", "failed"), over)
          PROVE  EcType' /\ pwm' \in Custom /\ latched' \in BOOLEAN
                 /\ origin' \in [Fields -> Origins]
      BY <2>0, <3>2, PutFailsType, WrittenType
    <3> QED BY <1>2, <3>1, <3>2 DEF SetLed
  <2>2. budget' \in [Bounds -> Nat]
    BY <1>2, SpendType DEF Bounds, SetLed
  <2> QED BY <1>2, <2>1, <2>2 DEF SetLed, EcType
<1> QED BY <1>1, <1>2

LEMMA ReadType ==
  ASSUME TypeOK, ReadKbd \/ ReadPwm \/ ReadPower \/ ReadMin \/ ReadMax \/ ReadFails
  PROVE  TypeOK'
<1>0. \A f \in Fields, v \in Values : [state EXCEPT !.cfg[f] = v] \in Settings
  BY DEF TypeOK, Settings
<1>1. ASSUME NEW f \in Fields, Learned(f)
      PROVE  origin' \in [Fields -> Origins]
  BY <1>1 DEF TypeOK, Learned, Origins
<1> USE DEF TypeOK, Goto, Threads, Read, Fields
<1>2. CASE ReadKbd
  <2>1. state' \in Settings
    BY <1>0, <1>2 DEF ReadKbd, IsCustom
  <2>2. pc' \in [Threads -> Labels] /\ origin' \in [Fields -> Origins]
    BY <1>1, <1>2 DEF ReadKbd, Labels, Reads
  <2> QED BY <1>2, <2>1, <2>2 DEF ReadKbd
<1>3. CASE ReadPwm
  BY <1>0, <1>1, <1>3 DEF ReadPwm, Labels, Reads
<1>4. CASE ReadPower
  BY <1>0, <1>1, <1>4 DEF ReadPower, Labels, Reads
<1>5. CASE ReadMin
  BY <1>5 DEF ReadMin, Labels, Reads
<1>6. CASE ReadMax
  <2>1. seen' \in Values \cup {Mixed} /\ origin' \in [Fields -> Origins]
    BY <1>1, <1>6 DEF ReadMax
  <2>2. state' \in Settings
    <3> DEFINE bounds == {seen, ec["charge"]}
    <3>1. bounds \ {Mixed} \subseteq Values
      OBVIOUS
    <3>2. state' = state \/ \E v \in Values : state' = [state EXCEPT !.cfg["charge"] = v]
      BY <1>6, <3>1 DEF ReadMax
    <3> QED BY <1>0, <3>2
  <2>3. pc' \in [Threads -> Labels]
    BY <1>6 DEF ReadMax, AfterReads, Labels
  <2> QED BY <1>6, <2>1, <2>2, <2>3 DEF ReadMax
<1>7. CASE ReadFails
  <2>1. AfterFailedRead[pc[Svc]] \in Labels
    BY <1>7 DEF ReadFails, AfterFailedRead, AfterReads, Labels, Reads
  <2>2. budget' \in [Bounds -> Nat]
    BY <1>7, SpendType DEF Bounds, ReadFails
  <2> QED BY <1>7, <2>1, <2>2, ValuesAssumption DEF ReadFails
<1> QED BY <1>2, <1>3, <1>4, <1>5, <1>6, <1>7

LEMMA OutsideType ==
  ASSUME TypeOK, Announce \/ HotKey \/ EcForgets
  PROVE  TypeOK'
<1> USE DEF TypeOK, history, work
<1>1. CASE Announce
  <2>1. budget' \in [Bounds -> Nat]
    BY <1>1, SpendType DEF Bounds, Announce
  <2>2. queue' \in Seq(Events)
    BY <1>1 DEF Announce
  <2> QED BY <1>1, <2>1, <2>2 DEF Announce
<1>2. CASE HotKey
  <2>1. budget' \in [Bounds -> Nat]
    BY <1>2, SpendType DEF Bounds, HotKey
  <2>2. EcType'
    BY <1>2 DEF HotKey, EcType, Fields
  <2>3. \A f : Cause(f, "firmware") \in Origins
    BY CauseType DEF Origins, Reasons
  <2>4. origin' \in [Fields -> Origins]
    BY <1>2, <2>3 DEF HotKey, Fields
  <2> QED BY <1>2, <2>1, <2>2, <2>4 DEF HotKey, EcType
<1>3. CASE EcForgets
  <2>1. budget' \in [Bounds -> Nat]
    BY <1>3, SpendType DEF Bounds, EcForgets
  <2>2. EcType'
    BY <1>3 DEF EcForgets, EcType, Fields
  <2>3. \A f : Cause(f, "firmware") \in Origins
    BY CauseType DEF Origins, Reasons
  <2>4. origin' \in [Fields -> Origins]
    BY <1>3, <2>3 DEF EcForgets
  <2> QED BY <1>3, <2>1, <2>2, <2>4 DEF EcForgets, EcType
<1> QED BY <1>1, <1>2, <1>3

-----------------------------------------------------------------------------
(* Where the threads can be, and who has the guard.                        *)

LockedLabels == {"open", "write", "switch", "restore"} \cup Reads

Places ==
  /\ pc[Main] \in {"down", "restore", "telemetry", "accept"}
  /\ pc[Svc] \in {"off", "recv", "led", "lock", "done"} \cup LockedLabels
  /\ \A c \in Conns : pc[c] \in {"closed", "recv", "set", "lock", "done"} \cup LockedLabels

(* Until main() accepts there is no other thread.                          *)
Alone == pc[Main] # "accept" => pc[Svc] = "off" /\ \A c \in Conns : pc[c] = "closed"

(* Who reads back, saves, switches or restores has the guard.              *)
Guarded == \A t \in Threads \ {Main} : pc[t] \in LockedLabels => holder = t

(* The listener's jobs are events.                                         *)
Listens == job[Svc].op \in {"boot", "sleep", "hibernate", "wake"}

(* With InRange: setters have passed apply_fan_mode's check by the time    *)
(* they lock.                                                              *)
Control == Places /\ Alone /\ Guarded /\ InRange /\ Listens

LEMMA InitControl == ASSUME Init PROVE Control
  BY DEF Init, Control, Places, Alone, Guarded, InRange, Listens, LockedLabels,
         Reads, Threads, NoRequest

LEMMA MainControl ==
  ASSUME TypeOK, Control,
         Load \/ LoadFails \/ StartServing \/ StartFails \/ Crash \/ PowerCut
  PROVE  Control'
<1> USE DEF TypeOK, Control, Places, Alone, Guarded, InRange, Listens, LockedLabels, Reads, Threads
<1>1. CASE Load \/ LoadFails
  BY <1>1 DEF Load, LoadFails, Boot, Goto
<1>2. CASE StartServing
  BY <1>2 DEF StartServing
<1>3. CASE StartFails \/ Crash \/ PowerCut
  <2>1. ProcessGone
    BY <1>3 DEF StartFails, Crash, PowerCut
  <2>2. pc'[Main] = "down" /\ pc'[Svc] = "off" /\ \A c \in Conns : pc'[c] = "closed"
    BY <2>1 DEF ProcessGone
  <2>3. job'[Svc].op = "boot"
    BY <2>1 DEF ProcessGone, NoRequest
  <2> QED BY <2>2, <2>3
<1> QED BY <1>1, <1>2, <1>3

LEMMA ClientControl ==
  ASSUME TypeOK, Control, NEW c \in Conns,
         Connect(c) \/ Receive(c) \/ Disconnect(c) \/ Drop(c) \/ Panic(c)
         \/ ApplySet(c) \/ RefuseSet(c) \/ SetFails(c)
  PROVE  Control'
<1> USE DEF TypeOK, Control, Places, Alone, Guarded, InRange, Listens, LockedLabels, Reads,
            Threads, Goto, NoRequest
<1>1. CASE Connect(c)
  BY <1>1 DEF Connect
<1>2. CASE Receive(c)
  BY <1>2 DEF Receive
<1>3. CASE Disconnect(c)
  BY <1>3 DEF Disconnect
<1>4. CASE Drop(c)
  BY <1>4 DEF Drop
<1>5. CASE Panic(c)
  BY <1>5 DEF Panic
<1>6. CASE ApplySet(c)
  BY <1>6 DEF ApplySet, Request, Refused
<1>7. CASE RefuseSet(c) \/ SetFails(c)
  <2>1. pc' = [pc EXCEPT ![c] = "done"] /\ UNCHANGED <<holder, job>> /\ pc[c] = "set"
    BY <1>7 DEF RefuseSet, SetFails, Finish
  <2> QED BY <2>1
<1> QED BY <1>1, <1>2, <1>3, <1>4, <1>5, <1>6, <1>7

LEMMA GuardControl ==
  ASSUME TypeOK, Control, NEW t \in Threads,
         TryLock(t) \/ TryLockFails(t) \/ Release(t)
  PROVE  Control'
<1> USE DEF TypeOK, Control, Places, Alone, Guarded, InRange, Listens, LockedLabels, Reads,
            Threads, Goto, NoRequest
<1>0. t # Main
  BY DEF TryLock, TryLockFails, Release
<1>1. CASE TryLock(t)
  BY <1>0, <1>1 DEF TryLock, CanLock, AfterLock
<1>2. CASE TryLockFails(t)
  BY <1>0, <1>2 DEF TryLockFails, Finish
<1>3. CASE Release(t)
  <2>1. Places' /\ Alone'
    BY <1>0, <1>3 DEF Release
  <2>2. Guarded'
    BY <1>0, <1>3 DEF Release
  <2>3. InRange'
    BY <1>0, <1>3 DEF Release
  <2>4. Listens'
    BY <1>0, <1>3 DEF Release
  <2> QED BY <2>1, <2>2, <2>3, <2>4
<1> QED BY <1>1, <1>2, <1>3

LEMMA SaveControl ==
  ASSUME TypeOK, Control, NEW t \in Threads,
         OpenFile(t) \/ OpenFails(t) \/ WriteFile(t) \/ WriteLost(t) \/ Switch(t)
  PROVE  Control'
<1> USE DEF TypeOK, Control, Places, Alone, Guarded, InRange, Listens, LockedLabels, Reads,
            Threads, Goto
<1>1. t # Main
  BY DEF OpenFile, OpenFails, WriteFile, WriteLost, Switch
<1>2. CASE OpenFile(t)
  BY <1>1, <1>2 DEF OpenFile
<1>3. CASE OpenFails(t)
  BY <1>1, <1>3 DEF OpenFails, SaveError, Finish
<1>4. CASE WriteFile(t) \/ WriteLost(t)
  <2>1. /\ pc' = [pc EXCEPT ![t] = AfterSave(t)] /\ pc[t] = "write"
        /\ UNCHANGED <<holder, job>>
    BY <1>4 DEF WriteFile, WriteLost
  <2>2. AfterSave(t) \in {"restore", "switch", "done"}
    BY DEF AfterSave
  <2> QED BY <1>1, <2>1, <2>2
<1>5. CASE Switch(t)
  BY <1>1, <1>5 DEF Switch
<1> QED BY <1>2, <1>3, <1>4, <1>5

LEMMA RestoreControl ==
  ASSUME TypeOK, Control, NEW t \in Threads, Restore(t) \/ RestoreFails(t)
  PROVE  Control'
<1> USE DEF TypeOK, Control, Places, Alone, Guarded, InRange, Listens, LockedLabels, Reads,
            Threads, Goto, AfterRestore
<1>1. CASE Restore(t)
  <2>1. \/ UNCHANGED pc
        \/ pc' = [pc EXCEPT ![t] = AfterRestore(t)]
    BY <1>1 DEF Restore
  <2>2. pc[t] = "restore" /\ UNCHANGED <<holder, job>>
    BY <1>1 DEF Restore
  <2> QED BY <2>1, <2>2
<1>2. CASE RestoreFails(t)
  BY <1>2 DEF RestoreFails
<1> QED BY <1>1, <1>2

LEMMA ListenerControl ==
  ASSUME TypeOK, Control,
         \/ TakeEvent \/ SetLed \/ ReadFails
         \/ ReadKbd \/ ReadPwm \/ ReadPower \/ ReadMin \/ ReadMax
  PROVE  Control'
<1> USE DEF TypeOK, Control, Places, Alone, Guarded, InRange, Listens, LockedLabels, Reads,
            Threads, Goto
<1>1. CASE TakeEvent
  BY <1>1 DEF TakeEvent, NoRequest
<1>2. CASE SetLed
  <2>1. pc' = [pc EXCEPT ![Svc] = "lock"] /\ UNCHANGED <<holder, job>> /\ pc[Svc] = "led"
    BY <1>2 DEF SetLed
  <2>2. job[Svc].op # "set"
    OBVIOUS
  <2> QED BY <2>1, <2>2
<1>3. CASE ReadFails
  BY <1>3 DEF ReadFails, AfterFailedRead, AfterReads
<1>4. CASE ReadKbd \/ ReadPwm \/ ReadPower \/ ReadMin \/ ReadMax
  <2>1. PICK next \in Reads \cup {"open"} : pc' = [pc EXCEPT ![Svc] = next]
    BY <1>4 DEF ReadKbd, ReadPwm, ReadPower, ReadMin, ReadMax, Read, AfterReads
  <2>2. pc[Svc] \in Reads /\ UNCHANGED <<holder, job>>
    BY <1>4 DEF ReadKbd, ReadPwm, ReadPower, ReadMin, ReadMax, Read
  <2> QED BY <2>1, <2>2
<1> QED BY <1>1, <1>2, <1>3, <1>4

LEMMA OutsideControl ==
  ASSUME TypeOK, Control, Announce \/ HotKey \/ EcForgets
  PROVE  Control'
  BY DEF Control, Places, Alone, Guarded, InRange, Listens, Announce, HotKey, EcForgets, work

-----------------------------------------------------------------------------
(* What the threads are doing at their labels.                             *)

ClientOps == {"set", "defaults", "telemetry_on", "telemetry_off", "apply", "get",
              "todo", "close", "boot"}

Jobs ==
  /\ \A c \in Conns : /\ job[c].op \in ClientOps
                      /\ pc[c] \notin Reads
                      /\ pc[c] = "set" => job[c].op = "set"
                      /\ pc[c] = "restore" => job[c].op \in {"apply", "defaults"}
                      /\ pc[c] = "switch" => job[c].op \in {"telemetry_on", "telemetry_off"}
  /\ pc[Svc] # "switch"
  /\ pc[Svc] \in {"led", "lock", "done"} \cup LockedLabels => job[Svc].op # "boot"
  /\ pc[Svc] = "restore" => job[Svc].op = "wake"
  /\ pc[Svc] \in Reads \cup {"open", "write"} => job[Svc].op \in {"sleep", "hibernate"}

(* Whoever has the guard is using it, or about to let go of it.            *)
Holds == holder # Free => holder # Main /\ pc[holder] \in LockedLabels \cup {"done"}

LEMMA InitJobs == ASSUME Init PROVE Jobs /\ Holds
  BY DEF Init, Jobs, Holds, ClientOps, LockedLabels, Reads, Threads, NoRequest

LEMMA MainJobs ==
  ASSUME TypeOK, Control, Jobs, Holds,
         Load \/ LoadFails \/ StartServing \/ StartFails \/ Crash \/ PowerCut
  PROVE  Jobs' /\ Holds'
<1> USE DEF TypeOK, Jobs, Holds, ClientOps, LockedLabels, Reads, Threads
<1>1. CASE Load \/ LoadFails
  BY <1>1 DEF Load, LoadFails, Boot, Goto
<1>2. CASE StartServing
  BY <1>2 DEF StartServing, Control, Alone
<1>3. CASE StartFails \/ Crash \/ PowerCut
  <2>1. ProcessGone
    BY <1>3 DEF StartFails, Crash, PowerCut
  <2>2. pc'[Svc] = "off" /\ holder' = Free /\ \A c \in Conns : pc'[c] = "closed"
    BY <2>1 DEF ProcessGone
  <2>3. \A t \in Threads : job'[t].op = "boot"
    BY <2>1 DEF ProcessGone, NoRequest
  <2> QED BY <2>2, <2>3
<1> QED BY <1>1, <1>2, <1>3

LEMMA ClientJobs ==
  ASSUME TypeOK, Control, Jobs, Holds, NEW c \in Conns,
         Connect(c) \/ Receive(c) \/ Disconnect(c) \/ Drop(c) \/ Panic(c)
         \/ ApplySet(c) \/ RefuseSet(c) \/ SetFails(c)
  PROVE  Jobs' /\ Holds'
<1> USE DEF TypeOK, Jobs, Holds, ClientOps, LockedLabels, Reads, Threads, Goto, NoRequest
<1>1. CASE Connect(c)
  BY <1>1 DEF Connect
<1>2. CASE Receive(c)
  BY <1>2 DEF Receive
<1>3. CASE Disconnect(c)
  BY <1>3 DEF Disconnect
<1>4. CASE Drop(c)
  BY <1>4 DEF Drop
<1>5. CASE Panic(c)
  BY <1>5 DEF Panic
<1>6. CASE ApplySet(c)
  BY <1>6 DEF ApplySet
<1>7. CASE RefuseSet(c) \/ SetFails(c)
  <2>1. pc' = [pc EXCEPT ![c] = "done"] /\ UNCHANGED <<holder, job>> /\ pc[c] = "set"
    BY <1>7 DEF RefuseSet, SetFails, Finish
  <2> QED BY <2>1
<1> QED BY <1>1, <1>2, <1>3, <1>4, <1>5, <1>6, <1>7

LEMMA GuardJobs ==
  ASSUME TypeOK, Control, Jobs, Holds, NEW t \in Threads,
         TryLock(t) \/ TryLockFails(t) \/ Release(t)
  PROVE  Jobs' /\ Holds'
<1> USE DEF TypeOK, Jobs, Holds, ClientOps, LockedLabels, Reads, Threads, Goto
<1>0. t # Main
  BY DEF TryLock, TryLockFails, Release, Control, Places
<1>1. CASE TryLock(t)
  <2>1. CASE t = Svc
    BY <1>1, <2>1 DEF TryLock, AfterLock, Control, Listens
  <2>2. CASE t \in Conns
    BY <1>1, <2>2 DEF TryLock, AfterLock
  <2> QED BY <1>0, <2>1, <2>2
<1>2. CASE TryLockFails(t)
  BY <1>0, <1>2 DEF TryLockFails, Finish, CanLock
<1>3. CASE Release(t)
  <2>1. pc[t] = "done" /\ UNCHANGED result /\ (holder = t => holder' = Free)
    BY <1>3 DEF Release
  <2>2. Jobs'
    BY <1>0, <1>3 DEF Release, NoRequest
  <2>3. Holds'
    BY <1>0, <1>3 DEF Release
  <2> QED BY <2>2, <2>3
<1> QED BY <1>1, <1>2, <1>3

LEMMA SaveJobs ==
  ASSUME TypeOK, Control, Jobs, Holds, NEW t \in Threads,
         OpenFile(t) \/ OpenFails(t) \/ WriteFile(t) \/ WriteLost(t) \/ Switch(t)
  PROVE  Jobs' /\ Holds'
<1> USE DEF TypeOK, Jobs, Holds, ClientOps, LockedLabels, Reads, Threads, Goto
<1>1. t # Main
  BY DEF OpenFile, OpenFails, WriteFile, WriteLost, Switch, Control, Places
<1>2. CASE OpenFile(t)
  BY <1>1, <1>2 DEF OpenFile
<1>3. CASE OpenFails(t)
  BY <1>1, <1>3 DEF OpenFails, SaveError, Finish
<1>4. CASE WriteFile(t) \/ WriteLost(t)
  <2>1. /\ pc' = [pc EXCEPT ![t] = AfterSave(t)] /\ pc[t] = "write"
        /\ UNCHANGED <<holder, job>>
    BY <1>4 DEF WriteFile, WriteLost
  <2> QED BY <1>1, <2>1 DEF AfterSave
<1>5. CASE Switch(t)
  BY <1>1, <1>5 DEF Switch
<1> QED BY <1>2, <1>3, <1>4, <1>5

LEMMA RestoreJobs ==
  ASSUME TypeOK, Control, Jobs, Holds, NEW t \in Threads, Restore(t) \/ RestoreFails(t)
  PROVE  Jobs' /\ Holds'
<1>1. \/ UNCHANGED pc
      \/ pc' = [pc EXCEPT ![t] = AfterRestore(t)]
  BY DEF Restore, RestoreFails, Goto
<1>2. pc[t] = "restore" /\ UNCHANGED <<holder, job>>
  BY DEF Restore, RestoreFails
<1> QED BY <1>1, <1>2
        DEF TypeOK, Jobs, Holds, ClientOps, LockedLabels, Reads, Threads, AfterRestore

LEMMA ListenerJobs ==
  ASSUME TypeOK, Control, Jobs, Holds,
         \/ TakeEvent \/ SetLed \/ ReadFails
         \/ ReadKbd \/ ReadPwm \/ ReadPower \/ ReadMin \/ ReadMax
  PROVE  Jobs' /\ Holds'
<1> USE DEF TypeOK, Jobs, Holds, ClientOps, LockedLabels, Reads, Threads, Goto
<1>1. CASE TakeEvent
  <2>1. Head(queue) \in {"sleep", "hibernate", "wake"}
    BY <1>1 DEF TakeEvent
  <2> QED BY <1>1, <2>1 DEF TakeEvent, NoRequest
<1>2. CASE SetLed
  <2>1. pc' = [pc EXCEPT ![Svc] = "lock"] /\ UNCHANGED <<holder, job>> /\ pc[Svc] = "led"
    BY <1>2 DEF SetLed
  <2> QED BY <2>1
<1>3. CASE ReadFails \/ ReadKbd \/ ReadPwm \/ ReadPower \/ ReadMin \/ ReadMax
  <2>1. PICK next \in Reads \cup {"open"} : pc' = [pc EXCEPT ![Svc] = next]
    BY <1>3 DEF ReadKbd, ReadPwm, ReadPower, ReadMin, ReadMax, Read, ReadFails,
                AfterReads, AfterFailedRead
  <2>2. pc[Svc] \in Reads /\ UNCHANGED <<holder, job>>
    BY <1>3 DEF ReadKbd, ReadPwm, ReadPower, ReadMin, ReadMax, Read, ReadFails
  <2> QED BY <2>1, <2>2
<1> QED BY <1>1, <1>2, <1>3

LEMMA OutsideJobs ==
  ASSUME Jobs, Holds, Announce \/ HotKey \/ EcForgets
  PROVE  Jobs' /\ Holds'
  BY DEF Jobs, Holds, Announce, HotKey, EcForgets, work

-----------------------------------------------------------------------------
(* Types and places together.                                              *)

Base == TypeOK /\ Control /\ Jobs /\ Holds

LEMMA NextBase == ASSUME Base, [Next]_vars PROVE Base'
<1> USE DEF Base
<1>1. ASSUME NEW c \in Conns,
             \/ Connect(c) \/ Receive(c) \/ Disconnect(c) \/ Drop(c) \/ Panic(c)
             \/ ApplySet(c) \/ RefuseSet(c) \/ SetFails(c)
      PROVE  Base'
  BY <1>1, ClientType, SetterType, ClientControl, ClientJobs
<1>2. ASSUME NEW t \in Threads, Step(t) \/ Faults(t)
      PROVE  Base'
  <2>1. CASE TryLock(t) \/ TryLockFails(t) \/ Release(t)
    BY <2>1, GuardType, GuardControl, GuardJobs DEF Control
  <2>2. CASE OpenFile(t) \/ OpenFails(t) \/ WriteFile(t) \/ WriteLost(t) \/ Switch(t)
    BY <2>2, SaveType, SaveControl, SaveJobs
  <2>3. CASE Restore(t) \/ RestoreFails(t)
    BY <2>3, RestoreType, RestoreControl, RestoreJobs
  <2> QED BY <1>2, <2>1, <2>2, <2>3 DEF Step, Faults
<1>3. CASE TakeEvent \/ SetLed
  BY <1>3, EventType, ListenerControl, ListenerJobs
<1>4. CASE ReadFails \/ ReadKbd \/ ReadPwm \/ ReadPower \/ ReadMin \/ ReadMax
  BY <1>4, ReadType, ListenerControl, ListenerJobs
<1>5. CASE Load \/ LoadFails
  BY <1>5, LoadType, MainControl, MainJobs
<1>6. CASE StartServing
  BY <1>6, StartType, MainControl, MainJobs
<1>7. CASE StartFails \/ Crash \/ PowerCut
  BY <1>7, StopType, MainControl, MainJobs
<1>8. CASE Announce \/ HotKey \/ EcForgets
  BY <1>8, OutsideType, OutsideControl, OutsideJobs
<1>9. CASE UNCHANGED vars
  BY <1>9 DEF vars, work, history, TypeOK, Control, Places, Alone, Guarded, InRange,
              Listens, Jobs, Holds
<1> QED
  BY <1>1, <1>2, <1>3, <1>4, <1>5, <1>6, <1>7, <1>8, <1>9
  DEF Next, ConnStep, SvcStep, MainStep, Threads

(* Base is inductive.                                                      *)
THEOREM BaseHolds == Spec => []Base
<1>1. Init => Base
  BY InitType, InitControl, InitJobs DEF Base
<1>2. Base /\ [Next]_vars => Base'
  BY NextBase
<1> QED BY <1>1, <1>2, PTL DEF Spec

(* Every variable keeps its type, for any number of clients and requests:  *)
(* among the rest, no fan duty above the limit reaches the EC or STATE     *)
(* (fan.rs:14-19), and only readable settings enter STATE and the file.    *)
THEOREM TypeCorrect == Spec => []TypeOK
<1>1. Base => TypeOK
  BY DEF Base
<1> QED BY <1>1, BaseHolds, PTL

-----------------------------------------------------------------------------
(* The state file.                                                         *)

(* A step that leaves the file alone, and every thread that is writing it  *)
(* in its place.                                                           *)
LEMMA TornFrame ==
  ASSUME TornOnlyWhileSaving, UNCHANGED <<disk, cut>>,
         \A t \in Threads : pc[t] = "write" /\ holder = t => pc'[t] = "write" /\ holder' = t
  PROVE  TornOnlyWhileSaving'
  BY DEF TornOnlyWhileSaving

LEMMA TornNext ==
  ASSUME Base, TornOnlyWhileSaving, [Next]_vars
  PROVE  TornOnlyWhileSaving'
<1> USE DEF Base, Goto
<1>0. pc \in [Threads -> Labels] /\ disk \in Settings \cup {Absent, Torn} /\ state \in Settings
  BY DEF TypeOK
<1>1. ASSUME NEW c \in Conns,
             \/ Connect(c) \/ Receive(c) \/ Disconnect(c) \/ Drop(c) \/ Panic(c)
             \/ ApplySet(c) \/ RefuseSet(c) \/ SetFails(c)
      PROVE  TornOnlyWhileSaving'
  <2>1. UNCHANGED <<disk, cut>>
    BY <1>1 DEF Connect, Receive, Disconnect, Drop, Panic, ApplySet, RefuseSet, SetFails,
                history
  <2>2. \A t \in Threads : pc[t] = "write" => pc'[t] = "write"
    BY <1>0, <1>1 DEF Connect, Receive, Disconnect, Drop, Panic, ApplySet, RefuseSet,
                SetFails, Finish
  <2>3. \A t \in Threads : pc[t] = "write" /\ holder = t => holder' = t
    BY <1>0, <1>1 DEF Connect, Receive, Disconnect, Drop, Panic, ApplySet, RefuseSet,
                SetFails
  <2> QED BY <2>1, <2>2, <2>3, TornFrame
<1>2. ASSUME NEW t \in Threads, Step(t) \/ Faults(t)
      PROVE  TornOnlyWhileSaving'
  <2>1. CASE TryLock(t) \/ TryLockFails(t)
    BY <1>0, <2>1, TornFrame DEF TryLock, TryLockFails, CanLock, Finish, Threads
  <2>2. CASE Release(t)
    BY <1>0, <2>2, TornFrame DEF Release, history
  <2>3. CASE OpenFile(t)
    BY <1>0, <2>3 DEF OpenFile, TornOnlyWhileSaving, Control, Places, Guarded, LockedLabels
  <2>4. CASE OpenFails(t) \/ Switch(t)
    <3>1. pc' = [pc EXCEPT ![t] = "done"] /\ pc[t] # "write" /\ UNCHANGED <<disk, cut, holder>>
      BY <2>4 DEF OpenFails, SaveError, Finish, Switch
    <3> QED BY <1>0, <3>1, TornFrame
  <2>5. CASE WriteFile(t)
    BY <1>0, <2>5 DEF WriteFile, TornOnlyWhileSaving
  <2>6. CASE WriteLost(t)
    BY <2>6 DEF WriteLost, TornOnlyWhileSaving
  <2>7. CASE Restore(t) \/ RestoreFails(t)
    <3>1. /\ pc[t] = "restore" /\ UNCHANGED <<disk, cut, holder>>
          /\ UNCHANGED pc \/ pc' = [pc EXCEPT ![t] = AfterRestore(t)]
      BY <2>7 DEF Restore, RestoreFails
    <3> QED BY <1>0, <3>1, TornFrame
  <2> QED BY <1>2, <2>1, <2>2, <2>3, <2>4, <2>5, <2>6, <2>7 DEF Step, Faults
<1>3. CASE TakeEvent \/ SetLed \/ ReadFails
  <2>1. UNCHANGED <<disk, cut, holder>> /\ pc[Svc] # "write"
    BY <1>3 DEF TakeEvent, SetLed, ReadFails, Reads, history
  <2>2. \A t \in Threads \ {Svc} : pc'[t] = pc[t]
    BY <1>0, <1>3 DEF TakeEvent, SetLed, ReadFails
  <2> QED BY <2>1, <2>2, TornFrame
<1>4. CASE ReadKbd \/ ReadPwm \/ ReadPower \/ ReadMin \/ ReadMax
  <2>1. PICK next : pc' = [pc EXCEPT ![Svc] = next]
    BY <1>4 DEF ReadKbd, ReadPwm, ReadPower, ReadMin, ReadMax, Read
  <2>2. UNCHANGED <<disk, cut, holder>> /\ pc[Svc] # "write"
    BY <1>4 DEF ReadKbd, ReadPwm, ReadPower, ReadMin, ReadMax, Read
  <2> QED BY <1>0, <2>1, <2>2, TornFrame
<1>5. CASE Load \/ LoadFails \/ StartServing
  <2>1. UNCHANGED <<disk, cut, holder>>
    BY <1>5 DEF Load, LoadFails, Boot, StartServing, history
  <2>2. \A t \in Threads : pc[t] # "write"
    BY <1>5 DEF Load, LoadFails, Boot, StartServing, Control, Alone, Threads
  <2> QED BY <2>1, <2>2, TornFrame
<1>6. CASE StartFails
  BY <1>6, TornFrame DEF StartFails, Control, Alone, Threads
<1>7. CASE Crash \/ PowerCut
  BY <1>7 DEF Crash, PowerCut, TornOnlyWhileSaving
<1>8. CASE Announce \/ HotKey \/ EcForgets \/ UNCHANGED vars
  BY <1>8, TornFrame DEF Announce, HotKey, EcForgets, work, vars, history
<1> QED
  BY <1>1, <1>2, <1>3, <1>4, <1>5, <1>6, <1>7, <1>8
  DEF Next, ConnStep, SvcStep, MainStep, Threads

(* Two saves never get into each other: whoever has truncated the file     *)
(* still has the guard when it writes (handlers.rs:18-27, 170-176).        *)
THEOREM SavesDoNotMeet == Spec => []TornOnlyWhileSaving
<1>1. Init => TornOnlyWhileSaving
  BY DEF Init, TornOnlyWhileSaving
<1>2. Base /\ TornOnlyWhileSaving /\ [Next]_vars => TornOnlyWhileSaving'
  BY TornNext
<1> QED BY <1>1, <1>2, BaseHolds, PTL DEF Spec

-----------------------------------------------------------------------------
(* The telemetry opt-out.                                                  *)

(* The file says telemetry is off.                                         *)
FileSaysOff == disk \in Settings => ~disk.tele

(* While the opt-out stands, STATE, the flag and every readable file say   *)
(* no; and a command that is about to switch telemetry off has said so to  *)
(* STATE, and when it comes to the switch to the file.                     *)
OptOut ==
  /\ optedOut => ~cut /\ disk # Absent /\ FileSaysOff
  /\ optedOut /\ pc[Main] # "down" => ~state.tele
  /\ optedOut /\ pc[Main] = "accept" => ~enabled
  /\ \A c \in Conns :
       job[c].op = "telemetry_off" /\ pc[c] \in {"open", "write", "switch"} => ~state.tele
  /\ \A c \in Conns :
       job[c].op = "telemetry_off" /\ pc[c] = "switch" /\ ~cut => disk # Absent /\ FileSaysOff

(* A step that touches none of what OptOut speaks about, but may take a    *)
(* thread away from the three labels.                                      *)
LEMMA OptOutFrame ==
  ASSUME OptOut, UNCHANGED <<disk, cut, optedOut, enabled>>, pc'[Main] = pc[Main],
         state'.tele = state.tele,
         \A c \in Conns : pc'[c] \in {"open", "write", "switch"} =>
                            pc'[c] = pc[c] /\ job'[c] = job[c]
  PROVE  OptOut'
  BY DEF OptOut, FileSaysOff

LEMMA OptOutMain ==
  ASSUME Base, OptOut, TornOnlyWhileSaving,
         Load \/ LoadFails \/ StartServing \/ StartFails \/ Crash \/ PowerCut
  PROVE  OptOut'
<1> USE DEF Base, OptOut, FileSaysOff
<1>0. disk \in Settings \cup {Absent, Torn} /\ pc \in [Threads -> Labels] /\ Main \in Threads
  BY DEF TypeOK, Threads
<1>1. CASE Load
  <2>1. \A c \in Conns : pc[c] = "closed" /\ pc'[c] = "closed"
    BY <1>0, <1>1 DEF Load, Boot, Goto, Control, Alone, Threads
  <2>2. optedOut => Loadable
    <3>1. \A t \in Threads : pc[t] # "write"
      BY <1>1 DEF Load, Boot, Control, Alone, Threads
    <3> QED BY <1>0, <3>1 DEF TornOnlyWhileSaving, Loadable
  <2>3. optedOut => ~state'.tele
    BY <1>0, <1>1, <2>2 DEF Load, Boot, Loadable
  <2>4. UNCHANGED <<disk, cut, optedOut>> /\ pc'[Main] = "restore"
    BY <1>0, <1>1 DEF Load, Boot, Goto
  <2> QED BY <2>1, <2>3, <2>4
<1>2. CASE LoadFails
  <2>1. \A c \in Conns : pc'[c] = "closed"
    BY <1>0, <1>2 DEF LoadFails, Boot, Goto, Control, Alone, Threads
  <2> QED BY <1>2, <2>1 DEF LoadFails
<1>3. CASE StartServing
  <2>1. \A c \in Conns : pc'[c] = "closed"
    BY <1>0, <1>3 DEF StartServing, Control, Alone, Threads
  <2> QED BY <1>0, <1>3, <2>1 DEF StartServing, InitiallyEnabled, history
<1>4. CASE StartFails \/ Crash \/ PowerCut
  <2>1. ProcessGone
    BY <1>4 DEF StartFails, Crash, PowerCut
  <2>2. pc'[Main] = "down" /\ \A c \in Conns : pc'[c] = "closed"
    BY <2>1 DEF ProcessGone, Threads
  <2>3. optedOut' => optedOut /\ ~cut' /\ UNCHANGED disk
    BY <1>4 DEF StartFails, Crash, PowerCut
  <2> QED BY <2>2, <2>3
<1> QED BY <1>1, <1>2, <1>3, <1>4

LEMMA OptOutClient ==
  ASSUME Base, OptOut, NEW c \in Conns,
         Connect(c) \/ Receive(c) \/ Disconnect(c) \/ Drop(c) \/ Panic(c)
         \/ ApplySet(c) \/ RefuseSet(c) \/ SetFails(c)
  PROVE  OptOut'
<1>0. pc \in [Threads -> Labels] /\ job \in [Threads -> Request] /\ c \in Threads /\ c # Main
  BY DEF Base, TypeOK, Threads
<1>1. UNCHANGED <<disk, cut, optedOut, enabled, state>>
  BY DEF Connect, Receive, Disconnect, Drop, Panic, ApplySet, RefuseSet, SetFails, history
<1>2. /\ \A t \in Threads \ {c} : pc'[t] = pc[t] /\ job'[t] = job[t]
      /\ pc'[c] \notin {"open", "write", "switch"}
  BY <1>0 DEF Connect, Receive, Disconnect, Drop, Panic, ApplySet, RefuseSet, SetFails,
              Finish, Goto
<1> QED BY <1>0, <1>1, <1>2, OptOutFrame DEF Threads

LEMMA OptOutGuard ==
  ASSUME Base, OptOut, NEW t \in Threads, TryLock(t) \/ TryLockFails(t) \/ Release(t)
  PROVE  OptOut'
<1> USE DEF Base, Goto
<1>0. /\ pc \in [Threads -> Labels] /\ job \in [Threads -> Request] /\ state \in Settings
      /\ t # Main /\ Main \in Threads
  BY DEF TypeOK, Threads, TryLock, TryLockFails, Release, Control, Places
<1>1. CASE TryLock(t)
  <2>1. \A c \in Conns \ {t} : pc'[c] = pc[c] /\ pc[c] \notin {"open", "write", "switch"}
    BY <1>0, <1>1 DEF TryLock, CanLock, Control, Guarded, LockedLabels, Threads
  <2>2. pc'[Main] = pc[Main] /\ UNCHANGED <<disk, cut, enabled, job>> /\ pc'[t] # "switch"
    BY <1>0, <1>1 DEF TryLock, AfterLock
  <2>3. /\ job[t].op = "telemetry_off" => ~state'.tele
        /\ job[t].op \notin {"telemetry_off", "telemetry_on", "defaults"} =>
             state'.tele = state.tele
    <3>1. state' = Assigned(t)
      BY <1>1 DEF TryLock
    <3>2. job[t].op = "set" => Assigned(t).tele = state.tele
      BY <1>0 DEF Assigned, Settings
    <3>3. job[t].op = "telemetry_off" => Assigned(t).tele = FALSE
      BY <1>0 DEF Assigned, Settings
    <3> QED BY <3>1, <3>2, <3>3 DEF Assigned
  <2>4. optedOut' => optedOut /\ job[t].op \notin {"telemetry_on", "defaults"}
    BY <1>1 DEF TryLock
  <2> QED BY <2>1, <2>2, <2>3, <2>4 DEF OptOut, FileSaysOff
<1>2. CASE TryLockFails(t) \/ Release(t)
  <2>1. /\ \A u \in Threads \ {t} : pc'[u] = pc[u] /\ job'[u] = job[u]
        /\ pc'[t] \notin {"open", "write", "switch"}
    BY <1>0, <1>2 DEF TryLockFails, Release, Finish
  <2>2. UNCHANGED <<disk, cut, optedOut, enabled, state>>
    BY <1>2 DEF TryLockFails, Release, history
  <2> QED BY <1>0, <2>1, <2>2, OptOutFrame DEF Threads
<1> QED BY <1>1, <1>2

LEMMA OptOutSave ==
  ASSUME Base, OptOut, NEW t \in Threads,
         OpenFile(t) \/ OpenFails(t) \/ WriteFile(t) \/ WriteLost(t) \/ Switch(t)
  PROVE  OptOut'
<1> USE DEF Base, Goto
<1>0. /\ pc \in [Threads -> Labels] /\ state \in Settings /\ disk \in Settings \cup {Absent, Torn}
      /\ t # Main /\ Main \in Threads
  BY DEF TypeOK, Threads, OpenFile, OpenFails, WriteFile, WriteLost, Switch, Control, Places
<1>1. pc[t] \in LockedLabels /\ pc[Main] = "accept"
  BY <1>0 DEF OpenFile, OpenFails, WriteFile, WriteLost, Switch, LockedLabels, Control,
              Alone, Threads
<1>2. \A c \in Conns \ {t} : pc[c] \notin LockedLabels /\ pc'[c] = pc[c]
  BY <1>0, <1>1 DEF OpenFile, OpenFails, WriteFile, WriteLost, Switch, Control, Guarded,
                    Threads, SaveError, Finish
<1>3. pc'[Main] = "accept" /\ UNCHANGED <<state, job>>
  BY <1>0, <1>1 DEF OpenFile, OpenFails, WriteFile, WriteLost, Switch, SaveError, Finish
<1> USE DEF OptOut, FileSaysOff, LockedLabels
<1>4. CASE OpenFile(t)
  BY <1>0, <1>1, <1>2, <1>3, <1>4 DEF OpenFile, history
<1>5. CASE OpenFails(t)
  BY <1>0, <1>1, <1>2, <1>3, <1>5 DEF OpenFails, SaveError, Finish
<1>6. CASE WriteFile(t)
  <2>1. disk' = state /\ disk' \in Settings /\ cut' = FALSE /\ UNCHANGED <<optedOut, enabled>>
    BY <1>0, <1>6 DEF WriteFile
  <2>2. t \in Conns /\ job[t].op = "telemetry_off" => ~state.tele
    BY <1>6 DEF WriteFile
  <2> QED BY <1>1, <1>2, <1>3, <2>1, <2>2
<1>7. CASE WriteLost(t)
  BY <1>1, <1>2, <1>3, <1>7 DEF WriteLost
<1>8. CASE Switch(t)
  <2>1. t \in Conns /\ pc'[t] = "done" /\ UNCHANGED <<disk, cut>>
    BY <1>0, <1>8 DEF Switch, Jobs, Threads
  <2>2. optedOut' => /\ job[t].op = "telemetry_off" /\ ~cut /\ enabled' = FALSE
                     /\ ~state.tele /\ disk # Absent /\ FileSaysOff
    BY <1>8, <2>1 DEF Switch
  <2> QED BY <1>1, <1>2, <1>3, <2>1, <2>2
<1> QED BY <1>4, <1>5, <1>6, <1>7, <1>8

(* Restoring, reading back and whatever happens outside the daemon leaves  *)
(* the telemetry setting alone.                                            *)
LEMMA OptOutRestore ==
  ASSUME Base, OptOut, NEW t \in Threads, Restore(t) \/ RestoreFails(t)
  PROVE  OptOut'
<1>0. pc \in [Threads -> Labels] /\ Main \in Threads
  BY DEF Base, TypeOK, Threads
<1>1. UNCHANGED <<disk, cut, optedOut, enabled, state, job>>
  BY DEF Restore, RestoreFails
<1>2. UNCHANGED pc \/ pc' = [pc EXCEPT ![t] = AfterRestore(t)]
  BY DEF Restore, RestoreFails, Goto
<1>3. CASE t = Main
  <2>1. pc[Main] = "restore" /\ pc'[Main] \in {"restore", "telemetry"}
    BY <1>0, <1>2, <1>3 DEF Restore, RestoreFails, AfterRestore
  <2>2. \A c \in Conns : pc'[c] = pc[c]
    BY <1>0, <1>2, <1>3 DEF Threads
  <2> QED BY <1>1, <2>1, <2>2 DEF OptOut, FileSaysOff
<1>4. CASE t # Main
  BY <1>0, <1>1, <1>2, <1>4, OptOutFrame DEF AfterRestore, Threads
<1> QED BY <1>3, <1>4

LEMMA OptOutListener ==
  ASSUME Base, OptOut,
         \/ TakeEvent \/ SetLed \/ ReadFails
         \/ ReadKbd \/ ReadPwm \/ ReadPower \/ ReadMin \/ ReadMax
  PROVE  OptOut'
<1>0. pc \in [Threads -> Labels] /\ job \in [Threads -> Request] /\ state \in Settings
  BY DEF Base, TypeOK
<1>1. UNCHANGED <<disk, cut, optedOut, enabled>>
  BY DEF TakeEvent, SetLed, ReadFails, ReadKbd, ReadPwm, ReadPower, ReadMin, ReadMax,
         Read, history
<1>2. \A t \in Threads \ {Svc} : pc'[t] = pc[t] /\ job'[t] = job[t]
  BY <1>0 DEF TakeEvent, SetLed, ReadFails, ReadKbd, ReadPwm, ReadPower, ReadMin, ReadMax,
         Read, Goto
<1>3. UNCHANGED state \/ \E f \in Fields : \E v : state' = [state EXCEPT !.cfg[f] = v]
  BY DEF TakeEvent, SetLed, ReadFails, ReadKbd, ReadPwm, ReadPower, ReadMin, ReadMax,
         Read, Fields
<1>4. state'.tele = state.tele
  BY <1>0, <1>3 DEF Settings
<1> QED BY <1>1, <1>2, <1>4, OptOutFrame DEF Threads

LEMMA OptOutNext ==
  ASSUME Base, OptOut, TornOnlyWhileSaving, [Next]_vars
  PROVE  OptOut'
<1>1. ASSUME NEW t \in Threads, Step(t) \/ Faults(t)
      PROVE  OptOut'
  BY <1>1, OptOutGuard, OptOutSave, OptOutRestore DEF Step, Faults
<1>2. CASE Announce \/ HotKey \/ EcForgets \/ UNCHANGED vars
  <2>1. UNCHANGED <<disk, cut, optedOut, enabled, state, pc, job>>
    BY <1>2 DEF Announce, HotKey, EcForgets, work, vars, history
  <2> QED BY <2>1, OptOutFrame
<1> QED
  BY <1>1, <1>2, OptOutMain, OptOutClient, OptOutListener
  DEF Next, ConnStep, SvcStep, MainStep, Threads

(* A client that was told telemetry is off keeps it off, through other     *)
(* clients' saves and through restarts (handlers.rs:103-115, main.rs:157). *)
THEOREM OptOutIsKept == Spec => []OptOutHolds
<1>1. Init => OptOut
  BY DEF Init, OptOut, Threads
<1>2. Base /\ OptOut /\ TornOnlyWhileSaving /\ [Next]_vars => OptOut'
  BY OptOutNext
<1>3. OptOut => OptOutHolds
  BY DEF OptOut, OptOutHolds
<1> QED BY <1>1, <1>2, <1>3, BaseHolds, SavesDoNotMeet, PTL DEF Spec

-----------------------------------------------------------------------------
(* No silent loss.                                                         *)

(* A connection that has still to close, and so to save.                   *)
Live(c) == pc[c] # "closed" /\ ~(pc[c] = "done" /\ job[c].op = "close")

Saver == \/ \E c \in Conns : Live(c)
         \/ pc[Svc] \in Reads \cup {"open", "write"}

(* As long as no reason to the contrary is on record, either the file is   *)
(* what STATE is or somebody is going to save; and who has just saved and  *)
(* still has the guard has left them equal.                                *)
Saved ==
  /\ ~unsaved /\ pc[Main] # "down" => disk = state \/ Saver
  /\ holder # Free /\ pc[holder] = "done"
       /\ job[holder].op \in {"close", "sleep", "hibernate"} => unsaved \/ disk = state

(* A step after which everybody who was going to save still is, and the    *)
(* guard has not moved to somebody who has just saved.                     *)
LEMMA SavedFrame ==
  ASSUME Saved, UNCHANGED <<disk, state>>, unsaved => unsaved',
         pc[Main] = "down" => pc'[Main] = "down",
         Saver => Saver',
         \/ holder' = Free
         \/ pc'[holder'] # "done"
         \/ job'[holder'].op \notin {"close", "sleep", "hibernate"}
         \/ holder' = holder /\ pc'[holder] = pc[holder] /\ job'[holder] = job[holder]
  PROVE  Saved'
  BY DEF Saved

LEMMA SavedMain ==
  ASSUME Base, Saved,
         Load \/ LoadFails \/ StartServing \/ StartFails \/ Crash \/ PowerCut
  PROVE  Saved'
<1>0. pc \in [Threads -> Labels] /\ Main \in Threads
  BY DEF Base, TypeOK, Threads
<1>1. CASE Load \/ LoadFails
  <2>1. holder = Free
    <3>1. holder # Free => holder \in Conns \cup {Svc}
      BY DEF Base, TypeOK, Holds, Threads
    <3> QED BY <1>1, <3>1 DEF Load, LoadFails, Boot, Base, Control, Alone, Holds, LockedLabels, Reads
  <2>2. holder' = Free /\ (~unsaved' => disk' = state')
    BY <1>1, <2>1 DEF Load, LoadFails, Boot
  <2> QED BY <2>2 DEF Saved
<1>2. CASE StartServing
  <2>1. \A c \in Conns : ~Live(c)
    BY <1>2 DEF StartServing, Base, Control, Alone, Live
  <2>2. ~Saver
    BY <1>2, <2>1 DEF StartServing, Base, Control, Alone, Saver, Reads
  <2>3. holder = Free
    <3>1. holder # Free => holder \in Conns \cup {Svc}
      BY DEF Base, TypeOK, Holds, Threads
    <3> QED BY <1>2, <3>1 DEF StartServing, Base, Control, Alone, Holds, LockedLabels, Reads
  <2> QED BY <1>0, <1>2, <2>2, <2>3 DEF StartServing, Saved, history
<1>3. CASE StartFails \/ Crash \/ PowerCut
  <2>1. ProcessGone
    BY <1>3 DEF StartFails, Crash, PowerCut
  <2>2. pc'[Main] = "down" /\ holder' = Free
    BY <2>1 DEF ProcessGone, Threads
  <2> QED BY <2>2 DEF Saved
<1> QED BY <1>1, <1>2, <1>3

LEMMA SavedClient ==
  ASSUME Base, Saved, NEW c \in Conns,
         Connect(c) \/ Receive(c) \/ Disconnect(c) \/ Drop(c) \/ Panic(c)
         \/ ApplySet(c) \/ RefuseSet(c) \/ SetFails(c)
  PROVE  Saved'
<1>0. /\ pc \in [Threads -> Labels] /\ job \in [Threads -> Request]
      /\ c \in Threads /\ c # Main /\ c # Svc /\ Svc \in Threads
  BY DEF Base, TypeOK, Threads
<1>1. UNCHANGED <<disk, state>>
  BY DEF Connect, Receive, Disconnect, Drop, Panic, ApplySet, RefuseSet, SetFails, history
<1>2. \A t \in Threads \ {c} : pc'[t] = pc[t] /\ job'[t] = job[t]
  BY <1>0 DEF Connect, Receive, Disconnect, Drop, Panic, ApplySet, RefuseSet, SetFails,
              Finish, Goto
<1>3. pc'[Main] = pc[Main] /\ pc'[Svc] = pc[Svc]
  BY <1>0, <1>2 DEF Threads
<1>4. \A u \in Conns \ {c} : Live(u) => Live(u)'
  BY <1>2 DEF Live, Threads
<1>5. unsaved => unsaved'
  BY DEF Connect, Receive, Disconnect, Drop, Panic, ApplySet, RefuseSet, SetFails, history
<1>6. CASE Connect(c) \/ Receive(c) \/ Disconnect(c) \/ ApplySet(c) \/ RefuseSet(c) \/ SetFails(c)
  <2>1. Live(c)'
    <3>1. pc'[c] \in {"recv", "lock", "set"} \/ (pc'[c] = "done" /\ job'[c].op = "set")
      <4>1. CASE Connect(c) \/ Receive(c) \/ Disconnect(c) \/ ApplySet(c)
        <5>1. PICK label \in {"recv", "lock", "set"} : pc' = [pc EXCEPT ![c] = label]
          BY <4>1 DEF Connect, Receive, Disconnect, ApplySet, Goto
        <5>2. pc'[c] = label
          BY <1>0, <5>1
        <5> QED BY <5>1, <5>2
      <4>2. CASE RefuseSet(c) \/ SetFails(c)
        BY <1>0, <4>2 DEF RefuseSet, SetFails, Finish, Goto, Base, Jobs
      <4> QED BY <1>6, <4>1, <4>2
    <3> QED BY <3>1 DEF Live
  <2>2. Saver'
    BY <2>1 DEF Saver
  <2>3. holder' = holder /\ holder # c
    <3>1. pc[c] \in {"closed", "recv", "set"}
      BY <1>6 DEF Connect, Receive, Disconnect, ApplySet, RefuseSet, SetFails
    <3>2. holder # c
      BY <3>1, <1>0 DEF Base, Holds, LockedLabels, Reads
    <3> QED BY <1>6, <3>2 DEF Connect, Receive, Disconnect, ApplySet, RefuseSet, SetFails
  <2>4. holder \in Threads \cup {Free}
    BY DEF Base, TypeOK
  <2> QED BY <1>1, <1>2, <1>3, <1>5, <2>2, <2>3, <2>4, SavedFrame
<1>7. CASE Drop(c) \/ Panic(c)
  <2>1. unsaved' = TRUE
    BY <1>7 DEF Drop, Panic
  <2> QED BY <2>1 DEF Saved
<1> QED BY <1>6, <1>7

LEMMA SavedGuard ==
  ASSUME Base, Saved, NEW t \in Threads, TryLock(t) \/ TryLockFails(t) \/ Release(t)
  PROVE  Saved'
<1>0. /\ pc \in [Threads -> Labels] /\ job \in [Threads -> Request] /\ Svc \in Threads
      /\ t # Main /\ Main \in Threads /\ holder \in Threads \cup {Free}
  BY DEF Base, TypeOK, Threads, TryLock, TryLockFails, Release, Control, Places
<1>1. /\ UNCHANGED disk /\ (unsaved => unsaved') /\ pc'[Main] = pc[Main]
      /\ \A u \in Threads \ {t} : pc'[u] = pc[u] /\ job'[u] = job[u]
  <2>1. UNCHANGED disk /\ (unsaved => unsaved')
    <3>1. CASE TryLock(t) \/ Release(t)
      BY <3>1 DEF TryLock, Release, history
    <3>2. CASE TryLockFails(t)
      BY <3>2 DEF TryLockFails
    <3> QED BY <3>1, <3>2
  <2>2. \E label : pc' = [pc EXCEPT ![t] = label]
    BY DEF TryLock, TryLockFails, Release, Finish, Goto
  <2>3. UNCHANGED job \/ job' = [job EXCEPT ![t] = NoRequest]
    BY DEF TryLock, TryLockFails, Release
  <2> QED BY <1>0, <2>1, <2>2, <2>3
<1>2. \A u \in Conns \ {t} : Live(u) => Live(u)'
  BY <1>1 DEF Live, Threads
<1>3. CASE TryLock(t)
  <2>1. holder' = t /\ pc'[t] = AfterLock(job[t].op) /\ UNCHANGED <<job, unsaved>>
    BY <1>0, <1>3 DEF TryLock, Goto
  <2>2. CASE t \in Conns
    <3>1. AfterLock(job[t].op) # "closed" /\ (AfterLock(job[t].op) = "done" => job[t].op \in {"set", "get"})
      BY <2>2 DEF AfterLock, Base, Jobs, ClientOps
    <3>2. Live(t)'
      BY <2>1, <3>1 DEF Live
    <3>3. Saver'
      BY <2>2, <3>2 DEF Saver
    <3> QED BY <1>0, <2>1, <3>1, <3>3 DEF Saved
  <2>3. CASE t = Svc
    <3>1. job[Svc].op \in {"sleep", "hibernate", "wake"}
      BY <1>3, <2>3 DEF TryLock, Base, Jobs, Control, Listens
    <3>2. CASE job[Svc].op = "wake"
      <4>1. state' = state /\ pc'[Svc] = "restore" /\ pc[Svc] = "lock"
        BY <1>3, <2>1, <2>3, <3>2 DEF TryLock, Assigned, AfterLock
      <4>2. Saver => Saver'
        BY <1>2, <2>3, <4>1 DEF Saver, Reads
      <4> QED BY <1>1, <2>1, <2>3, <4>1, <4>2, SavedFrame
    <3>3. CASE job[Svc].op # "wake"
      <4>1. pc'[Svc] = "read_kbd"
        BY <2>1, <2>3, <3>1, <3>3 DEF AfterLock
      <4>2. Saver'
        BY <4>1 DEF Saver, Reads
      <4> QED BY <2>1, <2>3, <4>1, <4>2 DEF Saved
    <3> QED BY <3>2, <3>3
  <2> QED BY <1>0, <2>2, <2>3 DEF Threads
<1>4. CASE TryLockFails(t)
  <2>1. /\ UNCHANGED <<holder, state, job>> /\ pc[t] = "lock" /\ pc'[t] = "done" /\ holder # Free
    BY <1>0, <1>4 DEF TryLockFails, Finish, Goto, CanLock
  <2>2. holder # t /\ holder # Main
    BY <2>1 DEF Base, Holds, LockedLabels, Reads
  <2>3. CASE t \in Conns /\ job[t].op = "close"
    <3>1. CASE holder \in Conns
      <4>1. CASE Live(holder)
        <5>1. Live(holder)'
          BY <1>2, <2>1, <2>2, <3>1, <4>1
        <5>2. Saver'
          BY <2>1, <3>1, <5>1 DEF Saver
        <5> QED BY <1>0, <1>1, <2>1, <2>2, <5>2, SavedFrame
      <4>2. CASE ~Live(holder)
        <5>1. pc[holder] = "done" /\ job[holder].op = "close"
          BY <2>1, <4>2 DEF Live, Base, Holds, LockedLabels, Reads
        <5> QED BY <1>0, <1>1, <2>1, <2>2, <5>1 DEF Saved
      <4> QED BY <4>1, <4>2
    <3>2. CASE holder = Svc
      <4>1. CASE job[Svc].op = "wake"
        BY <1>4, <2>3, <3>2, <4>1 DEF TryLockFails, Saved
      <4>2. CASE job[Svc].op # "wake" /\ pc[Svc] # "done"
        <5>1. pc[Svc] \in Reads \cup {"open", "write"}
          BY <2>1, <3>2, <4>2 DEF Base, Holds, Jobs, LockedLabels
        <5>2. Saver'
          BY <1>0, <1>1, <2>2, <3>2, <5>1 DEF Saver
        <5> QED BY <1>0, <1>1, <2>1, <2>2, <5>2, SavedFrame
      <4>3. CASE job[Svc].op # "wake" /\ pc[Svc] = "done"
        <5>1. job[Svc].op \in {"sleep", "hibernate"}
          BY <4>3 DEF Base, Jobs, Control, Listens
        <5> QED BY <1>0, <1>1, <2>1, <2>2, <3>2, <4>3, <5>1 DEF Saved
      <4> QED BY <4>1, <4>2, <4>3
    <3> QED BY <1>0, <2>1, <2>2, <3>1, <3>2 DEF Threads
  <2>4. CASE t \in Conns /\ job[t].op # "close"
    <3>1. Live(t)'
      BY <2>1, <2>4 DEF Live
    <3>2. Saver'
      BY <2>4, <3>1 DEF Saver
    <3> QED BY <1>0, <1>1, <2>1, <2>2, <3>2, SavedFrame
  <2>5. CASE t = Svc
    <3>1. Saver => Saver'
      BY <1>2, <2>1, <2>5 DEF Saver, Reads
    <3> QED BY <1>0, <1>1, <2>1, <2>2, <3>1, SavedFrame
  <2> QED BY <1>0, <2>3, <2>4, <2>5 DEF Threads
<1>5. CASE Release(t)
  <2>1. /\ pc[t] = "done" /\ UNCHANGED <<state, unsaved>> /\ holder' # t
        /\ holder' = Free \/ holder' = holder
    BY <1>0, <1>5 DEF Release, history
  <2>2. t \in Conns /\ Live(t) => Live(t)'
    BY <1>0, <1>5 DEF Release, Live, Goto, NoRequest
  <2>3. pc[Svc] \in Reads \cup {"open", "write"} => pc'[Svc] = pc[Svc]
    BY <1>0, <1>1, <2>1 DEF Reads
  <2>4. Saver => Saver'
    BY <1>2, <2>2, <2>3 DEF Saver
  <2> QED BY <1>0, <1>1, <2>1, <2>4, SavedFrame
<1> QED BY <1>3, <1>4, <1>5

LEMMA SavedSave ==
  ASSUME Base, Saved, NEW t \in Threads,
         OpenFile(t) \/ OpenFails(t) \/ WriteFile(t) \/ WriteLost(t) \/ Switch(t)
  PROVE  Saved'
<1>0. /\ pc \in [Threads -> Labels] /\ job \in [Threads -> Request] /\ Svc \in Threads
      /\ t # Main /\ Main \in Threads /\ t # Free
  BY DEF Base, TypeOK, Threads, OpenFile, OpenFails, WriteFile, WriteLost, Switch, Control,
         Places
<1>1. CASE OpenFails(t) \/ WriteLost(t)
  BY <1>1 DEF OpenFails, WriteLost, Saved
<1>2. CASE WriteFile(t)
  BY <1>2 DEF WriteFile, Saved
<1>3. CASE OpenFile(t)
  <2>1. holder = t /\ holder' = t /\ pc'[t] = "write"
    BY <1>0, <1>3 DEF OpenFile, Goto, Base, Control, Guarded, LockedLabels
  <2>2. Saver'
    BY <1>0, <2>1 DEF Saver, Live, Threads
  <2> QED BY <2>1, <2>2 DEF Saved
<1>4. CASE Switch(t)
  <2>1. t \in Conns /\ job[t].op # "close" /\ pc'[t] = "done" /\ UNCHANGED <<job, holder>>
    BY <1>0, <1>4 DEF Switch, Goto, Base, Jobs, Threads
  <2>2. holder = t /\ job[t].op \in {"telemetry_on", "telemetry_off"}
    BY <1>0, <1>4, <2>1 DEF Switch, Base, Jobs, Control, Guarded, LockedLabels
  <2>3. Saver'
    BY <2>1 DEF Saver, Live
  <2> QED BY <2>1, <2>2, <2>3 DEF Saved
<1> QED BY <1>1, <1>2, <1>3, <1>4

LEMMA SavedRestore ==
  ASSUME Base, Saved, NEW t \in Threads, Restore(t) \/ RestoreFails(t)
  PROVE  Saved'
<1>0. /\ pc \in [Threads -> Labels] /\ Main \in Threads /\ Svc \in Threads
      /\ holder \in Threads \cup {Free}
  BY DEF Base, TypeOK, Threads
<1>1. /\ UNCHANGED <<disk, state, unsaved, job, holder>> /\ pc[t] = "restore"
      /\ UNCHANGED pc \/ pc' = [pc EXCEPT ![t] = AfterRestore(t)]
  BY DEF Restore, RestoreFails, Goto
<1>2. pc'[Main] = "down" <=> pc[Main] = "down"
  BY <1>0, <1>1 DEF AfterRestore
<1>3. t # Main => job[t].op \in {"apply", "defaults", "wake"}
  BY <1>1 DEF Base, Jobs, Threads
<1>4. \A u \in Conns : Live(u) => Live(u)'
  BY <1>0, <1>1, <1>3 DEF Live, AfterRestore, Threads
<1>5. pc[Svc] \in Reads \cup {"open", "write"} => pc'[Svc] = pc[Svc]
  BY <1>0, <1>1 DEF Reads
<1>6. Saver => Saver'
  BY <1>4, <1>5 DEF Saver
<1>7. CASE holder = t /\ t # Main
  BY <1>0, <1>1, <1>2, <1>3, <1>6, <1>7, SavedFrame
<1>8. CASE holder # t
  BY <1>0, <1>1, <1>2, <1>6, <1>8, SavedFrame
<1>9. CASE t = Main
  <2>1. holder # Main
    BY <1>9 DEF Base, Holds, Threads
  <2> QED BY <1>0, <1>1, <1>2, <1>6, <1>9, <2>1, SavedFrame
<1> QED BY <1>7, <1>8, <1>9

LEMMA SavedListener ==
  ASSUME Base, Saved,
         \/ TakeEvent \/ SetLed \/ ReadFails
         \/ ReadKbd \/ ReadPwm \/ ReadPower \/ ReadMin \/ ReadMax
  PROVE  Saved'
<1>0. /\ pc \in [Threads -> Labels] /\ job \in [Threads -> Request] /\ Svc \in Threads
      /\ holder \in Threads \cup {Free} /\ Svc \notin Conns
  BY DEF Base, TypeOK, Threads
<1>1. CASE TakeEvent \/ SetLed
  <2>1. UNCHANGED <<disk, state, unsaved, holder>> /\ pc[Svc] \in {"recv", "led"}
    BY <1>1 DEF TakeEvent, SetLed, history
  <2>2. \A t \in Threads \ {Svc} : pc'[t] = pc[t] /\ job'[t] = job[t]
    BY <1>0, <1>1 DEF TakeEvent, SetLed, Goto
  <2>3. holder # Svc
    BY <1>0, <2>1 DEF Base, Holds, LockedLabels, Reads, Threads
  <2>4. Saver => Saver'
    BY <1>0, <2>1, <2>2 DEF Saver, Live, Threads, Reads
  <2> QED BY <1>0, <2>1, <2>2, <2>3, <2>4, SavedFrame DEF Threads
<1>2. CASE ReadFails \/ ReadKbd \/ ReadPwm \/ ReadPower \/ ReadMin \/ ReadMax
  <2>1. PICK next \in Reads \cup {"open"} : pc' = [pc EXCEPT ![Svc] = next]
    BY <1>2 DEF ReadKbd, ReadPwm, ReadPower, ReadMin, ReadMax, Read, ReadFails, Goto,
                AfterReads, AfterFailedRead, Reads
  <2>2. pc[Svc] \in Reads /\ UNCHANGED <<holder, job>>
    BY <1>2 DEF ReadKbd, ReadPwm, ReadPower, ReadMin, ReadMax, Read, ReadFails, Reads
  <2>3. holder = Svc
    BY <1>0, <2>2 DEF Base, Control, Guarded, LockedLabels, Threads
  <2>4. pc'[Svc] # "done" /\ Saver'
    BY <1>0, <2>1 DEF Saver, Reads
  <2> QED BY <2>2, <2>3, <2>4 DEF Saved
<1> QED BY <1>1, <1>2

LEMMA SavedNext ==
  ASSUME Base, Saved, [Next]_vars
  PROVE  Saved'
<1>1. ASSUME NEW t \in Threads, Step(t) \/ Faults(t)
      PROVE  Saved'
  BY <1>1, SavedGuard, SavedSave, SavedRestore DEF Step, Faults
<1>2. CASE Announce \/ HotKey \/ EcForgets \/ UNCHANGED vars
  <2>1. UNCHANGED <<disk, state, unsaved, pc, job, holder>>
    BY <1>2 DEF Announce, HotKey, EcForgets, work, vars, history
  <2> QED BY <2>1 DEF Saved, Saver, Live
<1> QED
  BY <1>1, <1>2, SavedMain, SavedClient, SavedListener
  DEF Next, ConnStep, SvcStep, MainStep, Threads

(* What the clients have set is in the file when they have all gone, unless *)
(* a reason to the contrary is on record (main.rs:38-51).                  *)
THEOREM NothingIsLostSilently == Spec => []NoSilentLoss
<1>1. Init => Saved
  BY DEF Init, Saved, Threads
<1>2. Base /\ Saved /\ [Next]_vars => Saved'
  BY SavedNext
<1>3. Saved => NoSilentLoss
  BY DEF Saved, NoSilentLoss, Saver, Live, Reads
<1> QED BY <1>1, <1>2, <1>3, BaseHolds, PTL DEF Spec

-----------------------------------------------------------------------------
(* The EC and STATE.                                                       *)

(* What it means for the value x of f to have its origin.                  *)
Tells(f, why, x) ==
  /\ why = "state" => x = state.cfg[f]
  /\ why \in Conns => why \in Pending(f) /\ x = job[why].value
  /\ why = "unwritten" => pc[Main] = "down" \/ Due(f)
  /\ why \in Reasons => why \in Excuses(f)

Follows(f) == Tells(f, origin[f], ec[f])

(* What the listener has read of a setting of several registers is so.     *)
ReadsTrue ==
  /\ ec["kbd"] \in Custom => pwm = ec["kbd"]
  /\ pc[Svc] = "read_pwm" /\ origin["kbd"] = "state" => ec["kbd"] \in Custom
  /\ pc[Svc] = "read_max" /\ origin["charge"] = "state" => seen = ec["charge"]

Followed == ReadsTrue /\ \A f \in Fields : Follows(f)

LEMMA Order ==
  /\ Len(RestoreOrder) = 6
  /\ \A f \in Fields : \E i \in 1..6 : RestoreOrder[i] = f
  /\ \A i, j \in 1..6 : RestoreOrder[i] = RestoreOrder[j] => i = j
  BY DEF RestoreOrder, Fields

(* A restore that starts is going to write every field.                    *)
LEMMA AllDue ==
  ASSUME NEW t \in Threads, pc'[t] = "restore", idx'[t] = 1
  PROVE  \A f \in Fields : Due(f)'
  BY Order DEF Due, Remaining

LEMMA NotDue ==
  ASSUME NEW f, \A u \in Threads : pc[u] \notin {"restore", "open", "write"}
  PROVE  ~Due(f)
  BY DEF Due

(* Whoever is using the guard is alone in that; a thread that gets it is.  *)
LEMMA NobodyElse ==
  ASSUME Base, NEW t \in Threads \ {Main}, pc[t] \in LockedLabels
  PROVE  /\ holder = t /\ pc[Main] = "accept"
         /\ \A u \in Threads \ {t} : pc[u] \notin LockedLabels
  BY DEF Base, Control, Guarded, Alone, LockedLabels, Reads, Threads

LEMMA Nobody ==
  ASSUME Base, NEW t \in Threads \ {Main}, pc[t] = "lock", holder = Free
  PROVE  /\ pc[Main] = "accept"
         /\ \A u \in Threads : pc[u] \notin LockedLabels
  BY DEF Base, Control, Guarded, Alone, LockedLabels, Reads, Threads

(* Setters stay on their way to STATE, restores on their way to f.         *)
Kept(f) ==
  /\ \A c \in Pending(f) : c \in Pending(f)' /\ job'[c] = job[c]
  /\ Due(f) => Due(f)'
  /\ pc[Main] = "down" => pc'[Main] = "down"

(* The listener is not between two reads, or stays there.                  *)
ReadKept == pc'[Svc] \in {"read_pwm", "read_max"} => pc'[Svc] = pc[Svc] /\ seen' = seen

(* Steps that leave everybody who is due, pending or reading in its place. *)
InPlace ==
  /\ \A u \in Threads : pc[u] = "restore" => pc'[u] = "restore" /\ idx'[u] = idx[u]
  /\ \A u \in Threads :
       pc[u] \in {"open", "write"} /\ job[u].op = "defaults" =>
         pc'[u] \in {"open", "write"} /\ job'[u].op = "defaults"
  /\ \A c \in Conns : pc[c] = "lock" /\ job[c].op = "set" =>
                        pc'[c] = "lock" /\ job'[c] = job[c]
  /\ pc[Main] = "down" => pc'[Main] = "down"

LEMMA PlacesKept ==
  ASSUME InPlace, NEW f
  PROVE  Kept(f)
<1>1. Due(f) => Due(f)'
  BY DEF InPlace, Due, Remaining
<1>2. \A c \in Pending(f) : c \in Pending(f)' /\ job'[c] = job[c]
  BY DEF InPlace, Pending
<1> QED
  BY <1>1, <1>2 DEF Kept, InPlace

LEMMA OnlyOneOrigin ==
  /\ "state" \notin Conns /\ "unwritten" \notin Conns /\ Conns \cap Reasons = {}
  /\ "state" \notin Reasons /\ "unwritten" \notin Reasons
  BY DEF Reasons

(* A field that the step does not touch.                                   *)
LEMMA FollowsFrame ==
  ASSUME NEW f, Follows(f), Kept(f), UNCHANGED <<ec[f], origin[f], state.cfg[f]>>
  PROVE  Follows(f)'
  BY DEF Follows, Tells, Kept

(* A field with a reason.                                                  *)
LEMMA Excused ==
  ASSUME NEW f, origin'[f] \in Excuses(f)
  PROVE  Follows(f)'
  BY OnlyOneOrigin DEF Follows, Tells, Excuses

LEMMA CauseExcuses ==
  ASSUME NEW f, NEW why \in Excuses(f), origin'[f] = Cause(f, why), Due(f) => Due(f)'
  PROVE  Follows(f)'
<1>1. CASE Due(f)
  BY <1>1, OnlyOneOrigin DEF Cause, Follows, Tells
<1>2. CASE ~Due(f)
  BY <1>2, Excused DEF Cause
<1> QED
  BY <1>1, <1>2

(* A step that touches no field.                                           *)
LEMMA FollowedFrame ==
  ASSUME Followed, \A f \in Fields : Kept(f), ReadKept,
         UNCHANGED <<ec, pwm, origin>>, state'.cfg = state.cfg
  PROVE  Followed'
<1>1. ASSUME NEW f \in Fields
      PROVE  Follows(f)'
  BY FollowsFrame DEF Followed
<1>2. ReadsTrue'
  BY DEF Followed, ReadsTrue, ReadKept
<1> QED
  BY <1>1, <1>2 DEF Followed

(* The fields besides f when f is written.                                 *)
LEMMA PutOthers ==
  ASSUME Followed, NEW f \in Fields, NEW v, NEW x, NEW why,
         NEW over \in {{}, Clobbered(f, v)},
         \A h \in Fields \ over : h # f => ec'[h] = ec[h],
         origin' = Written(f, why, over), UNCHANGED state,
         NEW g \in Fields \ {f}, Kept(g)
  PROVE  Follows(g)'
<1>1. CASE g \in over
  <2>1. "shared" \in Excuses(g)
    BY <1>1 DEF Clobbered, Excuses, Reasons
  <2>2. origin'[g] = Cause(g, "shared")
    BY <1>1 DEF Written
  <2> QED
    BY <2>1, <2>2, CauseExcuses DEF Kept
<1>2. CASE g \notin over
  <2>1. ec'[g] = ec[g] /\ origin'[g] = origin[g]
    BY <1>2 DEF Written
  <2> QED
    BY <2>1, FollowsFrame DEF Followed
<1> QED
  BY <1>1, <1>2

(* What the listener has read stays true: nobody writes those settings     *)
(* into both EC and STATE while it reads.                                  *)
LEMMA PutReads ==
  ASSUME ReadsTrue, ReadKept, NEW f \in Fields,
         \A g \in {"kbd", "charge"} \ {f} : ec'[g] = ec[g],
         f = "kbd" /\ ec'["kbd"] \in Custom => pwm' = ec'["kbd"],
         f # "kbd" => pwm' = pwm,
         \A g \in {"kbd", "charge"} :
           origin'[g] = "state" =>
             (g # f /\ origin[g] = "state") \/ pc'[Svc] \notin {"read_pwm", "read_max"}
  PROVE  ReadsTrue'
  BY DEF ReadsTrue, ReadKept

(* A write that succeeds.                                                  *)
LEMMA FollowedPut ==
  ASSUME Base, Followed, NEW f \in Fields, NEW v \in Values, NEW why, PutEc(f, v, why),
         UNCHANGED state, \A g \in Fields \ {f} : Kept(g), ReadKept,
         Tells(f, why, v)',
         why = "state" => pc'[Svc] \notin {"read_pwm", "read_max"}
  PROVE  Followed'
<1>1. PICK x \in Shown(f, v) :
        /\ Write(f, x, Clobbered(f, v))
        /\ origin' = Written(f, IF x = v THEN why ELSE "bypass", Clobbered(f, v))
  BY DEF PutEc
<1>2. \A g \in Fields : ec'[g] = IF g = f THEN x ELSE IF g \in Clobbered(f, v) THEN Mixed
                                                     ELSE ec[g]
  BY <1>1 DEF Write
<1>3. origin'[f] = IF x = v THEN why ELSE "bypass"
  BY <1>1 DEF Written
<1>4. ASSUME NEW g \in Fields \ {f}
      PROVE  Follows(g)'
  BY <1>1, <1>2, PutOthers
<1>5. Follows(f)'
  <2>1. CASE x = v
    BY <1>2, <1>3, <2>1 DEF Follows
  <2>2. CASE x # v
    <3>1. f = "led"
      BY <1>1, <2>2 DEF Shown, SkipsBypass
    <3>2. origin'[f] \in Excuses(f)
      BY <1>3, <2>2, <3>1 DEF Excuses, Reasons
    <3> QED
      BY <3>2, Excused
  <2> QED
    BY <2>1, <2>2
<1>6. ReadsTrue'
  <2>1. \A g \in {"kbd", "charge"} \ {f} : ec'[g] = ec[g]
    BY <1>2, ClobberedIn DEF Fields
  <2>2. \A g \in {"kbd", "charge"} \ {f} : origin'[g] = origin[g]
    BY <1>1, ClobberedIn DEF Fields, Written
  <2>3. f = "kbd" /\ ec'["kbd"] \in Custom => pwm' = ec'["kbd"]
    BY <1>1, <1>2 DEF PutEc, Shown, SkipsBypass
  <2>4. f # "kbd" => pwm' = pwm
    BY DEF PutEc
  <2>5. origin'[f] = "state" => pc'[Svc] \notin {"read_pwm", "read_max"}
    BY <1>3
  <2> QED
    BY <2>1, <2>2, <2>3, <2>4, <2>5, PutReads DEF Followed
<1> QED
  BY <1>4, <1>5, <1>6 DEF Followed

(* What a write that fails does to the EC.                                 *)
LEMMA PutFailsWrites ==
  ASSUME Base, ReadsTrue, NEW f \in Fields, NEW v, NEW over, PutFails(f, v, over)
  PROVE  /\ over \in {{}, Clobbered(f, v)} /\ pwm' = pwm
         /\ \A g \in Fields \ over : g # f => ec'[g] = ec[g]
         /\ f = "kbd" /\ ec'["kbd"] \in Custom => pwm' = ec'["kbd"]
<1>1. CASE over = {} /\ UNCHANGED <<ec, latched>>
  BY <1>1 DEF PutFails, ReadsTrue
<1>2. CASE over = Clobbered(f, v) /\ \E x \in HalfSet(f, v) : Write(f, x, over)
  <2>1. PICK x \in HalfSet(f, v) : Write(f, x, over)
    BY <1>2
  <2>2. \A g \in Fields : ec'[g] = IF g = f THEN x ELSE IF g \in over THEN Mixed ELSE ec[g]
    BY <2>1 DEF Write
  <2>3. f = "kbd" => x = pwm
    BY <2>1 DEF HalfSet
  <2> QED
    BY <1>2, <2>2, <2>3 DEF PutFails
<1> QED
  BY <1>1, <1>2 DEF PutFails

LEMMA FollowedPutFails ==
  ASSUME Base, Followed, NEW f \in Fields, NEW v, NEW over, PutFails(f, v, over),
         origin' = Written(f, Cause(f, "failed"), over),
         UNCHANGED state, \A g \in Fields : Kept(g), ReadKept
  PROVE  Followed'
<1>1. /\ over \in {{}, Clobbered(f, v)} /\ pwm' = pwm
      /\ \A g \in Fields \ over : g # f => ec'[g] = ec[g]
      /\ f = "kbd" /\ ec'["kbd"] \in Custom => pwm' = ec'["kbd"]
  BY PutFailsWrites DEF Followed
<1>2. ASSUME NEW g \in Fields \ {f}
      PROVE  Follows(g)'
  BY <1>1, PutOthers
<1>3. origin'[f] = Cause(f, "failed") /\ "failed" \in Excuses(f)
  BY DEF Written, Excuses, Reasons
<1>4. Follows(f)'
  BY <1>3, CauseExcuses DEF Kept
<1>5. ReadsTrue'
  <2>1. over \subseteq {"led", "fan_cpu"}
    BY <1>1, ClobberedIn
  <2>2. \A g \in {"kbd", "charge"} \ {f} : ec'[g] = ec[g] /\ origin'[g] = origin[g]
    BY <1>1, <2>1 DEF Fields, Written
  <2>3. origin'[f] # "state"
    BY <1>3 DEF Cause
  <2> QED
    BY <1>1, <2>2, <2>3, PutReads DEF Followed
<1> QED
  BY <1>2, <1>4, <1>5 DEF Followed

LEMMA FollowedInit == Init => Followed
<1> SUFFICES ASSUME Init
             PROVE  Followed
  OBVIOUS
<1>1. pc[Main] = "down" /\ pc[Svc] = "off" /\ ec["kbd"] = Dflt
  BY DEF Init, Threads, Fields
<1>2. \A f \in Fields : origin[f] = "unwritten"
  BY DEF Init, Unwritten
<1> QED
  BY <1>1, <1>2, OnlyOneOrigin DEF Followed, ReadsTrue, Follows, Tells

LEMMA FollowedMain ==
  ASSUME Base, Followed,
         Load \/ LoadFails \/ StartServing \/ StartFails \/ Crash \/ PowerCut
  PROVE  Followed'
<1>0. pc \in [Threads -> Labels] /\ idx \in [Threads -> 1..Len(RestoreOrder)] /\ Main \in Threads
      /\ Svc \in Threads
  BY DEF Base, TypeOK, Threads
<1>1. CASE Load \/ LoadFails
  <2>1. pc'[Main] = "restore" /\ idx'[Main] = 1 /\ pc'[Svc] = "off" /\ UNCHANGED <<ec, pwm>>
    BY <1>0, <1>1 DEF Load, LoadFails, Boot, Goto, Base, Control, Alone
  <2>2. \A f \in Fields : Due(f)'
    BY <1>0, <2>1, AllDue
  <2>3. \A f \in Fields : origin'[f] = "unwritten"
    BY <1>1 DEF Load, LoadFails, Boot, Unwritten
  <2> QED
    BY <2>1, <2>2, <2>3, OnlyOneOrigin DEF Followed, Follows, Tells, ReadsTrue
<1>2. CASE StartServing
  <2>1. /\ pc' = [pc EXCEPT ![Main] = "accept", ![Svc] = "recv"] /\ pc[Main] = "telemetry"
        /\ pc[Svc] = "off" /\ UNCHANGED <<ec, pwm, seen, state, origin, job>>
        /\ \A c \in Conns : pc[c] = "closed"
    BY <1>2 DEF StartServing, history, Base, Control, Alone
  <2>2. \A t \in Threads : pc'[t] \in {"accept", "recv", "closed"} /\ pc[t] \in {"telemetry", "off", "closed"}
    BY <1>0, <2>1 DEF Threads
  <2>3. InPlace /\ ReadKept
    BY <1>0, <2>1, <2>2 DEF InPlace, ReadKept, Threads
  <2> QED
    BY <2>1, <2>3, PlacesKept, FollowedFrame
<1>3. CASE StartFails \/ Crash \/ PowerCut
  <2>1. ProcessGone
    BY <1>3 DEF StartFails, Crash, PowerCut
  <2>2. pc'[Main] = "down" /\ pc'[Svc] = "off" /\ UNCHANGED <<ec, pwm>>
    BY <2>1 DEF ProcessGone, Threads
  <2>3. \A f \in Fields : origin'[f] = "unwritten"
    BY <2>1 DEF ProcessGone, Unwritten
  <2> QED
    BY <2>2, <2>3, OnlyOneOrigin DEF Followed, Follows, Tells, ReadsTrue
<1> QED
  BY <1>1, <1>2, <1>3

(* What a client's thread does outside the guard.                          *)
LEMMA FollowedClient ==
  ASSUME Base, Followed, NEW c \in Conns,
         Connect(c) \/ Receive(c) \/ Disconnect(c) \/ Drop(c) \/ Panic(c) \/ RefuseSet(c)
  PROVE  Followed'
<1>0. /\ pc \in [Threads -> Labels] /\ job \in [Threads -> Request]
      /\ c \in Threads /\ c # Main /\ c # Svc /\ Main \in Threads /\ Svc \in Threads
  BY DEF Base, TypeOK, Threads
<1>1. UNCHANGED <<ec, pwm, seen, state, origin, idx>>
  BY DEF Connect, Receive, Disconnect, Drop, Panic, RefuseSet, history
<1>2. \A t \in Threads \ {c} : pc'[t] = pc[t] /\ job'[t] = job[t]
  BY <1>0 DEF Connect, Receive, Disconnect, Drop, Panic, RefuseSet, Finish, Goto
<1>3. /\ pc[c] \notin {"restore", "open", "write"}
      /\ ~(pc[c] = "lock" /\ job[c].op = "set")
  BY DEF Connect, Receive, Disconnect, Drop, Panic, RefuseSet
<1>4. InPlace /\ ReadKept
  BY <1>0, <1>1, <1>2, <1>3 DEF InPlace, ReadKept, Threads
<1> QED
  BY <1>1, <1>4, PlacesKept, FollowedFrame

(* A setter has written the EC, or failed to.                              *)
LEMMA FollowedSetter ==
  ASSUME Base, Followed, NEW c \in Conns, ApplySet(c) \/ SetFails(c)
  PROVE  Followed'
<1>0. /\ pc \in [Threads -> Labels] /\ job \in [Threads -> Request]
      /\ c \in Threads /\ c # Main /\ c # Svc /\ Main \in Threads /\ Svc \in Threads
  BY DEF Base, TypeOK, Threads
<1>1. PICK g \in Fields : g = job[c].field /\ job[c].op = "set"
  BY <1>0 DEF Request, ApplySet, SetFails, Base, Jobs
<1>2. job[c].value \in Values
  BY <1>0 DEF Request, ApplySet, SetFails, Refused
<1>3. pc[c] = "set" /\ UNCHANGED <<state, job, idx, seen>>
  BY DEF ApplySet, SetFails
<1>4. \A u \in Threads \ {c} : pc'[u] = pc[u]
  BY <1>0 DEF ApplySet, SetFails, Finish, Goto
<1>5. InPlace /\ ReadKept
  BY <1>0, <1>3, <1>4 DEF InPlace, ReadKept, Threads
<1>6. CASE ApplySet(c)
  <2>1. pc'[c] = "lock" /\ PutEc(g, job[c].value, c)
    BY <1>0, <1>1, <1>6 DEF ApplySet, Goto
  <2>2. Tells(g, c, job[c].value)'
    BY <1>1, <1>3, <2>1, OnlyOneOrigin DEF Tells, Pending
  <2> QED
    BY <1>1, <1>2, <1>3, <1>5, <2>1, <2>2, OnlyOneOrigin, PlacesKept, FollowedPut
<1>7. CASE SetFails(c)
  <2>1. PICK over : /\ PutFails(g, job[c].value, over)
                    /\ origin' = Written(g, Cause(g, "failed"), over)
    BY <1>1, <1>7 DEF SetFails
  <2> QED
    BY <1>3, <1>5, <2>1, PlacesKept, FollowedPutFails
<1> QED
  BY <1>6, <1>7

(* Who gets the guard finds nobody on the way to a field but setters: what  *)
(* a setter brings into STATE is in the EC, unless it was overtaken.       *)
LEMMA FollowedLock ==
  ASSUME Base, Followed, NEW t \in Threads, TryLock(t)
  PROVE  Followed'
<1>0. /\ pc \in [Threads -> Labels] /\ job \in [Threads -> Request] /\ state \in Settings
      /\ idx \in [Threads -> 1..Len(RestoreOrder)] /\ origin \in [Fields -> Origins]
      /\ t # Main /\ Main \in Threads /\ Svc \in Threads
  BY DEF Base, TypeOK, Threads, TryLock, Control, Places
<1>1. /\ pc[t] = "lock" /\ pc' = [pc EXCEPT ![t] = AfterLock(job[t].op)] /\ state' = Assigned(t)
      /\ idx' = [idx EXCEPT ![t] = 1] /\ origin' = OriginInState(t) /\ holder = Free
      /\ UNCHANGED <<ec, pwm, job, seen>>
  BY DEF TryLock, CanLock, Goto
<1>2. pc[Main] = "accept" /\ \A u \in Threads : pc[u] \notin LockedLabels
  BY <1>0, <1>1, Nobody
<1>3. \A f : ~Due(f)
  BY <1>2, NotDue DEF LockedLabels
<1>4. pc'[t] = AfterLock(job[t].op) /\ idx'[t] = 1 /\ \A u \in Threads \ {t} : pc'[u] = pc[u]
  BY <1>0, <1>1
<1>5. \A f, c : c \in Pending(f) /\ c # t => c \in Pending(f)' /\ job'[c] = job[c]
  BY <1>1, <1>4 DEF Pending, Threads
<1>6. pc'[Svc] \notin {"read_pwm", "read_max"}
  BY <1>0, <1>2, <1>4 DEF AfterLock, LockedLabels, Reads
<1>7. ReadsTrue'
  BY <1>1, <1>6 DEF Followed, ReadsTrue
<1>8. ASSUME NEW f \in Fields
      PROVE  Follows(f)'
  <2>0. /\ Follows(f) /\ origin[f] # "unwritten" /\ ec'[f] = ec[f]
        /\ origin[f] \in Conns \cup {"state"} \cup Excuses(f)
    BY <1>0, <1>1, <1>2, <1>3 DEF Followed, Follows, Tells, Origins
  <2>1. CASE origin'[f] = origin[f] /\ origin[f] \in Conns \ {t}
    BY <1>1, <1>5, <2>0, <2>1, OnlyOneOrigin DEF Follows, Tells
  <2>2. CASE job[t].op = "set"
    <3>1. state' = [state EXCEPT !.cfg[job[t].field] = job[t].value]
      BY <1>1, <2>2 DEF Assigned
    <3>2. origin' = [origin EXCEPT ![job[t].field] = IF @ = t THEN "state"
                                        ELSE IF @ = "state" THEN "overtaken" ELSE @]
      BY <1>1, <2>2 DEF OriginInState
    <3>3. CASE f # job[t].field
      <4>1. origin'[f] = origin[f] /\ state'.cfg[f] = state.cfg[f]
        BY <1>0, <3>1, <3>2, <3>3 DEF Settings
      <4>2. origin[f] # t
        <5>1. t \in Conns
          BY <1>0, <2>2 DEF Base, Control, Listens, Threads
        <5> QED
          BY <2>0, <3>3, <5>1, OnlyOneOrigin DEF Follows, Tells, Pending
      <4> QED
        BY <1>1, <2>0, <2>1, <4>1, <4>2, Excused, OnlyOneOrigin DEF Follows, Tells
    <3>4. CASE f = job[t].field
      <4>1. state'.cfg[f] = job[t].value
        BY <1>0, <3>1, <3>4 DEF Settings
      <4>2. origin'[f] = IF origin[f] = t THEN "state"
                         ELSE IF origin[f] = "state" THEN "overtaken" ELSE origin[f]
        BY <1>0, <3>2, <3>4
      <4>3. CASE origin[f] = t
        <5>1. ec[f] = job[t].value \/ t \notin Conns
          BY <2>0, <4>3 DEF Follows, Tells
        <5>2. t \in Conns
          BY <1>0, <2>2 DEF Base, Control, Listens, Threads
        <5> QED
          BY <1>1, <2>0, <4>1, <4>2, <4>3, <5>1, <5>2, OnlyOneOrigin DEF Follows, Tells
      <4>4. CASE origin[f] # t /\ origin[f] = "state"
        <5>1. origin'[f] \in Excuses(f)
          BY <4>2, <4>4 DEF Excuses, Reasons
        <5> QED
          BY <5>1, Excused
      <4>5. CASE origin[f] # t /\ origin[f] # "state"
        BY <2>0, <2>1, <4>2, <4>5, Excused
      <4> QED
        BY <4>3, <4>4, <4>5
    <3> QED
      BY <3>3, <3>4
  <2>3. CASE job[t].op # "set"
    <3>0. origin[f] # t \/ t \notin Conns
      BY <2>0, <2>3 DEF Follows, Tells, Pending
    <3>1. CASE job[t].op = "defaults"
      <4>1. pc'[t] = "open" /\ job'[t].op = "defaults"
        BY <1>1, <1>4, <3>1 DEF AfterLock
      <4>2. Due(f)'
        BY <4>1 DEF Due
      <4>3. origin'[f] = IF origin[f] \in Conns THEN origin[f] ELSE "unwritten"
        BY <1>1, <3>1 DEF OriginInState
      <4> QED
        BY <2>1, <3>0, <4>2, <4>3, OnlyOneOrigin DEF Follows, Tells
    <3>2. CASE job[t].op \in {"apply", "wake"}
      <4>1. pc'[t] = "restore" /\ state' = state
        BY <1>1, <1>4, <3>2 DEF AfterLock, Assigned
      <4>2. Due(f)'
        BY <1>4, <4>1, AllDue
      <4>3. origin'[f] = IF origin[f] \in Conns \cup {"state"} THEN origin[f] ELSE "unwritten"
        BY <1>1, <3>2 DEF OriginInState
      <4> QED
        BY <2>0, <2>1, <3>0, <4>1, <4>2, <4>3, OnlyOneOrigin DEF Follows, Tells
    <3>3. CASE job[t].op \notin {"defaults", "apply", "wake"}
      <4>1. state'.cfg = state.cfg
        BY <1>0, <1>1, <2>3, <3>3 DEF Assigned, Settings
      <4>2. origin' = origin
        BY <1>1, <2>3, <3>3 DEF OriginInState
      <4> QED
        BY <2>0, <2>1, <3>0, <4>1, <4>2, Excused, OnlyOneOrigin DEF Follows, Tells
    <3> QED
      BY <3>1, <3>2, <3>3
  <2> QED
    BY <2>2, <2>3
<1> QED
  BY <1>7, <1>8 DEF Followed

(* A setter that is refused leaves its value in the EC.                    *)
LEMMA FollowedUnlock ==
  ASSUME Base, Followed, NEW t \in Threads, TryLockFails(t) \/ Release(t)
  PROVE  Followed'
<1>0. /\ pc \in [Threads -> Labels] /\ job \in [Threads -> Request]
      /\ t # Main /\ Main \in Threads /\ Svc \in Threads
  BY DEF Base, TypeOK, Threads, TryLockFails, Release, Control, Places
<1>1. UNCHANGED <<ec, pwm, seen, state, idx>>
  BY DEF TryLockFails, Release
<1>2. pc[t] \in {"lock", "done"} /\ pc'[t] \in {"done", "closed", "recv"}
      /\ \A u \in Threads \ {t} : pc'[u] = pc[u] /\ job'[u] = job[u]
  BY <1>0 DEF TryLockFails, Release, Finish, Goto
<1>3. ReadKept
  BY <1>0, <1>1, <1>2 DEF ReadKept
<1>4. CASE Release(t)
  <2>1. origin' = origin /\ pc[t] = "done"
    BY <1>4 DEF Release, history
  <2>2. InPlace
    BY <1>0, <1>1, <1>2, <2>1 DEF InPlace, Threads
  <2> QED
    BY <1>1, <1>3, <2>1, <2>2, PlacesKept, FollowedFrame
<1>5. CASE TryLockFails(t)
  <2>1. /\ origin' = [f \in Fields |-> IF origin[f] = t THEN Cause(f, "refused") ELSE origin[f]]
        /\ pc[t] = "lock"
    BY <1>5 DEF TryLockFails
  <2>2. ASSUME NEW f \in Fields
        PROVE  Follows(f)'
    <3>1. Due(f) => Due(f)'
      BY <1>1, <1>2, <2>1 DEF Due, Remaining
    <3>2. CASE origin[f] = t
      <4>1. "refused" \in Excuses(f)
        BY DEF Excuses, Reasons
      <4> QED
        BY <2>1, <3>1, <3>2, <4>1, CauseExcuses
    <3>3. CASE origin[f] # t
      <4>1. \A c \in Pending(f) \ {t} : c \in Pending(f)' /\ job'[c] = job[c]
        BY <1>2 DEF Pending, Threads
      <4>2. origin'[f] = origin[f]
        BY <2>1, <3>3
      <4>3. pc[Main] = "down" => pc'[Main] = "down"
        BY <1>0, <1>2
      <4> QED
        BY <1>1, <3>1, <3>3, <4>1, <4>2, <4>3 DEF Followed, Follows, Tells
    <3> QED
      BY <3>2, <3>3
  <2>3. ReadsTrue'
    <3>1. \A f \in Fields : origin'[f] = "state" => origin[f] = "state"
      BY <2>1 DEF Cause
    <3> QED
      BY <1>1, <1>3, <3>1 DEF Followed, ReadsTrue, ReadKept, Fields
  <2> QED
    BY <2>2, <2>3 DEF Followed
<1> QED
  BY <1>4, <1>5

(* A restore that is not going to come to a field.                         *)
LEMMA StoppedFollows ==
  ASSUME Followed, NEW f \in Fields, origin'[f] = Stopped(origin)[f],
         \A c \in Pending(f) : c \in Pending(f)' /\ job'[c] = job[c],
         UNCHANGED <<ec[f], state.cfg[f]>>
  PROVE  Follows(f)'
<1>1. CASE origin[f] = "unwritten"
  <2>1. origin'[f] \in Excuses(f)
    BY <1>1 DEF Stopped, Excuses, Reasons
  <2> QED
    BY <2>1, Excused
<1>2. CASE origin[f] # "unwritten"
  <2>1. origin'[f] = origin[f]
    BY <1>2 DEF Stopped
  <2> QED
    BY <1>2, <2>1 DEF Followed, Follows, Tells
<1> QED
  BY <1>1, <1>2

LEMMA FollowedSave ==
  ASSUME Base, Followed, NEW t \in Threads,
         OpenFile(t) \/ OpenFails(t) \/ WriteFile(t) \/ WriteLost(t) \/ Switch(t)
  PROVE  Followed'
<1>0. /\ pc \in [Threads -> Labels] /\ idx \in [Threads -> 1..Len(RestoreOrder)]
      /\ t # Main /\ Main \in Threads /\ Svc \in Threads
      /\ pc[t] \in {"open", "write", "switch"}
  BY DEF Base, TypeOK, Threads, OpenFile, OpenFails, WriteFile, WriteLost, Switch, Control, Places
<1>1. UNCHANGED <<ec, pwm, seen, state, job>>
  BY DEF OpenFile, OpenFails, WriteFile, WriteLost, Switch
<1>2. /\ pc[Main] = "accept"
      /\ \A u \in Threads \ {t} : pc[u] \notin LockedLabels
  BY <1>0, NobodyElse DEF LockedLabels
<1>3. \A u \in Threads \ {t} : pc'[u] = pc[u]
  BY <1>0 DEF OpenFile, OpenFails, WriteFile, WriteLost, Switch, SaveError, Finish, Goto
<1>4. \A f : \A c \in Pending(f) : c \in Pending(f)' /\ job'[c] = job[c]
  BY <1>0, <1>1, <1>3 DEF Pending, Threads
<1>5. pc'[t] \in {"write", "done", "restore", "switch"}
  BY <1>0 DEF OpenFile, OpenFails, WriteFile, WriteLost, Switch, SaveError, Finish, Goto,
              AfterSave
<1>6. ReadKept
  BY <1>0, <1>1, <1>3, <1>5 DEF ReadKept
<1>7. ASSUME \/ job[t].op # "defaults"
             \/ pc'[t] = "restore" /\ idx'[t] = 1
             \/ pc[t] = "open" /\ pc'[t] = "write"
             \/ pc[t] = "switch",
             NEW f \in Fields
      PROVE  Kept(f)
  <2>1. Due(f) => Due(f)'
    <3>1. SUFFICES ASSUME Due(f)
                   PROVE  Due(f)'
      OBVIOUS
    <3>2. pc[t] \in {"open", "write"} /\ job[t].op = "defaults"
      BY <1>0, <1>2, <3>1 DEF Due, LockedLabels
    <3>3. CASE pc'[t] = "restore" /\ idx'[t] = 1
      BY <3>3, AllDue
    <3>4. CASE pc'[t] = "write"
      BY <1>1, <3>2, <3>4 DEF Due
    <3> QED
      BY <1>7, <3>2, <3>3, <3>4
  <2> QED
    BY <1>2, <1>4, <2>1 DEF Kept
<1>8. CASE OpenFile(t) \/ Switch(t)
  <2>1. origin' = origin /\ ((pc[t] = "open" /\ pc'[t] = "write") \/ pc[t] = "switch")
    BY <1>0, <1>8 DEF OpenFile, Switch, history, Goto
  <2> QED
    BY <1>1, <1>6, <1>7, <2>1, FollowedFrame
<1>9. CASE WriteFile(t) \/ WriteLost(t)
  <2>1. origin' = origin /\ pc'[t] = AfterSave(t) /\ idx'[t] = 1
    BY <1>0, <1>9 DEF WriteFile, WriteLost, Goto
  <2>2. job[t].op = "defaults" => pc'[t] = "restore"
    BY <2>1 DEF AfterSave
  <2> QED
    BY <1>1, <1>6, <1>7, <2>1, <2>2, FollowedFrame
<1>10. CASE OpenFails(t)
  <2>1. CASE job[t].op # "defaults"
    <3>1. origin' = origin
      BY <1>10, <2>1 DEF OpenFails
    <3> QED
      BY <1>1, <1>6, <1>7, <2>1, <3>1, FollowedFrame
  <2>2. CASE job[t].op = "defaults"
    <3>1. origin' = Stopped(origin)
      BY <1>10, <2>2 DEF OpenFails
    <3>2. \A f \in Fields : Follows(f)'
      BY <1>1, <1>4, <3>1, StoppedFollows
    <3>3. \A f \in Fields : origin'[f] = "state" => origin[f] = "state"
      BY <3>1 DEF Stopped
    <3>4. ReadsTrue'
      BY <1>1, <1>6, <3>3 DEF Followed, ReadsTrue, ReadKept, Fields
    <3> QED
      BY <3>2, <3>4 DEF Followed
  <2> QED
    BY <2>1, <2>2
<1> QED
  BY <1>8, <1>9, <1>10

(* Nobody reads while somebody restores.                                   *)
LEMMA RestoresAlone ==
  ASSUME Base, NEW t \in Threads, pc[t] = "restore"
  PROVE  pc[Svc] \notin Reads /\ pc[Main] # "down"
<1>1. CASE t = Main
  BY <1>1 DEF Base, Control, Alone, Reads
<1>2. CASE t # Main
  BY <1>2, NobodyElse DEF LockedLabels, Reads, Threads
<1> QED
  BY <1>1, <1>2

LEMMA FollowedRestore ==
  ASSUME Base, Followed, NEW t \in Threads, Restore(t)
  PROVE  Followed'
<1>0. /\ pc \in [Threads -> Labels] /\ idx \in [Threads -> 1..6] /\ state \in Settings
      /\ Svc \in Threads /\ Main \in Threads
      /\ RestoreOrder[idx[t]] \in Fields /\ state.cfg[RestoreOrder[idx[t]]] \in Values
  BY Order, OrderFields DEF Base, TypeOK, Threads, Settings
<1>f. PICK f \in Fields : f = RestoreOrder[idx[t]]
  BY <1>0
<1>v. PICK v \in Values : v = state.cfg[f]
  BY <1>0, <1>f
<1>1. pc[t] = "restore" /\ PutEc(f, v, "state") /\ UNCHANGED <<state, job, seen>>
  BY <1>f, <1>v DEF Restore
<1>2. /\ pc[Svc] \notin Reads /\ pc[Main] # "down"
      /\ pc'[t] \in {"restore", "telemetry", "done"}
      /\ \A u \in Threads \ {t} : pc'[u] = pc[u] /\ idx'[u] = idx[u]
  BY <1>0, <1>1, RestoresAlone DEF Restore, Goto, AfterRestore
<1>3. pc'[Svc] \notin {"read_pwm", "read_max"}
  BY <1>0, <1>2 DEF Reads
<1>4. ASSUME NEW g \in Fields \ {f}
      PROVE  Kept(g)
  <2>1. \A c \in Pending(g) : c \in Pending(g)' /\ job'[c] = job[c]
    BY <1>1, <1>2 DEF Pending, Threads
  <2>2. Due(g) => Due(g)'
    <3>1. SUFFICES ASSUME Due(g)
                   PROVE  Due(g)'
      OBVIOUS
    <3>2. PICK u \in Threads : \/ pc[u] = "restore" /\ g \in Remaining(u)
                               \/ pc[u] \in {"open", "write"} /\ job[u].op = "defaults"
      BY <3>1 DEF Due
    <3>3. CASE u # t
      BY <1>1, <1>2, <3>2, <3>3 DEF Due, Remaining
    <3>4. CASE u = t
      <4>1. PICK i \in idx[t]..6 : g = RestoreOrder[i]
        BY <1>1, <3>2, <3>4, Order DEF Remaining
      <4>2. i # idx[t]
        BY <1>f, <4>1
      <4>3. idx[t] # 6 /\ i \in (idx[t] + 1)..6
        BY <1>0, <4>1, <4>2
      <4>4. pc'[t] = "restore" /\ idx'[t] = idx[t] + 1
        BY <1>0, <1>1, <4>3, Order DEF Restore
      <4> QED
        BY <4>1, <4>3, <4>4, Order DEF Due, Remaining
    <3> QED
      BY <3>3, <3>4
  <2> QED
    BY <1>2, <2>1, <2>2 DEF Kept
<1>5. Tells(f, "state", v)'
  BY <1>v, <1>1, OnlyOneOrigin DEF Tells
<1> QED
  BY <1>0, <1>1, <1>3, <1>4, <1>5, FollowedPut DEF ReadKept

LEMMA FollowedRestoreFails ==
  ASSUME Base, Followed, NEW t \in Threads, RestoreFails(t)
  PROVE  Followed'
<1>0. /\ pc \in [Threads -> Labels] /\ idx \in [Threads -> 1..6] /\ Svc \in Threads
  BY Order DEF Base, TypeOK, Threads
<1>f. PICK f \in Fields : f = RestoreOrder[idx[t]]
  BY <1>0, OrderFields
<1>v. PICK v : v = state.cfg[f]
  OBVIOUS
<1>1. PICK over : PutFails(f, v, over) /\ origin' = Stopped(Written(f, "failed", over))
  BY <1>f, <1>v DEF RestoreFails
<1>2. pc[t] = "restore" /\ UNCHANGED <<state, job, seen>>
  BY DEF RestoreFails
<1>3. /\ over \in {{}, Clobbered(f, v)} /\ pwm' = pwm
      /\ \A g \in Fields \ over : g # f => ec'[g] = ec[g]
      /\ f = "kbd" /\ ec'["kbd"] \in Custom => pwm' = ec'["kbd"]
  BY <1>0, <1>1, PutFailsWrites DEF Followed
<1>4. pc[Svc] \notin Reads /\ \A u \in Threads \ {t} : pc'[u] = pc[u]
  BY <1>0, <1>2, RestoresAlone DEF RestoreFails, Goto
<1>5. pc'[t] \in {"telemetry", "done"}
  BY <1>0 DEF RestoreFails, Goto, AfterRestore
<1>6. \A g : \A c \in Pending(g) : c \in Pending(g)' /\ job'[c] = job[c]
  BY <1>2, <1>4 DEF Pending, Threads
<1>7. ASSUME NEW g \in Fields
      PROVE  Follows(g)'
  <2>1. CASE g = f
    <3>1. origin'[g] \in Excuses(g)
      BY <1>1, <2>1 DEF Stopped, Written, Excuses, Reasons
    <3> QED
      BY <3>1, Excused
  <2>2. CASE g # f /\ g \in over
    <3>1. "shared" \in Excuses(g) /\ "stopped" \in Excuses(g)
      BY <1>3, <2>2 DEF Clobbered, Excuses, Reasons
    <3>2. origin'[g] \in {"shared", "stopped"}
      BY <1>1, <2>2 DEF Stopped, Written, Cause
    <3> QED
      BY <3>1, <3>2, Excused
  <2>3. CASE g # f /\ g \notin over
    <3>1. origin'[g] = Stopped(origin)[g]
      BY <1>1, <2>3 DEF Stopped, Written
    <3> QED
      BY <1>2, <1>3, <1>6, <2>3, <3>1, StoppedFollows
  <2> QED
    BY <2>1, <2>2, <2>3
<1>8. ReadsTrue'
  <2>1. over \subseteq {"led", "fan_cpu"}
    BY <1>3, ClobberedIn
  <2>2. pc'[Svc] \notin {"read_pwm", "read_max"}
    BY <1>0, <1>4, <1>5 DEF Reads
  <2>3. \A g \in {"kbd", "charge"} \ {f} : ec'[g] = ec[g]
    BY <1>3, <2>1 DEF Fields
  <2> QED
    BY <1>0, <1>3, <2>2, <2>3, PutReads DEF Followed, ReadKept
<1> QED
  BY <1>7, <1>8 DEF Followed

(* The listener.                                                           *)
LEMMA FollowedEvent ==
  ASSUME Base, Followed, TakeEvent \/ SetLed
  PROVE  Followed'
<1>0. pc \in [Threads -> Labels] /\ Svc \in Threads /\ Main \in Threads /\ Main # Svc
  BY DEF Base, TypeOK, Threads
<1>1. /\ pc[Svc] \in {"recv", "led"} /\ pc'[Svc] \in {"lock", "led"}
      /\ \A u \in Threads \ {Svc} : pc'[u] = pc[u] /\ job'[u] = job[u]
      /\ UNCHANGED <<idx, seen, state>>
  BY <1>0 DEF TakeEvent, SetLed, Goto, Base, TypeOK
<1>2. InPlace /\ ReadKept
  BY <1>0, <1>1 DEF InPlace, ReadKept, Threads
<1>3. CASE TakeEvent
  BY <1>1, <1>2, <1>3, PlacesKept, FollowedFrame DEF TakeEvent, history
<1>4. CASE SetLed
  <2>m. PICK mode \in Values : mode = IF job[Svc].op = "sleep" THEN SleepAnim ELSE Dflt
    BY ValuesAssumption
  <2>w. PICK why : why = Cause("led", "listener")
    OBVIOUS
  <2>0. "led" \in Fields
    BY DEF Fields
  <2>1. CASE PutEc("led", mode, why)
    <3>1. Tells("led", why, mode)'
      <4>1. "listener" \in Excuses("led") /\ Kept("led")
        BY <1>2, PlacesKept DEF Excuses, Reasons
      <4>2. CASE Due("led")
        BY <2>w, <4>1, <4>2, OnlyOneOrigin DEF Cause, Tells, Kept
      <4>3. CASE ~Due("led")
        <5>1. why = "listener"
          BY <2>w, <4>3 DEF Cause
        <5> QED
          BY <4>1, <5>1, OnlyOneOrigin DEF Tells, Excuses
      <4> QED
        BY <4>2, <4>3
    <3>2. why # "state"
      BY <2>w DEF Cause
    <3> QED
      BY <1>1, <1>2, <2>0, <2>1, <3>1, <3>2, PlacesKept, FollowedPut
  <2>2. ASSUME NEW over, PutFails("led", mode, over),
               origin' = Written("led", Cause("led", "failed"), over)
        PROVE  Followed'
    BY <1>1, <1>2, <2>0, <2>2, PlacesKept, FollowedPutFails
  <2> QED
    BY <1>4, <2>m, <2>w, <2>1, <2>2 DEF SetLed
<1> QED
  BY <1>3, <1>4

(* What a read step leaves alone.                                          *)
LEMMA ReadKeeps ==
  ASSUME Base, pc[Svc] \in Reads, NEW next \in Reads \cup {"open"}, Goto(Svc, next),
         UNCHANGED <<job, idx>>
  PROVE  /\ \A f : Kept(f)
         /\ pc'[Svc] = next
         /\ pc[Main] = "accept"
         /\ \A f : ~Due(f)
<1>0. pc \in [Threads -> Labels] /\ Svc \in Threads /\ Svc # Main
  BY DEF Base, TypeOK, Threads
<1>1. /\ pc[Main] = "accept"
      /\ \A u \in Threads \ {Svc} : pc[u] \notin LockedLabels
  BY <1>0, NobodyElse DEF LockedLabels
<1>2. pc'[Svc] = next /\ \A u \in Threads \ {Svc} : pc'[u] = pc[u]
  BY <1>0 DEF Goto
<1>3. \A f : ~Due(f)
  BY <1>1, NotDue DEF LockedLabels, Reads
<1>4. \A f : \A c \in Pending(f) : c \in Pending(f)' /\ job'[c] = job[c]
  BY <1>2 DEF Pending, Threads
<1> QED
  BY <1>1, <1>2, <1>3, <1>4 DEF Kept

(* What is read of f comes to be what STATE says of it.                    *)
LEMMA Learns ==
  ASSUME Base, Followed, NEW f \in Fields, Learned(f), UNCHANGED ec,
         \A g \in Fields \ {f} : state'.cfg[g] = state.cfg[g],
         \A g \in Fields : Kept(g),
         origin[f] = "state" => state'.cfg[f] = ec[f]
  PROVE  /\ \A g \in Fields : Follows(g)'
         /\ \A g \in Fields \ {f} : origin'[g] = origin[g]
<1>0. origin \in [Fields -> Origins]
  BY DEF Base, TypeOK
<1>1. /\ \A g \in Fields \ {f} : origin'[g] = origin[g]
      /\ origin'[f] = IF origin[f] \notin Conns /\ state'.cfg[f] = ec[f] THEN "state"
                      ELSE origin[f]
  BY <1>0 DEF Learned
<1>2. \A g \in Fields \ {f} : Follows(g)'
  BY <1>1, FollowsFrame DEF Followed
<1>3. Follows(f)'
  <2>1. CASE origin'[f] = "state"
    BY <1>1, <2>1, OnlyOneOrigin DEF Follows, Tells
  <2>2. CASE origin'[f] # "state"
    <3>1. origin'[f] = origin[f] /\ origin[f] # "state"
      BY <1>1, <2>2
    <3> QED
      BY <3>1 DEF Followed, Follows, Tells, Kept
  <2> QED
    BY <2>1, <2>2
<1> QED
  BY <1>1, <1>2, <1>3

LEMMA FollowedRead ==
  ASSUME Base, Followed, ReadKbd \/ ReadPwm \/ ReadPower
  PROVE  Followed'
<1>0. state \in Settings
  BY DEF Base, TypeOK
<1>1. CASE ReadKbd
  <2>1. pc[Svc] = "read_kbd" /\ UNCHANGED <<ec, pwm, job, idx, seen>>
    BY <1>1 DEF ReadKbd, Read
  <2>2. CASE IsCustom(ec["kbd"])
    <3>1. Goto(Svc, "read_pwm") /\ UNCHANGED <<state, origin>>
      BY <1>1, <2>2 DEF ReadKbd, Read
    <3>2. (\A f : Kept(f)) /\ pc'[Svc] = "read_pwm"
      BY <2>1, <3>1, ReadKeeps DEF Reads
    <3>3. \A f \in Fields : Follows(f)'
      BY <2>1, <3>1, <3>2, FollowsFrame DEF Followed
    <3> QED
      BY <2>1, <2>2, <3>2, <3>3 DEF Followed, ReadsTrue, IsCustom
  <2>3. CASE ~IsCustom(ec["kbd"])
    <3>1. /\ Goto(Svc, "read_power") /\ Learned("kbd")
          /\ state' = [state EXCEPT !.cfg["kbd"] = ec["kbd"]]
      BY <1>1, <2>3 DEF ReadKbd, Read
    <3>2. (\A f : Kept(f)) /\ pc'[Svc] = "read_power"
      BY <2>1, <3>1, ReadKeeps DEF Reads
    <3>3. /\ state'.cfg["kbd"] = ec["kbd"]
          /\ \A g \in Fields \ {"kbd"} : state'.cfg[g] = state.cfg[g]
      BY <1>0, <3>1 DEF Settings, Fields
    <3>4. \A f \in Fields : Follows(f)'
      BY <2>1, <3>1, <3>2, <3>3, Learns DEF Fields
    <3> QED
      BY <2>1, <3>2, <3>4 DEF Followed, ReadsTrue
  <2> QED
    BY <2>2, <2>3
<1>2. CASE ReadPwm
  <2>1. /\ pc[Svc] = "read_pwm" /\ UNCHANGED <<ec, pwm, job, idx, seen>>
        /\ Goto(Svc, "read_power") /\ Learned("kbd")
        /\ state' = [state EXCEPT !.cfg["kbd"] = pwm]
    BY <1>2 DEF ReadPwm, Read
  <2>2. (\A f : Kept(f)) /\ pc'[Svc] = "read_power"
    BY <2>1, ReadKeeps DEF Reads
  <2>3. /\ state'.cfg["kbd"] = pwm
        /\ \A g \in Fields \ {"kbd"} : state'.cfg[g] = state.cfg[g]
    BY <1>0, <2>1 DEF Settings, Fields
  <2>4. origin["kbd"] = "state" => state'.cfg["kbd"] = ec["kbd"]
    BY <2>1, <2>3 DEF Followed, ReadsTrue
  <2>5. \A f \in Fields : Follows(f)'
    BY <2>1, <2>2, <2>3, <2>4, Learns DEF Fields
  <2> QED
    BY <2>1, <2>2, <2>5 DEF Followed, ReadsTrue
<1>3. CASE ReadPower
  <2>1. /\ pc[Svc] = "read_power" /\ UNCHANGED <<ec, pwm, job, idx, seen>>
        /\ Goto(Svc, "read_min") /\ Learned("power")
        /\ state' = [state EXCEPT !.cfg["power"] = ec["power"]]
    BY <1>3 DEF ReadPower, Read
  <2>2. (\A f : Kept(f)) /\ pc'[Svc] = "read_min"
    BY <2>1, ReadKeeps DEF Reads
  <2>3. /\ state'.cfg["power"] = ec["power"]
        /\ \A g \in Fields \ {"power"} : state'.cfg[g] = state.cfg[g]
    BY <1>0, <2>1 DEF Settings, Fields
  <2>4. \A f \in Fields : Follows(f)'
    BY <2>1, <2>2, <2>3, Learns DEF Fields
  <2> QED
    BY <2>1, <2>2, <2>4 DEF Followed, ReadsTrue
<1> QED
  BY <1>1, <1>2, <1>3

LEMMA FollowedReadCharge ==
  ASSUME Base, Followed, ReadMin \/ ReadMax \/ ReadFails
  PROVE  Followed'
<1>0. state \in Settings
  BY DEF Base, TypeOK
<1>1. CASE ReadMin
  <2>1. /\ pc[Svc] = "read_min" /\ UNCHANGED <<ec, pwm, job, idx, state, origin>>
        /\ Goto(Svc, "read_max") /\ seen' = ec["charge"]
    BY <1>1 DEF ReadMin, Read
  <2>2. (\A f : Kept(f)) /\ pc'[Svc] = "read_max"
    BY <2>1, ReadKeeps DEF Reads
  <2>3. \A f \in Fields : Follows(f)'
    BY <2>1, <2>2, FollowsFrame DEF Followed
  <2> QED
    BY <2>1, <2>2, <2>3 DEF Followed, ReadsTrue
<1>2. CASE ReadMax
  <2> DEFINE bounds == {seen, ec["charge"]}
             limits == {v \in bounds \ {Mixed} : bounds \subseteq {v, Mixed}}
  <2>1. /\ pc[Svc] = "read_max" /\ UNCHANGED <<ec, pwm, job, idx>>
        /\ Goto(Svc, "open") /\ Learned("charge")
        /\ \/ \E v \in limits : state' = [state EXCEPT !.cfg["charge"] = v]
           \/ (limits = {} \/ Mixed \in bounds) /\ UNCHANGED state
    BY <1>2 DEF ReadMax, Read, AfterReads
  <2>2. (\A f : Kept(f)) /\ pc'[Svc] = "open"
    BY <2>1, ReadKeeps DEF Reads
  <2>3. \A g \in Fields \ {"charge"} : state'.cfg[g] = state.cfg[g]
    BY <1>0, <2>1 DEF Settings, Fields
  <2>4. ASSUME origin["charge"] = "state"
        PROVE  state'.cfg["charge"] = ec["charge"]
    <3>1. ec["charge"] = state.cfg["charge"] /\ seen = ec["charge"]
      BY <2>1, <2>4 DEF Followed, ReadsTrue, Follows, Tells, Fields
    <3>2. ec["charge"] # Mixed
      BY <1>0, <3>1 DEF Settings, Fields
    <3>3. limits = {ec["charge"]} /\ Mixed \notin bounds
      BY <3>1, <3>2
    <3> HIDE DEF limits, bounds
    <3>4. state' = [state EXCEPT !.cfg["charge"] = ec["charge"]]
      BY <2>1, <3>3
    <3> QED
      BY <1>0, <3>4 DEF Settings, Fields
  <2>5. \A f \in Fields : Follows(f)'
    BY <2>1, <2>2, <2>3, <2>4, Learns DEF Fields
  <2> QED
    BY <2>1, <2>2, <2>5 DEF Followed, ReadsTrue
<1>3. CASE ReadFails
  <2>1. /\ pc[Svc] \in Reads /\ UNCHANGED <<ec, pwm, job, idx, state, origin>>
        /\ Goto(Svc, AfterFailedRead[pc[Svc]])
    BY <1>3 DEF ReadFails
  <2>2. AfterFailedRead[pc[Svc]] \in {"read_power", "read_min", "open"}
    BY <2>1 DEF AfterFailedRead, AfterReads, Reads
  <2>3. (\A f : Kept(f)) /\ pc'[Svc] \in {"read_power", "read_min", "open"}
    BY <2>1, <2>2, ReadKeeps DEF Reads
  <2> QED
    BY <2>1, <2>3, FollowedFrame DEF ReadKept
<1> QED
  BY <1>1, <1>2, <1>3

LEMMA FollowedOutside ==
  ASSUME Base, Followed, Announce \/ HotKey \/ EcForgets \/ UNCHANGED vars
  PROVE  Followed'
<1>1. UNCHANGED <<pc, job, idx, seen, state, pwm>>
  BY DEF Announce, HotKey, EcForgets, work, vars
<1>2. InPlace /\ ReadKept
  BY <1>1 DEF InPlace, ReadKept
<1>3. CASE Announce \/ UNCHANGED vars
  BY <1>1, <1>2, <1>3, PlacesKept, FollowedFrame DEF Announce, vars, history
<1>4. CASE HotKey
  <2>1. PICK f \in {"kbd", "power"}, v \in Values :
          /\ f = "kbd" => v \notin Custom
          /\ ec' = [ec EXCEPT ![f] = v]
          /\ origin' = [origin EXCEPT ![f] = Cause(f, "firmware")]
    BY <1>4 DEF HotKey
  <2>2. /\ \A g \in Fields \ {f} : ec'[g] = ec[g] /\ origin'[g] = origin[g]
        /\ f \in Fields /\ ec'[f] = v /\ origin'[f] = Cause(f, "firmware")
    BY <2>1 DEF Base, TypeOK, Fields
  <2>3. Follows(f)'
    BY <1>2, <2>2, PlacesKept, CauseExcuses DEF Excuses, Reasons, Kept
  <2>4. ASSUME NEW g \in Fields \ {f}
        PROVE  Follows(g)'
    BY <1>1, <1>2, <2>2, PlacesKept, FollowsFrame DEF Followed
  <2>5. ReadsTrue'
    BY <1>1, <2>1, <2>2 DEF Followed, ReadsTrue, Fields, Cause
  <2> QED
    BY <2>3, <2>4, <2>5 DEF Followed
<1>5. CASE EcForgets
  <2>1. \A f \in Fields : ec'[f] = Dflt /\ origin'[f] = Cause(f, "firmware")
    BY <1>5 DEF EcForgets
  <2>2. \A f \in Fields : Follows(f)'
    BY <1>2, <2>1, PlacesKept, CauseExcuses DEF Excuses, Reasons, Kept
  <2>3. ReadsTrue'
    BY <1>1, <2>1 DEF ReadsTrue, Fields, Cause
  <2> QED
    BY <2>2, <2>3 DEF Followed
<1> QED
  BY <1>3, <1>4, <1>5

LEMMA FollowedNext ==
  ASSUME Base, Followed, [Next]_vars
  PROVE  Followed'
<1>1. ASSUME NEW t \in Threads, Step(t) \/ Faults(t)
      PROVE  Followed'
  BY <1>1, FollowedLock, FollowedUnlock, FollowedSave, FollowedRestore, FollowedRestoreFails
     DEF Step, Faults
<1>2. ASSUME NEW c \in Conns,
             \/ Connect(c) \/ Receive(c) \/ Disconnect(c) \/ Drop(c)
             \/ ConnStep(c) \/ SetFails(c)
      PROVE  Followed'
  BY <1>1, <1>2, FollowedClient, FollowedSetter DEF ConnStep, Threads
<1>3. CASE SvcStep \/ ReadFails
  BY <1>1, <1>3, FollowedEvent, FollowedRead, FollowedReadCharge DEF SvcStep, Threads
<1>4. CASE MainStep \/ LoadFails \/ StartFails \/ Crash \/ PowerCut
  BY <1>1, <1>4, FollowedMain DEF MainStep, Threads
<1>5. CASE Announce \/ HotKey \/ EcForgets \/ UNCHANGED vars
  BY <1>5, FollowedOutside
<1> QED
  BY <1>1, <1>2, <1>3, <1>4, <1>5 DEF Next

(* While the daemon serves, a field of the EC that is not what STATE says  *)
(* has a request half-way, or one of the reasons of Excuses: a setter      *)
(* refused or overtaken, an access that failed, a restore that stopped,    *)
(* the firmware, and, for the LED and the CPU fan, the listener, the       *)
(* bypass left out and the shared register (handlers.rs:44-52, 178-219,    *)
(* main.rs:62-96).                                                         *)
THEOREM EcFollows == Spec => []EcFollowsState
<1>1. Init => Followed
  BY FollowedInit
<1>2. Base /\ Followed /\ [Next]_vars => Followed'
  BY FollowedNext
<1>3. Base /\ Followed => EcFollowsState
  BY DEF Base, TypeOK, Followed, Follows, Tells, EcFollowsState, Halfway, Origins
<1> QED
  BY <1>1, <1>2, <1>3, BaseHolds, PTL DEF Spec

-----------------------------------------------------------------------------
(* RestoreDefaults.                                                        *)

(* A field that the reset has written has been written.                    *)
Done(f) == origin[f] \notin {"unwritten", "overtaken", "stopped"}

(* How far a RestoreDefaults of c has got.                                 *)
ResetSoFar(c) ==
  job[c].op = "defaults" =>
    /\ pc[c] \in {"open", "write", "restore"} => state = Default
    /\ pc[c] = "restore" => /\ disk = Default \/ cut
                            /\ \A f \in Fields \ Remaining(c) : Done(f)
    /\ pc[c] = "done" /\ result[c] = "Success" =>
         /\ holder = c /\ state = Default /\ (disk = Default \/ cut)
         /\ \A f \in Fields : Done(f)

Resetting == \A c \in Conns : ResetSoFar(c)

(* What a step may do to the fields that a reset by c has written.         *)
Writing(c)   == pc[c] \in {"restore", "done"} /\ holder = c
StillDone(c) == Writing(c) => \A f \in Fields : Done(f) /\ ~Due(f) => Done(f)'

LEMMA WrittenIsDone ==
  ASSUME NEW g, NEW why, NEW over, origin' = Written(g, why, over),
         ~Due(g) => why \notin {"unwritten", "overtaken", "stopped"},
         NEW f \in Fields, Done(f), ~Due(f)
  PROVE  Done(f)'
<1>1. origin'[f] = IF f = g THEN why
                   ELSE IF f \in over THEN Cause(f, "shared") ELSE origin[f]
  BY DEF Written
<1> QED
  BY <1>1 DEF Done, Cause

(* Nobody else is due.                                                     *)
LEMMA WritesAlone ==
  ASSUME Base, NEW c \in Conns, Writing(c)
  PROVE  /\ pc[Main] = "accept" /\ pc[Svc] \notin Reads
         /\ \A u \in Threads \ {c} : pc[u] \notin LockedLabels
         /\ \A f : pc[c] = "done" \/ f \notin Remaining(c) => ~Due(f)
<1>1. pc[Main] = "accept"
  BY DEF Writing, Base, Control, Alone
<1>2. \A u \in Threads \ {c} : pc[u] \notin LockedLabels
  BY <1>1 DEF Writing, Base, Control, Guarded, LockedLabels, Reads, Threads
<1>3. pc[Svc] \notin Reads
  BY <1>2 DEF LockedLabels, Threads
<1>4. \A f : pc[c] = "done" \/ f \notin Remaining(c) => ~Due(f)
  BY <1>2 DEF Due, Writing, LockedLabels
<1> QED
  BY <1>1, <1>2, <1>3, <1>4

(* Whoever else takes a step, a reset under way holds the guard.           *)
LEMMA ResetOther ==
  ASSUME Base, Resetting, NEW c \in Conns,
         pc'[c] = pc[c], job'[c] = job[c], result'[c] = result[c], idx'[c] = idx[c],
         holder = c => holder' = c /\ UNCHANGED <<state, disk, cut>>,
         StillDone(c)
  PROVE  ResetSoFar(c)'
<1>1. pc[c] \in {"open", "write", "restore"} => holder = c
  BY DEF Base, Control, Guarded, LockedLabels, Threads
<1>2. ResetSoFar(c)
  BY DEF Resetting
<1>3. CASE pc[c] \in {"restore", "done"} /\ holder = c
  <2>1. \A f \in Fields : Done(f) /\ (pc[c] = "done" \/ f \notin Remaining(c)) => Done(f)'
    BY <1>3, WritesAlone DEF StillDone, Writing
  <2>2. Remaining(c)' = Remaining(c)
    BY DEF Remaining
  <2> QED
    BY <1>2, <1>3, <2>1, <2>2 DEF ResetSoFar
<1>4. CASE ~(pc[c] \in {"restore", "done"} /\ holder = c)
  BY <1>1, <1>2, <1>4 DEF ResetSoFar
<1> QED
  BY <1>3, <1>4

LEMMA ResettingMain ==
  ASSUME Base, Resetting,
         Load \/ LoadFails \/ StartServing \/ StartFails \/ Crash \/ PowerCut
  PROVE  Resetting'
<1>0. pc \in [Threads -> Labels]
  BY DEF Base, TypeOK
<1>1. ASSUME NEW c \in Conns
      PROVE  pc'[c] = "closed"
  <2>1. CASE Load \/ LoadFails \/ StartServing
    <3>1. pc[c] = "closed" /\ c \in Threads \ {Main, Svc}
      BY <2>1 DEF Load, LoadFails, Boot, StartServing, Base, Control, Alone, Threads
    <3> QED
      BY <1>0, <2>1, <3>1 DEF Load, LoadFails, Boot, StartServing, Goto
  <2>2. CASE StartFails \/ Crash \/ PowerCut
    BY <2>2 DEF StartFails, Crash, PowerCut, ProcessGone, Threads
  <2> QED
    BY <2>1, <2>2
<1> QED
  BY <1>1 DEF Resetting, ResetSoFar

LEMMA ResettingClient ==
  ASSUME Base, Resetting, NEW c \in Conns,
         \/ Connect(c) \/ Receive(c) \/ Disconnect(c) \/ Drop(c)
         \/ Panic(c) \/ ApplySet(c) \/ RefuseSet(c) \/ SetFails(c)
  PROVE  Resetting'
<1>0. /\ pc \in [Threads -> Labels] /\ job \in [Threads -> Request]
      /\ result \in [Threads -> {"Success", "Error"}] /\ c \in Threads
  BY DEF Base, TypeOK, Threads
<1>1. ASSUME NEW d \in Conns \ {c}
      PROVE  ResetSoFar(d)'
  <2>1. pc'[d] = pc[d] /\ job'[d] = job[d] /\ result'[d] = result[d]
    BY <1>0 DEF Connect, Receive, Disconnect, Drop, Panic, ApplySet, RefuseSet, SetFails,
                Finish, Goto, Threads
  <2>2. UNCHANGED <<state, disk, cut, idx>> /\ (holder = d => holder' = d)
    BY DEF Connect, Receive, Disconnect, Drop, Panic, ApplySet, RefuseSet, SetFails, history
  <2>3. StillDone(d)
    <3>1. CASE ApplySet(c)
      <4>1. PICK why, over : /\ why \in {c, "bypass"}
                             /\ origin' = Written(job[c].field, why, over)
        BY <3>1 DEF ApplySet, PutEc
      <4>2. why \notin {"unwritten", "overtaken", "stopped"}
        BY <4>1, OnlyOneOrigin DEF Reasons
      <4> QED
        BY <4>1, <4>2, WrittenIsDone DEF StillDone
    <3>2. CASE SetFails(c)
      <4>1. PICK over : origin' = Written(job[c].field, Cause(job[c].field, "failed"), over)
        BY <3>2 DEF SetFails
      <4>2. ~Due(job[c].field) => Cause(job[c].field, "failed") = "failed"
        BY DEF Cause
      <4> QED
        BY <4>1, <4>2, WrittenIsDone DEF StillDone
    <3>3. CASE ~(ApplySet(c) \/ SetFails(c))
      <4>1. origin' = origin
        BY <3>3 DEF Connect, Receive, Disconnect, Drop, Panic, RefuseSet, history
      <4> QED
        BY <4>1 DEF StillDone, Done
    <3> QED
      BY <3>1, <3>2, <3>3
  <2> QED
    BY <2>1, <2>2, <2>3, ResetOther
<1>2. \/ pc'[c] \in {"recv", "lock", "set", "closed"}
      \/ pc'[c] = "done" /\ result'[c] = "Error"
  <2>1. CASE Receive(c)
    BY <1>0, <2>1 DEF Receive, Goto
  <2>2. CASE ~Receive(c)
    BY <1>0, <2>2 DEF Connect, Disconnect, Drop, Panic, ApplySet, RefuseSet, SetFails,
                      Finish, Goto
  <2> QED
    BY <2>1, <2>2
<1>3. ResetSoFar(c)'
  BY <1>2 DEF ResetSoFar
<1> QED
  BY <1>1, <1>3 DEF Resetting

LEMMA ResettingGuard ==
  ASSUME Base, Resetting, NEW t \in Threads,
         TryLock(t) \/ TryLockFails(t) \/ Release(t)
  PROVE  Resetting'
<1>0. /\ pc \in [Threads -> Labels] /\ job \in [Threads -> Request]
      /\ result \in [Threads -> {"Success", "Error"}] /\ Free \notin Conns
  BY DEF Base, TypeOK, Threads
<1>1. ASSUME NEW d \in Conns \ {t}
      PROVE  ResetSoFar(d)'
  <2>1. pc'[d] = pc[d] /\ job'[d] = job[d] /\ result'[d] = result[d]
    BY <1>0 DEF TryLock, TryLockFails, Release, Finish, Goto, Threads
  <2>2. holder = d => holder' = d /\ UNCHANGED <<state, disk, cut>>
    BY <1>0 DEF TryLock, CanLock, TryLockFails, Release, history
  <2>3. idx'[d] = idx[d]
    BY DEF TryLock, TryLockFails, Release, Base, TypeOK, Threads
  <2>4. StillDone(d)
    <3>1. CASE TryLock(t)
      BY <1>0, <3>1 DEF TryLock, CanLock, StillDone, Writing
    <3>2. CASE TryLockFails(t)
      <4>1. \A f \in Fields : origin'[f] \in {origin[f], Cause(f, "refused")}
        BY <3>2 DEF TryLockFails
      <4> QED
        BY <4>1 DEF StillDone, Done, Cause
    <3>3. CASE Release(t)
      BY <3>3 DEF Release, history, StillDone, Done
    <3> QED
      BY <3>1, <3>2, <3>3
  <2> QED
    BY <2>1, <2>2, <2>3, <2>4, ResetOther
<1>2. ASSUME t \in Conns
      PROVE  ResetSoFar(t)'
  <2>1. CASE TryLock(t)
    <3>1. pc'[t] = AfterLock(job[t].op) /\ state' = Assigned(t) /\ job' = job
      BY <1>0, <2>1 DEF TryLock, Goto
    <3>2. job[t].op = "defaults" => pc'[t] = "open" /\ state' = Default
      BY <3>1 DEF AfterLock, Assigned
    <3> QED
      BY <3>1, <3>2 DEF ResetSoFar
  <2>2. CASE TryLockFails(t)
    <3>1. pc'[t] = "done" /\ result'[t] = "Error"
      BY <1>0, <2>2 DEF TryLockFails, Finish, Goto
    <3> QED
      BY <3>1 DEF ResetSoFar
  <2>3. CASE Release(t)
    <3>1. pc'[t] \in {"closed", "recv"}
      BY <1>0, <2>3 DEF Release, Goto
    <3> QED
      BY <3>1 DEF ResetSoFar
  <2> QED
    BY <2>1, <2>2, <2>3
<1> QED
  BY <1>1, <1>2 DEF Resetting

LEMMA ResettingSave ==
  ASSUME Base, Resetting, NEW t \in Threads,
         \/ OpenFile(t) \/ OpenFails(t) \/ WriteFile(t) \/ WriteLost(t) \/ Switch(t)
         \/ Restore(t) \/ RestoreFails(t)
  PROVE  Resetting'
<1>0. /\ pc \in [Threads -> Labels] /\ result \in [Threads -> {"Success", "Error"}]
      /\ idx \in [Threads -> 1..6]
  BY Order DEF Base, TypeOK
<1>1. /\ pc[t] \in {"open", "write", "switch", "restore"}
      /\ UNCHANGED <<job, holder, state>>
  BY DEF OpenFile, OpenFails, WriteFile, WriteLost, Switch, Restore, RestoreFails, history
<1>2. t # Main => holder = t
  BY <1>1 DEF Base, Control, Guarded, LockedLabels
<1>3. t = Main => holder \notin Conns
  BY <1>1 DEF Base, Holds, Control, Alone, LockedLabels, Reads, Threads
<1>4. ASSUME NEW d \in Conns \ {t}
      PROVE  ResetSoFar(d)'
  <2>1. pc'[d] = pc[d] /\ result'[d] = result[d] /\ idx'[d] = idx[d]
    BY <1>0 DEF OpenFile, OpenFails, WriteFile, WriteLost, Switch, Restore, RestoreFails,
                SaveError, Finish, Goto, Threads
  <2>2. ~Writing(d)
    BY <1>2, <1>3, <1>4 DEF Writing
  <2> QED
    BY <1>1, <1>2, <1>3, <2>1, <2>2, ResetOther DEF StillDone
<1>5. ASSUME t \in Conns, job[t].op = "defaults"
      PROVE  ResetSoFar(t)'
  <2>0. holder = t /\ ResetSoFar(t)
    BY <1>2, <1>5 DEF Resetting, Threads
  <2>1. CASE OpenFile(t)
    <3>1. pc[t] = "open" /\ pc'[t] = "write"
      BY <1>0, <2>1 DEF OpenFile, Goto
    <3> QED
      BY <1>1, <1>5, <2>0, <3>1 DEF ResetSoFar
  <2>2. CASE OpenFails(t) \/ RestoreFails(t)
    <3>1. pc'[t] = "done" /\ result'[t] = "Error"
      BY <1>0, <1>5, <2>2 DEF OpenFails, RestoreFails, SaveError, Finish, Goto, AfterRestore
    <3> QED
      BY <3>1 DEF ResetSoFar
  <2>3. CASE WriteFile(t) \/ WriteLost(t)
    <3>1. pc[t] = "write" /\ pc'[t] = "restore" /\ idx'[t] = 1 /\ (disk' = state \/ cut')
      BY <1>0, <1>5, <2>3 DEF WriteFile, WriteLost, Goto, AfterSave
    <3>2. Fields \subseteq Remaining(t)'
      BY <3>1, Order DEF Remaining
    <3> QED
      BY <1>1, <1>5, <2>0, <3>1, <3>2 DEF ResetSoFar
  <2>4. CASE Switch(t)
    BY <1>5, <2>4 DEF Switch, Base, Jobs
  <2>5. CASE Restore(t)
    <3>f. PICK f \in Fields : f = RestoreOrder[idx[t]]
      BY <1>0, OrderFields
    <3>1. /\ pc[t] = "restore" /\ pc'[t] \in {"restore", "done"}
          /\ UNCHANGED <<disk, cut, result>>
      BY <1>0, <1>5, <2>5 DEF Restore, Goto, AfterRestore
    <3>2. PICK why, over : why \in {"state", "bypass"} /\ origin' = Written(f, why, over)
      <4>1. PutEc(f, state.cfg[f], "state")
        BY <2>5, <3>f DEF Restore
      <4> DEFINE v == state.cfg[f]
                 over == Clobbered(f, v)
      <4>2. PICK x \in Shown(f, v) : origin' = Written(f, IF x = v THEN "state" ELSE "bypass", over)
        BY <4>1 DEF PutEc
      <4>3. (IF x = v THEN "state" ELSE "bypass") \in {"state", "bypass"}
        OBVIOUS
      <4> QED
        BY <4>2, <4>3
    <3>3. Done(f)'
      BY <3>2 DEF Written, Done
    <3>4. \A g \in Fields \ Remaining(t) : Done(g)'
      <4>1. \A g \in Fields \ Remaining(t) : Done(g) /\ ~Due(g)
        BY <1>5, <2>0, <3>1, WritesAlone DEF ResetSoFar, Writing
      <4> QED
        BY <3>2, <4>1, WrittenIsDone
    <3>5. CASE pc'[t] = "restore"
      <4>1. idx[t] # 6 /\ idx'[t] = idx[t] + 1
        BY <1>0, <1>5, <2>5, <3>5, Order DEF Restore, Goto, AfterRestore
      <4>2. \A g \in Fields \ {f} : g \in Remaining(t) => g \in Remaining(t)'
        <5>1. SUFFICES ASSUME NEW g \in Fields \ {f}, NEW i \in idx[t]..6, g = RestoreOrder[i]
                       PROVE  g \in Remaining(t)'
          BY Order DEF Remaining
        <5>2. i # idx[t] /\ i \in (idx[t] + 1)..6
          BY <1>0, <3>f, <5>1
        <5> QED
          BY <4>1, <5>1, <5>2, Order DEF Remaining
      <4> QED
        BY <1>1, <1>5, <2>0, <3>1, <3>3, <3>4, <3>5, <4>2 DEF ResetSoFar
    <3>6. CASE pc'[t] = "done"
      <4>1. idx[t] = 6
        BY <1>0, <1>5, <2>5, <3>1, <3>6, Order DEF Restore, Goto, AfterRestore
      <4>2. Remaining(t) = {f}
        BY <3>f, <4>1, Order DEF Remaining
      <4> QED
        BY <1>1, <1>5, <2>0, <3>1, <3>3, <3>4, <3>6, <4>2 DEF ResetSoFar
    <3> QED
      BY <3>1, <3>5, <3>6
  <2> QED
    BY <2>1, <2>2, <2>3, <2>4, <2>5
<1>6. ASSUME t \in Conns, job[t].op # "defaults"
      PROVE  ResetSoFar(t)'
  BY <1>1, <1>6 DEF ResetSoFar
<1> QED
  BY <1>4, <1>5, <1>6 DEF Resetting

LEMMA ResettingListener ==
  ASSUME Base, Resetting,
         \/ TakeEvent \/ SetLed \/ ReadFails
         \/ ReadKbd \/ ReadPwm \/ ReadPower \/ ReadMin \/ ReadMax
  PROVE  Resetting'
<1>0. pc \in [Threads -> Labels] /\ job \in [Threads -> Request]
      /\ result \in [Threads -> {"Success", "Error"}] /\ Svc \in Threads /\ Svc \notin Conns
  BY DEF Base, TypeOK, Threads
<1>1. SUFFICES ASSUME NEW c \in Conns
               PROVE  ResetSoFar(c)'
  BY DEF Resetting
<1>2. CASE TakeEvent \/ SetLed
  <2>1. pc'[c] = pc[c] /\ job'[c] = job[c] /\ result'[c] = result[c]
    BY <1>0, <1>2 DEF TakeEvent, SetLed, Goto, Threads
  <2>2. UNCHANGED <<state, disk, cut, holder, idx>>
    BY <1>2 DEF TakeEvent, SetLed, history
  <2>3. CASE TakeEvent
    BY <2>1, <2>2, <2>3, ResetOther DEF TakeEvent, history, StillDone, Done
  <2>4. CASE SetLed
    <3>1. PICK why, over :
            /\ why \in {Cause("led", "listener"), "bypass", Cause("led", "failed")}
            /\ origin' = Written("led", why, over)
      BY <2>4 DEF SetLed, PutEc
    <3>2. ~Due("led") => why \notin {"unwritten", "overtaken", "stopped"}
      BY <3>1 DEF Cause
    <3>3. StillDone(c)
      BY <3>1, <3>2, WrittenIsDone DEF StillDone
    <3> QED
      BY <2>1, <2>2, <3>3, ResetOther
  <2> QED
    BY <1>2, <2>3, <2>4
<1>3. CASE ReadFails \/ ReadKbd \/ ReadPwm \/ ReadPower \/ ReadMin \/ ReadMax
  <2>1. pc[Svc] \in Reads /\ UNCHANGED <<job, result, holder, idx>>
    BY <1>3 DEF ReadKbd, ReadPwm, ReadPower, ReadMin, ReadMax, Read, ReadFails, Reads
  <2>2. PICK next : pc' = [pc EXCEPT ![Svc] = next]
    BY <1>3 DEF ReadKbd, ReadPwm, ReadPower, ReadMin, ReadMax, Read, ReadFails, Goto
  <2>3. holder = Svc
    BY <1>0, <2>1 DEF Base, Control, Guarded, LockedLabels
  <2>4. pc'[c] = pc[c]
    BY <1>0, <2>2 DEF Threads
  <2> QED
    BY <1>0, <2>1, <2>3, <2>4, ResetOther DEF StillDone, Writing
<1> QED
  BY <1>2, <1>3

LEMMA ResettingNext ==
  ASSUME Base, Resetting, [Next]_vars
  PROVE  Resetting'
<1>1. ASSUME NEW t \in Threads, Step(t) \/ Faults(t)
      PROVE  Resetting'
  BY <1>1, ResettingGuard, ResettingSave DEF Step, Faults
<1>2. ASSUME NEW c \in Conns,
             \/ Connect(c) \/ Receive(c) \/ Disconnect(c) \/ Drop(c)
             \/ ConnStep(c) \/ SetFails(c)
      PROVE  Resetting'
  BY <1>1, <1>2, ResettingClient DEF ConnStep, Threads
<1>3. CASE SvcStep \/ ReadFails
  BY <1>1, <1>3, ResettingListener DEF SvcStep, Threads
<1>4. CASE MainStep \/ LoadFails \/ StartFails \/ Crash \/ PowerCut
  BY <1>1, <1>4, ResettingMain DEF MainStep, Threads
<1>5. CASE Announce \/ HotKey \/ EcForgets \/ UNCHANGED vars
  <2>1. UNCHANGED <<pc, job, idx, result, holder, state, disk, cut>>
    BY <1>5 DEF Announce, HotKey, EcForgets, work, vars, history
  <2>2. \A f \in Fields : origin'[f] \in {origin[f], Cause(f, "firmware")}
    BY <1>5 DEF Announce, HotKey, EcForgets, vars, history, Base, TypeOK
  <2>3. \A c \in Conns : StillDone(c)
    BY <2>2 DEF StillDone, Done, Cause
  <2> QED
    BY <2>1, <2>3, ResetOther DEF Resetting
<1> QED
  BY <1>1, <1>2, <1>3, <1>4, <1>5 DEF Next

LEMMA ResetInvariant ==
  ASSUME Base, Followed, Resetting
  PROVE  ResetIsComplete
<1> SUFFICES ASSUME NEW c \in Conns, pc[c] = "done", job[c].op = "defaults",
                    result[c] = "Success", NEW f \in Fields
             PROVE  /\ state = Default /\ (disk = Default \/ cut)
                    /\ Done(f) /\ (origin[f] = "state" => ec[f] = Dflt)
  BY DEF ResetIsComplete, Done, Resetting, ResetSoFar
<1>1. state = Default /\ (disk = Default \/ cut) /\ Done(f)
  BY DEF Resetting, ResetSoFar
<1>2. origin[f] = "state" => ec[f] = state.cfg[f]
  BY DEF Followed, Follows, Tells
<1> QED
  BY <1>1, <1>2 DEF Default

(* A RestoreDefaults that is answered with Success has put the defaults    *)
(* into STATE, into the file unless that save was cut short, and has       *)
(* written every field of the EC, with the default where nobody has        *)
(* changed it since (handlers.rs:95-101).                                  *)
THEOREM ResetsAreComplete == Spec => []ResetIsComplete
<1>1. Init => Followed /\ Resetting
  BY FollowedInit DEF Init, Resetting, ResetSoFar, Threads, NoRequest
<1>2. Base /\ Followed /\ Resetting /\ [Next]_vars => Followed' /\ Resetting'
  BY FollowedNext, ResettingNext
<1>3. Base /\ Followed /\ Resetting => ResetIsComplete
  BY ResetInvariant
<1> QED
  BY <1>1, <1>2, <1>3, BaseHolds, PTL DEF Spec

-----------------------------------------------------------------------------
(* What a thread has begun it brings to an end.                            *)

(* How many steps a thread is from the end of its job.                     *)
Way(t) ==
  CASE pc[t] \in {"done", "telemetry"} -> 1
    [] pc[t] = "switch"        -> 2
    [] pc[t] = "restore"       -> 9 - idx[t]
    [] pc[t] = "write"         -> 9
    [] pc[t] = "open"          -> 10
    [] pc[t] = "read_max"      -> 11
    [] pc[t] = "read_min"      -> 12
    [] pc[t] = "read_power"    -> 13
    [] pc[t] = "read_pwm"      -> 14
    [] pc[t] = "read_kbd"      -> 15
    [] pc[t] = "lock"          -> 16
    [] pc[t] \in {"set", "led"} -> 17
    [] OTHER                   -> 0

BusyLabels == {"set", "led", "lock", "done", "telemetry"} \cup LockedLabels
Busy(t)    == pc[t] \in BusyLabels

LEMMA WayIsFinite ==
  ASSUME TypeOK, NEW t \in Threads
  PROVE  /\ Way(t) \in 0..17
         /\ Busy(t) <=> Way(t) > 0
<1>1. idx[t] \in 1..6 /\ pc[t] \in Labels
  BY OrderType DEF TypeOK
<1>2. 9 - idx[t] \in 3..8
  BY <1>1
<1> QED
  BY <1>1, <1>2 DEF Way, Busy, BusyLabels, LockedLabels, Reads, Labels

(* Where the labels lead.                                                  *)
LEMMA OwnWay ==
  ASSUME TypeOK, TypeOK', NEW t \in Threads, Busy(t),
         pc'[t] = pc[t] => pc[t] = "restore" /\ idx'[t] = idx[t] + 1,
         pc[t] = "done"   => pc'[t] \in {"recv", "closed", "down", "off"},
         pc[t] = "telemetry" => pc'[t] \in {"accept", "down"},
         pc[t] = "switch" => pc'[t] \in {"done", "closed", "down", "off"},
         pc[t] = "restore" => pc'[t] \in {"restore", "telemetry", "done", "closed", "down", "off"},
         pc[t] = "write"  => pc'[t] \in {"restore", "switch", "done", "closed", "down", "off"},
         pc[t] = "open"   => pc'[t] \in {"write", "done", "closed", "down", "off"},
         pc[t] = "read_max" => pc'[t] \in {"open", "off"},
         pc[t] = "read_min" => pc'[t] \in {"read_max", "open", "off"},
         pc[t] = "read_power" => pc'[t] \in {"read_min", "off"},
         pc[t] = "read_pwm"   => pc'[t] \in {"read_power", "off"},
         pc[t] = "read_kbd"   => pc'[t] \in {"read_pwm", "read_power", "off"},
         pc[t] = "lock" => pc'[t] \in {"read_kbd", "restore", "open", "done", "closed", "down", "off"},
         pc[t] \in {"set", "led"} => pc'[t] \in {"lock", "done", "closed", "down", "off"}
  PROVE  Way(t)' < Way(t)
<1>1. idx[t] \in 1..6 /\ pc[t] \in Labels /\ idx'[t] \in 1..6 /\ pc'[t] \in Labels
  BY OrderType DEF TypeOK
<1>2. 9 - idx[t] \in 3..8 /\ 9 - idx'[t] \in 3..8
  BY <1>1
<1>3. pc[t] = "restore" /\ pc'[t] = "restore" => 9 - idx'[t] < 9 - idx[t]
  BY <1>1
<1> USE <1>1, <1>2, <1>3 DEF Way
<1>4. CASE pc[t] \in {"done", "telemetry"} BY <1>4
<1>5. CASE pc[t] = "switch" BY <1>5
<1>6. CASE pc[t] = "restore" BY <1>6
<1>7. CASE pc[t] = "write" BY <1>7
<1>8. CASE pc[t] = "open" BY <1>8
<1>9. CASE pc[t] \in {"read_max", "read_min"} BY <1>9
<1>10. CASE pc[t] \in {"read_power", "read_pwm", "read_kbd"} BY <1>10
<1>11. CASE pc[t] = "lock" BY <1>11
<1>12. CASE pc[t] \in {"set", "led"} BY <1>12
<1> QED
  BY <1>4, <1>5, <1>6, <1>7, <1>8, <1>9, <1>10, <1>11, <1>12 DEF Busy, BusyLabels, LockedLabels, Reads

(* A thread moves itself only.                                             *)
OfClient(c)  == Connect(c) \/ Receive(c) \/ Disconnect(c) \/ Drop(c) \/ Panic(c)
                \/ ApplySet(c) \/ RefuseSet(c) \/ SetFails(c)
OfListener   == TakeEvent \/ SetLed \/ ReadFails
                \/ ReadKbd \/ ReadPwm \/ ReadPower \/ ReadMin \/ ReadMax

Moves(u) == \/ Step(u) \/ Faults(u)
            \/ u \in Conns /\ OfClient(u)
            \/ u = Svc /\ OfListener
            \/ u = Main /\ (Load \/ LoadFails)

Stays(t) == pc'[t] = pc[t] /\ idx'[t] = idx[t]

LEMMA OthersStay ==
  ASSUME TypeOK, NEW u \in Threads, NEW t \in Threads, t # u, Moves(u)
  PROVE  Stays(t)
<1> USE DEF TypeOK, Stays
<1>1. CASE Step(u)
  <2>1. CASE TryLock(u) \/ TryLockFails(u) \/ Release(u)
    BY <2>1 DEF TryLock, TryLockFails, Release, Goto, Finish
  <2>2. CASE OpenFile(u) \/ WriteFile(u) \/ Switch(u)
    BY <2>2 DEF OpenFile, WriteFile, Switch, Goto
  <2>3. CASE Restore(u)
    <3>1. \/ pc' = [pc EXCEPT ![u] = AfterRestore(u)] /\ idx' = [idx EXCEPT ![u] = 1]
          \/ idx' = [idx EXCEPT ![u] = @ + 1] /\ UNCHANGED pc
      BY <2>3 DEF Restore, Goto
    <3> QED BY <3>1
  <2> QED BY <1>1, <2>1, <2>2, <2>3 DEF Step
<1>2. CASE Faults(u)
  BY <1>2 DEF Faults, OpenFails, WriteLost, RestoreFails, SaveError, Finish, Goto
<1>3. CASE OfClient(u)
  BY <1>3 DEF OfClient, Connect, Receive, Disconnect, Drop, Panic, ApplySet, RefuseSet, SetFails,
              Goto, Finish
<1>4. CASE u = Svc /\ OfListener
  <2>1. \E l : pc' = [pc EXCEPT ![Svc] = l] /\ UNCHANGED idx
    BY <1>4 DEF OfListener, TakeEvent, SetLed, ReadFails, ReadKbd, ReadPwm, ReadPower, ReadMin,
                ReadMax, Read, Goto
  <2> QED BY <1>4, <2>1
<1>5. CASE u = Main /\ (Load \/ LoadFails)
  BY <1>5 DEF Load, LoadFails, Boot, Goto
<1> QED BY <1>1, <1>2, <1>3, <1>4, <1>5 DEF Moves

(* And it moves on.                                                        *)
LEMMA ItMovesOn ==
  ASSUME Base, Base', NEW t \in Threads, Busy(t), Moves(t)
  PROVE  Way(t)' < Way(t)
<1>0. TypeOK /\ TypeOK'
  BY DEF Base
<1>1. CASE TryLock(t) \/ TryLockFails(t) \/ Release(t)
  <2>1. /\ pc[t] \in {"lock", "done"}
        /\ pc[t] = "lock" => pc'[t] \in {"read_kbd", "restore", "open", "done"}
        /\ pc[t] = "done" => pc'[t] \in {"recv", "closed"}
    BY <1>0, <1>1 DEF TypeOK, TryLock, TryLockFails, Release, Goto, Finish, AfterLock
  <2> QED BY <1>0, <2>1, OwnWay
<1>2. CASE OpenFile(t) \/ OpenFails(t) \/ WriteFile(t) \/ WriteLost(t) \/ Switch(t)
  <2>1. /\ pc[t] \in {"open", "write", "switch"}
        /\ pc[t] = "open" => pc'[t] \in {"write", "done"}
        /\ pc[t] = "write" => pc'[t] \in {"restore", "switch", "done"}
        /\ pc[t] = "switch" => pc'[t] = "done"
    BY <1>0, <1>2 DEF TypeOK, OpenFile, OpenFails, WriteFile, WriteLost, Switch, SaveError, Goto,
                      Finish, AfterSave
  <2> QED BY <1>0, <2>1, OwnWay
<1>3. CASE Restore(t)
  <2>1. /\ pc[t] = "restore"
        /\ \/ pc'[t] \in {"done", "telemetry"}
           \/ pc'[t] = "restore" /\ idx'[t] = idx[t] + 1
    BY <1>0, <1>3 DEF TypeOK, Restore, AfterRestore, Goto
  <2> QED BY <1>0, <2>1, OwnWay
<1>4. CASE RestoreFails(t)
  <2>1. pc[t] = "restore" /\ pc'[t] \in {"done", "telemetry"}
    BY <1>0, <1>4 DEF TypeOK, RestoreFails, AfterRestore, Goto
  <2> QED BY <1>0, <2>1, OwnWay
<1>5. CASE OfClient(t) /\ t \in Conns
  <2>1. /\ pc[t] \in {"done", "lock", "set"}
        /\ pc[t] = "done" => pc'[t] = "closed"
        /\ pc[t] = "lock" => pc'[t] = "closed"
        /\ pc[t] = "set" => pc'[t] \in {"lock", "done"}
    BY <1>0, <1>5 DEF TypeOK, Busy, BusyLabels, LockedLabels, Reads, OfClient, Connect, Receive,
                      Disconnect, Drop, Panic, ApplySet, RefuseSet, SetFails, Goto, Finish
  <2> QED BY <1>0, <2>1, OwnWay
<1>6. CASE t = Svc /\ (TakeEvent \/ SetLed \/ ReadFails)
  <2>1. /\ pc[t] \in {"led"} \cup Reads
        /\ pc[t] = "led" => pc'[t] = "lock"
        /\ pc[t] \in Reads => pc'[t] = AfterFailedRead[pc[t]]
    BY <1>0, <1>6 DEF TypeOK, Busy, BusyLabels, LockedLabels, Reads, TakeEvent, SetLed, ReadFails, Goto
  <2>2. /\ AfterFailedRead["read_kbd"] = "read_power" /\ AfterFailedRead["read_pwm"] = "read_power"
        /\ AfterFailedRead["read_power"] = "read_min" /\ AfterFailedRead["read_min"] = "open"
        /\ AfterFailedRead["read_max"] = "open"
    BY DEF AfterFailedRead, Reads, AfterReads
  <2>3. /\ pc[t] = "read_kbd" => pc'[t] = "read_power"
        /\ pc[t] = "read_pwm" => pc'[t] = "read_power"
        /\ pc[t] = "read_power" => pc'[t] = "read_min"
        /\ pc[t] = "read_min" => pc'[t] = "open"
        /\ pc[t] = "read_max" => pc'[t] = "open"
    BY <2>1, <2>2 DEF Reads
  <2> QED BY <1>0, <2>1, <2>3, OwnWay DEF Reads
<1>7. CASE t = Svc /\ (ReadKbd \/ ReadPwm \/ ReadPower \/ ReadMin \/ ReadMax)
  <2>1. /\ pc[t] \in Reads
        /\ pc[t] = "read_kbd" => pc'[t] \in {"read_pwm", "read_power"}
        /\ pc[t] = "read_pwm" => pc'[t] = "read_power"
        /\ pc[t] = "read_power" => pc'[t] = "read_min"
        /\ pc[t] = "read_min" => pc'[t] = "read_max"
        /\ pc[t] = "read_max" => pc'[t] = "open"
    BY <1>0, <1>7 DEF TypeOK, Reads, ReadKbd, ReadPwm, ReadPower, ReadMin, ReadMax, Read, Goto,
                      AfterReads
  <2> QED BY <1>0, <2>1, OwnWay DEF Reads
<1>8. CASE t = Main /\ (Load \/ LoadFails)
  BY <1>8 DEF Load, LoadFails, Boot, Busy, BusyLabels, LockedLabels, Reads
<1> QED
  BY <1>1, <1>2, <1>3, <1>4, <1>5, <1>6, <1>7, <1>8 DEF Moves, Step, Faults, OfListener

LEMMA Movers ==
  ASSUME [Next]_vars
  PROVE  \/ \E u \in Threads : Moves(u)
         \/ StartServing \/ StartFails \/ Crash \/ PowerCut
         \/ Announce \/ HotKey \/ EcForgets \/ UNCHANGED vars
<1>1. ASSUME NEW c \in Conns, Connect(c) \/ Receive(c) \/ Disconnect(c) \/ Drop(c)
                               \/ ConnStep(c) \/ SetFails(c)
      PROVE  c \in Threads /\ Moves(c)
  BY <1>1 DEF ConnStep, Moves, OfClient, Threads
<1>2. CASE SvcStep \/ ReadFails
  BY <1>2 DEF SvcStep, Moves, OfListener, Threads
<1>3. CASE MainStep \/ LoadFails
  BY <1>3 DEF MainStep, Moves, Threads
<1>4. ASSUME NEW t \in Threads, Faults(t) PROVE Moves(t)
  BY <1>4 DEF Moves
<1> QED BY <1>1, <1>2, <1>3, <1>4 DEF Next

LEMMA JobGoesOn ==
  ASSUME Base, Base', [Next]_vars, NEW t \in Threads, Busy(t)
  PROVE  Stays(t) \/ Way(t)' < Way(t)
<1>0. TypeOK
  BY DEF Base
<1>1. ASSUME NEW u \in Threads, Moves(u)
      PROVE  Stays(t) \/ Way(t)' < Way(t)
  BY <1>0, <1>1, OthersStay, ItMovesOn
<1>2. CASE StartServing
  <2>1. t # Main => pc[t] \in {"off", "closed"}
    BY <1>0, <1>2 DEF Base, Control, Alone, StartServing, Threads
  <2>2. t = Main => pc[t] = "telemetry" /\ pc'[t] = "accept"
    BY <1>0, <1>2 DEF TypeOK, StartServing, Threads
  <2> QED BY <1>0, <2>1, <2>2, OwnWay DEF Base, Busy, BusyLabels, LockedLabels, Reads
<1>3. CASE StartFails \/ Crash \/ PowerCut
  <2>1. ProcessGone
    BY <1>3 DEF StartFails, Crash, PowerCut
  <2>2. pc'[t] \in {"off", "closed", "down"}
    BY <1>0, <2>1 DEF ProcessGone
  <2>3. Way(t)' = 0
    BY <2>2 DEF Way
  <2> QED BY <1>0, <2>3, WayIsFinite
<1>4. CASE Announce \/ HotKey \/ EcForgets \/ UNCHANGED vars
  BY <1>4 DEF Announce, HotKey, EcForgets, vars, work, Stays
<1> QED BY <1>1, <1>2, <1>3, <1>4, Movers

(* The guard goes from its holder to nobody.                               *)
LEMMA GuardGoes ==
  ASSUME TypeOK, [Next]_vars, NEW t \in Threads, holder = t
  PROVE  holder' \in {t, Free}
<1>0. t # Free
  BY ThreadsAssumption
<1>1. ASSUME NEW u \in Threads, Moves(u)
      PROVE  holder' \in {t, Free}
  <2>1. CASE Step(u)
    BY <1>0, <2>1 DEF Step, TryLock, CanLock, TryLockFails, Release, OpenFile, WriteFile, Switch, Restore
  <2>2. CASE Faults(u)
    BY <2>2 DEF Faults, OpenFails, WriteLost, RestoreFails
  <2>3. CASE OfClient(u)
    BY <2>3 DEF OfClient, Connect, Receive, Disconnect, Drop, Panic, ApplySet, RefuseSet, SetFails
  <2>4. CASE OfListener
    BY <2>4 DEF OfListener, TakeEvent, SetLed, ReadFails, ReadKbd, ReadPwm, ReadPower, ReadMin,
                ReadMax, Read
  <2>5. CASE Load \/ LoadFails
    BY <2>5 DEF Load, LoadFails, Boot
  <2> QED BY <1>1, <2>1, <2>2, <2>3, <2>4, <2>5 DEF Moves
<1>2. CASE StartServing \/ Announce \/ HotKey \/ EcForgets \/ UNCHANGED vars
  BY <1>2 DEF StartServing, Announce, HotKey, EcForgets, vars
<1>3. CASE StartFails \/ Crash \/ PowerCut
  BY <1>3 DEF StartFails, Crash, PowerCut, ProcessGone
<1> QED BY <1>1, <1>2, <1>3, Movers

(* What a thread does when it is scheduled.                                *)
StepOf(t) ==
  (t \in Conns /\ ConnStep(t)) \/ (t = Svc /\ SvcStep) \/ (t = Main /\ MainStep)

(* What the fairness of FairSpec is about: a thread with a job, and the    *)
(* listener with an event, can take a step.  ENABLED is beyond the         *)
(* provers, so this is a hypothesis.                                       *)
ClientCanRun(c) == [](Busy(c) => ENABLED <<ConnStep(c)>>_vars)
ListenerCanRun  ==
  [](Busy(Svc) \/ (pc[Svc] = "recv" /\ queue # << >>) => ENABLED <<SvcStep>>_vars)
MainCanRun      == [](Busy(Main) => ENABLED <<MainStep>>_vars)
ThreadsCanRun   == /\ \A c \in Conns : ClientCanRun(c)
                   /\ ListenerCanRun /\ MainCanRun

(* A thread with less than n steps to the end of its job.                  *)
Near(t, n) == Busy(t) /\ Way(t) < n

LEMMA StepNears ==
  ASSUME Base, Base', [Next]_vars, NEW t \in Threads,
         NEW n \in Nat, NEW m \in Nat, m = n + 1, Near(t, m)
  PROVE  /\ Near(t, n)' \/ ~Busy(t)' \/ Near(t, m)'
         /\ StepOf(t) => Near(t, n)' \/ ~Busy(t)'
<1>0. /\ TypeOK /\ TypeOK' /\ Busy(t)
      /\ Way(t) \in Nat /\ Way(t)' \in Nat /\ Way(t) < m
  <2>1. Way(t) \in Nat
    BY WayIsFinite DEF Base
  <2>2. ASSUME TypeOK' PROVE Way(t)' \in Nat
    <3>1. idx'[t] \in 1..6
      BY <2>2, OrderType DEF TypeOK
    <3>2. 9 - idx'[t] \in Nat
      BY <3>1
    <3> QED BY <3>2 DEF Way
  <2> QED BY <2>1, <2>2 DEF Base, Near
<1>1. Way(t)' < Way(t) => Way(t)' < n
  BY ONLY <1>0, n \in Nat, m = n + 1
<1>2. Stays(t) => Near(t, m)'
  BY <1>0 DEF Stays, Near, Busy, Way
<1>3. StepOf(t) /\ ~(t = Main /\ StartServing) => Moves(t)
  BY DEF StepOf, ConnStep, SvcStep, MainStep, Moves, OfClient, OfListener
<1>4. t = Main /\ StartServing => ~Busy(t)'
  BY <1>0 DEF TypeOK, StartServing, Threads, Busy, BusyLabels, LockedLabels, Reads
<1> QED
  BY <1>0, <1>1, <1>2, <1>3, <1>4, JobGoesOn, ItMovesOn DEF Near

(* A thread with a job is scheduled again and again.                       *)
Runs(t) == <>[]Busy(t) => []<><<StepOf(t)>>_vars

LEMMA EachRuns ==
  ASSUME NEW t \in Threads
  PROVE  FairSpec /\ ThreadsCanRun => Runs(t)
<1>1. FairSpec => WF_vars(SvcStep) /\ WF_vars(MainStep) /\ \A c \in Conns : ClientIsServed(c)
  BY PTL DEF FairSpec, Fairness
<1>2. CASE t \in Conns
  <2>1. (\A c \in Conns : ClientIsServed(c)) => ClientIsServed(t)
    BY <1>2
  <2>2. ThreadsCanRun => ClientCanRun(t)
    BY <1>2 DEF ThreadsCanRun
  <2>3. ConnStep(t) => StepOf(t)
    BY <1>2 DEF StepOf
  <2> QED BY <1>1, <2>1, <2>2, <2>3, PTL DEF ClientCanRun, ClientIsServed, Runs
<1>3. CASE t = Svc
  <2>1. Busy(t) => Busy(Svc)
    BY <1>3
  <2>2. SvcStep => StepOf(t)
    BY <1>3 DEF StepOf
  <2> QED BY <1>1, <2>1, <2>2, PTL DEF ThreadsCanRun, ListenerCanRun, Runs
<1>4. CASE t = Main
  <2>1. Busy(t) => Busy(Main)
    BY <1>4
  <2>2. MainStep => StepOf(t)
    BY <1>4 DEF StepOf
  <2> QED BY <1>1, <2>1, <2>2, PTL DEF ThreadsCanRun, MainCanRun, Runs
<1> QED BY <1>2, <1>3, <1>4 DEF Threads

(* A thread with less than m steps to go comes to less than n, or it is    *)
(* through.                                                                *)
LeadsOn(t, m, n) == FairSpec /\ ThreadsCanRun => (Near(t, m) ~> Near(t, n) \/ ~Busy(t))

LEMMA AJobLeadsOn ==
  ASSUME NEW t \in Threads, NEW n \in Nat, NEW m \in Nat, m = n + 1
  PROVE  LeadsOn(t, m, n)
<1> DEFINE Here == Near(t, m)
           Nearer == Near(t, n) \/ ~Busy(t)
<1>1. Base /\ Base' /\ [Next]_vars /\ Here => Here' \/ Nearer'
  BY StepNears
<1>2. Base /\ Base' /\ [Next]_vars /\ Here /\ StepOf(t) => Nearer'
  BY StepNears
<1>3. Here => Busy(t)
  BY DEF Near
<1> HIDE DEF Here, Nearer
<1>4. FairSpec /\ ThreadsCanRun => (Here ~> Nearer)
  BY <1>1, <1>2, <1>3, BaseHolds, EachRuns, PTL DEF FairSpec, Spec, Runs
<1> QED BY <1>4 DEF Here, Nearer, LeadsOn

LEMMA AJobIsDone ==
  ASSUME NEW t \in Threads
  PROVE  FairSpec /\ ThreadsCanRun => (Busy(t) ~> ~Busy(t))
<1>1. /\ 1 = 0 + 1 /\ 2 = 1 + 1 /\ 3 = 2 + 1 /\ 4 = 3 + 1 /\ 5 = 4 + 1 /\ 6 = 5 + 1
      /\ 7 = 6 + 1 /\ 8 = 7 + 1 /\ 9 = 8 + 1 /\ 10 = 9 + 1 /\ 11 = 10 + 1 /\ 12 = 11 + 1
      /\ 13 = 12 + 1 /\ 14 = 13 + 1 /\ 15 = 14 + 1 /\ 16 = 15 + 1 /\ 17 = 16 + 1 /\ 18 = 17 + 1
  OBVIOUS
<1>2. /\ LeadsOn(t, 1, 0) /\ LeadsOn(t, 2, 1) /\ LeadsOn(t, 3, 2) /\ LeadsOn(t, 4, 3)
      /\ LeadsOn(t, 5, 4) /\ LeadsOn(t, 6, 5) /\ LeadsOn(t, 7, 6) /\ LeadsOn(t, 8, 7)
      /\ LeadsOn(t, 9, 8) /\ LeadsOn(t, 10, 9) /\ LeadsOn(t, 11, 10) /\ LeadsOn(t, 12, 11)
      /\ LeadsOn(t, 13, 12) /\ LeadsOn(t, 14, 13) /\ LeadsOn(t, 15, 14) /\ LeadsOn(t, 16, 15)
      /\ LeadsOn(t, 17, 16) /\ LeadsOn(t, 18, 17)
  BY <1>1, AJobLeadsOn
<1>3. Base => (Busy(t) => Near(t, 18)) /\ ~Near(t, 0)
  BY WayIsFinite DEF Base, Near
<1> QED BY <1>2, <1>3, BaseHolds, PTL DEF LeadsOn, FairSpec

Ends(t) == Busy(t) ~> ~Busy(t)

(* Every job comes to an end: a request of a client, an event of the       *)
(* listener, the restore of main(), for any number of threads, if each of  *)
(* them is scheduled and can take a step whenever it has a job             *)
(* (main.rs:36-99, 146-160, handlers.rs:29-176).                           *)
THEOREM JobsEnd == FairSpec /\ ThreadsCanRun => \A t \in Threads : Ends(t)
<1>1. ASSUME NEW t \in Threads
      PROVE  FairSpec /\ ThreadsCanRun => Ends(t)
  BY AJobIsDone DEF Ends
<1> QED BY <1>1

Answered(c) == pc[c] = "lock" ~> pc[c] \in {"recv", "closed"}

(* Every request that has come as far as the lock on STATE is answered, or *)
(* its connection is closed, however contended the guard is                *)
(* (handlers.rs:36-176).                                                   *)
THEOREM RequestsAreAnswered == FairSpec /\ ThreadsCanRun => \A c \in Conns : Answered(c)
<1>1. ASSUME NEW c \in Conns
      PROVE  FairSpec /\ ThreadsCanRun => Answered(c)
  <2>1. c \in Threads
    BY DEF Threads
  <2>2. FairSpec /\ ThreadsCanRun => Ends(c)
    BY <2>1, JobsEnd
  <2>3. Base => /\ pc[c] = "lock" => Busy(c)
                /\ ~Busy(c) => pc[c] \in {"recv", "closed"}
    BY DEF Base, Control, Places, Busy, BusyLabels
  <2> QED BY <2>2, <2>3, BaseHolds, PTL DEF FairSpec, Ends, Answered
<1> QED BY <1>1

(* The guard of one thread.                                                *)
SetsFree(t) == holder = t ~> holder = Free
FreeOnce    == <>(holder = Free)
LetsGo(t)   == holder = t => FreeOnce

LEMMA HolderLetsGo ==
  ASSUME NEW t \in Threads
  PROVE  FairSpec /\ ThreadsCanRun => SetsFree(t)
<1> DEFINE Has  == holder = t
           None == holder = Free
<1>1. Base => (Has => Busy(t))
  BY ThreadsAssumption DEF Base, Holds, Busy, BusyLabels
<1>2. Base /\ [Next]_vars /\ Has => Has' \/ None'
  BY GuardGoes DEF Base
<1>3. FairSpec /\ ThreadsCanRun => Ends(t)
  BY JobsEnd
<1> HIDE DEF Has, None
<1>4. FairSpec /\ ThreadsCanRun => (Has ~> None)
  BY <1>1, <1>2, <1>3, BaseHolds, PTL DEF FairSpec, Spec, Ends
<1> QED BY <1>4 DEF Has, None, SetsFree

(* STATE is never held for good, for any number of threads, if each thread *)
(* is scheduled and can take a step whenever it has a job: whoever has the *)
(* guard comes to drop it, and nobody waits for it meanwhile               *)
(* (handlers.rs:29-35, main.rs:36-76).                                     *)
THEOREM GuardIsLetGo == FairSpec /\ ThreadsCanRun => GuardIsReleased
<1>1. ASSUME NEW t \in Threads
      PROVE  FairSpec /\ ThreadsCanRun => []LetsGo(t)
  <2>1. SetsFree(t) => []LetsGo(t)
    BY PTL DEF SetsFree, LetsGo, FreeOnce
  <2> QED BY <2>1, HolderLetsGo
<1>2. FairSpec /\ ThreadsCanRun => \A t \in Threads : []LetsGo(t)
  BY <1>1
<1>3. (\A t \in Threads : []LetsGo(t)) => [](\A t \in Threads : LetsGo(t))
  OBVIOUS
<1>4. (\A t \in Threads : LetsGo(t)) => (holder \in Threads => FreeOnce)
  BY DEF LetsGo
<1>5. [](\A t \in Threads : LetsGo(t)) => [](holder \in Threads => FreeOnce)
  BY <1>4, PTL
<1>6. Base => (holder # Free => holder \in Threads)
  BY DEF Base, TypeOK
<1>7. FairSpec /\ ThreadsCanRun => [](holder \in Threads => FreeOnce)
  BY <1>2, <1>3, <1>5
<1> QED BY <1>6, <1>7, BaseHolds, PTL DEF FreeOnce, GuardIsReleased, FairSpec

(* The listener lives as long as main() accepts, and its queue only as     *)
(* long as the process.                                                    *)
Listening ==
  /\ pc[Main] = "accept" => pc[Svc] # "off"
  /\ queue # << >> => pc[Main] # "down"

(* An event waits; it is taken, or lost with the process.                  *)
Waits == queue # << >>
Taken == TakeEvent \/ ProcessGone

LEMMA ListeningNext ==
  ASSUME Base, Listening, [Next]_vars
  PROVE  /\ Listening'
         /\ Waits => Waits' \/ Taken
         /\ pc[Main] = "accept" => pc'[Main] = "accept" \/ Taken
         /\ pc[Svc] = "recv" => pc'[Svc] = "recv" \/ Taken
<1> USE DEF Base, TypeOK, Control, Places, Alone
<1>1. CASE StartFails \/ Crash \/ PowerCut
  <2>1. ProcessGone
    BY <1>1 DEF StartFails, Crash, PowerCut
  <2>2. queue' = << >> /\ pc'[Main] = "down"
    BY <2>1 DEF ProcessGone, Threads
  <2> QED BY <2>1, <2>2 DEF Listening, Taken
<1>2. CASE StartServing
  <2>1. pc'[Main] = "accept" /\ pc'[Svc] = "recv" /\ queue' = queue
    BY <1>2 DEF StartServing, Threads
  <2> QED BY <2>1 DEF Listening, Waits
<1>3. CASE Announce
  <2>1. \E e \in Events : queue' = Append(queue, e)
    BY <1>3 DEF Announce
  <2>2. queue \in Seq(Events) /\ queue' # << >>
    <3>1. PICK e \in Events : queue' = Append(queue, e)
      BY <2>1
    <3>2. queue \in Seq(Events) /\ Len(queue') = Len(queue) + 1
      BY <3>1
    <3> QED BY <3>2
  <2> QED BY <1>3, <2>2 DEF Announce, work, Listening, Waits
<1>4. CASE HotKey \/ EcForgets \/ UNCHANGED vars
  BY <1>4 DEF HotKey, EcForgets, vars, work, Listening, Waits
<1>5. ASSUME NEW u \in Threads, Moves(u)
      PROVE  /\ queue' = queue \/ (TakeEvent /\ u = Svc /\ Waits)
             /\ u = Main => pc[Main] # "accept" /\ pc'[Main] # "down" /\ pc'[Main] # "accept"
             /\ u = Svc => pc'[Svc] # "off" /\ (pc[Svc] = "recv" => TakeEvent)
  <2>1. queue' = queue \/ (TakeEvent /\ u = Svc /\ Waits)
    BY <1>5 DEF TakeEvent, Waits, Moves, Step, Faults, OfClient, OfListener, TryLock, TryLockFails, Release, OpenFile,
                WriteFile, Switch, Restore, OpenFails, WriteLost, RestoreFails, Connect, Receive,
                Disconnect, Drop, Panic, ApplySet, RefuseSet, SetFails, SetLed, ReadFails, ReadKbd,
                ReadPwm, ReadPower, ReadMin, ReadMax, Read, Load, LoadFails, Boot
  <2>2. ASSUME u = Main
        PROVE  pc[Main] # "accept" /\ pc'[Main] # "down" /\ pc'[Main] # "accept"
    <3>1. Restore(u) \/ RestoreFails(u) \/ Load \/ LoadFails
      BY <1>5, <2>2, ThreadsAssumption DEF Moves, Step, Faults, TryLock, TryLockFails, Release,
         OpenFile, WriteFile, Switch, OpenFails, WriteLost
    <3>2. pc[Main] \in {"down", "restore"} /\ pc'[Main] \in {"restore", "telemetry"}
      BY <2>2, <3>1 DEF Restore, RestoreFails, Load, LoadFails, Boot, Goto, AfterRestore, Threads
    <3> QED BY <3>2
  <2>3. ASSUME u = Svc
        PROVE  pc'[Svc] # "off" /\ (pc[Svc] = "recv" => TakeEvent)
    <3>1. CASE Step(u)
      BY <2>3, <3>1 DEF Step, TryLock, TryLockFails, Release, OpenFile, WriteFile, Switch, Restore,
         Goto, Finish, AfterLock, AfterSave, AfterRestore, Threads
    <3>2. CASE Faults(u)
      BY <2>3, <3>2 DEF Faults, OpenFails, WriteLost, RestoreFails, SaveError, Goto, Finish,
         AfterSave, AfterRestore, Threads
    <3>3. CASE OfListener
      BY <3>3 DEF OfListener, TakeEvent, SetLed, ReadFails, ReadKbd, ReadPwm, ReadPower, ReadMin,
         ReadMax, Read, Reads, AfterFailedRead, AfterReads, Goto, Threads
    <3> QED BY <1>5, <2>3, <3>1, <3>2, <3>3, ThreadsAssumption DEF Moves
  <2> QED BY <2>1, <2>2, <2>3
<1>6. ASSUME NEW u \in Threads, Moves(u)
      PROVE  /\ u # Main => pc'[Main] = pc[Main]
             /\ u # Svc => pc'[Svc] = pc[Svc]
  BY <1>6, OthersStay DEF Stays, Threads
<1>7. ASSUME NEW u \in Threads, Moves(u)
      PROVE  /\ Listening'
             /\ Waits => Waits' \/ Taken
             /\ pc[Main] = "accept" => pc'[Main] = "accept" \/ Taken
             /\ pc[Svc] = "recv" => pc'[Svc] = "recv" \/ Taken
  <2>1. CASE u = Main
    BY <1>5, <1>6, <1>7, <2>1, ThreadsAssumption DEF Listening, Waits
  <2>2. CASE u = Svc
    BY <1>5, <1>6, <1>7, <2>2, ThreadsAssumption DEF Listening, Waits, Taken
  <2>3. CASE u \notin {Main, Svc}
    BY <1>5, <1>6, <1>7, <2>3 DEF Listening, Waits
  <2> QED BY <2>1, <2>2, <2>3
<1> QED BY <1>1, <1>2, <1>3, <1>4, <1>7, Movers

(* An event that waits for the listener is taken up, or the process is     *)
(* gone, however many follow it and whatever the listener and the clients  *)
(* are at, if each thread is scheduled and can take a step whenever it has *)
(* a job, the listener also when it has an event (main.rs:55-99).          *)
THEOREM EventsAreTakenUp == FairSpec /\ ThreadsCanRun => (Waits ~> <><<Taken>>_vars)
<1> DEFINE Up == pc[Main] = "accept"
           Idle == pc[Svc] = "recv"
<1>1. Init => Listening
  BY DEF Init, Listening, Threads
<1>2. Base /\ Listening /\ [Next]_vars =>
        /\ Listening'
        /\ Waits => Waits' \/ <<Taken>>_vars
        /\ Up => Up' \/ <<Taken>>_vars
        /\ Idle => Idle' \/ <<Taken>>_vars
  <2>1. UNCHANGED vars => UNCHANGED <<pc, queue>>
    BY DEF vars, work
  <2> QED BY <2>1, ListeningNext DEF Waits
<1>3. Base /\ Listening =>
        /\ Waits => Busy(Main) \/ Up
        /\ Up => Busy(Svc) \/ Idle
  BY DEF Base, Control, Places, Listening, Waits, Busy, BusyLabels, LockedLabels
<1>4. Idle /\ SvcStep => Taken
  BY DEF SvcStep, Step, TryLock, TryLockFails, Release, OpenFile, WriteFile, Switch, Restore, SetLed,
         ReadKbd, ReadPwm, ReadPower, ReadMin, ReadMax, Read, Taken
<1>5. FairSpec /\ ThreadsCanRun => Ends(Main) /\ Ends(Svc)
  BY JobsEnd DEF Threads
<1>6. /\ Idle => pc[Svc] = "recv"
      /\ Waits => queue # << >>
  BY DEF Waits
<1>7. FairSpec => WF_vars(SvcStep)
  BY PTL DEF FairSpec, Fairness
<1> HIDE DEF Up, Idle
<1> QED BY <1>1, <1>2, <1>3, <1>4, <1>5, <1>6, <1>7, BaseHolds, PTL
        DEF FairSpec, Spec, Ends, ThreadsCanRun, ListenerCanRun
=============================================================================
