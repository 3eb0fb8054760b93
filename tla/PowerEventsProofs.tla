--------------------------- MODULE PowerEventsProofs ---------------------------
(***************************************************************************)
(* Proofs about PowerEvents, for any bounds, limits and levels: its types, *)
(* that the daemon sees no more sleeps than there are, that the ring comes *)
(* back after them, that the indicator tells of the charger, and that the  *)
(* port of the LEDs keeps its other bits.                                  *)
(***************************************************************************)
EXTENDS PowerEvents, TLAPS

-----------------------------------------------------------------------------
(* The inductive invariant.                                                *)

Lamps == [orange : BOOLEAN, white : BOOLEAN, other : BOOLEAN]

(* What the port is to be given has the other bit as it is, unless the     *)
(* firmware came between the two batches.                                  *)
Bits ==
  /\ hist.raced => hist.bit
  /\ ~hist.raced => port.other = hist.bit
  /\ ~hist.raced /\ core = "port" => copy.other = hist.bit

(* What the LEDs show, or will show when process_service is done with its  *)
(* event.                                                                  *)
LitAs(p, on) == ~(p.orange /\ p.white) /\ ((p.orange \/ p.white) <=> on)

Shows(on) ==
  /\ core = "off" => ~on
  /\ core \in {"white", "orange"} => on
  /\ core = "port" => LitAs(copy, on)
  /\ core \notin {"off", "white", "orange", "port"} => LitAs(port, on)

NoneIn(q) == \A k \in 1..Len(q) : q[k] \notin ChargerEvents

(* The last charger event of the queue is about on.                        *)
LastIn(q, on) ==
  \E k \in 1..Len(q) :
    /\ q[k] = ChargerEvent(on)
    /\ \A j \in 1..Len(q) : j > k => q[j] \notin ChargerEvents

(* A change that is not lost is on its way, or shown.                      *)
Lit ==
  core # "dead" /\ ~hist.unlit /\ sig.charger = 0 =>
    LastIn(queue, plugged) \/ (NoneIn(queue) /\ Shows(plugged))

NoShutdown(q) == \A k \in 1..Len(q) : q[k] # "SystemShuttingDown"

(* There is a wake-up behind the k-th event; behind every sleep.           *)
WakeIn(q, k) == \E j \in 1..Len(q) : j > k /\ q[j] = "SystemWakingUp"
AllWoken(q)  == \A k \in 1..Len(q) : q[k] \in SleepEvents => WakeIn(q, k)

(* The wake-up is still to be sent.                                        *)
WakeDue == power \in {"leaving", "asleep"} \/ sig.wake > 0

(* The machine goes on, and its sleeps are told of in time and truly.      *)
Told == power # "down" /\ ~hist.late /\ ~hist.unbuilt

(* A sleep that is on its way, or shown by the ring, has its wake-up ahead.*)
Ring ==
  /\ power # "down" => ~sig.shut /\ NoShutdown(queue)
  /\ Told => WakeDue \/ AllWoken(queue)
  /\ Told /\ ~hist.stale => ring = "user" \/ WakeDue \/ WakeIn(queue, 0)

Sleeping == power \in {"leaving", "asleep"}

(* The jobs that were not taken start and stop in turns, and the last one  *)
(* is what the machine did last.                                           *)
Turns(q, on) ==
  \A k \in 1..Len(q) : q[k].type = "start" <=> (on <=> (Len(q) - k) % 2 = 0)

(* Of l jobs in turns so many are starts, when the last one is a start, or *)
(* a stop; and the one that is asked about.                                *)
StartsIfLast(l) == (l + 1) \div 2
StartsIfNot(l)  == l \div 2
Asked == IF jobs.type = "start" THEN 1 ELSE 0

(* Every event of a sleep, and every start that may become one, is of a    *)
(* sleep of its own.                                                       *)
Sleeps ==
  /\ os = "windows" => sig.job = <<>> /\ jobs \notin Jobs
  /\ Turns(sig.job, Sleeping)
  /\ ~hist.unbuilt /\ Sleeping => n.sent + StartsIfLast(Len(sig.job)) + Asked <= n.sleeps
  /\ ~hist.unbuilt /\ ~Sleeping => n.sent + StartsIfNot(Len(sig.job)) + Asked <= n.sleeps

IInv == TypeOK /\ Bits /\ Lit /\ Ring /\ Sleeps

-----------------------------------------------------------------------------
(* The channel: what a send, a receive and a double wake-up do to it.      *)

LEMMA Sent ==
  ASSUME NEW q \in Seq(Events), NEW e \in Events
  PROVE  /\ Append(q, e) \in Seq(Events) /\ Len(q) \in Nat /\ Len(Append(q, e)) = Len(q) + 1
         /\ \A k \in 1..Len(q) : Append(q, e)[k] = q[k]
         /\ Append(q, e)[Len(q) + 1] = e
  OBVIOUS

LEMMA Received ==
  ASSUME NEW q \in Seq(Events), q # <<>>
  PROVE  /\ Tail(q) \in Seq(Events) /\ Len(q) \in Nat /\ Len(q) > 0 /\ Len(Tail(q)) = Len(q) - 1
         /\ Head(q) \in Events /\ Head(q) = q[1]
         /\ \A k \in 1..Len(Tail(q)) : Tail(q)[k] = q[k + 1]
  OBVIOUS

LEMMA WokenTwice ==
  ASSUME NEW q \in Seq(Events), NEW twice \in 1..2,
         NEW r, r = q \o [i \in 1..twice |-> "SystemWakingUp"]
  PROVE  /\ r \in Seq(Events) /\ Len(q) \in Nat /\ Len(r) = Len(q) + twice
         /\ \A k \in 1..Len(q) : r[k] = q[k]
         /\ \A k \in 1..Len(r) : k > Len(q) => r[k] = "SystemWakingUp"
<1> DEFINE w == [i \in 1..twice |-> "SystemWakingUp"]
<1>1. w \in Seq(Events) /\ Len(w) = twice
  BY DEF Events
<1>2. \A k \in 1..twice : w[k] = "SystemWakingUp"
  OBVIOUS
<1> HIDE DEF w
<1>3. r = q \o w
  BY DEF w
<1> QED
  BY <1>1, <1>2, <1>3

-----------------------------------------------------------------------------
(* Types.                                                                  *)

LEMMA Names ==
  /\ {"sleeps", "toggles", "faults", "sent", "served"} \subseteq Counts
  /\ {"late", "unbuilt", "stale", "unlit", "bit", "raced", "announced", "done"} \subseteq Flags
  BY DEF Counts, Flags

LEMMA Typed ==
  ASSUME TypeOK
  PROVE  /\ os \in {"linux", "windows"} /\ kind \in Kinds
         /\ power \in {"awake", "leaving", "asleep", "down"} /\ plugged \in BOOLEAN
         /\ ring \in {"user", "auto", "sleep"}
         /\ port \in Lamps /\ copy \in Lamps
         /\ sig \in [job : Seq(Jobs), wake : Nat, charger : Nat, shut : BOOLEAN]
         /\ jobs \in Jobs \cup {Idle, Ready} /\ queue \in Seq(Events)
         /\ core \in {"init", "wait", "save", "last save", "white", "orange", "off", "port", "dead"}
         /\ n \in [Counts -> Nat] /\ n.faults <= MaxFaults
         /\ hist \in [Flags -> BOOLEAN]
<1>1. {port, copy} \subseteq Lamps
  BY Zenon DEF TypeOK, Lamps
<1>2. port \in Lamps /\ copy \in Lamps
  BY ONLY <1>1
<1> QED
  BY Zenon, <1>2 DEF TypeOK

(* Counters that are set, one or two in a step.                            *)
One(c, x)       == [n EXCEPT ![c] = x]
Two(c, x, d, y) == [n EXCEPT ![c] = x, ![d] = y]

LEMMA SetOne ==
  ASSUME n \in [Counts -> Nat], NEW c \in Counts, NEW x \in Nat
  PROVE  /\ One(c, x) \in [Counts -> Nat] /\ One(c, x)[c] = x
         /\ \A e \in Counts \ {c} : One(c, x)[e] = n[e]
  BY DEF One

LEMMA SetTwo ==
  ASSUME n \in [Counts -> Nat],
         NEW c \in Counts, NEW x \in Nat, NEW d \in Counts, c # d, NEW y \in Nat
  PROVE  /\ Two(c, x, d, y) \in [Counts -> Nat]
         /\ Two(c, x, d, y)[c] = x /\ Two(c, x, d, y)[d] = y
         /\ \A e \in Counts \ {c, d} : Two(c, x, d, y)[e] = n[e]
  BY DEF Two

(* Those that a fault sets, and those that leave the faults alone.         *)
LEMMA Bounded ==
  ASSUME n \in [Counts -> Nat], n.faults <= MaxFaults,
         NEW c \in Counts, NEW d \in Counts, c # d, NEW x \in Nat, NEW y \in Nat,
         \/ n' = n
         \/ n' = One(c, x) /\ (c = "faults" => x <= MaxFaults)
         \/ n' = Two(c, x, d, y) /\ d # "faults" /\ (c = "faults" => x <= MaxFaults)
  PROVE  n' \in [Counts -> Nat] /\ n'.faults <= MaxFaults
<1>1. "faults" \in Counts
  BY Names
<1>2. CASE n' = n
  BY ONLY <1>2, n \in [Counts -> Nat], n.faults <= MaxFaults
<1>3. CASE n' = One(c, x) /\ (c = "faults" => x <= MaxFaults)
  <2>1. /\ One(c, x) \in [Counts -> Nat] /\ One(c, x)[c] = x
        /\ \A e \in Counts \ {c} : One(c, x)[e] = n[e]
    BY SetOne
  <2>2. CASE c = "faults"
    BY ONLY <1>3, <2>1, <2>2
  <2>3. CASE c # "faults"
    BY ONLY <1>1, <1>3, <2>1, <2>3, n.faults <= MaxFaults
  <2> QED
    BY ONLY <2>2, <2>3
<1>4. CASE n' = Two(c, x, d, y) /\ d # "faults" /\ (c = "faults" => x <= MaxFaults)
  <2>1. /\ Two(c, x, d, y) \in [Counts -> Nat] /\ Two(c, x, d, y)[c] = x
        /\ \A e \in Counts \ {c, d} : Two(c, x, d, y)[e] = n[e]
    BY ONLY SetTwo, n \in [Counts -> Nat], c # d, c \in Counts, d \in Counts, x \in Nat, y \in Nat
  <2>2. CASE c = "faults"
    BY ONLY <1>4, <2>1, <2>2
  <2>3. CASE c # "faults"
    BY ONLY <1>1, <1>4, <2>1, <2>3, n.faults <= MaxFaults
  <2> QED
    BY ONLY <2>2, <2>3
<1> QED
  BY <1>2, <1>3, <1>4

LEMMA TypeInit == Init => TypeOK
<1> SUFFICES ASSUME Init
             PROVE  TypeOK
  OBVIOUS
<1> USE DEF Init, still
<1>1. os \in {"linux", "windows"} /\ kind \in Kinds
  BY DEF Kinds
<1>2. {port, copy} \subseteq [orange : BOOLEAN, white : BOOLEAN, other : BOOLEAN]
  <2>1. /\ Dark \in [orange : BOOLEAN, white : BOOLEAN, other : BOOLEAN]
        /\ [Dark EXCEPT !.white = TRUE] \in [orange : BOOLEAN, white : BOOLEAN, other : BOOLEAN]
    BY DEF Dark
  <2>2. copy = Dark /\ port \in {Dark, [Dark EXCEPT !.white = TRUE]}
    OBVIOUS
  <2> QED
    BY ONLY <2>1, <2>2
<1>3. sig \in [job : Seq(Jobs), wake : Nat, charger : Nat, shut : BOOLEAN]
  OBVIOUS
<1>4. n \in [Counts -> Nat] /\ n.faults <= MaxFaults
  BY BoundsAssumption, Names
<1>5. hist \in [Flags -> BOOLEAN]
  BY Names
<1> QED
  BY <1>1, <1>2, <1>3, <1>4, <1>5 DEF TypeOK

LEMMA PlainNext ==
  ASSUME TypeOK, [Next]_vars
  PROVE  /\ os' \in {"linux", "windows"} /\ kind' \in Kinds
         /\ power' \in {"awake", "leaving", "asleep", "down"} /\ plugged' \in BOOLEAN
         /\ ring' \in {"user", "auto", "sleep"}
         /\ core' \in {"init", "wait", "save", "last save", "white", "orange", "off", "port", "dead"}
<1>0. /\ os \in {"linux", "windows"} /\ kind \in Kinds
      /\ power \in {"awake", "leaving", "asleep", "down"} /\ plugged \in BOOLEAN
      /\ ring \in {"user", "auto", "sleep"}
      /\ core \in {"init", "wait", "save", "last save", "white", "orange", "off", "port", "dead"}
  BY Zenon, Typed
<1>1. CASE SleepBegins
  BY ONLY <1>1, <1>0 DEF SleepBegins, still
<1>2. CASE FallsAsleep
  BY ONLY <1>2, <1>0 DEF FallsAsleep, still
<1>3. CASE WakesUp
  BY ONLY <1>3, <1>0 DEF WakesUp, still
<1>4. CASE Toggle
  BY ONLY <1>4, <1>0 DEF Toggle, still
<1>5. CASE ShutdownBegins
  BY ONLY <1>5, <1>0 DEF ShutdownBegins, still
<1>6. CASE ProcessEnds
  BY ONLY <1>6, <1>0 DEF ProcessEnds, still
<1>7. CASE FirmwareWrites
  BY ONLY <1>7, <1>0 DEF FirmwareWrites, still
<1>8. CASE Inited
  BY ONLY <1>8, <1>0 DEF Inited, still
<1>9. CASE TakeJob
  BY ONLY <1>9, <1>0 DEF TakeJob, still
<1>10. CASE JobAnswer
  BY ONLY <1>10, <1>0 DEF JobAnswer, still
<1>11. CASE PrepareForSleep
  BY ONLY <1>11, <1>0 DEF PrepareForSleep, still
<1>12. CASE OnBatteryChanged
  BY ONLY <1>12, <1>0 DEF OnBatteryChanged, still
<1>13. CASE PrepareForShutdown
  BY ONLY <1>13, <1>0 DEF PrepareForShutdown, still
<1>14. CASE MainGoesOn
  BY ONLY <1>14, <1>0 DEF MainGoesOn, still
<1>15. CASE Take
  BY ONLY <1>15, <1>0 DEF Take, Handle, still, Goodbye, WakingUp, Connected, Disconnected
<1>16. CASE Save
  BY ONLY <1>16, <1>0 DEF Save, still
<1>17. CASE ReadPort
  BY ONLY <1>17, <1>0 DEF ReadPort, still
<1>18. CASE WritePort
  BY ONLY <1>18, <1>0 DEF WritePort, still
<1>19. CASE UNCHANGED vars
  BY ONLY <1>19, <1>0 DEF vars, still
<1> QED
  BY <1>1, <1>2, <1>3, <1>4, <1>5, <1>6, <1>7, <1>8, <1>9, <1>10, <1>11, <1>12, <1>13, <1>14, <1>15, <1>16, <1>17, <1>18, <1>19 DEF Next, Listeners, Core

LEMMA EventTypes ==
  /\ \A k \in Kinds : SleepEvent(k) \in SleepEvents
  /\ \A on \in BOOLEAN : ChargerEvent(on) \in ChargerEvents
  /\ SleepEvents \cup ChargerEvents \cup {"SystemWakingUp", "SystemShuttingDown", "Inited"} = Events
  /\ ~\E e \in SleepEvents : e \in ChargerEvents
  /\ {"SystemWakingUp", "SystemShuttingDown", "Inited"} \cap (SleepEvents \cup ChargerEvents) = {}
  BY DEF Kinds, SleepEvent, SleepEvents, ChargerEvent, ChargerEvents, Events

LEMMA JobMade ==
  ASSUME NEW k \in Kinds
  PROVE  [kind |-> k, type |-> "start"] \in Jobs /\ [kind |-> k, type |-> "stop"] \in Jobs
  BY DEF Jobs

LEMMA JobTypes ==
  /\ Idle \notin Jobs /\ Ready \notin Jobs /\ Idle # Ready
  /\ Idle.type # "start" /\ Ready.type # "start"
  /\ \A j \in Jobs : j.kind \in Kinds /\ j.type \in {"start", "stop"}
  BY DEF Jobs, Idle, Ready, Kinds

LEMMA LampsNext ==
  ASSUME TypeOK, [Next]_vars
  PROVE  port' \in Lamps /\ copy' \in Lamps
<1>0. port \in Lamps /\ copy \in Lamps
  BY Zenon, Typed
<1>1. CASE SleepBegins
  BY ONLY <1>1, <1>0 DEF SleepBegins, still
<1>2. CASE FallsAsleep
  BY ONLY <1>2, <1>0 DEF FallsAsleep, still
<1>3. CASE WakesUp
  BY ONLY <1>3, <1>0 DEF WakesUp, still
<1>4. CASE Toggle
  BY ONLY <1>4, <1>0 DEF Toggle, still
<1>5. CASE ShutdownBegins
  BY ONLY <1>5, <1>0 DEF ShutdownBegins, still
<1>6. CASE ProcessEnds
  BY ONLY <1>6, <1>0 DEF ProcessEnds, still
<1>7. CASE FirmwareWrites
  BY ONLY <1>7, <1>0 DEF FirmwareWrites, still, Lamps
<1>8. CASE Inited
  BY ONLY <1>8, <1>0 DEF Inited, still
<1>9. CASE TakeJob
  BY ONLY <1>9, <1>0 DEF TakeJob, still
<1>10. CASE JobAnswer
  BY ONLY <1>10, <1>0 DEF JobAnswer, still
<1>11. CASE PrepareForSleep
  BY ONLY <1>11, <1>0 DEF PrepareForSleep, still
<1>12. CASE OnBatteryChanged
  BY ONLY <1>12, <1>0 DEF OnBatteryChanged, still
<1>13. CASE PrepareForShutdown
  BY ONLY <1>13, <1>0 DEF PrepareForShutdown, still
<1>14. CASE MainGoesOn
  BY ONLY <1>14, <1>0 DEF MainGoesOn, still
<1>15. CASE Take
  BY ONLY <1>15, <1>0 DEF Take, still
<1>16. CASE Save
  BY ONLY <1>16, <1>0 DEF Save, still
<1>17. CASE ReadPort
  BY ONLY <1>17, <1>0 DEF ReadPort, still, Lamps, Fault, Set
<1>18. CASE WritePort
  BY ONLY <1>18, <1>0 DEF WritePort, still, Lamps, Dark
<1>19. CASE UNCHANGED vars
  BY ONLY <1>19, <1>0 DEF vars, still
<1> QED
  BY <1>1, <1>2, <1>3, <1>4, <1>5, <1>6, <1>7, <1>8, <1>9, <1>10, <1>11, <1>12, <1>13, <1>14, <1>15, <1>16, <1>17, <1>18, <1>19 DEF Next, Listeners, Core

LEMMA SigNext ==
  ASSUME TypeOK, [Next]_vars
  PROVE  sig' \in [job : Seq(Jobs), wake : Nat, charger : Nat, shut : BOOLEAN]
<1>0. sig \in [job : Seq(Jobs), wake : Nat, charger : Nat, shut : BOOLEAN]
  BY Zenon, Typed
<1>1. CASE SleepBegins
  <2>1. [kind |-> kind, type |-> "start"] \in Jobs
    BY Zenon, Typed, JobMade
  <2>2. \/ sig' = sig
        \/ sig' = [sig EXCEPT !.job = Append(@, [kind |-> kind, type |-> "start"])]
    BY ONLY <1>1 DEF SleepBegins
  <2>3. Append(sig.job, [kind |-> kind, type |-> "start"]) \in Seq(Jobs)
    BY ONLY <1>0, <2>1
  <2> QED
    BY ONLY <1>0, <2>2, <2>3
<1>2. CASE FallsAsleep
  BY ONLY <1>2, <1>0 DEF FallsAsleep, still
<1>3. CASE WakesUp
  <2>1. [kind |-> kind, type |-> "stop"] \in Jobs
    BY Zenon, Typed, JobMade
  <2>2. \/ sig' = sig
        \/ sig' = [sig EXCEPT !.job = Append(@, [kind |-> kind, type |-> "stop"]), !.wake = @ + 1]
    BY ONLY <1>3 DEF WakesUp
  <2>3. Append(sig.job, [kind |-> kind, type |-> "stop"]) \in Seq(Jobs) /\ sig.wake + 1 \in Nat
    BY ONLY <1>0, <2>1
  <2>4. CASE sig' = [sig EXCEPT !.job = Append(@, [kind |-> kind, type |-> "stop"]), !.wake = @ + 1]
    BY ONLY <1>0, <2>3, <2>4
  <2> QED
    BY ONLY <1>0, <2>2, <2>4
<1>4. CASE Toggle
  <2>1. sig' = sig \/ sig' = [sig EXCEPT !.charger = @ + 1]
    BY ONLY <1>4 DEF Toggle
  <2> QED
    BY ONLY <1>0, <2>1
<1>5. CASE ShutdownBegins
  <2>1. sig' = sig \/ sig' = [sig EXCEPT !.shut = TRUE]
    BY ONLY <1>5 DEF ShutdownBegins
  <2> QED
    BY ONLY <1>0, <2>1
<1>6. CASE ProcessEnds
  BY ONLY <1>6, <1>0 DEF ProcessEnds, still
<1>7. CASE FirmwareWrites
  BY ONLY <1>7, <1>0 DEF FirmwareWrites, still
<1>8. CASE Inited
  BY ONLY <1>8, <1>0 DEF Inited, still
<1>9. CASE TakeJob
  <2>1. sig' = [sig EXCEPT !.job = Tail(@)] /\ sig.job # <<>>
    BY ONLY <1>9 DEF TakeJob
  <2> QED
    BY ONLY <1>0, <2>1
<1>10. CASE JobAnswer
  BY ONLY <1>10, <1>0 DEF JobAnswer, still
<1>11. CASE PrepareForSleep
  BY ONLY <1>11, <1>0 DEF PrepareForSleep, still
<1>12. CASE OnBatteryChanged
  BY ONLY <1>12, <1>0 DEF OnBatteryChanged, still
<1>13. CASE PrepareForShutdown
  BY ONLY <1>13, <1>0 DEF PrepareForShutdown, still
<1>14. CASE MainGoesOn
  BY ONLY <1>14, <1>0 DEF MainGoesOn, still
<1>15. CASE Take
  BY ONLY <1>15, <1>0 DEF Take, still
<1>16. CASE Save
  BY ONLY <1>16, <1>0 DEF Save, still
<1>17. CASE ReadPort
  BY ONLY <1>17, <1>0 DEF ReadPort, still
<1>18. CASE WritePort
  BY ONLY <1>18, <1>0 DEF WritePort, still
<1>19. CASE UNCHANGED vars
  BY ONLY <1>19, <1>0 DEF vars, still
<1> QED
  BY <1>1, <1>2, <1>3, <1>4, <1>5, <1>6, <1>7, <1>8, <1>9, <1>10, <1>11, <1>12, <1>13, <1>14, <1>15, <1>16, <1>17, <1>18, <1>19 DEF Next, Listeners, Core

LEMMA JobsNext ==
  ASSUME TypeOK, [Next]_vars
  PROVE  jobs' \in Jobs \cup {Idle, Ready}
<1>0. /\ jobs \in Jobs \cup {Idle, Ready}
      /\ sig \in [job : Seq(Jobs), wake : Nat, charger : Nat, shut : BOOLEAN]
  BY Zenon, Typed
<1>1. CASE SleepBegins
  BY ONLY <1>1, <1>0 DEF SleepBegins, still
<1>2. CASE FallsAsleep
  BY ONLY <1>2, <1>0 DEF FallsAsleep, still
<1>3. CASE WakesUp
  BY ONLY <1>3, <1>0 DEF WakesUp, still
<1>4. CASE Toggle
  BY ONLY <1>4, <1>0 DEF Toggle, still
<1>5. CASE ShutdownBegins
  BY ONLY <1>5, <1>0 DEF ShutdownBegins, still
<1>6. CASE ProcessEnds
  BY ONLY <1>6, <1>0 DEF ProcessEnds, still
<1>7. CASE FirmwareWrites
  BY ONLY <1>7, <1>0 DEF FirmwareWrites, still
<1>8. CASE Inited
  BY ONLY <1>8, <1>0 DEF Inited, still
<1>9. CASE TakeJob
  <2>1. sig.job \in Seq(Jobs)
    BY ONLY <1>0
  <2> QED
    BY ONLY <2>1, <1>9 DEF TakeJob
<1>10. CASE JobAnswer
  BY ONLY <1>10, <1>0 DEF JobAnswer, still
<1>11. CASE PrepareForSleep
  BY ONLY <1>11, <1>0 DEF PrepareForSleep, still
<1>12. CASE OnBatteryChanged
  BY ONLY <1>12, <1>0 DEF OnBatteryChanged, still
<1>13. CASE PrepareForShutdown
  BY ONLY <1>13, <1>0 DEF PrepareForShutdown, still
<1>14. CASE MainGoesOn
  BY ONLY <1>14, <1>0 DEF MainGoesOn, still
<1>15. CASE Take
  BY ONLY <1>15, <1>0 DEF Take, still
<1>16. CASE Save
  BY ONLY <1>16, <1>0 DEF Save, still
<1>17. CASE ReadPort
  BY ONLY <1>17, <1>0 DEF ReadPort, still
<1>18. CASE WritePort
  BY ONLY <1>18, <1>0 DEF WritePort, still
<1>19. CASE UNCHANGED vars
  BY ONLY <1>19, <1>0 DEF vars, still
<1> QED
  BY <1>1, <1>2, <1>3, <1>4, <1>5, <1>6, <1>7, <1>8, <1>9, <1>10, <1>11, <1>12, <1>13, <1>14, <1>15, <1>16, <1>17, <1>18, <1>19 DEF Next, Listeners, Core

(* What a step may do to the channel.                                      *)
LEMMA QueueMoves ==
  ASSUME TypeOK, [Next]_vars
  PROVE  \/ queue' = queue
         \/ \E e \in Events : queue' = Append(queue, e)
         \/ queue # <<>> /\ queue' = Tail(queue)
         \/ \E twice \in 1..2 : queue' = queue \o [i \in 1..twice |-> "SystemWakingUp"]
<1>0. kind \in Kinds /\ plugged \in BOOLEAN
  BY Zenon, Typed
<1>1. CASE SleepBegins
  BY ONLY <1>1, <1>0, EventTypes DEF SleepBegins, Send, SleepEvents
<1>2. CASE FallsAsleep
  BY ONLY <1>2, <1>0 DEF FallsAsleep, still
<1>3. CASE WakesUp
  BY ONLY <1>3, <1>0 DEF WakesUp, still
<1>4. CASE Toggle
  BY ONLY <1>4, <1>0, EventTypes DEF Toggle, Send
<1>5. CASE ShutdownBegins
  BY ONLY <1>5, <1>0, EventTypes DEF ShutdownBegins, Send
<1>6. CASE ProcessEnds
  BY ONLY <1>6, <1>0 DEF ProcessEnds, still
<1>7. CASE FirmwareWrites
  BY ONLY <1>7, <1>0 DEF FirmwareWrites, still
<1>8. CASE Inited
  BY ONLY <1>8, <1>0, EventTypes DEF Inited, Send
<1>9. CASE TakeJob
  BY ONLY <1>9, <1>0 DEF TakeJob, still
<1>10. CASE JobAnswer
  <2>1. jobs.kind \in Kinds
    BY ONLY <1>10, JobTypes DEF JobAnswer
  <2>2. queue' = queue \/ queue' = Append(queue, SleepEvent(jobs.kind))
    BY ONLY <1>10 DEF JobAnswer, JobIsKnown, JobIsUnknown, ProxyFails, SendSleep, Send
  <2> QED
    BY ONLY <2>1, <2>2, EventTypes
<1>11. CASE PrepareForSleep
  BY ONLY <1>11, <1>0, EventTypes DEF PrepareForSleep, Send
<1>12. CASE OnBatteryChanged
  BY ONLY <1>12, <1>0, EventTypes DEF OnBatteryChanged, Send
<1>13. CASE PrepareForShutdown
  BY ONLY <1>13, <1>0, EventTypes DEF PrepareForShutdown, Send
<1>14. CASE MainGoesOn
  BY ONLY <1>14, <1>0 DEF MainGoesOn, still
<1>15. CASE Take
  BY ONLY <1>15, <1>0 DEF Take, still
<1>16. CASE Save
  BY ONLY <1>16, <1>0 DEF Save, still
<1>17. CASE ReadPort
  BY ONLY <1>17, <1>0 DEF ReadPort, still
<1>18. CASE WritePort
  BY ONLY <1>18, <1>0 DEF WritePort, still
<1>19. CASE UNCHANGED vars
  BY ONLY <1>19, <1>0 DEF vars, still
<1> QED
  BY <1>1, <1>2, <1>3, <1>4, <1>5, <1>6, <1>7, <1>8, <1>9, <1>10, <1>11, <1>12, <1>13, <1>14, <1>15, <1>16, <1>17, <1>18, <1>19 DEF Next, Listeners, Core

LEMMA QueueNext ==
  ASSUME TypeOK, [Next]_vars
  PROVE  queue' \in Seq(Events)
<1>1. queue \in Seq(Events)
  BY Zenon, Typed
<1> QED
  BY <1>1, QueueMoves, Sent, Received, WokenTwice

LEMMA CountsNext ==
  ASSUME TypeOK, [Next]_vars
  PROVE  n' \in [Counts -> Nat] /\ n'.faults <= MaxFaults
<1>0. n \in [Counts -> Nat] /\ n.faults <= MaxFaults
  BY Zenon, Typed
<1>a. MaxFaults \in Nat
  BY BoundsAssumption
<1>b. {"sleeps", "toggles", "faults", "sent", "served"} \subseteq Counts
  BY Names
<1>c. \A c \in Counts : n[c] \in Nat /\ n[c] + 1 \in Nat
  BY ONLY <1>0
<1>1. CASE SleepBegins
  <2>1. n' = One("sleeps", n.sleeps + 1) \/ n' = Two("sleeps", n.sleeps + 1, "sent", n.sent + 1)
    BY ONLY <1>1 DEF SleepBegins, Count, One, Two
  <2> QED
    BY ONLY <2>1, <1>0, <1>b, <1>c, Bounded
<1>2. CASE FallsAsleep
  BY ONLY <1>2, <1>0 DEF FallsAsleep, still
<1>3. CASE WakesUp
  BY ONLY <1>3, <1>0 DEF WakesUp, still
<1>4. CASE Toggle
  <2>1. n' = One("toggles", n.toggles + 1)
    BY ONLY <1>4 DEF Toggle, Count, One
  <2> QED
    BY ONLY <2>1, <1>0, <1>b, <1>c, Bounded
<1>5. CASE ShutdownBegins
  BY ONLY <1>5, <1>0 DEF ShutdownBegins, still
<1>6. CASE ProcessEnds
  BY ONLY <1>6, <1>0 DEF ProcessEnds, still
<1>7. CASE FirmwareWrites
  BY ONLY <1>7, <1>0 DEF FirmwareWrites, still
<1>8. CASE Inited
  BY ONLY <1>8, <1>0 DEF Inited, still
<1>9. CASE TakeJob
  BY ONLY <1>9, <1>0 DEF TakeJob, still
<1>10. CASE JobAnswer
  <2>1. \/ n' = n
        \/ n' = One("sent", n.sent + 1)
        \/ /\ n.faults < MaxFaults
           /\ \/ n' = Two("faults", n.faults + 1, "sent", n.sent + 1)
              \/ n' = Two("faults", n.faults + 1, "served", n.served + 1)
              \/ n' = Two("faults", n.faults + 1, "served", n.served)
    <3>1. CASE jobs.type = "start"
      BY ONLY <1>10, <3>1 DEF JobAnswer, JobIsKnown, JobIsUnknown, ProxyFails, SendSleep, One, Two
    <3>2. CASE jobs.type # "start"
      BY ONLY <1>10, <3>2 DEF JobAnswer, JobIsKnown, JobIsUnknown, ProxyFails, SendSleep, One, Two
    <3> QED
      BY ONLY <3>1, <3>2
  <2> QED
    BY ONLY <2>1, <1>0, <1>a, <1>b, <1>c, Bounded
<1>11. CASE PrepareForSleep
  BY ONLY <1>11, <1>0 DEF PrepareForSleep, still
<1>12. CASE OnBatteryChanged
  <2>1. n' = n \/ Fault
    BY ONLY <1>12 DEF OnBatteryChanged
  <2>2. Fault => n.faults < MaxFaults /\ n' = One("faults", n.faults + 1)
    BY ONLY DEF Fault, Count, One
  <2> QED
    BY ONLY <2>1, <2>2, <1>0, <1>a, <1>b, <1>c, Bounded
<1>13. CASE PrepareForShutdown
  BY ONLY <1>13, <1>0 DEF PrepareForShutdown, still
<1>14. CASE MainGoesOn
  <2>1. n' = One("served", n.served + 1) \/ n' = One("served", n.served)
    <3>1. CASE Head(queue) \in SleepEvents
      BY ONLY <1>14, <3>1 DEF MainGoesOn, One
    <3>2. CASE Head(queue) \notin SleepEvents
      BY ONLY <1>14, <3>2 DEF MainGoesOn, One
    <3> QED
      BY ONLY <3>1, <3>2
  <2> QED
    BY ONLY <2>1, <1>0, <1>b, <1>c, Bounded
<1>15. CASE Take
  <2>1. n' = n \/ Fault
    BY ONLY <1>15 DEF Take, Handle, Goodbye, WakingUp, Connected, Disconnected
  <2>2. Fault => n.faults < MaxFaults /\ n' = One("faults", n.faults + 1)
    BY ONLY DEF Fault, Count, One
  <2> QED
    BY ONLY <2>1, <2>2, <1>0, <1>a, <1>b, <1>c, Bounded
<1>16. CASE Save
  <2>1. n' = One("served", n.served + 1) \/ n' = One("served", n.served)
    <3>1. CASE core = "save"
      BY ONLY <1>16, <3>1 DEF Save, One
    <3>2. CASE core # "save"
      BY ONLY <1>16, <3>2 DEF Save, One
    <3> QED
      BY ONLY <3>1, <3>2
  <2> QED
    BY ONLY <2>1, <1>0, <1>b, <1>c, Bounded
<1>17. CASE ReadPort
  <2>1. n' = n \/ Fault
    BY ONLY <1>17 DEF ReadPort
  <2>2. Fault => n.faults < MaxFaults /\ n' = One("faults", n.faults + 1)
    BY ONLY DEF Fault, Count, One
  <2> QED
    BY ONLY <2>1, <2>2, <1>0, <1>a, <1>b, <1>c, Bounded
<1>18. CASE WritePort
  <2>1. n' = n \/ Fault
    BY ONLY <1>18 DEF WritePort
  <2>2. Fault => n.faults < MaxFaults /\ n' = One("faults", n.faults + 1)
    BY ONLY DEF Fault, Count, One
  <2> QED
    BY ONLY <2>1, <2>2, <1>0, <1>a, <1>b, <1>c, Bounded
<1>19. CASE UNCHANGED vars
  BY ONLY <1>19, <1>0 DEF vars, still
<1> QED
  BY <1>1, <1>2, <1>3, <1>4, <1>5, <1>6, <1>7, <1>8, <1>9, <1>10, <1>11, <1>12, <1>13, <1>14, <1>15, <1>16, <1>17, <1>18, <1>19 DEF Next, Listeners, Core

LEMMA HistNext ==
  ASSUME TypeOK, [Next]_vars
  PROVE  hist' \in [Flags -> BOOLEAN]
<1>0. hist \in [Flags -> BOOLEAN]
  BY Zenon, Typed
<1>1. CASE SleepBegins
  BY ONLY <1>1, <1>0 DEF SleepBegins, still
<1>2. CASE FallsAsleep
  BY ONLY <1>2, <1>0 DEF FallsAsleep, still
<1>3. CASE WakesUp
  BY ONLY <1>3, <1>0 DEF WakesUp, still
<1>4. CASE Toggle
  BY ONLY <1>4, <1>0, Names DEF Toggle, still, Set
<1>5. CASE ShutdownBegins
  BY ONLY <1>5, <1>0, Names DEF ShutdownBegins, still, Set
<1>6. CASE ProcessEnds
  BY ONLY <1>6, <1>0, Names DEF ProcessEnds, still, Set
<1>7. CASE FirmwareWrites
  BY ONLY <1>7, <1>0, Names DEF FirmwareWrites, still, Set
<1>8. CASE Inited
  BY ONLY <1>8, <1>0 DEF Inited, still
<1>9. CASE TakeJob
  BY ONLY <1>9, <1>0 DEF TakeJob, still
<1>10. CASE JobAnswer
  BY ONLY <1>10, <1>0, Names DEF JobAnswer, still, Set, JobIsKnown, JobIsUnknown, ProxyFails, SendSleep
<1>11. CASE PrepareForSleep
  BY ONLY <1>11, <1>0 DEF PrepareForSleep, still
<1>12. CASE OnBatteryChanged
  BY ONLY <1>12, <1>0, Names DEF OnBatteryChanged, still, Set
<1>13. CASE PrepareForShutdown
  BY ONLY <1>13, <1>0 DEF PrepareForShutdown, still
<1>14. CASE MainGoesOn
  BY ONLY <1>14, <1>0, Names DEF MainGoesOn, still, Set
<1>15. CASE Take
  BY ONLY <1>15, <1>0, Names DEF Take, Handle, still, Set, Goodbye, WakingUp, Connected, Disconnected
<1>16. CASE Save
  BY ONLY <1>16, <1>0, Names DEF Save, still, Set
<1>17. CASE ReadPort
  BY ONLY <1>17, <1>0, Names DEF ReadPort, still, Set
<1>18. CASE WritePort
  BY ONLY <1>18, <1>0, Names DEF WritePort, still, Set
<1>19. CASE UNCHANGED vars
  BY ONLY <1>19, <1>0 DEF vars, still
<1> QED
  BY <1>1, <1>2, <1>3, <1>4, <1>5, <1>6, <1>7, <1>8, <1>9, <1>10, <1>11, <1>12, <1>13, <1>14, <1>15, <1>16, <1>17, <1>18, <1>19 DEF Next, Listeners, Core

LEMMA TypeNext ==
  ASSUME TypeOK, [Next]_vars
  PROVE  TypeOK'
<1>1. {port', copy'} \subseteq [orange : BOOLEAN, white : BOOLEAN, other : BOOLEAN]
  <2>1. port' \in Lamps /\ copy' \in Lamps
    BY LampsNext
  <2> QED
    BY ONLY <2>1 DEF Lamps
<1>2. sig' \in [job : Seq(Jobs), wake : Nat, charger : Nat, shut : BOOLEAN]
  BY SigNext
<1>3. jobs' \in Jobs \cup {Idle, Ready} /\ queue' \in Seq(Events)
  BY JobsNext, QueueNext
<1>4. n' \in [Counts -> Nat] /\ n'.faults <= MaxFaults
  BY CountsNext
<1>5. hist' \in [Flags -> BOOLEAN]
  BY HistNext
<1> QED
  BY Zenon, PlainNext, <1>1, <1>2, <1>3, <1>4, <1>5 DEF TypeOK

(* Every variable keeps its type (PowerEvents!TypeOK).                     *)
THEOREM TypeCorrect == Spec => []TypeOK
<1>1. TypeOK /\ [Next]_vars => TypeOK'
  BY TypeNext
<1> QED
  BY <1>1, TypeInit, PTL DEF Spec

-----------------------------------------------------------------------------
(* The flags.                                                              *)

(* Only the firmware sets bit and raced.                                   *)
LEMMA BitKept ==
  ASSUME TypeOK, [Next]_vars, ~FirmwareWrites
  PROVE  (hist'.bit <=> hist.bit) /\ (hist'.raced <=> hist.raced)
<1>0. hist \in [Flags -> BOOLEAN]
  BY Zenon, Typed
<1>a. ~FirmwareWrites
  OBVIOUS
<1>1. CASE SleepBegins
  BY ONLY <1>1, <1>0 DEF SleepBegins, still
<1>2. CASE FallsAsleep
  BY ONLY <1>2, <1>0 DEF FallsAsleep, still
<1>3. CASE WakesUp
  BY ONLY <1>3, <1>0 DEF WakesUp, still
<1>4. CASE Toggle
  BY ONLY <1>4, <1>0, Names DEF Toggle, still, Set
<1>5. CASE ShutdownBegins
  BY ONLY <1>5, <1>0, Names DEF ShutdownBegins, still, Set
<1>6. CASE ProcessEnds
  BY ONLY <1>6, <1>0, Names DEF ProcessEnds, still, Set
<1>7. CASE FirmwareWrites
  BY ONLY <1>7, <1>a
<1>8. CASE Inited
  BY ONLY <1>8, <1>0 DEF Inited, still
<1>9. CASE TakeJob
  BY ONLY <1>9, <1>0 DEF TakeJob, still
<1>10. CASE JobAnswer
  BY ONLY <1>10, <1>0, Names DEF JobAnswer, still, Set, JobIsKnown, JobIsUnknown, ProxyFails, SendSleep
<1>11. CASE PrepareForSleep
  BY ONLY <1>11, <1>0 DEF PrepareForSleep, still
<1>12. CASE OnBatteryChanged
  BY ONLY <1>12, <1>0, Names DEF OnBatteryChanged, still, Set
<1>13. CASE PrepareForShutdown
  BY ONLY <1>13, <1>0 DEF PrepareForShutdown, still
<1>14. CASE MainGoesOn
  BY ONLY <1>14, <1>0, Names DEF MainGoesOn, still, Set
<1>15. CASE Take
  BY ONLY <1>15, <1>0, Names DEF Take, Handle, still, Set, Goodbye, WakingUp, Connected, Disconnected
<1>16. CASE Save
  BY ONLY <1>16, <1>0, Names DEF Save, still, Set
<1>17. CASE ReadPort
  BY ONLY <1>17, <1>0, Names DEF ReadPort, still, Set
<1>18. CASE WritePort
  BY ONLY <1>18, <1>0, Names DEF WritePort, still, Set
<1>19. CASE UNCHANGED vars
  BY ONLY <1>19, <1>0 DEF vars, still
<1> QED
  BY <1>1, <1>2, <1>3, <1>4, <1>5, <1>6, <1>7, <1>8, <1>9, <1>10, <1>11, <1>12, <1>13, <1>14, <1>15, <1>16, <1>17, <1>18, <1>19 DEF Next, Listeners, Core

(* Who uses the port.                                                      *)
LEMMA PortKept ==
  ASSUME [Next]_vars, ~FirmwareWrites, ~ReadPort, ~WritePort
  PROVE  port' = port /\ (core' = "port" => core = "port" /\ copy' = copy)
<1>a. ~FirmwareWrites /\ ~ReadPort /\ ~WritePort
  OBVIOUS
<1>1. CASE SleepBegins
  BY ONLY <1>1 DEF SleepBegins, still
<1>2. CASE FallsAsleep
  BY ONLY <1>2 DEF FallsAsleep, still
<1>3. CASE WakesUp
  BY ONLY <1>3 DEF WakesUp, still
<1>4. CASE Toggle
  BY ONLY <1>4 DEF Toggle, still
<1>5. CASE ShutdownBegins
  BY ONLY <1>5 DEF ShutdownBegins, still
<1>6. CASE ProcessEnds
  BY ONLY <1>6 DEF ProcessEnds, still
<1>7. CASE FirmwareWrites
  BY ONLY <1>7, <1>a
<1>8. CASE Inited
  BY ONLY <1>8 DEF Inited, still
<1>9. CASE TakeJob
  BY ONLY <1>9 DEF TakeJob, still
<1>10. CASE JobAnswer
  BY ONLY <1>10 DEF JobAnswer, still
<1>11. CASE PrepareForSleep
  BY ONLY <1>11 DEF PrepareForSleep, still
<1>12. CASE OnBatteryChanged
  BY ONLY <1>12 DEF OnBatteryChanged, still
<1>13. CASE PrepareForShutdown
  BY ONLY <1>13 DEF PrepareForShutdown, still
<1>14. CASE MainGoesOn
  BY ONLY <1>14 DEF MainGoesOn, still
<1>15. CASE Take
  BY ONLY <1>15 DEF Take, Handle, still, Goodbye, WakingUp, Connected, Disconnected
<1>16. CASE Save
  BY ONLY <1>16 DEF Save, still
<1>17. CASE ReadPort
  BY ONLY <1>17, <1>a
<1>18. CASE WritePort
  BY ONLY <1>18, <1>a
<1>19. CASE UNCHANGED vars
  BY ONLY <1>19 DEF vars, still
<1> QED
  BY <1>1, <1>2, <1>3, <1>4, <1>5, <1>6, <1>7, <1>8, <1>9, <1>10, <1>11, <1>12, <1>13, <1>14, <1>15, <1>16, <1>17, <1>18, <1>19 DEF Next, Listeners, Core

LEMMA BitsNext ==
  ASSUME TypeOK, Bits, [Next]_vars
  PROVE  Bits'
<1>0. /\ hist \in [Flags -> BOOLEAN] /\ {"bit", "raced"} \subseteq Flags
      /\ port \in Lamps /\ copy \in Lamps
  BY Zenon, Typed, Names
<1>1. /\ hist.raced => hist.bit
      /\ ~hist.raced => (port.other <=> hist.bit)
      /\ ~hist.raced /\ core = "port" => (copy.other <=> hist.bit)
  BY Zenon DEF Bits
<1>a. /\ hist'.bit \in BOOLEAN /\ port'.other \in BOOLEAN /\ copy'.other \in BOOLEAN
  <2>1. hist' \in [Flags -> BOOLEAN] /\ port' \in Lamps /\ copy' \in Lamps
    BY HistNext, LampsNext
  <2> QED
    BY ONLY <1>0, <2>1 DEF Lamps
<1> SUFFICES /\ hist'.raced => hist'.bit
             /\ ~hist'.raced => (port'.other <=> hist'.bit)
             /\ ~hist'.raced /\ core' = "port" => (copy'.other <=> hist'.bit)
  BY Zenon, <1>a DEF Bits
<1>2. CASE FirmwareWrites
  <2>1. /\ hist'.bit /\ (hist'.raced <=> core = "port")
        /\ core' = core /\ port'.other /\ copy' = copy
    BY ONLY <1>0, <1>2 DEF FirmwareWrites, Lamps
  <2> QED
    BY ONLY <2>1
<1>3. CASE ReadPort
  <2>1. /\ port' = port
        /\ core' = "port" => (copy'.other <=> port.other)
    BY ONLY <1>0, <1>3 DEF ReadPort, Lamps
  <2>2. ~FirmwareWrites
    BY ONLY <1>3, <2>1 DEF FirmwareWrites, ReadPort
  <2>3. (hist'.bit <=> hist.bit) /\ (hist'.raced <=> hist.raced)
    BY BitKept, <2>2
  <2> QED
    BY ONLY <1>1, <2>1, <2>3
<1>4. CASE WritePort
  <2>1. core' = "wait" /\ core = "port" /\ (port' = port \/ port' = copy)
    BY ONLY <1>0, <1>4 DEF WritePort
  <2>2. ~FirmwareWrites
    BY ONLY <2>1 DEF FirmwareWrites
  <2>3. (hist'.bit <=> hist.bit) /\ (hist'.raced <=> hist.raced)
    BY BitKept, <2>2
  <2> QED
    BY ONLY <1>1, <2>1, <2>3
<1>5. CASE ~FirmwareWrites /\ ~ReadPort /\ ~WritePort
  <2>1. port' = port /\ (core' = "port" => core = "port" /\ copy' = copy)
    BY PortKept, <1>5
  <2>2. (hist'.bit <=> hist.bit) /\ (hist'.raced <=> hist.raced)
    BY BitKept, <1>5
  <2> QED
    BY ONLY <1>1, <2>1, <2>2
<1> QED
  BY ONLY <1>2, <1>3, <1>4, <1>5

-----------------------------------------------------------------------------
(* The indicator.  Charger events in the channel.                          *)

LEMMA OtherSent ==
  ASSUME NEW q \in Seq(Events), NEW e \in Events, e \notin ChargerEvents
  PROVE  /\ NoneIn(q) => NoneIn(Append(q, e))
         /\ \A on \in BOOLEAN : LastIn(q, on) => LastIn(Append(q, e), on)
<1>1. /\ Len(q) \in Nat /\ Len(Append(q, e)) = Len(q) + 1
      /\ \A k \in 1..Len(q) : Append(q, e)[k] = q[k]
      /\ Append(q, e)[Len(q) + 1] = e
  BY Sent
<1>2. \A k \in 1..Len(Append(q, e)) : k \in 1..Len(q) \/ k = Len(q) + 1
  BY ONLY <1>1
<1>3. NoneIn(q) => NoneIn(Append(q, e))
  BY ONLY <1>1, <1>2, e \notin ChargerEvents DEF NoneIn
<1>4. ASSUME NEW on \in BOOLEAN, LastIn(q, on)
      PROVE  LastIn(Append(q, e), on)
  <2>1. PICK k \in 1..Len(q) :
          q[k] = ChargerEvent(on) /\ \A j \in 1..Len(q) : j > k => q[j] \notin ChargerEvents
    BY Zenon, <1>4 DEF LastIn
  <2>2. k \in 1..Len(Append(q, e)) /\ Append(q, e)[k] = ChargerEvent(on)
    BY ONLY <1>1, <2>1
  <2>3. \A j \in 1..Len(Append(q, e)) : j > k => Append(q, e)[j] \notin ChargerEvents
    BY ONLY <1>1, <1>2, <2>1, e \notin ChargerEvents
  <2> QED
    BY Zenon, <2>2, <2>3 DEF LastIn
<1> QED
  BY <1>3, <1>4

LEMMA ChargerSent ==
  ASSUME NEW q \in Seq(Events), NEW on \in BOOLEAN
  PROVE  LastIn(Append(q, ChargerEvent(on)), on)
<1>1. ChargerEvent(on) \in Events
  BY EventTypes
<1>2. Len(q) \in Nat /\ Len(Append(q, ChargerEvent(on))) = Len(q) + 1
      /\ Append(q, ChargerEvent(on))[Len(q) + 1] = ChargerEvent(on)
  BY <1>1, Sent
<1>3. Len(q) + 1 \in 1..Len(Append(q, ChargerEvent(on)))
      /\ \A j \in 1..Len(Append(q, ChargerEvent(on))) : ~(j > Len(q) + 1)
  BY ONLY <1>2
<1> QED
  BY Zenon, <1>2, <1>3 DEF LastIn

LEMMA WakeUpsSent ==
  ASSUME NEW q \in Seq(Events), NEW twice \in 1..2,
         NEW r, r = q \o [i \in 1..twice |-> "SystemWakingUp"]
  PROVE  /\ NoneIn(q) => NoneIn(r)
         /\ \A on \in BOOLEAN : LastIn(q, on) => LastIn(r, on)
<1>1. /\ Len(q) \in Nat /\ Len(r) = Len(q) + twice
      /\ \A k \in 1..Len(q) : r[k] = q[k]
      /\ \A k \in 1..Len(r) : k > Len(q) => r[k] = "SystemWakingUp"
  BY WokenTwice
<1>2. "SystemWakingUp" \notin ChargerEvents
  BY DEF ChargerEvents
<1>3. \A k \in 1..Len(r) : r[k] \in ChargerEvents => k \in 1..Len(q) /\ q[k] \in ChargerEvents
  BY ONLY <1>1, <1>2
<1>4. NoneIn(q) => NoneIn(r)
  BY ONLY <1>3 DEF NoneIn
<1>5. ASSUME NEW on \in BOOLEAN, LastIn(q, on)
      PROVE  LastIn(r, on)
  <2>1. PICK k \in 1..Len(q) :
          q[k] = ChargerEvent(on) /\ \A j \in 1..Len(q) : j > k => q[j] \notin ChargerEvents
    BY Zenon, <1>5 DEF LastIn
  <2>2. k \in 1..Len(r) /\ r[k] = ChargerEvent(on)
    BY ONLY <1>1, <2>1, twice \in 1..2
  <2>3. \A j \in 1..Len(r) : j > k => r[j] \notin ChargerEvents
    BY ONLY <1>3, <2>1
  <2> QED
    BY Zenon, <2>2, <2>3 DEF LastIn
<1> QED
  BY <1>4, <1>5

LEMMA ChargerTaken ==
  ASSUME NEW q \in Seq(Events), q # <<>>, NEW on \in BOOLEAN
  PROVE  /\ NoneIn(q) => NoneIn(Tail(q)) /\ Head(q) \notin ChargerEvents
         /\ LastIn(q, on) => \/ LastIn(Tail(q), on)
                             \/ NoneIn(Tail(q)) /\ Head(q) = ChargerEvent(on)
<1>1. /\ Len(q) \in Nat /\ Len(q) > 0 /\ Len(Tail(q)) = Len(q) - 1 /\ Head(q) = q[1]
      /\ \A k \in 1..Len(Tail(q)) : Tail(q)[k] = q[k + 1]
  BY Received
<1>2. 1 \in 1..Len(q) /\ \A k \in 1..Len(Tail(q)) : k \in Nat /\ k + 1 \in 1..Len(q) /\ k + 1 > 1
  BY ONLY <1>1
<1>3. NoneIn(q) => NoneIn(Tail(q)) /\ Head(q) \notin ChargerEvents
  BY ONLY <1>1, <1>2 DEF NoneIn
<1>4. ASSUME LastIn(q, on)
      PROVE  LastIn(Tail(q), on) \/ (NoneIn(Tail(q)) /\ Head(q) = ChargerEvent(on))
  <2>1. PICK k \in 1..Len(q) :
          q[k] = ChargerEvent(on) /\ \A j \in 1..Len(q) : j > k => q[j] \notin ChargerEvents
    BY Zenon, <1>4 DEF LastIn
  <2>2. CASE k = 1
    BY ONLY <1>1, <1>2, <2>1, <2>2 DEF NoneIn
  <2>3. CASE k # 1
    <3>1. k - 1 \in 1..Len(Tail(q)) /\ Tail(q)[k - 1] = ChargerEvent(on)
      BY ONLY <1>1, <2>1, <2>3
    <3>2. \A j \in 1..Len(Tail(q)) : j > k - 1 => Tail(q)[j] \notin ChargerEvents
      BY ONLY <1>1, <1>2, <2>1
    <3> QED
      BY Zenon, <3>1, <3>2 DEF LastIn
  <2> QED
    BY ONLY <2>2, <2>3
<1> QED
  BY <1>3, <1>4

(* A step that neither the charger nor the LEDs are about.                 *)
LEMMA LitStays ==
  ASSUME TypeOK, Lit, plugged' = plugged, core' = core, port' = port, copy' = copy,
         hist'.unlit <=> hist.unlit, sig'.charger = 0 => sig.charger = 0,
         NoneIn(queue) => NoneIn(queue'),
         \A on \in BOOLEAN : LastIn(queue, on) => LastIn(queue', on)
  PROVE  Lit'
<1>1. plugged \in BOOLEAN
  BY Zenon, Typed
<1>2. Shows(plugged) => Shows(plugged)'
  BY DEF Shows, LitAs
<1>3. LastIn(queue, plugged) => LastIn(queue, plugged)'
  BY <1>1 DEF LastIn
<1>4. NoneIn(queue) => NoneIn(queue)'
  BY DEF NoneIn
<1> QED
  BY <1>2, <1>3, <1>4 DEF Lit

(* The steps of LitStays.                                                  *)
Aside ==
  \/ SleepBegins \/ FallsAsleep \/ WakesUp \/ ShutdownBegins \/ Inited \/ TakeJob
  \/ JobAnswer \/ PrepareForSleep \/ PrepareForShutdown \/ UNCHANGED vars

LEMMA AsideSig ==
  ASSUME TypeOK, Aside
  PROVE  sig'.charger = 0 => sig.charger = 0
<1>0. sig \in [job : Seq(Jobs), wake : Nat, charger : Nat, shut : BOOLEAN]
  BY Zenon, Typed
<1>1. CASE SleepBegins
  <2>1. sig' = sig \/ sig' = [sig EXCEPT !.job = Append(@, [kind |-> kind, type |-> "start"])]
    BY ONLY <1>1 DEF SleepBegins
  <2> QED
    BY ONLY <1>0, <2>1
<1>2. CASE FallsAsleep
  BY ONLY <1>2, <1>0 DEF FallsAsleep, still
<1>3. CASE WakesUp
  <2>1. \/ sig' = sig
        \/ sig' = [sig EXCEPT !.job = Append(@, [kind |-> kind, type |-> "stop"]), !.wake = @ + 1]
    BY ONLY <1>3 DEF WakesUp
  <2> QED
    BY ONLY <1>0, <2>1
<1>4. CASE ShutdownBegins
  <2>1. sig' = sig \/ sig' = [sig EXCEPT !.shut = TRUE]
    BY ONLY <1>4 DEF ShutdownBegins
  <2> QED
    BY ONLY <1>0, <2>1
<1>5. CASE Inited
  BY ONLY <1>5, <1>0 DEF Inited, still
<1>6. CASE TakeJob
  <2>1. sig' = [sig EXCEPT !.job = Tail(@)]
    BY ONLY <1>6 DEF TakeJob
  <2> QED
    BY ONLY <1>0, <2>1
<1>7. CASE JobAnswer
  BY ONLY <1>7, <1>0 DEF JobAnswer, still
<1>8. CASE PrepareForSleep
  <2>1. sig' = [sig EXCEPT !.wake = @ - 1]
    BY ONLY <1>8 DEF PrepareForSleep
  <2> QED
    BY ONLY <1>0, <2>1
<1>9. CASE PrepareForShutdown
  <2>1. sig' = [sig EXCEPT !.shut = FALSE]
    BY ONLY <1>9 DEF PrepareForShutdown
  <2> QED
    BY ONLY <1>0, <2>1
<1>10. CASE UNCHANGED vars
  BY ONLY <1>10, <1>0 DEF vars, still
<1> QED
  BY <1>1, <1>2, <1>3, <1>4, <1>5, <1>6, <1>7, <1>8, <1>9, <1>10 DEF Aside

LEMMA AsideRest ==
  ASSUME TypeOK, Aside
  PROVE  /\ plugged' = plugged /\ core' = core /\ port' = port /\ copy' = copy
         /\ hist'.unlit <=> hist.unlit
<1>0. hist \in [Flags -> BOOLEAN]
  BY Zenon, Typed
<1>1. CASE SleepBegins
  BY ONLY <1>1, <1>0 DEF SleepBegins, still
<1>2. CASE FallsAsleep
  BY ONLY <1>2, <1>0 DEF FallsAsleep, still
<1>3. CASE WakesUp
  BY ONLY <1>3, <1>0 DEF WakesUp, still
<1>4. CASE ShutdownBegins
  BY ONLY <1>4, <1>0, Names DEF ShutdownBegins, still, Set
<1>5. CASE Inited
  BY ONLY <1>5, <1>0 DEF Inited, still
<1>6. CASE TakeJob
  BY ONLY <1>6, <1>0 DEF TakeJob, still
<1>7. CASE JobAnswer
  BY ONLY <1>7, <1>0, Names DEF JobAnswer, still, Set, JobIsKnown, JobIsUnknown, ProxyFails, SendSleep
<1>8. CASE PrepareForSleep
  BY ONLY <1>8, <1>0 DEF PrepareForSleep, still
<1>9. CASE PrepareForShutdown
  BY ONLY <1>9, <1>0 DEF PrepareForShutdown, still
<1>10. CASE UNCHANGED vars
  BY ONLY <1>10, <1>0 DEF vars, still
<1> QED
  BY <1>1, <1>2, <1>3, <1>4, <1>5, <1>6, <1>7, <1>8, <1>9, <1>10 DEF Aside

LEMMA AsideQueue ==
  ASSUME TypeOK, Aside
  PROVE  \/ queue' = queue
         \/ \E e \in Events : e \notin ChargerEvents /\ queue' = Append(queue, e)
         \/ \E twice \in 1..2 : queue' = queue \o [i \in 1..twice |-> "SystemWakingUp"]
<1>1. CASE SleepBegins
  BY ONLY <1>1, EventTypes DEF SleepBegins, Send, SleepEvents
<1>2. CASE FallsAsleep
  BY ONLY <1>2 DEF FallsAsleep, still
<1>3. CASE WakesUp
  BY ONLY <1>3 DEF WakesUp, still
<1>4. CASE ShutdownBegins
  BY ONLY <1>4, EventTypes DEF ShutdownBegins, Send
<1>5. CASE Inited
  BY ONLY <1>5, EventTypes DEF Inited, Send
<1>6. CASE TakeJob
  BY ONLY <1>6 DEF TakeJob, still
<1>7. CASE JobAnswer
  <2>1. jobs.kind \in Kinds
    BY ONLY <1>7, JobTypes DEF JobAnswer
  <2>2. queue' = queue \/ queue' = Append(queue, SleepEvent(jobs.kind))
    BY ONLY <1>7 DEF JobAnswer, JobIsKnown, JobIsUnknown, ProxyFails, SendSleep, Send
  <2> QED
    BY ONLY <2>1, <2>2, EventTypes
<1>8. CASE PrepareForSleep
  BY ONLY <1>8, EventTypes DEF PrepareForSleep, Send
<1>9. CASE PrepareForShutdown
  BY ONLY <1>9, EventTypes DEF PrepareForShutdown, Send
<1>10. CASE UNCHANGED vars
  BY ONLY <1>10 DEF vars, still
<1> QED
  BY <1>1, <1>2, <1>3, <1>4, <1>5, <1>6, <1>7, <1>8, <1>9, <1>10 DEF Aside

LEMMA AsideLit ==
  ASSUME TypeOK, Lit, Aside
  PROVE  Lit'
<1>1. queue \in Seq(Events)
  BY Zenon, Typed
<1>2. /\ NoneIn(queue) => NoneIn(queue')
      /\ \A on \in BOOLEAN : LastIn(queue, on) => LastIn(queue', on)
  <2>1. CASE queue' = queue
    BY ONLY <2>1
  <2>2. CASE \E e \in Events : e \notin ChargerEvents /\ queue' = Append(queue, e)
    BY <1>1, <2>2, OtherSent
  <2>3. CASE \E twice \in 1..2 : queue' = queue \o [i \in 1..twice |-> "SystemWakingUp"]
    BY <1>1, <2>3, WakeUpsSent
  <2> QED
    BY <2>1, <2>2, <2>3, AsideQueue
<1>3. /\ plugged' = plugged /\ core' = core /\ port' = port /\ copy' = copy
      /\ hist'.unlit <=> hist.unlit
  BY AsideRest
<1>4. sig'.charger = 0 => sig.charger = 0
  BY AsideSig
<1> QED
  BY <1>2, <1>3, <1>4, LitStays

LEMMA ToggleLit == ASSUME TypeOK, Lit, Toggle PROVE Lit'
<1>0. /\ sig \in [job : Seq(Jobs), wake : Nat, charger : Nat, shut : BOOLEAN]
      /\ hist \in [Flags -> BOOLEAN] /\ queue \in Seq(Events) /\ plugged \in BOOLEAN
  BY Zenon, Typed
<1>1. CASE sig' = [sig EXCEPT !.charger = @ + 1]
  <2>1. sig'.charger # 0
    BY ONLY <1>0, <1>1
  <2> QED
    BY ONLY <2>1 DEF Lit
<1>2. CASE plugged' = ~plugged /\ queue' = Append(queue, ChargerEvent(~plugged))
  <2>1. LastIn(queue', plugged')
    BY <1>0, <1>2, ChargerSent
  <2> QED
    BY ONLY <2>1 DEF Lit, LastIn
<1>3. CASE hist' = [hist EXCEPT !["unlit"] = TRUE]
  BY ONLY <1>0, <1>3, Names DEF Lit
<1> QED
  BY <1>1, <1>2, <1>3 DEF Toggle, Send, Set

LEMMA BatteryLit == ASSUME TypeOK, Lit, OnBatteryChanged PROVE Lit'
<1>0. hist \in [Flags -> BOOLEAN] /\ queue \in Seq(Events) /\ plugged \in BOOLEAN
  BY Zenon, Typed
<1>1. CASE plugged' = plugged /\ queue' = Append(queue, ChargerEvent(plugged))
  <2>1. LastIn(queue', plugged')
    BY <1>0, <1>1, ChargerSent
  <2> QED
    BY ONLY <2>1 DEF Lit, LastIn
<1>2. CASE hist' = [hist EXCEPT !["unlit"] = TRUE]
  BY ONLY <1>0, <1>2, Names DEF Lit
<1> QED
  BY <1>1, <1>2 DEF OnBatteryChanged, Send, Set

(* The channel is not touched, the charger neither.                        *)
LEMMA LampsLit ==
  ASSUME TypeOK, Lit, Shows(plugged) => Shows(plugged)', core # "dead",
         hist'.unlit \/ (hist'.unlit <=> hist.unlit), UNCHANGED <<queue, plugged, sig>>
  PROVE  Lit'
  BY DEF Lit, LastIn, NoneIn

LEMMA FirmwareLit == ASSUME TypeOK, Lit, FirmwareWrites PROVE Lit'
<1>0. hist \in [Flags -> BOOLEAN] /\ port \in Lamps
  BY Zenon, Typed
<1>1. Shows(plugged) => Shows(plugged)'
  BY ONLY <1>0 , FirmwareWrites DEF FirmwareWrites, Shows, LitAs, Lamps
<1>2. /\ hist'.unlit <=> hist.unlit
      /\ core # "dead" /\ UNCHANGED <<queue, plugged, sig>>
  BY ONLY <1>0, FirmwareWrites, Names DEF FirmwareWrites
<1> QED
  BY <1>1, <1>2, LampsLit

LEMMA SaveLit == ASSUME TypeOK, Lit, Save PROVE Lit'
<1>0. hist \in [Flags -> BOOLEAN]
  BY Zenon, Typed
<1>1. Shows(plugged) => Shows(plugged)'
  BY ONLY Save DEF Save, Shows, LitAs
<1>2. /\ hist'.unlit <=> hist.unlit
      /\ core # "dead" /\ UNCHANGED <<queue, plugged, sig>>
  BY ONLY <1>0, Save, Names DEF Save, Set
<1> QED
  BY <1>1, <1>2, LampsLit

LEMMA ReadPortLit == ASSUME TypeOK, Lit, ReadPort PROVE Lit'
<1>0. hist \in [Flags -> BOOLEAN] /\ port \in Lamps
  BY Zenon, Typed
<1>1. core \in {"white", "orange", "off"} /\ UNCHANGED <<queue, plugged, sig>>
  BY ONLY ReadPort DEF ReadPort
<1>2. CASE hist' = [hist EXCEPT !["unlit"] = TRUE]
  BY ONLY <1>0, <1>2, Names DEF Lit
<1>3. CASE /\ copy' = [port EXCEPT !.orange = (core = "orange"), !.white = (core = "white")]
           /\ core' = "port" /\ UNCHANGED hist
  <2>1. (copy'.orange <=> core = "orange") /\ (copy'.white <=> core = "white")
    BY ONLY <1>0, <1>3 DEF Lamps
  <2>2. Shows(plugged) => Shows(plugged)'
    BY ONLY <1>1, <1>3, <2>1 DEF Shows, LitAs
  <2> QED
    BY <1>1, <1>3, <2>2, LampsLit
<1> QED
  BY <1>2, <1>3 DEF ReadPort, Set

LEMMA WritePortLit == ASSUME TypeOK, Lit, WritePort PROVE Lit'
<1>0. hist \in [Flags -> BOOLEAN]
  BY Zenon, Typed
<1>1. core = "port" /\ core' = "wait" /\ UNCHANGED <<queue, plugged, sig>>
  BY ONLY WritePort DEF WritePort
<1>2. CASE hist' = [hist EXCEPT !["unlit"] = TRUE]
  BY ONLY <1>0, <1>2, Names DEF Lit
<1>3. CASE port' = copy /\ UNCHANGED hist
  <2>1. Shows(plugged) => Shows(plugged)'
    BY ONLY <1>1, <1>3 DEF Shows, LitAs
  <2> QED
    BY <1>1, <1>3, <2>1, LampsLit
<1> QED
  BY <1>2, <1>3 DEF WritePort, Set

(* What leaves the channel is lost, passed over, or being shown.           *)
LEMMA TakenLit ==
  ASSUME TypeOK, Lit, queue # <<>>, queue' = Tail(queue), UNCHANGED <<plugged, sig, port, copy>>,
         core \in {"init", "wait"},
         \/ hist'.unlit
         \/ /\ hist'.unlit <=> hist.unlit
            /\ \/ Head(queue) \notin ChargerEvents /\ core' \in {"wait", "save", "last save"}
               \/ Head(queue) = ChargerEvent(TRUE) /\ core' \in {"white", "orange"}
               \/ Head(queue) = ChargerEvent(FALSE) /\ core' = "off"
  PROVE  Lit'
<1>0. queue \in Seq(Events) /\ plugged \in BOOLEAN /\ ChargerEvent(TRUE) # ChargerEvent(FALSE)
      /\ ChargerEvent(TRUE) \in ChargerEvents /\ ChargerEvent(FALSE) \in ChargerEvents
  BY Zenon, Typed, EventTypes DEF ChargerEvent
<1>1. SUFFICES ASSUME ~hist'.unlit, sig.charger = 0
               PROVE  LastIn(queue', plugged) \/ (NoneIn(queue') /\ Shows(plugged)')
  BY <1>0 DEF Lit, LastIn, NoneIn, Shows
<1>2. LastIn(queue, plugged) \/ (NoneIn(queue) /\ Shows(plugged))
  BY <1>1 DEF Lit
<1>3. /\ NoneIn(queue) => NoneIn(queue') /\ Head(queue) \notin ChargerEvents
      /\ LastIn(queue, plugged) => \/ LastIn(queue', plugged)
                                   \/ NoneIn(queue') /\ Head(queue) = ChargerEvent(plugged)
  BY <1>0, ChargerTaken
<1>4. CASE NoneIn(queue) /\ Shows(plugged)
  <2>1. Head(queue) \notin ChargerEvents
    BY ONLY <1>3, <1>4
  <2>2. core' \in {"wait", "save", "last save"}
    BY <1>0, <1>1, <2>1
  <2>3. Shows(plugged)'
    BY <1>4, <2>2 DEF Shows, LitAs
  <2> QED
    BY ONLY <1>3, <1>4, <2>3
<1>5. CASE NoneIn(queue') /\ Head(queue) = ChargerEvent(plugged)
  <2>1. CASE plugged
    <3>1. core' \in {"white", "orange"}
      BY <1>0, <1>1, <1>5, <2>1
    <3>2. Shows(plugged)'
      BY <2>1, <3>1 DEF Shows
    <3> QED
      BY ONLY <1>5, <3>2
  <2>2. CASE ~plugged
    <3>1. core' = "off"
      BY <1>0, <1>1, <1>5, <2>2
    <3>2. Shows(plugged)'
      BY <2>2, <3>1 DEF Shows
    <3> QED
      BY ONLY <1>5, <3>2
  <2> QED
    BY ONLY <2>1, <2>2
<1> QED
  BY ONLY <1>2, <1>3, <1>4, <1>5

LEMMA MainLit == ASSUME TypeOK, Lit, MainGoesOn PROVE Lit'
<1>0. hist \in [Flags -> BOOLEAN]
  BY Zenon, Typed
<1>1. /\ queue # <<>> /\ queue' = Tail(queue) /\ UNCHANGED <<plugged, sig, port, copy>>
      /\ core = "init" /\ core' = "wait"
  BY ONLY MainGoesOn DEF MainGoesOn
<1>2. hist'.unlit <=> hist.unlit \/ Head(queue) \in ChargerEvents
  BY ONLY <1>0, Names, MainGoesOn DEF MainGoesOn
<1> QED
  BY ONLY TypeOK, Lit, <1>1, <1>2, TakenLit

LEMMA TakeLit == ASSUME TypeOK, Lit, Take PROVE Lit'
<1>0. hist \in [Flags -> BOOLEAN]
  BY Zenon, Typed
<1>1. /\ queue # <<>> /\ queue' = Tail(queue) /\ UNCHANGED <<plugged, sig, port, copy>>
      /\ core = "wait"
  BY ONLY Take DEF Take
<1>2. CASE Goodbye(Head(queue))
  <2>1. Head(queue) \notin ChargerEvents
    BY ONLY <1>2 DEF Goodbye, SleepEvents, ChargerEvents
  <2>2. core' \in {"save", "last save"} /\ UNCHANGED hist
    BY ONLY <1>2 DEF Goodbye
  <2> QED
    BY ONLY TypeOK, Lit, <1>1, <2>1, <2>2, TakenLit
<1>3. CASE WakingUp(Head(queue))
  <2>1. Head(queue) \notin ChargerEvents
    BY ONLY <1>3 DEF WakingUp, ChargerEvents
  <2>2. core' = core /\ (hist'.unlit <=> hist.unlit)
    BY ONLY <1>0, Names, <1>3 DEF WakingUp, Set
  <2> QED
    BY ONLY TypeOK, Lit, <1>1, <2>1, <2>2, TakenLit
<1>4. CASE Connected(Head(queue))
  <2>1. Head(queue) = ChargerEvent(TRUE)
    BY ONLY <1>4 DEF Connected, ChargerEvent
  <2>2. (core' \in {"white", "orange"} /\ UNCHANGED hist) \/ hist' = [hist EXCEPT !["unlit"] = TRUE]
    BY ONLY <1>4 DEF Connected, Set
  <2>3. hist' = [hist EXCEPT !["unlit"] = TRUE] => hist'.unlit
    BY ONLY <1>0, Names
  <2> QED
    BY ONLY TypeOK, Lit, <1>1, <2>1, <2>2, <2>3, TakenLit
<1>5. CASE Disconnected(Head(queue))
  <2>1. Head(queue) = ChargerEvent(FALSE) /\ core' = "off" /\ UNCHANGED hist
    BY ONLY <1>5 DEF Disconnected, ChargerEvent
  <2> QED
    BY ONLY TypeOK, Lit, <1>1, <2>1, TakenLit
<1>6. CASE Head(queue) = "Inited" /\ UNCHANGED <<core, ring, n, hist>>
  <2>1. Head(queue) \notin ChargerEvents
    BY ONLY <1>6 DEF ChargerEvents
  <2> QED
    BY ONLY TypeOK, Lit, <1>1, <1>6, <2>1, TakenLit
<1> QED
  BY <1>2, <1>3, <1>4, <1>5, <1>6 DEF Take, Handle

LEMMA LitNext ==
  ASSUME TypeOK, Lit, [Next]_vars
  PROVE  Lit'
<1>1. CASE ProcessEnds
  BY <1>1 DEF ProcessEnds, Lit
<1> QED
  BY <1>1, AsideLit, ToggleLit, BatteryLit, FirmwareLit, SaveLit, ReadPortLit, WritePortLit,
     MainLit, TakeLit DEF Next, Listeners, Core, Aside

LEMMA LitInit == Init => Lit
<1> SUFFICES ASSUME Init, ~hist.unlit
             PROVE  NoneIn(queue) /\ Shows(plugged)
  BY Zenon DEF Lit
<1>1. NoneIn(queue)
  BY DEF Init, NoneIn
<1>2. plugged => port = [Dark EXCEPT !.white = TRUE]
  BY Names DEF Init
<1>3. ~plugged => port = Dark
  BY DEF Init
<1>4. plugged \in BOOLEAN /\ core \in {"init", "wait"}
  BY DEF Init
<1>5. Shows(plugged)
  BY ONLY <1>2, <1>3, <1>4 DEF Shows, LitAs, Dark
<1> QED
  BY <1>1, <1>5

-----------------------------------------------------------------------------
(* The ring.  Sleeps and wake-ups in the channel.                          *)

LEMMA RingSent ==
  ASSUME NEW q \in Seq(Events), NEW e \in Events
  PROVE  /\ NoShutdown(q) /\ e # "SystemShuttingDown" => NoShutdown(Append(q, e))
         /\ AllWoken(q) /\ e \notin SleepEvents => AllWoken(Append(q, e))
         /\ WakeIn(q, 0) => WakeIn(Append(q, e), 0)
         /\ e = "SystemWakingUp" => AllWoken(Append(q, e)) /\ WakeIn(Append(q, e), 0)
<1> DEFINE r == Append(q, e)
<1>1. /\ Len(q) \in Nat /\ Len(r) = Len(q) + 1
      /\ \A k \in 1..Len(q) : r[k] = q[k]
      /\ r[Len(q) + 1] = e
  BY Sent
<1> HIDE DEF r
<1>2. \A k \in 1..Len(r) : k \in 1..Len(q) \/ k = Len(q) + 1
  BY ONLY <1>1
<1>3. NoShutdown(q) /\ e # "SystemShuttingDown" => NoShutdown(r)
  BY ONLY <1>1, <1>2 DEF NoShutdown
<1>4. ASSUME NEW k \in Nat, WakeIn(q, k)
      PROVE  WakeIn(r, k)
  BY ONLY <1>1, <1>4 DEF WakeIn
<1>5. AllWoken(q) /\ e \notin SleepEvents => AllWoken(r)
  BY ONLY <1>1, <1>2, <1>4 DEF AllWoken
<1>6. ASSUME e = "SystemWakingUp"
      PROVE  AllWoken(r) /\ WakeIn(r, 0)
  <2>1. Len(q) + 1 \in 1..Len(r) /\ r[Len(q) + 1] = "SystemWakingUp" /\ Len(q) + 1 > 0
    BY ONLY <1>1, <1>6
  <2>2. WakeIn(r, 0)
    BY ONLY <2>1 DEF WakeIn
  <2>3. "SystemWakingUp" \notin SleepEvents
    BY DEF SleepEvents
  <2>4. \A k \in 1..Len(r) : r[k] \in SleepEvents => k < Len(q) + 1
    BY ONLY <1>1, <1>2, <1>6, <2>3
  <2> QED
    BY ONLY <2>1, <2>2, <2>4 DEF AllWoken, WakeIn
<1> QED
  BY <1>3, <1>4, <1>5, <1>6 DEF r

LEMMA RingSentTwice ==
  ASSUME NEW q \in Seq(Events), NEW twice \in 1..2,
         NEW r, r = q \o [i \in 1..twice |-> "SystemWakingUp"]
  PROVE  /\ NoShutdown(q) => NoShutdown(r)
         /\ AllWoken(r) /\ WakeIn(r, 0)
<1>1. /\ Len(q) \in Nat /\ Len(r) = Len(q) + twice
      /\ \A k \in 1..Len(q) : r[k] = q[k]
      /\ \A k \in 1..Len(r) : k > Len(q) => r[k] = "SystemWakingUp"
  BY WokenTwice
<1>2. Len(r) \in 1..Len(r) /\ r[Len(r)] = "SystemWakingUp" /\ Len(r) > 0
  BY ONLY <1>1, twice \in 1..2
<1>3. "SystemWakingUp" \notin SleepEvents
  BY DEF SleepEvents
<1>4. \A k \in 1..Len(r) : r[k] \in SleepEvents => k < Len(r)
  BY ONLY <1>1, <1>2, <1>3
<1>5. NoShutdown(q) => NoShutdown(r)
  BY ONLY <1>1 DEF NoShutdown
<1>6. AllWoken(r) /\ WakeIn(r, 0)
  BY ONLY <1>2, <1>4 DEF AllWoken, WakeIn
<1> QED
  BY <1>5, <1>6

LEMMA RingReceived ==
  ASSUME NEW q \in Seq(Events), q # <<>>
  PROVE  /\ NoShutdown(q) => NoShutdown(Tail(q)) /\ Head(q) # "SystemShuttingDown"
         /\ AllWoken(q) => AllWoken(Tail(q))
         /\ AllWoken(q) /\ Head(q) \in SleepEvents => WakeIn(Tail(q), 0)
         /\ WakeIn(q, 0) /\ Head(q) # "SystemWakingUp" => WakeIn(Tail(q), 0)
<1>1. /\ Len(q) \in Nat /\ Len(q) > 0 /\ Len(Tail(q)) = Len(q) - 1 /\ Head(q) = q[1]
      /\ \A k \in 1..Len(Tail(q)) : Tail(q)[k] = q[k + 1]
  BY Received
<1>2. 1 \in 1..Len(q) /\ \A k \in 1..Len(Tail(q)) : k \in Nat /\ k + 1 \in 1..Len(q)
  BY ONLY <1>1
<1>3. NoShutdown(q) => NoShutdown(Tail(q)) /\ Head(q) # "SystemShuttingDown"
  BY ONLY <1>1, <1>2 DEF NoShutdown
<1>4. ASSUME NEW k \in Nat, WakeIn(q, k + 1)
      PROVE  WakeIn(Tail(q), k)
  <2>1. PICK j \in 1..Len(q) : j > k + 1 /\ q[j] = "SystemWakingUp"
    BY ONLY <1>4 DEF WakeIn
  <2>2. j - 1 \in 1..Len(Tail(q)) /\ j - 1 > k /\ Tail(q)[j - 1] = "SystemWakingUp"
    BY ONLY <1>1, <2>1
  <2> QED
    BY ONLY <2>2 DEF WakeIn
<1>5. AllWoken(q) => AllWoken(Tail(q))
  BY ONLY <1>1, <1>2, <1>4 DEF AllWoken
<1>6. AllWoken(q) /\ Head(q) \in SleepEvents => WakeIn(q, 0 + 1)
  BY ONLY <1>1, <1>2 DEF AllWoken
<1>7. WakeIn(q, 0) /\ Head(q) # "SystemWakingUp" => WakeIn(q, 0 + 1)
  BY ONLY <1>1, <1>2 DEF WakeIn
<1> QED
  BY <1>3, <1>4, <1>5, <1>6, <1>7

(* The steps that neither a sleep nor a shutdown is about.                 *)
Apart ==
  \/ Toggle \/ ProcessEnds \/ FirmwareWrites \/ Inited \/ TakeJob
  \/ OnBatteryChanged \/ Save \/ ReadPort \/ WritePort \/ UNCHANGED vars

LEMMA ApartSig ==
  ASSUME TypeOK, Apart
  PROVE  sig'.wake = sig.wake /\ (sig'.shut <=> sig.shut)
<1>0. sig \in [job : Seq(Jobs), wake : Nat, charger : Nat, shut : BOOLEAN]
  BY Zenon, Typed
<1>1. CASE Toggle
  <2>1. sig' = sig \/ sig' = [sig EXCEPT !.charger = @ + 1]
    BY ONLY <1>1 DEF Toggle
  <2> QED
    BY ONLY <1>0, <2>1
<1>2. CASE ProcessEnds
  BY ONLY <1>2, <1>0 DEF ProcessEnds, still
<1>3. CASE FirmwareWrites
  BY ONLY <1>3, <1>0 DEF FirmwareWrites, still
<1>4. CASE Inited
  BY ONLY <1>4, <1>0 DEF Inited, still
<1>5. CASE TakeJob
  <2>1. sig' = [sig EXCEPT !.job = Tail(@)]
    BY ONLY <1>5 DEF TakeJob
  <2> QED
    BY ONLY <1>0, <2>1
<1>6. CASE OnBatteryChanged
  <2>1. sig' = [sig EXCEPT !.charger = @ - 1]
    BY ONLY <1>6 DEF OnBatteryChanged
  <2> QED
    BY ONLY <1>0, <2>1
<1>7. CASE Save
  BY ONLY <1>7, <1>0 DEF Save, still
<1>8. CASE ReadPort
  BY ONLY <1>8, <1>0 DEF ReadPort, still
<1>9. CASE WritePort
  BY ONLY <1>9, <1>0 DEF WritePort, still
<1>10. CASE UNCHANGED vars
  BY ONLY <1>10, <1>0 DEF vars, still
<1> QED
  BY <1>1, <1>2, <1>3, <1>4, <1>5, <1>6, <1>7, <1>8, <1>9, <1>10 DEF Apart

LEMMA ApartHist ==
  ASSUME TypeOK, Apart
  PROVE  (hist'.late <=> hist.late) /\ (hist'.unbuilt <=> hist.unbuilt) /\ (hist'.stale <=> hist.stale)
<1>0. hist \in [Flags -> BOOLEAN]
  BY Zenon, Typed
<1>1. CASE Toggle
  BY ONLY <1>1, <1>0, Names DEF Toggle, still, Set
<1>2. CASE ProcessEnds
  BY ONLY <1>2, <1>0, Names DEF ProcessEnds, still, Set
<1>3. CASE FirmwareWrites
  BY ONLY <1>3, <1>0, Names DEF FirmwareWrites, still, Set
<1>4. CASE Inited
  BY ONLY <1>4, <1>0 DEF Inited, still
<1>5. CASE TakeJob
  BY ONLY <1>5, <1>0 DEF TakeJob, still
<1>6. CASE OnBatteryChanged
  BY ONLY <1>6, <1>0, Names DEF OnBatteryChanged, still, Set
<1>7. CASE Save
  BY ONLY <1>7, <1>0, Names DEF Save, still, Set
<1>8. CASE ReadPort
  BY ONLY <1>8, <1>0, Names DEF ReadPort, still, Set
<1>9. CASE WritePort
  BY ONLY <1>9, <1>0, Names DEF WritePort, still, Set
<1>10. CASE UNCHANGED vars
  BY ONLY <1>10, <1>0 DEF vars, still
<1> QED
  BY <1>1, <1>2, <1>3, <1>4, <1>5, <1>6, <1>7, <1>8, <1>9, <1>10 DEF Apart

LEMMA ApartRest ==
  ASSUME TypeOK, Apart
  PROVE  /\ power' = power /\ ring' = ring
         /\ \/ queue' = queue
            \/ \E e \in Events \ SleepEvents :
                 e # "SystemShuttingDown" /\ queue' = Append(queue, e)
<1>0. plugged \in BOOLEAN
  BY Zenon, Typed
<1>1. CASE Toggle
  <2>1. power' = power /\ ring' = ring /\ (queue' = queue \/ queue' = Append(queue, ChargerEvent(~plugged)))
    BY ONLY <1>1 DEF Toggle, Send
  <2>2. ChargerEvent(~plugged) \in Events \ SleepEvents /\ ChargerEvent(~plugged) # "SystemShuttingDown"
    BY ONLY <1>0, EventTypes DEF ChargerEvent
  <2> QED
    BY ONLY <2>1, <2>2
<1>2. CASE ProcessEnds
  BY ONLY <1>2, <1>0 DEF ProcessEnds, still
<1>3. CASE FirmwareWrites
  BY ONLY <1>3, <1>0 DEF FirmwareWrites, still
<1>4. CASE Inited
  <2>1. power' = power /\ ring' = ring /\ queue' = Append(queue, "Inited")
    BY ONLY <1>4 DEF Inited, Send
  <2>2. "Inited" \in Events \ SleepEvents
    BY EventTypes
  <2> QED
    BY ONLY <2>1, <2>2
<1>5. CASE TakeJob
  BY ONLY <1>5, <1>0 DEF TakeJob, still
<1>6. CASE OnBatteryChanged
  <2>1. power' = power /\ ring' = ring /\ (queue' = queue \/ queue' = Append(queue, ChargerEvent(plugged)))
    BY ONLY <1>6 DEF OnBatteryChanged, Send
  <2>2. ChargerEvent(plugged) \in Events \ SleepEvents /\ ChargerEvent(plugged) # "SystemShuttingDown"
    BY ONLY <1>0, EventTypes DEF ChargerEvent
  <2> QED
    BY ONLY <2>1, <2>2
<1>7. CASE Save
  BY ONLY <1>7, <1>0 DEF Save, still
<1>8. CASE ReadPort
  BY ONLY <1>8, <1>0 DEF ReadPort, still
<1>9. CASE WritePort
  BY ONLY <1>9, <1>0 DEF WritePort, still
<1>10. CASE UNCHANGED vars
  BY ONLY <1>10, <1>0 DEF vars, still
<1> QED
  BY <1>1, <1>2, <1>3, <1>4, <1>5, <1>6, <1>7, <1>8, <1>9, <1>10 DEF Apart

LEMMA ApartRing ==
  ASSUME TypeOK, Ring, Apart
  PROVE  Ring'
<1>1. queue \in Seq(Events)
  BY Zenon, Typed
<1>2. /\ NoShutdown(queue) => NoShutdown(queue')
      /\ AllWoken(queue) => AllWoken(queue')
      /\ WakeIn(queue, 0) => WakeIn(queue', 0)
  BY <1>1, ApartRest, RingSent
<1>3. power' = power /\ ring' = ring /\ sig'.wake = sig.wake /\ (sig'.shut <=> sig.shut)
  BY ApartRest, ApartSig
<1>4. (hist'.late <=> hist.late) /\ (hist'.unbuilt <=> hist.unbuilt) /\ (hist'.stale <=> hist.stale)
  BY ApartHist
<1>5. (NoShutdown(queue)' <=> NoShutdown(queue')) /\ (AllWoken(queue)' <=> AllWoken(queue'))
      /\ (WakeIn(queue, 0)' <=> WakeIn(queue', 0))
  BY DEF NoShutdown, AllWoken, WakeIn
<1> QED
  BY <1>2, <1>3, <1>4, <1>5 DEF Ring, Told, WakeDue

LEMMA SigWake == ASSUME TypeOK PROVE sig.wake \in Nat /\ sig.shut \in BOOLEAN
<1>1. sig \in [job : Seq(Jobs), wake : Nat, charger : Nat, shut : BOOLEAN]
  BY Zenon, Typed
<1> QED
  BY ONLY <1>1

(* Ring, read in the next state.                                           *)
LEMMA RingThen ==
  ASSUME power' # "down" => ~sig'.shut /\ NoShutdown(queue'),
         Told' => WakeDue' \/ AllWoken(queue'),
         Told' /\ ~hist'.stale => ring' = "user" \/ WakeDue' \/ WakeIn(queue', 0)
  PROVE  Ring'
<1>1. (NoShutdown(queue)' <=> NoShutdown(queue')) /\ (AllWoken(queue)' <=> AllWoken(queue'))
      /\ (WakeIn(queue, 0)' <=> WakeIn(queue', 0))
  BY DEF NoShutdown, AllWoken, WakeIn
<1> QED
  BY <1>1 DEF Ring

LEMMA SleepBeginsRing == ASSUME TypeOK, Ring, SleepBegins PROVE Ring'
<1>0. /\ sig \in [job : Seq(Jobs), wake : Nat, charger : Nat, shut : BOOLEAN]
      /\ queue \in Seq(Events)
  BY Zenon, Typed
<1>1. power = "awake" /\ power' = "leaving"
  BY ONLY SleepBegins DEF SleepBegins
<1>2. ~sig.shut /\ NoShutdown(queue)
  BY <1>1 DEF Ring
<1>3. ~sig'.shut
  <2>1. \/ sig' = sig
        \/ sig' = [sig EXCEPT !.job = Append(@, [kind |-> kind, type |-> "start"])]
    BY ONLY SleepBegins DEF SleepBegins
  <2> QED
    BY ONLY <1>0, <1>2, <2>1
<1>4. NoShutdown(queue')
  <2>1. queue' = queue \/ queue' = Append(queue, "SystemHibernating")
    BY ONLY SleepBegins DEF SleepBegins, Send
  <2>2. "SystemHibernating" \in Events
    BY DEF Events, SleepEvents
  <2> QED
    BY <1>0, <1>2, <2>1, <2>2, RingSent
<1>5. WakeDue'
  BY <1>1 DEF WakeDue
<1> QED
  BY ONLY <1>3, <1>4, <1>5, RingThen

LEMMA FallsAsleepRing == ASSUME TypeOK, Ring, FallsAsleep PROVE Ring'
<1>1. power = "leaving" /\ power' = "asleep" /\ sig' = sig /\ queue' = queue
  BY ONLY FallsAsleep DEF FallsAsleep
<1>2. ~sig.shut /\ NoShutdown(queue)
  BY <1>1 DEF Ring
<1>3. WakeDue'
  BY <1>1 DEF WakeDue
<1> QED
  BY ONLY <1>1, <1>2, <1>3, RingThen

LEMMA WakesUpRing == ASSUME TypeOK, Ring, WakesUp PROVE Ring'
<1>0. /\ sig \in [job : Seq(Jobs), wake : Nat, charger : Nat, shut : BOOLEAN]
      /\ queue \in Seq(Events)
  BY Zenon, Typed
<1>1. power = "asleep" /\ power' = "awake"
  BY ONLY WakesUp DEF WakesUp
<1>2. ~sig.shut /\ NoShutdown(queue)
  BY <1>1 DEF Ring
<1>3. CASE /\ sig' = [sig EXCEPT !.job = Append(@, [kind |-> kind, type |-> "stop"]), !.wake = @ + 1]
           /\ queue' = queue
  <2>1. sig'.wake > 0 /\ ~sig'.shut
    BY ONLY <1>0, <1>2, <1>3
  <2>2. WakeDue'
    BY <2>1 DEF WakeDue
  <2> QED
    BY ONLY <1>2, <1>3, <2>1, <2>2, RingThen
<1>4. CASE /\ \E twice \in 1..2 : queue' = queue \o [i \in 1..twice |-> "SystemWakingUp"]
           /\ sig' = sig
  <2>1. NoShutdown(queue') /\ AllWoken(queue') /\ WakeIn(queue', 0)
    BY <1>0, <1>2, <1>4, RingSentTwice
  <2> QED
    BY ONLY <1>2, <1>4, <2>1, RingThen
<1> QED
  BY <1>3, <1>4 DEF WakesUp

LEMMA ShutdownRing == ASSUME TypeOK, Ring, ShutdownBegins PROVE Ring'
<1>1. power' = "down"
  BY ONLY ShutdownBegins DEF ShutdownBegins
<1>2. ~Told'
  BY <1>1 DEF Told
<1> QED
  BY ONLY <1>1, <1>2, RingThen

LEMMA PrepareForShutdownRing == ASSUME TypeOK, Ring, PrepareForShutdown PROVE Ring'
<1>1. sig.shut /\ power' = power
  BY ONLY PrepareForShutdown DEF PrepareForShutdown
<1>2. power' = "down"
  BY <1>1 DEF Ring
<1>3. ~Told'
  BY <1>2 DEF Told
<1> QED
  BY ONLY <1>2, <1>3, RingThen

LEMMA PrepareForSleepRing == ASSUME TypeOK, Ring, PrepareForSleep PROVE Ring'
<1>0. /\ sig \in [job : Seq(Jobs), wake : Nat, charger : Nat, shut : BOOLEAN]
      /\ queue \in Seq(Events)
  BY Zenon, Typed
<1>1. power' = power /\ queue' = Append(queue, "SystemWakingUp") /\ sig' = [sig EXCEPT !.wake = @ - 1]
  BY ONLY PrepareForSleep DEF PrepareForSleep, Send
<1>2. sig'.shut <=> sig.shut
  BY ONLY <1>0, <1>1
<1>3. "SystemWakingUp" \in Events
  BY EventTypes
<1>4. AllWoken(queue') /\ WakeIn(queue', 0) /\ (NoShutdown(queue) => NoShutdown(queue'))
  BY <1>0, <1>1, <1>3, RingSent
<1>5. power # "down" => ~sig.shut /\ NoShutdown(queue)
  BY DEF Ring
<1> QED
  BY ONLY <1>1, <1>2, <1>4, <1>5, RingThen

LEMMA JobAnswerRing == ASSUME TypeOK, Ring, JobAnswer PROVE Ring'
<1>0. /\ hist \in [Flags -> BOOLEAN] /\ queue \in Seq(Events) /\ sig.wake \in Nat
      /\ power \in {"awake", "leaving", "asleep", "down"}
  BY Zenon, Typed, SigWake
<1>1. /\ UNCHANGED <<power, ring, sig>>
      /\ JobIsKnown \/ JobIsUnknown \/ ProxyFails
  BY ONLY JobAnswer DEF JobAnswer
<1>2. jobs.kind \in Kinds
  BY ONLY JobAnswer, JobTypes DEF JobAnswer
<1>a. /\ power # "down" => ~sig.shut /\ NoShutdown(queue)
      /\ Told => WakeDue \/ AllWoken(queue)
      /\ Told /\ ~hist.stale => ring = "user" \/ WakeDue \/ WakeIn(queue, 0)
  BY DEF Ring
<1>b. SleepEvent(jobs.kind) \in Events /\ SleepEvent(jobs.kind) # "SystemShuttingDown"
  BY ONLY <1>2, EventTypes DEF SleepEvent
<1>3. CASE UNCHANGED <<queue, hist>>
  <2>1. (Told' <=> Told) /\ (WakeDue' <=> WakeDue)
    BY <1>1, <1>3 DEF Told, WakeDue
  <2> QED
    BY ONLY <1>1, <1>3, <1>a, <2>1, RingThen
<1>4. CASE SendSleep
  <2>1. queue' = Append(queue, SleepEvent(jobs.kind))
    BY ONLY <1>4 DEF SendSleep, Send
  <2>2. NoShutdown(queue) => NoShutdown(queue')
    BY <1>0, <1>b, <2>1, RingSent
  <2>3. hist'.late <=> hist.late \/ WokenUp
    BY ONLY <1>0, <1>4, Names DEF SendSleep, Set, WokenUp
  <2>4. Told' => WakeDue'
    BY ONLY <1>0, <1>1, <2>3 DEF Told, WakeDue, WokenUp
  <2> QED
    BY ONLY <1>1, <1>a, <2>2, <2>4, RingThen
<1>5. CASE ProxyFails
  <2>1. queue' = Append(queue, SleepEvent(jobs.kind))
    BY ONLY <1>5 DEF ProxyFails, Send
  <2>2. NoShutdown(queue) => NoShutdown(queue')
    BY <1>0, <1>b, <2>1, RingSent
  <2>3. hist'.unbuilt
    BY ONLY <1>0, <1>5, Names DEF ProxyFails, Set
  <2>4. ~Told'
    BY <2>3 DEF Told
  <2> QED
    BY ONLY <1>1, <1>a, <2>2, <2>4, RingThen
<1> QED
  BY <1>1, <1>3, <1>4, <1>5 DEF JobIsKnown, JobIsUnknown

(* An event that leaves the channel is heeded, or the wake-up was lost.    *)
LEMMA TakenRing ==
  ASSUME TypeOK, Ring, queue # <<>>, queue' = Tail(queue), UNCHANGED <<power, sig>>,
         (hist'.late <=> hist.late) /\ (hist'.unbuilt <=> hist.unbuilt),
         \/ hist'.stale
         \/ Head(queue) = "SystemWakingUp" /\ ring' = "user"
         \/ /\ Head(queue) # "SystemWakingUp" /\ (hist'.stale <=> hist.stale)
            /\ ring' = ring \/ Head(queue) \in SleepEvents \cup {"SystemShuttingDown"}
  PROVE  Ring'
<1>0. queue \in Seq(Events)
  BY Zenon, Typed
<1>1. /\ NoShutdown(queue) => NoShutdown(queue') /\ Head(queue) # "SystemShuttingDown"
      /\ AllWoken(queue) => AllWoken(queue')
      /\ AllWoken(queue) /\ Head(queue) \in SleepEvents => WakeIn(queue', 0)
      /\ WakeIn(queue, 0) /\ Head(queue) # "SystemWakingUp" => WakeIn(queue', 0)
  BY <1>0, RingReceived
<1>2. (Told' <=> Told) /\ (WakeDue' <=> WakeDue) /\ (Told => power # "down")
  BY DEF Told, WakeDue
<1>3. /\ power # "down" => ~sig.shut /\ NoShutdown(queue)
      /\ Told => WakeDue \/ AllWoken(queue)
      /\ Told /\ ~hist.stale => ring = "user" \/ WakeDue \/ WakeIn(queue, 0)
  BY DEF Ring
<1>4. Told' => WakeDue' \/ AllWoken(queue')
  BY ONLY <1>1, <1>2, <1>3
<1>5. Told' /\ ~hist'.stale => ring' = "user" \/ WakeDue' \/ WakeIn(queue', 0)
  BY <1>1, <1>2, <1>3
<1>6. power' # "down" => ~sig'.shut /\ NoShutdown(queue')
  BY <1>1, <1>3
<1> QED
  BY ONLY <1>4, <1>5, <1>6, RingThen

LEMMA MainRing == ASSUME TypeOK, Ring, MainGoesOn PROVE Ring'
<1>0. hist \in [Flags -> BOOLEAN]
  BY Zenon, Typed
<1>1. queue # <<>> /\ queue' = Tail(queue) /\ UNCHANGED <<power, sig, ring>>
  BY ONLY MainGoesOn DEF MainGoesOn
<1>2. /\ (hist'.late <=> hist.late) /\ (hist'.unbuilt <=> hist.unbuilt)
      /\ hist'.stale <=> (hist.stale \/ Head(queue) = "SystemWakingUp")
  BY ONLY <1>0, Names, MainGoesOn DEF MainGoesOn
<1> QED
  BY ONLY TypeOK, Ring, <1>1, <1>2, TakenRing

LEMMA TakeRing == ASSUME TypeOK, Ring, Take PROVE Ring'
<1>0. hist \in [Flags -> BOOLEAN]
  BY Zenon, Typed
<1>1. queue # <<>> /\ queue' = Tail(queue) /\ UNCHANGED <<power, sig>>
  BY ONLY Take DEF Take
<1>2. CASE Goodbye(Head(queue))
  <2>1. Head(queue) \in SleepEvents \cup {"SystemShuttingDown"} /\ UNCHANGED hist
    BY ONLY <1>2 DEF Goodbye
  <2>2. Head(queue) # "SystemWakingUp"
    BY ONLY <2>1 DEF SleepEvents
  <2> QED
    BY ONLY TypeOK, Ring, <1>1, <2>1, <2>2, TakenRing
<1>3. CASE WakingUp(Head(queue))
  <2>1. /\ Head(queue) = "SystemWakingUp"
        /\ \/ ring' = "user" /\ hist' = [hist EXCEPT !["stale"] = FALSE]
           \/ hist' = [hist EXCEPT !["stale"] = TRUE]
    BY ONLY <1>3 DEF WakingUp, Set
  <2>2. /\ (hist'.late <=> hist.late) /\ (hist'.unbuilt <=> hist.unbuilt)
        /\ hist'.stale \/ ring' = "user"
    BY ONLY <1>0, Names, <2>1
  <2> QED
    BY ONLY TypeOK, Ring, <1>1, <2>1, <2>2, TakenRing
<1>4. CASE Connected(Head(queue))
  <2>1. /\ Head(queue) = "ChargerConnected" /\ ring' = ring
        /\ UNCHANGED hist \/ hist' = [hist EXCEPT !["unlit"] = TRUE]
    BY ONLY <1>4 DEF Connected, Set
  <2>2. /\ (hist'.late <=> hist.late) /\ (hist'.unbuilt <=> hist.unbuilt)
        /\ hist'.stale <=> hist.stale
    BY ONLY <1>0, Names, <2>1
  <2> QED
    BY ONLY TypeOK, Ring, <1>1, <2>1, <2>2, TakenRing
<1>5. CASE \/ Disconnected(Head(queue))
           \/ Head(queue) = "Inited" /\ UNCHANGED <<core, ring, n, hist>>
  <2>1. Head(queue) # "SystemWakingUp" /\ ring' = ring /\ UNCHANGED hist
    BY ONLY <1>5 DEF Disconnected
  <2> QED
    BY ONLY TypeOK, Ring, <1>1, <2>1, TakenRing
<1> QED
  BY <1>2, <1>3, <1>4, <1>5 DEF Take, Handle

LEMMA RingNext ==
  ASSUME TypeOK, Ring, [Next]_vars
  PROVE  Ring'
  BY ApartRing, SleepBeginsRing, FallsAsleepRing, WakesUpRing, ShutdownRing, JobAnswerRing,
     PrepareForSleepRing, PrepareForShutdownRing, MainRing, TakeRing
     DEF Next, Listeners, Core, Apart

LEMMA RingInit == Init => Ring
  BY DEF Init, Ring, Told, WakeDue, NoShutdown, AllWoken, WakeIn

-----------------------------------------------------------------------------
(* The sleeps.                                                             *)

LEMMA Halves ==
  ASSUME NEW m \in Nat
  PROVE  /\ m % 2 \in {0, 1} /\ (m + 1) % 2 = 1 - (m % 2)
         /\ m \div 2 \in Nat /\ (m + 2) \div 2 = (m \div 2) + 1
         /\ (m + 1) \div 2 = (m \div 2) + (m % 2)
  OBVIOUS

(* The steps that no job is about.                                         *)
Elsewhere ==
  \/ FallsAsleep \/ Toggle \/ ShutdownBegins \/ ProcessEnds \/ FirmwareWrites \/ Inited
  \/ PrepareForSleep \/ OnBatteryChanged \/ PrepareForShutdown \/ MainGoesOn \/ Take
  \/ Save \/ ReadPort \/ WritePort \/ UNCHANGED vars

LEMMA ElsewhereSig ==
  ASSUME TypeOK, Elsewhere
  PROVE  sig'.job = sig.job
<1>0. sig \in [job : Seq(Jobs), wake : Nat, charger : Nat, shut : BOOLEAN]
  BY Zenon, Typed
<1>1. CASE FallsAsleep
  BY ONLY <1>1, <1>0 DEF FallsAsleep, still
<1>2. CASE Toggle
  <2>1. sig' = sig \/ sig' = [sig EXCEPT !.charger = @ + 1]
    BY ONLY <1>2 DEF Toggle
  <2> QED
    BY ONLY <1>0, <2>1
<1>3. CASE ShutdownBegins
  <2>1. sig' = sig \/ sig' = [sig EXCEPT !.shut = TRUE]
    BY ONLY <1>3 DEF ShutdownBegins
  <2> QED
    BY ONLY <1>0, <2>1
<1>4. CASE ProcessEnds
  BY ONLY <1>4, <1>0 DEF ProcessEnds, still
<1>5. CASE FirmwareWrites
  BY ONLY <1>5, <1>0 DEF FirmwareWrites, still
<1>6. CASE Inited
  BY ONLY <1>6, <1>0 DEF Inited, still
<1>7. CASE PrepareForSleep
  <2>1. sig' = [sig EXCEPT !.wake = @ - 1]
    BY ONLY <1>7 DEF PrepareForSleep
  <2> QED
    BY ONLY <1>0, <2>1
<1>8. CASE OnBatteryChanged
  <2>1. sig' = [sig EXCEPT !.charger = @ - 1]
    BY ONLY <1>8 DEF OnBatteryChanged
  <2> QED
    BY ONLY <1>0, <2>1
<1>9. CASE PrepareForShutdown
  <2>1. sig' = [sig EXCEPT !.shut = FALSE]
    BY ONLY <1>9 DEF PrepareForShutdown
  <2> QED
    BY ONLY <1>0, <2>1
<1>10. CASE MainGoesOn
  BY ONLY <1>10, <1>0 DEF MainGoesOn, still
<1>11. CASE Take
  BY ONLY <1>11, <1>0 DEF Take, still
<1>12. CASE Save
  BY ONLY <1>12, <1>0 DEF Save, still
<1>13. CASE ReadPort
  BY ONLY <1>13, <1>0 DEF ReadPort, still
<1>14. CASE WritePort
  BY ONLY <1>14, <1>0 DEF WritePort, still
<1>15. CASE UNCHANGED vars
  BY ONLY <1>15, <1>0 DEF vars, still
<1> QED
  BY <1>1, <1>2, <1>3, <1>4, <1>5, <1>6, <1>7, <1>8, <1>9, <1>10, <1>11, <1>12, <1>13, <1>14, <1>15 DEF Elsewhere

LEMMA ElsewhereHist ==
  ASSUME TypeOK, Elsewhere
  PROVE  hist'.unbuilt <=> hist.unbuilt
<1>0. hist \in [Flags -> BOOLEAN]
  BY Zenon, Typed
<1>1. CASE FallsAsleep
  BY ONLY <1>1, <1>0 DEF FallsAsleep, still
<1>2. CASE Toggle
  BY ONLY <1>2, <1>0, Names DEF Toggle, still, Set
<1>3. CASE ShutdownBegins
  BY ONLY <1>3, <1>0, Names DEF ShutdownBegins, still, Set
<1>4. CASE ProcessEnds
  BY ONLY <1>4, <1>0, Names DEF ProcessEnds, still, Set
<1>5. CASE FirmwareWrites
  BY ONLY <1>5, <1>0, Names DEF FirmwareWrites, still, Set
<1>6. CASE Inited
  BY ONLY <1>6, <1>0 DEF Inited, still
<1>7. CASE PrepareForSleep
  BY ONLY <1>7, <1>0 DEF PrepareForSleep, still
<1>8. CASE OnBatteryChanged
  BY ONLY <1>8, <1>0, Names DEF OnBatteryChanged, still, Set
<1>9. CASE PrepareForShutdown
  BY ONLY <1>9, <1>0 DEF PrepareForShutdown, still
<1>10. CASE MainGoesOn
  BY ONLY <1>10, <1>0, Names DEF MainGoesOn, still, Set
<1>11. CASE Take
  BY ONLY <1>11, <1>0, Names DEF Take, Handle, still, Set, Goodbye, WakingUp, Connected, Disconnected
<1>12. CASE Save
  BY ONLY <1>12, <1>0, Names DEF Save, still, Set
<1>13. CASE ReadPort
  BY ONLY <1>13, <1>0, Names DEF ReadPort, still, Set
<1>14. CASE WritePort
  BY ONLY <1>14, <1>0, Names DEF WritePort, still, Set
<1>15. CASE UNCHANGED vars
  BY ONLY <1>15, <1>0 DEF vars, still
<1> QED
  BY <1>1, <1>2, <1>3, <1>4, <1>5, <1>6, <1>7, <1>8, <1>9, <1>10, <1>11, <1>12, <1>13, <1>14, <1>15 DEF Elsewhere

LEMMA ElsewhereJobs ==
  ASSUME TypeOK, Elsewhere
  PROVE  jobs' = jobs \/ (jobs' = Ready /\ jobs = Idle)
<1>1. CASE FallsAsleep
  BY ONLY <1>1 DEF FallsAsleep, still
<1>2. CASE Toggle
  BY ONLY <1>2 DEF Toggle, still
<1>3. CASE ShutdownBegins
  BY ONLY <1>3 DEF ShutdownBegins, still
<1>4. CASE ProcessEnds
  BY ONLY <1>4 DEF ProcessEnds, still
<1>5. CASE FirmwareWrites
  BY ONLY <1>5 DEF FirmwareWrites, still
<1>6. CASE Inited
  BY ONLY <1>6 DEF Inited, still
<1>7. CASE PrepareForSleep
  BY ONLY <1>7 DEF PrepareForSleep, still
<1>8. CASE OnBatteryChanged
  BY ONLY <1>8 DEF OnBatteryChanged, still
<1>9. CASE PrepareForShutdown
  BY ONLY <1>9 DEF PrepareForShutdown, still
<1>10. CASE MainGoesOn
  BY ONLY <1>10 DEF MainGoesOn, still
<1>11. CASE Take
  BY ONLY <1>11 DEF Take, still
<1>12. CASE Save
  BY ONLY <1>12 DEF Save, still
<1>13. CASE ReadPort
  BY ONLY <1>13 DEF ReadPort, still
<1>14. CASE WritePort
  BY ONLY <1>14 DEF WritePort, still
<1>15. CASE UNCHANGED vars
  BY ONLY <1>15 DEF vars, still
<1> QED
  BY <1>1, <1>2, <1>3, <1>4, <1>5, <1>6, <1>7, <1>8, <1>9, <1>10, <1>11, <1>12, <1>13, <1>14, <1>15 DEF Elsewhere

LEMMA SameSystem ==
  ASSUME [Next]_vars
  PROVE  os' = os
<1>1. CASE SleepBegins
  BY ONLY <1>1 DEF SleepBegins, still
<1>2. CASE FallsAsleep
  BY ONLY <1>2 DEF FallsAsleep, still
<1>3. CASE WakesUp
  BY ONLY <1>3 DEF WakesUp, still
<1>4. CASE Toggle
  BY ONLY <1>4 DEF Toggle, still
<1>5. CASE ShutdownBegins
  BY ONLY <1>5 DEF ShutdownBegins, still
<1>6. CASE ProcessEnds
  BY ONLY <1>6 DEF ProcessEnds, still
<1>7. CASE FirmwareWrites
  BY ONLY <1>7 DEF FirmwareWrites, still
<1>8. CASE Inited
  BY ONLY <1>8 DEF Inited, still
<1>9. CASE TakeJob
  BY ONLY <1>9 DEF TakeJob, still
<1>10. CASE JobAnswer
  BY ONLY <1>10 DEF JobAnswer, still
<1>11. CASE PrepareForSleep
  BY ONLY <1>11 DEF PrepareForSleep, still
<1>12. CASE OnBatteryChanged
  BY ONLY <1>12 DEF OnBatteryChanged, still
<1>13. CASE PrepareForShutdown
  BY ONLY <1>13 DEF PrepareForShutdown, still
<1>14. CASE MainGoesOn
  BY ONLY <1>14 DEF MainGoesOn, still
<1>15. CASE Take
  BY ONLY <1>15 DEF Take, still
<1>16. CASE Save
  BY ONLY <1>16 DEF Save, still
<1>17. CASE ReadPort
  BY ONLY <1>17 DEF ReadPort, still
<1>18. CASE WritePort
  BY ONLY <1>18 DEF WritePort, still
<1>19. CASE UNCHANGED vars
  BY ONLY <1>19 DEF vars, still
<1> QED
  BY <1>1, <1>2, <1>3, <1>4, <1>5, <1>6, <1>7, <1>8, <1>9, <1>10, <1>11, <1>12, <1>13, <1>14, <1>15, <1>16, <1>17, <1>18, <1>19 DEF Next, Listeners, Core

LEMMA ElsewherePower ==
  ASSUME TypeOK, Elsewhere
  PROVE  power \in {"leaving", "asleep"} <=> power' \in {"leaving", "asleep"}
<1>1. CASE FallsAsleep
  BY ONLY <1>1 DEF FallsAsleep, still
<1>2. CASE Toggle
  BY ONLY <1>2 DEF Toggle, still
<1>3. CASE ShutdownBegins
  BY ONLY <1>3 DEF ShutdownBegins, still
<1>4. CASE ProcessEnds
  BY ONLY <1>4 DEF ProcessEnds, still
<1>5. CASE FirmwareWrites
  BY ONLY <1>5 DEF FirmwareWrites, still
<1>6. CASE Inited
  BY ONLY <1>6 DEF Inited, still
<1>7. CASE PrepareForSleep
  BY ONLY <1>7 DEF PrepareForSleep, still
<1>8. CASE OnBatteryChanged
  BY ONLY <1>8 DEF OnBatteryChanged, still
<1>9. CASE PrepareForShutdown
  BY ONLY <1>9 DEF PrepareForShutdown, still
<1>10. CASE MainGoesOn
  BY ONLY <1>10 DEF MainGoesOn, still
<1>11. CASE Take
  BY ONLY <1>11 DEF Take, still
<1>12. CASE Save
  BY ONLY <1>12 DEF Save, still
<1>13. CASE ReadPort
  BY ONLY <1>13 DEF ReadPort, still
<1>14. CASE WritePort
  BY ONLY <1>14 DEF WritePort, still
<1>15. CASE UNCHANGED vars
  BY ONLY <1>15 DEF vars, still
<1> QED
  BY <1>1, <1>2, <1>3, <1>4, <1>5, <1>6, <1>7, <1>8, <1>9, <1>10, <1>11, <1>12, <1>13, <1>14, <1>15 DEF Elsewhere

LEMMA ElsewhereCounts ==
  ASSUME TypeOK, Elsewhere
  PROVE  n'.sent = n.sent /\ n'.sleeps = n.sleeps
<1>0. n \in [Counts -> Nat]
  BY Zenon, Typed
<1>a. \A c \in {"toggles", "faults", "served"} : \A x \in Nat :
        /\ One(c, x).sent = n.sent /\ One(c, x).sleeps = n.sleeps
        /\ n[c] \in Nat /\ n[c] + 1 \in Nat
  <2>1. {"toggles", "faults", "served", "sent", "sleeps"} \subseteq Counts
    BY Names
  <2> SUFFICES ASSUME NEW c \in {"toggles", "faults", "served"}, NEW x \in Nat
               PROVE  /\ One(c, x).sent = n.sent /\ One(c, x).sleeps = n.sleeps
                      /\ n[c] \in Nat /\ n[c] + 1 \in Nat
    OBVIOUS
  <2>c. c \in Counts
    BY ONLY <2>1, c \in {"toggles", "faults", "served"}
  <2>2. \A e \in Counts \ {c} : One(c, x)[e] = n[e]
    BY ONLY <1>0, <2>c, SetOne, x \in Nat
  <2>3. n[c] \in Nat
    BY ONLY <1>0, <2>1, c \in {"toggles", "faults", "served"}
  <2> QED
    BY ONLY <2>1, <2>2, <2>3, c \in {"toggles", "faults", "served"}
<1>b. Fault => n'.sent = n.sent /\ n'.sleeps = n.sleeps
  <2>1. Fault => n' = One("faults", n.faults + 1)
    BY ONLY DEF Fault, Count, One
  <2> QED
    BY ONLY <1>a, <2>1
<1>1. CASE FallsAsleep
  BY ONLY <1>1, <1>0 DEF FallsAsleep, still
<1>2. CASE Toggle
  <2>1. n' = One("toggles", n.toggles + 1)
    BY ONLY <1>2 DEF Toggle, Count, One
  <2> QED
    BY ONLY <2>1, <1>a
<1>3. CASE ShutdownBegins
  BY ONLY <1>3, <1>0 DEF ShutdownBegins, still
<1>4. CASE ProcessEnds
  BY ONLY <1>4, <1>0 DEF ProcessEnds, still
<1>5. CASE FirmwareWrites
  BY ONLY <1>5, <1>0 DEF FirmwareWrites, still
<1>6. CASE Inited
  BY ONLY <1>6, <1>0 DEF Inited, still
<1>7. CASE PrepareForSleep
  BY ONLY <1>7, <1>0 DEF PrepareForSleep, still
<1>8. CASE OnBatteryChanged
  <2>1. n' = n \/ Fault
    BY ONLY <1>8 DEF OnBatteryChanged
  <2> QED
    BY ONLY <1>0, <1>b, <2>1
<1>9. CASE PrepareForShutdown
  BY ONLY <1>9, <1>0 DEF PrepareForShutdown, still
<1>10. CASE MainGoesOn
  <2>1. CASE Head(queue) \in SleepEvents
    <3>1. n' = One("served", n.served + 1)
      BY ONLY <1>10, <2>1 DEF MainGoesOn, One
    <3> QED
      BY ONLY <3>1, <1>a
  <2>2. CASE ~(Head(queue) \in SleepEvents)
    <3>1. n' = One("served", n.served)
      BY ONLY <1>10, <2>2 DEF MainGoesOn, One
    <3> QED
      BY ONLY <3>1, <1>a
  <2> QED
    BY ONLY <2>1, <2>2
<1>11. CASE Take
  <2>1. n' = n \/ Fault
    BY ONLY <1>11 DEF Take, Handle, Goodbye, WakingUp, Connected, Disconnected
  <2> QED
    BY ONLY <1>0, <1>b, <2>1
<1>12. CASE Save
  <2>1. CASE core = "save"
    <3>1. n' = One("served", n.served + 1)
      BY ONLY <1>12, <2>1 DEF Save, One
    <3> QED
      BY ONLY <3>1, <1>a
  <2>2. CASE ~(core = "save")
    <3>1. n' = One("served", n.served)
      BY ONLY <1>12, <2>2 DEF Save, One
    <3> QED
      BY ONLY <3>1, <1>a
  <2> QED
    BY ONLY <2>1, <2>2
<1>13. CASE ReadPort
  <2>1. n' = n \/ Fault
    BY ONLY <1>13 DEF ReadPort
  <2> QED
    BY ONLY <1>0, <1>b, <2>1
<1>14. CASE WritePort
  <2>1. n' = n \/ Fault
    BY ONLY <1>14 DEF WritePort
  <2> QED
    BY ONLY <1>0, <1>b, <2>1
<1>15. CASE UNCHANGED vars
  BY ONLY <1>15, <1>0 DEF vars, still
<1> QED
  BY <1>1, <1>2, <1>3, <1>4, <1>5, <1>6, <1>7, <1>8, <1>9, <1>10, <1>11, <1>12, <1>13, <1>14, <1>15 DEF Elsewhere

LEMMA JobAppended ==
  ASSUME NEW q \in Seq(Jobs), NEW j \in Jobs, NEW on \in BOOLEAN, Turns(q, ~on), j.type = "start" <=> on
  PROVE  /\ Turns(Append(q, j), on) /\ Len(q) \in Nat
         /\ StartsIfLast(Len(Append(q, j))) = StartsIfNot(Len(q)) + 1
         /\ StartsIfNot(Len(Append(q, j))) = StartsIfLast(Len(q))
<1> DEFINE r == Append(q, j)
<1>1. /\ Len(q) \in Nat /\ Len(r) = Len(q) + 1
      /\ \A k \in 1..Len(q) : r[k] = q[k]
      /\ r[Len(q) + 1] = j
  OBVIOUS
<1> HIDE DEF r
<1>2. ASSUME NEW k \in 1..Len(q)
      PROVE  r[k].type = "start" <=> (on <=> (Len(r) - k) % 2 = 0)
  <2>1. Len(q) - k \in Nat /\ Len(r) - k = (Len(q) - k) + 1
    BY ONLY <1>1, k \in 1..Len(q)
  <2>2. (Len(q) - k) % 2 \in {0, 1} /\ (Len(r) - k) % 2 = 1 - ((Len(q) - k) % 2)
    BY ONLY <2>1, Halves
  <2>3. (Len(r) - k) % 2 = 0 <=> ~((Len(q) - k) % 2 = 0)
    BY ONLY <2>2
  <2>4. q[k].type = "start" <=> (~on <=> (Len(q) - k) % 2 = 0)
    BY Zenon DEF Turns
  <2>5. r[k] = q[k]
    BY ONLY <1>1, k \in 1..Len(q)
  <2> QED
    BY Zenon, <2>3, <2>4, <2>5
<1>3. r[Len(q) + 1].type = "start" <=> (on <=> (Len(r) - (Len(q) + 1)) % 2 = 0)
  <2>1. (Len(r) - (Len(q) + 1)) % 2 = 0
    BY ONLY <1>1
  <2> QED
    BY Zenon, <1>1, <2>1
<1>4. Turns(r, on)
  <2>1. \A k \in 1..Len(r) : k \in 1..Len(q) \/ k = Len(q) + 1
    BY ONLY <1>1
  <2> QED
    BY Zenon, <1>2, <1>3, <2>1 DEF Turns
<1>5. StartsIfLast(Len(r)) = StartsIfNot(Len(q)) + 1
  <2>1. (Len(q) + 2) \div 2 = (Len(q) \div 2) + 1 /\ Len(r) + 1 = Len(q) + 2
    BY ONLY <1>1, Halves
  <2> QED
    BY ONLY <2>1 DEF StartsIfLast, StartsIfNot
<1>6. StartsIfNot(Len(r)) = StartsIfLast(Len(q))
  BY ONLY <1>1 DEF StartsIfLast, StartsIfNot
<1> QED
  BY <1>1, <1>4, <1>5, <1>6 DEF r

LEMMA JobTaken ==
  ASSUME NEW q \in Seq(Jobs), q # <<>>, NEW on \in BOOLEAN, Turns(q, on)
  PROVE  /\ Turns(Tail(q), on) /\ Head(q) \in Jobs
         /\ Len(q) \in Nat /\ Len(Tail(q)) \in Nat
         /\ on /\ Head(q).type = "start" => StartsIfLast(Len(q)) = StartsIfLast(Len(Tail(q))) + 1
         /\ on /\ Head(q).type # "start" => StartsIfLast(Len(q)) = StartsIfLast(Len(Tail(q)))
         /\ ~on /\ Head(q).type = "start" => StartsIfNot(Len(q)) = StartsIfNot(Len(Tail(q))) + 1
         /\ ~on /\ Head(q).type # "start" => StartsIfNot(Len(q)) = StartsIfNot(Len(Tail(q)))
<1> DEFINE r == Tail(q)
<1>1. /\ Len(q) \in Nat /\ Len(q) > 0 /\ Len(r) = Len(q) - 1 /\ Head(q) = q[1] /\ Head(q) \in Jobs
      /\ \A k \in 1..Len(r) : r[k] = q[k + 1]
  OBVIOUS
<1> HIDE DEF r
<1>2. ASSUME NEW k \in 1..Len(r)
      PROVE  r[k].type = "start" <=> (on <=> (Len(r) - k) % 2 = 0)
  <2>1. k + 1 \in 1..Len(q) /\ Len(q) - (k + 1) = Len(r) - k /\ r[k] = q[k + 1]
    BY ONLY <1>1, k \in 1..Len(r)
  <2>2. q[k + 1].type = "start" <=> (on <=> (Len(q) - (k + 1)) % 2 = 0)
    BY Zenon, <2>1 DEF Turns
  <2> QED
    BY Zenon, <2>1, <2>2
<1>3. Turns(r, on)
  BY Zenon, <1>2 DEF Turns
<1>4. Head(q).type = "start" <=> (on <=> Len(r) % 2 = 0)
  <2>1. 1 \in 1..Len(q) /\ Len(q) - 1 = Len(r)
    BY ONLY <1>1
  <2>2. q[1].type = "start" <=> (on <=> (Len(q) - 1) % 2 = 0)
    BY Zenon, <2>1 DEF Turns
  <2> QED
    BY Zenon, <1>1, <2>1, <2>2
<1>5. /\ Len(r) \in Nat /\ Len(q) = Len(r) + 1 /\ Len(q) + 1 = Len(r) + 2
      /\ Len(r) % 2 \in {0, 1} /\ Len(r) \div 2 \in Nat
      /\ (Len(r) + 2) \div 2 = (Len(r) \div 2) + 1
      /\ (Len(r) + 1) \div 2 = (Len(r) \div 2) + (Len(r) % 2)
  BY ONLY <1>1, Halves
<1>6. /\ Len(r) % 2 = 0 => StartsIfLast(Len(q)) = StartsIfLast(Len(r)) + 1
      /\ Len(r) % 2 # 0 => StartsIfLast(Len(q)) = StartsIfLast(Len(r))
  BY ONLY <1>5 DEF StartsIfLast
<1>7. /\ Len(r) % 2 # 0 => StartsIfNot(Len(q)) = StartsIfNot(Len(r)) + 1
      /\ Len(r) % 2 = 0 => StartsIfNot(Len(q)) = StartsIfNot(Len(r))
  BY ONLY <1>5 DEF StartsIfNot
<1> QED
  BY Zenon, <1>1, <1>3, <1>4, <1>5, <1>6, <1>7 DEF r

(* Sleeps, read now and in the next state.                                 *)
LEMMA SleepsNow ==
  ASSUME TypeOK
  PROVE  /\ sig \in [job : Seq(Jobs), wake : Nat, charger : Nat, shut : BOOLEAN]
         /\ sig.job \in Seq(Jobs) /\ Len(sig.job) \in Nat
         /\ n \in [Counts -> Nat] /\ n.sent \in Nat /\ n.sleeps \in Nat /\ Asked \in {0, 1}
         /\ StartsIfLast(Len(sig.job)) \in Nat /\ StartsIfNot(Len(sig.job)) \in Nat
<1>1. sig \in [job : Seq(Jobs), wake : Nat, charger : Nat, shut : BOOLEAN] /\ n \in [Counts -> Nat]
  BY Zenon, Typed
<1>2. sig.job \in Seq(Jobs) /\ Len(sig.job) \in Nat
  BY ONLY <1>1
<1>3. n.sent \in Nat /\ n.sleeps \in Nat
  BY ONLY <1>1, Names
<1>4. Asked \in {0, 1}
  BY DEF Asked
<1>5. StartsIfLast(Len(sig.job)) \in Nat /\ StartsIfNot(Len(sig.job)) \in Nat
  <2>1. Len(sig.job) + 1 \in Nat
    BY ONLY <1>2
  <2>2. Len(sig.job) \div 2 \in Nat /\ (Len(sig.job) + 1) \div 2 \in Nat
    BY ONLY <1>2, <2>1, Halves
  <2> QED
    BY ONLY <2>2 DEF StartsIfLast, StartsIfNot
<1> QED
  BY ONLY <1>1, <1>2, <1>3, <1>4, <1>5

LEMMA SleepsThen ==
  ASSUME os' = "windows" => sig'.job = <<>> /\ jobs' \notin Jobs,
         Turns(sig'.job, Sleeping'),
         ~hist'.unbuilt /\ Sleeping' => n'.sent + StartsIfLast(Len(sig'.job)) + Asked' <= n'.sleeps,
         ~hist'.unbuilt /\ ~Sleeping' => n'.sent + StartsIfNot(Len(sig'.job)) + Asked' <= n'.sleeps
  PROVE  Sleeps'
  BY DEF Sleeps, Turns, StartsIfLast, StartsIfNot

(* The turns go by the sleep alone.                                        *)
LEMMA TurnsBy ==
  ASSUME NEW q, NEW a, NEW b, a <=> b, Turns(q, a)
  PROVE  Turns(q, b)
  BY DEF Turns

LEMMA ElsewhereSleeps == ASSUME TypeOK, Sleeps, Elsewhere PROVE Sleeps'
<1>1. os' = os /\ sig'.job = sig.job /\ (Sleeping' <=> Sleeping)
  <2>1. os' = os
    BY SameSystem DEF Elsewhere, Next, Listeners, Core
  <2>2. Sleeping' <=> Sleeping
    BY ElsewherePower DEF Sleeping
  <2> QED
    BY ONLY <2>1, <2>2, ElsewhereSig, TypeOK, Elsewhere
<1>2. (jobs' \in Jobs => jobs \in Jobs) /\ Asked' = Asked
  <2>1. jobs' = jobs \/ (jobs' = Ready /\ jobs = Idle)
    BY ElsewhereJobs
  <2> QED
    BY ONLY <2>1, JobTypes DEF Asked
<1>3. (hist'.unbuilt <=> hist.unbuilt) /\ n'.sent = n.sent /\ n'.sleeps = n.sleeps
  BY ElsewhereHist, ElsewhereCounts
<1>4. /\ os = "windows" => sig.job = <<>> /\ jobs \notin Jobs
      /\ Turns(sig.job, Sleeping)
      /\ ~hist.unbuilt /\ Sleeping => n.sent + StartsIfLast(Len(sig.job)) + Asked <= n.sleeps
      /\ ~hist.unbuilt /\ ~Sleeping => n.sent + StartsIfNot(Len(sig.job)) + Asked <= n.sleeps
  BY DEF Sleeps
<1>5. os' = "windows" => sig'.job = <<>> /\ jobs' \notin Jobs
  BY ONLY <1>1, <1>2, <1>4
<1>6. Turns(sig'.job, Sleeping')
  BY ONLY <1>1, <1>4, TurnsBy
<1>7. ~hist'.unbuilt /\ Sleeping' => n'.sent + StartsIfLast(Len(sig'.job)) + Asked' <= n'.sleeps
  BY ONLY <1>1, <1>2, <1>3, <1>4
<1>8. ~hist'.unbuilt /\ ~Sleeping' => n'.sent + StartsIfNot(Len(sig'.job)) + Asked' <= n'.sleeps
  BY ONLY <1>1, <1>2, <1>3, <1>4
<1> QED
  BY ONLY <1>5, <1>6, <1>7, <1>8, SleepsThen

LEMMA SleepBeginsSleeps == ASSUME TypeOK, Sleeps, SleepBegins PROVE Sleeps'
<1>0. ~Sleeping /\ Sleeping' /\ os' = os /\ jobs' = jobs /\ hist' = hist /\ Asked' = Asked
  <2>1. ~Sleeping /\ Sleeping' /\ jobs' = jobs /\ hist' = hist
    BY ONLY SleepBegins DEF SleepBegins, Sleeping
  <2>2. os' = os
    BY SameSystem DEF Next
  <2> QED
    BY ONLY <2>1, <2>2 DEF Asked
<1>1. /\ os = "windows" => sig.job = <<>> /\ jobs \notin Jobs
      /\ Turns(sig.job, Sleeping)
      /\ ~hist.unbuilt => n.sent + StartsIfNot(Len(sig.job)) + Asked <= n.sleeps
  BY <1>0 DEF Sleeps
<1>2. {"sleeps", "sent"} \subseteq Counts /\ n \in [Counts -> Nat]
  BY Zenon, Typed, Names
<1>3. CASE os = "linux"
  <2>1. /\ sig' = [sig EXCEPT !.job = Append(@, [kind |-> kind, type |-> "start"])]
        /\ n' = One("sleeps", n.sleeps + 1)
    BY ONLY SleepBegins, <1>3 DEF SleepBegins, Count, One
  <2>2. sig'.job = Append(sig.job, [kind |-> kind, type |-> "start"])
    BY ONLY <2>1, SleepsNow, TypeOK
  <2>3. [kind |-> kind, type |-> "start"] \in Jobs /\ [kind |-> kind, type |-> "start"].type = "start"
    BY Zenon, Typed, JobMade
  <2>4. Turns(sig.job, ~TRUE)
    <3>1. Sleeping <=> ~TRUE
      BY Zenon, <1>0
    <3> QED
      BY Zenon, <1>1, <3>1, TurnsBy
  <2>5. Turns(sig'.job, TRUE) /\ StartsIfLast(Len(sig'.job)) = StartsIfNot(Len(sig.job)) + 1
    BY ONLY <2>2, <2>3, <2>4, SleepsNow, TypeOK, JobAppended
  <2>6. n'.sleeps = n.sleeps + 1 /\ n'.sent = n.sent
    <3>1. \A x \in Nat : One("sleeps", x).sleeps = x /\ One("sleeps", x).sent = n.sent
      BY ONLY <1>2, SetOne
    <3>2. n.sleeps + 1 \in Nat
      BY ONLY SleepsNow, TypeOK
    <3> QED
      BY ONLY <2>1, <3>1, <3>2
  <2>7. ~hist.unbuilt => n'.sent + StartsIfLast(Len(sig'.job)) + Asked' <= n'.sleeps
    <3>1. StartsIfLast(Len(sig'.job)) = StartsIfNot(Len(sig.job)) + 1
      BY Zenon, <2>5
    <3>2. n.sent \in Nat /\ n.sleeps \in Nat /\ Asked \in {0, 1} /\ StartsIfNot(Len(sig.job)) \in Nat
      BY Zenon, SleepsNow
    <3>3. Asked' = Asked
      BY ONLY <1>0
    <3>4. ~hist.unbuilt => n.sent + StartsIfNot(Len(sig.job)) + Asked <= n.sleeps
      BY Zenon, <1>1
    <3> QED
      BY ONLY <2>6, <3>1, <3>2, <3>3, <3>4
  <2>8. Turns(sig'.job, Sleeping')
    <3>1. TRUE <=> Sleeping'
      BY Zenon, <1>0
    <3> QED
      BY Zenon, <2>5, <3>1, TurnsBy
  <2> QED
    BY ONLY <1>0, <1>3, <2>7, <2>8, SleepsThen
<1>4. CASE os = "windows"
  <2>1. sig' = sig /\ n' = Two("sleeps", n.sleeps + 1, "sent", n.sent + 1)
    BY ONLY SleepBegins, <1>4 DEF SleepBegins, Two
  <2>2. sig.job = <<>> /\ Len(sig.job) = 0 /\ jobs \notin Jobs
    BY ONLY <1>1, <1>4
  <2>3. StartsIfLast(0) = 0 /\ StartsIfNot(0) = 0
    BY DEF StartsIfLast, StartsIfNot
  <2>4. n'.sleeps = n.sleeps + 1 /\ n'.sent = n.sent + 1
    <3>1. \A x, y \in Nat : /\ Two("sleeps", x, "sent", y).sleeps = x
                            /\ Two("sleeps", x, "sent", y).sent = y
      BY ONLY <1>2, SetTwo
    <3>2. n.sleeps + 1 \in Nat /\ n.sent + 1 \in Nat
      BY ONLY SleepsNow, TypeOK
    <3> QED
      BY ONLY <2>1, <3>1, <3>2
  <2>5. Turns(sig'.job, Sleeping')
    BY ONLY <2>1, <2>2 DEF Turns
  <2>6. ~hist.unbuilt => n'.sent + StartsIfLast(Len(sig'.job)) + Asked' <= n'.sleeps
    BY ONLY <1>0, <1>1, <2>1, <2>2, <2>3, <2>4, SleepsNow, TypeOK
  <2> QED
    BY ONLY <1>0, <1>1, <2>1, <2>2, <2>5, <2>6, SleepsThen
<1>5. os \in {"linux", "windows"}
  BY Zenon, Typed
<1> QED
  BY ONLY <1>3, <1>4, <1>5

LEMMA WakesUpSleeps == ASSUME TypeOK, Sleeps, WakesUp PROVE Sleeps'
<1>0. Sleeping /\ ~Sleeping' /\ os' = os /\ jobs' = jobs /\ hist' = hist /\ n' = n /\ Asked' = Asked
  <2>1. Sleeping /\ ~Sleeping' /\ jobs' = jobs /\ hist' = hist /\ n' = n
    BY ONLY WakesUp DEF WakesUp, Sleeping
  <2>2. os' = os
    BY SameSystem DEF Next
  <2> QED
    BY ONLY <2>1, <2>2 DEF Asked
<1>1. /\ os = "windows" => sig.job = <<>> /\ jobs \notin Jobs
      /\ Turns(sig.job, Sleeping)
      /\ ~hist.unbuilt => n.sent + StartsIfLast(Len(sig.job)) + Asked <= n.sleeps
  BY <1>0 DEF Sleeps
<1>3. CASE os = "linux"
  <2>1. sig' = [sig EXCEPT !.job = Append(@, [kind |-> kind, type |-> "stop"]), !.wake = @ + 1]
    BY ONLY WakesUp, <1>3 DEF WakesUp
  <2>2. sig'.job = Append(sig.job, [kind |-> kind, type |-> "stop"])
    BY ONLY <2>1, SleepsNow, TypeOK
  <2>3. [kind |-> kind, type |-> "stop"] \in Jobs /\ [kind |-> kind, type |-> "stop"].type # "start"
    BY Zenon, Typed, JobMade
  <2>4. Turns(sig.job, ~FALSE)
    <3>1. Sleeping <=> ~FALSE
      BY Zenon, <1>0
    <3> QED
      BY Zenon, <1>1, <3>1, TurnsBy
  <2>5. Turns(sig'.job, FALSE) /\ StartsIfNot(Len(sig'.job)) = StartsIfLast(Len(sig.job))
    BY ONLY <2>2, <2>3, <2>4, SleepsNow, TypeOK, JobAppended
  <2>6. ~hist.unbuilt => n'.sent + StartsIfNot(Len(sig'.job)) + Asked' <= n'.sleeps
    <3>1. StartsIfNot(Len(sig'.job)) = StartsIfLast(Len(sig.job))
      BY Zenon, <2>5
    <3> QED
      BY ONLY <1>0, <1>1, <3>1
  <2>7. Turns(sig'.job, Sleeping')
    <3>1. FALSE <=> Sleeping'
      BY Zenon, <1>0
    <3> QED
      BY Zenon, <2>5, <3>1, TurnsBy
  <2> QED
    BY ONLY <1>0, <1>3, <2>6, <2>7, SleepsThen
<1>4. CASE os = "windows"
  <2>1. sig' = sig
    BY ONLY WakesUp, <1>4 DEF WakesUp
  <2>2. sig.job = <<>> /\ Len(sig.job) = 0 /\ jobs \notin Jobs
    BY ONLY <1>1, <1>4
  <2>3. StartsIfLast(0) = 0 /\ StartsIfNot(0) = 0
    BY DEF StartsIfLast, StartsIfNot
  <2>4. Turns(sig'.job, Sleeping')
    BY ONLY <2>1, <2>2 DEF Turns
  <2>5. ~hist.unbuilt => n'.sent + StartsIfNot(Len(sig'.job)) + Asked' <= n'.sleeps
    BY ONLY <1>0, <1>1, <2>1, <2>2, <2>3
  <2> QED
    BY ONLY <1>0, <1>1, <2>1, <2>2, <2>4, <2>5, SleepsThen
<1>5. os \in {"linux", "windows"}
  BY Zenon, Typed
<1> QED
  BY ONLY <1>3, <1>4, <1>5

LEMMA TakeJobSleeps == ASSUME TypeOK, Sleeps, TakeJob PROVE Sleeps'
<1>0. /\ jobs = Idle /\ sig.job # <<>> /\ jobs' = Head(sig.job)
      /\ sig' = [sig EXCEPT !.job = Tail(@)] /\ UNCHANGED <<power, n, hist>>
  BY ONLY TakeJob DEF TakeJob
<1>1. os' = os /\ (Sleeping' <=> Sleeping)
  <2>1. os' = os
    BY SameSystem DEF Next, Listeners
  <2> QED
    BY ONLY <1>0, <2>1 DEF Sleeping
<1>2. sig'.job = Tail(sig.job)
  BY ONLY <1>0, SleepsNow, TypeOK
<1>3. /\ os # "windows" /\ Turns(sig.job, Sleeping)
      /\ ~hist.unbuilt /\ Sleeping => n.sent + StartsIfLast(Len(sig.job)) + Asked <= n.sleeps
      /\ ~hist.unbuilt /\ ~Sleeping => n.sent + StartsIfNot(Len(sig.job)) + Asked <= n.sleeps
  BY <1>0 DEF Sleeps
<1>4. Sleeping \in BOOLEAN
  BY DEF Sleeping
<1>5. /\ Turns(sig'.job, Sleeping)
      /\ Sleeping /\ jobs'.type = "start" => StartsIfLast(Len(sig.job)) = StartsIfLast(Len(sig'.job)) + 1
      /\ Sleeping /\ jobs'.type # "start" => StartsIfLast(Len(sig.job)) = StartsIfLast(Len(sig'.job))
      /\ ~Sleeping /\ jobs'.type = "start" => StartsIfNot(Len(sig.job)) = StartsIfNot(Len(sig'.job)) + 1
      /\ ~Sleeping /\ jobs'.type # "start" => StartsIfNot(Len(sig.job)) = StartsIfNot(Len(sig'.job))
  <2>1. sig.job \in Seq(Jobs)
    BY SleepsNow
  <2> QED
    BY Zenon, <1>0, <1>2, <1>3, <1>4, <2>1, JobTaken
<1>6. Turns(sig'.job, Sleeping')
  BY Zenon, <1>1, <1>5, TurnsBy
<1>7. /\ Asked = 0 /\ (jobs'.type = "start" => Asked' = 1) /\ (jobs'.type # "start" => Asked' = 0)
  <2>1. Asked = 0
    BY ONLY <1>0, JobTypes DEF Asked
  <2> QED
    BY ONLY <2>1 DEF Asked
<1>8. /\ n.sent \in Nat /\ n.sleeps \in Nat /\ n' = n /\ Len(sig'.job) \in Nat
      /\ StartsIfLast(Len(sig'.job)) \in Nat /\ StartsIfNot(Len(sig'.job)) \in Nat
  <2>1. TypeOK'
    BY TypeNext DEF Next, Listeners
  <2>2. /\ Len(sig'.job) \in Nat
        /\ StartsIfLast(Len(sig'.job)) \in Nat /\ StartsIfNot(Len(sig'.job)) \in Nat
    <3>1. Len(sig'.job) \in Nat
      <4>1. sig.job \in Seq(Jobs)
        BY SleepsNow
      <4> QED
        BY ONLY <1>0, <1>2, <4>1
    <3>2. Len(sig'.job) + 1 \in Nat
      BY ONLY <3>1
    <3>3. Len(sig'.job) \div 2 \in Nat /\ (Len(sig'.job) + 1) \div 2 \in Nat
      BY ONLY <3>1, <3>2, Halves
    <3> QED
      BY ONLY <3>1, <3>3 DEF StartsIfLast, StartsIfNot
  <2> QED
    BY ONLY <1>0, <2>2, SleepsNow, TypeOK
<1>9. ~hist.unbuilt /\ Sleeping => n'.sent + StartsIfLast(Len(sig'.job)) + Asked' <= n'.sleeps
  <2> SUFFICES ASSUME ~hist.unbuilt, Sleeping
               PROVE  n'.sent + StartsIfLast(Len(sig'.job)) + Asked' <= n'.sleeps
    OBVIOUS
  <2>1. n.sent + StartsIfLast(Len(sig.job)) + Asked <= n.sleeps
    BY Zenon, <1>3
  <2>2. CASE jobs'.type = "start"
    <3>1. StartsIfLast(Len(sig.job)) = StartsIfLast(Len(sig'.job)) + 1 /\ Asked' = 1 /\ Asked = 0
      BY Zenon, <1>5, <1>7, <2>2
    <3> QED
      BY ONLY <1>8, <2>1, <3>1
  <2>3. CASE jobs'.type # "start"
    <3>1. StartsIfLast(Len(sig.job)) = StartsIfLast(Len(sig'.job)) /\ Asked' = 0 /\ Asked = 0
      BY Zenon, <1>5, <1>7, <2>3
    <3> QED
      BY ONLY <1>8, <2>1, <3>1
  <2> QED
    BY ONLY <2>2, <2>3
<1>10. ~hist.unbuilt /\ ~Sleeping => n'.sent + StartsIfNot(Len(sig'.job)) + Asked' <= n'.sleeps
  <2> SUFFICES ASSUME ~hist.unbuilt, ~Sleeping
               PROVE  n'.sent + StartsIfNot(Len(sig'.job)) + Asked' <= n'.sleeps
    OBVIOUS
  <2>1. n.sent + StartsIfNot(Len(sig.job)) + Asked <= n.sleeps
    BY Zenon, <1>3
  <2>2. CASE jobs'.type = "start"
    <3>1. StartsIfNot(Len(sig.job)) = StartsIfNot(Len(sig'.job)) + 1 /\ Asked' = 1 /\ Asked = 0
      BY Zenon, <1>5, <1>7, <2>2
    <3> QED
      BY ONLY <1>8, <2>1, <3>1
  <2>3. CASE jobs'.type # "start"
    <3>1. StartsIfNot(Len(sig.job)) = StartsIfNot(Len(sig'.job)) /\ Asked' = 0 /\ Asked = 0
      BY Zenon, <1>5, <1>7, <2>3
    <3> QED
      BY ONLY <1>8, <2>1, <3>1
  <2> QED
    BY ONLY <2>2, <2>3
<1>11. ~hist'.unbuilt => ~hist.unbuilt
  BY ONLY <1>0
<1>12. ~hist'.unbuilt /\ Sleeping' => n'.sent + StartsIfLast(Len(sig'.job)) + Asked' <= n'.sleeps
  BY Zenon, <1>1, <1>9, <1>11
<1>13. ~hist'.unbuilt /\ ~Sleeping' => n'.sent + StartsIfNot(Len(sig'.job)) + Asked' <= n'.sleeps
  BY Zenon, <1>1, <1>10, <1>11
<1>14. os' # "windows"
  BY Zenon, <1>1, <1>3
<1> QED
  BY Zenon, <1>6, <1>12, <1>13, <1>14, SleepsThen

LEMMA JobAnswerSleeps == ASSUME TypeOK, Sleeps, JobAnswer PROVE Sleeps'
<1>0. /\ jobs \in Jobs /\ jobs' = Idle /\ UNCHANGED <<power, sig>>
      /\ JobIsKnown \/ JobIsUnknown \/ ProxyFails
  BY ONLY JobAnswer DEF JobAnswer
<1>1. os' = os /\ (Sleeping' <=> Sleeping) /\ sig' = sig
  <2>1. os' = os
    BY SameSystem DEF Next, Listeners
  <2> QED
    BY ONLY <1>0, <2>1 DEF Sleeping
<1>3. /\ os # "windows" /\ Turns(sig.job, Sleeping)
      /\ ~hist.unbuilt /\ Sleeping => n.sent + StartsIfLast(Len(sig.job)) + Asked <= n.sleeps
      /\ ~hist.unbuilt /\ ~Sleeping => n.sent + StartsIfNot(Len(sig.job)) + Asked <= n.sleeps
  BY <1>0 DEF Sleeps
<1>4. /\ Asked' = 0 /\ (jobs.type = "start" => Asked = 1)
  <2>1. Asked' = 0
    BY ONLY <1>0, JobTypes DEF Asked
  <2> QED
    BY ONLY <2>1 DEF Asked
<1>a. {"faults", "sent", "sleeps", "served"} \subseteq Counts /\ n \in [Counts -> Nat]
      /\ hist \in [Flags -> BOOLEAN]
  BY Zenon, Typed, Names
<1>c. "faults" \in Counts /\ "sent" \in Counts /\ "served" \in Counts /\ n \in [Counts -> Nat]
  BY Zenon, <1>a
<1>b. n.faults + 1 \in Nat /\ n.sent + 1 \in Nat /\ n.served \in Nat /\ n.served + 1 \in Nat
  BY ONLY <1>a
<1>5. \/ hist'.unbuilt
      \/ /\ (hist'.unbuilt <=> hist.unbuilt) /\ n'.sleeps = n.sleeps
         /\ n'.sent = n.sent \/ (n'.sent = n.sent + 1 /\ jobs.type = "start")
  <2>1. CASE JobIsKnown /\ jobs.type = "start"
    <3>1. n' = One("sent", n.sent + 1) /\ (hist'.unbuilt <=> hist.unbuilt)
      <4>1. SendSleep
        BY ONLY <2>1 DEF JobIsKnown
      <4>2. n' = One("sent", n.sent + 1)
        BY ONLY <4>1 DEF SendSleep, One
      <4>3. PICK b \in BOOLEAN : hist' = [hist EXCEPT !["late"] = b]
        BY ONLY <4>1 DEF SendSleep, Set
      <4>4. hist'.unbuilt <=> hist.unbuilt
        BY ONLY <1>a, <4>3, Names
      <4> QED
        BY ONLY <4>2, <4>4
    <3>2. \A x \in Nat : One("sent", x).sent = x /\ One("sent", x).sleeps = n.sleeps
      <4>1. \A x \in Nat : One("sent", x)["sent"] = x
        BY ONLY <1>c, SetOne
      <4>2. \A x \in Nat : \A e \in Counts \ {"sent"} : One("sent", x)[e] = n[e]
        BY ONLY <1>c, SetOne
      <4>3. "sleeps" \in Counts \ {"sent"}
        BY ONLY <1>a
      <4> QED
        BY ONLY <4>1, <4>2, <4>3
    <3> QED
      BY ONLY <1>b, <2>1, <3>1, <3>2
  <2>2. CASE JobIsKnown /\ jobs.type # "start"
    BY ONLY <2>2 DEF JobIsKnown
  <2>3. CASE JobIsUnknown
    <3>1. /\ hist' = hist
          /\ \/ n' = Two("faults", n.faults + 1, "served", n.served + 1)
             \/ n' = Two("faults", n.faults + 1, "served", n.served)
      <4>1. CASE jobs.type = "start"
        BY ONLY <2>3, <4>1 DEF JobIsUnknown, Two
      <4>2. CASE jobs.type # "start"
        BY ONLY <2>3, <4>2 DEF JobIsUnknown, Two
      <4> QED
        BY ONLY <4>1, <4>2
    <3>2. \A x, y \in Nat : /\ Two("faults", x, "served", y).sent = n.sent
                            /\ Two("faults", x, "served", y).sleeps = n.sleeps
      <4> SUFFICES ASSUME NEW x \in Nat, NEW y \in Nat
                   PROVE  /\ Two("faults", x, "served", y).sent = n.sent
                          /\ Two("faults", x, "served", y).sleeps = n.sleeps
        OBVIOUS
      <4> QED
        BY ONLY <1>a, <1>c DEF Two
    <3> QED
      BY ONLY <1>b, <3>1, <3>2
  <2>4. CASE ProxyFails
    <3>1. hist' = [hist EXCEPT !["unbuilt"] = TRUE]
      BY ONLY <2>4 DEF ProxyFails, Set
    <3> QED
      BY ONLY <1>a, <3>1, Names
  <2> QED
    BY ONLY <1>0, <2>1, <2>2, <2>3, <2>4
<1>6. Turns(sig'.job, Sleeping')
  BY Zenon, <1>1, <1>3, TurnsBy
<1>7. ASSUME ~hist'.unbuilt, NEW w \in Nat, n.sent + w + Asked <= n.sleeps
      PROVE  n'.sent + w + Asked' <= n'.sleeps
  <2>1. n'.sleeps = n.sleeps /\ (n'.sent = n.sent \/ (n'.sent = n.sent + 1 /\ Asked = 1))
    BY Zenon, <1>4, <1>5, <1>7
  <2>2. Asked' = 0
    BY Zenon, <1>4
  <2>3. n.sent \in Nat /\ n.sleeps \in Nat /\ Asked \in {0, 1}
    BY Zenon, SleepsNow
  <2> QED
    BY ONLY <1>7, <2>1, <2>2, <2>3
<1>8. ~hist'.unbuilt => ~hist.unbuilt
  BY Zenon, <1>5
<1>9. /\ StartsIfLast(Len(sig.job)) \in Nat /\ StartsIfNot(Len(sig.job)) \in Nat
  BY Zenon, SleepsNow
<1>10. ~hist'.unbuilt /\ Sleeping' => n'.sent + StartsIfLast(Len(sig'.job)) + Asked' <= n'.sleeps
  BY Zenon, <1>1, <1>3, <1>7, <1>8, <1>9
<1>11. ~hist'.unbuilt /\ ~Sleeping' => n'.sent + StartsIfNot(Len(sig'.job)) + Asked' <= n'.sleeps
  BY Zenon, <1>1, <1>3, <1>7, <1>8, <1>9
<1>12. os' # "windows"
  BY Zenon, <1>1, <1>3
<1> QED
  BY Zenon, <1>6, <1>10, <1>11, <1>12, SleepsThen

LEMMA SleepsNext ==
  ASSUME TypeOK, Sleeps, [Next]_vars
  PROVE  Sleeps'
  BY ElsewhereSleeps, SleepBeginsSleeps, WakesUpSleeps, TakeJobSleeps, JobAnswerSleeps
     DEF Next, Listeners, Core, Elsewhere

LEMMA SleepsInit == Init => Sleeps
<1> SUFFICES ASSUME Init
             PROVE  Sleeps
  OBVIOUS
<1>1. sig.job = <<>> /\ jobs = Idle /\ n.sent = 0 /\ n.sleeps = 0 /\ ~Sleeping
  BY Names DEF Init, Sleeping
<1>2. jobs \notin Jobs /\ Asked = 0
  BY ONLY <1>1, JobTypes DEF Asked
<1>3. StartsIfNot(Len(sig.job)) = 0
  <2>1. Len(sig.job) = 0
    BY ONLY <1>1
  <2> QED
    BY ONLY <2>1 DEF StartsIfNot
<1>4. Turns(sig.job, Sleeping)
  BY <1>1 DEF Turns
<1> QED
  BY ONLY <1>1, <1>2, <1>3, <1>4 DEF Sleeps

-----------------------------------------------------------------------------
(* The invariant, and what follows from it.                                *)

LEMMA IInvInit == Init => IInv
<1>1. Init => Bits
  <2> SUFFICES ASSUME Init
               PROVE  Bits
    OBVIOUS
  <2>1. ~hist.raced /\ ~hist.bit /\ hist.bit = FALSE /\ core # "port"
    BY Names DEF Init
  <2>2. port.other = FALSE
    <3>1. port = Dark \/ port = [Dark EXCEPT !.white = TRUE]
      BY DEF Init
    <3> QED
      BY ONLY <3>1 DEF Dark
  <2> QED
    BY ONLY <2>1, <2>2 DEF Bits
<1> QED
  BY <1>1, TypeInit, LitInit, RingInit, SleepsInit DEF IInv

LEMMA IInvNext == IInv /\ [Next]_vars => IInv'
  BY TypeNext, BitsNext, LitNext, RingNext, SleepsNext DEF IInv

LEMMA IInvHolds == Spec => []IInv
  BY IInvInit, IInvNext, PTL DEF Spec

(* Lighting an LED loses no other bit of the port, unless the firmware     *)
(* changes one between the two batches (PowerEvents!PortKeepsItsBits).     *)
THEOREM BitsAreKept == Spec => []PortKeepsItsBits
<1>1. IInv => PortKeepsItsBits
  BY Zenon DEF IInv, Bits, PortKeepsItsBits
<1> QED
  BY <1>1, IInvHolds, PTL

(* Once all is said the indicator tells of the charger as it is now        *)
(* (PowerEvents!IndicatorTells).                                           *)
THEOREM IndicatorIsRight == Spec => []IndicatorTells
<1>1. IInv => IndicatorTells
  <2> SUFFICES ASSUME IInv, Quiet, ~hist.unlit
               PROVE  ~(port.orange /\ port.white) /\ (port.orange \/ port.white) = plugged
    BY DEF IndicatorTells
  <2>1. port.orange \in BOOLEAN /\ port.white \in BOOLEAN /\ plugged \in BOOLEAN
    <3>1. port \in Lamps /\ plugged \in BOOLEAN
      BY Zenon, Typed DEF IInv
    <3> QED
      BY ONLY <3>1 DEF Lamps
  <2>2. core = "wait" /\ sig.charger = 0 /\ queue = <<>>
    BY DEF Quiet
  <2>3. ~LastIn(queue, plugged)
    BY ONLY <2>2 DEF LastIn
  <2>4. Shows(plugged)
    BY <2>2, <2>3 DEF IInv, Lit
  <2>5. LitAs(port, plugged)
    BY ONLY <2>2, <2>4 DEF Shows
  <2> QED
    BY ONLY <2>1, <2>5 DEF LitAs
<1> QED
  BY <1>1, IInvHolds, PTL

(* Once a machine is back from its sleep and all is said, the ring shows   *)
(* the user's mode again (PowerEvents!RingComesBack).                      *)
THEOREM RingIsRestored == Spec => []RingComesBack
<1>1. IInv => RingComesBack
  <2> SUFFICES ASSUME IInv, Quiet, power = "awake", ~hist.late, ~hist.stale, ~hist.unbuilt
               PROVE  ring = "user"
    BY DEF RingComesBack
  <2>1. sig.wake = 0 /\ queue = <<>>
    BY DEF Quiet
  <2>2. ~WakeIn(queue, 0)
    BY ONLY <2>1 DEF WakeIn
  <2>3. ~WakeDue
    BY <2>1 DEF WakeDue
  <2>4. Told
    BY DEF Told
  <2> QED
    BY <2>2, <2>3, <2>4 DEF IInv, Ring
<1> QED
  BY <1>1, IInvHolds, PTL

(* The machine sleeps no oftener in the daemon's eyes than it does         *)
(* (PowerEvents!NoPhantomSleep).                                           *)
THEOREM SleepsAreReal == Spec => []NoPhantomSleep
<1>1. IInv => NoPhantomSleep
  <2> SUFFICES ASSUME IInv, ~hist.unbuilt
               PROVE  ~(n.sent > n.sleeps)
    BY Zenon DEF NoPhantomSleep
  <2>1. TypeOK
    BY DEF IInv
  <2>2. /\ Sleeping => n.sent + StartsIfLast(Len(sig.job)) + Asked <= n.sleeps
        /\ ~Sleeping => n.sent + StartsIfNot(Len(sig.job)) + Asked <= n.sleeps
    BY Zenon DEF IInv, Sleeps
  <2>3. CASE Sleeping
    BY ONLY <2>1, <2>2, <2>3, SleepsNow
  <2>4. CASE ~Sleeping
    BY ONLY <2>1, <2>2, <2>4, SleepsNow
  <2> QED
    BY ONLY <2>3, <2>4
<1> QED
  BY <1>1, IInvHolds, PTL

=============================================================================
