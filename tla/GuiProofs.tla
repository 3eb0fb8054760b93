------------------------------- MODULE GuiProofs -------------------------------
(***************************************************************************)
(* Proofs about the GUI: that no wake-up is lost between the poller's      *)
(* check of a flag and its wait; that the comparison of versions is an     *)
(* order, and the one of their numbers; and that the date which is         *)
(* computed for the name of today's log is that of the calendar, for every *)
(* day.  Induction over the days and years is by the least counterexample. *)
(***************************************************************************)
EXTENDS Gui, FiniteSetTheorems, WellFoundedInduction, TLAPS

(* The poller is paused while the window is hidden.                        *)
(* A wake-up that is outstanding is meant for a window that is shown, and  *)
(* its permit can only be gone where the poller is about to act upon it.   *)
Outstanding ==
  /\ paused <=> ~visible
  /\ ui = "notify" \/ asked => ~paused
  /\ asked /\ pc \notin {"top", "check"} => permit

IInv == TypeOK /\ Outstanding

-----------------------------------------------------------------------------
USE DEF TypeOK, Labels, Waits, Outstanding, vars, gui, daemon

LEMMA InitInv == Init => IInv
  BY DEF Init, IInv

LEMMA RunInv == ASSUME IInv, Run PROVE IInv'
  <1>1. CASE TryConnect BY <1>1 DEF TryConnect, IInv
  <1>2. CASE Connected BY <1>2 DEF Connected, IInv
  <1>3. CASE ConnectFails BY <1>3 DEF ConnectFails, IInv
  <1>4. CASE WaitEnds BY <1>4 DEF WaitEnds, IInv
  <1>5. CASE Park BY <1>5 DEF Park, IInv
  <1>6. CASE Fetch BY <1>6 DEF Fetch, IInv
  <1>7. CASE Sample BY <1>7 DEF Sample, IInv
  <1>8. CASE PollFails BY <1>8 DEF PollFails, IInv
  <1>. QED BY <1>1, <1>2, <1>3, <1>4, <1>5, <1>6, <1>7, <1>8 DEF Run

LEMMA StepInv == IInv /\ [Next]_vars => IInv'
  <1> SUFFICES ASSUME IInv, [Next]_vars PROVE IInv'
    OBVIOUS
  <1>1. CASE Run BY <1>1, RunInv
  <1>2. CASE Close BY <1>2 DEF Close, IInv
  <1>3. CASE Show BY <1>3 DEF Show, IInv
  <1>4. CASE Notify BY <1>4 DEF Notify, IInv
  <1>5. CASE Poke
    <2>1. ~paused
      BY <1>5 DEF Poke, IInv
    <2>. QED BY <1>5, <2>1 DEF Poke, IInv
  <1>6. CASE DaemonStops BY <1>6 DEF DaemonStops, IInv
  <1>7. CASE DaemonStarts BY <1>7 DEF DaemonStarts, IInv
  <1>8. CASE EcChanges BY <1>8 DEF EcChanges, IInv
  <1>9. CASE UNCHANGED vars BY <1>9 DEF IInv
  <1>. QED BY <1>1, <1>2, <1>3, <1>4, <1>5, <1>6, <1>7, <1>8, <1>9 DEF Next

LEMMA InvHolds == Spec => []IInv
  BY InitInv, StepInv, PTL DEF Spec

HIDE DEF TypeOK, Labels, Waits, Outstanding, vars, gui, daemon

-----------------------------------------------------------------------------
(* Every variable has its type, and the status that is shown is that of    *)
(* where the poller is (poller.rs:29-88).                                  *)
THEOREM TypeCorrect == Spec => []TypeOK
  <1>1. IInv => TypeOK BY DEF IInv
  <1>. QED BY <1>1, InvHolds, PTL

(* No wake-up is lost: one that is outstanding finds its permit, whatever  *)
(* the order of the window's two steps and the poller's (tray.rs:96-102,   *)
(* poller.rs:56-85).                                                       *)
THEOREM NoWakeUpIsLost == Spec => []NoLostWakeUp
  <1>1. IInv => NoLostWakeUp BY DEF IInv, Outstanding, NoLostWakeUp, Waits
  <1>. QED BY <1>1, InvHolds, PTL

(* What the commands do beside the poller leaves it alone: every behaviour *)
(* of the GUI is one of its poller, with all that is shown of that         *)
(* (tauri_cmds.rs, poller.rs:29-88).                                       *)
THEOREM GuiRunsThePoller == GuiSpec => Spec
  <1>1. GuiInit => Init
    BY DEF GuiInit
  <1>2. ASSUME [GuiNext]_guiVars PROVE [Next]_vars
    BY <1>2 DEF GuiNext, guiVars, Desk, CheckForUpdates, GetDiagnosticsBundle, Dismiss, Logs, Midnight
  <1>. QED BY <1>1, <1>2, PTL DEF GuiSpec, Spec

(* So for the GUI as a whole, no wake-up is lost (tray.rs:96-102,          *)
(* poller.rs:56-85).                                                       *)
THEOREM NoWakeUpOfTheGuiIsLost == GuiSpec => [](TypeOK /\ NoLostWakeUp)
  BY GuiRunsThePoller, TypeCorrect, NoWakeUpIsLost, PTL

-----------------------------------------------------------------------------
(* Induction over the natural numbers, without a predicate as a parameter: *)
(* a set of them that has an element has a least one, as the sets of what  *)
(* is below each of them have a minimal one.                               *)
LEMMA LeastNumber ==
  ASSUME NEW S \in SUBSET Nat, S # {}
  PROVE  \E n \in S : \A k \in S : n <= k
  <1> DEFINE Down == [n \in Nat |-> {k \in Nat : k < n}]
             R == StrictSubsetOrdering(Nat)
             T == {Down[n] : n \in S}
  <1>1. IsWellFoundedOn(R, FiniteSubsetsOf(Nat))
    BY FS_StrictSubsetOrderingWellFounded
  <1>2. \A n \in Nat : Down[n] \in FiniteSubsetsOf(Nat)
    <2> TAKE n \in Nat
    <2>1. Down[n] = 0..(n - 1)
      OBVIOUS
    <2>2. IsFiniteSet(0..(n - 1))
      BY FS_Interval
    <2>3. IsFiniteSet(Down[n]) /\ Down[n] \in SUBSET Nat
      BY <2>1, <2>2
    <2> HIDE DEF Down
    <2>. QED BY <2>3 DEF FiniteSubsetsOf
  <1>3. T \subseteq FiniteSubsetsOf(Nat) /\ T # {}
    BY <1>2
  <1>4. PICK x \in T : \A y \in T : ~ (<<y, x>> \in R)
    <2> HIDE DEF T, R
    <2>. QED BY <1>1, <1>3, WFMin
  <1>5. PICK n \in S : x = Down[n]
    BY <1>4
  <1>6. ASSUME NEW k \in S, k < n PROVE FALSE
    <2>1. Down[k] \subseteq Down[n] /\ Down[k] # Down[n]
      <3>1. k \in Down[n] /\ k \notin Down[k]
        BY <1>6
      <3>2. Down[k] \subseteq Down[n]
        BY <1>6
      <3>. QED BY <3>1, <3>2
    <2>2. <<Down[k], Down[n]>> \in R
      BY <2>1, <1>6 DEF StrictSubsetOrdering
    <2>. QED BY <2>2, <1>4, <1>5
  <1>. QED BY <1>6

-----------------------------------------------------------------------------
(* The order of versions.                                                  *)
Version == [parts : Seq(Nat), pre : BOOLEAN]

LEMMA PartType ==
  ASSUME NEW a \in Version, NEW i \in Nat \ {0}
  PROVE  Part(a, i) \in Nat /\ (i > Len(a.parts) => Part(a, i) = 0)
  BY DEF Part, Version

LEMMA BeyondBoth ==
  ASSUME NEW a \in Version, NEW b \in Version
  PROVE  /\ Compared(a, b) \subseteq Nat \ {0}
         /\ \A i \in Nat \ {0} : i \notin Compared(a, b) => Part(a, i) = Part(b, i)
  <1>1. PICK k \in Nat, l \in Nat : k = Len(a.parts) /\ l = Len(b.parts)
    BY DEF Version
  <1>2. Compared(a, b) = 1..(IF k > l THEN k ELSE l)
    BY <1>1 DEF Compared
  <1>3. Compared(a, b) \subseteq Nat \ {0}
    BY <1>2
  <1>4. ASSUME NEW i \in Nat \ {0}, i \notin Compared(a, b)
        PROVE  Part(a, i) = Part(b, i)
    <2>1. i > k /\ i > l
      BY <1>2, <1>4
    <2>2. Part(a, i) = 0 /\ Part(b, i) = 0
      BY <2>1, <1>1 DEF Part
    <2>. QED BY <2>2
  <1>. QED BY <1>3, <1>4

LEMMA DifferType ==
  ASSUME NEW a \in Version, NEW b \in Version
  PROVE  /\ Differ(a, b) \subseteq Nat \ {0}
         /\ Differ(a, b) = {i \in Nat \ {0} : Part(a, i) # Part(b, i)}
         /\ Differ(a, b) = Differ(b, a)
  <1>1. Differ(a, b) = {i \in Nat \ {0} : Part(a, i) # Part(b, i)}
    BY BeyondBoth DEF Differ
  <1>2. Differ(b, a) = {i \in Nat \ {0} : Part(b, i) # Part(a, i)}
    BY BeyondBoth DEF Differ
  <1>. QED BY <1>1, <1>2

(* The same order, with the first difference named.                        *)
Above(a, b, i) ==
  /\ \A j \in Nat \ {0} : j < i => Part(a, j) = Part(b, j)
  /\ Part(a, i) > Part(b, i)
Same(a, b) == \A i \in Nat \ {0} : Part(a, i) = Part(b, i)

LEMMA NewerIff ==
  ASSUME NEW a \in Version, NEW b \in Version
  PROVE  IsNewer(a, b) <=> \/ \E i \in Nat \ {0} : Above(a, b, i)
                           \/ Same(a, b) /\ ~a.pre /\ b.pre
  <1>1. Same(a, b) <=> Differ(a, b) = {}
    BY DifferType DEF Same
  <1>2. ASSUME NEW i \in Differ(a, b), \A j \in Differ(a, b) : i <= j, Part(a, i) > Part(b, i)
        PROVE  Above(a, b, i)
    BY <1>2, DifferType DEF Above
  <1>3. ASSUME NEW i \in Nat \ {0}, Above(a, b, i)
        PROVE  i \in Differ(a, b) /\ \A j \in Differ(a, b) : i <= j
    BY <1>3, DifferType, PartType DEF Above
  <1>4. Differ(a, b) \subseteq Nat \ {0} BY DifferType
  <1>5. \A i \in Differ(a, b) : Above(a, b, i) => Part(a, i) > Part(b, i) BY DEF Above
  <1>. QED BY <1>1, <1>2, <1>3, <1>4, <1>5 DEF IsNewer

LEMMA Decided ==
  ASSUME NEW a \in Version, NEW b \in Version
  PROVE  \/ Same(a, b)
         \/ \E i \in Nat \ {0} : Above(a, b, i) \/ Above(b, a, i)
  <1> SUFFICES ASSUME ~Same(a, b)
               PROVE  \E i \in Nat \ {0} : Above(a, b, i) \/ Above(b, a, i)
    OBVIOUS
  <1>1. Differ(a, b) \in SUBSET Nat /\ Differ(a, b) # {}
    BY DifferType DEF Same
  <1>2. PICK i \in Differ(a, b) : \A k \in Differ(a, b) : i <= k
    BY <1>1, LeastNumber
  <1>3. i \in Nat \ {0} /\ Part(a, i) # Part(b, i)
    BY DifferType
  <1>4. \A j \in Nat \ {0} : j < i => Part(a, j) = Part(b, j)
    BY <1>2, <1>3, DifferType
  <1>5. Part(a, i) \in Nat /\ Part(b, i) \in Nat
    BY <1>3, PartType
  <1>. QED BY <1>3, <1>4, <1>5 DEF Above

(* compare_version is an order for versions of any numbers and lengths: no *)
(* version is newer than itself, a newer one than a newer one is newer,    *)
(* and of two versions one is newer unless they agree in every part, one   *)
(* that is missing being 0, and in having a suffix (updates.rs:76-111).    *)
THEOREM NewerIsAnOrder ==
  ASSUME NEW a \in Version, NEW b \in Version, NEW c \in Version
  PROVE  /\ ~IsNewer(a, a)
         /\ IsNewer(a, b) /\ IsNewer(b, c) => IsNewer(a, c)
         /\ IsNewer(a, b) \/ IsNewer(b, a) \/ (Same(a, b) /\ a.pre = b.pre)
  <1>0. a.pre \in BOOLEAN /\ b.pre \in BOOLEAN /\ c.pre \in BOOLEAN BY DEF Version
  <1>1. ~IsNewer(a, a)
    BY NewerIff, PartType DEF Above
  <1>2. ASSUME NEW i \in Nat \ {0}, NEW j \in Nat \ {0}, Above(a, b, i), Above(b, c, j)
        PROVE  \E k \in Nat \ {0} : Above(a, c, k)
    <2>1. CASE i <= j
      <3>0. Part(b, i) = Part(c, i) \/ Part(b, i) > Part(c, i)
         BY <1>2, <2>1 DEF Above
      <3>1. Part(a, i) > Part(c, i)
         <4>1. Part(a, i) \in Nat /\ Part(b, i) \in Nat /\ Part(c, i) \in Nat
           BY PartType
         <4>2. Part(a, i) > Part(b, i)
           BY <1>2 DEF Above
         <4>. QED BY ONLY <3>0, <4>1, <4>2
      <3>2. \A k \in Nat \ {0} : k < i => Part(a, k) = Part(c, k)
         BY <1>2, <2>1 DEF Above
      <3>3. Above(a, c, i)
         BY <3>1, <3>2 DEF Above
      <3>. QED BY <3>3
    <2>2. CASE j < i
      <3>1. Above(a, c, j)
         BY <1>2, <2>2, PartType DEF Above
      <3>. QED BY <3>1
    <2>. QED BY <2>1, <2>2
  <1>3. ASSUME NEW i \in Nat \ {0}, Above(a, b, i), Same(b, c)
        PROVE  Above(a, c, i)
    BY <1>3 DEF Above, Same
  <1>4. ASSUME NEW i \in Nat \ {0}, Same(a, b), Above(b, c, i)
        PROVE  Above(a, c, i)
    BY <1>4 DEF Above, Same
  <1>5. Same(a, b) /\ Same(b, c) => Same(a, c)
    BY DEF Same
  <1>6. IsNewer(a, b) /\ IsNewer(b, c) => IsNewer(a, c)
    BY <1>2, <1>3, <1>4, <1>5, NewerIff
  <1>7. Same(a, b) => Same(b, a)
    BY DEF Same
  <1>8. IsNewer(a, b) \/ IsNewer(b, a) \/ (Same(a, b) /\ a.pre = b.pre)
    BY <1>0, <1>7, Decided, NewerIff
  <1>. QED BY <1>1, <1>6, <1>8

(* What Rank takes: three parts at most, of two digits.                    *)
Ranked(v) ==
  Len(v.parts) <= 3 /\ \A i \in 1..Len(v.parts) : v.parts[i] < 100

LEMMA RankedPart ==
  ASSUME NEW a \in Version, Ranked(a)
  PROVE  /\ \A i \in 1..3 : Part(a, i) \in 0..99
         /\ \A i \in Nat \ {0} : i > 3 => Part(a, i) = 0
  <1>1. Len(a.parts) \in Nat /\ \A i \in 1..Len(a.parts) : a.parts[i] \in Nat
    BY DEF Version
  <1>2. \A i \in 1..Len(a.parts) : a.parts[i] \in 0..99
    <2> TAKE i \in 1..Len(a.parts)
    <2>1. PICK k \in Nat : k = a.parts[i]
      BY <1>1
    <2>2. k < 100
      BY <2>1 DEF Ranked
    <2>3. k \in 0..99
      BY ONLY <2>2, k \in Nat
    <2>. QED BY <2>1, <2>3
  <1>3. Len(a.parts) <= 3
    BY DEF Ranked
  <1>. QED BY <1>1, <1>2, <1>3 DEF Part

(* Three numbers to the base of 100 are ordered as their value is.         *)
Number(v) == 10000 * Part(v, 1) + 100 * Part(v, 2) + Part(v, 3)

LEMMA NumberIsOrdered ==
  ASSUME NEW v, NEW w,
         \A i \in 1..3 : Part(v, i) \in 0..99 /\ Part(w, i) \in 0..99
  PROVE  /\ Number(v) \in Nat
         /\ \/ Part(v, 1) > Part(w, 1)
            \/ Part(v, 1) = Part(w, 1) /\ Part(v, 2) > Part(w, 2)
            \/ Part(v, 1) = Part(w, 1) /\ Part(v, 2) = Part(w, 2) /\ Part(v, 3) > Part(w, 3)
            => Number(v) > Number(w)
  <1>0. 1 \in 1..3 /\ 2 \in 1..3 /\ 3 \in 1..3
    OBVIOUS
  <1>1. PICK x1 \in 0..99 : x1 = Part(v, 1) BY <1>0
  <1>2. PICK x2 \in 0..99 : x2 = Part(v, 2) BY <1>0
  <1>3. PICK x3 \in 0..99 : x3 = Part(v, 3) BY <1>0
  <1>4. PICK y1 \in 0..99 : y1 = Part(w, 1) BY <1>0
  <1>5. PICK y2 \in 0..99 : y2 = Part(w, 2) BY <1>0
  <1>6. PICK y3 \in 0..99 : y3 = Part(w, 3) BY <1>0
  <1>7. Number(v) = 10000 * x1 + 100 * x2 + x3
    BY <1>1, <1>2, <1>3 DEF Number
  <1>8. Number(w) = 10000 * y1 + 100 * y2 + y3
    BY <1>4, <1>5, <1>6 DEF Number
  <1>9. 10000 * x1 + 100 * x2 + x3 \in Nat
    BY ONLY x1 \in 0..99, x2 \in 0..99, x3 \in 0..99
  <1>10. ASSUME x1 > y1 \/ (x1 = y1 /\ x2 > y2) \/ (x1 = y1 /\ x2 = y2 /\ x3 > y3)
         PROVE  Number(v) > Number(w)
    <2>1. 10000 * x1 + 100 * x2 + x3 > 10000 * y1 + 100 * y2 + y3
      BY ONLY <1>10, x1 \in 0..99, x2 \in 0..99, x3 \in 0..99,
              y1 \in 0..99, y2 \in 0..99, y3 \in 0..99
    <2>. QED BY <2>1, <1>7, <1>8
  <1>. QED BY <1>1, <1>2, <1>3, <1>4, <1>5, <1>6, <1>7, <1>9, <1>10

LEMMA RankIsTheOrder ==
  ASSUME NEW a \in Version, NEW b \in Version, Ranked(a), Ranked(b)
  PROVE  IsNewer(a, b) <=> Rank(a) > Rank(b)
  <1>0. a.pre \in BOOLEAN /\ b.pre \in BOOLEAN BY DEF Version
  <1>1. \A k \in 1..3 : Part(a, k) \in 0..99 /\ Part(b, k) \in 0..99
    BY RankedPart
  <1>2. ASSUME NEW v \in Version, NEW w \in Version, Ranked(v), Ranked(w),
               NEW i \in Nat \ {0}, Above(v, w, i)
        PROVE  Number(v) > Number(w)
    <2>1. \A k \in 1..3 : Part(v, k) \in 0..99 /\ Part(w, k) \in 0..99
      BY <1>2, RankedPart
    <2>2. i \in 1..3
      BY <1>2, RankedPart DEF Above
    <2>3. CASE i = 1
      BY <2>1, <2>3, <1>2, NumberIsOrdered DEF Above
    <2>4. CASE i = 2
      <3>1. Part(v, 1) = Part(w, 1) BY <2>4, <1>2 DEF Above
      <3>2. Part(v, 2) > Part(w, 2) BY <2>4, <1>2 DEF Above
      <3>. QED BY <3>1, <3>2, <2>1, NumberIsOrdered
    <2>5. CASE i = 3
      <3>1. Part(v, 1) = Part(w, 1) BY <2>5, <1>2 DEF Above
      <3>2. Part(v, 2) = Part(w, 2) BY <2>5, <1>2 DEF Above
      <3>3. Part(v, 3) > Part(w, 3) BY <2>5, <1>2 DEF Above
      <3>. QED BY <3>1, <3>2, <3>3, <2>1, NumberIsOrdered
    <2>. QED BY <2>2, <2>3, <2>4, <2>5
  <1>3. Same(a, b) => Number(a) = Number(b)
    BY DEF Same, Number
  <1>4. Number(a) \in Nat /\ Number(b) \in Nat
    BY <1>1, NumberIsOrdered
  <1>5. /\ Rank(a) = 2 * Number(a) + (IF a.pre THEN 0 ELSE 1)
        /\ Rank(b) = 2 * Number(b) + (IF b.pre THEN 0 ELSE 1)
    BY DEF Rank, Number
  <1>6. CASE Same(a, b)
    <2>1. ~\E i \in Nat \ {0} : Above(a, b, i)
      BY <1>2, <1>3, <1>4, <1>6
    <2>2. IsNewer(a, b) <=> ~a.pre /\ b.pre
      BY <2>1, <1>6, NewerIff
    <2>3. Rank(a) > Rank(b) <=> ~a.pre /\ b.pre
      <3>1. CASE a.pre /\ b.pre BY ONLY <3>1, <1>3, <1>4, <1>5, <1>6
      <3>2. CASE a.pre /\ ~b.pre BY ONLY <3>2, <1>3, <1>4, <1>5, <1>6
      <3>3. CASE ~a.pre /\ b.pre BY ONLY <3>3, <1>3, <1>4, <1>5, <1>6
      <3>4. CASE ~a.pre /\ ~b.pre BY ONLY <3>4, <1>3, <1>4, <1>5, <1>6
      <3>. QED BY <3>1, <3>2, <3>3, <3>4, <1>0
    <2>. QED BY <2>2, <2>3
  <1>7. ASSUME NEW i \in Nat \ {0}, Above(a, b, i) PROVE IsNewer(a, b) /\ Rank(a) > Rank(b)
    <2>1. Number(a) > Number(b) BY <1>2, <1>7
    <2>2. Rank(a) > Rank(b) BY ONLY <2>1, <1>4, <1>5
    <2>. QED BY <2>2, <1>7, NewerIff
  <1>8. ASSUME NEW i \in Nat \ {0}, Above(b, a, i) PROVE ~IsNewer(a, b) /\ ~(Rank(a) > Rank(b))
    <2>1. Number(b) > Number(a) BY <1>2, <1>8
    <2>2. ~(Rank(a) > Rank(b)) BY ONLY <2>1, <1>4, <1>5
    <2>3. ~Same(a, b)  BY <1>3, <1>4, <2>1
    <2>4. ~\E j \in Nat \ {0} : Above(a, b, j)
      BY <1>2, <1>4, <2>1
    <2>. QED BY <2>2, <2>3, <2>4, NewerIff
  <1>. QED BY <1>6, <1>7, <1>8, Decided

-----------------------------------------------------------------------------
(* The calendar: how many leap years there were, and when a year starts.   *)
Leaps(y) == {k \in 1970..(y - 1) : Leap(k)}
LeapsClosed(y) == (y - 1) \div 4 - (y - 1) \div 100 + (y - 1) \div 400 - 477

LEMMA OneMoreYear ==
  ASSUME NEW y \in Nat
  PROVE  LeapsClosed(y + 1) = LeapsClosed(y) + (IF Leap(y) THEN 1 ELSE 0)
  <1>1. y \div 4 = (y - 1) \div 4 + (IF y % 4 = 0 THEN 1 ELSE 0)
    OBVIOUS
  <1>2. y \div 100 = (y - 1) \div 100 + (IF y % 100 = 0 THEN 1 ELSE 0)
    OBVIOUS
  <1>3. y \div 400 = (y - 1) \div 400 + (IF y % 400 = 0 THEN 1 ELSE 0)
    OBVIOUS
  <1>4. (y % 400 = 0 => y % 100 = 0) /\ (y % 100 = 0 => y % 4 = 0)
    OBVIOUS
  <1>5. y + 1 - 1 = y
    OBVIOUS
  <1>6. PICK a \in Int, b \in Int, c \in Int : a = (y - 1) \div 4 /\ b = (y - 1) \div 100 /\ c = (y - 1) \div 400
    OBVIOUS
  <1>. QED BY <1>1, <1>2, <1>3, <1>4, <1>5, <1>6 DEF LeapsClosed, Leap

LEMMA LeapsCounted ==
  ASSUME NEW y \in Nat, y >= 1970
  PROVE  IsFiniteSet(Leaps(y)) /\ Cardinality(Leaps(y)) = LeapsClosed(y)
  <1> DEFINE Right(n) == IsFiniteSet(Leaps(n)) /\ Cardinality(Leaps(n)) = LeapsClosed(n)
             Wrong == {n \in Nat : n >= 1970 /\ ~Right(n)}
  <1>1. SUFFICES ASSUME Wrong # {} PROVE FALSE
    OBVIOUS
  <1>2. PICK n \in Wrong : \A k \in Wrong : n <= k
    <2>1. Wrong \in SUBSET Nat
      OBVIOUS
    <2> HIDE DEF Wrong
    <2>. QED BY <1>1, <2>1, LeastNumber
  <1>3. n \in Nat /\ n >= 1970 /\ ~Right(n)
    OBVIOUS
  <1>4. CASE n = 1970
    <2>1. Leaps(n) = {}
      BY <1>4 DEF Leaps
    <2>2. LeapsClosed(n) = 0
      BY <1>4 DEF LeapsClosed
    <2>. QED BY <2>1, <2>2, <1>3, FS_EmptySet
  <1>5. CASE n > 1970
    <2>1. PICK m \in Nat : n = m + 1 /\ m >= 1970
      BY <1>3, <1>5
    <2>2. Right(m)
      <3>1. m \notin Wrong BY <2>1, <1>2
      <3>. QED BY <3>1, <2>1
    <2>3. Leaps(n) = IF Leap(m) THEN Leaps(m) \cup {m} ELSE Leaps(m)
      <3>1. 1970..(n - 1) = 1970..(m - 1) \cup {m}
        BY <2>1
      <3>. QED BY <3>1 DEF Leaps
    <2>4. m \notin Leaps(m)
      BY <2>1 DEF Leaps
    <2>5. LeapsClosed(n) = LeapsClosed(m) + (IF Leap(m) THEN 1 ELSE 0)
      BY <2>1, OneMoreYear
    <2>6. IsFiniteSet(Leaps(m) \cup {m}) /\ Cardinality(Leaps(m) \cup {m}) = Cardinality(Leaps(m)) + 1
      BY <2>2, <2>4, FS_AddElement
    <2>7. LeapsClosed(m) \in Int
      BY DEF LeapsClosed
    <2>8. Right(n)
      BY <2>2, <2>3, <2>5, <2>6, <2>7
    <2>. QED BY <2>8, <1>3
  <1>. QED BY <1>3, <1>4, <1>5

LEMMA YearStartIs ==
  ASSUME NEW y \in Nat, y >= 1970
  PROVE  /\ YearStart(y) = 365 * (y - 1970) + LeapsClosed(y)
         /\ YearStart(y) \in Int
         /\ YearStart(y + 1) = YearStart(y) + 365 + (IF Leap(y) THEN 1 ELSE 0)
  <1>1. ASSUME NEW n \in Nat, n >= 1970
        PROVE  YearStart(n) = 365 * (n - 1970) + LeapsClosed(n)
    <2>1. YearStart(n) = 365 * (n - 1970) + Cardinality(Leaps(n))
      BY DEF YearStart, Leaps
    <2>. QED BY <2>1, <1>1, LeapsCounted
  <1>2. LeapsClosed(y) \in Int /\ LeapsClosed(y + 1) \in Int
    BY DEF LeapsClosed
  <1>3. YearStart(y + 1) = 365 * (y + 1 - 1970) + LeapsClosed(y + 1)
    BY <1>1
  <1>. QED BY <1>1, <1>2, <1>3, OneMoreYear

LEMMA YearStartGrows ==
  ASSUME NEW y \in Nat, NEW z \in Nat, 1970 <= y, y < z
  PROVE  YearStart(y + 1) <= YearStart(z)
  <1>1. YearStart(y + 1) = 365 * (y + 1 - 1970) + LeapsClosed(y + 1)
    BY YearStartIs
  <1>2. YearStart(z) = 365 * (z - 1970) + LeapsClosed(z)
    BY YearStartIs
  <1>3. PICK a \in Int, b \in Int : a = y + 1 /\ b = z /\ a <= b
    OBVIOUS
  <1>4. a <= b
    BY <1>3
  <1>5. 365 * (a - 1970) + LeapsClosed(a) <= 365 * (b - 1970) + LeapsClosed(b)
    BY ONLY a \in Int, b \in Int, <1>4 DEF LeapsClosed
  <1>. QED BY <1>1, <1>2, <1>3, <1>5

(* A day of an era is a day s of its four years, which are the q-th of     *)
(* their century c, in the k-th of these years.                            *)
DayOfEra(doe, c, q, k, s) ==
  /\ c \in 0..3 /\ q \in 0..24 /\ k \in 0..3
  /\ s \in Nat /\ s <= 1460
  /\ doe = 36524 * c + 1461 * q + s
  /\ 365 * k <= s /\ (s < 365 * k + 365 \/ k = 3)
  /\ s = 1460 /\ q = 24 => c = 3

LEMMA DayOfEraExists ==
  ASSUME NEW doe \in Nat, doe <= 146096
  PROVE  \E c, q, k, s : DayOfEra(doe, c, q, k, s)
  <1>1. PICK c \in 0..3 : c = IF doe = 146096 THEN 3 ELSE doe \div 36524
    <2>1. (IF doe = 146096 THEN 3 ELSE doe \div 36524) \in 0..3
      BY SMT
    <2>. QED BY <2>1
  <1>2. PICK r \in Nat : r = doe - 36524 * c
    <2>1. doe - 36524 * c \in Nat
      BY <1>1
    <2>. QED BY <2>1
  <1>3. r <= 36524 /\ (r = 36524 => c = 3)
    BY <1>1, <1>2
  <1>4. PICK q \in Nat : q = r \div 1461
    <2>1. r \div 1461 \in Nat
      BY SMT
    <2>. QED BY <2>1
  <1>4a. PICK s \in Nat : s = r % 1461
    <2>1. r % 1461 \in Nat
      BY SMT
    <2>. QED BY <2>1
  <1>4b. r = 1461 * q + s /\ s <= 1460
    BY <1>4, <1>4a, SMT
  <1>5. q \in 0..24
    BY <1>3, <1>4b, SMT
  <1>6. PICK k \in 0..3 : k = IF s = 1460 THEN 3 ELSE s \div 365
    <2>1. (IF s = 1460 THEN 3 ELSE s \div 365) \in 0..3
      BY <1>4b, SMT
    <2>. QED BY <2>1
  <1>7. 365 * k <= s /\ (s < 365 * k + 365 \/ k = 3)
    BY <1>4b, <1>6, SMT
  <1>8. doe = 36524 * c + 1461 * q + s
    BY <1>2, <1>4b, SMT
  <1>9. s = 1460 /\ q = 24 => c = 3
    BY <1>3, <1>4b, SMT
  <1>10. DayOfEra(doe, c, q, k, s)
    BY <1>4b, <1>5, <1>7, <1>8, <1>9, SMT DEF DayOfEra
  <1>. QED BY <1>10, SMT

LEMMA YearOfEra ==
  ASSUME NEW doe \in Int, NEW c, NEW q, NEW k, NEW s, DayOfEra(doe, c, q, k, s)
  PROVE  (doe - doe \div 1460 + doe \div 36524 - doe \div 146096) \div 365 = 100 * c + 4 * q + k
  <1> /\ c \in 0..3 /\ q \in 0..24 /\ k \in 0..3
      /\ s \in Nat /\ s <= 1460
      /\ doe = 36524 * c + 1461 * q + s
      /\ 365 * k <= s /\ (s < 365 * k + 365 \/ k = 3)
      /\ s = 1460 /\ q = 24 => c = 3
    BY DEF DayOfEra
  <1>1. PICK e \in 0..1 : e = IF 24 * c + q + s >= 1460 THEN 1 ELSE 0
    OBVIOUS
  <1>2. PICK f \in 0..1 : f = IF doe = 146096 THEN 1 ELSE 0
    OBVIOUS
  <1>3. doe \div 1460 = 25 * c + q + e
    <2>1. doe = 1460 * (25 * c + q + e) + (24 * c + q + s - 1460 * e)
      OBVIOUS
    <2>2. 24 * c + q + s - 1460 * e \in 0..1459
      <3>1. PICK t \in Int : t = 24 * c + q + s /\ 0 <= t /\ t <= 1556
        OBVIOUS
      <3>2. e = IF t >= 1460 THEN 1 ELSE 0
        BY <1>1, <3>1
      <3>3. 0 <= t - 1460 * e /\ t - 1460 * e <= 1459
        BY ONLY <3>1, <3>2, SMT
      <3>. QED BY <3>1, <3>3, SMT
    <2>. QED BY ONLY <2>1, <2>2, doe \in Int, c \in Int, q \in Int, s \in Int, e \in Int
  <1>4. doe \div 36524 = c + f
    BY <1>2
  <1>5. doe \div 146096 = f
    BY <1>2
  <1>6. doe - doe \div 1460 + doe \div 36524 - doe \div 146096 = doe - (25 * c + q + e) + (c + f) - f
    BY <1>3, <1>4, <1>5
  <1>7. doe - (25 * c + q + e) + (c + f) - f = 365 * (100 * c + 4 * q + k) + (s - 365 * k - e)
    BY ONLY doe = 36524 * c + 1461 * q + s, c \in Int, q \in Int, k \in Int, s \in Int, e \in Int, f \in Int
  <1>8. s - 365 * k - e \in 0..364
    <2>1. CASE e = 0
      <3>1. s < 1460 BY <2>1, <1>1
      <3>. QED BY <2>1, <3>1
    <2>2. CASE e = 1
      <3>1. s >= 1364 BY <2>2, <1>1
      <3>. QED BY <2>2, <3>1
    <2>. QED BY <2>1, <2>2
  <1>9. PICK t \in 0..364 : t = s - 365 * k - e
    BY <1>8
  <1>10. doe - doe \div 1460 + doe \div 36524 - doe \div 146096 = 365 * (100 * c + 4 * q + k) + t
    BY <1>6, <1>7, <1>9
  <1>11. PICK y \in Int : y = 100 * c + 4 * q + k
    OBVIOUS
  <1>12. (365 * y + t) \div 365 = y
    BY ONLY y \in Int, t \in 0..364
  <1>. QED BY <1>10, <1>11, <1>12

(* CivilFromDays with its year Y, which starts in March, and its day d.    *)
March(n, Y, d) ==
  /\ Y \in Nat /\ d \in Nat
  /\ Y >= 1969 /\ d <= 365
  /\ n + 306 = YearStart(Y + 1) + d
  /\ d = 365 => Leap(Y + 1)
  /\ CivilFromDays(n) =
       LET mp == (5 * d + 2) \div 153
           m  == IF mp < 10 THEN mp + 3 ELSE mp - 9
       IN <<Y + (IF m <= 2 THEN 1 ELSE 0), m, d - (153 * mp + 2) \div 5 + 1>>

LEMMA MarchYear == ASSUME NEW n \in Nat PROVE \E Y, d : March(n, Y, d)
<1>1. PICK era \in Nat : era = (n + 719468) \div 146097
    <2>1. (n + 719468) \div 146097 \in Nat
      BY SMT
    <2>. QED BY <2>1, SMT
  <1>2. PICK doe \in Nat : doe = (n + 719468) % 146097
    <2>1. (n + 719468) % 146097 \in Nat
      BY SMT
    <2>. QED BY <2>1, SMT
  <1>3. n + 719468 = 146097 * era + doe /\ doe <= 146096
    BY <1>1, <1>2, SMT
  <1>4. PICK c, q, k, s : DayOfEra(doe, c, q, k, s)
    BY <1>3, DayOfEraExists, SMT
  <1>5. /\ c \in 0..3 /\ q \in 0..24 /\ k \in 0..3 /\ s \in Nat
        /\ doe = 36524 * c + 1461 * q + s /\ s <= 1460
        /\ 365 * k <= s /\ (s < 365 * k + 365 \/ k = 3)
        /\ s = 1460 /\ q = 24 => c = 3
    BY <1>4, SMT DEF DayOfEra
  <1>6. PICK yoe \in Nat : yoe = 100 * c + 4 * q + k
    <2>1. 100 * c + 4 * q + k \in Nat BY <1>5, SMT
    <2>. QED BY <2>1, SMT
  <1>7. (doe - doe \div 1460 + doe \div 36524 - doe \div 146096) \div 365 = yoe
    BY <1>4, <1>6, YearOfEra, SMT
  <1>8. PICK d \in Nat : d = s - 365 * k
    <2>1. s - 365 * k \in Nat BY <1>5, SMT
    <2>. QED BY <2>1, SMT
  <1>9. yoe \div 4 = 25 * c + q /\ yoe \div 100 = c
    BY <1>5, <1>6, SMT
  <1>10. doe - (365 * yoe + yoe \div 4 - yoe \div 100) = d
    BY <1>5, <1>6, <1>8, <1>9, SMT
  <1>11. PICK Y \in Nat : Y = yoe + era * 400
    <2>1. yoe + era * 400 \in Nat BY SMT
    <2>. QED BY <2>1, SMT
  <1>12. Y >= 1969
    BY <1>3, <1>5, <1>6, <1>11, SMT
  <1>13. Y \div 4 = 100 * era + 25 * c + q /\ Y \div 100 = 4 * era + c /\ Y \div 400 = era
    BY <1>5, <1>6, <1>11, SMT
  <1>14. YearStart(Y + 1) = 365 * (Y - 1969) + (Y \div 4 - Y \div 100 + Y \div 400 - 477)
    <2>1. Y + 1 \in Nat /\ Y + 1 >= 1970 /\ Y + 1 - 1 = Y /\ Y + 1 - 1970 = Y - 1969
      BY <1>12, SMT
    <2>2. YearStart(Y + 1) = 365 * (Y + 1 - 1970) + LeapsClosed(Y + 1)
      BY <2>1, YearStartIs, SMT
    <2>. QED BY <2>1, <2>2, SMT DEF LeapsClosed
  <1>15. n + 306 = 365 * (Y - 1969) + (97 * era + 24 * c + q - 477) + d
    BY <1>3, <1>5, <1>6, <1>8, <1>11, SMT
  <1>16. n + 306 = YearStart(Y + 1) + d
    BY <1>5, <1>13, <1>14, <1>15, SMT
  <1>17. d <= 365
    BY <1>5, <1>8, SMT
  <1>18. ASSUME d = 365 PROVE Leap(Y + 1)
    <2>1. k = 3 /\ s = 1460
      BY <1>5, <1>8, <1>18, SMT
    <2>2. Y + 1 = 400 * era + 100 * c + 4 * (q + 1)
      BY <1>5, <1>6, <1>11, <2>1, SMT
    <2>3. (Y + 1) % 4 = 0
      BY <2>2, <1>5, SMT
    <2>4. CASE q = 24
      <3>1. Y + 1 = 400 * (era + 1) BY <2>1, <2>2, <2>4, <1>5, SMT
      <3>2. (Y + 1) % 400 = 0 BY <3>1, SMT
      <3>. QED BY <2>3, <3>2 DEF Leap
    <2>5. CASE q < 24
      <3>1. (Y + 1) % 100 = 4 * (q + 1) BY <2>2, <2>5, <1>5, SMT
      <3>2. (Y + 1) % 100 # 0 BY <3>1, <1>5, SMT
      <3>. QED BY <2>3, <3>2 DEF Leap
    <2>. QED BY <2>4, <2>5, <1>5, SMT
  <1>19. CivilFromDays(n) =
                LET mp == (5 * d + 2) \div 153
                    m  == IF mp < 10 THEN mp + 3 ELSE mp - 9
                IN <<Y + (IF m <= 2 THEN 1 ELSE 0), m, d - (153 * mp + 2) \div 5 + 1>>
    BY <1>1, <1>2, <1>7, <1>10, <1>11 DEF CivilFromDays
  <1>20. /\ Y >= 1969 /\ d <= 365
         /\ n + 306 = YearStart(Y + 1) + d
         /\ d = 365 => Leap(Y + 1)
    BY <1>12, <1>16, <1>17, <1>18
  <1>21. March(n, Y, d)
    BY <1>19, <1>20 DEF March
  <1>. QED BY <1>21

(* Where the year has the day n, and where it has the month of its day r. *)
IsYear(n, y) == YearStart(y) <= n /\ n < YearStart(y + 1)
IsMonth(y, r, m) == MonthStart(y, m) <= r /\ (m = 12 \/ r < MonthStart(y, m + 1))

YearOf(n) == CHOOSE k \in 1970..(1970 + n \div 365) : YearStart(k) <= n /\ n < YearStart(k + 1)
MonthOf(y, r) == CHOOSE k \in 1..12 : MonthStart(y, k) <= r /\ (k = 12 \/ r < MonthStart(y, k + 1))

LEMMA YearIsUnique ==
  ASSUME NEW n \in Nat, NEW y \in Nat, y >= 1970, IsYear(n, y)
  PROVE  y = YearOf(n)
  <1>1. YearStart(y) \in Int /\ YearStart(y + 1) \in Int
    <2>1. y + 1 \in Nat /\ y + 1 >= 1970 BY SMT
    <2>. QED BY <2>1, YearStartIs
  <1>2. 365 * (y - 1970) <= n
    <2>1. LeapsClosed(y) >= 0
      BY SMT DEF LeapsClosed
    <2>2. YearStart(y) = 365 * (y - 1970) + LeapsClosed(y)
      BY YearStartIs
    <2>3. LeapsClosed(y) \in Int
      BY SMT DEF LeapsClosed
    <2>. QED BY <2>1, <2>2, <2>3, SMT DEF IsYear
  <1>3. y \in 1970..(1970 + n \div 365)
    BY <1>2, SMT
  <1>4. ASSUME NEW k \in 1970..(1970 + n \div 365), IsYear(n, k) PROVE k = y
    <2>0. k \in Nat /\ k >= 1970 BY SMT
    <2>1. CASE k < y
      <3>1. YearStart(k + 1) <= YearStart(y) BY <2>0, <2>1, YearStartGrows
      <3>2. YearStart(k + 1) \in Int
        <4>1. k + 1 \in Nat /\ k + 1 >= 1970 BY <2>0, SMT
        <4>. QED BY <4>1, YearStartIs
      <3>. QED BY <3>1, <3>2, <1>1, <1>4, SMT DEF IsYear
    <2>2. CASE y < k
      <3>1. YearStart(y + 1) <= YearStart(k) BY <2>0, <2>2, YearStartGrows
      <3>2. YearStart(k) \in Int BY <2>0, YearStartIs
      <3>. QED BY <3>1, <3>2, <1>1, <1>4, SMT DEF IsYear
    <2>. QED BY <2>0, <2>1, <2>2, SMT
  <1> DEFINE Years == 1970..(1970 + n \div 365)
  <1>5. y \in Years /\ \A k \in Years : IsYear(n, k) => k = y
    BY <1>3, <1>4, SMT
  <1> HIDE DEF Years
  <1>6. y = CHOOSE k \in Years : IsYear(n, k)
    BY ONLY <1>5, IsYear(n, y), Zenon
  <1>7. y = CHOOSE k \in Years : YearStart(k) <= n /\ n < YearStart(k + 1)
    BY ONLY <1>6, Zenon DEF IsYear
  <1>. QED BY ONLY <1>7, Zenon DEF Years, YearOf

LEMMA MonthStarts ==
  ASSUME NEW y
  PROVE  LET l == IF Leap(y) THEN 1 ELSE 0
         IN  /\ MonthStart(y, 1) = 0 /\ MonthStart(y, 2) = 31
             /\ MonthStart(y, 3) = 59 + l /\ MonthStart(y, 4) = 90 + l
             /\ MonthStart(y, 5) = 120 + l /\ MonthStart(y, 6) = 151 + l
             /\ MonthStart(y, 7) = 181 + l /\ MonthStart(y, 8) = 212 + l
             /\ MonthStart(y, 9) = 243 + l /\ MonthStart(y, 10) = 273 + l
             /\ MonthStart(y, 11) = 304 + l /\ MonthStart(y, 12) = 334 + l
  BY SMT DEF MonthStart

LEMMA MonthIsUnique ==
  ASSUME NEW y, NEW r \in Nat, NEW m \in 1..12, IsMonth(y, r, m)
  PROVE  m = MonthOf(y, r)
  <1>1. PICK l \in 0..1 : l = IF Leap(y) THEN 1 ELSE 0
    OBVIOUS
  <1>2. /\ MonthStart(y, 1) = 0 /\ MonthStart(y, 2) = 31
        /\ MonthStart(y, 3) = 59 + l /\ MonthStart(y, 4) = 90 + l
        /\ MonthStart(y, 5) = 120 + l /\ MonthStart(y, 6) = 151 + l
        /\ MonthStart(y, 7) = 181 + l /\ MonthStart(y, 8) = 212 + l
        /\ MonthStart(y, 9) = 243 + l /\ MonthStart(y, 10) = 273 + l
        /\ MonthStart(y, 11) = 304 + l /\ MonthStart(y, 12) = 334 + l
    BY <1>1, MonthStarts, SMT
  <1>3. ASSUME NEW a \in 1..12, NEW b \in 1..12, a < b
        PROVE  a + 1 \in 1..12 /\ MonthStart(y, a + 1) <= MonthStart(y, b)
               /\ MonthStart(y, a + 1) \in Int /\ MonthStart(y, b) \in Int
    BY <1>2, <1>3, SMT
  <1>4. ASSUME NEW k \in 1..12, IsMonth(y, r, k) PROVE k = m
    <2>1. CASE k < m BY <1>3, <2>1, <1>4, SMT DEF IsMonth
    <2>2. CASE m < k BY <1>3, <2>2, <1>4, SMT DEF IsMonth
    <2>. QED BY <2>1, <2>2, SMT
  <1>5. m = CHOOSE k \in 1..12 : IsMonth(y, r, k)
    BY <1>4, Zenon
  <1>. QED BY <1>5, Zenon DEF IsMonth, MonthOf

LEMMA CalendarWith ==
  ASSUME NEW n \in Nat, NEW y \in Nat, y >= 1970, NEW r \in Nat, NEW m \in 1..12,
         IsYear(n, y), n = YearStart(y) + r, IsMonth(y, r, m)
  PROVE  Calendar(n) = <<y, m, r - MonthStart(y, m) + 1>>
  <1>1. YearStart(y) \in Int
    BY YearStartIs
  <1>2. n - YearStart(y) = r
    BY <1>1, SMT
  <1>3. y = YearOf(n)
    BY YearIsUnique
  <1>4. m = MonthOf(y, r)
    BY MonthIsUnique
  <1>5. Calendar(n) =
          LET yy == YearOf(n)
              rr == n - YearStart(yy)
              mm == MonthOf(yy, rr)
          IN <<yy, mm, rr - MonthStart(yy, mm) + 1>>
    BY SMT DEF Calendar, YearOf, MonthOf
  <1>. QED BY ONLY <1>2, <1>3, <1>4, <1>5, SMT

(* The days of March to December, and those of January and February. *)
LEMMA FromMarch ==
  ASSUME NEW d \in Nat, d < 306, NEW l \in 0..1, NEW y, l = IF Leap(y) THEN 1 ELSE 0
  PROVE  LET mp == (5 * d + 2) \div 153
         IN  /\ mp \in 0..9 /\ IsMonth(y, d + 59 + l, mp + 3)
             /\ MonthStart(y, mp + 3) = 59 + l + (153 * mp + 2) \div 5
  <1> DEFINE mp == (5 * d + 2) \div 153
  <1>1. mp \in 0..9
    BY SMT
  <1>2. 153 * mp <= 5 * d + 2 /\ 5 * d + 2 < 153 * mp + 153
    BY SMT
  <1>3. /\ MonthStart(y, 3) = 59 + l /\ MonthStart(y, 4) = 90 + l
        /\ MonthStart(y, 5) = 120 + l /\ MonthStart(y, 6) = 151 + l
        /\ MonthStart(y, 7) = 181 + l /\ MonthStart(y, 8) = 212 + l
        /\ MonthStart(y, 9) = 243 + l /\ MonthStart(y, 10) = 273 + l
        /\ MonthStart(y, 11) = 304 + l /\ MonthStart(y, 12) = 334 + l
    BY MonthStarts, SMT
  <1> HIDE DEF mp
  <1>4. MonthStart(y, mp + 3) = 59 + l + (153 * mp + 2) \div 5
    BY <1>1, <1>3, SMT
  <1>5. IsMonth(y, d + 59 + l, mp + 3)
    BY <1>1, <1>2, <1>3, SMT DEF IsMonth
  <1>. QED BY <1>1, <1>4, <1>5, Zenon DEF mp

LEMMA UntilMarch ==
  ASSUME NEW d \in Nat, 306 <= d, d <= 365, NEW l \in 0..1, NEW y, l = IF Leap(y) THEN 1 ELSE 0,
         d = 365 => l = 1
  PROVE  LET mp == (5 * d + 2) \div 153
         IN  /\ mp \in 10..11 /\ IsMonth(y, d - 306, mp - 9)
             /\ MonthStart(y, mp - 9) = (153 * mp + 2) \div 5 - 306
  <1> DEFINE mp == (5 * d + 2) \div 153
  <1>1. mp \in 10..11
    BY SMT
  <1>2. 153 * mp <= 5 * d + 2 /\ 5 * d + 2 < 153 * mp + 153
    BY SMT
  <1>3. MonthStart(y, 1) = 0 /\ MonthStart(y, 2) = 31 /\ MonthStart(y, 3) = 59 + l
    BY MonthStarts, SMT
  <1> HIDE DEF mp
  <1>4. MonthStart(y, mp - 9) = (153 * mp + 2) \div 5 - 306
    BY <1>1, <1>3, SMT
  <1>5. IsMonth(y, d - 306, mp - 9)
    BY <1>1, <1>2, <1>3, SMT DEF IsMonth
  <1>. QED BY <1>1, <1>4, <1>5, Zenon DEF mp

(* The date that is computed for the name of the log is the one of the     *)
(* calendar that the log was named by, for every day from 1970 on          *)
(* (logging.rs:112-128).                                                   *)
THEOREM CivilFromDaysIsRight ==
  ASSUME NEW n \in Nat
  PROVE  CivilFromDays(n) = Calendar(n)
  <1>0. PICK Y, d : March(n, Y, d)
    BY MarchYear
  <1>1. /\ Y \in Nat /\ d \in Nat /\ Y >= 1969 /\ d <= 365
        /\ n + 306 = YearStart(Y + 1) + d
        /\ d = 365 => Leap(Y + 1)
    BY <1>0, SMT DEF March
  <1> DEFINE mp == (5 * d + 2) \div 153
  <1>2. CASE d < 306
    <2>1. PICK l \in 0..1 : l = IF Leap(Y) THEN 1 ELSE 0
      BY SMT
    <2>2. mp \in 0..9 /\ IsMonth(Y, d + 59 + l, mp + 3)
          /\ MonthStart(Y, mp + 3) = 59 + l + (153 * mp + 2) \div 5
      BY <1>1, <1>2, <2>1, FromMarch, SMT
    <2>3. Y >= 1970
      <3>1. CASE Y = 1969
        <4>1. YearStart(1970) = 0
          <5>1. YearStart(1970) = 365 * (1970 - 1970) + LeapsClosed(1970) BY YearStartIs, SMT
          <5>2. LeapsClosed(1970) = 0 BY SMT DEF LeapsClosed
          <5>. QED BY <5>1, <5>2, SMT
        <4>. QED BY <1>1, <1>2, <3>1, <4>1, SMT
      <3>. QED BY <1>1, <3>1, SMT
    <2>4. YearStart(Y) \in Int /\ YearStart(Y + 1) = YearStart(Y) + 365 + l
      BY <1>1, <2>1, <2>3, YearStartIs, SMT
    <2>5. PICK r \in Nat : r = d + 59 + l
      BY <1>1, SMT
    <2>6. n = YearStart(Y) + r /\ IsYear(n, Y)
      BY <1>1, <1>2, <2>4, <2>5, SMT DEF IsYear
    <2>7. mp + 3 \in 1..12 /\ IsMonth(Y, r, mp + 3)
      BY <2>2, <2>5, SMT
    <2>8. Calendar(n) = <<Y, mp + 3, r - MonthStart(Y, mp + 3) + 1>>
      BY <1>1, <2>3, <2>6, <2>7, CalendarWith, SMT
    <2>9. CivilFromDays(n) = <<Y, mp + 3, d - (153 * mp + 2) \div 5 + 1>>
      <3>1. mp < 10 /\ ~(mp + 3 <= 2) /\ Y + 0 = Y
        BY <1>1, <2>2, SMT
      <3>. QED BY <1>0, <3>1, SMT DEF March
    <2>10. r - MonthStart(Y, mp + 3) + 1 = d - (153 * mp + 2) \div 5 + 1
      BY <1>1, <2>2, <2>5, SMT
    <2>. QED BY <2>8, <2>9, <2>10, SMT
  <1>3. CASE 306 <= d
    <2>1. PICK l \in 0..1 : l = IF Leap(Y + 1) THEN 1 ELSE 0
      BY SMT
    <2>2. mp \in 10..11 /\ IsMonth(Y + 1, d - 306, mp - 9)
          /\ MonthStart(Y + 1, mp - 9) = (153 * mp + 2) \div 5 - 306
      BY <1>1, <1>3, <2>1, UntilMarch, SMT
    <2>3. PICK y \in Nat : y = Y + 1 /\ y >= 1970
      BY <1>1, SMT
    <2>4. YearStart(y) \in Int /\ YearStart(y + 1) \in Int /\ YearStart(y + 1) >= YearStart(y) + 365
      BY <2>3, YearStartIs, SMT
    <2>5. PICK r \in Nat : r = d - 306 /\ r < 365
      BY <1>1, <1>3, SMT
    <2>6. n = YearStart(y) + r /\ IsYear(n, y)
      <3>1. n + 306 = YearStart(y) + d
        BY <1>1, <2>3, SMT DEF March
      <3>2. n = YearStart(y) + r
        BY <1>1, <2>4, <2>5, <3>1, SMT
      <3>. QED BY <2>4, <2>5, <3>2, SMT DEF IsYear
    <2>7. mp - 9 \in 1..12 /\ IsMonth(y, r, mp - 9)
      BY <2>2, <2>3, <2>5, SMT
    <2>8. Calendar(n) = <<y, mp - 9, r - MonthStart(y, mp - 9) + 1>>
      BY <2>3, <2>6, <2>7, CalendarWith, SMT
    <2>9. CivilFromDays(n) = <<Y + 1, mp - 9, d - (153 * mp + 2) \div 5 + 1>>
      <3>1. ~(mp < 10) /\ mp - 9 <= 2
        BY <2>2, SMT
      <3>. QED BY <1>0, <3>1, SMT DEF March
    <2>10. r - MonthStart(y, mp - 9) + 1 = d - (153 * mp + 2) \div 5 + 1
      BY <1>1, <2>2, <2>3, <2>5, SMT
    <2>. QED BY <2>3, <2>8, <2>9, <2>10, SMT
  <1>. QED BY <1>1, <1>2, <1>3, SMT

-----------------------------------------------------------------------------
(* What an offer was made for and a bundle was made of.                    *)
DeskInv ==
  /\ current \in Versions
  /\ offer # NoOffer => offer.release \in Versions /\ offer.update = IsNewer(offer.release, current)
  /\ first \in Days /\ day \in {first, first + 1}
  /\ Dates[first] \in files
  /\ bundle \in {"none", "log", "empty"}
  /\ BundleIsOfToday

LEMMA DatesAre ==
  ASSUME NEW d, d \in Days \/ \E k \in Days : d = k + 1
  PROVE  CivilFromDays(d) = Dates[d]
  <1>1. d \in Nat
    <2>1. CASE d \in Days
      BY <2>1, DaysAssumption
    <2>2. CASE \E k \in Days : d = k + 1
      <3>1. PICK k \in Days : d = k + 1 BY <2>2
      <3>2. k \in Nat BY DaysAssumption
      <3>. QED BY <3>1, <3>2
    <2>. QED BY <2>1, <2>2
  <1>2. d \in Days \cup {k + 1 : k \in Days}
    OBVIOUS
  <1>3. Dates[d] = Calendar(d)
    BY <1>2 DEF Dates
  <1>. QED BY <1>1, <1>3, CivilFromDaysIsRight

LEMMA DeskInit == GuiInit => DeskInv
  BY DEF GuiInit, DeskInv, BundleIsOfToday, NoOffer

LEMMA DeskStep == DeskInv /\ [GuiNext]_guiVars => DeskInv'
  <1> SUFFICES ASSUME DeskInv, [GuiNext]_guiVars PROVE DeskInv'
    OBVIOUS
  <1>1. CASE UNCHANGED deskVars
    BY <1>1 DEF DeskInv, BundleIsOfToday, deskVars
  <1>2. CASE CheckForUpdates
    <2>1. PICK r \in Versions : offer' = [release |-> r, update |-> IsNewer(r, current)]
      BY <1>2 DEF CheckForUpdates
    <2>2. offer'.release = r /\ offer'.update = IsNewer(r, current)
      BY <2>1
    <2>3. current' = current /\ UNCHANGED <<first, day, files, bundle>>
      BY <1>2 DEF CheckForUpdates
    <2>. QED BY <2>2, <2>3 DEF DeskInv, BundleIsOfToday
  <1>3. CASE GetDiagnosticsBundle
    <2>1. UNCHANGED <<current, offer, first, day, files>>
      BY <1>3 DEF GetDiagnosticsBundle
    <2>2. CivilFromDays(day) = Dates[day]
      BY DatesAre DEF DeskInv
    <2>3. bundle' = IF Dates[day] \in files THEN "log" ELSE "empty"
      BY <1>3, <2>2 DEF GetDiagnosticsBundle
    <2>. QED BY <2>1, <2>3 DEF DeskInv, BundleIsOfToday
  <1>4. CASE Dismiss
    BY <1>4 DEF Dismiss, DeskInv, BundleIsOfToday
  <1>5. CASE Logs
    BY <1>5 DEF Logs, DeskInv, BundleIsOfToday
  <1>6. CASE Midnight
    BY <1>6 DEF Midnight, DeskInv, BundleIsOfToday
  <1>. QED BY <1>1, <1>2, <1>3, <1>4, <1>5, <1>6 DEF GuiNext, Desk, guiVars

LEMMA DeskHolds == GuiSpec => []DeskInv
  BY DeskInit, DeskStep, PTL DEF GuiSpec

(* A release is offered exactly if it comes after the build that runs, for *)
(* every set of versions that Rank tells apart (updates.rs:70-111).        *)
THEOREM OffersAreNewer ==
  ASSUME \A v \in Versions : Ranked(v)
  PROVE  GuiSpec => []OfferIsNewer
  <1>1. ASSUME DeskInv PROVE OfferIsNewer
    <2>1. SUFFICES ASSUME offer # NoOffer
                   PROVE  offer.update = (Rank(offer.release) > Rank(current))
      BY DEF OfferIsNewer
    <2>2. /\ offer.release \in Versions /\ current \in Versions
          /\ offer.update = IsNewer(offer.release, current)
      BY <1>1, <2>1 DEF DeskInv
    <2>3. /\ offer.release \in Version /\ current \in Version
          /\ Ranked(offer.release) /\ Ranked(current)
      BY <2>2, VersionsAssumption DEF Version
    <2>4. IsNewer(offer.release, current) <=> Rank(offer.release) > Rank(current)
      BY <2>3, RankIsTheOrder
    <2>5. IsNewer(offer.release, current) \in BOOLEAN /\ (Rank(offer.release) > Rank(current)) \in BOOLEAN
      BY DEF IsNewer
    <2>. QED BY <2>2, <2>4, <2>5
  <1>. QED BY <1>1, DeskHolds, PTL

(* A bundle has the log of this very day if there is one, whatever the     *)
(* days the GUI runs on: at the ends of months, years and centuries, and   *)
(* on leap days (diagnostics.rs:63-66, logging.rs:25-29, 103-128).         *)
THEOREM BundlesAreOfToday == GuiSpec => []BundleIsOfToday
  <1>1. DeskInv => BundleIsOfToday BY DEF DeskInv
  <1>. QED BY <1>1, DeskHolds, PTL

-----------------------------------------------------------------------------
(* Wherever the poller is, it can take a step: run() has no label without  *)
(* one.  ENABLED is beyond the provers, so this is a hypothesis of the two *)
(* theorems about what happens eventually.                                 *)
PollerCanRun == []ENABLED <<Run /\ UNCHANGED deskVars>>_guiVars

(* The daemon that the two are about.                                      *)
Fine == up /\ answers /\ ~paused
Out  == ~up /\ ~paused

LEMMA OtherSteps ==
  ASSUME [GuiNext]_guiVars
  PROVE  \/ Run /\ UNCHANGED deskVars
         \/ pc' = pc /\ (link' = link \/ ~up')
  BY DEF GuiNext, Next, guiVars, vars, gui, daemon, Desk, CheckForUpdates, GetDiagnosticsBundle,
         Dismiss, Logs, Midnight, Close, Show, Notify, Poke, DaemonStops, DaemonStarts, EcChanges

LEMMA RunSteps ==
  ASSUME TypeOK, Run, ~paused
  PROVE  /\ pc \in {"parked", "waiting"} => pc' = "check" /\ link' = link
         /\ pc = "check" => pc' = "fetch" /\ link' = link
         /\ pc = "fetch" /\ link /\ answers => pc' = "waiting" /\ link' = link
         /\ pc = "fetch" /\ ~(link /\ answers) => pc' = "top" /\ ~link'
         /\ pc = "backoff" => pc' = "top" /\ link' = link
         /\ pc = "top" => pc' = "connect" /\ link' = link
         /\ pc = "connect" /\ up => pc' = "check" /\ link'
         /\ pc = "connect" /\ ~up => pc' = "backoff" /\ link' = link
  BY DEF Run, TryConnect, Connected, ConnectFails, WaitEnds, Park, Fetch, Sample, PollFails, Waits,
         TypeOK

(* With a daemon that answers for good and the window shown, the poller    *)
(* comes from wherever it is to a connection that holds, and from one      *)
(* sample to the next (poller.rs:32-87).                                   *)
THEOREM SamplesKeepComing == GuiSpec /\ PollerCanRun => SamplesFlow
  <1> DEFINE Step == Run /\ UNCHANGED deskVars
             J(P) == link /\ pc \in P
             U(P) == ~link /\ pc \in P
             L(P) == pc \in P
  <1>1. ASSUME TypeOK, Fine, Fine', [GuiNext]_guiVars
        PROVE  /\ J({"parked", "waiting"}) => J({"parked", "waiting"})' \/ J({"check"})'
               /\ J({"check"}) => J({"check"})' \/ J({"fetch"})'
               /\ J({"fetch"}) => J({"fetch"})' \/ J({"waiting"})'
               /\ U({"parked", "waiting"}) => U({"parked", "waiting"})' \/ U({"check"})'
               /\ U({"check"}) => U({"check"})' \/ U({"fetch"})'
               /\ U({"fetch"}) => U({"fetch"})' \/ L({"top"})'
               /\ L({"backoff"}) => L({"backoff"})' \/ L({"top"})'
               /\ L({"top"}) => L({"top"})' \/ L({"connect"})'
               /\ L({"connect"}) => L({"connect"})' \/ J({"check"})'
    BY <1>1, OtherSteps, RunSteps DEF Fine
  <1>2. ASSUME TypeOK, Fine, Fine', <<Step>>_guiVars
        PROVE  /\ J({"parked", "waiting"}) => J({"check"})'
               /\ J({"check"}) => J({"fetch"})'
               /\ J({"fetch"}) => J({"waiting"})'
               /\ U({"parked", "waiting"}) => U({"check"})'
               /\ U({"check"}) => U({"fetch"})'
               /\ U({"fetch"}) => L({"top"})'
               /\ L({"backoff"}) => L({"top"})'
               /\ L({"top"}) => L({"connect"})'
               /\ L({"connect"}) => J({"check"})'
    BY <1>2, RunSteps DEF Fine
  <1>3. ASSUME TypeOK
        PROVE  \/ J({"parked", "waiting"}) \/ J({"check"}) \/ J({"fetch"})
               \/ U({"parked", "waiting"}) \/ U({"check"}) \/ U({"fetch"})
               \/ L({"backoff"}) \/ L({"top"}) \/ L({"connect"})
    BY <1>3 DEF TypeOK, Labels
  <1>4. J({"waiting"}) => J({"parked", "waiting"})
    OBVIOUS
  <1>5. ASSUME TypeOK, J({"parked", "waiting"}) \/ J({"check"}) \/ J({"fetch"})
        PROVE  status = "Connected" /\ link
    BY <1>5 DEF TypeOK
  <1>6. J({"waiting"}) => pc = "waiting"
    OBVIOUS
  <1>7. GuiSpec => []TypeOK
    BY GuiRunsThePoller, TypeCorrect, PTL
  <1> HIDE DEF J, U, L
  <1>. QED BY <1>1, <1>2, <1>3, <1>4, <1>5, <1>6, <1>7, PTL DEF GuiSpec, PollerCanRun, SamplesFlow, Fine

(* A connection leads to a daemon that is up.                              *)
LEMMA LinkIsUp == GuiSpec => [](link => up)
  <1>1. GuiInit => (link => up)
    BY DEF GuiInit, Init
  <1>2. TypeOK /\ (link => up) /\ [GuiNext]_guiVars => (link => up)'
    BY DEF GuiNext, Next, guiVars, vars, gui, daemon, Desk, CheckForUpdates, GetDiagnosticsBundle,
           Dismiss, Logs, Midnight, Close, Show, Notify, Poke, DaemonStops, DaemonStarts, EcChanges,
           Run, TryConnect, Connected, ConnectFails, WaitEnds, Park, Fetch, Sample, PollFails, TypeOK
  <1>3. GuiSpec => []TypeOK
    BY GuiRunsThePoller, TypeCorrect, PTL
  <1>. QED BY <1>1, <1>2, <1>3, PTL DEF GuiSpec

(* With a daemon that is gone for good and the window shown, the poller    *)
(* comes to show an error again and again (poller.rs:41-53, 73-78).        *)
THEOREM OutagesAreShown == GuiSpec /\ PollerCanRun => OutageIsShown
  <1> DEFINE Step == Run /\ UNCHANGED deskVars
             L(P) == pc \in P
  <1>1. ASSUME TypeOK, link => up, Out, Out', [GuiNext]_guiVars
        PROVE  /\ L({"parked", "waiting"}) => L({"parked", "waiting"})' \/ L({"check"})'
               /\ L({"check"}) => L({"check"})' \/ L({"fetch"})'
               /\ L({"fetch"}) => L({"fetch"})' \/ L({"top"})'
               /\ L({"top"}) => L({"top"})' \/ L({"connect"})'
               /\ L({"connect"}) => L({"connect"})' \/ L({"backoff"})'
               /\ L({"backoff"}) => L({"backoff"})' \/ L({"top"})'
    BY <1>1, OtherSteps, RunSteps DEF Out
  <1>2. ASSUME TypeOK, link => up, Out, Out', <<Step>>_guiVars
        PROVE  /\ L({"parked", "waiting"}) => L({"check"})'
               /\ L({"check"}) => L({"fetch"})'
               /\ L({"fetch"}) => L({"top"})'
               /\ L({"top"}) => L({"connect"})'
               /\ L({"connect"}) => L({"backoff"})'
               /\ L({"backoff"}) => L({"top"})'
    BY <1>2, RunSteps DEF Out
  <1>3. ASSUME TypeOK
        PROVE  \/ L({"parked", "waiting"}) \/ L({"check"}) \/ L({"fetch"})
               \/ L({"top"}) \/ L({"connect"}) \/ L({"backoff"})
    BY <1>3 DEF TypeOK, Labels
  <1>4. ASSUME TypeOK, L({"backoff"}) PROVE status = "Error"
    BY <1>4 DEF TypeOK
  <1>5. GuiSpec => []TypeOK
    BY GuiRunsThePoller, TypeCorrect, PTL
  <1> HIDE DEF L
  <1>. QED BY <1>1, <1>2, <1>3, <1>4, <1>5, LinkIsUp, PTL DEF GuiSpec, PollerCanRun, OutageIsShown, Out
=============================================================================
