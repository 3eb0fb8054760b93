----------------------------- MODULE EcStartProofs -----------------------------
(***************************************************************************)
(* Proofs about EcStart, for any number of reads that fail: what its types *)
(* are, that an EC that starts late is waited for, that the window which   *)
(* is taken is the true one, and that registers do not collide.            *)
(***************************************************************************)
EXTENDS EcStart, TLAPS

(* Where the search for the chip is: EcReady is remembered by its attempt, *)
(* and an EC that was ready when an attempt began is at none of the ports  *)
(* this attempt has tried, unless a read failed.                           *)
Probing ==
  /\ ~ready => since = PROBE_ATTEMPTS + 1
  /\ pc = "probe" =>
       /\ i \in 1..4 /\ hram = 255
       /\ ready => since <= attempt
       /\ errors = 0 /\ since < attempt => \A k \in 1..(i - 1) : probe_ports[k] # chip
  /\ pc = "failed" /\ i = 1 =>
       attempt = PROBE_ATTEMPTS /\ (chip = 0 \/ since >= PROBE_ATTEMPTS \/ errors > 0)

(* No base before the window looks like it.                                *)
Unmistakable ==
  \A k \in 1..5 : possible_bases[k] \in decoys =>
    \E m \in 1..k : possible_bases[m] = window

(* Nothing has gone wrong in the search for the window of the EC.          *)
Smooth == port = chip /\ errors = 0 /\ unfit = FALSE /\ Unmistakable

(* The bases in front of the j-th are not the window.                      *)
Passed(j) == \A k \in 1..(j - 1) : possible_bases[k] # window

(* Where the search for the window is: as long as nothing has gone wrong,  *)
(* the bases that were tried are not the window.                           *)
Searching ==
  /\ window \notin decoys
  /\ pc = "window" => i \in 1..6
  /\ pc = "window" /\ hram # 255 => i = 6
  /\ pc = "window" /\ hram = 255 /\ Smooth => Passed(i)
  /\ pc = "window" /\ hram # 255 /\ Smooth => hram = window

(* What it ended with.                                                     *)
Ended ==
  /\ pc \in {"window", "open"} => port = chip \/ insecure = TRUE
  /\ pc = "open" => kbd = KbdAt(hram) /\ hram # 255
  /\ pc = "failed" /\ i > 1 => ~Smooth
  /\ pc = "open" /\ Smooth => hram = window

IInv == TypeOK /\ Probing /\ Searching /\ Ended

-----------------------------------------------------------------------------
LEMMA Places ==
  /\ Len(probe_ports) = 3 /\ DOMAIN probe_ports = 1..3
  /\ Len(possible_bases) = 5 /\ DOMAIN possible_bases = 1..5
  /\ PROBE_ATTEMPTS = 5
  BY DEF probe_ports, possible_bases, PROBE_ATTEMPTS

LEMMA PortsTried == \A p \in Ports : \E k \in 1..3 : probe_ports[k] = p
  BY Places DEF Ports

LEMMA BasesTried ==
  /\ \A b \in Bases : \E k \in 1..5 : possible_bases[k] = b
  /\ \A k \in 1..5 : possible_bases[k] \in Bases /\ possible_bases[k] # 255
                      /\ possible_bases[k] \in Nat
  BY Places DEF Bases, possible_bases

LEMMA PortsKnown == \A k \in 1..3 : probe_ports[k] \in Ports
  BY Places DEF Ports

LEMMA InitInv == Init => IInv
  <1> SUFFICES ASSUME Init PROVE IInv
    OBVIOUS
  <1>1. TypeOK
    <2>1. kbd \in Nat
      BY DEF Init, RegN155A
    <2>2. errors \in 0..MaxErrors /\ since \in 0..6
      BY MaxErrorsAssumption, Places DEF Init
    <2>3. decoys \subseteq Bases
      BY DEF Init
    <2>4. /\ board \in Boards /\ insecure \in BOOLEAN /\ ready \in BOOLEAN /\ unfit \in BOOLEAN
          /\ chip \in Ports \cup {0} /\ window \in Bases /\ temp \in {"low", "fit", "high"}
      BY DEF Init
    <2>5. /\ pc = "probe" /\ attempt \in 1..5 /\ i \in 1..6
          /\ port \in Ports \cup {0} /\ hram \in Bases \cup {255}
      BY DEF Init
    <2>. QED BY <2>1, <2>2, <2>3, <2>4, <2>5, Places DEF TypeOK
  <1>2. Probing
    BY Places DEF Init, Probing
  <1>3. Searching /\ Ended
    BY DEF Init, Searching, Ended
  <1>. QED BY <1>1, <1>2, <1>3 DEF IInv

LEMMA EcReadyInv == IInv /\ EcReady => IInv'
  <1> SUFFICES ASSUME IInv, EcReady PROVE IInv'
    OBVIOUS
  <1>1. TypeOK'
    BY Places DEF IInv, TypeOK, EcReady, world
  <1>2. Probing'
    BY Places DEF IInv, TypeOK, Probing, EcReady, world
  <1>3. Searching' /\ Ended'
    BY DEF IInv, EcReady, Searching, Ended, world
  <1>. QED BY <1>1, <1>2, <1>3 DEF IInv

LEMMA TempChangesInv == IInv /\ TempChanges => IInv'
  <1> SUFFICES ASSUME IInv, TempChanges PROVE IInv'
    OBVIOUS
  <1>1. TypeOK'
    BY DEF IInv, TypeOK, TempChanges, world
  <1>2. Probing'
    BY DEF IInv, Probing, TempChanges, world
  <1>3. (Smooth' <=> Smooth) /\ (Passed(i)' <=> Passed(i))
    BY DEF TempChanges, world, Smooth, Unmistakable, Passed
  <1>4. Searching'
    <2>1. UNCHANGED <<window, decoys, pc, i, hram>>
      BY DEF TempChanges, world
    <2>. QED BY <1>3, <2>1 DEF IInv, Searching
  <1>5. Ended'
    BY <1>3 DEF IInv, Ended, KbdAt, TempChanges, world
  <1>. QED BY <1>1, <1>2, <1>4, <1>5 DEF IInv

LEMMA ProbePortInv == IInv /\ ProbePort => IInv'
  <1> SUFFICES ASSUME IInv, ProbePort PROVE IInv'
    OBVIOUS
  <1>1. pc = "probe" /\ i \in 1..3 /\ hram = 255 /\ i + 1 \in 1..4 /\ i + 1 \in 1..6
    BY Places DEF IInv, TypeOK, ProbePort, Probing
  <1>2. /\ errors' \in 0..MaxErrors /\ errors \in Nat
        /\ errors' = 0 => errors = 0 /\ errors' = errors
    BY MaxErrorsAssumption DEF IInv, TypeOK, ProbePort, ReadFails
  <1>3. /\ port' = probe_ports[i] /\ port' \in Ports
        /\ attempt' = attempt /\ since' = since /\ ready' = ready /\ hram' = 255
        /\ chip' = chip /\ insecure' = insecure
    BY <1>1, PortsKnown DEF ProbePort, world
  <1>4. \/ pc' = "window" /\ i' = 1 /\ chip = port'
        \/ pc' = "probe" /\ i' = i + 1
    BY <1>1 DEF ProbePort
  <1>5. pc' = "probe" /\ errors' = errors => ~(ready = TRUE /\ chip = port')
    BY <1>1, <1>2 DEF ProbePort, ReadFails
  <1>6. TypeOK'
    BY <1>1, <1>2, <1>3, <1>4, Places DEF IInv, TypeOK, ProbePort, world
  <1>7. Probing'
    <2>1. ASSUME pc' = "probe", errors' = 0, since < attempt
          PROVE  \A k \in 1..(i' - 1) : probe_ports[k] # chip
      <3>1. ready = TRUE /\ \A k \in 1..(i - 1) : probe_ports[k] # chip
        BY <1>1, <1>2, <2>1, Places DEF IInv, Probing, TypeOK
      <3>2. probe_ports[i] # chip
        BY <1>2, <1>3, <1>5, <2>1, <3>1
      <3>. QED BY <1>1, <1>4, <2>1, <3>1, <3>2
    <2>. QED BY <1>1, <1>3, <1>4, <2>1 DEF IInv, Probing
  <1>8. Searching'
    BY <1>3, <1>4 DEF IInv, Searching, Passed, ProbePort, world
  <1>9. Ended'
    BY <1>3, <1>4 DEF Ended
  <1>. QED BY <1>6, <1>7, <1>8, <1>9 DEF IInv

LEMMA NoChipInv == IInv /\ NoChip => IInv'
  <1> SUFFICES ASSUME IInv, NoChip PROVE IInv'
    OBVIOUS
  <1>1. pc = "probe" /\ i = 4 /\ i' = 1 /\ hram' = 255 /\ attempt \in 1..5
    BY Places DEF IInv, TypeOK, NoChip, Probing
  <1>2. TypeOK'
    BY <1>1, Places DEF IInv, TypeOK, NoChip, world
  <1>3. errors = 0 /\ since < attempt => chip = 0
    BY <1>1, PortsTried, Places DEF IInv, TypeOK, Probing
  <1>4. Probing'
    BY <1>1, <1>3, Places DEF IInv, TypeOK, Probing, NoChip, world
  <1>5. Searching'
    BY <1>1 DEF IInv, Searching, Passed, NoChip, world
  <1>6. Ended'
    BY <1>1 DEF Ended, NoChip, world
  <1>. QED BY <1>2, <1>4, <1>5, <1>6 DEF IInv

LEMMA TryBaseInv == IInv /\ TryBase => IInv'
  <1> SUFFICES ASSUME IInv, TryBase PROVE IInv'
    OBVIOUS
  <1>1. pc = "window" /\ pc' = "window" /\ i \in 1..6 /\ i <= 5
    BY Places DEF IInv, Searching, TryBase
  <1>2. /\ hram = 255 /\ possible_bases[i] \in Bases /\ possible_bases[i] # 255
        /\ i + 1 \in 1..6 /\ window \in Bases /\ window \notin decoys
    BY <1>1, BasesTried DEF IInv, Searching, TypeOK
  <1>3. /\ port' = port /\ chip' = chip /\ insecure' = insecure /\ kbd' = kbd
        /\ window' = window /\ decoys' = decoys
        /\ errors \in Nat /\ errors' \in 0..MaxErrors /\ unfit' \in BOOLEAN
    <2>1. errors \in Nat /\ errors' \in 0..MaxErrors
      BY MaxErrorsAssumption DEF IInv, TypeOK, TryBase, ReadFails
    <2>2. unfit' \in BOOLEAN
      BY DEF IInv, TypeOK, TryBase
    <2>. QED BY <2>1, <2>2 DEF TryBase, world
  <1>4. /\ errors' = 0 => errors = 0 /\ errors' = errors
        /\ unfit' = FALSE => unfit = FALSE
    <2>1. errors' = errors \/ errors' = errors + 1
      BY DEF TryBase, ReadFails
    <2>2. unfit' = unfit \/ (unfit' = (unfit \/ possible_bases[i] = window))
      BY DEF TryBase
    <2>. QED BY <1>3, <2>1, <2>2
  <1>5. \/ MayFit(possible_bases[i]) /\ hram' = possible_bases[i] /\ i' = 6
        \/ hram' = 255 /\ i' = i + 1
    BY <1>2, Places DEF TryBase
  <1>6. hram' = 255 /\ errors' = errors =>
          MayNot(possible_bases[i]) /\ unfit' = (unfit \/ possible_bases[i] = window)
    BY <1>2, <1>3 DEF TryBase, ReadFails
  <1>7. TypeOK'
    BY <1>1, <1>2, <1>3, <1>5, Places DEF IInv, TypeOK, TryBase, world
  <1>8. Probing'
    BY <1>1 DEF IInv, Probing, TryBase, world
  <1>9. ASSUME Smooth' PROVE /\ hram' = 255 => Passed(i')
                             /\ hram' # 255 => hram' = window
    <2>1. errors' = errors /\ unfit' = FALSE /\ port = chip /\ Unmistakable
      <3>1. port' = chip' /\ errors' = 0 /\ unfit' = FALSE
        BY <1>9 DEF Smooth
      <3>2. Unmistakable
        BY <1>3, <1>9 DEF Smooth, Unmistakable
      <3>. QED BY <1>3, <1>4, <3>1, <3>2
    <2>2. Passed(i)
      BY <1>1, <1>2, <1>3, <1>4, <1>9, <2>1 DEF IInv, Searching, Smooth
    <2>3. hram' = 255 => possible_bases[i] # window
      BY <1>6, <2>1
    <2>4. hram' = 255 => Passed(i')
      BY <1>1, <1>2, <1>3, <1>5, <2>2, <2>3 DEF Passed
    <2>5. hram' # 255 => hram' = window
      <3>1. MayFit(possible_bases[i]) => possible_bases[i] \in decoys \/ possible_bases[i] = window
        BY <2>1 DEF MayFit
      <3>2. possible_bases[i] \in decoys => possible_bases[i] = window
        BY <1>1, <2>1, <2>2 DEF Unmistakable, Passed
      <3>. QED BY <1>5, <3>1, <3>2
    <2>. QED BY <2>4, <2>5
  <1>10. Searching'
    <2>1. i' \in 1..6 /\ (hram' # 255 => i' = 6)
      BY <1>1, <1>2, <1>5
    <2>2. window' \notin decoys'
      BY <1>2, <1>3
    <2>3. /\ hram' = 255 /\ Smooth' => Passed(i')
          /\ hram' # 255 /\ Smooth' => hram' = window'
      BY <1>3, <1>9
    <2>4. hram' = 255 /\ Smooth' => Passed(i)'
      BY <1>3, <2>3 DEF Passed
    <2>. QED BY <2>1, <2>2, <2>3, <2>4 DEF Searching
  <1>11. Ended'
    BY <1>1, <1>3 DEF IInv, Ended
  <1>. QED BY <1>7, <1>8, <1>10, <1>11 DEF IInv

LEMMA WindowEndsInv == IInv /\ WindowEnds => IInv'
  <1> SUFFICES ASSUME IInv, WindowEnds PROVE IInv'
    OBVIOUS
  <1>1. pc = "window" /\ i = 6 /\ i' = 6
    BY Places DEF IInv, WindowEnds, Searching
  <1>2. KbdAt(hram) \in Nat /\ KbdAt(hram)' = KbdAt(hram')
    BY DEF KbdAt, RegN155A
  <1>3. TypeOK'
    BY <1>1, <1>2 DEF IInv, TypeOK, WindowEnds, world
  <1>4. Probing'
    BY <1>1 DEF Probing, IInv, WindowEnds, world
  <1>5. Smooth' <=> Smooth
    BY DEF Smooth, Unmistakable, WindowEnds, world
  <1>6. Smooth => hram # 255 /\ hram = window
    <2>1. Passed(6) => window \notin Bases
      BY BasesTried DEF Passed
    <2>. QED BY <1>1, <2>1 DEF IInv, Searching, TypeOK
  <1>7. Searching'
    BY <1>1 DEF IInv, Searching, WindowEnds, world
  <1>8. Ended'
    BY <1>1, <1>2, <1>5, <1>6 DEF IInv, Ended, WindowEnds, world
  <1>. QED BY <1>3, <1>4, <1>7, <1>8 DEF IInv

LEMMA StepInv == IInv /\ [Next]_vars => IInv'
  <1> SUFFICES ASSUME IInv, [Next]_vars PROVE IInv'
    OBVIOUS
  <1>1. CASE UNCHANGED vars
    <2>1. TypeOK' BY <1>1 DEF IInv, TypeOK, vars, world
    <2>2. Probing' BY <1>1 DEF IInv, Probing, vars, world
    <2>3. (Smooth' <=> Smooth) /\ (Passed(i)' <=> Passed(i))
      BY <1>1 DEF vars, world, Smooth, Unmistakable, Passed
    <2>4. UNCHANGED <<window, decoys, pc, i, hram>> BY <1>1 DEF vars, world
    <2>5. Searching' BY <2>3, <2>4 DEF IInv, Searching
    <2>6. Ended' BY <1>1, <2>3 DEF IInv, Ended, KbdAt, vars, world
    <2>. QED BY <2>1, <2>2, <2>5, <2>6 DEF IInv
  <1>. QED
    BY <1>1, EcReadyInv, TempChangesInv, ProbePortInv, NoChipInv, TryBaseInv, WindowEndsInv
    DEF Next, New

(* IInv is inductive.                                                      *)
THEOREM Invariance == Spec => []IInv
  BY InitInv, StepInv, PTL DEF Spec

-----------------------------------------------------------------------------
(* Every variable of EcStart has its type.                                 *)
THEOREM TypeCorrect == Spec => []TypeOK
  <1>1. IInv => TypeOK
    BY DEF IInv
  <1>. QED BY <1>1, Invariance, PTL

(* The daemon gives the search for the chip up after its last attempt      *)
(* only, and not on an EC that was ready before it, unless a read failed   *)
(* (mod.rs:72-100).                                                        *)
THEOREM LateEcIsWaitedFor == Spec => []LateEcIsFound
  <1>1. IInv => LateEcIsFound
    BY Places DEF IInv, Probing, LateEcIsFound
  <1>. QED BY <1>1, Invariance, PTL

(* The device is opened where an EC is, and with its true window, whatever *)
(* the temperature did, unless it misled the search (mod.rs:102-116).      *)
THEOREM TheRightOneIsOpened == Spec => []OpensTheRightOne
  <1>1. ASSUME IInv PROVE OpensTheRightOne
    <2> DEFINE before == {possible_bases[k] : k \in {k \in DOMAIN possible_bases :
                            \A m \in 1..k : possible_bases[m] # window}}
    <2>1. before \cap decoys = {} => Unmistakable
      <3> SUFFICES ASSUME before \cap decoys = {}, NEW k \in 1..5,
                          possible_bases[k] \in decoys,
                          \A m \in 1..k : possible_bases[m] # window
                   PROVE  FALSE
        BY DEF Unmistakable
      <3>1. possible_bases[k] \in before
        BY Places
      <3>. QED BY <3>1
    <2>. HIDE DEF before
    <2>2. pc \in {"window", "open"} => port = chip \/ insecure
      BY <1>1 DEF IInv, Ended
    <2>3. ASSUME pc \in {"open", "failed"}, port = chip, i > 1,
                 before \cap decoys = {}, errors = 0, ~unfit
          PROVE  pc = "open" /\ hram = window
      BY <1>1, <2>1, <2>3 DEF IInv, Ended, Smooth, TypeOK
    <2>. QED BY <2>2, <2>3 DEF OpensTheRightOne, before
  <1>. QED BY <1>1, Invariance, PTL

(* In the window and outside of it, no two registers are one, except two   *)
(* of the N155D (offsets.rs:86-138, structs.rs:79-80).                     *)
THEOREM RegistersAreApart == Spec => []RegistersApart
  <1>1. ASSUME IInv, pc = "open" PROVE RegistersApart
    <2>1. hram \in Bases /\ kbd = KbdAt(hram)
      BY <1>1 DEF IInv, TypeOK, Ended
    <2>. QED BY <1>1, <2>1 
         DEF RegistersApart, FanIndex, RamOf, RamN155A, RegN155A, KbdAt, Bases, possible_bases
  <1>2. IInv => RegistersApart
    BY <1>1 DEF RegistersApart
  <1>. QED BY <1>2, Invariance, PTL
=============================================================================
