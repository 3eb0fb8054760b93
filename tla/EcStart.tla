-------------------------------- MODULE EcStart --------------------------------
(***************************************************************************)
(* How the daemon opens the EC (daemon/src/ec/mod.rs, EcDevice::new): the  *)
(* board's table of registers (ec/offsets.rs), the search for the chip on  *)
(* three ports with retries, and the search for the window of its RAM.     *)
(* Afterwards EcDevice has the batches.  The EC may not be ready yet, may  *)
(* be absent, and any read may fail.                                       *)
(***************************************************************************)
EXTENDS Naturals, Sequences

CONSTANTS MaxErrors  \* bound on reads that fail

ASSUME MaxErrorsAssumption == MaxErrors \in Nat

Boards     == {"N155A", "N155C", "N155D", "another"}
probe_ports == <<46, 78, 110>>                     \* 0x2E, 0x4E, 0x6E
possible_bases == <<50176, 49152, 1024, 0, 57344>> \* 0xC400, 0xC000, 0x0400, 0, 0xE000
PROBE_ATTEMPTS == 5

(* EcOffsets::DEFAULT_N155A: places in the RAM window, and registers.      *)
RamN155A ==
  [temp_cpu |-> 112, temp_sys |-> 98, fan_cpu_msb |-> 118, fan_cpu_lsb |-> 119,
   fan_gpu_msb |-> 121, fan_gpu_lsb |-> 122, thermal_policy_cpu |-> 79,
   thermal_policy_gpu |-> 78, power_profile |-> 177, bat_rsoc |-> 147,
   bat_limit_min |-> 188, bat_limit_max |-> 187, led_bypass |-> 85,
   kbd_bypass_timeout |-> 166]
RegN155A ==
  [chip_id1 |-> 8192, chip_id2 |-> 8193, chip_ver |-> 8194, kbd_backlight |-> 3845,
   kbd_custom_val |-> 6150, gpdra |-> 5633, gpio_a0_mux |-> 5648, gpio_a4_mux |-> 5652,
   pwm_prescaler |-> 6144, pwm_cycle |-> 6145, pwm_duty |-> 6146, pwm_clock_ctrl |-> 6179,
   led_breath_en |-> 6224, led_breath_step |-> 6225, led_breath_delay |-> 6226]

(* FanIndex: where the RAM window has the duty of a fan.                   *)
FanIndex == [Cpu |-> 75, Gpu |-> 77]

(* Mutant of RamOf: the table of the N155D for every N155.                 *)
RamOfAll(b) == [RamN155A EXCEPT !.led_bypass = IF b = "another" THEN @ ELSE 79]

(* DEFAULT_N155D, and that of every other board.                           *)
RamOf(b) == [RamN155A EXCEPT !.led_bypass = IF b = "N155D" THEN 79 ELSE @]

VARIABLES
  board, insecure,  \* the DMI board name, --insecure
  chip,             \* the port where an EC of a known id is, or 0
  window,           \* the base where the EC shows its RAM
  decoys,           \* bases where a byte that is no temperature looks like one
  ready, temp,      \* the EC has started; its temperature: "low", "fit", "high"
  pc, attempt, i,   \* where new() is: attempt and port, or base
  port, hram, kbd,  \* fields of EcDevice, and offsets.reg_kbd_backlight
  errors,           \* reads that failed
  \* History, for the properties only.
  since,            \* the attempt in which the EC got ready, 0: before
  unfit             \* the window was read when its temperature was not fit

world == <<board, insecure, chip, window, decoys>>
vars  == <<world, ready, temp, pc, attempt, i, port, hram, kbd, errors, since, unfit>>

Ports == {probe_ports[k] : k \in DOMAIN probe_ports}
Bases == {possible_bases[k] : k \in DOMAIN possible_bases}

Init ==
  /\ board \in Boards /\ insecure \in BOOLEAN
  /\ chip \in Ports \cup {0} /\ window \in Bases
  /\ decoys \in {{}} \cup {{b} : b \in Bases \ {window}}
  /\ ready \in BOOLEAN /\ temp \in {"low", "fit", "high"}
  /\ pc = "probe" /\ attempt = 1 /\ i = 1
  /\ port = 0 /\ hram = 255 /\ kbd = RegN155A.kbd_backlight
  /\ errors = 0 /\ unfit = FALSE
  /\ since = IF ready THEN 0 ELSE PROBE_ATTEMPTS + 1

-----------------------------------------------------------------------------
ReadFails == errors < MaxErrors /\ errors' = errors + 1

EcReady ==
  /\ ~ready /\ pc = "probe"
  /\ ready' = TRUE
  /\ since' = attempt
  /\ UNCHANGED <<world, temp, pc, attempt, i, port, hram, kbd, errors, unfit>>

TempChanges ==
  /\ pc = "window"
  /\ temp' \in {"low", "fit", "high"} \ {temp}
  /\ UNCHANGED <<world, ready, pc, attempt, i, port, hram, kbd, errors, since, unfit>>

(* probe_chip: one port.  A chip id that is not known, 0xFF of a chip that *)
(* is not ready, or a read that fails leads to the next.                   *)
ProbePort ==
  /\ pc = "probe" /\ i <= Len(probe_ports)
  /\ port' = probe_ports[i]
  /\ \/ ready /\ chip = port' /\ pc' = "window" /\ i' = 1 /\ UNCHANGED errors
     \/ ~(ready /\ chip = port') /\ i' = i + 1 /\ UNCHANGED <<pc, errors>>
     \/ ReadFails /\ i' = i + 1 /\ UNCHANGED pc
  /\ UNCHANGED <<world, ready, temp, attempt, hram, kbd, since, unfit>>

(* Mutant of NoChip: an attempt that failed is the last.                   *)
NoChipOnce ==
  /\ pc = "probe" /\ i > Len(probe_ports)
  /\ i' = 1
  /\ pc' = IF insecure THEN "window" ELSE "failed"
  /\ UNCHANGED <<world, ready, temp, attempt, port, hram, kbd, errors, since, unfit>>

(* None on any port: go on blindly, or sleep and try again.                *)
NoChip ==
  /\ pc = "probe" /\ i > Len(probe_ports)
  /\ i' = 1
  /\ \/ insecure /\ pc' = "window" /\ UNCHANGED attempt
     \/ ~insecure /\ attempt < PROBE_ATTEMPTS /\ attempt' = attempt + 1 /\ UNCHANGED pc
     \/ ~insecure /\ attempt = PROBE_ATTEMPTS /\ pc' = "failed" /\ UNCHANGED attempt
  /\ UNCHANGED <<world, ready, temp, port, hram, kbd, errors, since, unfit>>

(* Mutant of KbdAt: the adjustment is forgotten.                           *)
KbdAtAnyBase(base) == RegN155A.kbd_backlight

(* The register of the keyboard moves with the window at 0xC400.           *)
KbdAt(base) == RegN155A.kbd_backlight + (IF base = 50176 THEN 49152 ELSE 0)

(* A byte that may be a temperature: 0x10 < byte < 0x50.  Without an EC at *)
(* the port it may be anything.                                            *)
MayFit(base) == base \in decoys \/ (base = window /\ temp = "fit") \/ chip # port
MayNot(base) == (base \notin decoys /\ (base # window \/ temp # "fit")) \/ chip # port

(* Mutant of TryBase: the search goes on after a base that looks right.    *)
TryBaseToTheEnd ==
  /\ pc = "window" /\ i <= Len(possible_bases)
  /\ i' = i + 1
  /\ LET base == possible_bases[i] IN
     \/ MayFit(base) /\ hram' = base /\ UNCHANGED <<errors, unfit>>
     \/ MayNot(base) /\ unfit' = (unfit \/ base = window) /\ UNCHANGED <<hram, errors>>
     \/ ReadFails /\ UNCHANGED <<hram, unfit>>
  /\ UNCHANGED <<world, ready, temp, pc, attempt, port, kbd, since>>

(* The first base where a temperature may be is taken for the window.      *)
TryBase ==
  /\ pc = "window" /\ i <= Len(possible_bases)
  /\ LET base == possible_bases[i] IN
     \/ /\ MayFit(base)
        /\ hram' = base /\ i' = Len(possible_bases) + 1
        /\ UNCHANGED <<errors, unfit>>
     \/ /\ MayNot(base)
        /\ i' = i + 1 /\ unfit' = (unfit \/ base = window)
        /\ UNCHANGED <<hram, errors>>
     \/ /\ ReadFails
        /\ i' = i + 1
        /\ UNCHANGED <<hram, unfit>>
  /\ UNCHANGED <<world, ready, temp, pc, attempt, port, kbd, since>>

(* bail!, or Ok(device).                                                   *)
WindowEnds ==
  /\ pc = "window" /\ i > Len(possible_bases)
  /\ IF hram = 255 THEN pc' = "failed" /\ UNCHANGED kbd
                   ELSE pc' = "open" /\ kbd' = KbdAt(hram)
  /\ UNCHANGED <<world, ready, temp, attempt, i, port, hram, errors, since, unfit>>

New == ProbePort \/ NoChip \/ TryBase \/ WindowEnds

Next == New \/ EcReady \/ TempChanges

Spec == Init /\ [][Next]_vars

-----------------------------------------------------------------------------
(* Every variable has its type.                                            *)
TypeOK ==
  /\ board \in Boards /\ {insecure, ready, unfit} \subseteq BOOLEAN
  /\ chip \in Ports \cup {0} /\ window \in Bases /\ decoys \subseteq Bases
  /\ temp \in {"low", "fit", "high"}
  /\ pc \in {"probe", "window", "open", "failed"}
  /\ attempt \in 1..PROBE_ATTEMPTS /\ i \in 1..(Len(possible_bases) + 1)
  /\ port \in Ports \cup {0} /\ hram \in Bases \cup {255} /\ kbd \in Nat
  /\ errors \in 0..MaxErrors /\ since \in 0..(PROBE_ATTEMPTS + 1)
  /\ pc = "open" => hram # 255

(* An EC that starts late is waited for: the search for the chip is given  *)
(* up after all its attempts only, and not if the EC was ready before the  *)
(* last of them, unless a read failed (mod.rs:72-100, 126-152).            *)
LateEcIsFound ==
  pc = "failed" /\ i = 1 =>
    /\ attempt = PROBE_ATTEMPTS
    /\ chip = 0 \/ since >= PROBE_ATTEMPTS \/ errors > 0

(* The device is opened on the port of an EC, unless --insecure was given. *)
(* With an EC there, its window is the true one, and is found, unless a    *)
(* base that is tried before looks like a temperature, a read failed, or   *)
(* the processor was too cold or too hot to be told (mod.rs:102-116).      *)
OpensTheRightOne ==
  LET before == {possible_bases[k] : k \in {k \in DOMAIN possible_bases :
                   \A m \in 1..k : possible_bases[m] # window}}
  IN /\ pc \in {"window", "open"} => port = chip \/ insecure
     /\ pc \in {"open", "failed"} /\ port = chip /\ i > 1
          /\ before \cap decoys = {} /\ errors = 0 /\ ~unfit =>
          pc = "open" /\ hram = window

(* No two settings share a register, in the window that was found and      *)
(* outside, except that on the N155D ram_led_bypass is the register of     *)
(* ram_thermal_policy_cpu (offsets.rs:86-138, structs.rs:79-80,            *)
(* mod.rs:118-121).                                                        *)
RegistersApart ==
  pc = "open" =>
    LET ram == RamOf(board)
        reg == [RegN155A EXCEPT !.kbd_backlight = kbd]
    IN /\ \A a, b \in DOMAIN ram :
            a # b /\ ram[a] = ram[b] =>
              board = "N155D" /\ {a, b} = {"led_bypass", "thermal_policy_cpu"}
       /\ \A a, b \in DOMAIN reg : a # b => reg[a] # reg[b]
       /\ \A a \in DOMAIN ram, b \in DOMAIN reg : hram + ram[a] # reg[b]
       /\ \A f \in DOMAIN FanIndex :
            /\ \A a \in DOMAIN ram : ram[a] # FanIndex[f]
            /\ \A b \in DOMAIN reg : hram + FanIndex[f] # reg[b]
       /\ hram = 50176 <=> kbd > 49152

=============================================================================
