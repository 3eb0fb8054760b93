------------------------------ MODULE EcDevice ------------------------------
(***************************************************************************)
(* The EC layer of the daemon (daemon/src/ec/mod.rs): threads run batches  *)
(* of register accesses under the mutex of EcDevice::with_batch.  Every    *)
(* access is twelve port operations through the Super-I/O index and data   *)
(* ports, which steer the latches of the chip's indirect bus.  The mutex   *)
(* carries a "held since" mark for the watchdog thread of main().          *)
(***************************************************************************)
EXTENDS Naturals, Sequences

CONSTANTS
  Threads,     \* connection threads, service listener, telemetry worker
  Byte,        \* register values and address halves
  Batches,     \* the batches a thread may run
  Ack,         \* the result of a write
  Free,        \* "nobody holds the I/O lock"
  Limit        \* ticks after which the watchdog calls a batch too long

VARIABLES
  \* The chip behind the two ports.
  index,       \* the Super-I/O index register: "2E" or "2F"
  sub,         \* what index 2F reaches: "11" high, "10" low, "12" the byte
  high, low,   \* the two address latches
  mem,         \* the registers and the HRAM window
  \* The daemon.
  holder,      \* the thread inside the I/O mutex, or Free
  pc,          \* per thread, where it is in with_batch
  prog,        \* per thread, its batch, << >> outside with_batch
  got,         \* per thread, results of the operations completed so far
  step,        \* per thread, the next of the 12 port operations
  age,         \* lock_held_since_ms: 0 = zero, n + 1 = stored n ticks ago
  warned,      \* the watchdog has reported since it last read a zero
  snap         \* history: mem when the last batch let go of the lock

chip   == <<index, sub, high, low, mem>>
daemon == <<holder, pc, prog, got, step, age, warned, snap>>
vars   == <<chip, daemon>>

Labels == {"idle", "mark", "io", "stall", "unlock", "clear"}

(* The labels at which a thread is inside the mutex.                       *)
Inside == {"mark", "io", "stall", "unlock"}

(* The labels between the store of the mark and its removal.               *)
Marked == {"io", "stall", "unlock", "clear"}

(* The phase of a batch, and the results it has delivered, as its caller   *)
(* sees them: everything inside the mutex is still "called".               *)
Phase == [t \in Threads |-> CASE pc[t] = "idle"  -> "idle"
                              [] pc[t] = "clear" -> "done"
                              [] OTHER           -> "called"]

Delivered == [t \in Threads |-> IF pc[t] = "clear" THEN got[t] ELSE << >>]

Memory == INSTANCE EcMemory WITH
            regs <- snap, phase <- Phase, out <- Delivered

ASSUME BatchesAssumption ==
  /\ Batches \subseteq Seq(Memory!Op)
  /\ << >> \notin Batches
ASSUME FreeAssumption  == Free \notin Threads
ASSUME LimitAssumption == Limit \in Nat \ {0}

(* The operation thread t is executing.                                    *)
CurrentOp(t) == prog[t][Len(got[t]) + 1]

-----------------------------------------------------------------------------
(* The chip.                                                               *)

OutIndex(v) ==
  /\ index' = v
  /\ UNCHANGED <<sub, high, low, mem>>

OutData(v) ==
  /\ UNCHANGED index
  /\ \/ /\ index = "2E"
        /\ sub' = v
        /\ UNCHANGED <<high, low, mem>>
     \/ /\ index = "2F" /\ sub = "11"
        /\ high' = v
        /\ UNCHANGED <<sub, low, mem>>
     \/ /\ index = "2F" /\ sub = "10"
        /\ low' = v
        /\ UNCHANGED <<sub, high, mem>>
     \/ /\ index = "2F" /\ sub = "12"
        /\ mem' = [mem EXCEPT ![<<high, low>>] = v]
        /\ UNCHANGED <<sub, high, low>>

InData == IF index = "2F" /\ sub = "12" THEN mem[<<high, low>>] ELSE low

(* Mutant of Script: the low half of the address goes to latch 11 again.   *)
ScriptSameLatch(op) == << <<"index", "2E">>, <<"data", "11">>,
                          <<"index", "2F">>, <<"data", op.hi>>,
                          <<"index", "2E">>, <<"data", "11">>,
                          <<"index", "2F">>, <<"data", op.lo>>,
                          <<"index", "2E">>, <<"data", "12">>,
                          <<"index", "2F">> >>

(* The first eleven port writes of read_reg and write_reg.                 *)
Script(op) == << <<"index", "2E">>, <<"data", "11">>,
                 <<"index", "2F">>, <<"data", op.hi>>,
                 <<"index", "2E">>, <<"data", "10">>,
                 <<"index", "2F">>, <<"data", op.lo>>,
                 <<"index", "2E">>, <<"data", "12">>,
                 <<"index", "2F">> >>

-----------------------------------------------------------------------------
Init ==
  /\ index \in {"2E", "2F"}
  /\ sub \in {"10", "11", "12"}
  /\ high \in Byte /\ low \in Byte
  /\ mem \in [Byte \X Byte -> Byte]
  /\ holder = Free
  /\ pc = [t \in Threads |-> "idle"]
  /\ prog = [t \in Threads |-> << >>]
  /\ got = [t \in Threads |-> << >>]
  /\ step = [t \in Threads |-> 1]
  /\ age = 0
  /\ warned = FALSE
  /\ snap = mem

Goto(t, label) == pc' = [pc EXCEPT ![t] = label]

(* A caller of with_batch gets the mutex: self.io.lock().                  *)
Lock(t) ==
  /\ pc[t] = "idle"
  /\ holder = Free
  /\ holder' = t
  /\ \E b \in Batches : prog' = [prog EXCEPT ![t] = b]
  /\ Goto(t, "mark")
  /\ UNCHANGED <<chip, got, step, age, warned, snap>>

(* lock_held_since_ms.store(now_ms)                                        *)
Mark(t) ==
  /\ pc[t] = "mark"
  /\ age' = 1
  /\ Goto(t, "io")
  /\ UNCHANGED <<chip, holder, prog, got, step, warned, snap>>

(* One of the eleven steering writes of the current access.                *)
Outb(t) ==
  /\ pc[t] = "io" /\ step[t] <= 11
  /\ LET o == Script(CurrentOp(t))[step[t]]
     IN \/ o[1] = "index" /\ OutIndex(o[2])
        \/ o[1] = "data"  /\ OutData(o[2])
  /\ step' = [step EXCEPT ![t] = @ + 1]
  /\ UNCHANGED <<holder, pc, prog, got, age, warned, snap>>

(* Mutant of Complete: the next access goes on at the next port write.     *)
CompleteNoReset(t, r) ==
  /\ got' = [got EXCEPT ![t] = Append(@, r)]
  /\ step' = [step EXCEPT ![t] = @ + 1]
  /\ Goto(t, IF Len(got[t]) + 1 = Len(prog[t]) THEN "unlock" ELSE "io")
  /\ UNCHANGED <<holder, prog, age, warned, snap>>

(* The current operation returned r: go on to the next, or leave f(&batch). *)
Complete(t, r) ==
  /\ got' = [got EXCEPT ![t] = Append(@, r)]
  /\ step' = [step EXCEPT ![t] = 1]
  /\ Goto(t, IF Len(got[t]) + 1 = Len(prog[t]) THEN "unlock" ELSE "io")
  /\ UNCHANGED <<holder, prog, age, warned, snap>>

(* The last outb of write_reg.                                             *)
WriteByte(t) ==
  /\ pc[t] = "io" /\ step[t] = 12
  /\ CurrentOp(t).kind = "write"
  /\ OutData(CurrentOp(t).val)
  /\ Complete(t, Ack)

(* The inb of read_reg.                                                    *)
ReadByte(t) ==
  /\ pc[t] = "io" /\ step[t] = 12
  /\ CurrentOp(t).kind = "read"
  /\ UNCHANGED chip
  /\ Complete(t, InData)

(* Mutant of PortError: the last outb of write_reg lacks its `?`.          *)
PortErrorIgnored(t) ==
  /\ pc[t] = "io" /\ step[t] = 12
  /\ Complete(t, Ack)
  /\ UNCHANGED chip

(* outb or inb fails (/dev/port): `?` leaves the closure with the error.   *)
PortError(t) ==
  /\ pc[t] = "io"
  /\ Goto(t, "unlock")
  /\ UNCHANGED <<chip, holder, prog, got, step, age, warned, snap>>

(* A port operation is caught in an SMI, and comes out of it.              *)
Stall(t) ==
  /\ pc[t] = "io"
  /\ Goto(t, "stall")
  /\ UNCHANGED <<chip, holder, prog, got, step, age, warned, snap>>

Resume(t) ==
  /\ pc[t] = "stall"
  /\ Goto(t, "io")
  /\ UNCHANGED <<chip, holder, prog, got, step, age, warned, snap>>

(* End of with_batch: `batch`, declared last, is dropped first and with it *)
(* the mutex guard ...                                                     *)
Unlock(t) ==
  /\ pc[t] = "unlock"
  /\ holder' = Free
  /\ snap' = mem
  /\ Goto(t, "clear")
  /\ UNCHANGED <<chip, prog, got, step, age, warned>>

(* Mutant of ClearMark: the LockTimer stores nothing.                      *)
ClearMarkForgotten(t) ==
  /\ pc[t] = "clear"
  /\ prog' = [prog EXCEPT ![t] = << >>]
  /\ got' = [got EXCEPT ![t] = << >>]
  /\ step' = [step EXCEPT ![t] = 1]
  /\ Goto(t, "idle")
  /\ UNCHANGED <<chip, holder, age, warned, snap>>

(* ... and only then the LockTimer, which stores 0; with_batch returns.    *)
ClearMark(t) ==
  /\ pc[t] = "clear"
  /\ age' = 0
  /\ prog' = [prog EXCEPT ![t] = << >>]
  /\ got' = [got EXCEPT ![t] = << >>]
  /\ step' = [step EXCEPT ![t] = 1]
  /\ Goto(t, "idle")
  /\ UNCHANGED <<chip, holder, warned, snap>>

(* Time passes; ages past the limit are not told apart.                    *)
Tick ==
  /\ age \in 1..Limit
  /\ age' = age + 1
  /\ UNCHANGED <<chip, holder, pc, prog, got, step, warned, snap>>

(* Mutant of Watchdog: it takes the I/O mutex to read the mark.            *)
WatchdogLocks ==
  /\ holder = Free
  /\ \/ age > Limit /\ warned' = TRUE
     \/ age <= 1 /\ warned' = FALSE
  /\ UNCHANGED <<chip, holder, pc, prog, got, step, age, snap>>

(* One turn of the watchdog's loop: warn on an age past the limit, forget  *)
(* the last warning on a zero, which a mark just stored reads as too.      *)
Watchdog ==
  /\ \/ age > Limit /\ warned' = TRUE
     \/ age <= 1 /\ warned' = FALSE
  /\ UNCHANGED <<chip, holder, pc, prog, got, step, age, snap>>

Run(t) ==
  \/ Mark(t) \/ Outb(t) \/ WriteByte(t) \/ ReadByte(t)
  \/ Unlock(t) \/ ClearMark(t)

Next ==
  \/ \E t \in Threads : Lock(t) \/ Run(t) \/ PortError(t) \/ Stall(t) \/ Resume(t)
  \/ Tick
  \/ Watchdog

Spec == Init /\ [][Next]_vars

(* Threads are scheduled and time passes; a port operation that is caught  *)
(* in an SMI need not come back.                                           *)
Fairness ==
  /\ \A t \in Threads : WF_vars(Run(t))
  /\ WF_vars(Tick)
  /\ WF_vars(Watchdog)

FairSpec == Spec /\ Fairness

-----------------------------------------------------------------------------
(* Every variable has its type.                                            *)
TypeOK ==
  /\ index \in {"2E", "2F"}
  /\ sub \in {"10", "11", "12"}
  /\ high \in Byte /\ low \in Byte
  /\ mem \in [Byte \X Byte -> Byte]
  /\ snap \in [Byte \X Byte -> Byte]
  /\ holder \in Threads \cup {Free}
  /\ pc \in [Threads -> Labels]
  /\ prog \in [Threads -> Batches \cup {<< >>}]
  /\ got \in [Threads -> Seq(Byte \cup {Ack})]
  /\ step \in [Threads -> 1..12]
  /\ age \in 0..(Limit + 1)
  /\ warned \in BOOLEAN

(* When a thread is about to move its byte, the chip's latches hold the    *)
(* address of that very operation, whatever an earlier access (finished or *)
(* abandoned half-way by an I/O error) left in them, and no other thread   *)
(* is inside the mutex (mod.rs:23-25, 227-276).                            *)
AccessHitsItsAddress ==
  \A t \in Threads :
    pc[t] \in {"io", "stall"} /\ step[t] = 12 =>
      /\ index = "2F" /\ sub = "12"
      /\ <<high, low>> = Memory!AddressOf(CurrentOp(t))
      /\ \A u \in Threads \ {t} : pc[u] \notin Inside

(* A mark that is set belongs to a batch in progress: the watchdog never   *)
(* measures a batch that is over (main.rs:180-198, mod.rs:188-198).        *)
MarkHasABatch == age # 0 => \E t \in Threads : pc[t] \in Marked

(* EcDevice implements EcMemory: every batch takes effect at once, up to   *)
(* an operation whose port I/O failed (mod.rs:154-156).                    *)
BatchesAreAtomic == Memory!Spec

(* What the watchdog is for (main.rs:175-179): once a thread is stuck in   *)
(* port I/O for good and its mark has survived the LockTimer of the batch  *)
(* before, the report is made and stays.                                   *)
StuckBatchIsReported ==
  <>[](age # 0 /\ \E t \in Threads : pc[t] = "stall") => <>[]warned
=============================================================================
