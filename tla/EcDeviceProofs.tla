--------------------------- MODULE EcDeviceProofs ---------------------------
(***************************************************************************)
(* For every set of threads, registers and batches: EcDevice keeps its     *)
(* types, every access reaches its own register, the watchdog's mark has a *)
(* batch, and batches are atomic (EcDevice implements EcMemory).  A batch  *)
(* that stays over the limit is reported.                                  *)
(***************************************************************************)
EXTENDS EcDevice, SequenceTheorems, TLAPS

(* No operation, no effect.                                                *)
LEMMA AfterNone ==
  ASSUME NEW p, NEW m \in [Memory!Address -> Byte]
  PROVE  Memory!After(p, 0, m) = m
<1>1. \A a : Memory!Writers(p, 0, a) = {}
  BY DEF Memory!Writers
<1> QED
  BY <1>1 DEF Memory!After

(* The newest write wins: n + 1 is the last of any set of indices up to n  *)
(* with n + 1 added.                                                       *)
LEMMA LastOfNewest ==
  ASSUME NEW n \in Nat, NEW S \in SUBSET (1..n)
  PROVE  Memory!Last(S \cup {n + 1}) = n + 1
<1>1. \A j \in S \cup {n + 1} : j <= n + 1
  OBVIOUS
<1>2. \A i \in S \cup {n + 1} : (n + 1 <= i) => i = n + 1
  OBVIOUS
<1> QED
  BY <1>1, <1>2 DEF Memory!Last

(* Operation n + 1 joins the writers of its own address when it is a write, *)
(* and of no other address.                                                *)
LEMMA WritersOther ==
  ASSUME NEW p, NEW n \in Nat, NEW a,
         ~(p[n + 1].kind = "write" /\ Memory!AddressOf(p[n + 1]) = a)
  PROVE  Memory!Writers(p, n + 1, a) = Memory!Writers(p, n, a)
<1>1. 1..(n + 1) = (1..n) \cup {n + 1}
  OBVIOUS
<1> QED
  BY <1>1 DEF Memory!Writers

LEMMA WritersSame ==
  ASSUME NEW p, NEW n \in Nat, p[n + 1].kind = "write"
  PROVE  Memory!Writers(p, n + 1, Memory!AddressOf(p[n + 1])) =
           Memory!Writers(p, n, Memory!AddressOf(p[n + 1])) \cup {n + 1}
<1>1. 1..(n + 1) = (1..n) \cup {n + 1}
  OBVIOUS
<1> QED
  BY <1>1 DEF Memory!Writers

(* A read leaves the registers as they are.                                *)
LEMMA AfterRead ==
  ASSUME NEW p, NEW n \in Nat, NEW m, p[n + 1].kind = "read"
  PROVE  Memory!After(p, n + 1, m) = Memory!After(p, n, m)
<1>1. \A a : Memory!Writers(p, n + 1, a) = Memory!Writers(p, n, a)
  BY WritersOther
<1> QED
  BY <1>1 DEF Memory!After

(* A write changes its own register and no other.                          *)
LEMMA AfterWrite ==
  ASSUME NEW p, NEW n \in Nat, NEW m, p[n + 1].kind = "write"
  PROVE  Memory!After(p, n + 1, m) =
           [Memory!After(p, n, m) EXCEPT ![Memory!AddressOf(p[n + 1])] = p[n + 1].val]
<1> DEFINE w == Memory!AddressOf(p[n + 1])
<1>1. \A a : a # w => Memory!Writers(p, n + 1, a) = Memory!Writers(p, n, a)
  BY WritersOther
<1>2. Memory!Writers(p, n + 1, w) = Memory!Writers(p, n, w) \cup {n + 1}
  BY WritersSame
<1>3. Memory!Writers(p, n, w) \in SUBSET (1..n)
  BY DEF Memory!Writers
<1>4. Memory!Last(Memory!Writers(p, n + 1, w)) = n + 1
  BY <1>2, <1>3, LastOfNewest
<1>5. Memory!Writers(p, n + 1, w) # {}
  BY <1>2
<1> HIDE DEF w
<1>6. ASSUME NEW a \in Memory!Address
      PROVE  Memory!After(p, n + 1, m)[a] =
               [Memory!After(p, n, m) EXCEPT ![w] = p[n + 1].val][a]
  <2>1. CASE a = w
    BY <2>1, <1>4, <1>5 DEF Memory!After
  <2>2. CASE a # w
    BY <2>2, <1>1 DEF Memory!After
  <2> QED
    BY <2>1, <2>2
<1> QED
  BY <1>6 DEF Memory!After, w
-----------------------------------------------------------------------------
(* The inductive invariant.                                                *)

(* The mutex: the thread inside is the holder, and there is no other.      *)
Exclusion == \A t \in Threads : pc[t] \in Inside <=> holder = t

(* What a thread carries: nothing when idle, a batch otherwise, and while  *)
(* it does port I/O an operation still to finish.                          *)
Carrying ==
  \A t \in Threads :
    /\ pc[t] = "idle" => prog[t] = << >> /\ got[t] = << >> /\ step[t] = 1
    /\ pc[t] # "idle" => prog[t] \in Batches
    /\ pc[t] = "mark" => got[t] = << >> /\ step[t] = 1
    /\ pc[t] \in {"io", "stall"} => Len(got[t]) < Len(prog[t])
    /\ Len(got[t]) <= Len(prog[t])

(* The latches of the chip, as far as the current access has steered them. *)
SteeredBy(t) ==
  /\ step[t] \in {2, 3, 6, 7, 10, 11} => index = "2E"
  /\ step[t] \in {4, 5, 8, 9, 12} => index = "2F"
  /\ step[t] \in 3..6 => sub = "11"
  /\ step[t] \in 7..10 => sub = "10"
  /\ step[t] \in 11..12 => sub = "12"
  /\ step[t] \in 5..12 => high = CurrentOp(t).hi
  /\ step[t] \in 9..12 => low = CurrentOp(t).lo

Steering == \A t \in Threads : pc[t] \in {"io", "stall"} => SteeredBy(t)

(* The registers: what the last batch left, changed by the operations the  *)
(* holder has completed, which returned what they would have returned had  *)
(* the batch run alone.                                                    *)
PartDone(t) ==
  /\ mem = Memory!After(prog[t], Len(got[t]), snap)
  /\ got[t] = Memory!Results(prog[t], Len(got[t]), snap)

Isolation ==
  /\ holder = Free => mem = snap
  /\ \A t \in Threads : pc[t] \in Inside => PartDone(t)

IInv ==
  /\ TypeOK
  /\ Exclusion
  /\ Carrying
  /\ Steering
  /\ Isolation
  /\ MarkHasABatch

(* A batch is a non-empty sequence of operations.                          *)
LEMMA BatchIsOps ==
  ASSUME NEW p \in Batches
  PROVE  /\ p \in Seq(Memory!Op) /\ p # << >>
         /\ Len(p) \in Nat \ {0}
         /\ \A i \in 1..Len(p) : p[i] \in Memory!Op
BY BatchesAssumption, EmptySeq, LenProperties, ElementOfSeq

(* The operation being executed is one of the batch.                       *)
LEMMA CurrentOpIsOp ==
  ASSUME TypeOK, Carrying, NEW t \in Threads, pc[t] \in {"io", "stall"}
  PROVE  /\ CurrentOp(t) \in Memory!Op
         /\ Len(got[t]) \in Nat
         /\ Len(got[t]) + 1 \in 1..Len(prog[t])
<1>1. prog[t] \in Batches /\ Len(got[t]) < Len(prog[t])
  BY DEF Carrying
<1>2. Len(got[t]) \in Nat
  BY LenProperties DEF TypeOK
<1> QED
  BY <1>1, <1>2, BatchIsOps DEF CurrentOp

LEMMA InitIInv == Init => IInv
<1> SUFFICES ASSUME Init PROVE IInv
  OBVIOUS
<1>1. TypeOK
  <2>1. got \in [Threads -> Seq(Byte \cup {Ack})]
    BY EmptySeq DEF Init
  <2>2. step \in [Threads -> 1..12] /\ age \in 0..(Limit + 1)
    BY LimitAssumption DEF Init
  <2> QED
    BY <2>1, <2>2 DEF Init, TypeOK, Labels
<1>2. Exclusion
  BY FreeAssumption DEF Init, Exclusion, Inside
<1>3. Carrying
  <2>1. Len(<< >>) <= Len(<< >>)
    BY EmptySeq
  <2> QED
    BY <2>1 DEF Init, Carrying
<1>4. Steering
  BY DEF Init, Steering
<1>5. Isolation
  BY DEF Init, Isolation, Inside
<1>6. MarkHasABatch
  BY DEF Init, MarkHasABatch
<1> QED
  BY <1>1, <1>2, <1>3, <1>4, <1>5, <1>6 DEF IInv

(* A thread takes the mutex: its batch has done nothing yet.               *)
LEMMA LockPreserves ==
  ASSUME IInv, NEW t \in Threads, Lock(t)
  PROVE  IInv'
<1> USE DEF IInv, Lock, Goto, chip
<1>1. TypeOK'
  BY DEF TypeOK, Labels
<1>2. Exclusion'
  BY FreeAssumption DEF Exclusion, TypeOK, Inside
<1>3. Carrying'
  BY BatchIsOps, EmptySeq DEF Carrying, TypeOK
<1>4. Steering'
  BY DEF Steering, SteeredBy, CurrentOp, TypeOK
<1>5. Isolation'
  <2>1. holder' # Free
    BY FreeAssumption
  <2>2. ASSUME NEW u \in Threads, pc'[u] \in Inside
        PROVE  PartDone(u)'
    <3>1. u = t
      BY <2>2, FreeAssumption DEF Exclusion, TypeOK
    <3>2. got'[t] = << >> /\ Len(got'[t]) = 0
      BY EmptySeq DEF Carrying
    <3>3. mem' = Memory!After(prog'[t], 0, snap')
      BY AfterNone DEF Isolation, TypeOK, Memory!Address
    <3>4. << >> = Memory!Results(prog'[t], 0, snap')
      BY DEF Memory!Results
    <3> QED
      BY <3>1, <3>2, <3>3, <3>4 DEF PartDone
  <2> QED
    BY <2>1, <2>2 DEF Isolation
<1>6. MarkHasABatch'
  BY DEF MarkHasABatch, Marked, TypeOK
<1> QED
  BY <1>1, <1>2, <1>3, <1>4, <1>5, <1>6 DEF IInv

(* Steps that only move a thread between labels inside the mutex.          *)
LEMMA MovePreserves ==
  ASSUME IInv, NEW t \in Threads,
         Mark(t) \/ PortError(t) \/ Stall(t) \/ Resume(t)
  PROVE  IInv'
<1> USE DEF IInv, Mark, PortError, Stall, Resume, Goto, chip
<1>1. TypeOK'
  <2>1. age' \in 0..(Limit + 1)
    BY LimitAssumption DEF TypeOK
  <2>2. pc' \in [Threads -> Labels]
    BY DEF TypeOK, Labels
  <2> QED
    BY <2>1, <2>2 DEF TypeOK
<1>2. Exclusion'
  BY DEF Exclusion, TypeOK, Inside
<1>3. Carrying'
  <2>1. pc[t] = "mark" => Len(got[t]) < Len(prog[t])
    BY BatchIsOps, EmptySeq DEF Carrying
  <2> QED
    BY <2>1 DEF Carrying, TypeOK
<1>4. Steering'
  <2> SUFFICES ASSUME NEW u \in Threads, pc'[u] \in {"io", "stall"}
               PROVE  SteeredBy(u)'
    BY DEF Steering
  <2>1. SteeredBy(u)' <=> SteeredBy(u)
    BY DEF SteeredBy, CurrentOp
  <2>2. CASE pc[u] \in {"io", "stall"}
    BY <2>1, <2>2 DEF Steering
  <2>3. CASE pc[u] = "mark"
    BY <2>3 DEF Carrying, SteeredBy
  <2> QED
    BY <2>2, <2>3 DEF TypeOK
<1>5. Isolation'
  BY DEF Isolation, PartDone, TypeOK, Inside
<1>6. MarkHasABatch'
  BY DEF MarkHasABatch, Marked, TypeOK
<1> QED
  BY <1>1, <1>2, <1>3, <1>4, <1>5, <1>6 DEF IInv

LEMMA ScriptItems ==
  ASSUME NEW op
  PROVE  /\ \A n \in {1, 5, 9}  : Script(op)[n] = <<"index", "2E">>
         /\ \A n \in {3, 7, 11} : Script(op)[n] = <<"index", "2F">>
         /\ Script(op)[2] = <<"data", "11">>
         /\ Script(op)[4] = <<"data", op.hi>>
         /\ Script(op)[6] = <<"data", "10">>
         /\ Script(op)[8] = <<"data", op.lo>>
         /\ Script(op)[10] = <<"data", "12">>
BY DEF Script

(* A steering write changes latches only, and leaves them as the next port *)
(* operation of the same access expects them.                              *)
LEMMA OutbSteers ==
  ASSUME IInv, NEW t \in Threads, Outb(t)
  PROVE  /\ mem' = mem
         /\ index' \in {"2E", "2F"} /\ sub' \in {"10", "11", "12"}
         /\ high' \in Byte /\ low' \in Byte
         /\ SteeredBy(t)'
<1> DEFINE op == CurrentOp(t)
<1>1. pc[t] = "io" /\ step[t] \in 1..11 /\ step'[t] = step[t] + 1
  BY DEF Outb, IInv, TypeOK
<1>2. op \in Memory!Op
  BY <1>1, CurrentOpIsOp DEF IInv
<1>3. op.hi \in Byte /\ op.lo \in Byte
  BY <1>2 DEF Memory!Op
<1>4. SteeredBy(t)
  BY <1>1 DEF IInv, Steering
<1>5. CurrentOp(t)' = op
  BY DEF Outb, CurrentOp
<1>6. /\ index \in {"2E", "2F"} /\ sub \in {"10", "11", "12"}
      /\ high \in Byte /\ low \in Byte
  BY DEF IInv, TypeOK
<1>7. /\ step[t] \in {1, 5, 9}  => OutIndex("2E")
      /\ step[t] \in {3, 7, 11} => OutIndex("2F")
      /\ step[t] = 2  => OutData("11")
      /\ step[t] = 4  => OutData(op.hi)
      /\ step[t] = 6  => OutData("10")
      /\ step[t] = 8  => OutData(op.lo)
      /\ step[t] = 10 => OutData("12")
  <2>1. /\ Script(op)[step[t]][1] = "index" => OutIndex(Script(op)[step[t]][2])
        /\ Script(op)[step[t]][1] = "data" => OutData(Script(op)[step[t]][2])
        /\ Script(op)[step[t]][1] \in {"index", "data"}
    BY DEF Outb
  <2> HIDE DEF op
  <2> QED
    BY <2>1, ScriptItems
<1>8. CASE step[t] = 1
  BY <1>1, <1>3, <1>4, <1>5, <1>6, <1>7, <1>8
     DEF OutIndex, OutData, SteeredBy
<1>9. CASE step[t] = 2
  BY <1>1, <1>3, <1>4, <1>5, <1>6, <1>7, <1>9
     DEF OutIndex, OutData, SteeredBy
<1>10. CASE step[t] = 3
  BY <1>1, <1>3, <1>4, <1>5, <1>6, <1>7, <1>10
     DEF OutIndex, OutData, SteeredBy
<1>11. CASE step[t] = 4
  BY <1>1, <1>3, <1>4, <1>5, <1>6, <1>7, <1>11
     DEF OutIndex, OutData, SteeredBy
<1>12. CASE step[t] = 5
  BY <1>1, <1>3, <1>4, <1>5, <1>6, <1>7, <1>12
     DEF OutIndex, OutData, SteeredBy
<1>13. CASE step[t] = 6
  BY <1>1, <1>3, <1>4, <1>5, <1>6, <1>7, <1>13
     DEF OutIndex, OutData, SteeredBy
<1>14. CASE step[t] = 7
  BY <1>1, <1>3, <1>4, <1>5, <1>6, <1>7, <1>14
     DEF OutIndex, OutData, SteeredBy
<1>15. CASE step[t] = 8
  BY <1>1, <1>3, <1>4, <1>5, <1>6, <1>7, <1>15
     DEF OutIndex, OutData, SteeredBy
<1>16. CASE step[t] = 9
  BY <1>1, <1>3, <1>4, <1>5, <1>6, <1>7, <1>16
     DEF OutIndex, OutData, SteeredBy
<1>17. CASE step[t] = 10
  BY <1>1, <1>3, <1>4, <1>5, <1>6, <1>7, <1>17
     DEF OutIndex, OutData, SteeredBy
<1>18. CASE step[t] = 11
  BY <1>1, <1>3, <1>4, <1>5, <1>6, <1>7, <1>18
     DEF OutIndex, OutData, SteeredBy
<1> QED
  BY <1>1, <1>8, <1>9, <1>10, <1>11, <1>12, <1>13, <1>14, <1>15, <1>16,
     <1>17, <1>18

(* A thread that does port I/O is the only one inside.                     *)
LEMMA Alone ==
  ASSUME IInv, NEW t \in Threads, pc[t] \in Inside
  PROVE  /\ holder = t /\ holder # Free
         /\ \A u \in Threads \ {t} : pc[u] \notin Inside
BY FreeAssumption DEF IInv, Exclusion

LEMMA OutbPreserves ==
  ASSUME IInv, NEW t \in Threads, Outb(t)
  PROVE  IInv'
<1>1. pc[t] \in Inside
  BY DEF Outb, Inside
<1>2. /\ mem' = mem
      /\ index' \in {"2E", "2F"} /\ sub' \in {"10", "11", "12"}
      /\ high' \in Byte /\ low' \in Byte
      /\ SteeredBy(t)'
  BY OutbSteers
<1>3. UNCHANGED <<holder, pc, prog, got, age, warned, snap>>
  BY DEF Outb
<1>4. step' = [step EXCEPT ![t] = step[t] + 1] /\ step[t] <= 11 /\ pc[t] = "io"
  BY DEF Outb
<1>5. TypeOK'
  <2>1. step' \in [Threads -> 1..12]
    <3>1. step \in [Threads -> 1..12]
      BY DEF IInv, TypeOK
    <3>2. step[t] + 1 \in 1..12
      BY <3>1, <1>4
    <3> QED
      BY <3>1, <3>2, <1>4
  <2> QED
    BY <2>1, <1>2, <1>3 DEF IInv, TypeOK
<1>6. Exclusion'
  BY <1>3 DEF IInv, Exclusion
<1>7. Carrying'
  BY <1>3, <1>4 DEF IInv, Carrying, TypeOK
<1>8. Steering'
  BY <1>1, <1>2, <1>3, Alone DEF Steering, Inside
<1>9. Isolation'
  BY <1>2, <1>3 DEF IInv, Isolation, PartDone
<1>10. MarkHasABatch'
  BY <1>3 DEF IInv, MarkHasABatch
<1> QED
  BY <1>5, <1>6, <1>7, <1>8, <1>9, <1>10 DEF IInv

(* The results grow by the one of the operation that completes.            *)
LEMMA ResultsNext ==
  ASSUME NEW p, NEW m, NEW S, NEW g \in Seq(S), NEW r \in S,
         g = Memory!Results(p, Len(g), m),
         r = Memory!Result(p, Len(g) + 1, m)
  PROVE  Append(g, r) = Memory!Results(p, Len(g) + 1, m)
<1> DEFINE n == Len(g)
<1>1. n \in Nat
  BY LenProperties
<1>2. Append(g, r) \in [1..(n + 1) -> S]
  BY <1>1, LenProperties, AppendProperties
<1>3. \A i \in 1..n : Append(g, r)[i] = Memory!Result(p, i, m)
  BY <1>1, AppendProperties DEF Memory!Results
<1>4. Append(g, r)[n + 1] = Memory!Result(p, n + 1, m)
  BY <1>1, AppendProperties
<1>5. \A i \in 1..(n + 1) : Append(g, r)[i] = Memory!Result(p, i, m)
  BY <1>1, <1>3, <1>4
<1> QED
  BY <1>1, <1>2, <1>5 DEF Memory!Results

(* An access reaches its register: the twelfth port operation finds the    *)
(* operation's own address in the latches.                                 *)
LEMMA ByteMoves ==
  ASSUME IInv, NEW t \in Threads, pc[t] \in {"io", "stall"}, step[t] = 12
  PROVE  /\ index = "2F" /\ sub = "12"
         /\ <<high, low>> = Memory!AddressOf(CurrentOp(t))
         /\ <<high, low>> \in Memory!Address
<1>1. SteeredBy(t)
  BY DEF IInv, Steering
<1>2. high \in Byte /\ low \in Byte
  BY DEF IInv, TypeOK
<1> QED
  BY <1>1, <1>2 DEF SteeredBy, Memory!AddressOf, Memory!Address

(* A completed operation extends what the batch has done by itself.        *)
LEMMA WriteByteExtends ==
  ASSUME IInv, NEW t \in Threads, WriteByte(t)
  PROVE  /\ mem' \in [Byte \X Byte -> Byte]
         /\ UNCHANGED <<index, sub, high, low>>
         /\ got'[t] \in Seq(Byte \cup {Ack})
         /\ Len(got'[t]) = Len(got[t]) + 1
         /\ PartDone(t)'
<1> DEFINE n == Len(got[t])
           op == prog[t][n + 1]
<1>1. pc[t] = "io" /\ step[t] = 12 /\ op.kind = "write" /\ OutData(op.val)
  BY DEF WriteByte, CurrentOp
<1>2. op \in Memory!Op /\ n \in Nat
  BY <1>1, CurrentOpIsOp DEF CurrentOp, IInv
<1>3. /\ index = "2F" /\ sub = "12" /\ <<high, low>> = Memory!AddressOf(op)
      /\ <<high, low>> \in Memory!Address
  BY <1>1, ByteMoves DEF CurrentOp
<1>4. PartDone(t)
  BY <1>1 DEF IInv, Isolation, Inside
<1>5. got'[t] = Append(got[t], Ack) /\ UNCHANGED <<prog, snap>>
  BY DEF WriteByte, Complete, IInv, TypeOK
<1>6. got[t] \in Seq(Byte \cup {Ack})
  BY DEF IInv, TypeOK
<1>7. mem' = [mem EXCEPT ![Memory!AddressOf(op)] = op.val]
      /\ UNCHANGED <<index, sub, high, low>>
  BY <1>1, <1>3 DEF OutData
<1>8. mem' = Memory!After(prog[t], n + 1, snap)
  BY <1>1, <1>2, <1>4, <1>7, AfterWrite DEF PartDone
<1>9. mem' \in [Byte \X Byte -> Byte]
  BY <1>2, <1>7 DEF IInv, TypeOK, Memory!Op
<1>10. Ack = Memory!Result(prog[t], n + 1, snap)
  BY <1>1 DEF Memory!Result
<1>11. /\ got'[t] = Memory!Results(prog[t], n + 1, snap)
       /\ got'[t] \in Seq(Byte \cup {Ack}) /\ Len(got'[t]) = n + 1
  BY <1>4, <1>5, <1>6, <1>10, ResultsNext, AppendProperties DEF PartDone
<1> QED
  BY <1>5, <1>7, <1>8, <1>9, <1>11 DEF PartDone

LEMMA ReadByteExtends ==
  ASSUME IInv, NEW t \in Threads, ReadByte(t)
  PROVE  /\ UNCHANGED chip
         /\ got'[t] \in Seq(Byte \cup {Ack})
         /\ Len(got'[t]) = Len(got[t]) + 1
         /\ PartDone(t)'
<1> DEFINE n == Len(got[t])
           op == prog[t][n + 1]
<1>1. pc[t] = "io" /\ step[t] = 12 /\ op.kind = "read" /\ UNCHANGED chip
  BY DEF ReadByte, CurrentOp
<1>2. op \in Memory!Op /\ n \in Nat
  BY <1>1, CurrentOpIsOp DEF CurrentOp, IInv
<1>3. /\ index = "2F" /\ sub = "12" /\ <<high, low>> = Memory!AddressOf(op)
      /\ <<high, low>> \in Memory!Address
  BY <1>1, ByteMoves DEF CurrentOp
<1>4. PartDone(t)
  BY <1>1 DEF IInv, Isolation, Inside
<1>5. got'[t] = Append(got[t], mem[Memory!AddressOf(op)])
      /\ UNCHANGED <<prog, snap>>
  BY <1>3 DEF ReadByte, Complete, IInv, TypeOK, InData
<1>6. got[t] \in Seq(Byte \cup {Ack})
  BY DEF IInv, TypeOK
<1>7. mem[Memory!AddressOf(op)] \in Byte \cup {Ack}
  BY <1>3 DEF IInv, TypeOK, Memory!Address
<1>8. mem' = Memory!After(prog[t], n + 1, snap)
  BY <1>1, <1>2, <1>4, AfterRead DEF PartDone, chip
<1>9. mem[Memory!AddressOf(op)] = Memory!Result(prog[t], n + 1, snap)
  BY <1>1, <1>2, <1>4 DEF Memory!Result, PartDone
<1>10. /\ got'[t] = Memory!Results(prog[t], n + 1, snap)
       /\ got'[t] \in Seq(Byte \cup {Ack}) /\ Len(got'[t]) = n + 1
  BY <1>4, <1>5, <1>6, <1>7, <1>9, ResultsNext, AppendProperties DEF PartDone
<1> QED
  BY <1>1, <1>5, <1>8, <1>10 DEF PartDone

LEMMA CompletePreserves ==
  ASSUME IInv, NEW t \in Threads, WriteByte(t) \/ ReadByte(t)
  PROVE  IInv'
<1>1. pc[t] = "io" /\ pc[t] \in Inside
  BY DEF WriteByte, ReadByte, Inside
<1>2. /\ mem' \in [Byte \X Byte -> Byte]
      /\ UNCHANGED <<index, sub, high, low>>
      /\ got'[t] \in Seq(Byte \cup {Ack})
      /\ Len(got'[t]) = Len(got[t]) + 1
      /\ PartDone(t)'
  BY WriteByteExtends, ReadByteExtends DEF chip, IInv, TypeOK
<1>3. /\ UNCHANGED <<holder, prog, age, warned, snap>>
      /\ step' = [step EXCEPT ![t] = 1]
      /\ pc' = [pc EXCEPT ![t] = IF Len(got[t]) + 1 = Len(prog[t])
                                 THEN "unlock" ELSE "io"]
      /\ \E r : got' = [got EXCEPT ![t] = r]
  BY DEF WriteByte, ReadByte, Complete, Goto
<1>4. /\ holder = t /\ holder # Free
      /\ \A u \in Threads \ {t} : pc[u] \notin Inside
  BY <1>1, Alone
<1>5. /\ Len(got[t]) \in Nat /\ Len(prog[t]) \in Nat
      /\ Len(got[t]) + 1 <= Len(prog[t])
  BY <1>1, CurrentOpIsOp, LenProperties DEF IInv
<1>6. TypeOK'
  <2>1. got' \in [Threads -> Seq(Byte \cup {Ack})]
    BY <1>2, <1>3 DEF IInv, TypeOK
  <2>2. step' \in [Threads -> 1..12]
    BY <1>3 DEF IInv, TypeOK
  <2>3. pc' \in [Threads -> Labels]
    BY <1>3 DEF IInv, TypeOK, Labels
  <2> QED
    BY <2>1, <2>2, <2>3, <1>2, <1>3 DEF IInv, TypeOK
<1>7. Exclusion'
  BY <1>1, <1>3, <1>4 DEF IInv, Exclusion, TypeOK, Inside
<1>8. Carrying'
  BY <1>1, <1>2, <1>3, <1>5 DEF IInv, Carrying, TypeOK
<1>9. Steering'
  <2>1. SteeredBy(t)'
    BY <1>3 DEF SteeredBy, IInv, TypeOK
  <2> QED
    BY <2>1, <1>3, <1>4 DEF Steering, Inside, IInv, TypeOK
<1>10. Isolation'
  BY <1>2, <1>3, <1>4 DEF Isolation, IInv, TypeOK
<1>11. MarkHasABatch'
  BY <1>1, <1>3 DEF IInv, MarkHasABatch, Marked, TypeOK
<1> QED
  BY <1>6, <1>7, <1>8, <1>9, <1>10, <1>11 DEF IInv

LEMMA UnlockPreserves ==
  ASSUME IInv, NEW t \in Threads, Unlock(t)
  PROVE  IInv'
<1>1. pc[t] = "unlock" /\ pc[t] \in Inside
  BY DEF Unlock, Inside
<1>2. /\ holder = t /\ holder # Free
      /\ \A u \in Threads \ {t} : pc[u] \notin Inside
  BY <1>1, Alone
<1> USE DEF IInv, Unlock, Goto, chip
<1>3. TypeOK'
  BY DEF TypeOK, Labels
<1>4. Exclusion'
  BY <1>2, FreeAssumption DEF Exclusion, TypeOK, Inside
<1>5. Carrying'
  BY <1>1 DEF Carrying, TypeOK
<1>6. Steering'
  BY <1>2 DEF Steering, TypeOK, Inside
<1>7. Isolation'
  BY <1>2 DEF Isolation, TypeOK, Inside
<1>8. MarkHasABatch'
  BY <1>1 DEF MarkHasABatch, Marked, TypeOK
<1> QED
  BY <1>3, <1>4, <1>5, <1>6, <1>7, <1>8

LEMMA ClearMarkPreserves ==
  ASSUME IInv, NEW t \in Threads, ClearMark(t)
  PROVE  IInv'
<1> USE DEF IInv, ClearMark, Goto, chip
<1>1. TypeOK'
  <2>1. got' \in [Threads -> Seq(Byte \cup {Ack})]
    BY EmptySeq DEF TypeOK
  <2>2. age' \in 0..(Limit + 1) /\ step' \in [Threads -> 1..12]
    BY LimitAssumption DEF TypeOK
  <2> QED
    BY <2>1, <2>2 DEF TypeOK, Labels
<1>2. Exclusion'
  BY DEF Exclusion, TypeOK, Inside
<1>3. Carrying'
  <2>1. Len(<< >>) <= Len(<< >>)
    BY EmptySeq
  <2> QED
    BY <2>1 DEF Carrying, TypeOK
<1>4. Steering'
  BY DEF Steering, SteeredBy, CurrentOp, TypeOK
<1>5. Isolation'
  BY DEF Isolation, PartDone, TypeOK, Inside
<1>6. MarkHasABatch'
  BY DEF MarkHasABatch
<1> QED
  BY <1>1, <1>2, <1>3, <1>4, <1>5, <1>6

(* The clock, the watchdog and stuttering leave the mutex and chip alone.  *)
LEMMA OthersPreserve ==
  ASSUME IInv, Tick \/ Watchdog \/ UNCHANGED vars
  PROVE  IInv'
<1>1. UNCHANGED <<index, sub, high, low, mem, holder, pc, prog, got, step, snap>>
  BY DEF Tick, Watchdog, vars, chip, daemon
<1>2. /\ age' \in 0..(Limit + 1) /\ (age' # 0 => age # 0)
      /\ warned' \in BOOLEAN
  <2>1. age \in 0..(Limit + 1) /\ warned \in BOOLEAN
    BY DEF IInv, TypeOK
  <2>2. CASE Tick
    BY <2>1, <2>2, LimitAssumption DEF Tick
  <2>3. CASE Watchdog
    BY <2>1, <2>3 DEF Watchdog
  <2>4. CASE UNCHANGED vars
    BY <2>1, <2>4 DEF vars, daemon
  <2> QED
    BY <2>2, <2>3, <2>4
<1>3. TypeOK'
  BY <1>1, <1>2 DEF IInv, TypeOK
<1>4. Exclusion' /\ Carrying'
  BY <1>1 DEF IInv, Exclusion, Carrying
<1>5. Steering' /\ Isolation'
  BY <1>1 DEF IInv, Steering, SteeredBy, CurrentOp, Isolation, PartDone
<1>6. MarkHasABatch'
  BY <1>1, <1>2 DEF IInv, MarkHasABatch
<1> QED
  BY <1>3, <1>4, <1>5, <1>6 DEF IInv

LEMMA NextPreservesIInv == IInv /\ [Next]_vars => IInv'
<1> SUFFICES ASSUME IInv, [Next]_vars PROVE IInv'
  OBVIOUS
<1>1. ASSUME NEW t \in Threads,
             Lock(t) \/ Run(t) \/ PortError(t) \/ Stall(t) \/ Resume(t)
      PROVE  IInv'
  BY <1>1, LockPreserves, MovePreserves, OutbPreserves, CompletePreserves,
     UnlockPreserves, ClearMarkPreserves DEF Run
<1>2. CASE Tick \/ Watchdog \/ UNCHANGED vars
  BY <1>2, OthersPreserve
<1> QED
  BY <1>1, <1>2 DEF Next

(* IInv is inductive.                                                      *)
THEOREM IInvHolds == Spec => []IInv
<1> QED
  BY InitIInv, NextPreservesIInv, PTL DEF Spec

-----------------------------------------------------------------------------
(* Every variable keeps its type, for any threads, registers and batches   *)
(* (daemon/src/ec/mod.rs:157-289).                                         *)
THEOREM TypeCorrect == Spec => []TypeOK
<1>1. IInv => TypeOK
  BY DEF IInv
<1> QED
  BY <1>1, IInvHolds, PTL

(* Every access of every batch moves its byte at its own address, with no  *)
(* other thread inside the mutex, also after an access that an I/O error   *)
(* left half-steered (daemon/src/ec/mod.rs:227-276).                       *)
THEOREM AccessesHitTheirAddress == Spec => []AccessHitsItsAddress
<1>1. IInv => AccessHitsItsAddress
  <2> SUFFICES ASSUME IInv, NEW t \in Threads,
                      pc[t] \in {"io", "stall"}, step[t] = 12
               PROVE  /\ index = "2F" /\ sub = "12"
                      /\ <<high, low>> = Memory!AddressOf(CurrentOp(t))
                      /\ \A u \in Threads \ {t} : pc[u] \notin Inside
    BY DEF AccessHitsItsAddress
  <2> QED
    BY ByteMoves, Alone DEF Inside
<1> QED
  BY <1>1, IInvHolds, PTL

(* The watchdog never measures a batch that is over                        *)
(* (daemon/src/ec/mod.rs:188-198, daemon/src/main.rs:180-198).             *)
THEOREM MarksHaveBatches == Spec => []MarkHasABatch
<1>1. IInv => MarkHasABatch
  BY DEF IInv
<1> QED
  BY <1>1, IInvHolds, PTL

-----------------------------------------------------------------------------
(* The refinement.                                                         *)

LEMMA InitRefines == Init => Memory!Init
BY DEF Init, Memory!Init, Memory!Address, Phase, Delivered

(* Taking the mutex is the call of the batch.                              *)
LEMMA LockIsCall ==
  ASSUME IInv, NEW t \in Threads, Lock(t)
  PROVE  Memory!Call(t)
<1> USE DEF Lock, Goto, IInv, TypeOK
<1>1. Phase[t] = "idle" /\ Phase' = [Phase EXCEPT ![t] = "called"]
  BY DEF Phase
<1>2. Delivered' = Delivered
  BY DEF Delivered
<1> QED
  BY <1>1, <1>2 DEF Memory!Call

(* Letting go of the mutex is the moment the batch takes effect.           *)
LEMMA UnlockIsCommit ==
  ASSUME IInv, NEW t \in Threads, Unlock(t)
  PROVE  Memory!Commit(t)
<1>1. pc[t] = "unlock" /\ pc[t] \in Inside
  BY DEF Unlock, Inside
<1>2. PartDone(t)
  BY <1>1 DEF IInv, Isolation
<1>3. Len(got[t]) \in 0..Len(prog[t])
  <2>1. Len(got[t]) \in Nat
    BY LenProperties DEF IInv, TypeOK
  <2>2. prog[t] \in Batches /\ Len(got[t]) <= Len(prog[t])
    BY <1>1 DEF IInv, Carrying
  <2> QED
    BY <2>1, <2>2, BatchIsOps
<1>4. Phase[t] = "called" /\ Phase' = [Phase EXCEPT ![t] = "done"]
  BY <1>1 DEF Phase, Unlock, Goto, IInv, TypeOK
<1>5. Delivered' = [Delivered EXCEPT ![t] = got[t]]
  BY <1>1 DEF Delivered, Unlock, Goto, IInv, TypeOK
<1>6. snap' = mem /\ prog' = prog
  BY DEF Unlock
<1> QED
  BY <1>2, <1>3, <1>4, <1>5, <1>6 DEF Memory!Commit, PartDone

(* Clearing the mark is the return to the caller.                          *)
LEMMA ClearMarkIsReturn ==
  ASSUME IInv, NEW t \in Threads, ClearMark(t)
  PROVE  Memory!Return(t)
<1> USE DEF ClearMark, Goto, IInv, TypeOK
<1>1. Phase[t] = "done" /\ Phase' = [Phase EXCEPT ![t] = "idle"]
  BY DEF Phase
<1>2. Delivered' = [Delivered EXCEPT ![t] = << >>]
  BY DEF Delivered
<1> QED
  BY <1>1, <1>2 DEF Memory!Return

(* Every other step is invisible to the callers.                           *)
LEMMA OthersStutter ==
  ASSUME IInv,
         \/ \E t \in Threads : \/ Mark(t) \/ Outb(t) \/ WriteByte(t)
                               \/ ReadByte(t) \/ PortError(t)
                               \/ Stall(t) \/ Resume(t)
         \/ Tick \/ Watchdog \/ UNCHANGED vars
  PROVE  UNCHANGED Memory!vars
<1>1. UNCHANGED <<snap, prog>>
  BY DEF Mark, Outb, WriteByte, ReadByte, Complete, PortError, Stall, Resume,
         Tick, Watchdog, vars, daemon
<1>2. \A u \in Threads :
        \/ pc'[u] = pc[u] /\ got'[u] = got[u]
        \/ /\ pc[u] \in {"mark", "io", "stall"}
           /\ pc'[u] \in {"io", "stall", "unlock"}
  BY DEF Mark, Outb, WriteByte, ReadByte, Complete, PortError, Stall, Resume,
         Goto, Tick, Watchdog, vars, daemon, IInv, TypeOK
<1>3. Phase' = Phase
  BY <1>2 DEF Phase
<1>4. Delivered' = Delivered
  BY <1>2 DEF Delivered
<1> QED
  BY <1>1, <1>3, <1>4 DEF Memory!vars

(* EcDevice implements EcMemory: whatever the interleaving of port writes  *)
(* and I/O errors, every batch takes effect as a whole or up to the        *)
(* operation that failed (daemon/src/ec/mod.rs:154-183).                   *)
THEOREM BatchesTakeEffectAtomically == Spec => BatchesAreAtomic
<1>1. Init => Memory!Init
  BY InitRefines
<1>2. IInv /\ [Next]_vars => [Memory!Next]_(Memory!vars)
  <2> SUFFICES ASSUME IInv, [Next]_vars
               PROVE  [Memory!Next]_(Memory!vars)
    OBVIOUS
  <2>1. ASSUME NEW t \in Threads, Lock(t) \/ Unlock(t) \/ ClearMark(t)
        PROVE  Memory!Next
    BY <2>1, LockIsCall, UnlockIsCommit, ClearMarkIsReturn DEF Memory!Next
  <2>2. CASE \/ \E t \in Threads : \/ Mark(t) \/ Outb(t) \/ WriteByte(t)
                                  \/ ReadByte(t) \/ PortError(t)
                                  \/ Stall(t) \/ Resume(t)
             \/ Tick \/ Watchdog \/ UNCHANGED vars
    BY <2>2, OthersStutter
  <2> QED
    BY <2>1, <2>2 DEF Next, Run
<1> QED
  BY <1>1, <1>2, IInvHolds, PTL DEF Spec, BatchesAreAtomic, Memory!Spec

-----------------------------------------------------------------------------
(* The watchdog's report.                                                  *)

(* The watchdog, which takes no lock, can always make a report that is     *)
(* due.  ENABLED is beyond the provers, so this is a hypothesis.           *)
WatchdogCanRun == [](age > Limit /\ ~warned => ENABLED <<Watchdog>>_vars)

(* A batch that stays over the limit is reported, and the report is not    *)
(* taken back, for any threads, batches and limit: of StuckBatchIsReported *)
(* this leaves the clock's way to the limit (main.rs:175-198).             *)
THEOREM OverdueIsReported ==
  FairSpec /\ WatchdogCanRun => (<>[](age > Limit) => <>[]warned)
<1> DEFINE Over == age > Limit
           Due  == Over /\ ~warned
<1>1. TypeOK /\ [Next]_vars /\ Over /\ warned => warned'
  <2> SUFFICES ASSUME TypeOK, [Next]_vars, Over, warned PROVE warned'
    OBVIOUS
  <2>1. CASE Watchdog
    BY <2>1, LimitAssumption DEF Watchdog, TypeOK
  <2>2. CASE ~Watchdog
    <3>1. warned' = warned
      BY <2>2 DEF Next, Run, Lock, Mark, Outb, WriteByte, ReadByte, Complete, Unlock, ClearMark,
                  PortError, Stall, Resume, Tick, vars, daemon
    <3> QED BY <3>1
  <2> QED BY <2>1, <2>2
<1>2. TypeOK /\ Over /\ Watchdog => warned'
  BY LimitAssumption DEF Watchdog, TypeOK
<1>3. FairSpec => []TypeOK
  BY TypeCorrect, PTL DEF FairSpec
<1>4. FairSpec => WF_vars(Watchdog)
  BY PTL DEF FairSpec, Fairness
<1>5. WatchdogCanRun => [](Due => ENABLED <<Watchdog>>_vars)
  BY PTL DEF WatchdogCanRun
<1>6. Due <=> Over /\ ~warned
  OBVIOUS
<1> HIDE DEF Over, Due
<1>7. FairSpec /\ WatchdogCanRun => (<>[]Over => <>[]warned)
  BY <1>1, <1>2, <1>3, <1>4, <1>5, <1>6, PTL DEF FairSpec, Spec
<1> QED BY <1>7 DEF Over
=============================================================================
