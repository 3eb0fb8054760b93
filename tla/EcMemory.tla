------------------------------ MODULE EcMemory ------------------------------
(***************************************************************************)
(* What the daemon's EC layer promises its callers: a register file that   *)
(* threads use through batches, each batch taking effect in one indivisible *)
(* step.  A batch is a sequence of single-byte register reads and writes.  *)
(* When port I/O fails part-way a batch takes effect up to the operation   *)
(* that failed and no further; it is never interleaved with another one.   *)
(* EcDevice implements this specification, port write by port write.       *)
(***************************************************************************)
EXTENDS Naturals, Sequences

CONSTANTS
  Threads,     \* the threads of the daemon that use the EC
  Byte,        \* the values of a register and of either half of an address
  Batches,     \* the batches a thread may run: sequences of operations
  Ack          \* the result of a write, which returns no byte

Op == [kind : {"read", "write"}, hi : Byte, lo : Byte, val : Byte]

Address == Byte \X Byte

AddressOf(op) == <<op.hi, op.lo>>

VARIABLES
  regs,        \* the register file
  phase,       \* per thread: "idle", "called" (before the effect), "done"
  prog,        \* per thread: the batch it is running, << >> between batches
  out          \* per thread: the results of the operations that took effect

vars == <<regs, phase, prog, out>>

-----------------------------------------------------------------------------
(* The indices of the writes to address a among the first n operations.    *)
Writers(p, n, a) == {i \in 1..n : p[i].kind = "write" /\ AddressOf(p[i]) = a}

Last(S) == CHOOSE i \in S : \A j \in S : j <= i

(* The register file after the first n operations of p, started on m.      *)
After(p, n, m) ==
  [a \in Address |-> IF Writers(p, n, a) = {} THEN m[a]
                     ELSE p[Last(Writers(p, n, a))].val]

(* What the i-th operation of p returns when p is started on m.            *)
Result(p, i, m) ==
  IF p[i].kind = "read" THEN After(p, i - 1, m)[AddressOf(p[i])] ELSE Ack

Results(p, n, m) == [i \in 1..n |-> Result(p, i, m)]

-----------------------------------------------------------------------------
Init ==
  /\ regs \in [Address -> Byte]
  /\ phase = [t \in Threads |-> "idle"]
  /\ prog = [t \in Threads |-> << >>]
  /\ out = [t \in Threads |-> << >>]

Call(t) ==
  /\ phase[t] = "idle"
  /\ \E b \in Batches : prog' = [prog EXCEPT ![t] = b]
  /\ phase' = [phase EXCEPT ![t] = "called"]
  /\ UNCHANGED <<regs, out>>

(* The batch takes effect: entirely, or up to an operation that failed.    *)
Commit(t) ==
  /\ phase[t] = "called"
  /\ \E n \in 0..Len(prog[t]) :
       /\ regs' = After(prog[t], n, regs)
       /\ out' = [out EXCEPT ![t] = Results(prog[t], n, regs)]
  /\ phase' = [phase EXCEPT ![t] = "done"]
  /\ UNCHANGED prog

Return(t) ==
  /\ phase[t] = "done"
  /\ phase' = [phase EXCEPT ![t] = "idle"]
  /\ prog' = [prog EXCEPT ![t] = << >>]
  /\ out' = [out EXCEPT ![t] = << >>]
  /\ UNCHANGED regs

Next == \E t \in Threads : Call(t) \/ Commit(t) \/ Return(t)

Spec == Init /\ [][Next]_vars
=============================================================================
