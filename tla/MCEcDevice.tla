----------------------------- MODULE MCEcDevice -----------------------------
(***************************************************************************)
(* EcDevice for TLC: two byte values, hence four registers, and batches of *)
(* two accesses to registers that differ in both halves of their address.  *)
(***************************************************************************)
EXTENDS EcDevice, TLC

CONSTANTS Zero, One

Write(h, l, v) == [kind |-> "write", hi |-> h, lo |-> l, val |-> v]
Read(h, l)     == [kind |-> "read",  hi |-> h, lo |-> l, val |-> Zero]

MCByte == {Zero, One}

(* A paired write (fan policy and duty) and a read-and-write.              *)
MCBatches ==
  { << Write(Zero, One, One), Write(One, Zero, One) >>,
    << Read(Zero, One), Write(One, Zero, Zero) >> }

Symmetry == Permutations(Threads)

(* One power-on state: the first accesses already leave the latches and the *)
(* registers in any state the batches can bring about.                     *)
PowerOn ==
  /\ Init
  /\ index = "2E" /\ sub = "12" /\ high = Zero /\ low = Zero
  /\ mem = [a \in Byte \X Byte |-> Zero]

MCSpec == PowerOn /\ [][Next]_vars

MCFairSpec == MCSpec /\ Fairness
=============================================================================
