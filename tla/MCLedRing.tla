----------------------------- MODULE MCLedRing -----------------------------
(***************************************************************************)
(* LedRing for TLC: three callers, two levels and two animations.           *)
(***************************************************************************)
EXTENDS LedRing, TLC

Symmetry == Permutations(Callers) \cup Permutations(Levels)
            \cup Permutations(Anims)
=============================================================================
