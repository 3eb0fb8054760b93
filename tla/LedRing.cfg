CONSTANTS
  Callers = {c1, c2, c3}
  LedAuto = LedAuto
  Levels = {l1, l2}
  Anims = {a1, a2}
  Unknown = Unknown
  Mishaps = {"error", "restart", "ec_reset", "fan"}
SPECIFICATION Spec
SYMMETRY Symmetry
INVARIANTS
  TypeOK
  FlagMeansBypassed
  RingShowsLastMode
