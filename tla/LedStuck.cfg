CONSTANTS
  Callers = {c1, c2}
  LedAuto = LedAuto
  Levels = {l1, l2}
  Anims = {a1, a2}
  Unknown = Unknown
  Mishaps = {}
SPECIFICATION Spec
SYMMETRY Symmetry
INVARIANT
  CustomIsShown
