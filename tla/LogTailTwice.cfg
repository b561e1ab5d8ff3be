SPECIFICATION Spec
CONSTANTS
  Pod = {p1, p2}
  NoPod = NoPod
  Line = {a, b}
  Blank = Blank
  TailLines = 3
  MaxOutput = 6
  MaxRestarts = 1
  ComesBack = TRUE
SYMMETRY Symmetry
INVARIANT NoTailTwice
CHECK_DEADLOCK FALSE
