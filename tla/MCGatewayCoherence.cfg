\* Two requests and a restart; the restart does not reset key kB, a lagging peer may answer.
CONSTANTS
  kA = kA
  kB = kB
  zero = zero
  hundred = hundred
  red = red
  blue = blue
  Reqs = {r1,r2}
  Boots = {b1}
  Calls = {r1, r2, b1}
  Peers = {p1, p2}
  Keys = {kB}
  Values = {zero, red, blue}
  Missing = Missing
  ZeroCar = zero
  ResetWrites <- MCResetWrites
  MaxRetries = 1
  MaxFinds = 2
SPECIFICATION CoherenceSpec
INVARIANTS
  CoherentUnlessSuspect
CONSTRAINT SomeKeyTrusted
SYMMETRY Symmetry
CHECK_DEADLOCK FALSE
