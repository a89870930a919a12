\* One request: what the client page tells its user.
CONSTANTS
  kA = kA
  zero = zero
  hundred = hundred
  red = red
  blue = blue
  Reqs = {r1}
  Boots = {}
  Calls = {r1}
  Peers = {p1}
  Keys = {kA}
  Values = {zero, hundred, red}
  Missing = Missing
  ZeroCar = zero
  ResetWrites <- MCResetWrites
  MaxRetries = 0
  MaxFinds = 2
SPECIFICATION Spec
INVARIANTS
  SuccessIsCommitted
CHECK_DEADLOCK FALSE
