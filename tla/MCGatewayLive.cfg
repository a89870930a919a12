\* One request and one restart; nobody has written key kB yet.
CONSTANTS
  kA = kA
  zero = zero
  hundred = hundred
  red = red
  blue = blue
  Reqs = {r1}
  Boots = {b1}
  Calls = {r1, b1}
  Peers = {p1}
  Keys = {kA, kB}
  Values = {zero, hundred, red}
  Missing = Missing
  ZeroCar = zero
  ResetWrites <- MCResetWrites
  MaxRetries = 0
  MaxFinds = 2
SPECIFICATION FairSpec
PROPERTIES
  RequestsAreAnswered
  StartsEnd
  ImplementsSubmission
CHECK_DEADLOCK FALSE
