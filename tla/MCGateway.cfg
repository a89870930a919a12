\* Two requests and one restart on the key that the restart resets.
CONSTANTS
  kA = kA
  zero = zero
  hundred = hundred
  red = red
  blue = blue
  Reqs = {r1, r2}
  Boots = {b1}
  Calls = {r1, r2, b1}
  Peers = {p1}
  Keys = {kA}
  Values = {zero, hundred, red}
  Missing = Missing
  ZeroCar = zero
  ResetWrites <- MCResetWrites
  MaxRetries = 0
  MaxFinds = 2
SPECIFICATION Spec
INVARIANTS
  TypeOK
  CacheProvenance
  AnswersHaveOrigin
  SuccessIsCommittedOrFailed
PROPERTIES
  ReplacedByReader
  RequestsAreBounded
CHECK_DEADLOCK FALSE
