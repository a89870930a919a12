\* One start whose join fails for a peer.
CONSTANTS
  Starts = {s1}
  Targets = {p1, p2}
  Listings = {{}, {p1}, {p1, p2}}
  Expected = 2
  MaxTries = 1
  Nobody = Nobody
SPECIFICATION Spec
INVARIANTS
  PassedIsJoined
CHECK_DEADLOCK FALSE
