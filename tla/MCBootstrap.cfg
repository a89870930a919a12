\* Three starts of a gateway whose organisation has two peers, both expected, as in the fixtures.
CONSTANTS
  Starts = {s1, s2, s3}
  Targets = {p1, p2}
  Listings = {{}, {p1}, {p1, p2}}
  Expected = 2
  MaxTries = 1
  Nobody = Nobody
SPECIFICATION FairSpec
INVARIANTS
  InstantiatedIsInstalled
  ServingIsInstantiated
PROPERTIES
  StartEnds
  ImplementsDeployment
  StartsAreBounded
  SettledStartResets
CHECK_DEADLOCK FALSE
