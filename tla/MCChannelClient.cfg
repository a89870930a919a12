\* Two calls with one retry each; one peer that may lag behind the chain.
CONSTANTS
  Calls = {c1, c2}
  Peers = {p1}
  Keys = {k1}
  Values = {v1}
  Missing = Missing
  MaxRetries = 1
SPECIFICATION ClientFairSpec
INVARIANTS
  ClientTypeOK
  OkIsCommitted
  OnlySentIsOrdered
  IdsCommitOnce
PROPERTIES
  ImplementsSubmission
  CallsAreBounded
  CallsReturn
CHECK_DEADLOCK FALSE
