\* A transaction is committed after its call has returned.
CONSTANTS
  Calls = {c1}
  Peers = {p1}
  Keys = {k1}
  Values = {v1}
  Missing = Missing
  MaxRetries = 1
SPECIFICATION ClientSpec
PROPERTIES
  SynchronousTransaction
CHECK_DEADLOCK FALSE
