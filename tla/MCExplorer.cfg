\* One request, which shares nothing with others, on two peers and a chain of two.
CONSTANTS
  Reqs = {r1}
  Peers = {p1, p2}
  Keys = {kA, kB}
  Txs = {t1, t2}
  Missing = Missing
  Nums <- MCNums
  Half = 4
  MaxFinds = 2
SPECIFICATION FairSpec
INVARIANTS
  TypeOK
  HistoryIsExact
  AmountsHaveNoHistory
  ShownIsCommitted
PROPERTIES
  ReadsAreAnswered
  ReadsAreBounded
  ImplementsLedgerReader
CHECK_DEADLOCK FALSE
