\* Three transactions over two keys that hold something and one that does not; ints of 4 bits.
CONSTANTS
  a = a
  b = b
  hundred = hundred
  red = red
  Txs = {t1, t2, t3}
  stock = stock
  Keys = {a, b, c}
  Foreign = {stock}
  Called <- MCCalled
  Cars = {hundred, red}
  Missing = Missing
  Proposals <- MCProposals
  InitArgs <- MCInitArgs
  Half = 8
SPECIFICATION Spec
SYMMETRY Symmetry
INVARIANTS
  Serializable
  MoveConserves
  MarksAreCalls
  EntitiesStay
  CarsBecomeAmounts
PROPERTIES
  ImplementsSerialLedger
CHECK_DEADLOCK FALSE
