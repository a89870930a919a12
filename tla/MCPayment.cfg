\* One payment.
CONSTANTS
  a = a
  b = b
  hundred = hundred
  red = red
  Txs = {t1, t2}
  stock = stock
  Keys = {a, b, c}
  Foreign = {stock}
  Called <- MCCalled
  Cars = {hundred, red}
  Missing = Missing
  Proposals <- MCProposals
  InitArgs <- MCInitArgs
  Half = 8
SPECIFICATION Spec
INVARIANTS
  PaymentConserves
CHECK_DEADLOCK FALSE
