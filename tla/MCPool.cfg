CONSTANTS
  Conns = {c1, c2}
  Handlers = {h1, h2, h3}
  Nesting = {h2}
  Workers = {w1}
  MaxOutages = 1
  MaxExpired = 1
SPECIFICATION FairPoolSpec
CHECK_DEADLOCK FALSE
INVARIANTS PoolTypeOK ConnExclusive CapacityKept NoLostWakeup NoHoldAndWait NothingLeftOpen
PROPERTIES AnsweredWhileWhole StopsWhileWhole
