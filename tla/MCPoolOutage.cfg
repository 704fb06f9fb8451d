CONSTANTS
  Conns = {c1}
  Handlers = {h1, h2}
  Nesting = {}
  Workers = {w1}
  MaxOutages = 1
  MaxExpired = 0
SPECIFICATION FairPoolSpec
CHECK_DEADLOCK FALSE
PROPERTIES RequestAnswered
