CONSTANTS
  Conns = {c1, c2}
  Handlers = {h1, h2}
  Nesting = {h1, h2}
  Workers = {w1}
  MaxOutages = 0
  MaxExpired = 0
SPECIFICATION FairPoolSpec
CHECK_DEADLOCK FALSE
PROPERTIES RequestAnswered
