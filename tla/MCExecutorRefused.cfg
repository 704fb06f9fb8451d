CONSTANTS
  Subs = {s1, s2}
  Workers = {w1}
  Handlers = {h1, h2}
  NoSub = NoSub
  Programs <- OneProgram
  MaxQueue = 1
  MaxFaults = 0
  MaxStops = 0
SPECIFICATION ConnectedExecSpec
PROPERTIES PendingIsDecided
