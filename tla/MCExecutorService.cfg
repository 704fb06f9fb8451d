CONSTANTS
  Subs = {s1, s2}
  Workers = {w1, w2}
  Handlers = {h1, h2}
  NoSub = NoSub
  Programs <- OneProgram
  MaxQueue = 2
  MaxFaults = 0
  MaxStops = 1
SPECIFICATION FairExecSpec
INVARIANTS JudgedOnce NoSleepingWork
PROPERTIES AcceptedIsJudged ShutdownCompletes
