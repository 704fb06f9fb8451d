CONSTANTS
  Subs = {s1, s2}
  Workers = {w1, w2}
  Handlers = {h1}
  NoSub = NoSub
  Programs <- FourPrograms
  MaxQueue = 1
  MaxFaults = 2
  MaxStops = 1
SPECIFICATION ExecSpec
SYMMETRY Symmetry
INVARIANTS FreshSandbox ExecTypeOK WorkInv VerdictCorrect AccountedFor GracefulStop
PROPERTIES FinalIsFinal Lifecycle
