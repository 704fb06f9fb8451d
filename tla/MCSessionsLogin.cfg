CONSTANTS
  Sids = {s1}
  Handlers = {h1}
  NoSid = NoSid
  Lifetime = 1
  MaxTime = 2
  MaxStops = 0
  MaxFaults = 0
SPECIFICATION SessSpec
INVARIANTS LoginGivesSession
