CONSTANTS
  Sids = {s1, s2}
  Handlers = {h1, h2}
  NoSid = NoSid
  Lifetime = 0
  MaxTime = 2
  MaxStops = 1
  MaxFaults = 1
SPECIFICATION FairSessSpec
INVARIANTS SessTypeOK LogoutIsFinal LiveSessionKept StopNotMissed
PROPERTIES StaleFilesRemoved StopCompletes
