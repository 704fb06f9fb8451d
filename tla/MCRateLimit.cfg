CONSTANTS
  Users = {u1, u2}
  Handlers = {h1, h2}
  NoUser = NoUser
  Ticks = 2
  Window = 2
  MaxTime = 6
  MaxBoots = 1
SPECIFICATION RateSpec
SYMMETRY Symmetry
INVARIANTS RateTypeOK Spaced RefusedForCause
