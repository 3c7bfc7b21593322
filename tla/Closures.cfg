SPECIFICATION FairSpec
CONSTANTS
  p = p
  f = f
  g = g
  h = h
  x = x
  Functions = {p, f, g, h}
  Variables = {x}
  Global = Global
  Programs <- MCPrograms
CHECK_DEADLOCK FALSE
INVARIANTS TypeOK UsesAreCaptured InwardCallsPassClosures
PROPERTY Terminates
