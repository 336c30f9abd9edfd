SPECIFICATION Spec
CONSTANTS
  a1 = a1
  a2 = a2
  x = x
  y = y
  g = g
  Anchor = {a1, a2, a3}
  Addr = {x, y, g}
  OwnAddr <- MCOwnAddr
  NetText = {g}
  RowText = {"malformed"}
  Job = {j1}
  Scanner = {}
  Conn = {c1, c2, c3}
  NoConn = NoConn
  MaxAnnounce = 1
  Env = {"refuse", "ignore"}
CHECK_DEADLOCK FALSE
SYMMETRY MCSymmetry
INVARIANTS
  ApplyLocked
  OkMeansConfigured
  SentIsChecked
