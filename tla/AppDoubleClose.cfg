SPECIFICATION Spec
CONSTANTS
  a1 = a1
  a2 = a2
  x = x
  y = y
  g = g
  Anchor = {a1, a2}
  Addr = {x, y, g}
  OwnAddr <- MCOwnAddr
  NetText = {g}
  RowText = {}
  Job = {j1}
  Scanner = {}
  Conn = {c1, c2}
  NoConn = NoConn
  MaxAnnounce = 1
  Env = {"drop"}
CHECK_DEADLOCK FALSE
SYMMETRY MCSymmetry
PROPERTIES
  ClosesOnlyItsOwn
