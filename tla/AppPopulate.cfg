SPECIFICATION Spec
CONSTANTS
  a1 = a1
  a2 = a2
  x = x
  y = y
  g = g
  Anchor = {a1, a2}
  Addr = {x, y, g}
  OwnAddr <- MCOwnAddr
  NetText = {g}
  RowText = {x, "outOfRange"}
  Job = {}
  Scanner = {s1, s2}
  Conn = {}
  NoConn = NoConn
  MaxAnnounce = 2
  Env = {"late", "noHost", "busyUser"}
CHECK_DEADLOCK FALSE
SYMMETRY MCSymmetry
INVARIANTS
  RowsKnown
  NoDuplicates
PROPERTIES
  PopulateDistinct
