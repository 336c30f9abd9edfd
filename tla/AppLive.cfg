SPECIFICATION FairSpec
CONSTANTS
  a1 = a1
  a2 = a2
  x = x
  y = y
  g = g
  Anchor = {a1, a2}
  Addr = {x, y}
  OwnAddr <- MCOwnAddr
  NetText = {x}
  RowText = {}
  Job = {j1}
  Scanner = {s1}
  Conn = {c1, c2}
  NoConn = NoConn
  MaxAnnounce = 1
  Env = {}
CHECK_DEADLOCK FALSE
PROPERTIES
  ApplyCompletes
  FoundIsListed
