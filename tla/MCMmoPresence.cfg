CONSTANTS
  p1 = p1  p2 = p2
  Peer = {p1, p2}
  mA = mA  mB = mB
  Map = {mA, mB}
  x = x  y = y
  Pos = {x, y}
  Payload = {}
  MaxDraws = 2
  MaxWalks = 1
  AppMessages <- BattleApp
SPECIFICATION StartFair
INVARIANTS
  PresenceTypeOK
  ViewCatchesUp
  ReportsArrive
PROPERTIES
  ViewsConverge
CHECK_DEADLOCK FALSE
