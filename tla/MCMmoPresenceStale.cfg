CONSTANTS
  p1 = p1  p2 = p2
  Peer = {p1, p2}
  mA = mA
  Map = {mA}
  x = x  y = y
  Pos = {x, y}
  Payload = {}
  MaxDraws = 2
  MaxWalks = 1
  AppMessages <- BattleApp
SPECIFICATION PresenceSpec
INVARIANTS
  RecordIsReported
CHECK_DEADLOCK FALSE
