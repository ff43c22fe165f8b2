CONSTANTS
  p1 = p1  p2 = p2  p3 = p3
  Peer = {p1, p2, p3}
  mA = mA
  Map = {mA}
  x = x
  Pos = {x}
  Payload <- LinkPayload
  Clash = {}
  Unfit = {}
  MaxAsks = 2
  MaxDraws = 4
SPECIFICATION FlowSpec
SYMMETRY Symmetry
INVARIANTS
  FlowTypeOK
  NetHasBattle
  BattleIsPlayed
  BattleIsNegotiated
CHECK_DEADLOCK FALSE
