CONSTANTS
  p1 = p1  p2 = p2  p3 = p3  p4 = p4
  Peer = {p1, p2, p3, p4}
  mA = mA  mB = mB
  Map = {mA, mB}
  x = x
  Pos = {x}
  hello = hello
  Payload = {hello}
  MaxDraws = 4
SPECIFICATION Spec
SYMMETRY Symmetry
INVARIANTS
  TypeOK
  OneEngagement
  BattleBooks
  OnlyJoinedEngaged
  FightersShareMap
PROPERTIES
  EndsAreReported
  StartsArePaired
  PayloadsStayInBattle
  SettledChallengesAreReported
  ImplementsSessions
CHECK_DEADLOCK FALSE
