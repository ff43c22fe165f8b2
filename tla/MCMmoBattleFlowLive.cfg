CONSTANTS
  p1 = p1  p2 = p2
  Peer = {p1, p2}
  mA = mA
  Map = {mA}
  x = x
  Pos = {x}
  Payload <- LinkPayload
  Clash = {}
  Unfit = {}
  MaxAsks = 2
  MaxDraws = 4
SPECIFICATION FairFlow
PROPERTIES
  NegotiationEnds
  EndReachesBoth
CHECK_DEADLOCK FALSE
