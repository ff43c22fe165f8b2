CONSTANTS
  Fates <- GuestFirst
  Slot = {1}
  MaxTurns = 2
  Clock = TRUE
  Orders <- AsBegun
  Breaks = TRUE
SPECIFICATION StartFair
INVARIANTS
  LinkTypeOK
  SameTurns
  ActionsInStep
  DesyncIsReal
  OneWinnerAtMost
PROPERTIES
  EndFreesPeer
CHECK_DEADLOCK FALSE
