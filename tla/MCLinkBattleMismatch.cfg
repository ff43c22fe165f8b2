CONSTANTS
  Fates <- Quiet
  Slot = {1, 2}
  MaxTurns = 2
  Clock = FALSE
  Orders <- Reordered
  Breaks = FALSE
SPECIFICATION PlayingSpec
PROPERTIES
  MismatchEndsMatch
CHECK_DEADLOCK FALSE
