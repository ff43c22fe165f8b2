CONSTANTS
  Fates <- QuietOrOut
  Slot = {1}
  MaxTurns = 2
  Clock = FALSE
  Orders <- AsBegun
  Breaks = FALSE
SPECIFICATION Spec
INVARIANTS
  OutcomesAgree
CHECK_DEADLOCK FALSE
