CONSTANTS
  Labels = {1, 2}
  FixtureKeys = {1}
  Literals = {3}
  MaxRuns = 3
  MaxCrashes = 0
  MaxChanges = 1
SPECIFICATION TranslationSpec
PROPERTIES
  ParkedStaysFound
CHECK_DEADLOCK FALSE
