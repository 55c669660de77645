SPECIFICATION FormSpec
CONSTANTS
  Presets <- MCPresets
  First <- MCFirst
  Overtakes = FALSE
  MaxWork = 3
  Others = {"conc"}
PROPERTY BasicIsSaved
CHECK_DEADLOCK FALSE
