SPECIFICATION CLISpec
CONSTANTS
  Argument <- MCTyped
  LENGTH = 3
  N_SLOTS = 2
  N_WATCHED = 3
INVARIANTS
  CLITypeOK
  SettingsAsTyped
  BothHalvesEnable
  ListsAsTyped
CHECK_DEADLOCK FALSE
