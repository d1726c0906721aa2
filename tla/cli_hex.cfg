SPECIFICATION CLISpec
CONSTANTS
  Argument <- MCTwoDigits
  LENGTH = 2
  N_SLOTS = 2
  N_WATCHED = 3
INVARIANT ListNamesIds
CHECK_DEADLOCK FALSE
