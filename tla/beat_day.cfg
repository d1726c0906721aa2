SPECIFICATION Spec
CONSTANTS
  COUPLER_ID = 100
  LAST = 99999
  PATIENCE = 4
INVARIANTS
  BeatNamesSender
  EveryBeatShows
