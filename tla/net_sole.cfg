SPECIFICATION NetSpec
CONSTANTS
  N_SLOTS = 0
  I2C_SLAVE_ADDR_LIST <- MCNoBoard
  Relay = {}
  Value = {}
  Mode = {0}
  Fault = {}
  Id <- MCIds
  COUPLER_ID <- MCOwn
  HEART_BEAT_ID_LIST <- MCWatchOne
  HEART_BEAT_INTERVAL = 2
  HEART_BEAT_TIMEOUT_INTERVAL = 3
  LATENESS = 0
  HALF_WORD = 9
  COUNTER_WORD = 1
  CLOCK_STEPS = {}
  DELAY = 1
  LAST = 7
INVARIANTS
  NetTypeOK
  DeadPeerMutes
  SoleBeatIsHeard
PROPERTIES
  ImplementsCoupler
  StampsAreFresh
