SPECIFICATION Spec
CONSTANTS
  N_SLOTS = 2
  I2C_SLAVE_ADDR_LIST <- MCOneBoard
  Relay = {r0}
  Value = {0, 1}
  Mode = {1}
  Fault = {}
  Id = {1}
  COUPLER_ID = 3
  HEART_BEAT_ID_LIST <- MCWatchOne
  HEART_BEAT_INTERVAL = 2
  HEART_BEAT_TIMEOUT_INTERVAL = 4
  LATENESS = 0
  HALF_WORD = 9
  COUNTER_WORD = 3
  CLOCK_STEPS = {}
PROPERTY VirtualSetsNothing
