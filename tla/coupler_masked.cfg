SPECIFICATION Spec
CONSTANTS
  N_SLOTS = 2
  I2C_SLAVE_ADDR_LIST <- MCOneBoard
  Relay = {r0}
  Value = {0, 1}
  Mode = {0}
  Fault = {}
  Id = {1, 2}
  COUPLER_ID = 3
  HEART_BEAT_ID_LIST <- MCWatchTwo
  HEART_BEAT_INTERVAL = 2
  HEART_BEAT_TIMEOUT_INTERVAL = 3
  LATENESS = 0
  HALF_WORD = 8
  COUNTER_WORD = 3
  CLOCK_STEPS = {}
INVARIANT AnyWatchedDeadline
