SPECIFICATION RelaySpec
CONSTANTS
  N_SLOTS = 2
  I2C_SLAVE_ADDR_LIST <- MCTwoBoards
  Relay = {r0, r1}
  Value <- MCValue
  Mode = {0, 1}
  Fault = {"device", "write", "read"}
SYMMETRY MCSymmetry
INVARIANTS
  RelayTypeOK
  CacheFollowsNodes
  SafeModeMeansOff
  BoardOffOrAsCommanded
  CleanExitMeansOff
PROPERTY OnlyWritesEnergize
