SPECIFICATION Spec
CONSTANTS
  COUPLER_ID = 100
  LAST = 100100
  PATIENCE = 4
INVARIANT BeatingIsNotDown
