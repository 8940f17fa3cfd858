SPECIFICATION Spec
CONSTANTS
  k1 = k1
  k2 = k2
  Key <- MCKey
  Body = {"code", "vertex", "fragment"}
  Process = {"worker", "gui"}
  Worker = "worker"
  MaxDamage = 1
  Source <- MCSource
  Bad = {}
  Shaders <- MCShaders
  Calls <- MCCalls
INVARIANTS
  ObjectsKept
  ReportsAreTrue
PROPERTIES
  ProfiledWasCached
CHECK_DEADLOCK FALSE
