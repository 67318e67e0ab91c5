\* Connections and the Redis are lost and come back, managed or not, slow or not.
SPECIFICATION FairSpec
CONSTANTS
  Deployments = {"NONE", "CREATE"}
  Worlds <- SteadyAndRough
  MaxLosses = 5
  MaxQueue = 12
INVARIANTS TypeOK StaysUp
PROPERTIES PrepareCompletes Relinked NothingMissed
CHECK_DEADLOCK FALSE
