\* The node of a job crashes and comes back in a busy cluster.
SPECIFICATION BusySpec
CONSTANTS
  n1 = n1
  n2 = n2
  r = r
  j1 = j1
  j2 = j2
  j3 = j3
  j4 = j4
  j5 = j5
  s = s
  k1 = k1
  k2 = k2
  NoJob = NoJob
  NoNode = NoNode
  Nodes = {n1, n2}
  Jobs <- PairJobs
  Parent <- PairParent
  Root <- PairRoot
  NodeOf <- PairNode
  AddedBy <- PairAdded
  Submitter <- PairSubmitter
  Tagged = {}
  Containers = {}
  Failing = {}
  Abortable = {}
  AbortHandlers = {}
  UserAborts = {}
  Pacemaker = n1
  Laggards = {}
  Crashing = {n2}
  MaxTrees = 1
  MaxCrashes = 1
  MaxAborts = 0
  OtherTrees = TRUE
  FilterLimit = 100
INVARIANTS IndexMatchesState StartedOnce
PROPERTIES ContextComplete JobsSettle StartsInOrder
CHECK_DEADLOCK FALSE
