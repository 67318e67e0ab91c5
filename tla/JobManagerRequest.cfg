\* A request job adds a job on the other node, or two on one node add jobs at a time.
SPECIFICATION FairSpec
CONSTANTS
  n1 = n1
  n2 = n2
  r = r
  j1 = j1
  j2 = j2
  j3 = j3
  j4 = j4
  j5 = j5
  s = s
  k1 = k1
  k2 = k2
  NoJob = NoJob
  NoNode = NoNode
  Nodes = {n1, n2}
  Jobs <- TwinJobs
  Parent <- TwinParent
  Root <- TwinRoot
  NodeOf <- TwinNode
  AddedBy <- TwinAdded
  Submitter <- TwinSubmitter
  Tagged = {j2}
  Containers = {j1, j2, j4, j5, k1, k2}
  Failing = {}
  Abortable = {}
  AbortHandlers = {}
  UserAborts = {}
  Pacemaker = n1
  Laggards = {}
  Crashing = {}
  MaxTrees = 1
  MaxCrashes = 0
  MaxAborts = 0
  OtherTrees = FALSE
  FilterLimit = 100
INVARIANTS TypeOK IndexMatchesState LeavesFirst
PROPERTIES FinishedIsFinal ContextComplete KeepsPromise
CHECK_DEADLOCK FALSE
