\* Two request jobs of one tree; the container that one adds is tagged.
SPECIFICATION Spec
CONSTANTS
  n1 = n1
  n2 = n2
  r = r
  j1 = j1
  j2 = j2
  j3 = j3
  j4 = j4
  j5 = j5
  s = s
  k1 = k1
  k2 = k2
  NoJob = NoJob
  NoNode = NoNode
  Nodes = {n1}
  Jobs <- TagJobs
  Parent <- TagParent
  Root <- TagRoot
  NodeOf <- TagNode
  AddedBy <- TagAdded
  Submitter <- TagSubmitter
  Tagged = {j2}
  Containers = {j1, j2}
  Failing = {}
  Abortable = {}
  AbortHandlers = {}
  UserAborts = {}
  Pacemaker = n1
  Laggards = {}
  Crashing = {}
  MaxTrees = 1
  MaxCrashes = 0
  MaxAborts = 0
  OtherTrees = TRUE
  FilterLimit = 100
INVARIANTS LeavesFirst
CHECK_DEADLOCK FALSE
