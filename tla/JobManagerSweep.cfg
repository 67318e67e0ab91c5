\* A node crashes under its job and may stay down, or is only late.
SPECIFICATION SweepSpec
CONSTANTS
  n1 = n1
  n2 = n2
  r = r
  j1 = j1
  j2 = j2
  j3 = j3
  j4 = j4
  j5 = j5
  s = s
  k1 = k1
  k2 = k2
  NoJob = NoJob
  NoNode = NoNode
  Nodes = {n1, n2}
  Jobs <- LoneJobs
  Parent <- LoneParent
  Root <- LoneRoot
  NodeOf <- LoneNode
  AddedBy <- LoneAdded
  Submitter <- LoneSubmitter
  Tagged = {}
  Containers = {}
  Failing = {}
  Abortable = {r}
  AbortHandlers = {}
  UserAborts = {}
  Pacemaker = n1
  Laggards = {n2}
  Crashing = {n2}
  MaxTrees = 1
  MaxCrashes = 1
  MaxAborts = 1
  OtherTrees = FALSE
  FilterLimit = 100
PROPERTIES RunningEnds
CHECK_DEADLOCK FALSE
