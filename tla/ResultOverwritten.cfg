\* A user aborts the only job of a tree, which then reports two results.
SPECIFICATION Spec
CONSTANTS
  n1 = n1
  n2 = n2
  r = r
  j1 = j1
  j2 = j2
  j3 = j3
  j4 = j4
  j5 = j5
  s = s
  k1 = k1
  k2 = k2
  NoJob = NoJob
  NoNode = NoNode
  Nodes = {n1, n2}
  Jobs <- LoneJobs
  Parent <- LoneParent
  Root <- LoneRoot
  NodeOf <- LoneNode
  AddedBy <- LoneAdded
  Submitter <- LoneSubmitter
  Tagged = {}
  Containers = {r}
  Failing = {}
  Abortable = {r}
  AbortHandlers = {}
  UserAborts = {r}
  Pacemaker = n1
  Laggards = {}
  Crashing = {}
  MaxTrees = 1
  MaxCrashes = 0
  MaxAborts = 1
  OtherTrees = FALSE
  FilterLimit = 100
PROPERTIES ResultIsKept
CHECK_DEADLOCK FALSE
