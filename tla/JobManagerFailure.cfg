\* One of two parallel jobs may fail while the other runs, or a user aborts the only
\* job of a tree; the filter is emptied all the time.
SPECIFICATION FairSpec
CONSTANTS
  n1 = n1
  n2 = n2
  r = r
  j1 = j1
  j2 = j2
  j3 = j3
  j4 = j4
  j5 = j5
  s = s
  k1 = k1
  k2 = k2
  NoJob = NoJob
  NoNode = NoNode
  Nodes = {n1}
  Jobs <- ForkJobs
  Parent <- ForkParent
  Root <- ForkRoot
  NodeOf <- ForkNode
  AddedBy <- ForkAdded
  Submitter <- ForkSubmitter
  Tagged = {}
  Containers = {}
  Failing = {j2}
  Abortable = {j1, s}
  AbortHandlers = {r}
  UserAborts = {s}
  Pacemaker = n1
  Laggards = {}
  Crashing = {}
  MaxTrees = 1
  MaxCrashes = 0
  MaxAborts = 1
  OtherTrees = TRUE
  FilterLimit = 0
INVARIANTS HandlerRunsOnce StartedOnce SuccessIsEarned
PROPERTIES JobsSettle HandlersRun StartsInOrder
CHECK_DEADLOCK FALSE
