SPECIFICATION Spec
CONSTANTS
  here = here
  there = there
  None = None
  Jobs = {here, there}
  Remote = {there}
  Start0 <- Written
  MaxLines = 3
  MaxSend = 2
  MaxStarts = 2
INVARIANTS TypeOK WatchesBalanced
PROPERTIES FollowsLog
CHECK_DEADLOCK FALSE
