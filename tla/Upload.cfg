SPECIFICATION Spec
CONSTANTS
  t1 = t1
  t2 = t2
  v1 = v1
  Nobody = Nobody
  Missing = Missing
  Uploaders = {t1, t2}
  Content <- OneContent
  Slots = 2
  Size = 3
  MaxFaults = 1
INVARIANTS TypeOK SlotsRespected QuietAfterEnd NeverStalls
PROPERTIES UploadEnds ArrivesInTheEnd
CHECK_DEADLOCK FALSE
