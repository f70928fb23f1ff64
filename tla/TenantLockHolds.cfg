SPECIFICATION FairSpec
CONSTANTS
  Nobody = Nobody
  Operations = {o1, o2}
  Duration = 2
  MaxTime = 5
  MaxFaults = 2
INVARIANTS TypeOK OneAtATimeWhenPunctual NoTwoWinners LetGoOnReturn RecordNamesHolder
PROPERTIES CallsReturn
CHECK_DEADLOCK FALSE
