SPECIFICATION Spec
CONSTANTS
  Nobody = Nobody
  Operations = {o1, o2}
  Duration = 2
  MaxTime = 5
  MaxFaults = 2
INVARIANTS OneAtATime
CHECK_DEADLOCK FALSE
