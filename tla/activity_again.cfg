SPECIFICATION Spec
CONSTANTS
  None = None
  Objects = {o1, o2}
  MaxChanges = 2
  MaxDrops = 0
  MaxLink = 2
  MaxReqs = 1
PROPERTY NewerStateStays
CHECK_DEADLOCK FALSE
