SPECIFICATION FairSpec
CONSTANTS
  None = None
  Objects = {o1}
  MaxChanges = 2
  MaxDrops = 1
  MaxLink = 2
  MaxReqs = 1
INVARIANTS TypeOK InStepAgrees
PROPERTIES NoOldCommandReturns CommandsArrive HealsOnFocus
CHECK_DEADLOCK FALSE
