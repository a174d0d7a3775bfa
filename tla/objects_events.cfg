SPECIFICATION FairSpec
CONSTANTS
  yard = yard
  door = door
  Cameras = {yard, door}
  Changeable = {yard}
  Objects <- MCObjects
  MaxObjects <- MCMaxObjects
  MaxBatches = 2
  MaxMail = 1
  MaxChanges = 2
  None = None
INVARIANTS
  TypeOK
  OpenEventIsTracked
  EventsInProcessWillEnd
  ProcessorSurvives
PROPERTIES
  EndedEventsAreFinal
  EndedObjectsAreForgotten
