CONSTANTS
  Folders = {1,2,3}
  PerCycle = 2
  Slots = 1
  MaxChanges = 2
  MaxIncidents = 3
  Workers = {w1, w2}
  Threshold = 2
  MaxEvents = 2
  NoWorker = NoWorker
SPECIFICATION Spec
PROPERTIES FoldersServed Heals
CHECK_DEADLOCK FALSE
