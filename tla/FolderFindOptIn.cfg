\* Each of the two is violated; the second needs MaxIncidents = 3.
CONSTANTS
  MaxIncidents = 1
SPECIFICATION LifecycleSpec
INVARIANTS OptInPersists
PROPERTIES GoneLeavesSearch
CHECK_DEADLOCK FALSE
