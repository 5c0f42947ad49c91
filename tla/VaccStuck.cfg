SPECIFICATION FairSpec
CONSTANTS
  no_of_students = 1
  no_of_zones = 1
  no_of_comp = 1
  SLOTS = 1
  UNDER = 1
  BatchSizes = {1}
  BatchCounts = {1}
PROPERTIES SimulationEnds
