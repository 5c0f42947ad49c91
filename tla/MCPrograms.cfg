SPECIFICATION ProgSpec
CONSTANTS
  no_of_artists = 4
  no_of_stages = 2
  no_of_coords = 1
  Instrument <- Band
  StageType <- TwoStages
  no_of_students = 2
  no_of_zones = 2
  no_of_comp = 1
  SLOTS = 2
  UNDER = 2
  BatchSizes = {3}
  BatchCounts = {1}
  Lengths = {0, 9}
  Numbers = {0, 1}
  Contents <- ThreeFiles
  CHUNK = 2
  MaxCopy = 6
  Inputs <- Sessions
  buf = 3
  OldFiles <- ShortFiles
  NewFiles <- OtherFiles
INVARIANTS
  OwnStage
  DosesAddUp
  DoneIsSorted
  ReceivedUnlessMixed
  VerdictRight
PROPERTIES ProgramsEnd
