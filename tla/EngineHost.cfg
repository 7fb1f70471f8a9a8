\* Two launches; two changes of files or servers of others.
SPECIFICATION FairSpec
CONSTANTS
  Platform = "macos"
  Budget = 9
  ModelSize = 4
  SupportSize = 2
  Requests <- Local
  MaxLaunches = 2
  MaxEvents = 2
INVARIANTS
  OneModelResident
  FrontendHasModel
PROPERTIES
  PublishesWhatItPrepared
  LaunchEnds
CHECK_DEADLOCK FALSE
