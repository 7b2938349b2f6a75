\* RecoveryLost
SPECIFICATION FairSpec
CONSTANTS
  Drivers = {"bxcan", "mcan"}
PROPERTIES
  RecoversAlways
