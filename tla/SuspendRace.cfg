\* SuspendRace
SPECIFICATION Spec
CONSTANTS
  Drivers = {"bxcan", "mcan"}
INVARIANTS
  SuspendedOffBus
