\* Tseg1Lost
SPECIFICATION UnitsSpec
CONSTANTS
  Frames = {f1, f2, f3}
  Pool = pool
  ToHost = toHost
  Heads = {pool, toHost, fromHost}
  Channels = {0, 1}
  None = None
  Half = 4
  OffTime = 2
  OnTime = 3
  StepTime = 3
  Devices = {TRUE, FALSE}
  Units = {"timing"}
INVARIANTS
  AdvertisedApplied
