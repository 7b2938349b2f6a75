\* Units
SPECIFICATION UnitsSpec
CONSTANTS
  Frames = {f1, f2, f3}
  Pool = pool
  ToHost = toHost
  Heads = {pool, toHost, fromHost}
  Channels = {0, 1}
  None = None
  Half = 4
  OffTime = 2
  OnTime = 3
  StepTime = 3
  Devices = {TRUE, FALSE}
  Units = {"lists", "leds", "dfu", "timing", "tdc", "report", "endpoint"}
INVARIANTS
  WellLinked
  PurgeComplete
  RestartInTime
  TimingApplied
  TdcApplied
  FramesAgree
  StepInSequence
  DarkInBlink
  BootLoaderAsked
  FramesWhole
  ReserveSuffices
  TakesPackets
PROPERTIES
  ImplementsQueues
  PurgeEnds
  DetachBoots
