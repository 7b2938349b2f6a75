\* FramesReset
SPECIFICATION Spec
CONSTANTS
  f1 = f1
  f2 = f2
  f3 = f3
  f4 = f4
  NULL = NULL
  Frames <- Frames3
  NumChannels = 2
  RxBufs = 1
  DoubleBuffered = FALSE
  CanTraffic = TRUE
  Suspends = TRUE
  Reenumerates = TRUE
  EagerHost = FALSE
  TokenInWindow = FALSE
SYMMETRY Symmetry3
INVARIANTS
  IInv
  InTransferOwned
  Conservation
PROPERTIES
  NoOvertaking
  ImplementsLifecycle
\* A failed assertion halts the core (DataOutAssert).
CHECK_DEADLOCK FALSE
