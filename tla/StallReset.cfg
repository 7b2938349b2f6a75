\* StallReset
SPECIFICATION Spec
CONSTANTS
  f1 = f1
  f2 = f2
  f3 = f3
  f4 = f4
  NULL = NULL
  Frames <- Frames4
  NumChannels = 1
  RxBufs = 2
  DoubleBuffered = TRUE
  CanTraffic = TRUE
  Suspends = TRUE
  Reenumerates = TRUE
  EagerHost = FALSE
  TokenInWindow = FALSE
SYMMETRY Symmetry4
INVARIANTS
  InPipeAlive
\* A failed assertion halts the core (DataOutAssert).
CHECK_DEADLOCK FALSE
