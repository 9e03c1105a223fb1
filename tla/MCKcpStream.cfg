CONSTANTS
  InFlightSize = 2
  BufferSize = 1
  WindowSize = 1
  WideWindowSize = 2
  InitialRemoteNext = 0
  Burst = 1
  Modulus = 64
  MaxNumber = 2
  Delayed = 1
  DelayedPings = 0
SPECIFICATION MCSpec
INVARIANTS
  NoSegmentLost
  AckNotForgotten
PROPERTIES
  EventuallyDelivered
