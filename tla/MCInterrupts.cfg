CONSTANTS
  Lines <- DeviceLines
  Noisy <- NoisyLines
  Drivers <- InstallOrder
SPECIFICATION Spec
INVARIANT ResetOnlyBeforeGates
PROPERTIES EoiEndsOwn NoLineSticksAfterInit TimerServed
CHECK_DEADLOCK FALSE
