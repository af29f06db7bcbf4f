CONSTANTS
  NHeaders = 3
  Above = 1
  WindowRows = 2
  MaxPackets = 5
SPECIFICATION Spec
INVARIANTS ScreenCatchesUp FrameIsHighlighted
PROPERTY QuitServed
