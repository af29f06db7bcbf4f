CONSTANTS
  RxSize = 32
  NHeaders = 2
  Lengths = {5, 9}
  Kinds = {arp, ipv4}
  Unset = Unset
  Clobbered = Clobbered
SPECIFICATION Spec
INVARIANT FrameCopySeparate

CHECK_DEADLOCK FALSE
