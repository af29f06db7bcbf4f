CONSTANTS
  NProcs = 3
  Quantum = 1
  TickMod = 6
  MaxDepth = 2
SPECIFICATION Spec
INVARIANTS MutualExclusion ContextsOwned RingInOrder NoDanglingPointer
PROPERTIES OnlyFinishedReaped DeadLosesCpu
CHECK_DEADLOCK FALSE
