SPECIFICATION FSpec
CONSTANTS
  Threads = 3
  Processes = 2
  Locks = 2
  Masks = TRUE
  RingCapacity = 2
  MaxBytes = 3
INVARIANTS MutualExclusion FlagRestored NoDeadSpin TakenOnce NoLostWakeup RegistersRestored
PROPERTIES LockReturns InputTaken
