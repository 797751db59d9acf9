\* memory::Mutex
CONSTANTS
  Threads = 1
  Processes = 1
  Locks = 1
  Masks = FALSE
SPECIFICATION Spec
INVARIANT NoDeadSpin
