CONSTANTS
  MAX_TASKS = 4
  Root = {r1, r2, r3}
  KernelRoot = KernelRoot
  NoRoot = NoRoot
SPECIFICATION Spec
INVARIANT ActiveRootNotFreed
