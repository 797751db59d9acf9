CONSTANTS
  Firmwares <- MCFirmwares
  ApicId = {0, 1, 2, 3, 4}
  Bsp = 0
  MAX_CPUS = 4
  X2APIC = FALSE
  HeapStacks = 3
  None = None
SPECIFICATION MCSpec
INVARIANTS OwnCpuSlot BringUpDone NoCpuForgotten StartedAreListed BootMemoryKept
PROPERTY BootCompletes
