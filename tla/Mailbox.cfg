CONSTANTS
  MAX_TASKS = 4
  Root = {r1}
  KernelRoot = KernelRoot
  NoRoot = NoRoot
  Dest = {1}
  NoMessage = NoMessage
SPECIFICATION MFairSpec
INVARIANTS ShellSurvives CpuMatchesTable OwnershipSound MessageKept WokenUp
PROPERTY NoStarvation
