SPECIFICATION Spec
CONSTANTS
  c1 = c1
  c2 = c2
  c3 = c3
  A = A
  B = B
  k1 = k1
  k2 = k2
  k3 = k3
  i1 = i1
  CPUs <- MCCPUs
  Spaces <- MCSpaces
  FaultLocks <- MCFaultLocks
  AnonIds <- MCAnonIds
  Programs <- ReadOnlyPrograms
  Pages = {1, 2}
  Values = {0, 1}
  PHYMM_END = 4
  MAX_BUDDY_ORDER = 2
  PREFERRED_BASE = 1
  KERNEL_LIMIT = 4
  HIGH_BASE = 4
  KernelRoot = KernelRoot
  NoEntry = NoEntry
  NoCPU = NoCPU
  NoSpace = NoSpace
  NoFrame = NoFrame
  NoRegion = NoRegion
  NoAnon = NoAnon
INVARIANT
  SharedMappedReadOnly
CHECK_DEADLOCK FALSE
