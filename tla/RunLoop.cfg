SPECIFICATION FairSpec
CONSTANTS
  Irqs <- MCIrqs
  Prios <- MCPrios
  Targets <- MCTargets
  MaxU64 = 15
  FifoCap = 1
  MaxU32 = 1
  Slice = 2
  IoInterval = 2
  MaxInput = 2
  Machines <- MCMachines
INVARIANTS
  CachesSound
PROPERTIES
  NeverOvershoots
  InputNeverLost
  Wakes
  DeadWaitEnds
