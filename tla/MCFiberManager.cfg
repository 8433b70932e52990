SPECIFICATION FMSpec
CONSTANTS
  Fibers = {16777218, 16777219}
  Flags = {0, 1, 8}
  WaitFlagStackSize = 1
  WaitFlagFiberStackSize = 1
  WaitModes <- OwnershipWaits
  FlagWords = {{}, {8}}
  GlobalWords = {}
  GuardWords = {{8}}
  Objects = {1}
  Times = {0}
  MaxTick = 0
  ScheduleCapacity = 2
  ScriptMayDelete = FALSE
  ScriptMayErase = FALSE
  MaxUnpopped = 1
INVARIANTS
  FibersConsistent
PROPERTIES
  SuspendRespected
