SPECIFICATION FMFairSpec
CONSTANTS
  Fibers = {16777218, 16777219}
  Flags = {0, 1, 8}
  WaitFlagStackSize = 1
  WaitFlagFiberStackSize = 1
  WaitModes <- LiveWaits
  FlagWords = {{8}}
  GlobalWords = {{}, {8}}
  GuardWords = {}
  Objects = {}
  Times = {0, 1}
  MaxTick = 1
  MaxUnpopped = 0
  ScheduleCapacity = 2
  ScriptMayDelete = FALSE
  ScriptMayErase = FALSE
PROPERTIES
  DueFibersRun
  MarkedFibersGo
