SPECIFICATION FMSpec
CONSTANTS
  Fibers = {16777218, 16777219}
  Flags = {0, 1, 8}
  WaitFlagStackSize = 1
  WaitFlagFiberStackSize = 1
  WaitModes <- OwnershipWaits
  FlagWords = {}
  GlobalWords = {}
  GuardWords = {}
  Objects = {}
  Times = {0}
  MaxTick = 0
  MaxUnpopped = 0
  ScheduleCapacity = 2
  ScriptMayDelete = FALSE
  ScriptMayErase = TRUE
INVARIANT ActiveStay
