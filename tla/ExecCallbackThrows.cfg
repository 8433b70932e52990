SPECIFICATION Spec
CONSTANTS
  Statements = {"try", "throw", "callback"}
  Functions = {"f"}
  Bits = {"a"}
  Sets = {}
  MaxTry = 1
  MaxIter = 1
  MaxStackDepth = 64
  CatchMasks = {{"a"}}
  ThrowMasks = {{"a"}}
  MaxFrames = 3
  MaxOpen = 2
  Elements = 2
INVARIANTS
  NoFreedCallers
