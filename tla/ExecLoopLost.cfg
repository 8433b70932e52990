SPECIFICATION LoopsSpec
CONSTANTS
  Statements = {"foreach", "foreach$", "loop in foreach"}
  Functions = {"f", "g"}
  Bits = {"a"}
  Sets = {"s", "t"}
  MaxTry = 1
  MaxIter = 2
  MaxStackDepth = 8
  CatchMasks = {{"a"}}
  ThrowMasks = {{"a"}}
  MaxFrames = 1
  MaxOpen = 3
  Elements = 2
PROPERTY
  OuterLoopRestored
