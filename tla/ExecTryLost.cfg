SPECIFICATION Spec
CONSTANTS
  Statements = {"try", "call", "throw", "delete"}
  Functions = {"f", "g"}
  Bits = {"a"}
  Sets = {}
  MaxTry = 2
  MaxIter = 1
  MaxStackDepth = 64
  CatchMasks = {{"a"}}
  ThrowMasks = {{"a"}}
  MaxFrames = 2
  MaxOpen = 2
  Elements = 2
INVARIANTS
  FramesRunOwnCode
