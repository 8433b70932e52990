SPECIFICATION RuntimeSpec
CONSTANTS
  Statements = {"try", "call", "throw", "yield", "eval", "start suspended", "delete"}
  Functions = {"f"}
  Bits = {"a"}
  Sets = {}
  MaxTry = 2
  MaxIter = 0
  MaxStackDepth = 4
  CatchMasks = {{"a"}}
  ThrowMasks = {{"a"}, {"a", "BIT(31)"}}
  MaxFrames = 3
  MaxOpen = 2
  Elements = 2
  Objects = {o1, o2}
  Root = root
  Workers = {w1}
  ObjectDeltas <- SignedDeltas
  Delays = {0}
  TimeModulus = 3
  MaxTime = 3
  MaxEvents = 3
  NoEvent = NoEvent
  NoTime = NoTime
  Letters <- LanguageLetters
  Interpolation = TRUE
  ScriptClasses = TRUE
  VarTokens = {"%a", "%b"}
  IdentTokens = {"x", "y", "f"}
  IntTokens = {"1"}
  FloatTokens = {"1.0"}
  MaxSymbols = 4
  MaxPieces = 2
  MaxTokens = 3
  MaxHandles = 2
  MaxFds = 2
  MaxPolled = 3
  Hosts = {"a", "b"}
  Unknown = {"b"}
  MaxInits = 1
  Uses = {{"names"}, {"ports"}, {"telnet"}, {"own"}}
  V4Hosts = {"0.0.0.0", "255.255.255.255", "10.0.0.1"}
  V6Hosts = {"::", "::1"}
  ScopedHosts = {"fe80::1%eth0"}
  NameHosts = {"localhost"}
  Ports = {0, 1, 65535}
  Sockets = {1, 2}
  MaxLineLength = 3
  Chars = {"x"}
  MaxRecv = 2
  telnetPassword <- ConsolePassword
  listenPassword <- ReadOnlyPassword
INVARIANTS
  FramesConsistent
  LoopsKept
  QueueIsSafe
  TokensAgree
  ParsedBack
  SocketsConsistent
  AddressesReadBack
  ConsoleSocketsOwned
PROPERTIES
  CallersUntouched
  KeepsPromise
