SPECIFICATION ScriptsSpec
CONSTANTS
  RawNatives = {"num"}
  Throwers <- CompilerThrowers
  MaxTests = 6
  Flags = {8, 9}
  Fibers = {16777218, 16777219, 16777220}
  WaitFlagStackSize = 2
  WaitFlagFiberStackSize = 2
  MaxUnpopped = 3
  MaxArgs = 1
  MaxBody = 1
  ConsoleTypes = {"TypeS32", "TypeBool", "TypePoint"}
  OpsOf <- MCOpsOf
  Width = 6
  DoubleBits = 5
  FloatBits = 3
  Numbers <- MCNumbers
  Trees <- MCTrees
  NativeClasses <- MCNatives
  DefaultClass = "ScriptObject"
  Declarations <- MCDeclarations
  Links <- MCLinks
  MaxClassSteps = 6
  VarNames <- MCVarNames
  Texts <- MCTexts
  HashOf <- MCHashOf
  InitSize = 1
  NumberSize = 2
  HostSize = 3
  Patterns <- MCPatterns
  MaxVarSteps = 3
  FirstVariables <- MCFirstVariables
  Lists <- MCLists
  Receivers <- MCReceivers
  Delays = {0, 2}
  MaxScheduled = 2
  MaxClock = 2
  BUFFER_SIZE = 2
  W = 64
  MaxUses = 3
  MaxFile = 4
  Written <- MCWritten
  TextChars = {"_", "|", "/", "a"}
  MaxTextLength = 3
  Points = {65, 127, 128, 2047, 2048, 55295, 55297, 57344, 65533, 65535, 65536, 1114111}
  Bytes = {65, 128, 191, 195, 224, 240, 252, 255}
  MaxPoints = 2
  MaxConversions = 3
  ShortBuffers = {2, 5}
  Files = {"a.cs", "b.cs", "c.cs", "noext"}
  Unnamed = "noext"
  Contents <- MCContents
  MaxDepth = 4
  MaxExecs = 4
  ExpandoNames <- MCExpandoNames
  ExpandoPaths <- MCExpandoPaths
  Directories <- MCDirectories
  ScriptPaths <- MCScriptPaths
  FilePaths <- MCFilePaths
  PathBuffer = 30
  MaxPathSteps = 4
  Messages <- MCMessages
  Modes = {0, 1, 2, 6}
  Consumers = {"host"}
  Loggers = {"p", "q"}
  MaxLogSteps = 4
INVARIANTS
  CompiledRight
  FlagsConsistent
  ListingExact
  OpsMeanTheSame
  ReportsFormTheTree
  ClassesAgree
  TextFunctionsAgree
  TextSurvives
  ExecutedFilesAgree
  PathsAgree
  LogsAreComplete
PROPERTIES
  StreamIsPlainFile
  VariablesAgree
  ScheduledCallsKept
