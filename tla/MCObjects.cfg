SPECIFICATION ObjectsSpec
CONSTANTS
  class1 = class1
  parent1 = parent1
  parent2 = parent2
  global1 = global1
  pkg1 = pkg1
  pkg2 = pkg2
  fn1 = fn1
  None = None
  Names = {class1, parent1, parent2, global1}
  Global = global1
  Pkgs = {pkg1, pkg2}
  Fns = {fn1}
  MaxActivePackages = 2
  RefModulus = 8
  MaxLinks = 2
  FoundSpaces <- MCFound
  LinkPairs <- MCLinks
  ScriptDecls <- MCDecls
  LinkedObjects = {1, 2}
  NativeClass = "SimObject"
  ScriptClass = "Script"
  ClassNames = {"K", "L"}
  SuperNames = {"S", "K"}
  ObjectNames = {"n", "m"}
  CountModulus = 1024
  MaxLinkSteps = 4
  IntBits = 12
  SigDigits = 3
  NumberBuffer = 4
  TempSize = 8
  ListBuffer = 12
  ObjectIds = {1, 2}
  EnumLabels <- MCLabels
  FieldOrder <- MCFieldOrder
  TypeOf <- MCTypeOf
  CountOf <- MCCountOf
  ScriptFields <- MCScriptFields
  IndexOf <- MCIndexOf
  Texts <- MCTexts
  Leftovers <- MCLeftovers
  Objects = {1, 2}
  DynamicNames = {"x", "tags0", "locked"}
  Keys = {"", "0", "1", "2"}
  MaxSets = 2
  LineBuffer = 4
  FileChars = {"a", "B", "E", "r", "n"}
  MaxText = 5
  MaxSaves = 2
  SetIds = {1, 2}
  GroupIds = {3}
  Leaves = {4, 5}
  NameOf <- MCNameOf
  InternalNameOf <- MCInternalNameOf
  MaxSetEdits = 3
INVARIANTS
  EntriesKnowTheirNamespace
  PackagesConsistent
  LinksExact
  FieldsSurvive
  SetsAgree
PROPERTIES
  DeclarationsKeepPackages
  SaveKeepsRest
  TablesFollowDefinitions
