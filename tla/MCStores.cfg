SPECIFICATION MCSpec
CONSTANTS
    group1 = group1
    group2 = group2
    object1 = object1
    BlockIds = {1, 2, 3, 4}
    FileNames = {"a"}
    Scripts <- SomeScripts
    Fibers = {1, 2}
    TableIds = {1, 2, 3, 4}
    ObjNames = {"o"}
    MaxFrames = 2
    MaxDumps = 1
SYMMETRY GroupsAlike
INVARIANTS
  StoreConsistent
  NamesFindable
  GroupsAgree
CHECK_DEADLOCK FALSE
