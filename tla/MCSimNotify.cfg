SPECIFICATION SimSpec
CONSTANTS
  Objects = {"g", "s", "x"}
  Sets = {"s"}
  Groups = {"g"}
  Names = {}
  hashTableSize = 29
  Emitters = {"s"}
  Listeners = {"x"}
  Methods = {"m1", "m2"}
  Refs = {"r"}
  MaxCalls = 2
  NoName = NoName
  NoObject = NoObject
INVARIANTS
  NotesConsistent
CHECK_DEADLOCK FALSE
