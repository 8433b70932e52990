------------------------------ MODULE MCStores ------------------------------
(* What outlives a call: code blocks, frames and written fibers (FiberStore)*)
(* and Sim objects with their names and groups (SimObjects), for TLC.  A    *)
(* behaviour asks one of three questions, so that the states of the one do  *)
(* not multiply those of the others: what dumps and restores do to frames,  *)
(* tables and blocks ("store"), what evaluating, declaring, calling and     *)
(* debugging do to blocks and their lines ("debug"), or what callbacks of   *)
(* creation and removal do to names and groups ("groups").                  *)
EXTENDS FiberStore

VARIABLES
  part,
  life, mSimFlags, gNextObjectId, mId, objectName, gIdDictionary, gNameDictionary,
  nameDictionary, mGroup, objectList, mNotifyList, mSignalListeners, mObj, calls

At(line, ip) == [line |-> line, ip |-> ip]
\* Two statements on a line, and an instruction between two lines.
Program == Script(TRUE, TRUE, <<At(1, 1), At(2, 2), At(2, 4), At(5, 5)>>)
Short == Script(TRUE, TRUE, <<At(2, 1)>>)
Broken == Script(FALSE, TRUE, <<>>)
Untyped == Script(TRUE, FALSE, <<At(3, 1)>>)
SomeScripts == {Program, Short, Broken, Untyped}

\* Two groups that may hold each other, and an object, with two names.
CONSTANTS group1, group2, object1
TwoGroups == {group1, group2}
GroupsAndObject == TwoGroups \cup {object1}
TwoNames == {1, 2}
Sim == INSTANCE SimObjects WITH
  Objects <- GroupsAndObject, Sets <- {}, Groups <- TwoGroups, Names <- TwoNames,
  hashTableSize <- 29, Emitters <- {}, Listeners <- {}, Methods <- {}, Refs <- {},
  MaxCalls <- 4, NoName <- 0, NoObject <- "no object"
simVars == <<life, mSimFlags, gNextObjectId, mId, objectName, gIdDictionary, gNameDictionary,
             nameDictionary, mGroup, objectList, mNotifyList, mSignalListeners, mObj, calls>>
\* Nothing tells the two groups apart.
GroupsAlike == Permutations({group1, group2})

MCInit == StoreInit /\ Sim!SimInit /\ part \in {"store", "debug", "groups"}

\* Bounds of the "store" part: one kind of script, one fiber whose frames are
\* in use, nothing new after the dump, and no frame returns before it.
Build == \/ CreateFiber(1) \/ CallFunction(1) \/ Declare(1, "base") \/ TouchStep(1)
         \/ \E share \in BOOLEAN : 3 \in FreeIds(Heap) /\ Eval(1, "", Short, FALSE, share)
         \/ CreateFiber(2) \/ CallFunction(2) \/ (fibers[2].frames = <<>> /\ Eval(2, "", Short, FALSE, FALSE))
Shrink(f) == CleanupFiber(f) \/ PopFrame(f)

\* Bounds of the "debug" part: one fiber, scripts that have lines to break on
\* only from a file, breakpoints only while there is one block,
\* and no third block.
Load == {2, 3, 4} \subseteq FreeIds(Heap) /\ \E name \in FileNames \cup {""}, s \in Scripts, c, share \in BOOLEAN :
          (s = Program => name # "") /\ Eval(1, name, s, c, share)

DumpOrRestore ==
  \/ dumps = 0 /\ Build
  \/ dumps # 0 /\ \E f \in Fibers : CleanupFiber(f)
  \/ StoreStep
EvalOrDebug ==
  \/ CreateFiber(1) \/ Shrink(1) \/ CallFunction(1) \/ Load \/ Packages
  \/ \E e \in Entries : Declare(1, e)
  \/ \E id \in ToSet(codeList) : blocks[2].st = "none" /\ Debugger(id)

MCNext ==
  /\ UNCHANGED part
  /\ \/ part = "store" /\ DumpOrRestore /\ UNCHANGED simVars
     \/ part = "debug" /\ EvalOrDebug /\ UNCHANGED simVars
     \/ part = "groups" /\ Sim!SimNext /\ UNCHANGED vars
MCSpec == MCInit /\ [][MCNext]_<<vars, simVars, part>>
-----------------------------------------------------------------------------
\* Names and groups agree with their objects (SimObjects).
NamesFindable == part = "groups" => Sim!NamesFindable
GroupsAgree == part = "groups" => Sim!GroupsAgree
=============================================================================
