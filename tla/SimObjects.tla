----------------------------- MODULE SimObjects -----------------------------
(***************************************************************************)
(* The Sim's objects (torqueSim/sim): creation and registration, names,    *)
(* sets, groups, delete notifications, references, signals, and removal.   *)
(*                                                                         *)
(* Script and native code alternate on one thread: field initialisers, the *)
(* onAdd and onRemove callbacks and the methods a signal calls are scripts *)
(* that run while the native function that called them is half done, and   *)
(* may do anything to any object they can find. calls is the stack of      *)
(* those functions; when it is empty a script runs that nobody waits for.  *)
(* Pending events of a removed object are in EventQueue; the linking of    *)
(* its namespaces is left out.                                             *)
(***************************************************************************)
EXTENDS Naturals, FiniteSets, SequencesExt

CONSTANTS
  Objects, Sets, Groups,  \* the objects that ever exist; which are SimSets and SimGroups
  Names,                  \* names, as the numbers HashPointer gives them
  hashTableSize,          \* buckets of a dictionary
  Emitters,               \* objects whose namespace declares a signal
  Listeners, Methods,     \* the objects, and the methods of them, that scripts bind to it
  Refs,                   \* the SimObjectPtr variables of native code
  MaxCalls,               \* bound on nested native functions
  NoName, NoObject

ASSUME SimObjectsAssumption ==
  /\ IsFiniteSet(Objects) /\ MaxCalls \in Nat
  /\ Emitters \subseteq Objects /\ Listeners \subseteq Objects
  /\ Sets \subseteq Objects /\ Groups \subseteq Objects /\ Sets \cap Groups = {}
  /\ Names \subseteq Nat /\ hashTableSize \in Nat \ {0}
  /\ NoName \notin Names /\ NoObject \notin Objects

VARIABLES
  life,             \* "none", "made" (constructed) or "freed"
  mSimFlags,        \* Added, Deleted, Removed
  gNextObjectId, mId,
  objectName,
  gIdDictionary,    \* the objects in it
  gNameDictionary,  \* its entries, <<object, bucket>>
  nameDictionary,   \* the same for every group
  mGroup,           \* NoObject: none, or the root group, which is never deleted
  objectList,
  mNotifyList,
  mSignalListeners, \* of each object's one signal: <<listener, method>>
  mObj,             \* where each SimObjectPtr points
  calls             \* the native functions that wait for a script or are half done

identVars == <<gNextObjectId, mId, objectName, gIdDictionary, gNameDictionary>>
groupVars == <<nameDictionary, mGroup, objectList>>
watchVars == <<mNotifyList, mSignalListeners, mObj>>
simVars == <<life, mSimFlags, identVars, groupVars, watchVars, calls>>

SimInit ==
  /\ life = [o \in Objects |-> "none"] /\ mSimFlags = [o \in Objects |-> {}]
  /\ gNextObjectId = 1 /\ mId = [o \in Objects |-> 0]
  /\ objectName = [o \in Objects |-> NoName]
  /\ gIdDictionary = {} /\ gNameDictionary = {}
  /\ nameDictionary = [g \in Groups |-> {}]
  /\ mGroup = [o \in Objects |-> NoObject]
  /\ objectList = [s \in Sets \cup Groups |-> <<>>]
  /\ mNotifyList = [o \in Objects |-> <<>>]
  /\ mSignalListeners = [o \in Objects |-> <<>>]
  /\ mObj = [r \in Refs |-> NoObject]
  /\ calls = <<>>

-----------------------------------------------------------------------------
(* Native functions under way.                                             *)

\* what: "new" (between OP_CREATE_OBJECT and OP_ADD_OBJECT), "add"
\* (AddObjectFn), "remove" (unregisterObject, and the deletion after it if
\* destroy), "deleteAll" (deleteObjects) or "signal". at is "script" while a
\* callback runs. group: where a new object goes; pos: a group's iterator over
\* its children; rest: the listeners not called, or still running.
Call(what, o, at, destroy, group, rest) ==
  [what |-> what, obj |-> o, at |-> at, destroy |-> destroy, group |-> group,
   pos |-> 0, rest |-> rest]

Top == calls[Len(calls)]
AtTop(what, at) == calls # <<>> /\ Top.what = what /\ Top.at = at
Advanced(at) == [calls EXCEPT ![Len(calls)].at = at]

ScriptRuns == calls # <<>> => Top.at = "script"
Calling == ScriptRuns /\ Len(calls) < MaxCalls

\* Sim::findObject finds it.
Found(o) == o \in gIdDictionary

Members(s) == ToSet(objectList[s])

\* Everything under o when groups have these members.
Below(o, members) ==
  LET grown[n \in 0 .. Cardinality(Objects)] ==
        IF n = 0 THEN {o}
        ELSE grown[n - 1] \cup UNION {members[g] : g \in grown[n - 1] \cap Groups}
  IN  grown[Cardinality(Objects)]

\* Everything the destructor of o deletes: a group deletes its members.
Owned(o) == Below(o, [g \in Groups |-> Members(g)])

\* The same once the new objects of the functions above the i-th are placed.
MembersAfter(s, i) ==
  Members(s) \cup {calls[j].obj : j \in {k \in DOMAIN calls : k > i /\ calls[k].group = s}}
OwnedAfter(o, i) == Below(o, [g \in Groups |-> MembersAfter(g, i)])

\* What a function under way uses when its script returns, and what it will delete.
Uses(call) == {call.obj} \cup {binding[1] : binding \in ToSet(call.rest)}
Victims(i) ==
  CASE calls[i].what = "remove" /\ calls[i].destroy -> OwnedAfter(calls[i].obj, i)
    [] calls[i].what = "deleteAll" -> 
         UNION {OwnedAfter(m, i) : m \in MembersAfter(calls[i].obj, i)}
    [] OTHER -> {}

\* The objects whose own removal the function starts.
Direct(call) ==
  CASE call.what = "remove" /\ call.destroy -> {call.obj}
    [] call.what = "deleteAll" -> Members(call.obj)
    [] OTHER -> {}

\* The group whose child's unregisterObject runs at the moment, by an iterator.
IsWalk(call) == call.at = "child"
Walked == {calls[i].obj : i \in {j \in DOMAIN calls : IsWalk(calls[j])}}

\* An object that its group is unregistering: still in the list, mGroup null.
Detached(o) == \E g \in Walked : o \in Members(g) /\ mGroup[o] # g

\* The assumption on scripts. The native functions hold raw pointers and
\* iterators across the scripts they call, so a script must not delete what they
\* still use, delete from or add to a group while an iterator walks its list, or
\* put a group into itself. Nothing in the code enforces it.
ScriptsKeepOff ==
  /\ \A j \in DOMAIN calls : \A i \in 1 .. j :
       \/ Uses(calls[i]) \cap Victims(j) = {}
       \/ i = j /\ calls[j].what = "remove"
  /\ \A j \in DOMAIN calls : \A i \in 1 .. (j - 1) : IsWalk(calls[i]) =>
       /\ \A v \in Direct(calls[j]) : mGroup[v] # calls[i].obj
       /\ calls[j].group # calls[i].obj
  /\ \A g \in Groups : \A o \in OwnedAfter(g, 0) : o # g => g \notin OwnedAfter(o, 0)
MayRegroup(o, g) == {g, mGroup[o]} \cap Walked = {} /\ ~Detached(o)

-----------------------------------------------------------------------------
(* Names.                                                                  *)

Hash(name) == name % hashTableSize
Entry(o, name) == IF name = NoName THEN {} ELSE {<<o, Hash(name)>>}

\* SimManagerNameDictionary::find compares string-table pointers. entry says
\* whether the caller passes one; a script's string is a copy on the string stack.
nameFind(name, entry) == entry /\ \E o \in Objects :
  <<o, Hash(name)>> \in gNameDictionary /\ objectName[o] = name

\* A name that is found is refused; else the object leaves its dictionaries
\* under the old name and enters them under the new one.
assignName(o, name, entry) ==
  IF name # NoName /\ nameFind(name, entry)
  THEN UNCHANGED <<objectName, nameDictionary, gNameDictionary>>
  ELSE /\ objectName' = [objectName EXCEPT ![o] = name]
       /\ nameDictionary' = IF mGroup[o] = NoObject THEN nameDictionary
            ELSE [nameDictionary EXCEPT
                    ![mGroup[o]] = (@ \ Entry(o, objectName[o])) \cup Entry(o, name)]
       /\ gNameDictionary' = IF "Added" \notin mSimFlags[o] THEN gNameDictionary
            ELSE (gNameDictionary \ Entry(o, objectName[o])) \cup Entry(o, name)

\* The script method; a name that is set again is a change only for the dictionaries.
\* A child its group is unregistering has no mGroup: the group's entry stays.
setName(o, name) ==
  /\ ScriptRuns /\ Found(o)
  /\ assignName(o, name, FALSE)
  /\ UNCHANGED <<life, mSimFlags, gNextObjectId, mId, gIdDictionary, mGroup, objectList,
                 watchVars, calls>>

-----------------------------------------------------------------------------
(* Notifications. A DeleteNotify note in o's list names who watches o, a   *)
(* ClearNotify note in the watcher's list names o.                         *)

Note(type, ptr) == [type |-> type, ptr |-> ptr]

deleteNotify(lists, watcher, o) ==
  LET there == [lists EXCEPT ![o] = <<Note("DeleteNotify", watcher)>> \o @]
  IN  [there EXCEPT ![watcher] = <<Note("ClearNotify", o)>> \o @]

\* Mutant: the note in the watcher's own list is forgotten.
clearNotifyOneSide(lists, watcher, o) ==
  [lists EXCEPT ![o] = RemoveFirst(@, Note("DeleteNotify", watcher))]

clearNotify(lists, watcher, o) ==
  LET there == [lists EXCEPT ![o] = RemoveFirst(@, Note("DeleteNotify", watcher))]
  IN  [there EXCEPT ![watcher] = RemoveFirst(@, Note("ClearNotify", o))]

\* o watches nobody any more.
clearAllNotifications(lists, o) ==
  LET clears == SelectSeq(lists[o], LAMBDA n : n.type = "ClearNotify")
      forget(acc, note) ==
        [acc EXCEPT ![note.ptr] = RemoveFirst(@, Note("DeleteNotify", o))]
      forgotten == FoldLeft(forget, lists, clears)
  IN  [forgotten EXCEPT ![o] = SelectSeq(@, LAMBDA n : n.type # "ClearNotify")]

\* What a removal changes in others.
Watch(lists) == [lists |-> lists, objectList |-> objectList,
                 mSignalListeners |-> mSignalListeners, mObj |-> mObj]

\* A set drops the member, whatever it was watched for; a signal its bindings.
onDeleteNotify(w, watcher, o) ==
  LET unbound == [w EXCEPT !.mSignalListeners =
                    [@ EXCEPT ![watcher] = SelectSeq(@, LAMBDA b : b[1] # o)]]
  IN  IF watcher \notin Sets THEN unbound
      ELSE [unbound EXCEPT !.lists = clearNotify(@, watcher, o),
                           !.objectList = [@ EXCEPT ![watcher] = RemoveFirst(@, o)]]

processNote(w, o) ==
  LET note == Head(w.lists[o])
      popped == [w EXCEPT !.lists = [@ EXCEPT ![o] = Tail(@)]]
  IN  IF note.type = "DeleteNotify"
      THEN onDeleteNotify([popped EXCEPT !.lists =
                             [@ EXCEPT ![note.ptr] = RemoveFirst(@, Note("ClearNotify", o))]],
                          note.ptr, o)
      ELSE [popped EXCEPT !.mObj = [@ EXCEPT ![note.ptr] = NoObject]]

processDeleteNotifies(w, o) ==
  LET after[n \in 0 .. Len(w.lists[o])] ==
        IF n = 0 THEN w
        ELSE IF after[n - 1].lists[o] = <<>> THEN after[n - 1] ELSE processNote(after[n - 1], o)
  IN  after[Len(w.lists[o])]

\* An assignment to a SimObjectPtr.
setReference(r, o) ==
  LET old == mObj[r]
      left == IF old = NoObject THEN mNotifyList
              ELSE [mNotifyList EXCEPT ![old] = RemoveFirst(@, Note("ObjectRef", r))]
  IN
  /\ ScriptRuns /\ o # old
  /\ o # NoObject => Found(o)
  /\ mObj' = [mObj EXCEPT ![r] = o]
  /\ mNotifyList' = IF o = NoObject THEN left
       ELSE [left EXCEPT ![o] = <<Note("ObjectRef", r)>> \o @]
  /\ UNCHANGED <<life, mSimFlags, identVars, groupVars, mSignalListeners, calls>>

-----------------------------------------------------------------------------
(* Sets and groups.                                                        *)

\* SimSet::addObject; deleteNotify asserts that o is not being deleted.
addToSet(s, o) ==
  /\ ScriptRuns /\ Found(s) /\ Found(o) /\ o # s
  /\ o \notin Members(s) /\ "Deleted" \notin mSimFlags[o]
  /\ objectList' = [objectList EXCEPT ![s] = Append(@, o)]
  /\ mNotifyList' = deleteNotify(mNotifyList, s, o)
  /\ UNCHANGED <<life, mSimFlags, identVars, nameDictionary, mGroup, mSignalListeners, mObj,
                 calls>>
  /\ ScriptsKeepOff'

\* SimSet::removeObject from the script method, which tests membership first.
removeFromSet(s, o) ==
  /\ ScriptRuns /\ Found(s) /\ Found(o) /\ o \in Members(s)
  /\ objectList' = [objectList EXCEPT ![s] = RemoveFirst(@, o)]
  /\ mNotifyList' = clearNotify(mNotifyList, s, o)
  /\ UNCHANGED <<life, mSimFlags, identVars, nameDictionary, mGroup, mSignalListeners, mObj,
                 calls>>

\* SimSet::clear removes the members from the back.
clearSet(s) ==
  /\ ScriptRuns /\ Found(s) /\ objectList[s] # <<>>
  /\ objectList' = [objectList EXCEPT ![s] = <<>>]
  /\ mNotifyList' = FoldRight(LAMBDA o, lists : clearNotify(lists, s, o),
                              objectList[s], mNotifyList)
  /\ UNCHANGED <<life, mSimFlags, identVars, nameDictionary, mGroup, mSignalListeners, mObj,
                 calls>>

\* o leaves the group it is in: dictionaries and lists after that.
NamesWithout(o) ==
  [g \in Groups |-> nameDictionary[g] \ (IF g = mGroup[o] THEN Entry(o, objectName[o]) ELSE {})]
ListsWithout(o) ==
  [s \in Sets \cup Groups |-> IF s = mGroup[o] THEN RemoveFirst(objectList[s], o)
                              ELSE objectList[s]]

\* Mutant: the old group's dictionary keeps its entry.
moveToGroupLeavingName(o, g) ==
  IF mGroup[o] = g THEN UNCHANGED groupVars
  ELSE /\ mGroup' = [mGroup EXCEPT ![o] = g]
       /\ nameDictionary' = [h \in Groups |->
            nameDictionary[h] \cup (IF h = g THEN Entry(o, objectName[o]) ELSE {})]
       /\ objectList' = [s \in Sets \cup Groups |->
            IF s = g THEN Append(objectList[s], o) ELSE ListsWithout(o)[s]]

\* SimGroup::addObject; the root group (NoObject) keeps no list here.
moveToGroup(o, g) ==
  IF mGroup[o] = g THEN UNCHANGED groupVars
  ELSE /\ mGroup' = [mGroup EXCEPT ![o] = g]
       /\ nameDictionary' = [h \in Groups |->
            NamesWithout(o)[h] \cup (IF h = g THEN Entry(o, objectName[o]) ELSE {})]
       /\ objectList' = [s \in Sets \cup Groups |->
            IF s = g THEN Append(objectList[s], o) ELSE ListsWithout(o)[s]]

addToGroup(g, o) ==
  /\ ScriptRuns /\ Found(g) /\ Found(o) /\ o # g /\ mGroup[o] # g
  /\ MayRegroup(o, g)
  /\ moveToGroup(o, g)
  /\ UNCHANGED <<life, mSimFlags, identVars, watchVars, calls>>
  /\ ScriptsKeepOff'

removeFromGroup(g, o) ==
  /\ ScriptRuns /\ Found(g) /\ Found(o) /\ o \in Members(g) /\ mGroup[o] = g
  /\ MayRegroup(o, g)
  /\ moveToGroup(o, NoObject)
  /\ UNCHANGED <<life, mSimFlags, identVars, watchVars, calls>>

\* SimSet::clear of a group.
clearGroup(g) ==
  /\ ScriptRuns /\ Found(g) /\ objectList[g] # <<>> /\ g \notin Walked
  /\ objectList' = [objectList EXCEPT ![g] = <<>>]
  /\ nameDictionary' = [nameDictionary EXCEPT
       ![g] = @ \ UNION {Entry(o, objectName[o]) : o \in Members(g)}]
  /\ mGroup' = [o \in Objects |-> IF o \in Members(g) THEN NoObject ELSE mGroup[o]]
  /\ UNCHANGED <<life, mSimFlags, identVars, watchVars, calls>>

-----------------------------------------------------------------------------
(* Creation.                                                               *)

\* OP_CREATE_OBJECT: constructed and named, but not registered; the script goes
\* on with the initial values of its fields. g is the group or set it is in.
createObject(o, name, g) ==
  /\ Calling /\ life[o] = "none"
  /\ g # NoObject => Found(g) /\ g \notin Walked
  /\ life' = [life EXCEPT ![o] = "made"]
  /\ IF name = NoName THEN UNCHANGED <<objectName, nameDictionary, gNameDictionary>>
     ELSE assignName(o, name, FALSE)
  /\ calls' = Append(calls, Call("new", o, "script", FALSE, g, <<>>))
  /\ UNCHANGED <<mSimFlags, gNextObjectId, mId, gIdDictionary, mGroup, objectList, watchVars>>

\* OP_ADD_OBJECT: registerObject, up to the onAdd callback.
registerObject ==
  LET o == Top.obj IN
  /\ AtTop("new", "script")
  /\ mId' = [mId EXCEPT ![o] = gNextObjectId] /\ gNextObjectId' = gNextObjectId + 1
  /\ gIdDictionary' = gIdDictionary \cup {o}
  /\ gNameDictionary' = gNameDictionary \cup Entry(o, objectName[o])
  /\ mSimFlags' = [mSimFlags EXCEPT ![o] = (@ \ {"Deleted", "Removed"}) \cup {"Added"}]
  /\ calls' = [calls EXCEPT ![Len(calls)].what = "add"]
  /\ UNCHANGED <<life, objectName, groupVars, watchVars>>

\* The rest of AddObjectFn: into the group, or into the root group and the set,
\* if they still exist; placed at the root, it stays where its onAdd put it.
placeNewObject ==
  LET o == Top.obj
      g == Top.group
      grp == IF g \in Groups /\ Found(g) THEN g ELSE NoObject
      set == IF g \in Sets /\ Found(g) THEN g ELSE NoObject
  IN
  /\ IF g = NoObject /\ mGroup[o] # NoObject THEN UNCHANGED <<groupVars, mNotifyList>>
     ELSE IF set = NoObject \/ o \in Members(set)
     THEN moveToGroup(o, grp) /\ UNCHANGED mNotifyList
     ELSE /\ mGroup' = [mGroup EXCEPT ![o] = NoObject]
          /\ nameDictionary' = NamesWithout(o)
          /\ objectList' = [ListsWithout(o) EXCEPT ![set] = Append(@, o)]
          /\ mNotifyList' = deleteNotify(mNotifyList, set, o)

onAddReturns ==
  /\ AtTop("add", "script")
  /\ placeNewObject
  /\ calls' = Front(calls)
  /\ UNCHANGED <<life, mSimFlags, identVars, mSignalListeners, mObj>>

-----------------------------------------------------------------------------
(* Removal.                                                                *)

Removal(o, destroy) == Call("remove", o, "script", destroy, NoObject, <<>>)

Registered(o) == "Added" \in mSimFlags[o] /\ mSimFlags[o] \cap {"Deleted", "Removed"} = {}

\* deleteObject, up to the onRemove callback; its assertions are the guard.
deleteObject(o) ==
  /\ Calling /\ Found(o) /\ Registered(o)
  /\ mSimFlags' = [mSimFlags EXCEPT ![o] = @ \cup {"Deleted"}]
  /\ calls' = Append(calls, Removal(o, TRUE))
  /\ UNCHANGED <<life, identVars, groupVars, watchVars>>
  /\ ScriptsKeepOff'

\* SimSet::deleteObjects: deleteObject on the first member until there is none.
deleteObjects(s) ==
  /\ Calling /\ Found(s) /\ objectList[s] # <<>>
  /\ calls' = Append(calls, Call("deleteAll", s, "native", FALSE, NoObject, <<>>))
  /\ UNCHANGED <<life, mSimFlags, identVars, groupVars, watchVars>>
  /\ ScriptsKeepOff'

deleteNext ==
  LET o == Head(objectList[Top.obj]) IN
  /\ AtTop("deleteAll", "native") /\ objectList[Top.obj] # <<>>
  /\ mSimFlags' = [mSimFlags EXCEPT ![o] = @ \cup {"Deleted"}]
  /\ calls' = Append(calls, Removal(o, TRUE))
  /\ UNCHANGED <<life, identVars, groupVars, watchVars>>

deleteObjectsDone ==
  /\ AtTop("deleteAll", "native") /\ objectList[Top.obj] = <<>>
  /\ calls' = Front(calls)
  /\ UNCHANGED <<life, mSimFlags, identVars, groupVars, watchVars>>

\* The onRemove callback has returned: Removed is set, a set or a group sorts its
\* list by id, and a group starts at its last child.
onRemoveReturns ==
  LET o == Top.obj IN
  /\ AtTop("remove", "script")
  /\ mSimFlags' = [mSimFlags EXCEPT ![o] = @ \cup {"Removed"}]
  /\ objectList' = IF o \notin Sets \cup Groups THEN objectList
       ELSE [objectList EXCEPT ![o] = SortSeq(@, LAMBDA a, b : mId[a] < mId[b])]
  /\ calls' = [calls EXCEPT ![Len(calls)].at = IF o \in Groups THEN "children" ELSE "native",
                            ![Len(calls)].pos = IF o \in Groups THEN Len(objectList[o]) ELSE 0]
  /\ UNCHANGED <<life, identVars, nameDictionary, mGroup, watchVars>>

\* SimGroup::onRemove: a child is taken out of the group's hands and unregistered ...
unregisterChild ==
  LET child == objectList[Top.obj][Top.pos] IN
  /\ AtTop("remove", "children") /\ Top.pos > 0
  /\ mGroup' = [mGroup EXCEPT ![child] = NoObject]
  /\ calls' = Append(Advanced("child"), Removal(child, FALSE))
  /\ UNCHANGED <<life, mSimFlags, identVars, nameDictionary, objectList, watchVars>>

\* Mutant: the child does not come back to the group.
childUnregisteredOrphan ==
  /\ AtTop("remove", "child")
  /\ calls' = [calls EXCEPT ![Len(calls)].at = "children", ![Len(calls)].pos = @ - 1]
  /\ UNCHANGED <<life, mSimFlags, identVars, groupVars, watchVars>>

\* ... and put back, for the destructor to delete it.
childUnregistered ==
  LET child == objectList[Top.obj][Top.pos] IN
  /\ AtTop("remove", "child")
  /\ mGroup' = [mGroup EXCEPT ![child] = Top.obj]
  /\ calls' = [calls EXCEPT ![Len(calls)].at = "children", ![Len(calls)].pos = @ - 1]
  /\ UNCHANGED <<life, mSimFlags, identVars, nameDictionary, objectList, watchVars>>

childrenUnregistered ==
  /\ AtTop("remove", "children") /\ Top.pos = 0
  /\ calls' = Advanced("native")
  /\ UNCHANGED <<life, mSimFlags, identVars, groupVars, watchVars>>

\* The rest of unregisterObject, which runs no script: SimObject::onRemove, the
\* notifications, the group, the dictionaries; then the destructor if asked for.
unregisterObject ==
  LET o == Top.obj
      unset == IF o \notin Sets THEN mNotifyList
               ELSE FoldRight(LAMBDA m, lists : clearNotify(lists, o, m),
                              objectList[o], mNotifyList)
      w == processDeleteNotifies([Watch(clearAllNotifications(unset, o)) EXCEPT
                                    !.objectList = ListsWithout(o)], o)
      freed == IF Top.destroy THEN Owned(o) ELSE {}
  IN
  /\ AtTop("remove", "native")
  /\ mSimFlags' = [mSimFlags EXCEPT ![o] = @ \ {"Added"}]
  /\ mGroup' = [mGroup EXCEPT ![o] = NoObject]
  /\ mNotifyList' = w.lists /\ mObj' = w.mObj
  /\ mSignalListeners' = [x \in Objects |-> IF x \in freed THEN <<>> ELSE w.mSignalListeners[x]]
  /\ objectList' = [s \in Sets \cup Groups |-> IF s \in freed THEN <<>> ELSE w.objectList[s]]
  /\ nameDictionary' = [g \in Groups |-> NamesWithout(o)[g] \
       (IF g \in freed THEN UNION {Entry(m, objectName[m]) : m \in Members(g)} ELSE {})]
  /\ gNameDictionary' = gNameDictionary \ Entry(o, objectName[o])
  /\ gIdDictionary' = gIdDictionary \ {o}
  /\ life' = [x \in Objects |-> IF x \in freed THEN "freed" ELSE life[x]]
  /\ calls' = Front(calls)
  /\ UNCHANGED <<gNextObjectId, mId, objectName>>

-----------------------------------------------------------------------------
(* Signals.                                                                *)

hasListener(o, listener) == \E i \in DOMAIN mSignalListeners[o] :
  mSignalListeners[o][i][1] = listener

\* deleteNotify asserts that the listener is not being deleted.
addSignalListener(o, listener, method) ==
  /\ ScriptRuns /\ Found(o) /\ Found(listener)
  /\ <<listener, method>> \notin ToSet(mSignalListeners[o])
  /\ hasListener(o, listener) \/ "Deleted" \notin mSimFlags[listener]
  /\ mSignalListeners' = [mSignalListeners EXCEPT ![o] = Append(@, <<listener, method>>)]
  /\ mNotifyList' = IF hasListener(o, listener) THEN mNotifyList
       ELSE deleteNotify(mNotifyList, o, listener)
  /\ UNCHANGED <<life, mSimFlags, identVars, groupVars, mObj, calls>>

removeSignalListener(o, listener, method) ==
  /\ ScriptRuns /\ Found(o) /\ Found(listener)
  /\ <<listener, method>> \in ToSet(mSignalListeners[o])
  /\ mSignalListeners' = [mSignalListeners EXCEPT ![o] = RemoveFirst(@, <<listener, method>>)]
  /\ mNotifyList' = IF hasListener(o, listener)' THEN mNotifyList
       ELSE clearNotify(mNotifyList, o, listener)
  /\ UNCHANGED <<life, mSimFlags, identVars, groupVars, mObj, calls>>

\* The listeners are copied, then called one after the other ...
triggerSignal(o) ==
  /\ Calling /\ Found(o) /\ mSignalListeners[o] # <<>>
  /\ calls' = Append(calls, Call("signal", o, "native", FALSE, NoObject, mSignalListeners[o]))
  /\ UNCHANGED <<life, mSimFlags, identVars, groupVars, watchVars>>

\* ... unless they are deleted, or have no VM object because they are removed.
callListener ==
  LET listener == Top.rest[1][1]
      called == "Deleted" \notin mSimFlags[listener] /\ Found(listener)
  IN
  /\ AtTop("signal", "native") /\ Top.rest # <<>>
  /\ calls' = IF called THEN Advanced("script")
       ELSE [calls EXCEPT ![Len(calls)].rest = Tail(@)]
  /\ UNCHANGED <<life, mSimFlags, identVars, groupVars, watchVars>>

listenerReturns ==
  /\ AtTop("signal", "script")
  /\ calls' = [calls EXCEPT ![Len(calls)].rest = Tail(@), ![Len(calls)].at = "native"]
  /\ UNCHANGED <<life, mSimFlags, identVars, groupVars, watchVars>>

signalDone ==
  /\ AtTop("signal", "native") /\ Top.rest = <<>>
  /\ calls' = Front(calls)
  /\ UNCHANGED <<life, mSimFlags, identVars, groupVars, watchVars>>

-----------------------------------------------------------------------------
SimNext ==
  \/ \E o \in Objects, name \in Names \cup {NoName} :
       \/ setName(o, name)
       \/ \E g \in Sets \cup Groups \cup {NoObject} : createObject(o, name, g)
  \/ registerObject \/ onAddReturns
  \/ \E r \in Refs, o \in Objects \cup {NoObject} : setReference(r, o)
  \/ \E s \in Sets : clearSet(s) \/ \E o \in Objects : addToSet(s, o) \/ removeFromSet(s, o)
  \/ \E g \in Groups : clearGroup(g) \/ \E o \in Objects : addToGroup(g, o) \/ removeFromGroup(g, o)
  \/ \E o \in Objects : deleteObject(o)
  \/ \E s \in Sets \cup Groups : deleteObjects(s)
  \/ deleteNext \/ deleteObjectsDone
  \/ onRemoveReturns \/ unregisterChild \/ childUnregistered \/ childrenUnregistered
  \/ unregisterObject
  \/ \E o \in Emitters, b \in Listeners \X Methods :
       addSignalListener(o, b[1], b[2]) \/ removeSignalListener(o, b[1], b[2])
  \/ \E o \in Emitters : triggerSignal(o)
  \/ callListener \/ listenerReturns \/ signalDone

SimSpec == SimInit /\ [][SimNext]_simVars

-----------------------------------------------------------------------------
(* Properties.                                                             *)

\* The types of the Sim's state.
SimTypeOK ==
  /\ life \in [Objects -> {"none", "made", "freed"}]
  /\ mSimFlags \in [Objects -> SUBSET {"Added", "Deleted", "Removed"}]
  /\ gNextObjectId \in Nat /\ mId \in [Objects -> Nat]
  /\ objectName \in [Objects -> Names \cup {NoName}]
  /\ gIdDictionary \subseteq Objects /\ gNameDictionary \subseteq Objects \X Nat
  /\ nameDictionary \in [Groups -> SUBSET (Objects \X Nat)]
  /\ mGroup \in [Objects -> Groups \cup {NoObject}]
  /\ objectList \in [Sets \cup Groups -> Seq(Objects)]
  /\ mSignalListeners \in [Objects -> Seq(Listeners \X Methods)]
  /\ mObj \in [Refs -> Objects \cup {NoObject}]

Live(o) == life[o] = "made"

\* Found objects, and no others, are in the name dictionary, in the bucket of the
\* name they have now: renaming, registration and removal interleave with scripts
\* that do the same to other objects, and SimManagerNameDictionary::remove looks
\* only in that bucket. The same holds of each group's dictionary and its members
\* until the group's own onRemove; from then on it holds nothing but members.
NamesFindable ==
  /\ gNameDictionary = UNION {Entry(o, objectName[o]) : o \in gIdDictionary}
  /\ \A g \in Groups : Live(g) =>
       IF "Removed" \in mSimFlags[g]
       THEN \A e \in nameDictionary[g] : e[1] \in Members(g)
       ELSE nameDictionary[g] = UNION {Entry(o, objectName[o]) : o \in Members(g)}

\* A freed object is in no group's dictionary, as the destructor of SimObject
\* asserts ("Not removed from dictionary", simBase.cc:1750).  Not so when it was
\* renamed in the onRemove its group called; no run checks this.
FreedLeftDictionaries == \A o \in Objects : life[o] = "freed" =>
  \A g \in Groups : \A e \in nameDictionary[g] : e[1] # o

\* Each object is in the list of the group it points to, once, and in no other,
\* except the child a group is unregistering; and that group exists, although a
\* script may delete it between an object's creation and its placement.
GroupsAgree == \A g \in Groups, o \in Objects :
  /\ Live(g) => (mGroup[o] = g <=> o \in Members(g) /\ ~Detached(o))
  /\ Live(g) => Cardinality(Members(g)) = Len(objectList[g])
  /\ Live(o) /\ mGroup[o] = g => Live(g)

Count(list, note) == Cardinality({i \in DOMAIN list : list[i] = note})

\* The two notes of a notification come and go together, or a deletion would
\* leave a pointer behind.
NotesPaired == \A a, b \in Objects :
  Count(mNotifyList[b], Note("DeleteNotify", a)) = Count(mNotifyList[a], Note("ClearNotify", b))

\* Nothing that scripts or native code can reach points to a freed object: no
\* set or group they find, no signal, no SimObjectPtr, no native function.
NothingPointsToFreed ==
  /\ \A s \in Sets \cup Groups : Found(s) => \A o \in Members(s) : Live(o)
  /\ \A o \in gIdDictionary : Live(o) /\ \A i \in DOMAIN mSignalListeners[o] :
       Live(mSignalListeners[o][i][1])
  /\ \A r \in Refs : mObj[r] # NoObject => Live(mObj[r])
  /\ \A i \in DOMAIN calls : \A o \in Uses(calls[i]) : Live(o)

\* Whatever the destructor of a group deletes has been unregistered before, as
\* the destructor of SimObject asserts ("missing call to SimObject::onRemove"), and
\* no group that is left finds it by name.
FreedWereUnregistered == \A o \in Objects : life[o] = "freed" =>
  /\ "Added" \notin mSimFlags[o] /\ ~Found(o) /\ mNotifyList[o] = <<>>
  /\ \A g \in Groups : Live(g) => \A e \in nameDictionary[g] : e[1] # o

\* The assertions of deleteObject hold for what deleteObjects deletes.
DeleteObjectsAsserts == AtTop("deleteAll", "native") =>
  (objectList[Top.obj] # <<>> => Registered(Head(objectList[Top.obj])))

\* Notifications and everything else that points at an object.
NotesConsistent ==
  SimTypeOK /\ NotesPaired /\ NothingPointsToFreed /\ FreedWereUnregistered /\ DeleteObjectsAsserts
=============================================================================
