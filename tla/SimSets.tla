------------------------------- MODULE SimSets -------------------------------
(***************************************************************************)
(* What scripts do with the order and the nesting of SimSets and SimGroups *)
(* (simBase.cc): they add, remove, reorder and clear; iterate over a tree; *)
(* search it by name, by path and by internal name; call a method on every *)
(* child; and write it, or only the objects an editor selected.            *)
(*                                                                         *)
(* A set may hold anything any number of sets hold too; a group owns its   *)
(* members.  Nothing refuses a cycle but a container inside itself: every  *)
(* search below would not end in one, so scripts are assumed to make none. *)
(***************************************************************************)
EXTENDS Integers, SequencesExt

CONSTANTS
    SetIds, GroupIds, Leaves,   \* the objects by class
    NameOf, InternalNameOf,     \* object -> its name and its internal name, "" for none
    MaxSetEdits                 \* a bound on the edits of a behaviour

VARIABLES
    members,     \* container -> its objectList
    group,       \* object -> its mGroup, 0 for none
    selected,    \* the objects an editor selected
    edits

setVars == <<members, group, selected, edits>>
Containers == SetIds \cup GroupIds
SimObjectIds == Containers \cup Leaves
NoObject == 0

SetsInit ==
    /\ members = [c \in Containers |-> <<>>] /\ group = [o \in SimObjectIds |-> NoObject]
    /\ selected \in SUBSET SimObjectIds /\ edits = 0

\* The objects a container holds, with what these hold: each as the path that leads to it.
RECURSIVE PathsIn(_, _, _)
PathsIn(c, path, deep) ==
    FoldLeft(LAMBDA r, o : Append(r, Append(path, o)) \o IF o \in deep THEN PathsIn(o, Append(path, o), deep) ELSE <<>>, <<>>, members[c])
Flattened(c, deep) == [i \in 1 .. Len(PathsIn(c, <<>>, deep)) |-> Last(PathsIn(c, <<>>, deep)[i])]

-----------------------------------------------------------------------------
(***************************************************************************)
(* Edits.                                                                  *)
(***************************************************************************)
Without(s, o) == SelectSeq(s, LAMBDA x : x # o)
addObject(c, o) ==
    IF c \in SetIds THEN /\ members' = [members EXCEPT ![c] = IF Contains(@, o) THEN @ ELSE Append(@, o)]
                         /\ UNCHANGED group
    ELSE /\ members' = [d \in Containers |-> IF group[o] = c THEN members[d] ELSE IF d = c THEN Append(members[d], o)
                                             ELSE IF d = group[o] THEN Without(members[d], o) ELSE members[d]]
         /\ group' = [group EXCEPT ![o] = c]
removeObject(c, o) ==
    /\ members' = [members EXCEPT ![c] = Without(@, o)]
    /\ group' = [group EXCEPT ![o] = IF c \in GroupIds THEN NoObject ELSE @]
\* reOrder to before target; no target is the end.  It answers FALSE when one is not a member.
IndexIn(s, o) == CHOOSE i \in 1 .. Len(s) : s[i] = o
reOrder(s, o, target) ==
    IF ~ Contains(s, o) \/ o = target THEN s
    ELSE IF target = NoObject THEN Append(Without(s, o), o)
    ELSE IF ~ Contains(s, target) THEN s ELSE InsertAt(Without(s, o), IndexIn(Without(s, o), target), o)
bringObjectToFront(s, o) == reOrder(s, o, s[1])
pushObjectToBack(s, o) == reOrder(s, o, NoObject)

Edit == edits < MaxSetEdits /\ edits' = edits + 1 /\ UNCHANGED selected
Holds(o, c) == o = c \/ (o \in Containers /\ Contains(Flattened(o, Containers), c))
add(c, o) == ~ Holds(o, c) /\ addObject(c, o) /\ Edit
remove(c, o) == Contains(members[c], o) /\ removeObject(c, o) /\ Edit
clear(c) ==
    /\ members' = [members EXCEPT ![c] = <<>>]
    /\ group' = [o \in SimObjectIds |-> IF c \in GroupIds /\ group[o] = c THEN NoObject ELSE group[o]]
    /\ Edit
Ordered(c, s) == members' = [members EXCEPT ![c] = s] /\ UNCHANGED group /\ Edit
reorderChild(c, o, target) == Ordered(c, reOrder(members[c], o, target))
bringToFront(c, o) == members[c] # <<>> /\ Ordered(c, bringObjectToFront(members[c], o))
pushToBack(c, o) == Ordered(c, pushObjectToBack(members[c], o))
\* An object that assigns its parentGroup, or adds itself to a set it names.
setParentGroup(o, g) == ~ Holds(o, g) /\ addObject(g, o) /\ Edit
addToSet(o, c) == ~ Holds(o, c) /\ addObject(c, o) /\ Edit
removeFromSet(o, c) == (c \in SetIds \/ group[o] = c) /\ removeObject(c, o) /\ Edit
SetsNext ==
    \/ \E c \in Containers, o \in SimObjectIds : add(c, o)
    \/ \E c \in Containers, o \in SimObjectIds : remove(c, o)
    \/ \E c \in Containers : clear(c)
    \/ \E c \in Containers, o, target \in SimObjectIds : reorderChild(c, o, target)
    \/ \E c \in Containers, o \in SimObjectIds : bringToFront(c, o)
    \/ \E c \in Containers, o \in SimObjectIds : pushToBack(c, o)
    \/ \E g \in GroupIds, o \in SimObjectIds : setParentGroup(o, g)
    \/ \E c \in Containers, o \in SimObjectIds : addToSet(o, c)
    \/ \E c \in Containers, o \in SimObjectIds : removeFromSet(o, c)
SetsSpec == SetsInit /\ [][SetsNext]_setVars

-----------------------------------------------------------------------------
(***************************************************************************)
(* Reading.  An iterator is a stack of places: a SimSetIterator goes into  *)
(* every set that is not empty, a SimGroupIterator into groups.            *)
(***************************************************************************)
At(stack) == members[Last(stack).set][Last(stack).at]
Enter(stack, c) == Append(stack, [set |-> c, at |-> 1])
AdvanceStops(stack) ==
    IF Last(stack).at < Len(members[Last(stack).set]) THEN [stack EXCEPT ![Len(stack)].at = @ + 1] ELSE <<>>
RECURSIVE Advance(_)
Advance(stack) ==
    IF stack = <<>> THEN <<>>
    ELSE IF Last(stack).at < Len(members[Last(stack).set]) THEN [stack EXCEPT ![Len(stack)].at = @ + 1]
    ELSE Advance(Front(stack))
NextPlace(stack, deep) ==
    IF At(stack) \in deep /\ members[At(stack)] # <<>> THEN Enter(stack, At(stack)) ELSE Advance(stack)
RECURSIVE Walk(_, _, _)
Walk(stack, deep, seen) == IF stack = <<>> THEN seen ELSE Walk(NextPlace(stack, deep), deep, Append(seen, At(stack)))
Iterated(c, deep) == Walk(IF members[c] = <<>> THEN <<>> ELSE Enter(<<>>, c), deep, <<>>)

\* callOnChildren: every child, then the children of a child that is a set.
RECURSIVE CalledFrom(_, _)
CalledFrom(c, i) ==
    IF i > Len(members[c]) THEN <<>>
    ELSE <<members[c][i]>> \o (IF members[c][i] \in Containers THEN CalledFrom(members[c][i], 1) ELSE <<>>) \o CalledFrom(c, i + 1)
callOnChildren(c) == CalledFrom(c, 1)

RECURSIVE FoundFrom(_, _, _, _)
FoundFrom(c, i, name, children) ==
    IF i > Len(members[c]) THEN NoObject
    ELSE IF InternalNameOf[members[c][i]] = name THEN members[c][i]
    ELSE IF children /\ members[c][i] \in Containers /\ FoundFrom(members[c][i], 1, name, children) # NoObject
         THEN FoundFrom(members[c][i], 1, name, children)
    ELSE FoundFrom(c, i + 1, name, children)
findObjectByInternalName(c, name, children) == FoundFrom(c, 1, name, children)

\* findObject along a path of names: a group asks its dictionary, a set takes the first.
Child(c, name) ==
    IF \E i \in 1 .. Len(members[c]) : NameOf[members[c][i]] = name
    THEN members[c][CHOOSE i \in 1 .. Len(members[c]) : NameOf[members[c][i]] = name /\ \A j \in 1 .. i - 1 : NameOf[members[c][j]] # name]
    ELSE NoObject
RECURSIVE findObject(_, _)
findObject(c, names) ==
    IF c \notin Containers \/ Child(c, Head(names)) = NoObject THEN NoObject
    ELSE IF Len(names) = 1 THEN Child(c, Head(names)) ELSE findObject(Child(c, Head(names)), Tail(names))

RECURSIVE InGroup(_, _)
InGroup(g, asked) == IF g = asked THEN TRUE ELSE IF g = NoObject THEN FALSE ELSE InGroup(group[g], asked)
isChildOfGroup(o, g) == o = g \/ InGroup(group[o], g)

\* write with SelectedOnly: what is written and how deep it is indented.
RECURSIVE WriteFrom(_, _, _, _)
Written1(o, tab) == IF o \in selected THEN <<<<tab, o>>>> ELSE <<>>
WriteFrom(c, i, tab, w) ==
    IF i > Len(members[c]) THEN w
    ELSE WriteFrom(c, i + 1, tab, w \o Written1(members[c][i], tab) \o
             IF members[c][i] \in Containers THEN WriteFrom(members[c][i], 1, IF members[c][i] \in selected THEN tab + 1 ELSE tab, <<>>) ELSE <<>>)
write(c) == Written1(c, 0) \o WriteFrom(c, 1, IF c \in selected THEN 1 ELSE 0, <<>>)

-----------------------------------------------------------------------------
FirstWith(s, name) == IF \E i \in 1 .. Len(s) : InternalNameOf[s[i]] = name
                      THEN s[CHOOSE i \in 1 .. Len(s) : InternalNameOf[s[i]] = name /\ \A j \in 1 .. i - 1 : InternalNameOf[s[j]] # name] ELSE NoObject
(***************************************************************************)
(* Whatever scripts did to the sets and groups, an iterator meets exactly  *)
(* what is below its root, each before what it holds, and calls and        *)
(* searches meet the same in the same order (simBase.cc 2855-2882,         *)
(* 3560-3580, 3724-3783); an object is below a group when the group's      *)
(* iterator meets it (1967-1991).                                          *)
(***************************************************************************)
WalksMeetTheTree ==
    \A c \in DOMAIN members :
        /\ Iterated(c, Containers) = Flattened(c, Containers) /\ Iterated(c, GroupIds) = Flattened(c, GroupIds)
        /\ callOnChildren(c) = Flattened(c, Containers)
        /\ \A o \in SimObjectIds : InternalNameOf[o] # "" =>
              /\ findObjectByInternalName(c, InternalNameOf[o], TRUE) = FirstWith(Flattened(c, Containers), InternalNameOf[o])
              /\ findObjectByInternalName(c, InternalNameOf[o], FALSE) = FirstWith(members[c], InternalNameOf[o])
        /\ c \in GroupIds => \A o \in SimObjectIds : isChildOfGroup(o, c) <=> o = c \/ Contains(Flattened(c, GroupIds), o)
        /\ \A i \in 1 .. Len(PathsIn(c, <<>>, Containers)) :
              LET p == PathsIn(c, <<>>, Containers)[i]
                  names == [k \in 1 .. Len(p) |-> NameOf[p[k]]] IN
              (\A k \in 1 .. Len(p) : names[k] # "") => findObject(c, names) = Last(p)

(***************************************************************************)
(* Saving only the selection writes every selected object below the saved  *)
(* one once for each place it has, inside the nearest selected set or      *)
(* group that holds it, and nothing else (simBase.cc 529-542, 2952-2982);  *)
(* and moving a child puts it just before its target without disturbing    *)
(* the order of the others (2884-2921).                                    *)
(***************************************************************************)
Selection(path) == SelectSeq(path, LAMBDA o : o \in selected)
OrderAndSelectionKept ==
    \A c \in DOMAIN members :
        /\ write(c) = LET paths == <<<<c>>>> \o PathsIn(c, <<c>>, Containers)
                          written == SelectSeq(paths, LAMBDA p : Last(p) \in selected)
                      IN [i \in 1 .. Len(written) |-> <<Len(Selection(written[i])) - 1, Last(written[i])>>]
        /\ \A i, j \in 1 .. Len(members[c]) : i # j =>
              LET r == reOrder(members[c], members[c][i], members[c][j]) IN
              /\ Without(r, members[c][i]) = Without(members[c], members[c][i])
              /\ IndexIn(r, members[c][i]) + 1 = IndexIn(r, members[c][j])

\* Both: the order of the members is what walks, saves and lookups go by.
SetsAgree == WalksMeetTheTree /\ OrderAndSelectionKept
=============================================================================
