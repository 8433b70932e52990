---------------------------- MODULE ScriptClasses ---------------------------
(***************************************************************************)
(* The classes a VM knows (api.cpp): the native ones the host registers    *)
(* and the ones scripts declare with "class Name : Parent { ... }".        *)
(*                                                                         *)
(* A class takes the index it is first given in mClassList as its id       *)
(* (indices are 1 and up here, 0 stands for -1).  A script class has a     *)
(* parent among the classes, along which its fields are looked up, and a   *)
(* namespace of its own name that is linked to the parent's namespace,     *)
(* along which its constructor calls the parent's.  A script may declare   *)
(* a class again, with other fields and another parent; objects of it      *)
(* come and go, and a name an object has links namespaces as well.         *)
(***************************************************************************)
EXTENDS Integers, Sequences, FiniteSets, SequencesExt

CONSTANTS
  NativeClasses,     \* sequence of [name, parent, fields, has]: what the host registers
  DefaultClass,      \* mDefaultScriptClassName
  Declarations,      \* set of [name, parent, fields]: what scripts declare
  Links,             \* set of <<parent, child>>: what named objects link
  MaxClassSteps

VARIABLES
  classes,           \* mClassList
  spaces,            \* namespace -> [parent, refs]
  ctors,             \* the constructors: class name -> none or its declaration
  answers,           \* class name -> what its last declaration answered
  made,              \* the objects: [class, has, stage, set]
  held,              \* the links objects hold
  classSteps
classVars == <<classes, spaces, ctors, answers, made, held, classSteps>>

ScriptNames == {d.name : d \in Declarations}
Count == classSteps' = classSteps + 1 /\ classSteps < MaxClassSteps

\* Groups of fields and deprecated fields are marks in the list of fields.
Marks == {"StartGroup", "EndGroup", "Deprecated"}

\* getClassInfoByName, getClassId: the first of that name; 0 if there is none.
getClassId(n) ==
  LET at == {i \in DOMAIN classes : classes[i].name = n} IN IF at = {} THEN 0 ELSE Min(at)

\* Vm::registerClass: a native class without a root is its own root.  It has
\* the callbacks the host gave it; a stub makes no object, refuses its
\* arguments or refuses to add it.
Registered(list, c) ==
  Append(list, [name |-> c.name, parent |-> c.parent, root |-> Len(list) + 1,
                script |-> FALSE, fields |-> c.fields, has |-> c.has])
-----------------------------------------------------------------------------
(* Namespace::classLinkTo, unlinkClass: one parent, counted. *)
Linked(s, parent, child) ==
  IF s[child].parent \in {"", parent}
  THEN [s EXCEPT ![child] = [parent |-> parent, refs |-> @.refs + 1]] ELSE s
Unlinked(s, parent, child) ==
  IF s[child].parent # parent THEN s
  ELSE [s EXCEPT ![child] = [parent |-> IF @.refs = 1 THEN "" ELSE parent, refs |-> @.refs - 1]]

\* The namespace of the class a declaration names as its parent.
ParentOf(d) == IF d.parent = "" THEN DefaultClass ELSE d.parent
\* The native class below it all: a script parent's root, else the parent.
RootOf(d) ==
  LET p == getClassId(ParentOf(d)) IN IF p = 0 THEN 0 ELSE classes[p].root

NewClass(d) ==
  [name |-> d.name, parent |-> getClassId(ParentOf(d)), root |-> RootOf(d),
   script |-> TRUE, fields |-> d.fields, has |-> classes[RootOf(d)].has]

\* A native class of that name, or no class to derive from.
Refused(d) ==
  \/ getClassId(d.name) # 0 /\ ~classes[getClassId(d.name)].script
  \/ RootOf(d) = 0

\* The class as declared, in its old place if it had one.
Declared(d) ==
  IF getClassId(d.name) = 0 THEN Append(classes, NewClass(d))
  ELSE [classes EXCEPT ![getClassId(d.name)] = NewClass(d)]

\* Mutant: a namespace that has another parent is left as it is.
AcceptsAny(d) == TRUE
\* The namespace has no parent yet, or the right one.
Accepts(d) == spaces[d.name].parent \in {"", ParentOf(d)}

\* registerScriptClass, after the constructor was declared: that is a
\* function of its own and stays when the class is refused.  The class is in the list before its namespace is
\* linked; when the namespace has another parent the answer is no all the
\* same, and a link that is there already is not counted again.
registerScriptClass(d) ==
  /\ Count
  /\ ctors' = [ctors EXCEPT ![d.name] = <<d>>]
  /\ IF Refused(d)
     THEN answers' = [answers EXCEPT ![d.name] = FALSE] /\ UNCHANGED <<classes, spaces>>
     ELSE /\ classes' = Declared(d)
          /\ answers' = [answers EXCEPT ![d.name] = Accepts(d)]
          /\ spaces' = IF spaces[d.name].parent = "" THEN Linked(spaces, ParentOf(d), d.name) ELSE spaces
  /\ UNCHANGED <<made, held>>

\* What registering or deleting an object named child does to namespaces.
linkNamespace(parent, child) ==
  /\ Count
  /\ <<parent, child>> \notin held /\ spaces[child].parent \in {"", parent}
  /\ held' = held \cup {<<parent, child>>}
  /\ spaces' = Linked(spaces, parent, child)
  /\ UNCHANGED <<classes, ctors, answers, made>>
unlinkNamespace(parent, child) ==
  /\ Count
  /\ <<parent, child>> \in held
  /\ held' = held \ {<<parent, child>>}
  /\ spaces' = Unlinked(spaces, parent, child)
  /\ UNCHANGED <<classes, ctors, answers, made>>
-----------------------------------------------------------------------------
(* Fields and constructors. *)

\* getScriptClassFieldInfo: from the class up through its script parents, to
\* the first class that has the field; 0 if none has.
LookupFrom(id, f, steps) ==
  LET at[i \in 0 .. Len(classes), n \in 0 .. steps] ==
        IF i = 0 \/ n = 0 THEN 0
        ELSE IF ~classes[i].script THEN 0
        ELSE IF f \in ToSet(classes[i].fields) THEN i ELSE at[classes[i].parent, n - 1]
  IN at[id, steps]
getScriptClassFieldInfo(id, f) == LookupFrom(id, f, Len(classes) + 1)

\* A class and the parents it is walked up along, at most as many as there
\* are classes; a class that is its own parent ends the walk.
Ancestry(id, onlyScript) ==
  LET up[i \in 0 .. Len(classes), n \in 0 .. Len(classes)] ==
        IF i = 0 \/ n = 0 THEN <<>>
        ELSE IF onlyScript /\ ~classes[i].script THEN <<>>
        ELSE IF classes[i].parent = i THEN <<i>>
        ELSE <<i>> \o up[classes[i].parent, n - 1]
  IN up[id, Len(classes)]

\* emitScriptClassFields, emitNativeClassFields
FieldsOf(id) ==
  [i \in DOMAIN SelectSeq(classes[id].fields, LAMBDA f : f \notin Marks) |->
     <<id, SelectSeq(classes[id].fields, LAMBDA f : f \notin Marks)[i]>>]
AllFields(ids) == FlattenSeq([i \in DOMAIN ids |-> FieldsOf(ids[i])])

\* enumerateClassFields: a script class lists the fields scripts declared,
\* then those of its native root.
enumerateClassFields(id, includeParents) ==
  LET own == IF includeParents THEN Ancestry(id, classes[id].script) ELSE <<id>>
      root == classes[id].root
      below == IF includeParents THEN Ancestry(root, FALSE) ELSE <<root>>
  IN AllFields(IF classes[id].script THEN own \o below ELSE own)

\* The constructors that run for a class: the first along its namespaces,
\* which calls the next one above it if its class names a parent.
Constructors(n) ==
  LET up[m \in DOMAIN spaces \cup {""}, k \in 0 .. Cardinality(ScriptNames)] ==
        IF m = "" \/ k = 0 THEN <<>>
        ELSE IF m \notin ScriptNames THEN up[spaces[m].parent, k - 1]
        ELSE IF ctors[m] = <<>> THEN up[spaces[m].parent, k - 1]
        ELSE <<m>> \o (IF ctors[m][1].parent = "" THEN <<>> ELSE up[spaces[m].parent, k - 1])
  IN up[n, Cardinality(ScriptNames)]

\* OP_CREATE_OBJECT: the object takes the callbacks of its class as it is
\* now, and is in the class's namespace before anything runs.
createObject(n) ==
  /\ Count
  /\ getClassId(n) # 0 /\ Len(made) < 2
  /\ "CreateClassFn" \in classes[getClassId(n)].has
  /\ made' = Append(made, [class |-> n, has |-> classes[getClassId(n)].has, stage |-> "created", set |-> {}])
  /\ UNCHANGED <<classes, spaces, ctors, answers, held>>

\* invokeScriptClassConstructor: once per object, before it has its arguments.
\* The fields every constructor of the chain gives a value to.
invokeScriptClassConstructor(i) ==
  /\ Count
  /\ i \in DOMAIN made /\ made[i].stage = "created"
  /\ made' = [made EXCEPT ![i].stage = IF "ProcessArgsFn" \in made[i].has THEN "constructed" ELSE "dropped",
                          ![i].set = IF classes[getClassId(made[i].class)].script
                                     THEN UNION {ToSet(ctors[n][1].fields) : n \in ToSet(Constructors(made[i].class))} ELSE {}]
  /\ UNCHANGED <<classes, spaces, ctors, answers, held>>

\* OP_ADD_OBJECT: an object that cannot be added is destroyed.
addObject(i) ==
  /\ Count
  /\ i \in DOMAIN made /\ made[i].stage = "constructed"
  /\ made' = [made EXCEPT ![i].stage = IF "AddObjectFn" \in made[i].has THEN "added" ELSE "dropped"]
  /\ UNCHANGED <<classes, spaces, ctors, answers, held>>
-----------------------------------------------------------------------------
ClassesInit ==
  /\ classes = FoldLeft(Registered, <<>>, NativeClasses)
  /\ spaces = [n \in ScriptNames \cup {c.name : c \in ToSet(NativeClasses)} \cup UNION {{l[1], l[2]} : l \in Links} |->
                 [parent |-> IF \E c \in ToSet(NativeClasses) : c.name = n /\ c.parent # 0
                             THEN NativeClasses[(CHOOSE c \in ToSet(NativeClasses) : c.name = n).parent].name ELSE "",
                  refs |-> 1]]
  /\ ctors = [n \in ScriptNames |-> <<>>]
  /\ answers = [n \in ScriptNames |-> FALSE]
  /\ made = <<>> /\ held = {} /\ classSteps = 0
ClassesNext ==
  \/ \E d \in Declarations : registerScriptClass(d)
  \/ \E l \in Links : linkNamespace(l[1], l[2])
  \/ \E l \in Links : unlinkNamespace(l[1], l[2])
  \/ \E n \in ScriptNames : createObject(n)
  \/ \E i \in 1 .. 2 : invokeScriptClassConstructor(i)
  \/ \E i \in 1 .. 2 : addObject(i)
ClassesSpec == ClassesInit /\ [][ClassesNext]_classVars
-----------------------------------------------------------------------------
\* A class whose last declaration was accepted, like those it derives from.
Settled(n) ==
  \A i \in ToSet(Ancestry(getClassId(n), TRUE)) : answers[classes[i].name]
AllNames == UNION {ToSet(d.fields) : d \in Declarations}

\* The two ways up from a class agree: the constructors that run for a new
\* object, found along namespaces, are those of the classes its fields are
\* looked up in, found along parent ids; whatever was declared again, and
\* whichever objects came and went.
ConstructorsFollowFields ==
  \A n \in ScriptNames : answers[n] /\ Settled(n) =>
     Constructors(n) = [i \in DOMAIN Ancestry(getClassId(n), TRUE) |-> classes[Ancestry(getClassId(n), TRUE)[i]].name]

\* A field is listed for a class as often as there are classes above it that
\* have it, first by the class a look-up finds, and the list ends with
\* the fields of the native root.
ListsWhatIsFound ==
  \A id \in DOMAIN classes :
    LET listed == enumerateClassFields(id, TRUE)
        root == FieldsOf(classes[id].root)
    IN /\ classes[id].script => \A f \in AllNames :
            LET found == getScriptClassFieldInfo(id, f)
                of == SelectSeq(listed, LAMBDA e : e[2] = f /\ classes[e[1]].script)
            IN IF found = 0 THEN of = <<>> ELSE of # <<>> /\ of[1][1] = found
       /\ \A i, j \in DOMAIN listed : listed[i] = listed[j] => i = j
       /\ \A i \in DOMAIN root : root[i] \in ToSet(listed)
\* Fields, constructors and listings of classes.
ClassesAgree == ConstructorsFollowFields /\ ListsWhatIsFound
=============================================================================
