----------------------------- MODULE MCObjects -----------------------------
(***************************************************************************)
(* What objects are made of, one part at a time (the others stay as they   *)
(* are): the namespaces they take their methods from, the links of their   *)
(* classes, their fields, the files they are saved to, and sets of them.   *)
(***************************************************************************)
EXTENDS Namespaces, ObjectFields, SimSets

VARIABLE part

(* A class that scripts link to one parent or to another, the global       *)
(* functions, two packages, one function name.                             *)
CONSTANTS class1, parent1, parent2, global1, pkg1, pkg2, fn1
MCFound == {<<class1, pkg2>>}
MCLinks == {<<parent1, class1>>, <<parent2, class1>>}
MCDecls == {<<<<class1, None>>, fn1>>, <<<<class1, pkg1>>, fn1>>,
            <<<<class1, pkg2>>, fn1>>, <<<<parent1, None>>, fn1>>}

(* Fields of every kind of type; "a", "b" as character codes.              *)
MCLabels == <<<<97>>, <<98>>>>
MCFieldOrder == <<"canSaveDynamicFields", "internalName", "parentGroup", "class", "tags", "size", "list">>
MCTypeOf == [canSaveDynamicFields |-> "bool", internalName |-> "string", parentGroup |-> "simObject",
             class |-> "string", tags |-> "string", size |-> "S32", list |-> "S32Vector"]
MCCountOf == [f \in DOMAIN MCTypeOf |-> IF f = "tags" THEN 2 ELSE 1]
MCScriptFields == [hp |-> "F32"]
MCIndexOf == [k \in {"", "0", "1", "2"} |-> CASE k = "1" -> 1 [] k = "2" -> 2 [] OTHER -> 0]
\* Nothing, a digit, and a quote, a tab and a mark.
MCTexts == {<<>>, <<49>>, <<34, 9, 1>>}
MCLeftovers == {<<>>, <<49>>}

(* Two sets, a group and two leaves; two of them have an internal name.    *)
MCNameOf == [o \in 1 .. 5 |-> CASE o = 1 -> "s" [] o = 3 -> "g" [] o = 5 -> "x" [] OTHER -> ""]
MCInternalNameOf == [o \in 1 .. 5 |-> IF o \in {2, 5} THEN "i" ELSE ""]
-----------------------------------------------------------------------------
Parts == {"namespaces", "links", "fields", "files", "sets"}
objectVars == <<part, nsvars, linkVars, fieldVars, fileVars, setVars>>

\* A part that does not run has no objects and no file.
ObjectsInit ==
    /\ part \in Parts /\ NSInit
    /\ IF part = "links" THEN LinksInit ELSE up = <<>> /\ count = <<>> /\ linked = <<>> /\ disturbed = FALSE /\ linkSteps = 0
    /\ IF part = "fields" THEN FieldsInit ELSE ob = <<>> /\ interned = {} /\ sets = 0 /\ copied = <<>>
    /\ IF part = "files" THEN FilesInit ELSE content = NoFile /\ saves = 0
    /\ IF part = "sets" THEN SetsInit ELSE members = <<>> /\ group = <<>> /\ selected = {} /\ edits = 0

Namespaces_ == part = "namespaces" /\ UNCHANGED <<part, linkVars, fieldVars, fileVars, setVars>>
Links_ == part = "links" /\ UNCHANGED <<part, nsvars, fieldVars, fileVars, setVars>>
Fields_ == part = "fields" /\ UNCHANGED <<part, nsvars, linkVars, fileVars, setVars>>
Files_ == part = "files" /\ UNCHANGED <<part, nsvars, linkVars, fieldVars, setVars>>
Sets_ == part = "sets" /\ UNCHANGED <<part, nsvars, linkVars, fieldVars, fileVars>>

\* Namespaces go on for ever; the other parts end at their bounds.
Ended == part # "namespaces" /\ UNCHANGED objectVars

ObjectsNext ==
    \/ Namespaces_ /\ NSNext
    \/ Links_ /\ LinksNext
    \/ Fields_ /\ FieldsNext
    \/ Files_ /\ FilesNext
    \/ Sets_ /\ SetsNext
    \/ Ended
ObjectsSpec == ObjectsInit /\ [][ObjectsNext]_objectVars
=============================================================================
