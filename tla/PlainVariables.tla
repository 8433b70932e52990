---------------------------- MODULE PlainVariables ----------------------------
(***************************************************************************)
(* What a dictionary of script variables promises (console/consoleInternal *)
(* Dictionary): a map from names to values.  A value that is assigned is   *)
(* read back as it is, or, from a variable with an enforced type,          *)
(* converted to that type; and nothing else changes.  A variable that is   *)
(* registered by the host reads the host's memory.                         *)
(***************************************************************************)
EXTENDS Integers, Sequences

CONSTANTS VarNames,     \* names, as tuples of characters
          Texts         \* texts, as tuples of characters

VARIABLES vars          \* name -> variable, for the names that exist

\* Type ids: 0 string (TypeInternalString), 1 float, 2 uint, 3 a type the host registered
Types == 0 .. 3
\* A value is what a script can tell of it: its type and what it prints as.
Value(t, text) == [type |-> t, text |-> text]
HostNumbers == {<<"0">>, <<"7">>}
NumberOf(text) == IF text = <<"7">> THEN <<"7">> ELSE <<"0">>
\* CastValueFn of the type: a number is the number its text starts with.
Converted(v, t) == Value(t, IF t = 0 THEN v.text ELSE NumberOf(v.text))
Variable(enforced, v) == [enforced |-> enforced, value |-> v, registered |-> FALSE]
Unset == Variable(0, Value(0, <<>>))
VariableOf(n) == IF n \in DOMAIN vars THEN vars[n] ELSE Unset
\* The type a value gets: the enforced one, else its own.
TypeFor(x, t) == IF x.enforced = 0 THEN t ELSE x.enforced
With(n, x) == [m \in DOMAIN vars \cup {n} |-> IF m = n THEN x ELSE vars[m]]

Assign(n, v, t) == vars' = With(n, [VariableOf(n) EXCEPT !.value = Converted(v, TypeFor(VariableOf(n), t))])
\* A tuple is not written to the host's memory: the variable is the script's own from then on.
AssignTuple(n, v) ==
    /\ n \in DOMAIN vars
    /\ vars' = With(n, [vars[n] EXCEPT !.value = Converted(v, vars[n].enforced), !.registered = FALSE])
Enforce(n, t) ==
    /\ n \in DOMAIN vars
    /\ vars' = With(n, [VariableOf(n) EXCEPT !.enforced = t, !.value = IF @.type = t THEN @ ELSE Converted(Value(0, <<>>), t)])
Register(n, x) == vars' = With(n, [enforced |-> 3, value |-> Value(3, x), registered |-> TRUE])
HostWrites(n, x) == n \in DOMAIN vars /\ vars[n].registered /\ vars' = With(n, [vars[n] EXCEPT !.value = Value(3, x)])
Forget(ns) == vars' = [m \in DOMAIN vars \ ns |-> vars[m]]

PlainInit == \E ns \in SUBSET VarNames : vars = [n \in ns |-> Variable(0, Value(0, <<"7">>))]
PlainNext ==
    \/ UNCHANGED vars
    \/ \E n \in VarNames, text \in Texts :
          AssignTuple(n, Value(0, text)) \/ \E t \in Types : Assign(n, Value(0, text), t)
    \/ \E n \in VarNames, t \in Types : Enforce(n, t)
    \/ \E n \in VarNames, x \in HostNumbers : Register(n, x) \/ HostWrites(n, x)
    \/ \E ns \in SUBSET VarNames : Forget(ns)
PlainSpec == PlainInit /\ [][PlainNext]_vars
=============================================================================
