--------------------------- MODULE ScriptVariables ---------------------------
(***************************************************************************)
(* A dictionary of script variables (console/consoleInternal.cc): a hash   *)
(* table of chained entries that grows, and for every entry a piece of the *)
(* VM's heap that holds its value when that does not fit the entry.  It    *)
(* implements PlainVariables, and gives back the memory it takes.          *)
(*                                                                         *)
(* A bucket is a sequence of names, the head first.  A value is            *)
(* [type, at, text]: at says where its text is, 0 for the entry itself, an *)
(* allocation of the heap, or Host for the memory of a host's variable.    *)
(***************************************************************************)
EXTENDS Integers, SequencesExt, FiniteSetsExt

CONSTANTS VarNames, Texts,
          HashOf,           \* HashPointer of a name
          InitSize,         \* ST_INIT_SIZE
          NumberSize,       \* the size of a float or a uint
          HostSize,         \* the size of a value of the host's type
          FirstVariables,   \* sequences of names that are set before the first step
          Patterns,         \* wildcard expressions
          MaxVarSteps

VARIABLES data, count, entry, heap, host, varSteps
variableVars == <<data, count, entry, heap, host, varSteps>>

Host == -1

-----------------------------------------------------------------------------
(***************************************************************************)
(* The wildcard expressions of findMatch.cc: "?" stands for one character, *)
(* "*" for any number of them.  Scripts choose variables with them         *)
(* (Dictionary::exportVariables, deleteVariables).                         *)
(***************************************************************************)

\* isMatch: whichever case is asked for, characters compare without it.
Upper(c) == IF c = "a" THEN "A" ELSE IF c = "b" THEN "B" ELSE c
IsCharMatch(e, c) == e = "?" \/ Upper(e) = Upper(c)
CharOf(s, i) == IF i > Len(s) THEN "" ELSE s[i]
\* m is [e, s: places in the expression and the text, mp, cp: where to go on behind the last star]
MatchStep(exp, str, m) ==
    IF CharOf(exp, m.e) = "*" THEN [m EXCEPT !.e = @ + 1, !.mp = m.e + 1, !.cp = m.s + 1]
    ELSE IF m.e <= Len(exp) /\ IsCharMatch(exp[m.e], str[m.s]) THEN [m EXCEPT !.e = @ + 1, !.s = @ + 1]
    ELSE [m EXCEPT !.e = m.mp, !.s = m.cp, !.cp = @ + 1]
\* The match goes on to the end of the text: what is left of the expression must be stars.
RECURSIVE MatchFrom(_, _, _)
MatchFrom(exp, str, m) ==
    IF m.s > Len(str) THEN \A i \in m.e .. Len(exp) : exp[i] = "*"
    ELSE IF CharOf(exp, m.e) = "*" /\ m.e = Len(exp) THEN TRUE
    ELSE MatchFrom(exp, str, MatchStep(exp, str, m))
\* Up to the first star the characters must agree one by one.
StarOrEnd(exp, str) == CHOOSE k \in 1 .. Len(str) + 1 : (k = Len(str) + 1 \/ CharOf(exp, k) = "*") /\ \A i \in 1 .. k - 1 : CharOf(exp, i) # "*"
isMatch(exp, str) ==
    /\ \A i \in 1 .. StarOrEnd(exp, str) - 1 : i <= Len(exp) /\ IsCharMatch(exp[i], str[i])
    /\ MatchFrom(exp, str, [e |-> StarOrEnd(exp, str), s |-> StarOrEnd(exp, str), mp |-> 0, cp |-> 0])

-----------------------------------------------------------------------------
(***************************************************************************)
(* The table.  d is an array of buckets, c the count before the name.      *)
(***************************************************************************)
Bucket(n, size) == (HashOf[n] % size) + 1
NoBuckets(size) == [i \in 1 .. size |-> <<>>]
Push(d, n) == [d EXCEPT ![Bucket(n, Len(d))] = <<n>> \o @]
lookup(d, n) == Contains(d[Bucket(n, Len(d))], n)
\* A mutant: the entries stay in the bucket they had in the small table.
GrownKeeps(d, c) == IF c + 1 > Len(d) * 2 THEN [i \in 1 .. Len(d) * 4 - 1 |-> IF i \in DOMAIN d THEN d[i] ELSE <<>>] ELSE d
Grown(d, c) == IF c + 1 > Len(d) * 2 THEN FoldLeft(Push, NoBuckets(Len(d) * 4 - 1), FlattenSeq(d)) ELSE d
Added(d, c, n) == IF lookup(d, n) THEN d ELSE Push(Grown(d, c), n)
AddedCount(d, c, n) == IF lookup(d, n) THEN c ELSE c + 1
Removed(d, n) == [d EXCEPT ![Bucket(n, Len(d))] = SelectSeq(@, LAMBDA m : m # n)]

\* What a reader of the variables sees.
ValueOf(e, n) == [type |-> e.value.type, text |-> IF e.value.at = Host THEN host[n] ELSE IF e.value.at = 0 THEN e.value.text ELSE heap[e.value.at].text]
SeenBy == [n \in {m \in DOMAIN entry : lookup(data, m)} |-> [enforced |-> entry[n].enforced, registered |-> entry[n].mIsRegistered /\ entry[n].value.at = Host, value |-> ValueOf(entry[n], n)]]
PlainOf == INSTANCE PlainVariables WITH vars <- SeenBy
Types == 0 .. 3

NewEntry == [enforced |-> 0, mIsRegistered |-> FALSE, alloc |-> 0, value |-> [type |-> 0, at |-> 0, text |-> <<>>]]
HostEntry == [enforced |-> 3, mIsRegistered |-> TRUE, alloc |-> 0, value |-> [type |-> 3, at |-> Host, text |-> <<>>]]
EntryOf(n) == IF lookup(data, n) THEN entry[n] ELSE NewEntry

-----------------------------------------------------------------------------
(***************************************************************************)
(* The heap: allocation ids to [size, text].                               *)
(***************************************************************************)
FreshId == IF DOMAIN heap = {} THEN 1 ELSE Max(DOMAIN heap) + 1
Freed(h, id) == [i \in DOMAIN h \ {id} |-> h[i]]
\* clearEntry
clearEntry(h, e) == IF e.alloc = 0 THEN h ELSE Freed(h, e.alloc)
ClearedOf(h, ns) == FoldSet(LAMBDA n, g : clearEntry(g, entry[n]), h, ns)
\* resizeHeap: a text may stay in more room than it needs, a fixed size is exact.
Reallocates(e, size, force) == e.alloc = 0 \/ (force /\ heap[e.alloc].size # size) \/ heap[e.alloc].size < size
AllocFor(e, size, force) == IF Reallocates(e, size, force) THEN FreshId ELSE e.alloc
Resized(e, size, force) ==
    IF Reallocates(e, size, force) THEN [i \in DOMAIN clearEntry(heap, e) \cup {FreshId} |-> IF i = FreshId THEN [size |-> size, text |-> <<>>] ELSE heap[i]]
    ELSE heap

-----------------------------------------------------------------------------
(***************************************************************************)
(* Setting a value.                                                        *)
(***************************************************************************)
SizeFor(t, text) == CASE t = 0 -> Len(text) + 1 [] t = 3 -> HostSize [] OTHER -> NumberSize
\* Where the value of a type goes: texts and host values to the heap, numbers to the entry.
StoredAs(e, v, id) == [e EXCEPT !.alloc = id, !.value = [type |-> v.type, at |-> IF v.type \in {0, 3} THEN id ELSE 0, text |-> IF v.type \in {0, 3} THEN <<>> ELSE v.text]]
PutInHeap(n, e, v, id, h) ==
    /\ entry' = [m \in DOMAIN entry \cup {n} |-> IF m = n THEN StoredAs(e, v, id) ELSE entry[m]]
    /\ heap' = IF v.type \in {0, 3} THEN [h EXCEPT ![id].text = v.text] ELSE h
    /\ UNCHANGED host
ToVariable(n, e, v) ==
    PutInHeap(n, e, v, AllocFor(e, SizeFor(v.type, v.text), v.type # 0), Resized(e, SizeFor(v.type, v.text), v.type # 0))
\* A registered variable takes the value where it is, in the host's memory or, once it has lost that, on the heap.
ToRegistered(n, e, v) ==
    /\ entry' = entry
    /\ heap' = IF e.value.at = Host THEN heap ELSE [heap EXCEPT ![e.value.at].text = v.text]
    /\ host' = IF e.value.at = Host THEN [host EXCEPT ![n] = v.text] ELSE host
setEntryTypeValue(n, e, v) ==
    IF e.mIsRegistered THEN ToRegistered(n, e, PlainOf!Converted(v, 3))
    ELSE ToVariable(n, e, PlainOf!Converted(v, IF e.enforced # 0 THEN e.enforced ELSE v.type))

Step == varSteps < MaxVarSteps /\ varSteps' = varSteps + 1
AddName(n) == data' = Added(data, count, n) /\ count' = AddedCount(data, count, n) /\ Step
SameNames == UNCHANGED <<data, count>> /\ Step

\* A text, or what another variable holds (through the VM's API and by scripts alike).
setVariable(n, text) == AddName(n) /\ setEntryTypeValue(n, EntryOf(n), PlainOf!Value(0, text))
setVariableValue(n, m) == m \in DOMAIN entry /\ AddName(n) /\ setEntryTypeValue(n, EntryOf(n), ValueOf(entry[m], m))
setNumber(n, t, x) == AddName(n) /\ setEntryTypeValue(n, EntryOf(n), PlainOf!Value(t, x))
\* A tuple goes to the heap, whether or not the variable is registered; of a text's parts the first counts.
setEntryValues(n, x) ==
    /\ n \in DOMAIN entry /\ SameNames
    /\ ToVariable(n, entry[n], PlainOf!Converted(PlainOf!Value(1, x), entry[n].enforced))
\* A variable that gets another type starts from that type's zero.
setEntryType(n, t) ==
    /\ n \in DOMAIN entry /\ ~ entry[n].mIsRegistered /\ SameNames
    /\ IF entry[n].value.type = t THEN entry' = [entry EXCEPT ![n].enforced = t] /\ UNCHANGED <<heap, host>>
       ELSE ToVariable(n, [entry[n] EXCEPT !.enforced = t], PlainOf!Converted(PlainOf!Value(0, <<>>), t))
addVariable(n) ==
    /\ AddName(n) /\ heap' = clearEntry(heap, EntryOf(n)) /\ UNCHANGED host
    /\ entry' = [m \in DOMAIN entry \cup {n} |-> IF m = n THEN HostEntry ELSE entry[m]]
hostWrites(n, x) == host[n] # x /\ host' = [host EXCEPT ![n] = x] /\ UNCHANGED <<entry, heap>> /\ SameNames

Without(ns) ==
    /\ entry' = [m \in DOMAIN entry \ ns |-> entry[m]]
    /\ heap' = ClearedOf(heap, ns)
    /\ count' = count - Cardinality(ns)
    /\ UNCHANGED host /\ Step
removeVariable(n) == n \in DOMAIN entry /\ data' = Removed(data, n) /\ Without({n})
Matching(d, pattern) == {n \in ToSet(FlattenSeq(d)) : isMatch(pattern, n)}
deleteVariables(pattern) ==
    /\ Matching(data, pattern) # {}
    /\ data' = FoldSet(LAMBDA n, d : Removed(d, n), data, Matching(data, pattern)) /\ Without(Matching(data, pattern))
\* reset: the array stays as long as it is, but only InitSize buckets of it count.
reset == entry # <<>> /\ data' = NoBuckets(InitSize) /\ Without(DOMAIN entry)

\* The first variables hold a text each.
VariablesInit == \E start \in FirstVariables :
    /\ data = FoldLeft(Push, NoBuckets(InitSize), start) /\ count = Len(start) /\ varSteps = 0
    /\ entry = [n \in ToSet(start) |-> [NewEntry EXCEPT !.alloc = IndexFirstSubSeq(<<n>>, start), !.value.at = IndexFirstSubSeq(<<n>>, start)]]
    /\ heap = [i \in 1 .. Len(start) |-> [size |-> 2, text |-> <<"7">>]]
    /\ host = [n \in VarNames |-> <<"0">>]
VariablesNext ==
    \/ \E n \in VarNames, text \in Texts : setVariable(n, text)
    \/ \E n, m \in VarNames : setVariableValue(n, m)
    \/ \E n \in VarNames, t \in {1, 2}, x \in PlainOf!HostNumbers : setNumber(n, t, x)
    \/ \E n \in VarNames, x \in PlainOf!HostNumbers : setEntryValues(n, x)
    \/ \E n \in VarNames, t \in Types : setEntryType(n, t)
    \/ \E n \in VarNames : addVariable(n)
    \/ \E n \in VarNames, x \in PlainOf!HostNumbers : hostWrites(n, x)
    \/ \E n \in VarNames : removeVariable(n)
    \/ \E pattern \in Patterns : deleteVariables(pattern)
    \/ reset
VariablesSpec == VariablesInit /\ [][VariablesNext]_variableVars

-----------------------------------------------------------------------------
(***************************************************************************)
(* Completing names with the tab key (NamespaceState::canTabComplete,      *)
(* Dictionary::tabComplete and the console's): characters compare without  *)
(* case, "" is before every character.                                     *)
(***************************************************************************)
Order == <<"", "$", "a", "b", "c">>
Rank(c) == CHOOSE i \in 1 .. Len(Order) : Order[i] = c
Before(a, b) == \E i \in 1 .. Len(b) : Rank(CharOf(a, i)) < Rank(b[i]) /\ SubSeq(a, 1, i - 1) = SubSeq(b, 1, i - 1)
HasPrefix(n, line, base) == Len(n) >= base /\ SubSeq(n, 1, base) = SubSeq(line, 1, base)
canTabComplete(line, best, n, base, fForward) ==
    /\ HasPrefix(n, line, base)
    /\ IF fForward THEN Before(line, n) /\ (best = <<>> \/ Before(n, best))
       ELSE IF Len(line) = base THEN Before(IF best = <<>> THEN line ELSE best, n)
       ELSE Before(n, line) /\ (best = <<>> \/ Before(best, n))
Best(line, base, fForward) ==
    FoldLeft(LAMBDA best, n : IF canTabComplete(line, best, n, base, fForward) THEN n ELSE best, <<>>, FlattenSeq(data))
tabComplete(line, base, fForward) == IF Best(line, base, fForward) = <<>> THEN line ELSE Best(line, base, fForward)
Sorted(ns) == SetToSortSeq(ns, Before)
exportVariables(pattern) == SortSeq(SelectSeq(FlattenSeq(data), LAMBDA n : isMatch(pattern, n)), Before)

-----------------------------------------------------------------------------
(***************************************************************************)
(* Whatever is set, typed, registered and removed, and however the table   *)
(* grows under it, the dictionary reads like a plain map of variables:     *)
(* no value is lost, kept too long or seen under another name (console/    *)
(* consoleInternal.cc 88-570).                                             *)
(***************************************************************************)
ReadsLikeAMap == PlainOf!PlainSpec
(***************************************************************************)
(* Every allocation belongs to one variable and none is left behind; the   *)
(* value of a variable lies in its own; assigning a variable to itself     *)
(* does not free what it reads; and count, which decides when the table    *)
(* grows, is the number of entries (consoleInternal.cc 111-184, 347-354,   *)
(* 495-515).                                                               *)
(***************************************************************************)
MemoryIsOwned ==
    /\ DOMAIN heap = {entry[n].alloc : n \in DOMAIN entry} \ {0}
    /\ \A n \in DOMAIN entry : LET e == entry[n] IN
        /\ e.alloc # 0 => \A m \in DOMAIN entry \ {n} : entry[m].alloc # e.alloc
        /\ e.value.at \in {0, Host, e.alloc}
        /\ e.value.at = e.alloc /\ e.alloc # 0 /\ ~ e.mIsRegistered =>
             ~ Reallocates(e, SizeFor(e.value.type, heap[e.alloc].text), e.value.type # 0)
    /\ count = Cardinality(DOMAIN entry)
(***************************************************************************)
(* The tab key goes through the names that start like the line in          *)
(* alphabetical order, each once and back again, in whatever order the     *)
(* table holds them (consoleNamespace.cc 65-100, consoleInternal.cc        *)
(* 249-264), and an export lists every variable that matches once.         *)
(***************************************************************************)
TabsVisitEveryName ==
    \A n \in VarNames, base \in 1 .. 2 : LET line == SubSeq(n, 1, base)
                                             ns == Sorted({m \in DOMAIN entry : HasPrefix(m, line, base) /\ m # line}) IN
        /\ \A k \in 1 .. Len(ns) :
            /\ tabComplete(IF k = 1 THEN line ELSE ns[k - 1], base, TRUE) = ns[k]
            /\ tabComplete(IF k = Len(ns) THEN line ELSE ns[k + 1], base, FALSE) = IF Len(ns) > 0 /\ k = Len(ns) THEN Last(ns) ELSE ns[k]
        /\ exportVariables(line \o <<"*">>) = (IF line \in DOMAIN entry THEN <<line>> ELSE <<>>) \o ns

\* All three: what a script reads, what it lists and the memory behind it.
VariablesAgree == ReadsLikeAMap /\ []MemoryIsOwned /\ []TabsVisitEveryName

RECURSIVE Fits_(_, _)
Fits_(exp, s) ==
    IF exp = <<>> THEN s = <<>>
    ELSE IF Head(exp) = "*" THEN \E k \in 0 .. Len(s) : Fits_(Tail(exp), SubSeq(s, k + 1, Len(s)))
    ELSE s # <<>> /\ IsCharMatch(Head(exp), Head(s)) /\ Fits_(Tail(exp), Tail(s))
\* A wildcard expression matches exactly the texts it can be filled out to
\* (findMatch.cc 88-130).
MatchesFilledOut(s) == \A exp \in BoundedSeq({"*", "?", "a", "_"}, 3) : isMatch(exp, s) <=> Fits_(exp, s)
=============================================================================
