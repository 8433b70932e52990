----------------------------- MODULE Namespaces -----------------------------
(***************************************************************************)
(* The namespaces of script functions (engine/console/consoleNamespace.cc):*)
(* packages that are laid over them, links between them, the tables that    *)
(* cache lookups, and the declaration of a function, which takes all active *)
(* packages off and puts them on again.                                    *)
(*                                                                         *)
(* A namespace is the pair <<mName, mPackage>>, find() keeps it unique.    *)
(* An entry list is swapped between namespaces as a whole and keeps at     *)
(* most one entry per name, so a list is named by the namespace that had   *)
(* it first and an entry by <<list, function name>>.                       *)
(***************************************************************************)
EXTENDS Integers, Sequences, FiniteSets, Selection

CONSTANTS
    Names,              \* mName of namespaces
    Global,             \* the null name, of the namespace of functions
    Pkgs,               \* package names
    Fns,                \* function names
    None,               \* the null pointer
    MaxActivePackages,  \* limit on active packages, 512 in the code
    RefModulus,         \* mRefCountToParent is a U32: 2^32
    FoundSpaces,        \* the namespaces an embedder looks up by name
    LinkPairs,          \* <<parent, child>>: the class links scripts ask for
    ScriptDecls,        \* <<namespace, function>>: what scripts declare
    MaxLinks            \* bound of the model: links held on one namespace

ASSUME NamespacesAssumption ==
    /\ Global \in Names
    /\ None \notin Names \cup Pkgs \cup Fns /\ None \notin Names \X (Pkgs \cup {None})
    /\ MaxActivePackages \in Nat \ {0}
    /\ RefModulus \in Nat \ {0, 1}
    /\ MaxLinks \in Nat /\ MaxLinks < RefModulus
    /\ ScriptDecls \subseteq (Names \X (Pkgs \cup {None})) \X Fns
    /\ FoundSpaces \subseteq Names \X (Pkgs \cup {None})
    /\ LinkPairs \subseteq Names \X Names
    /\ \A l \in LinkPairs : l[1] # l[2]

Spaces == Names \X (Pkgs \cup {None})
Base(s) == <<s[1], None>>
EntryIds == Spaces \X Fns

VARIABLES
    spaces,   \* mNamespaceList
    parent,   \* mParent
    refs,     \* mRefCountToParent
    lists,    \* mEntryList: the list each namespace has now
    ents,     \* mNamespace of the entries of each list, None for no entry
    active,   \* mActivePackages up to mNumActivePackages
    table,    \* mHashTable, None where mHashSequence # mCacheSequence
    trashed,  \* mCacheSequence # 0
    job       \* the loop of deactivatePackage or of a declaration under way

nsvars == <<spaces, parent, refs, lists, ents, active, table, trashed, job>>
tables == <<table, trashed>>
-----------------------------------------------------------------------------
\* What runs until control is back with the script or the embedder: the
\* entry to declare, if any, and mActivePackages up to mOldNumActivePackages.
Job(op, keep, decl, saved) ==
    [op |-> op, keep |-> keep, decl |-> decl, saved |-> saved]
Idle == Job("idle", 0, None, <<>>)

Jobs == [op : {"idle", "unlink", "declare", "relink"}, keep : Nat,
         decl : EntryIds \cup {None}, saved : Seq(Pkgs)]

NSInit ==
    /\ spaces = {<<Global, None>>}
    /\ parent = [s \in Spaces |-> None]
    /\ refs = [s \in Spaces |-> 0]
    /\ lists = [s \in Spaces |-> s]
    /\ ents = [l \in Spaces |-> [f \in Fns |-> None]]
    /\ active = <<>>
    /\ table = [s \in Spaces |-> IF s \in spaces THEN [f \in Fns |-> None]
                                ELSE None]
    /\ trashed = FALSE
    /\ job = Idle
-----------------------------------------------------------------------------
\* NamespaceState::find: a new namespace has an empty table and
\* mHashSequence 0.
found(S) ==
    /\ spaces' = spaces \cup S
    /\ table' = [s \in Spaces |-> IF s \in S \ spaces /\ ~trashed
                                  THEN [f \in Fns |-> None] ELSE table[s]]
    /\ UNCHANGED trashed

\* NamespaceState::trashCache.
trashCache ==
    /\ table' = [s \in Spaces |-> None]
    /\ trashed' = TRUE

\* Vm::findNamespace. An embedder creates the
\* namespace of a package while the package is not active.
findNamespace(s) ==
    /\ job = Idle
    /\ s \notin spaces
    /\ \A i \in DOMAIN active : active[i] # s[2]
    /\ found({s})
    /\ UNCHANGED <<parent, refs, lists, ents, active, job>>
-----------------------------------------------------------------------------
PackageSpaces(p) == {s \in spaces : s[2] = p}

\* The namespace that s exchanges entries with when p is put on or taken
\* off: the loop bodies of activatePackage and deactivatePackage.
Partner(p, s) ==
    IF s \in PackageSpaces(p) THEN Base(s)
    ELSE IF s[2] = None /\ <<s[1], p>> \in spaces THEN <<s[1], p>>
    ELSE s

\* The lists are swapped, after mNamespace of their entries is set to the
\* namespace that gets them.
swapped(p) == [s \in Spaces |-> lists[Partner(p, s)]]

\* Mutant: mNamespace is set on the entries of the package only.
reownedOneWay(p) ==
    [l \in Spaces |->
        IF \E s \in PackageSpaces(p) : lists[s] = l
        THEN LET s == CHOOSE s \in PackageSpaces(p) : lists[s] = l
             IN [f \in Fns |-> IF ents[l][f] = None THEN None ELSE Base(s)]
        ELSE ents[l]]

reowned(p) ==
    [l \in Spaces |->
        IF \E s \in Spaces : lists[s] = l /\ Partner(p, s) # s
        THEN LET s == CHOOSE s \in Spaces : lists[s] = l /\ Partner(p, s) # s
             IN [f \in Fns |-> IF ents[l][f] = None THEN None
                               ELSE Partner(p, s)]
        ELSE ents[l]]

\* activatePackage once its early returns are passed.
hook(p) ==
    LET hooked == PackageSpaces(p) IN
    /\ parent' = [s \in Spaces |->
                    IF s \in hooked THEN parent[Base(s)]
                    ELSE IF s[2] = None /\ <<s[1], p>> \in hooked
                         THEN <<s[1], p>> ELSE parent[s]]
    /\ lists' = swapped(p)
    /\ ents' = reowned(p)
    /\ active' = Append(active, p)
    /\ spaces' = spaces \cup {Base(s) : s \in hooked}
    /\ trashCache
    /\ UNCHANGED refs

\* Mutant: deactivatePackage does not reset mParent of the package.
unhookKeepingParent(p) ==
    LET hooked == PackageSpaces(p) IN
    /\ parent' = [s \in Spaces |->
                    IF s[2] = None /\ <<s[1], p>> \in hooked
                    THEN parent[<<s[1], p>>] ELSE parent[s]]
    /\ lists' = swapped(p)
    /\ ents' = reowned(p)
    /\ active' = SubSeq(active, 1, Len(active) - 1)
    /\ found({Base(s) : s \in hooked})
    /\ UNCHANGED refs

\* One round of the outer loop of deactivatePackage.
unhook(p) ==
    LET hooked == PackageSpaces(p) IN
    /\ parent' = [s \in Spaces |->
                    IF s \in hooked THEN None
                    ELSE IF s[2] = None /\ <<s[1], p>> \in hooked
                         THEN parent[<<s[1], p>>] ELSE parent[s]]
    /\ lists' = swapped(p)
    /\ ents' = reowned(p)
    /\ active' = SubSeq(active, 1, Len(active) - 1)
    /\ found({Base(s) : s \in hooked})
    /\ UNCHANGED refs

CanActivate(p) ==
    /\ Len(active) < MaxActivePackages
    /\ \A i \in DOMAIN active : active[i] # p

activatePackage(p) ==
    /\ job = Idle
    /\ CanActivate(p)
    /\ hook(p)
    /\ UNCHANGED job

deactivatePackage(p) ==
    /\ job = Idle
    /\ \E i \in DOMAIN active :
        /\ active[i] = p
        /\ job' = Job("unlink", i - 1, None, <<>>)
    /\ trashCache
    /\ UNCHANGED <<spaces, parent, refs, lists, ents, active>>

unlinkRound ==
    /\ job.op = "unlink"
    /\ Len(active) > job.keep
    /\ unhook(active[Len(active)])
    /\ job' = IF Len(active) - 1 > job.keep THEN job
              ELSE IF job.decl = None THEN Idle
              ELSE [job EXCEPT !.op = "declare"]
-----------------------------------------------------------------------------
\* OP_FUNC_DECL and OP_SIGNAL_DECL: unlinkPackages, then the entry, then
\* relinkPackages.
declare(d) ==
    /\ job = Idle
    /\ IF active = <<>>
       THEN job' = Job("declare", 0, d, active) /\ UNCHANGED tables
       ELSE job' = Job("unlink", 0, d, active) /\ trashCache
    /\ UNCHANGED <<spaces, parent, refs, lists, ents, active>>

\* Namespace::createLocalEntry: an entry of the same name is used again.
added(s, f) ==
    [ents EXCEPT ![lists[s]][f] = IF @ = None THEN s ELSE @]

addDeclared ==
    LET s == job.decl[1] IN
    /\ job.op = "declare"
    /\ ents' = added(s, job.decl[2])
    /\ spaces' = spaces \cup {s}
    /\ trashCache
    /\ job' = IF job.saved = <<>> THEN Idle ELSE [job EXCEPT !.op = "relink"]
    /\ UNCHANGED <<parent, refs, lists, active>>

\* Mutant: relinkPackages ends one package early.
relinkRoundShort ==
    LET p == job.saved[Len(active) + 1] IN
    /\ job.op = "relink"
    /\ CanActivate(p)
    /\ hook(p)
    /\ job' = IF Len(active) + 2 >= Len(job.saved) THEN Idle ELSE job

\* One round of relinkPackages; activatePackage may refuse.
relinkRound ==
    LET p == job.saved[Len(active) + 1] IN
    /\ job.op = "relink"
    /\ CanActivate(p)
    /\ hook(p)
    /\ job' = IF Len(active) + 1 = Len(job.saved) THEN Idle ELSE job

\* Mutant: addCommand leaves the lookup tables alone.
addCommandKeepingTables(s, f) ==
    /\ job = Idle
    /\ s \in spaces
    /\ ents' = added(s, f)
    /\ UNCHANGED <<spaces, parent, refs, lists, active, tables, job>>

\* Vm::addNamespaceFunction and addNamespaceSignal.
addCommand(s, f) ==
    /\ job = Idle
    /\ s \in spaces
    /\ ents' = added(s, f)
    /\ trashCache
    /\ UNCHANGED <<spaces, parent, refs, lists, active, job>>
-----------------------------------------------------------------------------
\* The chain of mParent pointers par from s on.
Ancestors(par, s) ==
    LET next(x) == IF x = None THEN None ELSE par[x]
        anc[k \in 0 .. Cardinality(Spaces)] ==
            IF k = 0 THEN s ELSE next(anc[k - 1])
    IN anc

\* One round of the walk of classLinkTo and unlinkClass: to the parent, if it
\* is of the name n.
Walked(par, n, at) == IF par[at] # None /\ par[at][1] = n THEN par[at] ELSE at
\* Its end: the last namespace of the chain of s that is of its own name.  All
\* it can pass is a package that is active.
Bottom(par, s) ==
    LET walk[k \in 0 .. Len(active)] == IF k = 0 THEN s ELSE Walked(par, s[1], walk[k - 1])
    IN walk[Len(active)]

\* The entry lookupRecursive finds from namespace s.
LookupRecursive(s, f) ==
    LET anc == Ancestors(parent, s)
        has(k) == anc[k] # None /\ ents[lists[anc[k]]][f] # None
    IN IF \E k \in DOMAIN anc : has(k)
       THEN <<lists[anc[CHOOSE k \in DOMAIN anc :
                          has(k) /\ \A j \in 0 .. k - 1 : ~has(j)]], f>>
       ELSE None

NoEntries(s) == \A f \in Fns : ents[lists[s]][f] = None

\* Namespace::buildHashTable: a namespace without entries shares the table
\* of its parent, built first.
buildHashTable(s) ==
    LET anc == Ancestors(parent, s)
        ends(k) == \/ table[anc[k]] # None
                   \/ ~NoEntries(anc[k])
                   \/ parent[anc[k]] = None
        end == CHOOSE k \in DOMAIN anc :
                 ends(k) /\ \A j \in 0 .. k - 1 : ~ends(j)
        found_ == IF table[anc[end]] # None THEN table[anc[end]]
                  ELSE [f \in Fns |-> LookupRecursive(anc[end], f)]
        built == {anc[k] : k \in 0 .. end}
    IN /\ table' = [n \in Spaces |-> IF n \in built THEN found_ ELSE table[n]]
       /\ UNCHANGED trashed

\* Namespace::lookup, as far as it changes anything.
lookup(s) ==
    /\ job = Idle
    /\ s \in spaces /\ table[s] = None
    /\ buildHashTable(s)
    /\ UNCHANGED <<spaces, parent, refs, lists, ents, active, job>>
-----------------------------------------------------------------------------
\* Namespace::classLinkTo and unlinkClass on the links st.
Links == [parent |-> parent, refs |-> refs]

Joins(st, p, c) ==
    LET b == Bottom(st.parent, c) IN st.parent[b] \in {None, p}

classLinkTo(st, p, c) ==
    IF ~Joins(st, p, c) THEN st
    ELSE [parent |-> [st.parent EXCEPT ![Bottom(st.parent, c)] = p],
          refs |-> [st.refs EXCEPT ![c] = (@ + 1) % RefModulus]]

unlinkClass(st, p, c) ==
    LET left == (st.refs[c] + RefModulus - 1) % RefModulus IN
    IF ~Joins(st, p, c) THEN st
    ELSE [parent |-> IF left # 0 THEN st.parent
                     ELSE [st.parent EXCEPT ![Bottom(st.parent, c)] = None],
          refs |-> [st.refs EXCEPT ![c] = left]]

\* Vm::linkNamespace and Vm::unlinkNamespace; who unlinks has linked.
linkNamespace(p, c) ==
    LET st == classLinkTo(Links, <<p, None>>, <<c, None>>) IN
    /\ job = Idle
    /\ refs[<<c, None>>] < MaxLinks
    /\ parent' = st.parent /\ refs' = st.refs
    /\ found({<<p, None>>, <<c, None>>})
    /\ UNCHANGED <<lists, ents, active, job>>

unlinkNamespace(p, c) ==
    LET st == unlinkClass(Links, <<p, None>>, <<c, None>>) IN
    /\ job = Idle
    /\ refs[<<c, None>>] > 0
    /\ parent' = st.parent /\ refs' = st.refs
    /\ found({<<p, None>>, <<c, None>>})
    /\ UNCHANGED <<lists, ents, active, job>>
-----------------------------------------------------------------------------
NSNext ==
    \/ \E s \in FoundSpaces : findNamespace(s)
    \/ \E s \in Spaces : lookup(s)
    \/ \E p \in Pkgs : activatePackage(p) \/ deactivatePackage(p)
    \/ unlinkRound \/ addDeclared \/ relinkRound
    \/ \E d \in ScriptDecls : declare(d) \/ addCommand(d[1], d[2])
    \/ \E l \in LinkPairs : linkNamespace(l[1], l[2]) \/ unlinkNamespace(l[1], l[2])

NSSpec == NSInit /\ [][NSNext]_nsvars
-----------------------------------------------------------------------------
\* The types, with the capacity of mActivePackages, which activatePackage tests
\* and relinkPackages relies on. What lookup tables hold is
\* TablesFollowDefinitions.
NSTypeOK ==
    /\ spaces \subseteq Spaces
    /\ parent \in [Spaces -> Spaces \cup {None}]
    /\ refs \in [Spaces -> 0 .. RefModulus - 1]
    /\ lists \in [Spaces -> Spaces]
    /\ ents \in [Spaces -> [Fns -> Spaces \cup {None}]]
    /\ active \in Seq(Pkgs) /\ Len(active) <= MaxActivePackages
    /\ job \in Jobs

\* activatePackage and deactivatePackage only ever exchange lists, and keep
\* mNamespace of every entry in step: each list has one holder, and each
\* entry names the namespace whose list it is in, where a Parent:: call of
\* the function starts.
EntriesKnowTheirNamespace ==
    /\ \A s, t \in Spaces : lists[s] = lists[t] => s = t
    /\ \A s \in Spaces, f \in Fns :
        ents[lists[s]][f] \in {None, s}

\* The active packages that have functions for the namespaces named n.
Layers(n) == Chosen(active, {p \in Pkgs : <<n, p>> \in spaces})

\* Whatever is activated, deactivated out of order, declared or linked in
\* between, the packages of a name lie over it as a stack, the last one
\* activated on top: its functions are in the list that calls by the name
\* search, and mParent leads from each layer to the one below, from the
\* lowest to the class link. Packages that are not active are not linked
\* and have their own functions.
PackagesStack ==
    \A n \in Names :
        LET h == Layers(n)
            space(i) == IF i = Len(h) + 1 THEN <<n, None>> ELSE <<n, h[i]>>
            own(i) == IF i = 0 THEN <<n, None>> ELSE <<n, h[i]>>
        IN /\ \A i \in 1 .. Len(h) + 1 : lists[space(i)] = own(i - 1)
           /\ \A i \in 2 .. Len(h) + 1 : parent[space(i)] = space(i - 1)
           /\ parent[space(1)] # None => parent[space(1)][1] # n
           /\ \A p \in Pkgs : (\A i \in DOMAIN h : h[i] # p) =>
                 parent[<<n, p>>] = None /\ lists[<<n, p>>] = <<n, p>>

\* The class link of a name is where its lowest layer points, so it must
\* move with every package that is put under or taken from there, and lasts
\* as long as links are held: linkNamespace and unlinkNamespace may come
\* with other packages active than each other.
LinksOutlivePackages ==
    \A n \in Names :
        LET h == Layers(n)
            lowest == IF h = <<>> THEN <<n, None>> ELSE <<n, h[1]>>
        IN parent[lowest] = None <=> refs[<<n, None>>] = 0

\* Both: with the classes' links, the layers are the active packages.
PackagesConsistent == NSTypeOK /\ PackagesStack /\ LinksOutlivePackages

\* A declaration ends with the packages that were active when it began, in
\* their order, though unlinkPackages takes them all off.
DeclarationsKeepPackages ==
    [][(job.decl # None /\ job'.decl = None) => active' = job.saved]_nsvars

Means(s) == [f \in Fns |-> LookupRecursive(s, f)]

\* The lookup tables. A table that is kept over a step is kept because
\* every name still resolves to what it did, unless the step (un)linked
\* namespaces, which does not discard tables; and a table that is built
\* holds what the namespace resolves to, unless it is that of an ancestor
\* that had one.
TablesFollowDefinitions ==
    [][\A s \in Spaces : table'[s] # None =>
        IF table[s] # None
        THEN table'[s] = table[s] /\ (refs' = refs => Means(s)' = Means(s))
        ELSE \/ table'[s] = Means(s)'
             \/ \E k \in DOMAIN Ancestors(parent, s) :
                    LET a == Ancestors(parent, s)[k] IN
                    a # None /\ table'[s] = table[a]]_nsvars
-----------------------------------------------------------------------------
(***************************************************************************)
(* How sim objects link namespaces: the native class's, the superclass's,  *)
(* the class's and the object's own, each the parent of the next.  A link  *)
(* is counted in its child, and the last object that unlinks drops it.     *)
(***************************************************************************)
CONSTANTS
    LinkedObjects, NativeClass, ScriptClass, \* a namespace of each kind of class
    ClassNames, SuperNames, ObjectNames,     \* what objects may be given
    CountModulus,    \* mRefCountToParent is a U32: 2^32
    MaxLinkSteps     \* bound

NoName == ""
GivenNames == ClassNames \cup SuperNames \cup ObjectNames
LinkSpaces == {NativeClass, ScriptClass} \cup GivenNames

\* No object is given the name of its native or script class; what an object
\* would be linked through twice has one count.
ASSUME LinksAssumption ==
    /\ IsFiniteSet(LinkedObjects)
    /\ CountModulus \in Nat /\ Cardinality(LinkedObjects) < CountModulus
    /\ NoName \notin LinkSpaces
    /\ {NativeClass, ScriptClass} \cap GivenNames = {}

VARIABLES
    up,         \* a namespace's mParent
    count,      \* its mRefCountToParent
    linked,     \* an object's names, whether it is added, and its mVMNameSpace
    disturbed,  \* a link was refused, or not found after a class changed
    linkSteps

linkVars == <<up, count, linked, disturbed, linkSteps>>
Unadded == [added |-> FALSE, scripted |-> FALSE, cls |-> NoName, sup |-> NoName, name |-> NoName, ns |-> NoName]
LinksInit ==
    /\ up = [s \in LinkSpaces |-> NoName] /\ count = [s \in LinkSpaces |-> 0]
    /\ linked = [o \in LinkedObjects |-> Unadded]
    /\ disturbed = FALSE /\ linkSteps = 0

(***************************************************************************)
(* A step of linking: the two tables, what the last call answered, and     *)
(* whether any was refused.                                                *)
(***************************************************************************)
Fits(st, p, c) == st.up[c] \in {NoName, p}
classLinked(st, p, c) ==
    IF Fits(st, p, c) THEN [up |-> [st.up EXCEPT ![c] = p], count |-> [st.count EXCEPT ![c] = (@ + 1) % CountModulus], ok |-> TRUE, bad |-> st.bad]
    ELSE [up |-> st.up, count |-> st.count, ok |-> FALSE, bad |-> TRUE]
\* A child without a parent is unlinked as well.
classUnlinked(st, p, c) ==
    LET left == (st.count[c] + CountModulus - 1) % CountModulus
    IN IF Fits(st, p, c)
       THEN [up |-> [st.up EXCEPT ![c] = IF left = 0 THEN NoName ELSE @], count |-> [st.count EXCEPT ![c] = left], ok |-> TRUE, bad |-> st.bad]
       ELSE [st EXCEPT !.ok = FALSE]
Tables == [up |-> up, count |-> count, ok |-> TRUE, bad |-> FALSE]

\* One level of the chain: a name that is linked becomes the next parent, one
\* that is refused is forgotten.
Level(at, name) ==
    LET st == classLinked(at.st, at.parent, name)
    IN IF name = NoName THEN [st |-> at.st, parent |-> at.parent, kept |-> NoName]
       ELSE IF st.ok THEN [st |-> st, parent |-> name, kept |-> name] ELSE [st |-> st, parent |-> at.parent, kept |-> NoName]
BaseOf(x) == IF x.scripted THEN ScriptClass ELSE NativeClass
\* An object of a script class is linked by its name only.
SupOf(x) == IF x.scripted THEN NoName ELSE x.sup
ClsOf(x) == IF x.scripted THEN NoName ELSE x.cls
Linked(st, x) ==
    LET at1 == Level([st |-> st, parent |-> BaseOf(x), kept |-> NoName], SupOf(x))
        at2 == Level(at1, ClsOf(x))
        at3 == Level(at2, x.name)
    IN [st |-> at3.st, x |-> [x EXCEPT !.sup = IF x.scripted THEN @ ELSE at1.kept, !.cls = IF x.scripted THEN @ ELSE at2.kept, !.ns = at3.parent]]

\* unlinkNamespaces goes up from the object's name, or from its class.
Drop(at, p) ==
    IF p = NoName THEN at
    ELSE LET st == classUnlinked(at.st, p, at.child) IN [st |-> st, child |-> IF st.ok THEN p ELSE at.child]
Unlinked(st, x) ==
    IF x.name # NoName THEN Drop(Drop(Drop([st |-> st, child |-> x.name], ClsOf(x)), SupOf(x)), BaseOf(x)).st
    ELSE IF ClsOf(x) # NoName THEN Drop(Drop([st |-> st, child |-> x.cls], SupOf(x)), NativeClass).st
    ELSE IF SupOf(x) # NoName THEN Drop([st |-> st, child |-> x.sup], NativeClass).st ELSE st
\* linkNamespaces unlinks first when the object has a namespace.
linkNamespaces(st, x) == Linked(IF x.ns # NoName THEN Unlinked(st, x) ELSE st, x)

(***************************************************************************)
(* The operations.                                                         *)
(***************************************************************************)
LinkStep == linkSteps < MaxLinkSteps /\ linkSteps' = linkSteps + 1
Became(o, r, changed) ==
    /\ up' = r.st.up /\ count' = r.st.count /\ linked' = [linked EXCEPT ![o] = r.x]
    /\ disturbed' = (disturbed \/ r.st.bad \/ changed)
\* onAdd, of an object with its fields and its name set, and onRemove.
onAdd(o, x) ==
    /\ LinkStep /\ ~linked[o].added
    /\ Became(o, linkNamespaces(Tables, [x EXCEPT !.added = TRUE]), FALSE)
onRemove(o) ==
    /\ LinkStep /\ linked[o].added
    /\ Became(o, [st |-> Unlinked(Tables, linked[o]), x |-> Unadded], FALSE)
\* Mutant: the name is changed under the links.
assignNameEarly(o, name) ==
    /\ LinkStep /\ linked[o].added
    /\ LET x == [linked[o] EXCEPT !.name = name]
       IN Became(o, Linked(Unlinked(Tables, x), [x EXCEPT !.ns = NoName]), FALSE)
\* assignName: a name that another object has is not refused, since the string
\* of a script is no entry of the string table.
assignName(o, name) ==
    /\ LinkStep /\ linked[o].added
    /\ Became(o, Linked(Unlinked(Tables, linked[o]), [linked[o] EXCEPT !.name = name, !.ns = NoName]), FALSE)
\* setClassNamespace and setSuperClassNamespace set the member, then link, which
\* unlinks by the new member. That finds the links of the old one when there
\* was none and the walk up starts below it.
FindsClass(x, name) == x.scripted \/ name = x.cls \/ (x.cls = NoName /\ x.name # NoName)
setClassNamespace(o, name) ==
    /\ LinkStep /\ linked[o].added
    /\ Became(o, linkNamespaces(Tables, [linked[o] EXCEPT !.cls = name]), ~FindsClass(linked[o], name))
FindsSuper(x, name) ==
    x.scripted \/ name = x.sup \/ (x.sup = NoName /\ (x.name # NoName \/ x.cls # NoName))
setSuperClassNamespace(o, name) ==
    /\ LinkStep /\ linked[o].added
    /\ Became(o, linkNamespaces(Tables, [linked[o] EXCEPT !.sup = name]), ~FindsSuper(linked[o], name))
\* clone registers an object without names, and copyTo links it as the other.
clone_(o, p) ==
    /\ LinkStep /\ linked[o].added /\ ~linked[p].added
    /\ Became(p, Linked(Tables, [Unadded EXCEPT !.added = TRUE, !.scripted = linked[o].scripted, !.cls = linked[o].cls, !.sup = linked[o].sup]), FALSE)

Fresh == [added : {FALSE}, scripted : BOOLEAN, cls : ClassNames \cup {NoName}, sup : SuperNames \cup {NoName}, name : ObjectNames \cup {NoName}, ns : {NoName}]
LinksNext ==
    \/ \E o \in LinkedObjects, x \in Fresh : onAdd(o, x)
    \/ \E o \in LinkedObjects : onRemove(o)
    \/ \E o \in LinkedObjects, n \in ObjectNames \cup {NoName} : assignName(o, n)
    \/ \E o \in LinkedObjects, n \in ClassNames \cup {NoName} : setClassNamespace(o, n)
    \/ \E o \in LinkedObjects, n \in SuperNames \cup {NoName} : setSuperClassNamespace(o, n)
    \/ \E o, p \in LinkedObjects : clone_(o, p)
LinksSpec == LinksInit /\ [][LinksNext]_linkVars

(***************************************************************************)
(* Properties.                                                             *)
(***************************************************************************)
\* The links an object stands for: of each of its names to the one above.
Over(p, name) == IF name = NoName THEN p ELSE name
LinkOf(p, name) == IF name = NoName THEN {} ELSE {<<p, name>>}
Pairs(x) ==
    LinkOf(BaseOf(x), SupOf(x)) \cup LinkOf(Over(BaseOf(x), SupOf(x)), ClsOf(x))
        \cup LinkOf(Over(Over(BaseOf(x), SupOf(x)), ClsOf(x)), x.name)
\* While no link is refused, and no class is set where its old links are not
\* found (FindsClass, FindsSuper), a namespace's count is that of the objects linked
\* through it, it has a parent for as long as one of them is left, and it is the
\* one they all name.
LinksExact ==
    ~disturbed =>
      \A s \in DOMAIN up :
        LET users == {o \in LinkedObjects : linked[o].added /\ \E p \in LinkSpaces : <<p, s>> \in Pairs(linked[o])}
        IN /\ count[s] = Cardinality(users)
           /\ (up[s] # NoName) <=> (users # {})
           /\ \A o \in users : <<up[s], s>> \in Pairs(linked[o])

\* Whatever its classes are set to, an object that is alone with its name keeps
\* the methods of that name: "If we also named the object `MyObject`, then if
\* there is a `MyObject::myMethod()` it will run" (simBase.cc:2473-2474).  Not so
\* after a change of a class; no run checks this.
NamedKeepsMethods == \A o \in DOMAIN linked :
  linked[o].added /\ linked[o].name # NoName
    /\ (\A p \in DOMAIN linked \ {o} : linked[p].name # linked[o].name)
      => linked[o].ns = linked[o].name
=============================================================================
