--------------------------- MODULE NamespacesProofs ---------------------------
(***************************************************************************)
(* For any names, packages and functions, any number of active packages    *)
(* and any declarations and links: the entries of a namespace stay its own *)
(* when packages exchange entry lists, a declaration leaves the packages   *)
(* active that it found, and the packages of a name lie over it as a stack *)
(* with the class link under the lowest.  And for any objects and names:   *)
(* the links of objects are counted exactly.                               *)
(***************************************************************************)
EXTENDS Namespaces, TLAPS, SequenceTheorems, FiniteSetTheorems

\* The part of the type invariant that the proofs need.
Shape ==
    /\ spaces \subseteq Spaces
    /\ lists \in [Spaces -> Spaces]
    /\ ents \in [Spaces -> [Fns -> Spaces \cup {None}]]
    /\ active \in Seq(Pkgs)
    /\ job \in Jobs

\* Where the loops of a declaration are: relinkPackages has put on again a
\* prefix of what was active, and the entry is added with no package active.
Progress ==
    /\ job.op = "idle" => job.decl = None
    /\ job.op = "unlink" /\ job.decl # None => job.keep = 0
    /\ job.op = "declare" => active = <<>> /\ job.decl \in EntryIds
    /\ job.op = "relink" =>
        /\ Len(active) < Len(job.saved)
        /\ \A i \in 1 .. Len(active) : active[i] = job.saved[i]

NSInv == Shape /\ EntriesKnowTheirNamespace /\ Progress
-----------------------------------------------------------------------------
\* Partner, the exchange of one package, is its own inverse.
LEMMA PartnerInvolution ==
    ASSUME NEW p \in Pkgs, NEW s \in Spaces, Shape
    PROVE  Partner(p, s) \in Spaces /\ Partner(p, Partner(p, s)) = s
<1>1. p # None BY NamespacesAssumption
<1>2. PICK n \in Names, k \in Pkgs \cup {None} : s = <<n, k>>
  BY DEF Spaces
<1>3. CASE s \in PackageSpaces(p)
  <2>1. k = p BY <1>2, <1>3 DEF PackageSpaces
  <2>2. Partner(p, s) = <<n, None>> BY <1>2, <1>3 DEF Partner, Base
  <2>3. <<n, None>> \notin PackageSpaces(p) BY <1>1 DEF PackageSpaces
  <2>4. <<n, p>> \in spaces BY <1>2, <1>3, <2>1 DEF PackageSpaces
  <2>5. Partner(p, <<n, None>>) = <<n, p>> BY <2>3, <2>4 DEF Partner
  <2>6. <<n, None>> \in Spaces BY DEF Spaces
  <2> QED BY <1>2, <2>1, <2>2, <2>5, <2>6
<1>4. CASE s \notin PackageSpaces(p) /\ k = None /\ <<n, p>> \in spaces
  <2>1. Partner(p, s) = <<n, p>> BY <1>2, <1>4 DEF Partner
  <2>2. <<n, p>> \in PackageSpaces(p) BY <1>4 DEF PackageSpaces
  <2>3. Partner(p, <<n, p>>) = <<n, None>> BY <2>2 DEF Partner, Base
  <2>4. <<n, p>> \in Spaces BY DEF Spaces
  <2> QED BY <1>2, <1>4, <2>1, <2>3, <2>4
<1>5. CASE s \notin PackageSpaces(p) /\ ~(k = None /\ <<n, p>> \in spaces)
  <2>1. Partner(p, s) = s BY <1>2, <1>5 DEF Partner
  <2> QED BY <2>1
<1> QED BY <1>3, <1>4, <1>5

\* Putting one package on or taking it off exchanges whole lists: each still
\* has one holder, and each entry names it.
LEMMA SwapKeepsEntries ==
    ASSUME NEW p \in Pkgs, Shape, EntriesKnowTheirNamespace
    PROVE  /\ swapped(p) \in [Spaces -> Spaces]
           /\ reowned(p) \in [Spaces -> [Fns -> Spaces \cup {None}]]
           /\ \A s, t \in Spaces : swapped(p)[s] = swapped(p)[t] => s = t
           /\ \A s \in Spaces, f \in Fns :
                 reowned(p)[swapped(p)[s]][f] \in {None, s}
<1> DEFINE P(s) == Partner(p, s)
<1>1. \A s \in Spaces : P(s) \in Spaces /\ P(P(s)) = s
  BY PartnerInvolution
<1>2. lists \in [Spaces -> Spaces] /\ ents \in [Spaces -> [Fns -> Spaces \cup {None}]]
  BY DEF Shape
<1>3. \A s, t \in Spaces : lists[s] = lists[t] => s = t
  BY DEF EntriesKnowTheirNamespace
<1>4. \A s \in Spaces, f \in Fns : ents[lists[s]][f] \in {None, s}
  BY DEF EntriesKnowTheirNamespace
<1>5. swapped(p) = [s \in Spaces |-> lists[P(s)]] BY DEF swapped
<1>6. \A l \in Spaces : reowned(p)[l] =
        IF \E s \in Spaces : lists[s] = l /\ P(s) # s
        THEN [f \in Fns |->
                IF ents[l][f] = None THEN None
                ELSE P(CHOOSE s \in Spaces : lists[s] = l /\ P(s) # s)]
        ELSE ents[l]
  BY DEF reowned
<1>7. reowned(p) = [l \in Spaces |-> reowned(p)[l]] BY DEF reowned
<1> HIDE DEF P
<1>8. swapped(p) \in [Spaces -> Spaces] BY <1>1, <1>2, <1>5
<1>9. ASSUME NEW l \in Spaces
      PROVE  reowned(p)[l] \in [Fns -> Spaces \cup {None}]
  <2>1. CASE \E s \in Spaces : lists[s] = l /\ P(s) # s
    <3> DEFINE u == CHOOSE s \in Spaces : lists[s] = l /\ P(s) # s
    <3>1. u \in Spaces BY <2>1
    <3>2. P(u) \in Spaces BY <1>1, <3>1
    <3>3. reowned(p)[l] = [f \in Fns |-> IF ents[l][f] = None THEN None ELSE P(u)]
      BY <1>6, <2>1
    <3> HIDE DEF u
    <3> QED BY <3>2, <3>3
  <2>2. CASE ~\E s \in Spaces : lists[s] = l /\ P(s) # s
    BY <1>2, <1>6, <2>2
  <2> QED BY <2>1, <2>2
<1>10. reowned(p) \in [Spaces -> [Fns -> Spaces \cup {None}]]
  BY <1>7, <1>9
<1>11. \A s, t \in Spaces : swapped(p)[s] = swapped(p)[t] => s = t
  BY <1>1, <1>3, <1>5
<1>12. ASSUME NEW s \in Spaces, NEW f \in Fns
       PROVE  reowned(p)[swapped(p)[s]][f] \in {None, s}
  <2> DEFINE l == lists[P(s)]
  <2>1. swapped(p)[s] = l /\ l \in Spaces BY <1>1, <1>2, <1>5
  <2>2. CASE P(s) # s
    <3> DEFINE u == CHOOSE v \in Spaces : lists[v] = l /\ P(v) # v
    <3>1. \E v \in Spaces : lists[v] = l /\ P(v) # v
      BY <1>1, <2>2
    <3>2. u \in Spaces /\ lists[u] = l BY <3>1
    <3>3. u = P(s) BY <1>1, <1>3, <3>2
    <3>4. P(u) = s BY <1>1, <3>3
    <3>5. reowned(p)[l] = [g \in Fns |-> IF ents[l][g] = None THEN None ELSE P(u)]
      BY <1>6, <2>1, <3>1
    <3> HIDE DEF u, l
    <3> QED BY <2>1, <3>4, <3>5
  <2>3. CASE P(s) = s
    <3>1. ~\E v \in Spaces : lists[v] = l /\ P(v) # v
      BY <1>3, <2>3
    <3>2. reowned(p)[l] = ents[l] BY <1>6, <2>1, <3>1
    <3>3. ents[l][f] \in {None, s} BY <1>4, <2>3
    <3> QED BY <2>1, <3>2, <3>3
  <2> QED BY <2>2, <2>3
<1> QED BY <1>8, <1>10, <1>11, <1>12
-----------------------------------------------------------------------------
\* The initial state.
LEMMA NSInitOK == NSInit => NSInv
<1> SUFFICES ASSUME NSInit PROVE NSInv OBVIOUS
<1>1. job \in Jobs BY DEF NSInit, Jobs, Idle, Job
<1>2. Shape BY <1>1, NamespacesAssumption DEF NSInit, Shape, Spaces
<1>3. EntriesKnowTheirNamespace BY DEF NSInit, EntriesKnowTheirNamespace
<1>4. Progress BY DEF NSInit, Progress, Idle, Job
<1> QED BY <1>2, <1>3, <1>4 DEF NSInv

\* A new entry goes to the list of the namespace it names (addDeclared and
\* addCommand).
LEMMA AddedKeepsEntries ==
    ASSUME NEW s \in Spaces, NEW f \in Fns, Shape, EntriesKnowTheirNamespace
    PROVE  /\ added(s, f) \in [Spaces -> [Fns -> Spaces \cup {None}]]
           /\ \A t \in Spaces, g \in Fns : added(s, f)[lists[t]][g] \in {None, t}
<1>1. lists \in [Spaces -> Spaces] /\ ents \in [Spaces -> [Fns -> Spaces \cup {None}]]
  BY DEF Shape
<1>2. \A x, t \in Spaces : lists[x] = lists[t] => x = t
  BY DEF EntriesKnowTheirNamespace
<1>3. \A t \in Spaces, g \in Fns : ents[lists[t]][g] \in {None, t}
  BY DEF EntriesKnowTheirNamespace
<1>4. added(s, f) \in [Spaces -> [Fns -> Spaces \cup {None}]]
  BY <1>1 DEF added
<1>5. ASSUME NEW t \in Spaces, NEW g \in Fns
      PROVE  added(s, f)[lists[t]][g] \in {None, t}
  <2>1. lists[s] \in Spaces /\ lists[t] \in Spaces BY <1>1
  <2>2. CASE lists[t] = lists[s] /\ g = f
    <3>1. t = s BY <1>2, <2>2
    <3>2. added(s, f)[lists[s]][f] =
            IF ents[lists[s]][f] = None THEN s ELSE ents[lists[s]][f]
      BY <1>1, <2>1 DEF added
    <3> QED BY <1>3, <2>2, <3>1, <3>2
  <2>3. CASE ~(lists[t] = lists[s] /\ g = f)
    <3>1. added(s, f)[lists[t]][g] = ents[lists[t]][g]
      BY <1>1, <2>1, <2>3 DEF added
    <3> QED BY <1>3, <3>1
  <2> QED BY <2>2, <2>3
<1> QED BY <1>4, <1>5

\* What putting a package on does to Shape and the entries.
LEMMA HookKeeps ==
    ASSUME NEW p \in Pkgs, Shape, EntriesKnowTheirNamespace, hook(p),
           job' \in Jobs
    PROVE  Shape' /\ EntriesKnowTheirNamespace'
<1>1. /\ lists' = swapped(p) /\ ents' = reowned(p)
      /\ active' = Append(active, p)
      /\ spaces' = spaces \cup {Base(s) : s \in PackageSpaces(p)}
  BY DEF hook
<1>2. spaces \subseteq Spaces /\ active \in Seq(Pkgs) BY DEF Shape
<1>3. \A s \in Spaces : Base(s) \in Spaces BY DEF Spaces, Base
<1>4. spaces' \subseteq Spaces BY <1>1, <1>2, <1>3 DEF PackageSpaces
<1>5. active' \in Seq(Pkgs) BY <1>1, <1>2
<1>6. lists' \in [Spaces -> Spaces] BY <1>1, SwapKeepsEntries
<1>7. ents' \in [Spaces -> [Fns -> Spaces \cup {None}]] BY <1>1, SwapKeepsEntries
<1>8. \A s, t \in Spaces : lists'[s] = lists'[t] => s = t
  BY <1>1, SwapKeepsEntries
<1>9. \A s \in Spaces, f \in Fns : ents'[lists'[s]][f] \in {None, s}
  BY <1>1, SwapKeepsEntries
<1>10. Shape' BY <1>4, <1>5, <1>6, <1>7 DEF Shape
<1>11. EntriesKnowTheirNamespace' BY <1>8, <1>9 DEF EntriesKnowTheirNamespace
<1> QED BY <1>10, <1>11

\* And taking the last one off.
LEMMA UnhookKeeps ==
    ASSUME NEW p \in Pkgs, Shape, EntriesKnowTheirNamespace, unhook(p),
           active # <<>>, job' \in Jobs
    PROVE  Shape' /\ EntriesKnowTheirNamespace'
<1>1. /\ lists' = swapped(p) /\ ents' = reowned(p)
      /\ active' = SubSeq(active, 1, Len(active) - 1)
      /\ spaces' = spaces \cup {Base(s) : s \in PackageSpaces(p)}
  BY DEF unhook, found
<1>2. spaces \subseteq Spaces /\ active \in Seq(Pkgs) BY DEF Shape
<1>3. \A s \in Spaces : Base(s) \in Spaces BY DEF Spaces, Base
<1>4. spaces' \subseteq Spaces BY <1>1, <1>2, <1>3 DEF PackageSpaces
<1>5. active' \in Seq(Pkgs) BY <1>1, <1>2
<1>6. lists' \in [Spaces -> Spaces] BY <1>1, SwapKeepsEntries
<1>7. ents' \in [Spaces -> [Fns -> Spaces \cup {None}]] BY <1>1, SwapKeepsEntries
<1>8. \A s, t \in Spaces : lists'[s] = lists'[t] => s = t
  BY <1>1, SwapKeepsEntries
<1>9. \A s \in Spaces, f \in Fns : ents'[lists'[s]][f] \in {None, s}
  BY <1>1, SwapKeepsEntries
<1>10. Shape' BY <1>4, <1>5, <1>6, <1>7 DEF Shape
<1>11. EntriesKnowTheirNamespace' BY <1>8, <1>9 DEF EntriesKnowTheirNamespace
<1> QED BY <1>10, <1>11

\* relinkPackages puts on the next package it saved.
LEMMA RelinkAppends ==
    ASSUME NEW S, NEW a \in Seq(S), NEW b \in Seq(S),
           Len(a) < Len(b), \A i \in 1 .. Len(a) : a[i] = b[i]
    PROVE  LET c == Append(a, b[Len(a) + 1]) IN
           /\ b[Len(a) + 1] \in S
           /\ c \in Seq(S) /\ Len(c) = Len(a) + 1
           /\ \A i \in 1 .. Len(c) : c[i] = b[i]
           /\ Len(c) = Len(b) => c = b
<1> DEFINE c == Append(a, b[Len(a) + 1])
<1>1. Len(a) \in Nat /\ Len(b) \in Nat OBVIOUS
<1>2. b[Len(a) + 1] \in S BY <1>1
<1>3. c \in Seq(S) BY <1>2
<1>4. Len(c) = Len(a) + 1 BY <1>2
<1>5. \A i \in 1 .. Len(a) : c[i] = a[i] BY <1>2
<1>6. c[Len(a) + 1] = b[Len(a) + 1] BY <1>2
<1> HIDE DEF c
<1>7. \A i \in 1 .. Len(c) : c[i] = b[i] BY <1>1, <1>4, <1>5, <1>6
<1>8. Len(c) = Len(b) => c = b BY <1>3, <1>7, SeqEqual
<1> QED BY <1>2, <1>3, <1>4, <1>7, <1>8 DEF c

\* NSInv is inductive, and a step that ends a declaration leaves the
\* packages active that were active when it began.
LEMMA NSStep ==
    ASSUME NSInv, [NSNext]_nsvars
    PROVE  NSInv' /\ ((job.decl # None /\ job'.decl = None) => active' = job.saved)
<1> USE DEF NSInv
<1>0. /\ Shape /\ EntriesKnowTheirNamespace /\ Progress OBVIOUS
<1>a. /\ spaces \subseteq Spaces
      /\ lists \in [Spaces -> Spaces]
      /\ ents \in [Spaces -> [Fns -> Spaces \cup {None}]]
      /\ active \in Seq(Pkgs) /\ job \in Jobs
  BY DEF Shape
<1>b. /\ job.keep \in Nat /\ job.saved \in Seq(Pkgs)
      /\ job.op \in {"idle", "unlink", "declare", "relink"}
      /\ job.decl \in EntryIds \cup {None}
  BY <1>a DEF Jobs
<1>c. \A d \in ScriptDecls : d \in EntryIds /\ d[1] \in Spaces /\ d[2] \in Fns
  BY NamespacesAssumption DEF EntryIds, Spaces
<1>d. Idle \in Jobs /\ Idle.op = "idle" /\ Idle.decl = None /\ Idle.saved = <<>>
  BY DEF Idle, Job, Jobs
<1>e. ASSUME job = Idle, job' = Idle PROVE Progress' /\ job.decl = None
  BY <1>d, <1>e DEF Progress
<1>1. ASSUME NEW s \in FoundSpaces, findNamespace(s)
      PROVE  NSInv' /\ job.decl = None
  <2>1. /\ job = Idle /\ job' = Idle /\ spaces' = spaces \cup {s}
        /\ UNCHANGED <<lists, ents, active>>
    BY <1>1 DEF findNamespace, found
  <2>2. s \in Spaces BY NamespacesAssumption DEF Spaces
  <2>3. Shape' BY <1>a, <1>d, <2>1, <2>2 DEF Shape
  <2>4. EntriesKnowTheirNamespace' BY <1>0, <2>1 DEF EntriesKnowTheirNamespace
  <2> QED BY <1>e, <2>1, <2>3, <2>4
<1>2. ASSUME NEW s \in Spaces, lookup(s)
      PROVE  NSInv' /\ job.decl = None
  <2>1. job = Idle /\ job' = Idle /\ UNCHANGED <<spaces, lists, ents, active>>
    BY <1>2 DEF lookup
  <2>3. Shape' BY <1>a, <1>d, <2>1 DEF Shape
  <2>4. EntriesKnowTheirNamespace' BY <1>0, <2>1 DEF EntriesKnowTheirNamespace
  <2> QED BY <1>e, <2>1, <2>3, <2>4
<1>3. ASSUME NEW p \in Pkgs, activatePackage(p)
      PROVE  NSInv' /\ job.decl = None
  <2>1. job = Idle /\ job' = Idle /\ hook(p) BY <1>3 DEF activatePackage
  <2>2. Shape' /\ EntriesKnowTheirNamespace' BY <1>0, <1>d, <2>1, HookKeeps
  <2> QED BY <1>e, <2>1, <2>2
<1>4. ASSUME NEW p \in Pkgs, deactivatePackage(p)
      PROVE  NSInv' /\ job.decl = None
  <2>1. PICK i \in DOMAIN active : job' = Job("unlink", i - 1, None, <<>>)
    BY <1>4 DEF deactivatePackage
  <2>2. job = Idle /\ UNCHANGED <<spaces, lists, ents, active>>
    BY <1>4 DEF deactivatePackage
  <2>3. i - 1 \in Nat BY <1>a
  <2>4. job' \in Jobs BY <2>1, <2>3 DEF Job, Jobs
  <2>5. Shape' BY <1>a, <2>2, <2>4 DEF Shape
  <2>6. EntriesKnowTheirNamespace' BY <1>0, <2>2 DEF EntriesKnowTheirNamespace
  <2>7. job'.op = "unlink" /\ job'.decl = None BY <2>1 DEF Job
  <2>8. Progress' BY <2>7 DEF Progress
  <2> QED BY <1>d, <2>2, <2>5, <2>6, <2>8
<1>5. ASSUME unlinkRound
      PROVE  NSInv' /\ ((job.decl # None /\ job'.decl = None) => active' = job.saved)
  <2> DEFINE p == active[Len(active)]
  <2>1. /\ job.op = "unlink" /\ Len(active) > job.keep /\ unhook(p)
        /\ job' = IF Len(active) - 1 > job.keep THEN job
                  ELSE IF job.decl = None THEN Idle
                  ELSE [job EXCEPT !.op = "declare"]
    BY <1>5 DEF unlinkRound
  <2>2. Len(active) \in Nat /\ Len(active) > 0 BY <1>a, <1>b, <2>1
  <2>3. p \in Pkgs /\ active # <<>> BY <1>a, <2>2
  <2>4. [job EXCEPT !.op = "declare"] \in Jobs BY <1>a DEF Jobs
  <2>5. job' \in Jobs BY <1>a, <1>d, <2>1, <2>4
  <2>6. Shape' /\ EntriesKnowTheirNamespace'
    BY <1>0, <2>1, <2>3, <2>5, UnhookKeeps
  <2>7. active' = SubSeq(active, 1, Len(active) - 1) BY <2>1 DEF unhook
  <2>8. CASE Len(active) - 1 > job.keep
    <3>1. job' = job BY <2>1, <2>8
    <3>2. Progress' BY <1>0, <2>1, <3>1 DEF Progress
    <3> QED BY <2>6, <3>1, <3>2
  <2>9. CASE ~(Len(active) - 1 > job.keep) /\ job.decl = None
    <3>1. job' = Idle BY <2>1, <2>9
    <3>2. Progress' BY <1>d, <3>1 DEF Progress
    <3> QED BY <2>6, <2>9, <3>2
  <2>10. CASE ~(Len(active) - 1 > job.keep) /\ job.decl # None
    <3>1. job' = [job EXCEPT !.op = "declare"] BY <2>1, <2>10
    <3>2. job'.op = "declare" /\ job'.decl = job.decl BY <1>a, <3>1 DEF Jobs
    <3>3. job.keep = 0 BY <1>0, <2>1, <2>10 DEF Progress
    <3>4. Len(active) = 1
      <4>1. ~(Len(active) - 1 > 0) BY <2>10, <3>3
      <4> QED BY <2>2, <4>1
    <3>5. active' = <<>> BY <1>a, <2>7, <3>4
    <3>6. Progress' BY <1>b, <2>10, <3>2, <3>5 DEF Progress
    <3> QED BY <2>6, <2>10, <3>2, <3>6
  <2> QED BY <2>8, <2>9, <2>10
<1>6. ASSUME NEW d \in ScriptDecls, declare(d)
      PROVE  NSInv' /\ job.decl = None
  <2>1. job = Idle /\ UNCHANGED <<spaces, lists, ents, active>>
    BY <1>6 DEF declare
  <2>2. \/ active = <<>> /\ job' = Job("declare", 0, d, active)
        \/ job' = Job("unlink", 0, d, active)
    BY <1>6 DEF declare
  <2>3. job' \in Jobs BY <1>a, <1>c, <2>2 DEF Job, Jobs
  <2>4. Shape' BY <1>a, <2>1, <2>3 DEF Shape
  <2>5. EntriesKnowTheirNamespace' BY <1>0, <2>1 DEF EntriesKnowTheirNamespace
  <2>6. CASE active = <<>> /\ job' = Job("declare", 0, d, active)
    <3>1. job'.op = "declare" /\ active' = <<>> /\ job'.decl = d
      BY <2>1, <2>6 DEF Job
    <3>2. Progress' BY <1>c, <3>1 DEF Progress
    <3> QED BY <1>d, <2>1, <2>4, <2>5, <3>2
  <2>7. CASE job' = Job("unlink", 0, d, active)
    <3>1. job'.op = "unlink" /\ job'.keep = 0 BY <2>7 DEF Job
    <3>2. Progress' BY <3>1 DEF Progress
    <3> QED BY <1>d, <2>1, <2>4, <2>5, <3>2
  <2> QED BY <2>2, <2>6, <2>7
<1>7. ASSUME addDeclared
      PROVE  NSInv' /\ ((job.decl # None /\ job'.decl = None) => active' = job.saved)
  <2> DEFINE s == job.decl[1]  f == job.decl[2]
  <2>1. /\ job.op = "declare" /\ ents' = added(s, f)
        /\ spaces' = spaces \cup {s} /\ lists' = lists /\ active' = active
        /\ job' = IF job.saved = <<>> THEN Idle ELSE [job EXCEPT !.op = "relink"]
    BY <1>7 DEF addDeclared
  <2>0. job.decl \in EntryIds BY <1>0, <1>7 DEF Progress, addDeclared
  <2>2. s \in Spaces /\ f \in Fns BY <2>0 DEF EntryIds
  <2>3. [job EXCEPT !.op = "relink"] \in Jobs BY <1>a DEF Jobs
  <2>4. job' \in Jobs BY <1>d, <2>1, <2>3
  <2> HIDE DEF s, f
  <2>5. /\ added(s, f) \in [Spaces -> [Fns -> Spaces \cup {None}]]
        /\ \A t \in Spaces, g \in Fns : added(s, f)[lists[t]][g] \in {None, t}
    BY <1>0, <2>2, AddedKeepsEntries
  <2>6. Shape' BY <1>a, <2>1, <2>2, <2>4, <2>5 DEF Shape
  <2>7. EntriesKnowTheirNamespace'
    BY <1>0, <2>1, <2>5 DEF EntriesKnowTheirNamespace
  <2>8. active = <<>> BY <1>0, <2>1 DEF Progress
  <2>9. CASE job.saved = <<>>
    <3>1. job' = Idle BY <2>1, <2>9
    <3>2. Progress' BY <1>d, <3>1 DEF Progress
    <3> QED BY <2>1, <2>6, <2>7, <2>8, <2>9, <3>2
  <2>10. CASE job.saved # <<>>
    <3>1. job' = [job EXCEPT !.op = "relink"] BY <2>1, <2>10
    <3>2. job'.op = "relink" /\ job'.decl = job.decl /\ job'.saved = job.saved
      BY <1>a, <3>1 DEF Jobs
    <3>3. Len(active') = 0 BY <2>1, <2>8
    <3>4. Len(job.saved) > 0 BY <1>b, <2>10
    <3>5. Progress' BY <3>2, <3>3, <3>4 DEF Progress
    <3> QED BY <2>6, <2>7, <3>2, <3>5
  <2> QED BY <2>9, <2>10
<1>8. ASSUME relinkRound
      PROVE  NSInv' /\ ((job.decl # None /\ job'.decl = None) => active' = job.saved)
  <2> DEFINE p == job.saved[Len(active) + 1]
  <2>1. /\ job.op = "relink" /\ hook(p)
        /\ job' = IF Len(active) + 1 = Len(job.saved) THEN Idle ELSE job
    BY <1>8 DEF relinkRound
  <2>2. /\ Len(active) < Len(job.saved)
        /\ \A i \in 1 .. Len(active) : active[i] = job.saved[i]
    BY <1>0, <2>1 DEF Progress
  <2>3. active' = Append(active, p) BY <2>1 DEF hook
  <2>4. p \in Pkgs BY <1>a, <1>b, <2>2, RelinkAppends
  <2>5. Len(active') = Len(active) + 1 BY <1>a, <1>b, <2>2, <2>3, RelinkAppends
  <2>6. \A i \in 1 .. Len(active') : active'[i] = job.saved[i]
    BY <1>a, <1>b, <2>2, <2>3, RelinkAppends
  <2>7. Len(active') = Len(job.saved) => active' = job.saved
    BY <1>a, <1>b, <2>2, <2>3, RelinkAppends
  <2>8. job' \in Jobs BY <1>a, <1>d, <2>1
  <2> HIDE DEF p
  <2>9. Shape' /\ EntriesKnowTheirNamespace' BY <1>0, <2>1, <2>4, <2>8, HookKeeps
  <2>10. CASE Len(active) + 1 = Len(job.saved)
    <3>1. job' = Idle BY <2>1, <2>10
    <3>2. Progress' BY <1>d, <3>1 DEF Progress
    <3>3. active' = job.saved BY <2>5, <2>7, <2>10
    <3> QED BY <2>9, <3>2, <3>3
  <2>11. CASE Len(active) + 1 # Len(job.saved)
    <3>1. job' = job BY <2>1, <2>11
    <3>2. Len(active) \in Nat /\ Len(job.saved) \in Nat BY <1>a, <1>b
    <3>3. Len(active') < Len(job.saved) BY <2>2, <2>5, <2>11, <3>2
    <3>4. Progress' BY <2>1, <2>6, <3>1, <3>3 DEF Progress
    <3> QED BY <2>9, <3>1, <3>4
  <2> QED BY <2>10, <2>11
<1>9. ASSUME NEW d \in ScriptDecls, addCommand(d[1], d[2])
      PROVE  NSInv' /\ job.decl = None
  <2> DEFINE s == d[1]  f == d[2]
  <2>1. /\ job = Idle /\ job' = Idle /\ ents' = added(s, f)
        /\ UNCHANGED <<spaces, lists, active>>
    BY <1>9 DEF addCommand
  <2>2. s \in Spaces /\ f \in Fns BY <1>c
  <2> HIDE DEF s, f
  <2>3. /\ added(s, f) \in [Spaces -> [Fns -> Spaces \cup {None}]]
        /\ \A t \in Spaces, g \in Fns : added(s, f)[lists[t]][g] \in {None, t}
    BY <1>0, <2>2, AddedKeepsEntries
  <2>4. Shape' BY <1>a, <1>d, <2>1, <2>3 DEF Shape
  <2>5. EntriesKnowTheirNamespace'
    BY <1>0, <2>1, <2>3 DEF EntriesKnowTheirNamespace
  <2> QED BY <1>e, <2>1, <2>4, <2>5
<1>10. ASSUME NEW l \in LinkPairs,
              linkNamespace(l[1], l[2]) \/ unlinkNamespace(l[1], l[2])
       PROVE  NSInv' /\ job.decl = None
  <2>1. /\ job = Idle /\ job' = Idle
        /\ spaces' = spaces \cup {<<l[1], None>>, <<l[2], None>>}
        /\ UNCHANGED <<lists, ents, active>>
    BY <1>10 DEF linkNamespace, unlinkNamespace, found
  <2>2. <<l[1], None>> \in Spaces /\ <<l[2], None>> \in Spaces
    BY NamespacesAssumption DEF Spaces
  <2>3. Shape' BY <1>a, <1>d, <2>1, <2>2 DEF Shape
  <2>4. EntriesKnowTheirNamespace' BY <1>0, <2>1 DEF EntriesKnowTheirNamespace
  <2> QED BY <1>e, <2>1, <2>3, <2>4
<1>11. ASSUME UNCHANGED nsvars
       PROVE  NSInv' /\ job' = job
  <2>1. UNCHANGED <<spaces, lists, ents, active, job>> BY <1>11 DEF nsvars
  <2> QED BY <1>0, <2>1 DEF Shape, EntriesKnowTheirNamespace, Progress
<1> QED
  BY <1>1, <1>2, <1>3, <1>4, <1>5, <1>6, <1>7, <1>8, <1>9, <1>10, <1>11
     DEF NSNext
-----------------------------------------------------------------------------
\* In every reachable state each entry list has one holder, and each entry
\* names it: activatePackage and deactivatePackage keep mNamespace exact
\* through any sequence of packages, declarations and links.
THEOREM EntriesStay == NSSpec => []EntriesKnowTheirNamespace
<1>1. NSInit => NSInv BY NSInitOK
<1>2. NSInv /\ [NSNext]_nsvars => NSInv' BY NSStep
<1>3. NSInv => EntriesKnowTheirNamespace BY DEF NSInv
<1> QED BY <1>1, <1>2, <1>3, PTL DEF NSSpec

\* OP_FUNC_DECL and OP_SIGNAL_DECL end with the packages active that were
\* active before, in the same order, however many there are.
THEOREM PackagesKept == NSSpec => DeclarationsKeepPackages
<1>1. NSInit => NSInv BY NSInitOK
<1>2. NSInv /\ [NSNext]_nsvars => NSInv' BY NSStep
<1>3. NSInv /\ [NSNext]_nsvars =>
        [(job.decl # None /\ job'.decl = None) => active' = job.saved]_nsvars
  BY NSStep
<1> QED BY <1>1, <1>2, <1>3, PTL DEF NSSpec, DeclarationsKeepPackages
-----------------------------------------------------------------------------
(* Packages.                                                               *)

\* h lies over the namespace of n as a stack: lists are handed up, parents
\* lead down, and what is not in h is on its own.
Stacked(n, h, par, lst) ==
    LET own(i) == IF i = 0 THEN <<n, None>> ELSE <<n, h[i]>>
    IN /\ lst[<<n, None>>] = own(Len(h))
       /\ \A i \in 1 .. Len(h) : lst[<<n, h[i]>>] = own(i - 1)
       /\ Len(h) > 0 => par[<<n, None>>] = <<n, h[Len(h)]>>
       /\ \A i \in 2 .. Len(h) : par[<<n, h[i]>>] = <<n, h[i - 1]>>
       /\ \A p \in Pkgs : (\A i \in 1 .. Len(h) : h[i] # p) =>
             par[<<n, p>>] = None /\ lst[<<n, p>>] = <<n, p>>
Lowest(n, h) == IF Len(h) = 0 THEN <<n, None>> ELSE <<n, h[1]>>

\* The class link of n is held as often as it is counted.
LinkIs(n, link, refs_) ==
    /\ link = None <=> refs_ = 0
    /\ link # None => link[1] # n

Laid(n, h, par, lst, cnt) ==
    Stacked(n, h, par, lst) /\ LinkIs(n, par[Lowest(n, h)], cnt[<<n, None>>])
Once(s) == \A i, j \in 1 .. Len(s) : s[i] = s[j] => i = j

PkgInv ==
    /\ NSInv
    /\ parent \in [Spaces -> Spaces \cup {None}]
    /\ refs \in [Spaces -> 0 .. MaxLinks]
    /\ Once(active) /\ Len(active) <= MaxActivePackages
    /\ \A n \in Names : Laid(n, Layers(n), parent, lists, refs)

\* The layers of a name are some of the active packages, each once.
LEMMA LayersAre ==
    ASSUME NEW n, active \in Seq(Pkgs), Once(active)
    PROVE  /\ Layers(n) \in Seq(Pkgs) /\ Len(Layers(n)) <= Len(active) /\ Once(Layers(n))
           /\ \A i \in 1 .. Len(Layers(n)) :
                <<n, Layers(n)[i]>> \in spaces /\ \E j \in 1 .. Len(active) : active[j] = Layers(n)[i]
<1> DEFINE T == {p \in Pkgs : <<n, p>> \in spaces}
           h == Layers(n)
<1>1. h \in Seq(Pkgs) /\ \E e : Picks(e, h, active, T, Len(active))
  BY ChosenIs DEF Layers
<1>2. PICK e : Picks(e, h, active, T, Len(active))
  BY <1>1
<1>3. Len(h) \in Nat /\ Len(active) \in Nat
  BY <1>1
<1> HIDE DEF h
<1>4. /\ \A k \in 1 .. Len(h) : e[k] \in 1 .. Len(active) /\ h[k] = active[e[k]] /\ <<n, h[k]>> \in spaces
      /\ \A j, k \in 1 .. Len(h) : j < k => e[j] < e[k]
  BY <1>2 DEF Picks
<1>5. Once(h)
  <2> SUFFICES ASSUME NEW i \in 1 .. Len(h), NEW j \in 1 .. Len(h), h[i] = h[j] PROVE i = j
    BY DEF Once
  <2>1. /\ e[i] \in 1 .. Len(active) /\ e[j] \in 1 .. Len(active)
        /\ active[e[i]] = active[e[j]]
    BY <1>4
  <2>2. e[i] = e[j]
    BY <2>1 DEF Once
  <2>3. ~(i < j) /\ ~(j < i)
    BY <1>4, <2>1, <2>2
  <2> QED  BY <1>3, <2>3
<1>6. Len(h) <= Len(active)
  <2> DEFINE M == {m \in Nat : m <= Len(h) /\ m > 0 => m <= e[m]}
  <2>1. 0 \in M
    OBVIOUS
  <2>2. ASSUME NEW m \in M PROVE m + 1 \in M
    <3> SUFFICES ASSUME m + 1 <= Len(h) PROVE m + 1 <= e[m + 1]
      OBVIOUS
    <3>1. m + 1 \in 1 .. Len(h) /\ e[m + 1] \in 1 .. Len(active) /\ m \in Nat
      <4>1. m \in Nat /\ m + 1 \in 1 .. Len(h)
        BY <1>3
      <4> QED  BY <1>4, <4>1
    <3>2. CASE m = 0
      BY <3>1, <3>2
    <3>3. CASE m > 0
      <4>1. m \in 1 .. Len(h) /\ e[m] \in 1 .. Len(active) /\ m < m + 1 /\ m <= e[m]
        <5>1. m \in 1 .. Len(h) /\ m < m + 1
          BY <1>3, <3>1, <3>3
        <5>2. m <= e[m]
          BY <5>1, <3>3
        <5> QED  BY <1>4, <5>1, <5>2
      <4>2. e[m] < e[m + 1]
        BY <1>4, <3>1, <4>1
      <4> QED  BY <3>1, <4>1, <4>2
    <3> QED  BY <3>1, <3>2, <3>3
  <2> HIDE DEF M
  <2>3. M = Nat
    <3>1. M \in SUBSET Nat
      BY DEF M
    <3> QED  BY <2>1, <2>2, <3>1, SetInduction
  <2>4. Len(h) > 0 => Len(h) <= e[Len(h)] /\ e[Len(h)] \in 1 .. Len(active)
    <3>1. Len(h) \in M
      BY <1>3, <2>3
    <3>2. Len(h) > 0 => Len(h) \in 1 .. Len(h)
      BY <1>3
    <3>3. Len(h) > 0 => Len(h) <= e[Len(h)]
      BY <1>3, <3>1 DEF M
    <3>4. Len(h) > 0 => e[Len(h)] \in 1 .. Len(active)
      BY <1>4, <3>2
    <3> QED  BY <3>3, <3>4
  <2> QED  BY <1>3, <2>4
<1> QED  BY <1>1, <1>4, <1>5, <1>6 DEF h

\* A namespace that is added is that of a package that is not active.
LEMMA LayersKept ==
    ASSUME NEW n, active \in Seq(Pkgs), active' = active, spaces \subseteq spaces',
           \A s \in spaces' \ spaces : \A i \in 1 .. Len(active) : active[i] # s[2]
    PROVE  Layers(n)' = Layers(n)
<1> DEFINE T == {p \in Pkgs : <<n, p>> \in spaces}
           U == {p \in Pkgs : <<n, p>> \in spaces'}
<1>1. \A i \in 1 .. Len(active) : active[i] \in U <=> active[i] \in T
  OBVIOUS
<1>2. Chosen(active, U) = Chosen(active, T)
  <2> HIDE DEF T, U
  <2> QED  BY <1>1, ChosenSame
<1> QED  BY <1>2 DEF Layers

\* One package more on the stack of n.
LEMMA Pushed ==
    ASSUME NEW n \in Names, NEW h \in Seq(Pkgs), NEW p \in Pkgs, \A i \in 1 .. Len(h) : h[i] # p,
           NEW par \in [Spaces -> Spaces \cup {None}], NEW lst \in [Spaces -> Spaces],
           NEW cnt, Laid(n, h, par, lst, cnt), NEW qar, NEW mst,
           \A k \in Pkgs \cup {None} :
             /\ qar[<<n, k>>] = IF k = p THEN par[<<n, None>>]
                               ELSE IF k = None THEN <<n, p>> ELSE par[<<n, k>>]
             /\ mst[<<n, k>>] = IF k = p THEN lst[<<n, None>>]
                               ELSE IF k = None THEN lst[<<n, p>>] ELSE lst[<<n, k>>]
    PROVE  Laid(n, Append(h, p), qar, mst, cnt)
<1> DEFINE g == Append(h, p)
           l == Len(h)
<1>1. /\ l \in Nat /\ g \in Seq(Pkgs) /\ Len(g) = l + 1 /\ g[l + 1] = p
      /\ \A i \in 1 .. l : g[i] = h[i] /\ h[i] \in Pkgs
  OBVIOUS
<1> HIDE DEF g
<1>2. None \notin Pkgs
  BY NamespacesAssumption
<1>3. /\ qar[<<n, p>>] = par[<<n, None>>] /\ mst[<<n, p>>] = lst[<<n, None>>]
      /\ qar[<<n, None>>] = <<n, p>> /\ mst[<<n, None>>] = <<n, p>>
      /\ \A k \in Pkgs : k # p => qar[<<n, k>>] = par[<<n, k>>] /\ mst[<<n, k>>] = lst[<<n, k>>]
  <2>1. lst[<<n, p>>] = <<n, p>>
    BY DEF Laid, Stacked
  <2> QED  BY <1>2, <2>1
<1>4. /\ lst[<<n, None>>] = IF l = 0 THEN <<n, None>> ELSE <<n, h[l]>>
      /\ \A i \in 1 .. l : lst[<<n, h[i]>>] = IF i = 1 THEN <<n, None>> ELSE <<n, h[i - 1]>>
      /\ l > 0 => par[<<n, None>>] = <<n, h[l]>>
      /\ \A i \in 2 .. l : par[<<n, h[i]>>] = <<n, h[i - 1]>>
      /\ \A k \in Pkgs : (\A i \in 1 .. l : h[i] # k) => par[<<n, k>>] = None /\ lst[<<n, k>>] = <<n, k>>
  <2>1. \A i \in 1 .. l : lst[<<n, h[i]>>] = IF i - 1 = 0 THEN <<n, None>> ELSE <<n, h[i - 1]>>
    BY DEF Laid, Stacked
  <2>2. \A i \in 1 .. l : i - 1 = 0 <=> i = 1
    BY <1>1
  <2>3. \A i \in 1 .. l : lst[<<n, h[i]>>] = IF i = 1 THEN <<n, None>> ELSE <<n, h[i - 1]>>
    BY <2>1, <2>2
  <2>4. /\ lst[<<n, None>>] = IF l = 0 THEN <<n, None>> ELSE <<n, h[l]>>
        /\ l > 0 => par[<<n, None>>] = <<n, h[l]>>
    BY DEF Laid, Stacked
  <2>5. \A k \in Pkgs : (\A i \in 1 .. l : h[i] # k) => par[<<n, k>>] = None /\ lst[<<n, k>>] = <<n, k>>
    BY DEF Laid, Stacked
  <2>6. \A i \in 2 .. l : par[<<n, h[i]>>] = <<n, h[i - 1]>>
    BY DEF Laid, Stacked
  <2> QED  BY <2>3, <2>4, <2>5, <2>6
<1> HIDE DEF l
<1>5. \A i \in 1 .. l : qar[<<n, h[i]>>] = par[<<n, h[i]>>] /\ mst[<<n, h[i]>>] = lst[<<n, h[i]>>]
  BY <1>1, <1>3 DEF l
<1>6. ASSUME NEW i \in 1 .. l + 1
      PROVE  mst[<<n, g[i]>>] = IF i = 1 THEN <<n, None>> ELSE <<n, g[i - 1]>>
  <2>1. CASE i = l + 1
    <3>1. mst[<<n, g[i]>>] = IF l = 0 THEN <<n, None>> ELSE <<n, h[l]>>
      BY <1>1, <1>3, <1>4, <2>1
    <3>2. l # 0 => l \in 1 .. l /\ i - 1 = l /\ i # 1
      BY <1>1, <2>1
    <3> QED  BY <1>1, <2>1, <3>1, <3>2
  <2>2. CASE i # l + 1
    <3>1. i \in 1 .. l /\ (i # 1 => i - 1 \in 1 .. l)
      BY <1>1, <2>2
    <3>2. g[i] = h[i] /\ (i # 1 => g[i - 1] = h[i - 1])
      BY <1>1, <3>1 DEF l
    <3>3. mst[<<n, h[i]>>] = IF i = 1 THEN <<n, None>> ELSE <<n, h[i - 1]>>
      BY <1>4, <1>5, <3>1
    <3> QED  BY <3>2, <3>3
  <2> QED  BY <2>1, <2>2
<1>7. ASSUME NEW i \in 2 .. l + 1
      PROVE  qar[<<n, g[i]>>] = <<n, g[i - 1]>>
  <2>1. i - 1 \in 1 .. l
    BY <1>1
  <2>2. CASE i = l + 1
    <3>1. i - 1 = l /\ l > 0 /\ g[i] = p /\ g[i - 1] = h[l]
      BY <1>1, <2>1, <2>2 DEF l
    <3>2. qar[<<n, p>>] = <<n, h[l]>>
      BY <1>3, <1>4, <3>1
    <3> QED  BY <3>1, <3>2
  <2>3. CASE i # l + 1
    <3>1. i \in 1 .. l /\ i \in 2 .. l
      BY <1>1, <2>3
    <3>2. g[i] = h[i] /\ g[i - 1] = h[i - 1]
      BY <1>1, <2>1, <3>1 DEF l
    <3>3. qar[<<n, h[i]>>] = <<n, h[i - 1]>>
      BY <1>4, <1>5, <3>1
    <3> QED  BY <3>2, <3>3
  <2> QED  BY <2>2, <2>3
<1>8. ASSUME NEW k \in Pkgs, \A i \in 1 .. l + 1 : g[i] # k
      PROVE  qar[<<n, k>>] = None /\ mst[<<n, k>>] = <<n, k>>
  <2>1. k # p
    BY <1>1, <1>8
  <2>2. \A i \in 1 .. l : h[i] # k
    BY <1>1, <1>8
  <2> QED  BY <1>3, <1>4, <2>1, <2>2
<1>9. Stacked(n, g, qar, mst)
  <2>1. mst[<<n, None>>] = <<n, g[l + 1]>> /\ qar[<<n, None>>] = <<n, g[l + 1]>> /\ l + 1 # 0
    BY <1>1, <1>3
  <2>2. \A i \in 1 .. l + 1 : (i = 1 <=> i - 1 = 0)
    BY <1>1
  <2>3. \A i \in 1 .. l + 1 : mst[<<n, g[i]>>] = IF i - 1 = 0 THEN <<n, None>> ELSE <<n, g[i - 1]>>
    BY <1>6, <2>2
  <2>4. Len(g) = l + 1 /\ (Len(g) = 0 <=> FALSE)
    BY <1>1
  <2> QED  BY <1>7, <1>8, <2>1, <2>3, <2>4 DEF Stacked
<1>10. qar[Lowest(n, g)] = par[Lowest(n, h)]
  <2>1. CASE l = 0
    BY <1>1, <1>3, <2>1 DEF Lowest, l
  <2>2. CASE l # 0
    <3>1. 1 \in 1 .. l /\ g[1] = h[1]
      BY <1>1, <2>2 DEF l
    <3>2. Lowest(n, g) = <<n, h[1]>> /\ Lowest(n, h) = <<n, h[1]>>
      BY <1>1, <2>2, <3>1 DEF Lowest, l
    <3> QED  BY <1>5, <3>1, <3>2
  <2> QED  BY <2>1, <2>2
<1> QED  BY <1>9, <1>10 DEF Laid, g

\* What is laid over n depends on the namespaces of n only.
LEMMA SameStack ==
    ASSUME NEW n \in Names, NEW h \in Seq(Pkgs), NEW par, NEW lst, NEW cnt, Laid(n, h, par, lst, cnt),
           NEW qar, NEW mst,
           \A k \in Pkgs \cup {None} : qar[<<n, k>>] = par[<<n, k>>] /\ mst[<<n, k>>] = lst[<<n, k>>]
    PROVE  Laid(n, h, qar, mst, cnt)
<1>1. Len(h) \in Nat /\ \A i \in 1 .. Len(h) : h[i] \in Pkgs
  OBVIOUS
<1>2. Stacked(n, h, par, lst)
  BY DEF Laid
<1>3. /\ qar[<<n, None>>] = par[<<n, None>>] /\ mst[<<n, None>>] = lst[<<n, None>>]
      /\ \A i \in 1 .. Len(h) : qar[<<n, h[i]>>] = par[<<n, h[i]>>] /\ mst[<<n, h[i]>>] = lst[<<n, h[i]>>]
      /\ \A k \in Pkgs : qar[<<n, k>>] = par[<<n, k>>] /\ mst[<<n, k>>] = lst[<<n, k>>]
  BY <1>1
<1>4. /\ mst[<<n, None>>] = IF Len(h) = 0 THEN <<n, None>> ELSE <<n, h[Len(h)]>>
      /\ Len(h) > 0 => qar[<<n, None>>] = <<n, h[Len(h)]>>
  BY <1>2, <1>3 DEF Stacked
<1>5. \A i \in 1 .. Len(h) : mst[<<n, h[i]>>] = IF i - 1 = 0 THEN <<n, None>> ELSE <<n, h[i - 1]>>
  BY <1>2, <1>3 DEF Stacked
<1>6. \A i \in 2 .. Len(h) : qar[<<n, h[i]>>] = <<n, h[i - 1]>>
  <2>1. \A i \in 2 .. Len(h) : i \in 1 .. Len(h)
    BY <1>1
  <2> QED  BY <1>2, <1>3, <2>1 DEF Stacked
<1>7. \A p \in Pkgs : (\A i \in 1 .. Len(h) : h[i] # p) => qar[<<n, p>>] = None /\ mst[<<n, p>>] = <<n, p>>
  BY <1>2, <1>3 DEF Stacked
<1>8. Stacked(n, h, qar, mst)
  BY <1>4, <1>5, <1>6, <1>7 DEF Stacked
<1>9. qar[Lowest(n, h)] = par[Lowest(n, h)]
  BY <1>1, <1>3 DEF Lowest
<1> QED  BY <1>8, <1>9 DEF Laid

\* The last package taken off the stack of n.
LEMMA Popped ==
    ASSUME NEW n \in Names, NEW h \in Seq(Pkgs), NEW p \in Pkgs, \A i \in 1 .. Len(h) : h[i] # p,
           NEW par \in [Spaces -> Spaces \cup {None}], NEW lst \in [Spaces -> Spaces],
           NEW cnt, Laid(n, Append(h, p), par, lst, cnt), Once(Append(h, p)), NEW qar, NEW mst,
           \A k \in Pkgs \cup {None} :
             /\ qar[<<n, k>>] = IF k = p THEN None
                               ELSE IF k = None THEN par[<<n, p>>] ELSE par[<<n, k>>]
             /\ mst[<<n, k>>] = IF k = p THEN lst[<<n, None>>]
                               ELSE IF k = None THEN lst[<<n, p>>] ELSE lst[<<n, k>>]
    PROVE  Laid(n, h, qar, mst, cnt)
<1> DEFINE g == Append(h, p)
           l == Len(h)
<1>1. /\ l \in Nat /\ g \in Seq(Pkgs) /\ Len(g) = l + 1 /\ g[l + 1] = p
      /\ \A i \in 1 .. l : g[i] = h[i] /\ h[i] \in Pkgs /\ h[i] # p
  OBVIOUS
<1>2. None \notin Pkgs
  BY NamespacesAssumption
<1>3. /\ qar[<<n, p>>] = None /\ mst[<<n, p>>] = lst[<<n, None>>]
      /\ qar[<<n, None>>] = par[<<n, p>>] /\ mst[<<n, None>>] = lst[<<n, p>>]
      /\ \A k \in Pkgs : k # p => qar[<<n, k>>] = par[<<n, k>>] /\ mst[<<n, k>>] = lst[<<n, k>>]
  BY <1>2
<1> HIDE DEF g, l
<1>4. /\ lst[<<n, None>>] = <<n, p>>
      /\ \A i \in 1 .. l + 1 : lst[<<n, g[i]>>] = IF i - 1 = 0 THEN <<n, None>> ELSE <<n, g[i - 1]>>
      /\ \A i \in 2 .. l + 1 : par[<<n, g[i]>>] = <<n, g[i - 1]>>
      /\ \A k \in Pkgs : (\A i \in 1 .. l + 1 : g[i] # k) => par[<<n, k>>] = None /\ lst[<<n, k>>] = <<n, k>>
  <2>1. Stacked(n, g, par, lst) /\ l + 1 # 0
    BY <1>1 DEF Laid, g
  <2> QED  BY <1>1, <2>1 DEF Stacked
<1>5. l # 0 => par[<<n, p>>] = <<n, h[l]>> /\ lst[<<n, p>>] = <<n, h[l]>>
  <2> SUFFICES ASSUME l # 0 PROVE par[<<n, p>>] = <<n, h[l]>> /\ lst[<<n, p>>] = <<n, h[l]>>
    OBVIOUS
  <2> DEFINE i == l + 1
  <2>1. i \in 2 .. l + 1 /\ i \in 1 .. l + 1 /\ i - 1 = l /\ i - 1 # 0 /\ l \in 1 .. l
    BY <1>1
  <2>a. g[l + 1] = p /\ g[l] = h[l]
    BY <1>1, <2>1
  <2>2. g[i] = p /\ g[i - 1] = h[l]
    BY <2>1, <2>a
  <2> HIDE DEF i
  <2>3. par[<<n, g[i]>>] = <<n, g[i - 1]>> /\ lst[<<n, g[i]>>] = <<n, g[i - 1]>>
    BY <1>4, <2>1
  <2> QED  BY <2>2, <2>3
<1>6. l = 0 => lst[<<n, p>>] = <<n, None>>
  <2> SUFFICES ASSUME l = 0 PROVE lst[<<n, p>>] = <<n, None>>
    OBVIOUS
  <2>1. 1 \in 1 .. l + 1 /\ 1 - 1 = 0 /\ g[1] = p
    BY <1>1
  <2>2. lst[<<n, g[1]>>] = <<n, None>>
    BY <1>4, <2>1
  <2> QED  BY <2>1, <2>2
<1>7. ASSUME NEW i \in 1 .. l
      PROVE  mst[<<n, h[i]>>] = IF i - 1 = 0 THEN <<n, None>> ELSE <<n, h[i - 1]>>
  <2>1. i \in 1 .. l + 1 /\ g[i] = h[i] /\ (i - 1 # 0 => g[i - 1] = h[i - 1])
    BY <1>1
  <2>2. mst[<<n, h[i]>>] = lst[<<n, g[i]>>]
    BY <1>1, <1>3, <2>1
  <2> QED  BY <1>4, <2>1, <2>2
<1>8. ASSUME NEW i \in 2 .. l
      PROVE  qar[<<n, h[i]>>] = <<n, h[i - 1]>>
  <2>1. i \in 2 .. l + 1 /\ i \in 1 .. l /\ g[i] = h[i] /\ g[i - 1] = h[i - 1]
    BY <1>1
  <2>2. qar[<<n, h[i]>>] = par[<<n, g[i]>>]
    BY <1>1, <1>3, <2>1
  <2> QED  BY <1>4, <2>1, <2>2
<1>9. ASSUME NEW k \in Pkgs, \A i \in 1 .. l : h[i] # k
      PROVE  qar[<<n, k>>] = None /\ mst[<<n, k>>] = <<n, k>>
  <2>1. CASE k = p
    BY <1>3, <1>4, <2>1
  <2>2. CASE k # p
    <3>1. \A i \in 1 .. l + 1 : g[i] # k
      BY <1>1, <1>9, <2>2
    <3> QED  BY <1>3, <1>4, <2>2, <3>1
  <2> QED  BY <2>1, <2>2
<1>10. Stacked(n, h, qar, mst)
  <2>1. /\ mst[<<n, None>>] = IF l = 0 THEN <<n, None>> ELSE <<n, h[l]>>
        /\ l > 0 => qar[<<n, None>>] = <<n, h[l]>>
    <3>1. CASE l = 0
      BY <1>3, <1>6, <3>1
    <3>2. CASE l # 0
      BY <1>3, <1>5, <3>2
    <3> QED  BY <3>1, <3>2
  <2> QED  BY <1>7, <1>8, <1>9, <2>1 DEF Stacked, l
<1>11. qar[Lowest(n, h)] = par[Lowest(n, g)]
  <2>1. CASE l = 0
    <3>1. Lowest(n, h) = <<n, None>> /\ Lowest(n, g) = <<n, p>>
      BY <1>1, <2>1 DEF Lowest, l
    <3> QED  BY <1>3, <3>1
  <2>2. CASE l # 0
    <3>1. 1 \in 1 .. l
      BY <1>1, <2>2
    <3>2. Lowest(n, g) = <<n, h[1]>> /\ Lowest(n, h) = <<n, h[1]>>
      BY <1>1, <2>2, <3>1 DEF Lowest, l
    <3> QED  BY <1>1, <1>3, <3>1, <3>2
  <2> QED  BY <2>1, <2>2
<1> QED  BY <1>10, <1>11 DEF Laid, g

\* Putting a package on, and what it does to the chains and lists of n.
LEMMA HookLays ==
    ASSUME PkgInv, NEW p \in Pkgs, CanActivate(p), hook(p), NEW n \in Names
    PROVE  Laid(n, Layers(n)', parent', lists', refs')
<1>1. /\ spaces \subseteq Spaces /\ lists \in [Spaces -> Spaces] /\ active \in Seq(Pkgs)
      /\ parent \in [Spaces -> Spaces \cup {None}] /\ Laid(n, Layers(n), parent, lists, refs)
      /\ Once(active) /\ None \notin Pkgs
  BY NamespacesAssumption DEF PkgInv, NSInv, Shape
<1>2. /\ refs' = refs /\ lists' = swapped(p) /\ active' = Append(active, p)
      /\ spaces' = spaces \cup {Base(s) : s \in PackageSpaces(p)}
      /\ parent' = [s \in Spaces |->
                      IF s \in PackageSpaces(p) THEN parent[Base(s)]
                      ELSE IF s[2] = None /\ <<s[1], p>> \in PackageSpaces(p)
                           THEN <<s[1], p>> ELSE parent[s]]
  BY DEF hook
<1>3. \A i \in 1 .. Len(active) : active[i] # p
  BY <1>1 DEF CanActivate
<1> DEFINE T == {q \in Pkgs : <<n, q>> \in spaces}
           U == {q \in Pkgs : <<n, q>> \in spaces'}
<1>4. T = U
  <2>1. \A s \in PackageSpaces(p) : Base(s)[2] = None
    BY DEF Base
  <2>2. \A q \in Pkgs : <<n, q>> \in spaces' <=> <<n, q>> \in spaces
    <3> SUFFICES ASSUME NEW q \in Pkgs, NEW s \in PackageSpaces(p), <<n, q>> = Base(s) PROVE FALSE
      BY <1>2
    <3> QED  BY <1>1 DEF Base
  <2> QED  BY <2>2
<1>5. Layers(n)' = IF p \in T THEN Append(Layers(n), p) ELSE Layers(n)
  <2>1. Layers(n)' = Chosen(Append(active, p), T)
    BY <1>2, <1>4 DEF Layers
  <2>2. Layers(n) = Chosen(active, T)
    BY DEF Layers
  <2> HIDE DEF T
  <2> QED  BY <1>1, <2>1, <2>2, ChosenAppend
<1>6. ASSUME NEW k \in Pkgs \cup {None}
      PROVE  <<n, k>> \in Spaces /\ (<<n, k>> \in PackageSpaces(p) <=> k = p /\ p \in T)
  BY DEF Spaces, PackageSpaces
<1>7. CASE p \in T
  <2>1. ASSUME NEW k \in Pkgs \cup {None}
        PROVE  /\ parent'[<<n, k>>] = IF k = p THEN parent[<<n, None>>]
                                     ELSE IF k = None THEN <<n, p>> ELSE parent[<<n, k>>]
               /\ lists'[<<n, k>>] = IF k = p THEN lists[<<n, None>>]
                                    ELSE IF k = None THEN lists[<<n, p>>] ELSE lists[<<n, k>>]
    <3>1. parent'[<<n, k>>] = IF k = p THEN parent[<<n, None>>]
                              ELSE IF k = None THEN <<n, p>> ELSE parent[<<n, k>>]
      BY <1>1, <1>2, <1>6, <1>7 DEF Base
    <3>2. Partner(p, <<n, k>>) = IF k = p THEN <<n, None>> ELSE IF k = None THEN <<n, p>> ELSE <<n, k>>
      BY <1>1, <1>6, <1>7 DEF Partner, Base
    <3> QED  BY <1>2, <1>6, <3>1, <3>2 DEF swapped
  <2>2. Layers(n) \in Seq(Pkgs) /\ \A i \in 1 .. Len(Layers(n)) : Layers(n)[i] # p
    BY <1>1, <1>3, LayersAre
  <2> DEFINE h == Layers(n)
  <2>3. Laid(n, Append(h, p), parent', lists', refs)
    <3> HIDE DEF h, T, U
    <3>1. h \in Seq(Pkgs) /\ (\A i \in 1 .. Len(h) : h[i] # p) /\ Laid(n, h, parent, lists, refs)
      BY <1>1, <2>2 DEF h
    <3> QED  BY <1>1, <2>1, <3>1, Pushed
  <2> QED  BY <1>2, <1>5, <1>7, <2>3
<1>8. CASE p \notin T
  <2>1. \A k \in Pkgs \cup {None} : parent'[<<n, k>>] = parent[<<n, k>>] /\ lists'[<<n, k>>] = lists[<<n, k>>]
    <3> SUFFICES ASSUME NEW k \in Pkgs \cup {None}
                 PROVE  parent'[<<n, k>>] = parent[<<n, k>>] /\ lists'[<<n, k>>] = lists[<<n, k>>]
      OBVIOUS
    <3>1. <<n, p>> \notin spaces /\ <<n, p>> \notin PackageSpaces(p) /\ <<n, k>> \notin PackageSpaces(p)
      BY <1>6, <1>8 DEF PackageSpaces
    <3>2. Partner(p, <<n, k>>) = <<n, k>>
      BY <3>1 DEF Partner
    <3> QED  BY <1>2, <1>6, <3>1, <3>2 DEF swapped
  <2>2. Layers(n) \in Seq(Pkgs)
    BY <1>1, LayersAre
  <2> DEFINE h == Layers(n)
  <2>3. h \in Seq(Pkgs) /\ Laid(n, h, parent, lists, refs)
    BY <1>1, <2>2
  <2> HIDE DEF h, T, U
  <2>4. (\A i \in 1 .. Len(h) : h[i] \in Pkgs) /\ Len(h) \in Nat
    BY <2>3
  <2>5. Laid(n, h, parent', lists', refs)
    BY <1>1, <2>1, <2>3, SameStack
  <2> QED  BY <1>2, <1>5, <1>8, <2>5 DEF h
<1> QED  BY <1>7, <1>8

\* Taking the last package off.
LEMMA UnhookLays ==
    ASSUME PkgInv, active # <<>>, unhook(active[Len(active)]), NEW n \in Names
    PROVE  Laid(n, Layers(n)', parent', lists', refs')
<1>0. PICK p : p = active[Len(active)]
  OBVIOUS
<1>1. /\ spaces \subseteq Spaces /\ lists \in [Spaces -> Spaces] /\ active \in Seq(Pkgs)
      /\ parent \in [Spaces -> Spaces \cup {None}] /\ Laid(n, Layers(n), parent, lists, refs)
      /\ Once(active) /\ None \notin Pkgs
  BY NamespacesAssumption DEF PkgInv, NSInv, Shape
<1>2. /\ refs' = refs /\ lists' = swapped(p) /\ active' = SubSeq(active, 1, Len(active) - 1)
      /\ spaces' = spaces \cup {Base(s) : s \in PackageSpaces(p)}
      /\ parent' = [s \in Spaces |->
                      IF s \in PackageSpaces(p) THEN None
                      ELSE IF s[2] = None /\ <<s[1], p>> \in PackageSpaces(p)
                           THEN parent[<<s[1], p>>] ELSE parent[s]]
  BY <1>0 DEF unhook, found
<1> DEFINE a == active'
<1>3. a \in Seq(Pkgs) /\ p \in Pkgs /\ active = Append(a, p)
  <2>1. Len(active) \in Nat /\ Len(active) > 0
    BY <1>1
  <2>2. p \in Pkgs
    BY <1>0, <1>1, <2>1
  <2>3. a \in Seq(Pkgs) /\ Len(a) = Len(active) - 1 /\ \A i \in 1 .. Len(a) : a[i] = active[i]
    <3> DEFINE m == Len(active) - 1
               f == [i \in 1 .. m |-> active[i]]
    <3>1. m \in Nat /\ \A i \in 1 .. m : i \in 1 .. Len(active) /\ active[i] \in Pkgs
      BY <1>1, <2>1
    <3>2. a = f
      BY <1>1, <1>2, <2>1
    <3>3. \A i \in 1 .. m : f[i] = active[i]
      OBVIOUS
    <3> HIDE DEF m
    <3>4. f \in Seq(Pkgs) /\ DOMAIN f = 1 .. m
      BY <3>1
    <3> HIDE DEF f, a
    <3>5. Len(f) = m
      BY <3>1, <3>4
    <3> QED  BY <3>2, <3>3, <3>4, <3>5 DEF m
  <2> HIDE DEF a
  <2>4. Append(a, p) \in Seq(Pkgs) /\ Len(Append(a, p)) = Len(active)
    BY <2>1, <2>2, <2>3
  <2>5. ASSUME NEW i \in 1 .. Len(active) PROVE Append(a, p)[i] = active[i]
    <3>1. CASE i = Len(active)
      BY <1>0, <2>1, <2>2, <2>3, <3>1
    <3>2. CASE i # Len(active)
      BY <2>1, <2>2, <2>3, <3>2
    <3> QED  BY <3>1, <3>2
  <2> QED  BY <1>0, <1>1, <2>2, <2>3, <2>4, <2>5, SeqEqual
<1> DEFINE T == {q \in Pkgs : <<n, q>> \in spaces}
           U == {q \in Pkgs : <<n, q>> \in spaces'}
<1> DEFINE h == Chosen(a, T)
<1>4. T = U
  <2>2. \A q \in Pkgs : <<n, q>> \in spaces' <=> <<n, q>> \in spaces
    <3> SUFFICES ASSUME NEW q \in Pkgs, NEW s \in PackageSpaces(p), <<n, q>> = Base(s) PROVE FALSE
      BY <1>2
    <3> QED  BY <1>1 DEF Base
  <2> QED  BY <2>2
<1>5. Layers(n)' = h /\ Layers(n) = IF p \in T THEN Append(h, p) ELSE h
  <2>1. Layers(n)' = Chosen(a, T)
    BY <1>4 DEF Layers
  <2>2. Layers(n) = Chosen(active, T)
    BY DEF Layers
  <2> HIDE DEF T, a
  <2>0. a \in Seq(Pkgs) /\ p \in Pkgs /\ T \in SUBSET Pkgs
    BY <1>3 DEF T
  <2>3. Chosen(Append(a, p), T) = IF p \in T THEN Append(Chosen(a, T), p) ELSE Chosen(a, T)
    BY <2>0, ChosenAppend
  <2> QED  BY <1>3, <2>1, <2>2, <2>3
<1>6. ASSUME NEW k \in Pkgs \cup {None}
      PROVE  <<n, k>> \in Spaces /\ (<<n, k>> \in PackageSpaces(p) <=> k = p /\ p \in T)
  BY <1>3 DEF Spaces, PackageSpaces
<1>7. h \in Seq(Pkgs)
  <2> HIDE DEF a, T
  <2> QED  BY <1>3, ChosenIs
<1>8. Once(Layers(n))
  BY <1>1, LayersAre
<1>9. CASE p \in T
  <2>1. ASSUME NEW k \in Pkgs \cup {None}
        PROVE  /\ parent'[<<n, k>>] = IF k = p THEN None
                                     ELSE IF k = None THEN parent[<<n, p>>] ELSE parent[<<n, k>>]
               /\ lists'[<<n, k>>] = IF k = p THEN lists[<<n, None>>]
                                    ELSE IF k = None THEN lists[<<n, p>>] ELSE lists[<<n, k>>]
    <3> HIDE DEF a, h
    <3>1. <<n, p>> \in PackageSpaces(p) /\ <<n, p>> \in spaces
      BY <1>3, <1>6, <1>9
    <3>2. k # p => <<n, k>> \notin PackageSpaces(p)
      BY <1>6
    <3> HIDE DEF T
    <3>3. parent'[<<n, k>>] = IF k = p THEN None
                              ELSE IF k = None THEN parent[<<n, p>>] ELSE parent[<<n, k>>]
      BY <1>2, <1>6, <3>1, <3>2
    <3>4. Partner(p, <<n, k>>) = IF k = p THEN <<n, None>> ELSE IF k = None THEN <<n, p>> ELSE <<n, k>>
      BY <1>1, <3>1, <3>2 DEF Partner, Base
    <3> QED  BY <1>2, <1>6, <3>3, <3>4 DEF swapped
  <2>2. Layers(n) = Append(h, p)
    BY <1>5, <1>9
  <2> HIDE DEF h, T, U, a
  <2>3. \A i \in 1 .. Len(h) : h[i] # p
    <3> SUFFICES ASSUME NEW i \in 1 .. Len(h), h[i] = p PROVE FALSE
      OBVIOUS
    <3>1. /\ Len(Append(h, p)) = Len(h) + 1 /\ Len(h) \in Nat /\ Append(h, p)[Len(h) + 1] = p
          /\ Append(h, p)[i] = h[i]
      BY <1>3, <1>7
    <3> QED  BY <1>8, <2>2, <3>1 DEF Once
  <2>4. Laid(n, Append(h, p), parent, lists, refs) /\ Once(Append(h, p))
    BY <1>1, <1>8, <2>2
  <2>5. Laid(n, h, parent', lists', refs)
    BY <1>1, <1>3, <1>7, <2>1, <2>3, <2>4, Popped
  <2> QED  BY <1>2, <1>5, <2>5
<1>10. CASE p \notin T
  <2>1. \A k \in Pkgs \cup {None} : parent'[<<n, k>>] = parent[<<n, k>>] /\ lists'[<<n, k>>] = lists[<<n, k>>]
    <3> SUFFICES ASSUME NEW k \in Pkgs \cup {None}
                 PROVE  parent'[<<n, k>>] = parent[<<n, k>>] /\ lists'[<<n, k>>] = lists[<<n, k>>]
      OBVIOUS
    <3>1. <<n, p>> \notin spaces /\ <<n, p>> \notin PackageSpaces(p) /\ <<n, k>> \notin PackageSpaces(p)
      BY <1>3, <1>6, <1>10 DEF PackageSpaces
    <3>2. Partner(p, <<n, k>>) = <<n, k>>
      BY <3>1 DEF Partner
    <3> HIDE DEF a, h, T, U
    <3> QED  BY <1>2, <1>6, <3>1, <3>2 DEF swapped
  <2>2. Layers(n) = h
    BY <1>5, <1>10
  <2> HIDE DEF h, T, U, a
  <2>3. Laid(n, h, parent', lists', refs)
    BY <1>1, <1>7, <2>1, <2>2, SameStack
  <2> QED  BY <1>2, <1>5, <2>3
<1> QED  BY <1>9, <1>10
-----------------------------------------------------------------------------
(* Links.                                                                  *)

\* The walk of classLinkTo, as a function on 0 .. m.
IsWalk(f, par, s, m) ==
    f = [k \in 0 .. m |-> IF k = 0 THEN s ELSE Walked(par, s[1], f[k - 1])]

LEMMA WalkExists ==
    ASSUME NEW par, NEW s
    PROVE  \A m \in Nat : \E f : IsWalk(f, par, s, m)
<1> DEFINE M == {m \in Nat : \E f : IsWalk(f, par, s, m)}
<1>1. 0 \in M
  <2> DEFINE f == [k \in 0 .. 0 |-> s]
  <2>1. IsWalk(f, par, s, 0)
    BY DEF IsWalk
  <2> QED  BY <2>1
<1>2. ASSUME NEW m \in M PROVE m + 1 \in M
  <2>1. m \in Nat
    OBVIOUS
  <2>2. PICK f : IsWalk(f, par, s, m)
    OBVIOUS
  <2> HIDE DEF M
  <2> DEFINE g == [k \in 0 .. m + 1 |-> IF k = m + 1 THEN Walked(par, s[1], f[m]) ELSE f[k]]
  <2>3. ASSUME NEW k \in 0 .. m + 1
        PROVE  g[k] = IF k = 0 THEN s ELSE Walked(par, s[1], g[k - 1])
    <3>1. CASE k = m + 1
      <4>1. k # 0 /\ k - 1 = m /\ m \in 0 .. m + 1 /\ m # m + 1
        BY <2>1, <3>1
      <4>2. g[k] = Walked(par, s[1], f[m]) /\ g[m] = f[m]
        BY <3>1, <4>1
      <4> QED  BY <3>1, <4>1, <4>2
    <3>2. CASE k # m + 1
      <4>1. k \in 0 .. m /\ g[k] = f[k]
        BY <2>1, <3>2
      <4>2. f[k] = IF k = 0 THEN s ELSE Walked(par, s[1], f[k - 1])
        BY <2>2, <4>1, Zenon DEF IsWalk
      <4>3. k # 0 => k - 1 \in 0 .. m + 1 /\ k - 1 # m + 1
        BY <2>1, <4>1
      <4>4. k # 0 => g[k - 1] = f[k - 1]
        BY <4>3
      <4> QED  BY <4>1, <4>2, <4>4
    <3> QED  BY <3>1, <3>2
  <2>4. g = [k \in 0 .. m + 1 |-> g[k]]
    OBVIOUS
  <2> HIDE DEF g
  <2>5. IsWalk(g, par, s, m + 1)
    BY <2>3, <2>4 DEF IsWalk
  <2> QED  BY <2>1, <2>5 DEF M
<1> HIDE DEF M
<1>3. M = Nat
  <2>1. M \in SUBSET Nat
    BY DEF M
  <2> QED  BY <1>1, <1>2, <2>1, SetInduction
<1> QED  BY <1>3 DEF M

\* The walk ends at the lowest layer, where the class link is.
LEMMA BottomIsLowest ==
    ASSUME NEW n \in Names, active \in Seq(Pkgs), NEW h \in Seq(Pkgs), Len(h) <= Len(active),
           NEW par, NEW lst, NEW cnt, Laid(n, h, par, lst, cnt)
    PROVE  Bottom(par, <<n, None>>) = Lowest(n, h)
<1> DEFINE l == Len(h)
           s == <<n, None>>
           m == Len(active)
           walk == CHOOSE f : f = [k \in 0 .. m |-> IF k = 0 THEN s ELSE Walked(par, s[1], f[k - 1])]
<1>1. l \in Nat /\ m \in Nat /\ l <= m /\ s[1] = n
  OBVIOUS
<1>2. Bottom(par, s) = walk[m]
  BY DEF Bottom
<1>3. PICK f : IsWalk(f, par, s, m)
  BY <1>1, WalkExists
<1>4. walk = [k \in 0 .. m |-> IF k = 0 THEN s ELSE Walked(par, s[1], walk[k - 1])]
  BY <1>3, Zenon DEF IsWalk
<1> HIDE DEF walk
<1>5. \A k \in 0 .. m : walk[k] = IF k = 0 THEN s ELSE Walked(par, s[1], walk[k - 1])
  BY <1>4, Zenon
<1> DEFINE at(k) == IF k = 0 THEN s ELSE IF k <= l THEN <<n, h[l + 1 - k]>> ELSE Lowest(n, h)
<1>6. /\ l > 0 => par[s] = <<n, h[l]>>
      /\ \A i \in 2 .. l : par[<<n, h[i]>>] = <<n, h[i - 1]>>
      /\ par[Lowest(n, h)] # None => par[Lowest(n, h)][1] # n
      /\ Lowest(n, h) = IF l = 0 THEN s ELSE <<n, h[1]>>
  BY DEF Laid, Stacked, LinkIs, Lowest
<1>7. \A i \in 1 .. l : <<n, h[i]>> # None
  BY NamespacesAssumption
<1> HIDE DEF l, m
<1>8. ASSUME NEW k \in Nat PROVE at(k + 1) = Walked(par, n, at(k))
  <2>1. CASE k >= l
    <3>1. at(k) = Lowest(n, h) /\ at(k + 1) = Lowest(n, h)
      <4>1. k + 1 # 0 /\ ~(k + 1 <= l) /\ (k = 0 => l = 0) /\ (k <= l => k = l /\ l + 1 - k = 1)
        BY <1>1, <2>1
      <4>2. at(k + 1) = Lowest(n, h)
        BY <4>1
      <4>3. at(k) = Lowest(n, h)
        <5>1. CASE k = 0
          BY <1>6, <4>1, <5>1
        <5>2. CASE k # 0 /\ k <= l
          BY <1>6, <4>1, <5>2
        <5>3. CASE k # 0 /\ ~(k <= l)
          BY <5>3
        <5> QED  BY <5>1, <5>2, <5>3
      <4> QED  BY <4>2, <4>3
    <3> QED  BY <1>6, <3>1 DEF Walked
  <2>2. CASE k < l
    <3> DEFINE i == l + 1 - k
    <3>1. /\ at(k + 1) = <<n, h[i - 1]>> /\ i - 1 \in 1 .. l /\ (k # 0 => i \in 2 .. l)
          /\ (k = 0 => i - 1 = l /\ l > 0)
      BY <1>1, <2>2
    <3>2. at(k) = IF k = 0 THEN s ELSE <<n, h[i]>>
      BY <1>1, <2>2
    <3> HIDE DEF i, at
    <3>3. par[at(k)] = <<n, h[i - 1]>>
      BY <1>6, <3>1, <3>2
    <3>4. <<n, h[i - 1]>> # None /\ <<n, h[i - 1]>>[1] = n
      BY <1>7, <3>1
    <3> QED  BY <3>1, <3>3, <3>4 DEF Walked
  <2> QED  BY <1>1, <2>1, <2>2
<1>9. at(0) = s /\ at(m) = Lowest(n, h)
  BY <1>1, <1>6
<1> HIDE DEF at
<1> DEFINE M == {k \in Nat : k <= m => walk[k] = at(k)}
<1>10. 0 \in M
  BY <1>1, <1>5, <1>9
<1>11. ASSUME NEW k \in M PROVE k + 1 \in M
  <2> SUFFICES ASSUME k + 1 <= m PROVE walk[k + 1] = at(k + 1)
    OBVIOUS
  <2>1. k \in Nat /\ k + 1 \in 0 .. m /\ k + 1 # 0 /\ k + 1 - 1 = k /\ k <= m
    BY <1>1
  <2>2. walk[k] = at(k)
    BY <2>1
  <2> HIDE DEF M
  <2>3. walk[k + 1] = Walked(par, n, walk[k])
    BY <1>1, <1>5, <2>1
  <2> QED  BY <1>8, <2>1, <2>2, <2>3
<1> HIDE DEF M
<1>12. M = Nat
  <2>1. M \in SUBSET Nat
    BY DEF M
  <2> QED  BY <1>10, <1>11, <2>1, SetInduction
<1>13. walk[m] = at(m)
  BY <1>1, <1>12 DEF M
<1> QED  BY <1>2, <1>9, <1>13

\* A link or its end at the namespace of a name, in the links of that name.
LEMMA LinkLays ==
    ASSUME NEW n \in Names, NEW h \in Seq(Pkgs), \A i \in 1 .. Len(h) : h[i] \in Pkgs, Once(h),
           NEW par \in [Spaces -> Spaces \cup {None}], NEW lst, NEW cnt, Laid(n, h, par, lst, cnt),
           NEW v \in Spaces \cup {None}, NEW c, v = None <=> c = 0, v # None => v[1] # n,
           NEW dnt, dnt[<<n, None>>] = c
    PROVE  Laid(n, h, [par EXCEPT ![Lowest(n, h)] = v], lst, dnt)
<1> DEFINE low == Lowest(n, h)
           qar == [par EXCEPT ![low] = v]
           l == Len(h)
<1>1. l \in Nat /\ low = (IF l = 0 THEN <<n, None>> ELSE <<n, h[1]>>) /\ (l # 0 => 1 \in 1 .. l)
  BY DEF Lowest
<1>2. low \in Spaces
  BY <1>1 DEF Spaces
<1>3. qar[low] = v /\ \A s \in Spaces : s # low => qar[s] = par[s]
  BY <1>2
<1>4. None \notin Pkgs
  BY NamespacesAssumption
<1>5. /\ lst[<<n, None>>] = IF l = 0 THEN <<n, None>> ELSE <<n, h[l]>>
      /\ \A i \in 1 .. l : lst[<<n, h[i]>>] = IF i - 1 = 0 THEN <<n, None>> ELSE <<n, h[i - 1]>>
      /\ l > 0 => par[<<n, None>>] = <<n, h[l]>>
      /\ \A i \in 2 .. l : par[<<n, h[i]>>] = <<n, h[i - 1]>>
      /\ \A k \in Pkgs : (\A i \in 1 .. l : h[i] # k) => par[<<n, k>>] = None /\ lst[<<n, k>>] = <<n, k>>
  BY DEF Laid, Stacked
<1> HIDE DEF qar, low, l
<1>6. l > 0 => qar[<<n, None>>] = <<n, h[l]>>
  <2> SUFFICES ASSUME l > 0 PROVE qar[<<n, None>>] = <<n, h[l]>>
    OBVIOUS
  <2>1. low = <<n, h[1]>> /\ h[1] \in Pkgs
    BY <1>1 DEF l
  <2>2. <<n, None>> # low /\ <<n, None>> \in Spaces
    BY <1>4, <2>1 DEF Spaces
  <2> QED  BY <1>3, <1>5, <2>2
<1>7. ASSUME NEW i \in 2 .. l PROVE qar[<<n, h[i]>>] = <<n, h[i - 1]>>
  <2>1. i \in 1 .. l /\ 1 \in 1 .. l /\ i # 1 /\ l # 0
    BY <1>1
  <2>2. h[i] # h[1] /\ h[i] \in Pkgs
    BY <2>1 DEF Once, l
  <2>3. <<n, h[i]>> # low /\ <<n, h[i]>> \in Spaces
    BY <1>1, <2>1, <2>2 DEF Spaces
  <2> QED  BY <1>3, <1>5, <2>3
<1>8. ASSUME NEW k \in Pkgs, \A i \in 1 .. l : h[i] # k
      PROVE  qar[<<n, k>>] = None /\ lst[<<n, k>>] = <<n, k>>
  <2>1. <<n, k>> # low /\ <<n, k>> \in Spaces
    BY <1>1, <1>4, <1>8 DEF Spaces
  <2> QED  BY <1>3, <1>5, <1>8, <2>1
<1>9. Stacked(n, h, qar, lst)
  BY <1>5, <1>6, <1>7, <1>8 DEF Stacked, l
<1>10. LinkIs(n, qar[low], dnt[<<n, None>>])
  BY <1>3 DEF LinkIs
<1> QED  BY <1>9, <1>10 DEF Laid, low, qar

\* Counting in U32 as far as links are held.
LEMMA LinkCounts ==
    ASSUME NEW r \in 0 .. MaxLinks
    PROVE  /\ r < MaxLinks => (r + 1) % RefModulus = r + 1 /\ r + 1 \in 0 .. MaxLinks
           /\ r > 0 => (r + RefModulus - 1) % RefModulus = r - 1 /\ r - 1 \in 0 .. MaxLinks
<1>1. MaxLinks \in Nat /\ RefModulus \in Nat /\ MaxLinks < RefModulus
  BY NamespacesAssumption
<1>2. r < MaxLinks => (r + 1) % RefModulus = r + 1
  BY <1>1
<1>3. r > 0 => (r + RefModulus - 1) % RefModulus = r - 1
  <2> SUFFICES ASSUME r > 0 PROVE (r + RefModulus - 1) % RefModulus = r - 1
    OBVIOUS
  <2> DEFINE q == r - 1
  <2>1. q \in 0 .. RefModulus - 1 /\ r + RefModulus - 1 = q + RefModulus
    BY <1>1
  <2>2. (q + RefModulus) % RefModulus = q
    <3> HIDE DEF q
    <3> QED  BY <1>1, <2>1
  <2> QED  BY <2>1, <2>2
<1> QED  BY <1>1, <1>2, <1>3

\* linkNamespace and unlinkNamespace keep every stack, and the class links
\* as their counts say.
LEMMA LinksLay ==
    ASSUME PkgInv, NEW l \in LinkPairs, linkNamespace(l[1], l[2]) \/ unlinkNamespace(l[1], l[2])
    PROVE  /\ parent' \in [Spaces -> Spaces \cup {None}] /\ refs' \in [Spaces -> 0 .. MaxLinks]
           /\ \A n \in Names : Laid(n, Layers(n), parent', lists, refs')
<1>1. /\ active \in Seq(Pkgs) /\ Once(active)
      /\ parent \in [Spaces -> Spaces \cup {None}] /\ refs \in [Spaces -> 0 .. MaxLinks]
      /\ \A n \in Names : Laid(n, Layers(n), parent, lists, refs)
      /\ l[1] \in Names /\ l[2] \in Names /\ l[1] # l[2]
  BY NamespacesAssumption DEF PkgInv, NSInv, Shape
<1> DEFINE c == <<l[2], None>>
           p == <<l[1], None>>
           h == Layers(l[2])
           low == Lowest(l[2], h)
<1>2. c \in Spaces /\ p \in Spaces /\ p[1] # l[2] /\ p # None
  BY <1>1, NamespacesAssumption DEF Spaces
<1>3. /\ h \in Seq(Pkgs) /\ Len(h) <= Len(active) /\ Once(h)
      /\ \A i \in 1 .. Len(h) : h[i] \in Pkgs
  <2>1. h \in Seq(Pkgs) /\ Len(h) <= Len(active) /\ Once(h)
    BY <1>1, LayersAre
  <2> HIDE DEF h
  <2> QED  BY <2>1
<1>4. low \in Spaces /\ low[1] = l[2] /\ Laid(l[2], h, parent, lists, refs)
  <2>1. Laid(l[2], h, parent, lists, refs)
    BY <1>1
  <2> HIDE DEF h
  <2>2. Len(h) # 0 => 1 \in 1 .. Len(h)
    BY <1>3
  <2> QED  BY <1>1, <1>3, <2>1, <2>2 DEF Lowest, Spaces
<1>5. Bottom(parent, c) = low
  <2> HIDE DEF h
  <2> QED  BY <1>1, <1>3, <1>4, BottomIsLowest
<1>6. /\ refs[c] \in 0 .. MaxLinks /\ (parent[low] = None <=> refs[c] = 0)
  <2> HIDE DEF h
  <2> QED  BY <1>1, <1>2, <1>4 DEF Laid, LinkIs
<1> HIDE DEF h
<1>7. ASSUME NEW v \in Spaces \cup {None}, NEW k \in 0 .. MaxLinks, v = None <=> k = 0,
             v # None => v[1] # l[2],
             parent' = [parent EXCEPT ![low] = v], refs' = [refs EXCEPT ![c] = k]
      PROVE  /\ parent' \in [Spaces -> Spaces \cup {None}] /\ refs' \in [Spaces -> 0 .. MaxLinks]
             /\ \A n \in Names : Laid(n, Layers(n), parent', lists, refs')
  <2>1. parent' \in [Spaces -> Spaces \cup {None}] /\ refs' \in [Spaces -> 0 .. MaxLinks]
    BY <1>1, <1>7
  <2>2. Laid(l[2], h, parent', lists, refs')
    <3>1. refs'[<<l[2], None>>] = k
      BY <1>1, <1>2, <1>7
    <3> DEFINE d == refs'
    <3>2. d[<<l[2], None>>] = k
      BY <3>1
    <3> HIDE DEF d
    <3>3. Laid(l[2], h, [parent EXCEPT ![Lowest(l[2], h)] = v], lists, d)
      BY <1>1, <1>3, <1>4, <1>7, <3>2, LinkLays
    <3> QED  BY <1>7, <3>3 DEF d
  <2>3. ASSUME NEW n \in Names, n # l[2] PROVE Laid(n, Layers(n), parent', lists, refs')
    <3> DEFINE g == Layers(n)
               q == parent'
               d == refs'
    <3>1. g \in Seq(Pkgs) /\ Laid(n, g, parent, lists, refs)
      BY <1>1, LayersAre
    <3>2. \A k2 \in Pkgs \cup {None} : <<n, k2>> \in Spaces /\ <<n, k2>> # low /\ <<n, k2>> # c
      BY <1>4, <2>3 DEF Spaces
    <3>3. \A k2 \in Pkgs \cup {None} : q[<<n, k2>>] = parent[<<n, k2>>] /\ lists[<<n, k2>>] = lists[<<n, k2>>]
      BY <1>1, <1>7, <3>2
    <3>4. d[<<n, None>>] = refs[<<n, None>>]
      BY <1>1, <1>7, <3>2
    <3> HIDE DEF g, q, d, low
    <3>5. Laid(n, g, q, lists, refs)
      BY <3>1, <3>3, SameStack
    <3>6. Laid(n, g, q, lists, d)
      BY <3>4, <3>5 DEF Laid
    <3> QED  BY <3>6 DEF g, q, d
  <2> QED  BY <2>1, <2>2, <2>3 DEF h
<1>8. CASE linkNamespace(l[1], l[2])
  <2>1. refs[c] < MaxLinks /\ parent' = classLinkTo(Links, p, c).parent /\ refs' = classLinkTo(Links, p, c).refs
    BY <1>8 DEF linkNamespace
  <2>2. Joins(Links, p, c) <=> parent[low] \in {None, p}
    BY <1>5 DEF Joins, Links
  <2>3. CASE parent[low] \in {None, p}
    <3>1. parent' = [parent EXCEPT ![low] = p] /\ refs' = [refs EXCEPT ![c] = (@ + 1) % RefModulus]
      BY <1>5, <2>1, <2>2, <2>3 DEF classLinkTo, Links
    <3> DEFINE r == refs[c]
    <3>a. (r + 1) % RefModulus = r + 1 /\ r + 1 \in 0 .. MaxLinks /\ r + 1 # 0
      <4>1. r \in 0 .. MaxLinks /\ r < MaxLinks
        BY <1>6, <2>1
      <4> HIDE DEF r
      <4> QED  BY <4>1, LinkCounts
    <3>2. refs' = [refs EXCEPT ![c] = refs[c] + 1] /\ refs[c] + 1 \in 0 .. MaxLinks /\ refs[c] + 1 # 0
      BY <3>1, <3>a
    <3> QED  BY <1>2, <1>7, <3>1, <3>2
  <2>4. CASE parent[low] \notin {None, p}
    <3>1. parent' = parent /\ refs' = refs
      BY <2>1, <2>2, <2>4 DEF classLinkTo, Links
    <3> QED  BY <1>1, <3>1
  <2> QED  BY <2>3, <2>4
<1>9. CASE unlinkNamespace(l[1], l[2])
  <2>1. refs[c] > 0 /\ parent' = unlinkClass(Links, p, c).parent /\ refs' = unlinkClass(Links, p, c).refs
    BY <1>9 DEF unlinkNamespace
  <2>2. Joins(Links, p, c) <=> parent[low] \in {None, p}
    BY <1>5 DEF Joins, Links
  <2>3. CASE parent[low] \in {None, p}
    <3> DEFINE left == (refs[c] + RefModulus - 1) % RefModulus
    <3>1. left = refs[c] - 1 /\ left \in 0 .. MaxLinks
      BY <1>6, <2>1, LinkCounts
    <3>2. /\ parent' = IF left # 0 THEN parent ELSE [parent EXCEPT ![low] = None]
          /\ refs' = [refs EXCEPT ![c] = left]
      BY <1>5, <2>1, <2>2, <2>3 DEF unlinkClass, Links
    <3>3. parent[low] = p
      BY <1>6, <2>1, <2>3
    <3> HIDE DEF left
    <3>4. CASE left = 0
      BY <1>7, <3>1, <3>2, <3>4
    <3>5. CASE left # 0
      <4>1. parent' = [parent EXCEPT ![low] = p]
        BY <1>1, <1>4, <3>2, <3>3, <3>5
      <4> QED  BY <1>2, <1>7, <3>1, <3>2, <3>5, <4>1
    <3> QED  BY <3>4, <3>5
  <2>4. CASE parent[low] \notin {None, p}
    <3>1. parent' = parent /\ refs' = refs
      BY <2>1, <2>2, <2>4 DEF unlinkClass, Links
    <3> QED  BY <1>1, <3>1
  <2> QED  BY <2>3, <2>4
<1> QED  BY <1>8, <1>9
-----------------------------------------------------------------------------
\* The chain and the lists at the start, and what they say of a stack.
LEMMA PkgInitOK == NSInit => PkgInv
<1> SUFFICES ASSUME NSInit PROVE PkgInv
  OBVIOUS
<1>1. /\ NSInv /\ active = <<>> /\ parent = [s \in Spaces |-> None]
      /\ refs = [s \in Spaces |-> 0] /\ lists = [s \in Spaces |-> s]
  BY NSInitOK DEF NSInit
<1>2. parent \in [Spaces -> Spaces \cup {None}] /\ refs \in [Spaces -> 0 .. MaxLinks]
  BY <1>1, NamespacesAssumption
<1>3. active \in Seq(Pkgs) /\ Len(active) = 0 /\ Once(active)
  BY <1>1 DEF Once
<1>4. ASSUME NEW n \in Names PROVE Laid(n, Layers(n), parent, lists, refs)
  <2> DEFINE h == Layers(n)
  <2>1. h \in Seq(Pkgs) /\ Len(h) <= Len(active)
    BY <1>3, LayersAre
  <2> HIDE DEF h
  <2>2. Len(h) = 0
    BY <1>3, <2>1
  <2>3. \A k \in Pkgs \cup {None} : <<n, k>> \in Spaces
    BY DEF Spaces
  <2>4. /\ lists[<<n, None>>] = <<n, None>> /\ parent[<<n, None>>] = None /\ refs[<<n, None>>] = 0
        /\ \A k \in Pkgs : parent[<<n, k>>] = None /\ lists[<<n, k>>] = <<n, k>>
    BY <1>1, <2>3
  <2>5. Stacked(n, h, parent, lists)
    BY <2>2, <2>4 DEF Stacked
  <2>6. LinkIs(n, parent[Lowest(n, h)], refs[<<n, None>>])
    BY <2>2, <2>4 DEF LinkIs, Lowest
  <2>7. Laid(n, h, parent, lists, refs)
    BY <2>5, <2>6 DEF Laid
  <2> QED  BY <2>7 DEF h
<1>5. Len(active) <= MaxActivePackages
  BY NamespacesAssumption DEF NSInit
<1> QED  BY <1>1, <1>2, <1>3, <1>4, <1>5 DEF PkgInv

\* A step that leaves the chains, the links and the packages alone: what it
\* adds to the namespaces are none of an active package.
LEMMA LaidStays ==
    ASSUME PkgInv, UNCHANGED <<parent, lists, refs, active>>, spaces \subseteq spaces',
           \A s \in spaces' \ spaces : \A i \in 1 .. Len(active) : active[i] # s[2]
    PROVE  Once(active') /\ \A n \in Names : Laid(n, Layers(n)', parent', lists', refs')
<1>1. /\ active \in Seq(Pkgs) /\ Once(active)
      /\ \A n \in Names : Laid(n, Layers(n), parent, lists, refs)
  BY DEF PkgInv, NSInv, Shape
<1>2. ASSUME NEW n \in Names PROVE Laid(n, Layers(n)', parent', lists', refs')
  <2>1. Layers(n)' = Layers(n)
    BY <1>1, LayersKept
  <2>2. Laid(n, Layers(n), parent, lists, refs)
    BY <1>1
  <2> QED  BY <2>1, <2>2
<1> QED  BY <1>1, <1>2

\* The chain pointers and the counts keep their types.
LEMMA ChainsTyped ==
    ASSUME PkgInv, NEW p \in Pkgs, hook(p) \/ unhook(p)
    PROVE  parent' \in [Spaces -> Spaces \cup {None}] /\ refs' \in [Spaces -> 0 .. MaxLinks]
<1>1. /\ parent \in [Spaces -> Spaces \cup {None}] /\ refs \in [Spaces -> 0 .. MaxLinks]
      /\ \A s \in Spaces : Base(s) \in Spaces /\ <<s[1], p>> \in Spaces
  BY DEF PkgInv, Base, Spaces
<1>2. refs' = refs
  BY DEF hook, unhook
<1>3. CASE hook(p)
  <2>1. parent' = [s \in Spaces |->
                     IF s \in PackageSpaces(p) THEN parent[Base(s)]
                     ELSE IF s[2] = None /\ <<s[1], p>> \in PackageSpaces(p)
                          THEN <<s[1], p>> ELSE parent[s]]
    BY <1>3 DEF hook
  <2> QED  BY <1>1, <1>2, <2>1
<1>4. CASE unhook(p)
  <2>1. parent' = [s \in Spaces |->
                     IF s \in PackageSpaces(p) THEN None
                     ELSE IF s[2] = None /\ <<s[1], p>> \in PackageSpaces(p)
                          THEN parent[<<s[1], p>>] ELSE parent[s]]
    BY <1>4 DEF unhook
  <2> QED  BY <1>1, <1>2, <2>1
<1> QED  BY <1>3, <1>4

\* A package is put on once.
LEMMA HookOnce ==
    ASSUME PkgInv, NEW p \in Pkgs, CanActivate(p), hook(p)
    PROVE  Once(active')
<1>1. active \in Seq(Pkgs) /\ Once(active) /\ active' = Append(active, p)
  BY DEF PkgInv, NSInv, Shape, hook
<1>2. \A i \in 1 .. Len(active) : active[i] # p
  BY <1>1 DEF CanActivate
<1> SUFFICES ASSUME NEW i \in 1 .. Len(active'), NEW j \in 1 .. Len(active'), active'[i] = active'[j]
             PROVE  i = j
  BY DEF Once
<1>3. /\ Len(active') = Len(active) + 1 /\ Len(active) \in Nat /\ active'[Len(active) + 1] = p
      /\ \A k \in 1 .. Len(active) : active'[k] = active[k]
  BY <1>1
<1>4. \A k \in 1 .. Len(active') : k = Len(active) + 1 \/ k \in 1 .. Len(active)
  BY <1>3
<1>5. CASE i \in 1 .. Len(active) /\ j \in 1 .. Len(active)
  BY <1>1, <1>3, <1>5 DEF Once
<1>6. CASE i = Len(active) + 1 \/ j = Len(active) + 1
  BY <1>2, <1>3, <1>4, <1>6
<1> QED  BY <1>4, <1>5, <1>6

LEMMA UnhookOnce ==
    ASSUME PkgInv, active # <<>>, NEW p, unhook(p)
    PROVE  Once(active')
<1>1. active \in Seq(Pkgs) /\ Once(active) /\ active' = SubSeq(active, 1, Len(active) - 1)
  BY DEF PkgInv, NSInv, Shape, unhook
<1>2. /\ Len(active') = Len(active) - 1
      /\ \A k \in 1 .. Len(active') : active'[k] = active[k] /\ k \in 1 .. Len(active)
  <2>1. Len(active) \in Nat /\ Len(active) > 0
    BY <1>1
  <2> DEFINE m == Len(active) - 1
  <2>2. m \in Int /\ 1 \in Int /\ \A i \in 1 .. m : active[i] \in Pkgs /\ i \in 1 .. Len(active)
    BY <1>1, <2>1
  <2>3. m - 1 + 1 = m /\ (1 <= m \/ m = 0) /\ \A k \in 1 .. m : 1 + k - 1 = k
    <3>1. m \in Nat
      BY <2>1
    <3> HIDE DEF m
    <3> QED  BY <3>1
  <2> HIDE DEF m
  <2>4. /\ Len(SubSeq(active, 1, m)) = IF 1 <= m THEN m - 1 + 1 ELSE 0
        /\ \A k \in 1 .. m - 1 + 1 : SubSeq(active, 1, m)[k] = active[1 + k - 1]
    BY <2>2, SubSeqProperties
  <2>5. Len(SubSeq(active, 1, m)) = m /\ \A k \in 1 .. m : SubSeq(active, 1, m)[k] = active[k]
    BY <2>3, <2>4
  <2> QED  BY <1>1, <2>2, <2>5 DEF m
<1> QED  BY <1>1, <1>2 DEF Once

\* mActivePackages never holds more than it has room for: only
\* activatePackage adds to it.
LEMMA RoomKept ==
    ASSUME NSInv, Len(active) <= MaxActivePackages, [NSNext]_nsvars
    PROVE  Len(active') <= MaxActivePackages
<1>1. active \in Seq(Pkgs) /\ Len(active) \in Nat /\ MaxActivePackages \in Nat
  BY NamespacesAssumption DEF NSInv, Shape
<1>2. ASSUME NEW p, CanActivate(p), hook(p) PROVE Len(active') <= MaxActivePackages
  <2>1. active' = Append(active, p) /\ Len(active) < MaxActivePackages
    BY <1>2 DEF CanActivate, hook
  <2>2. Len(active') = Len(active) + 1
    BY <1>1, <2>1
  <2> QED  BY <1>1, <2>1, <2>2
<1>3. ASSUME unlinkRound PROVE Len(active') <= MaxActivePackages
  <2>1. Len(active) > job.keep /\ active' = SubSeq(active, 1, Len(active) - 1) /\ job.keep \in Nat
    BY <1>3 DEF unlinkRound, unhook, NSInv, Shape, Jobs
  <2> DEFINE n == Len(active) - 1
  <2>2. n \in Nat
    BY <1>1, <2>1
  <2>3. active' = SubSeq(active, 1, n)
    BY <2>1
  <2>4. n <= MaxActivePackages
    BY <1>1
  <2> HIDE DEF n
  <2>5. Len(active') = n
    BY <1>1, <2>2, <2>3, SubSeqProperties
  <2> QED  BY <2>4, <2>5
<1>4. \/ \E p \in Pkgs : activatePackage(p)
      \/ unlinkRound \/ relinkRound \/ active' = active
  BY DEF NSNext, nsvars, findNamespace, lookup, deactivatePackage, addDeclared, declare, addCommand,
         linkNamespace, unlinkNamespace
<1>5. ASSUME NEW p \in Pkgs, activatePackage(p) PROVE Len(active') <= MaxActivePackages
  BY <1>2, <1>5 DEF activatePackage
<1>6. ASSUME relinkRound PROVE Len(active') <= MaxActivePackages
  BY <1>2, <1>6 DEF relinkRound
<1> QED  BY <1>3, <1>4, <1>5, <1>6

LEMMA PkgStep == PkgInv /\ [NSNext]_nsvars => PkgInv'
<1> SUFFICES ASSUME PkgInv, [NSNext]_nsvars PROVE PkgInv'
  OBVIOUS
<1>1. NSInv /\ NSInv'
  BY NSStep DEF PkgInv
<1>2. active \in Seq(Pkgs) /\ job \in Jobs
  BY <1>1 DEF NSInv, Shape
<1> DEFINE Good == /\ parent' \in [Spaces -> Spaces \cup {None}] /\ refs' \in [Spaces -> 0 .. MaxLinks]
                   /\ Once(active') /\ \A n \in Names : Laid(n, Layers(n)', parent', lists', refs')
<1>3. ASSUME UNCHANGED <<parent, lists, refs, active>>, spaces \subseteq spaces',
             \A s \in spaces' \ spaces : \A i \in 1 .. Len(active) : active[i] # s[2]
      PROVE  Good
  BY <1>3, LaidStays DEF PkgInv
<1>4. ASSUME NEW p \in Pkgs, CanActivate(p), hook(p) PROVE Good
  BY <1>4, ChainsTyped, HookOnce, HookLays
<1>5. ASSUME active # <<>>, unhook(active[Len(active)]) PROVE Good
  <2>1. Len(active) \in 1 .. Len(active)
    BY <1>2, <1>5
  <2>2. active[Len(active)] \in Pkgs
    BY <1>2, <2>1
  <2> QED  BY <1>5, <2>2, ChainsTyped, UnhookOnce, UnhookLays
<1>6. ASSUME UNCHANGED <<parent, lists, refs, active>>, spaces' = spaces PROVE Good
  BY <1>3, <1>6
<1> HIDE DEF Good
<1>7. ASSUME NEW s \in FoundSpaces, findNamespace(s) PROVE Good
  <2>1. /\ spaces' = spaces \cup {s} /\ UNCHANGED <<parent, lists, refs, active>>
        /\ \A i \in 1 .. Len(active) : active[i] # s[2]
    BY <1>2, <1>7 DEF findNamespace, found
  <2> QED  BY <1>3, <2>1
<1>8. ASSUME NEW s \in Spaces, lookup(s) PROVE Good
  BY <1>6, <1>8 DEF lookup
<1>9. ASSUME NEW p \in Pkgs, activatePackage(p) PROVE Good
  BY <1>4, <1>9 DEF activatePackage
<1>10. ASSUME NEW p \in Pkgs, deactivatePackage(p) PROVE Good
  BY <1>6, <1>10 DEF deactivatePackage
<1>11. ASSUME unlinkRound PROVE Good
  <2>1. active # <<>>
    BY <1>2, <1>11 DEF unlinkRound, Jobs
  <2> QED  BY <1>5, <1>11, <2>1 DEF unlinkRound
<1>12. ASSUME addDeclared PROVE Good
  <2>1. active = <<>> /\ spaces' = spaces \cup {job.decl[1]} /\ UNCHANGED <<parent, lists, refs, active>>
    BY <1>1, <1>12 DEF addDeclared, NSInv, Progress
  <2>2. \A i \in 1 .. Len(active) : FALSE
    BY <2>1
  <2> QED  BY <1>3, <2>1, <2>2
<1>13. ASSUME relinkRound PROVE Good
  <2> DEFINE p == job.saved[Len(active) + 1]
  <2>1. CanActivate(p) /\ hook(p) /\ job.op = "relink"
    BY <1>13 DEF relinkRound
  <2>2. p \in Pkgs
    <3>1. Len(active) < Len(job.saved) /\ job.saved \in Seq(Pkgs)
      BY <1>1, <1>2, <2>1 DEF NSInv, Progress, Jobs
    <3>2. Len(active) + 1 \in 1 .. Len(job.saved)
      BY <1>2, <3>1
    <3> QED  BY <3>1, <3>2
  <2> HIDE DEF p
  <2> QED  BY <1>4, <2>1, <2>2
<1>14. ASSUME NEW d \in ScriptDecls, declare(d) PROVE Good
  BY <1>6, <1>14 DEF declare
<1>15. ASSUME NEW d \in ScriptDecls, addCommand(d[1], d[2]) PROVE Good
  BY <1>6, <1>15 DEF addCommand
<1>16. ASSUME NEW l \in LinkPairs, linkNamespace(l[1], l[2]) \/ unlinkNamespace(l[1], l[2]) PROVE Good
  <2>1. /\ spaces' = spaces \cup {<<l[1], None>>, <<l[2], None>>} /\ UNCHANGED <<lists, active>>
    BY <1>16 DEF linkNamespace, unlinkNamespace, found
  <2>2. /\ parent' \in [Spaces -> Spaces \cup {None}] /\ refs' \in [Spaces -> 0 .. MaxLinks]
        /\ \A n \in Names : Laid(n, Layers(n), parent', lists, refs')
    BY <1>16, LinksLay
  <2>3. \A s \in spaces' \ spaces : \A i \in 1 .. Len(active) : active[i] # s[2]
    BY <1>2, <2>1, NamespacesAssumption
  <2>4. ASSUME NEW n \in Names PROVE Layers(n)' = Layers(n)
    BY <1>2, <2>1, <2>3, LayersKept
  <2>5. \A n \in Names : Laid(n, Layers(n)', parent', lists', refs')
    BY <2>1, <2>2, <2>4
  <2>6. Once(active')
    BY <2>1 DEF PkgInv
  <2> QED  BY <2>2, <2>5, <2>6 DEF Good
<1>17. ASSUME UNCHANGED nsvars PROVE Good
  BY <1>6, <1>17 DEF nsvars
<1>18. Good
  BY <1>7, <1>8, <1>9, <1>10, <1>11, <1>12, <1>13, <1>14, <1>15, <1>16, <1>17 DEF NSNext
<1>19. Len(active') <= MaxActivePackages
  BY <1>1, RoomKept DEF PkgInv
<1> QED  BY <1>1, <1>18, <1>19 DEF PkgInv, Good

LEMMA PkgMeans == PkgInv => PackagesConsistent
<1> SUFFICES ASSUME PkgInv PROVE PackagesConsistent
  OBVIOUS
<1>1. active \in Seq(Pkgs) /\ Once(active) /\ \A n \in Names : Laid(n, Layers(n), parent, lists, refs)
  BY DEF PkgInv, NSInv, Shape
<1>2. ASSUME NEW n \in Names, NEW h, h = Layers(n)
      PROVE  LET space(i) == IF i = Len(h) + 1 THEN <<n, None>> ELSE <<n, h[i]>>
                 own(i) == IF i = 0 THEN <<n, None>> ELSE <<n, h[i]>>
             IN /\ \A i \in 1 .. Len(h) + 1 : lists[space(i)] = own(i - 1)
                /\ \A i \in 2 .. Len(h) + 1 : parent[space(i)] = space(i - 1)
                /\ parent[space(1)] # None => parent[space(1)][1] # n
                /\ \A p \in Pkgs : (\A i \in DOMAIN h : h[i] # p) =>
                      parent[<<n, p>>] = None /\ lists[<<n, p>>] = <<n, p>>
                /\ parent[IF h = <<>> THEN <<n, None>> ELSE <<n, h[1]>>] = None <=> refs[<<n, None>>] = 0
  <2> DEFINE space(i) == IF i = Len(h) + 1 THEN <<n, None>> ELSE <<n, h[i]>>
             own(i) == IF i = 0 THEN <<n, None>> ELSE <<n, h[i]>>
             l == Len(h)
  <2>1. h \in Seq(Pkgs) /\ Laid(n, h, parent, lists, refs)
    BY <1>1, <1>2, LayersAre
  <2>2. l \in Nat /\ DOMAIN h = 1 .. l /\ (h = <<>> <=> l = 0)
    BY <2>1
  <2>3. /\ lists[<<n, None>>] = own(l)
        /\ \A i \in 1 .. l : lists[<<n, h[i]>>] = own(i - 1)
        /\ l > 0 => parent[<<n, None>>] = <<n, h[l]>>
        /\ \A i \in 2 .. l : parent[<<n, h[i]>>] = <<n, h[i - 1]>>
        /\ \A p \in Pkgs : (\A i \in 1 .. l : h[i] # p) => parent[<<n, p>>] = None /\ lists[<<n, p>>] = <<n, p>>
    BY <2>1 DEF Laid, Stacked
  <2>4. /\ parent[Lowest(n, h)] = None <=> refs[<<n, None>>] = 0
        /\ parent[Lowest(n, h)] # None => parent[Lowest(n, h)][1] # n
    BY <2>1 DEF Laid, LinkIs
  <2>5. Lowest(n, h) = (IF h = <<>> THEN <<n, None>> ELSE <<n, h[1]>>) /\ Lowest(n, h) = space(1)
    BY <2>2 DEF Lowest
  <2> HIDE DEF l
  <2>6. \A i \in 1 .. l + 1 : lists[space(i)] = own(i - 1)
    <3> SUFFICES ASSUME NEW i \in 1 .. l + 1 PROVE lists[space(i)] = own(i - 1)
      OBVIOUS
    <3>1. CASE i = l + 1
      <4>1. i - 1 = l /\ space(i) = <<n, None>>
        BY <2>2, <3>1 DEF l
      <4> QED  BY <2>3, <4>1
    <3>2. CASE i # l + 1
      <4>1. i \in 1 .. l /\ space(i) = <<n, h[i]>>
        BY <2>2, <3>2 DEF l
      <4> QED  BY <2>3, <4>1
    <3> QED  BY <3>1, <3>2
  <2>7. \A i \in 2 .. l + 1 : parent[space(i)] = space(i - 1)
    <3> SUFFICES ASSUME NEW i \in 2 .. l + 1 PROVE parent[space(i)] = space(i - 1)
      OBVIOUS
    <3>1. space(i - 1) = <<n, h[i - 1]>>
      BY <2>2 DEF l
    <3>2. CASE i = l + 1
      <4>1. i - 1 = l /\ space(i) = <<n, None>> /\ l > 0
        BY <2>2, <3>2 DEF l
      <4> QED  BY <2>3, <3>1, <4>1
    <3>3. CASE i # l + 1
      <4>1. i \in 2 .. l /\ space(i) = <<n, h[i]>>
        BY <2>2, <3>3 DEF l
      <4> QED  BY <2>3, <3>1, <4>1
    <3> QED  BY <3>2, <3>3
  <2> QED  BY <2>2, <2>3, <2>4, <2>5, <2>6, <2>7 DEF l
<1>3. NSTypeOK
  <2>1. MaxLinks \in Nat /\ MaxLinks < RefModulus /\ RefModulus \in Nat
    BY NamespacesAssumption
  <2>2. \A k \in 0 .. MaxLinks : k \in 0 .. RefModulus - 1
    BY <2>1
  <2>3. refs \in [Spaces -> 0 .. RefModulus - 1]
    BY <2>2 DEF PkgInv
  <2> QED  BY <2>3 DEF NSTypeOK, PkgInv, NSInv, Shape
<1>4. PackagesStack
  <2> SUFFICES ASSUME NEW n \in Names
               PROVE  LET h == Layers(n)
                          space(i) == IF i = Len(h) + 1 THEN <<n, None>> ELSE <<n, h[i]>>
                          own(i) == IF i = 0 THEN <<n, None>> ELSE <<n, h[i]>>
                      IN /\ \A i \in 1 .. Len(h) + 1 : lists[space(i)] = own(i - 1)
                         /\ \A i \in 2 .. Len(h) + 1 : parent[space(i)] = space(i - 1)
                         /\ parent[space(1)] # None => parent[space(1)][1] # n
                         /\ \A p \in Pkgs : (\A i \in DOMAIN h : h[i] # p) =>
                               parent[<<n, p>>] = None /\ lists[<<n, p>>] = <<n, p>>
    BY DEF PackagesStack
  <2>1. PICK h : h = Layers(n) OBVIOUS
  <2> QED BY <1>2, <2>1
<1>5. LinksOutlivePackages  BY <1>2, Zenon DEF LinksOutlivePackages
<1> QED  BY <1>3, <1>4, <1>5 DEF PackagesConsistent

\* Whatever is activated, deactivated out of order, declared and linked in
\* whatever order: the packages of every name lie over it as a stack, its
\* class link hangs under the lowest of them, and lasts as long as links are
\* held on it; and mActivePackages never overflows.
THEOREM PackagesAlwaysStack == NSSpec => []PackagesConsistent
<1>1. NSInit => PkgInv  BY PkgInitOK
<1>2. PkgInv /\ [NSNext]_nsvars => PkgInv'  BY PkgStep
<1>3. PkgInv => PackagesConsistent  BY PkgMeans
<1> QED  BY <1>1, <1>2, <1>3, PTL DEF NSSpec
-----------------------------------------------------------------------------
(***************************************************************************)
(* The links of objects.  The inductive invariant is that the tables count *)
(* the web of the links that the objects stand for: linking a chain adds   *)
(* the links of one object to it, unlinking takes just those away.         *)
(***************************************************************************)
\* The tables as a step hands them on, and which object names which links.
LinkTables == [up : [LinkSpaces -> LinkSpaces \cup {NoName}], count : [LinkSpaces -> Nat], ok : BOOLEAN, bad : BOOLEAN]
Webs == [LinkedObjects -> SUBSET (LinkSpaces \X LinkSpaces)]
UsersOf(W, s) == {o \in LinkedObjects : \E p \in LinkSpaces : <<p, s>> \in W[o]}
\* An object gains links.
Gains(W, o, l) == [W EXCEPT ![o] = @ \cup l]
\* The tables count exactly the links of W.
Counts(st, W) ==
    \A s \in LinkSpaces :
        /\ st.count[s] = Cardinality(UsersOf(W, s))
        /\ (st.up[s] # NoName) <=> (UsersOf(W, s) # {})
        /\ \A o \in LinkedObjects, p \in LinkSpaces : <<p, s>> \in W[o] => st.up[s] = p
Holds(st, W) == st \in LinkTables /\ W \in Webs /\ Counts(st, W)

\* Whatever links there are, a namespace has fewer users than a count can tell.
LEMMA UsersCounted ==
    ASSUME NEW W, NEW s
    PROVE  /\ IsFiniteSet(UsersOf(W, s)) /\ Cardinality(UsersOf(W, s)) \in Nat
           /\ Cardinality(UsersOf(W, s)) < CountModulus
<1>1. UsersOf(W, s) \subseteq LinkedObjects BY DEF UsersOf
<1>2. IsFiniteSet(UsersOf(W, s)) /\ Cardinality(UsersOf(W, s)) <= Cardinality(LinkedObjects)
  BY <1>1, LinksAssumption, FS_Subset
<1>3. Cardinality(UsersOf(W, s)) \in Nat /\ Cardinality(LinkedObjects) \in Nat
  BY <1>2, LinksAssumption, FS_CardinalityType
<1> QED BY <1>2, <1>3, LinksAssumption

\* A count that stays below the modulus goes up and down by one.
LEMMA CountSteps ==
    ASSUME NEW n \in Nat
    PROVE  /\ n + 1 < CountModulus => (n + 1) % CountModulus = n + 1
           /\ n > 0 /\ n < CountModulus => (n + CountModulus - 1) % CountModulus = n - 1
<1> USE LinksAssumption
<1>1. ASSUME n + 1 < CountModulus PROVE (n + 1) % CountModulus = n + 1
  BY <1>1
<1>2. ASSUME n > 0, n < CountModulus PROVE (n + CountModulus - 1) % CountModulus = n - 1
  <2> DEFINE q == n - 1
  <2>1. q \in 0 .. CountModulus - 1 /\ n + CountModulus - 1 = q + CountModulus
    BY <1>2
  <2> HIDE DEF q
  <2>2. (q + CountModulus) % CountModulus = q
    BY <2>1
  <2> QED BY <2>1, <2>2 DEF q
<1> QED BY <1>1, <1>2

\* Tables put together from their parts.
LEMMA TablesTyped ==
    ASSUME NEW u \in [LinkSpaces -> LinkSpaces \cup {NoName}], NEW n \in [LinkSpaces -> Nat],
           NEW k \in BOOLEAN, NEW b \in BOOLEAN
    PROVE  [up |-> u, count |-> n, ok |-> k, bad |-> b] \in LinkTables
BY DEF LinkTables

\* An object that had no link of a namespace links it: classLinked keeps count.
LEMMA LinkCounted ==
    ASSUME NEW st, NEW W, Holds(st, W), NEW o \in LinkedObjects,
           NEW p \in LinkSpaces, NEW c \in LinkSpaces, Fits(st, p, c),
           \A q \in LinkSpaces : <<q, c>> \notin W[o]
    PROVE  /\ Holds(classLinked(st, p, c), [W EXCEPT ![o] = @ \cup {<<p, c>>}])
           /\ classLinked(st, p, c).ok /\ classLinked(st, p, c).bad = st.bad
<1> DEFINE V == [W EXCEPT ![o] = @ \cup {<<p, c>>}]
           r == classLinked(st, p, c)
           k == Cardinality(UsersOf(W, c))
<1>1. /\ st.up \in [LinkSpaces -> LinkSpaces \cup {NoName}] /\ st.count \in [LinkSpaces -> Nat]
      /\ st.bad \in BOOLEAN
  BY Zenon DEF Holds, LinkTables
<1>2. W \in Webs /\ Counts(st, W) BY DEF Holds
<1>3. V \in Webs
  <2>1. W[o] \cup {<<p, c>>} \in SUBSET (LinkSpaces \X LinkSpaces) BY <1>2 DEF Webs
  <2> QED BY <1>2, <2>1 DEF Webs
<1>4. \A x \in LinkedObjects : V[x] = IF x = o THEN W[o] \cup {<<p, c>>} ELSE W[x]
  BY <1>2 DEF Webs
<1> HIDE DEF V
<1>5. UsersOf(V, c) = UsersOf(W, c) \cup {o} /\ o \notin UsersOf(W, c)
  BY <1>4 DEF UsersOf
<1>6. \A s \in LinkSpaces : s # c => UsersOf(V, s) = UsersOf(W, s)
  BY <1>4 DEF UsersOf
<1>7. Cardinality(UsersOf(V, c)) = k + 1 /\ k + 1 < CountModulus /\ k \in Nat
  <2>1. IsFiniteSet(UsersOf(W, c)) /\ k \in Nat BY UsersCounted
  <2>2. Cardinality(UsersOf(W, c) \cup {o}) = k + 1
    BY <1>5, <2>1, FS_AddElement
  <2>3. Cardinality(UsersOf(V, c)) < CountModulus BY UsersCounted
  <2> QED BY <1>5, <2>1, <2>2, <2>3
<1>8. st.count[c] = k BY <1>2 DEF Counts
<1>9. (st.count[c] + 1) % CountModulus = k + 1 BY <1>7, <1>8, CountSteps
<1>10. r = [up |-> [st.up EXCEPT ![c] = p], count |-> [st.count EXCEPT ![c] = k + 1], ok |-> TRUE, bad |-> st.bad]
  BY <1>9 DEF classLinked
<1>11. r.up = [st.up EXCEPT ![c] = p] /\ r.count = [st.count EXCEPT ![c] = k + 1] /\ r.ok /\ r.bad = st.bad
  BY <1>10
<1>12. r \in LinkTables
  <2>1. [st.up EXCEPT ![c] = p] \in [LinkSpaces -> LinkSpaces \cup {NoName}] BY <1>1
  <2>2. [st.count EXCEPT ![c] = k + 1] \in [LinkSpaces -> Nat] BY <1>1, <1>7
  <2>3. TRUE \in BOOLEAN OBVIOUS
  <2>4. [up |-> [st.up EXCEPT ![c] = p], count |-> [st.count EXCEPT ![c] = k + 1], ok |-> TRUE, bad |-> st.bad] \in LinkTables
    BY <1>1, <2>1, <2>2, <2>3, TablesTyped, Zenon
  <2> QED BY <1>10, <2>4
<1> HIDE DEF r, k
<1>13. Counts(r, V)
  <2> SUFFICES ASSUME NEW s \in LinkSpaces
               PROVE  /\ r.count[s] = Cardinality(UsersOf(V, s))
                      /\ (r.up[s] # NoName) <=> (UsersOf(V, s) # {})
                      /\ \A x \in LinkedObjects, q \in LinkSpaces : <<q, s>> \in V[x] => r.up[s] = q
    BY DEF Counts
  <2>1. CASE s = c
    <3>1. r.count[s] = k + 1 /\ r.up[s] = p BY <1>1, <1>11, <2>1
    <3>2. p # NoName BY LinksAssumption
    <3>3. UsersOf(V, s) # {} BY <1>5, <2>1
    <3>4. ASSUME NEW x \in LinkedObjects, NEW q \in LinkSpaces, <<q, s>> \in V[x] PROVE q = p
      <4>1. CASE <<q, c>> \in W[x]
        <5>1. st.up[c] = q BY <1>2, <4>1 DEF Counts
        <5>2. q # NoName BY LinksAssumption
        <5> QED BY <5>1, <5>2 DEF Fits
      <4>2. CASE x = o /\ <<q, c>> \in {<<p, c>>} BY <4>2
      <4> QED BY <1>4, <2>1, <3>4, <4>1, <4>2
    <3> QED BY <1>7, <2>1, <3>1, <3>2, <3>3, <3>4
  <2>2. CASE s # c
    <3>1. r.count[s] = st.count[s] /\ r.up[s] = st.up[s] BY <1>1, <1>11, <2>2
    <3>2. \A x \in LinkedObjects, q \in LinkSpaces : <<q, s>> \in V[x] <=> <<q, s>> \in W[x] BY <1>4, <2>2
    <3> QED BY <1>2, <1>6, <2>2, <3>1, <3>2 DEF Counts
  <2> QED BY <2>1, <2>2
<1> QED BY <1>3, <1>11, <1>12, <1>13 DEF Holds, V, r

\* An object takes back a link that it has: classUnlinked keeps count.
LEMMA UnlinkCounted ==
    ASSUME NEW st, NEW W, Holds(st, W), NEW o \in LinkedObjects,
           NEW p \in LinkSpaces, NEW c \in LinkSpaces, <<p, c>> \in W[o]
    PROVE  /\ Holds(classUnlinked(st, p, c), [W EXCEPT ![o] = @ \ {<<p, c>>}])
           /\ classUnlinked(st, p, c).ok /\ classUnlinked(st, p, c).bad = st.bad
<1> DEFINE V == [W EXCEPT ![o] = @ \ {<<p, c>>}]
           r == classUnlinked(st, p, c)
           k == Cardinality(UsersOf(W, c))
           left == (st.count[c] + CountModulus - 1) % CountModulus
<1>1. /\ st.up \in [LinkSpaces -> LinkSpaces \cup {NoName}] /\ st.count \in [LinkSpaces -> Nat]
      /\ st.bad \in BOOLEAN
  BY Zenon DEF Holds, LinkTables
<1>2. W \in Webs /\ Counts(st, W) BY DEF Holds
<1>3. V \in Webs
  <2>1. W[o] \ {<<p, c>>} \in SUBSET (LinkSpaces \X LinkSpaces) BY <1>2 DEF Webs
  <2> QED BY <1>2, <2>1 DEF Webs
<1>4. \A x \in LinkedObjects : V[x] = IF x = o THEN W[o] \ {<<p, c>>} ELSE W[x]
  BY <1>2 DEF Webs
<1> HIDE DEF V
<1>5. st.up[c] = p /\ p # NoName BY <1>2, LinksAssumption DEF Counts
<1>6. \A q \in LinkSpaces : <<q, c>> \in W[o] => q = p BY <1>2, <1>5 DEF Counts
<1>7. UsersOf(V, c) = UsersOf(W, c) \ {o} /\ o \in UsersOf(W, c)
  BY <1>4, <1>6 DEF UsersOf
<1>8. \A s \in LinkSpaces : s # c => UsersOf(V, s) = UsersOf(W, s)
  BY <1>4 DEF UsersOf
<1>9. k \in Nat /\ k > 0 /\ k < CountModulus /\ Cardinality(UsersOf(V, c)) = k - 1
  <2>1. IsFiniteSet(UsersOf(W, c)) /\ k \in Nat /\ k < CountModulus BY UsersCounted
  <2>2. Cardinality(UsersOf(W, c) \ {o}) = k - 1 BY <1>7, <2>1, FS_RemoveElement
  <2>3. k # 0 BY <1>7, <2>1, FS_EmptySet
  <2> QED BY <1>7, <2>1, <2>2, <2>3
<1>10. (UsersOf(V, c) = {}) <=> (k - 1 = 0)
  <2>1. IsFiniteSet(UsersOf(V, c)) BY UsersCounted
  <2> QED BY <1>9, <2>1, FS_EmptySet
<1>11. st.count[c] = k BY <1>2 DEF Counts
<1>12. left = k - 1 BY <1>9, <1>11, CountSteps
<1> HIDE DEF left
<1>13. r = [up |-> [st.up EXCEPT ![c] = IF left = 0 THEN NoName ELSE @], count |-> [st.count EXCEPT ![c] = left], ok |-> TRUE, bad |-> st.bad]
  BY <1>5 DEF classUnlinked, Fits, left
<1>14. r.up = [st.up EXCEPT ![c] = IF left = 0 THEN NoName ELSE @] /\ r.count = [st.count EXCEPT ![c] = left] /\ r.ok /\ r.bad = st.bad
  BY <1>13
<1>15. r \in LinkTables
  <2>1. [st.up EXCEPT ![c] = IF left = 0 THEN NoName ELSE @] \in [LinkSpaces -> LinkSpaces \cup {NoName}] BY <1>1
  <2>2. left \in Nat BY <1>9, <1>12
  <2>3. [st.count EXCEPT ![c] = left] \in [LinkSpaces -> Nat] BY <1>1, <2>2
  <2>4. TRUE \in BOOLEAN OBVIOUS
  <2>5. [up |-> [st.up EXCEPT ![c] = IF left = 0 THEN NoName ELSE @], count |-> [st.count EXCEPT ![c] = left], ok |-> TRUE, bad |-> st.bad] \in LinkTables
    BY <1>1, <2>1, <2>3, <2>4, TablesTyped, Zenon
  <2> QED BY <1>13, <2>5
<1> HIDE DEF r, k
<1>16. Counts(r, V)
  <2> SUFFICES ASSUME NEW s \in LinkSpaces
               PROVE  /\ r.count[s] = Cardinality(UsersOf(V, s))
                      /\ (r.up[s] # NoName) <=> (UsersOf(V, s) # {})
                      /\ \A x \in LinkedObjects, q \in LinkSpaces : <<q, s>> \in V[x] => r.up[s] = q
    BY DEF Counts
  <2>1. CASE s = c
    <3>1. r.count[s] = k - 1 /\ r.up[s] = IF k - 1 = 0 THEN NoName ELSE p BY <1>1, <1>5, <1>12, <1>14, <2>1
    <3>2. ASSUME NEW x \in LinkedObjects, NEW q \in LinkSpaces, <<q, s>> \in V[x] PROVE r.up[s] = q
      <4>1. <<q, c>> \in W[x] BY <1>4, <2>1, <3>2
      <4>2. q = p BY <1>2, <1>5, <4>1 DEF Counts
      <4>3. UsersOf(V, c) # {} BY <2>1, <3>2 DEF UsersOf
      <4> QED BY <1>10, <3>1, <4>2, <4>3
    <3> QED BY <1>5, <1>9, <1>10, <2>1, <3>1, <3>2
  <2>2. CASE s # c
    <3>1. r.count[s] = st.count[s] /\ r.up[s] = st.up[s] BY <1>1, <1>14, <2>2
    <3>2. \A x \in LinkedObjects, q \in LinkSpaces : <<q, s>> \in V[x] <=> <<q, s>> \in W[x] BY <1>4, <2>2
    <3> QED BY <1>2, <1>8, <2>2, <3>1, <3>2 DEF Counts
  <2> QED BY <2>1, <2>2
<1> QED BY <1>3, <1>14, <1>15, <1>16 DEF Holds, V, r

-----------------------------------------------------------------------------
(***************************************************************************)
(* A whole chain.                                                          *)
(***************************************************************************)
\* What an object may be: added or not, its names, and its namespace.
LinkedStates ==
    [added : BOOLEAN, scripted : BOOLEAN, cls : ClassNames \cup {NoName}, sup : SuperNames \cup {NoName},
     name : ObjectNames \cup {NoName}, ns : LinkSpaces \cup {NoName}]

\* What no link of a chain refused no level of it refused.
LEMMA LevelAccepted ==
    ASSUME NEW at, NEW name, Level(at, name).st.bad # TRUE
    PROVE  at.st.bad # TRUE /\ (name # NoName => Fits(at.st, at.parent, name))
<1>1. CASE name = NoName BY <1>1 DEF Level
<1> DEFINE r == classLinked(at.st, at.parent, name)
<1>2. CASE name # NoName /\ Fits(at.st, at.parent, name)
  <2>1. r.bad = at.st.bad BY <1>2 DEF classLinked
  <2>2. Level(at, name).st = r BY <1>2 DEF Level
  <2> HIDE DEF r
  <2> QED BY <1>2, <2>1, <2>2
<1>3. CASE name # NoName /\ ~Fits(at.st, at.parent, name)
  <2>1. r.bad = TRUE BY <1>3 DEF classLinked
  <2>2. Level(at, name).st = r BY <1>3 DEF Level
  <2> HIDE DEF r
  <2> QED BY <2>1, <2>2
<1> QED BY <1>1, <1>2, <1>3

\* A level that links the name it has to the parent that the level above left.
LevelLinked(at, name, W, o) ==
    /\ Holds(Level(at, name).st, Gains(W, o, LinkOf(at.parent, name)))
    /\ Level(at, name).parent = Over(at.parent, name) /\ Over(at.parent, name) \in LinkSpaces
    /\ Level(at, name).kept = name
LEMMA LevelLinks ==
    ASSUME NEW at, NEW W, Holds(at.st, W), NEW o \in LinkedObjects, at.parent \in LinkSpaces,
           NEW name \in LinkSpaces \cup {NoName}, Level(at, name).st.bad # TRUE,
           \A q \in LinkSpaces : <<q, name>> \notin W[o]
    PROVE  LevelLinked(at, name, W, o)
<1>1. CASE name = NoName
  <2>1. W \in Webs BY DEF Holds
  <2>2. LinkOf(at.parent, name) = {} /\ W[o] \cup {} = W[o] BY <1>1 DEF LinkOf
  <2>3. Gains(W, o, LinkOf(at.parent, name)) = [W EXCEPT ![o] = W[o]] BY <2>2 DEF Gains
  <2>4. [W EXCEPT ![o] = W[o]] = W BY <2>1 DEF Webs
  <2>5. Gains(W, o, LinkOf(at.parent, name)) = W BY <2>3, <2>4
  <2> QED BY <1>1, <2>5 DEF LevelLinked, Level, Over
<1>2. CASE name # NoName
  <2>1. Fits(at.st, at.parent, name) BY <1>2, LevelAccepted
  <2>2. /\ Holds(classLinked(at.st, at.parent, name), [W EXCEPT ![o] = @ \cup {<<at.parent, name>>}])
        /\ classLinked(at.st, at.parent, name).ok
    BY <1>2, <2>1, LinkCounted
  <2> QED BY <1>2, <2>2 DEF LevelLinked, Gains, Level, Over, LinkOf
<1> QED BY <1>1, <1>2

\* What linking an object leaves: its links, and its own namespace.
Chained(st, W, o, x) ==
    /\ Holds(Linked(st, x).st, [W EXCEPT ![o] = Pairs(x)])
    /\ \E n \in LinkSpaces : Linked(st, x).x = [x EXCEPT !.ns = n]

\* Linking an object that has no links gives it those of its chain, unless
\* one is refused.
LEMMA Linking ==
    ASSUME NEW st, NEW W, Holds(st, W), NEW o \in LinkedObjects, W[o] = {},
           NEW x \in LinkedStates, Linked(st, x).st.bad # TRUE
    PROVE  Chained(st, W, o, x)
<1> DEFINE base == BaseOf(x)
           sup == SupOf(x)
           cls == ClsOf(x)
           name == x.name
           at0 == [st |-> st, parent |-> base, kept |-> NoName]
           at1 == Level(at0, sup)
           at2 == Level(at1, cls)
           at3 == Level(at2, name)
           s1 == Over(base, sup)
           s2 == Over(s1, cls)
           W1 == Gains(W, o, LinkOf(base, sup))
           W2 == Gains(W1, o, LinkOf(s1, cls))
           W3 == Gains(W2, o, LinkOf(s2, name))
<1>1. /\ base \in {NativeClass, ScriptClass}
      /\ sup \in GivenNames \cup {NoName} /\ cls \in GivenNames \cup {NoName} /\ name \in GivenNames \cup {NoName}
  BY DEF BaseOf, SupOf, ClsOf, LinkedStates, GivenNames
<1>2. base \in LinkSpaces /\ base \notin GivenNames /\ base # NoName /\ GivenNames \subseteq LinkSpaces /\ NoName \notin LinkSpaces
  BY <1>1, LinksAssumption DEF LinkSpaces
<1>3. /\ Linked(st, x).st = at3.st
      /\ Linked(st, x).x = [x EXCEPT !.sup = IF x.scripted THEN @ ELSE at1.kept, !.cls = IF x.scripted THEN @ ELSE at2.kept, !.ns = at3.parent]
  BY DEF Linked
<1>4. at0.st = st /\ at0.parent = base OBVIOUS
<1> HIDE DEF base, sup, cls, name, at0
<1> HIDE DEF at1, at2, at3
<1>5. at2.st.bad # TRUE BY <1>3, LevelAccepted DEF at3
<1>6. at1.st.bad # TRUE BY <1>5, LevelAccepted DEF at2
<1>8. W \in Webs BY DEF Holds
<1>9. W1[o] = LinkOf(base, sup) BY <1>8 DEF Gains, Webs
<1>10. Holds(at1.st, W1) /\ at1.parent = s1 /\ s1 \in LinkSpaces /\ at1.kept = sup
  <2>1. Holds(at0.st, W) /\ at0.parent \in LinkSpaces BY <1>2, <1>4
  <2>2. sup \in LinkSpaces \cup {NoName} BY <1>1, <1>2
  <2>3. \A q \in LinkSpaces : <<q, sup>> \notin W[o] OBVIOUS
  <2>4. Level(at0, sup).st.bad # TRUE BY <1>6 DEF at1
  <2>5. LevelLinked(at0, sup, W, o) BY <2>1, <2>2, <2>3, <2>4, LevelLinks
  <2> QED BY <1>4, <2>5 DEF LevelLinked, at1
<1>11. W1 \in Webs /\ Counts(at1.st, W1) BY <1>10 DEF Holds
<1> HIDE DEF W1
<1>12. W2[o] = LinkOf(base, sup) \cup LinkOf(s1, cls) BY <1>9, <1>11 DEF Gains, Webs
<1>13. \A q \in LinkSpaces : <<q, cls>> \notin W1[o]
  <2> SUFFICES ASSUME NEW q \in LinkSpaces, <<q, cls>> \in W1[o] PROVE FALSE
    OBVIOUS
  <2>1. sup # NoName /\ cls = sup /\ q = base BY <1>9 DEF LinkOf
  <2>2. at1.st.up[cls] = base BY <1>1, <1>2, <1>11, <2>1 DEF Counts
  <2>3. Fits(at1.st, s1, cls) BY <1>5, <1>10, <1>2, <2>1, LevelAccepted DEF at2
  <2>4. base = sup BY <1>2, <2>1, <2>2, <2>3 DEF Fits, Over
  <2> QED BY <1>1, <1>2, <2>1, <2>4
<1>14. Holds(at2.st, W2) /\ at2.parent = s2 /\ s2 \in LinkSpaces /\ at2.kept = cls
  <2>1. Holds(at1.st, W1) /\ at1.parent \in LinkSpaces BY <1>10
  <2>2. cls \in LinkSpaces \cup {NoName} BY <1>1, <1>2
  <2>3. \A q \in LinkSpaces : <<q, cls>> \notin W1[o] BY <1>13
  <2>4. Level(at1, cls).st.bad # TRUE BY <1>5 DEF at2
  <2>5. LevelLinked(at1, cls, W1, o) BY <2>1, <2>2, <2>3, <2>4, LevelLinks
  <2> QED BY <1>10, <2>5 DEF LevelLinked, at2
<1>15. W2 \in Webs /\ Counts(at2.st, W2) BY <1>14 DEF Holds
<1> HIDE DEF W2
<1>16. W3[o] = Pairs(x)
  BY <1>12, <1>15 DEF Gains, Webs, Pairs, base, sup, cls, name
<1>17. \A q \in LinkSpaces : <<q, name>> \notin W2[o]
  <2> SUFFICES ASSUME NEW q \in LinkSpaces, <<q, name>> \in W2[o] PROVE FALSE
    OBVIOUS
  <2>1. \/ sup # NoName /\ name = sup /\ q = base
        \/ cls # NoName /\ name = cls /\ q = s1
    BY <1>12 DEF LinkOf
  <2>2. name # NoName /\ q # NoName BY <1>2, <2>1
  <2>3. at2.st.up[name] = q BY <1>1, <1>2, <1>15, <2>2 DEF Counts
  <2>4. Fits(at2.st, s2, name)
    <3>1. Level(at2, name).st.bad # TRUE BY <1>3 DEF at3
    <3>2. Fits(at2.st, at2.parent, name) BY <2>2, <3>1, LevelAccepted
    <3> QED BY <1>14, <3>2
  <2>5. q = s2 BY <2>2, <2>3, <2>4 DEF Fits
  <2>6. CASE sup # NoName /\ name = sup /\ q = base
    <3>1. base = sup \/ base = cls BY <2>5, <2>6 DEF Over
    <3> QED BY <1>1, <1>2, <2>6, <3>1
  <2>7. CASE cls # NoName /\ name = cls /\ q = s1
    <3>1. s1 = cls BY <2>5, <2>7 DEF Over
    <3>2. sup # NoName /\ sup = cls BY <1>1, <1>2, <2>7, <3>1 DEF Over
    <3>3. <<base, sup>> \in W2[o] BY <1>12, <3>2 DEF LinkOf
    <3>4. at2.st.up[sup] = base BY <1>1, <1>2, <1>15, <3>2, <3>3 DEF Counts
    <3>5. base = sup BY <2>3, <2>7, <3>1, <3>2, <3>4
    <3> QED BY <1>1, <1>2, <3>2, <3>5
  <2> QED BY <2>1, <2>6, <2>7
<1>18. Holds(at3.st, W3) /\ at3.parent \in LinkSpaces
  <2>1. Holds(at2.st, W2) /\ at2.parent \in LinkSpaces BY <1>14
  <2>2. name \in LinkSpaces \cup {NoName} BY <1>1, <1>2
  <2>3. \A q \in LinkSpaces : <<q, name>> \notin W2[o] BY <1>17
  <2>4. Level(at2, name).st.bad # TRUE BY <1>3 DEF at3
  <2>5. LevelLinked(at2, name, W2, o) BY <2>1, <2>2, <2>3, <2>4, LevelLinks
  <2> QED BY <1>14, <2>5 DEF LevelLinked, at3
<1>19. W3 = [W EXCEPT ![o] = Pairs(x)]
  <2>1. W3 \in Webs BY <1>18 DEF Holds
  <2>2. \A p \in LinkedObjects : p # o => W3[p] = W[p]
    BY <1>8, <1>11, <1>15 DEF Gains, Webs, W1, W2
  <2> HIDE DEF W3
  <2> QED BY <1>8, <1>16, <2>1, <2>2 DEF Webs
<1>20. Linked(st, x).x = [x EXCEPT !.ns = at3.parent]
  <2>1. x.scripted \/ (at1.kept = x.sup /\ at2.kept = x.cls)
    BY <1>10, <1>14 DEF sup, cls, SupOf, ClsOf
  <2> QED BY <1>3, <2>1 DEF LinkedStates
<1> QED BY <1>3, <1>18, <1>19, <1>20 DEF Chained

\* Taking back a link at a time: the web loses it.
Loses(W, o, l) == [W EXCEPT ![o] = @ \ l]
LostBy(p, c) == IF p = NoName THEN {} ELSE {<<p, c>>}
Dropped(at, p, W, o) ==
    /\ Holds(Drop(at, p).st, Loses(W, o, LostBy(p, at.child)))
    /\ Drop(at, p).child = Over(at.child, p) /\ Drop(at, p).st.bad = at.st.bad

LEMMA Losing ==
    ASSUME NEW W \in Webs, NEW o \in LinkedObjects, NEW l
    PROVE  /\ Loses(W, o, l)[o] = W[o] \ l
           /\ \A m : Loses(Loses(W, o, l), o, m) = Loses(W, o, l \cup m)
           /\ W[o] \subseteq l => Loses(W, o, l) = [W EXCEPT ![o] = {}]
<1>1. Loses(W, o, l)[o] = W[o] \ l BY DEF Loses, Webs
<1>2. ASSUME NEW m PROVE Loses(Loses(W, o, l), o, m) = Loses(W, o, l \cup m)
  <2>1. (W[o] \ l) \ m = W[o] \ (l \cup m) OBVIOUS
  <2> QED BY <2>1 DEF Loses, Webs
<1>3. ASSUME W[o] \subseteq l PROVE Loses(W, o, l) = [W EXCEPT ![o] = {}]
  <2>1. W[o] \ l = {} BY <1>3
  <2> QED BY <2>1 DEF Loses
<1> QED BY <1>1, <1>2, <1>3

LEMMA DropCounted ==
    ASSUME NEW at, NEW W, Holds(at.st, W), NEW o \in LinkedObjects, at.child \in LinkSpaces,
           NEW p \in LinkSpaces \cup {NoName}, p # NoName => <<p, at.child>> \in W[o]
    PROVE  Dropped(at, p, W, o)
<1>1. CASE p = NoName
  <2>1. W \in Webs BY DEF Holds
  <2>2. Loses(W, o, LostBy(p, at.child)) = W BY <1>1, <2>1 DEF Loses, LostBy, Webs
  <2> QED BY <1>1, <2>2 DEF Dropped, Drop, Over
<1>2. CASE p # NoName
  <2>1. /\ Holds(classUnlinked(at.st, p, at.child), [W EXCEPT ![o] = @ \ {<<p, at.child>>}])
        /\ classUnlinked(at.st, p, at.child).ok /\ classUnlinked(at.st, p, at.child).bad = at.st.bad
    BY <1>2, UnlinkCounted
  <2> QED BY <1>2, <2>1 DEF Dropped, Drop, Over, Loses, LostBy
<1> QED BY <1>1, <1>2

\* Three drops in a row, of which the last is of the base.
AllDropped(st, W, o, c, p, q, b) ==
    LET r == Drop(Drop(Drop([st |-> st, child |-> c], p), q), b).st
    IN Holds(r, [W EXCEPT ![o] = {}]) /\ r.bad = st.bad
LEMMA DropsCounted ==
    ASSUME NEW st, NEW W, Holds(st, W), NEW o \in LinkedObjects, NEW c0 \in LinkSpaces,
           NEW p \in LinkSpaces \cup {NoName}, NEW q \in LinkSpaces \cup {NoName}, NEW b \in LinkSpaces,
           NEW c1 \in LinkSpaces, c1 = Over(c0, p), NEW c2 \in LinkSpaces, c2 = Over(c1, q),
           p # NoName => <<p, c0>> \in W[o],
           q # NoName => <<q, c1>> \in W[o] \ LostBy(p, c0),
           <<b, c2>> \in W[o] \ (LostBy(p, c0) \cup LostBy(q, c1)),
           W[o] \subseteq LostBy(p, c0) \cup LostBy(q, c1) \cup {<<b, c2>>}
    PROVE  AllDropped(st, W, o, c0, p, q, b)
<1> DEFINE at0 == [st |-> st, child |-> c0]
           at1 == Drop(at0, p)
           at2 == Drop(at1, q)
           l1 == LostBy(p, c0)
           l2 == LostBy(q, c1)
           W1 == Loses(W, o, l1)
           W2 == Loses(W1, o, l2)
           W3 == Loses(W2, o, {<<b, c2>>})
<1>1. at0.st = st /\ at0.child = c0 OBVIOUS
<1>2. W \in Webs BY DEF Holds
<1>3. b # NoName BY LinksAssumption
<1>4. <<b, c2>> \in W[o] \ (l1 \cup l2) /\ W[o] \subseteq l1 \cup l2 \cup {<<b, c2>>} OBVIOUS
<1>5. (q # NoName => <<q, c1>> \in W[o] \ l1) /\ l1 = LostBy(p, c0) /\ l2 = LostBy(q, c1) OBVIOUS
<1> HIDE DEF at0, l1, l2
<1>6. Dropped(at0, p, W, o) BY <1>1, DropCounted
<1>7. Holds(at1.st, W1) /\ at1.child = c1 /\ at1.st.bad = st.bad
  BY <1>1, <1>5, <1>6 DEF Dropped
<1> HIDE DEF at1
<1>8. W1 \in Webs BY <1>7 DEF Holds
<1>9. W1[o] = W[o] \ l1 BY <1>2, Losing
<1>10. Dropped(at1, q, W1, o) BY <1>5, <1>7, <1>9, DropCounted
<1>11. Holds(at2.st, W2) /\ at2.child = c2 /\ at2.st.bad = st.bad
  BY <1>5, <1>7, <1>10 DEF Dropped
<1> HIDE DEF at2
<1>12. W2 = Loses(W, o, l1 \cup l2) BY <1>2, Losing
<1>13. W2[o] = W[o] \ (l1 \cup l2) BY <1>2, <1>12, Losing
<1>14. Dropped(at2, b, W2, o) BY <1>4, <1>11, <1>13, DropCounted
<1>15. Holds(Drop(at2, b).st, W3) /\ Drop(at2, b).st.bad = st.bad
  BY <1>3, <1>11, <1>14 DEF Dropped, LostBy
<1>16. W3 = Loses(W, o, l1 \cup l2 \cup {<<b, c2>>}) BY <1>2, <1>12, Losing
<1>17. W3 = [W EXCEPT ![o] = {}] BY <1>2, <1>4, <1>16, Losing
<1> QED BY <1>15, <1>17 DEF AllDropped, at2, at1, at0

\* Unlinking takes back every link of an object, and no other.
LEMMA Unlinking ==
    ASSUME NEW st, NEW W, Holds(st, W), NEW o \in LinkedObjects,
           NEW x \in LinkedStates, W[o] = Pairs(x)
    PROVE  Holds(Unlinked(st, x), [W EXCEPT ![o] = {}]) /\ Unlinked(st, x).bad = st.bad
<1> DEFINE base == BaseOf(x)
           sup == SupOf(x)
           cls == ClsOf(x)
           name == x.name
           s1 == Over(base, sup)
           s2 == Over(s1, cls)
<1>1. /\ base \in {NativeClass, ScriptClass}
      /\ sup \in GivenNames \cup {NoName} /\ cls \in GivenNames \cup {NoName} /\ name \in GivenNames \cup {NoName}
      /\ cls # NoName => cls = x.cls /\ base = NativeClass
      /\ sup # NoName => sup = x.sup /\ base = NativeClass
  BY DEF BaseOf, SupOf, ClsOf, LinkedStates, GivenNames
<1>2. base \in LinkSpaces /\ base \notin GivenNames /\ base # NoName /\ GivenNames \subseteq LinkSpaces /\ NoName \notin LinkSpaces
  BY <1>1, LinksAssumption DEF LinkSpaces
<1>3. W[o] = LinkOf(base, sup) \cup LinkOf(s1, cls) \cup LinkOf(s2, name)
  BY DEF Pairs
<1>4. Unlinked(st, x) =
        IF name # NoName THEN Drop(Drop(Drop([st |-> st, child |-> name], cls), sup), base).st
        ELSE IF cls # NoName THEN Drop(Drop([st |-> st, child |-> x.cls], sup), NativeClass).st
        ELSE IF sup # NoName THEN Drop([st |-> st, child |-> x.sup], NativeClass).st ELSE st
  BY DEF Unlinked
<1> HIDE DEF base, sup, cls, name
<1>5. W \in Webs /\ Counts(st, W) BY DEF Holds
<1>6. s1 \in LinkSpaces /\ s2 \in LinkSpaces BY <1>1, <1>2 DEF Over
<1>7. /\ sup # NoName => st.up[sup] = base
      /\ cls # NoName => st.up[cls] = s1
      /\ name # NoName => st.up[name] = s2
  BY <1>1, <1>2, <1>3, <1>5, <1>6 DEF Counts, LinkOf
<1>8. sup # NoName => cls # sup BY <1>1, <1>2, <1>7 DEF Over
<1>9. cls # NoName => name # cls BY <1>1, <1>2, <1>7, <1>8 DEF Over
<1>10. sup # NoName => name # sup BY <1>1, <1>2, <1>7 DEF Over
<1>11. /\ \A r \in LinkSpaces \cup {NoName} : LostBy(NoName, r) = {} /\ Over(r, NoName) = r
       /\ \A c, r : Drop([st |-> st, child |-> c], NoName) = [st |-> st, child |-> c]
  BY DEF LostBy, Over, Drop
<1>12. CASE name # NoName
  <2> DEFINE c1 == Over(name, cls)
             c2 == Over(c1, sup)
  <2>1. c1 \in LinkSpaces /\ c2 \in LinkSpaces /\ name \in LinkSpaces BY <1>1, <1>2, <1>12 DEF Over
  <2>2. cls # NoName => <<cls, name>> \in W[o] BY <1>3, <1>12 DEF LinkOf, Over
  <2>3. sup # NoName => <<sup, c1>> \in W[o] \ LostBy(cls, name) BY <1>1, <1>2, <1>3, <1>9, <1>12 DEF LinkOf, Over, LostBy
  <2>4. <<base, c2>> \in W[o] \ (LostBy(cls, name) \cup LostBy(sup, c1))
    BY <1>1, <1>2, <1>3, <1>8, <1>9, <1>10, <1>12 DEF LinkOf, Over, LostBy
  <2>5. W[o] \subseteq LostBy(cls, name) \cup LostBy(sup, c1) \cup {<<base, c2>>}
    BY <1>3, <1>12 DEF LinkOf, Over, LostBy
  <2> HIDE DEF c1, c2
  <2>6. c1 = Over(name, cls) /\ c2 = Over(c1, sup) BY DEF c1, c2
  <2>7. AllDropped(st, W, o, name, cls, sup, base)
    BY <1>1, <1>2, <2>1, <2>2, <2>3, <2>4, <2>5, <2>6, DropsCounted
  <2> QED BY <1>4, <1>12, <2>7 DEF AllDropped
<1>13. CASE name = NoName /\ cls # NoName
  <2> DEFINE c2 == Over(cls, sup)
  <2>1. cls \in LinkSpaces /\ c2 \in LinkSpaces BY <1>1, <1>2, <1>13 DEF Over
  <2>3. sup # NoName => <<sup, cls>> \in W[o] \ LostBy(NoName, cls) BY <1>3, <1>13 DEF LinkOf, Over, LostBy
  <2>4. <<base, c2>> \in W[o] \ (LostBy(NoName, cls) \cup LostBy(sup, cls))
    BY <1>1, <1>2, <1>3, <1>8, <1>13 DEF LinkOf, Over, LostBy
  <2>5. W[o] \subseteq LostBy(NoName, cls) \cup LostBy(sup, cls) \cup {<<base, c2>>}
    BY <1>3, <1>13 DEF LinkOf, Over, LostBy
  <2> HIDE DEF c2
  <2>6. cls = Over(cls, NoName) /\ c2 = Over(cls, sup) BY DEF c2, Over
  <2>7. AllDropped(st, W, o, cls, NoName, sup, base)
    BY <1>1, <1>2, <2>1, <2>3, <2>4, <2>5, <2>6, DropsCounted
  <2> QED BY <1>1, <1>4, <1>11, <1>13, <2>7 DEF AllDropped
<1>14. CASE name = NoName /\ cls = NoName /\ sup # NoName
  <2>1. sup \in LinkSpaces BY <1>1, <1>2, <1>14
  <2>2. W[o] = {<<base, sup>>} BY <1>3, <1>14 DEF LinkOf, Over
  <2>3. sup = Over(sup, NoName) /\ LostBy(NoName, sup) = {} BY DEF Over, LostBy
  <2>4. AllDropped(st, W, o, sup, NoName, NoName, base)
    BY <1>2, <2>1, <2>2, <2>3, DropsCounted
  <2> QED BY <1>1, <1>4, <1>11, <1>14, <2>4 DEF AllDropped
<1>15. CASE name = NoName /\ cls = NoName /\ sup = NoName
  <2>1. W[o] = {} BY <1>3, <1>15 DEF LinkOf
  <2>2. [W EXCEPT ![o] = {}] = W BY <1>5, <2>1 DEF Webs
  <2> QED BY <1>4, <1>15, <2>2
<1> QED BY <1>12, <1>13, <1>14, <1>15

-----------------------------------------------------------------------------
(***************************************************************************)
(* Links that are looked for under a class or a superclass that was set    *)
(* after them.                                                             *)
(***************************************************************************)
\* A name that is no parent of the child is passed over.
LEMMA DropSkips ==
    ASSUME NEW st \in LinkTables, NEW c \in LinkSpaces, NEW p, NEW q, q # NoName,
           st.up[c] # NoName, st.up[c] # p
    PROVE  Drop(Drop([st |-> st, child |-> c], p), q) = Drop([st |-> st, child |-> c], q)
<1> DEFINE at == [st |-> st, child |-> c]
           s2 == [st EXCEPT !.ok = FALSE]
<1>1. CASE p = NoName BY <1>1 DEF Drop
<1>2. CASE p # NoName
  <2>1. /\ s2 \in LinkTables /\ s2.up = st.up /\ s2.count = st.count /\ s2.bad = st.bad /\ s2.ok = FALSE
        /\ [s2 EXCEPT !.ok = FALSE] = s2
    BY DEF LinkTables
  <2>2. classUnlinked(st, p, c) = s2 BY DEF classUnlinked, Fits
  <2>3. Drop(at, p) = [st |-> s2, child |-> c] BY <1>2, <2>1, <2>2 DEF Drop
  <2>4. classUnlinked(s2, q, c) = classUnlinked(st, q, c)
    BY <2>1 DEF classUnlinked, Fits
  <2> HIDE DEF s2
  <2> QED BY <2>3, <2>4 DEF Drop
<1> QED BY <1>1, <1>2

\* A name that is one goes on from it.
LEMMA DropGoes ==
    ASSUME NEW st \in LinkTables, NEW c \in LinkSpaces, NEW p \in LinkSpaces, NoName \notin LinkSpaces, st.up[c] = p
    PROVE  \E t \in LinkTables : /\ Drop([st |-> st, child |-> c], p) = [st |-> t, child |-> p]
                                 /\ \A s \in LinkSpaces \ {c} : t.up[s] = st.up[s]
<1> DEFINE t == classUnlinked(st, p, c)
<1>1. t.ok /\ t \in LinkTables /\ \A s \in LinkSpaces \ {c} : t.up[s] = st.up[s]
  <2> DEFINE left == (st.count[c] + CountModulus - 1) % CountModulus
  <2>1. t = [up |-> [st.up EXCEPT ![c] = IF left = 0 THEN NoName ELSE @], count |-> [st.count EXCEPT ![c] = left], ok |-> TRUE, bad |-> st.bad]
    BY DEF classUnlinked, Fits
  <2>2. left \in Nat
    <3>1. CountModulus \in Nat /\ CountModulus > 0 BY LinksAssumption, FS_CardinalityType
    <3>2. st.count[c] + CountModulus - 1 \in Nat BY <3>1 DEF LinkTables
    <3> QED BY <3>1, <3>2
  <2> HIDE DEF left, t
  <2>3. [st.up EXCEPT ![c] = IF left = 0 THEN NoName ELSE @] \in [LinkSpaces -> LinkSpaces \cup {NoName}] BY DEF LinkTables
  <2>4. [st.count EXCEPT ![c] = left] \in [LinkSpaces -> Nat] BY <2>2 DEF LinkTables
  <2>5. st.bad \in BOOLEAN BY DEF LinkTables
  <2>6. t \in LinkTables BY <2>1, <2>3, <2>4, <2>5 DEF LinkTables
  <2>7. \A s \in LinkSpaces \ {c} : t.up[s] = st.up[s] BY <2>1 DEF LinkTables
  <2> QED BY <2>1, <2>6, <2>7
<1>2. Drop([st |-> st, child |-> c], p) = [st |-> t, child |-> p]
  <2> HIDE DEF t
  <2>1. p # NoName /\ t = classUnlinked(st, p, c) BY DEF t
  <2> QED BY <1>1, <2>1 DEF Drop
<1> QED BY <1>1, <1>2

\* What the tables say of the links of one object.
LEMMA ParentsOf ==
    ASSUME NEW st, NEW W, Holds(st, W), NEW o \in LinkedObjects,
           NEW x \in LinkedStates, W[o] = Pairs(x), ~x.scripted
    PROVE  /\ x.sup # NoName => x.sup \in LinkSpaces /\ st.up[x.sup] = NativeClass
           /\ x.cls # NoName => x.cls \in LinkSpaces /\ st.up[x.cls] = Over(NativeClass, x.sup)
           /\ x.name # NoName => x.name \in LinkSpaces /\ st.up[x.name] = Over(Over(NativeClass, x.sup), x.cls)
<1>1. /\ x.sup \in GivenNames \cup {NoName} /\ x.cls \in GivenNames \cup {NoName} /\ x.name \in GivenNames \cup {NoName}
      /\ GivenNames \subseteq LinkSpaces /\ NativeClass \in LinkSpaces
  BY DEF LinkedStates, GivenNames, LinkSpaces
<1>2. W[o] = LinkOf(NativeClass, x.sup) \cup LinkOf(Over(NativeClass, x.sup), x.cls) \cup LinkOf(Over(Over(NativeClass, x.sup), x.cls), x.name)
  BY DEF Pairs, BaseOf, SupOf, ClsOf
<1>3. Over(NativeClass, x.sup) \in LinkSpaces /\ Over(Over(NativeClass, x.sup), x.cls) \in LinkSpaces BY <1>1 DEF Over
<1>4. \A s \in LinkSpaces, p \in LinkSpaces : <<p, s>> \in W[o] => st.up[s] = p BY DEF Holds, Counts
<1> QED BY <1>1, <1>2, <1>3, <1>4 DEF LinkOf

\* A class that is set where there was none, under a name, is passed over, or
\* found in the superclass's place.
LEMMA ClassFound ==
    ASSUME NEW st, NEW W, Holds(st, W), NEW o \in LinkedObjects,
           NEW x \in LinkedStates, W[o] = Pairs(x),
           NEW k \in ClassNames \cup {NoName}, FindsClass(x, k)
    PROVE  Unlinked(st, [x EXCEPT !.cls = k]) = Unlinked(st, x)
<1> DEFINE y == [x EXCEPT !.cls = k]
<1>1. /\ y.cls = k /\ y.sup = x.sup /\ y.name = x.name /\ y.scripted = x.scripted /\ y.ns = x.ns
      /\ y.added = x.added
  BY DEF LinkedStates
<1>2. CASE x.scripted BY <1>1, <1>2 DEF Unlinked, ClsOf, SupOf, BaseOf
<1>3. CASE ~x.scripted /\ k = x.cls
  <2>1. y = x BY <1>3 DEF LinkedStates
  <2> QED BY <2>1
<1>4. CASE ~x.scripted /\ k # NoName /\ x.cls = NoName /\ x.name # NoName
  <2> DEFINE a == [st |-> st, child |-> x.name]
  <2>1. st \in LinkTables BY DEF Holds
  <2>2. /\ x.name \in LinkSpaces /\ st.up[x.name] = Over(NativeClass, x.sup)
        /\ x.sup # NoName => x.sup \in LinkSpaces /\ st.up[x.sup] = NativeClass
    BY <1>4, ParentsOf DEF Over
  <2>3. k \in GivenNames /\ k # NativeClass /\ NativeClass # NoName /\ NoName \notin LinkSpaces /\ k \in LinkSpaces
    BY <1>4, LinksAssumption DEF GivenNames, LinkSpaces
  <2>4. /\ Unlinked(st, y) = Drop(Drop(Drop(a, k), x.sup), NativeClass).st
        /\ Unlinked(st, x) = Drop(Drop(a, x.sup), NativeClass).st
    <3>1. Drop(a, NoName) = a BY DEF Drop
    <3> QED BY <1>1, <1>4, <3>1 DEF Unlinked, ClsOf, SupOf, BaseOf
  <2>5. CASE x.sup = NoName
    <3>1. st.up[x.name] = NativeClass BY <2>2, <2>5 DEF Over
    <3>2. Drop(Drop(a, k), NativeClass) = Drop(a, NativeClass) BY <2>1, <2>2, <2>3, <3>1, DropSkips
    <3>3. \A z : Drop(z, NoName) = z BY DEF Drop
    <3> QED BY <2>4, <2>5, <3>2, <3>3
  <2>6. CASE x.sup # NoName /\ k # x.sup
    <3>1. st.up[x.name] = x.sup BY <2>2, <2>6 DEF Over
    <3>2. Drop(Drop(a, k), x.sup) = Drop(a, x.sup) BY <2>1, <2>2, <2>3, <2>6, <3>1, DropSkips
    <3> QED BY <2>4, <3>2
  <2>7. CASE x.sup # NoName /\ k = x.sup
    <3>1. st.up[x.name] = k BY <2>2, <2>7 DEF Over
    <3>2. PICK t \in LinkTables : Drop(a, k) = [st |-> t, child |-> k] /\ \A s \in LinkSpaces \ {x.name} : t.up[s] = st.up[s]
      BY <2>1, <2>2, <2>3, <3>1, DropGoes
    <3>3. k # x.name BY <2>2, <2>3, <2>7, <3>1
    <3>4. t.up[k] = NativeClass BY <2>2, <2>3, <2>7, <3>2, <3>3
    <3>5. Drop(Drop([st |-> t, child |-> k], k), NativeClass) = Drop([st |-> t, child |-> k], NativeClass)
      BY <2>3, <3>4, DropSkips
    <3> QED BY <2>4, <2>7, <3>2, <3>5
  <2> QED BY <2>5, <2>6, <2>7
<1> QED BY <1>2, <1>3, <1>4 DEF FindsClass

\* A superclass that is set where there was none, over a name or a class, is
\* passed over.
LEMMA SuperFound ==
    ASSUME NEW st, NEW W, Holds(st, W), NEW o \in LinkedObjects,
           NEW x \in LinkedStates, W[o] = Pairs(x),
           NEW k \in SuperNames \cup {NoName}, FindsSuper(x, k)
    PROVE  Unlinked(st, [x EXCEPT !.sup = k]) = Unlinked(st, x)
<1> DEFINE y == [x EXCEPT !.sup = k]
<1>1. /\ y.cls = x.cls /\ y.sup = k /\ y.name = x.name /\ y.scripted = x.scripted /\ y.ns = x.ns
      /\ y.added = x.added
  BY DEF LinkedStates
<1>2. CASE x.scripted BY <1>1, <1>2 DEF Unlinked, ClsOf, SupOf, BaseOf
<1>3. CASE ~x.scripted /\ k = x.sup
  <2>1. y = x BY <1>3 DEF LinkedStates
  <2> QED BY <2>1
<1>4. CASE ~x.scripted /\ k # NoName /\ x.sup = NoName /\ (x.name # NoName \/ x.cls # NoName)
  <2>1. st \in LinkTables BY DEF Holds
  <2>2. /\ x.cls # NoName => x.cls \in LinkSpaces /\ st.up[x.cls] = NativeClass
        /\ x.name # NoName => x.name \in LinkSpaces /\ st.up[x.name] = Over(NativeClass, x.cls)
    BY <1>4, ParentsOf DEF Over
  <2>3. k # NativeClass /\ NativeClass # NoName /\ NoName \notin LinkSpaces
    BY <1>4, LinksAssumption DEF GivenNames, LinkSpaces
  <2>4. \A z : Drop(z, NoName) = z BY DEF Drop
  <2>5. CASE x.name # NoName
    <3> DEFINE a == [st |-> st, child |-> x.name]
    <3>1. /\ Unlinked(st, y) = Drop(Drop(Drop(a, x.cls), k), NativeClass).st
          /\ Unlinked(st, x) = Drop(Drop(a, x.cls), NativeClass).st
      BY <1>1, <1>4, <2>4, <2>5 DEF Unlinked, ClsOf, SupOf, BaseOf
    <3>2. CASE x.cls = NoName
      <4>1. st.up[x.name] = NativeClass BY <2>2, <2>5, <3>2 DEF Over
      <4>2. Drop(Drop(a, k), NativeClass) = Drop(a, NativeClass) BY <2>1, <2>2, <2>3, <2>5, <4>1, DropSkips
      <4> QED BY <2>4, <3>1, <3>2, <4>2
    <3>3. CASE x.cls # NoName
      <4>1. st.up[x.name] = x.cls BY <2>2, <2>5, <3>3 DEF Over
      <4>2. PICK t \in LinkTables : Drop(a, x.cls) = [st |-> t, child |-> x.cls] /\ \A s \in LinkSpaces \ {x.name} : t.up[s] = st.up[s]
        BY <2>1, <2>2, <2>3, <2>5, <3>3, <4>1, DropGoes
      <4>3. x.cls # x.name /\ x.cls \in LinkSpaces
        <5>1. x.cls \in GivenNames /\ x.cls # NativeClass BY <3>3, LinksAssumption DEF LinkedStates, GivenNames
        <5> QED BY <2>2, <2>5, <3>3, <4>1, <5>1
      <4>4. t.up[x.cls] = NativeClass BY <2>2, <3>3, <4>2, <4>3
      <4>5. Drop(Drop([st |-> t, child |-> x.cls], k), NativeClass) = Drop([st |-> t, child |-> x.cls], NativeClass)
        BY <2>3, <4>3, <4>4, DropSkips
      <4> QED BY <3>1, <4>2, <4>5
    <3> QED BY <3>2, <3>3
  <2>6. CASE x.name = NoName /\ x.cls # NoName
    <3> DEFINE a == [st |-> st, child |-> x.cls]
    <3>1. /\ Unlinked(st, y) = Drop(Drop(a, k), NativeClass).st
          /\ Unlinked(st, x) = Drop(a, NativeClass).st
      BY <1>1, <1>4, <2>4, <2>6 DEF Unlinked, ClsOf, SupOf, BaseOf
    <3>2. Drop(Drop(a, k), NativeClass) = Drop(a, NativeClass) BY <2>1, <2>2, <2>3, <2>6, DropSkips
    <3> QED BY <3>1, <3>2
  <2> QED BY <1>4, <2>5, <2>6
<1> QED BY <1>2, <1>3, <1>4 DEF FindsSuper

-----------------------------------------------------------------------------
(***************************************************************************)
(* The steps.                                                              *)
(***************************************************************************)
\* The links of the objects that are added, which the tables count until a
\* link is refused or a class set that does not find them.
Web == [o \in LinkedObjects |-> IF linked[o].added THEN Pairs(linked[o]) ELSE {}]
LinksInv ==
    /\ disturbed \in BOOLEAN
    /\ ~disturbed => /\ linked \in [LinkedObjects -> LinkedStates]
                     /\ Holds(Tables, Web)
                     /\ \A o \in LinkedObjects : linked[o].added => linked[o].ns # NoName

LEMMA LinksInitOK == LinksInit => LinksInv
<1> SUFFICES ASSUME LinksInit PROVE LinksInv
  OBVIOUS
<1>1. Unadded \in LinkedStates BY DEF Unadded, LinkedStates
<1>2. linked \in [LinkedObjects -> LinkedStates] BY <1>1 DEF LinksInit
<1>3. \A o \in LinkedObjects : ~linked[o].added BY DEF LinksInit, Unadded
<1>4. Web = [o \in LinkedObjects |-> {}] BY <1>3 DEF Web
<1>5. Tables \in LinkTables
  <2>1. up \in [LinkSpaces -> LinkSpaces \cup {NoName}] /\ count \in [LinkSpaces -> Nat] BY DEF LinksInit
  <2>2. TRUE \in BOOLEAN /\ FALSE \in BOOLEAN OBVIOUS
  <2> QED BY <2>1, <2>2, TablesTyped DEF Tables
<1>6. Web \in Webs BY <1>4 DEF Webs
<1>7. Counts(Tables, Web)
  <2> SUFFICES ASSUME NEW s \in LinkSpaces
               PROVE  /\ Tables.count[s] = Cardinality(UsersOf(Web, s))
                      /\ (Tables.up[s] # NoName) <=> (UsersOf(Web, s) # {})
                      /\ \A o \in LinkedObjects, p \in LinkSpaces : <<p, s>> \in Web[o] => Tables.up[s] = p
    BY DEF Counts
  <2>1. UsersOf(Web, s) = {} BY <1>4 DEF UsersOf
  <2>2. Tables.count[s] = 0 /\ Tables.up[s] = NoName BY DEF Tables, LinksInit
  <2>3. Cardinality(UsersOf(Web, s)) = 0 BY <2>1, FS_EmptySet
  <2> QED BY <1>4, <2>1, <2>2, <2>3
<1>8. disturbed \in BOOLEAN BY DEF LinksInit
<1> QED BY <1>2, <1>3, <1>5, <1>6, <1>7, <1>8 DEF LinksInv, Holds

\* What an operation leaves, if it was not refused.
LEMMA BecameKeeps ==
    ASSUME LinksInv, ~disturbed, NEW o \in LinkedObjects, NEW r, NEW b \in BOOLEAN,
           Became(o, r, b), ~disturbed', r.x \in LinkedStates, r.x.added => r.x.ns # NoName,
           Holds(r.st, [Web EXCEPT ![o] = IF r.x.added THEN Pairs(r.x) ELSE {}])
    PROVE  LinksInv'
<1>1. linked \in [LinkedObjects -> LinkedStates] /\ linked' = [linked EXCEPT ![o] = r.x] /\ up' = r.st.up /\ count' = r.st.count
  BY DEF LinksInv, Became
<1>2. linked' \in [LinkedObjects -> LinkedStates] BY <1>1
<1>3. Web' = [Web EXCEPT ![o] = IF r.x.added THEN Pairs(r.x) ELSE {}]
  BY <1>1 DEF Web
<1>4. \A p \in LinkedObjects : linked'[p].added => linked'[p].ns # NoName
  BY <1>1 DEF LinksInv
<1>5. Tables' \in LinkTables
  <2>1. up' \in [LinkSpaces -> LinkSpaces \cup {NoName}] /\ count' \in [LinkSpaces -> Nat]
    BY <1>1 DEF Holds, LinkTables
  <2>2. TRUE \in BOOLEAN /\ FALSE \in BOOLEAN OBVIOUS
  <2>3. [up |-> up', count |-> count', ok |-> TRUE, bad |-> FALSE] \in LinkTables BY <2>1, <2>2, TablesTyped
  <2> QED BY <2>3 DEF Tables
<1>6. Tables'.up = r.st.up /\ Tables'.count = r.st.count BY <1>1 DEF Tables
<1>7. Holds(Tables', Web') BY <1>3, <1>5, <1>6 DEF Holds, Counts
<1>8. disturbed' \in BOOLEAN BY Zenon DEF Became
<1> QED BY <1>2, <1>4, <1>7, <1>8 DEF LinksInv

\* An object whose links are taken back is linked by the names it has then.
LEMMA LinkedKeeps ==
    ASSUME LinksInv, ~disturbed, NEW o \in LinkedObjects, NEW st, NEW b \in BOOLEAN,
           NEW x \in LinkedStates, x.added, Holds(st, [Web EXCEPT ![o] = {}]),
           Became(o, Linked(st, x), b), ~disturbed'
    PROVE  LinksInv'
<1> DEFINE V == [Web EXCEPT ![o] = {}]
           r == Linked(st, x)
<1>1. Holds(st, V) /\ Web \in Webs BY DEF LinksInv, Holds
<1>2. V[o] = {} BY <1>1 DEF Webs
<1>3. r.st.bad # TRUE BY Zenon DEF Became
<1>4. [V EXCEPT ![o] = Pairs(x)] = [Web EXCEPT ![o] = Pairs(x)] BY <1>1 DEF Webs
<1> HIDE DEF V
<1>5. Holds(r.st, [V EXCEPT ![o] = Pairs(x)]) /\ \E n \in LinkSpaces : r.x = [x EXCEPT !.ns = n]
  <2>1. Chained(st, V, o, x) BY <1>1, <1>2, <1>3, Linking
  <2> QED BY <2>1 DEF Chained
<1>6. PICK n \in LinkSpaces : r.x = [x EXCEPT !.ns = n] BY <1>5
<1>7. r.x \in LinkedStates BY <1>6 DEF LinkedStates
<1>8. /\ r.x.added /\ r.x.ns = n /\ r.x.scripted = x.scripted /\ r.x.sup = x.sup
      /\ r.x.cls = x.cls /\ r.x.name = x.name
  BY <1>6 DEF LinkedStates
<1>9. Pairs(r.x) = Pairs(x) BY <1>8 DEF Pairs, BaseOf, SupOf, ClsOf
<1>10. n # NoName BY LinksAssumption
<1> HIDE DEF r
<1>11. Holds(r.st, [Web EXCEPT ![o] = IF r.x.added THEN Pairs(r.x) ELSE {}]) BY <1>4, <1>5, <1>8, <1>9
<1> QED BY <1>7, <1>8, <1>10, <1>11, BecameKeeps DEF r

\* The links of one object, and what unlinking it leaves.
LEMMA UnlinkedLeaves ==
    ASSUME LinksInv, ~disturbed, NEW o \in LinkedObjects
    PROVE  /\ linked[o] \in LinkedStates
           /\ ~linked[o].added => Holds(Tables, [Web EXCEPT ![o] = {}])
           /\ linked[o].added => /\ Holds(Unlinked(Tables, linked[o]), [Web EXCEPT ![o] = {}])
                                /\ Holds(Tables, Web) /\ Web[o] = Pairs(linked[o])
<1>1. linked[o] \in LinkedStates /\ Holds(Tables, Web) BY DEF LinksInv
<1>2. Web[o] = IF linked[o].added THEN Pairs(linked[o]) ELSE {} BY DEF Web
<1>3. ASSUME ~linked[o].added PROVE Holds(Tables, [Web EXCEPT ![o] = {}])
  <2>1. [Web EXCEPT ![o] = {}] = Web BY <1>1, <1>2, <1>3 DEF Holds, Webs
  <2> QED BY <1>1, <2>1
<1>4. ASSUME linked[o].added
      PROVE  Holds(Unlinked(Tables, linked[o]), [Web EXCEPT ![o] = {}]) /\ Web[o] = Pairs(linked[o])
  <2>1. Web[o] = Pairs(linked[o]) BY <1>2, <1>4
  <2> QED BY <1>1, <2>1, Unlinking
<1> QED BY <1>1, <1>3, <1>4

LEMMA LinksStep == LinksInv /\ [LinksNext]_linkVars => LinksInv'
<1> SUFFICES ASSUME LinksInv, [LinksNext]_linkVars PROVE LinksInv'
  OBVIOUS
<1>1. CASE UNCHANGED linkVars
  <2>1. UNCHANGED <<up, count, linked, disturbed>> BY <1>1 DEF linkVars
  <2>2. Web' = Web /\ Tables' = Tables BY <2>1 DEF Web, Tables
  <2> QED BY <2>1, <2>2 DEF LinksInv
<1>2. ASSUME NEW o \in LinkedObjects, NEW r, NEW b \in BOOLEAN, Became(o, r, b), disturbed \/ disturbed'
      PROVE  LinksInv'
  <2>1. disturbed' BY <1>2, Zenon DEF Became
  <2>2. disturbed' \in BOOLEAN BY <1>2, Zenon DEF Became
  <2> QED BY <2>1, <2>2 DEF LinksInv
<1> DEFINE Calm == ~disturbed /\ ~disturbed'
<1>3. ASSUME NEW o \in LinkedObjects, NEW x \in Fresh, onAdd(o, x) PROVE LinksInv'
  <2> DEFINE y == [x EXCEPT !.added = TRUE]
  <2>1. y \in LinkedStates /\ y.added /\ y.ns = NoName BY DEF Fresh, LinkedStates
  <2> HIDE DEF y
  <2>2. Became(o, Linked(Tables, y), FALSE) /\ ~linked[o].added BY <1>3, <2>1 DEF onAdd, linkNamespaces, y
  <2>3. FALSE \in BOOLEAN OBVIOUS
  <2>4. CASE Calm
    <3>1. Holds(Tables, [Web EXCEPT ![o] = {}]) BY <2>2, <2>4, UnlinkedLeaves
    <3> QED BY <2>1, <2>2, <2>3, <2>4, <3>1, LinkedKeeps
  <2> QED BY <1>2, <2>2, <2>3, <2>4
<1>4. ASSUME NEW o \in LinkedObjects, onRemove(o) PROVE LinksInv'
  <2> DEFINE r == [st |-> Unlinked(Tables, linked[o]), x |-> Unadded]
  <2>1. Became(o, r, FALSE) /\ linked[o].added BY <1>4 DEF onRemove
  <2>2. r.st = Unlinked(Tables, linked[o]) /\ r.x = Unadded OBVIOUS
  <2> HIDE DEF r
  <2>3. FALSE \in BOOLEAN OBVIOUS
  <2>4. Unadded \in LinkedStates /\ ~Unadded.added BY DEF Unadded, LinkedStates
  <2>5. CASE Calm
    <3>1. Holds(Unlinked(Tables, linked[o]), [Web EXCEPT ![o] = {}]) BY <2>1, <2>5, UnlinkedLeaves
    <3>2. Holds(r.st, [Web EXCEPT ![o] = IF r.x.added THEN Pairs(r.x) ELSE {}]) BY <2>2, <2>4, <3>1
    <3> QED BY <2>1, <2>2, <2>3, <2>4, <2>5, <3>2, BecameKeeps
  <2> QED BY <1>2, <2>1, <2>3, <2>5
<1>5. ASSUME NEW o \in LinkedObjects, NEW n \in ObjectNames \cup {NoName}, assignName(o, n) PROVE LinksInv'
  <2> DEFINE y == [linked[o] EXCEPT !.name = n, !.ns = NoName]
  <2>1. Became(o, Linked(Unlinked(Tables, linked[o]), y), FALSE) /\ linked[o].added BY <1>5 DEF assignName
  <2>2. FALSE \in BOOLEAN OBVIOUS
  <2>3. CASE Calm
    <3>1. linked[o] \in LinkedStates BY <2>3, UnlinkedLeaves
    <3>2. y \in LinkedStates /\ y.added BY <2>1, <3>1 DEF LinkedStates
    <3> HIDE DEF y
    <3>3. Holds(Unlinked(Tables, linked[o]), [Web EXCEPT ![o] = {}]) BY <2>1, <2>3, UnlinkedLeaves
    <3> QED BY <2>1, <2>2, <2>3, <3>2, <3>3, LinkedKeeps
  <2> QED BY <1>2, <2>1, <2>2, <2>3
<1>6. ASSUME NEW o \in LinkedObjects, NEW n \in ClassNames \cup {NoName}, setClassNamespace(o, n) PROVE LinksInv'
  <2> DEFINE y == [linked[o] EXCEPT !.cls = n]
             b == ~FindsClass(linked[o], n)
  <2>1. Became(o, linkNamespaces(Tables, y), b) /\ linked[o].added BY <1>6 DEF setClassNamespace
  <2>2. b \in BOOLEAN OBVIOUS
  <2>3. CASE Calm
    <3>1. linked[o] \in LinkedStates /\ linked[o].ns # NoName BY <2>1, <2>3, UnlinkedLeaves DEF LinksInv
    <3>2. y \in LinkedStates /\ y.added /\ y.ns # NoName BY <2>1, <3>1 DEF LinkedStates
    <3>3. ~b BY <2>1, <2>3, Zenon DEF Became
    <3>4. Unlinked(Tables, y) = Unlinked(Tables, linked[o])
      <4>1. Holds(Tables, Web) /\ Web[o] = Pairs(linked[o]) BY <2>1, <2>3, UnlinkedLeaves
      <4>2. FindsClass(linked[o], n) BY <3>3
      <4> QED BY <3>1, <4>1, <4>2, ClassFound
    <3> HIDE DEF y, b
    <3>5. Holds(Unlinked(Tables, y), [Web EXCEPT ![o] = {}]) BY <2>1, <2>3, <3>4, UnlinkedLeaves
    <3>6. Became(o, Linked(Unlinked(Tables, y), y), b) BY <2>1, <3>2 DEF linkNamespaces
    <3> QED BY <2>2, <2>3, <3>2, <3>5, <3>6, LinkedKeeps
  <2> HIDE DEF b
  <2> QED BY <1>2, <2>1, <2>2, <2>3
<1>7. ASSUME NEW o \in LinkedObjects, NEW n \in SuperNames \cup {NoName}, setSuperClassNamespace(o, n) PROVE LinksInv'
  <2> DEFINE y == [linked[o] EXCEPT !.sup = n]
             b == ~FindsSuper(linked[o], n)
  <2>1. Became(o, linkNamespaces(Tables, y), b) /\ linked[o].added BY <1>7 DEF setSuperClassNamespace
  <2>2. b \in BOOLEAN OBVIOUS
  <2>3. CASE Calm
    <3>1. linked[o] \in LinkedStates /\ linked[o].ns # NoName BY <2>1, <2>3, UnlinkedLeaves DEF LinksInv
    <3>2. y \in LinkedStates /\ y.added /\ y.ns # NoName BY <2>1, <3>1 DEF LinkedStates
    <3>3. ~b BY <2>1, <2>3, Zenon DEF Became
    <3>4. Unlinked(Tables, y) = Unlinked(Tables, linked[o])
      <4>1. Holds(Tables, Web) /\ Web[o] = Pairs(linked[o]) BY <2>1, <2>3, UnlinkedLeaves
      <4>2. FindsSuper(linked[o], n) BY <3>3
      <4> QED BY <3>1, <4>1, <4>2, SuperFound
    <3> HIDE DEF y, b
    <3>5. Holds(Unlinked(Tables, y), [Web EXCEPT ![o] = {}]) BY <2>1, <2>3, <3>4, UnlinkedLeaves
    <3>6. Became(o, Linked(Unlinked(Tables, y), y), b) BY <2>1, <3>2 DEF linkNamespaces
    <3> QED BY <2>2, <2>3, <3>2, <3>5, <3>6, LinkedKeeps
  <2> HIDE DEF b
  <2> QED BY <1>2, <2>1, <2>2, <2>3
<1>8. ASSUME NEW o \in LinkedObjects, NEW p \in LinkedObjects, clone_(o, p) PROVE LinksInv'
  <2> DEFINE y == [Unadded EXCEPT !.added = TRUE, !.scripted = linked[o].scripted, !.cls = linked[o].cls, !.sup = linked[o].sup]
  <2>1. Became(p, Linked(Tables, y), FALSE) /\ ~linked[p].added BY <1>8 DEF clone_
  <2>2. FALSE \in BOOLEAN OBVIOUS
  <2>3. CASE Calm
    <3>1. linked[o] \in LinkedStates BY <2>3, UnlinkedLeaves
    <3>2. y \in LinkedStates /\ y.added BY <3>1 DEF LinkedStates, Unadded
    <3> HIDE DEF y
    <3>3. Holds(Tables, [Web EXCEPT ![p] = {}]) BY <2>1, <2>3, UnlinkedLeaves
    <3> QED BY <2>1, <2>2, <2>3, <3>2, <3>3, LinkedKeeps
  <2> HIDE DEF y
  <2> QED BY <1>2, <2>1, <2>2, <2>3
<1> HIDE DEF Calm
<1> QED BY <1>1, <1>3, <1>4, <1>5, <1>6, <1>7, <1>8 DEF LinksNext

LEMMA LinksMean == LinksInv => LinksExact
<1> SUFFICES ASSUME LinksInv, ~disturbed, NEW s \in DOMAIN up
             PROVE  LET users == {o \in LinkedObjects : linked[o].added /\ \E p \in LinkSpaces : <<p, s>> \in Pairs(linked[o])}
                    IN /\ count[s] = Cardinality(users)
                       /\ (up[s] # NoName) <=> (users # {})
                       /\ \A o \in users : <<up[s], s>> \in Pairs(linked[o])
  BY DEF LinksExact
<1>1. Holds(Tables, Web) /\ Tables.up = up /\ Tables.count = count BY DEF LinksInv, Tables
<1>2. s \in LinkSpaces BY <1>1 DEF Holds, LinkTables
<1>3. \A o \in LinkedObjects : Web[o] = IF linked[o].added THEN Pairs(linked[o]) ELSE {} BY DEF Web
<1>4. {o \in LinkedObjects : linked[o].added /\ \E p \in LinkSpaces : <<p, s>> \in Pairs(linked[o])} = UsersOf(Web, s)
  BY <1>3 DEF UsersOf
<1>5. /\ count[s] = Cardinality(UsersOf(Web, s))
      /\ (up[s] # NoName) <=> (UsersOf(Web, s) # {})
      /\ \A o \in LinkedObjects, p \in LinkSpaces : <<p, s>> \in Web[o] => up[s] = p
  BY <1>1, <1>2 DEF Holds, Counts
<1>6. ASSUME NEW o \in UsersOf(Web, s) PROVE <<up[s], s>> \in Pairs(linked[o])
  <2>1. PICK p \in LinkSpaces : o \in LinkedObjects /\ <<p, s>> \in Web[o] BY DEF UsersOf
  <2>2. up[s] = p BY <1>5, <2>1
  <2> QED BY <1>3, <2>1, <2>2
<1> QED BY <1>4, <1>5, <1>6

\* However often objects that name the same classes come and go, change their
\* names and set a class or a superclass under which their links are found
\* again, a namespace counts exactly the objects that are linked
\* through it, keeps its parent for as long as there is one, and all of them
\* name that parent (SimObject::linkNamespaces, unlinkNamespaces).
THEOREM LinksAlwaysExact == LinksSpec => []LinksExact
<1>1. LinksInit => LinksInv BY LinksInitOK
<1>2. LinksInv /\ [LinksNext]_linkVars => LinksInv' BY LinksStep
<1>3. LinksInv => LinksExact BY LinksMean
<1> QED BY <1>1, <1>2, <1>3, PTL DEF LinksSpec
=============================================================================
