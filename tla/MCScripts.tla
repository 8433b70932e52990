----------------------------- MODULE MCScripts -----------------------------
(***************************************************************************)
(* What scripts are compiled to and what they use, one part at a time (the *)
(* others rest): compiled programs, suspend flags, listings of byte code,  *)
(* typed operators, walks over syntax trees, script classes, global        *)
(* variables, scheduled calls, file streams, texts and their encodings,    *)
(* executed files, path names and the log.                                 *)
(***************************************************************************)
EXTENDS CompiledEval, SequencesExt, SuspendFlags, CodeInspection, TypedOps, ScriptClasses,
        ScriptVariables, ScheduledCalls, FileStreams, TextUnits, Console

VARIABLE part

-----------------------------------------------------------------------------
(* Compiled programs. *)

Num(n) == IntNode(n)
Str(x) == StrConstNode(x, FALSE)
Word(x) == ConstantNode(x)
Var(x) == VarNode(x, NoNode, FALSE)
TVar(x) == VarNode(x, NoNode, TRUE)
Elem(x, i) == VarNode(x, i, FALSE)
Slot(o, x, i) == SlotAccessNode(o, x, i)
Call(f, args) == FuncCallExprNode(f, args)
FBin(op, l, r) == FloatBinaryExprNode(op, l, r)
IBin(op, l, r) == IntBinaryExprNode(op, l, r)
Eq(l, r, b) == StreqExprNode(l, r, b)
Cat(l, r, sep) == StrcatExprNode(l, r, sep)
IUn(op, e) == IntUnaryExprNode(op, e)
Neg(e) == FloatUnaryExprNode(e)
Cond(t, a, b) == ConditionalExprNode(t, a, b)
Set(x, i, e, ty) == AssignExprNode(x, i, e, ty)
SetOp(x, i, op, e, ty) == AssignOpExprNode(x, i, op, e, ty)
SetSlot(o, x, i, e) == SlotAssignNode(o, x, i, e)
SetSlotOp(o, x, i, op, e) == SlotAssignOpNode(o, x, i, op, e)
New(c, n, args, slots, subs) == ObjectDeclNode(c, n, args, slots, subs)
Internal(o, x) == InternalSlotAccessNode(o, x)
Tuple(xs) == TupleExprNode(xs)
If(t, a, b) == IfStmtNode(t, a, b, FALSE)
For(i, t, e, b) == LoopStmtNode(i, t, e, b, FALSE)
DoWhile(t, b) == LoopStmtNode(NoNode, t, NoNode, b, TRUE)
ForEach(x, c, b, str) == IterStmtNode(x, c, b, str)
Ret(e) == ReturnStmtNode(e)
Break == BreakStmtNode
Continue == ContinueStmtNode
Try(b, cs) == TryStmtNode(b, cs)
Func(b, ty) == FunctionDeclStmtNode(b, ty)

Leaves == << Num(1), FloatNode(2), Str("s"), Word("w"), Var("a"), TVar("t"), Elem("r", Var("i")),
             Slot(Word("o"), "x", NoNode), Slot(Var("o"), "x", Var("i")),
             Call("num", <<>>), Call("txt", <<Var("g")>>) >>

Inner == Leaves \o
  << FBin("+", Var("$g"), Call("num", <<>>)), FBin("-", Call("txt", <<>>), TVar("t")),
     IBin("<", Var("a"), FloatNode(2)), IBin("&", Var("a"), Num(1)), IBin("==", Call("txt", <<>>), Var("$g")),
     IBin("||", Var("a"), Var("b")), IBin("&&", Var("a"), Call("txt", <<>>)),
     IBin("||", Var("a"), Set("b", NoNode, Num(1), FALSE)),
     Eq(Var("a"), Str("s"), TRUE), Eq(Call("txt", <<>>), Var("$g"), FALSE),
     Cat(Var("a"), Str("s"), ""), Cat(Call("txt", <<>>), Call("num", <<>>), " "),
     IUn("!", Var("a")), IUn("!", Num(1)), IUn("~", Var("a")), IUn("!", Str("s")), IUn("!", TVar("t")), Neg(Var("a")), Neg(TVar("t")),
     Cond(Var("a"), Num(1), Str("s")), Cond(Call("txt", <<>>), Str("s"), Var("b")),
     Set("b", NoNode, Num(1), FALSE), Set("b", NoNode, Var("a"), FALSE), Set("b", NoNode, Call("txt", <<>>), TRUE),
     Set("r", Var("i"), Str("s"), FALSE), Set("r", Call("txt", <<>>), Var("$g"), FALSE),
     SetOp("b", NoNode, "+", Var("a"), FALSE), SetOp("b", NoNode, "&", Num(1), FALSE), SetOp("t", NoNode, "+", Var("a"), TRUE),
     SetSlot(Word("o"), "x", NoNode, Var("a")), SetSlot(Var("o"), "x", Var("i"), Call("txt", <<>>)),
     SetSlot(Word("o"), "x", NoNode, Str("s")), SetSlot(Word("o"), "x", NoNode, Num(1)),
     SetSlotOp(Word("o"), "x", NoNode, "+", Var("a")), SetSlotOp(Word("o"), "x", Var("i"), "|", Num(1)),
     Internal(Word("o"), Str("s")),
     New(Word("C"), Word("w"), <<>>, <<>>, <<>>) >>

Contexts(e) ==
  << <<e>>, <<Set("z", NoNode, e, FALSE)>>, <<Set("z", NoNode, e, TRUE)>>, <<Set("z", e, Var("b"), FALSE)>>,
     <<Set("z", e, Str("s"), FALSE)>>, <<Set("z", Var("i"), e, FALSE)>>,
     <<SetOp("z", NoNode, "+", e, FALSE)>>, <<SetOp("z", e, "|", Var("b"), FALSE)>>, <<SetOp("z", NoNode, "-", e, TRUE)>>,
     <<SetSlot(Word("o"), "y", NoNode, e)>>, <<SetSlot(Word("o"), "y", e, Var("b"))>>,
     <<SetSlot(e, "y", NoNode, Num(1))>>, <<SetSlotOp(Word("o"), "y", NoNode, "+", e)>>,
     <<SetSlotOp(Word("o"), "y", e, "^", Var("b"))>>,
     <<Call("f", <<e, Num(1)>>)>>, <<Call("f", <<Str("s"), e>>)>>, <<Ret(e)>>, <<If(e, <<Call("f", <<>>)>>, <<>>)>>,
     <<If(IBin("&&", e, Var("b")), <<Call("f", <<>>)>>, <<Call("h", <<>>)>>)>>,
     <<If(IBin("||", Var("b"), e), <<Call("f", <<>>)>>, <<Call("h", <<>>)>>)>>,
     <<Set("z", NoNode, FBin("*", e, Var("b")), FALSE)>>, <<Set("z", NoNode, FBin("-", Num(1), e), FALSE)>>,
     <<Set("z", NoNode, IBin(">", e, Var("b")), FALSE)>>, <<Set("z", NoNode, IBin("^", Var("b"), e), FALSE)>>,
     <<Set("z", NoNode, Cat(e, Var("b"), "_"), FALSE)>>, <<Set("z", NoNode, Cat(Str("s"), e, ""), FALSE)>>,
     <<Set("z", NoNode, Eq(e, Var("b"), TRUE), FALSE)>>, <<If(Eq(Str("s"), e, FALSE), <<Call("f", <<>>)>>, <<>>)>>,
     <<Set("z", NoNode, IUn("!", e), FALSE)>>, <<If(IUn("!", e), <<Call("f", <<>>)>>, <<>>)>>, <<Call("f", <<IUn("~", e)>>)>>,
     <<Set("z", NoNode, Neg(e), FALSE)>>, <<Set("z", NoNode, Cond(e, Num(1), Str("s")), FALSE)>>,
     <<Set("z", NoNode, Cond(Var("b"), e, Var("a")), FALSE)>>,
     <<Set("z", NoNode, Slot(e, "y", NoNode), FALSE)>>, <<Set("z", NoNode, Slot(Word("o"), "y", e), FALSE)>>,
     <<Set("z", NoNode, Elem("r", e), FALSE)>>, <<Set("z", NoNode, Tuple(<<e, Num(1)>>), FALSE)>>,
     <<SetSlot(Word("o"), "y", NoNode, Tuple(<<Var("b"), e>>))>>,
     <<Set("z", NoNode, Internal(e, Word("w")), FALSE)>>,
     <<New(Word("C"), Word("w"), <<e>>, <<SetSlot(NoNode, "y", NoNode, e)>>, <<>>)>> >>

\* Every inner expression in every context, followed by a statement of its own.
Mark == <<Call("end", <<>>)>>
ExprPrograms == FlattenSeq([i \in DOMAIN Inner |-> [j \in DOMAIN Contexts(Inner[i]) |-> Contexts(Inner[i])[j] \o Mark]])

Pairs(x, y) ==
  << <<Set("z", NoNode, FBin("/", x, y), FALSE)>>, <<Set("z", NoNode, Cat(x, y, ""), FALSE)>>, <<Set("z", y, x, FALSE)>>,
     <<Call("f", <<x, y>>)>>, <<If(IBin("&&", x, y), <<Call("f", <<>>)>>, <<>>)>>, <<SetSlot(y, "y", NoNode, x)>>  >>
\* One expression of each type of result and each kind of effect, beside every other.
Kinds == <<Var("a"), TVar("t"), Call("txt", <<Var("g")>>), FBin("+", Var("$g"), Call("num", <<>>)),
           Set("b", NoNode, Num(1), FALSE), SetSlot(Var("o"), "x", Var("i"), Call("txt", <<>>))>>
PairsOf(xs, ys) ==
  FlattenSeq([i \in DOMAIN xs |-> FlattenSeq([j \in DOMAIN ys |-> [n \in 1..6 |-> Pairs(xs[i], ys[j])[n] \o Mark]])])
PairPrograms == PairsOf(Inner, Kinds) \o PairsOf(Kinds, Inner)

F == Call("f", <<>>)
StmtPrograms == 
  << <<For(Set("i", NoNode, Num(0), FALSE), IBin("<", Var("i"), Var("n")), SetOp("i", NoNode, "+", Num(1), FALSE),
           <<If(Var("a"), <<Continue>>, <<If(Var("b"), <<Break>>, <<>>)>>), F>>)>>,
     <<DoWhile(Call("txt", <<>>), <<F, If(Var("$g"), <<Break>>, <<Continue>>), F>>)>>,
     <<For(NoNode, Call("txt", <<>>), NoNode, <<ForEach("x", Var("c"), <<Call("f", <<Var("x")>>), If(Var("x"), <<Break>>, <<>>)>>, TRUE)>>)>>,
     <<ForEach("x", Var("c"), <<ForEach("y", Var("d"), <<If(Var("y"), <<Continue>>, <<>>), Call("f", <<Var("x"), Var("y")>>)>>, TRUE), If(Var("x"), <<Ret(Var("x"))>>, <<>>)>>, FALSE)>>,
     <<If(Var("a"), <<If(Var("b"), <<F>>, <<Ret(NoNode)>>)>>, <<Func(<<F, Ret(Num(1))>>, TRUE)>>), F>>,
     <<Try(<<F, Call("throw1", <<>>), F>>, <<CatchStmtNode(1, <<Call("h1", <<>>)>>)>>), F>>,
     <<Try(<<F, Call("throw2", <<>>), F>>, <<CatchStmtNode(1, <<Call("h1", <<>>)>>), CatchStmtNode(2, <<Call("h2", <<>>)>>)>>), F>>,
     <<New(Word("C"), Word("w"), <<>>, <<SetSlot(NoNode, "y", Num(1), New(Word("D"), Word("v"), <<>>, <<>>, <<>>))>>,
            <<New(Word("D"), Str("s"), <<Num(1)>>, <<SetSlot(NoNode, "y", NoNode, Str("s"))>>, <<>>),
              New(Word("E"), Str("s"), <<>>, <<>>, <<>>)>>)>> >>

CompilerPrograms == ExprPrograms \o PairPrograms \o [i \in DOMAIN StmtPrograms |-> StmtPrograms[i] \o Mark]

\* throw1 throws the first bit of the mask, throw2 the second.
CompilerThrowers == [x \in {"throw1", "throw2"} |-> IF x = "throw1" THEN 1 ELSE 2]

-----------------------------------------------------------------------------
(* The other parts. *)

CONSTANT MaxUnpopped    \* bound on the pushes a fiber may have outstanding

\* One flag at a time is enough to make stacked words differ from their union.
PushChoices == {{f} : f \in Flags}
SuspendNext ==
  \/ \E flags \in FlagSet : setSuspendMode(flags)
  \/ \E f \in Fibers, flags \in PushChoices :
       unpopped[f] < MaxUnpopped /\ pushFiberSuspendFlags(f, flags)
  \/ \E f \in Fibers : popFiberSuspendFlags(f)
  \/ \E f \in Fibers : cleanupFiberSuspendFlags({f})

\* One type of each kind; numbers in halves.
MCOpsOf == [t \in ConsoleTypes |-> CASE t = "TypeS32" -> "Numeric" [] t = "TypeBool" -> "Unsigned" [] OTHER -> "Default"]
MCNumbers == {-2, -1, 0, 1, 2, 3, 4, 6, 8, 10, 14, 20, 26}

\* A tree for every statement with lists below it.
TreeNode(k, next, kids) == [k |-> k, next |-> next, kids |-> kids]
MCTrees == {<<>>,
  \* for (i; t; e) { a; b } c
  <<TreeNode("Loop", 7, [init |-> 2, test |-> 3, end |-> 4, body |-> 5]), TreeNode("Assign", 0, <<>>), TreeNode("Var", 0, <<>>), TreeNode("AssignOp", 0, <<>>), TreeNode("Break", 6, <<>>), TreeNode("Return", 0, <<>>), TreeNode("Call", 0, <<>>)>>,
  \* if (t) a else b
  <<TreeNode("If", 0, [test |-> 2, then |-> 3, else |-> 4]), TreeNode("Bin", 0, [left |-> 5, right |-> 6]), TreeNode("Return", 0, <<>>), TreeNode("Call", 0, [args |-> 7]), TreeNode("Var", 0, <<>>), TreeNode("Int", 0, <<>>), TreeNode("Int", 8, <<>>), TreeNode("Str", 0, <<>>)>>,
  \* switch (s) { case 1 or 2: a }
  <<TreeNode("If", 0, [test |-> 2, then |-> 8]), TreeNode("Bin", 0, [left |-> 3, right |-> 4]), TreeNode("Bin", 0, [left |-> 7, right |-> 5]), TreeNode("Bin", 0, [left |-> 7, right |-> 6]), TreeNode("Int", 6, <<>>), TreeNode("Int", 0, <<>>), TreeNode("Var", 0, <<>>), TreeNode("Break", 0, <<>>)>>,
  \* class C { f = 1; g; }
  <<TreeNode("Class", 0, [fields |-> 2, ctor |-> 5]), TreeNode("Field", 3, [default |-> 4]), TreeNode("Field", 0, <<>>), TreeNode("Int", 0, <<>>), TreeNode("Function", 0, [args |-> 6, body |-> 7]), TreeNode("Var", 0, <<>>), TreeNode("SlotAssign", 0, [obj |-> 8, rhs |-> 4]), TreeNode("Var", 0, <<>>)>>,
  \* new X() { f = 1; new Y(); }; try { a } catch (m) { b }
  <<TreeNode("New", 5, [class |-> 2, slots |-> 3, subs |-> 4]), TreeNode("Ident", 0, <<>>), TreeNode("SlotAssign", 0, [rhs |-> 8]), TreeNode("New", 0, <<>>), TreeNode("Try", 0, [body |-> 6, catches |-> 7]), TreeNode("Call", 0, <<>>), TreeNode("Catch", 0, [test |-> 8, body |-> 6]), TreeNode("Int", 0, <<>>)>>}

\* Classes that are declared again, with other fields or over another class.
MCNatives == <<[name |-> "SimObject", parent |-> 0, fields |-> <<"StartGroup", "internalName", "EndGroup">>, has |-> {"CreateClassFn", "ProcessArgsFn", "AddObjectFn"}],
               [name |-> "ScriptObject", parent |-> 1, fields |-> <<"Deprecated", "text">>, has |-> {"CreateClassFn", "ProcessArgsFn"}]>>
Decl(n, p, f) == [name |-> n, parent |-> p, fields |-> f]
MCDeclarations == {Decl("K", "", <<"a">>), Decl("K", "SimObject", <<"a", "b">>), Decl("L", "K", <<"b">>), Decl("L", "", <<>>), Decl("M", "L", <<"a", "internalName">>), Decl("ScriptObject", "", <<"a">>)}
MCLinks == {<<"K", "n">>, <<"n", "o">>}

\* Names of which one is the start of another, in two buckets.
MCVarNames == {<<"$", "a">>, <<"$", "a", "b">>, <<"$", "b">>}
MCTexts == {<<>>, <<"0">>, <<"7">>, <<"a", "b">>}
MCHashOf == [n \in MCVarNames |-> CASE n = <<"$", "a">> -> 4 [] n = <<"$", "a", "b">> -> 7 [] OTHER -> 2]
MCFirstVariables == {<<<<"$", "a">>, <<"$", "b">>>>}
MCPatterns == {<<"$", "a", "*">>, <<"*", "b">>}

\* Lists of texts, of a text and a number, with an empty text and a value of
\* a type of its own.
TextArg(b) == [type |-> "text", bytes |-> b]
NumberArg(n) == [type |-> "immediate", bytes |-> <<n>>]
CountArg == [type |-> "count", bytes |-> <<5>>]
MCLists == {<<TextArg(<<1>>)>>, <<TextArg(<<1>>), TextArg(<<2, 1>>), NumberArg(7)>>, <<TextArg(<<1>>), TextArg(<<>>), CountArg, TextArg(<<2>>)>>}
MCReceivers == {NumberArg(9)}

MCWritten == {<<7>>, <<8, 9>>}

\* Files that cannot be executed, that throw, that execute others.
Sets_ == [op |-> "set"]
Throws_ == [op |-> "throw"]
Executes(f, n, j) == [op |-> "exec", file |-> f, noCalls |-> n, journal |-> j]
ScriptOf(b) == [kind |-> "script", body |-> b]
NoScript(k) == [kind |-> k, body |-> <<>>]
MCContents == {NoScript("missing"), NoScript("empty"), NoScript("broken"), ScriptOf(<<Throws_, Sets_>>), ScriptOf(<<Executes("b.cs", FALSE, TRUE), Executes("c.cs", FALSE, FALSE)>>), ScriptOf(<<Executes("c.cs", TRUE, FALSE), Throws_>>), ScriptOf(<<Executes("noext", FALSE, FALSE), Executes("b.cs", FALSE, FALSE), Sets_>>)}

\* Expandos one inside another, one ending in a slash, paths below and beside.
MCExpandoNames == {<<"g">>, <<"s">>}
MCExpandoPaths == {<<"/", "w", "/", "a">>, <<"/", "W", "/", "a", "/", "/", "b", "/">>, <<"/", "v">>}
MCDirectories == {<<"/", "w">>, <<"/", "v", "/", "c">>}
MCScriptPaths == {<<>>, <<"/", "w", "/", "a", "/", "x">>, <<"/", "w", "/", "a", "/", "b", "/", "x">>}
MCFilePaths == {<<"/", "w", "/", "a", "/", "x">>, <<"/", "w", "/", "a", "/", "b", "/", "y">>, <<"/", "v", "/", "z">>, <<"/", "w", "/", "d", "/", "e">>}

MCMessages == {[level |-> 0, lines |-> <<"a">>], [level |-> 1, lines |-> <<"b", "tab">>]}

-----------------------------------------------------------------------------
Parts == {"compiler", "flags", "listing", "types", "walk", "classes", "variables", "schedule",
          "streams", "texts", "unicode", "files", "paths", "log"}
scriptVars == <<part, cvars, flagVars, listVars, typeVars, walkVars, classVars, variableVars, scheduleVars,
                fsVars, textVars, unicodeVars, fileVars, pathVars, logVars>>

\* A part that rests has nothing to say.
NoProgram ==
  /\ program = <<>> /\ allowTypes = FALSE /\ code = <<>> /\ lines = {} /\ m = <<>>
  /\ store = <<>> /\ truth = <<>> /\ calls = <<>> /\ done = FALSE
NoListing ==
  /\ compiledItems = <<>> /\ words = <<>> /\ listIp = 0 /\ endFuncIp = 0 /\ inFunction = FALSE
  /\ listEnded = FALSE /\ listing = <<>>
NoWalk == tree = <<>> /\ pending = <<>> /\ reports = <<>> /\ answered = "idle" /\ outError = "stale"
NoVariables == data = <<>> /\ count = 0 /\ entry = <<>> /\ heap = <<>> /\ host = <<>> /\ varSteps = 0
NoStream == fs = ClosedStream(<<>>, 0) /\ fsMode = "" /\ fsGot = <<>>
NoText == script = <<>> /\ token = <<>>
NoUnits == text = <<>> /\ form = "utf32" /\ units = <<>> /\ cut = FALSE /\ conversions = 0
NoFiles ==
  /\ files = <<>> /\ execDepth = 0 /\ journalDepth = 1 /\ execs = <<>> /\ failed = FALSE
  /\ returned = NotDone /\ execCount = 0
NoPaths ==
  /\ expandos = <<>> /\ directory = <<>> /\ mainDirectory = <<>> /\ codeBlock = <<>>
  /\ excluded = <<>> /\ pathSteps = 0

ScriptsInit ==
  /\ part \in Parts
  /\ FlagsInit /\ TypesInit /\ ClassesInit /\ ScheduleInit /\ LogInit
  /\ IF part = "listing" THEN ListInit ELSE NoListing
  /\ IF part = "walk" THEN WalkInit ELSE NoWalk
  /\ IF part = "variables" THEN VariablesInit ELSE NoVariables
  /\ IF part = "streams" THEN StreamInit ELSE NoStream
  /\ IF part = "texts" THEN TextInit ELSE NoText
  /\ IF part = "unicode" THEN UnicodeInit ELSE NoUnits
  /\ IF part = "files" THEN FilesInit ELSE NoFiles
  /\ IF part = "paths" THEN PathsInit ELSE NoPaths
  /\ IF part = "compiler" THEN CompiledInit(CompilerPrograms) ELSE NoProgram

Compiler_ == part = "compiler" /\ UNCHANGED <<part, flagVars, listVars, typeVars, walkVars, classVars, variableVars, scheduleVars, fsVars, textVars, unicodeVars, fileVars, pathVars, logVars>>
Flags_ == part = "flags" /\ UNCHANGED <<part, cvars, listVars, typeVars, walkVars, classVars, variableVars, scheduleVars, fsVars, textVars, unicodeVars, fileVars, pathVars, logVars>>
Listing_ == part = "listing" /\ UNCHANGED <<part, cvars, flagVars, typeVars, walkVars, classVars, variableVars, scheduleVars, fsVars, textVars, unicodeVars, fileVars, pathVars, logVars>>
Types_ == part = "types" /\ UNCHANGED <<part, cvars, flagVars, listVars, walkVars, classVars, variableVars, scheduleVars, fsVars, textVars, unicodeVars, fileVars, pathVars, logVars>>
Walk_ == part = "walk" /\ UNCHANGED <<part, cvars, flagVars, listVars, typeVars, classVars, variableVars, scheduleVars, fsVars, textVars, unicodeVars, fileVars, pathVars, logVars>>
Classes_ == part = "classes" /\ UNCHANGED <<part, cvars, flagVars, listVars, typeVars, walkVars, variableVars, scheduleVars, fsVars, textVars, unicodeVars, fileVars, pathVars, logVars>>
Variables_ == part = "variables" /\ UNCHANGED <<part, cvars, flagVars, listVars, typeVars, walkVars, classVars, scheduleVars, fsVars, textVars, unicodeVars, fileVars, pathVars, logVars>>
Schedule_ == part = "schedule" /\ UNCHANGED <<part, cvars, flagVars, listVars, typeVars, walkVars, classVars, variableVars, fsVars, textVars, unicodeVars, fileVars, pathVars, logVars>>
Streams_ == part = "streams" /\ UNCHANGED <<part, cvars, flagVars, listVars, typeVars, walkVars, classVars, variableVars, scheduleVars, textVars, unicodeVars, fileVars, pathVars, logVars>>
Texts_ == part = "texts" /\ UNCHANGED <<part, cvars, flagVars, listVars, typeVars, walkVars, classVars, variableVars, scheduleVars, fsVars, unicodeVars, fileVars, pathVars, logVars>>
Unicode_ == part = "unicode" /\ UNCHANGED <<part, cvars, flagVars, listVars, typeVars, walkVars, classVars, variableVars, scheduleVars, fsVars, textVars, fileVars, pathVars, logVars>>
Files_ == part = "files" /\ UNCHANGED <<part, cvars, flagVars, listVars, typeVars, walkVars, classVars, variableVars, scheduleVars, fsVars, textVars, unicodeVars, pathVars, logVars>>
Paths_ == part = "paths" /\ UNCHANGED <<part, cvars, flagVars, listVars, typeVars, walkVars, classVars, variableVars, scheduleVars, fsVars, textVars, unicodeVars, fileVars, logVars>>
Log_ == part = "log" /\ UNCHANGED <<part, cvars, flagVars, listVars, typeVars, walkVars, classVars, variableVars, scheduleVars, fsVars, textVars, unicodeVars, fileVars, pathVars>>

\* Programs and flags say themselves when they are done; the other parts end.
Ended == part \notin {"compiler", "flags"} /\ UNCHANGED scriptVars

ScriptsNext ==
  \/ Compiler_ /\ CompiledNext
  \/ Flags_ /\ SuspendNext
  \/ Listing_ /\ ListNext
  \/ Types_ /\ TypesNext
  \/ Walk_ /\ WalkNext
  \/ Classes_ /\ ClassesNext
  \/ Variables_ /\ VariablesNext
  \/ Schedule_ /\ ScheduleNext
  \/ Streams_ /\ StreamNext
  \/ Texts_ /\ TextNext
  \/ Unicode_ /\ UnicodeNext
  \/ Files_ /\ FilesNext
  \/ Paths_ /\ PathsNext
  \/ Log_ /\ LogNext
  \/ Ended
ScriptsSpec == ScriptsInit /\ [][ScriptsNext]_scriptVars
-----------------------------------------------------------------------------
\* The emitted code does what its syntax tree says and leaves nothing on its
\* stacks (CompiledEval).
CompiledRight == part = "compiler" => MeansWhatItSays /\ StatementsBalanced
\* popFrame asserts that the frame below finds its number stacks as they were,
\* "Stack mismatch" (compiledEval.cc:2845), and so for whatever was compiled.
\* Not so after not_converted; no run checks this.
StacksMatch == part = "compiler" /\ done => m.u = <<Caller>> /\ m.f = <<Caller>>
\* "emit a bunch of conditional checks to the jump address to go to the correct
\* catch block" (compiledEval.cc:2297): of several catch blocks the one runs
\* whose mask was thrown.  Not so: the first runs; no run checks this.
CorrectCatchRuns == part = "compiler" /\ done /\ ProgramFlaws \subseteq {"first_catch"} => DoesAsTold
\* Units, words and fields of a text, and searches in it, agree with what is
\* set, removed and replaced there (TextUnits).
TextFunctionsAgree == part = "texts" => UnitsAgree /\ SearchesAgree /\ MatchesFilledOut(script)
\* Path names lead back to the files they were made for (Console).
PathsAgree == part = "paths" => CollapsedExpandsBack /\ OwnFilesAreFound /\ StrippedPathsMeanTheSame
=============================================================================
