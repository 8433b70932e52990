--------------------------- MODULE CodeInspection ---------------------------
(***************************************************************************)
(* What shows a script to the host: the walk over its syntax tree and the  *)
(* listing of its code.                                                    *)
(*                                                                         *)
(* Vm::enumerateAst (api.cpp): the host reads the syntax tree of a script  *)
(* through a callback that is shown every node and answers whether to go   *)
(* on below it, to skip what is below it, or to stop.                      *)
(*                                                                         *)
(* A tree is a function from node numbers to records: the kind k, the next *)
(* node of its list and, for every child the node has, the first node of   *)
(* that child's list; 0 is a null pointer.  The recursion of the walk is   *)
(* kept as the stack of the lists it is inside.                            *)
(***************************************************************************)
EXTENDS Integers, Sequences, FiniteSets, SequencesExt

CONSTANTS Trees        \* the trees the parser can hand over, the head of the program first

VARIABLES tree,        \* the tree being walked
          pending,     \* stack of [node, parent, depth], the innermost last
          reports,     \* what the callback was shown, with its answers
          answered,      \* "idle", "walking" or an AstEnumerationResult
          outError     \* the stage of outError
walkVars == <<tree, pending, reports, answered, outError>>

Controls == {"Continue", "SkipChildren", "Abort"}

\* The children of a node of kind k, in the order walkStmtNode goes through
\* them: a loop's test before what initialises it.
KidsOf(k) ==
  CASE k \in {"Return", "IntUnary", "FltUnary", "TagDeref"} -> <<"expr">>
    [] k = "If" -> <<"test", "then", "else">>
    [] k = "Loop" -> <<"test", "init", "end", "body">>
    [] k = "Iter" -> <<"container", "body">>
    [] k = "TagSet" -> <<"value", "string">>
    [] k = "Function" -> <<"args", "body">>
    [] k = "Cond" -> <<"test", "then", "else">>
    [] k = "Bin" -> <<"left", "right">>
    [] k = "Var" -> <<"index">>
    [] k \in {"Assign", "AssignOp"} -> <<"index", "rhs">>
    [] k = "Call" -> <<"args">>
    [] k = "Assert" -> <<"test">>
    [] k = "Slot" -> <<"obj", "index">>
    [] k = "IntSlot" -> <<"obj", "slot">>
    [] k \in {"SlotAssign", "SlotAssignOp"} -> <<"obj", "index", "rhs">>
    [] k = "New" -> <<"class", "name", "args", "slots", "subs">>
    [] k = "Class" -> <<"fields", "ctor">>
    [] k = "Try" -> <<"body", "catches">>
    [] k = "Catch" -> <<"test", "body">>
    [] k = "Tuple" -> <<"items">>
    [] k = "Field" -> <<"default">>
    [] OTHER -> <<>>

Child(n, f) == IF f \in DOMAIN tree[n].kids THEN tree[n].kids[f] ELSE 0
Cursor(n, p, d) == IF n = 0 THEN <<>> ELSE <<[node |-> n, parent |-> p, depth |-> d]>>

\* walkChild, walkFields: the lists of the children, the first one last.
BelowNode(n, d) ==
  FlattenSeq(Reverse([i \in DOMAIN KidsOf(tree[n].k) |->
                        Cursor(Child(n, KidsOf(tree[n].k)[i]), n, d + 1)]))

\* walkStmtList, walkScriptClassFieldList: the list goes on behind this node.
After(c) == Cursor(tree[c.node].next, c.parent, c.depth)

\* Mutant: the children of a node that is to be skipped are walked.
StillToWalkSkipsNothing(rest, c, control) ==
  IF control = "Abort" THEN <<>> ELSE rest \o After(c) \o BelowNode(c.node, c.depth)

\* emitAstCallback's answer, and what is left to walk.
StillToWalk(rest, c, control) ==
  IF control = "Abort" THEN <<>>
  ELSE rest \o After(c) \o (IF control = "SkipChildren" THEN <<>> ELSE BelowNode(c.node, c.depth))

WalkInit ==
  /\ tree \in Trees
  /\ pending = <<>> /\ reports = <<>> /\ answered = "idle" /\ outError = "stale"

\* walkStmtNode, walkScriptClassFieldNode: the node is shown, and answered.
walkStmtNode(control) ==
  /\ answered = "walking" /\ pending # <<>>
  /\ reports' = Append(reports, Last(pending) @@ [control |-> control])
  /\ pending' = StillToWalk(Front(pending), Last(pending), control)
  /\ answered' = IF control = "Abort" THEN "Aborted" ELSE answered
  /\ UNCHANGED <<tree, outError>>

Completed ==
  /\ answered = "walking" /\ pending = <<>>
  /\ answered' = "Completed"
  /\ UNCHANGED <<tree, pending, reports, outError>>

\* enumerateAst: with no text or no callback, or a text that does not parse,
\* the error says at which stage; otherwise it was cleared.
enumerateAst(parse) ==
  /\ answered = "idle"
  /\ outError' = CASE parse \in {"arguments", "parser"} -> "Parser"
                   [] parse = "lexer" -> "Lexer"
                   [] OTHER -> "None"
  /\ IF parse = "ok"
     THEN answered' = "walking" /\ pending' = Cursor(IF tree = <<>> THEN 0 ELSE 1, 0, 0)
     ELSE answered' = "ParseFailed" /\ UNCHANGED pending
  /\ UNCHANGED <<tree, reports>>

Parses == {"ok", "arguments", "lexer", "parser"}
WalkNext ==
  \/ \E parse \in Parses : enumerateAst(parse)
  \/ \E control \in Controls : walkStmtNode(control)
  \/ Completed
WalkSpec == WalkInit /\ [][WalkNext]_walkVars
-----------------------------------------------------------------------------
(* What the host can rely on. *)

\* The list that starts at node n.
Chain(n) ==
  LET f[i \in 0 .. Len(tree), m \in 0 .. Len(tree)] ==
        IF m = 0 \/ i = Len(tree) THEN <<>> ELSE <<m>> \o f[i + 1, tree[m].next]
  IN f[0, n]
\* The reports between report i and the next one that is not below it.
EndOf(i) ==
  LET later == {j \in i + 1 .. Len(reports) : reports[j].depth <= reports[i].depth}
  IN IF later = {} THEN Len(reports) ELSE Min(later) - 1
Shown(i) ==
  SelectSeq(SubSeq(reports, i + 1, EndOf(i)), LAMBDA r : r.depth = reports[i].depth + 1)
Nodes(s) == [j \in DOMAIN s |-> s[j].node]

\* What the callback is shown is the tree: a node comes under the node it
\* names as its parent, one level deeper, and not under one it answered to
\* skip; and once a node's children are through, each list of them was shown
\* whole and in order, none twice.
ReportsFormTheTree ==
  \A i \in DOMAIN reports :
    /\ \A j \in i + 1 .. EndOf(i) : reports[j].depth = reports[i].depth + 1 => reports[j].parent = reports[i].node
    /\ reports[i].depth > 0 => \E j \in 1 .. i - 1 : EndOf(j) >= i /\ reports[j].depth = reports[i].depth - 1
    /\ reports[i].control # "Continue" => EndOf(i) = i
    /\ LET lists == {Chain(tree[reports[i].node].kids[f]) : f \in DOMAIN tree[reports[i].node].kids}
           shown == Nodes(Shown(i))
       IN reports[i].control = "Continue" /\ (EndOf(i) < Len(reports) \/ answered = "Completed")
          => /\ Len(shown) = FoldSet(LAMBDA l, n : n + Len(l), 0, lists)
             /\ \A l \in lists : \E k \in 0 .. Len(shown) - Len(l) : SubSeq(shown, k + 1, k + Len(l)) = l
-----------------------------------------------------------------------------
(***************************************************************************)
(* The listing of a code block (CodeBlock::dumpInstructions).  Code is a   *)
(* sequence of words, an opcode <<"op", name>> followed by its operands    *)
(* <<"word", n>>; where an instruction ends, and which table its text or   *)
(* number is in, is not in the words, so the listing has to know what the  *)
(* compiler emits for every opcode and where functions begin and end.      *)
(***************************************************************************)
CONSTANTS MaxArgs,     \* bound: arguments of a declared function
          MaxBody      \* bound: instructions of its body

VARIABLES compiledItems,       \* what was compiled: instructions and functions
          words, listIp,
          endFuncIp, inFunction,
          listEnded,     \* the listing has ended
          listing       \* the instructions listed so far

listVars == <<compiledItems, words, listIp, endFuncIp, inFunction, listEnded, listing>>

\* What is emitted behind an opcode: so many names, of two words each, and
\* so many single words.
NameOperands == [SIGNAL_DECL |-> 3, CREATE_OBJECT |-> 1, SETCURVAR |-> 1, SETCURVAR_CREATE |-> 1, SETCURFIELD |-> 1,
          LOADIMMED_IDENT |-> 1, CALLFUNC |-> 2, CALLFUNC_RESOLVE |-> 2, ITER_BEGIN |-> 1, ITER_BEGIN_STR |-> 1]
WordOperands == [SIGNAL_DECL |-> 1, CREATE_OBJECT |-> 5, CALLFUNC |-> 1, CALLFUNC_RESOLVE |-> 1, ITER_BEGIN |-> 1, ITER_BEGIN_STR |-> 1,
          PUSH_TRY |-> 2]
JumpOps == {"JMPIFFNOT", "JMPIFNOT", "JMPIFF", "JMPIF", "JMPIFNOT_NP", "JMPIF_NP", "JMP"}
ReturnOps == {"RETURN", "RETURN_VOID", "RETURN_FLT", "RETURN_UINT"}
TextOps == {"TAG_TO_STR", "LOADIMMED_STR", "DOCBLOCK_STR", "ASSERT"}
OneWordOps == JumpOps \cup TextOps \cup {"ADD_OBJECT", "END_OBJECT", "SETCUROBJECT_INTERNAL", "SETCURFIELD_TYPE", "LOADIMMED_UINT", "LOADIMMED_FLT",
            "ADVANCE_STR_APPENDCHAR", "ITER", "PUSH_TRY_STACK", "THROW", "TYPED_OP", "TYPED_OP_REVERSE", "TYPED_UNARY_OP",
            "SET_DYNAMIC_TYPE_FROM_ID", "SETCURVAR_TYPE"}
\* The opcodes that nothing follows.
ArithmeticOps == {"CMPEQ", "CMPGR", "CMPGE", "CMPLT", "CMPLE", "CMPNE", "XOR", "MOD", "BITAND", "BITOR", "NOT", "NOTF",
    "ONESCOMPLEMENT", "SHR", "SHL", "AND", "OR", "ADD", "SUB", "MUL", "DIV", "NEG"}
VarOps == {"SETCURVAR_ARRAY", "SETCURVAR_ARRAY_CREATE", "LOADVAR_UINT", "LOADVAR_FLT", "LOADVAR_STR", "LOADVAR_VAR",
    "SAVEVAR_UINT", "SAVEVAR_FLT", "SAVEVAR_STR", "SAVEVAR_VAR"}
FieldOps == {"FINISH_OBJECT", "SETCUROBJECT", "SETCUROBJECT_NEW", "SETCURFIELD_ARRAY", "LOADFIELD_UINT", "LOADFIELD_FLT",
    "LOADFIELD_STR", "SAVEFIELD_UINT", "SAVEFIELD_FLT", "SAVEFIELD_STR"}
ConversionOps == {"STR_TO_UINT", "STR_TO_FLT", "STR_TO_NONE", "FLT_TO_UINT", "FLT_TO_STR", "FLT_TO_NONE", "UINT_TO_FLT",
    "UINT_TO_STR", "UINT_TO_NONE", "COPYVAR_TO_NONE"}
StringOps == {"ADVANCE_STR", "ADVANCE_STR_COMMA", "ADVANCE_STR_NUL", "REWIND_STR", "TERMINATE_REWIND_STR", "COMPARE_STR",
    "PUSH", "PUSH_UINT", "PUSH_FLT", "PUSH_VAR", "PUSH_FRAME", "BREAK", "ITER_END", "POP_TRY", "DUP_UINT"}
TypedOps == {"PUSH_TYPED", "LOADVAR_TYPED", "LOADVAR_TYPED_REF", "LOADFIELD_TYPED", "SAVEVAR_TYPED", "SAVEFIELD_TYPED",
    "STR_TO_TYPED", "FLT_TO_TYPED", "UINT_TO_TYPED", "TYPED_TO_STR", "TYPED_TO_FLT", "TYPED_TO_UINT", "TYPED_TO_NONE",
    "SETCURFIELD_NONE", "SETVAR_FROM_COPY", "LOADFIELD_VAR", "SAVEFIELD_VAR", "SAVEVAR_MULTIPLE", "SAVEFIELD_MULTIPLE",
    "SET_DYNAMIC_TYPE_FROM_VAR", "SET_DYNAMIC_TYPE_FROM_FIELD", "SET_DYNAMIC_TYPE_TO_NULL"}
PlainOps == ReturnOps \cup ArithmeticOps \cup VarOps \cup FieldOps \cup ConversionOps \cup StringOps \cup TypedOps
Opcodes == DOMAIN NameOperands \cup DOMAIN WordOperands \cup OneWordOps \cup PlainOps

OperandWords(n) == [i \in 1 .. n |-> <<"word", 0>>]
OperandsIn(table, op) == IF op \in DOMAIN table THEN table[op] ELSE 0
emitOp(op) == <<<<"op", op>>>> \o OperandWords(2 * OperandsIn(NameOperands, op) + OperandsIn(WordOperands, op) + IF op \in OneWordOps THEN 1 ELSE 0)
\* The function tables while a function is compiled, the global ones else.
UsesTable(op) == op \in TextOps \cup {"LOADIMMED_FLT"}
ListLine(at, op, inside) == <<at, op, IF UsesTable(op) THEN (IF inside THEN "function" ELSE "global") ELSE "">>

\* Compiling instructions one after the other: their words and their lines.
PutOp(r, op, inside) == [c |-> r.c \o emitOp(op), l |-> Append(r.l, ListLine(Len(r.c), op, inside))]
PutOps(r, ops, inside) ==
    LET P[n \in 0 .. Len(ops)] == IF n = 0 THEN r ELSE PutOp(P[n - 1], ops[n], inside) IN P[Len(ops)]
\* FunctionDeclStmtNode: three names, the body flag, the end, the arguments.
PutFunction(r, f) ==
    LET head == r.c \o <<<<"op", "FUNC_DECL">>>> \o OperandWords(7) \o <<<<"word", 0>>, <<"word", f.argc>>>> \o OperandWords(2 * f.argc)
        b == PutOps([c |-> head, l |-> Append(r.l, ListLine(Len(r.c), "FUNC_DECL", FALSE))], f.body \o <<"RETURN_VOID">>, TRUE)
    IN [b EXCEPT !.c[Len(r.c) + 9] = <<"word", Len(b.c)>>]
CompiledItems(is) ==
    LET K[n \in 0 .. Len(is)] ==
          IF n = 0 THEN [c |-> <<>>, l |-> <<>>]
          ELSE IF is[n].argc >= 0 THEN PutFunction(K[n - 1], is[n]) ELSE PutOps(K[n - 1], is[n].body, FALSE)
    IN K[Len(is)]

Instruction(op) == [argc |-> 0 - 1, body |-> <<op>>]
DeclaredFunctions == [argc : 0 .. MaxArgs, body : UNION {[1 .. n -> Opcodes] : n \in 0 .. MaxBody}]
ListInit ==
    /\ \/ \E a, b \in Opcodes : compiledItems = <<Instruction(a), Instruction(b)>>
       \/ \E f \in DeclaredFunctions, a \in TextOps : compiledItems = <<f, Instruction(a), [argc |-> 0, body |-> <<a>>]>>
    /\ words = <<>> /\ listIp = 0 /\ endFuncIp = 0 /\ inFunction = FALSE /\ listEnded = FALSE /\ listing = <<>>

compileItems ==
    /\ words = <<>>
    /\ words' = CompiledItems(compiledItems).c
    /\ UNCHANGED <<compiledItems, listIp, endFuncIp, inFunction, listEnded, listing>>
-----------------------------------------------------------------------------
(* dumpInstructions: how far each case goes past the opcode. *)

CodeWord(i) == words[i + 1]
DeclWidth(op) == CASE op = "SIGNAL_DECL" -> 7 [] op = "CREATE_OBJECT" -> 7 [] op \in {"ADD_OBJECT", "END_OBJECT"} -> 1 [] OTHER -> 0
JumpWidth(op) == IF op \in JumpOps THEN 1 ELSE 0
VarWidth(op) == IF op \in {"SETCURVAR", "SETCURVAR_CREATE"} THEN 2 ELSE 0
FieldWidth(op) == CASE op = "SETCURFIELD" -> 2 [] op \in {"SETCUROBJECT_INTERNAL", "SETCURFIELD_TYPE"} -> 1 [] OTHER -> 0
ImmedWidth(op) ==
    CASE op = "LOADIMMED_IDENT" -> 2
      [] op \in {"LOADIMMED_UINT", "LOADIMMED_FLT", "TAG_TO_STR", "LOADIMMED_STR", "DOCBLOCK_STR"} -> 1
      [] OTHER -> 0
CallWidth(op) == IF op \in {"CALLFUNC", "CALLFUNC_RESOLVE"} THEN 5 ELSE 0
StringWidth(op) == IF op \in {"ADVANCE_STR_APPENDCHAR", "ASSERT"} THEN 1 ELSE 0
IterWidth(op) == CASE op \in {"ITER_BEGIN", "ITER_BEGIN_STR"} -> 3 [] op = "ITER" -> 1 [] OTHER -> 0
TryWidth(op) == CASE op = "PUSH_TRY" -> 2 [] op \in {"PUSH_TRY_STACK", "THROW"} -> 1 [] OTHER -> 0
TypedWidth(op) ==
    IF op \in {"TYPED_OP", "TYPED_OP_REVERSE", "TYPED_UNARY_OP", "SET_DYNAMIC_TYPE_FROM_ID", "SETCURVAR_TYPE"} THEN 1 ELSE 0
Skipped(op, at) ==
    IF op = "FUNC_DECL" THEN 9 + 2 * CodeWord(at + 8)[2]
    ELSE DeclWidth(op) + JumpWidth(op) + VarWidth(op) + FieldWidth(op) + ImmedWidth(op) + CallWidth(op) + StringWidth(op)
         + IterWidth(op) + TryWidth(op) + TypedWidth(op)

\* What a case prints: three read their operand before they print ip - 1, and
\* two print the name of another opcode.
Misplaced == {"ADD_OBJECT", "END_OBJECT", "SETCURVAR_TYPE"}
Misnamed == [UINT_TO_FLT |-> "SAVEFIELD_STR", ITER_BEGIN_STR |-> "ITER_BEGIN"]
PrintedLine(at, op, inside) ==
    [ListLine(at, op, inside) EXCEPT
        ![1] = IF op \in Misplaced THEN at + 1 ELSE at,
        ![2] = IF op \in DOMAIN Misnamed THEN Misnamed[op] ELSE op]

\* Mutant: the end of a function is not noticed.
StillInsideForgets == inFunction
\* A function's code ends where its declaration says.
StillInside == inFunction /\ listIp < endFuncIp
dumpInstruction(upToReturn) ==
    /\ words # <<>> /\ ~listEnded /\ listIp < Len(words)
    /\ LET op == IF CodeWord(listIp)[1] = "op" THEN CodeWord(listIp)[2] ELSE "INVALID"
           decl == op = "FUNC_DECL"
       IN /\ listing' = Append(listing, PrintedLine(listIp, op, StillInside))
          /\ listIp' = listIp + 1 + (IF op = "INVALID" THEN 0 ELSE Skipped(op, listIp + 1))
          /\ inFunction' = (StillInside \/ decl)
          /\ endFuncIp' = IF decl THEN CodeWord(listIp + 8)[2] ELSE endFuncIp
          /\ listEnded' = (upToReturn /\ op \in ReturnOps)
    /\ UNCHANGED <<compiledItems, words>>
ListNext == compileItems \/ \E upToReturn \in BOOLEAN : dumpInstruction(upToReturn)
-----------------------------------------------------------------------------
(* Properties *)

\* The listing has a line for every instruction that was compiled, in order,
\* and never falls out of step, behind functions and between them too: each
\* line takes its text or number from the table the compiler put it in, and
\* shows the instruction's place and name, but for the place behind the three
\* opcodes Misplaced and the name of the two Misnamed.
ListingExact ==
    LET l == CompiledItems(compiledItems).l
    IN /\ Len(listing) <= Len(l)
       /\ \A n \in DOMAIN listing :
             /\ listing[n][1] = l[n][1] \/ l[n][2] \in Misplaced
             /\ listing[n][2] = l[n][2] \/ l[n][2] \in DOMAIN Misnamed
             /\ listing[n][3] = l[n][3]
       /\ words # <<>> /\ listIp >= Len(words) => Len(listing) = Len(l)
=============================================================================
