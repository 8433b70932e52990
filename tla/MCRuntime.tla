----------------------------- MODULE MCRuntime -----------------------------
(***************************************************************************)
(* What a script goes through before and while it runs, one part at a time *)
(* (the others stay as they are): its text in the lexer and the parser,    *)
(* the interpreter with its try statements and native calls, and with its  *)
(* loops, the event queue, and the network the console is reached by.  The *)
(* lexer and the parser take sources that are spelled, or printed, from    *)
(* what they should be read as, and short sequences of symbols or tokens.  *)
(***************************************************************************)
EXTENDS ScriptExec, EventQueue, Parser, Sockets

CONSTANTS MaxSymbols, MaxPieces, MaxTokens

VARIABLES part, expected, loopState
langVars == <<lexVars, parserVars, expected>>

LanguageLetters == {"x", "in", "or", "return", "foreach", "true", "class", "NL", "e", "n", "c", "r"}
-----------------------------------------------------------------------------
(* Operators: every sequence of operator characters. *)

OperatorChars == {"-", ">", "=", "<", "$", "!", "+", "&", ":"}
\* The documented operators over these characters.
Operators == {<<"-">>, <<">">>, <<"=">>, <<"<">>, <<"!">>, <<"+">>, <<"&">>, <<":">>,
    <<"-", "-">>, <<"-", "-", ">">>, <<"-", ">">>, <<"-", "=">>, <<"+", "+">>, <<"+", "=">>,
    <<">", "=">>, <<"<", "=">>, <<">", ">">>, <<"<", "<">>, <<">", ">", "=">>, <<"<", "<", "=">>,
    <<"=", "=">>, <<"!", "=">>, <<"$", "=">>, <<"!", "$", "=">>, <<"&", "&">>, <<"&", "=">>,
    <<":", ":">>}
LongestAt(s, p) ==
    LET Fits == {op \in Operators : LooksAt(s, p, op)}
    IN IF Fits = {} THEN <<>> ELSE CHOOSE op \in Fits : \A o \in Fits : Len(o) <= Len(op)
RECURSIVE Munch(_, _)
Munch(s, p) ==
    IF p > Len(s) THEN <<"end">>
    ELSE IF LongestAt(s, p) = <<>> THEN <<"illegal">>
    ELSE LongestAt(s, p) \o <<" ">> \o Munch(s, p + Len(LongestAt(s, p)))
-----------------------------------------------------------------------------
(* Pieces: how a source is spelled, and the tokens it stands for. *)

Piece(s, t) == [s |-> s, t |-> t]
Q == "\""
Pieces ==
  << Piece(<<"x">>, <<<<"ident", <<"x">>>>>>),
     Piece(<<"x", "$">>, <<<<"ident", <<"x">>>>, <<"illegal", <<>>>>>>),
     Piece(<<"in", "1">>, <<<<"ident", <<"in", "1">>>>>>),
     Piece(<<"foreach">>, <<<<"kw", <<"foreach">>>>>>),
     Piece(<<"foreach", "$">>, <<<<"kw", <<"foreach", "$">>>>>>),
     Piece(<<"true">>, <<<<"int", <<"1">>>>>>),
     Piece(<<"1", "0">>, <<<<"int", <<"1", "0">>>>>>),
     Piece(<<"0", "x", "1", "e">>, <<<<"int", <<"0", "x", "1", "e">>>>>>),
     Piece(<<"1", ".", "0", "e", "-", "1">>, <<<<"flt", <<"1", ".", "0", "e", "-", "1">>>>>>),
     Piece(<<".", "1">>, <<<<"flt", <<".", "1">>>>>>),
     Piece(<<"%", "x", ":", ":", "in">>, <<<<"var", <<"%", "x", ":", ":", "in">>>>>>),
     Piece(<<"$", "x", "1", ":", "1">>, <<<<"var", <<"$", "x", "1", ":", "1">>>>>>),
     Piece(<<"%", "x", ":", " ", "x">>, <<<<"var", <<"%", "x">>>>, <<"char", <<":">>>>, <<"ident", <<"x">>>>>>),
     Piece(<<"%", "1">>, <<<<"illegal", <<>>>>>>),
     Piece(<<"NL">>, <<<<"concat", <<"\n">>>>>>),
     Piece(<<"NL", "1">>, <<<<"ident", <<"NL", "1">>>>>>),
     Piece(<<Q, "x", "\\", "n", "\\", Q, "'", " ", Q>>, <<<<"str", <<"x", "\n", Q, "'", " ">>>>>>),
     Piece(<<"'", "\\", "c", "0", "x", "'">>, <<<<"tag", <<"STX", "SOH", "x">>>>>>),
     Piece(<<Q, "x", "\\", "x", "0", "1", "\r", Q>>, <<<<"str", <<"x", "SOH">>>>>>),
     Piece(<<Q, "x", "\n", Q>>, <<<<"illegal", <<>>>>>>),
     Piece(<<Q, "\\", "x", "1", Q>>, <<<<"illegal", <<>>>>>>),
     Piece(<<"/", "/", "/", "x", "\r", "\n", "/", "/", "/", " ", "\n">>, <<<<"doc", <<"x", "\n", " ", "\n">>>>>>),
     Piece(<<"$", Q, "x", Q>>, <<<<"strbeg", <<>>>>, <<"strend", <<"x">>>>>>),
     Piece(<<"$", Q, " ", "{", "%", "x", "}", Q>>,
           <<<<"strbeg", <<>>>>, <<"str", <<" ">>>>, <<"concat", <<>>>>, <<"var", <<"%", "x">>>>,
             <<"concat", <<>>>>, <<"strend", <<>>>>>>),
     Piece(<<"$", Q, "x", "{", "1", "@", "$", Q, "n", "{", "0", "}", "/", "/", Q, "}", "\\", "{", Q>>,
           <<<<"strbeg", <<>>>>, <<"str", <<"x">>>>, <<"concat", <<>>>>, <<"int", <<"1">>>>, <<"concat", <<>>>>,
             <<"strbeg", <<>>>>, <<"str", <<"n">>>>, <<"concat", <<>>>>, <<"int", <<"0">>>>, <<"concat", <<>>>>,
             <<"strend", <<"/", "/">>>>, <<"concat", <<>>>>, <<"strend", <<"{">>>>>>) >>
Blanks == << <<" ">>, <<"\n">>, <<"\t", "\r", "\n">>, <<"/", "/", "x", Q, "\n">>, <<"/", "*", "\n", "/", "/", "*", "/">> >>

\* The tokens of pieces with blanks behind them, with their lines.
RECURSIVE TokensOf(_, _, _)
TokensOf(ps, i, line) ==
    IF i > Len(ps) THEN <<Tok("end", <<>>, line)>>
    ELSE LET p == Pieces[ps[i][1]]  b == Blanks[ps[i][2]]
             here == [j \in DOMAIN p.t |-> Tok(p.t[j][1], p.t[j][2], line)]
         IN IF Last(p.t)[1] = "illegal" THEN here
            ELSE here \o TokensOf(ps, i + 1, line + Newlines(p.s \o b, 1, Len(p.s \o b) + 1))
Spelled(ps) == FlattenSeq([i \in DOMAIN ps |-> Pieces[ps[i][1]].s \o Blanks[ps[i][2]]])
PieceLists == UNION {[1..n -> (DOMAIN Pieces) \X (DOMAIN Blanks)] : n \in 1..MaxPieces}
-----------------------------------------------------------------------------
(* Printing a tree with the parentheses the documented levels need. *)

Levels == << Assigns, {"?"}, {"||"}, {"&&"}, {"|"}, {"^"}, {"&"}, {"==", "!="}, {"<", ">", "<=", ">="},
             {"@", "NL", "$=", "!$="}, {"<<", ">>"}, {"+", "-"}, {"*", "/", "%"} >>
LevelOf(op) == CHOOSE i \in DOMAIN Levels : op \in Levels[i]
Unary == Len(Levels) + 1
Postfix == Len(Levels) + 2
GlueOf(sep) == CHOOSE g \in DOMAIN Glues : Glues[g] = sep

RECURSIVE Show(_, _), Joined(_, _)
Joined(xs, sep) == IF xs = <<>> THEN <<>> ELSE IF Len(xs) = 1 THEN Show(xs[1], 1)
                   ELSE Show(xs[1], 1) \o <<sep>> \o Joined(Tail(xs), sep)
isComma(e) == e.k = "Cat" /\ e.op = "_"
ShowIndex(e) ==
    IF ~Exists(e) THEN <<>>
    ELSE IF isComma(e) /\ isComma(e.right)
    THEN <<"[">> \o Show(e.left, 0) \o <<"]", "[">> \o Show(e.right, 0) \o <<"]">>
    ELSE <<"[">> \o Show(e, 0) \o <<"]">>
ShowType(t) == IF t = "" THEN <<>> ELSE <<":", t>>
\* An operator with its sides, and the level they are at.
Infix(e) ==
    CASE e.k \in {"FltBin", "IntBin"} -> <<e.left, e.op, e.right>>
      [] e.k = "StrEq" -> <<e.left, IF e.eq THEN "$=" ELSE "!$=", e.right>>
      [] e.k = "Cat" -> <<e.left, GlueOf(e.op), e.right>>
      [] OTHER -> <<>>
Wrapped(s, level, min) == IF level < min THEN <<"(">> \o s \o <<")">> ELSE s
ShowAssign(target, e) == target \o <<IF e.k \in {"Assign", "SlotAssign"} THEN "=" ELSE CHOOSE a \in Assigns \ {"="} : processCharOp(a) = e.op>> \o Show(e.rhs, 1)
\* A comma in an index is a Cat with "_".  -> and --> nest to the left, as
\* every operator that is not an assignment or "?" (associativity).
Show(e, min) ==
    CASE e.k = "None" -> <<>>
      [] e.k \in {"Int", "Flt", "Str", "Tag", "Ident"} -> <<e.val>>
      [] e.k = "Var" -> <<e.name>> \o ShowIndex(e.index) \o ShowType(e.typed)
      [] isComma(e) -> Show(e.left, 0) \o <<",">> \o Show(e.right, 1)
      [] e.k \in {"FltBin", "IntBin", "StrEq", "Cat"} /\ ~isComma(e) ->
           LET l == LevelOf(Infix(e)[2])
           IN Wrapped(Show(e.left, l) \o <<Infix(e)[2]>> \o Show(e.right, l + 1), l, min)
      [] e.k \in {"FltUnary", "IntUnary", "Deref"} ->
           Wrapped(<<IF e.k = "FltUnary" THEN "-" ELSE IF e.k = "Deref" THEN "*" ELSE e.op>>
                     \o Show(e.expr, Unary), Unary, min)
      [] e.k = "Cond" -> Wrapped(Show(e.test, 3) \o <<"?">> \o Show(e.then, 1) \o <<":">> \o Show(e.else, 2), 2, min)
      [] e.k \in {"Assign", "AssignOp"} ->
           Wrapped(ShowAssign(<<e.name>> \o ShowIndex(e.index) \o ShowType(e.typed), e), 1, min)
      [] e.k \in {"SlotAssign", "SlotAssignOp"} ->
           Wrapped(ShowAssign(Show(e.obj, Postfix) \o <<".", e.name>> \o ShowIndex(e.index), e), 1, min)
      [] e.k = "Slot" -> Wrapped(Show(e.obj, Postfix) \o <<".", e.name>> \o ShowIndex(e.index), Postfix, min)
      [] e.k = "IntSlot" ->
           Wrapped(Show(e.obj, Postfix) \o <<IF e.recurse THEN "-->" ELSE "->">>
                     \o Show(e.slot, Postfix + 2), Postfix + 1, min)
      [] e.k = "Call" /\ e.name[3] ->
           Wrapped(Show(e.args[1], Postfix) \o <<".", e.name[2], "(">> \o Joined(Tail(e.args), ",") \o <<")">>,
                   Postfix, min)
      [] e.k = "Call" /\ ~e.name[3] ->
           (IF e.name[1] = "" THEN <<>> ELSE <<e.name[1], "::">>) \o <<e.name[2], "(">> \o Joined(e.args, ",") \o <<")">>
      [] e.k = "Tuple" -> Joined(e.items, ",")

Braces(body) == <<"{">> \o FlattenSeq(body) \o <<"}">>
\* A statement that is not an expression prints its parts in blocks.
RECURSIVE ShowStmt(_)
ShowStmts(list) == Braces([i \in DOMAIN list |-> ShowStmt(list[i])])
ShowStmt(s) ==
    CASE s.k = "Break" -> <<"break", ";">>
      [] s.k = "Return" -> <<"return">> \o Show(s.expr, 1) \o <<";">>
      [] s.k = "If" -> <<"if", "(">> \o Show(s.test, 1) \o <<")">> \o ShowStmts(s.then)
                         \o (IF s.else = <<>> THEN <<>> ELSE <<"else">> \o ShowStmts(s.else))
      [] s.k = "Loop" /\ s.do -> <<"do">> \o ShowStmts(s.body) \o <<"while", "(">> \o Show(s.test, 1) \o <<")", ";">>
      [] s.k = "Loop" /\ ~s.do -> <<"for", "(">> \o Show(s.init, 1) \o <<";">> \o Show(s.test, 1) \o <<";">>
                                   \o Show(s.end, 1) \o <<")">> \o ShowStmts(s.body)
      [] OTHER -> Show(s, 1) \o <<";">>
ShowProgram(list) == FlattenSeq([i \in DOMAIN list |-> ShowStmt(list[i])])
-----------------------------------------------------------------------------
(* Trees: every expression in every place of every other. *)

A == VarNode("%a", NoNode, "")
B == VarNode("%b", NoNode, "")
X == ConstantNode("x")
N == IntNode("1")
BinaryOps == <<"||", "&&", "|", "^", "&", "==", "!=", "<", ">=", "@", "NL", "$=", "!$=", "<<", ">>", "+", "-", "*", "%">>
Method(o, args) == FuncCallExprNode(<<"", "f", TRUE>>, <<o>> \o args)
Inner == [i \in DOMAIN BinaryOps |-> BinaryNode(BinaryOps[i], A, N)] \o
  << A, N, X, StrConstNode("str", FALSE), StrConstNode("tag", TRUE), FloatUnaryExprNode(A), IntUnaryExprNode("!", A),
     TTagDerefNode(A), ConditionalExprNode(A, N, B), AssignExprNode("%a", NoNode, B, ""),
     AssignOpExprNode("%a", NoNode, "<<", B, ""), SlotAssignNode(X, "y", NoNode, B), SlotAssignOpNode(A, "y", N, "-", B),
     SlotAccessNode(A, "y", NoNode), SlotAccessNode(A, "y", CommaCatExprNode(N, B)), InternalNode(A, X, "->"),
     InternalNode(X, B, "-->"), FuncCallExprNode(<<"", "f", FALSE>>, <<A, B>>), FuncCallExprNode(<<"x", "f", FALSE>>, <<>>),
     Method(A, <<N>>), VarNode("%a", CommaCatExprNode(CommaCatExprNode(B, X), N), "") >>
Outer(e) ==
  [i \in DOMAIN BinaryOps |-> BinaryNode(BinaryOps[i], e, B)] \o [i \in DOMAIN BinaryOps |-> BinaryNode(BinaryOps[i], B, e)] \o
  << e, FloatUnaryExprNode(e), IntUnaryExprNode("~", e), TTagDerefNode(e), ConditionalExprNode(e, A, B),
     ConditionalExprNode(A, e, B), ConditionalExprNode(A, B, e), AssignExprNode("%b", NoNode, e, ""),
     AssignExprNode("%b", e, N, ""), AssignOpExprNode("%b", NoNode, "+", e, ""), SlotAssignNode(X, "y", NoNode, e),
     SlotAssignNode(X, "y", e, N), SlotAssignNode(e, "y", NoNode, N), SlotAssignOpNode(X, "y", NoNode, "|", e), SlotAccessNode(e, "y", NoNode),
     SlotAccessNode(X, "y", e), InternalNode(e, X, "->"), InternalNode(X, e, "-->"),
     FuncCallExprNode(<<"", "f", FALSE>>, <<e, A>>), FuncCallExprNode(<<"", "f", FALSE>>, <<A, e>>), Method(e, <<A>>), Method(A, <<e>>),
     VarNode("%a", CommaCatExprNode(e, B), ""), VarNode("%a", CommaCatExprNode(B, e), "") >>
TreeCount == Len(Outer(A))

\* Statements and declarations, and what they are.
CallF == FuncCallExprNode(<<"", "f", FALSE>>, <<>>)
Eq(e) == IntBinaryExprNode("==", A, e)
StrEq(e) == StreqExprNode(A, e, TRUE)
TypedSlot(x, type, e) == SlotNode(x, NoNode, type, e)
Fn(ns, x, args, body, type, package) == [FunctionNode(ns, x, args, body, type, "Function") EXCEPT !.package = package]
Samples ==
  << << <<"if", "(", "%a", ")", "if", "(", "%b", ")", "f", "(", ")", ";", "else", "break", ";">>,
        <<IfStmtNode(A, <<IfStmtNode(B, <<CallF>>, <<BreakStmtNode>>, FALSE)>>, <<>>, FALSE)>> >>,
     << <<"for", "(", ";", ";", "%a", "++", ")", "{", "continue", ";", "return", ";", "}">>,
        <<LoopStmtNode(NoNode, N, AssignOpExprNode("%a", NoNode, "+", FloatNode("1.0"), ""), <<ContinueStmtNode, ReturnStmtNode(NoNode)>>, FALSE)>> >>,
     << <<"do", "f", "(", ")", ";", "while", "(", "%a", ")", ";", "while", "(", "%b", ")", "{", "}">>,
        <<LoopStmtNode(NoNode, A, NoNode, <<CallF>>, TRUE), LoopStmtNode(NoNode, B, NoNode, <<>>, FALSE)>> >>,
     << <<"foreach", "(", "%a", "in", "x", ")", "f", "(", ")", ";", "foreach$", "(", "%a", "in", "%b", ")", "{", "}">>,
        <<IterStmtNode("%a", X, <<CallF>>, FALSE), IterStmtNode("%a", B, <<>>, TRUE)>> >>,
     << <<"switch", "(", "%a", ")", "{", "case", "1", "or", "x", "or", "%b", ":", "f", "(", ")", ";", "break", ";", "case", "x", ":", "default", ":", "f", "(", ")", ";", "}">>,
        <<IfStmtNode(IntBinaryExprNode("||", Eq(N), IntBinaryExprNode("||", Eq(X), Eq(B))), <<CallF, BreakStmtNode>>,
                     <<IfStmtNode(Eq(X), <<>>, <<CallF>>, TRUE)>>, TRUE)>> >>,
     << <<"switch$", "(", "%a", ")", "{", "case", "x", ":", "switch", "(", "%a", ")", "{", "case", "1", ":", "}", "f", "(", ")", ";", "}">>,
        <<IfStmtNode(StrEq(X), <<IfStmtNode(Eq(N), <<>>, <<>>, TRUE), CallF>>, <<>>, TRUE)>> >>,
     << <<"try", "{", "f", "(", ")", ";", "}", "catch", "(", "1", ")", "{", "break", ";", "}", "catch", "(", "%a", ")", "{", "doc", "}">>,
        <<TryStmtNode(<<CallF>>, <<CatchStmtNode(N, <<BreakStmtNode>>), CatchStmtNode(A, <<StrConstNode("doc", FALSE)>>)>>)>> >>,
     << <<"assert", "(", "%a", ",", "str", ")", ";", "assert", "(", "1", ")", ";">>, <<AssertCallExprNode(A, "str"), AssertCallExprNode(N, "")>> >>,
     << <<"%a", ":", "x", "=", "%b", "=", "1", ",", "x", ";", "%a", ":", "x", ";">>,
        <<AssignExprNode("%a", NoNode, AssignExprNode("%b", NoNode, TupleExprNode(<<N, X>>), ""), "x"), VarNode("%a", NoNode, "x")>> >>,
     << <<"%a", "[", "1", "]", "[", "x", ",", "%b", "]", "=", "1", ",", "%b", ";">>,
        <<AssignExprNode("%a", CommaCatExprNode(N, CommaCatExprNode(X, B)), TupleExprNode(<<N, B>>), "")>> >>,
     << <<"x", ".", "y", "=", "{", "1", ",", "%a", "}", ";">>, <<SlotAssignNode(X, "y", NoNode, N)>> >>,
     << <<"%a", "=", "new", "x", "(", ")", "{", "class", "=", "1", ",", "%b", ";", "y", "[", "1", "]", ":", "x", "=", "%a", ";", "new", "(", "%a", ")", "(", "y", ":", "x", ",", "1", ",", "%a", ")", ";", "}", ";">>,
        <<AssignExprNode("%a", NoNode, ObjectDeclNode(<<"new", X, FALSE, "">>, StrConstNode("", FALSE), <<>>,
            <<TypedSlot("class", "", TupleExprNode(<<N, B>>)), [TypedSlot("y", "x", A) EXCEPT !.index = N]>>,
            <<ObjectDeclNode(<<"new", A, FALSE, "x">>, ConstantNode("y"), <<N, A>>, <<>>, <<>>)>>), "")>> >>,
     << <<"singleton", "x", "(", "[", "y", "]", ")", ";", "datablock", "x", "(", "y", ":", "x", ")", "{", "datablock", "=", "1", ";", "}", ";">>,
        <<ObjectDeclNode(<<"singleton", X, TRUE, "">>, ConstantNode("y"), <<>>, <<>>, <<>>),
          ObjectDeclNode(<<"datablock", X, FALSE, "x">>, ConstantNode("y"), <<>>, <<TypedSlot("datablock", "", N)>>, <<>>)>> >>,
     << <<"package", "y", "{", "function", "x", "::", "f", "(", "%a", ",", "%b", ":", "x", ")", ":", "x", "{", "return", "%a", ";", "}", "signal", "f", "(", ")", ";", "}", ";", "f", "(", ")", ";">>,
        <<Fn("x", "f", <<A, VarNode("%b", NoNode, "x")>>, <<ReturnStmtNode(A)>>, "x", "y"),
          [FunctionNode("", "f", <<>>, <<>>, "", "Signal") EXCEPT !.package = "y"], CallF>> >>,
     << <<"class", "x", ":", "y", "{", "f", ":", "x", "=", "1", ";", "class", ";", "}", ";">>,
        <<ClassDeclStmtNode("x", "y", <<[name |-> "f", type |-> "x", default |-> N], [name |-> "class", type |-> "", default |-> NoNode]>>,
            Fn("x", "__kork_ctor", <<This>>, <<FuncCallExprNode(<<"Parent", "__kork_ctor", FALSE>>, <<This>>), TypedSlot("f", "x", N)>>, "", ""))>> >>,
     << <<"package", "y", "{", "}", ";", "function", "f", "(", ")", "{", "}">>, <<Fn("", "f", <<>>, <<>>, "", "")>> >>,
     << <<"f", "(", "strbeg", "str", "@", "%a", "+", "1", "@", "strend", ")", ";">>,
        <<FuncCallExprNode(<<"", "f", FALSE>>, <<StrcatExprNode(StrcatExprNode(StrConstNode("str", FALSE), FloatBinaryExprNode("+", A, N), ""), StrConstNode("strend", FALSE), "")>>)>> >> >>

\* Every short sequence of tokens, behind and before a few fixed ones.
Families ==
  << [before |-> <<"%a">>, after |-> <<";">>, with |-> {"=", "-", "%b", "1", "(", ")", "[", "]", ".", "x", ","}],
     [before |-> <<"x">>, after |-> <<")", ";">>, with |-> {"(", ")", ",", "?", ":", "->", "+=", "++", "%b", "x", "::"}],
     [before |-> <<>>, after |-> <<>>, with |-> {"if", "do", "while", "(", ")", "{", "}", ";", "%a", "else"}],
     [before |-> <<"if", "(", "%a", ")">>, after |-> <<"else", ";">>, with |-> {"return", "for", "(", ";", ")", "{", "}", "%a", "!"}],
     [before |-> <<"for", "(">>, after |-> <<>>, with |-> {";", "%a", ")", "=", "1", "break", "strbeg", "str"}] >>
AllFeatures == {"types", "tuples", "exceptions", "classes", "signals"}
-----------------------------------------------------------------------------
NoProgram == program = <<>> /\ features = {} /\ parsed = TokenError(0)
LexInit(s) == source = s /\ lexer = NewLexer /\ tokens = <<>>

LanguageInit ==
    \/ /\ part = "operators" /\ NoProgram
       /\ \E n \in 1..MaxSymbols : \E s \in [1..n -> OperatorChars] : LexInit(s)
       /\ expected = <<>>
    \/ /\ part = "pieces" /\ NoProgram
       /\ \E ps \in PieceLists : LexInit(Spelled(ps)) /\ expected = TokensOf(ps, 1, 1)
    \/ /\ part = "trees" /\ LexInit(<<>>)
       /\ \E i \in DOMAIN Inner, j \in 1..TreeCount :
             LET e == Outer(Inner[i])[j]
             IN expected = <<e>> /\ program = Show(e, 1) \o <<";">>
       /\ features \in {{}, AllFeatures} /\ parsed = TokenError(0)
    \/ /\ part = "samples" /\ LexInit(<<>>)
       /\ \E i \in DOMAIN Samples : program = Samples[i][1] /\ expected = Samples[i][2]
       /\ features = AllFeatures /\ parsed = TokenError(0)
    \/ /\ part = "tokens" /\ LexInit(<<>>)
       /\ \E i \in DOMAIN Families, n \in 0..MaxTokens :
             \E s \in [1..n -> Families[i].with] : program = Families[i].before \o s \o Families[i].after
       /\ features \in {{}, {"types"}} /\ parsed = TokenError(0) /\ expected = <<>>
LanguageNext ==
    \/ part \in {"operators", "pieces"} /\ ProcessToken /\ UNCHANGED <<program, features, parsed, part, expected>>
    \/ part \in {"trees", "samples", "tokens"} /\ ParseProgram /\ UNCHANGED <<source, lexer, tokens, part, expected>>

-----------------------------------------------------------------------------
(* The other parts. *)

\* obj.schedule with a delay in the past as well.
SignedDeltas == {-1, 2}
ConsolePassword == <<"x">>
ReadOnlyPassword == <<"x", "x">>

\* The interpreter with loops, in a fiber of its own: they nest, and run over
\* two sets and over text.
Loops == INSTANCE ScriptExec WITH
  Statements <- {"foreach", "foreach$", "yield", "delete"}, Functions <- {"f", "g"}, Sets <- {"s", "t"},
  MaxTry <- 1, MaxIter <- 2, MaxStackDepth <- 8, MaxFrames <- 1, MaxOpen <- 3, es <- loopState

LanguageParts == {"operators", "pieces", "trees", "samples", "tokens"}
OtherParts == {"exec", "loops", "events", "sockets", "addresses", "console"}
runtimeVars == <<part, es, loopState, eqVars, langVars, netVars, addressVars, telnetVars>>

\* A part that does not run stays in one of its first states.
AtRest(p, state) == IF part = p THEN TRUE ELSE state
RuntimeInit ==
    /\ part \in LanguageParts \cup OtherParts
    /\ AtRest("sockets", use = CHOOSE u \in Uses : TRUE) /\ NetInit
    /\ AtRest("addresses", text = CHOOSE t \in Texts : TRUE) /\ AddressInit
    /\ Init /\ Loops!Init /\ EQInit /\ TelnetInit
    /\ IF part \in LanguageParts THEN LanguageInit ELSE LexInit(<<>>) /\ NoProgram /\ expected = <<>>

Exec_ == part = "exec" /\ UNCHANGED <<part, loopState, eqVars, langVars, netVars, addressVars, telnetVars>>
Loops_ == part = "loops" /\ UNCHANGED <<part, es, eqVars, langVars, netVars, addressVars, telnetVars>>
Events_ == part = "events" /\ UNCHANGED <<part, es, loopState, langVars, netVars, addressVars, telnetVars>>
Language_ == part \in LanguageParts /\ UNCHANGED <<es, loopState, eqVars, netVars, addressVars, telnetVars>>
Sockets_ == part = "sockets" /\ UNCHANGED <<part, es, loopState, eqVars, langVars, addressVars, telnetVars>>
Addresses_ == part = "addresses" /\ UNCHANGED <<part, es, loopState, eqVars, langVars, netVars, telnetVars>>
Console_ == part = "console" /\ UNCHANGED <<part, es, loopState, eqVars, langVars, netVars, addressVars>>

\* The interpreter and the event queue go on for ever; the other parts may
\* come to their end.
Ended == part \notin {"exec", "loops", "events"} /\ UNCHANGED runtimeVars

RuntimeNext ==
    \/ Exec_ /\ Next
    \/ Loops_ /\ Loops!LoopsNext
    \/ Events_ /\ EQNext
    \/ Language_ /\ LanguageNext
    \/ Sockets_ /\ NetNext
    \/ Addresses_ /\ (StringToAddress \/ ListenAddress \/ AddressToString)
    \/ Console_ /\ TelnetNext
    \/ Ended
RuntimeSpec == RuntimeInit /\ [][RuntimeNext]_runtimeVars
-----------------------------------------------------------------------------
\* Loops keep what they iterate over and hold as many iterators as are open
\* (ScriptExec).
LoopsKept == Loops!LoopsConsistent

\* scanMultiOps takes the longest operator at every position: no operator is
\* read as the start of another.
LongestMatch ==
    part = "operators" /\ Over =>
      FlattenSeq([i \in DOMAIN tokens |->
        IF tokens[i].k \in {"end", "illegal"} THEN <<tokens[i].k>> ELSE tokens[i].v \o <<" ">>]) = Munch(source, 1)

\* Names, numbers, strings with escapes, docblocks and nested interpolated
\* strings come back as the tokens they were spelled from, on their lines,
\* whatever blanks and comments stand between them.
LexedBack == part = "pieces" /\ Over => tokens = expected

\* Both: what was written is what is read.
TokensAgree == LongestMatch /\ LexedBack

\* A chain of -> and -->.
IsChain(e) == e.k = "IntSlot" /\ e.obj.k = "IntSlot"
Chained == part = "trees" /\ IsChain(expected[1])

\* An expression printed with the parentheses that the operators' levels and
\* directions need is parsed back to the same tree, and statements to theirs.
\* Of chains of -> and --> this claims nothing, see ArrowsNestLeft.
ParsedBack ==
    part \in {"trees", "samples"} /\ parsed.p > 0 /\ ~Chained => parsed.ok /\ parsed.n = expected

\* a->b->c is (a->b)->c: "Everything else is left-assoc" (simpleParser.h:1496),
\* and the right side is to "bind tighter than '.'" (:1741).  Not so: it is
\* a->(b->c); no run checks this.
ArrowsNestLeft == Chained /\ parsed.p > 0 => parsed.ok /\ parsed.n = expected
=============================================================================
