------------------------------- MODULE Parser -------------------------------
(***************************************************************************)
(* From text to syntax trees: the tokenizer and the parser.                *)
(*                                                                         *)
(* The tokenizer (engine/console/simpleLexer.h): one step is one call of   *)
(* Tokenizer::next(), which skips blanks and comments, follows the nesting *)
(* of interpolated strings, and takes the next token off the source.       *)
(*                                                                         *)
(* A source is a sequence of symbols.  A symbol is a character, except     *)
(* that a whole word of letters is one symbol: nothing in the lexer looks  *)
(* into a word but the table of keywords.                                  *)
(***************************************************************************)
EXTENDS Ast, FiniteSets, SequencesExt, FiniteSetsExt

CONSTANTS
    Letters,         \* symbols that a name may start with: words
    Interpolation,   \* InterpolationState::doInterp
    ScriptClasses    \* mEnableScriptClasses

VARIABLES source, lexer, tokens

lexVars == <<source, lexer, tokens>>

Digits == {"0", "1"}
IdTail == Letters \cup Digits            \* isIdTail
VarMid == IdTail \cup {":"}              \* isVarMid
Spaces == {" ", "\t"}                    \* isSpace
Singles == {"?", "[", "]", "(", ")", "+", "-", "*", "/", "<", ">", "|", ".", "!",
            ":", ";", "{", "}", ",", "&", "%", "^", "~", "="}

ASSUME LexerAssumption == Letters \cap (Digits \cup Singles) = {}

\* Tokens; an operator, a name or a text is the value v.
Tok(kind, v, line) == [k |-> kind, v |-> v, line |-> line]

\* InterpolationState: nested strings, whether the cursor is in the text of
\* one or in the braces of one, and whether an "@" is due.
NoInterp == [depth |-> 0, lit |-> FALSE, brace |-> FALSE, concat |-> FALSE]
NewLexer == [p |-> 1, line |-> 1, in |-> NoInterp]

\* peek: the symbol at p, "" behind the end.
At(s, p) == IF p <= Len(s) THEN s[p] ELSE ""
LooksAt(s, p, w) == \A i \in DOMAIN w : At(s, p + i - 1) = w[i]
RunEnd(s, p, S) == Min({q \in p .. Len(s) + 1 : At(s, q) \notin S})
FindFrom(s, p, c) == Min({q \in p .. Len(s) + 1 : At(s, q) \in {c, ""}})
Newlines(s, p, q) == Cardinality({i \in p .. q - 1 : s[i] = "\n"})
-----------------------------------------------------------------------------
(* Blanks, comments and docblocks. *)

matchDocblockStart(s, p) == LooksAt(s, p, <<"/", "/", "/">>) /\ At(s, p + 3) # "/"

\* Where a block comment that starts at p ends, 0 if it does not.
skipBlockComment(s, p) ==
    LET Ends == {q \in p + 4 .. Len(s) + 1 : s[q - 2] = "*" /\ s[q - 1] = "/"}
    IN IF Ends = {} THEN 0 ELSE Min(Ends)

\* Where the next token starts, 0 for a comment that is not closed.
RECURSIVE Skip(_, _)
Skip(s, p) ==
    IF At(s, p) \in Spaces \cup {"\r", "\n"} THEN Skip(s, p + 1)
    ELSE IF LooksAt(s, p, <<"/", "/">>) /\ ~matchDocblockStart(s, p)
    THEN Skip(s, FindFrom(s, p, "\n"))
    ELSE IF LooksAt(s, p, <<"/", "*">>)
    THEN IF skipBlockComment(s, p) = 0 THEN 0 ELSE Skip(s, skipBlockComment(s, p))
    ELSE p

\* The lines of a docblock: their text without the slashes and without CR.
RECURSIVE scanDocblock(_, _)
scanDocblock(s, p) ==
    IF ~matchDocblockStart(s, p) THEN [v |-> <<>>, p |-> p]
    ELSE LET end == FindFrom(s, p, "\n")
             next == IF end <= Len(s) THEN end + 1 ELSE end
             rest == scanDocblock(s, next)
         IN [v |-> SelectSeq(SubSeq(s, p + 3, next - 1), LAMBDA c : c # "\r") \o rest.v,
             p |-> rest.p]
-----------------------------------------------------------------------------
(* Strings.  A byte of a decoded text is its symbol, or the name of a      *)
(* control code; NUL bytes are compacted away.                             *)

HexByte(a, b) == IF a = "0" THEN (IF b = "0" THEN <<>> ELSE <<"SOH">>)
                 ELSE (IF b = "0" THEN <<"DLE">> ELSE <<"DC1">>)
\* The codes of \c: the map of ten colours (0 and 1 here), and r, p, o.
ColorByte(k) == CASE k = "0" -> <<"SOH">> [] k = "1" -> <<"STX">>
                  [] k = "r" -> <<"SI">> [] k = "p" -> <<"DLE">> [] k = "o" -> <<"DC1">>
                  [] OTHER -> <<>>
convEscape(c) == CASE c = "n" -> <<"\n">> [] c = "t" -> <<"\t">> [] c = "r" -> <<"\r">>
                   [] OTHER -> <<c>>

\* A first byte of 1 would mark a tag: it is stored behind a 2.
Guarded(out, byte) == IF out = <<>> /\ byte = <<"SOH">> THEN <<"STX", "SOH">> ELSE out \o byte

Broken == [k |-> "illegal", v |-> <<>>, p |-> 0, q |-> ""]

\* decodeStringInPlace from p, out being decoded so far and "some" whether
\* anything was (firstOut); quotes holds the closing quote and its
\* alternative.
RECURSIVE Decode(_, _, _, _, _)
Decode(s, p, quotes, out, some) ==
    LET c == At(s, p)  e == At(s, p + 1)  k == At(s, p + 2)
        Put(byte) == IF some THEN out \o byte ELSE Guarded(<<>>, byte)
    IN CASE c \in {"", "\n"} -> Broken
         [] c = "\r" -> Decode(s, p + 1, quotes, out, some)
         [] c \in quotes -> [k |-> "str", v |-> out, p |-> p + 1, q |-> c]
         [] c = "\\" /\ e = "x" ->
              IF {k, At(s, p + 3)} \subseteq Digits
              THEN Decode(s, p + 4, quotes, Put(HexByte(k, At(s, p + 3))), TRUE) ELSE Broken
         [] c = "\\" /\ e = "c" ->
              IF ColorByte(k) # <<>> THEN Decode(s, p + 3, quotes, Put(ColorByte(k)), TRUE)
              ELSE Broken
         [] c = "\\" /\ e \notin {"x", "c"} ->
              IF e = "" THEN Broken ELSE Decode(s, p + 2, quotes, Put(convEscape(e)), TRUE)
         [] OTHER -> Decode(s, p + 1, quotes, Append(out, c), TRUE)
-----------------------------------------------------------------------------
(* Operators, numbers and names. *)

\* Mutant: two symbols before three.
MultiOpsShortFirst ==
    << <<"-","-">>, <<">","=">>, <<"-","-",">">>, <<">",">","=">>, <<"<","<","=">>, <<"=","=">>,
       <<"!","=">>, <<"<","=">>, <<"&","&">>, <<"|","|">>, <<":",":">>, <<"+","+">>,
       <<"$","=">>, <<"!","$","=">>, <<"<","<">>, <<">",">">>, <<"+","=">>,
       <<"-","=">>, <<"*","=">>, <<"/","=">>, <<"%","=">>, <<"&","=">>, <<"^","=">>,
       <<"|","=">>, <<"-",">">> >>
\* The tests of scanMultiOps, in their order.
MultiOps ==
    << <<"-","-",">">>, <<">",">","=">>, <<"<","<","=">>, <<"=","=">>, <<"!","=">>,
       <<">","=">>, <<"<","=">>, <<"&","&">>, <<"|","|">>, <<":",":">>, <<"-","-">>,
       <<"+","+">>, <<"$","=">>, <<"!","$","=">>, <<"<","<">>, <<">",">">>, <<"+","=">>,
       <<"-","=">>, <<"*","=">>, <<"/","=">>, <<"%","=">>, <<"&","=">>, <<"^","=">>,
       <<"|","=">>, <<"-",">">> >>
scanMultiOps(s, p) ==
    LET I == {i \in DOMAIN MultiOps : LooksAt(s, p, MultiOps[i])}
    IN IF I = {} THEN <<>> ELSE MultiOps[Min(I)]

MagicAtoms == [NL |-> <<"\n">>, TAB |-> <<"\t">>, SPC |-> <<" ">>]
isMagicAtom(s, p) == At(s, p) \in DOMAIN MagicAtoms /\ At(s, p + 1) \notin IdTail

\* scanNumber: where the number ends, 0 when the exponent is bad, and
\* whether it is a float.
scanNumber(s, p) ==
    LET q1 == RunEnd(s, IF s[p] = "." THEN p + 1 ELSE p, Digits)
        q2 == IF At(s, q1) = "." THEN RunEnd(s, q1 + 1, Digits) ELSE q1
        exp == At(s, q2) \in {"e", "E"}
        q3 == IF At(s, q2 + 1) \in {"+", "-"} THEN q2 + 2 ELSE q2 + 1
        bad == exp /\ At(s, q3) \notin Digits
        end == IF exp THEN RunEnd(s, q3, Digits) ELSE q2
    IN [p |-> IF bad THEN 0 ELSE end, flt |-> exp \/ s[p] = "." \/ q2 # q1,
        v |-> SubSeq(s, p, end - 1)]

\* scanHex: 0x and at least one hexadecimal digit.
HexDigits == Digits \cup {"c", "e"}
isHexLiteral(s, p) == LooksAt(s, p, <<"0", "x">>) /\ At(s, p + 2) \in HexDigits
scanHex(s, p) == LET end == RunEnd(s, p + 2, HexDigits) IN [v |-> SubSeq(s, p, end - 1), p |-> end]

Keywords == {<<"in">>, <<"or">>, <<"if">>, <<"return">>, <<"foreach", "$">>, <<"foreach">>,
             <<"for">>, <<"switch", "$">>, <<"switch">>, <<"class">>, <<"true">>, <<"false">>}

\* A "$" behind a word is taken along, and given back if that is no keyword.
scanIdentOrKeyword(s, p) ==
    LET end == RunEnd(s, p, IdTail)
        word == SubSeq(s, p, end - 1)
        full == IF At(s, end) = "$" THEN Append(word, "$") ELSE word
    IN IF full \notin Keywords \/ (full = <<"class">> /\ ~ScriptClasses)
       THEN [k |-> "ident", v |-> word, p |-> end]
       ELSE IF full \in {<<"true">>, <<"false">>}
       THEN [k |-> "int", v |-> (IF full = <<"true">> THEN <<"1">> ELSE <<"0">>), p |-> end]
       ELSE [k |-> "kw", v |-> full, p |-> p + Len(full)]

\* scanVar: colons are part of a name, but not at its end.
scanVar(s, p) ==
    LET end == RunEnd(s, p + 1, VarMid)
        last == Max({q \in p + 1 .. end - 1 : s[q] \in IdTail})
    IN [v |-> SubSeq(s, p, last), p |-> last + 1]
-----------------------------------------------------------------------------
(* next().  The result is a token and the lexer behind it. *)

Got(l, k, v, p) == [tok |-> Tok(k, v, l.line), lx |-> [l EXCEPT !.p = p]]
Illegal(l) == Got(l, "illegal", <<>>, l.p)

StringEnds(l) == [depth |-> l.in.depth - 1, lit |-> FALSE, brace |-> l.in.depth > 1,
                  concat |-> FALSE]

\* scanInterpLiteralSegment: the text up to the next brace or the quote.
scanInterpLiteralSegment(s, l) ==
    LET d == Decode(s, l.p, {"\"", "{"}, <<>>, FALSE)
    IN IF d.k = "illegal" THEN Illegal(l)
       ELSE IF d.q = "\""
       THEN [Got(l, "strend", d.v, d.p) EXCEPT !.lx.in = StringEnds(l)]
       ELSE [Got(l, "str", d.v, d.p) EXCEPT
               !.lx.in.brace = TRUE, !.lx.in.lit = FALSE, !.lx.in.concat = TRUE]

scanString(s, l) ==
    LET d == Decode(s, l.p + 1, {s[l.p]}, <<>>, FALSE)
    IN IF d.k = "illegal" THEN Illegal(l)
       ELSE Got(l, IF s[l.p] = "'" THEN "tag" ELSE "str", d.v, d.p)

\* A token that is not a blank, at l.p.
scanToken(s, l) ==
    LET p == l.p  c == s[p]  op == scanMultiOps(s, p)
        num == scanNumber(s, p)  hex == scanHex(s, p)  word == scanIdentOrKeyword(s, p)  var == scanVar(s, p)
    IN IF l.in.brace /\ c = ";" THEN Illegal(l)
       ELSE IF l.in.brace /\ c = "}"
       THEN [Got(l, "concat", <<>>, p + 1) EXCEPT !.lx.in.brace = FALSE, !.lx.in.lit = TRUE]
       ELSE IF Interpolation /\ LooksAt(s, p, <<"$", "\"">>)
       THEN [Got(l, "strbeg", <<>>, p + 2) EXCEPT
               !.lx.in.depth = @ + 1, !.lx.in.lit = TRUE, !.lx.in.brace = FALSE]
       ELSE IF c \in {"\"", "'"} THEN scanString(s, l)
       ELSE IF op # <<>> THEN Got(l, "op", op, p + Len(op))
       ELSE IF isMagicAtom(s, p) THEN Got(l, "concat", MagicAtoms[c], p + 1)
       ELSE IF c = "@" THEN Got(l, "concat", <<>>, p + 1)
       ELSE IF isHexLiteral(s, p) THEN Got(l, "int", hex.v, hex.p)
       ELSE IF (c \in Digits \/ (c = "." /\ At(s, p + 1) \in Digits)) /\ num.p # 0
       THEN Got(l, IF num.flt THEN "flt" ELSE "int", num.v, num.p)
       ELSE IF c \in {"$", "%"} /\ At(s, p + 1) \in Letters THEN Got(l, "var", var.v, var.p)
       ELSE IF c \in {"$", "%"} /\ At(s, p + 1) \in Digits THEN Illegal(l)
       ELSE IF c \in Letters THEN Got(l, word.k, word.v, word.p)
       ELSE IF c \in Singles THEN Got(l, "char", <<c>>, p + 1)
       ELSE Illegal(l)

InText(l) == l.in.depth > 0 /\ l.in.lit /\ ~l.in.brace

next(s, l) ==
    LET q == Skip(s, l.p)
        here == [l EXCEPT !.p = q, !.line = @ + Newlines(s, l.p, q)]
        doc == scanDocblock(s, q)
    IN IF l.in.concat THEN [Got(l, "concat", <<>>, l.p) EXCEPT !.lx.in.concat = FALSE]
       ELSE IF l.p > Len(s) THEN Got(l, "end", <<>>, l.p)
       ELSE IF InText(l) THEN scanInterpLiteralSegment(s, l)
       ELSE IF q = 0 THEN Illegal(l)
       ELSE IF q > Len(s) THEN Got(here, "end", <<>>, q)
       ELSE IF matchDocblockStart(s, q)
       THEN [Got(here, "doc", doc.v, doc.p) EXCEPT
               !.lx.line = @ + Newlines(s, q, doc.p)]
       ELSE scanToken(s, here)

Over == tokens # <<>> /\ Last(tokens).k \in {"end", "illegal"}

\* ASTGen::processTokens
ProcessToken ==
    LET n == next(source, lexer)
    IN /\ ~Over
       /\ tokens' = Append(tokens, n.tok) /\ lexer' = n.lx
       /\ UNCHANGED source
-----------------------------------------------------------------------------
(***************************************************************************)
(* The parser (engine/console/simpleParser.h).  A parse function is the    *)
(* form it reads: tokens it expects, other parse functions it calls, and   *)
(* the node it allocates from their results, chosen by the tokens ahead.   *)
(* Derive reads a program with a stack of what is left to do and a stack of   *)
(* what has been built.  A token is a string, its kind the set it is in;   *)
(* "" is what LA gives behind the last token.  Lines are left out.         *)
(***************************************************************************)
CONSTANTS VarTokens, IdentTokens, IntTokens, FloatTokens

VARIABLES program,    \* the tokens
          features,   \* allowTypes, allowTuples, allowExceptions, ... of the VM
          parsed      \* what parseProgram returned

parserVars == <<program, features, parsed>>

ASSUME ParserAssumption == VarTokens \cap IdentTokens = {}

LA(ts, p) == IF p <= Len(ts) THEN ts[p] ELSE ""

\* Items of a form: a token, a token whose text is kept, a function to call,
\* a value that is put in the place of a missing part, a node of n parts.
T(tok) == [r |-> "token", a |-> tok]
Keep(S) == [r |-> "keep", a |-> S]
Call(rule, a) == [r |-> rule, a |-> a]
Push(v) == [r |-> "push", a |-> v]
Make(node, n) == [r |-> "make", a |-> <<node, n>>]
Error == <<T("error")>>

Expr == Call("Expr", 0)
Power(bp) == Call("Expr", bp)
Stmt == Call("Stmt", 0)
Body == Call("Body", 0)
BlockItem == Call("Block", 0)
Type == Call("Type", 0)
Aidx == Call("Aidx", 0)
Index == Call("Index", 0)
Ident == Keep(IdentTokens)
expectIdentLike == Keep(IdentTokens \cup {"class", "datablock"})
List(end) == Call("List", end)
More(sep, item) == Call("More", <<sep, item>>)
Until(stops) == Call("Until", stops)

\* A part that the token tok starts, or none.
Optional(t, tok, form, none) == IF t = tok THEN form ELSE <<Push(none)>>
\* while (matchChar(sep)) item: appended to the list built so far.
parseMore(t, sep, item) ==
    IF t = sep THEN <<T(sep), item, Make("append", 2), More(sep, item)>> ELSE <<>>
\* Statements up to the end of the tokens or a token of stops.
parseStmtNodeListUntilSC(t, stops) ==
    IF t \in stops \cup {""} THEN <<>> ELSE <<Stmt, Make("append", 2), Until(stops)>>
parseCaseBody == <<Push(<<>>), Until({"case", "default", "}"})>>
parseBlockStmt == <<T("{"), Push(<<>>), Until({"}"}), T("}")>>
parseStmtOrBlock(t) == IF t = "{" THEN <<BlockItem>> ELSE <<Stmt, Make("one", 1)>>
parseExprListOptUntil(t, end) ==
    IF t = end THEN <<Push(<<>>)>> ELSE <<Expr, Make("one", 1), More(",", Expr)>>
\* aidx_expr: expressions joined by "_".
parseAidxExprNode == <<Expr, Make("one", 1), More(",", Expr), Make("aidx", 1)>>
-----------------------------------------------------------------------------
(* Variables with types, and tuples. *)

\* A type behind ":"; "" when there is none.
parseType(t) ==
    IF t # ":" THEN <<Push("")>> ELSE IF "types" \in features THEN <<T(":"), Ident>> ELSE Error
\* For a variable that was read: nothing when an index follows.
parseTypedVar(t) == IF t = "[" THEN Error ELSE <<Type, Make("typedVar", 2)>>
parseVarList(t) ==
    IF t = ")" THEN <<Push(<<>>)>> ELSE <<Call("Var", 0), Make("one", 1), More(",", Call("Var", 0))>>

asAssign(e) == e.k \in {"Assign", "AssignOp", "SlotAssign", "SlotAssignOp"}
RECURSIVE verifyTupleAssignment(_)
verifyTupleAssignment(e) ==
    asAssign(e) => e.k \in {"Assign", "SlotAssign"} /\ verifyTupleAssignment(e.rhs)
\* The items become the right side of the innermost assignment.
RECURSIVE Graft(_, _)
Graft(e, items) ==
    IF asAssign(e.rhs) THEN [e EXCEPT !.rhs = Graft(@, items)]
    ELSE [e EXCEPT !.rhs = TupleExprNode(<<@>> \o items)]
\* An item of a list without an assignment: parseTypedVar(LA()) does not
\* take the variable off the tokens, so that is what follows it.
ListItem(t, slot) ==
    IF slot \/ t = "[" THEN <<Expr>> ELSE <<Push(t), Type, Make("typedVar", 2), Call("From", 0)>>
parseItems(t, slot) ==
    IF t # "," THEN <<>>
    ELSE <<T(","), Call("ListItem", slot), Make("append", 2), Call("Items", slot)>>
\* e is the expression before the comma.
handleExpressionTuples(t, e, slot) ==
    IF t # "," THEN <<>>
    ELSE IF "tuples" \notin features \/ ~verifyTupleAssignment(e) THEN Error
    ELSE IF asAssign(e) THEN <<Push(<<>>), More(",", Expr), Make("graft", 2)>>
    ELSE <<Make("one", 1), Call("Items", slot), Make("tuple", 1)>>
-----------------------------------------------------------------------------
(* Expressions. *)

Assigns == {"=", "+=", "-=", "*=", "/=", "%=", "&=", "^=", "|=", "<<=", ">>="}
\* processCharOp: the operator of a compound assignment.
processCharOp(op) ==
    CASE op = "+=" -> "+" [] op = "-=" -> "-" [] op = "*=" -> "*" [] op = "/=" -> "/"
      [] op = "%=" -> "%" [] op = "&=" -> "&" [] op = "^=" -> "^" [] op = "|=" -> "|"
      [] op = "<<=" -> "<<" [] op = ">>=" -> ">>" [] OTHER -> op
Glues == [c \in {"@", "NL", "SPC", "TAB"} |-> IF c = "@" THEN "" ELSE c]

\* Mutant: string comparison below relations.
lbpStringsLow(t) ==
    CASE t \in Assigns -> 10 [] t = "?" -> 15 [] t = "||" -> 20 [] t = "&&" -> 30
      [] t = "|" -> 40 [] t = "^" -> 45 [] t = "&" -> 50 [] t \in {"==", "!="} -> 60
      [] t \in {"<", ">", "<=", ">="} -> 70 [] t \in DOMAIN Glues \cup {"$=", "!$="} -> 65
      [] t \in {"<<", ">>"} -> 80 [] t \in {"+", "-"} -> 90 [] t \in {"*", "/", "%"} -> 100
      [] t = "." -> 130 [] t \in {"->", "-->"} -> 135 [] t = "[" -> 140
      [] t \in {"++", "--"} -> 145 [] OTHER -> 0
lbp(t) ==
    CASE t \in Assigns -> 10 [] t = "?" -> 15 [] t = "||" -> 20 [] t = "&&" -> 30
      [] t = "|" -> 40 [] t = "^" -> 45 [] t = "&" -> 50 [] t \in {"==", "!="} -> 60
      [] t \in {"<", ">", "<=", ">="} -> 70 [] t \in DOMAIN Glues \cup {"$=", "!$="} -> 75
      [] t \in {"<<", ">>"} -> 80 [] t \in {"+", "-"} -> 90 [] t \in {"*", "/", "%"} -> 100
      [] t = "." -> 130 [] t \in {"->", "-->"} -> 135 [] t = "[" -> 140
      [] t \in {"++", "--"} -> 145 [] OTHER -> 0
associativity(t) == IF t \in Assigns \cup {"?"} THEN "right" ELSE "left"
Right(op) == Power(IF associativity(op) = "left" THEN lbp(op) ELSE lbp(op) - 1)

InternalNode(o, x, op) == [k |-> "IntSlot", obj |-> o, slot |-> x, recurse |-> op = "-->"]
TTagDerefNode(e) == [k |-> "Deref", expr |-> e]
BinaryNode(op, l, r) ==
    CASE op \in {"+", "-", "*", "/", "%"} -> FloatBinaryExprNode(op, l, r)
      [] op \in {"$=", "!$="} -> StreqExprNode(l, r, op = "$=")
      [] op \in DOMAIN Glues -> StrcatExprNode(l, r, Glues[op])
      [] OTHER -> IntBinaryExprNode(op, l, r)
\* makeAssign, and the same for ++ and --; an operator drops the type.
makeAssign(op, l, r) ==
    IF l.k = "Var" THEN IF op = "=" THEN AssignExprNode(l.name, l.index, r, l.typed)
                        ELSE AssignOpExprNode(l.name, l.index, processCharOp(op), r, "")
    ELSE IF op = "=" THEN SlotAssignNode(l.obj, l.name, l.index, r)
    ELSE SlotAssignOpNode(l.obj, l.name, l.index, processCharOp(op), r)
IndexedNode(v, i) == [v EXCEPT !.index = IF Exists(@) THEN CommaCatExprNode(@, i) ELSE i]
\* The node of an infix operator.
InfixNode(l, op, r) ==
    CASE op \in {"->", "-->"} -> InternalNode(l, r, op) [] op \in Assigns -> makeAssign(op, l, r)
      [] OTHER -> BinaryNode(op, l, r)

Args == <<T("("), List(")"), T(")")>>
\* ".": a call with the object as first argument, or a slot; t follows the name.
parseMember(t) ==
    <<T("."), expectIdentLike>>
      \o (IF t = "(" THEN Args \o <<Make("method", 3)>> ELSE <<Index, Make("slot", 3)>>)
\* Postfix and infix operators: op is ahead, t two and u three tokens on; l
\* is the left side.
led(op, t, u, l) ==
    CASE op \in Assigns \cup {"++", "--"} /\ l.k \notin {"Var", "Slot"} -> Error
      [] op = "[" -> IF l.k = "Var" THEN <<T("["), Aidx, T("]"), Make("index", 2)>> ELSE Error
      [] op = "?" -> <<T("?"), Expr, T(":"), Right(op), Make("cond", 3)>>
      [] op = "=" /\ l.k = "Slot" /\ t = "{" -> <<Keep({op}), T("{"), List("}"), T("}"), Make("head", 1), Make("infix", 3)>>
      [] op \in {"++", "--"} -> <<T(op), Push(IF op = "++" THEN "+=" ELSE "-="), Push(FloatNode("1.0")), Make("infix", 3)>>
      [] op = "." -> parseMember(u)
      [] op \in {"->", "-->"} -> <<Keep({op}), Power(130), Make("infix", 3)>>
      [] OTHER -> <<Keep({op}), Right(op), Make("infix", 3)>>
parseExpressionFrom(ts, p, l, rbp) ==
    IF lbp(LA(ts, p)) <= rbp THEN <<>>
    ELSE led(ts[p], LA(ts, p + 1), LA(ts, p + 2), l) \o <<Call("From", rbp)>>

\* A name, a call or a call with a namespace; t follows the name.
parseName(t) ==
    CASE t = "::" -> <<expectIdentLike, T("::"), expectIdentLike>> \o Args \o <<Make("call", 3)>>
      [] t = "(" -> <<Push(""), expectIdentLike>> \o Args \o <<Make("call", 3)>>
      [] OTHER -> <<expectIdentLike, Make("name", 1)>>
\* Prefix operators and primaries: c is ahead, t follows.
nud(c, t) ==
    CASE c \in IntTokens \cup FloatTokens \cup {"str", "strend", "doc", "tag"} -> <<Keep({c}), Make("literal", 1)>>
      [] c \in IdentTokens \cup {"class", "datablock"} -> parseName(t)
      [] c \in VarTokens -> <<Keep({c}), Push(""), Make("typedVar", 2)>>
      [] c \in {"new", "singleton"} -> <<Call("Object", 0)>>
      [] c = "(" -> <<T("("), Expr, T(")")>>
      [] c \in {"-", "!", "~", "*"} -> <<Keep({c}), Power(110), Make("unary", 2)>>
      [] OTHER -> Error
LiteralNode(t) ==
    CASE t \in IntTokens -> IntNode(t) [] t \in FloatTokens -> FloatNode(t) [] OTHER -> StrConstNode(t, t = "tag")
UnaryNode(op, e) ==
    CASE op = "-" -> FloatUnaryExprNode(e) [] op = "*" -> TTagDerefNode(e) [] OTHER -> IntUnaryExprNode(op, e)
\* Behind the last token there is no expression, and no error yet.
parseExpression(c, rbp) ==
    CASE c = "" -> <<Push(NoNode)>>
      [] c = "strbeg" -> <<T("strbeg"), Call("Nud", 0), Call("From", rbp)>>
      [] OTHER -> <<Call("Nud", 0), Call("From", rbp)>>
-----------------------------------------------------------------------------
(* Objects. *)

parseClassNameExpr(t) == IF t = "(" THEN <<T("("), Expr, T(")")>> ELSE <<Ident, Make("name", 1)>>
ClassName == Call("ClassName", 0)
Parent == Call("Parent", 0)
Slots == <<Push(<<>>), Call("Slots", 0)>>
beginsSlotAssign(c, t) == c \in {"datablock", "class"} \/ (c \in IdentTokens /\ t \in {"=", "[", ":"})
parseSlotAssign ==
    <<expectIdentLike, Index, Type, T("="), Expr, Call("Tuples", TRUE), T(";"), Make("slotAssign", 4)>>
parseSlotAssignList(c, t) ==
    IF beginsSlotAssign(c, t) THEN parseSlotAssign \o <<Make("append", 2), Call("Slots", 0)>> ELSE <<>>
parseSubObjects(c) ==
    IF c \in {"new", "singleton"} THEN <<Call("Object", 0), T(";"), Make("append", 2), Call("Objects", 0)>> ELSE <<>>
\* ( name : parent , args ): [name] gives an internal name, none the text "".
parseObjectName(c) ==
    CASE c = ")" -> <<Push(StrConstNode("", FALSE)), Push(FALSE), Push(""), Push(<<>>)>>
      [] c = "[" -> <<T("["), Expr, T("]"), Push(TRUE), Parent, Call("Args", 0)>>
      [] OTHER -> <<Expr, Push(FALSE), Parent, Call("Args", 0)>>
parseObjectBody(c) ==
    IF c = "{" THEN <<T("{")>> \o Slots \o <<Push(<<>>), Call("Objects", 0), T("}")>>
    ELSE <<Push(<<>>), Push(<<>>)>>
parseObjectDecl ==
    <<Keep({"new", "singleton"}), ClassName, T("("), Call("ObjectName", 0), T(")"), Call("ObjectBody", 0), Make("object", 8)>>
parseDatablockDecl ==
    <<Keep({"datablock"}), ClassName, T("("), Expr, Push(FALSE), Parent, T(")"), Push(<<>>), T("{")>>
      \o Slots \o <<T("}"), T(";"), Push(<<>>), Make("object", 8)>>
SlotNode(x, i, type, e) == [SlotAssignNode(NoNode, x, i, e) EXCEPT !.name = <<x, type>>]
-----------------------------------------------------------------------------
(* Statements. *)

Condition == <<T("("), Expr, T(")")>>
parseIfStmt == <<T("if")>> \o Condition \o <<Body, Call("Else", 0), Make("if", 3)>>
parseTryStmt ==
    IF "exceptions" \in features THEN <<T("try"), BlockItem, Push(<<>>), Call("Catches", 1), Make("try", 2)>> ELSE Error
\* At least one; an empty block is an error.
parseCatchChain(t, least) ==
    IF t = "catch" THEN <<T("catch")>> \o Condition
                        \o <<BlockItem, Call("NotEmpty", 0), Make("catch", 2), Make("append", 2), Call("Catches", 0)>>
    ELSE IF least = 1 THEN Error ELSE <<>>
parseWhileLike(t) ==
    IF t = "while" THEN <<T("while")>> \o Condition \o <<Body, Make("while", 2)>>
    ELSE <<T("do"), Body, T("while")>> \o Condition \o <<T(";"), Make("do", 2)>>
OptExpr(end) == Call("OptExpr", end)
parseForStmt ==
    <<T("for"), T("("), OptExpr(";"), T(";"), OptExpr(";"), T(";"), OptExpr(")"), T(")"), Body, Make("for", 4)>>
parseForeachStmt(t) == <<Keep({t}), T("("), Keep(VarTokens), T("in"), Expr, T(")"), Body, Make("foreach", 4)>>

emitEqNode(l, r, string) ==
    IF string THEN StreqExprNode(l, r, TRUE) ELSE IntBinaryExprNode("==", l, r)
\* IfStmtNode::getSwitchOR, propagateSwitchExpr
RECURSIVE getSwitchOR(_, _, _)
getSwitchOR(l, list, string) ==
    IF Len(list) = 1 THEN emitEqNode(l, list[1], string)
    ELSE IntBinaryExprNode("||", emitEqNode(l, list[1], string), getSwitchOR(l, Tail(list), string))
RECURSIVE propagateSwitchExpr(_, _, _)
propagateSwitchExpr(c, l, string) ==
    [IfStmtNode(getSwitchOR(l, c.test, string), c.then, c.else, TRUE)
       EXCEPT !.else = IF c.propagate THEN <<propagateSwitchExpr(@[1], l, string)>> ELSE @]
parseCaseBlock ==
    <<T("case"), Expr, Make("one", 1), More("or", Expr), T(":")>> \o parseCaseBody
      \o <<Call("CaseRest", 0), Make("case", 4)>>
\* What follows the body of a case: default, the next case or nothing.
parseCaseRest(t) ==
    CASE t = "default" -> <<T("default"), T(":")>> \o parseCaseBody \o <<Push(FALSE)>>
      [] t = "case" -> <<Call("Case", 0), Make("one", 1), Push(TRUE)>>
      [] OTHER -> <<Push(<<>>), Push(FALSE)>>
parseSwitchStmt(t) == <<Keep({t})>> \o Condition \o <<T("{"), Call("Case", 0), T("}"), Make("switch", 3)>>

AssertCallExprNode(e, msg) == [k |-> "Assert", test |-> e, msg |-> msg]
parseAssertStmt == <<T("assert"), T("("), Expr, Call("Message", 0), T(")"), T(";"), Make("assert", 2)>>
parseReturnStmt == <<T("return"), OptExpr(";"), T(";"), Make("return", 1)>>
\* A statement that starts with a variable may give it a type and be a tuple.
parseVarStmt(c, t) ==
    CASE "types" \notin features -> <<Expr>>
      [] "types" \in features /\ t = "[" -> <<Expr, Call("Tuples", FALSE)>>
      [] OTHER -> <<Keep({c})>> \o parseTypedVar(t) \o <<Call("From", 0), Call("Tuples", FALSE)>>

parseStmtNode(c, t) ==
    CASE c = "if" -> parseIfStmt
      [] c = "try" -> parseTryStmt
      [] c \in {"while", "do"} -> parseWhileLike(c)
      [] c = "for" -> parseForStmt
      [] c \in {"foreach", "foreach$"} -> parseForeachStmt(c)
      [] c \in {"switch", "switch$"} -> parseSwitchStmt(c)
      [] c = "datablock" -> parseDatablockDecl
      [] c = "class" -> <<Call("ClassDecl", 0)>>
      [] c \in {"new", "singleton"} -> parseObjectDecl \o <<T(";")>>
      [] c \in {"break", "continue"} -> <<Keep({c}), T(";"), Make("jump", 1)>>
      [] c = "return" -> parseReturnStmt
      [] c = "assert" -> parseAssertStmt
      [] c = "doc" -> <<Keep({c}), Make("literal", 1)>>
      [] c \in VarTokens -> parseVarStmt(c, t) \o <<T(";")>>
      [] OTHER -> <<Expr, T(";")>>
-----------------------------------------------------------------------------
(* Declarations. *)

ClassDeclStmtNode(x, parent, fields, ctor) ==
    [k |-> "Class", name |-> x, parent |-> parent, fields |-> fields, ctor |-> ctor]
FunctionNode(ns, x, args, body, type, kind) ==
    [k |-> kind, ns |-> ns, name |-> x, args |-> args, body |-> body, type |-> type, package |-> ""]
This == VarNode("%this", NoNode, "")
parseField == <<expectIdentLike, Type, Call("Default", 0), T(";"), Make("field", 3)>>
parseClassFieldList(t) ==
    IF t \in {"}", ""} THEN <<>> ELSE parseField \o <<Make("append", 2), Call("Fields", 0)>>
\* The constructor calls the parent's, then sets the fields with a default.
buildScriptClassCtor(x, parent, fields) ==
    LET sets == SelectSeq(fields, LAMBDA f : Exists(f.default))
    IN FunctionNode(x, "__kork_ctor", <<This>>,
         (IF parent = "" THEN <<>> ELSE <<FuncCallExprNode(<<"Parent", "__kork_ctor", FALSE>>, <<This>>)>>)
           \o [i \in DOMAIN sets |-> SlotNode(sets[i].name, NoNode, sets[i].type, sets[i].default)], "", "Function")
parseClassDecl ==
    IF "classes" \notin features THEN Error
    ELSE <<T("class"), Ident, Parent, T("{"), Push(<<>>), Call("Fields", 0), T("}"), T(";"), Make("class", 3)>>
\* [Namespace::]Ident; t follows the first name.
parseFnName(t) ==
    IF t = "::" THEN <<expectIdentLike, T("::"), expectIdentLike>> ELSE <<Push(""), expectIdentLike>>
parseFnDeclStmt(c) ==
    IF c = "signal"
    THEN IF "signals" \notin features THEN Error
         ELSE <<T("signal"), Call("FnName", 0), T("("), Call("Vars", 0), T(")"), T(";"), Push(""), Push(<<>>), Push("Signal"), Make("function", 6)>>
    ELSE <<T("function"), Call("FnName", 0), T("("), Call("Vars", 0), T(")"), Call("ReturnType", 0), BlockItem, Push("Function"), Make("function", 6)>>
parseFnDeclList(t) ==
    IF t \in {"function", "signal"} THEN <<Call("Function", 0), Make("append", 2), Call("FnDecls", 0)>> ELSE <<>>
parsePackageDecl(t) ==
    <<T("package"), Ident, T("{"), Push(<<>>), Call("FirstFunction", 0), T("}"), T(";"), Make("package", 2)>>
\* A package holds functions, or nothing.
parseFirstFunction(t) == IF t = "}" THEN <<>> ELSE <<Call("Function", 0), Make("append", 2), Call("FnDecls", 0)>>
parseDecl(c) ==
    CASE c \in {"function", "signal"} -> <<Call("Function", 0), Make("append", 2)>>
      [] c = "package" -> <<Call("Package", 0), Make("concat", 2)>>
      [] OTHER -> <<Stmt, Make("append", 2)>>
parseDecls(c) == IF c = "" THEN <<>> ELSE parseDecl(c) \o <<Call("Decls", 0)>>
-----------------------------------------------------------------------------
\* The form a call stands for, by the tokens from p on; top was built last.
FormOf(f, ts, p, top) ==
    LET c == LA(ts, p)  t == LA(ts, p + 1) IN
    CASE f.r = "Expr" -> parseExpression(c, f.a)
      [] f.r = "Nud" -> nud(c, t)
      [] f.r = "From" -> parseExpressionFrom(ts, p, top, f.a)
      [] f.r = "List" -> parseExprListOptUntil(c, f.a)
      [] f.r = "More" -> parseMore(c, f.a[1], f.a[2])
      [] f.r = "Until" -> parseStmtNodeListUntilSC(c, f.a)
      [] f.r = "Items" -> parseItems(c, f.a)
      [] f.r = "ListItem" -> ListItem(c, f.a)
      [] f.r = "Tuples" -> handleExpressionTuples(c, top, f.a)
      [] f.r = "Stmt" -> parseStmtNode(c, t)
      [] f.r = "Block" -> parseBlockStmt
      [] f.r = "Body" -> parseStmtOrBlock(c)
      [] f.r = "Else" -> Optional(c, "else", <<T("else"), Body>>, <<>>)
      [] f.r = "OptExpr" -> IF c = f.a THEN <<Push(NoNode)>> ELSE <<Expr>>
      [] f.r = "Args" -> Optional(c, ",", <<T(","), List(")")>>, <<>>)
      [] f.r = "Var" -> <<Keep(VarTokens)>> \o parseTypedVar(t)
      [] f.r = "Vars" -> parseVarList(c)
      [] f.r = "Type" -> parseType(c)
      [] f.r \in {"ReturnType", "Parent"} -> Optional(c, ":", <<T(":"), Ident>>, "")
      [] f.r = "Message" -> Optional(c, ",", <<T(","), Keep({"str"})>>, "")
      [] f.r = "Default" -> Optional(c, "=", <<T("="), Expr, Call("Tuples", TRUE)>>, NoNode)
      [] f.r = "Index" -> Optional(c, "[", <<T("["), Aidx, T("]")>>, NoNode)
      [] f.r = "Aidx" -> parseAidxExprNode
      [] f.r = "ClassName" -> parseClassNameExpr(c)
      [] f.r = "Slots" -> parseSlotAssignList(c, t)
      [] f.r = "Object" -> parseObjectDecl
      [] f.r = "ObjectName" -> parseObjectName(c)
      [] f.r = "ObjectBody" -> parseObjectBody(c)
      [] f.r = "Objects" -> parseSubObjects(c)
      [] f.r = "Catches" -> parseCatchChain(c, f.a)
      [] f.r = "NotEmpty" -> IF top = <<>> THEN Error ELSE <<>>
      [] f.r = "Case" -> parseCaseBlock
      [] f.r = "CaseRest" -> parseCaseRest(c)
      [] f.r = "ClassDecl" -> parseClassDecl
      [] f.r = "Fields" -> parseClassFieldList(c)
      [] f.r = "FnName" -> parseFnName(t)
      [] f.r = "Function" -> parseFnDeclStmt(c)
      [] f.r = "FnDecls" -> parseFnDeclList(c)
      [] f.r = "FirstFunction" -> parseFirstFunction(c)
      [] f.r = "Package" -> parsePackageDecl(c)
      [] f.r = "Decls" -> parseDecls(c)

\* The node of the parts v.
NodeOf(f, v) ==
    CASE f = "one" -> <<v[1]>>
      [] f = "append" -> Append(v[1], v[2])
      [] f = "concat" -> v[1] \o v[2]
      [] f = "head" -> IF v[1] = <<>> THEN NoNode ELSE Head(v[1])
      [] f = "aidx" -> FoldLeft(CommaCatExprNode, Head(v[1]), Tail(v[1]))
      [] f = "typedVar" -> VarNode(v[1], NoNode, v[2])
      [] f = "graft" -> Graft(v[1], v[2])
      [] f = "tuple" -> TupleExprNode(v[1])
      [] f = "literal" -> LiteralNode(v[1])
      [] f = "name" -> ConstantNode(v[1])
      [] f = "unary" -> UnaryNode(v[1], v[2])
      [] f = "infix" -> InfixNode(v[1], v[2], v[3])
      [] f = "index" -> IndexedNode(v[1], v[2])
      [] f = "cond" -> ConditionalExprNode(v[1], v[2], v[3])
      [] f = "call" -> FuncCallExprNode(<<v[1], v[2], FALSE>>, v[3])
      [] f = "method" -> FuncCallExprNode(<<"", v[2], TRUE>>, <<v[1]>> \o v[3])
      [] f = "slot" -> SlotAccessNode(v[1], v[2], v[3])
      [] f = "slotAssign" -> SlotNode(v[1], v[2], v[3], v[4])
      [] f = "object" -> ObjectDeclNode(<<v[1], v[2], v[4], v[5]>>, v[3], v[6], v[7], v[8])
      [] f = "if" -> IfStmtNode(v[1], v[2], v[3], FALSE)
      [] f = "catch" -> CatchStmtNode(v[1], v[2])
      [] f = "try" -> TryStmtNode(v[1], v[2])
      [] f = "while" -> LoopStmtNode(NoNode, v[1], NoNode, v[2], FALSE)
      [] f = "do" -> LoopStmtNode(NoNode, v[2], NoNode, v[1], TRUE)
      [] f = "for" -> LoopStmtNode(v[1], IF Exists(v[2]) THEN v[2] ELSE IntNode("1"), v[3], v[4], FALSE)
      [] f = "foreach" -> IterStmtNode(v[2], v[3], v[4], v[1] = "foreach$")
      [] f = "case" -> [test |-> v[1], then |-> v[2], else |-> v[3], propagate |-> v[4]]
      [] f = "switch" -> propagateSwitchExpr(v[3], v[2], v[1] = "switch$")
      [] f = "jump" -> IF v[1] = "break" THEN BreakStmtNode ELSE ContinueStmtNode
      [] f = "return" -> ReturnStmtNode(v[1])
      [] f = "assert" -> AssertCallExprNode(v[1], v[2])
      [] f = "field" -> [name |-> v[1], type |-> v[2], default |-> v[3]]
      [] f = "class" -> ClassDeclStmtNode(v[1], v[2], v[3], buildScriptClassCtor(v[1], v[2], v[3]))
      [] f = "function" -> FunctionNode(v[1], v[2], v[3], v[5], v[4], v[6])
      [] f = "package" -> [i \in DOMAIN v[2] |-> [v[2][i] EXCEPT !.package = v[1]]]
Reduced(made, f, n) ==
    Append(SubSeq(made, 1, Len(made) - n), NodeOf(f, SubSeq(made, Len(made) - n + 1, Len(made))))

\* match, expect, expectChar, expectEither
expect(t, S) == t \in S

Ok(n, p) == [ok |-> TRUE, n |-> n, p |-> p]
TokenError(p) == [ok |-> FALSE, n |-> <<>>, p |-> p]

RECURSIVE Derive(_, _, _, _)
Derive(ts, p, todo, made) ==
    IF todo = <<>> THEN Ok(made, p)
    ELSE CASE todo[1].r = "token" ->
                IF expect(LA(ts, p), {todo[1].a}) THEN Derive(ts, p + 1, Tail(todo), made) ELSE TokenError(p)
           [] todo[1].r = "keep" ->
                IF expect(LA(ts, p), todo[1].a) THEN Derive(ts, p + 1, Tail(todo), Append(made, LA(ts, p))) ELSE TokenError(p)
           [] todo[1].r = "push" -> Derive(ts, p, Tail(todo), Append(made, todo[1].a))
           [] todo[1].r = "make" -> Derive(ts, p, Tail(todo), Reduced(made, todo[1].a[1], todo[1].a[2]))
           [] OTHER -> Derive(ts, p, FormOf(todo[1], ts, p, Last(made)) \o Tail(todo), made)

Program(r) == [r EXCEPT !.n = IF r.ok THEN r.n[1] ELSE <<>>]
parseProgram(ts) == Program(Derive(ts, 1, <<Call("Decls", 0)>>, <<<<>>>>))

ParseProgram ==
    /\ parsed.p = 0
    /\ parsed' = parseProgram(program)
    /\ UNCHANGED <<program, features>>
=============================================================================
