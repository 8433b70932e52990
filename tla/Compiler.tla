------------------------------ MODULE Compiler ------------------------------
(***************************************************************************)
(* The code generator: what every AST node of astNodes.cc emits when it is *)
(* compiled for a requested result (TypeReq), and how CodeStream patches   *)
(* jumps.  One cell stands for one instruction with its operands, so the   *)
(* "+ 2" of a jump over OP_JMP and its operand is "+ 1" here.              *)
(*                                                                         *)
(* compile() returns an instruction pointer that its caller may use; most  *)
(* nodes return codeStream.tell(), some return the pointer they were given *)
(* and so a stale one.  Both the code and that pointer are modelled.       *)
(*                                                                         *)
(* The operators are recursive, so this module is for TLC's runs only.     *)
(***************************************************************************)
EXTENDS Ast

VARIABLE allowTypes      \* Compiler::Resources::allowTypes

\* An instruction; "fix" is the FixType of an operand that fixLoop patches.
I(op, a) == [op |-> op, a |-> a, to |-> 0, fix |-> ""]
Jump(op, to) == [op |-> op, a |-> "", to |-> to, fix |-> ""]
Fix(op, type) == [op |-> op, a |-> "", to |-> 0, fix |-> type]

\* The result of a compile() that returns codeStream.tell().
Tell(at, code) == [c |-> code, ip |-> at + Len(code), b |-> {}]
\* ... and of one that returns a pointer it was handed.
Stale(code, ip) == [c |-> code, ip |-> ip, b |-> {}]

(***************************************************************************)
(* Types of results.                                                       *)
(***************************************************************************)

\* The stack of an assigning operator and its opcode's family.
FloatOps == {"+", "-", "*", "/", "%"}
CompareOps == {"<", ">", ">=", "<=", "==", "!="}
getAssignOpType(op) == IF op \in FloatOps THEN "Float" ELSE "UInt"

RECURSIVE getPreferredType(_)
getPreferredType(e) ==
  CASE e.k \in {"Int", "IntBin", "StrEq", "IntUnary", "IntSlot", "New"} -> "UInt"
    [] e.k \in {"Flt", "FltBin", "FltUnary"} -> "Float"
    [] e.k \in {"Str", "Tag", "Ident", "Cat", "Call"} -> "String"
    [] e.k \in {"AssignOp", "SlotAssignOp"} -> getAssignOpType(e.op)
    [] e.k = "Cond" -> getPreferredType(e.then)
    [] e.k = "Assign" -> IF e.typed THEN "Typed" ELSE getPreferredType(e.rhs)
    [] e.k = "SlotAssign" -> IF allowTypes THEN "Typed" ELSE "String"
    [] OTHER -> "None"

RECURSIVE canBeTyped(_)
canBeTyped(e) ==
  CASE e.k \in {"Call", "Slot"} -> allowTypes
    [] e.k = "Var" -> allowTypes /\ e.typed
    [] e.k \in {"FltBin", "IntBin"} -> canBeTyped(e.left) \/ canBeTyped(e.right)
    [] e.k = "Tuple" -> TRUE
    [] OTHER -> getPreferredType(e) = "Typed"

getReturnLoadType(e) ==
  CASE e.k \in {"Var", "Assign", "AssignOp"} -> "Var"
    [] e.k \in {"Slot", "SlotAssign", "SlotAssignOp"} -> "Field"
    [] e.k = "FltBin" -> IF canBeTyped(e) THEN "Typed" ELSE "Float"
    [] e.k = "IntBin" -> IF canBeTyped(e) THEN "Typed" ELSE "UInt"
    [] e.k = "IntUnary" -> IF canBeTyped(e.expr) THEN "Typed" ELSE "UInt"
    [] e.k = "FltUnary" -> IF canBeTyped(e.expr) THEN "Typed" ELSE "Float"
    [] e.k = "Call" -> IF allowTypes THEN "Typed" ELSE "String"
    [] OTHER -> "None"

\* The instruction that moves a value from one place to another: loads and
\* stores name their stack, the moves between stacks name both ends.
Stacks == {"String", "Float", "UInt", "Typed"}
conversionOp(src, dst) ==
  CASE src \in Stacks /\ dst = "Var" -> I("SAVEVAR", src)
    [] src \in Stacks /\ dst = "Field" -> I("SAVEFIELD", src)
    [] src = "Var" /\ dst \in Stacks -> I("LOADVAR", dst)
    [] src = "Var" /\ dst = "Field" -> I("SAVEFIELD", "Var")
    [] src = "Var" /\ dst = "None" -> I("COPYVAR_TO_NONE", "")
    [] src = "Field" /\ dst \in Stacks \cup {"Var"} -> I("LOADFIELD", dst)
    [] src = "Field" /\ dst = "None" -> I("SETCURFIELD_NONE", "")
    [] src = "Typed" /\ dst = "Typed" -> I("SAVEFIELD", "Typed")
    [] src \in Stacks /\ dst \in (Stacks \cup {"None"}) \ {src} -> I("CONV", <<src, dst>>)
    [] OTHER -> I("INVALID", "")

Conversion(src, dst) == IF src = dst THEN <<>> ELSE <<conversionOp(src, dst)>>

\* The stack an argument or a tuple item is evaluated on, and its push.
ArgType(e) ==
  LET load == getReturnLoadType(e)
      want == IF allowTypes /\ load \in {"Var", "Field", "Typed"} THEN load ELSE getPreferredType(e)
  IN  IF want = "None" THEN "String" ELSE want
PushArg(type) == IF type = "Field" THEN <<I("LOADFIELD", "Typed"), I("PUSH", "Typed")>>
                 ELSE <<I("PUSH", type)>>

\* The stack a condition is tested on.
TestType(e) == IF getPreferredType(e) = "UInt" THEN "UInt" ELSE "Float"

(***************************************************************************)
(* Expressions.  C(e, type, at, ip): the code of e for the result "type"   *)
(* when codeStream.tell() is "at" and the caller passes "ip".              *)
(***************************************************************************)
RECURSIVE C(_, _, _, _)
RECURSIVE compileList(_, _, _, _, _)

\* Compile expressions one after the other, each followed by what is emitted
\* behind it: types[i] is the stack of es[i], after[i] the code behind it.
Joined(h, t) == [c |-> h.c \o t.c, ip |-> t.ip, b |-> {}]
ListFrom(es, types, after, h, at) ==
  Joined(h, compileList(Tail(es), Tail(types), Tail(after), at + Len(h.c), h.ip))
compileList(es, types, after, at, ip) ==
  IF es = <<>> THEN Stale(<<>>, ip)
  ELSE ListFrom(es, types, after, [C(es[1], types[1], at, ip) EXCEPT !.c = @ \o after[1]], at)
Each(es, type, at, ip) ==
  compileList(es, [i \in DOMAIN es |-> type], [i \in DOMAIN es |-> <<>>], at, ip)

\* VarNode, AssignExprNode, AssignOpExprNode: make a variable current, its
\* array index being evaluated as text behind its name.
SetCurVar(e, op, at, ip) ==
  IF ~Exists(e.index) THEN Stale(<<I(op, e.name)>>, ip)
  ELSE LET pre == <<I("LOADIMMED_IDENT", e.name), I("ADVANCE_STR", "")>>
           x == C(e.index, "String", at + 2, ip)
           array == IF op = "SETCURVAR" THEN "SETCURVAR_ARRAY" ELSE "SETCURVAR_ARRAY_CREATE"
       IN  Stale(pre \o x.c \o <<I("REWIND_STR", ""), I(array, "")>>, x.ip)

\* SlotAccessNode, SlotAssignNode, SlotAssignOpNode: make a field current.
SetCurField(e, at, ip) ==
  LET ix == IF Exists(e.index) THEN C(e.index, "String", at, ip) ELSE Stale(<<>>, ip)
      adv == IF Exists(e.index) THEN <<I("ADVANCE_STR", "")>> ELSE <<>>
      ob == IF Exists(e.obj) THEN C(e.obj, "String", at + Len(ix.c \o adv), ix.ip)
            ELSE Stale(<<>>, ix.ip)
  IN  Stale(ix.c \o adv \o ob.c
            \o <<I(IF Exists(e.obj) THEN "SETCUROBJECT" ELSE "SETCUROBJECT_NEW", ""),
                 I("SETCURFIELD", e.name)>>
            \o IF Exists(e.index)
               THEN <<I("TERMINATE_REWIND_STR", ""), I("SETCURFIELD_ARRAY", "")>> ELSE <<>>,
            ob.ip)

compileConst(e, type, at, ip) ==
  LET val == IF e.k = "Ident" THEN <<"id", e.val>> ELSE <<e.k, e.val>>
  IN CASE e.k \in {"Int", "Flt"} ->
            Tell(at, CASE type \in {"UInt", "String", "Float"} -> <<I("LOADIMMED", <<type, val>>)>>
                       [] type = "Typed" -> <<I("LOADIMMED", <<"Float", val>>), I("CONV", <<"Float", "Typed">>)>>
                       [] OTHER -> <<>>)
       [] e.k \in {"Str", "Tag"} ->
            Tell(at, CASE type \in {"String", "Typed"} ->
                            <<I(IF e.k = "Tag" THEN "TAG_TO_STR" ELSE "LOADIMMED", <<"String", val>>)>>
                       [] type \in {"UInt", "Float"} -> <<I("LOADIMMED", <<type, val>>)>>
                       [] OTHER -> <<>>)
       [] e.k = "Ident" ->
            Stale(CASE type = "String" -> <<I("LOADIMMED_IDENT", e.val)>>
                    [] type \in {"UInt", "Float"} -> <<I("LOADIMMED", <<type, val>>)>>
                    [] OTHER -> <<>>, ip)

\* FloatBinaryExprNode and the strict operators of IntBinaryExprNode: right
\* before left, on the string stack when either side may be typed.
compileStrict(e, type, at, ip) ==
  LET typed == canBeTyped(e.left) \/ canBeTyped(e.right)
      sub == IF e.k = "FltBin" \/ e.op \in CompareOps THEN "Float" ELSE "UInt"
      from == IF typed THEN "Typed" ELSE sub
      res == IF typed THEN "Typed" ELSE IF e.k = "FltBin" THEN "Float" ELSE "UInt"
      l == compileList(<<e.right, e.left>>, <<from, from>>,
                       <<IF typed THEN <<I("PUSH", "Typed")>> ELSE <<>>, <<>>>>, at, ip)
  IN  Tell(at, l.c \o <<IF typed THEN I("TYPED_OP", e.op) ELSE I(sub, e.op)>>
               \o Conversion(res, type))

\* "||" and "&&" leave the operand that decides on the stack; the jump is
\* patched with the pointer the right operand's compile() returned.
compileShortCircuit(e, type, at, ip) ==
  LET l == C(e.left, "UInt", at, ip)
      r == C(e.right, "UInt", at + Len(l.c) + 1, l.ip)
  IN  Tell(at, l.c \o <<Jump(IF e.op = "||" THEN "JMPIF_NP" ELSE "JMPIFNOT_NP", r.ip)>>
               \o r.c \o Conversion("UInt", type))

compileConditional(e, type, at, ip) ==
  LET t == C(e.test, TestType(e.test), at, ip)
      a == C(e.then, type, at + Len(t.c) + 1, t.ip)
      endA == at + Len(t.c) + 1 + Len(a.c) + 1
      b == C(e.else, type, endA, a.ip)
  IN  Tell(at, t.c \o <<Jump(IF TestType(e.test) = "UInt" THEN "JMPIFNOT" ELSE "JMPIFFNOT", endA)>>
               \o a.c \o <<Jump("JMP", endA + Len(b.c))>> \o b.c)

compileStrings(e, type, at, ip) ==
  LET adv == CASE e.k = "StrEq" -> "NUL" [] e.k = "Cat" -> e.op
      l == compileList(<<e.left, e.right>>, <<"String", "String">>,
                       <<<<I("ADVANCE_STR", adv)>>, <<>>>>, at, ip)
  IN  IF e.k = "StrEq"
      THEN Tell(at, l.c \o <<I("COMPARE_STR", "")>> \o (IF e.eq THEN <<>> ELSE <<I("UInt", "!")>>)
                    \o Conversion("UInt", type))
      ELSE Tell(at, l.c \o <<I("REWIND_STR", "")>>
                    \o IF type \in {"UInt", "Float"} THEN Conversion("String", type) ELSE <<>>)

\* IntUnaryExprNode converts from the operand's stack, although "!" of a
\* float leaves its result on the integer stack.
compileUnary(e, type, at, ip) ==
  LET typed == canBeTyped(e.expr)
      isFlt == e.k = "FltUnary"
      integer == ~(e.op = "!" /\ getPreferredType(e.expr) \in {"Float", "String", "Typed"})
      from == CASE typed -> "Typed" [] ~typed /\ isFlt -> "Float"
                [] OTHER -> IF integer THEN "UInt" ELSE "Float"
      after == CASE typed -> "Typed" [] ~typed /\ isFlt -> "Float" [] OTHER -> "UInt"
      x == C(e.expr, from, at, ip)
      op == CASE typed -> I("TYPED_UNARY_OP", e.op)
              [] ~typed /\ ~isFlt /\ ~integer -> I("NOTF", "")
              [] OTHER -> I(from, e.op)
  IN  Tell(at, x.c \o <<op>> \o IF type = after THEN <<>> ELSE <<conversionOp(from, type)>>)

compileVar(e, type, at, ip) ==
  IF type = "None" THEN Tell(at, <<>>)
  ELSE Tell(at, SetCurVar(e, "SETCURVAR", at, ip).c
                \o IF type \in Stacks THEN <<I("LOADVAR", type)>> ELSE <<>>)

\* The stack an assignment evaluates its right side on.
AssignSubType(e, type) ==
  LET pref == getPreferredType(e.rhs)
      load == getReturnLoadType(e.rhs)
      asked == IF ~allowTypes /\ pref = "None" THEN type ELSE pref
  IN CASE ~allowTypes /\ asked = "None" -> IF load = "Var" THEN "Var" ELSE "String"
       [] allowTypes /\ load \in {"Var", "Typed"} -> load
       [] ~(~allowTypes /\ asked = "None") /\ canBeTyped(e.rhs) -> "Typed"
       [] OTHER -> IF asked # "None" THEN asked
                   ELSE IF allowTypes THEN "Typed" ELSE "String"

\* A right side that was evaluated on "sub" is saved from there; the index of
\* the variable would overwrite it on the string stack.
AssignFrom(e, type, sub, onStr, r, at) ==
  LET pre == r.c \o (IF sub = "Var" THEN <<I("LOADVAR", "Var")>> ELSE <<>>)
                 \o (IF onStr THEN <<I("ADVANCE_STR", "")>> ELSE <<>>)
      v == SetCurVar(e, "SETCURVAR_CREATE", at + Len(pre), r.ip)
      \* "our output is now in the var"
      left == IF sub = "Tuple" THEN "Var" ELSE sub
      want == IF type = "Var" /\ left # "Var" THEN "None" ELSE type
  IN  Stale(pre \o v.c \o (IF onStr THEN <<I("TERMINATE_REWIND_STR", "")>> ELSE <<>>)
            \o <<IF sub = "Tuple" THEN I("SAVEVAR_MULTIPLE", "") ELSE I("SAVEVAR", sub)>>
            \o Conversion(left, want), v.ip)
AssignOn(e, type, sub, at, ip) ==
  AssignFrom(e, type, sub, sub \in {"String", "Typed"} /\ Exists(e.index), C(e.rhs, sub, at, ip), at)
compileAssign(e, type, at, ip) ==
  AssignOn(e, type, IF e.rhs.k = "Tuple" THEN "Tuple" ELSE AssignSubType(e, type), at, ip)

compileAssignOp(e, type, at, ip) ==
  LET sub == IF allowTypes /\ e.typed THEN "Typed" ELSE getAssignOpType(e.op)
      r == C(e.rhs, sub, at, ip)
      pre == r.c \o IF sub = "Typed" THEN <<I("PUSH", "Typed")>> ELSE <<>>
      v == SetCurVar(e, "SETCURVAR_CREATE", at + Len(pre), r.ip)
  IN  Tell(at, pre \o v.c \o <<conversionOp("Var", sub),
                               IF sub = "Typed" THEN I("TYPED_OP", e.op) ELSE I(sub, e.op),
                               conversionOp(sub, "Var")>> \o Conversion(sub, type))

compileCall(e, type, at, ip) ==
  LET types == [i \in DOMAIN e.args |-> ArgType(e.args[i])]
      l == compileList(e.args, types, [i \in DOMAIN e.args |-> PushArg(types[i])], at + 1, ip)
  IN  Tell(at, <<I("PUSH_FRAME", "")>> \o l.c \o <<I("CALLFUNC", e.name)>>
               \o Conversion(getReturnLoadType(e), type))

compileSlot(e, type, at, ip) ==
  IF type = "None" THEN Stale(<<>>, ip)
  ELSE Tell(at, SetCurField(e, at, ip).c
                \o IF type \in Stacks THEN <<I("LOADFIELD", type)>> ELSE <<>>)

compileInternalSlot(e, type, at, ip) ==
  IF type = "None" THEN Stale(<<>>, ip)
  ELSE LET l == compileList(<<e.obj, e.slot>>, <<"String", "String">>,
                            <<<<I("SETCUROBJECT", "")>>, <<I("SETCUROBJECT_INTERNAL", "")>>>>, at, ip)
       IN  Tell(at, l.c \o Conversion("UInt", type))

SlotAssignSubType(e) ==
  LET pref == IF allowTypes THEN getPreferredType(e.rhs) ELSE "String"
  IN CASE e.rhs.k = "Tuple" -> "Tuple"
       [] e.rhs.k # "Tuple" /\ getReturnLoadType(e.rhs) = "Var" -> IF allowTypes THEN "Var" ELSE "String"
       [] e.rhs.k # "Tuple" /\ getReturnLoadType(e.rhs) # "Var" /\ canBeTyped(e.rhs) -> "Typed"
       [] OTHER -> IF pref = "None" THEN "Typed" ELSE pref
SlotAssignFrom(e, type, sub, onStr, r, at) ==
  LET pre == r.c \o (IF sub = "Var" THEN <<I("LOADVAR", "Var")>> ELSE <<>>)
                 \o (IF onStr THEN <<I("ADVANCE_STR", "")>> ELSE <<>>)
      set == pre \o SetCurField(e, at + Len(pre), r.ip).c
                 \o (IF sub = "Var" THEN <<I("SETVAR_FROM_COPY", "")>> ELSE <<>>)
                 \o (IF onStr THEN <<I("TERMINATE_REWIND_STR", "")>> ELSE <<>>)
  IN  Tell(at, set \o IF sub = "Tuple"
                      THEN <<I("SAVEFIELD_MULTIPLE", "")>>
                           \o CASE type \in Stacks -> <<I("LOADFIELD", type)>>
                                [] type = "Field" -> <<>>
                                [] OTHER -> <<I("SETCURFIELD_NONE", "")>>
                      ELSE <<conversionOp(sub, "Field")>>
                           \o IF type = "Field" THEN <<>> ELSE Conversion(sub, type))
SlotAssignOn(e, type, sub, at, ip) ==
  SlotAssignFrom(e, type, sub, sub \in {"String", "Typed"}, C(e.rhs, sub, at, ip), at)
compileSlotAssign(e, type, at, ip) == SlotAssignOn(e, type, SlotAssignSubType(e), at, ip)

compileSlotAssignOp(e, type, at, ip) ==
  LET sub == IF allowTypes THEN "Typed" ELSE getAssignOpType(e.op)
      r == C(e.rhs, sub, at, ip)
      pre == r.c \o IF sub = "Typed" THEN <<I("PUSH", "Typed")>> ELSE <<>>
      f == SetCurField(e, at + Len(pre), r.ip)
  IN  Tell(at, pre \o f.c \o <<conversionOp("Field", sub),
                               IF sub = "Typed" THEN I("TYPED_OP", e.op) ELSE I(sub, e.op),
                               conversionOp(sub, "Field")>>
               \o IF type = "Field" THEN <<>> ELSE Conversion(sub, type))

\* ObjectDeclNode::compileSubObject; an object inside an object is compiled
\* for the result "Sub" and is not a root.  "a" is the code of the arguments:
\* the class, the name and the rest.
ObjectArgType(e) == IF getPreferredType(e) = "None" THEN "String" ELSE getPreferredType(e)
ObjectFrom(e, root, a, s, o, add) ==
  <<I("PUSH_FRAME", "")>> \o a.c \o <<Jump("CREATE_OBJECT", add + 1 + Len(o.c) + 1)>> \o s.c
  \o <<I("ADD_OBJECT", root)>> \o o.c \o <<I("END_OBJECT", root), I("FINISH_OBJECT", "")>>
ObjectSubs(e, root, a, s, add) == ObjectFrom(e, root, a, s, Each(e.subs, "Sub", add + 1, s.ip), add)
ObjectSlots(e, root, a, s, at) == ObjectSubs(e, root, a, s, at + Len(a.c) + Len(s.c) + 2)
ObjectArgs(e, root, a, at) == ObjectSlots(e, root, a, Each(e.slots, "None", at + Len(a.c) + 2, a.ip), at)
compileSubObject(e, root, at, ip) ==
  LET types == <<"String", "String">> \o [i \in DOMAIN e.args |-> ObjectArgType(e.args[i])]
  IN  ObjectArgs(e, root, compileList(<<e.class, e.name>> \o e.args, types,
                                      [i \in DOMAIN types |-> <<I("PUSH", types[i])>>], at + 1, ip), at)
compileNew(e, type, at, ip) ==
  IF type = "Sub" THEN Tell(at, compileSubObject(e, FALSE, at, ip))
  ELSE Tell(at, <<I("LOADIMMED", <<"UInt", <<"Int", 0>>>>)>> \o compileSubObject(e, TRUE, at + 1, ip)
                \o Conversion("UInt", type))

\* A tuple is a frame of pushed values for the SAVE..._MULTIPLE behind it.
compileTuple(e, type, at, ip) ==
  LET types == [i \in DOMAIN e.items |-> IF type = "Tuple" THEN ArgType(e.items[i]) ELSE "None"]
      l == compileList(e.items, types,
                       [i \in DOMAIN e.items |-> IF type = "Tuple" THEN PushArg(types[i]) ELSE <<>>],
                       IF type = "Tuple" THEN at + 1 ELSE at, ip)
  IN  Stale((IF type = "Tuple" THEN <<I("PUSH_FRAME", "")>> ELSE <<>>) \o l.c, ip)

(***************************************************************************)
(* Statements.  Their code comes with the addresses that addBreakLine       *)
(* records, in b: where a statement begins.  cx.loop and cx.switch         *)
(* are inLoop() and inSwitch(), cx.typed that the function whose code is   *)
(* being emitted returns a typed value.                                    *)
(***************************************************************************)
RECURSIVE compileBlock(_, _, _, _)
RECURSIVE getSwitchOR(_, _, _)

Emit(at, code, lines) == [c |-> code, ip |-> at + Len(code), b |-> lines]

\* ExprNode::compileStmt records the line and compiles for no result.
Statement(s) == s.k \in {"Break", "Continue", "Return", "If", "Loop", "Iter", "Try", "Function"}

Then(h, t, at) == Emit(at, h.c \o t.c, h.b \cup t.b)
BlockFrom(ss, cx, h, at) == Then(h, compileBlock(Tail(ss), cx, at + Len(h.c), h.ip), at)
compileBlock(ss, cx, at, ip) ==
  IF ss = <<>> THEN Emit(at, <<>>, {})
  ELSE BlockFrom(ss, cx, [C(ss[1], IF Statement(ss[1]) THEN cx ELSE "None", at, ip) EXCEPT
                            !.b = IF Statement(ss[1]) THEN @ ELSE {at}], at)

\* Mutant: continue skips the test of the loop.
fixLoopToStart(code, start, brk, cont) ==
  [i \in DOMAIN code |-> IF code[i].fix = "" THEN code[i]
                         ELSE Jump(code[i].op, IF code[i].fix = "break" THEN brk ELSE start)]

\* CodeStream::fixLoop: patch what break and continue, and the loop itself,
\* left open since the loop's scope was pushed.
fixLoop(code, start, brk, cont) ==
  [i \in DOMAIN code |->
     CASE code[i].fix = "start" -> Jump(code[i].op, start)
       [] code[i].fix = "break" -> Jump(code[i].op, brk)
       [] code[i].fix = "continue" -> Jump(code[i].op, cont)
       [] OTHER -> code[i]]

\* IfStmtNode::getSwitchOR: a case becomes "test or test or ...".
getSwitchOR(e, list, string) ==
  LET test == IF string THEN StreqExprNode(e, list[1], TRUE) ELSE IntBinaryExprNode("==", e, list[1])
  IN  IF Len(list) = 1 THEN test
      ELSE IntBinaryExprNode("||", test, getSwitchOR(e, Tail(list), string))

compileReturn(s, cx, at, ip) ==
  LET pref == getPreferredType(s.expr)
      want == CASE cx.typed -> "Typed" [] ~cx.typed /\ pref = "None" -> "String" [] OTHER -> pref
  IN  IF ~Exists(s.expr) THEN Emit(at, <<I("RETURN_VOID", "")>>, {at})
      ELSE Emit(at, C(s.expr, want, at, ip).c
                    \o <<I("RETURN", IF want \in {"UInt", "Float"} THEN want ELSE "")>>, {at})

compileIf(s, cx, at, ip) ==
  LET t == C(s.test, TestType(s.test), at, ip)
      inner == [cx EXCEPT !.switch = @ \/ s.switchScope]
      jmp == IF TestType(s.test) = "UInt" THEN "JMPIFNOT" ELSE "JMPIFFNOT"
      a == compileBlock(s.then, inner, at + Len(t.c) + 1, t.ip)
      b == compileBlock(s.else, inner, a.ip + 1, t.ip)
  IN  IF s.else = <<>> THEN Emit(at, t.c \o <<Jump(jmp, a.ip)>> \o a.c, {at} \cup a.b)
      ELSE Emit(at, t.c \o <<Jump(jmp, a.ip + 1)>> \o a.c \o <<Jump("JMP", b.ip)>> \o b.c,
                {at} \cup a.b \cup b.b)

compileLoop(s, cx, at, ip) ==
  LET ty == TestType(s.test)
      i == IF Exists(s.init) THEN C(s.init, "None", at, ip) ELSE Stale(<<>>, ip)
      t == C(s.test, ty, at + Len(i.c), i.ip)
      head == i.c \o IF s.do THEN <<>>
                     ELSE t.c \o <<Fix(IF ty = "UInt" THEN "JMPIFNOT" ELSE "JMPIFFNOT", "break")>>
      start == at + Len(head)
      b == compileBlock(s.body, [cx EXCEPT !.loop = TRUE], start, t.ip)
      e == IF Exists(s.end) THEN C(s.end, "None", b.ip, t.ip) ELSE Stale(<<>>, t.ip)
      t2 == C(s.test, ty, b.ip + Len(e.c), e.ip)
      code == head \o b.c \o e.c \o t2.c \o <<Fix(IF ty = "UInt" THEN "JMPIF" ELSE "JMPIFF", "start")>>
  IN  Emit(at, fixLoop(code, start, at + Len(code), b.ip), {at} \cup b.b)

compileIter(s, cx, at, ip) ==
  LET x == C(s.container, "String", at, ip)
      begin == at + Len(x.c)
      b == compileBlock(s.body, [cx EXCEPT !.loop = TRUE], begin + 2, begin + 2)
      brk == b.ip + 1
      code == x.c \o <<[I(IF s.str THEN "ITER_BEGIN_STR" ELSE "ITER_BEGIN", s.name) EXCEPT !.to = brk + 1], Fix("ITER", "break")>>
              \o b.c \o <<Fix("JMP", "continue"), I("ITER_END", "")>>
  IN  Emit(at, fixLoop(code, begin + 2, brk, begin + 1), {at} \cup b.b)

\* The masks of all catch blocks are or-ed on the integer stack; the catch
\* code tests a copy of what it takes to be the thrown mask.
compileTry(s, cx, at, ip) ==
  LET Mask(x) == <<I("LOADIMMED", <<"UInt", <<"Int", x>>>>)>>
      Or == <<I("UInt", "|")>>
      masks == LET M[i \in 1..Len(s.catches)] ==
                     IF i = 1 THEN Mask(s.catches[1].mask) ELSE M[i-1] \o Mask(s.catches[i].mask) \o Or
               IN  M[Len(s.catches)]
      body == compileBlock(s.body, cx, at + Len(masks) + 1, at + Len(masks))
      endJmp == body.ip + 1
      K[i \in 0..Len(s.catches)] ==
        IF i = 0 THEN Emit(endJmp + 1, <<>>, {})
        ELSE LET here == K[i-1].ip
                 blk == compileBlock(s.catches[i].body, cx, here + 4, here + 4)
             IN  Emit(endJmp + 1,
                      K[i-1].c \o <<I("DUP_UINT", "")>> \o Mask(s.catches[i].mask) \o Or
                      \o <<Jump("JMPIFNOT", blk.ip + 1)>> \o blk.c \o <<Jump("JMP", endJmp)>>,
                      K[i-1].b \cup blk.b)
      k == K[Len(s.catches)]
  IN  IF s.catches = <<>> THEN compileBlock(s.body, cx, at, ip)
      ELSE Emit(at, masks \o <<Jump("PUSH_TRY_STACK", endJmp + 1)>> \o body.c
                    \o <<I("POP_TRY", ""), Jump("JMP", k.ip + 1)>> \o k.c
                    \o <<I("CONV", <<"UInt", "None">>)>>, body.b \cup k.b)

\* The code of a function lies in place behind OP_FUNC_DECL, which skips it.
compileFunction(s, cx, at, ip) ==
  LET b == compileBlock(s.body, [cx EXCEPT !.typed = allowTypes /\ s.typed], at + 1, ip)
  IN  Emit(at, <<Jump("FUNC_DECL", b.ip + 1)>> \o b.c \o <<I("RETURN_VOID", "")>>, b.b \cup {b.ip})

\* compile() and compileStmt() of a node.  For an expression "type" is the
\* requested result, for a statement it is the context cx.
C(e, type, at, ip) ==
  CASE e.k \in {"Int", "Flt", "Str", "Tag", "Ident"} -> compileConst(e, type, at, ip)
    [] e.k = "FltBin" -> compileStrict(e, type, at, ip)
    [] e.k = "IntBin" -> IF e.op \in {"||", "&&"} THEN compileShortCircuit(e, type, at, ip)
                         ELSE compileStrict(e, type, at, ip)
    [] e.k = "Cond" -> compileConditional(e, type, at, ip)
    [] e.k \in {"StrEq", "Cat"} -> compileStrings(e, type, at, ip)
    [] e.k \in {"IntUnary", "FltUnary"} -> compileUnary(e, type, at, ip)
    [] e.k = "Var" -> compileVar(e, type, at, ip)
    [] e.k = "Assign" -> compileAssign(e, type, at, ip)
    [] e.k = "AssignOp" -> compileAssignOp(e, type, at, ip)
    [] e.k = "Call" -> compileCall(e, type, at, ip)
    [] e.k = "Slot" -> compileSlot(e, type, at, ip)
    [] e.k = "IntSlot" -> compileInternalSlot(e, type, at, ip)
    [] e.k = "SlotAssign" -> compileSlotAssign(e, type, at, ip)
    [] e.k = "SlotAssignOp" -> compileSlotAssignOp(e, type, at, ip)
    [] e.k = "New" -> compileNew(e, type, at, ip)
    [] e.k = "Tuple" -> compileTuple(e, type, at, ip)
    [] e.k = "Break" -> IF type.loop THEN Emit(at, <<Fix("JMP", "break")>>, {at}) ELSE Emit(at, <<>>, {})
    [] e.k = "Continue" -> IF type.loop THEN Emit(at, <<Fix("JMP", "continue")>>, {at}) ELSE Emit(at, <<>>, {})
    [] e.k = "Return" -> compileReturn(e, type, at, ip)
    [] e.k = "If" -> compileIf(e, type, at, ip)
    [] e.k = "Loop" -> compileLoop(e, type, at, ip)
    [] e.k = "Iter" -> compileIter(e, type, at, ip)
    [] e.k = "Try" -> compileTry(e, type, at, ip)
    [] e.k = "Function" -> compileFunction(e, type, at, ip)

\* CodeBlock::compileExec: the statements of a file and a final return.
compileProgram(ss) ==
  LET b == compileBlock(ss, [loop |-> FALSE, switch |-> FALSE, typed |-> FALSE], 1, 1)
  IN  [b EXCEPT !.c = @ \o <<I("RETURN", "")>>]
=============================================================================
