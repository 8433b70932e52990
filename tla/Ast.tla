-------------------------------- MODULE Ast --------------------------------
(***************************************************************************)
(* The nodes the parser allocates (ast.h, astAlloc.cc).  A node is a       *)
(* record with its kind in field k; a missing child is NoNode; a list of   *)
(* nodes linked by getNext() is a sequence.  Operators are their tokens.   *)
(***************************************************************************)
EXTENDS Integers, Sequences

NoNode == [k |-> "None"]
Exists(e) == e.k # "None"

IntNode(n) == [k |-> "Int", val |-> n]
FloatNode(n) == [k |-> "Flt", val |-> n]
StrConstNode(x, tag) == [k |-> IF tag THEN "Tag" ELSE "Str", val |-> x]
ConstantNode(x) == [k |-> "Ident", val |-> x]
VarNode(x, index, typed) == [k |-> "Var", name |-> x, index |-> index, typed |-> typed]
FloatBinaryExprNode(op, l, r) == [k |-> "FltBin", op |-> op, left |-> l, right |-> r]
IntBinaryExprNode(op, l, r) == [k |-> "IntBin", op |-> op, left |-> l, right |-> r]
StreqExprNode(l, r, eq) == [k |-> "StrEq", eq |-> eq, left |-> l, right |-> r]
\* StrcatExprNode with its separator; CommaCatExprNode joins with "_".
StrcatExprNode(l, r, sep) == [k |-> "Cat", op |-> sep, left |-> l, right |-> r]
CommaCatExprNode(l, r) == StrcatExprNode(l, r, "_")
IntUnaryExprNode(op, e) == [k |-> "IntUnary", op |-> op, expr |-> e]
FloatUnaryExprNode(e) == [k |-> "FltUnary", op |-> "neg", expr |-> e]
ConditionalExprNode(t, a, b) == [k |-> "Cond", test |-> t, then |-> a, else |-> b]
AssignExprNode(x, index, e, typed) ==
  [k |-> "Assign", name |-> x, index |-> index, rhs |-> e, typed |-> typed]
AssignOpExprNode(x, index, op, e, typed) ==
  [k |-> "AssignOp", name |-> x, index |-> index, op |-> op, rhs |-> e, typed |-> typed]
FuncCallExprNode(f, args) == [k |-> "Call", name |-> f, args |-> args]
SlotAccessNode(o, x, index) == [k |-> "Slot", obj |-> o, name |-> x, index |-> index]
InternalSlotAccessNode(o, x) == [k |-> "IntSlot", obj |-> o, slot |-> x]
SlotAssignNode(o, x, index, e) ==
  [k |-> "SlotAssign", obj |-> o, name |-> x, index |-> index, rhs |-> e]
SlotAssignOpNode(o, x, index, op, e) ==
  [k |-> "SlotAssignOp", obj |-> o, name |-> x, index |-> index, op |-> op, rhs |-> e]
ObjectDeclNode(c, x, args, slots, subs) ==
  [k |-> "New", class |-> c, name |-> x, args |-> args, slots |-> slots, subs |-> subs]
TupleExprNode(items) == [k |-> "Tuple", items |-> items]

BreakStmtNode == [k |-> "Break"]
ContinueStmtNode == [k |-> "Continue"]
ReturnStmtNode(e) == [k |-> "Return", expr |-> e]
IfStmtNode(t, a, b, switch) ==
  [k |-> "If", test |-> t, then |-> a, else |-> b, switchScope |-> switch]
LoopStmtNode(i, t, e, body, isDo) ==
  [k |-> "Loop", init |-> i, test |-> t, end |-> e, body |-> body, do |-> isDo]
IterStmtNode(x, c, body, str) ==
  [k |-> "Iter", name |-> x, container |-> c, body |-> body, str |-> str]
CatchStmtNode(mask, body) == [mask |-> mask, body |-> body]
TryStmtNode(body, catches) == [k |-> "Try", body |-> body, catches |-> catches]
FunctionDeclStmtNode(body, typed) == [k |-> "Function", body |-> body, typed |-> typed]
=============================================================================
