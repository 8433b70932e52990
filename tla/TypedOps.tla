------------------------------ MODULE TypedOps ------------------------------
(***************************************************************************)
(* The types values may have, and what operators do with values that have  *)
(* one (dynamicTypes.cc; api.cpp, performOpNumeric; stringStack.cc).       *)
(*                                                                         *)
(* A type is an object that is built before the program starts, in an      *)
(* order nobody knows, and is given the next id.  The VM numbers its types *)
(* on its own: three of its own first, then what is registered with it.    *)
(* A typed value carries an id of the first kind and is used with one of   *)
(* the second.                                                             *)
(*                                                                         *)
(* A number is a count of halves, rounded as a double is (DoubleBits) and  *)
(* as a float is (FloatBits); a U64 has Width bits.  What C++ leaves open  *)
(* is any value of the type: an operator has a set of outcomes.            *)
(***************************************************************************)
EXTENDS Integers, Sequences, FiniteSets, Bitwise, SequencesExt

CONSTANTS
  ConsoleTypes,      \* names of the types the engine has
  OpsOf,             \* for each of them "Numeric", "Unsigned" or "Default"
  Width, DoubleBits, FloatBits,
  Numbers            \* the operands

VARIABLES
  smList,            \* the list of types, head first
  mTypeID,           \* the id each was given
  gConsoleTypeTable, \* id -> type, once the console is initialised
  mTypes,            \* the VM's types; <<>> while there is no VM
  result             \* [op, kind, lhs, rhs, outcomes] of the last operator
typeVars == <<smList, mTypeID, gConsoleTypeTable, mTypes, result>>

TypeBeginCustom == 3
Builtin == <<"string", "float", "uint">>
None == [op |-> "none", kind |-> "none", lhs |-> 0, rhs |-> 0, outcomes |-> {}]
UnaryOps == {"NOT", "NOTF", "ONESCOMPLEMENT", "NEG"}
Ops == UnaryOps \cup {"CMPEQ", "CMPNE", "CMPGR", "CMPGE", "CMPLT", "CMPLE", "XOR", "BITAND", "BITOR",
                      "SHR", "SHL", "AND", "OR", "ADD", "SUB", "MUL", "DIV", "MOD"}
-----------------------------------------------------------------------------
(* Numbers. *)
Size == 2^Width
U64s == 0 .. Size - 1
Magnitude(n) == IF n < 0 THEN -n ELSE n
\* n in units of q, to the nearest, a tie to the even one.
Nearest(n, q) ==
  LET d == n \div q  m == n % q
  IN IF 2 * m < q \/ (2 * m = q /\ d % 2 = 0) THEN d ELSE d + 1
Rounded(n, bits) ==
  LET e == CHOOSE i \in 0 .. 20 : Magnitude(n) < 2^(bits + i) /\ (i > 0 => Magnitude(n) >= 2^(bits + i - 1))
      m == Nearest(Magnitude(n), 2^e) * 2^e
  IN IF n < 0 THEN -m ELSE m
Double(n) == Rounded(n, DoubleBits)
\* (F32) of an integer, in halves.
Float(u) == Rounded(2 * u, FloatBits)
Truncated(n) == IF n < 0 THEN -(Magnitude(n) \div 2) ELSE n \div 2
\* (U64) of a double: what does not fit may become anything.
ToU64(n) == IF Truncated(n) \in U64s THEN {Truncated(n)} ELSE U64s
Truth(b) == IF b THEN 1 ELSE 0
Compared(op, l, r) ==
  Truth(CASE op = "CMPEQ" -> l = r [] op = "CMPNE" -> l # r [] op = "CMPGR" -> l > r
          [] op = "CMPGE" -> l >= r [] op = "CMPLT" -> l < r [] op = "CMPLE" -> l <= r)
Comparisons == {"CMPEQ", "CMPNE", "CMPGR", "CMPGE", "CMPLT", "CMPLE"}

Shifts == {"SHL", "SHR"}
BitOps == {"XOR", "BITAND", "BITOR"} \cup Shifts
\* The operators on bits, of two U64.
OnBits(op, a, b) ==
  CASE op = "XOR" -> {a ^^ b} [] op = "BITAND" -> {a & b} [] op = "BITOR" -> {a | b}
    [] op = "SHL" -> IF b < Width THEN {(a * 2^b) % Size} ELSE U64s
    [] op = "SHR" -> IF b < Width THEN {a \div 2^b} ELSE U64s

\* std::fmod has the sign of the first.
Fmod(l, r) == IF l < 0 THEN -(Magnitude(l) % Magnitude(r)) ELSE l % Magnitude(r)
Quotient(l, r) ==
  LET q == Nearest(2 * Magnitude(l), Magnitude(r)) IN IF (l < 0) # (r < 0) THEN -q ELSE q

\* performOpNumeric: doubles; the results of bit operators pass through F32.
performOpNumeric(op, l, r) ==
  CASE op = "NOT" -> {2 * Truth(u = 0) : u \in ToU64(l)}
    [] op = "NOTF" -> {2 * Truth(l = 0)}
    [] op = "ONESCOMPLEMENT" -> {Double(2 * ((Size - 1) - u)) : u \in ToU64(l)}
    [] op = "NEG" -> {-l}
    [] op \in Comparisons -> {2 * Compared(op, l, r)}
    [] op \in BitOps -> {Float(u) : u \in UNION {OnBits(op, a, b) : a \in ToU64(l), b \in ToU64(r)}}
    [] op = "AND" -> {2 * Truth(l # 0 /\ r # 0)}
    [] op = "OR" -> {2 * Truth(l # 0 \/ r # 0)}
    [] op = "ADD" -> {Double(l + r)}
    [] op = "SUB" -> {Double(l - r)}
    [] op = "MUL" -> {Double(Nearest(l * r, 2))}
    [] op = "DIV" -> {IF r = 0 THEN 0 ELSE Double(Quotient(l, r))}
    [] op = "MOD" -> {IF r = 0 THEN 0 ELSE Fmod(l, r)}

\* performOpUnsigned: U64; a shift passes through F32 all the same.
performOpUnsigned(op, a, b) ==
  CASE op \in {"NOT", "NOTF"} -> {Truth(a = 0)}
    [] op = "ONESCOMPLEMENT" -> {(Size - 1) - a}
    [] op = "NEG" -> {(Size - a) % Size}
    [] op \in Comparisons -> {Compared(op, a, b)}
    [] op \in BitOps \ Shifts -> OnBits(op, a, b)
    [] op \in Shifts -> UNION {ToU64(Float(u)) : u \in OnBits(op, a, b)}
    [] op = "AND" -> {Truth(a # 0 /\ b # 0)}
    [] op = "OR" -> {Truth(a # 0 \/ b # 0)}
    [] op = "ADD" -> {(a + b) % Size}
    [] op = "SUB" -> {(a - b) % Size}
    [] op = "MUL" -> {(a * b) % Size}
    [] op = "DIV" -> {IF b = 0 THEN 0 ELSE a \div b}
    [] op = "MOD" -> {IF b = 0 THEN 0 ELSE a % b}

\* The VM's own types: the same operators, written a second time.
performOpBuiltin(op, l, r) == performOpNumeric(op, l, r)

\* performOp of a type of some kind; a value is in halves, and an integer when
\* it is asked for as one (negative ones wrap).
AsInt(n) == Truncated(n) % Size
OutcomesOf(kind, op, l, r) ==
  CASE kind = "Builtin" -> performOpBuiltin(op, l, r)
    [] kind = "Numeric" -> performOpNumeric(op, l, r)
    [] kind = "Unsigned" -> {2 * u : u \in performOpUnsigned(op, AsInt(l), AsInt(r))}
    [] kind = "Default" -> {l}
-----------------------------------------------------------------------------
(* The types. *)

\* ConsoleBaseType::ConsoleBaseType, before the program starts.
ConsoleBaseType(t) ==
  /\ gConsoleTypeTable = <<>> /\ t \notin DOMAIN mTypeID
  /\ mTypeID' = [u \in DOMAIN mTypeID \cup {t} |-> IF u = t THEN TypeBeginCustom + Len(smList) ELSE mTypeID[u]]
  /\ smList' = <<t>> \o smList
  /\ UNCHANGED <<gConsoleTypeTable, mTypes, result>>
\* Mutant: the types are registered in the order of the list.
RegisteredAsListed(table) == smList
\* registerWithVM: in the order of their ids.
RegisteredTypes(table) == [i \in 1 .. Len(smList) |-> table[(TypeBeginCustom + i) - 1]]
\* Con::init: the VM and its own types, ConsoleBaseType::initialize, registerWithVM.
TableOf == [id \in {mTypeID[t] : t \in DOMAIN mTypeID} |-> CHOOSE t \in DOMAIN mTypeID : mTypeID[t] = id]
initialize ==
  /\ gConsoleTypeTable = <<>> /\ DOMAIN mTypeID = ConsoleTypes
  /\ gConsoleTypeTable' = TableOf
  /\ mTypes' = Builtin \o RegisteredTypes(TableOf)
  /\ UNCHANGED <<smList, mTypeID, result>>
\* The id a value of a type carries; a text, a number and an integer without a
\* type have the ids of the VM's own.
OwnTypes == {Builtin[i] : i \in 1 .. TypeBeginCustom}
IdOf(t) == IF t \in OwnTypes THEN CHOOSE i \in 0 .. TypeBeginCustom - 1 : Builtin[i + 1] = t ELSE mTypeID[t]
Meant(t) == IF t \in OwnTypes THEN "Builtin" ELSE OpsOf[t]
KindOf(id) == Meant(mTypes[id + 1])
\* OP_TYPED_OP, OP_TYPED_OP_REVERSE and OP_TYPED_UNARY_OP: the type is that of
\* the operand the operator found typed.  One operator is followed: nothing
\* of it is left for the next.
MayOperate == mTypes # <<>> /\ result = None
Done(t, op, l, r) ==
  /\ result' = [op |-> op, kind |-> Meant(t), lhs |-> l, rhs |-> r,
                outcomes |-> OutcomesOf(KindOf(IdOf(t)), op, l, r)]
  /\ UNCHANGED <<smList, mTypeID, gConsoleTypeTable, mTypes>>
performOp(t, op, l, r) == Done(t, op, l, r)
performUnaryOp(t, op, l) == Done(t, op, l, l)

TypesInit ==
  /\ smList = <<>> /\ mTypeID = <<>> /\ gConsoleTypeTable = <<>> /\ mTypes = <<>>
  /\ result = None
TypesNext ==
  \/ \E t \in ConsoleTypes : ConsoleBaseType(t)
  \/ initialize
  \/ MayOperate /\ \E t \in ConsoleTypes \cup OwnTypes, op \in Ops \ UnaryOps, l, r \in Numbers : performOp(t, op, l, r)
  \/ MayOperate /\ \E t \in ConsoleTypes \cup OwnTypes, op \in UnaryOps, l \in Numbers : performUnaryOp(t, op, l)
TypesSpec == TypesInit /\ [][TypesNext]_typeVars
-----------------------------------------------------------------------------
Bits(n) == {i \in 0 .. Width - 1 : (n \div 2^i) % 2 = 1}
OfBits(s) == MapThenSumSet(LAMBDA i : 2^i, s)
Undefined == -1
\* What an operator means for two natural numbers, if that is one.
ArithmeticOf(op, a, b) ==
  CASE op \in {"NOT", "NOTF"} -> Truth(a = 0)
    [] op \in {"ONESCOMPLEMENT", "NEG"} -> Undefined
    [] op = "CMPEQ" -> Truth(a = b) [] op = "CMPNE" -> Truth(a # b)
    [] op = "CMPGR" -> Truth(b < a) [] op = "CMPGE" -> Truth(b <= a)
    [] op = "CMPLT" -> Truth(a < b) [] op = "CMPLE" -> Truth(a <= b)
    [] op = "XOR" -> OfBits((Bits(a) \cup Bits(b)) \ (Bits(a) \cap Bits(b)))
    [] op = "BITAND" -> OfBits(Bits(a) \cap Bits(b))
    [] op = "BITOR" -> OfBits(Bits(a) \cup Bits(b))
    [] op = "SHR" -> IF b < Width THEN OfBits({i - b : i \in {j \in Bits(a) : j >= b}}) ELSE Undefined
    [] op = "SHL" -> IF b < Width THEN a * 2^b ELSE Undefined
    [] op = "AND" -> Truth(a * b # 0)
    [] op = "OR" -> Truth(a + b # 0)
    [] op = "ADD" -> a + b
    [] op = "SUB" -> IF b <= a THEN a - b ELSE Undefined
    [] op = "MUL" -> a * b
    [] op = "DIV" -> IF b = 0 THEN 0 ELSE IF \E q \in 0 .. a : q * b = a THEN CHOOSE q \in 0 .. a : q * b = a ELSE Undefined
    [] op = "MOD" -> IF b = 0 THEN 0 ELSE CHOOSE m \in 0 .. b - 1 : \E q \in 0 .. a : (q * b) + m = a
Whole(n) == n >= 0 /\ n % 2 = 0

\* An operator gives what it means, whichever numeric type the operands have
\* and in whatever order the types were built, for whole numbers that a float
\* can hold; a type without operators gives the left operand back.
OpsMeanTheSame ==
  result.op # "none" =>
    IF result.kind = "Default" THEN result.outcomes = {result.lhs}
    ELSE LET m == ArithmeticOf(result.op, result.lhs \div 2, result.rhs \div 2)
         IN Whole(result.lhs) /\ Whole(result.rhs) /\ m # Undefined /\ m <= 2^FloatBits
              => result.outcomes = {2 * m}
=============================================================================
