---------------------------- MODULE ObjectFields ----------------------------
(***************************************************************************)
(* The fields of objects and the types of what they hold.                  *)
(*                                                                         *)
(* The console types: what a field of each type stores for the values it   *)
(* is given, and what it is read as.  A console value is a pair of its     *)
(* kind, "uint", "num", "str" or a type of its own, and what it holds;     *)
(* texts are sequences of character codes and numbers are whole.           *)
(***************************************************************************)
EXTENDS Integers, FiniteSets, SequencesExt, FiniteSetsExt

(***************************************************************************)
(* Texts as sequences of character codes, and how they are written between *)
(* quotes: expandEscape, and what reads them back, collapseEscape and the  *)
(* scanner's decodeStringInPlace.                                          *)
(***************************************************************************)

Quote == 34    Apostrophe == 39    Backslash == 92
\* The pieces between the places of c.
Split(s, c) ==
    LET P[i \in 0 .. Len(s)] ==
          IF i = 0 THEN <<<<>>>>
          ELSE IF s[i] = c THEN Append(P[i - 1], <<>>) ELSE [P[i - 1] EXCEPT ![Len(P[i - 1])] = Append(@, s[i])]
    IN P[Len(s)]
Digit(n) == IF n < 10 THEN 48 + n ELSE 55 + n
\* The ten codes of \c0 to \c9, which leave out \b, \t, \n and \r.
ColorCodes == <<1, 2, 3, 4, 5, 6, 7, 11, 12, 14>>
ColorIndex(c) == CHOOSE i \in 1 .. 10 : ColorCodes[i] = c
Named == <<<<13, 114>>, <<10, 110>>, <<9, 116>>>>     \* \r, \n, \t

Expanded(c) ==
    CASE c \in {Quote, Backslash, Apostrophe} -> <<Backslash, c>>
      [] \E i \in 1 .. 3 : Named[i][1] = c -> <<Backslash, Named[CHOOSE i \in 1 .. 3 : Named[i][1] = c][2]>>
      [] \E i \in 1 .. 10 : ColorCodes[i] = c -> <<Backslash, 99, 47 + ColorIndex(c)>>
      [] c = 15 -> <<Backslash, 99, 114>>
      [] c < 32 /\ c \notin {15, 13, 10, 9} /\ ~\E i \in 1 .. 10 : ColorCodes[i] = c -> <<Backslash, 120, Digit(c \div 16), Digit(c % 16)>>
      [] OTHER -> <<c>>
expandEscape(s) == LET X[n \in 0 .. Len(s)] == IF n = 0 THEN <<>> ELSE X[n - 1] \o Expanded(s[n]) IN X[Len(s)]

getHexDigit(c) == CASE c \in 48 .. 57 -> c - 48 [] c \in 65 .. 70 -> c - 55 [] c \in 97 .. 102 -> c - 87 [] OTHER -> 0 - 1
charConv(c) == IF \E i \in 1 .. 3 : Named[i][2] = c THEN Named[CHOOSE i \in 1 .. 3 : Named[i][2] = c][1] ELSE c
ColorOf(k) == CASE k = 114 -> 15 [] k = 112 -> 16 [] k = 111 -> 17 [] k \in 48 .. 57 -> ColorCodes[k - 47] [] OTHER -> 0 - 1
CharAt(s, i) == IF i \in 1 .. Len(s) THEN s[i] ELSE 0
Failed == <<0>>
\* What the escape at place i stands for, and how long it is; a code of 1 at
\* the start of the text is put behind a 2.
Escape(s, i) ==
    LET x1 == getHexDigit(CharAt(s, i + 2))  x2 == getHexDigit(CharAt(s, i + 3))  k == ColorOf(CharAt(s, i + 2))
    IN CASE CharAt(s, i + 1) = 120 -> IF x1 < 0 \/ x2 < 0 THEN [n |-> 0, c |-> <<>>] ELSE [n |-> 4, c |-> <<x1 * 16 + x2>>]
         [] CharAt(s, i + 1) = 99 -> IF k < 0 THEN [n |-> 0, c |-> <<>>] ELSE [n |-> 3, c |-> IF k = 1 /\ i = 1 THEN <<2, 1>> ELSE <<k>>]
         [] OTHER -> [n |-> 2, c |-> <<charConv(CharAt(s, i + 1))>>]
\* The text from place i on, Failed where an escape is not one.
collapseEscape(s) ==
    LET C[i \in 1 .. Len(s) + 4] ==
          IF i > Len(s) THEN <<>>
          ELSE LET e == Escape(s, i)
                   rest == IF s[i] # Backslash THEN C[i + 1] ELSE IF e.n = 0 THEN Failed ELSE C[i + e.n]
               IN IF rest = Failed THEN Failed ELSE (IF s[i] # Backslash THEN <<s[i]>> ELSE e.c) \o rest
    IN C[1]
\* What a text that begins with the mark of a tag reads back as.
Guarded1(s) == IF s # <<>> /\ s[1] = 1 THEN <<2>> \o s ELSE s

-----------------------------------------------------------------------------
CONSTANTS
    IntBits,        \* the width of a TypeS32 (32)
    SigDigits,      \* the digits "%.9g" shows (9)
    NumberBuffer,   \* the bytes a number's text may take in a field's type (6)
    TempSize,       \* MaxTempStringSize (32)
    ListBuffer,     \* maxReturn of the list types (1024)
    EnumLabels,     \* the labels of an enumeration's table
    ObjectIds       \* the ids findObject finds

ASSUME TypeAssumption == \A n \in {IntBits, SigDigits, NumberBuffer, TempSize, ListBuffer} : n \in Nat \ {0}

Num(n) == <<"num", n>>    Uint(n) == <<"uint", n>>    Str(s) == <<"str", s>>
Space == 32    Comma == 44    Point == 46    Minus == 45
Blanks == {32, 9, 13, 10}
NumberTypes == {"S8", "S32", "F32", "bool"}
ListTypes == {"S32Vector", "F32Vector", "boolVector"}
Types == NumberTypes \cup ListTypes \cup {"string", "stringVector", "simObject", "enum"}

(***************************************************************************)
(* Numbers and texts.                                                      *)
(***************************************************************************)
Pow10(n) == LET P[k \in Nat] == IF k = 0 THEN 1 ELSE 10 * P[k - 1] IN P[n]
Size(n) == IF n < 0 THEN 0 - n ELSE n
DigitsOf(n) == LET D[k \in Nat] == IF k < 10 THEN <<48 + k>> ELSE Append(D[k \div 10], 48 + (k % 10)) IN D[Size(n)]
Signed(n, s) == IF n < 0 THEN <<Minus>> \o s ELSE s
Cut(s, n) == SubSeq(s, 1, IF Len(s) < n THEN Len(s) ELSE n)
\* "%i", "%u"
Decimal(n) == Signed(n, DigitsOf(n))
\* "%.9g" of a whole number: rounded, with an exponent and without the zeros
\* at the end, once it has too many digits.
Rounded(n, q) ==
    (n \div q) + (IF 2 * (n % q) > q \/ (2 * (n % q) = q /\ (n \div q) % 2 = 1) THEN 1 ELSE 0)
Scientific(d, e, last) == <<d[1]>> \o (IF last > 1 THEN <<Point>> \o SubSeq(d, 2, last) ELSE <<>>) \o <<101, 43, 48 + (e \div 10), 48 + (e % 10)>>
Mantissa(d, digits) == Scientific(d, digits - 1 + Len(d) - SigDigits, Max({i \in 1 .. Len(d) : d[i] # 48}))
General(n) ==
    LET d == DigitsOf(n)
    IN IF Len(d) <= SigDigits THEN Signed(n, d)
       ELSE Signed(n, Mantissa(DigitsOf(Rounded(Size(n), Pow10(Len(d) - SigDigits))), Len(d)))
\* "%.6f"
Fixed(n) == Decimal(n) \o <<Point, 48, 48, 48, 48, 48, 48>>

Isdigit(c) == c \in 48 .. 57
\* The longest run of digits from place i on.
RunFrom(s, i) ==
    LET stops == {j \in i .. Len(s) : ~Isdigit(s[j])}
    IN SubSeq(s, i, IF stops = {} THEN Len(s) ELSE Min(stops) - 1)
ValueOf(ds) == FoldLeft(LAMBDA n, c : 10 * n + (c - 48), 0, ds)
StartOf(s) == LET solid == {j \in 1 .. Len(s) : s[j] \notin Blanks} IN IF solid = {} THEN Len(s) + 1 ELSE Min(solid)
\* strtoll: a sign and digits, whatever follows them.
strtoll(s) ==
    LET i == StartOf(s)
        j == IF CharAt(s, i) \in {Minus, 43} THEN i + 1 ELSE i
    IN (IF CharAt(s, i) = Minus THEN 0 - 1 ELSE 1) * ValueOf(RunFrom(s, j))
\* strtod, of the whole numbers that "%.9g" and "%.6f" write.
Scaled(whole, frac, e) == IF e >= Len(frac) THEN ValueOf(whole \o frac) * Pow10(e - Len(frac)) ELSE ValueOf(whole) * Pow10(e)
WithExponent(s, whole, frac, m) == Scaled(whole, frac, IF CharAt(s, m) = 101 /\ CharAt(s, m + 1) = 43 THEN ValueOf(RunFrom(s, m + 2)) ELSE 0)
WithFraction(s, whole, k) ==
    IF CharAt(s, k) = Point THEN LET frac == RunFrom(s, k + 1) IN WithExponent(s, whole, frac, k + 1 + Len(frac))
    ELSE WithExponent(s, whole, <<>>, k)
Unsigned(s, j) == LET whole == RunFrom(s, j) IN WithFraction(s, whole, j + Len(whole))
strtod(s) == LET i == StartOf(s) IN IF CharAt(s, i) = Minus THEN 0 - Unsigned(s, i + 1) ELSE Unsigned(s, IF CharAt(s, i) = 43 THEN i + 1 ELSE i)
TrueText == <<116, 114, 117, 101>>
dAtob(s) == s = TrueText \/ strtod(s) # 0
Wrapped(n, bits) == LET m == n % (2 ^ bits) IN IF m >= 2 ^ (bits - 1) THEN m - 2 ^ bits ELSE m

(***************************************************************************)
(* Lists in a text, and back.                                              *)
(***************************************************************************)
\* The numbers of a text, up to one that is not a number.
Scanned(s) ==
    LET starts == {1} \cup {i + 1 : i \in {j \in 1 .. Len(s) : s[j] = Space}}
        \* A piece begins where the one before it left its blank.
        Piece(i) == i + StartOf(SubSeq(s, i, Len(s))) - 1
        IsNumber(i) == Isdigit(CharAt(s, i)) \/ (CharAt(s, i) = Minus /\ Isdigit(CharAt(s, i + 1)))
        L[i \in 1 .. Len(s) + 1] ==
          LET p == Piece(i)  after == {k \in starts : k > p}
          IN IF i > Len(s) \/ p > Len(s) \/ ~IsNumber(p) THEN <<>>
             ELSE <<strtoll(SubSeq(s, p, Len(s)))>> \o (IF after = {} THEN <<>> ELSE L[Min(after)])
    IN L[1]
Joined(parts, between) ==
    LET J[k \in 0 .. Len(parts)] == IF k = 0 THEN <<>> ELSE J[k - 1] \o (IF k = 1 THEN <<>> ELSE <<between>>) \o parts[k]
    IN J[Len(parts)]
\* StringUnit::getUnit with ",".
Units(s) == IF s = <<>> THEN <<>> ELSE Split(s, Comma)

(***************************************************************************)
(* Console values.                                                         *)
(***************************************************************************)
\* The text a type's own cast gives, which a number's buffer may cut.
TypeText(T, v) ==
    CASE T \in NumberTypes \cup {"simObject"} -> IF T = "F32" THEN Cut(Fixed(v), 31) ELSE Cut(Decimal(v), NumberBuffer - 1)
      [] T \in ListTypes \cup {"stringVector"} ->
            LET parts == [k \in 1 .. Len(v) |-> IF T = "stringVector" THEN v[k] ELSE IF T = "F32Vector" THEN General(v[k]) ELSE Decimal(v[k])]
            IN Cut(Joined(parts, IF T = "stringVector" THEN Comma ELSE Space), ListBuffer - 1)
      [] T = "enum" -> EnumLabels[v + 1]
      [] T = "string" -> v
Immediate(cv) == IF cv[1] \in {"num", "uint"} THEN cv[2] ELSE 0
valueAsFloat(cv) == IF cv[1] = "str" THEN strtod(cv[2]) ELSE Immediate(cv)
valueAsInt(cv) == IF cv[1] = "str" THEN strtoll(cv[2]) ELSE Immediate(cv)
valueAsBool(cv) == IF cv[1] = "str" THEN IF dAtob(cv[2]) THEN 1 ELSE 0 ELSE Immediate(cv)
\* A value of a list type becomes the text of its cast, in a short buffer.
valueAsString(cv) ==
    CASE cv[1] = "num" -> General(cv[2])
      [] cv[1] = "uint" -> Decimal(cv[2])
      [] cv[1] = "str" -> cv[2]
      [] OTHER -> Cut(TypeText(cv[1], cv[2]), TempSize - 1)

(***************************************************************************)
(* The casts.  Taken is what a type makes of the values it is given, Shown *)
(* what a field of a type is read as when another one is asked for.        *)
(***************************************************************************)
FoundId(s) == IF Len(RunFrom(s, 1)) = Len(s) /\ strtoll(s) \in ObjectIds THEN strtoll(s) ELSE 0
Bits(T) == IF T = "S8" THEN 8 ELSE IntBits
TakenNumber(T, cv) ==
    CASE T \in {"S8", "S32", "enum"} -> Wrapped(valueAsInt(cv), Bits(T))
      [] T = "F32" -> valueAsFloat(cv)
      [] T = "bool" -> IF valueAsBool(cv) # 0 THEN 1 ELSE 0
AsElement(T, n) == IF T = "boolVector" THEN IF n # 0 THEN 1 ELSE 0 ELSE n
Elements(T, l) == [k \in 1 .. Len(l) |-> AsElement(T, l[k])]
TakenList(T, args, text) ==
    IF Len(args) = 1 /\ args[1][1] = T THEN args[1][2]
    ELSE Elements(T, IF Len(args) > 1 THEN [k \in 1 .. Len(args) |-> valueAsFloat(args[k])] ELSE Scanned(text))
TakenText(T, args, texts) ==
    CASE T = "simObject" -> FoundId(texts[1])
      [] T \in ListTypes -> TakenList(T, args, texts[1])
      [] T = "stringVector" -> IF Len(args) > 1 THEN texts ELSE Units(texts[1])
      [] T = "string" -> texts[1]
\* A string and an enumeration refuse more than one value, a number takes
\* the first.
Takes(T, args) == T \in {"string", "enum"} => Len(args) = 1
Taken(T, args) ==
    IF T \in NumberTypes \cup {"enum"} THEN TakenNumber(T, args[1])
    ELSE TakenText(T, args, [k \in 1 .. Len(args) |-> valueAsString(args[k])])
\* A list read as itself is its count and its numbers, under the type of a
\* text: what is read of it is the one byte of a count that is not 0.
RawList(v) == Str(IF Len(v) = 0 THEN <<>> ELSE <<Len(v)>>)
Shown(T, v, asked) ==
    CASE asked = "str" -> Str(TypeText(T, v))
      [] asked # "str" /\ T \in NumberTypes \cup {"simObject", "enum"} -> IF asked = "uint" THEN Uint(v) ELSE Num(v)
      [] asked # "str" /\ T \in ListTypes -> RawList(v)
      [] asked # "str" /\ T \in {"string", "stringVector"} ->
            LET text == TypeText(T, v)
            IN IF asked = "uint" THEN Uint(strtoll(text)) ELSE IF asked = "num" THEN Num(strtod(text)) ELSE Str(text)
\* A field read with TypeDirectCopy, in its own type.
Direct(T, v) == Shown(T, v, T)

\* castToReturn to a text, of a type or (with no type) of a text.
castToReturn(args, T) == IF T = "none" THEN valueAsString(args[1]) ELSE IF Takes(T, args) THEN TypeText(T, Taken(T, args)) ELSE <<>>

\* What a text of the type holds exactly.
Exact(T, v) ==
    CASE T \in {"S8", "S32"} -> Size(v) < Pow10(SigDigits)
      [] T = "F32" -> \E e \in 0 .. 9 : Size(v) < Pow10(SigDigits) \/ (Size(v) \div Pow10(e) < Pow10(SigDigits) /\ Size(v) % Pow10(e) = 0)
      [] T \in ListTypes \cup {"enum"} -> FALSE
      [] T = "stringVector" -> Len(TypeText(T, v)) < ListBuffer - 1
      [] OTHER -> TRUE
-----------------------------------------------------------------------------
(***************************************************************************)
(* The fields of sim objects.  A class declares fields of a type and a     *)
(* count, a script class declares typed ones, and every other name is kept *)
(* as a text in the object's dictionary.  Objects are copied, cloned and   *)
(* written as a text that makes them again.                                *)
(***************************************************************************)
CONSTANTS
    Objects, FieldOrder, \* the declared fields, in the order of their class
    TypeOf, CountOf,     \* and what each one holds
    ScriptFields,        \* the script class's fields and their types
    DynamicNames, Keys, IndexOf, \* names and array keys scripts use, a key's number
    Texts, Leftovers,    \* the texts scripts set, and what a return buffer may hold
    MaxSets              \* bound: operations on the objects

VARIABLES
    ob,        \* an object's declared fields, dictionary and group
    interned,  \* the string table: one spelling of each text
    sets,      \* operations so far
    copied     \* the last copy: from, to

fieldVars == <<ob, interned, sets, copied>>
Declared == {FieldOrder[i] : i \in 1 .. Len(FieldOrder)}
UntypedText == "none"
NewObject ==
    [st |-> [f \in Declared |-> [j \in 0 .. CountOf[f] - 1 |->
               CASE TypeOf[f] \in NumberTypes -> IF f = "canSaveDynamicFields" THEN 1 ELSE 0
                 [] TypeOf[f] = "simObject" -> 0
                 [] OTHER -> <<>>]],
     dy |-> <<>>, group |-> 0]
FieldsInit ==
    /\ ob = [o \in Objects |-> NewObject]
    /\ interned = {<<>>} /\ sets = 0 /\ copied = <<>>

(***************************************************************************)
(* SimFieldDictionary: a function from slot names to a text and a type.    *)
(***************************************************************************)
Slot(name, key) == name \o key
\* An empty text without a type removes the entry; a new text keeps its type.
setFieldValue(dy, slot, value, type) ==
    IF value = <<>> /\ type = ""
    THEN [s \in DOMAIN dy \ {slot} |-> dy[s]]
    ELSE LET kept == IF slot \in DOMAIN dy THEN dy[slot].type ELSE UntypedText
         IN [s \in DOMAIN dy \cup {slot} |->
               IF s = slot THEN [value |-> value, type |-> IF type = "" THEN kept ELSE type] ELSE dy[s]]
getFieldValue(dy, slot) == IF slot \in DOMAIN dy THEN dy[slot] ELSE [value |-> <<>>, type |-> UntypedText]
assignFrom(to, from) ==
    [s \in DOMAIN to \cup DOMAIN from |->
       IF s \in DOMAIN from /\ (from[s].value # <<>>)
       THEN [value |-> from[s].value, type |-> IF s \in DOMAIN to THEN to[s].type ELSE UntypedText]
       ELSE IF s \in DOMAIN from THEN [value |-> <<>>, type |-> "gone"] ELSE to[s]]
Cleaned(dy) == [s \in {t \in DOMAIN dy : dy[t].type # "gone"} |-> dy[s]]

(***************************************************************************)
(* Setting a field: a script class's field goes to the dictionary under    *)
(* its type; a declared one is set, and the dictionary is given the text   *)
(* as well, under the name with the array key behind it.                   *)
(***************************************************************************)
Lower(s) == [i \in 1 .. Len(s) |-> IF s[i] \in 65 .. 90 THEN s[i] + 32 ELSE s[i]]
internString(v) == IF \E t \in interned : Lower(t) = Lower(v) THEN CHOOSE t \in interned : Lower(t) = Lower(v) ELSE v
SetCustomFieldByName(x, name, key, args) ==
    LET slot == Slot(name, key)
        scripted == name \in DOMAIN ScriptFields
        type == IF scripted THEN ScriptFields[name] ELSE getFieldValue(x.dy, slot).type
        text == castToReturn(args, type)
    IN [x EXCEPT !.dy = setFieldValue(x.dy, slot, text, IF scripted THEN type ELSE "")]
Put(x, name, j, v) == [x EXCEPT !.st[name][j] = IF TypeOf[name] = "string" THEN internString(v) ELSE v]
\* A field the class declares, where its index is one; parentGroup is set by
\* adding the object to the group that the text finds.
SetDeclared(x, name, key, args) ==
    CASE name \notin Declared \/ IndexOf[key] >= CountOf[name] -> x
      [] name = "parentGroup" /\ IndexOf[key] < CountOf[name] ->
            [x EXCEPT !.group = IF Len(args) = 1 /\ FoundId(args[1][2]) # 0 THEN FoundId(args[1][2]) ELSE @]
      [] OTHER -> IF Takes(TypeOf[name], args) THEN Put(x, name, IndexOf[key], Taken(TypeOf[name], args)) ELSE x
setObjectFieldTuple(x, name, key, args) ==
    SetCustomFieldByName(IF name \in DOMAIN ScriptFields THEN x ELSE SetDeclared(x, name, key, args), name, key, args)

GetFieldByName(x, name, key) ==
    LET entry == getFieldValue(x.dy, Slot(name, key))
        type == IF name \in DOMAIN ScriptFields THEN ScriptFields[name] ELSE entry.type
    IN IF type = UntypedText THEN Str(entry.value) ELSE Direct(type, Taken(type, <<Str(entry.value)>>))
\* An index that is not one of the field's reads as nothing.
getObjectField(x, name, key) ==
    CASE name \in DOMAIN ScriptFields \/ name \notin Declared -> GetFieldByName(x, name, key)
      [] name \in Declared /\ name \notin DOMAIN ScriptFields /\ IndexOf[key] >= CountOf[name] -> Str(<<>>)
      [] OTHER -> Direct(TypeOf[name], x.st[name][IndexOf[key]])
getDataField(x, name, key) == valueAsString(getObjectField(x, name, key))
KeyOf(j) == CHOOSE k \in Keys : k # "" /\ IndexOf[k] = j
\* Every element of a declared field; parentGroup, which is never written,
\* reads as what the return buffer holds.
Readings(x, slots) ==
    [name \in Declared \cup slots |->
       [j \in 0 .. (IF name \in Declared THEN CountOf[name] - 1 ELSE 0) |->
          IF name = "parentGroup" THEN <<>> ELSE getDataField(x, name, IF name \in Declared THEN KeyOf(j) ELSE "")]]

(***************************************************************************)
(* The text of an object, and the object its text makes.                   *)
(***************************************************************************)
writeField(name, text) == text # <<>> /\ name # "parentGroup"
writeDataFn(x, name) == name = "canSaveDynamicFields" => x.st[name][0] = 0
DeclaredLines(x) ==
    LET read == Readings(x, {})
        Lines(name) == [j \in 1 .. CountOf[name] |-> [name |-> name, key |-> IF CountOf[name] = 1 THEN "" ELSE KeyOf(j - 1), text |-> read[name][j - 1]]]
        Written(name) == IF CountOf[name] = 1 /\ ~writeDataFn(x, name) THEN <<>> ELSE SelectSeq(Lines(name), LAMBDA l : writeField(name, l.text))
    IN FlattenSeq([i \in 1 .. Len(FieldOrder) |-> Written(FieldOrder[i])])
Escaped(lines) == [i \in 1 .. Len(lines) |-> [lines[i] EXCEPT !.text = expandEscape(@)]]
\* The entries that are not the shadow of a declared field.
DictionaryLines(x) ==
    LET slots == SetToSeq({s \in DOMAIN x.dy : s \notin Declared /\ writeField(s, x.dy[s].value)})
    IN [i \in 1 .. Len(slots) |-> [name |-> slots[i], key |-> "", text |-> x.dy[slots[i]].value]]
\* Mutant: the dictionary is written first.
writeFieldsSwapped(x) == Escaped((IF x.st["canSaveDynamicFields"][0] # 0 THEN DictionaryLines(x) ELSE <<>>) \o DeclaredLines(x))
writeFields(x) == Escaped(DeclaredLines(x) \o IF x.st["canSaveDynamicFields"][0] # 0 THEN DictionaryLines(x) ELSE <<>>)
\* What executing the text makes: the fields are set one after the other.
Remade(lines) == FoldLeft(LAMBDA x, l : setObjectFieldTuple(x, l.name, l.key, <<Str(collapseEscape(l.text))>>), NewObject, lines)

(***************************************************************************)
(* Operations.                                                             *)
(***************************************************************************)
Once == sets < MaxSets /\ sets' = sets + 1
\* The texts an operation interned: those of the TypeString fields.
Interned(x) == UNION {{x.st[f][j] : j \in DOMAIN x.st[f]} : f \in {g \in Declared : TypeOf[g] = "string"}}
Changed(o, x) == ob' = [ob EXCEPT ![o] = x] /\ interned' = interned \cup Interned(x)
\* %obj.name[key] = value, or a tuple of two.
setDataField(o, name, key, args) ==
    /\ Once /\ Changed(o, setObjectFieldTuple(ob[o], name, key, args)) /\ copied' = <<>>
\* A type for a name of the dictionary; its text is lost.
SetCustomFieldType(o, name, key, type) ==
    /\ Once /\ Changed(o, [ob[o] EXCEPT !.dy = setFieldValue(@, Slot(name, key), <<>>, type)]) /\ copied' = <<>>
\* setInternalName sets the member, and no field.
setInternalName(o, text) ==
    /\ Once /\ Changed(o, [ob[o] EXCEPT !.st["internalName"][0] = internString(text)]) /\ copied' = <<>>
\* assignFieldsFromTo: each declared field without a key, then each entry of
\* the dictionary by its slot's name.  Reading parentGroup gives what the
\* return buffer holds.
CopiedDeclared(x, y, left) ==
    FoldLeft(LAMBDA z, f : setObjectFieldTuple(z, f, "", <<IF f = "parentGroup" THEN Str(left) ELSE getObjectField(x, f, "")>>), y, FieldOrder)
CopiedEntries(x, y) ==
    FoldLeft(LAMBDA z, s : setObjectFieldTuple(z, s, "", <<Str(x.dy[s].value)>>), y, SetToSeq(DOMAIN x.dy))
assignFieldsFrom(o, p) ==
    /\ Once /\ o # p
    /\ \E left \in Leftovers : Changed(p, CopiedEntries(ob[o], CopiedDeclared(ob[o], ob[p], left)))
    /\ copied' = <<o, p>>
\* A clone is a new object with the dictionary's texts and the class names.
clone(o, p, copyDynamicFields) ==
    /\ Once /\ o # p
    /\ LET new == [NewObject EXCEPT !.st["class"] = ob[o].st["class"]]
       IN Changed(p, IF copyDynamicFields THEN [new EXCEPT !.dy = Cleaned(assignFrom(@, ob[o].dy))] ELSE new)
    /\ copied' = <<>>

Given == {<<Str(t)>> : t \in Texts} \cup {<<Num(5), Str(<<49>>)>>}
FieldNames == Declared \cup DOMAIN ScriptFields \cup DynamicNames
FieldsNext ==
    \/ \E o \in Objects, n \in FieldNames, k \in Keys, args \in Given : setDataField(o, n, k, args)
    \/ \E o \in Objects, n \in DynamicNames, k \in Keys, T \in {"S32", "F32", "bool"} : SetCustomFieldType(o, n, k, T)
    \/ \E o \in Objects, t \in Texts : setInternalName(o, t)
    \/ \E o, p \in Objects : assignFieldsFrom(o, p)
    \/ \E o, p \in Objects, b \in BOOLEAN : clone(o, p, b)

(***************************************************************************)
(* Properties.                                                             *)
(***************************************************************************)
Legible(t) == t = Guarded1(t)
\* The text that write gives makes an object that reads the same: in every
\* declared field whose text is exact, whatever was set before, natively or
\* by a script, and in every entry that is not the shadow of one.
WrittenReadsBack ==
    \A o \in DOMAIN ob :
      LET x == ob[o]
          slots == IF x.st["canSaveDynamicFields"][0] # 0
                   THEN {s \in DOMAIN x.dy \ Declared : x.dy[s].type = UntypedText \/ s \in DOMAIN ScriptFields} ELSE {}
          before == Readings(x, slots)
          after == Readings(Remade(writeFields(x)), slots)
      IN \A name \in Declared \cup slots : \A j \in DOMAIN before[name] :
            Legible(before[name][j]) /\ (name \in Declared => Exact(TypeOf[name], x.st[name][j])) => after[name][j] = before[name][j]
\* Whatever one object is given, assignFieldsFrom gives the other the first
\* element of each of its declared fields that no entry of its dictionary hides
\* (VmInternal::assignFieldsFromTo asks for no other element).
ElementsCarried(Which(_)) ==
    copied # <<>> =>
      \A f \in Declared \ ({"parentGroup"} \cup DOMAIN ob[copied[1]].dy) : \A j \in Which(f) :
         LET x == ob[copied[1]]  y == ob[copied[2]]
         IN Exact(TypeOf[f], x.st[f][j]) => y.st[f][j] = x.st[f][j]
CopyCarriesFields == LET First(f) == {0} IN ElementsCarried(First)
\* It gives it every element: "Everything from obj will overwrite what's in
\* this object" (simBase.h:992).  Not so behind the first one; no run checks this.
CopyCarriesElements == LET Every(f) == 0 .. CountOf[f] - 1 IN ElementsCarried(Every)

-----------------------------------------------------------------------------
(***************************************************************************)
(* SimObject::save: an object's text takes the place between two marks of  *)
(* a file, and the lines around them are kept.  The file is a sequence of  *)
(* characters, of which "B" and "E" stand for the whole text of a mark.    *)
(***************************************************************************)

CONSTANTS
    LineBuffer,      \* the size of save's lineBuffer (4096)
    FileChars,       \* the characters of a file: CR, LF, marks and others
    MaxText,         \* bound: the length of a file before the first save
    MaxSaves         \* bound

CR == "r"    LF == "n"    Begin == "B"    End == "E"    Object == "o"

VARIABLES
    content,   \* the file, a sequence of characters, or <<"none">> without one
    saves

fileVars == <<content, saves>>
NoFile == <<"none">>
FilesInit == content \in {NoFile} \cup BoundedSeq(FileChars, MaxText) /\ saves = 0

(***************************************************************************)
(* Stream::readLine over a MemStream: at is the next character to read,    *)
(* at a place after the last one the read fails and the status is EOS.     *)
(***************************************************************************)
ReadFails(s, at) == at > Len(s)
\* The CRs before a line are skipped; what is left of the line is what was
\* read less its CRs, and less the last character that filled the buffer.
SkipCR(s, at) == IF \E i \in at .. Len(s) : s[i] # CR THEN CHOOSE i \in at .. Len(s) : s[i] # CR /\ \A j \in at .. i - 1 : s[j] = CR ELSE Len(s) + 1
\* text is what the buffer holds, next the place of the next character and
\* ok whether the stream's last read succeeded.
Rest(s, first) ==
    LET R[i \in 1 .. Len(s) + 1] ==  \* from place i on, the buffer's length being given
          [n \in 0 .. LineBuffer |->
             IF n = LineBuffer - 1 THEN [text |-> <<>>, next |-> i, ok |-> TRUE]
             ELSE IF ReadFails(s, i) THEN [text |-> <<>>, next |-> i, ok |-> FALSE]
             ELSE IF s[i] = LF THEN [text |-> <<>>, next |-> i + 1, ok |-> TRUE]
             ELSE IF s[i] = CR THEN R[i + 1][n]
             ELSE LET t == R[i + 1][n + 1] IN [t EXCEPT !.text = IF n + 1 = LineBuffer - 1 THEN <<>> ELSE <<s[i]>> \o @]]
    IN R[first][0]
readLine(s, at) ==
    LET i == SkipCR(s, at)
        t == Rest(s, i + 1)
    IN IF ReadFails(s, i) THEN [text |-> <<>>, next |-> i, ok |-> FALSE]
       ELSE IF s[i] = LF THEN [text |-> <<>>, next |-> i + 1, ok |-> TRUE]
       ELSE [t EXCEPT !.text = <<s[i]>> \o @]
LineEnd == <<CR, LF>>
\* The lines up to a mark, or to the end of the file.
Lines(s, at, mark) ==
    LET L[i \in 1 .. Len(s) + 1] ==
          LET line == readLine(s, i)
          IN IF line.text = mark THEN [out |-> <<>>, next |-> line.next, ok |-> line.ok]
             ELSE IF ~line.ok THEN [out |-> line.text \o LineEnd, next |-> line.next, ok |-> FALSE]
             ELSE LET t == L[line.next] IN [t EXCEPT !.out = line.text \o LineEnd \o @]
    IN L[at]
NoMark == <<"no mark">>

(***************************************************************************)
(* save: the lines before the first mark, the marks around the object's    *)
(* text, and the lines after the second one.  A file that is not there     *)
(* is an empty stream that fails its first read.                           *)
(***************************************************************************)
WrittenObject == <<Begin>> \o LineEnd \o <<Object>> \o LineEnd \o <<End>> \o LineEnd
\* Mutant: what the file held between the marks is kept.
SavedKeepsOld(s) ==
    LET before == Lines(s, 1, <<Begin>>)
        after == Lines(s, before.next, NoMark)
    IN before.out \o WrittenObject \o IF before.ok THEN after.out ELSE <<>>
Saved(s) ==
    LET before == Lines(s, 1, <<Begin>>)
        old == Lines(s, before.next, <<End>>)
        after == Lines(s, old.next, NoMark)
    IN before.out \o WrittenObject \o IF before.ok /\ old.ok THEN after.out ELSE <<>>
save ==
    /\ saves < MaxSaves
    /\ content' = Saved(IF content = NoFile THEN <<>> ELSE content)
    /\ saves' = saves + 1
FilesNext == save
FilesSpec == FilesInit /\ [][FilesNext]_fileVars

(***************************************************************************)
(* Properties.                                                             *)
(***************************************************************************)
\* The lines of a text, without CRs and without the empty ones; one that is as
\* long as the buffer is cut, and the character at the cut is lost.
Pieces(l) ==
    LET To(k) == IF k * LineBuffer - 1 < Len(l) THEN k * LineBuffer - 1 ELSE Len(l)
    IN [k \in 1 .. (Len(l) \div LineBuffer) + 1 |-> SubSeq(l, (k - 1) * LineBuffer + 1, To(k))]
RefLines(s) ==
    LET ls == Split(SelectSeq(s, LAMBDA c : c # CR), LF)
    IN SelectSeq(FlattenSeq([i \in 1 .. Len(ls) |-> Pieces(ls[i])]), LAMBDA l : l # <<>>)
FirstLine(ls, l) == IF \E i \in 1 .. Len(ls) : ls[i] = l THEN CHOOSE i \in 1 .. Len(ls) : ls[i] = l /\ \A j \in 1 .. i - 1 : ls[j] # l ELSE Len(ls) + 1
Outside(s) ==
    LET ls == RefLines(s)
        b == FirstLine(ls, <<Begin>>)
        rest == SubSeq(ls, b + 1, Len(ls))
    IN <<SubSeq(ls, 1, b - 1), SubSeq(rest, FirstLine(rest, <<End>>) + 1, Len(rest))>>
\* Saving keeps every line around the marks, in its order, and writes the
\* object once, however often it is saved and however the file's lines end;
\* a file without marks is kept whole, before them.  Of a line that fills the
\* buffer of SimObject::save every piece is kept.
SaveKeepsRest ==
    [][/\ Outside(content') = Outside(IF content = NoFile THEN <<>> ELSE content)
       /\ Cardinality({i \in 1 .. Len(RefLines(content')) : RefLines(content')[i] = <<Object>>}) = 1]_fileVars

\* Both ways of carrying an object's fields over to another one: its text, and
\* a copy.
FieldsSurvive == WrittenReadsBack /\ CopyCarriesFields
=============================================================================
