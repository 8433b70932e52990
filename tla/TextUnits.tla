------------------------------ MODULE TextUnits ------------------------------
(***************************************************************************)
(* Scripts keep lists in strings: words parted by blanks, fields by tabs,  *)
(* records by newlines.  The functions that take such a text apart and put *)
(* it together (consoleFunctions.cc and stringUnit.cc, which hold the same *)
(* loops twice), and those that search and replace in it, run here on a    *)
(* text that a script edits with them.                                     *)
(*                                                                         *)
(* A character is a one-letter string: "_" the blank, "|" the tab, "/" the *)
(* newline.  Positions count from 1, and Len + 1 is the terminator's.      *)
(***************************************************************************)
EXTENDS Integers, SequencesExt, FiniteSetsExt

CONSTANTS TextChars, MaxTextLength

VARIABLES script, token     \* the text, and what nextToken left in its variable
textVars == <<script, token>>

WordSet == {"_", "|", "/"}
FieldSet == {"|", "/"}
RecordSet == {"/"}
UnitSets == {WordSet, FieldSet, RecordSet}
Delimiter(set) == IF set = WordSet THEN "_" ELSE IF set = FieldSet THEN "|" ELSE "/"

\* dStrcspn: the first place from p on that holds one of the set, or the terminator.
Cspn(s, p, set) == IF \E q \in p .. Len(s) : s[q] \in set THEN CHOOSE q \in p .. Len(s) : s[q] \in set /\ \A r \in p .. q - 1 : s[r] \notin set ELSE Len(s) + 1
Part(s, from, to) == SubSeq(s, from, IF to > Len(s) THEN Len(s) ELSE to)

\* The loop over index: where the unit starts, or 0 when there is no such unit.
SkipUnits(s, index, set) ==
    LET At[n \in 0 .. index] == IF n = 0 THEN 1 ELSE IF At[n - 1] = 0 \/ Cspn(s, At[n - 1], set) > Len(s) THEN 0 ELSE Cspn(s, At[n - 1], set) + 1
    IN At[index]
UnitFrom(s, p, set) == IF p = 0 THEN <<>> ELSE Part(s, p, Cspn(s, p, set) - 1)
getUnit(s, index, set) == UnitFrom(s, SkipUnits(s, index, set), set)
\* The loop of getUnits runs to the end of the text or past the separator behind unit b.
UnitsEnd(s, p, count, set) ==
    LET At[n \in 0 .. count] == IF n = 0 THEN p ELSE IF At[n - 1] > Len(s) THEN At[n - 1] ELSE IF Cspn(s, At[n - 1], set) > Len(s) THEN Len(s) + 1 ELSE Cspn(s, At[n - 1], set) + 1
    IN IF At[count] > Len(s) THEN Len(s) + 2 ELSE At[count]
UnitsFrom(s, p, count, set) == IF p = 0 THEN <<>> ELSE Part(s, p, UnitsEnd(s, p, count, set) - 2)
getUnits(s, a, b, set) == UnitsFrom(s, SkipUnits(s, a, set), b - a + 1, set)
getUnitCount(s, set) == Cardinality({i \in 1 .. Len(s) : s[i] \in set}) + IF s # <<>> /\ Last(s) \notin set THEN 1 ELSE 0
\* A text with too few units gets delimiters up to the one that is set.
Missing(s, index, set) == index - Cardinality({i \in 1 .. Len(s) : s[i] \in set})
ReplacedAt(s, p, replace, set) == Part(s, 1, p - 1) \o replace \o SubSeq(s, Cspn(s, p, set), Len(s))
setUnit(s, index, replace, set) ==
    IF SkipUnits(s, index, set) = 0 THEN s \o [i \in 1 .. Missing(s, index, set) |-> Delimiter(set)] \o replace
    ELSE ReplacedAt(s, SkipUnits(s, index, set), replace, set)
\* With the unit goes the delimiter behind it, or the one before it if it is the last.
RemovedAtKeeps(s, p, set) == IF p = 0 THEN s ELSE Part(s, 1, p - 1) \o SubSeq(s, Cspn(s, p, set) + 1, Len(s))
RemovedAt(s, p, set) ==
    IF p = 0 THEN s
    ELSE IF Cspn(s, p, set) > Len(s) THEN Part(s, 1, p - 2)
    ELSE Part(s, 1, p - 1) \o SubSeq(s, Cspn(s, p, set) + 1, Len(s))
removeUnit(s, index, set) == RemovedAt(s, SkipUnits(s, index, set), set)

\* nextToken: the token goes into a variable, and the rest starts at the token behind.
Span(s, p, set) == IF \E q \in p .. Len(s) : s[q] \notin set THEN CHOOSE q \in p .. Len(s) : s[q] \notin set /\ \A r \in p .. q - 1 : s[r] \in set ELSE Len(s) + 1
TokenAt(s, p, delim) == [token |-> Part(s, p, Cspn(s, p, delim) - 1), rest |-> SubSeq(s, Span(s, Cspn(s, p, delim), delim), Len(s))]
nextToken(s, delim) == TokenAt(s, Span(s, 1, delim), delim)
firstWord(s) == Part(s, 1, Cspn(s, 1, {"_"}) - 1)
restWords(s) == SubSeq(s, Cspn(s, 1, {"_"}) + 1, Len(s))

-----------------------------------------------------------------------------
(***************************************************************************)
(* Searching and replacing.                                                *)
(***************************************************************************)
IsAt(s, p, sub) == p + Len(sub) - 1 <= Len(s) /\ SubSeq(s, p, p + Len(sub) - 1) = sub
strpos(s, needle, offset) ==
    IF offset < 0 \/ ~ \E p \in offset + 1 .. Len(s) + 1 : IsAt(s, p, needle) THEN 0 - 1
    ELSE (CHOOSE p \in offset + 1 .. Len(s) + 1 : IsAt(s, p, needle) /\ \A q \in offset + 1 .. p - 1 : ~ IsAt(s, q, needle)) - 1
getSubStr(s, start, count) == IF start < 0 \/ count < 0 \/ Len(s) < start THEN <<>> ELSE Part(s, start + 1, start + count)
ltrim(s) == SubSeq(s, Span(s, 1, WordSet), Len(s))
rtrim(s) == IF \E i \in 1 .. Len(s) : s[i] \notin WordSet THEN SubSeq(s, 1, CHOOSE i \in 1 .. Len(s) : s[i] \notin WordSet /\ \A j \in i + 1 .. Len(s) : s[j] \in WordSet) ELSE <<>>
trim(s) == rtrim(ltrim(s))
RECURSIVE stripChars(_, _)
stripChars(s, chars) == IF Cspn(s, 1, chars) > Len(s) THEN s ELSE stripChars(RemoveAt(s, Cspn(s, 1, chars)), chars)
RECURSIVE ReplacedFrom(_, _, _, _)
ReplacedFrom(s, scanp, from, to) ==
    IF strpos(s, from, scanp) < 0 THEN SubSeq(s, scanp + 1, Len(s))
    ELSE SubSeq(s, scanp + 1, strpos(s, from, scanp)) \o to \o ReplacedFrom(s, strpos(s, from, scanp) + Len(from), from, to)
strreplace(s, from, to) == IF from = <<>> THEN s ELSE ReplacedFrom(s, 0, from, to)

-----------------------------------------------------------------------------
TextInit == script \in BoundedSeq(TextChars, MaxTextLength) /\ token = <<>>
Becomes(t) == Len(t) <= MaxTextLength /\ script' = t /\ UNCHANGED token
Replacements == {<<>>, <<"a">>}
TextNext ==
    \/ \E set \in UnitSets, i \in 0 .. 2, r \in Replacements : Becomes(setUnit(script, i, r, set))
    \/ \E set \in UnitSets, i \in 0 .. 2 : Becomes(removeUnit(script, i, set))
    \/ script # <<>> /\ \E set \in UnitSets : token' = nextToken(script, set).token /\ script' = nextToken(script, set).rest
    \/ \E r \in Replacements : Becomes(strreplace(script, <<"_">>, r))
    \/ Becomes(trim(script)) \/ Becomes(stripChars(script, FieldSet)) \/ Becomes(restWords(script))
TextSpec == TextInit /\ [][TextNext]_textVars

-----------------------------------------------------------------------------
\* The units of a text, by the places of its delimiters.
Units_(s, set) ==
    FoldLeft(LAMBDA us, c : IF c \in set THEN Append(us, <<>>) ELSE [us EXCEPT ![Len(us)] = Append(@, c)], <<<<>>>>, s)
UnitOf(us, i) == IF i < Len(us) THEN us[i + 1] ELSE <<>>
(***************************************************************************)
(* Units behave like the elements of a list: reading one gives it, setting *)
(* one changes that one only and makes it readable, removing one shifts    *)
(* the ones behind it, and nextToken gives the units that are not empty,   *)
(* in their order.  A range of units keeps the delimiter behind it when    *)
(* the text ends there (consoleFunctions.cc 452-640, stringUnit.cc).       *)
(***************************************************************************)
UnitsAgree ==
    \A set \in UnitSets : LET us == Units_(script, set) IN
        /\ \A i \in 0 .. 2 :
            /\ getUnit(script, i, set) = UnitOf(us, i)
            /\ \A r \in Replacements : LET vs == Units_(setUnit(script, i, r, set), set) IN
                  /\ Len(vs) = Max({Len(us), i + 1})
                  /\ \A k \in 0 .. Len(vs) - 1 : UnitOf(vs, k) = IF k = i THEN r ELSE UnitOf(us, k)
            /\ i < Len(us) /\ Len(us) > 1 => Units_(removeUnit(script, i, set), set) = RemoveAt(us, i + 1)
            /\ \A j \in i .. 2 : (j + 2 # Len(us) \/ UnitOf(us, j + 1) # <<>>) =>
                  Units_(getUnits(script, i, j, set), set) = IF i < Len(us) THEN SubSeq(us, i + 1, IF j < Len(us) THEN j + 1 ELSE Len(us)) ELSE <<<<>>>>
        /\ getUnitCount(script, set) = IF Last(us) = <<>> THEN Len(us) - 1 ELSE Len(us)
        /\ LET solid == SelectSeq(us, LAMBDA u : u # <<>>) IN
           solid # <<>> => /\ nextToken(script, set).token = solid[1]
                           /\ SelectSeq(Units_(nextToken(script, set).rest, set), LAMBDA u : u # <<>>) = Tail(solid)

(***************************************************************************)
(* Replacing cuts the text into the same pieces whatever is put between    *)
(* them, and trimming leaves no blank at either end and every character    *)
(* between (consoleFunctions.cc 208-425).                                  *)
(* What strpos finds getSubStr cuts out, and firstWord and restWords are    *)
(* the two sides of the first blank.                                       *)
(***************************************************************************)
SearchesAgree ==
    /\ \A from \in BoundedSeq({"a", "_"}, 2) \ {<<>>} : LET cut == strreplace(script, from, <<"#">>) IN
          /\ strreplace(cut, <<"#">>, from) = script /\ strpos(cut, from, 0) = 0 - 1
          /\ \A k \in 0 .. Len(script) : LET p == strpos(script, from, k) IN
                p >= 0 => p >= k /\ getSubStr(script, p, Len(from)) = from
    /\ IF "_" \in Range(script) THEN script = firstWord(script) \o <<"_">> \o restWords(script)
       ELSE script = firstWord(script) /\ restWords(script) = <<>>
    /\ LET t == trim(script) IN
        /\ t # <<>> => t[1] \notin WordSet /\ Last(t) \notin WordSet
        /\ SelectSeq(t, LAMBDA c : c \notin WordSet) = SelectSeq(script, LAMBDA c : c \notin WordSet)

-----------------------------------------------------------------------------
(***************************************************************************)
(* The conversions between UTF-8, UTF-16 and UTF-32 (unicode.cc).  A text  *)
(* is converted again and again, into buffers that may be too short for    *)
(* it.  Code points above the basic plane and surrogates are replaced.     *)
(*                                                                         *)
(* The surrogate test leaves out both ends of the range, so D800 and DFFF  *)
(* pass through UTF-8 and are lost in UTF-16: Points does not hold them.   *)
(***************************************************************************)

CONSTANTS
    Points,          \* code points
    Bytes,           \* bytes that arrive from outside
    MaxPoints, MaxConversions,
    ShortBuffers     \* the lengths of buffers that may be too short

VARIABLES
    text,    \* the code points there were at first
    form,    \* the encoding of units: "utf8", "utf16" or "utf32"
    units,    \* the code units, without terminator
    cut,     \* a buffer was too short for all of them
    conversions

unicodeVars == <<text, form, units, cut, conversions>>
kReplacementChar == 65533
UnicodeInit ==
    /\ text \in BoundedSeq(Points, MaxPoints) /\ form = "utf32" /\ units = text
    /\ cut = FALSE /\ conversions = 0

isSurrogateRange(p) == 55296 < p /\ p < 57343
isAboveBMP(p) == p > 65535
Replaced(p) == IF isSurrogateRange(p) \/ isAboveBMP(p) THEN kReplacementChar ELSE p

\* How many bytes a sequence has by its first one; 0 for one that only follows.
firstByteLUT(b) == CASE b < 128 -> 1 [] b < 192 -> 0 [] b < 224 -> 2 [] b < 240 -> 3 [] b < 248 -> 4 [] b < 252 -> 5 [] b < 254 -> 6 [] OTHER -> 0
FirstBits(n) == <<128, 32, 16, 8, 4, 2>>[n]
ByteAt(s, i) == IF i > Len(s) THEN 0 ELSE s[i]
Got(point, walked) == [point |-> Replaced(point), walked |-> walked]
FollowedBy(s, i, n) == \A k \in 1 .. n - 1 : firstByteLUT(ByteAt(s, i + k)) = 0
Assembled(s, i, n) == LET V[k \in 0 .. n - 1] == IF k = 0 THEN s[i] % FirstBits(n) ELSE 64 * V[k - 1] + (s[i + k] % 64) IN V[n - 1]
oneUTF8toUTF32(s, i) ==
    IF s[i] < 128 THEN Got(s[i], 1)
    ELSE IF firstByteLUT(s[i]) = 0 \/ ~ FollowedBy(s, i, firstByteLUT(s[i])) THEN Got(kReplacementChar, 1)
    ELSE Got(Assembled(s, i, firstByteLUT(s[i])), firstByteLUT(s[i]))

surrogateLUT(u) == CASE u \div 1024 = 54 -> 1 [] u \div 1024 = 55 -> 2 [] OTHER -> 0
oneUTF16toUTF32(s, i) ==
    CASE surrogateLUT(s[i]) = 0 -> Got(s[i], 1)
      [] surrogateLUT(s[i]) = 1 /\ surrogateLUT(ByteAt(s, i + 1)) = 2 -> Got((s[i] % 1024) * 1024 + (s[i + 1] % 1024), 2)
      [] OTHER -> Got(kReplacementChar, 1)
oneUTF32toUTF16(p) == Replaced(p)
\* A mutant that has no bytes beyond the second.
BytesOfNarrow(p) == CASE p < 128 -> <<p>> [] OTHER -> <<192 + ((p \div 64) % 32), 128 + (p % 64)>>
BytesOf(p) == CASE p < 128 -> <<p>> [] p < 2048 -> <<192 + p \div 64, 128 + (p % 64)>>
                [] OTHER -> <<224 + p \div 4096, 128 + ((p \div 64) % 64), 128 + (p % 64)>>
oneUTF32toUTF8(p) == BytesOf(Replaced(p))

-----------------------------------------------------------------------------
(***************************************************************************)
(* The loops.  Each stops at the terminator or when the buffer is full; a  *)
(* converter to UTF-8 stops when fewer than three bytes and the terminator *)
(* are left.  getMin then makes room for the terminator, except where      *)
(* convertUTF16toUTF32 and convertUTF32toUTF16 bound it by len itself.     *)
(***************************************************************************)
Decoded(s, len, One(_, _), Put(_)) ==
    LET D[i \in 1 .. Len(s) + 1, n \in 0 .. len] ==
            IF i > Len(s) \/ n = len THEN <<>> ELSE <<Put(One(s, i).point)>> \o D[i + One(s, i).walked, n + 1]
    IN D[1, 0]
Encoded(s, len, One(_, _)) ==
    LET D[i \in 1 .. Len(s) + 1, n \in 0 .. len] ==
            IF i > Len(s) \/ n + 3 >= len THEN <<>>
            ELSE oneUTF32toUTF8(One(s, i).point) \o D[i + One(s, i).walked, n + Len(oneUTF32toUTF8(One(s, i).point))]
    IN D[1, 0]
Same(p) == p
PointAt(s, i) == [point |-> s[i], walked |-> 1]
Terminated(s, len) == SubSeq(s, 1, IF Len(s) < len - 1 THEN Len(s) ELSE len - 1)
convertUTF8toUTF16(s, len) == Terminated(Decoded(s, len, oneUTF8toUTF32, oneUTF32toUTF16), len)
convertUTF8toUTF32(s, len) == Terminated(Decoded(s, len, oneUTF8toUTF32, Same), len)
convertUTF16toUTF8(s, len) == Terminated(Encoded(s, len, oneUTF16toUTF32), len)
convertUTF16toUTF32(s, len) == Decoded(s, len, oneUTF16toUTF32, Same)
convertUTF32toUTF8(s, len) == Encoded(s, len, PointAt)
convertUTF32toUTF16(s, len) == Decoded(s, len, PointAt, oneUTF32toUTF16)

\* Without a buffer of the caller's the result is allocated: long enough for every text.
EnoughFor(s, to) == IF to = "utf8" THEN Len(s) * 3 + 1 ELSE Len(s) + 1
ConvertTo(from, to, result(_, _)) ==
    /\ form = from /\ conversions < MaxConversions /\ conversions' = conversions + 1
    /\ form' = to /\ UNCHANGED text
    /\ \E len \in ShortBuffers \cup {EnoughFor(units, to)} :
          units' = result(units, len) /\ cut' = (cut \/ len < EnoughFor(units, to))
UnicodeNext ==
    \/ ConvertTo("utf8", "utf16", convertUTF8toUTF16) \/ ConvertTo("utf8", "utf32", convertUTF8toUTF32)
    \/ ConvertTo("utf16", "utf8", convertUTF16toUTF8) \/ ConvertTo("utf16", "utf32", convertUTF16toUTF32)
    \/ ConvertTo("utf32", "utf8", convertUTF32toUTF8) \/ ConvertTo("utf32", "utf16", convertUTF32toUTF16)
UnicodeSpec == UnicodeInit /\ [][UnicodeNext]_unicodeVars

-----------------------------------------------------------------------------
\* chompUTF8BOM: only the mark of UTF-8 is taken off a script's text.
isValidUTF8BOM(bom) == bom[1] = 239 /\ bom[2] = 187 /\ bom[3] = 191
chompUTF8BOM(s) == IF isValidUTF8BOM([i \in 1 .. 4 |-> ByteAt(s, i)]) THEN SubSeq(s, 4, Len(s)) ELSE s
\* getNthCodepoint: the place of a code point, by the bytes that do not follow another.
getNthCodepoint(s, n) == CHOOSE i \in 1 .. Len(s) + 1 :
    /\ Cardinality({j \in 2 .. i : ByteAt(s, j) \notin 128 .. 191}) = n \/ i = Len(s) + 1
    /\ \A k \in 1 .. i - 1 : Cardinality({j \in 2 .. k : ByteAt(s, j) \notin 128 .. 191}) < n

Clean(s) == [i \in 1 .. Len(s) |-> Replaced(s[i])]
(***************************************************************************)
(* Whatever way a text takes through the encodings, no code point changes  *)
(* but those that are replaced, and a short buffer cuts it between two     *)
(* code points, never inside one; a byte order mark comes off alone; and a *)
(* code point is found again behind any bytes (unicode.cc 77-420).         *)
(***************************************************************************)
TextSurvives ==
    LET points == CASE form = "utf32" -> Clean(units)
                    [] form = "utf16" -> Decoded(units, Len(units), oneUTF16toUTF32, Same)
                    [] form = "utf8" -> Decoded(units, Len(units), oneUTF8toUTF32, Same)
    IN /\ IsPrefix(points, Clean(text)) /\ (~ cut => points = Clean(text))
       /\ form = "utf8" => /\ chompUTF8BOM(<<239, 187, 191>> \o units) = units
                           /\ \A n \in 0 .. Len(points) - 1 : oneUTF8toUTF32(units, getNthCodepoint(units, n)).point = points[n + 1]
                           /\ conversions = 1 /\ Len(text) = 1 /\ units # <<>> =>
                                \A junk \in BoundedSeq(Bytes, 3) : Last(Decoded(junk \o units, 8, oneUTF8toUTF32, Same)) = points[1]
=============================================================================
