-------------------------- MODULE StringConversion --------------------------
(* The readers of numbers, the case of letters and the escapes of XML in
   StringConversion.cpp.  (Its writers of dates are in DateText.)

   A phrase is typed one character after the other, from one of the alphabets.  A
   character is a byte, except for two that stand for several: InfText for "inf", and
   Reference(c) for what is between & and ; in the reference to c, its name or its
   number, which is negative for a byte of 128 or above (char is signed).           *)
EXTENDS Integers, Sequences, SequencesExt, FiniteSetsExt

CONSTANTS
  Alphabets,    \* sets of characters; a phrase is made of one of them
  MaxPhrase,    \* bound on the length of a phrase
  IntMax,       \* the largest int
  LongMax,      \* the largest long; an unsigned long has one bit more
  FloatMax,     \* the largest float
  Kilo          \* the step from a unit of stosz() to the next, 1024

VARIABLE phrase

ASSUME StringAssumption ==
  /\ MaxPhrase \in Nat /\ IntMax \in Nat /\ LongMax \in Nat /\ IntMax < LongMax
  /\ FloatMax \in Nat /\ Kilo \in Nat /\ \A A \in Alphabets : A \subseteq Nat

QuoteMark      == 34
AmpersandMark  == 38
ApostropheMark == 39
PlusMark       == 43
MinusMark      == 45
PointMark      == 46
SemicolonMark  == 59
LessMark       == 60
GreaterMark    == 62
InfText        == 256

Reference(c) == 1000 + c
Markup == {QuoteMark, AmpersandMark, ApostropheMark, LessMark, GreaterMark}

ULongModulus == 2 * LongMax + 2
IsNumeral(c) == c \in 48 .. 57

\* What a function returns: a value, nothing, or an exception.
Some(v) == [is |-> "some", value |-> v]
None    == [is |-> "none"]
Throws  == [is |-> "throws"]

\* stoi() and the others call the function with _opt; they throw where it returns nothing.
OrThrow(result) == IF result = None THEN Throws ELSE result

-----------------------------------------------------------------------------
(* Numbers.  The parsers of boost::spirit::qi read the longest beginning that is a
   number; they fail if there is none, or if it does not fit.                         *)
SkipNumerals(s, i) == Min({j \in i .. Len(s) + 1 : j > Len(s) \/ ~IsNumeral(s[j])})
NumeralsAt(s, i, j) ==
  LET upTo[k \in i - 1 .. j - 1] == IF k < i THEN 0 ELSE 10 * upTo[k - 1] + s[k] - 48
  IN upTo[j - 1]
SignEnd(s) == IF s # <<>> /\ s[1] \in {PlusMark, MinusMark} THEN 2 ELSE 1
Signed(s, n) == IF s # <<>> /\ s[1] = MinusMark THEN -n ELSE n

\* What is read from place "from" on; "rest" is the place after it.
QiInteger(s, from, low, high) ==
  LET rest == SkipNumerals(s, from)
      v    == Signed(s, NumeralsAt(s, from, rest))
  IN [ok |-> rest > from /\ low <= v /\ v <= high, value |-> v, rest |-> rest]

\* An unsigned number has no sign at all.
qi_long(s)  == QiInteger(s, SignEnd(s), -LongMax - 1, LongMax)
qi_ulong(s) == QiInteger(s, 1, 0, ULongModulus - 1)

\* A number with a mantissa and a count of decimals; no exponent is read here.
qi_double(s) ==
  LET from   == SignEnd(s)
      point  == SkipNumerals(s, from)
      isInf  == from <= Len(s) /\ s[from] = InfText
      isFrac == point <= Len(s) /\ s[point] = PointMark
      rest   == IF isInf THEN from + 1
                ELSE IF isFrac THEN SkipNumerals(s, point + 1) ELSE point
      whole  == NumeralsAt(s, from, point)
      digits == rest - from - IF isFrac THEN 1 ELSE 0
      decimals == IF isFrac THEN rest - point - 1 ELSE 0
  IN [ok |-> isInf \/ digits > 0, rest |-> rest, finite |-> ~isInf, decimals |-> decimals,
      value |-> IF isInf THEN 0
                ELSE IF isFrac
                THEN Signed(s, whole * 10^decimals + NumeralsAt(s, point + 1, rest))
                ELSE Signed(s, whole)]

ReadWhole(read, s) == read.ok /\ read.rest = Len(s) + 1

\* NumericCast.h for two signed types, or for two of real numbers.
numeric_cast(v, low, high) == IF v < low \/ v > high THEN Throws ELSE Some(v)

stol_opt(s)  == LET read == qi_long(s) IN IF ReadWhole(read, s) THEN Some(read.value) ELSE None
stoul_opt(s) == LET read == qi_ulong(s) IN IF ReadWhole(read, s) THEN Some(read.value) ELSE None
stoi_opt(s)  ==
  LET read == qi_long(s)
  IN IF ReadWhole(read, s) THEN numeric_cast(read.value, -IntMax - 1, IntMax) ELSE None

\* A real number is the pair of its mantissa and its number of decimals.
stod_opt(s) ==
  LET read == qi_double(s)
  IN IF ~ReadWhole(read, s) THEN None
     ELSE IF ~read.finite THEN Throws
     ELSE Some(<<read.value, read.decimals>>)
stof_opt(s) ==
  LET double == stod_opt(s)
      limit  == FloatMax * 10^double.value[2]
  IN IF double.is # "some" THEN double
     ELSE IF numeric_cast(double.value[1], -limit, limit) = Throws THEN Throws ELSE double

stoi(s)  == OrThrow(stoi_opt(s))
stol(s)  == OrThrow(stol_opt(s))
stoul(s) == OrThrow(stoul_opt(s))
stof(s)  == OrThrow(stof_opt(s))
stod(s)  == OrThrow(stod_opt(s))

int_to_string(n) ==
  LET m    == IF n < 0 THEN -n ELSE n
      size == Min({k \in 1 .. 10 : k = 10 \/ 10^k > m})
  IN (IF n < 0 THEN <<MinusMark>> ELSE <<>>)
     \o [i \in 1 .. size |-> 48 + ((m \div 10^(size - i)) % 10)]

looks_unsigned_int(s) == s # <<>> /\ \A i \in DOMAIN s : IsNumeral(s[i])
looks_signed_int(s) ==
  LET first == SignEnd(s)
  IN first <= Len(s) /\ \A i \in first .. Len(s) : IsNumeral(s[i])

\* B, K, M, G, T and P.
SizeUnits == <<66, 75, 77, 71, 84, 80>>
stosz(s) ==
  LET base == stoul(Front(s))
      unit == SelectInSeq(SizeUnits, LAMBDA c : c = Last(s))
  IN IF Len(s) < 2 \/ base = Throws \/ unit = 0 THEN Throws
     ELSE Some((Kilo^(unit - 1) * base.value) % ULongModulus)

-----------------------------------------------------------------------------
(* Letters, and the escapes of XML.                                                   *)
ascii_tolower(s) == [i \in DOMAIN s |-> IF s[i] \in 65 .. 90 THEN s[i] + 32 ELSE s[i]]
ascii_toupper(s) == [i \in DOMAIN s |-> IF s[i] \in 97 .. 122 THEN s[i] - 32 ELSE s[i]]

Char(c) == IF c \in 128 .. 255 THEN c - 256 ELSE c
Escaped(c) == <<AmpersandMark, Reference(Char(c)), SemicolonMark>>

xmlescape(s) ==
  FoldLeft(LAMBDA out, c :
             out \o IF c \in Markup \/ Char(c) < 32 \/ c = 127 THEN Escaped(c) ELSE <<c>>,
           <<>>, s)

\* From "&" at i, the next mark there is; what is between may be copied one by one.
IsEntity(s, i) ==
  LET marks == {j \in i + 1 .. Len(s) : s[j] \in Markup \cup {SemicolonMark}}
  IN marks # {} /\ s[Min(marks)] = SemicolonMark /\ Min(marks) > i + 1

safexmlescape(s) ==
  FoldLeftDomain(LAMBDA out, i :
                   out \o IF s[i] \in Markup /\ ~(s[i] = AmpersandMark /\ IsEntity(s, i))
                          THEN Escaped(s[i]) ELSE <<s[i]>>,
                 <<>>, s)
-----------------------------------------------------------------------------
PhraseInit == phrase = <<>>

Type(c) ==
  /\ Len(phrase) < MaxPhrase
  /\ \E A \in Alphabets : c \in A /\ Range(phrase) \subseteq A
  /\ phrase' = Append(phrase, c)

PhraseNext == \E c \in UNION Alphabets : Type(c)
-----------------------------------------------------------------------------
Positional(numerals) ==
  MapThenSumSet(LAMBDA i : (numerals[i] - 48) * 10^(Len(numerals) - i), DOMAIN numerals)

(* A string that looks like an integer is one for stol() or stoul() unless it is too
   large, and no other string is; where several of the readers read a string, they read
   the same number, an int or a float if it is not too large for one; and a number that
   is written is read as itself (StringConversion.cpp:165-405, 1128-1175).             *)
NumbersAgree(s, magnitude, long, int, ulong) ==
  /\ ulong # None <=> looks_unsigned_int(s) /\ magnitude <= 2 * LongMax + 1
  /\ long # None <=> looks_signed_int(s) /\ Signed(s, magnitude) \in -LongMax - 1 .. LongMax
  /\ looks_unsigned_int(s) => looks_signed_int(s)
  /\ ulong # None => ulong = Some(magnitude)
  /\ long # None =>
       /\ long = Some(Signed(s, magnitude)) /\ stod(s) = Some(<<long.value, 0>>)
       /\ int \in {long, Throws} /\ (int = Throws <=> long.value \notin -IntMax - 1 .. IntMax)
       /\ stof(s) = IF magnitude > FloatMax THEN Throws ELSE stod(s)
       /\ stol(int_to_string(long.value)) = long /\ Len(int_to_string(long.value)) <= Len(s)
  /\ int # None => long # None
  /\ stod_opt(s) # None /\ {PointMark, InfText} \cap Range(s) = {} => looks_signed_int(s)

NumbersAreRead ==
  NumbersAgree(phrase, Positional(IF SignEnd(phrase) = 2 THEN Tail(phrase) ELSE phrase),
               stol_opt(phrase), stoi_opt(phrase), stoul_opt(phrase))

(* A size that is read is what is written, the unsigned number before the unit in these
   units; where this is too large, it wraps around (StringConversion.cpp:1307-1343).   *)
SizesAreRead ==
  LET base == Positional(Front(phrase))
      unit == SelectInSeq(SizeUnits, LAMBDA c : c = Last(phrase))
      size == stosz(phrase)
      bytes == base * Kilo^(unit - 1)
  IN Len(phrase) > 1 /\ looks_unsigned_int(Front(phrase)) /\ unit > 0 =>
       IF base >= ULongModulus THEN size = Throws
       ELSE /\ size.is = "some"
            /\ bytes < ULongModulus => size.value = bytes
            /\ bytes >= ULongModulus => size.value < bytes

(* Two strings are the same in lower case if they are so in upper case
   (StringConversion.cpp:1073-1104).                                                   *)
CasesAgree ==
  \A n \in {Len(phrase) \div 2} :
    LET a == SubSeq(phrase, 1, n)
        b == SubSeq(phrase, n + 1, 2 * n)
    IN /\ ascii_tolower(a) = ascii_tolower(b) <=> ascii_toupper(a) = ascii_toupper(b)
       /\ ascii_toupper(ascii_tolower(a)) = ascii_toupper(a)

\* What a reader of XML makes of references.
Unescaped(s) ==
  LET refers(i) == /\ i \in 1 .. Len(s) - 2
                   /\ s[i] = AmpersandMark /\ s[i + 1] > 1000 /\ s[i + 2] = SemicolonMark
  IN FoldLeftDomain(LAMBDA out, i : out \o IF refers(i) THEN <<s[i + 1] - 1000>>
                                           ELSE IF refers(i - 1) \/ refers(i - 2) THEN <<>>
                                           ELSE <<s[i]>>,
                    <<>>, s)

(* An escaped string is read as the string it was, if it has no byte of 128 or above;
   the careful escape keeps what is escaped already, and what a string is read as; and
   both leave no mark outside a reference (StringConversion.cpp:1206-1305).            *)
EscapesAgree(escaped, safely) ==
  /\ (\A c \in Range(phrase) : Char(c) >= 0) => Unescaped(escaped) = phrase
  /\ safexmlescape(escaped) = escaped
  /\ safexmlescape(safely) = safely
  /\ Unescaped(safely) = Unescaped(phrase)
  /\ \A text \in {escaped, safely} : Range(text) \cap (Markup \ {AmpersandMark}) = {}

EscapesAreUndone == EscapesAgree(xmlescape(phrase), safexmlescape(phrase))

StringsAreConverted == NumbersAreRead /\ SizesAreRead /\ CasesAgree /\ EscapesAreUndone
=============================================================================
