--------------------------- MODULE DistanceParser ---------------------------
(* DistanceParser.cpp: a distance is a number and a unit, which may be missing, and is
   converted to a format, another unit, by a factor.  A factor is a mantissa and a power
   of ten; where the code divides by a power of ten it is that of the quotient.        *)
EXTENDS StringConversion

\* The units, the formats in the same order, and what stands for any other text.
DistanceUnits == <<"km", "m", "cm", "mm", "mi", "nmi", "yd", "ft", "in">>
DistanceFormats == <<"kilometer", "meter", "centimeter", "millimeter", "mile",
                     "nautical_mile", "yard", "foot", "inch">>
UnknownText == "furlong"

NumberSigns == {PlusMark, MinusMark, PointMark, 32} \cup 48 .. 57

SameUnit == <<1, 0>>
FromKm  == <<SameUnit, <<1, 3>>, <<1, 5>>, <<1, 6>>, <<621371, -6>>, <<539957, -6>>,
             <<109361, -2>>, <<328084, -2>>, <<393701, -1>>>>
FromM   == <<<<1, -3>>, SameUnit, <<1, 2>>, <<1, 3>>, <<621371, -9>>, <<539957, -9>>,
             <<109361, -5>>, <<328084, -5>>, <<393701, -4>>>>
FromCm  == <<<<1, -5>>, <<1, -2>>, SameUnit, <<1, 1>>, <<621371, -11>>, <<539957, -11>>,
             <<109361, -7>>, <<328084, -7>>, <<393701, -6>>>>
FromMm  == <<<<1, -6>>, <<1, -3>>, <<1, -1>>, SameUnit, <<621371, -12>>, <<539957, -12>>,
             <<109361, -8>>, <<328084, -8>>, <<393701, -7>>>>
FromMi  == <<<<1609344, -6>>, <<1609344, -3>>, <<1609344, -1>>, <<1609344, 0>>, SameUnit,
             <<868976, -6>>, <<1760, 0>>, <<5280, 0>>, <<63360, 0>>>>
FromNmi == <<<<1852, -3>>, <<1852, 0>>, <<1852, 2>>, <<1852, 3>>, <<115078, -5>>, SameUnit,
             <<202537, -2>>, <<607612, -2>>, <<729134, -1>>>>
FromYd  == <<<<9144, -7>>, <<9144, -4>>, <<9144, -2>>, <<9144, -1>>, <<568182, -9>>,
             <<493737, -9>>, SameUnit, <<3, 0>>, <<36, 0>>>>
FromFt  == <<<<3048, -7>>, <<3048, -4>>, <<3048, -2>>, <<3048, -1>>, <<189394, -9>>,
             <<164579, -9>>, <<333333, -6>>, SameUnit, <<12, 0>>>>
FromIn  == <<<<254, -7>>, <<254, -4>>, <<254, -2>>, <<254, -1>>, <<157828, -10>>,
             <<137149, -10>>, <<277778, -7>>, <<833333, -7>>, SameUnit>>
FactorTable == <<FromKm, FromM, FromCm, FromMm, FromMi, FromNmi, FromYd, FromFt, FromIn>>

PlaceOf(text, list) == SelectInSeq(list, LAMBDA t : t = text)

\* A format that is not known is not noticed: the value stays as it is.
Scaled(value, factor) == Some([number |-> value, factor |-> factor])
ByFactor(value, u, f) ==
  IF u = 0 THEN Throws ELSE Scaled(value, IF f = 0 THEN SameUnit ELSE FactorTable[u][f])
convert(value, unit, format) ==
  IF unit = "" THEN Scaled(value, SameUnit)
  ELSE ByFactor(value, PlaceOf(unit, DistanceUnits), PlaceOf(format, DistanceFormats))

\* The text is the number signs "s", and a unit, which begins with the first other sign.
IfNumber(value, unit, format) ==
  IF value = Throws THEN Throws
  ELSE IF unit # "" THEN convert(value.value, unit, format)
  ELSE Scaled(value.value, SameUnit)
parse_distance(s, unit, format) == IfNumber(stod(s), unit, format)

\* parse_kilometer() and the others, one for each format.
parse_in(s, unit, f) == parse_distance(s, unit, DistanceFormats[f])
-----------------------------------------------------------------------------
\* A mantissa of seven digits.
SevenDigits(factor) ==
  LET k == CHOOSE i \in 0 .. 6 : factor[1] * 10^i \in 10^6 .. 10^7 - 1
  IN <<factor[1] * 10^k, factor[2] - k>>

\* The product of two, up to a millionth of it.
Product(p, q) ==
  LET a == SevenDigits(p)
      b == SevenDigits(q)
      high == (a[1] \div 10000) * (b[1] \div 10000)
      mid  == (a[1] \div 10000) * (b[1] % 10000) + (a[1] % 10000) * (b[1] \div 10000)
      low  == (a[1] % 10000) * (b[1] % 10000)
  IN <<100 * high + (mid \div 100) + (low \div 10^6), a[2] + b[2] + 6>>

\* The same up to one part in 100000, where p has from seven to nine digits.
NearlyTheSame(p, q) ==
  LET b == SevenDigits(q)
      k == b[2] - p[2]
      c == b[1] * 10^k
  IN k \in 0 .. 1 /\ p[1] - c \in -(c \div 100000) .. c \div 100000

FactorsAgree ==
  \A a, b, c \in 1 .. 9 :
    NearlyTheSame(Product(FactorTable[a][b], FactorTable[b][c]), FactorTable[a][c])

(* A distance that is converted to one unit and from there to another is what it is when
   it is converted at once; a text is a distance for all formats or for none, and is one
   only if its number is written without blanks (DistanceParser.cpp:27-360).            *)
DistanceAgrees(distance, metres, unit, known, f) ==
  /\ distance.is = "some" <=> known
  /\ known => distance.value.number = metres.number
  /\ known /\ unit # "" =>
       NearlyTheSame(Product(metres.factor, FactorTable[2][f]), distance.value.factor)

DistancesOf(unit, metres, known) ==
  /\ \A f \in 1 .. 9 : DistanceAgrees(parse_in(phrase, unit, f), metres, unit, known, f)
  /\ known => 32 \notin Range(phrase)

DistancesAreConverted ==
  /\ FactorsAgree
  /\ Range(phrase) \subseteq NumberSigns =>
       \A unit \in Range(DistanceUnits) \cup {"", UnknownText} :
         DistancesOf(unit, parse_in(phrase, unit, 2).value, unit # UnknownText /\ stod(phrase) # Throws)
=============================================================================
