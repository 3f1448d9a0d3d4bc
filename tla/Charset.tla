------------------------------ MODULE Charset ------------------------------
(* The character sets of CharsetTools.cpp: UTF-8, Latin-1, and wide strings with one code
   point in each wchar_t (which the code calls UTF-16); and the tables for the case of
   letters and for letters that are foreign to Finnish.

   A string is a sequence of bytes.  It has no zero byte, which ends a string for some of
   the functions and not for others.  The bits of a byte are taken apart by division. *)
EXTENDS Integers, Sequences, SequencesExt, FiniteSetsExt

CONSTANTS
  CharBytes,   \* the bytes that strings are made of
  MaxString    \* bound on the length of a string

VARIABLE chars

ASSUME CharsetAssumption == CharBytes \subseteq 1 .. 255 /\ MaxString \in Nat

Low6(c) == c % 64
IsContinuation(c) == c \div 64 = 2

utf16_to_utf8(wide) ==
  LET tail(w, n) == [i \in 1 .. n |-> 128 + Low6(w \div 64^(n - i))]
      encode(w) == IF w <= 127 THEN <<w>>
                   ELSE IF w <= 2047 THEN <<192 + w \div 64>> \o tail(w, 1)
                   ELSE IF w <= 65535 THEN <<224 + w \div 4096>> \o tail(w, 2)
                   ELSE IF w <= 1114111 THEN <<240 + w \div 262144>> \o tail(w, 3)
                   ELSE <<63>>
  IN FoldLeft(LAMBDA out, w : out \o encode(w), <<>>, wide)

(* One byte after the other: w is the code point so far, bytes the number that is still
   to come.  A question mark stands for what cannot be decoded.                       *)
DecodeByte(s, c) ==
  LET push(state, w) == [state EXCEPT !.out = Append(@, w), !.bytes = 0]
      begin(bytes, w) == [s EXCEPT !.bytes = bytes, !.w = w]
      more == [s EXCEPT !.w = 64 * @ + Low6(c), !.bytes = @ - 1]
  IN IF c <= 127 THEN push(IF s.bytes > 0 THEN push(s, 63) ELSE s, c)
     ELSE IF c <= 191 THEN IF s.bytes = 0 THEN push(s, 63)
                           ELSE IF s.bytes = 1 THEN push(more, more.w) ELSE more
     ELSE IF c <= 223 THEN begin(1, c % 32)
     ELSE IF c <= 239 THEN begin(2, c % 16)
     ELSE IF c <= 247 THEN begin(3, c % 8)
     ELSE push(s, 63)

utf8_to_utf16(str) ==
  LET end == FoldLeft(DecodeByte, [out |-> <<>>, w |-> 0, bytes |-> 0], str)
  IN IF end.bytes > 0 THEN Append(end.out, 63) ELSE end.out

latin1_to_utf8(str) ==
  FoldLeft(LAMBDA out, c : out \o IF c < 128 THEN <<c>> ELSE <<192 + c \div 64, 128 + Low6(c)>>,
           <<>>, str)

\* The number of bytes the first byte announces; a continuation is taken for the longest.
AnnouncedBytes(c) ==
  CASE c < 128 -> 1 [] c \in 128 .. 191 -> 5 [] c \in 192 .. 223 -> 2
    [] c \in 224 .. 239 -> 3 [] c \in 240 .. 247 -> 4 [] c \in 248 .. 251 -> 5 [] OTHER -> 6
FirstBits(c) ==
  CASE c < 128 -> c [] c \in 128 .. 191 -> Low6(c) [] c \in 192 .. 223 -> c % 32
    [] c \in 224 .. 239 -> c % 16 [] c \in 240 .. 247 -> c % 8 [] c \in 248 .. 251 -> c % 4
    [] OTHER -> c % 2

(* A character ends with its announced bytes, with the string, or before a byte that is no
   continuation.  One that is no printable Latin-1 makes the whole result empty.      *)
utf8_to_latin1(str) ==
  LET step(s, c) ==
        IF s.rest > 0 /\ IsContinuation(c)
        THEN [s EXCEPT !.rest = @ - 1, !.out[Len(s.out)] = 64 * @ + Low6(c)]
        ELSE [rest |-> AnnouncedBytes(c) - 1, out |-> Append(s.out, FirstBits(c))]
      codes == FoldLeft(step, [rest |-> 0, out |-> <<>>], str).out
  IN IF \A i \in DOMAIN codes : codes[i] \in 32 .. 255 THEN codes ELSE <<>>

\* The sequence that begins at i is one that UTF-8 allows.
SequenceLength(c) ==
  CASE c <= 127 -> 1 [] c \in 194 .. 223 -> 2 [] c \in 224 .. 239 -> 3 [] c \in 240 .. 244 -> 4
    [] OTHER -> 0

GoodSequence(str, i) ==
  LET n == SequenceLength(str[i])
      ch == FoldLeft(LAMBDA w, c : 64 * w + Low6(c), FirstBits(str[i]), SubSeq(str, i + 1, i + n - 1))
  IN /\ n > 0 /\ i + n - 1 <= Len(str)
     /\ \A k \in i + 1 .. i + n - 1 : IsContinuation(str[k])
     /\ n = 3 => ch >= 2048 /\ ch \div 2048 # 27
     /\ n = 4 => ch \in 65536 .. 1114111

\* at is where the next sequence begins, or 0 after a bad one.
is_utf8(str) ==
  FoldLeft(LAMBDA at, i : IF i # at THEN at
                          ELSE IF GoodSequence(str, i) THEN i + SequenceLength(str[i]) ELSE 0,
           1, [i \in 1 .. Len(str) |-> i]) = Len(str) + 1
-----------------------------------------------------------------------------
(* The tables *)

tolower(c) == IF c \in (65 .. 90) \cup ((192 .. 222) \ {215}) THEN c + 32 ELSE c
toupper(c) == IF c \in (97 .. 122) \cup ((224 .. 254) \ {247}) THEN c - 32 ELSE c

\* The accents fall, but those of the Nordic letters; some have been left out.
tonordic(c) ==
  CASE c \in 192 .. 195 -> 65 [] c = 198 -> 196 [] c = 199 -> 67 [] c \in 200 .. 203 -> 69
    [] c \in 204 .. 207 -> 73 [] c = 209 -> 78 [] c \in 210 .. 213 -> 79 [] c = 216 -> 214
    [] c \in 217 .. 220 -> 85 [] c = 221 -> 89
    [] c \in 224 .. 227 -> 97 [] c = 230 -> 228 [] c = 231 -> 99 [] c \in 232 .. 235 -> 101
    [] c = 236 -> 105 [] c = 241 -> 110 [] c \in 242 .. 245 -> 111 [] c = 248 -> 246
    [] c \in 249 .. 252 -> 117 [] c \in {253, 255} -> 121
    [] OTHER -> c

tolowernordic(c) == tonordic(tolower(c))
-----------------------------------------------------------------------------
CharsetInit == chars = <<>>

Grow == Len(chars) < MaxString /\ \E c \in CharBytes : chars' = Append(chars, c)

CharsetNext == Grow

CharsetSpec == CharsetInit /\ [][CharsetNext]_chars
-----------------------------------------------------------------------------
(* is_utf8() is true of the strings that stand for themselves: decoding gives code points
   that are no surrogates, and encoding these gives the same bytes
   (CharsetTools.cpp:754-964).                                                        *)
Utf8IsWhatIsEncoded ==
  LET wide == utf8_to_utf16(chars)
  IN is_utf8(chars) <=>
       utf16_to_utf8(wide) = chars /\ \A i \in DOMAIN wide : wide[i] \notin 55296 .. 57343

(* A Latin-1 string becomes UTF-8 of the same characters, and comes back, unless it has
   control characters, newlines among them; UTF-8 becomes Latin-1 if all its characters
   are printable there, and the empty string otherwise (CharsetTools.cpp:659-743).    *)
Latin1ComesBack ==
  LET printable(codes) == \A i \in DOMAIN codes : codes[i] \in 32 .. 255
  IN /\ is_utf8(latin1_to_utf8(chars)) /\ utf8_to_utf16(latin1_to_utf8(chars)) = chars
     /\ utf8_to_latin1(latin1_to_utf8(chars)) = IF printable(chars) THEN chars ELSE <<>>
     /\ is_utf8(chars) =>
          utf8_to_latin1(chars) =
            IF printable(utf8_to_utf16(chars)) THEN utf8_to_utf16(chars) ELSE <<>>

(* The two cases are opposites, a letter loses its accent once, and it does not matter
   whether it loses it before its case or after, but for I with three of the accents,
   and for y with two dots, which is no capital (CharsetTools.cpp:22-649).            *)
LettersAgree ==
  \A c \in 1 .. 255 :
    /\ toupper(tolower(c)) = toupper(c) /\ tolower(toupper(c)) = tolower(c)
    /\ tonordic(tonordic(c)) = tonordic(c)
    /\ tolowernordic(c) = tolower(tonordic(c)) <=> c \notin 205 .. 207
    /\ toupper(tonordic(c)) = tonordic(toupper(c)) <=> c \notin (237 .. 239) \cup {255}

CharsetIsExact ==
  Utf8IsWhatIsEncoded /\ Latin1ComesBack /\ (chars = <<>> => LettersAgree)
=============================================================================
