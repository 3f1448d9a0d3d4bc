------------------------------- MODULE Base64 -------------------------------
(* Fmi::Base64 (Base64.cpp): a string is a sequence of bytes, and an encoded one of
   the numbers of the letters of base64_chars, with 64 for '=' and 65 for a character
   that is none of them.                                                            *)
EXTENDS Integers, Sequences, FiniteSets

CONSTANTS
  Bytes,     \* the bytes of the strings
  MaxBytes   \* bound: the length of a string

ASSUME Base64Assumption == Bytes \subseteq 0 .. 255 /\ MaxBytes \in Nat

Equals == 64
Foreign == 65

\* char_array_3 and char_array_4: positions that are not there are 0.
Octets(str, group) == [i \in 1 .. 3 |-> IF 3 * group + i <= Len(str) THEN str[3 * group + i] ELSE 0]

Sextets(octets) ==
  <<octets[1] \div 4,
    (octets[1] % 4) * 16 + octets[2] \div 16,
    (octets[2] % 16) * 4 + octets[3] \div 64,
    octets[3] % 64>>

\* The groups of three, and what is left, filled up with '='.
encode(str) ==
  LET left == Len(str) % 3
      letters == 4 * (Len(str) \div 3) + (IF left = 0 THEN 0 ELSE left + 1)
      total == 4 * ((Len(str) + 2) \div 3)
  IN [k \in 1 .. total |->
        IF k <= letters THEN Sextets(Octets(str, (k - 1) \div 4))[((k - 1) % 4) + 1] ELSE Equals]

\* Decoding ends at the first '=' or foreign character.
EncodedLength(code) ==
  IF \E k \in DOMAIN code : code[k] >= Equals
  THEN (CHOOSE k \in DOMAIN code : code[k] >= Equals /\ \A j \in 1 .. k - 1 : code[j] < Equals) - 1
  ELSE Len(code)

\* A position that is not there is npos, as a byte.
Quartet(code, length, group) ==
  [i \in 1 .. 4 |-> IF 4 * group + i <= length THEN code[4 * group + i] ELSE 255]

Decoded(quartet) ==
  <<((quartet[1] * 4) % 256) + (quartet[2] % 64) \div 16,
    (quartet[2] % 16) * 16 + (quartet[3] % 64) \div 4,
    ((quartet[3] % 4) * 64 + quartet[4]) % 256>>

\* mutant: a group that is left gives as many bytes as it has letters
BytesOfRestAll(left) == left

BytesOfRest(left) == IF left = 0 THEN 0 ELSE left - 1

decode(code) ==
  LET length == EncodedLength(code)
      octets == 3 * (length \div 4) + BytesOfRest(length % 4)
  IN [k \in 1 .. octets |-> Decoded(Quartet(code, length, (k - 1) \div 3))[((k - 1) % 3) + 1]]
-----------------------------------------------------------------------------
VARIABLE plain  \* a string

Base64Init == plain = <<>>

Base64Next == Len(plain) < MaxBytes /\ \E b \in Bytes : plain' = Append(plain, b)

Base64Spec == Base64Init /\ [][Base64Next]_plain

(* What was encoded is decoded as it was, also when the '=' are cut off or followed by
   something else; an encoded string has letters of the alphabet only, in groups of
   four, the last of which is filled up (Base64.cpp:60-109, 119-185).                *)
Base64IsExact ==
  LET code == encode(plain)
      letters == SubSeq(code, 1, Cardinality({k \in DOMAIN code : code[k] # Equals}))
  IN /\ decode(code) = plain
     /\ decode(letters) = plain
     /\ decode(letters \o <<Foreign, 0, 1>>) = plain
     /\ Len(code) % 4 = 0 /\ Len(code) < Len(letters) + 3
     /\ \A k \in DOMAIN letters : letters[k] \in 0 .. Equals - 1
=============================================================================
