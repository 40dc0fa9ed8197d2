----------------------------- MODULE PathEscape -----------------------------
(***************************************************************************)
(* urlPathEscape: a table name as one segment of a URL path.  A Go string  *)
(* is a sequence of bytes that need not be UTF-8; ranging over it yields   *)
(* runes, and U+FFFD for each byte that belongs to none.                   *)
(***************************************************************************)
EXTENDS Naturals, SequencesExt

CONSTANT MultiByte   \* the UTF-8 encodings of two bytes and more, as byte sequences

Unreserved == (65..90) \union (97..122) \union (48..57) \union {45, 95, 46, 126}
Percent == 37
HexDigit(n) == IF n < 10 THEN 48 + n ELSE 55 + n

Replacement == <<239, 191, 189>>

\* The rune at position i of a name, and the bytes `range` steps over for it.
EncodingsAt(name, i) == {m \in MultiByte : IsPrefix(m, SubSeq(name, i, Len(name)))}
RuneAt(name, i) ==
  CASE name[i] < 128 -> <<name[i]>>
    [] name[i] >= 128 /\ EncodingsAt(name, i) # {} -> CHOOSE m \in EncodingsAt(name, i) : TRUE
    [] OTHER -> Replacement
WidthAt(name, i) == IF EncodingsAt(name, i) = {} THEN 1 ELSE Len(RuneAt(name, i))

Runes(name) ==
  LET from[i \in 1..(Len(name) + 1)] ==
        IF i > Len(name) THEN <<>>
        ELSE <<RuneAt(name, i)>> \o from[i + WidthAt(name, i)]
  IN  from[1]

\* The code point of a rune, from its encoding.
CodePoint(r) ==
  CASE Len(r) = 1 -> r[1]
    [] Len(r) = 2 -> 64 * (r[1] % 32) + (r[2] % 64)
    [] Len(r) = 3 -> 64 * (64 * (r[1] % 16) + (r[2] % 64)) + (r[3] % 64)
    [] Len(r) = 4 -> 64 * (64 * (64 * (r[1] % 8) + (r[2] % 64)) + (r[3] % 64)) + (r[4] % 64)

\* UTF-8 encodes what is not ASCII in two to four bytes that are not ASCII.
ASSUME MultiByteAssumption ==
  \A m \in MultiByte :
    m \in Seq(128..255) /\ Len(m) \in 2..4 /\ CodePoint(m) \in Nat /\ CodePoint(m) >= 128

\* A plausible slip: the low byte of any rune is looked at.
KeptByLowByte(r) == CodePoint(r) % 256 \in Unreserved

Kept(r) == CodePoint(r) < 128 /\ CodePoint(r) \in Unreserved

\* The bytes of a rune, each as a percent sign and two digits.
EscapeBytes(r) ==
  [i \in 1..(3 * Len(r)) |->
     LET byte == r[(i + 2) \div 3]
     IN  CASE i % 3 = 1 -> Percent
           [] i % 3 = 2 -> HexDigit(byte \div 16)
           [] i % 3 = 0 -> HexDigit(byte % 16)]

EscapeRune(r) == IF Kept(r) THEN <<CodePoint(r) % 256>> ELSE EscapeBytes(r)

Escape(name) == LET runes == Runes(name) IN FlattenSeq([i \in DOMAIN runes |-> EscapeRune(runes[i])])

-----------------------------------------------------------------------------
(* The other side: what a server reads from the segment. *)

DigitOf(c) == IF c < 58 THEN c - 48 ELSE c - 55

EscapedAt(segment, i) == segment[i] = Percent /\ i + 2 <= Len(segment)
ByteAt(segment, i) ==
  IF EscapedAt(segment, i) THEN 16 * DigitOf(segment[i + 1]) + DigitOf(segment[i + 2]) ELSE segment[i]
StepAt(segment, i) == IF EscapedAt(segment, i) THEN 3 ELSE 1

Unescape(segment) ==
  LET from[i \in 1..(Len(segment) + 1)] ==
        IF i > Len(segment) THEN <<>>
        ELSE <<ByteAt(segment, i)>> \o from[i + StepAt(segment, i)]
  IN  from[1]

\* Names that are text.
IsUTF8(name) == FlattenSeq(Runes(name)) = name
=============================================================================
