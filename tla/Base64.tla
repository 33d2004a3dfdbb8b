------------------------------- MODULE Base64 -------------------------------
(***************************************************************************)
(* base64.c: the private key an icecap client sends in a presence command  *)
(* is base64 text, broken into lines.  base64_encode is an operator,       *)
(* base64_decode a machine that makes one step for each turn of its loop,  *)
(* called again as more of the text has come in, the way base64.h says it  *)
(* may be.                                                                 *)
(***************************************************************************)
EXTENDS Integers, Sequences

CONSTANTS Bytes,    \* the bytes a key is made of
          MaxLen,   \* bound: the longest key
          Widths    \* how many characters the client puts on a line

ASSUME Base64Assumption ==
  Bytes \subseteq 0..255 /\ MaxLen \in Nat /\ Widths \subseteq Nat \ {0}

VARIABLES data,      \* the key
          src,       \* its text
          src_size,  \* how much of the text the calls have been given
          src_pos,   \* the first character not translated
          dest,      \* the bytes decoded
          result     \* "more", "end" after the padding, or "invalid" for -1

vars == <<data, src, src_size, src_pos, dest, result>>
-----------------------------------------------------------------------------
(* The tables, in ASCII *)

basis_64(i) ==
  CASE i \in 0..25  -> 65 + i          \* A to Z
    [] i \in 26..51 -> 97 + (i - 26)   \* a to z
    [] i \in 52..61 -> 48 + (i - 52)   \* 0 to 9
    [] i = 62 -> 43                    \* +
    [] i = 63 -> 47                    \* /

XX == 127

index_64(c) ==
  CASE c \in 65..90  -> c - 65
    [] c \in 97..122 -> 26 + (c - 97)
    [] c \in 48..57  -> 52 + (c - 48)
    [] c = 43 -> 62
    [] c = 47 -> 63
    [] OTHER -> XX

Pad == 61             \* '='
Newline == 10
Space(c) == c \in {9, 10, 13, 32}
-----------------------------------------------------------------------------
(* base64_encode *)

\* The four sextets of three bytes.
Sextets(b1, b2, b3) ==
  <<b1 \div 4, (b1 % 4) * 16 + b2 \div 16, (b2 % 16) * 4 + b3 \div 64, b3 % 64>>

\* Byte k of the source, 0 after its end.
ByteOr0(s, k) == IF k <= Len(s) THEN s[k] ELSE 0

\* Four characters for each three bytes; one byte over makes two characters, two
\* make three, and padding fills up the rest.
base64_encode(s) ==
  [i \in 1..(4 * ((Len(s) + 2) \div 3)) |->
     LET g == 3 * ((i - 1) \div 4)
         j == (i - 1) % 4
     IN  IF g + j > Len(s)
         THEN Pad
         ELSE basis_64(Sextets(s[g + 1], ByteOr0(s, g + 2),
                               ByteOr0(s, g + 3))[j + 1])]

\* The client's utility ends a line after every w characters.
InLines(s, w) ==
  [i \in 1..(Len(s) + Len(s) \div w) |->
     IF i % (w + 1) = 0 THEN Newline ELSE s[i - i \div (w + 1)]]
-----------------------------------------------------------------------------
(* base64_decode *)

Init ==
  /\ data \in UNION {[1..n -> Bytes] : n \in 0..MaxLen}
  /\ \E w \in Widths : src = InLines(base64_encode(data), w)
  /\ src_size = 0 /\ src_pos = 0
  /\ dest = <<>> /\ result = "more"

InputLeftShort == src_pos + 4 < src_size
InputLeft == src_pos + 3 < src_size

\* The call has returned; the next one starts at src_pos, with more of the text.
Call ==
  /\ result = "more" /\ ~InputLeft
  /\ \E n \in (src_size + 1)..Len(src) : src_size' = n
  /\ UNCHANGED <<data, src, src_pos, dest, result>>

Char(k) == src[src_pos + k]

SkipSpace ==
  /\ result = "more" /\ InputLeft
  /\ Space(Char(1))
  /\ src_pos' = src_pos + 1
  /\ UNCHANGED <<data, src, src_size, dest, result>>

Valid(c) == index_64(c) # XX

InvalidQuad(c1, c2, c3, c4) ==
  \/ ~Valid(c1) \/ ~Valid(c2)
  \/ c3 # Pad /\ ~Valid(c3)
  \/ c4 # Pad /\ ~Valid(c4)
  \/ c3 = Pad /\ c4 # Pad

Reject ==
  /\ result = "more" /\ InputLeft
  /\ ~Space(Char(1)) /\ InvalidQuad(Char(1), Char(2), Char(3), Char(4))
  /\ result' = "invalid"
  /\ UNCHANGED <<data, src, src_size, src_pos, dest>>

\* The three bytes of four sextets.
OctetsShifted(i1, i2, i3, i4) ==
  <<i1 * 4 + i2 \div 16, (i2 % 16) * 16 + i3 \div 4, (i3 % 16) * 64 + i4>>
Octets(i1, i2, i3, i4) ==
  <<i1 * 4 + i2 \div 16, (i2 % 16) * 16 + i3 \div 4, (i3 % 4) * 64 + i4>>

\* How many of them the quad stands for.
Size(c3, c4) == IF c3 = Pad THEN 1 ELSE IF c4 = Pad THEN 2 ELSE 3

DecodeQuad ==
  /\ result = "more" /\ InputLeft
  /\ ~Space(Char(1)) /\ ~InvalidQuad(Char(1), Char(2), Char(3), Char(4))
  /\ LET size == Size(Char(3), Char(4))
         buf == Octets(index_64(Char(1)), index_64(Char(2)),
                       index_64(Char(3)), index_64(Char(4)))
     IN  /\ dest' = dest \o SubSeq(buf, 1, size)
         /\ result' = IF size < 3 THEN "end" ELSE "more"
  /\ src_pos' = src_pos + 4
  /\ UNCHANGED <<data, src, src_size>>

Next == Call \/ SkipSpace \/ Reject \/ DecodeQuad

Spec == Init /\ [][Next]_vars
-----------------------------------------------------------------------------
(* Properties *)

\* The positions stay in the text, and each byte put into the buffer fits an
\* unsigned char.
TypeOK ==
  /\ src_size \in 0..Len(src) /\ src_pos \in 0..src_size
  /\ dest \in Seq(0..255)
  /\ result \in {"more", "end", "invalid"}

\* However the text is cut into calls, the bytes decoded so far are the first
\* bytes of the key.
DecodesPrefix == dest = SubSeq(data, 1, Len(dest))

\* When the last call has returned, the key is complete.
DecodesAll ==
  (src_size = Len(src) /\ (result = "end" \/ ~InputLeft)) => dest = data

\* A key broken into lines is not refused: base64.h says that any CR and LF
\* characters are ignored.
LineBreaksIgnored == result # "invalid"
=============================================================================
