---------------------------- MODULE Base64Proofs ----------------------------
(***************************************************************************)
(* The tables and the bit arithmetic of base64.c, for every byte: a quad   *)
(* that base64_encode writes is never refused by base64_decode and gives   *)
(* back the bytes it was written for.  From these facts, for every key,    *)
(* every width of its lines and every way its text is cut into calls: the  *)
(* bytes decoded are the key's, and all of them when the text has been     *)
(* read.                                                                   *)
(***************************************************************************)
EXTENDS Base64, SequenceTheorems, TLAPS

\* index_64 is the inverse of basis_64, and no character of basis_64 is padding
\* or white space.
LEMMA TablesInverse ==
  ASSUME NEW i \in 0..63
  PROVE  /\ index_64(basis_64(i)) = i
         /\ Valid(basis_64(i)) /\ ~Space(basis_64(i)) /\ basis_64(i) # Pad
<1>1. CASE i \in 0..25
  BY <1>1 DEF basis_64, index_64, Valid, Space, Pad, XX
<1>2. CASE i \in 26..51
  BY <1>2 DEF basis_64, index_64, Valid, Space, Pad, XX
<1>3. CASE i \in 52..61
  BY <1>3 DEF basis_64, index_64, Valid, Space, Pad, XX
<1>4. CASE i = 62 \/ i = 63
  BY <1>4 DEF basis_64, index_64, Valid, Space, Pad, XX
<1> QED
  BY <1>1, <1>2, <1>3, <1>4

\* The sextets of three bytes are indices of basis_64.
LEMMA SextetsInRange ==
  ASSUME NEW b1 \in 0..255, NEW b2 \in 0..255, NEW b3 \in 0..255,
         NEW s, s = Sextets(b1, b2, b3)
  PROVE  s[1] \in 0..63 /\ s[2] \in 0..63 /\ s[3] \in 0..63 /\ s[4] \in 0..63
BY DEF Sextets

\* The four characters base64_encode writes for three bytes are a quad that
\* base64_decode accepts, and decodes to these three bytes.
THEOREM QuadRoundTrip ==
  ASSUME NEW b1 \in 0..255, NEW b2 \in 0..255, NEW b3 \in 0..255,
         NEW s, s = Sextets(b1, b2, b3)
  PROVE  LET c(k) == basis_64(s[k]) IN
         /\ ~Space(c(1)) /\ ~InvalidQuad(c(1), c(2), c(3), c(4))
         /\ Size(c(3), c(4)) = 3
         /\ Octets(index_64(c(1)), index_64(c(2)), index_64(c(3)),
                   index_64(c(4))) = <<b1, b2, b3>>
<1>1. s[1] \in 0..63 /\ s[2] \in 0..63 /\ s[3] \in 0..63 /\ s[4] \in 0..63
  BY SextetsInRange
<1>2. \A i \in 0..63 : /\ index_64(basis_64(i)) = i
                       /\ Valid(basis_64(i)) /\ ~Space(basis_64(i))
                       /\ basis_64(i) # Pad
  BY TablesInverse
<1>3. /\ ~Space(basis_64(s[1]))
      /\ ~InvalidQuad(basis_64(s[1]), basis_64(s[2]), basis_64(s[3]),
                      basis_64(s[4]))
      /\ Size(basis_64(s[3]), basis_64(s[4])) = 3
  BY <1>1, <1>2 DEF InvalidQuad, Size
<1>4. Octets(index_64(basis_64(s[1])), index_64(basis_64(s[2])),
             index_64(basis_64(s[3])), index_64(basis_64(s[4])))
        = <<b1, b2, b3>>
  <2>1. /\ index_64(basis_64(s[1])) = s[1] /\ index_64(basis_64(s[2])) = s[2]
        /\ index_64(basis_64(s[3])) = s[3] /\ index_64(basis_64(s[4])) = s[4]
    BY <1>1, <1>2
  <2>2. Octets(s[1], s[2], s[3], s[4]) = <<b1, b2, b3>>
    BY DEF Sextets, Octets
  <2> QED
    BY <2>1, <2>2, Zenon
<1> QED
  BY <1>3, <1>4

\* The two characters and the padding base64_encode writes for one byte decode to
\* that byte, the three characters and the padding for two bytes to these two.
THEOREM PaddedRoundTrip ==
  ASSUME NEW b1 \in 0..255, NEW b2 \in 0..255,
         NEW s, s = Sextets(b1, 0, 0), NEW t, t = Sextets(b1, b2, 0)
  PROVE  LET c(k) == basis_64(s[k])
             d(k) == basis_64(t[k])
         IN
         /\ ~InvalidQuad(c(1), c(2), Pad, Pad) /\ Size(Pad, Pad) = 1
         /\ Octets(index_64(c(1)), index_64(c(2)), XX, XX)[1] = b1
         /\ ~InvalidQuad(d(1), d(2), d(3), Pad) /\ Size(d(3), Pad) = 2
         /\ Octets(index_64(d(1)), index_64(d(2)), index_64(d(3)), XX)[1] = b1
         /\ Octets(index_64(d(1)), index_64(d(2)), index_64(d(3)), XX)[2] = b2
<1>1. /\ s[1] \in 0..63 /\ s[2] \in 0..63 /\ s[3] \in 0..63
      /\ t[1] \in 0..63 /\ t[2] \in 0..63 /\ t[3] \in 0..63
  <2>1. 0 \in 0..255
    OBVIOUS
  <2> QED
    BY <2>1, SextetsInRange
<1>2. \A i \in 0..63 : /\ index_64(basis_64(i)) = i
                       /\ Valid(basis_64(i)) /\ basis_64(i) # Pad
  BY TablesInverse
<1>3. /\ ~InvalidQuad(basis_64(s[1]), basis_64(s[2]), Pad, Pad)
      /\ Size(Pad, Pad) = 1
      /\ ~InvalidQuad(basis_64(t[1]), basis_64(t[2]), basis_64(t[3]), Pad)
      /\ Size(basis_64(t[3]), Pad) = 2
  BY <1>1, <1>2 DEF InvalidQuad, Size
<1>4. Octets(s[1], s[2], XX, XX)[1] = b1
  BY DEF Sextets, Octets, XX
<1>5. /\ Octets(t[1], t[2], t[3], XX)[1] = b1
      /\ Octets(t[1], t[2], t[3], XX)[2] = b2
  BY DEF Sextets, Octets, XX
<1> QED
  BY <1>1, <1>2, <1>3, <1>4, <1>5
-----------------------------------------------------------------------------
\* Sextets of characters that are not refused.
LEMMA ValidSextet ==
  ASSUME NEW c, Valid(c)
  PROVE  index_64(c) \in 0..63
BY DEF Valid, index_64, XX

\* What one quad adds to the buffer: bytes, whatever characters it holds.
LEMMA QuadBytes ==
  ASSUME NEW c1, NEW c2, NEW c3, NEW c4, ~InvalidQuad(c1, c2, c3, c4)
  PROVE  SubSeq(Octets(index_64(c1), index_64(c2), index_64(c3), index_64(c4)),
                1, Size(c3, c4)) \in Seq(0..255)
<1> DEFINE buf == Octets(index_64(c1), index_64(c2), index_64(c3), index_64(c4))
<1>1. index_64(c1) \in 0..63 /\ index_64(c2) \in 0..63
  BY ValidSextet DEF InvalidQuad
<1>2. buf[1] \in 0..255
  BY <1>1 DEF Octets
<1>3. Size(c3, c4) \in 1..3
  BY DEF Size
<1>4. ASSUME Size(c3, c4) # 1
      PROVE  index_64(c3) \in 0..63 /\ buf[2] \in 0..255
  <2>1. index_64(c3) \in 0..63
    BY <1>4, ValidSextet DEF InvalidQuad, Size
  <2> QED
    BY <1>1, <2>1 DEF Octets
<1>5. ASSUME Size(c3, c4) = 3
      PROVE  buf[3] \in 0..255
  <2>1. index_64(c4) \in 0..63
    BY <1>5, ValidSextet DEF InvalidQuad, Size
  <2> QED
    BY <1>4, <1>5, <2>1 DEF Octets
<1>6. \A i \in 1..Size(c3, c4) : buf[i] \in 0..255
  <2> HIDE DEF buf
  <2> QED
    BY <1>2, <1>3, <1>4, <1>5
<1> QED
  BY <1>3, <1>6, SubSeqProperties

LEMMA BoundsKept ==
  ASSUME Len(src) \in Nat, TypeOK, [Next]_vars
  PROVE  TypeOK'
<1>1. CASE Call
  BY <1>1 DEF Call, TypeOK
<1>2. CASE SkipSpace
  BY <1>2 DEF SkipSpace, InputLeft, TypeOK
<1>3. CASE Reject
  BY <1>3 DEF Reject, TypeOK
<1>4. CASE DecodeQuad
  <2>1. dest' \in Seq(0..255)
    BY <1>4, QuadBytes DEF DecodeQuad, TypeOK
  <2> QED
    BY <1>4, <2>1 DEF DecodeQuad, InputLeft, TypeOK
<1>5. CASE UNCHANGED vars
  BY <1>5 DEF vars, TypeOK
<1> QED
  BY <1>1, <1>2, <1>3, <1>4, <1>5 DEF Next
-----------------------------------------------------------------------------
\* How many of the first p characters of a text in lines of w are not line ends.
Payload(w, p) == p - p \div (w + 1)

LEMMA PayloadStep ==
  ASSUME NEW w \in Nat \ {0}, NEW p \in Nat
  PROVE  /\ Payload(w, p) \in Nat
         /\ (p + 1) % (w + 1) = 0 => Payload(w, p + 1) = Payload(w, p)
         /\ (p + 1) % (w + 1) # 0 => Payload(w, p + 1) = Payload(w, p) + 1
BY DEF Payload

LEMMA PayloadMonotonic ==
  ASSUME NEW w \in Nat \ {0}, NEW p \in Nat, NEW q \in Nat, p <= q
  PROVE  /\ Payload(w, p) <= Payload(w, q)
         /\ Payload(w, q) - Payload(w, p) <= q - p
BY DEF Payload

LEMMA PayloadOfAll ==
  ASSUME NEW w \in Nat \ {0}, NEW n \in Nat
  PROVE  n \div w \in Nat /\ Payload(w, n + n \div w) = n
BY DEF Payload

\* Breaking a text into lines adds the line ends and leaves the rest in order.
LEMMA LinesOf ==
  ASSUME NEW w \in Nat \ {0}, NEW s, Len(s) \in Nat
  PROVE  /\ Len(InLines(s, w)) \in Nat
         /\ Payload(w, Len(InLines(s, w))) = Len(s)
         /\ \A p \in Nat :
              p < Len(InLines(s, w)) =>
                IF (p + 1) % (w + 1) = 0
                THEN InLines(s, w)[p + 1] = Newline
                ELSE InLines(s, w)[p + 1] = s[Payload(w, p) + 1]
<1> DEFINE n == Len(s)
<1>1. n \div w \in Nat /\ Payload(w, n + n \div w) = n
  BY PayloadOfAll
<1>2. Len(InLines(s, w)) = n + n \div w
  BY <1>1 DEF InLines
<1>3. ASSUME NEW p \in Nat, p < n + n \div w
      PROVE  InLines(s, w)[p + 1] =
               IF (p + 1) % (w + 1) = 0 THEN Newline ELSE s[Payload(w, p + 1)]
  <2>1. p + 1 \in 1..(n + n \div w)
    BY <1>1, <1>3
  <2> QED
    BY <2>1 DEF InLines, Payload
<1>4. ASSUME NEW p \in Nat, p < Len(InLines(s, w))
      PROVE  IF (p + 1) % (w + 1) = 0
             THEN InLines(s, w)[p + 1] = Newline
             ELSE InLines(s, w)[p + 1] = s[Payload(w, p) + 1]
  <2>1. InLines(s, w)[p + 1] =
          IF (p + 1) % (w + 1) = 0 THEN Newline ELSE s[Payload(w, p + 1)]
    BY <1>2, <1>3, <1>4
  <2>2. (p + 1) % (w + 1) # 0 => Payload(w, p + 1) = Payload(w, p) + 1
    BY PayloadStep
  <2>3. CASE (p + 1) % (w + 1) = 0
    BY <2>1, <2>3, Zenon
  <2>4. CASE (p + 1) % (w + 1) # 0
    BY <2>1, <2>2, <2>4, Zenon
  <2> QED
    BY <2>3, <2>4
<1> QED
  BY <1>1, <1>2, <1>4

\* The values of an unsigned char.
Octet == 0..255

\* What base64_encode writes for a key: quad m stands for the bytes 3m + 1 to
\* 3m + 3, as many of them as the key has, with padding for the others.
LEMMA EncodedQuad ==
  ASSUME NEW key \in Seq(Octet), NEW m \in Nat,
         4 * m + 4 <= Len(base64_encode(key)),
         NEW s, s = Sextets(key[3 * m + 1], ByteOr0(key, 3 * m + 2),
                            ByteOr0(key, 3 * m + 3))
  PROVE  LET c(j) == base64_encode(key)[4 * m + j]
         IN  /\ 3 * m + 1 <= Len(key)
             /\ c(1) = basis_64(s[1]) /\ c(2) = basis_64(s[2])
             /\ c(3) = IF 3 * m + 1 = Len(key) THEN Pad ELSE basis_64(s[3])
             /\ c(4) = IF 3 * m + 2 >= Len(key) THEN Pad ELSE basis_64(s[4])
<1> DEFINE L == Len(key)
           quads == (L + 2) \div 3
<1>1. L \in Nat /\ quads \in Nat
  OBVIOUS
<1>2. Len(base64_encode(key)) = 4 * quads
  BY <1>1 DEF base64_encode
<1>3. m + 1 <= quads /\ 3 * m + 1 <= L
  BY <1>1, <1>2
<1>4. ASSUME NEW j \in 1..4
      PROVE  base64_encode(key)[4 * m + j] =
               IF 3 * m + j - 1 > L THEN Pad ELSE basis_64(s[j])
  <2>1. 4 * m + j \in 1..(4 * quads)
    BY <1>1, <1>3
  <2>2. m = ((4 * m + j) - 1) \div 4 /\ j - 1 = ((4 * m + j) - 1) % 4
    OBVIOUS
  <2>3. \A i \in 1..(4 * quads) : \A h, k :
          h = (i - 1) \div 4 /\ k = (i - 1) % 4 =>
          base64_encode(key)[i] =
            IF 3 * h + k > L THEN Pad
            ELSE basis_64(Sextets(key[3 * h + 1], ByteOr0(key, 3 * h + 2),
                                  ByteOr0(key, 3 * h + 3))[k + 1])
    BY DEF base64_encode
  <2>4. base64_encode(key)[4 * m + j] =
          IF 3 * m + (j - 1) > L THEN Pad
          ELSE basis_64(Sextets(key[3 * m + 1], ByteOr0(key, 3 * m + 2),
                                ByteOr0(key, 3 * m + 3))[(j - 1) + 1])
    BY <2>1, <2>2, <2>3, Zenon
  <2> QED
    BY <2>4
<1> QED
  BY <1>1, <1>3, <1>4
-----------------------------------------------------------------------------
\* txt is the key's text in lines of w, and p is where quad m of it begins or the
\* line end before it; the encoded key has a quad m.
AtQuad(key, w, txt, p, m) ==
  txt = InLines(base64_encode(key), w) /\ Payload(w, p) = 4 * m
HasQuad(key, m) == 4 * m + 4 <= Len(base64_encode(key))

\* Between two turns of the loop the quads read are whole quads of the encoded
\* key, each with three bytes in the buffer.
InStep(w) ==
  \E m \in Nat : AtQuad(data, w, src, src_pos, m) /\ Len(dest) = 3 * m

\* The bytes in the buffer are the key's.
Decoded ==
  Len(dest) <= Len(data) /\ \A i \in 1..Len(dest) : dest[i] = data[i]

\* The inductive invariant of base64_decode.
DecodeInv ==
  /\ TypeOK /\ data \in Seq(Octet)
  /\ \E w \in Widths :
       src = InLines(base64_encode(data), w) /\ (result = "more" => InStep(w))
  /\ Decoded
  /\ result = "end" => Len(dest) = Len(data)
  /\ result = "invalid" => InputLeft

LEMMA EncodedSextets ==
  ASSUME NEW key \in Seq(Octet), NEW m \in Nat, 3 * m + 1 <= Len(key),
         NEW s, s = Sextets(key[3 * m + 1], ByteOr0(key, 3 * m + 2),
                            ByteOr0(key, 3 * m + 3))
  PROVE  /\ key[3 * m + 1] \in 0..255
         /\ ByteOr0(key, 3 * m + 2) \in 0..255
         /\ ByteOr0(key, 3 * m + 3) \in 0..255
         /\ s[1] \in 0..63 /\ s[2] \in 0..63 /\ s[3] \in 0..63 /\ s[4] \in 0..63
<1>1. Len(key) \in Nat /\ \A k \in 1..Len(key) : key[k] \in 0..255
  BY ElementOfSeq DEF Octet
<1>2. key[3 * m + 1] \in 0..255
  BY <1>1
<1>3. ASSUME NEW k \in Nat \ {0}
      PROVE  ByteOr0(key, k) \in 0..255
  BY <1>1, 0 \in 0..255 DEF ByteOr0
<1>4. ByteOr0(key, 3 * m + 2) \in 0..255 /\ ByteOr0(key, 3 * m + 3) \in 0..255
  BY <1>3
<1>5. PICK b1 \in 0..255, b2 \in 0..255, b3 \in 0..255 : s = Sextets(b1, b2, b3)
  BY <1>2, <1>4
<1>6. s[1] \in 0..63 /\ s[2] \in 0..63 /\ s[3] \in 0..63 /\ s[4] \in 0..63
  BY <1>5, SextetsInRange
<1> QED
  BY <1>2, <1>4, <1>6

LEMMA EncodedLength ==
  ASSUME NEW key \in Seq(Octet)
  PROVE  /\ Len(key) \in Nat
         /\ Len(base64_encode(key)) = 4 * ((Len(key) + 2) \div 3)
         /\ Len(base64_encode(key)) \in Nat
BY DEF base64_encode

LEMMA DecodeInvInit == Init => DecodeInv
<1> SUFFICES ASSUME Init
             PROVE  DecodeInv
  OBVIOUS
<1>1. data \in Seq(Octet)
  <2>1. PICK n \in 0..MaxLen : data \in [1..n -> Bytes]
    BY DEF Init
  <2>2. n \in Nat
    BY Base64Assumption
  <2>3. \A i \in 1..n : data[i] \in Octet
    BY <2>1, Base64Assumption, Zenon DEF Octet
  <2> QED
    BY <2>1, <2>2, <2>3
<1>2. PICK w \in Widths : src = InLines(base64_encode(data), w)
  BY DEF Init
<1>3. w \in Nat \ {0}
  BY Base64Assumption
<1>4. Len(src) \in Nat
  BY <1>1, <1>2, <1>3, EncodedLength, LinesOf
<1>5. TypeOK
  BY <1>4 DEF Init, TypeOK
<1>6. Payload(w, 0) = 0
  BY <1>3 DEF Payload
<1>7. InStep(w) /\ Decoded
  BY <1>1, <1>2, <1>6 DEF Init, InStep, AtQuad, Decoded
<1> QED
  BY <1>1, <1>2, <1>5, <1>7 DEF Init, DecodeInv

\* White space at the front of what is left is a line end, no part of a quad.
LEMMA SpaceIsLineEnd ==
  ASSUME NEW key \in Seq(Octet), NEW w \in Nat \ {0}, NEW txt,
         NEW p \in Nat, NEW m \in Nat, AtQuad(key, w, txt, p, m),
         p < Len(txt), Space(txt[p + 1])
  PROVE  AtQuad(key, w, txt, p + 1, m)
<1> DEFINE enc == base64_encode(key)
<1>1. Len(enc) \in Nat /\ Len(enc) = 4 * ((Len(key) + 2) \div 3)
      /\ Len(key) \in Nat
  BY EncodedLength
<1>2. /\ txt = InLines(enc, w) /\ Payload(w, p) = 4 * m
      /\ Len(txt) \in Nat /\ Payload(w, Len(txt)) = Len(enc)
  BY <1>1, LinesOf DEF AtQuad
<1> HIDE DEF enc
<1>3. CASE (p + 1) % (w + 1) = 0
  BY <1>2, <1>3, PayloadStep DEF AtQuad, enc
<1>4. CASE (p + 1) % (w + 1) # 0
  <2>1. Payload(w, p + 1) = 4 * m + 1
    BY <1>2, <1>4, PayloadStep
  <2>2. 4 * m + 1 <= Len(enc)
    <3>1. p + 1 \in Nat /\ p + 1 <= Len(txt)
      BY <1>2
    <3> QED
      BY <1>2, <2>1, <3>1, PayloadMonotonic
  <2>3. 4 * m + 4 <= Len(enc)
    BY <1>1, <2>2
  <2>4. txt[p + 1] = enc[4 * m + 1]
    BY <1>1, <1>2, <1>4, LinesOf
  <2> DEFINE s == Sextets(key[3 * m + 1], ByteOr0(key, 3 * m + 2),
                          ByteOr0(key, 3 * m + 3))
  <2>5. 3 * m + 1 <= Len(key) /\ enc[4 * m + 1] = basis_64(s[1])
    BY <2>3, EncodedQuad DEF enc
  <2>6. s[1] \in 0..63
    BY <2>5, EncodedSextets
  <2> QED
    BY <2>4, <2>5, <2>6, TablesInverse
<1> QED
  BY <1>3, <1>4

\* There is no line end inside four characters that are accepted, so that they
\* are one quad of the encoded key.
LEMMA AcceptedIsQuad ==
  ASSUME NEW key \in Seq(Octet), NEW w \in Nat \ {0}, NEW txt,
         NEW p \in Nat, NEW m \in Nat, AtQuad(key, w, txt, p, m),
         p + 4 <= Len(txt),
         ~InvalidQuad(txt[p + 1], txt[p + 2], txt[p + 3], txt[p + 4])
  PROVE  /\ HasQuad(key, m) /\ AtQuad(key, w, txt, p + 4, m + 1)
         /\ txt[p + 1] = base64_encode(key)[4 * m + 1]
         /\ txt[p + 2] = base64_encode(key)[4 * m + 2]
         /\ txt[p + 3] = base64_encode(key)[4 * m + 3]
         /\ txt[p + 4] = base64_encode(key)[4 * m + 4]
<1> DEFINE enc == base64_encode(key)
<1>1. /\ txt = InLines(enc, w) /\ Payload(w, p) = 4 * m
      /\ Len(enc) \in Nat /\ Len(txt) \in Nat /\ Payload(w, Len(txt)) = Len(enc)
  BY EncodedLength, LinesOf DEF AtQuad
<1> HIDE DEF enc
<1>2. \A j \in 1..4 : txt[p + j] # Newline
  <2>1. ~Valid(Newline) /\ Newline # Pad
    BY DEF Valid, index_64, XX, Newline, Pad
  <2>2. /\ txt[p + 1] # Newline /\ txt[p + 2] # Newline
        /\ txt[p + 3] # Newline /\ txt[p + 4] # Newline
    BY <2>1 DEF InvalidQuad
  <2> QED
    BY <2>2
<1>3. ASSUME NEW j \in 0..3
      PROVE  /\ Payload(w, (p + j) + 1) = Payload(w, p + j) + 1
             /\ txt[(p + j) + 1] = enc[Payload(w, p + j) + 1]
  <2>1. p + j \in Nat /\ p + j < Len(txt)
    BY <1>1
  <2>2. txt[(p + j) + 1] # Newline
    BY <1>2
  <2>3. ((p + j) + 1) % (w + 1) # 0
    BY <1>1, <2>1, <2>2, LinesOf
  <2> QED
    BY <1>1, <2>1, <2>3, LinesOf, PayloadStep
<1>4. /\ Payload(w, p + 1) = 4 * m + 1 /\ txt[p + 1] = enc[4 * m + 1]
      /\ Payload(w, p + 2) = 4 * m + 2 /\ txt[p + 2] = enc[4 * m + 2]
      /\ Payload(w, p + 3) = 4 * m + 3 /\ txt[p + 3] = enc[4 * m + 3]
      /\ Payload(w, p + 4) = 4 * m + 4 /\ txt[p + 4] = enc[4 * m + 4]
  <2>1. Payload(w, p + 1) = 4 * m + 1 /\ txt[p + 1] = enc[4 * m + 1]
    BY <1>1, <1>3, p + 0 = p
  <2>2. Payload(w, p + 2) = 4 * m + 2 /\ txt[p + 2] = enc[4 * m + 2]
    BY <1>3, <2>1, (p + 1) + 1 = p + 2, (4 * m + 1) + 1 = 4 * m + 2
  <2>3. Payload(w, p + 3) = 4 * m + 3 /\ txt[p + 3] = enc[4 * m + 3]
    BY <1>3, <2>2, (p + 2) + 1 = p + 3, (4 * m + 2) + 1 = 4 * m + 3
  <2>4. Payload(w, p + 4) = 4 * m + 4 /\ txt[p + 4] = enc[4 * m + 4]
    BY <1>3, <2>3, (p + 3) + 1 = p + 4, (4 * m + 3) + 1 = 4 * m + 4
  <2> QED
    BY <2>1, <2>2, <2>3, <2>4
<1>5. 4 * m + 4 <= Len(enc)
  <2>1. p + 4 \in Nat
    OBVIOUS
  <2> QED
    BY <1>1, <1>4, <2>1, PayloadMonotonic
<1> QED
  BY <1>1, <1>4, <1>5 DEF AtQuad, HasQuad, enc

\* The first two bytes of a quad that ends in padding.
LEMMA TwoOctets ==
  ASSUME NEW b1 \in Nat, NEW b2 \in Nat, b1 < 256, b2 < 256,
         NEW t, t = Sextets(b1, b2, 0)
  PROVE  /\ Octets(t[1], t[2], t[3], XX)[1] = b1
         /\ Octets(t[1], t[2], t[3], XX)[2] = b2
BY DEF Sextets, Octets, XX

\* A quad of the encoded key decodes to the bytes it was written for, and the
\* one with padding to the last ones.
LEMMA QuadDecodes ==
  ASSUME NEW key \in Seq(Octet), NEW m \in Nat,
         HasQuad(key, m), NEW enc, enc = base64_encode(key),
         NEW size, size = Size(enc[4 * m + 3], enc[4 * m + 4]),
         NEW buf, buf = Octets(index_64(enc[4 * m + 1]), index_64(enc[4 * m + 2]),
                               index_64(enc[4 * m + 3]), index_64(enc[4 * m + 4]))
  PROVE  /\ size \in 1..3 /\ 3 * m + size <= Len(key)
         /\ size < 3 => 3 * m + size = Len(key)
         /\ \A i \in 1..size : buf[i] = key[3 * m + i]
<1> DEFINE b1 == key[3 * m + 1]
           b2 == ByteOr0(key, 3 * m + 2)
           b3 == ByteOr0(key, 3 * m + 3)
           s == Sextets(b1, b2, b3)
<1>1. /\ Len(key) \in Nat /\ 3 * m + 1 <= Len(key)
      /\ enc[4 * m + 1] = basis_64(s[1]) /\ enc[4 * m + 2] = basis_64(s[2])
      /\ enc[4 * m + 3] = IF 3 * m + 1 = Len(key) THEN Pad ELSE basis_64(s[3])
      /\ enc[4 * m + 4] = IF 3 * m + 2 >= Len(key) THEN Pad ELSE basis_64(s[4])
  BY EncodedQuad DEF HasQuad
<1>2. b1 \in 0..255 /\ b2 \in 0..255 /\ b3 \in 0..255
  BY <1>1, EncodedSextets
<1>3. /\ 3 * m + 1 = Len(key) => b2 = 0 /\ b3 = 0
      /\ 3 * m + 1 < Len(key) => b2 = key[3 * m + 2]
      /\ 3 * m + 2 = Len(key) => b3 = 0
      /\ 3 * m + 2 < Len(key) => b3 = key[3 * m + 3]
  BY <1>1 DEF ByteOr0
<1>4. index_64(Pad) = XX
  BY DEF index_64, Pad, XX
<1>5. CASE 3 * m + 1 = Len(key)
  <2>1. s = Sextets(b1, 0, 0)
    BY <1>3, <1>5
  <2>2. enc[4 * m + 3] = Pad /\ enc[4 * m + 4] = Pad
    BY <1>1, <1>5
  <2>3. size = 1 /\ buf[1] = b1
    <3> HIDE DEF b1
    <3>1. /\ Size(Pad, Pad) = 1
          /\ Octets(index_64(basis_64(s[1])), index_64(basis_64(s[2])), XX, XX)[1]
               = b1
      BY <1>2, <2>1, PaddedRoundTrip
    <3> HIDE DEF s
    <3> QED
      BY <1>1, <1>4, <2>2, <3>1, Zenon
  <2> QED
    BY <1>5, <2>3
<1>6. CASE 3 * m + 2 = Len(key)
  <2>1. s = Sextets(b1, b2, 0)
    BY <1>3, <1>6
  <2>2. enc[4 * m + 3] = basis_64(s[3]) /\ enc[4 * m + 4] = Pad
    BY <1>1, <1>6
  <2>3. size = 2 /\ buf[1] = b1 /\ buf[2] = b2
    <3>1. s[1] \in 0..63 /\ s[2] \in 0..63 /\ s[3] \in 0..63
      BY <1>1, EncodedSextets
    <3> HIDE DEF s
    <3>2. \A i \in 0..63 : index_64(basis_64(i)) = i /\ basis_64(i) # Pad
      BY TablesInverse
    <3>3. buf = Octets(s[1], s[2], s[3], XX)
      BY <1>1, <1>4, <2>2, <3>1, <3>2, Zenon
    <3>4. buf[1] = b1 /\ buf[2] = b2
      <4> HIDE DEF b1, b2, b3
      <4>1. b1 \in Nat /\ b2 \in Nat /\ b1 < 256 /\ b2 < 256
        BY <1>2
      <4>2. /\ Octets(s[1], s[2], s[3], XX)[1] = b1
            /\ Octets(s[1], s[2], s[3], XX)[2] = b2
        BY <2>1, <4>1, TwoOctets
      <4> QED
        BY <3>3, <4>2, Zenon
    <3>5. size = 2
      BY <2>2, <3>1, <3>2 DEF Size
    <3> QED
      BY <3>4, <3>5
  <2> QED
    BY <1>3, <1>6, <2>3
<1>7. CASE 3 * m + 2 < Len(key)
  <2>1. enc[4 * m + 3] = basis_64(s[3]) /\ enc[4 * m + 4] = basis_64(s[4])
    BY <1>1, <1>7
  <2>2. size = 3 /\ buf = <<b1, b2, b3>>
    <3> HIDE DEF b1, b2, b3
    <3>1. /\ Size(basis_64(s[3]), basis_64(s[4])) = 3
          /\ Octets(index_64(basis_64(s[1])), index_64(basis_64(s[2])),
                    index_64(basis_64(s[3])), index_64(basis_64(s[4])))
               = <<b1, b2, b3>>
      BY <1>2, QuadRoundTrip
    <3> HIDE DEF s
    <3> QED
      BY <1>1, <2>1, <3>1, Zenon
  <2> QED
    BY <1>3, <1>7, <2>2
<1> QED
  BY <1>1, <1>5, <1>6, <1>7

\* What the bytes of a quad add to those in the buffer.
LEMMA AppendedBytes ==
  ASSUME NEW S, NEW d \in Seq(S), NEW buf, NEW size \in Nat
  PROVE  LET e == d \o SubSeq(buf, 1, size)
         IN  /\ Len(e) = Len(d) + size
             /\ \A i \in 1..(Len(d) + size) :
                  e[i] = IF i <= Len(d) THEN d[i] ELSE buf[i - Len(d)]
<1> DEFINE t == SubSeq(buf, 1, size)
<1>1. Len(t) = size /\ \A i \in 1..size : t[i] = buf[i]
  OBVIOUS
<1> HIDE DEF t
<1>2. Len(d) \in Nat
  OBVIOUS
<1>3. Len(d \o t) = Len(d) + size
  BY <1>1, <1>2
<1> QED
  BY <1>1, <1>2, <1>3

LEMMA DecodeInvNext == DecodeInv /\ [Next]_vars => DecodeInv'
<1> SUFFICES ASSUME DecodeInv, [Next]_vars
             PROVE  DecodeInv'
  OBVIOUS
<1> DEFINE enc == base64_encode(data)
<1>1. PICK w \in Widths : src = InLines(enc, w) /\ (result = "more" => InStep(w))
  BY DEF DecodeInv
<1>2. w \in Nat \ {0} /\ data \in Seq(Octet)
  BY Base64Assumption DEF DecodeInv
<1>3. TypeOK'
  <2>1. Len(src) \in Nat
    BY <1>1, <1>2, EncodedLength, LinesOf
  <2> QED
    BY <2>1, BoundsKept DEF DecodeInv
<1>4. CASE Call
  <2>1. InStep(w)'
    BY <1>1, <1>4 DEF Call, InStep
  <2> QED
    BY <1>1, <1>2, <1>3, <1>4, <2>1 DEF Call, DecodeInv, Decoded
<1>5. CASE SkipSpace
  <2>1. PICK m \in Nat :
          AtQuad(data, w, src, src_pos, m) /\ Len(dest) = 3 * m
    BY <1>1, <1>5 DEF SkipSpace, InStep
  <2>2. src_pos \in Nat /\ src_pos < Len(src) /\ Space(src[src_pos + 1])
    BY <1>5 DEF SkipSpace, InputLeft, Char, DecodeInv, TypeOK
  <2>3. AtQuad(data, w, src, src_pos + 1, m)
    BY <1>2, <2>1, <2>2, SpaceIsLineEnd
  <2>4. InStep(w)'
    BY <1>5, <2>1, <2>3 DEF SkipSpace, InStep
  <2> QED
    BY <1>1, <1>2, <1>3, <1>5, <2>4 DEF SkipSpace, DecodeInv, Decoded
<1>6. CASE Reject
  BY <1>1, <1>2, <1>3, <1>6 DEF Reject, InputLeft, DecodeInv, Decoded
<1>7. CASE DecodeQuad
  <2> DEFINE size == Size(Char(3), Char(4))
             buf == Octets(index_64(Char(1)), index_64(Char(2)),
                           index_64(Char(3)), index_64(Char(4)))
  <2>1. PICK m \in Nat :
          AtQuad(data, w, src, src_pos, m) /\ Len(dest) = 3 * m
    BY <1>1, <1>7 DEF DecodeQuad, InStep
  <2>2. /\ src_pos \in Nat /\ src_pos + 4 <= Len(src)
        /\ ~InvalidQuad(src[src_pos + 1], src[src_pos + 2],
                        src[src_pos + 3], src[src_pos + 4])
    BY <1>7 DEF DecodeQuad, InputLeft, Char, DecodeInv, TypeOK
  <2> HIDE DEF size, buf, enc
  <2>3. /\ HasQuad(data, m) /\ AtQuad(data, w, src, src_pos + 4, m + 1)
        /\ src[src_pos + 1] = enc[4 * m + 1] /\ src[src_pos + 2] = enc[4 * m + 2]
        /\ src[src_pos + 3] = enc[4 * m + 3] /\ src[src_pos + 4] = enc[4 * m + 4]
    BY <1>2, <2>1, <2>2, AcceptedIsQuad, SMTT(60) DEF enc
  <2>4. /\ size = Size(enc[4 * m + 3], enc[4 * m + 4])
        /\ buf = Octets(index_64(enc[4 * m + 1]), index_64(enc[4 * m + 2]),
                        index_64(enc[4 * m + 3]), index_64(enc[4 * m + 4]))
    BY <2>3 DEF size, buf, Char
  <2>5. /\ size \in 1..3 /\ 3 * m + size <= Len(data)
        /\ size < 3 => 3 * m + size = Len(data)
        /\ \A i \in 1..size : buf[i] = data[3 * m + i]
    BY <1>2, <2>3, <2>4, QuadDecodes DEF enc
  <2>6. dest' = dest \o SubSeq(buf, 1, size)
    BY <1>7 DEF DecodeQuad, size, buf
  <2>7. /\ Len(dest') = 3 * m + size
        /\ \A i \in 1..(3 * m + size) :
             dest'[i] = IF i <= 3 * m THEN dest[i] ELSE buf[i - 3 * m]
    <3>1. dest \in Seq(0..255) /\ size \in Nat
      BY <2>5 DEF DecodeInv, TypeOK
    <3> DEFINE e == dest \o SubSeq(buf, 1, size)
    <3>2. /\ Len(e) = Len(dest) + size
          /\ \A i \in 1..(Len(dest) + size) :
               e[i] = IF i <= Len(dest) THEN dest[i] ELSE buf[i - Len(dest)]
      BY <3>1, AppendedBytes, Zenon
    <3> HIDE DEF e
    <3>3. Len(dest) = 3 * m /\ dest' = e
      BY <2>1, <2>6 DEF e
    <3> QED
      BY <3>2, <3>3, Zenon
  <2>8. /\ data' = data /\ src' = src /\ src_pos' = src_pos + 4
        /\ result' = IF size < 3 THEN "end" ELSE "more"
    BY <1>7 DEF DecodeQuad, size
  <2>9. Decoded'
    <3>1. ASSUME NEW i \in 1..(3 * m + size)
          PROVE  dest'[i] = data[i]
      <4>1. CASE i <= 3 * m
        <5>1. dest'[i] = dest[i]
          BY <2>7, <4>1
        <5>2. i \in 1..Len(dest)
          BY <2>1, <2>5, <4>1
        <5> QED
          BY <5>1, <5>2 DEF DecodeInv, Decoded
      <4>2. CASE ~(i <= 3 * m)
        <5>1. dest'[i] = buf[i - 3 * m]
          BY <2>7, <4>2
        <5>2. i - 3 * m \in 1..size /\ 3 * m + (i - 3 * m) = i
          BY <2>5, <4>2
        <5> QED
          BY <2>5, <5>1, <5>2
      <4> QED
        BY <4>1, <4>2
    <3> QED
      BY <2>5, <2>7, <2>8, <3>1 DEF Decoded
  <2>10. result' = "more" => InStep(w)'
    <3> SUFFICES ASSUME result' = "more"
                 PROVE  InStep(w)'
      OBVIOUS
    <3>1. size = 3
      BY <2>5, <2>8
    <3>2. AtQuad(data', w, src', src_pos', m + 1) /\ Len(dest') = 3 * (m + 1)
      BY <2>3, <2>7, <2>8, <3>1
    <3> QED
      BY <3>2 DEF InStep, AtQuad
  <2>11. result' = "end" => Len(dest') = Len(data')
    BY <2>5, <2>7, <2>8
  <2>12. result' # "invalid"
    BY <2>8
  <2>13. src' = InLines(base64_encode(data'), w) /\ data' \in Seq(Octet)
    BY <1>1, <1>2, <2>8 DEF enc
  <2> QED
    BY <1>3, <2>9, <2>10, <2>11, <2>12, <2>13 DEF DecodeInv
<1>8. CASE UNCHANGED vars
  BY <1>8 DEF vars, DecodeInv, TypeOK, InStep, Decoded, InputLeft
<1> QED
  BY <1>4, <1>5, <1>6, <1>7, <1>8 DEF Next

\* The position of the decoder in the text and the bytes it has put out always go
\* together: each full turn of its loop has taken one quad of base64_encode's.
THEOREM DecodeInvHolds == Spec => []DecodeInv
BY DecodeInvInit, DecodeInvNext, PTL DEF Spec

\* For every key, every width of its lines and every way the text is cut into
\* calls, the loop reads inside the text it has been given and puts nothing into
\* the buffer that does not fit an unsigned char.
THEOREM DecodeInBounds == Spec => []TypeOK
<1>1. DecodeInv => TypeOK
  BY DEF DecodeInv
<1> QED
  BY <1>1, DecodeInvHolds, PTL

\* The bytes decoded are the first bytes of the key.
THEOREM DecodesThePrefix == Spec => []DecodesPrefix
<1>1. DecodeInv => DecodesPrefix
  BY DEF DecodeInv, Decoded, TypeOK, DecodesPrefix
<1> QED
  BY <1>1, DecodeInvHolds, PTL

\* When the last call has returned, the key is complete: what is left of the text
\* is shorter than a quad, so that it can only be a line end.
THEOREM DecodesTheKey == Spec => []DecodesAll
<1>1. DecodeInv => DecodesAll
  <2> SUFFICES ASSUME DecodeInv, src_size = Len(src), result = "end" \/ ~InputLeft
               PROVE  dest = data
    BY DEF DecodesAll
  <2>1. Len(dest) = Len(data)
    <3>1. CASE result = "end"
      BY <3>1 DEF DecodeInv
    <3>2. CASE result = "more"
      <4>1. PICK w \in Widths : src = InLines(base64_encode(data), w) /\ InStep(w)
        BY <3>2 DEF DecodeInv
      <4>2. PICK m \in Nat : Payload(w, src_pos) = 4 * m /\ Len(dest) = 3 * m
        BY <4>1 DEF InStep, AtQuad
      <4>3. w \in Nat \ {0} /\ data \in Seq(Octet)
        BY Base64Assumption DEF DecodeInv
      <4>4. /\ Len(data) \in Nat /\ Len(src) \in Nat
            /\ Payload(w, Len(src)) = 4 * ((Len(data) + 2) \div 3)
        BY <4>1, <4>3, EncodedLength, LinesOf
      <4>5. src_pos \in Nat /\ src_pos <= Len(src) /\ Len(src) - src_pos <= 3
        BY <3>2, <4>4 DEF DecodeInv, TypeOK, InputLeft
      <4>6. m = (Len(data) + 2) \div 3
        <5>1. /\ 4 * m <= 4 * ((Len(data) + 2) \div 3)
              /\ 4 * ((Len(data) + 2) \div 3) - 4 * m <= 3
          BY <4>2, <4>3, <4>4, <4>5, PayloadMonotonic
        <5> QED
          BY <4>4, <5>1
      <4>7. Len(dest) <= Len(data)
        BY DEF DecodeInv, Decoded
      <4> QED
        BY <4>2, <4>4, <4>6, <4>7
    <3>3. result # "invalid"
      BY DEF DecodeInv
    <3> QED
      BY <3>1, <3>2, <3>3 DEF DecodeInv, TypeOK
  <2> QED
    BY <2>1 DEF DecodeInv, Decoded, TypeOK
<1> QED
  BY <1>1, DecodeInvHolds, PTL
=============================================================================
