---------------------------- MODULE TextsProofs ----------------------------
(***************************************************************************)
(* The routines that take a text apart with strtok and strchr, for every   *)
(* text: what they find is the first place that matches, and what they     *)
(* hand on is the text, piece by piece.                                    *)
(***************************************************************************)
EXTENDS Motd, PortList, WellFoundedInduction, TLAPS

\* A set of natural numbers that is not empty has a least element, and Min
\* chooses it.
LEMMA MinIsLeast ==
  ASSUME NEW S \in SUBSET Nat, S # {}
  PROVE  Min(S) \in S /\ \A y \in S : Min(S) <= y
<1> DEFINE R == OpToRel(<, Nat)
<1>1. PICK x \in S : \A y \in S : ~(<<y, x>> \in R)
  <2>1. IsWellFoundedOn(R, Nat)
    BY NatLessThanWellFounded
  <2> QED
    BY <2>1, WFMin
<1>2. ASSUME NEW y \in S
      PROVE  x <= y
  <2>1. x \in Nat /\ y \in Nat
    OBVIOUS
  <2>2. y < x => <<y, x>> \in R
    BY <2>1 DEF OpToRel
  <2>3. ~(y < x)
    <3> HIDE DEF R
    <3> QED
      BY <1>1, <2>2
  <2> QED
    BY <2>1, <2>3
<1> QED
  BY <1>2 DEF Min

\* Induction over the natural numbers, for a set.
LEMMA Induction ==
  ASSUME NEW P, 0 \in P, \A n \in Nat : n \in P => n + 1 \in P
  PROVE  \A n \in Nat : n \in P
<1> DEFINE Bad == {n \in Nat : n \notin P}
<1> SUFFICES ASSUME Bad # {}
             PROVE  FALSE
  OBVIOUS
<1>1. Bad \in SUBSET Nat
  OBVIOUS
<1>2. PICK m \in Bad : \A y \in Bad : m <= y
  BY <1>1, MinIsLeast
<1>3. m \in Nat /\ m # 0 /\ m \notin P
  BY <1>2
<1>4. m - 1 \in Nat /\ m - 1 \in P
  BY <1>2, <1>3
<1> QED
  BY <1>3, <1>4

\* A set of positive integers with an upper bound has a greatest element, and Max
\* chooses it.
LEMMA MaxIsGreatest ==
  ASSUME NEW n \in Nat, NEW S \in SUBSET (1..n), S # {}
  PROVE  Max(S) \in S /\ \A y \in S : y <= Max(S)
<1> DEFINE T == {i \in Nat : i <= n /\ n - i \in S}
<1>1. T \in SUBSET Nat /\ T # {}
  <2>1. PICK x : x \in S
    OBVIOUS
  <2>2. n - x \in Nat /\ n - x <= n /\ n - (n - x) = x
    BY <2>1
  <2> QED
    BY <2>1, <2>2
<1>2. PICK m \in T : \A y \in T : m <= y
  BY <1>1, MinIsLeast
<1>3. n - m \in S
  BY <1>2
<1>4. ASSUME NEW y \in S
      PROVE  y <= n - m
  <2>1. y \in Nat /\ y <= n /\ n - y \in Nat /\ n - (n - y) = y
    OBVIOUS
  <2>2. n - y \in T
    BY <2>1
  <2> QED
    BY <1>2, <2>1, <2>2
<1> QED
  BY <1>3, <1>4 DEF Max

LEMMA MinOfTwo ==
  ASSUME NEW a \in Nat, NEW b \in Nat
  PROVE  Min({a, b}) = IF a <= b THEN a ELSE b
<1>1. {a, b} \in SUBSET Nat /\ {a, b} # {}
  OBVIOUS
<1>2. Min({a, b}) \in {a, b} /\ \A y \in {a, b} : Min({a, b}) <= y
  BY <1>1, MinIsLeast
<1>3. Min({a, b}) <= a /\ Min({a, b}) <= b /\ (Min({a, b}) = a \/ Min({a, b}) = b)
  BY <1>2
<1> QED
  BY <1>3

\* The characters of a MOTD as it is copied into the buffer.
MotdChars == Letters \cup {LineEnd, Zero}

\* Where the lines begin that strtok has gone through.
HeadsUpTo(p) == {k \in LineHeads(motd) : k <= p}

\* strtok stands on a line end, or before or behind the whole buffer, and the
\* lines sent are exactly those that begin before that place.
MotdInv ==
  /\ text \in Seq(Letters \cup {LineEnd})
  /\ motd \in Seq(MotdChars) /\ motd = MotdCopy(text)
  /\ pos \in Nat /\ pos <= Len(motd) + 1
  /\ pos = 0 \/ pos = Len(motd) + 1 \/ motd[pos] = LineEnd
  /\ lines \in Seq(Seq(MotdChars))
  /\ AreLinesAt(lines, motd, HeadsUpTo(pos))
  /\ motdDone => HeadsUpTo(pos) = LineHeads(motd)

\* strtok begins the next line at the first character that does not end one.
LEMMA LineStartIsFirst ==
  ASSUME motd \in Seq(MotdChars), pos \in Nat
  PROVE  /\ LineStart = 0 =>
              \A i \in Nat : pos < i /\ i <= Len(motd) => motd[i] = LineEnd
         /\ LineStart # 0 =>
              /\ LineStart \in Nat /\ pos < LineStart /\ LineStart <= Len(motd)
              /\ motd[LineStart] # LineEnd
              /\ \A i \in Nat : pos < i /\ i < LineStart => motd[i] = LineEnd
<1> DEFINE I == {i \in (pos + 1)..Len(motd) : motd[i] # LineEnd}
<1>1. LineStart = IF I # {} THEN Min(I) ELSE 0
  BY DEF LineStart, SelectInSubSeq
<1>2. I \in SUBSET Nat
  OBVIOUS
<1>3. CASE I = {}
  BY <1>1, <1>3
<1>4. CASE I # {}
  <2>1. LineStart \in I /\ \A y \in I : LineStart <= y
    BY <1>1, <1>2, <1>4, MinIsLeast
  <2>2. ASSUME NEW i \in Nat, pos < i, i < LineStart
        PROVE  motd[i] = LineEnd
    BY <2>1, <2>2
  <2> QED
    BY <2>1, <2>2
<1> QED
  BY <1>3, <1>4

\* A line that begins at k ends at the first line end behind it, or with the
\* buffer.
LEMMA LineStopIsFirst ==
  ASSUME motd \in Seq(MotdChars), NEW k \in Nat, 0 < k, k <= Len(motd),
         motd[k] # LineEnd
  PROVE  /\ LineStop(k) \in Nat /\ k < LineStop(k) /\ LineStop(k) <= Len(motd) + 1
         /\ LineStop(k) = Len(motd) + 1 \/ motd[LineStop(k)] = LineEnd
         /\ \A i \in Nat : k <= i /\ i < LineStop(k) => motd[i] # LineEnd
<1> DEFINE I == {i \in k..Len(motd) : motd[i] = LineEnd}
<1>1. LineStop(k) = IF I # {} THEN Min(I) ELSE Len(motd) + 1
  <2>1. LineStop(k) = LET stop == IF I # {} THEN Min(I) ELSE 0
                      IN  IF stop = 0 THEN Len(motd) + 1 ELSE stop
    BY DEF LineStop, SelectInSubSeq
  <2>2. ASSUME I # {} PROVE Min(I) \in I
    <3>1. I \in SUBSET Nat
      OBVIOUS
    <3> QED
      BY <2>2, <3>1, MinIsLeast
  <2> QED
    BY <2>1, <2>2
<1>2. I \in SUBSET Nat
  OBVIOUS
<1>3. CASE I = {}
  BY <1>1, <1>3
<1>4. CASE I # {}
  <2>1. LineStop(k) \in I /\ \A y \in I : LineStop(k) <= y
    BY <1>1, <1>2, <1>4, MinIsLeast
  <2>2. ASSUME NEW i \in Nat, k <= i, i < LineStop(k)
        PROVE  motd[i] # LineEnd
    BY <2>1, <2>2
  <2> QED
    BY <2>1, <2>2
<1> QED
  BY <1>3, <1>4

LEMMA MotdInvInit == MotdInit => MotdInv
<1> SUFFICES ASSUME MotdInit
             PROVE  MotdInv
  OBVIOUS
<1>1. text \in Seq(Letters \cup {LineEnd})
  BY MotdAssumption DEF MotdInit, SeqOf
<1> DEFINE n == Min({Len(text), MotdSize})
<1>2. n \in Nat /\ n <= Len(text)
  <2>1. Len(text) \in Nat /\ MotdSize \in Nat
    BY <1>1, MotdAssumption
  <2> QED
    BY <2>1, MinOfTwo
<1> HIDE DEF n
<1>3. SubSeq(text, 1, n) \in Seq(MotdChars)
  <2>1. text \in Seq(MotdChars)
    BY <1>1 DEF MotdChars
  <2> QED
    BY <1>2, <2>1
<1>4. motd \in Seq(MotdChars)
  <2>1. <<Zero>> \in Seq(MotdChars)
    BY DEF MotdChars
  <2>2. motd = <<Zero>> \o SubSeq(text, 1, n)
    BY DEF MotdInit, MotdCopy, n
  <2> QED
    BY <1>3, <2>1, <2>2
<1>5. HeadsUpTo(0) = {}
  BY <1>4 DEF HeadsUpTo, LineHeads
<1>6. AreLinesAt(<<>>, motd, {})
  <2>1. DOMAIN <<>> = {} /\ <<>> \in [{} -> {}]
    OBVIOUS
  <2> QED
    BY <2>1 DEF AreLinesAt
<1>7. pos = 0 /\ lines = <<>> /\ ~motdDone /\ motd = MotdCopy(text)
  BY DEF MotdInit
<1>8. pos \in Nat /\ pos <= Len(motd) + 1 /\ lines \in Seq(Seq(MotdChars))
  BY <1>4, <1>7
<1>9. AreLinesAt(lines, motd, HeadsUpTo(pos))
  BY <1>5, <1>6, <1>7
<1> QED
  BY <1>1, <1>4, <1>7, <1>8, <1>9 DEF MotdInv

\* One turn of strtok: the line it has found is the next that begins, and it is
\* whole.
LEMMA MotdInvLine == MotdInv /\ MotdLine => MotdInv'
<1> SUFFICES ASSUME MotdInv, MotdLine
             PROVE  MotdInv'
  OBVIOUS
<1> DEFINE k == LineStart
           stop == LineStop(k)
           l == SubSeq(motd, k, stop - 1)
<1>1. /\ motd \in Seq(MotdChars) /\ pos \in Nat /\ pos <= Len(motd) + 1
      /\ pos = 0 \/ pos = Len(motd) + 1 \/ motd[pos] = LineEnd
      /\ lines \in Seq(Seq(MotdChars))
  BY DEF MotdInv
<1>2. /\ ~motdDone /\ k # 0 /\ lines' = Append(lines, l) /\ pos' = stop
      /\ text' = text /\ motd' = motd /\ motdDone' = motdDone
  BY DEF MotdLine
<1>3. /\ k \in Nat /\ pos < k /\ k <= Len(motd) /\ motd[k] # LineEnd
      /\ \A i \in Nat : pos < i /\ i < k => motd[i] = LineEnd
  BY <1>1, <1>2, LineStartIsFirst
<1>4. /\ stop \in Nat /\ k < stop /\ stop <= Len(motd) + 1
      /\ stop = Len(motd) + 1 \/ motd[stop] = LineEnd
      /\ \A i \in Nat : k <= i /\ i < stop => motd[i] # LineEnd
  BY <1>1, <1>3, LineStopIsFirst
<1> HIDE DEF k, stop
<1>5. k \in LineHeads(motd)
  <2>1. k = 1 \/ motd[k - 1] = LineEnd
    BY <1>1, <1>3
  <2> QED
    BY <1>1, <1>3, <2>1 DEF LineHeads
<1>6. HeadsUpTo(stop) = HeadsUpTo(pos) \cup {k}
  <2>1. ASSUME NEW h \in LineHeads(motd), h <= stop
        PROVE  h <= pos \/ h = k
    <3>1. /\ h \in Nat /\ 0 < h /\ h <= Len(motd) /\ motd[h] # LineEnd
          /\ h = 1 \/ motd[h - 1] = LineEnd
      BY <1>1, <2>1 DEF LineHeads
    <3>2. ~(pos < h /\ h < k)
      BY <1>3, <3>1
    <3>3. ~(k < h)
      <4> SUFFICES ASSUME k < h
                   PROVE  FALSE
        OBVIOUS
      <4>1. h # stop
        BY <1>1, <1>4, <3>1
      <4>2. h - 1 \in Nat /\ k <= h - 1 /\ h - 1 < stop
        BY <1>3, <1>4, <2>1, <3>1
      <4>3. h # 1
        BY <1>1, <1>3, <3>1
      <4> QED
        BY <1>4, <3>1, <4>2, <4>3
    <3> QED
      BY <1>1, <1>3, <3>1, <3>2, <3>3
  <2>2. \A h \in LineHeads(motd) : h \in Nat
    BY <1>1 DEF LineHeads
  <2>3. \A h \in LineHeads(motd) : h <= pos => h <= stop
    BY <1>1, <1>3, <1>4, <2>2
  <2>4. k <= stop
    BY <1>3, <1>4
  <2> QED
    BY <1>5, <2>1, <2>3, <2>4 DEF HeadsUpTo
<1>7. l \in Seq(MotdChars) /\ Len(l) = stop - k
  BY <1>1, <1>3, <1>4
<1>8. IsLineAt(l, motd, k)
  <2>1. k + Len(l) - 1 = stop - 1 /\ k + Len(l) = stop
    BY <1>3, <1>4, <1>7
  <2>2. LineEnd \notin ToSet(l)
    <3>1. \A i \in DOMAIN l : l[i] = motd[k + i - 1] /\ i \in Nat /\ 0 < i
                             /\ k + i - 1 < stop
      BY <1>1, <1>3, <1>4, <1>7
    <3>2. \A i \in DOMAIN l : l[i] # LineEnd
      BY <1>3, <1>4, <3>1
    <3> QED
      BY <3>2 DEF ToSet
  <2> QED
    BY <1>4, <2>1, <2>2 DEF IsLineAt
<1> HIDE DEF l
<1>9. AreLinesAt(Append(lines, l), motd, HeadsUpTo(pos) \cup {k})
  <2> DEFINE n == Len(lines) + 1
             all == Append(lines, l)
  <2>1. PICK head \in [DOMAIN lines -> HeadsUpTo(pos)] :
          /\ HeadsUpTo(pos) = {head[i] : i \in DOMAIN lines}
          /\ \A i, j \in DOMAIN lines : i < j => head[i] < head[j]
          /\ \A i \in DOMAIN lines : IsLineAt(lines[i], motd, head[i])
    BY DEF MotdInv, AreLinesAt
  <2> DEFINE heads == [i \in DOMAIN all |-> IF i = n THEN k ELSE head[i]]
  <2>2. /\ n \in Nat /\ DOMAIN all = DOMAIN lines \cup {n} /\ n \notin DOMAIN lines
        /\ \A i \in DOMAIN lines : i < n
        /\ \A i \in DOMAIN lines : all[i] = lines[i]
        /\ all[n] = l
    BY <1>1, <1>7
  <2>3. DOMAIN lines \subseteq Nat /\ \A h \in HeadsUpTo(pos) : h \in Nat /\ h < k
    BY <1>1, <1>3 DEF HeadsUpTo, LineHeads
  <2> HIDE DEF n, all
  <2>4. /\ heads \in [DOMAIN all -> HeadsUpTo(pos) \cup {k}]
        /\ heads[n] = k /\ \A i \in DOMAIN lines : heads[i] = head[i]
    BY <2>1, <2>2
  <2> HIDE DEF heads
  <2>5. HeadsUpTo(pos) \cup {k} = {heads[i] : i \in DOMAIN all}
    BY <2>1, <2>2, <2>4
  <2>6. \A i, j \in DOMAIN all : i < j => heads[i] < heads[j]
    <3> SUFFICES ASSUME NEW i \in DOMAIN all, NEW j \in DOMAIN all, i < j
                 PROVE  heads[i] < heads[j]
      OBVIOUS
    <3>1. i \in DOMAIN lines
      BY <2>2, <2>3
    <3>2. CASE j = n
      BY <2>1, <2>3, <2>4, <3>1, <3>2
    <3>3. CASE j \in DOMAIN lines
      BY <2>1, <2>4, <3>1, <3>3
    <3> QED
      BY <2>2, <3>2, <3>3
  <2>7. \A i \in DOMAIN all : IsLineAt(all[i], motd, heads[i])
    BY <1>8, <2>1, <2>2, <2>4
  <2> QED
    BY <2>4, <2>5, <2>6, <2>7 DEF AreLinesAt, all
<1>10. HeadsUpTo(pos)' = HeadsUpTo(stop)
  BY <1>2 DEF HeadsUpTo
<1>11. Append(lines, l) \in Seq(Seq(MotdChars))
  BY <1>1, <1>7
<1> QED
  BY <1>2, <1>4, <1>6, <1>9, <1>10, <1>11 DEF MotdInv

LEMMA MotdInvNext == MotdInv /\ [MotdNext]_motdVars => MotdInv'
<1> SUFFICES ASSUME MotdInv, [MotdNext]_motdVars
             PROVE  MotdInv'
  OBVIOUS
<1>1. CASE MotdLine
  BY <1>1, MotdInvLine
<1>2. CASE MotdEnd
  <2>1. LineHeads(motd) = HeadsUpTo(pos)
    <3>1. \A i \in Nat : pos < i /\ i <= Len(motd) => motd[i] = LineEnd
      BY <1>2, LineStartIsFirst DEF MotdEnd, MotdInv
    <3>2. \A h \in LineHeads(motd) : h \in Nat /\ h <= Len(motd) /\ motd[h] # LineEnd
      BY DEF LineHeads, MotdInv
    <3>3. pos \in Nat
      BY DEF MotdInv
    <3> QED
      BY <3>1, <3>2, <3>3 DEF HeadsUpTo
  <2>2. HeadsUpTo(pos)' = HeadsUpTo(pos)
    BY <1>2 DEF MotdEnd, HeadsUpTo
  <2> QED
    BY <1>2, <2>1, <2>2 DEF MotdEnd, MotdInv
<1>3. CASE UNCHANGED motdVars
  BY <1>3 DEF motdVars, MotdInv, HeadsUpTo
<1> QED
  BY <1>1, <1>2, <1>3 DEF MotdNext

\* The notification handler, started on whatever the server has sent.
MotdSpec == MotdInit /\ [][MotdNext]_motdVars

\* What is sent of a text that fits the buffer are the lines that are not empty of
\* that text with a 0 put before it, once each, in their order and whole: the text's
\* own lines but for the 0 before the first, or, where the text begins with an
\* empty line, behind a line of that 0 alone.  So for every text and buffer size.
THEOREM MotdIsSentInLines == MotdSpec => []MotdSentInLines
<1>1. MotdInv => MotdSentInLines
  <2> SUFFICES ASSUME MotdInv, motdDone, Len(text) < MotdSize
               PROVE  AreLinesAt(lines, <<Zero>> \o text, LineHeads(<<Zero>> \o text))
    BY DEF MotdSentInLines
  <2>1. text \in Seq(Letters \cup {LineEnd}) /\ Len(text) \in Nat
    BY DEF MotdInv
  <2>2. Min({Len(text), MotdSize}) = Len(text)
    BY <2>1, MinOfTwo, MotdAssumption
  <2>3. SubSeq(text, 1, Len(text)) = text
    BY <2>1
  <2>4. motd = <<Zero>> \o text
    BY <2>2, <2>3 DEF MotdInv, MotdCopy
  <2> QED
    BY <2>4 DEF MotdInv
<1> QED
  BY <1>1, MotdInvInit, MotdInvNext, PTL DEF MotdSpec
-----------------------------------------------------------------------------
\* What the fold of Atoi computes, as a function of the places taken so far: the
\* decimal value of the digits there.
IsValue(f, digits, n) ==
  f = [t \in SUBSET (1..n) |->
         IF t = {} THEN 0 ELSE 10 * f[t \ {Max(t)}] + digits[Max(t)]]

\* There is such a function, for as many digits as one likes.
LEMMA ValueExists ==
  ASSUME NEW digits
  PROVE  \A n \in Nat : \E f : IsValue(f, digits, n)
<1> DEFINE P == {n \in Nat : \E f : IsValue(f, digits, n)}
<1>1. 0 \in P
  <2> DEFINE f == [t \in SUBSET (1..0) |-> 0]
  <2>1. \A t \in SUBSET (1..0) : t = {}
    OBVIOUS
  <2>2. IsValue(f, digits, 0)
    BY <2>1 DEF IsValue
  <2> QED
    BY <2>2
<1>2. ASSUME NEW n \in Nat, n \in P
      PROVE  n + 1 \in P
  <2>1. PICK f : IsValue(f, digits, n)
    BY <1>2
  <2> DEFINE m == n + 1
             g == [t \in SUBSET (1..m) |->
                     IF m \in t THEN 10 * f[t \ {m}] + digits[m] ELSE f[t]]
  <2>2. ASSUME NEW t \in SUBSET (1..m), t # {}, m \in t
        PROVE  g[t] = 10 * g[t \ {Max(t)}] + digits[Max(t)]
    <3>1. Max(t) \in t /\ \A y \in t : y <= Max(t)
      <4> HIDE DEF g, m
      <4>1. m \in Nat
        BY DEF m
      <4> QED
        BY <2>2, <4>1, MaxIsGreatest
    <3>2. Max(t) = m
      <4>1. Max(t) \in 1..m /\ m <= Max(t)
        BY <2>2, <3>1
      <4> QED
        BY <4>1
    <3>3. t \ {m} \in SUBSET (1..m) /\ m \notin t \ {m}
      OBVIOUS
    <3>4. g[t] = 10 * f[t \ {m}] + digits[m] /\ g[t \ {m}] = f[t \ {m}]
      BY <2>2, <3>3
    <3> QED
      BY <3>2, <3>4
  <2>3. ASSUME NEW t \in SUBSET (1..m), t # {}, m \notin t
        PROVE  g[t] = 10 * g[t \ {Max(t)}] + digits[Max(t)]
    <3>1. t \in SUBSET (1..n)
      BY <2>3
    <3>2. Max(t) \in t
      BY <2>3, MaxIsGreatest
    <3>3. t \ {Max(t)} \in SUBSET (1..m) /\ m \notin t \ {Max(t)}
      BY <2>3
    <3>4. g[t] = f[t] /\ g[t \ {Max(t)}] = f[t \ {Max(t)}]
      BY <2>3, <3>3
    <3>5. f[t] = 10 * f[t \ {Max(t)}] + digits[Max(t)]
      BY <2>1, <2>3, <3>1 DEF IsValue
    <3> QED
      BY <3>4, <3>5
  <2>4. g[{}] = 0
    <3>1. f[{}] = 0
      BY <2>1 DEF IsValue
    <3> QED
      BY <3>1
  <2>5. g = [t \in SUBSET (1..m) |->
               IF t = {} THEN 0 ELSE 10 * g[t \ {Max(t)}] + digits[Max(t)]]
    <3>1. \A t \in SUBSET (1..m) :
            g[t] = IF t = {} THEN 0 ELSE 10 * g[t \ {Max(t)}] + digits[Max(t)]
      BY <2>2, <2>3, <2>4
    <3>2. g = [t \in SUBSET (1..m) |-> g[t]]
      OBVIOUS
    <3> HIDE DEF g
    <3> QED
      BY <3>1, <3>2
  <2>6. \E h : IsValue(h, digits, n + 1)
    BY <2>5 DEF IsValue
  <2> QED
    BY <2>6
<1>3. \A n \in Nat : n \in P
  <2> HIDE DEF P
  <2> QED
    BY <1>1, <1>2, Induction
<1> QED
  BY <1>3

LEMMA ValueUnfolded ==
  ASSUME NEW digits \in Seq(Nat)
  PROVE  \E f : /\ Value(digits) = f[1..Len(digits)] /\ f[{}] = 0
               /\ \A k \in Nat : 0 < k /\ k <= Len(digits) =>
                    f[1..k] = 10 * f[1..(k - 1)] + digits[k]
<1> DEFINE n == Len(digits)
           fold == CHOOSE iter : iter =
                     [t \in SUBSET (1..n) |->
                        IF t = {} THEN 0 ELSE 10 * iter[t \ {Max(t)}] + digits[Max(t)]]
<1>1. n \in Nat /\ DOMAIN digits = 1..n
  OBVIOUS
<1>2. Value(digits) = fold[1..n]
  <2>1. Value(digits) =
          LET iter[t \in SUBSET DOMAIN digits] ==
                IF t = {} THEN 0
                ELSE LET x == Max(t) IN 10 * iter[t \ {x}] + digits[x]
          IN  iter[DOMAIN digits]
    BY DEF Value, FoldLeft, MapThenFoldSet
  <2> QED
    BY <1>1, <2>1
<1>3. IsValue(fold, digits, n)
  BY <1>1, ValueExists DEF IsValue
<1> HIDE DEF n, fold
<1>4. fold[{}] = 0
  BY <1>3 DEF IsValue
<1>5. ASSUME NEW k \in Nat, 0 < k, k <= n
      PROVE  fold[1..k] = 10 * fold[1..(k - 1)] + digits[k]
  <2>1. 1..k \in SUBSET (1..n) /\ k \in 1..k
    BY <1>1, <1>5
  <2>2. Max(1..k) = k
    <3>1. Max(1..k) \in 1..k /\ k <= Max(1..k)
      BY <1>1, <2>1, MaxIsGreatest
    <3> QED
      BY <3>1
  <2>3. (1..k) \ {k} = 1..(k - 1)
    BY <1>5
  <2>4. fold[1..k] = 10 * fold[(1..k) \ {Max(1..k)}] + digits[Max(1..k)]
    BY <1>3, <2>1 DEF IsValue
  <2> QED
    BY <2>2, <2>3, <2>4
<1> QED
  BY <1>2, <1>4, <1>5 DEF n

Digit == 0..9

\* The number that the first k of the w digits of n write, and the k-th digit.
Leading(n, w, k) == IF k = w THEN n ELSE n \div TenTo[w - k]
DigitAt(n, w, k) == Leading(n, w, k) % 10
Digits(n, w) == [i \in 1..w |-> DigitAt(n, w, i)]

LEMMA NextDigit ==
  ASSUME NEW n \in Nat, NEW w \in Nat, w <= 5, NEW k \in Nat, 0 < k, k <= w
  PROVE  Leading(n, w, k) = 10 * Leading(n, w, k - 1) + DigitAt(n, w, k)
<1>1. /\ n = 10 * (n \div 10) + (n % 10)
      /\ n \div 10 = 10 * (n \div 100) + ((n \div 10) % 10)
      /\ n \div 100 = 10 * (n \div 1000) + ((n \div 100) % 10)
      /\ n \div 1000 = 10 * (n \div 10000) + ((n \div 1000) % 10)
      /\ n \div 10000 = 10 * (n \div 100000) + ((n \div 10000) % 10)
  OBVIOUS
<1>2. PICK j \in Nat : w - k = j /\ w - (k - 1) = j + 1 /\ j <= 4 /\ k - 1 # w
  OBVIOUS
<1>3. /\ Leading(n, w, k) = IF j = 0 THEN n ELSE n \div TenTo[j]
      /\ Leading(n, w, k - 1) = n \div TenTo[j + 1]
  BY <1>2 DEF Leading
<1>4. j = 0 \/ j = 1 \/ j = 2 \/ j = 3 \/ j = 4
  BY <1>2
<1> QED
  BY <1>1, <1>3, <1>4 DEF DigitAt, TenTo

\* A port in decimal is one to five digits.
LEMMA DecimalDigits ==
  ASSUME NEW n \in Nat, n <= MaxPort
  PROVE  \E w \in Nat : /\ 0 < w /\ w <= 5 /\ n < TenTo[w]
                        /\ Decimal(n) = Digits(n, w)
<1> DEFINE Width(w) == n < TenTo[w] /\ (w = 1 \/ n >= TenTo[w - 1])
           width == CHOOSE w \in 1..5 : Width(w)
<1>1. Width(1) \/ Width(2) \/ Width(3) \/ Width(4) \/ Width(5)
  BY DEF TenTo, MaxPort
<1>2. Decimal(n) = Digits(n, width)
  BY DEF Decimal, Digits, DigitAt, Leading
<1>3. \A w : Width(w) => n < TenTo[w]
  OBVIOUS
<1> HIDE DEF Width
<1>4. \E w \in 1..5 : Width(w)
  BY <1>1
<1>5. width \in 1..5 /\ Width(width)
  BY <1>4
<1> HIDE DEF width
<1>6. width \in Nat /\ 0 < width /\ width <= 5 /\ n < TenTo[width]
  BY <1>3, <1>5
<1> QED
  BY <1>2, <1>5, <1>6

\* The value of those digits is the number.
LEMMA ValueOfNumber ==
  ASSUME NEW n \in Nat, NEW w \in Nat, 0 < w, w <= 5, n < TenTo[w],
         NEW d, d = Digits(n, w)
  PROVE  d \in Seq(Digit) /\ 0 < Len(d) /\ Value(d) = n
<1>1. \A i \in Nat : 0 < i /\ i <= w => d[i] = DigitAt(n, w, i)
  BY DEF Digits
<1>2. Leading(n, w, 0) = 0 /\ Leading(n, w, w) = n
  <2>1. w - 0 = w /\ 0 # w
    OBVIOUS
  <2>2. w = 1 \/ w = 2 \/ w = 3 \/ w = 4 \/ w = 5
    OBVIOUS
  <2>3. n \div TenTo[w] = 0
    BY <2>2 DEF TenTo
  <2> QED
    BY <2>1, <2>3 DEF Leading
<1>3. ASSUME NEW i \in 1..w
      PROVE  DigitAt(n, w, i) \in Digit
  <2>1. \A v \in Nat : v % 10 \in Digit
    BY DEF Digit
  <2>2. Leading(n, w, i) \in Nat
    BY DEF Leading, TenTo
  <2> QED
    BY <2>1, <2>2 DEF DigitAt
<1>4. d \in Seq(Digit) /\ Len(d) = w
  BY <1>3 DEF Digits
<1>5. d \in Seq(Nat)
  BY <1>4 DEF Digit
<1>6. PICK f : /\ Value(d) = f[1..Len(d)] /\ f[{}] = 0
               /\ \A k \in Nat : 0 < k /\ k <= Len(d) =>
                    f[1..k] = 10 * f[1..(k - 1)] + d[k]
  BY <1>5, ValueUnfolded
<1> DEFINE P == {k \in Nat : k <= w => f[1..k] = Leading(n, w, k)}
<1>7. 0 \in P
  <2>1. 1..0 = {}
    OBVIOUS
  <2> QED
    BY <1>2, <1>6, <2>1
<1>8. ASSUME NEW k \in Nat, k \in P
      PROVE  k + 1 \in P
  <2> SUFFICES ASSUME k + 1 <= w
               PROVE  f[1..(k + 1)] = Leading(n, w, k + 1)
    OBVIOUS
  <2>1. k + 1 \in Nat /\ 0 < k + 1 /\ (k + 1) - 1 = k /\ k <= w
    OBVIOUS
  <2>2. f[1..k] = Leading(n, w, k)
    BY <1>8, <2>1
  <2>3. f[1..(k + 1)] = 10 * f[1..k] + d[k + 1]
    BY <1>4, <1>6, <2>1
  <2>4. d[k + 1] = DigitAt(n, w, k + 1)
    BY <1>1, <2>1
  <2>5. Leading(n, w, k + 1) = 10 * Leading(n, w, k) + DigitAt(n, w, k + 1)
    BY <2>1, NextDigit
  <2> QED
    BY <2>2, <2>3, <2>4, <2>5
<1>9. \A k \in Nat : k \in P
  <2> HIDE DEF P
  <2> QED
    BY <1>7, <1>8, Induction
<1> QED
  BY <1>2, <1>4, <1>6, <1>9

LEMMA DecimalIsItsNumber ==
  ASSUME NEW n \in Nat, n <= MaxPort
  PROVE  /\ Decimal(n) \in Seq(Digit) /\ 0 < Len(Decimal(n))
         /\ Value(Decimal(n)) = n
<1>1. PICK w \in Nat : /\ 0 < w /\ w <= 5 /\ n < TenTo[w]
                      /\ Decimal(n) = Digits(n, w)
  BY DecimalDigits
<1> QED
  BY <1>1, ValueOfNumber
-----------------------------------------------------------------------------
\* The first place of s that holds a member of C.
First(s, C) == SelectInSeq(s, LAMBDA c : c \in C)

\* There is none in a text without members of C.
LEMMA FirstOfNone ==
  ASSUME NEW X, NEW C, NEW a \in Seq(X), \A i \in DOMAIN a : a[i] \notin C
  PROVE  First(a, C) = 0
<1>1. {i \in 1..Len(a) : a[i] \in C} = {}
  OBVIOUS
<1> QED
  BY <1>1 DEF First, SelectInSeq

\* It is where a member of C has been put behind such a text.
LEMMA FirstBehind ==
  ASSUME NEW X, NEW C, NEW a \in Seq(X), \A i \in DOMAIN a : a[i] \notin C,
         NEW c \in X, NEW b \in Seq(X), c \in C
  PROVE  First(a \o (<<c>> \o b), C) = Len(a) + 1
<1> DEFINE s == a \o (<<c>> \o b)
           I == {i \in 1..Len(s) : s[i] \in C}
           k == Len(a) + 1
<1>1. /\ s \in Seq(X) /\ k \in Nat /\ 0 < k /\ k <= Len(s) /\ s[k] = c
      /\ \A i \in Nat : 0 < i /\ i < k => s[i] = a[i] /\ i \in DOMAIN a
  OBVIOUS
<1> HIDE DEF s, k
<1>2. k \in I /\ I \in SUBSET Nat
  BY <1>1
<1>3. \A i \in I : k <= i
  BY <1>1
<1>4. First(s, C) = Min(I)
  BY <1>2 DEF First, SelectInSeq
<1> HIDE DEF I
<1>5. Min(I) \in I /\ \A y \in I : Min(I) <= y
  BY <1>2, MinIsLeast
<1>6. Min(I) = k
  <2>1. Min(I) \in Nat /\ Min(I) <= k /\ k <= Min(I)
    BY <1>2, <1>3, <1>5
  <2> QED
    BY <1>1, <2>1
<1> QED
  BY <1>4, <1>6 DEF s, k

\* What is before and behind a character put between two texts.
LEMMA CutInTwo ==
  ASSUME NEW X, NEW a \in Seq(X), NEW b \in Seq(X), NEW c \in X,
         NEW s, s = a \o (<<c>> \o b)
  PROVE  SubSeq(s, 1, (Len(a) + 1) - 1) = a /\ SubSeq(s, Len(a) + 1 + 1, Len(s)) = b
<1>1. /\ s \in Seq(X) /\ Len(s) = Len(a) + 1 + Len(b)
      /\ \A i \in 1..Len(a) : s[i] = a[i]
      /\ \A i \in 1..Len(b) : s[Len(a) + 1 + i] = b[i]
  OBVIOUS
<1>2. SubSeq(s, 1, (Len(a) + 1) - 1) = a
  BY <1>1
<1>3. SubSeq(s, Len(a) + 1 + 1, Len(s)) = b
  BY <1>1
<1> QED
  BY <1>2, <1>3

\* The characters of a port list.
PortChars == Digit \cup {Comma, Dash}

\* atoi reads a port as it was written, whatever comes behind it.
LEMMA AtoiReads ==
  ASSUME NEW n \in Nat, n <= MaxPort
  PROVE  /\ Atoi(Decimal(n)) = n
         /\ \A b \in Seq(PortChars) : Atoi(Decimal(n) \o (<<Dash>> \o b)) = n
<1> DEFINE C == {Comma, Dash}
           d == Decimal(n)
<1>1. d \in Seq(Digit) /\ 0 < Len(d) /\ Value(d) = n
  BY DecimalIsItsNumber
<1>2. d \in Seq(PortChars) /\ Dash \in PortChars /\ Dash \in C
  BY <1>1 DEF PortChars
<1>3. \A i \in DOMAIN d : d[i] \notin C
  <2>1. \A i \in DOMAIN d : d[i] \in Digit
    BY <1>1
  <2>2. \A x \in Digit : x \notin C
    BY DEF Digit, Comma, Dash
  <2> QED
    BY <2>1, <2>2
<1>4. ASSUME NEW t
      PROVE  LeadingDigits(t) = IF First(t, C) = 0 THEN t
                                ELSE SubSeq(t, 1, First(t, C) - 1)
  BY DEF LeadingDigits, First, SelectInSeq
<1> HIDE DEF C, d
<1>5. First(d, C) = 0
  BY <1>2, <1>3, FirstOfNone
<1>6. Atoi(d) = n
  BY <1>1, <1>4, <1>5 DEF Atoi
<1>7. ASSUME NEW b \in Seq(PortChars)
      PROVE  Atoi(d \o (<<Dash>> \o b)) = n
  <2> DEFINE t == d \o (<<Dash>> \o b)
  <2>1. First(t, C) = Len(d) + 1
    BY <1>2, <1>3, FirstBehind
  <2>2. SubSeq(t, 1, (Len(d) + 1) - 1) = d
    BY <1>2, CutInTwo
  <2>3. Len(d) + 1 # 0
    BY <1>1
  <2> HIDE DEF t
  <2>4. LeadingDigits(t) = SubSeq(t, 1, (Len(d) + 1) - 1)
    BY <1>4, <2>1, <2>3
  <2> QED
    BY <1>1, <2>2, <2>4 DEF Atoi, t
<1> QED
  BY <1>6, <1>7 DEF d

\* What ParseRange makes of the text up to the next comma.
Parsed(e) ==
  LET p == First(e, {Dash})
  IN  PortRange(Atoi(e), IF p = 0 THEN Atoi(e) ELSE Atoi(SubSeq(e, p + 1, Len(e))))

\* A range as it was written has no comma, is not empty, and is parsed as it was
\* meant.
LEMMA WrittenParsed ==
  ASSUME NEW r \in PortRanges
  PROVE  /\ Written(r) \in Seq(PortChars) /\ 0 < Len(Written(r))
         /\ \A i \in DOMAIN Written(r) : Written(r)[i] # Comma
         /\ Parsed(Written(r)) = r
<1>1. PICK a \in Nat, b \in Nat : a <= MaxPort /\ b <= MaxPort /\ r = PortRange(a, b)
  <2>1. PICK a \in Ports, b \in Ports : r = PortRange(a, b)
    BY DEF PortRanges
  <2>2. a \in Nat /\ a <= MaxPort /\ b \in Nat /\ b <= MaxPort
    <3>1. MaxPort \in Nat
      BY DEF MaxPort
    <3> QED
      BY <2>1, <3>1, PortsAssumption
  <2> QED
    BY <2>1, <2>2
<1>2. r = [first |-> a, last |-> b] /\ r.first = a /\ r.last = b
  BY <1>1 DEF PortRange
<1> DEFINE da == Decimal(a)
           db == Decimal(b)
<1>3. da \in Seq(Digit) /\ 0 < Len(da) /\ db \in Seq(Digit) /\ 0 < Len(db)
  BY <1>1, DecimalIsItsNumber
<1>4. Atoi(da) = a /\ Atoi(db) = b
  BY <1>1, AtoiReads
<1>5. da \in Seq(PortChars) /\ db \in Seq(PortChars) /\ Dash \in PortChars
  BY <1>3 DEF PortChars
<1>6. Atoi(da \o (<<Dash>> \o db)) = a
  BY <1>1, <1>5, AtoiReads
<1>7. \A x \in Digit : x # Comma /\ x # Dash
  BY DEF Digit, Comma, Dash
<1>8. /\ \A i \in DOMAIN da : da[i] # Comma /\ da[i] \notin {Dash}
      /\ \A i \in DOMAIN db : db[i] # Comma
  <2>1. /\ \A i \in DOMAIN da : da[i] \in Digit
        /\ \A i \in DOMAIN db : db[i] \in Digit
    BY <1>3
  <2> QED
    BY <1>7, <2>1
<1>9. /\ First(da, {Dash}) = 0
      /\ First(da \o (<<Dash>> \o db), {Dash}) = Len(da) + 1
  BY <1>5, <1>8, FirstOfNone, FirstBehind
<1> HIDE DEF da, db
<1>10. CASE a = b
  <2>1. Written(r) = da
    BY <1>2, <1>10 DEF Written, da
  <2>2. Parsed(da) = PortRange(a, b)
    BY <1>4, <1>9, <1>10 DEF Parsed
  <2> QED
    BY <1>1, <1>3, <1>5, <1>8, <2>1, <2>2
<1>11. CASE a # b
  <2> DEFINE e == da \o (<<Dash>> \o db)
  <2>1. Written(r) = e
    <3>1. Written(r) = da \o <<Dash>> \o db
      BY <1>2, <1>11 DEF Written, da, db
    <3> QED
      BY <1>5, <3>1
  <2>2. e \in Seq(PortChars) /\ Len(e) = Len(da) + 1 + Len(db)
    BY <1>5
  <2>3. \A i \in DOMAIN e : e[i] # Comma
    <3>1. \A i \in DOMAIN e : \/ i \in DOMAIN da /\ e[i] = da[i]
                              \/ e[i] = Dash
                              \/ i - Len(da) - 1 \in DOMAIN db /\ e[i] = db[i - Len(da) - 1]
      BY <1>5
    <3>2. Dash # Comma
      BY DEF Dash, Comma
    <3> HIDE DEF e
    <3> QED
      BY <1>8, <3>1, <3>2
  <2>4. SubSeq(e, Len(da) + 1 + 1, Len(e)) = db
    BY <1>5, CutInTwo
  <2>5. Len(da) + 1 # 0
    BY <1>3
  <2>6. First(e, {Dash}) = Len(da) + 1 /\ Atoi(e) = a
    BY <1>6, <1>9
  <2>7. 0 < Len(e)
    BY <1>3, <2>2
  <2> HIDE DEF e
  <2>8. Parsed(e) = PortRange(a, b)
    BY <1>4, <2>4, <2>5, <2>6 DEF Parsed
  <2> QED
    BY <1>1, <2>1, <2>2, <2>3, <2>7, <2>8
<1> QED
  BY <1>10, <1>11
-----------------------------------------------------------------------------
\* What FlattenSeq computes: the first n of the texts ps behind one another.
IsFlat(f, ps, n) ==
  f = [i \in 1..n |-> IF i = 1 THEN ps[i] ELSE f[i - 1] \o ps[i]]

LEMMA FlatGrows ==
  ASSUME NEW ps, NEW n \in Nat, NEW f, IsFlat(f, ps, n)
  PROVE  \E g : IsFlat(g, ps, n + 1)
<1> DEFINE last == IF n + 1 = 1 THEN ps[n + 1] ELSE f[n] \o ps[n + 1]
           g == [i \in 1..(n + 1) |-> IF i = n + 1 THEN last ELSE f[i]]
<1>1. \A i \in 1..n : f[i] = IF i = 1 THEN ps[i] ELSE f[i - 1] \o ps[i]
  BY DEF IsFlat
<1> HIDE DEF last
<1>2. g[n + 1] = last
  OBVIOUS
<1>3. ASSUME NEW i \in 1..n
      PROVE  g[i] = f[i]
  <2>1. i \in 1..(n + 1) /\ i # n + 1
    OBVIOUS
  <2> QED
    BY <2>1
<1>4. g = [i \in 1..(n + 1) |-> g[i]]
  OBVIOUS
<1> HIDE DEF g
<1>5. ASSUME NEW i \in 1..n
      PROVE  g[i] = IF i = 1 THEN ps[i] ELSE g[i - 1] \o ps[i]
  <2>1. i # 1 => i - 1 \in 1..n
    OBVIOUS
  <2>2. g[i] = f[i] /\ (i # 1 => g[i - 1] = f[i - 1])
    BY <1>3, <2>1
  <2> QED
    BY <1>1, <2>2
<1>6. g[n + 1] = IF n + 1 = 1 THEN ps[n + 1] ELSE g[(n + 1) - 1] \o ps[n + 1]
  <2>1. (n + 1) - 1 = n /\ (n + 1 # 1 => n \in 1..n)
    OBVIOUS
  <2>2. n + 1 # 1 => g[n] = f[n]
    BY <1>3, <2>1
  <2> QED
    BY <1>2, <2>1, <2>2 DEF last
<1>7. \A i \in 1..(n + 1) : i \in 1..n \/ i = n + 1
  OBVIOUS
<1>8. \A i \in 1..(n + 1) : g[i] = IF i = 1 THEN ps[i] ELSE g[i - 1] \o ps[i]
  BY <1>5, <1>6, <1>7
<1>9. IsFlat(g, ps, n + 1)
  BY <1>4, <1>8 DEF IsFlat
<1> QED
  BY <1>9

\* FlattenSeq puts one text behind the other.
LEMMA FlattenUnfolded ==
  ASSUME NEW ps, NEW N \in Nat, N = Len(ps), 0 < N
  PROVE  \E f : /\ FlattenSeq(ps) = f[N] /\ f[1] = ps[1]
               /\ \A i \in Nat : 1 < i /\ i <= N => f[i] = f[i - 1] \o ps[i]
<1> DEFINE P == {n \in Nat : \E f : IsFlat(f, ps, n)}
<1>1. 0 \in P
  <2>1. IsFlat([i \in 1..0 |-> 0], ps, 0)
    BY DEF IsFlat
  <2> QED
    BY <2>1
<1>2. ASSUME NEW n \in Nat, n \in P
      PROVE  n + 1 \in P
  BY <1>2, FlatGrows
<1>3. \A n \in Nat : n \in P
  <2> HIDE DEF P
  <2> QED
    BY <1>1, <1>2, Induction
<1> DEFINE flat == CHOOSE f : IsFlat(f, ps, N)
<1>4. FlattenSeq(ps) = flat[N]
  BY DEF FlattenSeq, IsFlat
<1>5. IsFlat(flat, ps, N)
  BY <1>3
<1> HIDE DEF flat
<1>6. \A i \in 1..N : flat[i] = IF i = 1 THEN ps[i] ELSE flat[i - 1] \o ps[i]
  BY <1>5 DEF IsFlat
<1>7. 1 \in 1..N /\ \A i \in Nat : 1 < i /\ i <= N => i \in 1..N /\ i # 1
  OBVIOUS
<1> QED
  BY <1>4, <1>6, <1>7

\* What is left of the list of the first n ranges of rs when some have been taken
\* off it.
IsTails(T, rs, n) ==
  /\ T[n] = <<>>
  /\ \A k \in Nat : k <= n => T[k] \in Seq(PortChars)
  /\ \A k \in Nat : k < n =>
       T[k] = Written(rs[k + 1]) \o (IF k + 1 = n THEN <<>> ELSE <<Comma>> \o T[k + 1])

LEMMA NoTails ==
  ASSUME NEW rs
  PROVE  \E T : IsTails(T, rs, 0)
<1> DEFINE T == [k \in {0} |-> <<>>]
<1>1. T[0] = <<>> /\ <<>> \in Seq(PortChars)
  OBVIOUS
<1>2. \A k \in Nat : k <= 0 => k = 0
  OBVIOUS
<1>3. \A k \in Nat : ~(k < 0)
  OBVIOUS
<1> HIDE DEF T
<1>4. IsTails(T, rs, 0)
  BY <1>1, <1>2, <1>3 DEF IsTails
<1> QED
  BY <1>4

\* With one range more, each tail is longer by that range.
LEMMA TailsGrow ==
  ASSUME NEW rs \in Seq(PortRanges), NEW n \in Nat, n < Len(rs),
         NEW T, IsTails(T, rs, n)
  PROVE  \E U : /\ IsTails(U, rs, n + 1)
               /\ U[0] = IF n = 0 THEN Written(rs[1])
                         ELSE T[0] \o (<<Comma>> \o Written(rs[n + 1]))
<1> DEFINE w == Written(rs[n + 1])
           more == <<Comma>> \o w
           U == [k \in 0..(n + 1) |->
                   IF k < n THEN T[k] \o more ELSE IF k = n THEN w ELSE <<>>]
           At(k) == Written(rs[k + 1])
<1>1. ASSUME NEW k \in Nat, k <= n
      PROVE  At(k) \in Seq(PortChars)
  <2>1. rs[k + 1] \in PortRanges
    BY <1>1
  <2> QED
    BY <2>1, WrittenParsed
<1>2. w \in Seq(PortChars) /\ <<Comma>> \in Seq(PortChars) /\ more \in Seq(PortChars)
  <2>1. w \in Seq(PortChars)
    BY <1>1
  <2>2. Comma \in PortChars
    BY DEF PortChars
  <2> QED
    BY <2>1, <2>2
<1> HIDE DEF w, more, At
<1>3. /\ U[n] = w /\ U[n + 1] = <<>>
      /\ \A k \in Nat : k < n => U[k] = T[k] \o more
  <2>1. n \in 0..(n + 1) /\ n + 1 \in 0..(n + 1) /\ ~(n < n) /\ ~(n + 1 < n) /\ n + 1 # n
    OBVIOUS
  <2>2. \A k \in Nat : k < n => k \in 0..(n + 1)
    OBVIOUS
  <2> QED
    BY <2>1, <2>2
<1> HIDE DEF U
<1>4. \A k \in Nat : k <= n => T[k] \in Seq(PortChars)
  BY DEF IsTails
<1>5. \A k \in Nat : k < n =>
        T[k] = At(k) \o (IF k + 1 = n THEN <<>> ELSE <<Comma>> \o T[k + 1])
  BY DEF IsTails, At
<1>6. ASSUME NEW k \in Nat, k <= n + 1
      PROVE  U[k] \in Seq(PortChars)
  <2>1. k < n \/ k = n \/ k = n + 1
    BY <1>6
  <2>2. CASE k < n
    <3>1. U[k] = T[k] \o more /\ T[k] \in Seq(PortChars)
      BY <1>3, <1>4, <2>2
    <3> QED
      BY <1>2, <3>1
  <2>3. CASE k = n
    BY <1>2, <1>3, <2>3
  <2>4. CASE k = n + 1
    <3>1. U[k] = <<>>
      BY <1>3, <2>4
    <3>2. <<>> \in Seq(PortChars)
      OBVIOUS
    <3> QED
      BY <3>1, <3>2
  <2> QED
    BY <2>1, <2>2, <2>3, <2>4
<1>7. ASSUME NEW k \in Nat, k < n + 1
      PROVE  U[k] = At(k) \o (IF k + 1 = n + 1 THEN <<>> ELSE <<Comma>> \o U[k + 1])
  <2>1. k = n \/ k + 1 = n \/ k + 1 < n
    BY <1>7
  <2>2. At(k) \in Seq(PortChars) /\ (k # n => k < n /\ k + 1 # n + 1)
    BY <1>1, <1>7
  <2>3. CASE k = n
    <3>1. w \o <<>> = w
      BY <1>2
    <3>2. U[k] = w /\ At(k) = w
      BY <1>3, <2>3 DEF At, w
    <3> QED
      BY <2>3, <3>1, <3>2
  <2>4. CASE k + 1 = n
    <3> k < n
      BY <2>4
    <3>1. T[k] = At(k) \o <<>>
      BY <1>5, <2>4
    <3>2. T[k] = At(k)
      BY <2>2, <3>1
    <3>4. U[k] = T[k] \o more
      BY <1>3
    <3>3. U[k + 1] = w /\ k + 1 # n + 1
      BY <1>3, <2>4
    <3> QED
      BY <3>2, <3>3, <3>4 DEF more
  <2>5. CASE k + 1 < n
    <3> DEFINE a == At(k)
               t == T[k + 1]
    <3> k < n /\ k + 1 # n
      BY <2>5
    <3>1. T[k] = a \o (<<Comma>> \o t)
      BY <1>5
    <3>7. U[k] = T[k] \o more
      BY <1>3
    <3>2. U[k + 1] = t \o more /\ t \in Seq(PortChars)
      BY <1>3, <1>4, <2>5
    <3>3. a \in Seq(PortChars)
      BY <2>2
    <3>4. k + 1 # n + 1
      BY <2>5
    <3> HIDE DEF a, t
    <3>5. (a \o (<<Comma>> \o t)) \o more = a \o ((<<Comma>> \o t) \o more)
      BY <1>2, <3>2, <3>3
    <3>6. (<<Comma>> \o t) \o more = <<Comma>> \o (t \o more)
      BY <1>2, <3>2
    <3> QED
      BY <3>1, <3>2, <3>4, <3>5, <3>6, <3>7 DEF a
  <2> QED
    BY <2>1, <2>3, <2>4, <2>5
<1>8. IsTails(U, rs, n + 1)
  BY <1>3, <1>6, <1>7 DEF IsTails, At
<1>9. CASE n = 0
  BY <1>3, <1>8, <1>9 DEF w
<1>10. CASE n # 0
  <2>1. U[0] = T[0] \o more
    BY <1>3, <1>10
  <2> QED
    BY <1>8, <1>10, <2>1 DEF w, more
<1> QED
  BY <1>9, <1>10

\* The list as it was written is what is left when nothing has been taken off.
LEMMA TailsExist ==
  ASSUME NEW rs \in Seq(PortRanges)
  PROVE  \E T : IsTails(T, rs, Len(rs)) /\ T[0] = WrittenList(rs)
<1> DEFINE N == Len(rs)
           ps == [i \in DOMAIN rs |->
                    IF i = 1 THEN Written(rs[i]) ELSE <<Comma>> \o Written(rs[i])]
<1>1. N \in Nat /\ Len(ps) = N /\ WrittenList(rs) = FlattenSeq(ps)
  BY DEF WrittenList
<1>2. CASE N = 0
  <2>1. ps = <<>>
    BY <1>2
  <2>2. WrittenList(rs) = <<>>
    BY <1>1, <2>1 DEF FlattenSeq
  <2>3. PICK T : IsTails(T, rs, 0)
    BY NoTails
  <2>4. T[0] = <<>>
    BY <2>3 DEF IsTails
  <2> QED
    BY <1>2, <2>2, <2>3, <2>4
<1>3. CASE 0 < N
  <2>1. PICK f : /\ FlattenSeq(ps) = f[N] /\ f[1] = ps[1]
                 /\ \A i \in Nat : 1 < i /\ i <= N => f[i] = f[i - 1] \o ps[i]
    BY <1>1, <1>3, FlattenUnfolded
  <2>2. ps[1] = Written(rs[1])
    BY <1>3
  <2>3. \A i \in Nat : 1 < i /\ i <= N => ps[i] = <<Comma>> \o Written(rs[i])
    OBVIOUS
  <2> HIDE DEF ps
  <2> DEFINE P == {n \in Nat : n <= N =>
                     \E T : IsTails(T, rs, n) /\ (n # 0 => T[0] = f[n])}
  <2>4. 0 \in P
    BY NoTails
  <2>5. ASSUME NEW n \in Nat, n \in P
        PROVE  n + 1 \in P
    <3> SUFFICES ASSUME n + 1 <= N
                 PROVE  \E T : IsTails(T, rs, n + 1) /\ T[0] = f[n + 1]
      OBVIOUS
    <3>1. PICK T : IsTails(T, rs, n) /\ (n # 0 => T[0] = f[n])
      BY <1>1, <2>5
    <3>2. PICK U : /\ IsTails(U, rs, n + 1)
                   /\ U[0] = IF n = 0 THEN Written(rs[1])
                             ELSE T[0] \o (<<Comma>> \o Written(rs[n + 1]))
      BY <1>1, <3>1, TailsGrow
    <3>3. U[0] = f[n + 1]
      <4>1. CASE n = 0
        BY <2>1, <2>2, <3>2, <4>1
      <4>2. CASE n # 0
        <5>1. n + 1 \in Nat /\ 1 < n + 1 /\ n + 1 <= N /\ (n + 1) - 1 = n
          BY <4>2
        <5>2. f[n + 1] = f[n] \o ps[n + 1]
          BY <2>1, <5>1
        <5> QED
          BY <2>3, <3>1, <3>2, <4>2, <5>1, <5>2
      <4> QED
        BY <4>1, <4>2
    <3> QED
      BY <3>2, <3>3
  <2>6. \A n \in Nat : n \in P
    <3> HIDE DEF P
    <3> QED
      BY <2>4, <2>5, Induction
  <2>7. \E T : IsTails(T, rs, N) /\ T[0] = f[N]
    BY <1>1, <1>3, <2>6
  <2> QED
    BY <1>1, <2>1, <2>7
<1>4. N = 0 \/ 0 < N
  BY <1>1
<1> HIDE DEF ps
<1> QED
  BY <1>2, <1>3, <1>4

\* Where a character is first: the module asks for the character itself, the
\* lemmas above for a member of a set.
LEMMA FirstOfOne ==
  ASSUME NEW s, NEW c
  PROVE  SelectInSeq(s, LAMBDA x : x = c) = First(s, {c})
<1>1. {i \in 1..Len(s) : s[i] = c} = {i \in 1..Len(s) : s[i] \in {c}}
  OBVIOUS
<1> QED
  BY <1>1 DEF First, SelectInSeq

\* A turn of the loop takes the text up to the comma and leaves what is behind it.
LEMMA ElementAndRest ==
  ASSUME NEW e \in Seq(PortChars), \A i \in DOMAIN e : e[i] # Comma
  PROVE  /\ port_str = e => Element = e /\ Rest = <<>>
         /\ \A t \in Seq(PortChars) :
              port_str = e \o (<<Comma>> \o t) => Element = e /\ Rest = t
<1>1. CommaAt = First(port_str, {Comma})
  BY FirstOfOne DEF CommaAt
<1>2. \A i \in DOMAIN e : e[i] \notin {Comma}
  OBVIOUS
<1>3. ASSUME port_str = e
      PROVE  Element = e /\ Rest = <<>>
  <2>1. First(e, {Comma}) = 0
    BY <1>2, FirstOfNone
  <2>2. CommaAt = 0
    BY <1>1, <1>3, <2>1
  <2> QED
    BY <1>3, <2>2 DEF Element, Rest
<1>4. ASSUME NEW t \in Seq(PortChars), port_str = e \o (<<Comma>> \o t)
      PROVE  Element = e /\ Rest = t
  <2>1. Comma \in PortChars /\ Comma \in {Comma}
    BY DEF PortChars
  <2>2. First(e \o (<<Comma>> \o t), {Comma}) = Len(e) + 1
    BY <1>2, <2>1, FirstBehind
  <2>3. CommaAt = Len(e) + 1 /\ Len(e) + 1 # 0
    BY <1>1, <1>4, <2>2
  <2>4. /\ SubSeq(port_str, 1, (Len(e) + 1) - 1) = e
        /\ SubSeq(port_str, Len(e) + 1 + 1, Len(port_str)) = t
    BY <1>4, <2>1, CutInTwo
  <2> QED
    BY <2>3, <2>4 DEF Element, Rest
<1> QED
  BY <1>3, <1>4

\* The ranges parsed are the first k of the ones the client wrote, and what is
\* left of his list is the tail behind them.
ParsedUpTo(T, k) ==
  /\ k <= Len(wanted)
  /\ ports = SubSeq(wanted, 1, k)
  /\ port_str = T[k]

PortInv ==
  /\ wanted \in Seq(PortRanges)
  /\ portsDone \in BOOLEAN
  /\ ~portsDone => \E T : /\ IsTails(T, wanted, Len(wanted))
                         /\ \E k \in Nat : ParsedUpTo(T, k)
  /\ PortsAsWritten

LEMMA PortInvInit == PortsInit => PortInv
<1> SUFFICES ASSUME PortsInit
             PROVE  PortInv
  OBVIOUS
<1>1. wanted \in Seq(PortRanges)
  <2>1. PICK n \in Nat : wanted \in [1..n -> PortRanges]
    BY PortsAssumption DEF PortsInit, SeqOf
  <2> QED
    BY <2>1
<1>2. PICK T : IsTails(T, wanted, Len(wanted)) /\ T[0] = WrittenList(wanted)
  BY <1>1, TailsExist
<1>3. ParsedUpTo(T, 0)
  <2>1. Len(wanted) \in Nat
    BY <1>1
  <2>2. SubSeq(wanted, 1, 0) = <<>>
    BY <1>1
  <2> QED
    BY <1>2, <2>1, <2>2 DEF PortsInit, ParsedUpTo
<1>4. portsDone = FALSE
  BY DEF PortsInit
<1>5. PortsAsWritten
  BY <1>4 DEF PortsAsWritten
<1> QED
  BY <1>1, <1>2, <1>3, <1>4, <1>5 DEF PortInv

LEMMA PortInvParse == PortInv /\ ParseRange => PortInv'
<1> SUFFICES ASSUME PortInv, ParseRange
             PROVE  PortInv'
  OBVIOUS
<1>1. wanted \in Seq(PortRanges) /\ ~portsDone
  BY DEF PortInv, ParseRange
<1>2. PICK T : \E k \in Nat : IsTails(T, wanted, Len(wanted)) /\ ParsedUpTo(T, k)
  BY <1>1 DEF PortInv
<1> PICK k \in Nat : IsTails(T, wanted, Len(wanted)) /\ ParsedUpTo(T, k)
  BY <1>2
<1> DEFINE N == Len(wanted)
           r == wanted[k + 1]
           w == Written(r)
<1>3. N \in Nat /\ k <= N
  BY <1>1, <1>2 DEF ParsedUpTo
<1>4. k # N
  BY <1>2 DEF ParsedUpTo, IsTails, ParseRange
<1>5. k < N /\ k + 1 \in Nat /\ k + 1 <= N
  BY <1>3, <1>4
<1>6. r \in PortRanges
  BY <1>1, <1>5
<1>7. /\ w \in Seq(PortChars)
      /\ \A i \in DOMAIN w : w[i] # Comma
      /\ Parsed(w) = r
  BY <1>6, WrittenParsed
<1>8. Element = w /\ Rest = T[k + 1]
  <2>1. port_str = w \o (IF k + 1 = N THEN <<>> ELSE <<Comma>> \o T[k + 1])
    BY <1>2, <1>5 DEF ParsedUpTo, IsTails
  <2>2. T[k + 1] \in Seq(PortChars) /\ (k + 1 = N => T[k + 1] = <<>>)
    BY <1>2, <1>5 DEF IsTails
  <2> HIDE DEF w, N
  <2>3. CASE k + 1 = N
    <3>1. port_str = w
      BY <1>7, <2>1, <2>3
    <3> QED
      BY <1>7, <2>2, <2>3, <3>1, ElementAndRest
  <2>4. CASE k + 1 # N
    <3>1. port_str = w \o (<<Comma>> \o T[k + 1])
      BY <2>1, <2>4
    <3> QED
      BY <1>7, <2>2, <3>1, ElementAndRest
  <2> QED
    BY <2>3, <2>4
<1>9. ports' = Append(ports, r)
  <2>1. SelectInSeq(Element, LAMBDA c : c = Dash) = First(Element, {Dash})
    BY FirstOfOne
  <2>2. ports' = Append(ports, Parsed(Element))
    BY <2>1 DEF ParseRange, Parsed
  <2> QED
    BY <1>7, <1>8, <2>2
<1>10. port_str' = T[k + 1] /\ wanted' = wanted /\ portsDone' = portsDone
  BY <1>8 DEF ParseRange
<1>11. ports' = SubSeq(wanted, 1, k + 1)
  <2>1. ports = SubSeq(wanted, 1, k)
    BY <1>2 DEF ParsedUpTo
  <2>2. Append(SubSeq(wanted, 1, k), wanted[k + 1]) = SubSeq(wanted, 1, k + 1)
    BY <1>1, <1>5
  <2> QED
    BY <1>9, <2>1, <2>2
<1>12. ParsedUpTo(T, k + 1)'
  BY <1>5, <1>10, <1>11 DEF ParsedUpTo
<1>13. PortsAsWritten'
  BY <1>1, <1>10 DEF PortsAsWritten
<1> QED
  BY <1>1, <1>2, <1>5, <1>10, <1>12, <1>13 DEF PortInv

LEMMA PortInvReady == PortInv /\ PortsReady => PortInv'
<1> SUFFICES ASSUME PortInv, PortsReady
             PROVE  PortInv'
  OBVIOUS
<1>1. /\ wanted \in Seq(PortRanges) /\ ~portsDone /\ port_str = <<>>
      /\ portsDone' /\ wanted' = wanted
  BY DEF PortInv, PortsReady
<1>2. PICK T : \E k \in Nat : IsTails(T, wanted, Len(wanted)) /\ ParsedUpTo(T, k)
  BY <1>1 DEF PortInv
<1> PICK k \in Nat : IsTails(T, wanted, Len(wanted)) /\ ParsedUpTo(T, k)
  BY <1>2
<1>3. k = Len(wanted)
  <2> SUFFICES ASSUME k # Len(wanted)
               PROVE  FALSE
    OBVIOUS
  <2>1. k < Len(wanted)
    BY <1>1, <1>2 DEF ParsedUpTo
  <2> DEFINE w == Written(wanted[k + 1])
             rest == IF k + 1 = Len(wanted) THEN <<>> ELSE <<Comma>> \o T[k + 1]
  <2>2. w \in Seq(PortChars) /\ 0 < Len(w)
    <3>1. wanted[k + 1] \in PortRanges
      BY <1>1, <2>1
    <3> QED
      BY <3>1, WrittenParsed
  <2>3. rest \in Seq(PortChars)
    <3>1. k + 1 \in Nat /\ k + 1 <= Len(wanted)
      BY <1>1, <2>1
    <3>2. T[k + 1] \in Seq(PortChars)
      BY <1>2, <3>1 DEF IsTails
    <3>3. Comma \in PortChars
      BY DEF PortChars
    <3> QED
      BY <3>2, <3>3
  <2>4. <<>> = w \o rest
    BY <1>1, <1>2, <2>1 DEF ParsedUpTo, IsTails
  <2> HIDE DEF w, rest
  <2>5. Len(w \o rest) = Len(w) + Len(rest) /\ Len(rest) \in Nat /\ Len(w) \in Nat
    BY <2>2, <2>3
  <2>6. Len(w \o rest) = 0
    BY <2>4
  <2> QED
    BY <2>2, <2>5, <2>6
<1>4. ports = wanted
  BY <1>1, <1>2, <1>3 DEF ParsedUpTo
<1>5. PortsAsWritten'
  BY <1>1, <1>4 DEF PortsAsWritten, PortsReady
<1> QED
  BY <1>1, <1>5 DEF PortInv

PortSpec == PortsInit /\ [][PortsNext]_portVars

\* i_silc_gateway_init reads the port list as the client wrote it: every single
\* port and every range, in his order, and SILC's port if he wrote none.
THEOREM PortsAreAsWritten == PortSpec => []PortsAsWritten
<1>1. PortsInit => PortInv
  BY PortInvInit
<1>2. PortInv /\ [PortsNext]_portVars => PortInv'
  <2>1. PortInv /\ UNCHANGED portVars => PortInv'
    BY DEF PortInv, portVars, ParsedUpTo, PortsAsWritten
  <2> QED
    BY <2>1, PortInvParse, PortInvReady DEF PortsNext
<1>3. PortInv => PortsAsWritten
  BY DEF PortInv
<1> QED
  BY <1>1, <1>2, <1>3, PTL DEF PortSpec
=============================================================================
