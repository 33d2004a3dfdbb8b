-------------------------------- MODULE Motd --------------------------------
(***************************************************************************)
(* SILC_NOTIFY_TYPE_MOTD (clientops-notify.c): the text is copied behind a *)
(* "0" into a buffer and taken apart with strtok, one gateway_motd event   *)
(* for each line.  The buffer has MotdSize + 1 bytes, 2049 in the source.  *)
(***************************************************************************)
EXTENDS Integers, SequencesExt

CONSTANTS Letters,     \* the characters of a line
          LineEnd,     \* '\n'
          Zero,        \* '0'
          MotdSize     \* how many characters strncat takes at most

ASSUME MotdAssumption == MotdSize \in Nat /\ LineEnd \notin Letters \cup {Zero}

VARIABLES text,      \* what the server sent
          motd,      \* the buffer, up to its NUL
          pos,       \* how much of it strtok has gone through
          lines,     \* the data of the gateway_motd events sent
          motdDone   \* gateway_motd_end was sent

motdVars == <<text, motd, pos, lines, motdDone>>

\* memcpy, then strncat.
MotdCopy(t) == <<Zero>> \o SubSeq(t, 1, Min({Len(t), MotdSize}))

MotdInit ==
  /\ text \in SeqOf(Letters \cup {LineEnd}, MotdSize + 1)
  /\ motd = MotdCopy(text)
  /\ pos = 0 /\ lines = <<>> /\ motdDone = FALSE

\* strtok: the next character that is not, and the first after k that is, the
\* end of a line; behind the last if there is none.
LineStart ==
  SelectInSubSeq(motd, pos + 1, Len(motd), LAMBDA c : c # LineEnd)
LineStopEarly(k) ==
  LET stop == SelectInSubSeq(motd, k, Len(motd), LAMBDA c : c = LineEnd)
  IN  IF stop = 0 THEN Len(motd) ELSE stop
LineStop(k) ==
  LET stop == SelectInSubSeq(motd, k, Len(motd), LAMBDA c : c = LineEnd)
  IN  IF stop = 0 THEN Len(motd) + 1 ELSE stop

MotdLine ==
  /\ ~motdDone /\ LineStart # 0
  /\ lines' = Append(lines, SubSeq(motd, LineStart, LineStop(LineStart) - 1))
  /\ pos' = LineStop(LineStart)
  /\ UNCHANGED <<text, motd, motdDone>>

MotdEnd ==
  /\ ~motdDone /\ LineStart = 0
  /\ motdDone' = TRUE
  /\ UNCHANGED <<text, motd, pos, lines>>

MotdNext == MotdLine \/ MotdEnd
-----------------------------------------------------------------------------
\* The first characters of the lines of s that are not empty.
LineHeads(s) ==
  {k \in DOMAIN s : s[k] # LineEnd /\ (k = 1 \/ s[k - 1] = LineEnd)}

\* l is the line of s that begins at k, up to the next line end or the end of s.
IsLineAt(l, s, k) ==
  /\ l = SubSeq(s, k, k + Len(l) - 1) /\ LineEnd \notin ToSet(l)
  /\ k + Len(l) = Len(s) + 1 \/ s[k + Len(l)] = LineEnd

\* ls are the lines of s that begin at the given places, in their order.
AreLinesAt(ls, s, places) ==
  \E head \in [DOMAIN ls -> places] :
    /\ places = {head[i] : i \in DOMAIN ls}
    /\ \A i, j \in DOMAIN ls : i < j => head[i] < head[j]
    /\ \A i \in DOMAIN ls : IsLineAt(ls[i], s, head[i])

\* A text that fits the buffer is sent whole, line by line, an empty line left
\* out and a 0 put before the first.
MotdSentInLines ==
  motdDone /\ Len(text) < MotdSize =>
    LET said == <<Zero>> \o text IN AreLinesAt(lines, said, LineHeads(said))
=============================================================================
