------------------------------ MODULE PortList ------------------------------
(***************************************************************************)
(* i_silc_gateway_init (silc-gateway.c) makes a gateway from the port list *)
(* and the password of an event: ranges first-last or single ports between *)
(* commas, SILC's own port if there is none.                               *)
(***************************************************************************)
EXTENDS Integers, SequencesExt

CONSTANTS Ports,      \* the ports clients name
          MaxRanges   \* bound: the ranges of a list

MaxPort == 65535

ASSUME PortsAssumption == Ports \subseteq 0..MaxPort /\ MaxRanges \in Nat

Comma == 44  \* in ASCII; a digit stands for itself
Dash == 45
silc_default_port == 706

\* How a client writes a port, in decimal, and a list of ranges.
TenTo == <<10, 100, 1000, 10000, 100000>>
Decimal(n) ==
  LET width == CHOOSE w \in 1..5 : n < TenTo[w] /\ (w = 1 \/ n >= TenTo[w - 1])
  IN  [i \in 1..width |->
        (IF i = width THEN n ELSE n \div TenTo[width - i]) % 10]
Written(r) ==
  IF r.first = r.last THEN Decimal(r.first)
  ELSE Decimal(r.first) \o <<Dash>> \o Decimal(r.last)
WrittenList(rs) ==
  FlattenSeq([i \in DOMAIN rs |->
    IF i = 1 THEN Written(rs[i]) ELSE <<Comma>> \o Written(rs[i])])

PortRange(first, last) == [first |-> first, last |-> last]
PortRanges == {PortRange(a, b) : a \in Ports, b \in Ports}

VARIABLES wanted,    \* the ranges the client has in mind
          port_str,  \* what is left of the list he wrote, "*list" and on
          ports,     \* the ranges parsed
          portsDone

portVars == <<wanted, port_str, ports, portsDone>>

PortsInit ==
  /\ wanted \in SeqOf(PortRanges, MaxRanges)
  /\ port_str = WrittenList(wanted)
  /\ ports = <<>> /\ portsDone = FALSE

\* atoi: the digits at the front, 0 if there are none.
LeadingDigits(s) ==
  LET n == SelectInSeq(s, LAMBDA c : c \in {Comma, Dash})
  IN  IF n = 0 THEN s ELSE SubSeq(s, 1, n - 1)
AtoiReversed(s) == FoldRight(LAMBDA d, v : 10 * v + d, LeadingDigits(s), 0)
Value(digits) == FoldLeft(LAMBDA v, d : 10 * v + d, 0, digits)
Atoi(s) == Value(LeadingDigits(s))

\* t_strsplit: the list up to the next comma, and what follows it.
CommaAt == SelectInSeq(port_str, LAMBDA c : c = Comma)
Element == IF CommaAt = 0 THEN port_str ELSE SubSeq(port_str, 1, CommaAt - 1)
Rest == IF CommaAt = 0 THEN <<>> ELSE SubSeq(port_str, CommaAt + 1, Len(port_str))

\* One turn of the loop; without a dash last is first.
ParseRange ==
  /\ ~portsDone /\ port_str # <<>>
  /\ LET p == SelectInSeq(Element, LAMBDA c : c = Dash)
         first == Atoi(Element)
     IN  ports' = Append(ports, PortRange(first,
                    IF p = 0 THEN first
                    ELSE Atoi(SubSeq(Element, p + 1, Len(Element)))))
  /\ port_str' = Rest
  /\ UNCHANGED <<wanted, portsDone>>

PortsReady ==
  /\ ~portsDone /\ port_str = <<>>
  /\ ports' = IF ports = <<>>
              THEN <<PortRange(silc_default_port, silc_default_port)>> ELSE ports
  /\ portsDone' = TRUE
  /\ UNCHANGED <<wanted, port_str>>

PortsNext == ParseRange \/ PortsReady
-----------------------------------------------------------------------------
\* The ranges parsed are the ones the client wrote, or the default if he wrote
\* none.
PortsAsWritten ==
  portsDone => ports = IF wanted = <<>>
                       THEN <<PortRange(silc_default_port, silc_default_port)>>
                       ELSE wanted
=============================================================================
