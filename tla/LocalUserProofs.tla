--------------------------- MODULE LocalUserProofs ---------------------------
(***************************************************************************)
(* Why the lookup by connection pointer is sound while the core keeps to   *)
(* its order: every pointer some gateway connection holds is either that   *)
(* of its own live connection or of an address where nothing lives.  So is *)
(* the sending of messages over conn, which nobody tests.                  *)
(***************************************************************************)
EXTENDS LocalUser, TLAPS

\* The types of what the pointers are about.
PointerTypes ==
  /\ present \in SUBSET Gateways /\ link \in SUBSET Gateways
  /\ conn \in [Gateways -> Addresses \cup {NULL}]
  /\ live \in [Addresses -> Gateways \cup {NoGateway}]
  /\ orderly \in BOOLEAN

\* A gateway that is up holds the pointer of its own connection, and a connection
\* that lives is that of a gateway that is up.
LinksLive ==
  /\ \A g \in link : g \in present /\ conn[g] \in Addresses /\ live[conn[g]] = g
  /\ \A a \in Addresses : live[a] # NoGateway =>
       live[a] \in link /\ conn[live[a]] = a

\* What a gateway connection that is down still points at is dead.
StaleDead ==
  \A g \in present \ link : conn[g] # NULL => live[conn[g]] = NoGateway

Owned == LinksLive /\ StaleDead

PointersInv == PointerTypes /\ (orderly => Owned) /\ CallbackFindsOwner

\* Closing address a leaves nothing there.
LEMMA CloseDead ==
  ASSUME PointerTypes, NEW a \in Addresses \cup {NULL}, Close(a)
  PROVE  /\ live' \in [Addresses -> Gateways \cup {NoGateway}]
         /\ \A b \in Addresses : live'[b] = IF b = a THEN NoGateway ELSE live[b]
BY LocalUserAssumption DEF PointerTypes, Close, Owner

\* Closing what g points at, as g goes down.
LEMMA DownOwned ==
  ASSUME PointerTypes, Owned, NEW g \in present, Close(conn[g]),
         conn' = conn, link' = link \ {g}, present' \in {present, present \ {g}}
  PROVE  Owned'
<1> USE LocalUserAssumption
<1>1. conn[g] \in Addresses \cup {NULL}
  BY DEF PointerTypes
<1>2. \A b \in Addresses : live'[b] = IF b = conn[g] THEN NoGateway ELSE live[b]
  BY <1>1, CloseDead
<1>3. \A h \in link' : conn[h] # conn[g]
  <2> SUFFICES ASSUME NEW h \in link', conn[h] = conn[g]
               PROVE  FALSE
    OBVIOUS
  <2>1. h \in link /\ h # g /\ live[conn[g]] = h /\ conn[g] \in Addresses
    BY DEF Owned, LinksLive
  <2>2. g \notin link
    BY <2>1 DEF Owned, LinksLive
  <2> QED
    BY <2>1, <2>2 DEF Owned, StaleDead, PointerTypes
<1>4. LinksLive'
  BY <1>2, <1>3 DEF Owned, LinksLive, PointerTypes
<1>5. StaleDead'
  BY <1>1, <1>2 DEF Owned, StaleDead, PointerTypes
<1> QED
  BY <1>4, <1>5 DEF Owned

LEMMA ConnectedOwned ==
  ASSUME PointerTypes, Owned, NEW g \in Gateways, NEW a \in Addresses,
         GatewayConnected(g, a), orderly'
  PROVE  Owned'
<1> USE LocalUserAssumption
<1>1. /\ g \in present /\ g \notin link /\ live[a] = NoGateway
      /\ conn' = [conn EXCEPT ![g] = a] /\ live' = [live EXCEPT ![a] = g]
      /\ link' = link \cup {g} /\ present' = present
      /\ \A h \in present \ (link \cup {g}) : conn[h] = NULL
  BY DEF GatewayConnected, NewConn
<1>2. /\ \A h \in Gateways : conn'[h] = IF h = g THEN a ELSE conn[h]
      /\ \A b \in Addresses : live'[b] = IF b = a THEN g ELSE live[b]
  BY <1>1 DEF PointerTypes
<1>3. LinksLive'
  BY <1>1, <1>2 DEF PointerTypes, Owned, LinksLive
<1>4. StaleDead'
  BY <1>1, <1>2 DEF PointerTypes, Owned, StaleDead
<1> QED
  BY <1>3, <1>4 DEF Owned

\* The lookup finds the gateway connection whose connection lives at a.
LEMMA LookupSound ==
  ASSUME PointerTypes, Owned, NEW a \in Addresses, live[a] # NoGateway
  PROVE  Found(a) = live[a]
<1> USE LocalUserAssumption
<1>1. live[a] \in link /\ conn[live[a]] = a /\ live[a] \in present
  BY DEF Owned, LinksLive
<1>2. ASSUME NEW h \in present, conn[h] = a
      PROVE  h = live[a]
  <2>1. h \in link
    BY <1>2 DEF Owned, StaleDead
  <2> QED
    BY <1>2, <2>1 DEF Owned, LinksLive
<1>3. LookupConn(a) = {live[a]}
  BY <1>1, <1>2 DEF LookupConn
<1> QED
  BY <1>3 DEF Found, First

LEMMA PointersStep == PointersInv /\ [Next]_vars => PointersInv'
<1> SUFFICES ASSUME PointersInv, [Next]_vars
             PROVE  PointersInv'
  OBVIOUS
<1> USE LocalUserAssumption DEF PointersInv
<1>1. CASE UNCHANGED <<present, conn, link, live, heard, orderly>>
  BY <1>1 DEF PointerTypes, Owned, LinksLive, StaleDead, CallbackFindsOwner
<1>2. ASSUME NEW g \in Gateways, GatewayConnectionInit(g)
      PROVE  PointersInv'
  BY <1>2 DEF GatewayConnectionInit, PointerTypes, Owned, LinksLive, StaleDead,
              CallbackFindsOwner
<1>3. ASSUME NEW g \in Gateways, NEW a \in Addresses, GatewayConnected(g, a)
      PROVE  PointersInv'
  <2>1. PointerTypes'
    BY <1>3 DEF GatewayConnected, NewConn, PointerTypes
  <2>2. orderly' => orderly /\ UNCHANGED heard
    BY <1>3 DEF GatewayConnected
  <2> QED
    BY <1>3, <2>1, <2>2, ConnectedOwned DEF CallbackFindsOwner
<1>4. ASSUME NEW g \in Gateways, GatewayDisconnected(g)
      PROVE  PointersInv'
  <2>1. /\ Close(conn[g]) /\ link' = link \ {g} /\ g \in link
        /\ UNCHANGED <<present, conn, heard, orderly>>
    BY <1>4 DEF GatewayDisconnected
  <2>2. PointerTypes'
    BY <2>1, CloseDead DEF PointerTypes
  <2>3. orderly => Owned'
    BY <2>1, DownOwned DEF Owned, LinksLive
  <2> QED
    BY <2>1, <2>2, <2>3 DEF CallbackFindsOwner
<1>5. ASSUME NEW g \in Gateways, GatewayConnectionDeinit(g)
      PROVE  PointersInv'
  <2>1. /\ Close(conn[g]) /\ link' = link \ {g} /\ g \in present
        /\ present' = present \ {g} /\ UNCHANGED <<conn, heard, orderly>>
    BY <1>5 DEF GatewayConnectionDeinit
  <2>2. PointerTypes'
    BY <2>1, CloseDead DEF PointerTypes
  <2>3. orderly => Owned'
    BY <2>1, DownOwned
  <2> QED
    BY <2>1, <2>2, <2>3 DEF CallbackFindsOwner
<1>6. ASSUME NEW g \in Gateways, PresenceDeinit(g)
      PROVE  PointersInv'
  <2>1. PointerTypes'
    BY <1>6, CloseDead DEF PresenceDeinit, PointerTypes
  <2> QED
    BY <1>6, <2>1 DEF PresenceDeinit, CallbackFindsOwner
<1>7. ASSUME NEW g \in Gateways, PrivateMessage(g)
      PROVE  PointersInv'
  <2>1. PICK a \in Addresses : live[a] = g /\ heard' = <<g, Found(a)>>
    BY <1>7 DEF PrivateMessage
  <2>2. UNCHANGED <<present, conn, link, live, orderly>>
    BY <1>7 DEF PrivateMessage
  <2>3. orderly => Found(a) = g
    BY <2>1, LookupSound
  <2> QED
    BY <2>1, <2>2, <2>3
       DEF PointerTypes, Owned, LinksLive, StaleDead, CallbackFindsOwner
<1> QED
  BY <1>1, <1>2, <1>3, <1>4, <1>5, <1>6, <1>7
     DEF Next, vars, gatewayVars, MessageSend, Callback

LEMMA PointersCorrect == Spec => []PointersInv
<1>1. Init => PointersInv
  BY LocalUserAssumption
     DEF Init, PointersInv, PointerTypes, Owned, LinksLive, StaleDead,
         CallbackFindsOwner
<1> QED
  BY <1>1, PointersStep, PTL DEF Spec

\* While the core keeps to its order, every callback is taken for the gateway
\* connection it is of, however many there are and wherever the library puts
\* their connections.
THEOREM CallbacksFindOwner == Spec => []CallbackFindsOwner
<1>1. PointersInv => CallbackFindsOwner
  BY DEF PointersInv
<1> QED
  BY <1>1, PointersCorrect, PTL

\* In that order no gateway connection that goes closes the connection of
\* another.
THEOREM OwnConnectionsHold == Spec => []OwnConnectionHolds
<1>1. PointersInv => OwnConnectionHolds
  BY DEF PointersInv, Owned, LinksLive, OwnConnectionHolds
<1> QED
  BY <1>1, PointersCorrect, PTL
-----------------------------------------------------------------------------
\* Of some of the gateway connections in the array, one comes first.
ArrayOrdered ==
  \A gs \in SUBSET present : gs # {} =>
    \E g \in gs : \A h \in gs \ {g} : <<g, h>> \in before

\* So the loop of i_silc_gateway_connection_lookup_conn, if any connection has the
\* pointer, ends at one that has.
LEMMA FoundInArray ==
  ASSUME ArrayOrdered, NEW a
  PROVE  Found(a) = NoGateway \/ Found(a) \in LookupConn(a)
<1>1. CASE LookupConn(a) # {}
  <2>1. LookupConn(a) \in SUBSET present
    BY DEF LookupConn
  <2>2. \E g \in LookupConn(a) : \A h \in LookupConn(a) \ {g} : <<g, h>> \in before
    BY <1>1, <2>1 DEF ArrayOrdered
  <2>3. First(LookupConn(a)) \in LookupConn(a)
    BY <2>2 DEF First
  <2> QED
    BY <1>1, <2>3 DEF Found
<1> QED
  BY <1>1 DEF Found

\* A connection that is made comes last, and one that goes leaves the order of
\* the others.
LEMMA ArrayStep ==
  ASSUME ArrayOrdered, [Next]_vars
  PROVE  ArrayOrdered'
<1>1. CASE UNCHANGED <<present, before>>
  BY <1>1 DEF ArrayOrdered
<1>2. ASSUME NEW g \in Gateways, GatewayConnectionInit(g)
      PROVE  ArrayOrdered'
  <2>1. /\ g \notin present /\ present' = present \cup {g}
        /\ before' = before \cup (present \X {g})
    BY <1>2 DEF GatewayConnectionInit
  <2> SUFFICES ASSUME NEW gs \in SUBSET present', gs # {}
               PROVE  \E f \in gs : \A h \in gs \ {f} : <<f, h>> \in before'
    BY DEF ArrayOrdered
  <2>2. CASE gs \ {g} = {}
    BY <2>2
  <2>3. CASE gs \ {g} # {}
    <3>1. gs \ {g} \in SUBSET present
      BY <2>1
    <3>2. PICK f \in gs \ {g} : \A h \in (gs \ {g}) \ {f} : <<f, h>> \in before
      BY <2>3, <3>1 DEF ArrayOrdered
    <3>3. <<f, g>> \in before'
      BY <2>1, <3>1, <3>2
    <3>4. \A h \in gs \ {f} : <<f, h>> \in before'
      BY <2>1, <3>2, <3>3
    <3> QED
      BY <3>2, <3>4
  <2> QED
    BY <2>2, <2>3
<1>3. ASSUME NEW g \in Gateways, GatewayConnectionDeinit(g)
      PROVE  ArrayOrdered'
  <2>1. /\ present' = present \ {g}
        /\ before' = {p \in before : g \notin {p[1], p[2]}}
    BY <1>3 DEF GatewayConnectionDeinit
  <2> SUFFICES ASSUME NEW gs \in SUBSET present', gs # {}
               PROVE  \E f \in gs : \A h \in gs \ {f} : <<f, h>> \in before'
    BY DEF ArrayOrdered
  <2>2. gs \in SUBSET present /\ g \notin gs
    BY <2>1
  <2>3. PICK f \in gs : \A h \in gs \ {f} : <<f, h>> \in before
    BY <2>2 DEF ArrayOrdered
  <2>4. \A h \in gs \ {f} : <<f, h>> \in before'
    BY <2>1, <2>2, <2>3
  <2> QED
    BY <2>4
<1> QED
  BY <1>1, <1>2, <1>3
     DEF Next, vars, gatewayVars, GatewayDisconnected, PresenceDeinit,
         PrivateMessage, GatewayConnected, MessageSend, Callback

LEMMA MessageStep ==
  ASSUME MessagesTypeOK, [Next]_vars
  PROVE  MessagesTypeOK'
<1> USE DEF MessagesTypeOK, States
<1>1. CASE UNCHANGED state
  BY <1>1
<1>2. ASSUME NEW a, Close(a)
      PROVE  MessagesTypeOK'
  BY <1>2 DEF Close, Forget
<1>3. ASSUME NEW m \in Messages, NEW s \in States, Become(m, s)
      PROVE  MessagesTypeOK'
  BY <1>3 DEF Become
<1>4. ASSUME NEW g \in Gateways, NEW m \in Messages, MessageSend(g, m)
      PROVE  MessagesTypeOK'
  BY <1>3, <1>4 DEF MessageSend, MessageNotFound, MessageToNothing,
                    MessageSendChannel, MessageSendPrivate
<1>5. ASSUME NEW m \in Messages, Callback(m)
      PROVE  MessagesTypeOK'
  BY <1>3, <1>5 DEF Callback, WhoisCallback, GiveUp
<1>6. ASSUME NEW g \in Gateways,
             GatewayDisconnected(g) \/ GatewayConnectionDeinit(g) \/ PresenceDeinit(g)
      PROVE  MessagesTypeOK'
  BY <1>2, <1>6
     DEF GatewayDisconnected, GatewayConnectionDeinit, PresenceDeinit
<1> QED
  BY <1>1, <1>4, <1>5, <1>6
     DEF Next, vars, GatewayConnectionInit, GatewayConnected, PrivateMessage

\* The types of the rest: the array's order, whom messages were given to and whose
\* connection took them, and what the last callback found.
OtherTypes ==
  /\ before \in SUBSET (Gateways \X Gateways)
  /\ via \in [Messages -> Gateways \cup {NoGateway}]
  /\ carrier \in [Messages -> Gateways \cup {NoGateway}]
  /\ heard \in (Gateways \cup {NoGateway}) \X (Gateways \cup {NoGateway})

LEMMA OtherStep ==
  ASSUME PointerTypes, ArrayOrdered, OtherTypes, [Next]_vars
  PROVE  OtherTypes'
<1>1. CASE UNCHANGED <<before, via, carrier, heard>>
  BY <1>1 DEF OtherTypes
<1>2. ASSUME NEW g \in Gateways, GatewayConnectionInit(g)
      PROVE  OtherTypes'
  <2>1. present \X {g} \subseteq Gateways \X Gateways
    BY DEF PointerTypes
  <2> QED
    BY <1>2, <2>1 DEF GatewayConnectionInit, OtherTypes
<1>3. ASSUME NEW g \in Gateways, GatewayConnectionDeinit(g)
      PROVE  OtherTypes'
  BY <1>3 DEF GatewayConnectionDeinit, OtherTypes
<1>4. ASSUME NEW g \in Gateways, PrivateMessage(g)
      PROVE  OtherTypes'
  <2>1. PICK a \in Addresses : heard' = <<g, Found(a)>>
    BY <1>4 DEF PrivateMessage
  <2>2. Found(a) \in Gateways \cup {NoGateway}
    BY FoundInArray DEF LookupConn, PointerTypes
  <2> QED
    BY <1>4, <2>1, <2>2 DEF PrivateMessage, OtherTypes
<1>5. ASSUME NEW g \in Gateways, NEW m \in Messages, MessageSend(g, m)
      PROVE  OtherTypes'
  <2>1. Owner(conn[g]) \in Gateways \cup {NoGateway}
    BY DEF Owner, PointerTypes
  <2>2. /\ via' = [via EXCEPT ![m] = g] /\ UNCHANGED <<before, heard>>
        /\ carrier' = carrier \/ carrier' = [carrier EXCEPT ![m] = Owner(conn[g])]
    BY <1>5 DEF MessageSend, gatewayVars
  <2> QED
    BY <2>1, <2>2 DEF OtherTypes
<1> QED
  BY <1>1, <1>2, <1>3, <1>4, <1>5
     DEF Next, vars, gatewayVars, GatewayDisconnected, PresenceDeinit,
         GatewayConnected, Callback

\* Every state of the user's gateway connections and messages is well typed, in
\* any order of the core's events: in particular the lookup by connection pointer,
\* whatever it finds, finds a gateway connection that is in the array or none.
THEOREM LocalUserTypeCorrect == Spec => []TypeOK
<1> DEFINE Inv == ArrayOrdered /\ MessagesTypeOK /\ OtherTypes
<1>1. Init => Inv
  <2> SUFFICES ASSUME Init
               PROVE  Inv
    OBVIOUS
  <2>1. ArrayOrdered
    BY DEF Init, ArrayOrdered
  <2>2. MessagesTypeOK
    BY DEF Init, MessagesInit, MessagesTypeOK, States
  <2>3. OtherTypes
    BY DEF Init, OtherTypes
  <2> QED
    BY <2>1, <2>2, <2>3
<1>2. PointersInv /\ Inv /\ [Next]_vars => Inv'
  BY ArrayStep, MessageStep, OtherStep DEF PointersInv
<1>3. PointersInv /\ Inv => TypeOK
  BY DEF PointersInv, PointerTypes, OtherTypes, TypeOK
<1> HIDE DEF Inv
<1> QED
  BY <1>1, <1>2, <1>3, PointersCorrect, PTL DEF Spec
-----------------------------------------------------------------------------
\* A message given to gateway connection g is taken by g's own library connection,
\* or by none: what g points at, when it is down, is dead.
LEMMA CarriedStep ==
  ASSUME TypeOK, PointersInv, CarriedByOwn, [Next]_vars
  PROVE  CarriedByOwn'
<1>1. CASE (orderly' => orderly) /\ UNCHANGED <<via, carrier>>
  BY <1>1 DEF CarriedByOwn
<1>2. ASSUME NEW g \in Gateways, NEW m \in Messages, MessageSend(g, m)
      PROVE  CarriedByOwn'
  <2>1. /\ g \in present /\ via[m] = NoGateway /\ orderly' = orderly
        /\ via' = [via EXCEPT ![m] = g]
        /\ carrier' = carrier \/ carrier' = [carrier EXCEPT ![m] = Owner(conn[g])]
    BY <1>2 DEF MessageSend, gatewayVars
  <2>2. orderly => Owner(conn[g]) \in {NoGateway, g}
    BY <2>1 DEF PointersInv, PointerTypes, Owned, LinksLive, StaleDead, Owner
  <2>3. orderly => carrier[m] = NoGateway
    BY <2>1 DEF CarriedByOwn
  <2>4. ASSUME orderly, NEW k \in Messages
        PROVE  carrier'[k] \in {NoGateway, via'[k]}
    <3>1. CASE k = m
      BY <2>1, <2>2, <2>3, <2>4, <3>1 DEF TypeOK
    <3>2. CASE k # m
      BY <2>1, <2>4, <3>2 DEF TypeOK, CarriedByOwn
    <3> QED
      BY <3>1, <3>2
  <2> QED
    BY <2>1, <2>4 DEF CarriedByOwn
<1>3. ASSUME NEW g \in Gateways, NEW a \in Addresses, GatewayConnected(g, a)
      PROVE  (orderly' => orderly) /\ UNCHANGED <<via, carrier>>
  BY <1>3 DEF GatewayConnected
<1> QED
  BY <1>1, <1>2, <1>3
     DEF Next, vars, gatewayVars, GatewayConnectionInit, GatewayDisconnected,
         GatewayConnectionDeinit, PresenceDeinit, PrivateMessage, Callback

\* While the core keeps to its order, no message goes over the connection of
\* another gateway than the one it was given to, though i_silc_message_send uses
\* conn without a look at whether the gateway is up.
THEOREM MessagesKeepToTheirGateway == Spec => []CarriedByOwn
<1>1. Init => CarriedByOwn
  BY DEF Init, CarriedByOwn
<1>2. TypeOK /\ PointersInv /\ CarriedByOwn /\ [Next]_vars => CarriedByOwn'
  BY CarriedStep
<1> QED
  BY <1>1, <1>2, LocalUserTypeCorrect, PointersCorrect, PTL DEF Spec
=============================================================================
