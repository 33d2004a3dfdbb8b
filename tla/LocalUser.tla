------------------------------ MODULE LocalUser ------------------------------
(***************************************************************************)
(* All gateway connections of one local user.  The library calls back with *)
(* a SilcClientConnection, and i_silc_gateway_connection_lookup_conn looks *)
(* through lu->gateway_connections for the one whose conn is that pointer. *)
(* conn is not reset when the connection is closed, and the library frees  *)
(* closed connections, so that a pointer may be that of another by now.    *)
(*                                                                         *)
(* The clients' messages go out over these connections (OutgoingMessages). *)
(* The core may free a gateway connection that went down before it makes   *)
(* the next connection, or keep it: orderly says that it has kept none and *)
(* has sent no PRESENCE_DEINIT.                                            *)
(***************************************************************************)
EXTENDS OutgoingMessages

CONSTANTS Gateways,   \* gateway connections
          NoGateway,  \* none of them, NULL
          Addresses   \* where the library puts its connections

NULL == 0

ASSUME LocalUserAssumption ==
  /\ NoGateway \notin Gateways
  /\ NULL \notin Addresses

VARIABLES
  present,   \* lu->gateway_connections
  before,    \* the order of that array
  conn,      \* conn[g]: silc_gwconn->conn
  link,      \* the gateways the core holds to be connected
  live,      \* live[a]: whose connection is at address a, or NoGateway
  via,       \* via[m]: the gateway connection message m was given to
  carrier,   \* carrier[m]: the one whose library connection took it
  heard,     \* the last callback: whose connection, and whose it was taken for
  orderly    \* the core has kept to its order

gatewayVars == <<present, before, conn, link, live, heard, orderly>>
vars == <<state, gatewayVars, via, carrier>>

TypeOK ==
  /\ MessagesTypeOK
  /\ present \in SUBSET Gateways /\ before \in SUBSET (Gateways \X Gateways)
  /\ conn \in [Gateways -> Addresses \cup {NULL}]
  /\ link \in SUBSET Gateways
  /\ live \in [Addresses -> Gateways \cup {NoGateway}]
  /\ via \in [Messages -> Gateways \cup {NoGateway}]
  /\ carrier \in [Messages -> Gateways \cup {NoGateway}]
  /\ heard \in (Gateways \cup {NoGateway}) \X (Gateways \cup {NoGateway})
  /\ orderly \in BOOLEAN

Init ==
  /\ MessagesInit
  /\ present = {} /\ before = {}
  /\ conn = [g \in Gateways |-> NULL]
  /\ link = {}
  /\ live = [a \in Addresses |-> NoGateway]
  /\ via = [m \in Messages |-> NoGateway] /\ carrier = via
  /\ heard = <<NoGateway, NoGateway>> /\ orderly = TRUE

\* Whose connection the pointer a is, if it is that of any.
Owner(a) == IF a = NULL THEN NoGateway ELSE live[a]
-----------------------------------------------------------------------------
(* Connecting and closing *)

GatewayConnectionInit(g) ==
  /\ g \notin present
  /\ present' = present \cup {g}
  /\ before' = before \cup (present \X {g})
  /\ conn' = [conn EXCEPT ![g] = NULL]
  /\ UNCHANGED <<state, link, live, via, carrier, heard, orderly>>

ConnKept(g, a) == IF conn[g] = NULL THEN a ELSE conn[g]
NewConn(g, a) == a

GatewayConnected(g, a) ==
  /\ g \in present /\ g \notin link /\ live[a] = NoGateway
  /\ conn' = [conn EXCEPT ![g] = NewConn(g, a)]
  /\ live' = [live EXCEPT ![a] = g]
  /\ link' = link \cup {g}
  /\ orderly' = (orderly /\ \A h \in present \ (link \cup {g}) :
                               conn[h] = NULL)
  /\ UNCHANGED <<state, present, before, via, carrier, heard>>

\* silc_client_close_connection: whatever is at that address is closed, and the
\* messages that wait there are forgotten.
Close(a) ==
  IF Owner(a) = NoGateway
  THEN UNCHANGED <<live, state>>
  ELSE /\ live' = [live EXCEPT ![a] = NoGateway]
       /\ Forget({m \in Messages : carrier[m] = Owner(a)})

GatewayDisconnected(g) ==
  /\ g \in link
  /\ Close(conn[g])
  /\ link' = link \ {g}
  /\ UNCHANGED <<present, before, conn, via, carrier, heard, orderly>>

\* i_silc_client_deinit closes conn again and frees the client, with the
\* connection it may still have.
GatewayConnectionDeinit(g) ==
  /\ g \in present
  /\ Close(conn[g])
  /\ link' = link \ {g}
  /\ present' = present \ {g}
  /\ before' = {p \in before : g \notin {p[1], p[2]}}
  /\ UNCHANGED <<conn, via, carrier, heard, orderly>>

\* EVENT_PRESENCE_DEINIT runs the handler of GATEWAY_DISCONNECTED.
PresenceDeinit(g) ==
  /\ g \in present /\ orderly' = FALSE
  /\ Close(conn[g])
  /\ UNCHANGED <<present, before, conn, link, via, carrier, heard>>
-----------------------------------------------------------------------------
(* Callbacks *)

\* i_silc_gateway_connection_lookup_conn: the first whose conn it is.
LookupUp(a) == link
LookupConn(a) == {g \in present : conn[g] = a}

First(gs) == CHOOSE g \in gs : \A h \in gs \ {g} : <<g, h>> \in before

Found(a) ==
  IF LookupConn(a) = {} THEN NoGateway ELSE First(LookupConn(a))

\* private_message, and every other operation, takes the event for the gateway
\* connection it found.
PrivateMessage(g) ==
  /\ \E a \in Addresses : live[a] = g /\ heard' = <<g, Found(a)>>
  /\ UNCHANGED <<state, present, before, conn, link, live, via, carrier, orderly>>
-----------------------------------------------------------------------------
(* Messages *)

\* i_silc_message_send asks for the network and the presence of the command, not
\* whether conn is up.
MessageSend(g, m) ==
  /\ g \in present /\ via[m] = NoGateway
  /\ via' = [via EXCEPT ![m] = g]
  /\ \/ MessageNotFound(m) /\ UNCHANGED carrier
     \/ /\ carrier' = [carrier EXCEPT ![m] = Owner(conn[g])]
        /\ IF Owner(conn[g]) = NoGateway
           THEN MessageToNothing(m)
           ELSE MessageSendChannel(m) \/ MessageSendPrivate(m)
  /\ UNCHANGED gatewayVars

\* The library calls back when it is run, by the timer of a link that is up.
Callback(m) ==
  /\ carrier[m] \in link
  /\ WhoisCallback(m)
  /\ UNCHANGED <<gatewayVars, via, carrier>>

Next ==
  \/ \E g \in Gateways :
       \/ GatewayConnectionInit(g) \/ GatewayDisconnected(g)
       \/ GatewayConnectionDeinit(g) \/ PresenceDeinit(g) \/ PrivateMessage(g)
       \/ \E a \in Addresses : GatewayConnected(g, a)
       \/ \E m \in Messages : MessageSend(g, m)
  \/ \E m \in Messages : Callback(m)

Spec == Init /\ [][Next]_vars

\* While it is run, the library gets an answer to a WHOIS or lets it time out, and
\* calls back.
FairSpec == Spec /\ \A m \in Messages : WF_vars(Callback(m))
-----------------------------------------------------------------------------
(* Properties *)

\* While the core keeps to its order, every callback is taken for the gateway
\* connection it is of.
CallbackFindsOwner == orderly => heard[1] = heard[2]

\* In that order nobody's connection is closed under him: a gateway the core
\* holds to be connected has its own library connection at conn.
OwnConnectionHolds == orderly => \A g \in link : live[conn[g]] = g

\* In that order no client's message goes over the connection of another gateway,
\* though it may be given to one that is down and still holds a pointer.
CarriedByOwn ==
  orderly => \A m \in Messages : carrier[m] \in {NoGateway, via[m]}

\* A private message that waits for its WHOIS is sent or given up in the end, as
\* long as the process lives, whatever becomes of its gateway meanwhile.
MessageSettles ==
  \A m \in Messages : (state[m] = "whois") ~> (state[m] # "whois")
=============================================================================
