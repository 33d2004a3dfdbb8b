----------------------- MODULE GatewayConnectionProofs -----------------------
(***************************************************************************)
(* Type correctness of GatewayConnection, and of what it promises: while   *)
(* the core keeps to its order, one timer and one descriptor per link and  *)
(* a bound on how often a library connection is closed; and, unless the    *)
(* server refuses a nickname, a login with a nickname that was asked for,  *)
(* and one of those names for as long as that connection lives.            *)
(***************************************************************************)
EXTENDS GatewayConnection, TLAPS

\* The list of unanswered commands a closed link leaves.
LEMMA NoNicks == <<>> \in Seq(Names)
OBVIOUS

\* The assignments of the handlers stay within their types: one step per
\* handler.
LEMMA GatewayTypeStep == TypeOK /\ [Next]_vars => TypeOK'
<1> SUFFICES ASSUME TypeOK, [Next]_vars
             PROVE  TypeOK'
  OBVIOUS
<1> USE GatewayAssumption
<1>0. hasPassword' \in BOOLEAN
  BY DEF Next, vars, TypeOK
<1>1. CASE GatewayConnected
  <2>1. /\ made < MaxConns /\ made' = made + 1 /\ conn' = made + 1
        /\ timers' = timers \cup {made + 1} /\ timeout' = made + 1
    BY <1>1 DEF GatewayConnected, NewConn
  <2>2. /\ made' \in 0..MaxConns /\ conn' \in 0..made' /\ timeout' \in 0..made'
        /\ timers' \in SUBSET (1..MaxConns)
    BY <2>1 DEF TypeOK
  <2> QED
    BY <1>0, <1>1, <2>2 DEF TypeOK, GatewayConnected, Stages
<1>2. ASSUME HandleDisconnected
      PROVE  /\ closes' \in [0..MaxConns -> Nat]
             /\ timers' \in SUBSET (1..MaxConns)
             /\ fdOpen' \in BOOLEAN /\ stage' \in Stages
             /\ nicks' \in Seq(Names)
             /\ fault' \in {"none", "timeout_remove_116", "scheduler_84", "change_request_67"}
  <2>1. closes' \in [0..MaxConns -> Nat]
    BY <1>2 DEF TypeOK, HandleDisconnected, CloseConnection
  <2>2. /\ timers' \in SUBSET (1..MaxConns)
        /\ fault' \in {"none", "timeout_remove_116", "scheduler_84", "change_request_67"}
    BY <1>2 DEF TypeOK, TimerFaults, HandleDisconnected, RemoveTimer
  <2> QED
    BY <1>2, <2>1, <2>2, NoNicks DEF HandleDisconnected, CloseConnection, Stages
<1>3. CASE GatewayDisconnected
  BY <1>0, <1>2, <1>3 DEF TypeOK, TimerFaults, GatewayDisconnected, HandleDisconnected
<1>4. CASE PresenceDeinit
  BY <1>0, <1>2, <1>4 DEF TypeOK, TimerFaults, PresenceDeinit, HandleDisconnected
<1>5. CASE GatewayConnectionDeinit
  <2>1. closes' \in [0..MaxConns -> Nat]
    BY <1>5 DEF TypeOK, GatewayConnectionDeinit
  <2> QED
    BY <1>0, <1>5, <2>1, NoNicks DEF TypeOK, GatewayConnectionDeinit, Stages
<1>6. CASE SchedulerAfterDeinit
  BY <1>0, <1>6 DEF TypeOK, TimerFaults, SchedulerAfterDeinit, linkVars, nickVars
<1>7. CASE KeyExchanged \/ VerifyPublicKey
  BY <1>0, <1>7 DEF TypeOK, KeyExchanged, VerifyPublicKey, Advance, Stages, linkVars,
              nickVars
<1>8. ASSUME NEW m \in AuthMethods, GetAuthMethod(m)
      PROVE  TypeOK'
  BY <1>0, <1>8 DEF TypeOK, GetAuthMethod, Advance, Stages, linkVars, nickVars
<1>9. CASE NotifyNone
  BY <1>0, <1>9 DEF TypeOK, NotifyNone, SendNick, linkVars
<1>10. ASSUME NEW n \in Names, ChangeRequest(n)
       PROVE  TypeOK'
  <2>1. nicks' \in Seq(Names) /\ asked' \in SUBSET Names
    <3>1. \/ nicks' = Append(nicks, n) /\ asked' = asked \cup {n}
          \/ UNCHANGED <<nicks, asked>>
      BY <1>10 DEF ChangeRequest, SendNick
    <3>2. nicks \in Seq(Names) /\ asked \in SUBSET Names
      BY DEF TypeOK
    <3>3. Append(nicks, n) \in Seq(Names)
      BY <3>2
    <3> QED
      BY <3>1, <3>2, <3>3
  <2>2. fault' = fault \/ fault' = "change_request_67"
    BY <1>10 DEF ChangeRequest, linkVars
  <2>3. UNCHANGED <<gw, link, fdOpen, conn, made, closes, timers, timeout>>
    BY <1>10 DEF ChangeRequest, linkVars
  <2> QED
    BY <1>0, <1>10, <2>1, <2>2, <2>3 DEF TypeOK, ChangeRequest
<1>11. CASE NickReply
  <2>1. Head(nicks) \in Names /\ nicks' \in Seq(Names)
    BY <1>11 DEF TypeOK, NickReply
  <2>2. nickname' \in Names
    BY <1>11, <2>1 DEF TypeOK, NickReply, NickReplyOK, NickReplyError
  <2>3. ReplyOtherId \/ \E n \in Names : ReplyMyId(n)
    BY <1>11, <2>1 DEF NickReply, NickReplyOK, NickReplyError
  <2>4. /\ presenceName' \in Names
        /\ connected' \in BOOLEAN /\ loggedIn' \in Nat
    <3>1. CASE ReplyOtherId
      BY <3>1 DEF TypeOK, ReplyOtherId, LogIn
    <3>2. CASE \E n \in Names : ReplyMyId(n)
      BY <3>2 DEF TypeOK, ReplyMyId
    <3> QED
      BY <2>3, <3>1, <3>2
  <2>5. refused' \in BOOLEAN
    BY <1>11 DEF TypeOK, NickReply, NickReplyOK, NickReplyError
  <2> QED
    BY <1>0, <1>11, <2>1, <2>2, <2>4, <2>5 DEF TypeOK, NickReply, linkVars
<1>12. CASE UNCHANGED vars
  BY <1>12 DEF TypeOK, vars, linkVars, nickVars
<1> QED
  BY <1>1, <1>3, <1>4, <1>5, <1>6, <1>7, <1>8, <1>9, <1>10, <1>11, <1>12
     DEF Next, Step

\* Every state of a gateway connection is well typed.
THEOREM GatewayTypeCorrect == Spec => []TypeOK
<1>1. Init => TypeOK
  <2> SUFFICES ASSUME Init
               PROVE  TypeOK
    OBVIOUS
  <2>1. closes \in [0..MaxConns -> Nat]
    BY DEF Init
  <2>2. nicks \in Seq(Names)
    BY NoNicks DEF Init
  <2> QED
    BY GatewayAssumption, <2>1, <2>2 DEF Init, TypeOK, Stages
<1> QED
  BY <1>1, GatewayTypeStep, PTL DEF Spec
-----------------------------------------------------------------------------
\* In the core's order the link is up only on a live object, with its timer
\* and its descriptor.
OrderInv == (gw = "freed" => ~link) /\ HeldPerLink

LEMMA OrderFrame ==
  ASSUME OrderInv, UNCHANGED <<gw, link, fdOpen, timers, timeout, orderly, fault>>
  PROVE  OrderInv'
BY DEF OrderInv, HeldPerLink

\* While the core keeps to its order, icecap holds one timer and the
\* descriptor of a link while it is up and neither otherwise, over any number of
\* reconnects; no timer is removed twice, and none runs a client that was freed.
THEOREM OneTimerPerLink == Spec => []HeldPerLink
<1>1. Init => OrderInv
  BY DEF Init, OrderInv, HeldPerLink, TimerFaults
<1>2. OrderInv /\ [Next]_vars => OrderInv'
  <2> SUFFICES ASSUME OrderInv, [Next]_vars
               PROVE  OrderInv'
    OBVIOUS
  <2>1. CASE GatewayConnected
    BY <2>1 DEF GatewayConnected, Alive, OrderInv, HeldPerLink, TimerFaults
  <2>2. CASE GatewayDisconnected
    BY <2>2 DEF GatewayDisconnected, HandleDisconnected, CloseConnection, RemoveTimer,
                Alive, OrderInv, HeldPerLink, TimerFaults
  <2>3. CASE PresenceDeinit
    BY <2>3 DEF PresenceDeinit, HandleDisconnected, Alive, OrderInv, HeldPerLink, TimerFaults
  <2>4. CASE GatewayConnectionDeinit
    <3>1. orderly' => orderly /\ ~link
      BY <2>4, Zenon DEF GatewayConnectionDeinit
    <3>2. link' = FALSE /\ UNCHANGED <<fdOpen, timers, fault>>
      BY <2>4 DEF GatewayConnectionDeinit
    <3> QED
      BY <3>1, <3>2 DEF OrderInv, HeldPerLink
  <2>5. CASE SchedulerAfterDeinit
    BY <2>5 DEF SchedulerAfterDeinit, linkVars, OrderInv, HeldPerLink, TimerFaults
  <2>6. ASSUME NEW n \in Names, ChangeRequest(n)
        PROVE  OrderInv'
    <3>1. /\ UNCHANGED <<gw, link, fdOpen, timers, timeout, orderly>>
          /\ fault' = fault \/ fault' = "change_request_67"
      BY <2>6 DEF ChangeRequest, linkVars
    <3> QED
      BY <3>1 DEF OrderInv, HeldPerLink, TimerFaults
  <2> QED
    BY <2>1, <2>2, <2>3, <2>4, <2>5, <2>6, OrderFrame
       DEF Next, Step, vars, linkVars, KeyExchanged, VerifyPublicKey, GetAuthMethod,
           Advance, NotifyNone, NickReply
<1>3. OrderInv => HeldPerLink
  BY DEF OrderInv
<1> QED
  BY <1>1, <1>2, <1>3, PTL DEF Spec
-----------------------------------------------------------------------------
\* The connections that will be made have not been closed.
NotYetClosed == \A k \in 0..MaxConns : k > made => closes[k] = 0

\* What the bound on closing rests on: a link has a connection that was made, and
\* a connection still to be made has not been closed.
CloseInv == (link => conn > 0) /\ NotYetClosed /\ CloseBound

LEMMA CloseFrame ==
  ASSUME CloseInv, UNCHANGED <<gw, link, conn, made, closes, orderly>>
  PROVE  CloseInv'
BY DEF CloseInv, NotYetClosed, CloseBound

\* In the core's order, a library connection is closed once when its link goes
\* down and at most once more, by the deinit of the gateway connection.
THEOREM ClosedAtMostTwice == Spec => []CloseBound
<1>1. Init => CloseInv
  BY GatewayAssumption DEF Init, CloseInv, NotYetClosed, CloseBound
<1>2. TypeOK /\ CloseInv /\ [Next]_vars => CloseInv'
  <2> SUFFICES ASSUME TypeOK, CloseInv, [Next]_vars
               PROVE  CloseInv'
    OBVIOUS
  <2> USE GatewayAssumption
  <2>1. CASE GatewayConnected
    <3>1. /\ made < MaxConns /\ made' = made + 1 /\ conn' = made + 1
          /\ closes' = closes /\ link' = TRUE /\ ~link
          /\ gw = "up" /\ gw' = gw /\ orderly' = orderly
      BY <2>1 DEF GatewayConnected, NewConn, Alive
    <3> QED
      BY <3>1 DEF TypeOK, CloseInv, NotYetClosed, CloseBound
  <2>2. CASE GatewayDisconnected
    <3>1. /\ closes' = [closes EXCEPT ![conn] = @ + 1] /\ link /\ link' = FALSE
          /\ made' = made /\ conn' = conn /\ orderly' = orderly
          /\ gw = "up" /\ gw' = gw
      BY <2>2 DEF GatewayDisconnected, HandleDisconnected, CloseConnection, Alive
    <3> QED
      BY <3>1 DEF TypeOK, CloseInv, NotYetClosed, CloseBound
  <2>3. CASE PresenceDeinit
    <3>1. /\ closes' = [closes EXCEPT ![conn] = @ + 1] /\ link' = link
          /\ made' = made /\ conn' = conn /\ orderly' = FALSE
      BY <2>3 DEF PresenceDeinit, HandleDisconnected, CloseConnection
    <3> QED
      BY <3>1 DEF TypeOK, CloseInv, NotYetClosed, CloseBound
  <2>4. CASE GatewayConnectionDeinit
    <3>1. /\ closes' = [closes EXCEPT ![conn] = @ + 1] /\ link' = FALSE
          /\ made' = made /\ conn' = conn /\ orderly' = (orderly /\ ~link)
          /\ gw = "up" /\ gw' = "freed"
      BY <2>4 DEF GatewayConnectionDeinit, Alive
    <3> QED
      BY <3>1 DEF TypeOK, CloseInv, NotYetClosed, CloseBound
  <2> QED
    BY <2>1, <2>2, <2>3, <2>4, CloseFrame
       DEF Next, Step, vars, linkVars, SchedulerAfterDeinit, KeyExchanged,
           VerifyPublicKey, GetAuthMethod, Advance, NotifyNone, ChangeRequest,
           NickReply
<1>3. CloseInv => CloseBound
  BY DEF CloseInv
<1> QED
  BY <1>1, <1>2, <1>3, GatewayTypeCorrect, PTL DEF Spec
-----------------------------------------------------------------------------
\* The nicknames the plugin asks for by itself on this connection.
OwnNames == IF relinked THEN {} ELSE {LPName}

\* What ConnectedNick rests on: every NICK on its way is for a name a client asked
\* for or, on the connection of the login, for the local presence's.
AskedOnly == \A i \in DOMAIN nicks : nicks[i] \in asked \cup OwnNames

NickInv == (relinked => connected) /\ AskedOnly /\ ConnectedNick

\* A handler that leaves the login and the nickname alone.
LEMMA NickFrame ==
  ASSUME NickInv, UNCHANGED <<link, nickVars>>
  PROVE  NickInv'
BY DEF NickInv, AskedOnly, OwnNames, ConnectedNick, nickVars

\* The link goes down, or a NICK is sent: one step per handler.
LEMMA NickSent ==
  ASSUME TypeOK, NickInv, NEW n \in Names,
         GatewayDisconnected \/ PresenceDeinit \/ GatewayConnectionDeinit
           \/ NotifyNone \/ ChangeRequest(n)
  PROVE  NickInv'
<1> USE DEF NickInv, AskedOnly, OwnNames, ConnectedNick, TypeOK
<1>1. CASE GatewayDisconnected \/ PresenceDeinit \/ GatewayConnectionDeinit
  <2>1. /\ nicks' = <<>> /\ (link' => link)
        /\ UNCHANGED <<connected, nickname, refused, asked, relinked>>
    BY <1>1 DEF GatewayDisconnected, PresenceDeinit, HandleDisconnected,
                GatewayConnectionDeinit
  <2> QED
    BY <2>1
<1>2. CASE NotifyNone
  <2>1. /\ ~connected /\ nicks' = Append(nicks, LPName)
        /\ UNCHANGED <<link, connected, nickname, refused, asked, relinked>>
    BY <1>2 DEF NotifyNone, NeedsNick, SendNick, linkVars
  <2>2. LPName \in OwnNames
    BY <2>1
  <2> QED
    BY <2>1, <2>2
<1>3. CASE ChangeRequest(n)
  <2>1. /\ \/ nicks' = Append(nicks, n) /\ asked' = asked \cup {n}
           \/ UNCHANGED <<nicks, asked>>
        /\ UNCHANGED <<link, connected, nickname, refused, relinked>>
    BY <1>3 DEF ChangeRequest, SendNick, linkVars
  <2>2. CASE UNCHANGED <<nicks, asked>>
    BY <2>1, <2>2
  <2>3. CASE nicks' = Append(nicks, n) /\ asked' = asked \cup {n}
    <3>1. AskedOnly'
      BY <2>1, <2>3
    <3>2. ConnectedNick'
      BY <2>1, <2>3
    <3> QED
      BY <2>1, <3>1, <3>2
  <2> QED
    BY <2>1, <2>2, <2>3
<1> QED
  BY <1>1, <1>2, <1>3

\* A reply: it is to the oldest NICK on its way.
LEMMA NickAnswered ==
  ASSUME TypeOK, NickInv, NickReply
  PROVE  NickInv'
<1>1. /\ nicks # <<>> /\ nicks' = Tail(nicks)
      /\ UNCHANGED <<link, asked, relinked>>
  BY DEF NickReply, linkVars
<1>2. connected => connected'
  BY DEF NickReply, NickReplyOK, NickReplyError, ReplyOtherId, ReplyMyId, LogIn
<1>3. AskedOnly'
  <2>1. \A i \in DOMAIN nicks' : i + 1 \in DOMAIN nicks /\ nicks'[i] = nicks[i + 1]
    BY <1>1 DEF TypeOK
  <2> QED
    BY <1>1, <2>1 DEF NickInv, AskedOnly, OwnNames
<1>4. ConnectedNick'
  <2>1. CASE NickReplyError
    BY <2>1 DEF NickReplyError, ConnectedNick
  <2>2. CASE NickReplyOK
    <3>1. Head(nicks) = nicks[1] /\ 1 \in DOMAIN nicks
      BY <1>1 DEF TypeOK
    <3>2. nickname' \in asked \cup OwnNames
      BY <2>2, <3>1 DEF NickReplyOK, NickInv, AskedOnly
    <3> QED
      BY <1>1, <3>2 DEF ConnectedNick, OwnNames
  <2> QED
    BY <2>1, <2>2 DEF NickReply
<1> QED
  BY <1>1, <1>2, <1>3, <1>4 DEF NickInv

LEMMA NickStep == TypeOK /\ NickInv /\ [Next]_vars => NickInv'
<1> SUFFICES ASSUME TypeOK, NickInv, [Next]_vars
             PROVE  NickInv'
  OBVIOUS
<1>1. CASE GatewayConnected
  <2>1. /\ nicks' = <<>> /\ nickname' = UserName /\ relinked' = connected
        /\ connected' = connected
    BY <1>1 DEF GatewayConnected
  <2> QED
    BY <2>1 DEF NickInv, AskedOnly, ConnectedNick
<1>2. UserName \in Names
  BY GatewayAssumption
<1> QED
  BY <1>1, <1>2, NickSent, NickAnswered, NickFrame
     DEF Next, Step, vars, linkVars, SchedulerAfterDeinit, KeyExchanged,
         VerifyPublicKey, GetAuthMethod, Advance

LEMMA NickInvariant == Spec => [](TypeOK /\ NickInv)
<1>1. Init => NickInv
  BY DEF Init, NickInv, AskedOnly, ConnectedNick
<1> QED
  BY <1>1, NickStep, GatewayTypeCorrect, PTL DEF Spec

\* Whatever NICKs the server's notifications and the clients cause to be sent,
\* before the login and after it, in whatever order they are answered and links
\* are lost: unless one was refused, a connected gateway has the nickname asked
\* for last or, on a connection made after the login, still the user name.
THEOREM ConnectedUnderAskedName == Spec => []ConnectedNick
<1>1. NickInv => ConnectedNick
  BY DEF NickInv
<1> QED
  BY <1>1, NickInvariant, PTL

\* LoggedInWithNick, which a refused NICK violates, holds of every other login:
\* it is reported when we have the local presence's name, or one a client asked
\* for on the connection before the login.
THEOREM LoggedInUnlessRefused ==
  Spec => [][loggedIn' # loggedIn /\ ~refused' =>
               stage = "open" /\ nickname' \in {LPName} \cup asked]_vars
<1>1. TypeOK /\ NickInv /\ [Next]_vars =>
        [loggedIn' # loggedIn /\ ~refused' =>
           stage = "open" /\ nickname' \in {LPName} \cup asked]_vars
  <2> SUFFICES ASSUME TypeOK, NickInv, [Next]_vars, loggedIn' # loggedIn, ~refused'
               PROVE  stage = "open" /\ nickname' \in {LPName} \cup asked
    OBVIOUS
  <2>1. NickReply
    BY DEF Next, Step, vars, nickVars, GatewayConnected, GatewayDisconnected,
           PresenceDeinit, HandleDisconnected, GatewayConnectionDeinit,
           SchedulerAfterDeinit, KeyExchanged, VerifyPublicKey, GetAuthMethod,
           Advance, NotifyNone, ChangeRequest
  <2>2. stage = "open" /\ nicks # <<>> /\ NickReplyOK
    BY <2>1 DEF NickReply, NickReplyError
  <2>3. nickname' = Head(nicks)
    BY <2>2 DEF NickReplyOK
  <2>4. Head(nicks) = nicks[1] /\ 1 \in DOMAIN nicks
    BY <2>2 DEF TypeOK
  <2> QED
    BY <2>2, <2>3, <2>4 DEF NickInv, AskedOnly, OwnNames
<1> QED
  BY <1>1, NickInvariant, PTL DEF Spec
=============================================================================
