-------------------------- MODULE GatewayConnection --------------------------
(***************************************************************************)
(* One gateway connection from i_silc_gateway_connection_init to its       *)
(* deinit: the library connection and the scheduler timer that the         *)
(* CONNECTED, DISCONNECTED and PRESENCE_DEINIT events make and remove      *)
(* (silc-gateway-connection.c, silc-client.c), the handshake callbacks,    *)
(* and the login, in which the plugin sends NICK itself and reports        *)
(* gateway_logged_in when the reply comes (clientops.c, the NONE           *)
(* notification of clientops-notify.c, silc-presence.c).                   *)
(*                                                                         *)
(* What icecap's core, the library and the server do is modelled from how  *)
(* the plugin uses them.  The core may break its usual order: orderly says *)
(* that it has not.                                                        *)
(***************************************************************************)
EXTENDS Naturals, Sequences

CONSTANTS Names,        \* nicknames
          LPName,       \* the local presence's name, the nickname asked for
          UserName,     \* the nickname the server gives until NICK is sent
          MaxConns,     \* bound: how often the core connects
          MaxNicks      \* bound: NICK commands without a reply

ASSUME GatewayAssumption ==
  /\ LPName \in Names /\ UserName \in Names
  /\ MaxConns \in Nat /\ MaxNicks \in Nat

VARIABLES
  hasPassword,   \* the gateway was created with a password
  gw,            \* "up", or "freed" after deinit
  link,          \* the core has reported CONNECTED and not DISCONNECTED
  fdOpen,        \* gwconn->fd is a descriptor, not -1
  conn,          \* silc_gwconn->conn: 0 is NULL, k the k-th connection made
  made,          \* library connections made so far
  closes,        \* closes[k]: calls of silc_client_close_connection with k
  timers,        \* the timers the main loop holds, named by their connection
  timeout,       \* silc_gwconn->timeout
  stage,         \* how far the library's handshake is
  connected,     \* silc_gwconn->connected
  nicks,         \* the names of the NICK commands sent, not yet answered
  nickname,      \* our nickname at the server
  presenceName,  \* the name of the local presence's presence
  loggedIn,      \* gateway_logged_in events sent
  refused,       \* the server has refused a nickname
  asked,         \* the nicknames clients asked for on this connection
  relinked,      \* connected was set already when this connection was made
  orderly,       \* no event of the core has come out of order
  fault          \* where the process died, or "none"

linkVars == <<gw, link, fdOpen, conn, made, closes, timers, timeout>>
nickVars == <<connected, nicks, nickname, presenceName, loggedIn, refused, asked,
              relinked>>
vars == <<hasPassword, linkVars, stage, nickVars, orderly, fault>>

Stages == {"down", "key_exchange", "verifying", "authentication",
           "no_password", "open"}

\* A timer removed that the main loop does not hold; the library run on a client
\* that was freed.
TimerFaults == {"timeout_remove_116", "scheduler_84"}

TypeOK ==
  /\ hasPassword \in BOOLEAN
  /\ gw \in {"up", "freed"}
  /\ link \in BOOLEAN /\ fdOpen \in BOOLEAN
  /\ made \in 0..MaxConns /\ conn \in 0..made /\ timeout \in 0..made
  /\ closes \in [0..MaxConns -> Nat]
  /\ timers \in SUBSET (1..MaxConns)
  /\ stage \in Stages
  /\ connected \in BOOLEAN
  /\ nicks \in Seq(Names)
  /\ nickname \in Names /\ presenceName \in Names
  /\ loggedIn \in Nat /\ refused \in BOOLEAN
  /\ asked \in SUBSET Names /\ relinked \in BOOLEAN
  /\ orderly \in BOOLEAN
  /\ fault \in TimerFaults \cup {"none", "change_request_67"}

\* i_silc_gateway_connection_init: i_new leaves conn and timeout NULL.
Init ==
  /\ hasPassword \in BOOLEAN
  /\ gw = "up" /\ link = FALSE /\ fdOpen = FALSE
  /\ conn = 0 /\ made = 0 /\ closes = [k \in 0..MaxConns |-> 0]
  /\ timers = {} /\ timeout = 0
  /\ stage = "down"
  /\ connected = FALSE /\ nicks = <<>>
  /\ nickname = UserName /\ presenceName = LPName
  /\ loggedIn = 0 /\ refused = FALSE
  /\ asked = {} /\ relinked = FALSE
  /\ orderly = TRUE /\ fault = "none"

Alive == gw = "up" /\ fault = "none"
-----------------------------------------------------------------------------
(* Connecting and closing *)

NewConnDropped == conn
NewConn == made + 1     \* silc_client_add_connection

\* event_gateway_connected: a library connection, its key exchange, a timer.
GatewayConnected ==
  /\ Alive /\ ~link /\ made < MaxConns
  /\ link' = TRUE /\ fdOpen' = TRUE
  /\ made' = made + 1 /\ conn' = NewConn
  /\ timers' = timers \cup {made + 1} /\ timeout' = made + 1
  /\ stage' = "key_exchange"
  /\ nicks' = <<>> /\ nickname' = UserName
  /\ asked' = {} /\ relinked' = connected
  /\ UNCHANGED <<gw, closes, connected, presenceName, loggedIn, refused, orderly,
                 fault>>

\* i_silc_client_close_connection, the wrapper that also gives up the socket.
CloseConnection == closes' = [closes EXCEPT ![conn] = @ + 1] /\ fdOpen' = FALSE

\* timeout_remove of a timer the main loop does not hold.
RemoveTimerForgotten == UNCHANGED <<timers, fault>>
RemoveTimer ==
  IF timeout \in timers
  THEN timers' = timers \ {timeout} /\ UNCHANGED fault
  ELSE fault' = "timeout_remove_116" /\ UNCHANGED timers

\* event_gateway_disconnected.  Neither conn, timeout nor connected is reset.
HandleDisconnected ==
  /\ CloseConnection
  /\ RemoveTimer
  /\ stage' = "down" /\ nicks' = <<>>
  /\ UNCHANGED <<gw, conn, made, timeout, connected, nickname, presenceName,
                 loggedIn, refused, asked, relinked>>

GatewayDisconnected ==
  /\ Alive /\ link
  /\ link' = FALSE
  /\ HandleDisconnected
  /\ UNCHANGED orderly

\* The same handler is bound to EVENT_PRESENCE_DEINIT: it closes a connection
\* the core goes on using, or one that is closed already or was never made.
PresenceDeinit ==
  /\ Alive
  /\ orderly' = FALSE
  /\ HandleDisconnected
  /\ UNCHANGED link

\* i_silc_gateway_connection_deinit: i_silc_client_deinit closes conn again and
\* frees the client; no timer is removed.
GatewayConnectionDeinit ==
  /\ Alive
  /\ gw' = "freed"
  /\ closes' = [closes EXCEPT ![conn] = @ + 1]
  /\ link' = FALSE /\ stage' = "down" /\ nicks' = <<>>
  /\ orderly' = (orderly /\ ~link)
  /\ UNCHANGED <<fdOpen, conn, made, timers, timeout, connected, nickname,
                 presenceName, loggedIn, refused, asked, relinked, fault>>

\* i_silc_scheduler, from a timer that outlived the client it was made for.
SchedulerAfterDeinit ==
  /\ gw = "freed" /\ fault = "none"
  /\ timers # {}
  /\ fault' = "scheduler_84"
  /\ UNCHANGED <<linkVars, stage, nickVars, orderly>>
-----------------------------------------------------------------------------
(* The handshake *)

Advance(from, to) ==
  /\ Alive /\ stage = from
  /\ stage' = to
  /\ UNCHANGED <<linkVars, nickVars, orderly, fault>>

\* The library trusts the server's key, or asks the plugin, which never calls
\* the completion of verify_public_key.
KeyExchanged == Advance("key_exchange", "authentication")
VerifyPublicKey == Advance("key_exchange", "verifying")

\* get_auth_method: the completion is called, except for a password the gateway
\* does not have.
AuthMethods == {"none", "public_key", "password"}
Answered(method) == method # "password" \/ hasPassword
GetAuthMethod(method) ==
  Advance("authentication", IF Answered(method) THEN "open" ELSE "no_password")
-----------------------------------------------------------------------------
(* Logging in and changing the nickname *)

SendNick(n) ==
  /\ Len(nicks) < MaxNicks
  /\ nicks' = Append(nicks, n)

NeedsNickAlways == TRUE
NeedsNickInverted == connected
NeedsNick == ~connected

\* SILC_NOTIFY_TYPE_NONE, which the server sends several times after login.
NotifyNone ==
  /\ Alive /\ stage = "open"
  /\ NeedsNick /\ SendNick(LPName)
  /\ UNCHANGED <<linkVars, stage, connected, nickname, presenceName, loggedIn,
                 refused, asked, relinked, orderly, fault>>

\* i_silc_presence_change_request sends the NICK whenever it is asked to: before
\* the login, and over a conn that is NULL or that the library has freed.  What
\* the library does with that is undefined; it may die of it.
ChangeRequest(n) ==
  /\ Alive
  /\ \/ /\ stage = "open"
        /\ Len(nicks) + 1 < MaxNicks     \* leaves NotifyNone a place
        /\ SendNick(n) /\ asked' = asked \cup {n}
        /\ UNCHANGED <<linkVars, fault>>
     \/ /\ ~link /\ fault' = "change_request_67"
        /\ UNCHANGED <<linkVars, nicks, asked>>
  /\ UNCHANGED <<stage, connected, nickname, presenceName, loggedIn, refused,
                 relinked, orderly>>

\* gateway_connection_set_logged_in, then connected.
LogIn ==
  /\ loggedIn' = IF connected THEN loggedIn ELSE loggedIn + 1
  /\ connected' = TRUE

\* The two arms of command_reply, SILC_COMMAND_NICK: the reply carries another
\* client id than ours, or ours and a nickname.
ReplyOtherId == LogIn /\ UNCHANGED presenceName
ReplyMyId(n) == presenceName' = n /\ UNCHANGED <<connected, loggedIn>>

\* The server gives a new client id with a new nickname, the reply carries the
\* one it replaces.
NickReplyOK ==
  LET n == Head(nicks) IN
  /\ nickname' = n /\ UNCHANGED refused
  /\ IF n = nickname THEN ReplyMyId(n) ELSE ReplyOtherId

\* The plugin reads the reply's id and nickname without looking at its status:
\* what an error reply holds there is not determined.
NickReplyError ==
  /\ refused' = TRUE /\ UNCHANGED nickname
  /\ ReplyOtherId \/ \E n \in Names : ReplyMyId(n)

NickReply ==
  /\ Alive /\ stage = "open"
  /\ nicks # <<>> /\ nicks' = Tail(nicks)
  /\ NickReplyOK \/ NickReplyError
  /\ UNCHANGED <<linkVars, stage, asked, relinked, orderly, fault>>
-----------------------------------------------------------------------------
Step ==
  \/ GatewayConnected \/ GatewayDisconnected
  \/ PresenceDeinit \/ GatewayConnectionDeinit \/ SchedulerAfterDeinit
  \/ KeyExchanged \/ VerifyPublicKey
  \/ \E m \in AuthMethods : GetAuthMethod(m)
  \/ NotifyNone \/ NickReply
  \/ \E n \in Names : ChangeRequest(n)

Next == Step /\ UNCHANGED hasPassword

Spec == Init /\ [][Next]_vars

\* The timer runs the library every 200 ms; the server goes on with the handshake
\* when it is answered, greets whoever it let in and answers each NICK.
FairSpec ==
  /\ Spec
  /\ WF_vars((KeyExchanged \/ VerifyPublicKey) /\ UNCHANGED hasPassword)
  /\ WF_vars((\E m \in AuthMethods : GetAuthMethod(m)) /\ UNCHANGED hasPassword)
  /\ WF_vars(NotifyNone /\ UNCHANGED hasPassword)
  /\ WF_vars(NickReply /\ UNCHANGED hasPassword)
-----------------------------------------------------------------------------
(* Properties *)

\* gateway_logged_in is only sent when we have a nickname that was asked for: what
\* ChangeLog:55-59 says of it.
LoggedInWithNick ==
  [][loggedIn' # loggedIn =>
       stage = "open" /\ nickname' \in {LPName} \cup asked]_vars

\* Unless the server has refused a nickname, connected says that we have the local
\* presence's name, or one that a client asked for, as long as the connection
\* lives on which the login came.  It stays set for later connections, on which
\* no NICK is sent: there we go by the user name until a client asks for another.
ConnectedNick ==
  link /\ connected /\ ~refused =>
    nickname \in asked \cup {IF relinked THEN UserName ELSE LPName}

\* While the core keeps to its order, icecap holds one timer and the descriptor of
\* a link while it is up and neither while it is down; it removes no timer twice
\* and runs none with a freed client.
HeldPerLink ==
  orderly => /\ timers = IF link THEN {timeout} ELSE {}
             /\ fdOpen <=> link
             /\ fault \notin TimerFaults

\* In that order a library connection is closed once before the next is made,
\* and only the last one, or NULL, a second time by deinit.
CloseBound ==
  orderly => \A k \in 0..MaxConns :
    closes[k] <= IF gw = "freed" /\ k = conn
                 THEN (IF k = 0 THEN 1 ELSE 2)
                 ELSE IF k = 0 \/ (link /\ k = conn) THEN 0 ELSE 1

\* The first handshake that begins ends with the login, whatever authentication
\* the server wants, if the gateway has a password and the library trusts the
\* server's key; from there on always.  Unless the link goes first, a nickname is
\* refused, or the nickname asked for is the one we have.
LoginCompletes ==
  (/\ ~connected /\ nickname # LPName
   /\ \/ stage = "open"
      \/ hasPassword /\ stage \in {"key_exchange", "authentication"})
    ~> (connected \/ refused \/ stage \in {"down", "verifying"})
=============================================================================
