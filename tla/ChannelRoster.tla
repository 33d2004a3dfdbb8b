---------------------------- MODULE ChannelRoster ----------------------------
(***************************************************************************)
(* What the plugin promises icecap's clients about channels: once a        *)
(* channel's initial presences have been added, the names a client is      *)
(* shown are at every moment exactly the nicknames of the users who are    *)
(* on the channel, whatever joins, leaves, kicks, signoffs and nickname    *)
(* changes happen.                                                         *)
(***************************************************************************)
CONSTANTS Channels, Users, Nicks, InitNick

VARIABLES shown,     \* shown[c]: the initial presences of c have been added
          present,   \* present[c]: the users on c, {} until it is shown
          nick,      \* nick[u]: the nickname of u
          roster     \* roster[c]: the names c's channel presences carry

rosterVars == <<shown, present, nick, roster>>

NicksOf(users, name) == {name[u] : u \in users}

Init ==
  /\ shown = [c \in Channels |-> FALSE]
  /\ present = [c \in Channels |-> {}]
  /\ nick = InitNick
  /\ roster = [c \in Channels |-> {}]

Show(c) ==
  /\ ~shown[c]
  /\ shown' = [shown EXCEPT ![c] = TRUE]
  /\ \E users \in SUBSET Users : present' = [present EXCEPT ![c] = users]
  /\ UNCHANGED nick

Hide(c) ==
  /\ shown' = [shown EXCEPT ![c] = FALSE]
  /\ present' = [present EXCEPT ![c] = {}]
  /\ UNCHANGED nick

Arrive(u, c) ==
  /\ shown[c] /\ u \notin present[c]
  /\ present' = [present EXCEPT ![c] = @ \cup {u}]
  /\ UNCHANGED <<shown, nick>>

Depart(u, c) ==
  /\ u \in present[c]
  /\ present' = [present EXCEPT ![c] = @ \ {u}]
  /\ UNCHANGED <<shown, nick>>

Quit(u) ==
  /\ present' = [c \in Channels |-> present[c] \ {u}]
  /\ UNCHANGED <<shown, nick>>

Rename(u, n) ==
  /\ nick' = [nick EXCEPT ![u] = n]
  /\ UNCHANGED <<shown, present>>

Move ==
  \/ \E c \in Channels : Show(c) \/ Hide(c)
  \/ \E u \in Users, c \in Channels : Arrive(u, c) \/ Depart(u, c)
  \/ \E u \in Users : Quit(u)
  \/ \E u \in Users, n \in Nicks : Rename(u, n)

Next ==
  /\ Move
  /\ roster' = [c \in Channels |-> NicksOf(present'[c], nick')]

Spec == Init /\ [][Next]_rosterVars
=============================================================================
