------------------------- MODULE ChannelRosterProofs -------------------------
(***************************************************************************)
(* What is shown of a channel, in two parts.                               *)
(*                                                                         *)
(* A user who stays on a channel stays shown there, whatever the core and  *)
(* the library do.  The handlers look presences up with strcasecmp and     *)
(* remove what the lookup finds, on channels that may show names of users  *)
(* long gone, so this rests on a fact about the whole state: no two users  *)
(* on our channels have nicknames strcasecmp confuses.                     *)
(*                                                                         *)
(* ChannelConnection implements ChannelRoster, for a library that resolves *)
(* user lists, with all names of each user, before it delivers anything    *)
(* else, and a core that parts no channel.  What is shown of a channel is  *)
(* shown exactly once for each user on it, and every handler that changes  *)
(* it is one of ChannelRoster's moves.                                     *)
(***************************************************************************)
EXTENDS ChannelConnectionProofs

NamesInv == ~Alike(Here)

\* Of a channel connection that stays, everybody who stays on the channel under the
\* same nickname stays shown.
Stays(c, u) ==
  born'[c] = born[c] /\ u \in user_list[c] \cap user_list'[c]
    /\ nick'[u] = nick[u]
StaysNow ==
  \A c \in Channels, u \in Users :
    Stays(c, u) /\ presences[c][nick[u]] > 0 => presences'[c][nick[u]] > 0

\* Who is on a channel is Here, and nobody else Here has a nickname like his.
LEMMA AloneHere ==
  ASSUME NamesInv, NEW c \in Channels, NEW u \in user_list[c],
         NEW v \in Here, v # u
  PROVE  u \in Here /\ Fold[nick[u]] # Fold[nick[v]]
BY DEF NamesInv, Alike, Here

\* A handler that renames nobody and adds nobody to a channel keeps names apart.
LEMMA NamesFrame ==
  ASSUME NamesInv, UNCHANGED nick,
         \A c \in Channels : user_list'[c] \subseteq user_list[c]
  PROVE  NamesInv'
<1>1. Here' \subseteq Here
  BY DEF Here
<1> QED
  BY <1>1 DEF NamesInv, Alike

\* A handler that removes nothing that is shown.
LEMMA Growing ==
  ASSUME TypeOK,
         \A c \in Channels, n \in Nicks :
           presences[c][n] > 0 => presences'[c][n] > 0
  PROVE  StaysNow
BY DEF TypeOK, StaysNow, Stays

\* A channel connection goes with its presences, and no other one's change.
LEMMA Dropping ==
  ASSUME TypeOK, NEW c \in Channels, born[c] # 0, Drop(c)
  PROVE  StaysNow
<1>1. born'[c] # born[c]
  BY DEF TypeOK, Drop
<1>2. \A d \in Channels \ {c} : presences'[d] = presences[d]
  BY DEF TypeOK, Drop
<1> QED
  BY <1>1, <1>2 DEF StaysNow, Stays

\* Whoever leaves a channel takes a presence along that nobody bears who stays.
LEMMA Removing ==
  ASSUME TypeOK, NamesInv,
         NEW v \in Users, NEW c \in Channels, RemovePresence(c, nick[v]),
         v \in user_list[c] \ user_list'[c]
  PROVE  StaysNow
<1>1. CASE OnChannel(c, nick[v]) = {}
  BY <1>1, Growing DEF RemovePresence
<1>2. CASE OnChannel(c, nick[v]) # {}
  <2>1. PICK m \in OnChannel(c, nick[v]) :
          presences' = [presences EXCEPT ![c][m] = @ - 1]
    BY <1>2 DEF RemovePresence
  <2>2. m \in Nicks /\ Fold[m] = Fold[nick[v]]
    BY <2>1 DEF OnChannel
  <2> SUFFICES ASSUME NEW d \in Channels, NEW u \in Users, Stays(d, u),
                      presences[d][nick[u]] > 0
               PROVE  presences'[d][nick[u]] > 0
    BY DEF StaysNow
  <2>3. CASE d = c
    <3>1. u # v /\ u \in user_list[c] /\ v \in Here
      BY <2>3 DEF Stays, Here
    <3>2. nick[u] # m
      BY <2>2, <3>1, AloneHere
    <3>3. nick[u] \in Nicks
      BY DEF TypeOK
    <3> QED
      BY <2>1, <2>2, <3>2, <3>3 DEF TypeOK
  <2>4. CASE d # c
    BY <2>1, <2>2, <2>4 DEF TypeOK
  <2> QED
    BY <2>3, <2>4
<1> QED
  BY <1>1, <1>2

-----------------------------------------------------------------------------
\* Nicknames on our channels stay apart, handler by handler.
LEMMA NamesStep == TypeOK /\ NamesInv /\ [Next]_vars => NamesInv'
<1> SUFFICES ASSUME TypeOK, NamesInv, [Next]_vars
             PROVE  NamesInv'
  OBVIOUS
<1>1. ASSUME UNCHANGED <<nick, user_list>>
      PROVE  NamesInv'
  BY <1>1, NamesFrame
<1>2. ASSUME NEW c \in Channels,
             \/ ChannelConnectionInit(c) \/ ChannelPart(c)
             \/ ChannelMessage(c) \/ NotifyTopicSet(c) \/ TopicChangeRequest(c)
      PROVE  NamesInv'
  BY <1>1, <1>2
     DEF ChannelConnectionInit, ChannelPart, ChannelMessage, NotifyTopicSet,
         Deliver, TopicChangeRequest, libVars
<1>3. ASSUME NEW c \in Channels, LeaveReply(c) \/ NotifyKickedMe(c)
      PROVE  NamesInv'
  <2>1. user_list' = [user_list EXCEPT ![c] = {}] /\ UNCHANGED nick
    BY <1>3 DEF LeaveReply, NotifyKickedMe, Forget
  <2> QED
    BY <2>1, NamesFrame DEF TypeOK
<1>4. ASSUME NEW c \in Channels, JoinReply(c)
      PROVE  NamesInv'
  <2>1. ASSUME NEW members \in SUBSET Users, JoinReplyOK(c, members),
               UNCHANGED nick
        PROVE  NamesInv'
    <3>1. ~Alike(Here \cup members)
      BY <2>1 DEF JoinReplyOK
    <3>2. \A d \in Channels : user_list'[d] \subseteq user_list[d] \cup members
      BY <2>1 DEF JoinReplyOK, TypeOK
    <3>3. Here' \subseteq Here \cup members
      BY <3>2 DEF Here
    <3> QED
      BY <2>1, <3>1, <3>3 DEF NamesInv, Alike
  <2>2. ASSUME NEW e \in {0, libEntry[c]}, JoinReplyError(c, e), UNCHANGED nick
        PROVE  NamesInv'
    BY <1>1, <2>2 DEF JoinReplyError
  <2>3. CASE Die("join_reply_278") \/ Die("lookup_165")
    BY <1>1, <2>3 DEF Die, libVars
  <2> QED
    BY <1>4, <2>1, <2>2, <2>3, Zenon DEF JoinReply
<1>5. ASSUME NEW c \in Channels, RefreshOf(c)
      PROVE  NamesInv'
  BY <1>1, <1>5 DEF RefreshOf, RefreshResolved, Die, libVars
<1>6. ASSUME NEW u \in Users, NEW c \in Channels, NotifyJoin(u, c)
      PROVE  NamesInv'
  <2>1. CASE Die("notify_join_162")
    BY <1>1, <2>1 DEF Die, libVars
  <2>2. CASE ~Die("notify_join_162")
    <3>1. ~Alike(Here \cup {u}) /\ UNCHANGED nick
      BY <1>6, <2>2 DEF NotifyJoin
    <3>2. \A d \in Channels : user_list'[d] \subseteq user_list[d] \cup {u}
      BY <1>6, <2>2 DEF NotifyJoin, TypeOK
    <3>3. Here' \subseteq Here \cup {u}
      BY <3>2 DEF Here
    <3> QED
      BY <3>1, <3>3 DEF NamesInv, Alike
  <2> QED
    BY <2>1, <2>2
<1>7. ASSUME NEW u \in Users, NEW c \in Channels,
             NotifyLeave(u, c) \/ NotifyKicked(u, c)
      PROVE  NamesInv'
  <2>1. \/ UNCHANGED <<nick, user_list>>
        \/ user_list' = [user_list EXCEPT ![c] = @ \ {u}] /\ UNCHANGED nick
    BY <1>7 DEF NotifyLeave, NotifyKicked, Die, libVars
  <2> QED
    BY <2>1, NamesFrame DEF TypeOK
<1>8. ASSUME NEW u \in Users, NotifySignoff(u)
      PROVE  NamesInv'
  BY <1>8, NamesFrame DEF NotifySignoff
<1>9. ASSUME NEW u \in Users, NEW n \in Nicks,
             NotifyNickChange(u, n) \/ NewClientEntry(u, n)
      PROVE  NamesInv'
  <2>1. CASE Die("nick_change_330")
    BY <1>1, <2>1 DEF Die, libVars
  <2>2. CASE ~Die("nick_change_330")
    <3>1. /\ ~Taken(u, n)
          /\ nick' = [nick EXCEPT ![u] = n]
          /\ UNCHANGED user_list
      BY <1>9, <2>2 DEF NotifyNickChange, NewClientEntry
    <3>2. Here' = Here
      BY <3>1 DEF Here
    <3>3. Here \subseteq Users
      BY DEF Here, TypeOK
    <3>4. \A v \in Users : nick'[v] = IF v = u THEN n ELSE nick[v]
      BY <3>1 DEF TypeOK
    <3>5. \A v \in Here \ {u} : Fold[nick[v]] # Fold[n]
      BY <3>1 DEF Taken
    <3>6. \A v, w \in Here : v # w => Fold[nick[v]] # Fold[nick[w]]
      BY DEF NamesInv, Alike
    <3>7. \A v, w \in Here : v # w => Fold[nick'[v]] # Fold[nick'[w]]
      BY <3>3, <3>4, <3>5, <3>6
    <3> QED
      BY <3>2, <3>7 DEF NamesInv, Alike
  <2> QED
    BY <2>1, <2>2
<1>10. CASE UNCHANGED vars
  BY <1>1, <1>10 DEF vars, libVars
<1> QED
  BY <1>2, <1>3, <1>4, <1>5, <1>6, <1>7, <1>8, <1>9, <1>10 DEF Next

\* No handler takes the name away of somebody who stays.
LEMMA StaysStep == TypeOK /\ NamesInv /\ [Next]_vars => StaysNow
<1> SUFFICES ASSUME TypeOK, NamesInv, [Next]_vars
             PROVE  StaysNow
  OBVIOUS
<1>1. ASSUME UNCHANGED presences
      PROVE  StaysNow
  BY <1>1, Growing
<1>2. ASSUME NEW c \in Channels,
             \/ ChannelConnectionInit(c) \/ LeaveReply(c)
             \/ ChannelMessage(c) \/ NotifyTopicSet(c) \/ TopicChangeRequest(c)
      PROVE  StaysNow
  BY <1>1, <1>2
     DEF ChannelConnectionInit, LeaveReply, ChannelMessage, NotifyTopicSet,
         Deliver, TopicChangeRequest, chconnVars
<1>3. ASSUME NEW c \in Channels,
             ChannelPart(c) \/ JoinReply(c) \/ NotifyKickedMe(c)
      PROVE  StaysNow
  <2>1. \/ UNCHANGED presences
        \/ Drop(c) /\ born[c] > 0
    BY <1>3
       DEF ChannelPart, JoinReply, JoinReplyOK, JoinReplyError, NotifyKickedMe,
           Found, Die, chconnVars
  <2>2. born[c] > 0 => born[c] # 0
    BY DEF TypeOK
  <2> QED
    BY <1>1, <2>1, <2>2, Dropping
<1>4. ASSUME NEW c \in Channels, RefreshOf(c)
      PROVE  StaysNow
  <2>1. PICK r \in resolves, clients \in BOOLEAN :
          r.chan = c /\ RefreshResolved(r, clients)
    BY <1>4 DEF RefreshOf
  <2>2. UNCHANGED presences \/ AddUserList(c, Resolved(c, clients))
    BY <2>1 DEF RefreshResolved, Die, chconnVars
  <2>3. ASSUME AddUserList(c, Resolved(c, clients))
        PROVE  StaysNow
    <3>1. \A d \in Channels \ {c} : presences'[d] = presences[d]
      BY <2>3 DEF AddUserList, TypeOK
    <3>2. \A n \in Nicks :
            presences'[c][n] \in {presences[c][n], presences[c][n] + 1}
      BY <2>3 DEF AddUserList, TypeOK
    <3>3. \A d \in Channels, n \in Nicks : presences[d][n] \in Nat
      BY DEF TypeOK
    <3>4. ASSUME NEW d \in Channels, NEW n \in Nicks, presences[d][n] > 0
          PROVE  presences'[d][n] > 0
      BY <3>1, <3>2, <3>3, <3>4
    <3> QED
      BY <3>4, Growing
  <2> QED
    BY <1>1, <2>2, <2>3
<1>5. ASSUME NEW u \in Users, NEW c \in Channels, NotifyJoin(u, c)
      PROVE  StaysNow
  <2>1. CASE Die("notify_join_162")
    BY <1>1, <2>1 DEF Die, chconnVars
  <2>2. CASE ~Die("notify_join_162")
    <3>1. nick[u] \in Nicks
      BY DEF TypeOK
    <3>2. \/ presences' = [presences EXCEPT ![c][nick[u]] = @ + 1]
          \/ presences' = [presences EXCEPT ![c][nick[u]] = @]
      BY <1>5, <2>2 DEF NotifyJoin
    <3>3. ASSUME NEW d \in Channels, NEW n \in Nicks
          PROVE  presences'[d][n] \in {presences[d][n], presences[d][n] + 1}
      <4>1. CASE d = c /\ n = nick[u]
        BY <3>1, <3>2, <4>1 DEF TypeOK
      <4>2. CASE ~(d = c /\ n = nick[u])
        BY <3>1, <3>2, <4>2 DEF TypeOK
      <4> QED
        BY <4>1, <4>2
    <3>4. ASSUME NEW d \in Channels, NEW n \in Nicks, presences[d][n] > 0
          PROVE  presences'[d][n] > 0
      <4>1. presences[d][n] \in Nat
        BY DEF TypeOK
      <4> QED
        BY <3>3, <3>4, <4>1
    <3> QED
      BY <3>4, Growing
  <2> QED
    BY <2>1, <2>2
<1>6. ASSUME NEW u \in Users, NEW c \in Channels,
             NotifyLeave(u, c) \/ NotifyKicked(u, c)
      PROVE  StaysNow
  <2>1. \/ UNCHANGED presences
        \/ /\ RemovePresence(c, nick[u])
           /\ u \in user_list[c]
           /\ user_list' = [user_list EXCEPT ![c] = @ \ {u}]
    BY <1>6 DEF NotifyLeave, NotifyKicked, Die, chconnVars
  <2>2. ASSUME u \in user_list[c],
               user_list' = [user_list EXCEPT ![c] = @ \ {u}]
        PROVE  u \in user_list[c] \ user_list'[c]
    BY <2>2 DEF TypeOK
  <2> QED
    BY <1>1, <2>1, <2>2, Removing
<1>7. ASSUME NEW v \in Users, NotifySignoff(v)
      PROVE  StaysNow
  <2> SUFFICES ASSUME NEW c \in Channels, NEW u \in Users, Stays(c, u),
                      presences[c][nick[u]] > 0
               PROVE  presences'[c][nick[u]] > 0
    BY DEF StaysNow
  <2>1. v \in Here /\ u # v
    BY <1>7 DEF NotifySignoff, Here, Stays
  <2>2. nick[u] # nick[v] /\ nick[u] \in Nicks /\ nick[v] \in Nicks
    BY <2>1, AloneHere DEF Stays, TypeOK
  <2>3. \/ presences' = presences
        \/ presences'[c] = [presences[c] EXCEPT ![nick[v]] =
                              IF @ > 0 THEN @ - 1 ELSE 0]
    BY <1>7 DEF NotifySignoff
  <2> QED
    BY <2>2, <2>3 DEF TypeOK
<1>8. ASSUME NEW v \in Users, NEW new \in Nicks, NotifyNickChange(v, new)
      PROVE  StaysNow
  <2>1. CASE UNCHANGED presences
    BY <1>1, <2>1
  <2>2. CASE ~UNCHANGED presences
    <3>1. /\ v \in Here /\ new # nick[v] /\ ~Taken(v, new)
          /\ nick' = [nick EXCEPT ![v] = new]
          /\ presences' = [c \in Channels |->
               [presences[c] EXCEPT ![new] = presences[c][nick[v]],
                                    ![nick[v]] = 0]]
      BY <1>8, <2>2 DEF NotifyNickChange, Die, chconnVars
    <3> SUFFICES ASSUME NEW c \in Channels, NEW u \in Users, Stays(c, u),
                        presences[c][nick[u]] > 0
                 PROVE  presences'[c][nick[u]] > 0
      BY DEF StaysNow
    <3>2. nick'[v] = new
      BY <3>1 DEF TypeOK
    <3>3. u # v
      BY <3>1, <3>2 DEF Stays
    <3>4. u \in Here /\ Fold[nick[u]] # Fold[nick[v]]
      BY <3>1, <3>3, AloneHere DEF Stays
    <3>5. nick[u] # new
      BY <3>1, <3>3, <3>4 DEF Taken
    <3>6. nick[u] \in Nicks /\ nick[v] \in Nicks
      BY DEF TypeOK
    <3>7. presences'[c][nick[u]] = presences[c][nick[u]]
      BY <3>1, <3>4, <3>5, <3>6 DEF TypeOK
    <3> QED
      BY <3>7
  <2> QED
    BY <2>1, <2>2
<1>9. ASSUME NEW u \in Users, NEW n \in Nicks, NewClientEntry(u, n)
      PROVE  StaysNow
  BY <1>1, <1>9 DEF NewClientEntry, chconnVars
<1>10. CASE UNCHANGED vars
  BY <1>1, <1>10 DEF vars, chconnVars
<1> QED
  BY <1>2, <1>3, <1>4, <1>5, <1>6, <1>7, <1>8, <1>9, <1>10 DEF Next

\* No two users on our channels have nicknames strcasecmp confuses.
LEMMA NamesCorrect == Spec => []NamesInv
<1>1. Init => NamesInv
  BY DEF Init, NamesInv, Alike, Here
<1> QED
  BY <1>1, NamesStep, TypeCorrect, PTL DEF Spec

\* However joins, leaves, nickname changes, kicks and resolutions interleave, and
\* whatever names of users who have gone a channel shows besides, a user who stays
\* on it under the same nickname stays shown.
THEOREM WhoStaysIsShown == Spec => StaysShown
<1>1. TypeOK /\ NamesInv /\ [Next]_vars
        => [\A c \in Channels : born'[c] = born[c] =>
             \A u \in user_list[c] \cap user_list'[c] :
               nick'[u] = nick[u] /\ presences[c][nick[u]] > 0
                 => presences'[c][nick[u]] > 0]_vars
  <2> SUFFICES ASSUME TypeOK, NamesInv, [Next]_vars,
                      NEW c \in Channels, born'[c] = born[c],
                      NEW u \in user_list[c] \cap user_list'[c],
                      nick'[u] = nick[u], presences[c][nick[u]] > 0
               PROVE  presences'[c][nick[u]] > 0
    OBVIOUS
  <2>1. u \in Users /\ Stays(c, u)
    BY DEF TypeOK, Stays
  <2> QED
    BY <2>1, StaysStep DEF StaysNow
<1> QED
  BY <1>1, TypeCorrect, NamesCorrect, PTL DEF Spec, StaysShown
-----------------------------------------------------------------------------
NoLeave == \A c \in Channels : ~leaving[c]

\* The library is on a channel whose initial presences are added or on the way,
\* and knows users only on a channel it is on.
EntryShown ==
  \A c \in Channels :
    /\ libEntry[c] # 0 => added[c] \/ \E r \in resolves : r.chan = c
    /\ user_list[c] # {} => libEntry[c] # 0

On(c, n) == \E u \in user_list[c] : nick[u] = n
ExactlyOnce ==
  \A c \in Channels, n \in Nicks :
    presences[c][n] = IF added[c] /\ On(c, n) THEN 1 ELSE 0

\* The users of a channel that is shown have all their names.
ListNamed ==
  \A c \in Channels : added[c] => user_list[c] \subseteq named \cap complete

RosterInv == NoLeave /\ EntryShown /\ ExactlyOnce /\ ListNamed

\* What ChannelRoster sees.
Present == [c \in Channels |-> IF added[c] THEN user_list[c] ELSE {}]
Names == [c \in Channels |-> {n \in Nicks : presences[c][n] > 0}]

Still == UNCHANGED <<added, Present, nick>>
Moved == Roster!Move \/ Still

Orderly == {"async", "unresolved", "part"} \cap Env = {} /\ NickOnly = {}

\* The names shown on a channel are those of the users present.
LEMMA NamesOfPresent ==
  TypeOK /\ RosterInv
    => Names = [c \in Channels |-> Roster!NicksOf(Present[c], nick)]
<1> SUFFICES ASSUME TypeOK, RosterInv, NEW c \in Channels
             PROVE  {n \in Nicks : presences[c][n] > 0}
                      = Roster!NicksOf(Present[c], nick)
  BY DEF Names
<1>1. ASSUME NEW n \in Nicks
      PROVE  presences[c][n] > 0 <=> added[c] /\ On(c, n)
  BY DEF RosterInv, ExactlyOnce
<1>2. Roster!NicksOf(Present[c], nick)
        = {nick[u] : u \in IF added[c] THEN user_list[c] ELSE {}}
  BY DEF Roster!NicksOf, Present
<1>3. \A u \in user_list[c] : nick[u] \in Nicks
  BY DEF TypeOK
<1> QED
  BY <1>1, <1>2, <1>3 DEF On

-----------------------------------------------------------------------------
\* On a channel, nobody else has a user's nickname.
LEMMA AloneApart ==
  ASSUME NamesInv, NEW c \in Channels, NEW u \in Here
  PROVE  \A v \in user_list[c] : v # u => nick[v] # nick[u]
BY AloneHere

\* A handler that changes neither what is shown nor what the library knows.
LEMMA RosterFrame ==
  ASSUME RosterInv,
         UNCHANGED <<added, presences, libEntry, user_list, named, complete,
                     nick, leaving, resolves>>
  PROVE  RosterInv' /\ Moved
BY DEF RosterInv, NoLeave, EntryShown, ExactlyOnce, On, ListNamed, Moved, Still,
       Present

\* When a notification is handled, every channel the library is on is shown, and
\* has its connection.
LEMMA ReadyShown ==
  ASSUME Orderly, TypeOK, EntryInv, RosterInv, Ready,
         NEW c \in Channels, libEntry[c] # 0
  PROVE  added[c] /\ Found(c)
<1>1. resolves = {}
  BY DEF Orderly, Ready
<1>2. added[c]
  BY <1>1 DEF RosterInv, EntryShown
<1> QED
  BY <1>2 DEF EntryInv, EntryIsOwn, Found

\* The presence a lookup by a user's nickname finds on a channel is that user's:
\* it is shown for somebody there, and nobody else's nickname folds to the same.
LEMMA LookupFindsBearer ==
  ASSUME TypeOK, RosterInv, NEW u \in Users, ~Alike(Here \cup {u}),
         NEW c \in Channels, NEW m \in OnChannel(c, nick[u])
  PROVE  m = nick[u] /\ u \in user_list[c]
<1>1. m \in Nicks /\ Fold[m] = Fold[nick[u]] /\ presences[c][m] > 0
  BY DEF OnChannel
<1>2. PICK v \in user_list[c] : nick[v] = m
  BY <1>1 DEF RosterInv, ExactlyOnce, On
<1>3. v \in Here
  BY DEF Here
<1>4. v = u
  BY <1>1, <1>2, <1>3 DEF Alike
<1> QED
  BY <1>2, <1>4

\* The reply to a JOIN shows nothing.
LEMMA JoinReplyShows ==
  ASSUME Orderly, TypeOK, EntryInv, RosterInv, NEW c \in Channels, JoinReply(c)
  PROVE  RosterInv' /\ Moved
<1>1. CASE Die("join_reply_278") \/ Die("lookup_165")
  BY <1>1, RosterFrame DEF Die, chconnVars, libVars
<1>2. CASE ~(Die("join_reply_278") \/ Die("lookup_165"))
  <2>0. Found(c)
    BY <1>2, Zenon DEF JoinReply
  <2>1. /\ UNCHANGED <<named, complete, nick, leaving>>
        /\ \/ \E members \in SUBSET Users : JoinReplyOK(c, members)
           \/ \E e \in {0, libEntry[c]} : JoinReplyError(c, e)
    BY <1>2, Zenon DEF JoinReply
  <2>2. ASSUME NEW members \in SUBSET Users, JoinReplyOK(c, members)
        PROVE  RosterInv' /\ Moved
    <3>1. /\ libEntry[c] = 0
          /\ libEntry' = [libEntry EXCEPT ![c] = born[c]]
          /\ user_list' = [user_list EXCEPT ![c] = members]
          /\ resolves' = resolves \cup EventJoined(c)
          /\ UNCHANGED <<added, presences>>
      BY <2>2 DEF JoinReplyOK
    <3>2. ~joined[c] /\ ~added[c]
      BY <3>1 DEF EntryInv, EntryIsOwn, TypeOK
    <3>3. \E r \in resolves' : r.chan = c
      <4> DEFINE asked == [chan |-> c, entry |-> born[c], retry |-> 0]
      <4>1. asked \in resolves' /\ asked.chan = c
        BY <3>1, <3>2 DEF EventJoined
      <4> QED
        BY <4>1
    <3>4. \A d \in Channels \ {c} :
            libEntry'[d] = libEntry[d] /\ user_list'[d] = user_list[d]
      BY <3>1 DEF TypeOK
    <3>5. libEntry'[c] # 0
      BY <2>0, <3>1 DEF TypeOK, Found
    <3>6. EntryShown'
      BY <3>1, <3>3, <3>4, <3>5 DEF RosterInv, EntryShown
    <3>7. ExactlyOnce'
      BY <2>1, <3>1, <3>2, <3>4 DEF RosterInv, ExactlyOnce, On
    <3>8. ListNamed'
      BY <2>1, <3>1, <3>2, <3>4 DEF RosterInv, ListNamed
    <3>9. Present' = Present
      BY <3>1, <3>2, <3>4 DEF Present
    <3> QED
      BY <2>1, <3>1, <3>6, <3>7, <3>8, <3>9
         DEF RosterInv, NoLeave, Moved, Still
  <2>3. ASSUME NEW e \in {0, libEntry[c]}, JoinReplyError(c, e)
        PROVE  RosterInv' /\ Moved
    <3>1. UNCHANGED <<libEntry, user_list, resolves>>
      BY <2>3 DEF JoinReplyError
    <3>2. CASE joined[c]
      BY <2>1, <2>3, <3>1, <3>2, RosterFrame DEF JoinReplyError
    <3>3. CASE ~joined[c]
      <4>1. ~added[c] /\ Drop(c)
        BY <2>3, <3>3 DEF JoinReplyError, EntryInv, EntryIsOwn
      <4>2. added' = added
        BY <4>1 DEF TypeOK, Drop
      <4>3. presences[c] = Nobody
        BY <4>1 DEF TypeOK, RosterInv, ExactlyOnce, Nobody
      <4>4. presences' = presences
        BY <4>1, <4>3 DEF TypeOK, Drop
      <4> QED
        BY <2>1, <3>1, <4>2, <4>4, RosterFrame
    <3> QED
      BY <3>2, <3>3
  <2> QED
    BY <2>1, <2>2, <2>3
<1> QED
  BY <1>1, <1>2
\* The user list that comes back is shown: each of its users has a name then.
LEMMA RefreshShows ==
  ASSUME Orderly, TypeOK, EntryInv, NamesInv, RosterInv,
         NEW c \in Channels, RefreshOf(c)
  PROVE  RosterInv' /\ Moved
<1>1. PICK r \in resolves, clients \in BOOLEAN :
        r.chan = c /\ RefreshResolved(r, clients)
  BY DEF RefreshOf
<1> DEFINE f == LookupFault(r.entry, "refresh_196")
<1>2. clients
  BY <1>1 DEF RefreshResolved, Orderly
<1>3. CASE Die(f)
  BY <1>3, RosterFrame DEF Die, chconnVars, libVars
<1>4. CASE /\ f = "none"
           /\ resolves' = resolves \ {r}
           /\ named' = Resolved(c, clients)
           /\ Complete(IF clients THEN user_list[c] ELSE {})
           /\ AddUserList(c, Resolved(c, clients))
           /\ added' = [added EXCEPT ![c] = TRUE]
           /\ UNCHANGED <<libEntry, user_list, nick, leaving>>
  <2>1. PICK d \in Channels : born[d] > 0 /\ channel_entry[d] = r.entry
    <3>1. Holding(r.entry) # {}
      BY <1>4 DEF LookupFault
    <3> QED
      BY <3>1 DEF Holding
  <2>2. r.entry # 0
    BY <1>1 DEF TypeOK, Resolve, Entries
  <2>3. ~added[c]
    BY <1>1, <2>1, <2>2 DEF EntryInv, EntryIsOwn, ResolvedOnce
  <2>4. /\ named' = named \cup user_list[c]
        /\ complete' = complete \cup user_list[c]
    BY <1>2, <1>4 DEF Resolved, Complete, Orderly
  <2>5. added'[c] /\ \A e \in Channels \ {c} : added'[e] = added[e]
    BY <1>4 DEF TypeOK
  <2>6. EntryShown'
    BY <1>1, <1>4, <2>5 DEF RosterInv, EntryShown
  <2>7. ListNamed'
    BY <1>4, <2>4, <2>5 DEF RosterInv, ListNamed
  <2>8. ASSUME NEW n \in Nicks
        PROVE  presences'[c][n] = IF On(c, n) THEN 1 ELSE 0
    <3>1. presences[c][n] = 0
      BY <2>3 DEF RosterInv, ExactlyOnce
    <3>2. user_list[c] \cap Resolved(c, clients) = user_list[c]
      BY <1>2 DEF Resolved
    <3>3. presences'[c][n] = IF \E u \in user_list[c] : nick[u] = n
                             THEN presences[c][n] + 1 ELSE presences[c][n]
      BY <1>4, <3>2 DEF AddUserList, TypeOK
    <3> QED
      BY <3>1, <3>3 DEF On
  <2>9. ASSUME NEW e \in Channels \ {c}
        PROVE  presences'[e] = presences[e]
    BY <1>4 DEF AddUserList, TypeOK
  <2>10. ExactlyOnce'
    BY <1>4, <2>5, <2>8, <2>9 DEF RosterInv, ExactlyOnce, On
  <2>11. Roster!Show(c)
    <3>1. Present' = [Present EXCEPT ![c] = user_list[c]]
      BY <1>4, <2>5 DEF Present
    <3>2. user_list[c] \in SUBSET Users
      BY DEF TypeOK
    <3> QED
      BY <1>4, <2>3, <3>1, <3>2 DEF Roster!Show, Present
  <2> QED
    BY <1>4, <2>6, <2>7, <2>10, <2>11
       DEF RosterInv, NoLeave, Moved, Roster!Move
<1> QED
  BY <1>1, <1>2, <1>3, <1>4 DEF RefreshResolved

\* A user who joins a channel that is shown is shown there.
LEMMA JoinShows ==
  ASSUME Orderly, TypeOK, EntryInv, NamesInv, RosterInv,
         NEW u \in Users, NEW c \in Channels, NotifyJoin(u, c)
  PROVE  RosterInv' /\ Moved
<1>1. added[c] /\ Found(c) /\ u \notin user_list[c]
  BY ReadyShown DEF NotifyJoin
<1>2. OnChannel(c, nick[u]) = {}
  BY <1>1, LookupFindsBearer DEF NotifyJoin
<1>3. /\ user_list' = [user_list EXCEPT ![c] = @ \cup {u}]
      /\ named' = named \cup {u} /\ complete' = complete \cup {u}
      /\ presences' = [presences EXCEPT ![c][nick[u]] = @ + 1]
      /\ UNCHANGED <<added, libEntry, nick, leaving, resolves>>
  BY <1>1, <1>2 DEF NotifyJoin, ShouldAdd, Complete, Orderly
<1>4. nick[u] \in Nicks /\ presences[c][nick[u]] = 0
  <2>1. nick[u] \in Nicks
    BY DEF TypeOK
  <2> QED
    BY <1>2, <2>1 DEF OnChannel, TypeOK
<1>5. user_list'[c] = user_list[c] \cup {u}
      /\ \A d \in Channels \ {c} : user_list'[d] = user_list[d]
  BY <1>3 DEF TypeOK
<1>6. ExactlyOnce'
  <2> SUFFICES ASSUME NEW d \in Channels, NEW n \in Nicks
               PROVE  presences'[d][n] = IF added[d] /\ On(d, n)' THEN 1 ELSE 0
    BY <1>3 DEF ExactlyOnce
  <2>1. presences'[d][n] = IF d = c /\ n = nick[u] THEN 1 ELSE presences[d][n]
    BY <1>3, <1>4 DEF TypeOK
  <2>2. On(d, n)' <=> On(d, n) \/ (d = c /\ n = nick[u])
    BY <1>3, <1>5 DEF On
  <2> QED
    BY <1>1, <2>1, <2>2 DEF RosterInv, ExactlyOnce
<1>7. EntryShown'
  BY <1>3, <1>5, <1>1 DEF RosterInv, EntryShown, NotifyJoin
<1>8. ListNamed'
  BY <1>3, <1>5 DEF RosterInv, ListNamed
<1>9. Roster!Arrive(u, c)
  <2>1. Present' = [Present EXCEPT ![c] = @ \cup {u}]
    BY <1>1, <1>3, <1>5 DEF Present
  <2> QED
    BY <1>1, <1>3, <2>1 DEF Roster!Arrive, Present
<1> QED
  BY <1>3, <1>6, <1>7, <1>8, <1>9
     DEF RosterInv, NoLeave, Moved, Roster!Move
\* The presence a user leaves behind on a channel that is shown is taken away.
LEMMA RemoveHides ==
  ASSUME TypeOK, NamesInv, RosterInv,
         NEW u \in Users, NEW c \in Channels,
         added[c], u \in user_list[c], RemovePresence(c, nick[u]),
         user_list' = [user_list EXCEPT ![c] = @ \ {u}],
         UNCHANGED <<added, libEntry, named, complete, nick, leaving, resolves>>
  PROVE  RosterInv' /\ Moved
<1>1. nick[u] \in Nicks
  BY DEF TypeOK
<1>2. presences[c][nick[u]] = 1
  BY <1>1 DEF RosterInv, ExactlyOnce, On
<1>3. nick[u] \in OnChannel(c, nick[u])
  BY <1>1, <1>2 DEF OnChannel
<1>4. PICK m \in OnChannel(c, nick[u]) :
        presences' = [presences EXCEPT ![c][m] = @ - 1]
  BY <1>3 DEF RemovePresence
<1>5. m = nick[u]
  <2>1. Here \cup {u} = Here
    BY DEF Here
  <2> QED
    BY <2>1, LookupFindsBearer DEF NamesInv
<1>6. user_list'[c] = user_list[c] \ {u}
      /\ \A d \in Channels \ {c} : user_list'[d] = user_list[d]
  BY DEF TypeOK
<1>7. ExactlyOnce'
  <2> SUFFICES ASSUME NEW d \in Channels, NEW n \in Nicks
               PROVE  presences'[d][n] = IF added[d] /\ On(d, n)' THEN 1 ELSE 0
    BY DEF ExactlyOnce
  <2>1. presences'[d][n] = IF d = c /\ n = nick[u] THEN 0 ELSE presences[d][n]
    BY <1>1, <1>2, <1>4, <1>5 DEF TypeOK
  <2>2. \A v \in user_list[c] : v # u => nick[v] # nick[u]
    <3>1. u \in Here
      BY DEF Here
    <3> QED
      BY <3>1, AloneApart
  <2>3. On(d, n)' <=> On(d, n) /\ ~(d = c /\ n = nick[u])
    BY <1>6, <2>2 DEF On
  <2> QED
    BY <2>1, <2>3 DEF RosterInv, ExactlyOnce
<1>8. EntryShown'
  BY <1>6 DEF RosterInv, EntryShown
<1>9. ListNamed'
  BY <1>6 DEF RosterInv, ListNamed
<1>10. Roster!Depart(u, c)
  <2>1. Present' = [Present EXCEPT ![c] = @ \ {u}]
    BY <1>6 DEF Present
  <2> QED
    BY <2>1 DEF Roster!Depart, Present
<1> QED
  BY <1>7, <1>8, <1>9, <1>10 DEF RosterInv, NoLeave, Moved, Roster!Move

\* A LEAVE or a KICKED of a user of a shown channel takes that presence away.
LEMMA LeaveHides ==
  ASSUME Orderly, TypeOK, EntryInv, NamesInv, RosterInv,
         NEW u \in Users, NEW c \in Channels,
         NotifyLeave(u, c) \/ NotifyKicked(u, c)
  PROVE  RosterInv' /\ Moved
<1>1. added[c] /\ Found(c) /\ u \in user_list[c]
  BY ReadyShown DEF NotifyLeave, NotifyKicked
<1>2. u \in named /\ u \in complete
  BY <1>1 DEF RosterInv, ListNamed
<1> QED
  BY <1>1, <1>2, RemoveHides DEF NotifyLeave, NotifyKicked

\* A channel we are kicked off goes with its names.
LEMMA KickedMeHides ==
  ASSUME Orderly, TypeOK, EntryInv, RosterInv,
         NEW c \in Channels, NotifyKickedMe(c)
  PROVE  RosterInv' /\ Moved
<1>1. /\ Forget(c) /\ Drop(c)
      /\ UNCHANGED <<named, complete, nick, leaving, resolves>>
  BY ReadyShown DEF NotifyKickedMe
<1>2. /\ ~added'[c] /\ libEntry'[c] = 0 /\ user_list'[c] = {}
      /\ presences'[c] = Nobody
      /\ \A d \in Channels \ {c} :
           /\ added'[d] = added[d] /\ libEntry'[d] = libEntry[d]
           /\ user_list'[d] = user_list[d] /\ presences'[d] = presences[d]
  BY <1>1 DEF Forget, Drop, TypeOK
<1>3. EntryShown'
  BY <1>1, <1>2 DEF RosterInv, EntryShown
<1>4. ExactlyOnce'
  BY <1>1, <1>2 DEF RosterInv, ExactlyOnce, On, Nobody
<1>5. ListNamed'
  BY <1>1, <1>2 DEF RosterInv, ListNamed
<1>6. Roster!Hide(c)
  <2>1. Present' = [Present EXCEPT ![c] = {}]
    BY <1>2 DEF Present
  <2>2. added' = [added EXCEPT ![c] = FALSE]
    BY <1>1 DEF Drop
  <2> QED
    BY <1>1, <2>1, <2>2 DEF Roster!Hide, Present
<1> QED
  BY <1>1, <1>3, <1>4, <1>5, <1>6 DEF RosterInv, NoLeave, Moved, Roster!Move

\* A user who signs off disappears from every channel that is shown.
LEMMA SignoffHides ==
  ASSUME TypeOK, NamesInv, RosterInv, NEW u \in Users, NotifySignoff(u)
  PROVE  RosterInv' /\ Moved
<1>1. /\ user_list' = [c \in Channels |-> user_list[c] \ {u}]
      /\ named' = named \ {u} /\ complete' = complete \ {u}
      /\ UNCHANGED <<added, libEntry, nick, leaving, resolves>>
  BY DEF NotifySignoff
<1>2. \A c \in Channels : user_list'[c] = user_list[c] \ {u}
  BY <1>1
<1>3. ExactlyOnce'
  <2> SUFFICES ASSUME NEW c \in Channels, NEW n \in Nicks
               PROVE  presences'[c][n] = IF added[c] /\ On(c, n)' THEN 1 ELSE 0
    BY <1>1 DEF ExactlyOnce
  <2>1. \A v \in user_list[c] : v # u => nick[v] # nick[u]
    <3>1. u \in Here
      BY DEF Here, NotifySignoff
    <3> QED
      BY <3>1, AloneApart
  <2>2. On(c, n)' <=> \E v \in user_list[c] : v # u /\ nick[v] = n
    BY <1>1, <1>2 DEF On
  <2>3. presences[c][n] = IF added[c] /\ On(c, n) THEN 1 ELSE 0
    BY DEF RosterInv, ExactlyOnce
  <2>4. CASE u \in named
    <3>1. presences'[c][n] = IF n = nick[u] THEN 0 ELSE presences[c][n]
      <4>1. presences' = [d \in Channels |-> [presences[d] EXCEPT ![nick[u]] =
                            IF @ > 0 THEN @ - 1 ELSE 0]]
        BY <2>4 DEF NotifySignoff
      <4>2. presences[c] \in [Nicks -> Nat]
        BY DEF TypeOK
      <4> QED
        BY <2>3, <4>1, <4>2
    <3> QED
      BY <2>1, <2>2, <2>3, <3>1 DEF On
  <2>5. CASE u \notin named
    <3>1. presences' = presences
      BY <2>5 DEF NotifySignoff
    <3>2. added[c] => u \notin user_list[c]
      BY <2>5 DEF RosterInv, ListNamed
    <3> QED
      BY <2>2, <2>3, <3>1, <3>2 DEF On
  <2> QED
    BY <2>4, <2>5
<1>4. EntryShown'
  BY <1>1, <1>2 DEF RosterInv, EntryShown
<1>5. ListNamed'
  BY <1>1, <1>2 DEF RosterInv, ListNamed
<1>6. Roster!Quit(u)
  <2>1. Present' = [c \in Channels |-> Present[c] \ {u}]
    BY <1>1, <1>2 DEF Present
  <2> QED
    BY <1>1, <2>1 DEF Roster!Quit, Present
<1> QED
  BY <1>1, <1>3, <1>4, <1>5, <1>6 DEF RosterInv, NoLeave, Moved, Roster!Move

\* A user who takes another nickname is shown under it wherever he was shown.
LEMMA NickChangeRenames ==
  ASSUME Orderly, TypeOK, EntryInv, NamesInv, RosterInv,
         NEW u \in Users, NEW new \in Nicks, NotifyNickChange(u, new)
  PROVE  RosterInv' /\ Moved
<1> DEFINE old == nick[u]
<1>0. PICK c0 \in Channels : u \in user_list[c0]
  BY DEF NotifyNickChange, Here
<1>1. added[c0] /\ u \in named
  BY <1>0, ReadyShown DEF NotifyNickChange, RosterInv, EntryShown, ListNamed
<1>2. /\ new # old /\ old \in Nicks /\ ~Taken(u, new)
      /\ nick' = [nick EXCEPT ![u] = new]
      /\ UNCHANGED <<added, libEntry, user_list, named, complete, leaving,
                     resolves>>
  BY <1>1 DEF NotifyNickChange, TypeOK
<1>3. ASSUME NEW c \in Channels
      PROVE  \A v \in user_list[c] : v # u => nick[v] # new
  BY <1>2 DEF Taken, Here
<1>4. Known(old) /\ ~Known(new)
  <2>1. presences[c0][old] = 1
    BY <1>0, <1>1, <1>2 DEF RosterInv, ExactlyOnce, On
  <2>2. ASSUME NEW c \in Channels
        PROVE  presences[c][new] = 0
    <3>1. ~On(c, new)
      BY <1>2, <1>3 DEF On
    <3> QED
      BY <3>1 DEF RosterInv, ExactlyOnce
  <2> QED
    BY <2>1, <2>2 DEF Known
<1>5. ExactlyOnce'
  <2> SUFFICES ASSUME NEW c \in Channels, NEW n \in Nicks
               PROVE  presences'[c][n] = IF added[c] /\ On(c, n)' THEN 1 ELSE 0
    BY <1>2 DEF ExactlyOnce
  <2>1. presences'[c] = [presences[c] EXCEPT ![new] = presences[c][old],
                                             ![old] = 0]
    BY <1>1, <1>4 DEF NotifyNickChange, ShouldRename
  <2>2. presences'[c][n] = IF n = old THEN 0
                           ELSE IF n = new THEN presences[c][old]
                           ELSE presences[c][n]
    BY <1>2, <2>1 DEF TypeOK
  <2>3. \A v \in user_list[c] : v # u => nick[v] # old /\ nick[v] # new
    <3>1. u \in Here
      BY <1>0 DEF Here
    <3> QED
      BY <1>3, <3>1, AloneApart
  <2>4. \A v \in user_list[c] : nick'[v] = IF v = u THEN new ELSE nick[v]
    BY <1>2 DEF TypeOK
  <2>5. On(c, n)' <=> IF n = old THEN FALSE
                      ELSE IF n = new THEN u \in user_list[c]
                      ELSE On(c, n)
    BY <1>2, <2>3, <2>4 DEF On
  <2>6. On(c, old) <=> u \in user_list[c]
    BY <2>3 DEF On
  <2> QED
    BY <1>2, <2>2, <2>5, <2>6 DEF RosterInv, ExactlyOnce
<1>6. Roster!Rename(u, new)
  <2>1. Present' = Present
    BY <1>2 DEF Present
  <2> QED
    BY <1>2, <2>1 DEF Roster!Rename, Present
<1> QED
  BY <1>2, <1>5, <1>6
     DEF RosterInv, NoLeave, EntryShown, ListNamed, Moved, Roster!Move

\* A user who is not on a channel that is shown takes another name unseen.
LEMMA NewEntryRenames ==
  ASSUME TypeOK, RosterInv,
         NEW u \in Users, NEW n \in Nicks, NewClientEntry(u, n)
  PROVE  RosterInv' /\ Moved
<1>1. /\ nick' = [nick EXCEPT ![u] = n]
      /\ named' = named \ {u} /\ complete' = complete \ {u}
      /\ u \notin Here \cap named
      /\ UNCHANGED <<added, presences, libEntry, user_list, leaving, resolves>>
  BY DEF NewClientEntry, chconnVars
<1>2. ASSUME NEW c \in Channels, added[c]
      PROVE  u \notin user_list[c]
  BY <1>1, <1>2 DEF RosterInv, ListNamed, Here
<1>3. \A v \in Users \ {u} : nick'[v] = nick[v]
  BY <1>1 DEF TypeOK
<1>4. ASSUME NEW c \in Channels, NEW m \in Nicks, added[c]
      PROVE  On(c, m)' <=> On(c, m)
  <2>1. \A v \in user_list[c] : nick'[v] = nick[v]
    BY <1>2, <1>3, <1>4 DEF TypeOK
  <2> QED
    BY <1>1, <2>1 DEF On
<1>5. ExactlyOnce'
  BY <1>1, <1>4 DEF RosterInv, ExactlyOnce
<1>6. ListNamed'
  BY <1>1, <1>2 DEF RosterInv, ListNamed
<1>7. Roster!Rename(u, n)
  <2>1. Present' = Present
    BY <1>1 DEF Present
  <2> QED
    BY <1>1, <2>1 DEF Roster!Rename, Present
<1> QED
  BY <1>1, <1>5, <1>6, <1>7
     DEF RosterInv, NoLeave, EntryShown, Moved, Roster!Move
-----------------------------------------------------------------------------
\* Handler by handler: the invariant holds, and ChannelRoster moves or stutters.
LEMMA RosterStep ==
  ASSUME Orderly, TypeOK, EntryInv, NamesInv, RosterInv, [Next]_vars
  PROVE  RosterInv' /\ Moved
<1>1. ASSUME NEW c \in Channels,
             \/ ChannelConnectionInit(c) \/ ChannelPart(c) \/ LeaveReply(c)
             \/ ChannelMessage(c) \/ NotifyTopicSet(c) \/ TopicChangeRequest(c)
      PROVE  RosterInv' /\ Moved
  <2>1. ~ChannelPart(c) /\ ~LeaveReply(c)
    BY DEF Orderly, ChannelPart, LeaveReply, RosterInv, NoLeave
  <2> QED
    BY <1>1, <2>1, RosterFrame
       DEF ChannelConnectionInit, ChannelMessage, NotifyTopicSet, Deliver,
           TopicChangeRequest, chconnVars, libVars
<1>2. CASE UNCHANGED vars
  BY <1>2, RosterFrame DEF vars, chconnVars, libVars
<1> QED
  BY <1>1, <1>2, JoinReplyShows, RefreshShows, JoinShows, LeaveHides,
     KickedMeHides, SignoffHides, NickChangeRenames, NewEntryRenames
     DEF Next

\* With a library that resolves user lists, with all three names of each user,
\* before it delivers anything else, and a core that parts no channel,
\* ChannelConnection does what ChannelRoster promises icecap's clients: a shown channel's names are at
\* every moment those of the users on it.
THEOREM ImplementsRoster ==
  ASSUME Orderly
  PROVE  Spec => RosterSpec
<1>1. Init => Roster!Init
  <2> SUFFICES ASSUME Init
               PROVE  Roster!Init
    OBVIOUS
  <2>1. ASSUME NEW c \in Channels
        PROVE  {n \in Nicks : presences[c][n] > 0} = {}
    <3>1. \A n \in Nicks : presences[c][n] = 0
      BY DEF Init, Nobody
    <3> QED
      BY <3>1
  <2> QED
    BY <2>1 DEF Init, Roster!Init
<1>2. Init => RosterInv
  BY DEF Init, RosterInv, NoLeave, EntryShown, ExactlyOnce, ListNamed, Nobody
<1>3. TypeOK /\ EntryInv /\ NamesInv /\ RosterInv /\ [Next]_vars => RosterInv'
  BY RosterStep
<1>4. (TypeOK /\ RosterInv
        => Names = [c \in Channels |-> Roster!NicksOf(Present[c], nick)])'
  BY NamesOfPresent, PTL
<1>5. TypeOK /\ EntryInv /\ NamesInv /\ RosterInv /\ TypeOK' /\ RosterInv'
        /\ [Next]_vars
        => [Roster!Next]_(Roster!rosterVars)
  <2> SUFFICES ASSUME TypeOK, EntryInv, NamesInv, RosterInv,
                      TypeOK', RosterInv', [Next]_vars
               PROVE  [Roster!Next]_(Roster!rosterVars)
    OBVIOUS
  <2>1. Names = [c \in Channels |-> Roster!NicksOf(Present[c], nick)]
    BY NamesOfPresent
  <2>2. Names' = [c \in Channels |-> Roster!NicksOf(Present'[c], nick')]
    BY <1>4 DEF Roster!NicksOf
  <2>3. Moved
    BY RosterStep
  <2>4. CASE Roster!Move
    BY <2>2, <2>4 DEF Roster!Next, Names, Present
  <2>5. CASE Still
    <3>1. Names' = Names
      BY <2>1, <2>2, <2>5 DEF Still, Roster!NicksOf
    <3> QED
      BY <2>5, <3>1 DEF Still, Roster!rosterVars, Names, Present
  <2> QED
    BY <2>3, <2>4, <2>5 DEF Moved
<1> QED
  BY <1>1, <1>2, <1>3, <1>5, TypeCorrect, EntriesCorrect, NamesCorrect, PTL
     DEF Spec, RosterSpec, Roster!Spec
=============================================================================
