----------------------- MODULE ChannelConnectionProofs -----------------------
(***************************************************************************)
(* Type correctness of ChannelConnection, the invariant that ties channel  *)
(* entries, resolutions and channel connections together, and what follows *)
(* from it: no name is shown more than twice, whatever the library and the *)
(* core do, and no assertion fails while the core keeps to its order.      *)
(***************************************************************************)
EXTENDS ChannelConnection, TLAPS

\* The fault a lookup ends in is one of the places the process can die.
LEMMA LookupFaultType ==
  ASSUME NEW e, NEW f \in Faults
  PROVE  LookupFault(e, f) \in Faults \cup {"none"}
BY DEF LookupFault, Faults

\* Removing a channel connection keeps the types of its fields.
LEMMA DropType ==
  ASSUME TypeOK, NEW c \in Channels, Drop(c)
  PROVE  /\ born' \in [Channels -> Nat]
         /\ joined' \in [Channels -> BOOLEAN]
         /\ channel_entry' \in [Channels -> Nat]
         /\ added' \in [Channels -> BOOLEAN]
         /\ presences' \in [Channels -> [Nicks -> Nat]]
BY DEF TypeOK, Drop, Nobody

\* The user lists stay in their type when the library forgets a channel.
LEMMA ForgetType ==
  ASSUME TypeOK, NEW c \in Channels, Forget(c)
  PROVE  /\ libEntry' \in [Channels -> Nat]
         /\ user_list' \in [Channels -> SUBSET Users]
BY DEF TypeOK, Forget

\* A presence the lookup has found is one that can be removed.
LEMMA RemovePresenceType ==
  ASSUME TypeOK, NEW c \in Channels, NEW n \in Nicks, RemovePresence(c, n)
  PROVE  presences' \in [Channels -> [Nicks -> Nat]]
<1>1. CASE OnChannel(c, n) = {}
  BY <1>1 DEF TypeOK, RemovePresence
<1>2. CASE OnChannel(c, n) # {}
  <2>1. PICK m \in OnChannel(c, n) :
          presences' = [presences EXCEPT ![c][m] = @ - 1]
    BY <1>2 DEF RemovePresence
  <2>2. m \in Nicks /\ presences[c][m] > 0
    BY <2>1 DEF OnChannel
  <2>3. presences[c][m] - 1 \in Nat
    BY <2>2 DEF TypeOK
  <2> QED
    BY <2>1, <2>2, <2>3 DEF TypeOK
<1> QED
  BY <1>1, <1>2

\* What the library learns of users stays among the users.
LEMMA CompleteType ==
  ASSUME TypeOK, NEW us \in SUBSET Users, Complete(us)
  PROVE  complete' \in SUBSET Users
BY DEF TypeOK, Complete

\* The process dies where it stands.
LEMMA DieType ==
  ASSUME TypeOK, NEW f \in Faults, Die(f)
  PROVE  TypeOK'
BY DEF TypeOK, Die, chconnVars, libVars

-----------------------------------------------------------------------------
\* Type correctness is inductive: one step per handler.
LEMMA TypeStep == TypeOK /\ [Next]_vars => TypeOK'
<1> SUFFICES ASSUME TypeOK, [Next]_vars
             PROVE  TypeOK'
  OBVIOUS
<1>1. ASSUME NEW c \in Channels, ChannelConnectionInit(c)
      PROVE  TypeOK'
  BY <1>1 DEF TypeOK, ChannelConnectionInit, Alive
<1>2. ASSUME NEW c \in Channels, ChannelPart(c)
      PROVE  TypeOK'
  <2>1. leaving' \in [Channels -> BOOLEAN]
    BY <1>2 DEF TypeOK, ChannelPart
  <2> QED
    BY <1>2, <2>1, DropType DEF TypeOK, ChannelPart, Alive
<1>3. ASSUME NEW c \in Channels, LeaveReply(c)
      PROVE  TypeOK'
  BY <1>3, ForgetType DEF TypeOK, LeaveReply, Alive, chconnVars
<1>4. ASSUME NEW c \in Channels, JoinReply(c)
      PROVE  TypeOK'
  <2>1. CASE Die("join_reply_278") \/ Die("lookup_165")
    BY <2>1, DieType DEF Faults, NoConnectionFaults
  <2>2. CASE /\ Found(c) /\ Alive
             /\ joins' = [joins EXCEPT ![c] = @ - 1]
             /\ \/ \E members \in SUBSET Users : JoinReplyOK(c, members)
                \/ \E e \in {0, libEntry[c]} : JoinReplyError(c, e)
             /\ UNCHANGED <<named, complete, nick, leaving, clock>>
    <3>1. joins' \in [Channels -> Nat]
      <4>1. joins[c] \in Nat /\ joins[c] > 0
        BY <1>4 DEF TypeOK, JoinReply
      <4>2. joins[c] - 1 \in Nat
        BY <4>1
      <4> QED
        BY <2>2, <4>2 DEF TypeOK
    <3>2. ASSUME NEW members \in SUBSET Users, JoinReplyOK(c, members)
          PROVE  TypeOK'
      <4>1. born[c] \in Nat \ {0}
        BY <2>2 DEF TypeOK, Found
      <4>2. EventJoined(c) \in SUBSET Resolve
        BY <4>1 DEF EventJoined, Resolve, Entries
      <4> QED
        BY <2>2, <3>1, <3>2, <4>1, <4>2 DEF TypeOK, JoinReplyOK, Alive
    <3>3. ASSUME NEW e \in {0, libEntry[c]}, JoinReplyError(c, e)
          PROVE  TypeOK'
      <4>1. e \in Nat
        BY DEF TypeOK
      <4>2. CASE joined[c]
        BY <2>2, <3>1, <3>3, <4>1, <4>2 DEF TypeOK, JoinReplyError, Alive
      <4>3. CASE ~joined[c]
        <5>1. Drop(c)
          BY <3>3, <4>3 DEF JoinReplyError
        <5> QED
          BY <2>2, <3>1, <3>3, <5>1, DropType DEF TypeOK, JoinReplyError, Alive
      <4> QED
        BY <4>2, <4>3
    <3> QED
      BY <2>2, <3>2, <3>3
  <2> QED
    BY <1>4, <2>1, <2>2, Zenon DEF JoinReply
<1>5. ASSUME NEW c \in Channels, RefreshOf(c)
      PROVE  TypeOK'
  <2>1. PICK r \in resolves, clients \in BOOLEAN :
          r.chan = c /\ RefreshResolved(r, clients)
    BY <1>5 DEF RefreshOf
  <2>2. r \in Resolve
    BY <2>1 DEF TypeOK
  <2> DEFINE f == LookupFault(r.entry, "refresh_196")
  <2>3. CASE f # "none" /\ Die(f)
    <3>1. f \in Faults
      BY <2>3, LookupFaultType DEF Faults
    <3> QED
      BY <2>3, <3>1, DieType
  <2>4. CASE /\ Alive /\ MayRetry(r)
             /\ resolves' = (resolves \ {r}) \cup {[r EXCEPT !.retry = @ + 1]}
             /\ UNCHANGED <<chconnVars, libEntry, user_list, named, complete,
                            nick, joins, leaving, clock>>
    <3>1. [r EXCEPT !.retry = @ + 1] \in Resolve
      BY <2>2, <2>4 DEF Resolve, MayRetry
    <3> QED
      BY <2>4, <3>1 DEF TypeOK, Alive, chconnVars
  <2>5. CASE /\ Alive
             /\ resolves' = resolves \ {r}
             /\ named' = Resolved(r.chan, clients)
             /\ Complete(IF clients THEN user_list[r.chan] ELSE {})
             /\ AddUserList(r.chan, Resolved(r.chan, clients))
             /\ added' = [added EXCEPT ![r.chan] = TRUE]
             /\ UNCHANGED <<born, joined, channel_entry, libEntry, user_list,
                            nick, joins, leaving, clock>>
    <3>1. named' \in SUBSET Users
      BY <2>1, <2>5 DEF TypeOK, Resolved
    <3>2. presences' \in [Channels -> [Nicks -> Nat]]
      BY <2>1, <2>5 DEF TypeOK, AddUserList
    <3>3. complete' \in SUBSET Users
      <4>1. (IF clients THEN user_list[r.chan] ELSE {}) \in SUBSET Users
        BY <2>1 DEF TypeOK
      <4> QED
        BY <2>5, <4>1, CompleteType
    <3> QED
      BY <2>1, <2>5, <3>1, <3>2, <3>3 DEF TypeOK, Alive
  <2> QED
    BY <2>1, <2>3, <2>4, <2>5 DEF RefreshResolved
<1>6. ASSUME NEW c \in Channels, NotifyKickedMe(c)
      PROVE  TypeOK'
  <2>1. /\ born' \in [Channels -> Nat]
        /\ joined' \in [Channels -> BOOLEAN]
        /\ channel_entry' \in [Channels -> Nat]
        /\ added' \in [Channels -> BOOLEAN]
        /\ presences' \in [Channels -> [Nicks -> Nat]]
    <3>1. CASE ~Found(c)
      BY <1>6, <3>1 DEF TypeOK, NotifyKickedMe, chconnVars
    <3>2. CASE Found(c)
      BY <1>6, <3>2, DropType DEF NotifyKickedMe
    <3> QED
      BY <3>1, <3>2
  <2> QED
    BY <1>6, <2>1, ForgetType DEF TypeOK, NotifyKickedMe, Alive
<1>7. ASSUME NEW c \in Channels,
             \/ ChannelMessage(c) \/ NotifyTopicSet(c)
             \/ TopicChangeRequest(c)
      PROVE  TypeOK'
  <2>1. fault' \in Faults \cup {"none"}
    BY <1>7, LookupFaultType
       DEF ChannelMessage, NotifyTopicSet, Deliver, TopicChangeRequest, Faults,
           NoConnectionFaults
  <2> QED
    BY <1>7, <2>1
       DEF TypeOK, ChannelMessage, NotifyTopicSet, Deliver, TopicChangeRequest,
           chconnVars, libVars
<1>8. ASSUME NEW u \in Users, NEW c \in Channels, NotifyJoin(u, c)
      PROVE  TypeOK'
  <2>1. CASE Die("notify_join_162")
    BY <2>1, DieType DEF Faults, NoConnectionFaults
  <2>2. CASE ~Die("notify_join_162")
    <3> DEFINE count == IF ShouldAdd(c, nick[u]) THEN presences[c][nick[u]] + 1
                                                 ELSE presences[c][nick[u]]
    <3>1. /\ Alive
          /\ user_list' = [user_list EXCEPT ![c] = @ \cup {u}]
          /\ named' = named \cup {u} /\ Complete({u})
          /\ presences' = [presences EXCEPT ![c][nick[u]] = count]
          /\ UNCHANGED <<born, joined, channel_entry, added, libEntry, nick,
                         joins, leaving, resolves, clock>>
      BY <1>8, <2>2 DEF NotifyJoin
    <3>2. count \in Nat /\ nick[u] \in Nicks
      BY DEF TypeOK
    <3>3. complete' \in SUBSET Users
      BY <3>1, CompleteType
    <3> HIDE DEF count
    <3> QED
      BY <3>1, <3>2, <3>3 DEF TypeOK, Alive
  <2> QED
    BY <2>1, <2>2
<1>9. ASSUME NEW u \in Users, NEW c \in Channels, NotifyLeave(u, c)
      PROVE  TypeOK'
  <2>1. CASE Die("notify_leave_242")
    BY <2>1, DieType DEF Faults, NoConnectionFaults
  <2>2. CASE ~Die("notify_leave_242")
    <3>1. presences' \in [Channels -> [Nicks -> Nat]]
      <4>1. nick[u] \in Nicks
        BY DEF TypeOK
      <4> QED
        BY <1>9, <2>2, <4>1, RemovePresenceType DEF TypeOK, NotifyLeave
    <3> QED
      BY <1>9, <2>2, <3>1 DEF TypeOK, NotifyLeave, Alive
  <2> QED
    BY <2>1, <2>2
<1>10. ASSUME NEW u \in Users, NEW c \in Channels, NotifyKicked(u, c)
       PROVE  TypeOK'
  <2>1. CASE Die("notify_kicked_317")
    BY <2>1, DieType DEF Faults, NoNicknameFaults
  <2>2. CASE ~Die("notify_kicked_317")
    <3>1. presences' \in [Channels -> [Nicks -> Nat]]
      <4>1. nick[u] \in Nicks
        BY DEF TypeOK
      <4> QED
        BY <1>10, <2>2, <4>1, RemovePresenceType DEF TypeOK, NotifyKicked
    <3> QED
      BY <1>10, <2>2, <3>1 DEF TypeOK, NotifyKicked, Alive
  <2> QED
    BY <2>1, <2>2
<1>11. ASSUME NEW u \in Users, NotifySignoff(u)
       PROVE  TypeOK'
  <2>1. presences' \in [Channels -> [Nicks -> Nat]]
    <3>1. CASE u \notin named
      BY <1>11, <3>1 DEF TypeOK, NotifySignoff
    <3>2. CASE u \in named
      <4>1. ASSUME NEW c \in Channels
            PROVE  presences'[c] \in [Nicks -> Nat]
        BY <1>11, <3>2, <4>1 DEF TypeOK, NotifySignoff
      <4>2. presences' = [c \in Channels |-> presences'[c]]
        BY <1>11, <3>2 DEF NotifySignoff
      <4> QED
        BY <4>1, <4>2
    <3> QED
      BY <3>1, <3>2
  <2> QED
    BY <1>11, <2>1 DEF TypeOK, NotifySignoff, Alive
<1>12. ASSUME NEW u \in Users, NEW n \in Nicks, NotifyNickChange(u, n)
       PROVE  TypeOK'
  <2>1. CASE Die("nick_change_330")
    BY <2>1, DieType DEF Faults, NoNicknameFaults
  <2>2. CASE ~Die("nick_change_330")
    <3>1. presences' \in [Channels -> [Nicks -> Nat]]
      <4>1. \A c \in Channels :
              [presences[c] EXCEPT ![n] = presences[c][nick[u]], ![nick[u]] = 0]
                \in [Nicks -> Nat]
        BY DEF TypeOK
      <4>2. \/ presences' = presences
            \/ presences' = [c \in Channels |->
                 [presences[c] EXCEPT ![n] = presences[c][nick[u]],
                                      ![nick[u]] = 0]]
        BY <1>12, <2>2, Zenon DEF NotifyNickChange
      <4> QED
        BY <4>1, <4>2 DEF TypeOK
    <3>2. nick' \in [Users -> Nicks]
      BY <1>12, <2>2 DEF TypeOK, NotifyNickChange
    <3>3. UNCHANGED <<born, joined, channel_entry, added, libEntry, user_list,
                      named, complete, joins, leaving, resolves, clock, fault>>
      BY <1>12, <2>2 DEF NotifyNickChange, Alive
    <3> QED
      BY <3>1, <3>2, <3>3 DEF TypeOK
  <2> QED
    BY <2>1, <2>2
<1>13. ASSUME NEW u \in Users, NEW n \in Nicks, NewClientEntry(u, n)
       PROVE  TypeOK'
  BY <1>13 DEF TypeOK, NewClientEntry, Alive, chconnVars
<1>14. CASE UNCHANGED vars
  BY <1>14 DEF TypeOK, vars, chconnVars, libVars
<1> QED
  BY <1>1, <1>2, <1>3, <1>4, <1>5, <1>6, <1>7, <1>8, <1>9, <1>10, <1>11, <1>12,
     <1>13, <1>14
     DEF Next

\* Every state of the program is well typed; in particular no count of channel
\* presences falls below zero.
THEOREM TypeCorrect == Spec => []TypeOK
<1>1. Init => TypeOK
  BY ConstantsAssumption DEF Init, TypeOK, Nobody
<1> QED
  BY <1>1, TypeStep, PTL DEF Spec
-----------------------------------------------------------------------------
\* A handler that leaves connections, library entries, LEAVEs and resolutions
\* alone keeps EntryInv.
LEMMA EntryFrame ==
  ASSUME EntryInv,
         UNCHANGED <<born, joined, channel_entry, added, libEntry, leaving,
                     resolves, clock>>
  PROVE  EntryInv'
BY DEF EntryInv, Ranked, EntryIsOwn, ResolvedOnce

\* Removing a channel connection keeps EntryInv, whatever the library knows of
\* that channel: what was being resolved for it is for no connection any more.
LEMMA EntryDrop ==
  ASSUME TypeOK, EntryInv, NEW c \in Channels, Drop(c),
         UNCHANGED <<resolves, clock>>,
         \A d \in Channels \ {c} :
           libEntry'[d] = libEntry[d] /\ leaving'[d] = leaving[d]
  PROVE  EntryInv'
<1>1. /\ born' = [born EXCEPT ![c] = 0]
      /\ joined' = [joined EXCEPT ![c] = FALSE]
      /\ channel_entry' = [channel_entry EXCEPT ![c] = 0]
      /\ added' = [added EXCEPT ![c] = FALSE]
  BY DEF Drop
<1>2. Ranked'
  BY <1>1 DEF TypeOK, EntryInv, Ranked
<1>3. EntryIsOwn'
  BY <1>1 DEF TypeOK, EntryInv, EntryIsOwn
<1>4. ResolvedOnce'
  <2>1. \A r \in resolves : r.entry > 0
    BY DEF TypeOK, Resolve, Entries
  <2> QED
    BY <1>1, <2>1 DEF TypeOK, EntryInv, ResolvedOnce
<1> QED
  BY <1>2, <1>3, <1>4 DEF EntryInv

LEMMA EntryStep == TypeOK /\ EntryInv /\ [Next]_vars => EntryInv'
<1> SUFFICES ASSUME TypeOK, EntryInv, [Next]_vars
             PROVE  EntryInv'
  OBVIOUS
<1>1. ASSUME NEW c \in Channels, ChannelConnectionInit(c)
      PROVE  EntryInv'
  <2>1. /\ born[c] = 0 /\ clock' = clock + 1
        /\ born' = [born EXCEPT ![c] = clock + 1]
        /\ UNCHANGED <<joined, channel_entry, added, libEntry, leaving, resolves>>
    BY <1>1 DEF ChannelConnectionInit
  <2>2. clock \in Nat /\ born \in [Channels -> Nat]
    BY DEF TypeOK
  <2>3. Ranked'
    BY <2>1, <2>2 DEF EntryInv, Ranked
  <2>4. EntryIsOwn'
    BY <2>1, <2>2 DEF EntryInv, EntryIsOwn
  <2>5. ResolvedOnce'
    <3>1. \A r \in resolves : r.entry \in Nat /\ r.entry <= clock
      BY DEF TypeOK, Resolve, Entries, EntryInv, ResolvedOnce
    <3> QED
      BY <2>1, <2>2, <3>1 DEF EntryInv, ResolvedOnce
  <2> QED
    BY <2>3, <2>4, <2>5 DEF EntryInv
<1>2. ASSUME NEW c \in Channels, ChannelPart(c)
      PROVE  EntryInv'
  <2>1. \A d \in Channels \ {c} :
          libEntry'[d] = libEntry[d] /\ leaving'[d] = leaving[d]
    BY <1>2 DEF TypeOK, ChannelPart
  <2> QED
    BY <1>2, <2>1, EntryDrop DEF ChannelPart
<1>3. ASSUME NEW c \in Channels, LeaveReply(c)
      PROVE  EntryInv'
  <2>1. /\ leaving[c]
        /\ leaving' = [leaving EXCEPT ![c] = FALSE]
        /\ libEntry' = [libEntry EXCEPT ![c] = 0]
        /\ UNCHANGED <<born, joined, channel_entry, added, resolves, clock>>
    BY <1>3 DEF LeaveReply, Forget, chconnVars
  <2>2. EntryIsOwn'
    BY <2>1 DEF TypeOK, EntryInv, EntryIsOwn
  <2> QED
    BY <2>1, <2>2 DEF EntryInv, Ranked, ResolvedOnce
<1>4. ASSUME NEW c \in Channels, JoinReply(c)
      PROVE  EntryInv'
  <2>1. CASE Die("join_reply_278") \/ Die("lookup_165")
    BY <2>1, EntryFrame DEF Die, chconnVars, libVars
  <2>2. CASE ~(Die("join_reply_278") \/ Die("lookup_165"))
    <3>0. /\ born[c] > 0 /\ ~leaving[c]
          /\ UNCHANGED <<leaving, clock>>
          /\ \/ \E members \in SUBSET Users : JoinReplyOK(c, members)
             \/ \E e \in {0, libEntry[c]} : JoinReplyError(c, e)
      BY <1>4, <2>2 DEF JoinReply, Found
    <3>1. ASSUME NEW members \in SUBSET Users, JoinReplyOK(c, members)
          PROVE  EntryInv'
      <4>1. /\ libEntry[c] = 0
            /\ libEntry' = [libEntry EXCEPT ![c] = born[c]]
            /\ channel_entry' = [channel_entry EXCEPT ![c] = born[c]]
            /\ joined' = [joined EXCEPT ![c] = TRUE]
            /\ resolves' = resolves \cup EventJoined(c)
            /\ UNCHANGED <<born, added>>
        BY <3>1 DEF JoinReplyOK
      <4>2. ~joined[c] /\ ~added[c]
        BY <3>0, <4>1 DEF TypeOK, EntryInv, EntryIsOwn
      <4>3. Ranked'
        BY <3>0, <4>1 DEF EntryInv, Ranked
      <4>4. EntryIsOwn'
        BY <3>0, <4>1, <4>2 DEF TypeOK, EntryInv, EntryIsOwn
      <4>5. ResolvedOnce'
        <5> DEFINE q == [chan |-> c, entry |-> born[c], retry |-> 0]
        <5>1. resolves' = resolves \cup {q}
          BY <4>1, <4>2 DEF EventJoined
        <5>2. \A r \in resolves : r.entry # born[c]
          BY <4>2 DEF EntryInv, ResolvedOnce
        <5>3. /\ q.entry = born[c] /\ q.chan = c /\ born[c] <= clock
              /\ \A d \in Channels : born[d] = born[c] => d = c
          BY <3>0 DEF EntryInv, Ranked
        <5> HIDE DEF q
        <5>4. ASSUME NEW r \in resolves'
              PROVE  /\ r.entry <= clock'
                     /\ \A d \in Channels : born'[d] = r.entry
                          => d = r.chan /\ joined'[d] /\ ~added'[d]
                     /\ \A s \in resolves' : s.entry = r.entry => s = r
          <6>1. CASE r = q
            BY <3>0, <4>1, <4>2, <5>1, <5>2, <5>3, <6>1 DEF TypeOK
          <6>2. CASE r \in resolves
            BY <3>0, <4>1, <5>1, <5>2, <5>3, <6>2
               DEF TypeOK, EntryInv, ResolvedOnce
          <6> QED
            BY <5>1, <6>1, <6>2
        <5> QED
          BY <5>4 DEF ResolvedOnce
      <4> QED
        BY <4>3, <4>4, <4>5 DEF EntryInv
    <3>2. ASSUME NEW e \in {0, libEntry[c]}, JoinReplyError(c, e)
          PROVE  EntryInv'
      <4>1. CASE joined[c]
        <5>1. /\ channel_entry' = [channel_entry EXCEPT ![c] = e]
              /\ UNCHANGED <<born, joined, added, libEntry, resolves>>
          BY <3>2, <4>1 DEF JoinReplyError
        <5>2. EntryIsOwn'
          BY <3>0, <4>1, <5>1 DEF TypeOK, EntryInv, EntryIsOwn
        <5> QED
          BY <3>0, <5>1, <5>2 DEF EntryInv, Ranked, ResolvedOnce
      <4>2. CASE ~joined[c]
        BY <3>0, <3>2, <4>2, EntryDrop DEF JoinReplyError
      <4> QED
        BY <4>1, <4>2
    <3> QED
      BY <3>0, <3>1, <3>2
  <2> QED
    BY <2>1, <2>2
<1>5. ASSUME NEW c \in Channels, RefreshOf(c)
      PROVE  EntryInv'
  <2>1. PICK r \in resolves, clients \in BOOLEAN :
          r.chan = c /\ RefreshResolved(r, clients)
    BY <1>5 DEF RefreshOf
  <2>2. r \in Resolve
    BY <2>1 DEF TypeOK
  <2>3. CASE Die(LookupFault(r.entry, "refresh_196"))
    BY <2>3, EntryFrame DEF Die, chconnVars, libVars
  <2>4. CASE /\ resolves' = (resolves \ {r}) \cup {[r EXCEPT !.retry = @ + 1]}
             /\ UNCHANGED <<chconnVars, libEntry, leaving, clock>>
    <3> DEFINE q == [r EXCEPT !.retry = @ + 1]
    <3>1. q.entry = r.entry /\ q.chan = r.chan
      BY <2>2 DEF Resolve
    <3> HIDE DEF q
    <3>2. ResolvedOnce'
      <4>1. ASSUME NEW s \in resolves'
            PROVE  \E t \in resolves : t.entry = s.entry /\ t.chan = s.chan
        BY <2>1, <2>4, <3>1 DEF q
      <4>2. ASSUME NEW s \in resolves', NEW t \in resolves',
                   s.entry = t.entry
            PROVE  s = t
        BY <2>1, <2>4, <3>1, <4>2 DEF q, EntryInv, ResolvedOnce
      <4> QED
        BY <2>4, <4>1, <4>2 DEF EntryInv, ResolvedOnce, chconnVars
    <3> QED
      BY <2>4, <3>2 DEF EntryInv, Ranked, EntryIsOwn, chconnVars
  <2>5. CASE /\ LookupFault(r.entry, "refresh_196") = "none"
             /\ resolves' = resolves \ {r}
             /\ added' = [added EXCEPT ![r.chan] = TRUE]
             /\ UNCHANGED <<born, joined, channel_entry, libEntry, leaving, clock>>
    <3>1. PICK d \in Channels : born[d] > 0 /\ channel_entry[d] = r.entry
      BY <2>5 DEF LookupFault, Holding
    <3>2. born[d] = r.entry
      BY <2>2, <3>1 DEF EntryInv, EntryIsOwn, Resolve, Entries
    <3>3. d = r.chan /\ joined[r.chan] /\ r.entry = born[r.chan]
      BY <2>1, <3>2 DEF EntryInv, ResolvedOnce
    <3>4. EntryIsOwn'
      BY <2>5, <3>3 DEF TypeOK, EntryInv, EntryIsOwn
    <3>5. ResolvedOnce'
      <4>1. \A s \in resolves' : s \in resolves /\ s.entry # born[r.chan]
        BY <2>1, <2>5, <3>3 DEF EntryInv, ResolvedOnce
      <4> QED
        BY <2>5, <4>1 DEF TypeOK, EntryInv, ResolvedOnce
    <3> QED
      BY <2>5, <3>4, <3>5 DEF EntryInv, Ranked
  <2> QED
    BY <2>1, <2>3, <2>4, <2>5 DEF RefreshResolved
<1>6. ASSUME NEW c \in Channels, NotifyKickedMe(c)
      PROVE  EntryInv'
  <2>1. /\ libEntry' = [libEntry EXCEPT ![c] = 0]
        /\ UNCHANGED <<leaving, resolves, clock>>
    BY <1>6 DEF NotifyKickedMe, Forget
  <2>2. CASE born[c] = 0
    <3>1. UNCHANGED chconnVars
      BY <1>6, <2>2 DEF NotifyKickedMe, Found
    <3>2. EntryIsOwn'
      BY <2>1, <2>2, <3>1 DEF TypeOK, EntryInv, EntryIsOwn, chconnVars
    <3> QED
      BY <2>1, <3>1, <3>2 DEF EntryInv, Ranked, ResolvedOnce, chconnVars
  <2>3. CASE born[c] # 0
    <3>1. Drop(c)
      BY <1>6, <2>3 DEF NotifyKickedMe, Found, TypeOK
    <3>2. \A d \in Channels \ {c} :
            libEntry'[d] = libEntry[d] /\ leaving'[d] = leaving[d]
      BY <2>1 DEF TypeOK
    <3> QED
      BY <2>1, <3>1, <3>2, EntryDrop
  <2> QED
    BY <2>2, <2>3
<1>7. ASSUME NEW c \in Channels,
             \/ ChannelMessage(c) \/ NotifyTopicSet(c)
             \/ TopicChangeRequest(c)
      PROVE  EntryInv'
  BY <1>7, EntryFrame
     DEF ChannelMessage, NotifyTopicSet, Deliver, TopicChangeRequest,
         chconnVars, libVars
<1>8. ASSUME NEW u \in Users, NEW c \in Channels,
             NotifyJoin(u, c) \/ NotifyLeave(u, c) \/ NotifyKicked(u, c)
      PROVE  EntryInv'
  BY <1>8, EntryFrame
     DEF NotifyJoin, NotifyLeave, NotifyKicked, Die, chconnVars, libVars
<1>9. ASSUME NEW u \in Users,
             \/ NotifySignoff(u)
             \/ \E n \in Nicks : NotifyNickChange(u, n) \/ NewClientEntry(u, n)
      PROVE  EntryInv'
  BY <1>9, EntryFrame
     DEF NotifySignoff, NotifyNickChange, NewClientEntry, Die, chconnVars, libVars
<1>10. CASE UNCHANGED vars
  BY <1>10, EntryFrame DEF vars, chconnVars, libVars
<1> QED
  BY <1>1, <1>2, <1>3, <1>4, <1>5, <1>6, <1>7, <1>8, <1>9, <1>10 DEF Next

\* Each connection holds its own entry or NULL, and each resolution is the only
\* one of a channel connection that has not shown its presences, or of one that
\* is gone, in every behaviour the core and the library can produce.
THEOREM EntriesCorrect == Spec => []EntryInv
<1>1. Init => EntryInv
  BY ConstantsAssumption
     DEF Init, EntryInv, Ranked, EntryIsOwn, ResolvedOnce
<1> QED
  BY <1>1, EntryStep, TypeCorrect, PTL DEF Spec
-----------------------------------------------------------------------------
\* What a removal leaves was there before.
LEMMA RemovePresenceShrinks ==
  ASSUME TypeOK, NEW c \in Channels, NEW n \in Nicks, RemovePresence(c, n)
  PROVE  \A d \in Channels, m \in Nicks : presences'[d][m] <= presences[d][m]
<1>1. CASE OnChannel(c, n) = {}
  BY <1>1 DEF TypeOK, RemovePresence
<1>2. CASE OnChannel(c, n) # {}
  <2>1. PICK k \in OnChannel(c, n) :
          presences' = [presences EXCEPT ![c][k] = @ - 1]
    BY <1>2 DEF RemovePresence
  <2>2. k \in Nicks
    BY <2>1 DEF OnChannel
  <2> QED
    BY <2>1, <2>2 DEF TypeOK
<1> QED
  BY <1>1, <1>2

\* Counts that do not grow stay within the bound.
LEMMA BoundShrinks ==
  ASSUME TypeOK, TypeOK', DuplicateBound, UNCHANGED added,
         \A c \in Channels, n \in Nicks : presences'[c][n] <= presences[c][n]
  PROVE  DuplicateBound'
BY DEF TypeOK, DuplicateBound

LEMMA BoundDrop ==
  ASSUME TypeOK, DuplicateBound, NEW c \in Channels, Drop(c)
  PROVE  DuplicateBound'
BY DEF TypeOK, DuplicateBound, Drop, Nobody

LEMMA DuplicateStep ==
  TypeOK /\ TypeOK' /\ EntryInv /\ DuplicateBound /\ [Next]_vars
    => DuplicateBound'
<1> SUFFICES ASSUME TypeOK, TypeOK', EntryInv, DuplicateBound, [Next]_vars
             PROVE  DuplicateBound'
  OBVIOUS
<1>1. ASSUME NEW c \in Channels,
             \/ ChannelConnectionInit(c) \/ LeaveReply(c)
             \/ ChannelMessage(c) \/ NotifyTopicSet(c)
             \/ TopicChangeRequest(c)
      PROVE  DuplicateBound'
  BY <1>1
     DEF DuplicateBound, ChannelConnectionInit, LeaveReply, ChannelMessage,
         NotifyTopicSet, Deliver, TopicChangeRequest, chconnVars
<1>2. ASSUME NEW c \in Channels, ChannelPart(c) \/ NotifyKickedMe(c)
      PROVE  DuplicateBound'
  BY <1>2, BoundDrop DEF DuplicateBound, ChannelPart, NotifyKickedMe, chconnVars
<1>3. ASSUME NEW c \in Channels, JoinReply(c)
      PROVE  DuplicateBound'
  <2>1. Drop(c) \/ UNCHANGED <<added, presences>>
    BY <1>3 DEF JoinReply, JoinReplyOK, JoinReplyError, Die, chconnVars
  <2> QED
    BY <2>1, BoundDrop DEF DuplicateBound
<1>4. ASSUME NEW c \in Channels, RefreshOf(c)
      PROVE  DuplicateBound'
  <2>1. PICK r \in resolves, clients \in BOOLEAN :
          r.chan = c /\ RefreshResolved(r, clients)
    BY <1>4 DEF RefreshOf
  <2>2. r \in Resolve
    BY <2>1 DEF TypeOK
  <2>3. CASE UNCHANGED <<added, presences>>
    BY <2>3 DEF DuplicateBound
  <2>4. CASE /\ LookupFault(r.entry, "refresh_196") = "none"
             /\ AddUserList(r.chan, Resolved(r.chan, clients))
             /\ added' = [added EXCEPT ![r.chan] = TRUE]
    <3>1. PICK d \in Channels : born[d] > 0 /\ channel_entry[d] = r.entry
      BY <2>4 DEF LookupFault, Holding
    <3>2. born[d] = r.entry
      BY <2>2, <3>1 DEF EntryInv, EntryIsOwn, Resolve, Entries
    <3>3. ~added[c]
      BY <2>1, <3>2 DEF EntryInv, ResolvedOnce
    <3>4. ASSUME NEW n \in Nicks
          PROVE  presences'[c][n] <= 2
      <4>1. presences'[c][n] \in {presences[c][n], presences[c][n] + 1}
        BY <2>1, <2>4 DEF TypeOK, AddUserList
      <4>2. presences[c][n] \in Nat /\ presences[c][n] <= 1
        BY <3>3 DEF TypeOK, DuplicateBound
      <4> QED
        BY <4>1, <4>2
    <3>5. ASSUME NEW e \in Channels \ {c}
          PROVE  presences'[e] = presences[e] /\ added'[e] = added[e]
      BY <2>1, <2>4 DEF TypeOK, AddUserList
    <3>6. added'[c] = TRUE
      BY <2>1, <2>4 DEF TypeOK
    <3> QED
      BY <3>4, <3>5, <3>6 DEF DuplicateBound
  <2> QED
    BY <2>1, <2>3, <2>4 DEF RefreshResolved, Die, chconnVars
<1>5. ASSUME NEW u \in Users, NEW c \in Channels, NotifyJoin(u, c)
      PROVE  DuplicateBound'
  <2>1. nick[u] \in Nicks
    BY DEF TypeOK
  <2>2. CASE UNCHANGED presences
    BY <1>5, <2>2 DEF DuplicateBound, NotifyJoin, Die, chconnVars
  <2>3. CASE /\ ShouldAdd(c, nick[u])
             /\ presences' = [presences EXCEPT ![c][nick[u]] = @ + 1]
             /\ added' = added
    <3>1. presences[c][nick[u]] = 0
      BY <2>1, <2>3 DEF TypeOK, ShouldAdd, Known, OnChannel
    <3> QED
      BY <2>1, <2>3, <3>1 DEF TypeOK, DuplicateBound
  <2> QED
    <3>1. CASE Die("notify_join_162")
      BY <2>2, <3>1 DEF Die, chconnVars
    <3>2. CASE ~Die("notify_join_162")
      <4>1. CASE ShouldAdd(c, nick[u])
        BY <1>5, <2>3, <3>2, <4>1 DEF NotifyJoin
      <4>2. CASE ~ShouldAdd(c, nick[u])
        <5>1. /\ presences' = [presences EXCEPT ![c][nick[u]] = @]
              /\ UNCHANGED added
          BY <1>5, <3>2, <4>2 DEF NotifyJoin
        <5>2. \A d \in Channels, n \in Nicks :
                presences'[d][n] <= presences[d][n]
          BY <2>1, <5>1 DEF TypeOK
        <5> QED
          BY <5>1, <5>2, BoundShrinks
      <4> QED
        BY <4>1, <4>2
    <3> QED
      BY <3>1, <3>2
<1>6. ASSUME NEW u \in Users, NEW c \in Channels,
             NotifyLeave(u, c) \/ NotifyKicked(u, c)
      PROVE  DuplicateBound'
  <2>1. nick[u] \in Nicks
    BY DEF TypeOK
  <2>2. UNCHANGED added /\ (RemovePresence(c, nick[u]) \/ UNCHANGED presences)
    BY <1>6 DEF NotifyLeave, NotifyKicked, Die, chconnVars
  <2> QED
    BY <2>1, <2>2, RemovePresenceShrinks, BoundShrinks DEF DuplicateBound
<1>7. ASSUME NEW u \in Users, NotifySignoff(u)
      PROVE  DuplicateBound'
  <2>1. UNCHANGED added
    BY <1>7 DEF NotifySignoff
  <2>2. ASSUME NEW c \in Channels, NEW n \in Nicks
        PROVE  presences'[c][n] <= presences[c][n]
    BY <1>7 DEF TypeOK, NotifySignoff
  <2> QED
    BY <2>1, <2>2, BoundShrinks
<1>8. ASSUME NEW u \in Users, NEW n \in Nicks, NotifyNickChange(u, n)
      PROVE  DuplicateBound'
  <2>1. UNCHANGED added
    BY <1>8 DEF NotifyNickChange, Die, chconnVars
  <2>2. ASSUME NEW c \in Channels, NEW m \in Nicks
        PROVE  \E k \in Nicks : presences'[c][m] <= presences[c][k]
    <3>1. nick[u] \in Nicks /\ presences[c] \in [Nicks -> Nat]
      BY DEF TypeOK
    <3>2. CASE ShouldRename(nick[u], n) /\ ~Die("nick_change_330")
      <4>1. presences'[c] = [presences[c] EXCEPT ![n] = presences[c][nick[u]],
                                                 ![nick[u]] = 0]
        BY <1>8, <3>2 DEF NotifyNickChange
      <4> QED
        BY <3>1, <4>1
    <3>3. CASE ~ShouldRename(nick[u], n) \/ Die("nick_change_330")
      <4>1. presences' = presences
        BY <1>8, <3>3 DEF NotifyNickChange, Die, chconnVars
      <4> QED
        BY <3>1, <4>1
    <3> QED
      BY <3>2, <3>3
  <2> QED
    BY <2>1, <2>2 DEF TypeOK, DuplicateBound
<1>9. ASSUME NEW u \in Users, NEW n \in Nicks, NewClientEntry(u, n)
      PROVE  DuplicateBound'
  BY <1>9 DEF DuplicateBound, NewClientEntry, chconnVars
<1>10. CASE UNCHANGED vars
  BY <1>10 DEF DuplicateBound, vars, chconnVars
<1> QED
  BY <1>1, <1>2, <1>3, <1>4, <1>5, <1>6, <1>7, <1>8, <1>9, <1>10 DEF Next

\* However joins, leaves, nickname changes, kicks and resolutions interleave, a
\* name is on a channel once before its initial presences are added and at most
\* twice afterwards.
THEOREM ShownAtMostTwice == Spec => []DuplicateBound
<1>1. Init => DuplicateBound
  BY DEF Init, DuplicateBound, Nobody
<1> QED
  BY <1>1, DuplicateStep, TypeCorrect, EntriesCorrect, PTL DEF Spec
-----------------------------------------------------------------------------
\* Unless the core parts a channel, a JOIN without a reply is that of a connection
\* that waits for it, and a channel the library is on has a joined connection with
\* its entry.
OneJoinEach ==
  \A c \in Channels :
    /\ ~leaving[c]
    /\ joins[c] = IF Pending(c) THEN 1 ELSE 0
    /\ libEntry[c] # 0 => joined[c]
    /\ joined[c] => channel_entry[c] = born[c]

\* Joining one channel at a time, the connection that waits for its JOIN reply is
\* the last in the array.
PendingIsLast ==
  \A p, c \in Channels : Pending(p) /\ c # p => born[c] < born[p]

\* A channel whose user list is being resolved is joined, and has been since.
ResolvedIsJoined ==
  \A r \in resolves : joined[r.chan] /\ r.entry = born[r.chan]

\* A user whose nickname the library has not got is on a channel whose user list
\* is being resolved.
NamedUnlessResolving ==
  \A c \in Channels :
    user_list[c] \subseteq named \/ \E r \in resolves : r.chan = c

\* What keeps FaultHasCause true, each part as long as Env leaves out what breaks
\* it.
CauseInv ==
  /\ "part" \notin Env => OneJoinEach
  /\ "concurrent_joins" \notin Env => PendingIsLast
  /\ {"part", "kick_in_window"} \cap Env = {} => ResolvedIsJoined
  /\ {"async", "unresolved"} \cap Env = {} => NamedUnlessResolving
  /\ FaultHasCause

\* Without a part, a lookup by the entry of a joined channel finds that channel,
\* unless a connection that waits for its JOIN reply comes before it in the array.
LEMMA LookupFinds ==
  ASSUME TypeOK, EntryInv, OneJoinEach,
         NEW c \in Channels, joined[c], NEW notFound
  PROVE  /\ LookupFault(born[c], notFound) \in {"none", "lookup_entry_149"}
         /\ PendingIsLast => LookupFault(born[c], notFound) = "none"
<1>1. c \in Holding(born[c])
  BY DEF OneJoinEach, Holding, EntryInv, EntryIsOwn
<1>2. ASSUME PendingIsLast
      PROVE  ~Blocked(born[c])
  <2>1. ASSUME NEW p \in Holding(0)
        PROVE  Pending(p) /\ p # c
    BY <2>1 DEF Holding, Pending, OneJoinEach
  <2>2. ASSUME NEW p \in Holding(0)
        PROVE  born[c] < born[p]
    BY <1>2, <2>1, <2>2 DEF Holding, PendingIsLast
  <2>3. ASSUME NEW p \in Holding(0)
        PROVE  ~(born[p] < born[c])
    BY <2>2, <2>3 DEF TypeOK, Holding
  <2> QED
    BY <1>1, <2>3 DEF Blocked
<1> QED
  BY <1>1, <1>2 DEF LookupFault

LEMMA OneJoinEachStep ==
  ASSUME "part" \notin Env, TypeOK, EntryInv, OneJoinEach, [Next]_vars
  PROVE  OneJoinEach'
<1>1. ASSUME UNCHANGED <<born, joined, channel_entry, libEntry, joins, leaving>>
      PROVE  OneJoinEach'
  BY <1>1 DEF OneJoinEach, Pending
<1>2. ASSUME NEW c \in Channels, ChannelConnectionInit(c)
      PROVE  OneJoinEach'
  <2>1. /\ born[c] = 0
        /\ born' = [born EXCEPT ![c] = clock + 1]
        /\ joins' = [joins EXCEPT ![c] = @ + 1]
        /\ UNCHANGED <<joined, channel_entry, libEntry, leaving>>
    BY <1>2 DEF ChannelConnectionInit
  <2>2. clock \in Nat /\ born \in [Channels -> Nat] /\ joins \in [Channels -> Nat]
    BY DEF TypeOK
  <2>3. ~joined[c] /\ joins[c] = 0
    BY <2>1, <2>2 DEF EntryInv, EntryIsOwn, OneJoinEach, Pending
  <2> QED
    BY <2>1, <2>2, <2>3 DEF OneJoinEach, Pending
<1>3. ASSUME NEW c \in Channels, ChannelPart(c) \/ LeaveReply(c)
      PROVE  OneJoinEach'
  BY <1>3 DEF ChannelPart, LeaveReply, OneJoinEach
<1>4. ASSUME NEW c \in Channels, JoinReply(c)
      PROVE  OneJoinEach'
  <2>1. Pending(c) /\ joins[c] = 1
    BY <1>4 DEF JoinReply, OneJoinEach, Pending, TypeOK
  <2> SUFFICES ASSUME ~Die("lookup_165") PROVE OneJoinEach'
    BY <1>1 DEF Die, chconnVars, libVars
  <2>2. /\ joins' = [joins EXCEPT ![c] = @ - 1]
        /\ UNCHANGED leaving
        /\ \/ \E members \in SUBSET Users : JoinReplyOK(c, members)
           \/ \E e \in {0, libEntry[c]} : JoinReplyError(c, e)
    <3>1. Found(c)
      BY <2>1 DEF Pending, Found
    <3> QED
      BY <1>4, <3>1, Zenon DEF JoinReply
  <2>3. joins'[c] = 0 /\ \A d \in Channels \ {c} : joins'[d] = joins[d]
    BY <2>1, <2>2 DEF TypeOK
  <2>4. ASSUME NEW members \in SUBSET Users, JoinReplyOK(c, members)
        PROVE  OneJoinEach'
    <3>1. /\ libEntry' = [libEntry EXCEPT ![c] = born[c]]
          /\ channel_entry' = [channel_entry EXCEPT ![c] = born[c]]
          /\ joined' = [joined EXCEPT ![c] = TRUE]
          /\ UNCHANGED born
      BY <2>4 DEF JoinReplyOK
    <3> QED
      BY <2>2, <2>3, <3>1 DEF TypeOK, OneJoinEach, Pending
  <2>5. ASSUME NEW e \in {0, libEntry[c]}, JoinReplyError(c, e)
        PROVE  OneJoinEach'
    <3>1. /\ born' = [born EXCEPT ![c] = 0]
          /\ joined' = [joined EXCEPT ![c] = FALSE]
          /\ channel_entry' = [channel_entry EXCEPT ![c] = 0]
          /\ UNCHANGED libEntry
      BY <2>1, <2>5 DEF JoinReplyError, Drop, Pending
    <3>2. libEntry[c] = 0
      BY <2>1 DEF OneJoinEach, Pending
    <3> QED
      BY <2>2, <2>3, <3>1, <3>2 DEF TypeOK, OneJoinEach, Pending
  <2> QED
    BY <2>2, <2>4, <2>5
<1>5. ASSUME NEW c \in Channels, NotifyKickedMe(c)
      PROVE  OneJoinEach'
  <2>1. /\ libEntry[c] # 0
        /\ libEntry' = [libEntry EXCEPT ![c] = 0]
        /\ UNCHANGED <<joins, leaving>>
    BY <1>5 DEF NotifyKickedMe, Forget
  <2>2. joined[c] /\ born[c] > 0 /\ joins[c] = 0
    BY <2>1 DEF OneJoinEach, EntryInv, EntryIsOwn, Pending
  <2>3. /\ born' = [born EXCEPT ![c] = 0]
        /\ joined' = [joined EXCEPT ![c] = FALSE]
        /\ channel_entry' = [channel_entry EXCEPT ![c] = 0]
    BY <1>5, <2>2 DEF NotifyKickedMe, Drop, Found
  <2> QED
    BY <2>1, <2>2, <2>3 DEF TypeOK, OneJoinEach, Pending
<1>6. ASSUME NEW c \in Channels, RefreshOf(c)
      PROVE  OneJoinEach'
  BY <1>1, <1>6 DEF RefreshOf, RefreshResolved, Die, chconnVars, libVars
<1>7. ASSUME NEW u \in Users, NEW c \in Channels,
             NotifyJoin(u, c) \/ NotifyLeave(u, c) \/ NotifyKicked(u, c)
      PROVE  OneJoinEach'
  BY <1>1, <1>7
     DEF NotifyJoin, NotifyLeave, NotifyKicked, Die, chconnVars, libVars
<1>8. ASSUME NEW u \in Users,
             \/ NotifySignoff(u)
             \/ \E n \in Nicks : NotifyNickChange(u, n) \/ NewClientEntry(u, n)
      PROVE  OneJoinEach'
  BY <1>1, <1>8
     DEF NotifySignoff, NotifyNickChange, NewClientEntry, Die, chconnVars, libVars
<1>9. ASSUME NEW c \in Channels,
             ChannelMessage(c) \/ NotifyTopicSet(c) \/ TopicChangeRequest(c)
      PROVE  OneJoinEach'
  BY <1>1, <1>9
     DEF ChannelMessage, NotifyTopicSet, Deliver, TopicChangeRequest, chconnVars,
         libVars
<1>10. CASE UNCHANGED vars
  BY <1>1, <1>10 DEF vars, chconnVars, libVars
<1> QED
  BY <1>2, <1>3, <1>4, <1>5, <1>6, <1>7, <1>8, <1>9, <1>10 DEF Next

LEMMA PendingIsLastStep ==
  ASSUME "concurrent_joins" \notin Env,
         TypeOK, EntryInv, PendingIsLast, [Next]_vars
  PROVE  PendingIsLast'
<1>1. ASSUME NEW c \in Channels,
             \/ Drop(c)
             \/ UNCHANGED born /\ joined' = [joined EXCEPT ![c] = TRUE]
             \/ UNCHANGED <<born, joined>>
      PROVE  PendingIsLast'
  <2>1. \A d \in Channels :
          /\ born'[d] = 0 \/ born'[d] = born[d]
          /\ Pending(d)' => Pending(d) /\ born'[d] = born[d]
    BY <1>1 DEF TypeOK, Drop, Pending
  <2>2. \A d \in Channels : Pending(d)' => born'[d] > 0
    BY DEF Pending
  <2> QED
    BY <2>1, <2>2 DEF PendingIsLast
<1>2. ASSUME UNCHANGED <<born, joined>>
      PROVE  PendingIsLast'
  BY <1>2 DEF PendingIsLast, Pending
<1>3. ASSUME NEW c \in Channels, ChannelConnectionInit(c)
      PROVE  PendingIsLast'
  <2>1. /\ born[c] = 0
        /\ born' = [born EXCEPT ![c] = clock + 1]
        /\ \A d \in Channels : ~Pending(d)
        /\ UNCHANGED joined
    BY <1>3 DEF ChannelConnectionInit
  <2>2. clock \in Nat /\ \A d \in Channels : born[d] \in Nat /\ born[d] <= clock
    BY DEF TypeOK, EntryInv, Ranked
  <2>3. \A d \in Channels : Pending(d)' => d = c
    BY <2>1, <2>2 DEF TypeOK, Pending
  <2> QED
    BY <2>1, <2>2, <2>3 DEF PendingIsLast, TypeOK
<1>4. ASSUME NEW c \in Channels, ChannelPart(c) \/ LeaveReply(c) \/ JoinReply(c)
      PROVE  PendingIsLast'
  <2>1. \/ Drop(c)
        \/ UNCHANGED born /\ joined' = [joined EXCEPT ![c] = TRUE]
        \/ UNCHANGED <<born, joined>>
    BY <1>4
       DEF ChannelPart, LeaveReply, JoinReply, JoinReplyOK, JoinReplyError, Die,
           chconnVars
  <2> QED
    BY <1>1, <2>1
<1>5. ASSUME NEW c \in Channels, NotifyKickedMe(c)
      PROVE  PendingIsLast'
  <2>1. Drop(c) \/ UNCHANGED <<born, joined>>
    BY <1>5 DEF NotifyKickedMe, chconnVars
  <2> QED
    BY <1>1, <2>1
<1>6. ASSUME NEW c \in Channels, RefreshOf(c)
      PROVE  PendingIsLast'
  BY <1>2, <1>6 DEF RefreshOf, RefreshResolved, Die, chconnVars
<1>7. ASSUME NEW u \in Users, NEW c \in Channels,
             NotifyJoin(u, c) \/ NotifyLeave(u, c) \/ NotifyKicked(u, c)
      PROVE  PendingIsLast'
  BY <1>2, <1>7 DEF NotifyJoin, NotifyLeave, NotifyKicked, Die, chconnVars
<1>8. ASSUME NEW u \in Users,
             \/ NotifySignoff(u)
             \/ \E n \in Nicks : NotifyNickChange(u, n) \/ NewClientEntry(u, n)
      PROVE  PendingIsLast'
  BY <1>2, <1>8
     DEF NotifySignoff, NotifyNickChange, NewClientEntry, Die, chconnVars
<1>9. ASSUME NEW c \in Channels,
             ChannelMessage(c) \/ NotifyTopicSet(c) \/ TopicChangeRequest(c)
      PROVE  PendingIsLast'
  BY <1>2, <1>9
     DEF ChannelMessage, NotifyTopicSet, Deliver, TopicChangeRequest, chconnVars
<1>10. CASE UNCHANGED vars
  BY <1>2, <1>10 DEF vars, chconnVars
<1> QED
  BY <1>3, <1>4, <1>5, <1>6, <1>7, <1>8, <1>9, <1>10 DEF Next

LEMMA ResolvedIsJoinedStep ==
  ASSUME {"part", "kick_in_window"} \cap Env = {},
         TypeOK, EntryInv, ResolvedIsJoined, [Next]_vars
  PROVE  ResolvedIsJoined'
<1>1. ASSUME UNCHANGED <<born, joined, resolves>>
      PROVE  ResolvedIsJoined'
  BY <1>1 DEF ResolvedIsJoined
<1>2. ASSUME NEW c \in Channels, Drop(c), \A r \in resolves : r.chan # c,
             UNCHANGED resolves
      PROVE  ResolvedIsJoined'
  <2>1. \A r \in resolves : r.chan \in Channels
    BY DEF TypeOK, Resolve
  <2> QED
    BY <1>2, <2>1 DEF Drop, TypeOK, ResolvedIsJoined
<1>3. ASSUME NEW c \in Channels, ~joined[c]
      PROVE  \A r \in resolves : r.chan # c
  BY <1>3 DEF ResolvedIsJoined
<1>4. ASSUME NEW c \in Channels, ChannelConnectionInit(c)
      PROVE  ResolvedIsJoined'
  <2>1. /\ born[c] = 0 /\ born' = [born EXCEPT ![c] = clock + 1]
        /\ UNCHANGED <<joined, resolves>>
    BY <1>4 DEF ChannelConnectionInit
  <2>2. \A r \in resolves : r.chan \in Channels /\ r.chan # c
    BY <1>3, <2>1 DEF EntryInv, EntryIsOwn, TypeOK, Resolve
  <2> QED
    BY <2>1, <2>2 DEF ResolvedIsJoined, TypeOK
<1>5. ASSUME NEW c \in Channels, ChannelPart(c) \/ LeaveReply(c)
      PROVE  ResolvedIsJoined'
  BY <1>1, <1>5 DEF ChannelPart, LeaveReply, chconnVars
<1>6. ASSUME NEW c \in Channels, JoinReply(c)
      PROVE  ResolvedIsJoined'
  <2>1. ASSUME NEW members \in SUBSET Users, JoinReplyOK(c, members)
        PROVE  ResolvedIsJoined'
    <3>1. /\ joined' = [joined EXCEPT ![c] = TRUE]
          /\ resolves' = resolves \cup EventJoined(c)
          /\ UNCHANGED born
      BY <2>1 DEF JoinReplyOK
    <3>2. \A r \in EventJoined(c) : r.chan = c /\ r.entry = born[c]
      BY DEF EventJoined
    <3> QED
      BY <3>1, <3>2 DEF ResolvedIsJoined, TypeOK, Resolve
  <2>2. ASSUME NEW e \in {0, libEntry[c]}, JoinReplyError(c, e)
        PROVE  ResolvedIsJoined'
    <3>1. CASE joined[c]
      BY <1>1, <2>2, <3>1 DEF JoinReplyError
    <3>2. CASE ~joined[c]
      BY <1>2, <1>3, <2>2, <3>2 DEF JoinReplyError
    <3> QED
      BY <3>1, <3>2
  <2>3. CASE Die("join_reply_278") \/ Die("lookup_165")
    BY <1>1, <2>3 DEF Die, chconnVars, libVars
  <2> QED
    BY <1>6, <2>1, <2>2, <2>3, Zenon DEF JoinReply
<1>7. ASSUME NEW c \in Channels, NotifyKickedMe(c)
      PROVE  ResolvedIsJoined'
  <2>1. /\ \A r \in resolves : r.chan # c
        /\ UNCHANGED resolves
        /\ Drop(c) \/ UNCHANGED <<born, joined>>
    BY <1>7 DEF NotifyKickedMe, chconnVars
  <2> QED
    BY <1>1, <1>2, <2>1
<1>8. ASSUME NEW c \in Channels, RefreshOf(c)
      PROVE  ResolvedIsJoined'
  <2>1. PICK r \in resolves, clients \in BOOLEAN : RefreshResolved(r, clients)
    BY <1>8 DEF RefreshOf
  <2>2. /\ UNCHANGED <<born, joined>>
        /\ \/ UNCHANGED resolves
           \/ resolves' = resolves \ {r}
           \/ resolves' = (resolves \ {r}) \cup {[r EXCEPT !.retry = @ + 1]}
    BY <2>1 DEF RefreshResolved, Die, chconnVars, libVars
  <2>3. /\ [r EXCEPT !.retry = @ + 1].chan = r.chan
        /\ [r EXCEPT !.retry = @ + 1].entry = r.entry
    <3>1. r \in Resolve
      BY <2>1 DEF TypeOK
    <3> QED
      BY <3>1 DEF Resolve
  <2> QED
    BY <2>1, <2>2, <2>3 DEF ResolvedIsJoined
<1>9. ASSUME NEW u \in Users, NEW c \in Channels,
             NotifyJoin(u, c) \/ NotifyLeave(u, c) \/ NotifyKicked(u, c)
      PROVE  ResolvedIsJoined'
  BY <1>1, <1>9
     DEF NotifyJoin, NotifyLeave, NotifyKicked, Die, chconnVars, libVars
<1>10. ASSUME NEW u \in Users,
              \/ NotifySignoff(u)
              \/ \E n \in Nicks : NotifyNickChange(u, n) \/ NewClientEntry(u, n)
       PROVE  ResolvedIsJoined'
  BY <1>1, <1>10
     DEF NotifySignoff, NotifyNickChange, NewClientEntry, Die, chconnVars, libVars
<1>11. ASSUME NEW c \in Channels,
              ChannelMessage(c) \/ NotifyTopicSet(c) \/ TopicChangeRequest(c)
       PROVE  ResolvedIsJoined'
  BY <1>1, <1>11
     DEF ChannelMessage, NotifyTopicSet, Deliver, TopicChangeRequest, chconnVars,
         libVars
<1>12. CASE UNCHANGED vars
  BY <1>1, <1>12 DEF vars, chconnVars, libVars
<1> QED
  BY <1>4, <1>5, <1>6, <1>7, <1>8, <1>9, <1>10, <1>11, <1>12 DEF Next

LEMMA NamedUnlessResolvingStep ==
  ASSUME "unresolved" \notin Env,
         TypeOK, EntryInv, NamedUnlessResolving, [Next]_vars
  PROVE  NamedUnlessResolving'
<1>1. ASSUME UNCHANGED <<named, resolves>>,
             \A c \in Channels : user_list'[c] \subseteq user_list[c]
      PROVE  NamedUnlessResolving'
  BY <1>1 DEF NamedUnlessResolving
<1>2. ASSUME UNCHANGED libVars
      PROVE  NamedUnlessResolving'
  BY <1>1, <1>2 DEF libVars
<1>3. ASSUME NEW c \in Channels, ChannelConnectionInit(c) \/ ChannelPart(c)
      PROVE  NamedUnlessResolving'
  BY <1>1, <1>3 DEF ChannelConnectionInit, ChannelPart
<1>4. ASSUME NEW c \in Channels, LeaveReply(c) \/ NotifyKickedMe(c)
      PROVE  NamedUnlessResolving'
  BY <1>1, <1>4 DEF LeaveReply, NotifyKickedMe, Forget, TypeOK
<1>5. ASSUME NEW c \in Channels, JoinReply(c)
      PROVE  NamedUnlessResolving'
  <2>1. ASSUME NEW members \in SUBSET Users, JoinReplyOK(c, members),
               UNCHANGED named
        PROVE  NamedUnlessResolving'
    <3>1. ~joined[c]
      BY <1>5, <2>1 DEF JoinReply, JoinReplyOK, EntryInv, EntryIsOwn
    <3> DEFINE q == [chan |-> c, entry |-> born[c], retry |-> 0]
    <3>2. /\ user_list' = [user_list EXCEPT ![c] = members]
          /\ resolves' = resolves \cup {q}
      BY <2>1, <3>1 DEF JoinReplyOK, EventJoined
    <3>3. q.chan = c
      OBVIOUS
    <3> HIDE DEF q
    <3>4. \A d \in Channels \ {c} : user_list'[d] = user_list[d]
      BY <3>2 DEF TypeOK
    <3>5. resolves \subseteq resolves'
      BY <3>2
    <3> QED
      BY <2>1, <3>2, <3>3, <3>4, <3>5 DEF NamedUnlessResolving
  <2>2. ASSUME NEW e \in {0, libEntry[c]}, JoinReplyError(c, e),
               UNCHANGED named
        PROVE  NamedUnlessResolving'
    BY <1>1, <2>2 DEF JoinReplyError
  <2>3. CASE Die("join_reply_278") \/ Die("lookup_165")
    BY <1>2, <2>3 DEF Die
  <2> QED
    BY <1>5, <2>1, <2>2, <2>3, Zenon DEF JoinReply
<1>6. ASSUME NEW c \in Channels, RefreshOf(c)
      PROVE  NamedUnlessResolving'
  <2>1. PICK r \in resolves, clients \in BOOLEAN :
          r.chan = c /\ RefreshResolved(r, clients)
    BY <1>6 DEF RefreshOf
  <2>2. clients
    BY <2>1 DEF RefreshResolved
  <2>3. \/ UNCHANGED libVars
        \/ /\ resolves' = resolves \ {r}
           /\ named' = named \cup user_list[c]
           /\ UNCHANGED user_list
    BY <2>1, <2>2 DEF RefreshResolved, Resolved, Die
  <2> QED
    BY <1>2, <2>1, <2>3 DEF NamedUnlessResolving
<1>7. ASSUME NEW u \in Users, NEW c \in Channels,
             NotifyJoin(u, c) \/ NotifyLeave(u, c) \/ NotifyKicked(u, c)
      PROVE  NamedUnlessResolving'
  <2>1. CASE NotifyJoin(u, c) /\ ~Die("notify_join_162")
    <3>1. /\ user_list' = [user_list EXCEPT ![c] = @ \cup {u}]
          /\ named' = named \cup {u}
          /\ UNCHANGED resolves
      BY <2>1 DEF NotifyJoin
    <3> QED
      BY <3>1 DEF NamedUnlessResolving, TypeOK
  <2>2. CASE NotifyLeave(u, c) \/ NotifyKicked(u, c)
    <3>1. \/ UNCHANGED libVars
          \/ /\ user_list' = [user_list EXCEPT ![c] = @ \ {u}]
             /\ UNCHANGED <<named, resolves>>
      BY <2>2 DEF NotifyLeave, NotifyKicked, Die
    <3> QED
      BY <1>1, <1>2, <3>1 DEF TypeOK
  <2> QED
    BY <1>2, <1>7, <2>1, <2>2 DEF Die
<1>8. ASSUME NEW u \in Users, NotifySignoff(u)
      PROVE  NamedUnlessResolving'
  <2>1. /\ user_list' = [c \in Channels |-> user_list[c] \ {u}]
        /\ named' = named \ {u}
        /\ UNCHANGED resolves
    BY <1>8 DEF NotifySignoff
  <2> QED
    BY <2>1 DEF NamedUnlessResolving
<1>9. ASSUME NEW u \in Users, NEW n \in Nicks, NotifyNickChange(u, n)
      PROVE  NamedUnlessResolving'
  BY <1>1, <1>2, <1>9 DEF NotifyNickChange, Die
<1>10. ASSUME NEW u \in Users, NEW n \in Nicks, NewClientEntry(u, n)
       PROVE  NamedUnlessResolving'
  <2>1. /\ u \notin Here \cap named
        /\ named' = named \ {u}
        /\ UNCHANGED <<user_list, resolves>>
    BY <1>10 DEF NewClientEntry
  <2>2. ASSUME NEW c \in Channels, user_list[c] \subseteq named
        PROVE  u \notin user_list[c]
    BY <2>1, <2>2 DEF Here
  <2> QED
    BY <2>1, <2>2 DEF NamedUnlessResolving
<1>11. ASSUME NEW c \in Channels,
              ChannelMessage(c) \/ NotifyTopicSet(c) \/ TopicChangeRequest(c)
       PROVE  NamedUnlessResolving'
  BY <1>2, <1>11
     DEF ChannelMessage, NotifyTopicSet, Deliver, TopicChangeRequest
<1>12. CASE UNCHANGED vars
  BY <1>2, <1>12 DEF vars
<1> QED
  BY <1>3, <1>4, <1>5, <1>6, <1>7, <1>8, <1>9, <1>10, <1>11, <1>12 DEF Next

\* A notification that reads the nickname of a user without one comes while his
\* channel's user list is resolved, or after that has failed.
LEMMA NameFaultStep ==
  ASSUME CauseInv, [Next]_vars
  PROVE  NameFaultHasCause'
<1>1. ASSUME fault' \in {fault, "none"} \cup NoConnectionFaults
                \cup {"lookup_entry_149", "refresh_196", "change_request_128"}
      PROVE  NameFaultHasCause'
  BY <1>1
     DEF CauseInv, FaultHasCause, NameFaultHasCause, NoNicknameFaults,
         NoConnectionFaults
<1>2. ASSUME NEW c \in Channels, JoinReply(c)
      PROVE  NameFaultHasCause'
  <2>1. \/ "nameless_error" \in Env /\ fault' = "lookup_165"
        \/ fault' \in {fault, "join_reply_278"}
    BY <1>2 DEF JoinReply, Die, Alive
  <2> QED
    BY <1>1, <2>1 DEF NameFaultHasCause, NoNicknameFaults, NoConnectionFaults
<1>3. ASSUME NEW u \in Users, u \notin named, u \in Here, Ready
      PROVE  {"async", "unresolved"} \cap Env # {}
  BY <1>3 DEF CauseInv, NamedUnlessResolving, Here, Ready
<1>4. ASSUME NEW u \in Users, NEW c \in Channels, NotifyKicked(u, c)
      PROVE  NameFaultHasCause'
  <2>1. CASE fault' = fault
    BY <1>1, <2>1
  <2>2. CASE fault' # fault
    <3>1. u \notin named /\ u \in Here /\ Ready /\ fault' = "notify_kicked_317"
      BY <1>4, <2>2 DEF NotifyKicked, Die, Alive, Here
    <3> QED
      BY <1>3, <3>1 DEF NameFaultHasCause
  <2> QED
    BY <2>1, <2>2
<1>5. ASSUME NEW u \in Users, NEW n \in Nicks, NotifyNickChange(u, n)
      PROVE  NameFaultHasCause'
  <2>1. CASE fault' = fault
    BY <1>1, <2>1
  <2>2. CASE fault' # fault
    <3>1. u \notin named /\ u \in Here /\ Ready /\ fault' = "nick_change_330"
      BY <1>5, <2>2 DEF NotifyNickChange, Die, Alive
    <3> QED
      BY <1>3, <3>1 DEF NameFaultHasCause
  <2> QED
    BY <2>1, <2>2
<1>6. ASSUME NEW c \in Channels, RefreshOf(c)
      PROVE  NameFaultHasCause'
  <2>1. PICK r \in resolves, clients \in BOOLEAN : RefreshResolved(r, clients)
    BY <1>6 DEF RefreshOf
  <2>2. fault' \in {fault, LookupFault(r.entry, "refresh_196")}
    BY <2>1 DEF RefreshResolved, Die, Alive
  <2> QED
    BY <1>1, <2>2 DEF LookupFault
<1>7. ASSUME NEW c \in Channels,
             ChannelMessage(c) \/ NotifyTopicSet(c) \/ TopicChangeRequest(c)
      PROVE  NameFaultHasCause'
  BY <1>1, <1>7
     DEF ChannelMessage, NotifyTopicSet, Deliver, TopicChangeRequest, LookupFault,
         NoConnectionFaults
<1>8. ASSUME NEW u \in Users, NEW c \in Channels,
             NotifyJoin(u, c) \/ NotifyLeave(u, c)
      PROVE  NameFaultHasCause'
  BY <1>1, <1>8 DEF NotifyJoin, NotifyLeave, Die, Alive, NoConnectionFaults
<1>9. ASSUME NEW c \in Channels,
             \/ ChannelConnectionInit(c) \/ ChannelPart(c)
             \/ LeaveReply(c) \/ NotifyKickedMe(c)
      PROVE  NameFaultHasCause'
  BY <1>1, <1>9
     DEF ChannelConnectionInit, ChannelPart, LeaveReply, NotifyKickedMe, Alive
<1>10. ASSUME NEW u \in Users,
              \/ NotifySignoff(u)
              \/ \E n \in Nicks : NewClientEntry(u, n)
       PROVE  NameFaultHasCause'
  BY <1>1, <1>10 DEF NotifySignoff, NewClientEntry, Alive
<1>11. CASE UNCHANGED vars
  BY <1>1, <1>11 DEF vars
<1> QED
  BY <1>2, <1>4, <1>5, <1>6, <1>7, <1>8, <1>9, <1>10, <1>11 DEF Next

LEMMA ConnectionFaultStep ==
  ASSUME TypeOK, EntryInv, CauseInv, [Next]_vars
  PROVE  ConnectionFaultHasCause'
<1>1. ASSUME fault' \in {fault, "none", "lookup_165"} \cup NoNicknameFaults
      PROVE  ConnectionFaultHasCause'
  BY <1>1
     DEF CauseInv, FaultHasCause, ConnectionFaultHasCause, NoNicknameFaults,
         NoConnectionFaults
<1>2. CASE "part" \in Env
  BY <1>2 DEF ConnectionFaultHasCause
<1>3. CASE "part" \notin Env
  <2>1. OneJoinEach
    BY <1>3 DEF CauseInv
  <2>2. ASSUME NEW c \in Channels, libEntry[c] # 0
        PROVE  joined[c] /\ Found(c) /\ libEntry[c] = born[c]
    BY <2>1, <2>2 DEF OneJoinEach, EntryInv, EntryIsOwn, Found
  <2>3. ASSUME fault' = "lookup_entry_149",
               {"kick_in_window", "concurrent_joins"} \cap Env # {}
        PROVE  ConnectionFaultHasCause'
    BY <2>3 DEF ConnectionFaultHasCause, NoConnectionFaults
  <2>4. ASSUME NEW c \in Channels, JoinReply(c)
        PROVE  ConnectionFaultHasCause'
    <3>1. Found(c)
      BY <2>1, <2>4 DEF JoinReply, OneJoinEach, Pending, Found
    <3>2. fault' \in {fault, "lookup_165"}
      BY <2>4, <3>1 DEF JoinReply, Alive, Die
    <3> QED
      BY <1>1, <3>2
  <2>5. ASSUME NEW c \in Channels, RefreshOf(c)
        PROVE  ConnectionFaultHasCause'
    <3>1. PICK r \in resolves, clients \in BOOLEAN :
            r.chan = c /\ RefreshResolved(r, clients)
      BY <2>5 DEF RefreshOf
    <3> DEFINE f == LookupFault(r.entry, "refresh_196")
    <3>2. fault' = fault \/ fault' = f
      BY <3>1 DEF RefreshResolved, Alive, Die
    <3>3. f \in {"none", "lookup_entry_149", "refresh_196"}
      BY DEF LookupFault
    <3>4. CASE "kick_in_window" \in Env
      BY <1>1, <3>2, <3>3, <3>4 DEF ConnectionFaultHasCause, NoConnectionFaults
    <3>5. CASE "kick_in_window" \notin Env
      <4>1. joined[c] /\ r.entry = born[c]
        BY <1>3, <3>1, <3>5 DEF CauseInv, ResolvedIsJoined
      <4>2. f \in {"none", "lookup_entry_149"} /\ (PendingIsLast => f = "none")
        BY <2>1, <4>1, LookupFinds
      <4>3. "concurrent_joins" \notin Env => f = "none"
        BY <4>2 DEF CauseInv
      <4> HIDE DEF f
      <4> QED
        BY <1>1, <2>3, <3>2, <4>2, <4>3
    <3> QED
      BY <3>4, <3>5
  <2>6. ASSUME NEW c \in Channels, NEW f, Deliver(c, f)
        PROVE  ConnectionFaultHasCause'
    <3>1. joined[c] /\ libEntry[c] = born[c]
      BY <2>2, <2>6 DEF Deliver
    <3>2. /\ fault' \in {"none", "lookup_entry_149"}
          /\ PendingIsLast => fault' = "none"
      BY <2>1, <2>6, <3>1, LookupFinds DEF Deliver
    <3>3. "concurrent_joins" \notin Env => fault' = "none"
      BY <3>2 DEF CauseInv
    <3> QED
      BY <1>1, <2>3, <3>2, <3>3
  <2>7. ASSUME NEW c \in Channels, TopicChangeRequest(c)
        PROVE  ConnectionFaultHasCause'
    <3>1. CASE "early_topic" \in Env
      BY <2>7, <3>1
         DEF TopicChangeRequest, ConnectionFaultHasCause, NoConnectionFaults
    <3>2. CASE "early_topic" \notin Env
      <4>1. channel_entry[c] # 0
        BY <2>1, <2>7, <3>2 DEF TopicChangeRequest, OneJoinEach
      <4> QED
        BY <1>1, <2>7, <4>1 DEF TopicChangeRequest
    <3> QED
      BY <3>1, <3>2
  <2>8. ASSUME NEW u \in Users, NEW c \in Channels,
               NotifyJoin(u, c) \/ NotifyLeave(u, c) \/ NotifyKicked(u, c)
        PROVE  ConnectionFaultHasCause'
    <3>1. Found(c)
      BY <2>2, <2>8 DEF NotifyJoin, NotifyLeave, NotifyKicked
    <3>2. fault' \in {fault, "notify_kicked_317"}
      BY <2>8, <3>1 DEF NotifyJoin, NotifyLeave, NotifyKicked, Alive, Die
    <3> QED
      BY <1>1, <3>2 DEF NoNicknameFaults
  <2>9. ASSUME NEW c \in Channels,
               \/ ChannelConnectionInit(c) \/ ChannelPart(c)
               \/ LeaveReply(c) \/ NotifyKickedMe(c)
        PROVE  ConnectionFaultHasCause'
    BY <1>1, <2>9
       DEF ChannelConnectionInit, ChannelPart, LeaveReply, NotifyKickedMe, Alive
  <2>10. ASSUME NEW u \in Users,
                \/ NotifySignoff(u)
                \/ \E n \in Nicks : NotifyNickChange(u, n) \/ NewClientEntry(u, n)
         PROVE  ConnectionFaultHasCause'
    BY <1>1, <2>10
       DEF NotifySignoff, NotifyNickChange, NewClientEntry, Alive, Die,
           NoNicknameFaults
  <2>11. CASE UNCHANGED vars
    BY <1>1, <2>11 DEF vars
  <2> QED
    BY <2>4, <2>5, <2>6, <2>7, <2>8, <2>9, <2>10, <2>11
       DEF Next, ChannelMessage, NotifyTopicSet
<1> QED
  BY <1>2, <1>3

\* However channels are joined, parted and kicked off, the process dies in
\* none of these places without what FaultHasCause names: a missing channel
\* connection is only read after a part, the assertion in
\* refresh_nicklist_resolved only fails after a part or a kick of ourselves, the
\* one in the lookup by entry only after one of these or two JOINs at a time, a
\* topic change reads no entry only after a part or before the JOIN reply, and a
\* name that is NULL is read only after a JOIN was answered without one, or a
\* notification came before or without the names of its user.
THEOREM FaultsHaveCauses == Spec => []FaultHasCause
<1>1. Init => CauseInv
  BY DEF Init, CauseInv, OneJoinEach, PendingIsLast, ResolvedIsJoined,
         NamedUnlessResolving, FaultHasCause, ConnectionFaultHasCause,
         NameFaultHasCause, NoConnectionFaults, NoNicknameFaults, Pending
<1>2. TypeOK /\ EntryInv /\ CauseInv /\ [Next]_vars => CauseInv'
  <2> SUFFICES ASSUME TypeOK, EntryInv, CauseInv, [Next]_vars
               PROVE  CauseInv'
    OBVIOUS
  <2>1. "part" \notin Env => OneJoinEach'
    BY OneJoinEachStep DEF CauseInv
  <2>2. "concurrent_joins" \notin Env => PendingIsLast'
    BY PendingIsLastStep DEF CauseInv
  <2>3. {"part", "kick_in_window"} \cap Env = {} => ResolvedIsJoined'
    BY ResolvedIsJoinedStep DEF CauseInv
  <2>4. {"async", "unresolved"} \cap Env = {} => NamedUnlessResolving'
    BY NamedUnlessResolvingStep DEF CauseInv
  <2>5. FaultHasCause'
    BY ConnectionFaultStep, NameFaultStep DEF FaultHasCause
  <2> QED
    BY <2>1, <2>2, <2>3, <2>4, <2>5 DEF CauseInv
<1>3. CauseInv => FaultHasCause
  BY DEF CauseInv
<1> QED
  BY <1>1, <1>2, <1>3, TypeCorrect, EntriesCorrect, PTL DEF Spec

\* A kick of ourselves, or a part, is needed for the assertion of
\* refresh_nicklist_resolved to fail, whatever else happens.
THEOREM RefreshFindsUnlessGone ==
  ASSUME {"part", "kick_in_window"} \cap Env = {}
  PROVE  Spec => []RefreshFindsChannel
<1>1. FaultHasCause => RefreshFindsChannel
  BY DEF FaultHasCause, ConnectionFaultHasCause, RefreshFindsChannel
<1> QED
  BY <1>1, FaultsHaveCauses, PTL

\* Joining one channel at a time, parting none and not kicked while a user list is
\* resolved, the lookup by entry finds its assertion true.
THEOREM LookupFindsOneAtATime ==
  ASSUME {"part", "kick_in_window", "concurrent_joins"} \cap Env = {}
  PROVE  Spec => []LookupFindsEntries
<1>1. FaultHasCause => LookupFindsEntries
  BY DEF FaultHasCause, ConnectionFaultHasCause, LookupFindsEntries
<1> QED
  BY <1>1, FaultsHaveCauses, PTL

\* While the core joins one channel at a time and
\* parts none, clients wait for the JOIN before they set topics, and nobody kicks us
\* off a channel whose user list is being resolved: no channel connection is
\* missed, and what can still kill the process is a name that is NULL.
THEOREM OnlyNamesKill ==
  ASSUME {"part", "kick_in_window", "concurrent_joins", "early_topic"}
           \cap Env = {}
  PROVE  Spec => [](fault \in NoNicknameFaults \cup {"lookup_165", "none"})
<1>1. TypeOK /\ FaultHasCause
        => fault \in NoNicknameFaults \cup {"lookup_165", "none"}
  BY DEF TypeOK, Faults, FaultHasCause, ConnectionFaultHasCause
<1> QED
  BY <1>1, FaultsHaveCauses, TypeCorrect, PTL
=============================================================================
