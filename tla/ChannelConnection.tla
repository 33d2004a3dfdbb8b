-------------------------- MODULE ChannelConnection --------------------------
(***************************************************************************)
(* The channel connections of one SILC gateway connection, and the copy of *)
(* each channel's user list the plugin keeps for icecap's clients:         *)
(* silc-channel-connection.c, with the JOIN and LEAVE replies of           *)
(* clientops.c and the JOIN, LEAVE, SIGNOFF, KICKED, NICK_CHANGE and       *)
(* TOPIC_SET notifications of clientops-notify.c.                          *)
(*                                                                         *)
(* The program has one thread.  Its handlers run to completion, and they   *)
(* interleave only where the plugin has sent something and waits: for the  *)
(* reply to a JOIN or a LEAVE, and for silc_client_get_clients_by_channel  *)
(* to call refresh_nicklist_resolved.  What icecap's core and the SILC     *)
(* client library do is modelled from how the plugin uses them; Env says   *)
(* which of the things they may do happen in a run.                        *)
(***************************************************************************)
EXTENDS Naturals

CONSTANTS Channels,   \* channel names, no two equal under strcasecmp
          Users,      \* the other clients of the network (SilcClientEntry)
          Nicks,      \* the nicknames they use
          Fold,       \* Fold[n]: n in the case strcasecmp compares
          InitNick,   \* InitNick[u]: the nickname u starts with
          NickOnly,   \* those of whom the library may learn no more than that
          MaxInits,   \* bound: how many channel connections are ever made
          Env         \* what the core and the library do, see EnvChoices

(***************************************************************************)
(* async             notifications arrive while a user list is resolved    *)
(* unresolved        a resolution ends without clients                     *)
(* concurrent_joins  the core joins a channel while a JOIN is unanswered   *)
(* part              the core removes a channel connection on channel part *)
(* kick_in_window    we are kicked while our user list is resolved         *)
(* early_topic       a client changes the topic before the JOIN reply      *)
(* nameless_error    the reply to a failed JOIN has no channel name        *)
(***************************************************************************)
EnvChoices ==
  {"async", "unresolved", "concurrent_joins", "part", "kick_in_window",
   "early_topic", "nameless_error"}

ASSUME ConstantsAssumption ==
  /\ Fold \in [Nicks -> Nicks]
  /\ InitNick \in [Users -> Nicks]
  /\ NickOnly \subseteq Users
  /\ MaxInits \in Nat
  /\ Env \subseteq EnvChoices

VARIABLES
  \* the channel connections (struct i_silc_channel_connection)
  born,           \* born[c]: rank of c in gwconn->channel_connections, 0: none
  joined,         \* chconn->joined
  channel_entry,  \* silc_chconn->channel_entry, 0: NULL
  added,          \* channel_connection_initial_presences_added was called
  presences,      \* presences[c][n]: channel presences of c whose name is n
  \* the SILC client library
  libEntry,       \* libEntry[c]: its live SilcChannelEntry of c, 0: none
  user_list,      \* user_list[c]: the users in that entry's list
  named,          \* users whose client entry has a nickname
  complete,       \* those whose entry has a user name and a host name as well
  nick,           \* nick[u]: that nickname
  joins,          \* joins[c]: JOIN commands on c that have no reply yet
  leaving,        \* leaving[c]: a LEAVE of c has no reply yet
  resolves,       \* calls of get_clients_by_channel that have not called back
  \* bookkeeping
  clock,          \* channel connections made so far
  fault           \* where the process died, or "none"

chconnVars == <<born, joined, channel_entry, added, presences>>
libVars ==
  <<libEntry, user_list, named, complete, nick, joins, leaving, resolves>>
vars == <<chconnVars, libVars, clock, fault>>

\* The places where the process can die: the assertions of the source, the reads
\* through a channel connection that was not found, and those of a name that the
\* library has not got.
NoConnectionFaults ==
  {"join_reply_278", "notify_join_162", "notify_leave_242",
   "channel_message_121", "topic_402"}
NoNicknameFaults == {"notify_kicked_317", "nick_change_330"}
Faults ==
  NoConnectionFaults \cup NoNicknameFaults \cup
  {"lookup_entry_149", "lookup_165", "refresh_196", "change_request_128"}

\* An entry's number is the rank of the channel connection it is first given to:
\* no other entry of the library has it.
Entries == Nat \ {0}
Resolve == [chan : Channels, entry : Entries, retry : 0..1]

TypeOK ==
  /\ born \in [Channels -> Nat]
  /\ joined \in [Channels -> BOOLEAN]
  /\ channel_entry \in [Channels -> Nat]
  /\ added \in [Channels -> BOOLEAN]
  /\ presences \in [Channels -> [Nicks -> Nat]]
  /\ libEntry \in [Channels -> Nat]
  /\ user_list \in [Channels -> SUBSET Users]
  /\ named \in SUBSET Users /\ complete \in SUBSET Users
  /\ nick \in [Users -> Nicks]
  /\ joins \in [Channels -> Nat]
  /\ leaving \in [Channels -> BOOLEAN]
  /\ resolves \in SUBSET Resolve
  /\ clock \in Nat
  /\ fault \in Faults \cup {"none"}

Nobody == [n \in Nicks |-> 0]

Init ==
  /\ born = [c \in Channels |-> 0]
  /\ joined = [c \in Channels |-> FALSE]
  /\ channel_entry = [c \in Channels |-> 0]
  /\ added = [c \in Channels |-> FALSE]
  /\ presences = [c \in Channels |-> Nobody]
  /\ libEntry = [c \in Channels |-> 0]
  /\ user_list = [c \in Channels |-> {}]
  /\ named = {} /\ complete = {}
  /\ nick = InitNick
  /\ joins = [c \in Channels |-> 0]
  /\ leaving = [c \in Channels |-> FALSE]
  /\ resolves = {}
  /\ clock = 0
  /\ fault = "none"
-----------------------------------------------------------------------------
(* Lookups *)

Known(n) == \E c \in Channels : presences[c][n] > 0     \* presence_lookup

\* channel_connection_lookup_presence: the tree compares names with strcasecmp.
OnChannel(c, n) == {m \in Nicks : Fold[m] = Fold[n] /\ presences[c][m] > 0}

\* i_silc_channel_connection_lookup: the connection of a channel's name.
FoundJoined(c) == joined[c]
Found(c) == born[c] > 0

\* i_silc_channel_connection_lookup_entry walks the connections in the order
\* they were made and asserts that each one it visits has its entry.
Holding(e) == {c \in Channels : born[c] > 0 /\ channel_entry[c] = e}
Blocked(e) ==
  \E p \in Holding(0) : \A c \in Holding(e) : born[p] < born[c]

\* The users on our channels.  The SILC library formats a nickname that one of
\* them bears already (nickname_format), so that no two show the same one, not
\* even in another case.  The names of users who have gone are free.
Here == UNION {user_list[c] : c \in Channels}
Alike(us) == \E u, v \in us : u # v /\ Fold[nick[u]] = Fold[nick[v]]
Taken(u, n) == \E v \in Here \ {u} : Fold[nick[v]] = Fold[n]

LookupFault(e, notFound) ==
  IF Blocked(e) THEN "lookup_entry_149"
  ELSE IF Holding(e) = {} THEN notFound ELSE "none"

\* A notification or a command is handled when the process is alive and, with
\* the synchronous library, no resolution stands between.
Ready == fault = "none" /\ ("async" \in Env \/ resolves = {})

Die(f) == fault' = f /\ UNCHANGED <<chconnVars, libVars, clock>>
Alive == fault' = fault
-----------------------------------------------------------------------------
(* Making and removing a channel connection *)

Drop(c) ==
  /\ born' = [born EXCEPT ![c] = 0]
  /\ joined' = [joined EXCEPT ![c] = FALSE]
  /\ channel_entry' = [channel_entry EXCEPT ![c] = 0]
  /\ added' = [added EXCEPT ![c] = FALSE]
  /\ presences' = [presences EXCEPT ![c] = Nobody]

Pending(c) == born[c] > 0 /\ ~joined[c]

\* i_silc_channel_connection_init, then event_channel_connection_init, which
\* sends the JOIN.
ChannelConnectionInit(c) ==
  /\ Ready /\ Alive
  /\ born[c] = 0 /\ clock < MaxInits
  /\ "concurrent_joins" \in Env \/ \A d \in Channels : ~Pending(d)
  /\ clock' = clock + 1
  /\ born' = [born EXCEPT ![c] = clock + 1]
  /\ joins' = [joins EXCEPT ![c] = @ + 1]
  /\ UNCHANGED <<joined, channel_entry, added, presences, libEntry, user_list,
                 named, complete, nick, leaving, resolves>>

\* silc_cmd_channel_part sends a LEAVE if the channel is joined; the core then
\* removes the channel connection.
ChannelPart(c) ==
  /\ Ready /\ Alive
  /\ "part" \in Env /\ born[c] > 0
  /\ leaving' = [leaving EXCEPT ![c] = @ \/ (joined[c] /\ libEntry[c] # 0)]
  /\ Drop(c)
  /\ UNCHANGED <<libEntry, user_list, named, complete, nick, joins, resolves,
                 clock>>

Forget(c) ==     \* the library drops its channel entry
  /\ libEntry' = [libEntry EXCEPT ![c] = 0]
  /\ user_list' = [user_list EXCEPT ![c] = {}]

\* command_reply, SILC_COMMAND_LEAVE: nothing is left to do.
LeaveReply(c) ==
  /\ Ready /\ Alive
  /\ leaving[c]
  /\ leaving' = [leaving EXCEPT ![c] = FALSE]
  /\ Forget(c)
  /\ UNCHANGED <<chconnVars, named, complete, nick, joins, resolves, clock>>
-----------------------------------------------------------------------------
(* The reply to a JOIN *)

\* event_joined, which channel_connection_set_joined runs the first time: the
\* user list of the entry the connection has got is asked for.
EventJoinedEarly(c) == {[chan |-> c, entry |-> channel_entry[c], retry |-> 0]}
EventJoinedNever(c) == {}
EventJoined(c) ==
  IF joined[c] THEN {} ELSE {[chan |-> c, entry |-> born[c], retry |-> 0]}

\* command_reply, SILC_COMMAND_JOIN with SILC_STATUS_OK.
JoinReplyOK(c, members) ==
  /\ libEntry[c] = 0 /\ ~Alike(Here \cup members)
  /\ libEntry' = [libEntry EXCEPT ![c] = born[c]]
  /\ user_list' = [user_list EXCEPT ![c] = members]
  /\ channel_entry' = [channel_entry EXCEPT ![c] = born[c]]
  /\ joined' = [joined EXCEPT ![c] = TRUE]
  /\ resolves' = resolves \cup EventJoined(c)
  /\ UNCHANGED <<born, added, presences>>

\* The same with an error.  The entry is assigned before the status is read.
JoinReplyError(c, e) ==
  /\ IF joined[c] THEN /\ channel_entry' = [channel_entry EXCEPT ![c] = e]
                       /\ UNCHANGED <<born, joined, added, presences>>
                  ELSE Drop(c)
  /\ UNCHANGED <<libEntry, user_list, resolves>>

JoinReply(c) ==
  /\ Ready
  /\ joins[c] > 0 /\ ~leaving[c]
  /\ \/ "nameless_error" \in Env /\ Die("lookup_165")
     \/ ~Found(c) /\ Die("join_reply_278")
     \/ /\ Found(c) /\ Alive
        /\ joins' = [joins EXCEPT ![c] = @ - 1]
        /\ \/ \E members \in SUBSET Users : JoinReplyOK(c, members)
           \/ \E e \in {0, libEntry[c]} : JoinReplyError(c, e)
        /\ UNCHANGED <<named, complete, nick, leaving, clock>>
-----------------------------------------------------------------------------
(* The user list is resolved *)

MayRetry(r) == r.retry < 1

\* The users with a nickname, those of c's list among them if it was resolved.
Resolved(c, clients) == IF clients THEN named \cup user_list[c] ELSE named

\* What the library learns of the users us beside their nicknames: their user
\* names and host names.
Complete(us) ==
  complete' \in {complete \cup us, complete \cup (us \ NickOnly)}

\* Every client that has a nickname is added, on the channel already or not.  No
\* two of them have the same one.
AddUserList(c, resolved) ==
  presences' = [presences EXCEPT ![c] = [n \in Nicks |->
    IF \E u \in user_list[c] \cap resolved : nick[u] = n
    THEN @[n] + 1 ELSE @[n]]]

\* refresh_nicklist_resolved, called with clients or with none.
RefreshResolved(r, clients) ==
  /\ fault = "none"
  /\ r \in resolves
  /\ clients \/ "unresolved" \in Env
  /\ LET f == LookupFault(r.entry, "refresh_196") IN
     \/ f # "none" /\ Die(f)
     \/ /\ f = "none" /\ Alive
        /\ ~clients /\ MayRetry(r)
        /\ resolves' = (resolves \ {r}) \cup {[r EXCEPT !.retry = @ + 1]}
        /\ UNCHANGED <<chconnVars, libEntry, user_list, named, complete, nick,
                       joins, leaving, clock>>
     \/ /\ f = "none" /\ Alive
        /\ clients \/ ~MayRetry(r)
        /\ resolves' = resolves \ {r}
        /\ named' = Resolved(r.chan, clients)
        /\ Complete(IF clients THEN user_list[r.chan] ELSE {})
        /\ AddUserList(r.chan, Resolved(r.chan, clients))
        /\ added' = [added EXCEPT ![r.chan] = TRUE]
        /\ UNCHANGED <<born, joined, channel_entry, libEntry, user_list, nick,
                       joins, leaving, clock>>
-----------------------------------------------------------------------------
(* Notifications about the others on our channels *)

\* A presence the gateway does not know is made and added; a known one is added
\* unless the channel has it.
ShouldAddUnchecked(c, n) == TRUE
ShouldAdd(c, n) == ~Known(n) \/ OnChannel(c, n) = {}

NotifyJoin(u, c) ==
  /\ Ready
  /\ libEntry[c] # 0 /\ u \notin user_list[c] /\ ~Alike(Here \cup {u})
  /\ \/ ~Found(c) /\ Die("notify_join_162")
     \/ /\ Found(c) /\ Alive
        /\ user_list' = [user_list EXCEPT ![c] = @ \cup {u}]
        /\ named' = named \cup {u} /\ Complete({u})
        /\ presences' = [presences EXCEPT ![c][nick[u]] =
                           IF ShouldAdd(c, nick[u]) THEN @ + 1 ELSE @]
        /\ UNCHANGED <<born, joined, channel_entry, added, libEntry, nick,
                       joins, leaving, resolves, clock>>

\* channel_connection_remove_presence of the presence the lookup finds, if any.
RemovePresenceUnchecked(c, n) ==
  presences' = [presences EXCEPT ![c][n] = @ - 1]
RemovePresenceEverywhere(c, n) ==
  presences' = [d \in Channels |-> [presences[d] EXCEPT ![n] =
                  IF @ > 0 THEN @ - 1 ELSE 0]]
RemovePresence(c, n) ==
  IF OnChannel(c, n) = {}
  THEN UNCHANGED presences
  ELSE \E m \in OnChannel(c, n) :
         presences' = [presences EXCEPT ![c][m] = @ - 1]

\* A leaving client is ignored unless his entry has all three names.
NotifyLeave(u, c) ==
  /\ Ready
  /\ libEntry[c] # 0 /\ u \in user_list[c]
  /\ \/ ~Found(c) /\ u \in complete /\ Die("notify_leave_242")
     \/ /\ Found(c) \/ u \notin complete
        /\ Alive
        /\ user_list' = [user_list EXCEPT ![c] = @ \ {u}]
        /\ IF u \in complete THEN RemovePresence(c, nick[u])
                             ELSE UNCHANGED presences
        /\ UNCHANGED <<born, joined, channel_entry, added, libEntry, named,
                       complete, nick, joins, leaving, resolves, clock>>

\* channel_connections_remove_presence: off every channel that shows it.
NotifySignoff(u) ==
  /\ Ready /\ Alive
  /\ \E c \in Channels : u \in user_list[c]
  /\ user_list' = [c \in Channels |-> user_list[c] \ {u}]
  /\ named' = named \ {u} /\ complete' = complete \ {u}
  /\ presences' =
       IF u \in named
       THEN [c \in Channels |-> [presences[c] EXCEPT ![nick[u]] =
               IF @ > 0 THEN @ - 1 ELSE 0]]
       ELSE presences
  /\ UNCHANGED <<born, joined, channel_entry, added, libEntry, nick, joins,
                 leaving, resolves, clock>>

\* SILC_NOTIFY_TYPE_KICKED of somebody else.  Looking up a nickname that is NULL
\* kills the process, unless the channel has no presence to compare it with: our
\* own is there from the JOIN reply on.
NobodyShown(c) == ~joined[c] /\ presences[c] = Nobody

NotifyKicked(u, c) ==
  /\ Ready
  /\ libEntry[c] # 0 /\ u \in user_list[c]
  /\ \/ Found(c) /\ u \notin named /\ ~NobodyShown(c) /\ Die("notify_kicked_317")
     \/ /\ ~Found(c) \/ u \in named \/ NobodyShown(c)
        /\ Alive
        /\ user_list' = [user_list EXCEPT ![c] = @ \ {u}]
        /\ IF Found(c) /\ u \in named THEN RemovePresence(c, nick[u])
                                       ELSE UNCHANGED presences
        /\ UNCHANGED <<born, joined, channel_entry, added, libEntry, named,
                       complete, nick, joins, leaving, resolves, clock>>

\* SILC_NOTIFY_TYPE_KICKED of ourselves: the channel connection goes.
NotifyKickedMe(c) ==
  /\ Ready /\ Alive
  /\ libEntry[c] # 0
  /\ "kick_in_window" \in Env \/ \A r \in resolves : r.chan # c
  /\ Forget(c)
  /\ IF ~Found(c) THEN UNCHANGED chconnVars ELSE Drop(c)
  /\ UNCHANGED <<named, complete, nick, joins, leaving, resolves, clock>>

\* A presence is renamed only if the old name is known and the new one is not.
ShouldRenameNever(old, new) == FALSE
ShouldRename(old, new) == Known(old) /\ ~Known(new)

\* The old nickname, which may be NULL, is compared with the new one first.
NotifyNickChange(u, new) ==
  /\ Ready
  /\ u \in Here /\ new # nick[u] /\ ~Taken(u, new)
  /\ \/ u \notin named /\ Die("nick_change_330")
     \/ /\ u \in named /\ Alive
        /\ nick' = [nick EXCEPT ![u] = new]
        /\ presences' =
             IF ShouldRename(nick[u], new)
             THEN [c \in Channels |->
                    [presences[c] EXCEPT ![new] = presences[c][nick[u]],
                                         ![nick[u]] = 0]]
             ELSE presences
        /\ UNCHANGED <<born, joined, channel_entry, added, libEntry, user_list,
                       named, complete, joins, leaving, resolves, clock>>

\* Unseen by the plugin, a user who is on none of our channels, or whose nickname
\* the library has not got, takes another: it will know him by a new client entry.
NewClientEntry(u, n) ==
  /\ fault = "none" /\ Alive
  /\ u \notin Here \cap named
  /\ n # nick[u] /\ ~Taken(u, n)
  /\ nick' = [nick EXCEPT ![u] = n]
  /\ named' = named \ {u} /\ complete' = complete \ {u}
  /\ UNCHANGED <<chconnVars, libEntry, user_list, joins, leaving, resolves, clock>>
-----------------------------------------------------------------------------
(* Handlers that need the entry of a channel connection *)

Deliver(c, notFound) ==
  /\ Ready
  /\ libEntry[c] # 0
  /\ fault' = LookupFault(libEntry[c], notFound)
  /\ UNCHANGED <<chconnVars, libVars, clock>>

ChannelMessage(c) == Deliver(c, "channel_message_121")
NotifyTopicSet(c) == Deliver(c, "topic_402")

\* i_silc_channel_change_request reads the name of the connection's entry.
TopicChangeRequest(c) ==
  /\ Ready
  /\ born[c] > 0 /\ (joined[c] \/ "early_topic" \in Env)
  /\ fault' = IF channel_entry[c] = 0 THEN "change_request_128" ELSE "none"
  /\ UNCHANGED <<chconnVars, libVars, clock>>
-----------------------------------------------------------------------------
RefreshOf(c) == \E r \in resolves, clients \in BOOLEAN :
                  r.chan = c /\ RefreshResolved(r, clients)

Next ==
  \/ \E c \in Channels :
       \/ ChannelConnectionInit(c) \/ ChannelPart(c)
       \/ LeaveReply(c) \/ JoinReply(c) \/ RefreshOf(c)
       \/ NotifyKickedMe(c) \/ ChannelMessage(c) \/ NotifyTopicSet(c)
       \/ TopicChangeRequest(c)
  \/ \E u \in Users, c \in Channels :
       NotifyJoin(u, c) \/ NotifyLeave(u, c) \/ NotifyKicked(u, c)
  \/ \E u \in Users : NotifySignoff(u)
  \/ \E u \in Users, n \in Nicks : NotifyNickChange(u, n) \/ NewClientEntry(u, n)

Spec == Init /\ [][Next]_vars

\* The scheduler timer runs the library every 200 ms, and the library answers
\* every command and ends every resolution.
Fairness ==
  \A c \in Channels : /\ WF_vars(JoinReply(c))
                      /\ WF_vars(LeaveReply(c))
                      /\ WF_vars(RefreshOf(c))

FairSpec == Spec /\ Fairness
-----------------------------------------------------------------------------
(* Properties *)

\* A name is shown once on a channel until the initial presences are added, and
\* never more than twice: the only duplicate refresh_nicklist_resolved makes is
\* that of a user whose JOIN came while the list was resolved.
DuplicateBound ==
  \A c \in Channels, n \in Nicks :
    presences[c][n] <= IF added[c] THEN 2 ELSE 1

\* A user who stays on a channel stays shown there: whoever leaves, is kicked,
\* signs off or takes another nickname, the handlers, which compare names in two
\* ways, and on channels with names of users who have gone, take no other
\* user's name away.
StaysShown ==
  [][\A c \in Channels : born'[c] = born[c] =>
       \A u \in user_list[c] \cap user_list'[c] :
         nick'[u] = nick[u] /\ presences[c][nick[u]] > 0
           => presences'[c][nick[u]] > 0]_vars

\* Ranks tell the channel connections apart.
Ranked ==
  /\ \A c \in Channels : born[c] <= clock
  /\ \A c, d \in Channels : born[c] > 0 /\ born[c] = born[d] => c = d

\* A channel connection holds its own entry or NULL; it is joined while the
\* library is on the channel, and only then has presences added or an entry.
EntryIsOwn ==
  \A c \in Channels :
    /\ channel_entry[c] \in {0, born[c]}
    /\ joined[c] => born[c] > 0 /\ libEntry[c] = born[c] /\ ~leaving[c]
    /\ ~joined[c] => channel_entry[c] = 0 /\ ~added[c]

\* A resolution is for one joined channel connection that has not had its
\* initial presences yet, or for one that is gone; no two are for the same.
ResolvedOnce ==
  \A r \in resolves :
    /\ r.entry <= clock
    /\ \A c \in Channels :
         born[c] = r.entry => c = r.chan /\ joined[c] /\ ~added[c]
    /\ \A s \in resolves : s.entry = r.entry => s = r

EntryInv == Ranked /\ EntryIsOwn /\ ResolvedOnce

\* The process dies over a channel connection only after a part, a kick of
\* ourselves, a second JOIN or a topic set too early, each place after its own.
ConnectionFaultHasCause ==
  /\ fault \in NoConnectionFaults => "part" \in Env
  /\ fault = "refresh_196" => {"part", "kick_in_window"} \cap Env # {}
  /\ fault = "change_request_128" => {"part", "early_topic"} \cap Env # {}
  /\ fault = "lookup_entry_149"
       => {"part", "kick_in_window", "concurrent_joins"} \cap Env # {}

\* And over a name only after a JOIN is answered without one, or a notification
\* is delivered about a user whose nickname was not resolved, or not yet.
NameFaultHasCause ==
  /\ fault = "lookup_165" => "nameless_error" \in Env
  /\ fault \in NoNicknameFaults => {"async", "unresolved"} \cap Env # {}

\* What the core, the library or the server must do before the process can die in
\* each place of the source.
FaultHasCause == ConnectionFaultHasCause /\ NameFaultHasCause

\* The assertion of refresh_nicklist_resolved: the channel whose user list comes
\* back still has its connection.
RefreshFindsChannel == fault # "refresh_196"

\* The assertion of i_silc_channel_connection_lookup_entry: each connection it
\* visits has got its entry.
LookupFindsEntries == fault # "lookup_entry_149"

\* A joined channel has its initial presences added, whether its user list is
\* resolved or not, unless the channel goes first.
ResolutionEnds ==
  \A c \in Channels :
    joined[c] ~> (added[c] \/ ~joined[c] \/ fault # "none")

\* With a library that resolves user lists, with all three names of each user,
\* before it delivers anything else, the plugin keeps the promise of ChannelRoster.
Roster == INSTANCE ChannelRoster WITH
  shown   <- added,
  present <- [c \in Channels |-> IF added[c] THEN user_list[c] ELSE {}],
  roster  <- [c \in Channels |-> {n \in Nicks : presences[c][n] > 0}]
RosterSpec == Roster!Spec
=============================================================================
