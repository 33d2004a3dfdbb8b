# icecap_silc in TLA+

icecap_silc is a protocol module for icecap, a chat daemon that keeps the state
of a user's networks, channels and contacts and shows it to any number of
attached clients. The module lets icecap speak SILC: it translates icecap's
events and commands into calls of the SILC client library (silc-toolkit), and
the library's callbacks into changes of icecap's objects. This directory models
that translation in TLA+, checks it with TLC on small instances and proves its
main invariants with TLAPS for every instance.

Paths below are relative to the repository (`src/silc-client.c` and so on; the
manifest `PROJECT.json` writes them with the repository's own directory in
front). Line numbers refer to the commit beside this project.

## 1. The system

Everything runs in one thread, icecap's main loop. A handler runs to its end;
what interleaves are the *waits*: for the reply to a command sent to the server
(JOIN, LEAVE, NICK, WHOIS), for a user list the library resolves, for the
handshake. A 200 ms timer (`i_silc_scheduler`, icecap-silc.c:76) lets the
library run and call back. Anything the plugin read or created before such a
wait may have changed or gone when the answer comes, and that is where this
code can go wrong.

    icecap core (events, commands)              SILC server
        |  EVENT_GATEWAY_CONNECTED, ...              ^
        v                                            v
    plugin handlers  -- silc_client_* calls -->  SILC client library
        ^            <-- operations table ----       |
        |                (notify, command_reply, ...)|
        +---- 200 ms timer: silc_client_run_one -----+

| component (source) | state | operations | what must hold |
|---|---|---|---|
| channel connections (silc-channel-connection.c) | `channel_entry`, the core's `joined`, the tree of channel presences, the ordered array of connections | init (sends JOIN), deinit, part (sends LEAVE), `event_joined` (asks for the user list), `refresh_nicklist_resolved`, lookups by name and by entry, topic change request | the list shown is the list of the users on the channel; no lookup meets a connection without an entry, or none |
| notifications (clientops-notify.c) | changes the objects of the others | NONE, MOTD, INVITE, JOIN, LEAVE, SIGNOFF, TOPIC_SET, KICKED, NICK_CHANGE | a presence is removed, renamed or added for the user the notification is about, in any order relative to resolutions |
| command replies, callbacks (clientops.c) | the same | JOIN, LEAVE, NICK, WHOIS replies, `channel_message`, `private_message`, `get_auth_method`, `verify_public_key` | a reply finds the object it is for; login is reported, and with a nickname that was asked for |
| gateway connection (silc-gateway-connection.c, icecap-silc.c) | `conn`, `client`, `timeout`, `connected`, the core's `fd` | CONNECTED, DISCONNECTED, PRESENCE_DEINIT, deinit, lookup by library connection | one timer per link; each library connection and descriptor closed once |
| SILC client and keys (silc-client.c) | the global key pair | init (loads or generates the keys), deinit, `id_is_me` | the right keys, reported to the client |
| presences (silc-presence.c, silc-channel-presence.c) | `client_entry` | alloc, free, change request (NICK), status request (WHOIS) | the name shown is the server's |
| client-provided keys (silc-local-presence.c, support.c) | decoded keys | on `presence add`: decode; `i_silc_load_keys` | a key is decoded to what was encoded |
| base64 (base64.c) | none | encode, decode | decode inverts encode; reads and writes stay in bounds |
| outgoing messages (silc-message.c) | the message a WHOIS waits for | send to a channel, send to a user after a WHOIS | a message is sent or the client is told |
| gateways (silc-gateway.c), channels (silc-channel.c), module entry (icecap-silc.c) | port ranges; none; event table | constructors, event binding | - |

`PROJECT.json` lists the components with their status and, under `hazards`,
what is hard to test here, each at the line where it bites. The main families:

* **answers that come after their object has gone**: a user list after a kick,
  a JOIN reply after a part, a notification after a part;
* **answers out of order**: two JOINs in flight, several NICKs in flight, from
  the plugin and from clients, before the login and after;
* **what is not known yet**: a notification about a user whose client entry has
  no nickname, no user name or no host name;
* **two writers of one list**: notifications and `refresh_nicklist_resolved`
  both add users to a channel;
* **two comparisons of one name**: the gateway finds presences with `strcmp`, a
  channel with `strcasecmp`;
* **state that is kept over a disconnect**: `conn`, `timeout` and `connected`
  are never reset, and `conn` may then be NULL, freed, or the address of another
  connection when a command or a message is sent over it;
* **crashes and failing files**: a key pair is two files, written one after the
  other, and two globals, set by calls that may fail half way;
* **waits of outgoing messages**: a private message waits for a WHOIS while
  gateways go down;
* **numeric and textual edges**: padding and partial quads of base64 text,
  unsigned lengths of keys, texts that fill their buffer.

## 2. Modules

| module | models |
|---|---|
| `ChannelConnection` | channel connections, JOIN and LEAVE replies, the notifications about others, `channel_message`, topic handlers |
| `ChannelRoster` | the abstract promise about channels, which `ChannelConnection` implements |
| `MCChannelConnection` | its instances for TLC |
| `ChannelConnectionProofs`, `ChannelRosterProofs` | its theorems: types, entries and assertions; names and the refinement |
| `GatewayConnection` | one gateway connection: link, timer, handshake, login, nickname |
| `MCGatewayConnection`, `GatewayConnectionProofs` | its instance and theorems |
| `ClientKeys` | the key pair: loading, generating, its files, crashes and restarts |
| `MCClientKeys`, `ClientKeysProofs` | its instance and theorems |
| `OutgoingMessages` | messages to channels and users, with the WHOIS |
| `LocalUser` | all gateway connections of a user and the lookup by library connection, composed with `OutgoingMessages` |
| `MCLocalUser`, `LocalUserProofs` | its instance and theorems |
| `Base64` | tables, encoder and decoder |
| `MCBase64`, `Base64Proofs` | its instance and theorems |
| `Motd` | the MOTD's buffer and its splitting into lines |
| `PortList` | the parser of a gateway's port ranges |
| `LoadKeys`, `LoadKeysProofs` | `i_silc_load_keys`: what each branch frees, and its lengths |
| `TextsProofs` | the theorems about `Motd` and `PortList` |
| `MCTexts` | one run for the four routines on texts, which share no state |

### ChannelConnection

A channel connection of channel `c` exists when `born[c] > 0`; the number is its
rank in `gwconn->channel_connections`, which matters because the lookup by
entry walks that array in order. `channel_entry[c]` is the pointer the JOIN
reply stores; library entries are named by the rank of the connection they were
made for, so that an entry is never mistaken for a later one of the same
channel. `presences[c][n]` counts the channel presences of `c` whose name is
`n`: a count, since the code can add the same user twice and then removes one of
the two.

The library's part of the state is what the plugin can see of it: its live
entry of a channel, the users in it, which client entries have a nickname
(`named`) and which a user name and host name as well (`complete`), each
nickname, JOINs and LEAVEs without reply, and resolutions that have not called
back.

| action | code |
|---|---|
| `ChannelConnectionInit` | `i_silc_channel_connection_init` and `event_channel_connection_init` |
| `ChannelPart`, `LeaveReply` | `silc_cmd_channel_part`; `command_reply`, LEAVE |
| `JoinReply` | `command_reply`, JOIN, with `event_joined` that it runs through `channel_connection_set_joined` |
| `RefreshResolved` | `refresh_nicklist_resolved`: lookup, retry once, add, set topic |
| `NotifyJoin` ... `NotifyNickChange` | the arms of `i_silc_operation_notify` |
| `NewClientEntry` | nothing: a user the plugin does not see takes another nickname |
| `ChannelMessage`, `NotifyTopicSet`, `TopicChangeRequest` | handlers that read a channel connection or its entry |

A failed `i_assert` ends the process, a read through NULL too: the action sets
`fault` to the place, and nothing happens afterwards. `LookupFault` gives the
outcome of the lookup by entry, with the assertion it makes on each connection
it passes.

`Env` selects which behaviours of icecap's core and of the library a run
contains. It exists because the most permissive environment violates most
properties (that is what the findings say) and a property that holds only in a
restricted one should say in which:

| choice | when it is absent |
|---|---|
| `async` | the library answers a user list before it delivers anything else |
| `unresolved` | every user list is resolved |
| `concurrent_joins` | the core joins one channel at a time |
| `part` | the core never parts |
| `kick_in_window` | nobody kicks us while our list is being resolved |
| `early_topic` | clients set topics only on joined channels |
| `nameless_error` | the reply to a failed JOIN has the channel's name |

`NickOnly` are the users of whom the library may learn the nickname and not the
user name or the host name; of the others it learns the three together.

External behaviour the module relies on, none of which is in the repository:

* `channel_connection_set_joined` fires the event only the first time;
* the core removes a channel connection after the part command has run;
* `channel_connection_remove_presence` removes the one presence it is given;
  after an add of the same user twice, one remains;
* the SILC library formats a nickname that a user on one of our channels bears
  already, regardless of case (`nickname_format`, silc-client.c:54): no two users
  there have the same one (`Alike`, `Taken`). The nickname of a user who has gone
  is free: whoever takes it may meet the presence of that user, if one was left
  behind, in the gateway's hash or, spelt in another case, on a channel
  (clientops-notify.c:348). A channel finds presences with `strcasecmp`, the
  gateway with `strcmp`: `Fold` is the first's idea of a name, and a user may
  change from one spelling of a name to another;
* a client whose entry is not resolved has no nickname.
  `refresh_nicklist_resolved`, LEAVE and SIGNOFF pass over it; KICKED looks NULL up
  in the channel's tree (which reads it, unless the tree is empty: `NobodyShown`;
  our own presence is in it from the JOIN reply on), NICK_CHANGE compares it with
  `strcmp`, and the process dies. JOIN is taken to come with the nickname;
* LEAVE is ignored unless nickname, host name and user name are known, JOIN and
  the user list want only the nickname: the name of a user in `NickOnly` who was
  shown and left may stay;
* our own user is not in `Users`: `i_silc_client_id_is_me` is taken to tell us
  apart, although JOIN and LEAVE pass it the address of a pointer
  (clientops-notify.c:153); this is a listed hazard;
* the JOIN of silc-channel-connection.c:97 is taken to reach the server,
  although its argument list differs from the other `silc_client_command_call`s
  (no NULL before the command);
* a JOIN error reply carries NULL or the library's entry of the channel, and with
  `nameless_error` may lack the channel's name, which the lookup by name asserts
  (silc-channel-connection.c:165).

### ChannelRoster

The promise: once a channel's initial presences have been added, the set of
names a client sees there equals the set of nicknames of the users on it, after
every step. The refinement mapping hides the presences of channels that are
not yet shown and forgets multiplicity. It holds when the library is
synchronous (`Env` without `async`), user lists are resolved, with all names of
their users, and the core does not part. None of that can be dropped: with
`async` a JOIN during a resolution adds a user twice and his LEAVE removes one
of the two, leaving a name of someone who has gone; users who are not resolved
are not shown; the LEAVE of a shown user in `NickOnly` is ignored; and a
channel parted and joined again before the LEAVE reply receives the
notifications of the old membership. `DuplicateBound` and `StaysShown` say how
bad it can get.

### GatewayConnection

One gateway connection from `init` to `deinit`, over several connects. `made`,
`closes` and `timers` are the library connections, the calls that closed them
and the timers the main loop holds; `conn`, `timeout`, `connected` and `fdOpen`
are the fields of the C structures; `stage` is how far the handshake has come;
`nicks` is the queue of NICK commands in flight (the server answers in order).
`orderly` is a history variable: it turns FALSE when PRESENCE_DEINIT reaches the
disconnect handler, which is bound to it too, or when the core frees a
connection whose link is up. `HeldPerLink` and `CloseBound` are claims about
orderly behaviours, and the model goes on after the order is broken so that the
others are checked there too.

`ChangeRequest` is a client's NICK. silc-presence.c:54 sends it whenever it is
asked to: before the login, where it may be answered before the plugin's own, and
without a link, over a `conn` that is NULL or that the library has freed, where
nothing is known to come of it and the process may die (`change_request_67`).
`asked` holds the nicknames clients asked for on this connection; `relinked` says
that `connected` was set before it was made, so that NONE sends no NICK on it.

The plugin tells "our nickname was changed" from "we have a new client id" by
comparing ids; the model takes the NICK reply to carry the id that is replaced
when the nickname changes, and ours when it does not, as the comments and the
ChangeLog's login entry suppose. An error reply is left undetermined
(`NickReplyError`), because the handler reads its arguments without a look at
the status; `refused` remembers that there was one. `hasPassword` says whether
the gateway was created with a password (silc-gateway.c:67): without one, a
server that wants it is never answered.

### ClientKeys

`i_silc_client_init` step by step: the test of `private_key->pkcs`, the loading,
the test again, the two files that `silc_create_key_pair` writes, its return,
the third test. Pairs are numbers and a key is the pair it is half of, so that a
mix is visible. `file[p]` survives a `Crash`, the globals do not. While
`private_key` is NULL the test reads address 0: `NullRead` ends the process, and
the alternative, the read giving 0, goes on. The histories are `ownKeys` (the pair
a presence was served with when the globals held its own), `anyKeys` (the pair it
was served with, whosever), `unread` (the files could be loaded, and failed to, in
this `i_silc_client_init`) and `clean` (that has never happened). The code makes no
difference between a pair that is missing, one that has a passphrase and one that
fails to load: it generates another and writes over the files
(silc-client.c:94-97). `ReplacedOnlyUnread` says that this is the only way a usable
pair is lost; the other two properties are about processes in which it has not
happened.

External: the library writes the public file before the private one, as the
arguments name them; a write may fail and leave the file empty; loading may fail
after it has set the public key.

### LocalUser and OutgoingMessages

`LocalUser` has several gateway connections and fewer library connections than
they would need if none were freed: `Addresses` are the places where the library
allocates, and `live[a]` says whose connection is there. `conn[g]` is an address
and is not reset, so `LookupConn(a)`, which is the loop of
`i_silc_gateway_connection_lookup_conn`, may match two gateways; `before` is the
order of the array. `Close(a)` closes whatever lives at `a`. `orderly` says
that the core has freed every gateway connection that went down before it made
the next connection, and has not sent PRESENCE_DEINIT; icecap's source, which is
not part of this repository, decides whether it always does.

`OutgoingMessages` is composed with it: a message is given to one gateway
connection (`via`), up or not, because silc-message.c:63 looks for the network and
the presence of the command and nobody looks at `conn`. `carrier` is the gateway
whose library connection is at that address: its own, another's, or none, and over
none the message comes to nothing (`void`). `Callback` is
`i_silc_privmsg_whois_callback`, which drops the message when the WHOIS found
nobody or its first client is not in the library's cache, and sends it otherwise.
Which of several users with the nickname comes first is not modelled. The
callback comes from the library, which only the timer of a link that is up runs.
Closing a connection forgets its waiting messages.

### Motd, PortList, LoadKeys

Machines with one step per turn of the loop or per call that can fail. `Motd`
keeps the buffer as the code makes it (a 0 before the text) and takes lines with
`strtok`'s rule; `PortList` starts from the ranges a client has in mind, writes
them in decimal, and parses them with `atoi`, `strchr` and a split at commas;
`LoadKeys` starts with the copies of the public key, either of which may fail,
computes lengths modulo `Wrap` (2^32 in the program) and keeps the set of objects
that are allocated.

### Base64

The key utility writes lines of `w` characters; the client's text is then
decoded in one or several calls (`base64.h` allows a caller to come again with
the rest). Each turn of the loop of `base64_decode` is one action: `SkipSpace`,
`Reject`, `DecodeQuad`; `Call` is the return and the next call with more text.
`OctetsShifted` and the other definitions next to a used one are mutated forms,
used only to show that the properties can fail.

## 3. What is checked

| run | properties | result |
|---|---|---|
| `channel_interleaved` | `TypeOK`, `DuplicateBound`, `StaysShown` | hold with `async`, `concurrent_joins`, `part`, `kick_in_window` and a user in `NickOnly` |
| `channel_orderly` | `FaultHasCause`, `ResolutionEnds` | hold with `async`, `unresolved`, `nameless_error` and a user in `NickOnly`: only a name that is NULL kills |
| `channel_roster` | `FaultHasCause`, `RosterSpec` | `ChannelConnection` implements `ChannelRoster`; it dies in no place but the two that `concurrent_joins` and `early_topic` allow |
| `channel_kicked` | `RefreshFindsChannel` | violated: finding |
| `channel_two_joins` | `LookupFindsEntries` | violated: finding |
| `gateway` | `ConnectedNick`, `HeldPerLink`, `CloseBound`, `LoginCompletes` | hold |
| `gateway_nick_error` | `LoggedInWithNick` | violated when the server refuses a NICK: finding |
| `client_keys` | `KeysMatch`, `ReplacedOnlyUnread`, `SameOwnKeys` | hold |
| `keys_second_presence` | `SameKeysNextTime` | violated by a presence served second: finding |
| `local_user` | `CallbackFindsOwner`, `OwnConnectionHolds`, `CarriedByOwn`, `MessageSettles` | hold |
| `texts` | `TypeOK`, `DecodesPrefix`, `DecodesAll` (base64), `MotdSentInLines`, `PortsAsWritten`, `ReleasedOnReturn`, `ReadsInBounds` | hold |
| `base64_lines` | `LineBreaksIgnored` | violated: finding |

In words, the ones that matter most:

* `StaysShown`: a user who stays on a channel does not disappear from it, whoever
  leaves, is kicked, signs off or takes another nickname. The list may show names
  of users who have gone (after a LEAVE that was ignored, or of a user shown
  twice), these names may be taken again in another case, and the lookups of the
  handlers find presences with `strcasecmp`: they may remove a stale name instead
  of the one they are for, but never that of somebody who is there.
* `DuplicateBound`: before the initial presences of a channel are added a name
  is shown there once, afterwards never more than twice. The duplicate comes
  from a JOIN that overlaps the resolution; that there is never a third rests
  on each channel connection having one successful resolution.
* `FaultHasCause`: which choices the core, the library and the server must have
  made before the process can die in each of the eleven places: a missing
  connection is read only after a part, a NULL nickname only when a notification
  comes before or without the resolution of its user, and so on. It turns the two
  counterexamples about assertions into a statement: nothing else leads there. In
  `channel_orderly` eight of the places must stay out of reach, though
  notifications interleave with resolutions that may fail; in `channel_roster`
  nine, with two JOINs at a time and early topics.
* `ResolutionEnds`: a joined channel gets its initial presences, whether the
  user list can be resolved or not.
* `ConnectedNick`: the server sends several NONE notifications, each of which
  sends a NICK until one is answered, and clients send theirs, before the login
  too. Unless a NICK was refused, a gateway that counts as connected goes by a
  nickname that was asked for on this connection; on one made after the first
  login, where no NICK is sent (clientops-notify.c:115), by the user name.
  (`LoggedInWithNick`, violated, is about the login event; the theorem
  `LoggedInUnlessRefused` gives the part of it that holds.)
* `HeldPerLink`, `CloseBound`: over any number of connects, timer and descriptor
  are held exactly while the link is up, and no library connection is closed more
  often than stated, in the core's order. (The bound of `CloseBound` is two for the
  last connection: `deinit` closes it again after DISCONNECTED has. The property
  says exactly that and not "once", since twice is what the code does.)
  PRESENCE_DEINIT and a deinit while the link is up break the order in the very
  step that does the damage: what they do is listed under the hazards, not
  excluded by a property.
* `LoginCompletes`: the first handshake that begins ends with the login, under the
  exceptions named under *Fairness*.
* `KeysMatch`, `ReplacedOnlyUnread`, `SameOwnKeys`: the order "public file first"
  and the rule "generate only if the private key is missing" together make every
  crash harmless: the mix a crash leaves is a new public and an old, unusable
  private key, and never loads. Five or more steps over two lives are needed to
  see it go wrong in a mutant. A usable pair that fails to load is replaced, and
  that is the only way one is.
* `CallbackFindsOwner`, `OwnConnectionHolds`, `CarriedByOwn`: although `conn` is kept
  after the connection was freed and its address reused, callbacks reach their
  gateway, no deinit closes another's connection, and no message goes over one, as
  long as the core leaves no gateway connection that is down when another
  connects (`orderly`). Outside it all three fail (finding).
* `MessageSettles`: a private message does not wait for ever, whatever becomes of
  its gateway; it may be dropped without an error, which the code's FIXMEs admit.
* `MotdSentInLines`: the lines sent are those of the text with a 0 before it, which
  is what the buffer holds (finding).
* `ReleasedOnReturn`: after the public key has been copied. When a `strdup`
  fails before that, the other copy may be left (`no_copy`).
* `ReadsInBounds`: the test `i > len` of support.c compares with a length that
  still counts the MAC; for keys long enough for lines, MAC and one word the read
  stays in the buffer all the same, because the last line is at least 4 bytes
  long. For shorter keys the subtraction wraps, and the code does not look.

### Bounds

* Channels: two channels, two channel connections ever made (`MaxInits`); two
  other users in the runs about names, one in `channel_orderly`, where each of the
  faults takes one. Three nicknames in `channel_interleaved` and four in
  `channel_roster`, two of which are alike regardless of case; with two users one
  is always free, as are the names of users who have gone. One of the two is in
  `NickOnly`, the other's LEAVEs are all heeded. Two channels are
  needed for a lookup that passes another connection, for SIGNOFF and for a
  presence known on one channel and not on another; two connections cover either both channels or a rejoin of one. The
  interleavings of interest involve one resolution and two notifications.
  `channel_interleaved` leaves out the choices of `Env` that only add places to die
  (`nameless_error`, `early_topic`) or a second round of the resolution
  (`unresolved`); the theorems have them all.
* Gateway: three connects (`MaxConns`), for what a reconnect finds, and what a
  second one does; three NICKs in flight (`MaxNicks`), of which a client's leave
  one place to the plugin, so that the bound itself keeps no login waiting; three
  names: the one asked for, the one the server gives first, another. The run that
  looks for a violation needs two of each.
* Keys: two presences, three generated pairs (`MaxPairs`) besides the two the user
  may have installed, four lives of the process (`MaxLives`): enough for a crash
  between the files of one presence, a second one for the other, and a start
  after both.
* Messages: two gateways, two addresses, two messages. Two addresses are what
  reuse needs; the state space is finite and needs no bound.
* Texts: keys of up to five bytes, so that all three paddings occur after a full
  quad, of bytes with all bits clear, set or alternating; lines of one to eight
  characters, so that breaks fall at every position of a quad. A MOTD of up to
  seven characters in a buffer for six. Up to two port ranges of ports with one
  to three digits. Key lengths 0 to 28 modulo 64, with lines of 2 and 4 bytes (the
  real ones are longer; a last line of 4 is the shortest for which the code is
  right) and the MAC's 12.
* Symmetry: `client_keys` reduces by the permutations of the two presences, and
  `channel_interleaved` by those of the two channels; the properties of both are
  safety, and neither distinguishes them.

### Deadlock

All runs set `CHECK_DEADLOCK FALSE`: the process may die (`fault`), a gateway
connection may be freed, the bounds run out, and decoding a text ends.
Progress is checked by `ResolutionEnds`, `LoginCompletes` and `MessageSettles`
instead.

### Fairness

`FairSpec` of `ChannelConnection` is weak fairness of `JoinReply`, `LeaveReply`
and `RefreshOf` for each channel: the timer runs the library every 200 ms for
ever, the library calls back for each command (with an error if the server
does not answer) and ends each resolution, resolved or not.
Nothing is assumed of the core, the users or the channels. In
`GatewayConnection` it is weak fairness of the key exchange with
`VerifyPublicKey`, of `GetAuthMethod`, `NotifyNone` and `NickReply`: the server
goes on with a handshake whose questions the plugin answers, greets whom it let
in, and answers NICKs. A key the library does not trust and a missing password are
never answered (stages `verifying` and `no_password` are final), so
`LoginCompletes` starts from a handshake with a password and ends in `verifying`
if the key is unknown. It also excepts the cases that a nickname is refused or the
link goes, and that the nickname asked for is already ours: the reply then carries
our own id and no login is reported, which is what the code does. After the first
login `connected` stays set for good, so that the property is about the first
handshake: what later ones end in is `ConnectedNick`. In `LocalUser` it is weak
fairness of `Callback` for each message, which is enabled while the link that
carries it is up and its timer runs the library: a WHOIS is answered, or times
out, which is an answer that found nobody. When the link goes the library forgets
the message. Calls the library cannot be trusted with, over NULL or a freed
connection, are taken to return.
`ClientKeys` and the routines on texts state no liveness.

## 4. What is proved

The theorems hold for every number of channels, users, nicknames, connects and
bytes, and for every bound. The assumptions on constants are
`ConstantsAssumption` (types), `GatewayAssumption` (types), `KeysAssumption` and
`LocalUserAssumption` (NULL is none of them), `Base64Assumption` (bytes are at
most 255, lines are not empty), `LoadKeysAssumption` (the last line has at
least four bytes, keys are shorter than `Wrap`), `PortsAssumption` (ports are at
most 65535) and `MotdAssumption` (a line end is neither a letter nor 0); TLC
evaluates them in the runs of these modules.

**ChannelConnectionProofs**

* `TypeCorrect`. The non-trivial conjunct is that counts of presences stay
  natural numbers: a removal must be of a presence the lookup found.
* `EntriesCorrect`: `EntryInv`, the structural invariant. Ranks identify
  connections (`Ranked`), a connection has its own entry or NULL and is joined
  only while the library is on the channel (`EntryIsOwn`), and an outstanding
  resolution belongs to one joined connection that has not shown its presences,
  or to one that is gone (`ResolvedOnce`).
* `ShownAtMostTwice`: `DuplicateBound` is not inductive alone. The step that
  adds the resolved users must know that the channel has not had its initial
  presences before; this is `ResolvedOnce`. NICK_CHANGE moves a count to a new
  name, which is harmless only because the new name is known nowhere.
* `FaultsHaveCauses`: `FaultHasCause`, through `CauseInv`, whose parts hold each
  for the environments that do not break it. Without parts, a JOIN without reply
  is that of a connection that waits for it, and an entry of the library implies
  a joined connection that holds it (`OneJoinEach`): so a missing connection is
  never read, and no late error reply takes an entry away. Joining one channel at
  a time, the connection that waits has the highest rank, so that the lookup by
  entry meets the one it looks for first (`PendingIsLast`). Without parts, and
  without kicks during a resolution, the channel of a resolution is joined with
  the entry it was asked for (`ResolvedIsJoined`). A user on a channel of ours
  without a nickname is there while its list is being resolved, or when that
  failed (`NamedUnlessResolving`).
* `RefreshFindsUnlessGone`, `LookupFindsOneAtATime` and `OnlyNamesKill` follow: the
  two violated assertions hold when what the runs `channel_kicked` and
  `channel_two_joins` show, or a part, is excluded; and in the core's order (none
  of "part", "concurrent_joins", "kick_in_window", "early_topic") nothing is left
  but a name that is NULL: `lookup_165`, `notify_kicked_317`, `nick_change_330`.

**ChannelRosterProofs**

* `WhoStaysIsShown`: `StaysShown`, for every `Env` and `NickOnly`, through `NamesInv`: no two users
  on our channels have nicknames that fold alike. A channel may show names of
  users who have gone, and a lookup may find one of these instead of the name it
  is for; but what it finds folds like that name, and so is not that of anybody
  else who is there.
* `ImplementsRoster`: assumes `Orderly`, that `Env` has none of "async",
  "unresolved" and "part", and `NickOnly` nobody. `RosterInv`: no LEAVE is out
  (`NoLeave`), a channel the library is on has its presences added or on the way
  (`EntryShown`), a shown channel shows each user's name exactly once and another
  nothing (`ExactlyOnce`), and the users of a shown channel have all their names
  (`ListNamed`). So a lookup finds the user's own presence (`LookupFindsBearer`), a
  new nickname is known nowhere, and each handler is one of `ChannelRoster`'s
  moves or changes nothing a client sees.

**GatewayConnectionProofs**

* `GatewayTypeCorrect`.
* `ConnectedUnderAskedName`: `ConnectedNick`, through `NickInv`: every NICK on its
  way asks for what a client asked for on this connection, or, unless `connected`
  was set before it was made, for the local presence's name (`AskedOnly`); so does
  therefore the reply that logs us in, whichever comes first.
* `LoggedInUnlessRefused`, from the same invariant: the property that
  `gateway_nick_error` violates holds of every step before which, and in which, the
  server refuses no NICK.
* `OneTimerPerLink`: `HeldPerLink`, through `OrderInv`: while the order is kept, a
  freed connection has no link.
* `ClosedAtMostTwice`: `CloseBound`, through `CloseInv`: connections not yet made
  have not been closed (`NotYetClosed`), and the link is up only over a connection
  that was made.

**Base64Proofs**

* `QuadRoundTrip`, `PaddedRoundTrip`: for any bytes, the four characters the
  encoder writes are valid, and decode to them; the same for padded quads.
* `DecodesThePrefix`, `DecodesTheKey`: `base64_decode` inverts `base64_encode`, in
  lines of any width and cut into calls anywhere. The invariant is `DecodeInv`:
  between two turns of the loop the position is that of a line end, or of a whole
  number m of quads of the encoded key, and 3m bytes are in the buffer (`InStep`);
  these are the first of the key (`Decoded`); at the end there are as many as the
  key has, and text is only refused while some is left. `Payload` turns a position in
  the text into one in the key without line ends. That the decoder may stop with
  fewer than four characters left, as long as more text follows, is what makes
  the cuts harmless.
* `DecodeInBounds`: `TypeOK`, which is part of `DecodeInv`: the decoder reads
  inside the part it was given, and every value it stores fits an unsigned char.

**ClientKeysProofs**

* `KeysInMemoryMatch`, `OwnKeysReturn`. `KeysMatch` alone is not inductive: what is
  loaded comes from files a crash has left. The private key decides: one that
  opens has its own public key beside it (`FilesMatch`); once loading has failed,
  and until the new pair is complete, the presence has none that opens
  (`NothingToLose`); what is in memory, and what `ownKeys` remembers, is on disk
  (`InMemoryStored`, `OwnStored`).
* `PairReplacedOnlyUnread`: `ReplacedOnlyUnread`, in every process, through
  `NoPairToLose`: from the failed load to the end of the writing, the presence in
  hand has no complete pair, unless it is the one that did not load or the one
  being written.
* `KeysTypeCorrect`, on which they rest.

**LocalUserProofs**

* `OwnConnectionsHold`, `CallbacksFindOwner`, through `Owned`: while the core keeps
  its order, a gateway that is up points at its own connection and every
  connection that lives is that of a gateway that is up (`LinksLive`); what a
  gateway that is down still points at is dead (`StaleDead`). So a match of the
  lookup for a live connection is its owner, and a second close meets nobody.
* `MessagesKeepToTheirGateway`: `CarriedByOwn`, from the same: what a gateway
  connection points at, up or down, is its own or nobody's.
* `LocalUserTypeCorrect`: `TypeOK`, in every order of the core's events. The lookup
  returns a connection because any part of the array has a first one
  (`ArrayOrdered`, kept as connections are appended and taken out).

**LoadKeysProofs**

* `AllReleased`, through `Ledger`: what is allocated at each step, and where the
  derived key is. It is about what follows the copies of the public key; a `strdup`
  that fails ends in `no_copy`, where the other copy may be left.
* `KeyReadsInBounds`, through `Cursor`: where `data` points and what `len`
  counts at each step; `BodyExact` shows that none of the subtractions wraps for a
  key that is long enough, for every `Wrap`.

**TextsProofs**

Both theorems rest on the same lemmas: what `SelectInSeq` finds is the first
place that matches, because a set of natural numbers that is not empty has a
least element (`MinIsLeast`, from the well-foundedness of `<`). Induction over the
length of a text is done on a set of numbers (`Induction`), which needs no
operator parameter; the folds of the community modules are functions, and are
unfolded one element at a time (`ValueUnfolded`, `FlattenUnfolded`).

* `MotdIsSentInLines`: `MotdSentInLines`, of the text with the 0 the code puts
  before it: the first line sent begins with that 0. Through `MotdInv`: `strtok`
  stands on a line end, or before or behind the buffer, and the lines sent are
  exactly those that begin before that place.
* `PortsAreAsWritten`: `PortsAsWritten`, through `PortInv`: the ranges parsed are
  the first k the client wrote, and what is left of his list is the tail behind
  them (`IsTails`). `DecimalIsItsNumber` shows that a port in decimal has its own
  value for `atoi`, up to 65535; `WrittenParsed` that a range has no comma, so
  that the split does not cut it, and that the dash separates its two numbers.

**Model-checked only**: liveness (`ResolutionEnds`, `LoginCompletes`,
`MessageSettles`), which is outside this prover's reach, and that a run of these
routines ends; `LineBreaksIgnored`, `LoggedInWithNick` and `SameKeysNextTime` of the
violated runs, which do not hold. Every invariant and action property of the
passing runs has a theorem. The inductive invariants were checked with TLC on the
instances of the runs before they were proved.

## 5. Findings

The five violated runs, and more that were found by reading or need no run, are
listed under `findings` with the lines they contradict:

* a kick of ourselves during the resolution of a user list fails
  `i_assert(silc_chconn != NULL)`;
* two JOINs answered out of order fail `i_assert(channel_entry != NULL)`;
* a refused NICK reports the login with a nickname nobody asked for;
* a presence served second connects with the first one's keys, and with others
  after a restart;
* base64 text with a line break inside a quad is refused, although the header
  says line breaks are ignored;
* by reading: the key pair's NULL pointer is read on first use; the keys-loaded
  event is sent under the inverted condition; a kept `conn` may be another
  gateway's connection; `i_silc_load_keys` writes through NULL when a public key
  cannot be decoded, leaves a copy when a `strdup` fails, and never frees its other
  working copy; the MOTD buffer is initialised from a two-byte literal with a
  length of 2048 and is one byte short, and a 0 precedes the first line sent;
  client-provided keys are decoded and then not used; a channel still compares
  names regardless of case.

## 6. Not modelled, and why

* Events sent to clients, formats of topics, user@host strings and message
  flags: no state of the plugin depends on them.
* The library and the server beyond what the plugin observes; memory layout
  (the lookup by library connection also casts connections of other protocols).
* A JOIN or LEAVE of our own user: how `i_silc_client_id_is_me` compares the
  pointer it is given there depends on the bytes of an address.
* `i_silc_operation_connected` is not in the table of operations and is never
  called; `ask_passphrase` is empty. Event binding, the table of functions, the
  constructors of channels, and the build files, have no behaviour to check.
* The keys a client provides are decoded (`Base64`) and would be loaded by
  `i_silc_load_keys` (`LoadKeys`), which has no caller in this version; the two
  are therefore not composed.

## 7. Plan

Done, in the order of importance: the channel connections with their abstract
specification and proofs; the gateway connection and login; base64; the key pair
over crashes; the gateway connections of a user with the messages sent over them;
the routines on texts.

Next, to extend the model: the composition of `GatewayConnection` with
`ChannelConnection` (what a disconnect does to channel connections and to answers
still out).

Then, to prove more: the safety of that composition.
