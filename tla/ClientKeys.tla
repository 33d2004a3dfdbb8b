------------------------------ MODULE ClientKeys ------------------------------
(***************************************************************************)
(* The key pair of the SILC client.  i_silc_client_init (silc-client.c)    *)
(* makes a client for a local presence: it loads the presence's key files, *)
(* or generates a pair and has it written to them, unless the globals      *)
(* public_key and private_key hold a pair already.  The process may die at *)
(* any step, also between the two files, and start again.                  *)
(*                                                                         *)
(* silc_load_key_pair and silc_create_key_pair are external: loading fails *)
(* when a file is missing or the private key wants another passphrase than *)
(* "", and may fail otherwise; clean says that it has not.  Of a new pair   *)
(* the public key is written first, as the arguments name them, then the   *)
(* private key, and writing may fail.                                      *)
(***************************************************************************)
EXTENDS Integers

CONSTANTS Presences,  \* the names of the local presences
          NoPresence, \* none of them
          MaxPairs,   \* bound: pairs ever generated
          MaxLives    \* bound: how often the process is started

ASSUME KeysAssumption ==
  NoPresence \notin Presences /\ MaxPairs \in Nat /\ MaxLives \in Nat

VARIABLES
  file,         \* file[p][kind]: the pair in silc-gen-p.pub and silc-gen-p.prv
  public_key,   \* the globals of silc-client.c, 0 is NULL
  private_key,
  pc,           \* where i_silc_client_init is
  cur,          \* the presence it runs for
  owner,        \* the presence whose keys the globals hold
  clients,      \* the presences that have a client
  fresh,        \* pairs generated so far
  lives,        \* how often the process was started
  ownKeys,      \* the pair loaded or made for p when it last got a client
  anyKeys,      \* the pair p last got a client with, its own or another's
  clean,        \* no files that could be loaded have failed to load
  unread        \* those of cur have, in this i_silc_client_init

keyVars == <<public_key, private_key, owner>>
history == <<ownKeys, anyKeys>>
loads == <<clean, unread>>
vars == <<file, keyVars, pc, cur, clients, fresh, lives, history, loads>>

(***************************************************************************)
(* Pairs are numbered: 1..MaxPairs are generated, Installed is a pair of   *)
(* the user's own, Locked one of his that has a passphrase.                *)
(***************************************************************************)
NoKey == 0
Installed == MaxPairs + 1
Locked == MaxPairs + 2
Pairs == 1..Locked
Kinds == {"pub", "prv"}

TypeOK ==
  /\ file \in [Presences -> [Kinds -> Pairs \cup {NoKey}]]
  /\ public_key \in Pairs \cup {NoKey} /\ private_key \in Pairs \cup {NoKey}
  /\ pc \in {"idle", "load", "generate", "create", "announce", "dead"}
  /\ cur \in Presences \cup {NoPresence}
  /\ owner \in Presences \cup {NoPresence}
  /\ clients \in SUBSET Presences
  /\ fresh \in 0..MaxPairs /\ lives \in Nat
  /\ ownKeys \in [Presences -> Pairs \cup {NoKey}]
  /\ anyKeys \in [Presences -> Pairs \cup {NoKey}]
  /\ clean \in BOOLEAN /\ unread \in BOOLEAN

Init ==
  /\ \E own \in [Presences -> {NoKey, Installed, Locked}] :
       file = [p \in Presences |-> [k \in Kinds |-> own[p]]]
  /\ public_key = NoKey /\ private_key = NoKey /\ owner = NoPresence
  /\ pc = "idle" /\ cur = NoPresence /\ clients = {}
  /\ fresh = 0 /\ lives = 1
  /\ ownKeys = [p \in Presences |-> NoKey]
  /\ anyKeys = [p \in Presences |-> NoKey]
  /\ clean = TRUE /\ unread = FALSE

\* The files i_silc_gen_key_path names open, the private key with "".
Usable(f) == f["pub"] # NoKey /\ f["prv"] \notin {NoKey, Locked}

\* They are the two halves of one pair.
Paired(f) == Usable(f) /\ f["pub"] = f["prv"]
-----------------------------------------------------------------------------
(* i_silc_client_init *)

Goto(label) == pc' = label /\ UNCHANGED <<cur, clients>>
Die == pc' = "dead" /\ cur' = NoPresence /\ clients' = {}

ClientInit(p) ==
  /\ pc = "idle" /\ p \notin clients
  /\ pc' = "load" /\ cur' = p /\ unread' = FALSE
  /\ UNCHANGED <<file, keyVars, clients, fresh, lives, history, clean>>

\* "if( !private_key->pkcs )".  While private_key is NULL this reads address 0:
\* the process dies, or the read gives 0 where that page can be read.
HasPkcs == private_key # NoKey
NullRead == private_key = NoKey /\ Die

LoadSwapped == UNCHANGED <<keyVars, loads>>

LoadKeyPair ==
  \/ /\ Usable(file[cur])
     /\ public_key' = file[cur]["pub"] /\ private_key' = file[cur]["prv"]
     /\ owner' = cur /\ UNCHANGED loads
  \/ \* a failure may come after the public key was read
     /\ public_key' \in {public_key} \cup ({file[cur]["pub"]} \ {NoKey})
     /\ clean' = (clean /\ ~Usable(file[cur]))
     /\ unread' = Usable(file[cur])
     /\ UNCHANGED <<private_key, owner>>

LoadStep ==
  /\ pc = "load"
  /\ \/ HasPkcs /\ Goto("generate") /\ UNCHANGED <<keyVars, loads>>
     \/ NullRead /\ UNCHANGED <<keyVars, loads>>
     \/ ~HasPkcs /\ LoadKeyPair /\ Goto("generate")
  /\ UNCHANGED <<file, fresh, lives, history>>

MayGenerateAlways == TRUE
MayGenerate == ~HasPkcs

GenerateStep ==
  /\ pc = "generate"
  /\ \/ HasPkcs /\ Goto("announce") /\ UNCHANGED fresh
     \/ NullRead /\ UNCHANGED fresh
     \/ /\ MayGenerate /\ fresh < MaxPairs
        /\ fresh' = fresh + 1
        /\ Goto("create")
  /\ UNCHANGED <<file, keyVars, lives, history, loads>>

\* silc_create_key_pair writes the two files.
Put(kind, pair) == file' = [file EXCEPT ![cur][kind] = pair]

MayWrite(kind) ==
  file[cur][kind] # fresh /\ (kind = "prv" => file[cur]["pub"] = fresh)

WriteFile(kind) ==
  /\ pc = "create" /\ MayWrite(kind)
  /\ \/ Put(kind, fresh) /\ Goto("create")
     \/ Put(kind, NoKey) /\ (Goto("announce") \/ Die)
  /\ UNCHANGED <<keyVars, fresh, lives, history, loads>>

\* It returns the pair in the globals, or fails; keys_generated is sent anyway.
CreatedHalf ==
  /\ \A kind \in Kinds : file[cur][kind] = fresh
  /\ private_key' = fresh /\ owner' = cur /\ UNCHANGED public_key

Created ==
  /\ \A kind \in Kinds : file[cur][kind] = fresh
  /\ public_key' = fresh /\ private_key' = fresh /\ owner' = cur

CreateDone ==
  /\ pc = "create"
  /\ Created \/ UNCHANGED keyVars
  /\ Goto("announce")
  /\ UNCHANGED <<file, fresh, lives, history, loads>>

\* keys_loaded is sent when there are none, and then, or otherwise, the client
\* is there.
ClientReady ==
  /\ pc' = "idle" /\ cur' = NoPresence
  /\ clients' = clients \cup {cur}
  /\ anyKeys' = [anyKeys EXCEPT ![cur] = private_key]
  /\ ownKeys' = IF HasPkcs /\ owner = cur
                THEN [ownKeys EXCEPT ![cur] = private_key] ELSE ownKeys

AnnounceStep ==
  /\ pc = "announce"
  /\ ClientReady \/ (NullRead /\ UNCHANGED history)
  /\ UNCHANGED <<file, keyVars, fresh, lives, loads>>
-----------------------------------------------------------------------------
\* i_silc_client_deinit frees the client; the globals stay.
ClientDeinit(p) ==
  /\ pc = "idle" /\ p \in clients
  /\ clients' = clients \ {p}
  /\ UNCHANGED <<file, keyVars, pc, cur, fresh, lives, history, loads>>

Crash ==
  /\ pc # "dead" /\ Die
  /\ UNCHANGED <<file, keyVars, fresh, lives, history, loads>>

\* A new process: the globals are NULL again.
FreshGlobals ==
  public_key' = NoKey /\ private_key' = NoKey /\ owner' = NoPresence

Restart ==
  /\ pc = "dead" /\ lives < MaxLives
  /\ lives' = lives + 1 /\ pc' = "idle"
  /\ FreshGlobals
  /\ UNCHANGED <<file, cur, clients, fresh, history, loads>>

Next ==
  \/ \E p \in Presences : ClientInit(p) \/ ClientDeinit(p)
  \/ LoadStep \/ GenerateStep
  \/ \E kind \in Kinds : WriteFile(kind)
  \/ CreateDone \/ AnnounceStep
  \/ Crash \/ Restart

Spec == Init /\ [][Next]_vars
-----------------------------------------------------------------------------
(* Properties *)

\* The public key and the private key the plugin holds are of one pair, whatever
\* crash has cut the writing of their files short: the mix of a new public and an
\* old private key is never loaded.
KeysMatch == clean /\ HasPkcs => public_key = private_key

\* A pair on disk that opens without a passphrase is only written over when this
\* very i_silc_client_init failed to load it, and only that of its own presence:
\* the write that a crash cuts short, and the files it leaves, never cost another.
ReplacedOnlyUnread ==
  [][\A p \in Presences :
       Paired(file[p]) /\ file'[p] # file[p] => p = cur /\ unread]_vars

\* The presence a process serves first gets the pair it got the last time it was
\* first, over crashes and restarts.
SameOwnKeys ==
  [][clean' => \A p \in Presences :
       ownKeys[p] # NoKey => ownKeys'[p] = ownKeys[p]]_vars

\* README:31-32: "Next time, if you want to connect with the same presence name,
\* these keys will be used."
SameKeysNextTime ==
  [][clean' => \A p \in Presences :
       anyKeys[p] # NoKey /\ anyKeys'[p] # NoKey => anyKeys'[p] = anyKeys[p]]_vars
=============================================================================
