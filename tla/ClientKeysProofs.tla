-------------------------- MODULE ClientKeysProofs --------------------------
(***************************************************************************)
(* What the order of the three tests in i_silc_client_init and of the two  *)
(* writes promises of the stored pairs: one is only replaced when it has   *)
(* just failed to load, and, while loading never fails for no reason, the  *)
(* keys in memory are one pair, over every crash.                          *)
(***************************************************************************)
EXTENDS ClientKeys, TLAPS

\* The private key decides: a file that opens has the public key beside it.
FilesMatch ==
  \A p \in Presences : file[p]["prv"] \notin {NoKey, Locked}
                         => file[p]["pub"] = file[p]["prv"]

\* Once loading has failed, and until the new pair is complete, the presence has
\* no private key that opens.
NothingToLose ==
  /\ pc = "generate" /\ ~HasPkcs => file[cur]["prv"] \in {NoKey, Locked}
  /\ pc = "create" => \/ file[cur]["prv"] \in {NoKey, Locked}
                      \/ \A kind \in Kinds : file[cur][kind] = fresh

\* The keys in memory, and those a presence was served with, are on disk.
InMemoryStored ==
  HasPkcs => /\ owner \in Presences /\ public_key = private_key
             /\ private_key # Locked /\ file[owner]["prv"] = private_key

OwnStored ==
  \A p \in Presences : ownKeys[p] # NoKey =>
    ownKeys[p] # Locked /\ file[p]["prv"] = ownKeys[p]

Running ==
  /\ pc \notin {"idle", "dead"} => cur \in Presences
  /\ pc = "create" => ~HasPkcs /\ fresh \in 1..MaxPairs
-----------------------------------------------------------------------------
\* Writing one file of the presence in hand leaves all the others.
LEMMA PutOne ==
  ASSUME file \in [Presences -> [Kinds -> Pairs \cup {NoKey}]],
         cur \in Presences, NEW kind \in Kinds, NEW pair \in Pairs \cup {NoKey},
         Put(kind, pair)
  PROVE  /\ file' \in [Presences -> [Kinds -> Pairs \cup {NoKey}]]
         /\ \A p \in Presences, k \in Kinds :
              file'[p][k] = IF p = cur /\ k = kind THEN pair ELSE file[p][k]
BY DEF Put

\* Generated pairs are none of the user's.
LEMMA PairNumbers ==
  /\ NoKey \notin Pairs /\ Installed \in Pairs /\ Locked \in Pairs
  /\ \A k \in 1..MaxPairs : k \in Pairs /\ k # NoKey /\ k # Locked
BY KeysAssumption DEF NoKey, Installed, Locked, Pairs

\* What WriteFile does, in the four ways it can end.
LEMMA WriteOutcome ==
  ASSUME TypeOK, Running, NEW kind \in Kinds, WriteFile(kind)
  PROVE  /\ file' \in [Presences -> [Kinds -> Pairs \cup {NoKey}]]
         /\ \E pair \in {fresh, NoKey} : \A p \in Presences, k \in Kinds :
              file'[p][k] = IF p = cur /\ k = kind THEN pair ELSE file[p][k]
         /\ pc' = "create" => \A p \in Presences, k \in Kinds :
              file'[p][k] = IF p = cur /\ k = kind THEN fresh ELSE file[p][k]
<1>1. cur \in Presences /\ fresh \in Pairs \cup {NoKey}
      /\ NoKey \in Pairs \cup {NoKey}
  BY PairNumbers DEF WriteFile, Running
<1>2. CASE Put(kind, fresh)
  BY <1>1, <1>2, PutOne DEF TypeOK
<1>3. CASE Put(kind, NoKey) /\ (Goto("announce") \/ Die)
  <2>1. pc' # "create"
    BY <1>3 DEF Goto, Die
  <2> QED
    BY <1>1, <1>3, <2>1, PutOne DEF TypeOK
<1> QED
  BY <1>2, <1>3 DEF WriteFile

\* The values stay within their types.
LEMMA KeysTypeStep == TypeOK /\ Running /\ [Next]_vars => TypeOK'
<1> SUFFICES ASSUME TypeOK, Running, [Next]_vars
             PROVE  TypeOK'
  OBVIOUS
<1> USE KeysAssumption, PairNumbers
<1>1. ASSUME NEW p \in Presences, ClientInit(p)
      PROVE  TypeOK'
  BY <1>1 DEF TypeOK, ClientInit, keyVars, history, loads
<1>2. ASSUME NEW p \in Presences, ClientDeinit(p)
      PROVE  TypeOK'
  BY <1>2 DEF TypeOK, ClientDeinit, keyVars, history, loads
<1>3. CASE LoadStep
  <2>1. cur \in Presences
    BY <1>3 DEF LoadStep, Running
  <2>2. file[cur]["pub"] \in Pairs \cup {NoKey}
        /\ file[cur]["prv"] \in Pairs \cup {NoKey}
    BY <2>1 DEF TypeOK, Kinds
  <2>3. pc' \in {"generate", "dead"} /\ clients' \in SUBSET Presences
        /\ cur' \in Presences \cup {NoPresence}
    BY <1>3 DEF LoadStep, Goto, NullRead, Die, TypeOK
  <2>4. /\ public_key' \in Pairs \cup {NoKey}
        /\ private_key' \in Pairs \cup {NoKey}
        /\ owner' \in Presences \cup {NoPresence}
        /\ clean' \in BOOLEAN /\ unread' \in BOOLEAN
    <3>1. CASE UNCHANGED <<keyVars, loads>>
      BY <3>1 DEF TypeOK, keyVars, loads
    <3>2. CASE LoadKeyPair
      BY <2>1, <2>2, <3>2 DEF TypeOK, LoadKeyPair, Usable, loads
    <3> QED
      BY <1>3, <3>1, <3>2 DEF LoadStep
  <2> QED
    BY <1>3, <2>3, <2>4 DEF TypeOK, LoadStep, history, loads
<1>4. CASE GenerateStep
  BY <1>4 DEF TypeOK, GenerateStep, Goto, NullRead, Die, keyVars, history, loads
<1>5. ASSUME NEW kind \in Kinds, WriteFile(kind)
      PROVE  TypeOK'
  <2>1. file' \in [Presences -> [Kinds -> Pairs \cup {NoKey}]]
    BY <1>5, WriteOutcome
  <2>2. pc' \in {"create", "announce", "dead"} /\ clients' \in SUBSET Presences
        /\ cur' \in Presences \cup {NoPresence}
    BY <1>5 DEF WriteFile, Goto, Die, TypeOK
  <2> QED
    BY <1>5, <2>1, <2>2 DEF TypeOK, WriteFile, keyVars, history, loads
<1>6. CASE CreateDone
  <2>1. cur \in Presences /\ fresh \in Pairs
    BY <1>6 DEF CreateDone, Running
  <2> QED
    BY <1>6, <2>1 DEF TypeOK, CreateDone, Created, Goto, keyVars, history, loads
<1>7. CASE AnnounceStep
  <2>1. cur \in Presences
    BY <1>7 DEF AnnounceStep, Running
  <2>2. /\ ownKeys' \in [Presences -> Pairs \cup {NoKey}]
        /\ anyKeys' \in [Presences -> Pairs \cup {NoKey}]
    <3>1. CASE ClientReady
      <4>1. \/ ownKeys' = ownKeys
            \/ ownKeys' = [ownKeys EXCEPT ![cur] = private_key]
        BY <3>1 DEF ClientReady
      <4> QED
        BY <2>1, <3>1, <4>1 DEF TypeOK, ClientReady
    <3>2. CASE UNCHANGED history
      BY <3>2 DEF TypeOK, history
    <3> QED
      BY <1>7, <3>1, <3>2 DEF AnnounceStep
  <2>3. pc' \in {"idle", "dead"} /\ clients' \in SUBSET Presences
        /\ cur' \in Presences \cup {NoPresence}
    BY <1>7, <2>1 DEF TypeOK, AnnounceStep, ClientReady, NullRead, Die
  <2> QED
    BY <1>7, <2>2, <2>3 DEF TypeOK, AnnounceStep, keyVars, loads
<1>8. CASE Crash
  BY <1>8 DEF TypeOK, Crash, Die, keyVars, history, loads
<1>9. CASE Restart
  BY <1>9 DEF TypeOK, Restart, FreshGlobals, history, loads
<1>10. CASE UNCHANGED vars
  BY <1>10 DEF TypeOK, vars, keyVars, history, loads
<1> QED
  BY <1>1, <1>2, <1>3, <1>4, <1>5, <1>6, <1>7, <1>8, <1>9, <1>10 DEF Next

LEMMA RunningStep == TypeOK /\ Running /\ [Next]_vars => Running'
<1> SUFFICES ASSUME TypeOK, Running, [Next]_vars
             PROVE  Running'
  OBVIOUS
<1> USE KeysAssumption DEF Running, HasPkcs
<1>1. ASSUME NEW p \in Presences, ClientInit(p) \/ ClientDeinit(p)
      PROVE  Running'
  BY <1>1 DEF ClientInit, ClientDeinit
<1>2. CASE LoadStep
  BY <1>2 DEF LoadStep, Goto, NullRead, Die
<1>3. CASE GenerateStep
  BY <1>3 DEF TypeOK, GenerateStep, Goto, NullRead, Die, MayGenerate, keyVars
<1>4. ASSUME NEW kind \in Kinds, WriteFile(kind)
      PROVE  Running'
  BY <1>4 DEF WriteFile, Goto, Die, keyVars
<1>5. CASE CreateDone \/ AnnounceStep \/ Crash \/ Restart
  BY <1>5 DEF CreateDone, AnnounceStep, ClientReady, NullRead, Crash, Restart,
              Goto, Die
<1>6. CASE UNCHANGED vars
  BY <1>6 DEF vars, keyVars
<1> QED
  BY <1>1, <1>2, <1>3, <1>4, <1>5, <1>6 DEF Next
-----------------------------------------------------------------------------
(* The invariant, for as long as no usable pair has failed to load *)

Stored == FilesMatch /\ NothingToLose /\ InMemoryStored /\ OwnStored

\* A step that leaves the files and the keys in memory alone.
LEMMA StoredFrame ==
  ASSUME Stored, UNCHANGED <<file, keyVars, ownKeys>>,
         pc' \notin {"generate", "create"}
  PROVE  Stored'
BY DEF Stored, FilesMatch, NothingToLose, InMemoryStored, OwnStored, HasPkcs,
       keyVars

LEMMA StoredLoad ==
  ASSUME TypeOK, Running, Stored, LoadStep, clean'
  PROVE  Stored'
<1>1. cur \in Presences /\ UNCHANGED <<file, ownKeys, fresh>>
  BY DEF LoadStep, Running, history
<1>2. CASE HasPkcs /\ Goto("generate") /\ UNCHANGED <<keyVars, loads>>
  BY <1>1, <1>2 DEF Stored, FilesMatch, NothingToLose, InMemoryStored,
                    OwnStored, HasPkcs, keyVars, Goto
<1>3. CASE NullRead /\ UNCHANGED <<keyVars, loads>>
  BY <1>1, <1>3, StoredFrame DEF NullRead, Die
<1>4. CASE ~HasPkcs /\ LoadKeyPair /\ Goto("generate")
  <2>1. cur' = cur /\ pc' = "generate"
    BY <1>4 DEF Goto
  <2>2. CASE /\ Usable(file[cur]) /\ owner' = cur
             /\ public_key' = file[cur]["pub"] /\ private_key' = file[cur]["prv"]
    BY <1>1, <2>1, <2>2 DEF Stored, FilesMatch, NothingToLose, InMemoryStored,
                            OwnStored, HasPkcs, Usable
  <2>3. CASE ~Usable(file[cur]) /\ UNCHANGED <<private_key, owner>>
    <3>1. file[cur]["prv"] \in {NoKey, Locked}
      BY <1>1, <2>3 DEF Stored, FilesMatch, Usable
    <3> QED
      BY <1>1, <1>4, <2>1, <2>3, <3>1
         DEF Stored, FilesMatch, NothingToLose, InMemoryStored, OwnStored, HasPkcs
  <2> QED
    BY <1>4, <2>2, <2>3 DEF LoadKeyPair
<1> QED
  BY <1>2, <1>3, <1>4 DEF LoadStep

LEMMA StoredGenerate ==
  ASSUME TypeOK, Running, Stored, GenerateStep
  PROVE  Stored'
<1>1. cur \in Presences /\ UNCHANGED <<file, keyVars, ownKeys>>
  BY DEF GenerateStep, Running, history
<1>2. CASE pc' \notin {"generate", "create"}
  BY <1>1, <1>2, StoredFrame
<1>3. CASE pc' \in {"generate", "create"}
  <2>1. ~HasPkcs /\ pc = "generate" /\ pc' = "create" /\ cur' = cur
    BY <1>3 DEF GenerateStep, Goto, NullRead, Die, MayGenerate
  <2> QED
    BY <1>1, <2>1 DEF Stored, FilesMatch, NothingToLose, InMemoryStored,
                      OwnStored, HasPkcs, keyVars
<1> QED
  BY <1>2, <1>3

\* Writing touches only a presence without a private key that opens, the private
\* key last.
LEMMA StoredWrite ==
  ASSUME TypeOK, Running, Stored, NEW kind \in Kinds, WriteFile(kind)
  PROVE  Stored' /\ file[cur]["prv"] \in {NoKey, Locked}
<1> USE PairNumbers DEF Kinds
<1>1. /\ cur \in Presences /\ ~HasPkcs /\ fresh \in 1..MaxPairs
      /\ UNCHANGED <<keyVars, ownKeys, fresh>> /\ MayWrite(kind)
      /\ pc = "create"
  BY DEF WriteFile, Running, history
<1>2. PICK pair \in {fresh, NoKey} : \A p \in Presences, k \in Kinds :
        file'[p][k] = IF p = cur /\ k = kind THEN pair ELSE file[p][k]
  BY WriteOutcome
<1>3. file[cur]["prv"] \in {NoKey, Locked}
  BY <1>1 DEF Stored, NothingToLose, MayWrite
<1>4. FilesMatch'
  <2>1. kind = "prv" => file[cur]["pub"] = fresh
    BY <1>1 DEF MayWrite
  <2>2. ASSUME NEW p \in Presences, file'[p]["prv"] \notin {NoKey, Locked}
        PROVE  file'[p]["pub"] = file'[p]["prv"]
    <3>1. CASE p = cur
      BY <1>2, <1>3, <2>1, <2>2, <3>1
    <3>2. CASE p # cur
      BY <1>2, <2>2, <3>2 DEF Stored, FilesMatch
    <3> QED
      BY <3>1, <3>2
  <2> QED
    BY <2>2 DEF FilesMatch
<1>5. NothingToLose'
  <2>1. pc' # "generate"
    BY DEF WriteFile, Goto, Die
  <2>2. ASSUME pc' = "create"
        PROVE  \/ file'[cur']["prv"] \in {NoKey, Locked}
               \/ \A k \in Kinds : file'[cur'][k] = fresh'
    <3>1. cur' = cur
      BY <2>2 DEF WriteFile, Goto, Die
    <3>2. \A p \in Presences, k \in Kinds :
            file'[p][k] = IF p = cur /\ k = kind THEN fresh ELSE file[p][k]
      BY <2>2, WriteOutcome
    <3> QED
      BY <1>1, <1>3, <3>1, <3>2 DEF MayWrite
  <2> QED
    BY <2>1, <2>2 DEF NothingToLose
<1>6. InMemoryStored'
  BY <1>1 DEF InMemoryStored, HasPkcs, keyVars
<1>7. OwnStored'
  BY <1>1, <1>2, <1>3 DEF Stored, OwnStored
<1> QED
  BY <1>3, <1>4, <1>5, <1>6, <1>7 DEF Stored

LEMMA StoredCreate ==
  ASSUME TypeOK, Running, Stored, CreateDone
  PROVE  Stored'
<1>1. /\ cur \in Presences /\ ~HasPkcs /\ fresh \in 1..MaxPairs
      /\ UNCHANGED <<file, ownKeys>> /\ pc' = "announce"
  BY DEF CreateDone, Running, Goto, history
<1>2. CASE Created
  BY <1>1, <1>2, PairNumbers
     DEF Created, Kinds, Stored, FilesMatch, NothingToLose, InMemoryStored,
         OwnStored, HasPkcs
<1>3. CASE UNCHANGED keyVars
  BY <1>1, <1>3, StoredFrame
<1> QED
  BY <1>2, <1>3 DEF CreateDone

LEMMA StoredAnnounce ==
  ASSUME TypeOK, Running, Stored, AnnounceStep
  PROVE  /\ Stored'
         /\ \A p \in Presences : ownKeys[p] # NoKey => ownKeys'[p] = ownKeys[p]
<1>1. /\ cur \in Presences /\ UNCHANGED <<file, keyVars>>
      /\ pc' \notin {"generate", "create"}
  BY DEF AnnounceStep, Running, ClientReady, NullRead, Die
<1>2. CASE UNCHANGED ownKeys
  BY <1>1, <1>2, StoredFrame
<1>3. CASE /\ HasPkcs /\ owner = cur
           /\ ownKeys' = [ownKeys EXCEPT ![cur] = private_key]
  BY <1>1, <1>3 DEF TypeOK, Stored, FilesMatch, NothingToLose, InMemoryStored,
                    OwnStored, HasPkcs, keyVars
<1> QED
  BY <1>2, <1>3 DEF AnnounceStep, ClientReady, history
-----------------------------------------------------------------------------
(* The three promises *)

KeysInd == TypeOK /\ Running /\ (clean => Stored)

\* The invariant is preserved while loading does not fail for no reason, and so
\* are the pairs the presences were first served with.
LEMMA StoredStep ==
  ASSUME TypeOK, Running, clean => Stored, [Next]_vars, clean'
  PROVE  /\ Stored'
         /\ \A p \in Presences : ownKeys[p] # NoKey => ownKeys'[p] = ownKeys[p]
<1>1. ASSUME NEW p \in Presences, ClientInit(p) \/ ClientDeinit(p)
      PROVE  clean /\ pc' \notin {"generate", "create"}
             /\ UNCHANGED <<file, keyVars, ownKeys>>
  BY <1>1 DEF ClientInit, ClientDeinit, history, loads
<1>2. CASE LoadStep
  <2>1. clean
    BY <1>2 DEF LoadStep, LoadKeyPair, loads
  <2> QED
    BY <1>2, <2>1, StoredLoad DEF LoadStep, history
<1>3. CASE GenerateStep
  BY <1>3, StoredGenerate DEF GenerateStep, history, loads
<1>4. ASSUME NEW kind \in Kinds, WriteFile(kind)
      PROVE  Stored' /\ UNCHANGED ownKeys
  <2>1. clean /\ UNCHANGED ownKeys
    BY <1>4 DEF WriteFile, history, loads
  <2> QED
    BY <1>4, <2>1, StoredWrite
<1>5. CASE CreateDone
  BY <1>5, StoredCreate DEF CreateDone, history, loads
<1>6. CASE AnnounceStep
  BY <1>6, StoredAnnounce DEF AnnounceStep, loads
<1>7. CASE Crash
  <2>1. pc' = "dead" /\ clean /\ UNCHANGED <<file, keyVars, ownKeys>>
    BY <1>7 DEF Crash, Die, history, loads
  <2> QED
    BY <2>1, StoredFrame
<1>8. CASE Restart
  <2>1. pc' = "idle" /\ clean /\ private_key' = NoKey
        /\ UNCHANGED <<file, ownKeys>>
    BY <1>8 DEF Restart, FreshGlobals, history, loads
  <2> QED
    BY <2>1 DEF Stored, FilesMatch, NothingToLose, InMemoryStored, OwnStored,
                HasPkcs
<1>9. CASE UNCHANGED vars
  BY <1>9 DEF vars, history, keyVars, loads, Stored, FilesMatch, NothingToLose,
              InMemoryStored, OwnStored, HasPkcs
<1> QED
  BY <1>1, <1>2, <1>3, <1>4, <1>5, <1>6, <1>7, <1>8, <1>9, StoredFrame DEF Next

\* The invariant is inductive.
LEMMA KeysIndCorrect == Spec => []KeysInd
<1>1. Init => KeysInd
  <2> SUFFICES ASSUME Init
               PROVE  KeysInd
    OBVIOUS
  <2>1. PICK own \in [Presences -> {NoKey, Installed, Locked}] :
          file = [p \in Presences |-> [k \in Kinds |-> own[p]]]
    BY DEF Init
  <2>2. \A p \in Presences : file[p]["pub"] = own[p] /\ file[p]["prv"] = own[p]
    BY <2>1 DEF Kinds
  <2>3. file \in [Presences -> [Kinds -> Pairs \cup {NoKey}]]
    BY <2>1, PairNumbers
  <2>4. TypeOK
    <3>1. /\ ownKeys \in [Presences -> Pairs \cup {NoKey}]
          /\ anyKeys \in [Presences -> Pairs \cup {NoKey}]
      BY DEF Init
    <3>2. fresh \in 0..MaxPairs /\ lives \in Nat
      BY KeysAssumption DEF Init
    <3>3. /\ public_key \in Pairs \cup {NoKey} /\ private_key \in Pairs \cup {NoKey}
          /\ clients \in SUBSET Presences
          /\ clean \in BOOLEAN /\ unread \in BOOLEAN
      BY DEF Init
    <3> QED
      BY <2>3, <3>1, <3>2, <3>3 DEF Init, TypeOK
  <2>5. Running /\ Stored
    BY <2>2 DEF Init, Running, Stored, FilesMatch, NothingToLose,
                InMemoryStored, OwnStored, HasPkcs
  <2> QED
    BY <2>4, <2>5 DEF KeysInd
<1>2. KeysInd /\ [Next]_vars => KeysInd'
  BY KeysTypeStep, RunningStep, StoredStep DEF KeysInd
<1> QED
  BY <1>1, <1>2, PTL DEF Spec

\* Every state of the key handling is well typed.
THEOREM KeysTypeCorrect == Spec => []TypeOK
<1>1. KeysInd => TypeOK
  BY DEF KeysInd
<1> QED
  BY <1>1, KeysIndCorrect, PTL

\* The public and the private key in memory are one pair, although the process
\* may have died between writing the one and the other.
THEOREM KeysInMemoryMatch == Spec => []KeysMatch
<1>1. KeysInd => KeysMatch
  BY DEF KeysInd, KeysMatch, Stored, InMemoryStored
<1> QED
  BY <1>1, KeysIndCorrect, PTL

\* No pair is lost while keys are generated: there is none to lose, it has just
\* failed to load, or it is the new one.
NoPairToLose ==
  ~unread => /\ pc = "generate" /\ ~HasPkcs => ~Paired(file[cur])
             /\ pc = "create" => \/ ~Paired(file[cur])
                                 \/ \A kind \in Kinds : file[cur][kind] = fresh

\* A write is part of the making of a pair; that pair is whole after the last one.
LEMMA NoPairLostWriting ==
  ASSUME TypeOK, Running, NoPairToLose, NEW kind \in Kinds, WriteFile(kind)
  PROVE  /\ NoPairToLose'
         /\ \A p \in Presences :
              Paired(file[p]) /\ file'[p] # file[p] => p = cur /\ unread
<1> USE PairNumbers DEF Kinds
<1>1. /\ cur \in Presences /\ fresh \in 1..MaxPairs /\ pc = "create"
      /\ UNCHANGED <<fresh, unread>> /\ MayWrite(kind)
  BY DEF WriteFile, Running, loads
<1>2. \E pair \in {fresh, NoKey} : file' = [file EXCEPT ![cur][kind] = pair]
  BY DEF WriteFile, Put
<1>3. \A p \in Presences : p # cur => file'[p] = file[p]
  BY <1>2 DEF TypeOK
<1>4. ~unread => ~Paired(file[cur])
  BY <1>1 DEF NoPairToLose, MayWrite
<1>5. NoPairToLose'
  <2>1. pc' # "generate"
    BY DEF WriteFile, Goto, Die
  <2>2. ASSUME pc' = "create", ~unread
        PROVE  ~Paired(file'[cur]) \/ \A k \in Kinds : file'[cur][k] = fresh
    <3>1. \A p \in Presences, k \in Kinds :
            file'[p][k] = IF p = cur /\ k = kind THEN fresh ELSE file[p][k]
      BY <2>2, WriteOutcome
    <3>2. CASE kind = "prv"
      BY <1>1, <3>1, <3>2 DEF MayWrite
    <3>3. CASE kind = "pub"
      BY <1>1, <3>1, <3>3 DEF Paired
    <3> QED
      BY <3>2, <3>3
  <2>3. pc' = "create" => cur' = cur
    BY DEF WriteFile, Goto, Die
  <2> QED
    BY <1>1, <2>1, <2>2, <2>3 DEF NoPairToLose
<1> QED
  BY <1>3, <1>4, <1>5

LEMMA NoPairStep ==
  ASSUME TypeOK, Running, NoPairToLose, [Next]_vars
  PROVE  /\ NoPairToLose'
         /\ \A p \in Presences :
              Paired(file[p]) /\ file'[p] # file[p] => p = cur /\ unread
<1>1. CASE UNCHANGED file /\ pc' \notin {"generate", "create"}
  BY <1>1 DEF NoPairToLose
<1>2. CASE LoadStep
  <2>1. UNCHANGED file /\ cur \in Presences
    BY <1>2 DEF LoadStep, Running
  <2>2. CASE HasPkcs /\ Goto("generate") /\ UNCHANGED <<keyVars, loads>>
    BY <2>1, <2>2 DEF NoPairToLose, HasPkcs, keyVars, Goto
  <2>3. CASE NullRead
    BY <2>1, <2>3 DEF NoPairToLose, NullRead, Die
  <2>4. CASE LoadKeyPair /\ Goto("generate")
    <3>1. HasPkcs' \/ unread' = Usable(file[cur])
      BY <2>4 DEF LoadKeyPair, Usable, HasPkcs
    <3> QED
      BY <2>1, <2>4, <3>1 DEF NoPairToLose, Goto, Paired
  <2> QED
    BY <1>2, <2>2, <2>3, <2>4 DEF LoadStep
<1>3. CASE GenerateStep
  <2>1. UNCHANGED <<file, unread>>
    BY <1>3 DEF GenerateStep, loads
  <2>2. \/ pc' \notin {"generate", "create"}
        \/ pc = "generate" /\ ~HasPkcs /\ pc' = "create" /\ cur' = cur
    BY <1>3 DEF GenerateStep, Goto, NullRead, Die, MayGenerate
  <2> QED
    BY <2>1, <2>2 DEF NoPairToLose
<1>4. ASSUME NEW kind \in Kinds, WriteFile(kind)
      PROVE  /\ NoPairToLose'
             /\ \A p \in Presences :
                  Paired(file[p]) /\ file'[p] # file[p] => p = cur /\ unread
  BY <1>4, NoPairLostWriting
<1>5. CASE UNCHANGED vars
  BY <1>5 DEF vars, keyVars, loads, NoPairToLose, HasPkcs
<1>6. ASSUME NEW p \in Presences, ClientInit(p) \/ ClientDeinit(p)
      PROVE  UNCHANGED file /\ pc' \notin {"generate", "create"}
  BY <1>6 DEF ClientInit, ClientDeinit
<1> QED
  BY <1>1, <1>2, <1>3, <1>4, <1>5, <1>6
     DEF Next, CreateDone, AnnounceStep, ClientReady, NullRead, Crash, Restart,
         Goto, Die

\* Generating keys writes over a pair that opens without a passphrase only when
\* this i_silc_client_init failed to load it, whatever crashes, failed loads and
\* failed writes came before.
THEOREM PairReplacedOnlyUnread == Spec => ReplacedOnlyUnread
<1>1. Init => NoPairToLose
  BY DEF Init, NoPairToLose
<1>2. KeysInd => TypeOK /\ Running
  BY DEF KeysInd
<1>3. TypeOK /\ Running /\ NoPairToLose /\ [Next]_vars => NoPairToLose'
  BY NoPairStep
<1>4. TypeOK /\ Running /\ NoPairToLose /\ [Next]_vars
        => [\A p \in Presences :
              Paired(file[p]) /\ file'[p] # file[p] => p = cur /\ unread]_vars
  BY NoPairStep
<1> QED
  BY <1>1, <1>2, <1>3, <1>4, KeysIndCorrect, PTL DEF Spec, ReplacedOnlyUnread

\* A presence that is served first has the keys it had the last time it was.
THEOREM OwnKeysReturn == Spec => SameOwnKeys
<1>1. KeysInd /\ [Next]_vars
        => [clean' => \A p \in Presences :
              ownKeys[p] # NoKey => ownKeys'[p] = ownKeys[p]]_vars
  BY StoredStep DEF KeysInd
<1> QED
  BY <1>1, KeysIndCorrect, PTL DEF Spec, SameOwnKeys
=============================================================================
