------------------------------ MODULE LoadKeys ------------------------------
(***************************************************************************)
(* i_silc_load_keys (support.c): a public and a private key that a client  *)
(* has sent are checked and decoded in memory.  One step for each call     *)
(* that can fail, with what the failing branch frees, and one for each     *)
(* read of the private key, whose lengths are unsigned numbers.            *)
(*                                                                         *)
(* Lengths are in bytes.  What the library makes of the contents is open.  *)
(***************************************************************************)
EXTENDS Integers

CONSTANTS KeyBegin, KeyEnd,  \* the lengths of the first and the last line
          MacLen,            \* silc_hmac_len, 12 for hmac-sha1-96
          Wrap,              \* the numbers a SilcUInt32 holds
          KeyLens            \* the lengths of keys that clients send

ASSUME LoadKeysAssumption ==
  /\ {KeyBegin, KeyEnd, MacLen} \subseteq Nat \ {0} /\ 4 <= KeyEnd
  /\ Wrap \in Nat \ {0} /\ KeyLens \subseteq 0..(Wrap - 1)

VARIABLES
  step,     \* where the function is
  pub_len,  \* the lengths of the two keys
  prv_len,
  len, at,  \* len, and how far data points into its buffer
  read,     \* the key whose buffer was read last, and how far
  held,     \* what is allocated, of old, the cipher, the hash and the hmac
  keymat,   \* "key" while the array holds the decryption key
  returned  \* "no", or the value returned

loadVars == <<step, pub_len, prv_len, len, at, read, held, keymat, returned>>

Word == 4
Minus(a, b) == (a - b) % Wrap

LoadInit ==
  /\ step = "copy" /\ held = {} /\ keymat = "zero"
  /\ pub_len \in KeyLens /\ prv_len \in KeyLens
  /\ len = 0 /\ at = 0 /\ read = <<"none", 0>>
  /\ returned = "no"

ReturnFalse(freed) ==
  /\ returned' = "FALSE" /\ step' = "done"
  /\ held' = held \ freed
  /\ UNCHANGED <<len, at>>

\* The two copies of the public key.  When the strdup of one fails the function
\* returns without freeing the other.
CopyKey ==
  /\ step = "copy"
  /\ \/ step' = "public" /\ held' = {"old"} /\ UNCHANGED returned
     \/ step' = "no_copy" /\ held' \in {{}, {"old"}} /\ returned' = "FALSE"
  /\ UNCHANGED <<pub_len, prv_len, len, at, read, keymat>>

\* What is left of a key of l bytes without its two lines.
BodyWithEnd(l) == Minus(l, KeyBegin)
BodyOf(l) == Minus(l, KeyBegin + KeyEnd)

\* If silc_pem_decode fails, memset runs on its NULL and the process dies.
PublicKey ==
  /\ step = "public"
  /\ \/ /\ pub_len >= KeyBegin
        /\ read' = <<"public", KeyBegin + BodyOf(pub_len)>>
        /\ \/ held' = {} /\ step' = "private" /\ UNCHANGED <<len, at, returned>>
           \/ held' = held /\ step' = "memset_99" /\ UNCHANGED <<len, at, returned>>
           \/ ReturnFalse({"old"})
     \/ ReturnFalse({"old"}) /\ UNCHANGED read
  /\ UNCHANGED <<pub_len, prv_len, keymat>>

\* A malloc may fail, and memcpy runs on its NULL.  The first line may agree in the
\* one byte behind the key, which malloc leaves unset.
PrivateHeader ==
  /\ step = "private"
  /\ \/ /\ prv_len + 1 >= KeyBegin
        /\ len' = BodyOf(prv_len) /\ at' = KeyBegin
        /\ held' = {"old"} /\ step' = "cipher" /\ UNCHANGED returned
     \/ ReturnFalse({"old"})
     \/ step' = "memcpy_114" /\ UNCHANGED <<len, at, held, returned>>
  /\ UNCHANGED <<pub_len, prv_len, read, keymat>>

\* silc_cipher_alloc, silc_hash_alloc and silc_hmac_alloc.  The test of the block
\* length in between, which would leave the cipher, never fails for AES.
Allocate(from, to, object, freed) ==
  /\ step = from
  /\ \/ held' = held \cup {object} /\ step' = to /\ UNCHANGED <<len, at, returned>>
     \/ ReturnFalse(freed)
  /\ UNCHANGED <<pub_len, prv_len, read, keymat>>

AllocCipher == Allocate("cipher", "hash", "aes", {"old"})
AllocHash == Allocate("hash", "hmac", "sha1", {"aes", "old"})

HmacFailsFreeLess == {"aes", "old"}
HmacFailsFree == {"sha1", "aes", "old"}
AllocHmac == Allocate("hmac", "derive", "sha1hmac", HmacFailsFree)

DeriveKey ==
  /\ step = "derive" /\ step' = "mac"
  /\ keymat' = "key"
  /\ UNCHANGED <<pub_len, prv_len, len, at, read, held, returned>>

\* Both failures after the key is derived.
Everything == {"sha1hmac", "sha1", "aes", "old"}
ReturnClean == ReturnFalse(Everything) /\ keymat' = "zero"

CheckMac ==
  /\ step = "mac"
  /\ read' = <<"private", at + Minus(len, MacLen) + MacLen>>
  /\ \/ /\ at' = at + Word /\ len' = Minus(len, Word) /\ step' = "decrypt"
        /\ UNCHANGED <<held, keymat, returned>>
     \/ ReturnClean
  /\ UNCHANGED <<pub_len, prv_len>>

\* The first word of what is decrypted is the length of the key.
Decrypt ==
  /\ step = "decrypt"
  /\ read' = <<"private", at + Minus(len, MacLen)>>
  /\ \E i \in 0..(Wrap - 1) :
       IF i > len THEN ReturnClean
       ELSE /\ at' = at + Word /\ len' = i /\ step' = "decode"
            /\ keymat' = "zero" /\ held' = held \ {"sha1hmac", "sha1", "aes"}
            /\ UNCHANGED returned
  /\ UNCHANGED <<pub_len, prv_len>>

DecodePrivateKey ==
  /\ step = "decode" /\ step' = "done"
  /\ read' = <<"private", at + len>>
  /\ returned' \in {"TRUE", "FALSE"}
  /\ held' = held \ {"old"}
  /\ UNCHANGED <<pub_len, prv_len, len, at, keymat>>

LoadNext ==
  \/ CopyKey \/ PublicKey \/ PrivateHeader
  \/ AllocCipher \/ AllocHash \/ AllocHmac
  \/ DeriveKey \/ CheckMac \/ Decrypt \/ DecodePrivateKey

LoadSpec == LoadInit /\ [][LoadNext]_loadVars
-----------------------------------------------------------------------------
(* Properties *)

\* Once the copies of the public key are made, whichever call fails, old and the
\* library's objects allocated before are freed and the decryption key is wiped
\* when the function returns.  Before, at "no_copy", old may be left; data, the
\* other copy of either key, is freed on no branch and is left out.
ReleasedOnReturn == step = "done" => held = {} /\ keymat = "zero"

\* A key long enough for its two lines, the MAC and a word is never read behind
\* its end (where one byte more is allocated), although the key's own length is
\* compared with a len that still counts the MAC.
ReadsInBounds ==
  /\ read[1] = "public" /\ pub_len >= KeyBegin + KeyEnd => read[2] <= pub_len
  /\ read[1] = "private" /\ prv_len >= KeyBegin + KeyEnd + MacLen + Word =>
       read[2] <= prv_len + 1
=============================================================================
