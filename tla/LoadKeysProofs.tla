--------------------------- MODULE LoadKeysProofs ---------------------------
(***************************************************************************)
(* i_silc_load_keys for keys of every length: what is allocated at each    *)
(* step, and where len and data stand, so that no branch after the copies  *)
(* are made leaves anything behind, and no read leaves a key that is long  *)
(* enough.                                                                 *)
(***************************************************************************)
EXTENDS LoadKeys, TLAPS

\* What is allocated, and whether the key has been derived, at each step.
Ledger ==
  /\ step \in {"public", "cipher", "decode"} => held \subseteq {"old"}
  /\ step = "private" => held = {}
  /\ step = "hash" => held \subseteq {"old", "aes"}
  /\ step = "hmac" => held \subseteq {"old", "aes", "sha1"}
  /\ step \in {"derive", "mac", "decrypt"} => held \subseteq Everything
  /\ step \notin {"mac", "decrypt"} => keymat = "zero"
  /\ step = "done" => held = {}

\* Every branch after the copies of the public key are made frees what was
\* allocated before it, and wipes the key once it has been derived.
THEOREM AllReleased == LoadSpec => []ReleasedOnReturn
<1>1. LoadInit => Ledger
  BY DEF LoadInit, Ledger
<1>2. Ledger /\ [LoadNext]_loadVars => Ledger'
  <2> SUFFICES ASSUME Ledger, [LoadNext]_loadVars
               PROVE  Ledger'
    OBVIOUS
  <2>1. CASE CopyKey \/ PublicKey \/ PrivateHeader
    BY <2>1 DEF Ledger, CopyKey, PublicKey, PrivateHeader, ReturnFalse
  <2>2. CASE AllocCipher \/ AllocHash \/ AllocHmac
    BY <2>2 DEF Ledger, AllocCipher, AllocHash, AllocHmac, Allocate,
                HmacFailsFree, Everything, ReturnFalse
  <2>3. CASE DeriveKey
    BY <2>3 DEF Ledger, DeriveKey
  <2>4. CASE CheckMac
    BY <2>4 DEF Ledger, CheckMac, ReturnClean, ReturnFalse, Everything
  <2>5. CASE Decrypt
    BY <2>5 DEF Ledger, Decrypt, ReturnClean, ReturnFalse, Everything
  <2>6. CASE DecodePrivateKey
    BY <2>6 DEF Ledger, DecodePrivateKey
  <2>7. CASE UNCHANGED loadVars
    BY <2>7 DEF Ledger, loadVars
  <2> QED
    BY <2>1, <2>2, <2>3, <2>4, <2>5, <2>6, <2>7 DEF LoadNext
<1>3. Ledger => ReleasedOnReturn
  BY DEF Ledger, ReleasedOnReturn
<1> QED
  BY <1>1, <1>2, <1>3, PTL DEF LoadSpec
-----------------------------------------------------------------------------
\* Subtraction is exact where it does not wrap.
LEMMA MinusExact ==
  ASSUME NEW a \in 0..(Wrap - 1), NEW b \in Nat, b <= a
  PROVE  Minus(a, b) = a - b
<1>1. Wrap \in Nat /\ Wrap > 0 /\ a - b \in 0..(Wrap - 1)
  BY LoadKeysAssumption
<1> QED
  BY <1>1, SMT DEF Minus

LEMMA MinusInRange ==
  ASSUME NEW a \in Int, NEW b \in Int
  PROVE  Minus(a, b) \in 0..(Wrap - 1)
<1>1. Wrap \in Nat /\ Wrap > 0 /\ a - b \in Int
  BY LoadKeysAssumption
<1> QED
  BY <1>1, SMT DEF Minus

LongEnough == prv_len >= KeyBegin + KeyEnd + MacLen + Word

\* Where data points, and what len counts, at each step.
Cursor ==
  /\ pub_len \in 0..(Wrap - 1) /\ prv_len \in 0..(Wrap - 1)
  /\ len \in 0..(Wrap - 1)
  /\ step \in {"cipher", "hash", "hmac", "derive", "mac"} =>
       at = KeyBegin /\ len = BodyOf(prv_len)
  /\ step = "decrypt" =>
       at = KeyBegin + Word /\ len = Minus(BodyOf(prv_len), Word)
  /\ step = "decode" =>
       /\ at = KeyBegin + 2 * Word
       /\ len <= Minus(BodyOf(prv_len), Word)

\* What the two lengths are for a long key.
LEMMA BodyExact ==
  ASSUME Cursor, LongEnough
  PROVE  /\ BodyOf(prv_len) = prv_len - (KeyBegin + KeyEnd)
         /\ Minus(BodyOf(prv_len), Word) = prv_len - (KeyBegin + KeyEnd) - Word
         /\ Minus(BodyOf(prv_len), MacLen) = prv_len - (KeyBegin + KeyEnd) - MacLen
         /\ Minus(Minus(BodyOf(prv_len), Word), MacLen)
              = prv_len - (KeyBegin + KeyEnd) - Word - MacLen
<1>1. /\ KeyBegin \in Nat /\ KeyEnd \in Nat /\ MacLen \in Nat /\ Wrap \in Nat
      /\ prv_len \in 0..(Wrap - 1) /\ prv_len >= KeyBegin + KeyEnd + MacLen + Word
      /\ Word = 4
  BY LoadKeysAssumption DEF Cursor, LongEnough, Word
<1>2. BodyOf(prv_len) = prv_len - (KeyBegin + KeyEnd)
  BY <1>1, MinusExact DEF BodyOf
<1>3. BodyOf(prv_len) \in 0..(Wrap - 1) /\ BodyOf(prv_len) >= MacLen + Word
  BY <1>1, <1>2
<1>4. Minus(BodyOf(prv_len), Word) = BodyOf(prv_len) - Word
  BY <1>1, <1>3, MinusExact
<1>5. Minus(BodyOf(prv_len), MacLen) = BodyOf(prv_len) - MacLen
  BY <1>1, <1>3, MinusExact
<1>6. Minus(BodyOf(prv_len), Word) \in 0..(Wrap - 1)
      /\ MacLen <= Minus(BodyOf(prv_len), Word)
  BY <1>1, <1>3, <1>4
<1>7. Minus(Minus(BodyOf(prv_len), Word), MacLen)
        = Minus(BodyOf(prv_len), Word) - MacLen
  BY <1>1, <1>6, MinusExact
<1> QED
  BY <1>1, <1>2, <1>3, <1>4, <1>5, <1>7

ReadInv == Cursor /\ ReadsInBounds

LEMMA ReadStep == ReadInv /\ [LoadNext]_loadVars => ReadInv'
<1> SUFFICES ASSUME Cursor, ReadsInBounds, [LoadNext]_loadVars
             PROVE  Cursor' /\ ReadsInBounds'
  BY DEF ReadInv
<1> USE LoadKeysAssumption
<1>1. CASE PublicKey
  <2>1. step' \in {"private", "memset_99", "done"}
        /\ UNCHANGED <<pub_len, prv_len, len, at>>
    BY <1>1 DEF PublicKey, ReturnFalse
  <2>2. Cursor'
    BY <2>1 DEF Cursor
  <2>3. read' \in {read, <<"public", KeyBegin + BodyOf(pub_len)>>}
    BY <1>1 DEF PublicKey
  <2>4. pub_len >= KeyBegin + KeyEnd => KeyBegin + BodyOf(pub_len) <= pub_len
    <3>1. KeyBegin + KeyEnd \in Nat /\ pub_len \in 0..(Wrap - 1)
          /\ KeyBegin \in Nat /\ KeyEnd \in Nat /\ Wrap \in Nat
      BY DEF Cursor
    <3>2. pub_len >= KeyBegin + KeyEnd =>
            Minus(pub_len, KeyBegin + KeyEnd) = pub_len - (KeyBegin + KeyEnd)
      BY <3>1, MinusExact
    <3> QED
      BY <3>1, <3>2 DEF BodyOf
  <2>5. CASE read' = read
    BY <2>1, <2>2, <2>5 DEF ReadsInBounds
  <2>6. CASE read' = <<"public", KeyBegin + BodyOf(pub_len)>>
    <3>1. read'[1] = "public" /\ read'[2] = KeyBegin + BodyOf(pub_len)
      BY <2>6
    <3> QED
      BY <2>1, <2>2, <2>4, <3>1 DEF ReadsInBounds
  <2> QED
    BY <2>3, <2>5, <2>6
<1>2. CASE PrivateHeader
  <2>1. BodyOf(prv_len) \in 0..(Wrap - 1)
    <3>1. prv_len \in Int /\ KeyBegin + KeyEnd \in Int
      BY DEF Cursor
    <3> QED
      BY <3>1, MinusInRange DEF BodyOf
  <2> QED
    BY <1>2, <2>1 DEF PrivateHeader, ReturnFalse, Cursor, ReadsInBounds, BodyOf
<1>3. CASE AllocCipher \/ AllocHash \/ AllocHmac
  BY <1>3 DEF AllocCipher, AllocHash, AllocHmac, Allocate, ReturnFalse, Cursor,
              ReadsInBounds, BodyOf
<1>4. CASE DeriveKey
  BY <1>4 DEF DeriveKey, Cursor, ReadsInBounds, BodyOf
<1>5. CASE CheckMac
  <2>1. Minus(len, Word) \in 0..(Wrap - 1)
    <3>1. len \in Int /\ Word \in Int
      BY DEF Cursor, Word
    <3> QED
      BY <3>1, MinusInRange
  <2>2. at = KeyBegin /\ len = BodyOf(prv_len)
        /\ UNCHANGED <<pub_len, prv_len>>
    BY <1>5 DEF CheckMac, Cursor
  <2>3. \/ at' = at + Word /\ len' = Minus(len, Word) /\ step' = "decrypt"
        \/ UNCHANGED <<at, len>> /\ step' = "done"
    BY <1>5 DEF CheckMac, ReturnClean, ReturnFalse
  <2>4. Cursor'
    BY <2>1, <2>2, <2>3 DEF Cursor, BodyOf
  <2>5. read' = <<"private", at + Minus(len, MacLen) + MacLen>>
    BY <1>5 DEF CheckMac
  <2>6. LongEnough => at + Minus(len, MacLen) + MacLen <= prv_len + 1
    BY <2>2, BodyExact DEF Cursor, LongEnough
  <2> QED
    BY <2>2, <2>4, <2>5, <2>6 DEF ReadsInBounds, LongEnough
<1>6. CASE Decrypt
  <2>1. at = KeyBegin + Word /\ len = Minus(BodyOf(prv_len), Word)
        /\ UNCHANGED <<pub_len, prv_len>>
    BY <1>6 DEF Decrypt, Cursor
  <2>2. PICK i \in 0..(Wrap - 1) :
          \/ UNCHANGED <<at, len>> /\ step' = "done"
          \/ at' = at + Word /\ len' = i /\ i <= len /\ step' = "decode"
    BY <1>6 DEF Decrypt, ReturnClean, ReturnFalse, Cursor
  <2>3. Cursor'
    BY <2>1, <2>2 DEF Cursor, Word, BodyOf
  <2>4. read' = <<"private", at + Minus(len, MacLen)>>
    BY <1>6 DEF Decrypt
  <2>5. LongEnough => at + Minus(len, MacLen) <= prv_len + 1
    BY <2>1, BodyExact DEF Cursor, LongEnough, Word
  <2> QED
    BY <2>1, <2>3, <2>4, <2>5 DEF ReadsInBounds, LongEnough
<1>7. CASE DecodePrivateKey
  <2>1. at = KeyBegin + 2 * Word /\ len <= Minus(BodyOf(prv_len), Word)
        /\ read' = <<"private", at + len>>
        /\ UNCHANGED <<pub_len, prv_len, len>> /\ step' = "done"
    BY <1>7 DEF DecodePrivateKey, Cursor
  <2>2. LongEnough => at + len <= prv_len + 1
    BY <2>1, BodyExact DEF Cursor, LongEnough, Word
  <2> QED
    BY <2>1, <2>2 DEF Cursor, ReadsInBounds, LongEnough
<1>8. CASE UNCHANGED loadVars
  BY <1>8 DEF loadVars, Cursor, ReadsInBounds, BodyOf
<1>9. CASE CopyKey
  BY <1>9 DEF CopyKey, Cursor, ReadsInBounds, BodyOf
<1> QED
  BY <1>1, <1>2, <1>3, <1>4, <1>5, <1>6, <1>7, <1>8, <1>9 DEF LoadNext

\* A key that is long enough for its lines, its MAC and a word is read inside its
\* buffer, whatever length the decrypted part claims.
THEOREM KeyReadsInBounds == LoadSpec => []ReadsInBounds
<1>1. LoadInit => ReadInv
  BY LoadKeysAssumption DEF LoadInit, ReadInv, Cursor, ReadsInBounds
<1>2. ReadInv => ReadsInBounds
  BY DEF ReadInv
<1> QED
  BY <1>1, <1>2, ReadStep, PTL DEF LoadSpec
=============================================================================
