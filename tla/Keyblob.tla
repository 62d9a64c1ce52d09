------------------------------- MODULE Keyblob -------------------------------
(***************************************************************************)
(* The keyblob sealing engine and the secure-deletion slot guard of        *)
(* common/src/keyblob.rs, with the TA handlers that reach the secure-      *)
(* deletion manager directly (delete_key, delete_all_keys in ta/src/lib.rs).*)
(*                                                                         *)
(* Cryptography is abstract: the KEK of a keyblob is the tuple of the      *)
(* inputs derive_kek concatenates (characteristics, hidden parameters,     *)
(* secure-deletion data; the 32 random bytes are implicit in the blob's    *)
(* identity), and AES-GCM opens a blob exactly when the KEK re-derived at  *)
(* unseal time equals the one used at seal time.  A secure-deletion secret *)
(* is a number handed out once by new_secret, so two secrets are equal     *)
(* only when they are the same secret.                                     *)
(***************************************************************************)
EXTENDS Naturals, Sequences, FiniteSets

CONSTANTS
    Slots,          \* slot identifiers of the SecureDeletionSecretManager
    Hidden,         \* values of the hidden parameters (application id/data + root of trust)
    HasSddMgr,      \* dev.sdd_mgr is Some
    DeleteMayFail,  \* SecureDeletionSecretManager::delete_secret may return Err
    MaxBlobs,       \* bound: keyblobs sealed in one behaviour
    MaxSecrets,     \* bound: secrets handed out by new_secret in one behaviour
    Authorizations, \* the key parameters a keyblob's characteristics are drawn from
    NoSlot          \* model value: secure_deletion_slot is None

ASSUME KeyblobAssumption ==
    /\ IsFiniteSet(Slots) /\ NoSlot \notin Slots
    /\ Hidden # {}
    /\ HasSddMgr \in BOOLEAN /\ DeleteMayFail \in BOOLEAN
    /\ MaxBlobs \in Nat /\ MaxSecrets \in Nat
    /\ IsFiniteSet(Authorizations)

(* Secret value 0 stands for an empty slot and for "no secure-deletion data". *)
NoSecret == 0
Secrets == 0..MaxSecrets

(* Mutant: derive_kek without the CBOR-serialized characteristics. *)
KekNoChars(chars, hidden, secret) == <<{}, hidden, secret>>

(* Mutant: derive_kek without the hidden parameters. *)
KekNoHidden(chars, hidden, secret) == <<chars, CHOOSE x \in Hidden : TRUE, secret>>

(* derive_kek (lines 199-215): the key encryption key is determined by the *)
(* characteristics, the hidden parameters and the secure-deletion data.    *)
Kek(chars, hidden, secret) == <<chars, hidden, secret>>
KekSpace == (SUBSET Authorizations) \X Hidden \X Secrets

(* An EncryptedKeyBlobV1 as far as unsealing can tell it apart: its stored *)
(* characteristics and slot, and the KEK its ciphertext was sealed under.  *)
Blob == [chars : SUBSET Authorizations, slot : Slots \cup {NoSlot}, kek : KekSpace]

Codes == {"Ok", "RollbackResistanceUnavailable", "SddFailure", "CryptoFailure",
          "InvalidKeyBlob", "None"}

VARIABLES
    sdd,         \* [Slots -> Secrets]: secret held by each slot of the manager
    nextSecret,  \* number of secrets new_secret has handed out
    blobs,       \* sequence of every keyblob encrypt has returned, by index
    deleted,     \* indices of keyblobs the host asked to delete (delete_key / delete_all_keys)
    rsp          \* error code of the last request

vars == <<sdd, nextSecret, blobs, deleted, rsp>>

TypeOK ==
    /\ sdd \in [Slots -> Secrets]
    /\ nextSecret \in Secrets
    /\ blobs \in Seq(Blob) /\ Len(blobs) <= MaxBlobs
    /\ deleted \subseteq 1..Len(blobs)
    /\ rsp \in Codes

Init ==
    /\ sdd = [s \in Slots |-> NoSecret]
    /\ nextSecret = 0
    /\ blobs = << >>
    /\ deleted = {}
    /\ rsp = "None"

-----------------------------------------------------------------------------
(* Mutant: requires_sdd matching RollbackResistance only. *)
RequiresSddRollbackOnly(chars) == "RollbackResistance" \in chars

(* encrypt, lines 269-272: secure deletion is required iff some            *)
(* authorization is RollbackResistance or UsageCountLimit(1).              *)
RequiresSdd(chars) == chars \cap {"RollbackResistance", "UsageCountLimit(1)"} # {}

FreeSlots == {s \in Slots : sdd[s] = NoSecret}

(* The outcomes of delete_secret: it may fail only if DeleteMayFail. *)
DeleteOutcomes == IF DeleteMayFail THEN BOOLEAN ELSE {TRUE}

(* Success of encrypt: EncryptedKeyBlob::V1 returned, slot holder consumed. *)
Issue(chars, h, s, secret) ==
    /\ blobs' = Append(blobs, [chars |-> chars, slot |-> s,
                               kek |-> Kek(chars, h, secret)])
    /\ rsp' = "Ok"

(* encrypt with no secure deletion required; cryptoOk is the outcome of    *)
(* derive_kek and the AES-GCM steps (lines 288-312).                       *)
SealPlain(chars, h) ==
    /\ ~RequiresSdd(chars)
    /\ \E cryptoOk \in BOOLEAN :
          IF cryptoOk THEN Issue(chars, h, NoSlot, NoSecret)
          ELSE rsp' = "CryptoFailure" /\ UNCHANGED blobs
    /\ UNCHANGED <<sdd, nextSecret>>

(* Mutant: the (true, None) arm sealing without secure deletion. *)
SealNoStorageAnyway(chars, h) ==
    /\ RequiresSdd(chars) /\ ~HasSddMgr
    /\ Issue(chars, h, NoSlot, NoSecret)
    /\ UNCHANGED <<sdd, nextSecret>>

(* encrypt, (true, None) arm: no secure storage for a key that needs it. *)
SealNoStorage(chars, h) ==
    /\ RequiresSdd(chars) /\ ~HasSddMgr
    /\ rsp' = "RollbackResistanceUnavailable"
    /\ UNCHANGED <<sdd, nextSecret, blobs>>

(* encrypt, (true, Some) arm, SlotHolder::new failing: new_secret finds no *)
(* empty slot and its error is returned.                                   *)
SealNoSlot(chars, h) ==
    /\ RequiresSdd(chars) /\ HasSddMgr /\ FreeSlots = {}
    /\ rsp' = "SddFailure"
    /\ UNCHANGED <<sdd, nextSecret, blobs>>

(* Mutant: the reserved slot is not released on the error path (no guard). *)
SealWithSlotNoRelease(chars, h) ==
    /\ RequiresSdd(chars) /\ HasSddMgr /\ nextSecret < MaxSecrets
    /\ \E s \in FreeSlots, cryptoOk \in BOOLEAN :
          LET secret == nextSecret + 1 IN
          /\ nextSecret' = secret
          /\ sdd' = [sdd EXCEPT ![s] = secret]
          /\ IF cryptoOk THEN Issue(chars, h, s, secret)
             ELSE rsp' = "CryptoFailure" /\ UNCHANGED blobs

(* encrypt, (true, Some) arm: new_secret fills a free slot with a fresh    *)
(* secret; if derive_kek or AES-GCM then fails, SlotHolder::drop deletes   *)
(* the slot and only logs a failure of that delete; on success the holder *)
(* is consumed into the keyblob.                                           *)
SealWithSlot(chars, h) ==
    /\ RequiresSdd(chars) /\ HasSddMgr /\ nextSecret < MaxSecrets
    /\ \E s \in FreeSlots, cryptoOk \in BOOLEAN, delOk \in DeleteOutcomes :
          LET secret == nextSecret + 1 IN
          /\ nextSecret' = secret
          /\ IF cryptoOk
             THEN /\ sdd' = [sdd EXCEPT ![s] = secret]
                  /\ Issue(chars, h, s, secret)
             ELSE /\ sdd' = IF delOk THEN sdd ELSE [sdd EXCEPT ![s] = secret]
                  /\ rsp' = "CryptoFailure"
                  /\ UNCHANGED blobs

(* encrypt(sdd_mgr, aes, hmac, rng, root_key, plaintext_keyblob, hidden). *)
Encrypt(chars, h) ==
    /\ Len(blobs) < MaxBlobs
    /\ \/ SealPlain(chars, h)
       \/ SealNoStorage(chars, h)
       \/ SealNoSlot(chars, h)
       \/ SealWithSlot(chars, h)
    /\ UNCHANGED deleted

(* decrypt(sdd_mgr, ..., encrypted_keyblob, hidden) on a blob b presented  *)
(* by the host with hidden parameters h: the code it returns.              *)
DecryptCode(b, h) ==
    IF b.slot # NoSlot /\ ~HasSddMgr THEN "InvalidKeyBlob"
    ELSE IF b.slot # NoSlot /\ sdd[b.slot] = NoSecret THEN "SddFailure"
    ELSE LET secret == IF b.slot = NoSlot THEN NoSecret ELSE sdd[b.slot]
         IN IF Kek(b.chars, h, secret) = b.kek THEN "Ok" ELSE "InvalidKeyBlob"

(* The blobs a host can present built from issued blob i: the blob itself, *)
(* or one with its characteristics or its slot field rewritten (the        *)
(* keyblob bytes are parsed, not authenticated, before decryption).        *)
Presentable(i) ==
    {[blobs[i] EXCEPT !.chars = c, !.slot = s] : c \in SUBSET Authorizations,
                                                 s \in Slots \cup {NoSlot}}

Decrypt(b, h) ==
    /\ rsp' = DecryptCode(b, h)
    /\ UNCHANGED <<sdd, nextSecret, blobs, deleted>>

(* Mutant: delete_key that never reaches the secure-deletion manager. *)
DeleteKeyKeepsSlot(i) ==
    /\ deleted' = deleted \cup {i}
    /\ UNCHANGED <<sdd, nextSecret, blobs>>
    /\ rsp' = "Ok"

(* delete_key (lib.rs 901-920): the slot named by the parsed (unverified)  *)
(* keyblob is deleted; an error of delete_secret is logged and ignored.    *)
DeleteKey(i) ==
    /\ deleted' = deleted \cup {i}
    /\ IF HasSddMgr /\ blobs[i].slot # NoSlot
       THEN \E ok \in DeleteOutcomes :
               sdd' = IF ok THEN [sdd EXCEPT ![blobs[i].slot] = NoSecret] ELSE sdd
       ELSE UNCHANGED sdd
    /\ rsp' = "Ok"
    /\ UNCHANGED <<nextSecret, blobs>>

(* delete_all_keys (lib.rs 922-928): sdd_mgr.delete_all() if present. *)
DeleteAllKeys ==
    /\ sdd' = IF HasSddMgr THEN [s \in Slots |-> NoSecret] ELSE sdd
    /\ deleted' = 1..Len(blobs)
    /\ rsp' = "Ok"
    /\ UNCHANGED <<nextSecret, blobs>>

Next ==
    \/ \E chars \in SUBSET Authorizations, h \in Hidden : Encrypt(chars, h)
    \/ \E i \in 1..Len(blobs), h \in Hidden : \E b \in Presentable(i) : Decrypt(b, h)
    \/ \E i \in 1..Len(blobs) : DeleteKey(i)
    \/ DeleteAllKeys

Spec == Init /\ [][Next]_vars

-----------------------------------------------------------------------------
(* The authorizations that, by the spec, demand secure deletion. *)
SddDemanding(chars) == chars \cap {"RollbackResistance", "UsageCountLimit(1)"} # {}

(* The hidden parameters blob i was sealed with. *)
SealedHidden(i) == blobs[i].kek[2]

(* Slot accounting (spec section 3): every slot the manager holds is owned *)
(* by exactly one keyblob returned to the host, sealed with the secret in  *)
(* that slot, and not yet deleted.  Broken by a SlotHolder that fails to   *)
(* release on the encrypt error path, or by a lost delete_secret.          *)
SlotOwnership ==
    \A s \in Slots : sdd[s] # NoSecret =>
        LET owners == {i \in 1..Len(blobs) : blobs[i].slot = s /\ blobs[i].kek[3] = sdd[s]}
        IN  Cardinality(owners) = 1 /\ owners \cap deleted = {}

(* Unseal authenticity (spec section 8): decrypt returns Ok only for the   *)
(* keyblob exactly as encrypt returned it and the hidden parameters it was *)
(* sealed with; a rewritten characteristics list or slot field, or other   *)
(* application id/data, yields an error.                                   *)
UnsealNeedsAuthenticContext ==
    \A i \in 1..Len(blobs), h \in Hidden : \A b \in Presentable(i) :
        DecryptCode(b, h) = "Ok" => b = blobs[i] /\ h = SealedHidden(i)

(* Secure deletion: once the host has deleted a rollback-resistant or      *)
(* single-use key (delete_key or delete_all_keys), no presentation of that *)
(* keyblob decrypts again, even after its slot is reused by a new key.     *)
DeletedKeyStaysDead ==
    \A i \in deleted : SddDemanding(blobs[i].chars) =>
        \A b \in Presentable(i), h \in Hidden : DecryptCode(b, h) # "Ok"

(* Rollback resistance: every keyblob encrypt returns for characteristics  *)
(* that require secure deletion is bound to a slot and to its secret.      *)
RollbackResistanceHonoured ==
    \A i \in 1..Len(blobs) : SddDemanding(blobs[i].chars) =>
        blobs[i].slot \in Slots /\ blobs[i].kek[3] # NoSecret

(* What the host expects of delete_key: a keyblob it has not deleted keeps *)
(* decrypting with its own hidden parameters.                              *)
LiveKeyUsable ==
    \A i \in 1..Len(blobs) \ deleted : DecryptCode(blobs[i], SealedHidden(i)) = "Ok"

=============================================================================
