------------------------------ MODULE KeyMintTa ------------------------------
(***************************************************************************)
(* The KeyMint TA state machine of ta/src/lib.rs: the start-of-day latched *)
(* state (boot info and its root-of-trust encoding, HAL info, attestation  *)
(* IDs, the shared HMAC key), early boot, the device lock state, the       *)
(* StrongBox root-of-trust challenge, and the operation table with its     *)
(* per-key use counts and the single trusted-presence operation.           *)
(*                                                                         *)
(* The TA is single-threaded: process() runs one request to completion,    *)
(* so every handler is one atomic action.  Values delivered by the host    *)
(* (boot info, HAL info, IDs, keys) are model values.                      *)
(***************************************************************************)
EXTENDS Naturals, FiniteSets

CONSTANTS
    IsStrongbox,    \* hw_info.security_level == Strongbox
    HasClock,       \* imp.clock is Some
    HasAttestIds,   \* dev.attest_ids is Some
    EncodeMayFail,  \* RootOfTrustInfo::into_vec may fail (allocation failure)
    BootInfos,      \* boot info values the bootloader or the TEE may deliver
    HalInfos,       \* HAL info values the HAL service may deliver
    AttIds,         \* attestation ID values
    HmacKeys,       \* HMAC keys shared-secret negotiation may produce
    Keys,           \* keyblobs (each with its KeyId) the host may begin operations on
    UsageLimit,     \* [Keys -> Nat \cup {NoLimit}]: the key's UsageCountLimit tag
    PresenceKeys,   \* keys with TrustedUserPresenceRequired
    MaxOperations,  \* size of the operation table (4 StrongBox, 32 TEE)
    MaxUseCounted,  \* MAX_USE_COUNTED_KEYS
    MaxHandles,     \* bound: operation handles handed out
    MaxChallenges,  \* bound: root-of-trust challenges drawn
    None,           \* model value: Option::None
    NoLimit         \* model value: no UsageCountLimit tag

ASSUME KeyMintTaAssumption ==
    /\ IsStrongbox \in BOOLEAN /\ HasClock \in BOOLEAN
    /\ HasAttestIds \in BOOLEAN /\ EncodeMayFail \in BOOLEAN
    /\ None \notin BootInfos \cup HalInfos \cup AttIds \cup HmacKeys \cup Keys
    /\ UsageLimit \in [Keys -> Nat \cup {NoLimit}] /\ NoLimit \notin Nat
    /\ PresenceKeys \subseteq Keys
    /\ MaxOperations \in Nat \ {0} /\ MaxUseCounted \in Nat \ {0}
    /\ MaxHandles \in Nat /\ MaxChallenges \in Nat

(* None, Option::None, is neither a handle nor a table entry. *)
ASSUME NoneAssumption ==
    /\ None \notin Nat
    /\ None \notin [key : Keys, count : Nat] \cup [handle : Nat, key : Keys, presence : BOOLEAN]

OpSlots == 1..MaxOperations
UseSlots == 1..MaxUseCounted
Handles == 1..MaxHandles
Challenges == 0..MaxChallenges

(* rot_data: the CBOR encoding of the RootOfTrustInfo of a boot info, or   *)
(* the fixed "Internal error!" bytes when encoding fails.                  *)
RotOf(b) == <<"rot", b>>
RotEncodingError == <<"rot", "Internal error! Failed to encode root-of-trust">>
RotValues == {RotOf(b) : b \in BootInfos} \cup {RotEncodingError}

Operation == [handle : Handles, key : Keys, presence : BOOLEAN]
UseCount == [key : Keys, count : Nat]

(* A COSE_Mac0 RootOfTrust sent by the TEE: its payload, the challenge it  *)
(* was computed over and the HMAC key that tagged it.                      *)
RotMessage == [payload : BootInfos, challenge : Challenges, key : HmacKeys]

(* A TimeStampToken, or none: the HMAC key that tagged it. *)
Tokens == HmacKeys \cup {None}

LockStates == {"Unlocked", "LockedSince", "PasswordLockedSince"}

Codes == {"Ok", "None", "InvalidArgument", "Unimplemented", "HardwareNotYetAvailable",
          "VerificationFailed", "UnknownError", "TooManyOperations",
          "KeyMaxOpsExceeded", "ConcurrentProofOfPresenceRequested",
          "InvalidOperationHandle", "CborError"}

VARIABLES
    inEarlyBoot,    \* in_early_boot
    bootInfo,       \* boot_info
    rotData,        \* rot_data
    halInfo,        \* hal_info
    attestIds,      \* attestation_id_info (the TA's cache)
    devIds,         \* the IDs dev.attest_ids holds (None once destroyed or absent)
    hmacKey,        \* hmac_key
    lockState,      \* device_locked
    rotChallenge,   \* rot_challenge
    ops,            \* operations: [OpSlots -> Operation \cup {None}]
    useCount,       \* use_count: [UseSlots -> UseCount \cup {None}]
    presenceOp,     \* presence_required_op
    nextHandle,     \* handles handed out so far
    begun,          \* [Keys -> Nat]: operations begun on each key since start
    rsp             \* error code of the last response

vars == <<inEarlyBoot, bootInfo, rotData, halInfo, attestIds, devIds, hmacKey,
          lockState, rotChallenge, ops, useCount, presenceOp, nextHandle, begun, rsp>>

TypeOK ==
    /\ inEarlyBoot \in BOOLEAN
    /\ bootInfo \in BootInfos \cup {None}
    /\ rotData \in RotValues \cup {None}
    /\ halInfo \in HalInfos \cup {None}
    /\ attestIds \in AttIds \cup {None}
    /\ devIds \in AttIds \cup {None}
    /\ hmacKey \in HmacKeys \cup {None}
    /\ lockState \in LockStates
    /\ rotChallenge \in Challenges
    /\ ops \in [OpSlots -> Operation \cup {None}]
    /\ useCount \in [UseSlots -> UseCount \cup {None}]
    /\ presenceOp \in Handles \cup {None}
    /\ nextHandle \in 0..MaxHandles
    /\ begun \in [Keys -> Nat]
    /\ rsp \in Codes

(* KeyMintTa::new (lines 205-235). *)
Init ==
    /\ inEarlyBoot = TRUE
    /\ bootInfo = None /\ rotData = None /\ halInfo = None
    /\ attestIds = None /\ hmacKey = None
    /\ devIds \in IF HasAttestIds THEN AttIds ELSE {None}
    /\ lockState = "Unlocked"
    /\ rotChallenge = 0
    /\ ops = [i \in OpSlots |-> None]
    /\ useCount = [i \in UseSlots |-> None]
    /\ presenceOp = None
    /\ nextHandle = 0
    /\ begun = [k \in Keys |-> 0]
    /\ rsp = "None"


latchVars == <<inEarlyBoot, bootInfo, rotData, halInfo, attestIds, devIds, hmacKey>>
deviceVars == <<lockState, rotChallenge>>
opVars == <<ops, useCount, presenceOp, nextHandle, begun>>

-----------------------------------------------------------------------------
(* Start-of-day configuration.                                             *)

(* process_req SetBootInfo (lines 505-522) with set_boot_info (409-432):   *)
(* outside early boot the attempt is only logged; the first boot info      *)
(* latches and its root-of-trust encoding becomes rot_data, or the         *)
(* "Internal error!" bytes if into_vec fails.                              *)
SetBootInfo(b) ==
    /\ IF bootInfo = None
       THEN /\ bootInfo' = b
            /\ rotData' \in IF EncodeMayFail THEN {RotOf(b), RotEncodingError}
                            ELSE {RotOf(b)}
       ELSE UNCHANGED <<bootInfo, rotData>>
    /\ rsp' = "Ok"
    /\ UNCHANGED <<inEarlyBoot, halInfo, attestIds, devIds, hmacKey>>
    /\ UNCHANGED <<deviceVars, opVars>>

(* process_req SetBootInfo: VerifiedBootState::try_from fails. *)
SetBootInfoBadState ==
    /\ rsp' = "CborError"
    /\ UNCHANGED <<latchVars, deviceVars, opVars>>

(* Mutant: set_hal_info without the is_none check. *)
SetHalInfoOverwrites(a) ==
    /\ halInfo' = a
    /\ rsp' = "Ok"
    /\ UNCHANGED <<inEarlyBoot, bootInfo, rotData, attestIds, devIds, hmacKey>>
    /\ UNCHANGED <<deviceVars, opVars>>

(* set_hal_info (lines 436-446): the first value latches. *)
SetHalInfo(a) ==
    /\ halInfo' = IF halInfo = None THEN a ELSE halInfo
    /\ rsp' = "Ok"
    /\ UNCHANGED <<inEarlyBoot, bootInfo, rotData, attestIds, devIds, hmacKey>>
    /\ UNCHANGED <<deviceVars, opVars>>

(* set_attestation_ids (lines 449-458): refused when the device provides   *)
(* IDs itself or when they are already cached.                             *)
SetAttestationIds(ids) ==
    /\ attestIds' = IF ~HasAttestIds /\ attestIds = None THEN ids ELSE attestIds
    /\ rsp' = "Ok"
    /\ UNCHANGED <<inEarlyBoot, bootInfo, rotData, halInfo, devIds, hmacKey>>
    /\ UNCHANGED <<deviceVars, opVars>>

(* ComputeSharedSecret (secret.rs, not under src/): the negotiated HMAC    *)
(* key is written once per boot.                                           *)
ComputeSharedSecret(k) ==
    /\ hmacKey' = IF hmacKey = None THEN k ELSE hmacKey
    /\ rsp' = "Ok"
    /\ UNCHANGED <<inEarlyBoot, bootInfo, rotData, halInfo, attestIds, devIds>>
    /\ UNCHANGED <<deviceVars, opVars>>

(* early_boot_ended (lines 853-857). *)
EarlyBootEnded ==
    /\ inEarlyBoot' = FALSE
    /\ rsp' = "Ok"
    /\ UNCHANGED <<bootInfo, rotData, halInfo, attestIds, devIds, hmacKey>>
    /\ UNCHANGED <<deviceVars, opVars>>

-----------------------------------------------------------------------------
(* Device lock and root-of-trust transfer.                                 *)

(* device_locked (lines 859-889): the time comes from the local clock or   *)
(* from a timestamp token whose MAC verifies under the agreed HMAC key     *)
(* (verify_device_hmac fails with HardwareNotYetAvailable before there is  *)
(* one).                                                                   *)
LockError(token) ==
    IF token # None /\ hmacKey = None THEN "HardwareNotYetAvailable" ELSE "InvalidArgument"

DeviceLocked(passwordOnly, token) ==
    /\ IF HasClock \/ (token # None /\ token = hmacKey)
       THEN /\ lockState' = IF passwordOnly THEN "PasswordLockedSince" ELSE "LockedSince"
            /\ rsp' = "Ok"
       ELSE /\ rsp' = LockError(token)
            /\ UNCHANGED lockState
    /\ UNCHANGED <<latchVars, rotChallenge, opVars>>

(* get_root_of_trust_challenge (lines 943-949): StrongBox draws a fresh    *)
(* challenge.                                                              *)
GetRootOfTrustChallenge ==
    /\ IF IsStrongbox
       THEN rotChallenge < MaxChallenges /\ rotChallenge' = rotChallenge + 1 /\ rsp' = "Ok"
       ELSE rsp' = "Unimplemented" /\ UNCHANGED rotChallenge
    /\ UNCHANGED <<latchVars, lockState, opVars>>

(* get_root_of_trust (lines 951-973), TEE only: needs the boot info and    *)
(* the HMAC key (device_hmac, lines 1036-1048).                            *)
GetRootOfTrust ==
    /\ rsp' = CASE IsStrongbox     -> "Unimplemented"
                [] bootInfo = None -> "HardwareNotYetAvailable"
                [] hmacKey = None  -> "HardwareNotYetAvailable"
                [] OTHER           -> "Ok"
    /\ UNCHANGED <<latchVars, deviceVars, opVars>>

(* Mutant: send_root_of_trust without the is_none check on boot_info. *)
SendRootOfTrustOverwrites(m) ==
    /\ rsp' = CASE ~IsStrongbox                                 -> "Unimplemented"
                [] hmacKey = None                               -> "HardwareNotYetAvailable"
                [] m.key # hmacKey \/ m.challenge # rotChallenge -> "VerificationFailed"
                [] OTHER                                        -> "Ok"
    /\ bootInfo' = IF rsp' = "Ok" THEN m.payload ELSE bootInfo
    /\ UNCHANGED <<inEarlyBoot, rotData, halInfo, attestIds, devIds, hmacKey>>
    /\ UNCHANGED <<deviceVars, opVars>>

(* send_root_of_trust (lines 975-1001), StrongBox only: the COSE_Mac0 must *)
(* verify under the HMAC key over the current challenge; its boot info is  *)
(* then latched if none is set.  rot_data is not touched.                  *)
SendRootOfTrust(m) ==
    /\ rsp' = CASE ~IsStrongbox                                 -> "Unimplemented"
                [] hmacKey = None                               -> "HardwareNotYetAvailable"
                [] m.key # hmacKey \/ m.challenge # rotChallenge -> "VerificationFailed"
                [] OTHER                                        -> "Ok"
    /\ bootInfo' = IF rsp' = "Ok" /\ bootInfo = None THEN m.payload ELSE bootInfo
    /\ UNCHANGED <<inEarlyBoot, rotData, halInfo, attestIds, devIds, hmacKey>>
    /\ UNCHANGED <<deviceVars, opVars>>

-----------------------------------------------------------------------------
(* Attestation IDs.                                                        *)

(* destroy_attestation_ids (lines 930-941): the result of destroy_all on   *)
(* the device's ID store (its code is not under src/: it may succeed and   *)
(* remove the IDs, or fail and keep them); the TA's cached copy is left as *)
(* it is either way.                                                       *)
DestroyAttestationIds ==
    /\ IF HasAttestIds
       THEN \/ devIds' = None /\ rsp' = "Ok"
            \/ UNCHANGED devIds /\ rsp' = "UnknownError"
       ELSE rsp' = "Unimplemented" /\ UNCHANGED devIds
    /\ UNCHANGED <<inEarlyBoot, bootInfo, rotData, halInfo, attestIds, hmacKey>>
    /\ UNCHANGED <<deviceVars, opVars>>

(* get_attestation_ids (lines 461-473): fill the cache from the device on  *)
(* first use; a failing get() is logged.                                   *)
FetchedIds == IF attestIds = None /\ HasAttestIds THEN devIds ELSE attestIds

(* generate_cert_req (rkp.rs 113-122) via rpc_device_info (rkp.rs 20-32):  *)
(* IDs, boot info and HAL info must all be available; the request itself  *)
(* is then Unimplemented.                                                  *)
GenerateCertificateRequest ==
    /\ attestIds' = FetchedIds
    /\ rsp' = IF attestIds' = None \/ bootInfo = None \/ halInfo = None
              THEN "UnknownError" ELSE "Unimplemented"
    /\ UNCHANGED <<inEarlyBoot, bootInfo, rotData, halInfo, devIds, hmacKey>>
    /\ UNCHANGED <<deviceVars, opVars>>

-----------------------------------------------------------------------------
(* The operation table and use counts.                                     *)

MinOf(S) == CHOOSE i \in S : \A j \in S : i <= j

FreeOpSlots == {i \in OpSlots : ops[i] = None}

(* Mutant: the limit compared with > instead of >=. *)
UpdateUseCountOffByOne(k, maxUses) ==
    LET tracking == {i \in UseSlots : useCount[i] # None /\ useCount[i].key = k}
        free == {i \in UseSlots : useCount[i] = None}
        idx == IF tracking # {} THEN MinOf(tracking) ELSE MinOf(free)
        entry == IF tracking # {} THEN useCount[idx] ELSE [key |-> k, count |-> 0]
    IN  IF tracking = {} /\ free = {}
        THEN [code |-> "TooManyOperations", table |-> useCount]
        ELSE IF entry.count > maxUses
        THEN [code |-> "KeyMaxOpsExceeded", table |-> [useCount EXCEPT ![idx] = entry]]
        ELSE [code |-> "Ok",
              table |-> [useCount EXCEPT ![idx] = [entry EXCEPT !.count = @ + 1]]]

(* Mutant: a free slot is taken before the key's own slot is looked up. *)
UpdateUseCountFreeFirst(k, maxUses) ==
    LET tracking == {i \in UseSlots : useCount[i] # None /\ useCount[i].key = k}
        free == {i \in UseSlots : useCount[i] = None}
        idx == IF free # {} THEN MinOf(free) ELSE MinOf(tracking)
        entry == IF free = {} THEN useCount[idx] ELSE [key |-> k, count |-> 0]
    IN  IF tracking = {} /\ free = {}
        THEN [code |-> "TooManyOperations", table |-> useCount]
        ELSE IF entry.count >= maxUses
        THEN [code |-> "KeyMaxOpsExceeded", table |-> [useCount EXCEPT ![idx] = entry]]
        ELSE [code |-> "Ok",
              table |-> [useCount EXCEPT ![idx] = [entry EXCEPT !.count = @ + 1]]]

(* update_use_count (lines 371-404): the slot tracking key k, else the     *)
(* first free slot (initialised to count 0 before the limit is checked),   *)
(* else TooManyOperations; the count is incremented unless it has reached  *)
(* max_uses.  The result is the response code and the new table.          *)
UpdateUseCount(k, maxUses) ==
    LET tracking == {i \in UseSlots : useCount[i] # None /\ useCount[i].key = k}
        free == {i \in UseSlots : useCount[i] = None}
        idx == IF tracking # {} THEN MinOf(tracking) ELSE MinOf(free)
        entry == IF tracking # {} THEN useCount[idx] ELSE [key |-> k, count |-> 0]
    IN  IF tracking = {} /\ free = {}
        THEN [code |-> "TooManyOperations", table |-> useCount]
        ELSE IF entry.count >= maxUses
        THEN [code |-> "KeyMaxOpsExceeded", table |-> [useCount EXCEPT ![idx] = entry]]
        ELSE [code |-> "Ok",
              table |-> [useCount EXCEPT ![idx] = [entry EXCEPT !.count = @ + 1]]]

(* The use-count step of begin for key k. *)
UseCountStep(k) ==
    IF UsageLimit[k] = NoLimit THEN [code |-> "Ok", table |-> useCount]
    ELSE UpdateUseCount(k, UsageLimit[k])

(* The handle of the next operation (a fresh random OpHandle in the code). *)
NewHandle == nextHandle + 1

(* begin_operation (operation.rs, not under src/), in the order the spec   *)
(* gives: a free slot of the table, the keyblob (keyblob_parse_decrypt     *)
(* needs rot_data), the use count, trusted presence.                       *)
BeginRejected(k) ==
    /\ \/ FreeOpSlots = {} /\ rsp' = "TooManyOperations"
       \/ FreeOpSlots # {} /\ rotData = None /\ rsp' = "HardwareNotYetAvailable"
    /\ UNCHANGED <<latchVars, deviceVars, opVars>>

BeginUseCountFails(k) ==
    /\ FreeOpSlots # {} /\ rotData # None
    /\ UseCountStep(k).code # "Ok"
    /\ rsp' = UseCountStep(k).code
    /\ useCount' = UseCountStep(k).table
    /\ UNCHANGED <<latchVars, deviceVars, ops, presenceOp, nextHandle, begun>>

BeginPresenceConflict(k) ==
    /\ FreeOpSlots # {} /\ rotData # None
    /\ UseCountStep(k).code = "Ok"
    /\ k \in PresenceKeys /\ presenceOp # None
    /\ rsp' = "ConcurrentProofOfPresenceRequested"
    /\ useCount' = UseCountStep(k).table
    /\ UNCHANGED <<latchVars, deviceVars, ops, presenceOp, nextHandle, begun>>

BeginOk(k) ==
    /\ FreeOpSlots # {} /\ rotData # None
    /\ UseCountStep(k).code = "Ok"
    /\ k \in PresenceKeys => presenceOp = None
    /\ nextHandle < MaxHandles
    /\ LET h == NewHandle IN
       /\ ops' = [ops EXCEPT ![MinOf(FreeOpSlots)] =
                    [handle |-> h, key |-> k, presence |-> k \in PresenceKeys]]
       /\ presenceOp' = IF k \in PresenceKeys THEN h ELSE presenceOp
       /\ nextHandle' = h
    /\ useCount' = UseCountStep(k).table
    /\ begun' = [begun EXCEPT ![k] = @ + 1]
    /\ rsp' = "Ok"
    /\ UNCHANGED <<latchVars, deviceVars>>

Begin(k) == BeginRejected(k) \/ BeginUseCountFails(k) \/ BeginPresenceConflict(k) \/ BeginOk(k)

(* Mutant: the presence marker is not released when its operation ends. *)
EndOperationKeepsPresence(h) ==
    /\ IF \E i \in OpSlots : ops[i] # None /\ ops[i].handle = h
       THEN /\ ops' = [i \in OpSlots |-> IF ops[i] # None /\ ops[i].handle = h
                                         THEN None ELSE ops[i]]
            /\ rsp' = "Ok"
       ELSE /\ rsp' = "InvalidOperationHandle"
            /\ UNCHANGED ops
    /\ UNCHANGED <<latchVars, deviceVars, useCount, presenceOp, nextHandle, begun>>

(* op_finish / op_abort (operation.rs, not under src/): the operation with *)
(* handle h leaves the table, releasing the trusted-presence marker if it  *)
(* held it; an unknown handle is InvalidOperationHandle.                   *)
EndOperation(h) ==
    /\ IF \E i \in OpSlots : ops[i] # None /\ ops[i].handle = h
       THEN /\ ops' = [i \in OpSlots |-> IF ops[i] # None /\ ops[i].handle = h
                                         THEN None ELSE ops[i]]
            /\ presenceOp' = IF presenceOp = h THEN None ELSE presenceOp
            /\ rsp' = "Ok"
       ELSE /\ rsp' = "InvalidOperationHandle"
            /\ UNCHANGED <<ops, presenceOp>>
    /\ UNCHANGED <<latchVars, deviceVars, useCount, nextHandle, begun>>

-----------------------------------------------------------------------------
Next ==
    \/ \E b \in BootInfos : SetBootInfo(b)
    \/ SetBootInfoBadState
    \/ \E a \in HalInfos : SetHalInfo(a)
    \/ \E ids \in AttIds : SetAttestationIds(ids)
    \/ \E k \in HmacKeys : ComputeSharedSecret(k)
    \/ EarlyBootEnded
    \/ \E pw \in BOOLEAN, t \in Tokens : DeviceLocked(pw, t)
    \/ GetRootOfTrustChallenge
    \/ GetRootOfTrust
    \/ \E m \in RotMessage : SendRootOfTrust(m)
    \/ DestroyAttestationIds
    \/ GenerateCertificateRequest
    \/ \E k \in Keys : Begin(k)
    \/ \E h \in Handles : EndOperation(h)

Spec == Init /\ [][Next]_vars

-----------------------------------------------------------------------------
(* Trusted presence (spec section 3): at most one operation in the table   *)
(* requires trusted user presence, and presence_required_op names exactly  *)
(* that operation, so that finishing or aborting it frees the marker for   *)
(* the next one.  Needs begin, finish and abort to agree on the marker.    *)
PresenceSlots == {i \in OpSlots : ops[i] # None /\ ops[i].presence}

PresenceExclusive ==
    /\ \A i, j \in PresenceSlots : i = j
    /\ presenceOp = None <=> PresenceSlots = {}
    /\ \A i \in PresenceSlots : ops[i].handle = presenceOp

(* Use-count enforcement (spec section 4.5): no key with UsageCountLimit(n)*)
(* has had more than n operations begun on it since the TA started, over  *)
(* any sequence of begins, finishes and aborts of any keys.                *)
UseLimitRespected ==
    \A k \in Keys : UsageLimit[k] # NoLimit => begun[k] <= UsageLimit[k]

(* The use-count table is a faithful ledger (lines 371-404): each key has  *)
(* at most one slot, a limited key's slot counts at least the operations   *)
(* begun on it and never passes its limit, and a limited key that has no  *)
(* slot has had no operation begun.  Entries are never freed, so a key     *)
(* cannot lose its count by being evicted.                                 *)
Tracked(k) == {i \in UseSlots : useCount[i] # None /\ useCount[i].key = k}

UseCountLedger ==
    /\ \A i, j \in UseSlots :
          (useCount[i] # None /\ useCount[j] # None /\ useCount[i].key = useCount[j].key)
             => i = j
    /\ \A k \in Keys : UsageLimit[k] # NoLimit =>
          /\ Tracked(k) = {} => begun[k] = 0
          /\ \A i \in Tracked(k) : begun[k] <= useCount[i].count
                                  /\ useCount[i].count <= UsageLimit[k]

(* Latching (spec section 3): boot info, HAL info, the HMAC key and the    *)
(* cached attestation IDs, once set, are never changed by any request.     *)
LatchedOnce ==
    [][ /\ bootInfo # None => bootInfo' = bootInfo
        /\ halInfo # None => halInfo' = halInfo
        /\ hmacKey # None => hmacKey' = hmacKey
        /\ attestIds # None => attestIds' = attestIds ]_vars

(* Root-of-trust binding (spec section 3): the rot_data mixed into every   *)
(* keyblob's hidden inputs is the encoding of the latched boot info.       *)
RotDataMatchesBoot ==
    rotData # None => bootInfo # None /\ rotData = RotOf(bootInfo)

(* set_boot_info "permitted only while in_early_boot" (spec section 4.5):  *)
(* boot info never changes once early boot has ended.                      *)
BootInfoOnlyInEarlyBoot ==
    [][bootInfo' # bootInfo => inEarlyBoot]_vars

(* Once boot info is known, the root of trust that keyblob operations      *)
(* need (root_of_trust(), lines 1057-1062) is available.                   *)
RootOfTrustAvailable ==
    bootInfo # None => rotData # None

(* After destroy_attestation_ids has succeeded the TA no longer holds      *)
(* attestation IDs to put in device info or attestations.                  *)
AttestIdsGoneAfterDestroy ==
    (HasAttestIds /\ devIds = None) => attestIds = None

=============================================================================
