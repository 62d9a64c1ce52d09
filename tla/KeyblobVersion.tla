---------------------------- MODULE KeyblobVersion ----------------------------
(***************************************************************************)
(* The version check that ends keyblob_decrypt (ta/src/lib.rs 266-355):    *)
(* after the keyblob has been decrypted, its characteristics at the TA's   *)
(* security level (characteristics_at, common/src/keyblob.rs 226-236) are *)
(* walked in order and every version-like tag is compared with the TA's    *)
(* latched HAL info and boot info; the first mismatch is returned.         *)
(*                                                                         *)
(* The check is a pure function of the keyblob's characteristics and the   *)
(* latched values.  The state machine below draws a keyblob and a latched  *)
(* configuration and evaluates the check, so that TLC compares it with the *)
(* classification of the spec over every small input.                      *)
(***************************************************************************)
EXTENDS Naturals, Sequences, FiniteSets

CONSTANTS
    Versions,       \* version and patchlevel values (u32 in the code)
    Levels,         \* security levels a KeyCharacteristics entry may carry
    LocalLevel,     \* hw_info.security_level of this TA
    MaxAuths,       \* bound: authorizations per entry
    None            \* model value: Option::None

ASSUME KeyblobVersionAssumption ==
    /\ Versions \subseteq Nat /\ 0 \in Versions
    /\ LocalLevel \in Levels
    /\ MaxAuths \in Nat
    /\ None \notin Versions

(* The tags the check looks at; "Purpose" stands for every other tag. *)
VersionTags == {"OsVersion", "OsPatchlevel", "VendorPatchlevel", "BootPatchlevel"}
Tags == VersionTags \cup {"Purpose"}

KeyParam == [tag : VersionTags, v : Versions] \cup [tag : {"Purpose"}, v : {0}]

BoundedSeq(S, n) == UNION {[1..k -> S] : k \in 0..n}

(* The authorizations of a keyblob's local entry: add_keymint_tags        *)
(* (lib.rs 1079-1087) appends each version tag once, and the KEK binds the *)
(* characteristics, so no version tag appears twice.                       *)
Auths == {a \in BoundedSeq(KeyParam, MaxAuths) :
            \A i, j \in 1..Len(a) : i # j /\ a[i].tag \in VersionTags => a[i].tag # a[j].tag}

HalInfo == [osVersion : Versions, osPatchlevel : Versions, vendorPatchlevel : Versions]

(* The characteristics a keyblob may carry: one entry at the local level,  *)
(* possibly after an entry of another level, or no local entry at all.     *)
Characteristics ==
    {<<>>}
    \cup {<<[level |-> LocalLevel, auths |-> a]>> : a \in Auths}
    \cup {<<[level |-> l, auths |-> <<>>], [level |-> LocalLevel, auths |-> a]>> :
            l \in Levels \ {LocalLevel}, a \in Auths}

Codes == {"None", "Ok", "KeyRequiresUpgrade", "InvalidKeyBlob"}

VARIABLES
    chars,      \* the decrypted keyblob's characteristics
    halInfo,    \* hal_info
    bootPatch,  \* boot_info.boot_patchlevel (None while boot_info is None)
    rsp         \* result of keyblob_decrypt

vars == <<chars, halInfo, bootPatch, rsp>>

TypeOK ==
    /\ chars \in Characteristics
    /\ halInfo \in HalInfo \cup {None}
    /\ bootPatch \in Versions \cup {None}
    /\ rsp \in Codes

Init ==
    /\ chars \in Characteristics
    /\ halInfo \in HalInfo \cup {None}
    /\ bootPatch \in Versions \cup {None}
    /\ rsp = "None"

-----------------------------------------------------------------------------
(* characteristics_at (keyblob.rs 226-236): the authorizations of the      *)
(* first entry at the level, or InvalidKeyBlob if there is none.           *)
CharacteristicsAt(cs, level) ==
    LET at == {i \in 1..Len(cs) : cs[i].level = level}
    IN  IF at = {} THEN [ok |-> FALSE, auths |-> <<>>]
        ELSE [ok |-> TRUE,
              auths |-> cs[CHOOSE i \in at : \A j \in at : i <= j].auths]

(* Mutant: the comparison reversed (an older keyblob called "future"). *)
CheckReversed(v, curr) ==
    IF v > curr THEN "KeyRequiresUpgrade"
    ELSE IF v = curr THEN "Ok" ELSE "InvalidKeyBlob"

(* check() (lib.rs 285-303): older needs upgrade, newer is invalid. *)
Check(v, curr) ==
    IF v < curr THEN "KeyRequiresUpgrade"
    ELSE IF v = curr THEN "Ok" ELSE "InvalidKeyBlob"

(* Mutant: no special case for OS version zero. *)
ParamCheckNoZeroCase(p, hal, boot) ==
    CASE p.tag = "OsVersion" /\ hal # None        -> Check(p.v, hal.osVersion)
      [] p.tag = "OsPatchlevel" /\ hal # None     -> Check(p.v, hal.osPatchlevel)
      [] p.tag = "VendorPatchlevel" /\ hal # None -> Check(p.v, hal.vendorPatchlevel)
      [] p.tag = "BootPatchlevel" /\ boot # None  -> Check(p.v, boot)
      [] OTHER                                    -> "Ok"

(* One iteration of the loop (lib.rs 305-351): a version tag is checked    *)
(* against the latched value, and skipped with a log line if that value   *)
(* is not latched yet; with a current OS version of zero any non-zero      *)
(* keyblob OS version needs upgrade.                                       *)
ParamCheck(p, hal, boot) ==
    CASE p.tag = "OsVersion" /\ hal # None /\ hal.osVersion = 0
                                                  -> IF p.v # 0 THEN "KeyRequiresUpgrade" ELSE "Ok"
      [] p.tag = "OsVersion" /\ hal # None        -> Check(p.v, hal.osVersion)
      [] p.tag = "OsPatchlevel" /\ hal # None     -> Check(p.v, hal.osPatchlevel)
      [] p.tag = "VendorPatchlevel" /\ hal # None -> Check(p.v, hal.vendorPatchlevel)
      [] p.tag = "BootPatchlevel" /\ boot # None  -> Check(p.v, boot)
      [] OTHER                                    -> "Ok"

(* The for loop with its early return (lib.rs 305-354): walk[i] is the     *)
(* result of the loop started at position i.                               *)
VersionCheck(auths, hal, boot) ==
    LET walk[i \in 1..(Len(auths) + 1)] ==
            IF i = Len(auths) + 1 THEN "Ok"
            ELSE IF ParamCheck(auths[i], hal, boot) # "Ok"
                 THEN ParamCheck(auths[i], hal, boot)
                 ELSE walk[i + 1]
    IN  walk[1]

(* keyblob_decrypt after a successful decrypt (lib.rs 283-355). *)
DecryptCode(cs, hal, boot) ==
    LET at == CharacteristicsAt(cs, LocalLevel)
    IN  IF ~at.ok THEN "InvalidKeyBlob" ELSE VersionCheck(at.auths, hal, boot)

(* keyblob_decrypt once keyblob::decrypt has returned the plaintext        *)
(* (lib.rs 283-355): its result is the verdict on the characteristics.     *)
Unseal ==
    /\ rsp' = DecryptCode(chars, halInfo, bootPatch)
    /\ UNCHANGED <<chars, halInfo, bootPatch>>

Next == Unseal

Spec == Init /\ [][Next]_vars

-----------------------------------------------------------------------------
(* The per-field classification of the spec (section 4.4, unseal step 6),  *)
(* written independently of the code: less than the latched value needs   *)
(* upgrade, greater is a keyblob from the future, and with a latched OS    *)
(* version of zero any non-zero keyblob OS version needs upgrade.  A field *)
(* whose latched value is not known yet is not compared.                   *)
Latched(tag, hal, boot) ==
    CASE tag = "BootPatchlevel"   -> boot
      [] hal = None               -> None
      [] tag = "OsVersion"        -> hal.osVersion
      [] tag = "OsPatchlevel"     -> hal.osPatchlevel
      [] tag = "VendorPatchlevel" -> hal.vendorPatchlevel

SpecVerdict(p, hal, boot) ==
    IF p.tag \notin VersionTags \/ Latched(p.tag, hal, boot) = None THEN "Ok"
    ELSE LET cur == Latched(p.tag, hal, boot) IN
         IF p.tag = "OsVersion" /\ cur = 0 /\ p.v # 0 THEN "KeyRequiresUpgrade"
         ELSE IF p.v < cur THEN "KeyRequiresUpgrade"
         ELSE IF p.v > cur THEN "InvalidKeyBlob"
         ELSE "Ok"

(* The verdict of keyblob_decrypt is one the spec allows: it accepts the   *)
(* keyblob exactly when no version field at the local level disagrees     *)
(* with the latched values, and otherwise returns the verdict of one of   *)
(* the fields that disagree; a keyblob without local characteristics is   *)
(* invalid.  Needs the loop, its early return, check() and the OS-version  *)
(* zero case to agree with the spec.                                       *)
VerdictMatchesSpec ==
    rsp # "None" =>
      LET at == CharacteristicsAt(chars, LocalLevel)
          verdicts == {SpecVerdict(at.auths[i], halInfo, bootPatch) : i \in 1..Len(at.auths)}
      IN  /\ ~at.ok => rsp = "InvalidKeyBlob"
          /\ at.ok => /\ rsp = "Ok" <=> verdicts \subseteq {"Ok"}
                      /\ rsp # "Ok" => rsp \in verdicts

=============================================================================
